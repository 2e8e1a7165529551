----------------------------- MODULE HidReport ------------------------------
(***************************************************************************)
(* nanochrono-core/src/hid_report.rs: a report descriptor, parsed once     *)
(* item by item into one candidate for every report, and asked for the     *)
(* report with a pointer and the one with keys; and reports decoded by     *)
(* what was found.                                                         *)
(***************************************************************************)
EXTENDS Integers, Sequences, FiniteSets, TLC, SequencesExt, FiniteSetsExt

CONSTANTS
  MaxReports, MaxUsages,   \* 16 of each
  ByteBits                 \* the bits of a byte of an item: 8

VARIABLES
  source,    \* what the device says of its reports, and the reports it sends
  code,      \* its descriptor: a sequence of items [k, size, v]
  walk,      \* the parser
  answers    \* the layouts found, and the reports decoded

hidVars == <<source, code, walk, answers>>

None == [t |-> "none"]

Globals == [page |-> "none", minimum |-> 0, size |-> 0, count |-> 0, id |-> None]
\* The ends of a range of usages are sequences of at most one.
Locals  == [usages |-> <<>>, least |-> <<>>, most |-> <<>>]

Roles == {"x", "y", "wheel", "buttons", "modifiers", "keys"}

Candidate(id) == [id |-> id, bits |-> 0, digitizer |-> FALSE, fields |-> [r \in Roles |-> None]]

HidInit ==
  /\ walk = [at |-> 1, globals |-> Globals, locals |-> Locals, reports |-> <<>>,
             digitizers |-> 0, phase |-> "parse"]
  /\ answers = <<>>

(***************************************************************************)
(* Items.  The width of an item's data is the width of its sign.           *)
(***************************************************************************)
Signed(item) ==
  IF item.size > 0 /\ item.v >= 2 ^ (ByteBits * item.size - 1)
  THEN item.v - 2 ^ (ByteBits * item.size) ELSE item.v

(***************************************************************************)
(* An Input item: which fields it is, by the page and the usages before    *)
(* it, from the first bit that is not taken yet.                           *)
(***************************************************************************)
Field(offset, count, signed, relative) ==
  [t |-> "field", offset |-> offset, size |-> walk.globals.size, count |-> count,
   signed |-> signed, relative |-> relative]

Whole(c, count, relative) == Field(c.bits, count, FALSE, relative)

Ranged ==
  /\ walk.locals.least # <<>> /\ walk.locals.most # <<>>
  /\ walk.locals.least[1] <= walk.locals.most[1]

ButtonCount ==
  Min({walk.globals.count,
       IF Ranged THEN walk.locals.most[1] - walk.locals.least[1] + 1 ELSE Len(walk.locals.usages)})

Modifiers == walk.locals.least = <<"LeftControl">> /\ walk.locals.most = <<"RightGUI">>

\* The mistake of putting every usage of an item at its first bit.
UsageOffsetFirst(c, index) == c.bits

UsageOffset(c, index) == c.bits + (index - 1) * walk.globals.size

\* What a role's field would be, None if the item has none.
FieldOf(role, c, flags) ==
  LET g    == walk.globals
      at   == {i \in DOMAIN walk.locals.usages : walk.locals.usages[i] = role}
      keys == g.page = "keyboard"
  IN CASE role = "modifiers" /\ keys /\ flags.variable /\ Modifiers -> Whole(c, g.count, flags.relative)
       [] role = "keys" /\ keys /\ ~flags.variable -> Whole(c, g.count, flags.relative)
       [] role = "buttons" /\ g.page = "button" /\ flags.variable /\ ButtonCount > 0
            -> Whole(c, ButtonCount, flags.relative)
       [] role \in {"x", "y", "wheel"} /\ g.page = "desktop" /\ flags.variable /\ at # {}
            -> Field(UsageOffset(c, Min(at)), 1, g.minimum < 0, flags.relative)
       [] OTHER -> None

\* The first field of a role is kept.  Constants are padding.
Recorded(c, flags) ==
  [c EXCEPT !.fields = [r \in Roles |-> IF @[r] # None \/ flags.constant THEN @[r]
                                        ELSE FieldOf(r, c, flags)],
            !.bits = @ + walk.globals.size * walk.globals.count,
            !.digitizer = @ \/ walk.digitizers > 0]

(***************************************************************************)
(* Steps of the parser.                                                    *)
(***************************************************************************)
Parsing == walk.phase = "parse" /\ walk.at <= Len(code)
Item    == code[walk.at]
Is(k)   == Parsing /\ Item.k = k
Goes(w) == walk' = [w EXCEPT !.at = @ + 1]

\* There is no candidate, and then no layout.
Give ==
  /\ walk' = [walk EXCEPT !.phase = "given up"]
  /\ answers' = <<None, None>>

Slot == {i \in DOMAIN walk.reports : walk.reports[i].id = walk.globals.id}

Input ==
  /\ Is("input")
  /\ IF Slot = {} /\ Len(walk.reports) = MaxReports THEN Give
     ELSE /\ LET reports == IF Slot # {} THEN walk.reports
                            ELSE Append(walk.reports, Candidate(walk.globals.id))
                 i == IF Slot # {} THEN CHOOSE i \in Slot : TRUE ELSE Len(reports)
             IN Goes([walk EXCEPT !.reports = [reports EXCEPT ![i] = Recorded(@, Item.v)],
                                  !.locals = Locals])
          /\ UNCHANGED answers

\* Whatever is nested in a digitizer is one, too.
Collection ==
  /\ Is("collection")
  /\ Goes([walk EXCEPT !.locals = Locals,
                       !.digitizers = IF walk.globals.page = "digitizer" \/ @ > 0 THEN @ + 1 ELSE @])
  /\ UNCHANGED answers

EndCollection ==
  /\ Is("end")
  /\ Goes([walk EXCEPT !.locals = Locals, !.digitizers = IF @ > 0 THEN @ - 1 ELSE 0])
  /\ UNCHANGED answers

\* Outputs and features use up what is local and take no room in a report.
OtherMain ==
  /\ Is("output")
  /\ Goes([walk EXCEPT !.locals = Locals])
  /\ UNCHANGED answers

Global ==
  /\ Parsing /\ Item.k \in {"page", "minimum", "size", "count", "id"}
  /\ Goes([walk EXCEPT !.globals[Item.k] = IF Item.k = "minimum" THEN Signed(Item) ELSE Item.v])
  /\ UNCHANGED answers

\* A usage of four bytes brings its page with it.
Usage ==
  /\ Is("usage")
  /\ Goes([walk EXCEPT !.globals.page = IF Item.size = 4 THEN Item.page ELSE @,
                       !.locals.usages = IF Len(@) < MaxUsages THEN Append(@, Item.v) ELSE @])
  /\ UNCHANGED answers

UsageRange ==
  /\ Parsing /\ Item.k \in {"least", "most"}
  /\ Goes([walk EXCEPT !.locals[Item.k] = <<Item.v>>])
  /\ UNCHANGED answers

\* A long item is stepped over.
LongItem == Is("long") /\ Goes(walk) /\ UNCHANGED answers

\* Push and Pop are not understood, and an item that is cut off is not one.
Refuse == Parsing /\ Item.k \in {"push", "cut"} /\ Give

(***************************************************************************)
(* What was found.                                                         *)
(***************************************************************************)
FirstReport(Test(_)) ==
  LET found == SelectSeq(walk.reports, Test) IN IF found = <<>> THEN None ELSE found[1]

Layout(c, roles) ==
  IF c = None THEN None
  ELSE [t |-> "layout", id |-> c.id, bytes |-> (c.bits + 7) \div 8,
        fields |-> [r \in roles |-> c.fields[r]]]

FindPointer ==
  Layout(FirstReport(LAMBDA c : c.fields.x # None /\ c.fields.y # None /\ ~c.digitizer),
         {"x", "y", "wheel", "buttons"})

FindKeyboard == Layout(FirstReport(LAMBDA c : c.fields.keys # None), {"modifiers", "keys"})

Find ==
  /\ walk.phase = "parse" /\ walk.at > Len(code)
  /\ answers' = <<FindPointer, FindKeyboard>>
  /\ walk' = [walk EXCEPT !.phase = "found"]

(***************************************************************************)
(* Reports, as sequences of bits.  A value that does not fit is zero.      *)
(***************************************************************************)
Value(field, body, index) ==
  LET start == field.offset + index * field.size
      raw   == FoldSet(LAMBDA b, sum : sum + body[start + b + 1] * 2 ^ b, 0, 0 .. field.size - 1)
  IN CASE field = None -> 0
       [] index >= field.count \/ field.size = 0 \/ start + field.size > Len(body) -> 0
       [] field.signed /\ raw >= 2 ^ (field.size - 1) -> raw - 2 ^ field.size
       [] OTHER -> raw

Values(field, body, most) ==
  [i \in 1 .. IF field = None THEN 0 ELSE Min({field.count, most}) |-> Value(field, body, i - 1)]

\* Reports of other collections are not the layout's.
Decode(layout, report) ==
  CASE layout = None \/ (layout.id # None /\ layout.id # report.id) -> None
    [] "keys" \in DOMAIN layout.fields ->
         [keys      |-> Values(layout.fields.keys, report.bits, 6),
          modifiers |-> Values(layout.fields.modifiers, report.bits, 8)]
    [] OTHER ->
         [buttons   |-> Values(layout.fields.buttons, report.bits, 3)] @@
         [r \in {"x", "y", "wheel"} |-> Value(layout.fields[r], report.bits, 0)]

Decoded == Len(answers) - 2

DecodeReport ==
  /\ walk.phase # "parse" /\ Decoded < Len(source.reports)
  /\ LET report == source.reports[Decoded + 1]
     IN answers' = Append(answers, [pointer  |-> Decode(answers[1], report),
                                    keyboard |-> Decode(answers[2], report)])
  /\ UNCHANGED walk

HidDone == walk.phase # "parse" /\ Decoded = Len(source.reports)

HidNext ==
  /\ \/ Input \/ Collection \/ EndCollection \/ OtherMain \/ Global \/ Usage \/ UsageRange
     \/ LongItem \/ Refuse \/ Find \/ DecodeReport
  /\ UNCHANGED <<source, code>>

\* The report that an item declares a part of.
IdAt(i) ==
  LET ids == {j \in 1 .. i - 1 : code[j].k = "id"} IN IF ids = {} THEN None ELSE code[Max(ids)].v

\* A descriptor that is not parsed as it stands: it has an item that is not
\* understood, or is of more reports than there are candidates for.
Refused ==
  \/ \E i \in DOMAIN code : code[i].k \in {"push", "cut"}
  \/ Cardinality({IdAt(i) : i \in {i \in DOMAIN code : code[i].k = "input"}}) > MaxReports

(***************************************************************************)
(* Reports say to the program what they say to the device that declared    *)
(* them: a report of its pointer moves it by as much, one of its keyboard  *)
(* holds the same keys, and one of anything else - a digitizer's contacts  *)
(* above all - is neither.  Only of a descriptor that is refused is        *)
(* nothing understood, and one of too many reports is: slot_for() has no   *)
(* place for the first too many, which ends the parse and takes what was   *)
(* found before with it.  (hid_report.rs, 324-326, has it "parsed up to    *)
(* the limit rather than refused".)                                        *)
(***************************************************************************)
ReportsMeanTheSame ==
  \A i \in 1 .. Decoded :
    answers[i + 2] = IF Refused THEN [pointer |-> None, keyboard |-> None] ELSE source.reports[i].means
=============================================================================
