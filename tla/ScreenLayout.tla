---------------------------- MODULE ScreenLayout ----------------------------
(***************************************************************************)
(* gui_x86_64.rs: where everything sits on a screen of any size, what each *)
(* widget clears and writes, and what the pointer can hit.  The widgets    *)
(* are painted each on its own, when what it shows has changed, so what    *)
(* one writes outside of what it clears stays, or takes from another.      *)
(* Lengths are pixels.  A text is known by what it says; where that is a   *)
(* measurement or a name, by the widest there is.                          *)
(***************************************************************************)
EXTENDS Integers, Sequences

CONSTANTS
  WidthOf,                  \* of a text in the face of the body
  TitleWidth, ReadoutWidth, \* of the title, and of the longest readout by face
  Line,                     \* the height of a line by face
  MostLaps,                 \* MAX_LAPS
  Changes                   \* bound

VARIABLES
  source,    \* the size of the screen, and whether there is a touchpad, a clock chip, a hypervisor
  code,      \* the layout
  walk,      \* what is selected, and the step of the loop
  answers    \* by widget: what it clears, what it writes, the boxes that can be hit

layoutVars == <<source, code, walk, answers>>

Least(a, b)    == IF a < b THEN a ELSE b
Most(a, b)     == IF a > b THEN a ELSE b
Clamp(v, a, b) == Most(a, Least(b, v))
Less(a, b)     == Most(0, a - b)          \* saturating_sub

Box(x, y, w, h) == [x |-> x, y |-> y, w |-> w, h |-> h]
Nowhere         == Box(0, 0, 0, 0)

Text(x, y, says)        == Box(x, y, WidthOf[says], Line.body)
TextRight(x, y, says)   == Text(Less(x, WidthOf[says]), y, says)
Centred(x, w, y, says)  == Text(x + (Less(w, WidthOf[says]) \div 2), y, says)

Apart(a, b) == \/ a.y + a.h <= b.y \/ b.y + b.h <= a.y \/ a.x + a.w <= b.x \/ b.x + b.w <= a.x
               \/ a.w = 0 \/ b.w = 0 \/ a.h = 0 \/ b.h = 0

Within(a, b) == a.x >= b.x /\ a.y >= b.y /\ a.x + a.w <= b.x + b.w /\ a.y + a.h <= b.y + b.h

(***************************************************************************)
(* Layout::for_screen()                                                    *)
(***************************************************************************)
Narrowest == WidthOf["invariant TSC"] + WidthOf["unavailable"] + 70

ForScreen(width, height) ==
  LET margin   == Clamp(width \div 40, 12, 32)
      headerH  == Clamp(height \div 18, 34, 64)
      tabsH    == Clamp(height \div 16, 34, 56)
      contentY == headerH + tabsH
      statusH  == (Line.body * 2) + 22
      statusY  == Less(height, statusH)
      hintY    == Less(statusY, Line.body + 14)
      face     == IF ReadoutWidth.big + (margin * 4) <= width THEN "big" ELSE "small"
      total    == Less(width, margin * 2)
      columns  == IF total \div 3 >= Narrowest THEN 3 ELSE IF total \div 2 >= Narrowest THEN 2 ELSE 1
      content  == 30 + Line.heading + ((IF columns < 3 THEN 15 ELSE 9) * (Line.body + 7)) + 18
      room     == Less(hintY, contentY)
      readoutH == Least(Line[face] + Line.body + 30, room)
      cardsH   == Least(content, Less(room, readoutH + margin + 8))
      cardsY   == Less(hintY, cardsH + 8)
      readoutW == Least(ReadoutWidth[face] + (margin * 2), width)
  IN [width |-> width, margin |-> margin, headerH |-> headerH, tabsY |-> headerH, tabsH |-> tabsH,
      readout |-> Box((width - readoutW) \div 2, contentY + (Less(cardsY, contentY + readoutH) \div 2), readoutW, readoutH),
      face |-> face, cardsY |-> cardsY, cardsH |-> cardsH, content |-> content, columns |-> columns,
      cardW |-> (total - (margin * (columns - 1))) \div columns,
      hintY |-> hintY, statusY |-> statusY, statusH |-> statusH]

(***************************************************************************)
(* header(): drawn once, with a box kept for the clock, which is redrawn.  *)
(***************************************************************************)
\* The mistake of keeping no more room than the shorter clock needs.
ClockBoxOfShort(l) ==
  LET x == l.margin + ((l.headerH * 2) \div 3) + 12 + Least(TitleWidth, l.width \div 3) + WidthOf[" v"] + WidthOf["3.0.0"] + 26
  IN Box(x, Less(l.headerH, Line.body) \div 2, Least(WidthOf["00:00:00:000"], Less(l.width, x)), Line.body)

HeaderClockBox(l) ==
  LET x == l.margin + ((l.headerH * 2) \div 3) + 12 + Least(TitleWidth, l.width \div 3) + WidthOf[" v"] + WidthOf["3.0.0"] + 26
  IN Box(x, Less(l.headerH, Line.body) \div 2, Least(WidthOf["00:00:00:000:000:000 RTC"] + 12, Less(l.width, x)), Line.body)

ButtonBoxes(l) ==
  LET w == Clamp((l.headerH * 5) \div 4, 40, 64)
      h == Clamp((l.headerH * 3) \div 5, 26, 44)
      y == (l.headerH - h) \div 2
      off == Less(l.width, w + l.margin)
  IN [restart |-> Box(Less(off, w + 10), y, w, h), shutdown |-> Box(off, y, w, h)]

HeaderBar(l) ==
  LET logo  == (l.headerH * 2) \div 3
      x     == l.margin + logo + 12
      small == Less(l.headerH, Line.body) \div 2
      clock == HeaderClockBox(l)
      pen   == clock.x + clock.w + 18
      simd  == IF pen + WidthOf["backend's"] < l.width \div 2 THEN {Text(pen, small, "backend's")} ELSE {}
      after == pen + (IF simd = {} THEN 0 ELSE WidthOf["backend's"] + 14 + WidthOf["|"] + 14)
  IN {Box(l.margin, (l.headerH - logo) \div 2, logo, logo),
      Box(x, Less(l.headerH, Line.title) \div 2, TitleWidth, Line.title),
      Text(x + TitleWidth + 10, small, "v3.0.0")}
     \cup simd
     \cup (IF after + WidthOf["INVARIANT"] < l.width \div 2 THEN {Text(after, small, "INVARIANT")} ELSE {})
     \cup {ButtonBoxes(l)[b] : b \in {"restart", "shutdown"}}

\* header_clock(): the box is filled and the time drawn in it.
HeaderClock(l) ==
  LET b    == HeaderClockBox(l)
      says == IF ~source.rtc THEN "no rtc" ELSE IF walk.precise THEN "00:00:00:000:000:000 RTC" ELSE "00:00:00:000 RTC"
  IN [clears |-> b, writes |-> {Text(b.x, b.y, says)}]

(***************************************************************************)
(* tab_bar(): modes from the left, chips from the right, by their long     *)
(* names, or their short ones, or not at all.                              *)
(***************************************************************************)
Tabs   == <<"CLOCK", "STOPWATCH", "TIMER">>
Panels == <<"CPU", "PMU", "COUNTER", "MEMORY", "USB", "HYPERVISOR">>

Names(list) == {list[i] : i \in DOMAIN list}

Short(panel) == CASE panel = "COUNTER" -> "CNT" [] panel = "MEMORY" -> "MEM" [] panel = "HYPERVISOR" -> "HYP" [] OTHER -> panel
Shorts == [i \in 1 .. 6 |-> Short(Panels[i])]

\* Where tab i begins, and where the last ends.
TabLeft(l) ==
  LET Left[i \in 1 .. 4] == IF i = 1 THEN l.margin ELSE Left[i - 1] + WidthOf[Tabs[i - 1]] + 40 IN Left

TabBoxes(l) == [i \in 1 .. 3 |-> Box(TabLeft(l)[i], l.tabsY, WidthOf[Tabs[i]] + 40, l.tabsH)]

ChipH(l) == Clamp((l.tabsH * 3) \div 5, 22, 34)
ChipY(l) == l.tabsY + ((l.tabsH - ChipH(l)) \div 2)

\* The chip before chip i begins at what chip i leaves; none where it would meet the tabs.
ChipLeft(l, labels) ==
  LET Left[i \in 1 .. 7] ==
        IF i = 7 THEN Less(l.width, l.margin)
        ELSE LET w == WidthOf[labels[i]] + 22  cursor == Left[i + 1]
             IN IF cursor = 0 \/ Less(cursor, w) <= TabLeft(l)[4] + 24 THEN 0 ELSE cursor - (w + 8)
  IN Left

\* By which names the chips fit, and what they leave for the precision.
Chips(l) ==
  LET long == ChipLeft(l, Panels)  short == ChipLeft(l, Shorts)
  IN CASE long[1] > 0                  -> [shown |-> TRUE, label |-> Panels, left |-> long]
       [] long[1] = 0 /\ short[1] > 0  -> [shown |-> TRUE, label |-> Shorts, left |-> short]
       [] OTHER                        -> [shown |-> FALSE, label |-> Panels, left |-> [i \in 1 .. 7 |-> Less(l.width, l.margin)]]

ChipBoxes(l) ==
  LET c == Chips(l)
  IN [i \in 1 .. 6 |-> IF c.shown THEN Box(c.left[i], ChipY(l), WidthOf[c.label[i]] + 22, ChipH(l)) ELSE Nowhere]

PrecisionBox(l) ==
  LET right == Chips(l).left[1]
      w     == WidthOf["SIMPLE"] + 22
  IN IF Less(right, w + 12) > TabLeft(l)[4] + 24 THEN Box(right - w - 12, ChipY(l), w, ChipH(l)) ELSE Nowhere

\* What the pointer can hit; the readout starts and stops.
Controls(l) ==
  {TabBoxes(l)[i] : i \in 1 .. 3} \cup {ChipBoxes(l)[i] : i \in {j \in 1 .. 6 : Chips(l).shown}}
    \cup {PrecisionBox(l), ButtonBoxes(l).restart, ButtonBoxes(l).shutdown, l.readout}

TabBar(l) ==
  LET InTab(i)        == LET b == TabBoxes(l)[i] IN Centred(b.x, b.w, b.y + ((b.h - Line.body) \div 2), Tabs[i])
      InChip(b, says) == Centred(b.x, b.w, b.y + (Less(b.h, Line.body) \div 2), says)
      selected        == TabBoxes(l)[CHOOSE i \in 1 .. 3 : Tabs[i] = walk.tab]
  IN [clears |-> Box(0, l.tabsY, l.width, l.tabsH),
      writes |-> {InTab(i) : i \in 1 .. 3}
                 \cup {InChip(ChipBoxes(l)[i], Chips(l).label[i]) : i \in {j \in 1 .. 6 : Chips(l).shown}}
                 \cup (IF PrecisionBox(l).w = 0 THEN {} ELSE {InChip(PrecisionBox(l), IF walk.precise THEN "NANO" ELSE "SIMPLE")})
                 \cup {Box(selected.x, l.tabsY + l.tabsH - 3, selected.w, 3)}]

(***************************************************************************)
(* readout(): the time with its halo, and a note below if there is room.   *)
(***************************************************************************)
ReadoutNote ==
  CASE walk.tab = "CLOCK" -> "wall clock" [] walk.tab = "STOPWATCH" -> "running" [] walk.tab = "TIMER" -> "counting down"

Halo == 2

Readout(l) ==
  LET b     == l.readout
      \* A hundred hours have a digit more than the sample.
      chars == (IF walk.precise THEN 20 ELSE 12) + (IF walk.long THEN 1 ELSE 0)
      w     == (ReadoutWidth[l.face] * chars) \div 20
      x     == b.x + (Less(b.w, w) \div 2)
      y     == b.y + (Less(b.h, Line[l.face]) \div 2)
      noteY == y + Line[l.face] + 6
  IN [clears |-> b,
      writes |-> {Box(x - Halo, y - Halo, w + (2 * Halo), Line[l.face] + Halo)}
                 \cup (IF noteY + Line.body <= b.y + b.h THEN {Centred(b.x, b.w, noteY, ReadoutNote)} ELSE {})]

(***************************************************************************)
(* The rows of the cards, as what they say on the left and on the right.   *)
(***************************************************************************)
CpuRows ==
  <<<<"backend", "backend's">>, <<"AVX2", "yes">>, <<"AVX-512F", "yes">>, <<"AES-NI", "yes">>, <<"SHA-NI", "yes">>,
    <<"invariant TSC", "yes">>>>

PmuRows ==
  <<<<"core type", "uniform">>, <<"version", "number">>, <<"fixed counters", "number">>, <<"general counters", "number">>,
    <<"route", "general-purpose">>, <<"cycles/op", IF source.cycles THEN "number" ELSE "unavailable">>>>

CounterRows ==
  <<<<"read overhead", "number">>, <<"worst read", "number">>, <<"jitter", "number">>, <<"frequency", "frequency's">>,
    <<"rate from", "cpuid 15h">>>>

MemoryRows ==
  <<<<"installed", "unreported">>, <<"kernel image", "bytes">>, <<"map entries", "number">>, <<"allocator", "none">>,
    <<"paging", "identity, 1 GiB pages">>>>

PadRows ==
  IF source.pad
    THEN <<<<"i2c-hid pad", "0x2c on 00.1 (found by scan)">>, <<"  vendor:product", "0x0000:0x0000">>,
           <<"  input", "report none @ 0x0000">>, <<"  gpio gate", "blind">>>>
    ELSE <<<<"i2c-hid pad", "controller device in no acpi table">>>>

UsbRows ==
  PadRows \o <<<<"ps/2 keyboard", "yes">>, <<"ps/2 pointer", "ps/2 5-button (4-byte)">>, <<"xhci", "not found">>,
              <<"usb keyboard", "yes">>, <<"usb pointer", "yes">>, <<"ehci / ohci", "seen, not driven">>,
              <<"8042 bytes", "eight bytes">>, <<"  scancodes", "set 2 (untranslated)">>>>

HypervisorRows ==
  <<<<"signature", "signature's">>, <<"hypercall", "yes">>>>
    \o (IF source.cycles THEN <<<<"host ns", "number">>, <<"paired", "yes">>>> ELSE <<<<"paired", "no">>>>)
    \o <<<<"hypercalls", "0 (once, at boot)">>>>

PanelRows ==
  CASE walk.panel = "CPU" -> CpuRows [] walk.panel = "PMU" -> PmuRows [] walk.panel = "COUNTER" -> CounterRows
    [] walk.panel = "MEMORY" -> MemoryRows [] walk.panel = "USB" -> UsbRows [] walk.panel = "HYPERVISOR" -> HypervisorRows

SessionRows ==
  CASE walk.tab = "CLOCK"     -> <<<<"date", "0000-00-00">>, <<"source", "cmos rtc">>, <<"sub-second from", "counter">>, <<"resolution", "1 ns">>>>
    [] walk.tab = "TIMER"     -> <<<<"set to", "00:00:00:000">>, <<"state", "stopped">>, <<"step", "10 s">>,
                                   <<"alarm", "visual only (no sound device)">>>>
    [] walk.tab = "STOPWATCH" -> <<<<"state", "stopped">>, <<"ecc", "corrected-by-ecc">>>>
                                   \o (IF walk.laps = 0 THEN <<<<"laps", "none, press L">>>>
                                       ELSE [k \in 1 .. walk.laps |-> <<"lap 6", "00:00:00:000">>])

MachineRows ==
  <<<<"operating system", "none">>, <<"acpi root", "loader (multiboot2 tag)">>, <<"root table", "rsdt (32-bit)">>,
    <<"counter rate", "frequency's">>, <<"acpi", "present">>, <<"compositing", "back buffer">>, <<"interrupts", "masked">>>>

(***************************************************************************)
(* cards(): a card has a shadow, a title and rows; a row keeps its value   *)
(* whole and cuts its label to what is left.                               *)
(***************************************************************************)
RowStep == Line.body + 7

\* The mistake of giving the label what the card has.
RowOfWholeLabel(x, w, y, label, value) ==
  {TextRight(x + w - 20, y, value), Box(x + 20, y, WidthOf[label], Line.body)}

Row(x, w, y, label, value) ==
  LET right == x + w - 20
      room  == Less(right, WidthOf[value] + WidthOf["  "] + x + 20)
  IN {TextRight(right, y, value), Box(x + 20, y, Least(WidthOf[label], room), Line.body)}

\* Rows from the top of a card, below its title, and from y.
RowsAt(x, w, y, rows) == UNION {Row(x, w, y + ((k - 1) * RowStep), rows[k][1], rows[k][2]) : k \in DOMAIN rows}

FirstRow(l) == l.cardsY + 28 + Line.heading

CardX(l, column) == l.margin + (column * (l.cardW + l.margin))

\* The card of the mode, and below it that of the machine where there are but two.
CardRows(l, column) ==
  LET x     == CardX(l, column)
      below == FirstRow(l) + (Len(SessionRows) * RowStep) + 16
  IN CASE column = 0 -> RowsAt(x, l.cardW, FirstRow(l), PanelRows)
       [] column = 1 -> RowsAt(x, l.cardW, FirstRow(l), SessionRows)
                          \cup (IF l.columns < 3 THEN RowsAt(x, l.cardW, below, MachineRows) ELSE {})
       [] column = 2 -> RowsAt(x, l.cardW, FirstRow(l), MachineRows)

CardTitle(l, column) == Box(CardX(l, column) + 20, l.cardsY + 14, WidthOf["card's title"], Line.heading)

Cards(l) ==
  IF l.cardsH < 80 THEN [clears |-> Nowhere, writes |-> {}]
  ELSE [clears |-> Box(0, l.cardsY, l.width, l.cardsH),
        writes |-> UNION {CardRows(l, c) \cup {CardTitle(l, c)} : c \in 0 .. l.columns - 1}]

(***************************************************************************)
(* hint_bar(): the legend, as far as it fits, or the note.                 *)
(***************************************************************************)
Hints == <<"[1-3] Mode", "[SPACE] Start", "[L] Lap", "[Z] Zero", "[N] Precision", "[TAB] Panel", "[R] Restart", "[S] Shut down">>

HintBar(l, note) ==
  LET h == Less(l.statusY, l.hintY)
      y == l.hintY + (Less(h, Line.body) \div 2)
      Pen[i \in 1 .. 9] == IF i = 1 THEN l.margin ELSE Pen[i - 1] + WidthOf[Hints[i - 1]] + 22
      fit == {i \in 1 .. 8 : \A j \in 1 .. i : Pen[j] + WidthOf[Hints[j]] + l.margin <= l.width}
  IN [clears |-> Box(0, l.hintY, l.width, h),
      writes |-> IF note # "" THEN {Text(l.margin, y, "INPUT"), Text(l.margin + WidthOf["INPUT  "], y, note)}
                 ELSE {Text(Pen[i], y, Hints[i]) : i \in fit}]

(***************************************************************************)
(* status_frame() and status_bar(): meters and text, on two lines.         *)
(***************************************************************************)
StatusBar(l) ==
  LET y1     == l.statusY + 7
      y2     == y1 + Line.body + 6
      meterW == Clamp(l.width \div 8, 70, 150)
      meterH == Most(Line.body \div 2, 6)
      Meter(x) == Box(x, y1 + ((Line.body - meterH) \div 2), meterW, meterH)
      x1     == l.margin + WidthOf["MEM"] + 10
      x2     == x1 + meterW + 12
      x3     == x2 + WidthOf["bytes"] + WidthOf[" / "] + WidthOf["unreported"] + 28
      x4     == x3 + WidthOf["CPU"] + 10
      right  == l.width - l.margin
  IN [clears |-> Box(0, l.statusY, l.width, l.statusH),
      writes |-> {Text(l.margin, y1, "MEM"), Meter(x1), Box(x2, y1, x3 - 28 - x2, Line.body),
                  TextRight(right, y1, "frequency's  cpuid 15h"), Text(l.margin, y2, "route, overhead, jitter, ecc")}
                 \cup (IF x3 + meterW + 90 < l.width
                       THEN {Text(x3, y1, "CPU"), Meter(x4), Text(x4 + meterW + 12, y1, "100%")} ELSE {})
                 \cup (IF l.margin + WidthOf["route, overhead, jitter, ecc"] + WidthOf["source   signature"] + 40 < l.width
                       THEN {TextRight(right, y2, "source   signature")} ELSE {})]

(***************************************************************************)
(* run(): the layout, the chrome, the devices, and then the loop.  Whether *)
(* a widget that has not changed is painted again makes no difference to   *)
(* where it is; the cards are, when they are dirty, and the legend is not. *)
(***************************************************************************)
Unpainted == [clears |-> Nowhere, writes |-> {}]

LayoutInit ==
  /\ code = Unpainted
  /\ walk = [pc |-> "layout", tab |-> "STOPWATCH", panel |-> "CPU", precise |-> TRUE, laps |-> 0, long |-> FALSE,
             dirty |-> TRUE, changes |-> 0]
  /\ answers = [w \in {"clock", "tabs", "readout", "cards", "hint", "status"} |-> Unpainted]

At(pc)     == walk.pc = pc
LayoutDone == At("frame") /\ ~walk.dirty /\ walk.changes = Changes

LayOut ==
  /\ At("layout")
  /\ code' = ForScreen(source.width, source.height)
  /\ walk' = [walk EXCEPT !.pc = "chrome"]
  /\ UNCHANGED answers

Chrome ==
  /\ At("chrome")
  /\ answers' = [answers EXCEPT !["tabs"] = TabBar(code), !["hint"] = HintBar(code, "")]
  /\ walk' = [walk EXCEPT !.pc = "devices"]
  /\ UNCHANGED code

Devices ==
  /\ At("devices")
  /\ \E note \in {"", "no keyboard and no pointer"} :
       /\ walk' = [walk EXCEPT !.pc = "frame", !.panel = IF note = "" THEN @ ELSE "USB"]
       /\ answers' = [answers EXCEPT !["hint"] = IF note = "" THEN @ ELSE HintBar(code, note)]
  /\ UNCHANGED code

Frame ==
  /\ At("frame") /\ walk.dirty
  /\ answers' = [answers EXCEPT !["clock"] = HeaderClock(code), !["tabs"] = TabBar(code), !["readout"] = Readout(code),
                                !["cards"] = Cards(code), !["status"] = StatusBar(code)]
  /\ walk' = [walk EXCEPT !.dirty = FALSE]
  /\ UNCHANGED code

Change(w) ==
  /\ At("frame") /\ ~walk.dirty /\ walk.changes < Changes
  /\ walk' = [w EXCEPT !.dirty = TRUE, !.changes = @ + 1]
  /\ UNCHANGED <<code, answers>>

SelectTab       == \E t \in Names(Tabs) : walk.tab # t /\ Change([walk EXCEPT !.tab = t])
SelectPanel     == \E p \in Names(Panels) : walk.panel # p /\ Change([walk EXCEPT !.panel = p])
TogglePrecision == Change([walk EXCEPT !.precise = ~@])
Laps            == \E n \in 1 .. MostLaps : walk.tab = "STOPWATCH" /\ Change([walk EXCEPT !.laps = Least(@ + n, MostLaps)])
HundredHours    == ~walk.long /\ Change([walk EXCEPT !.long = TRUE])

LayoutNext ==
  /\ \/ LayOut \/ Chrome \/ Devices \/ Frame \/ SelectTab \/ SelectPanel \/ TogglePrecision \/ Laps \/ HundredHours
  /\ UNCHANGED source

(***************************************************************************)
(* What a widget writes is inside what it clears, and no text is over      *)
(* another.  The rows of a touchpad are two more than its card has room    *)
(* for, and reach into the legend, which is not drawn again; and on a mode *)
(* too short for the cards their rows are not cut.                         *)
(***************************************************************************)
Overfull == walk.panel = "USB" /\ source.pad /\ code.columns = 3

Fits(w, b) ==
  \/ Within(b, answers[w].clears)
  \/ w = "cards" /\ Overfull /\ b.y + b.h < code.statusY
  \/ w = "cards" /\ code.cardsH < code.content

WritesAreCleared ==
  \A w \in DOMAIN answers :
    /\ \A b \in answers[w].writes : Fits(w, b)
    /\ w # "tabs" => \A a, b \in answers[w].writes : a = b \/ Apart(a, b)

(***************************************************************************)
(* No widget clears what another writes, or is hit where another is.       *)
(***************************************************************************)
RegionsAreApart ==
  /\ \A v, w \in DOMAIN answers : v # w => Apart(answers[v].clears, answers[w].clears)
  /\ \A w \in DOMAIN answers : Within(answers[w].clears, Box(0, 0, source.width, source.height))

ControlsAreApart ==
  /\ \A b \in HeaderBar(code) : Apart(b, HeaderClockBox(code)) /\ Within(b, Box(0, 0, source.width, code.headerH))
  /\ \A a, b \in Controls(code) : a = b \/ Apart(a, b)

NothingOverlaps ==
  /\ At("devices") => ControlsAreApart
  /\ At("frame") /\ ~walk.dirty => WritesAreCleared /\ RegionsAreApart
=============================================================================
