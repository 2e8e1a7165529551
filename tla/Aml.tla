-------------------------------- MODULE Aml ---------------------------------
(***************************************************************************)
(* nanochrono-core/src/aml.rs: a table is walked, device by device, and    *)
(* asked where the one that is wanted is; what is read out of its tokens   *)
(* is held against what they mean.                                         *)
(***************************************************************************)
EXTENDS Integers, Sequences, FiniteSets, TLC, SequencesExt

CONSTANTS
  MaxPath,   \* MAX_PATH
  Budget,   \* BUDGET: opcodes one evaluation may execute
  IntBits,   \* the width of an integer: 64
  Depth,   \* CONDITIONAL_DEPTH
  EisaName(_),   \* the text of a compressed identifier
  Cid,   \* I2C_HID_CID
  Uuid,   \* I2C_HID_DSM_UUID
  MaxRegister,   \* the largest register: u16::MAX
  Windows,   \* room for GPIO communities
  GpioPath   \* the controller that is asked for

VARIABLES
  source,   \* what the table says: its terms, and the program of a _DSM
  code,     \* the table: Namespace.code
  walk,     \* the lists being walked, the innermost last, and the devices
            \* visited, with the extent of their bodies
  answers   \* what was asked and what came of it

(***************************************************************************)
(* What a table says: definitions and statements as trees, the tokens they *)
(* are assembled to, and what they mean.  The readers below, which see the *)
(* tokens, are checked against it.                                         *)
(***************************************************************************)
Op(op)         == [op |-> op]
Byte(n)        == [op |-> "Byte", v |-> n]
Num(n)         == [op |-> "Int", v |-> n]
Path(abs, segs) == [op |-> "Path", abs |-> abs, segs |-> segs]
Seg(name)      == Path(FALSE, <<name>>)

\* A package of these tokens behind its length.
Packed(tokens) == <<[op |-> "Pkg", len |-> 1 + Len(tokens)]>> \o tokens

Buffer(contents) ==
  <<Op("Buffer")>> \o Packed(<<Num(Len(contents)), [op |-> "Bytes", v |-> contents]>>)

(***************************************************************************)
(* Definitions.  A leaf is a definition of whatever kind, as tokens; one   *)
(* that is not understood ends its list.                                   *)
(***************************************************************************)
LeafOf(tokens)         == [k |-> "leaf", tokens |-> tokens, known |-> TRUE]
Opaque(tokens)         == [k |-> "leaf", tokens |-> tokens, known |-> FALSE]
Named(name, datum)     == [k |-> "name", name |-> name, datum |-> datum]
Defined(name, n, body) == [k |-> "method", name |-> name, args |-> n, body |-> body]
Container(k, path, body) == [k |-> k, path |-> path, body |-> body]
Conditional(k, test, body) == [k |-> k, test |-> test, body |-> body]

FixedBytes == [device |-> 0, processor |-> 6, power |-> 3, thermal |-> 0]
ExtOp      == [device |-> "Device", processor |-> "Processor", power |-> "PowerRes",
               thermal |-> "ThermalZone"]

RECURSIVE Tokens(_)
TokensOf(terms) == FlattenSeq([i \in DOMAIN terms |-> Tokens(terms[i])])

Tokens(t) ==
  CASE t.k = "leaf"   -> t.tokens
    [] t.k = "name"   -> <<Op("Name"), Seg(t.name)>> \o t.datum
    [] t.k = "method" -> <<Op("Method")>> \o Packed(<<Seg(t.name), Byte(t.args)>> \o t.body)
    [] t.k = "scope"  -> <<Op("Scope")>> \o Packed(<<t.path>> \o TokensOf(t.body))
    [] t.k \in DOMAIN ExtOp ->
         <<Op("Ext"), Op(ExtOp[t.k])>>
           \o Packed(<<t.path>> \o [i \in 1 .. FixedBytes[t.k] |-> Byte(0)] \o TokensOf(t.body))
    [] t.k = "If"     -> <<Op("If")>> \o Packed(t.test \o TokensOf(t.body))
    [] t.k = "Else"   -> <<Op("Else")>> \o Packed(TokensOf(t.body))

\* The devices a list of terms declares, in order, as far as it is understood
\* and they can be named.
RECURSIVE Declared(_, _, _)
Declared(terms, scope, depth) ==
  IF terms = <<>> \/ (Head(terms).k = "leaf" /\ ~Head(terms).known) THEN <<>>
  ELSE LET t    == Head(terms)
           full == (IF t.path.abs THEN <<>> ELSE scope) \o t.path.segs
           here == CASE t.k \in DOMAIN ExtOp \cup {"scope"} ->
                          (IF t.k = "device" /\ Len(full) <= depth
                           THEN <<[path |-> full, terms |-> t.body]>> ELSE <<>>)
                          \o Declared(t.body, full, depth)
                     [] t.k \in {"If", "Else"} -> Declared(t.body, scope, depth)
                     [] OTHER -> <<>>
       IN here \o Declared(Tail(terms), scope, depth)

(***************************************************************************)
(* Methods: expressions, statements, and what they do.                     *)
(***************************************************************************)
Local(i) == [op |-> "Local", i |-> i]
Arg(i)   == [op |-> "Arg", i |-> i]

Const(v)     == [e |-> "const", v |-> v]
Var(token)   == [e |-> "var", token |-> token]
Global(name) == [e |-> "global", name |-> name]
Apply(op, l, r) == [e |-> "apply", op |-> op, l |-> l, r |-> r]

RECURSIVE ExprTokens(_)
ExprTokens(x) ==
  CASE x.e = "const"  -> IF x.v.t = "buf" THEN Buffer(x.v.v) ELSE <<Num(x.v.v)>>
    [] x.e = "var"    -> <<x.token>>
    [] x.e = "global" -> <<Seg(x.name)>>
    [] x.e = "apply"  -> <<Op(x.op)>> \o ExprTokens(x.l) \o ExprTokens(x.r)
                           \o (IF x.op \in {"Add", "Subtract"} THEN <<Num(0)>> ELSE <<>>)

RECURSIVE StmtTokens(_)
BlockTokens(block) == FlattenSeq([i \in DOMAIN block |-> StmtTokens(block[i])])
StmtTokens(s) ==
  CASE s.s = "set"    -> <<Op("Store")>> \o ExprTokens(s.x) \o <<s.target>>
    [] s.s = "inc"    -> <<Op("Increment"), s.target>>
    [] s.s = "return" -> <<Op("Return")>> \o ExprTokens(s.x)
    [] s.s = "break"  -> <<Op("Break")>>
    [] s.s = "if"     -> <<Op("If")>> \o Packed(ExprTokens(s.x) \o BlockTokens(s.then))
                         \o (IF s.else = <<>> THEN <<>>
                             ELSE <<Op("Else")>> \o Packed(BlockTokens(s.else)))
    [] s.s = "while"  -> <<Op("While")>> \o Packed(ExprTokens(s.x) \o BlockTokens(s.body))

\* An environment gives every local, argument and named object its value, so
\* far as it is known.
Known(v)  == v.t # "none"
NotKnown  == [t |-> "none", v |-> 0]

RECURSIVE ValueOf(_, _, _)
ValueOf(x, env, bits) ==
  LET number(n) == [t |-> "int", v |-> n % 2 ^ bits]
      truth(b)  == number(IF b THEN 2 ^ bits - 1 ELSE 0)
      l == ValueOf(x.l, env, bits)
      r == ValueOf(x.r, env, bits)
      numbers == l.t = "int" /\ r.t = "int"
  IN CASE x.e = "const"  -> x.v
       [] x.e = "var"    -> env[x.token]
       [] x.e = "global" -> env[Seg(x.name)]
       [] ~Known(l) \/ ~Known(r)           -> NotKnown
       [] x.op = "LEqual" /\ l.t = r.t     -> truth(l.v = r.v)
       [] x.op = "LLess" /\ numbers        -> truth(l.v < r.v)
       [] x.op = "Add" /\ numbers          -> number(l.v + r.v)
       [] x.op = "Subtract" /\ numbers     -> number(l.v - r.v)
       [] OTHER                            -> NotKnown

\* What a block does: its end, the value it returns and the environment after
\* it.  Nothing is said of a block whose value is not known, or that goes
\* through a loop more often than `turns`.
Ends(how, v, env) == [how |-> how, v |-> v, env |-> env]

RECURSIVE Does(_, _, _, _)
Does(block, env, bits, turns) ==
  IF block = <<>> THEN Ends("through", NotKnown, env)
  ELSE LET s == Head(block)
           v == IF s.s = "inc" THEN ValueOf(Apply("Add", Var(s.target), Const([t |-> "int", v |-> 1])), env, bits)
                ELSE IF s.s = "break" THEN NotKnown ELSE ValueOf(s.x, env, bits)
           true == v # [t |-> "int", v |-> 0]
           Then(r) == IF r.how = "through" THEN Does(Tail(block), r.env, bits, turns) ELSE r
           round == Does(s.body, env, bits, turns)
       IN CASE s.s = "break"        -> Ends("break", NotKnown, env)
            [] ~Known(v)            -> Ends("unsaid", NotKnown, env)
            [] s.s \in {"set", "inc"} -> Then(Ends("through", v, [env EXCEPT ![s.target] = v]))
            [] s.s = "return"       -> Ends("return", v, env)
            [] s.s = "if" /\ true   -> Then(Does(s.then, env, bits, turns))
            [] s.s = "if"           -> Then(Does(s.else, env, bits, turns))
            [] ~true                -> Then(Ends("through", v, env))
            [] turns = 0            -> Ends("unsaid", NotKnown, env)
            [] round.how = "through" -> Does(block, round.env, bits, turns - 1)
            [] round.how = "break"  -> Then(Ends("through", v, round.env))
            [] OTHER                -> round

(***************************************************************************)
(* Tables to read: every kind of object and statement beside and before    *)
(* devices, and programs of a _DSM.                                        *)
(***************************************************************************)

(***************************************************************************)
(* The device that is looked for.                                          *)
(***************************************************************************)
I2c(addr)   == [k |-> "i2c", addr |-> addr]
Pin         == [k |-> "gpioInt", pin |-> 7]
Mem(w)      == [k |-> "mem", writable |-> w]
EndTag      == [k |-> "end"]

Crs    == Named("_CRS", Buffer(<<I2c(44), Pin, EndTag>>))
Hid    == Named("_HID", <<[op |-> "Str", v |-> "ELAN"]>>)
CidInt == Named("_CID", <<Num(5)>>)
CidStr == Named("_CID", <<[op |-> "Str", v |-> "PNP0C50"]>>)
CidPkg == Named("_CID", <<Op("Package")>> \o Packed(<<Byte(2), Num(5), Num(6)>>))

Dev(name, body) == Container("device", Seg(name), body)
Sb(body)        == Container("scope", Path(TRUE, <<"_SB_">>), body)
Pad(body)       == Dev("TPD0", body)
Gpio == Dev("GPI0", <<Named("_CRS", Buffer(<<Mem(TRUE), Mem(FALSE), Mem(TRUE), EndTag, Mem(TRUE)>>))>>)

At(from) == [bus |-> I2c(44), pin |-> IF from = "none" THEN [t |-> "none", v |-> 0] ELSE Pin,
             from |-> from]
Absent   == [t |-> "none", v |-> 0]

Table(terms, expect) ==
  [terms |-> terms, expect |-> expect, program |-> <<>>, env |-> <<>>, plain |-> FALSE]

OnBus == [path |-> <<"_SB_", "TPD0">>, at |-> At("crs")]

(***************************************************************************)
(* Whatever may stand before a device.                                     *)
(***************************************************************************)
Ext(op, tokens) == <<Op("Ext"), Op(op)>> \o tokens
Call            == <<Seg("I2CM"), Num(1), Num(2)>>
I2cm            == Defined("I2CM", 2, <<Op("Return"), Num(0)>>)

Definitions ==
  {LeafOf(<<Op("Alias"), Seg("A"), Seg("B")>>),
   LeafOf(<<Op("External"), Seg("A"), Byte(1), Byte(0)>>),
   LeafOf(<<Op("CreateField"), Seg("BUF"), Num(3), Seg("F")>>),
   LeafOf(<<Op("CreateField")>> \o Call \o <<Num(3), Seg("F")>>),
   LeafOf(Ext("OpRegion", <<Seg("R"), Byte(0), Seg("BASE"), Num(4)>>)),
   LeafOf(Ext("OpRegion", <<Seg("R"), Byte(0), Op("Add"), Seg("BASE"), Num(4), Num(0), Num(4)>>)),
   LeafOf(Ext("Field", Packed(<<Byte(0)>>))),
   LeafOf(Ext("Mutex", <<Seg("M"), Byte(0)>>)),
   LeafOf(Ext("Event", <<Seg("E")>>)),
   LeafOf(Ext("CreateBitField", <<Seg("BUF"), Num(3), Num(1), Seg("F")>>)),
   LeafOf(<<Op("Noop")>>),
   Named("N", <<Op("Package")>> \o Packed(<<Byte(1), Num(1)>>)),
   Named("N", Buffer(<<EndTag>>)),
   Defined("M", 1, <<Op("Return"), Arg(0)>>)}

Stmts ==
  {LeafOf(<<Op("Store"), Num(1), Seg("V")>>),
   LeafOf(<<Op("Store")>> \o Call \o <<Local(0)>>),
   LeafOf(<<Op("Notify"), Seg("DEV"), Num(1)>>),
   LeafOf(<<Op("Increment"), Local(0)>>),
   LeafOf(<<Op("Add"), Local(0), Num(1), Num(0)>>),
   LeafOf(<<Op("Return"), Op("LNot"), Num(0)>>)}

Tests == {<<Op("LEqual"), Seg("IM05"), Num(2)>>, Ext("CondRefOf", <<Seg("X"), Local(0)>>), Call,
          <<Op("LAnd"), Op("LNot"), Seg("A"), Op("LLess"), Arg(0), Num(1)>>,
          Ext("Acquire", <<Seg("M"), Byte(0), Byte(0)>>)}

Unknown == Opaque(<<Op("Breakpoint")>>)

Touchpad == <<Hid, CidInt, Crs>>

Layouts ==
  \* definitions anywhere, also in the device
  {Table(<<I2cm, d, Sb(<<d, Pad(<<d>> \o Touchpad), Gpio>>)>>, OnBus) : d \in Definitions} \cup
  \* statements within conditionals, beside other devices
  {Table(<<I2cm, Sb(<<Conditional("If", test, <<s, Dev("A", <<>>)>>),
                      Conditional("Else", <<>>, <<s, Pad(<<CidStr, Crs>>)>>), Gpio>>)>>, OnBus) :
       s \in Stmts, test \in Tests} \cup
  \* something that is not understood, in a list of its own
  {Table(<<I2cm, Dev("A", <<d, Unknown, Pad(Touchpad)>>), Sb(<<Pad(<<CidPkg, Crs>>), Unknown, Gpio>>)>>, OnBus) :
       d \in Definitions} \cup
  \* containers with fixed fields, absolute names within, paths that are full
  {Table(<<Sb(<<Container(k, Seg("C"), <<Dev("B", <<>>),
               Container("device", Path(TRUE, <<"_SB_", "TPD0">>), Touchpad),
               Container("scope", Path(FALSE, <<"P", "Q">>), <<Dev("D", <<>>)>>)>>), Gpio>>)>>, OnBus) :
       k \in DOMAIN ExtOp}

\* Whether the device is there, and where it is.
Sta(n)  == Named("_STA", <<Num(n)>>)
StaM(n) == Defined("_STA", 0, <<Op("Return"), Num(n)>>)
Never   == Conditional("If", <<Op("LEqual"), Seg("IM05"), Num(2)>>, <<Sta(8)>>)
Helper  == Defined("_CRS", 0, <<Op("Return")>> \o Call)
CrsM    == Defined("_CRS", 0, <<Op("If"), [op |-> "Pkg", len |-> 6], Op("LEqual"), Seg("OSYS"), Num(1), Op("Return"), Num(0)>>)
Buf(n, a) == Named(n, Buffer(<<I2c(a), Pin, EndTag>>))

Described ==
  LET On(body, expect) == Table(<<I2cm, Sb(<<Pad(<<CidInt>> \o body), Gpio>>)>>, expect)
      InBuffers == [OnBus EXCEPT !.at = At("buffers")]
  IN {On(<<Sta(8), Crs>>, Absent), On(<<StaM(8), Crs>>, Absent), On(<<StaM(7), Crs>>, OnBus),
      On(<<Never, Crs>>, OnBus), On(<<Defined("_STA", 0, <<Op("Return"), Seg("X")>>), Crs>>, OnBus),
      On(<<Conditional("If", Call, <<Crs>>)>>, OnBus),
      On(<<Buf("SBFB", 44), Helper>>, InBuffers), On(<<CrsM, Buf("SBFB", 44)>>, InBuffers),
      On(<<Buf("SBFB", 44), Buf("SBFI", 44), Helper>>, InBuffers),
      On(<<Buf("SBFB", 44), Buf("SBFI", 45), Helper>>, Absent), On(<<Helper>>, Absent),
      On(<<Named("_CRS", Buffer(<<[k |-> "cut"], I2c(44)>>))>>, Absent)}

(***************************************************************************)
(* Programs of a _DSM over one local, the arguments and one named object.  *)
(***************************************************************************)
N(n)   == [t |-> "int", v |-> n]
K(n)   == Const(N(n))
L0     == Var(Local(0))
G      == Global("G")
Set(t, x) == [s |-> "set", target |-> t, x |-> x]
Return(x) == [s |-> "return", x |-> x]
If(x, a, b) == [s |-> "if", x |-> x, then |-> a, else |-> b]
While(x, b) == [s |-> "while", x |-> x, body |-> b]
Inc    == [s |-> "inc", target |-> Local(0)]
Leave  == [s |-> "break"]

Asked   == {Apply("LEqual", Var(Arg(0)), Const([t |-> "buf", v |-> Uuid])),
            Apply("LEqual", Var(Arg(2)), K(1)), Apply("LLess", L0, K(2)), G}
Effects == {Set(Local(0), Apply("Subtract", L0, K(1))), Set(Seg("G"), L0), Inc}
Returning   == {Return(L0), Return(K(5)), Return(G)}
Simple  == Effects \cup Returning
Nested  == {If(x, <<a>>, b) : x \in Asked, a \in Simple, b \in {<<>>, <<Return(K(6))>>}} \cup
           {While(Apply("LLess", L0, K(2)), b) :
              b \in {<<Inc>>, <<Leave>>, <<Inc, Inc>>, <<If(Apply("LLess", K(0), L0), <<Leave>>, <<>>), Inc>>,
                     <<Return(L0)>>, <<Set(Local(0), K(0))>>}}
Programs == {<<Set(Local(0), K(0)), a, b>> : a \in Simple \cup Nested, b \in Nested \cup Returning} \cup
            {<<Set(Local(0), K(1)), a, b, Return(L0)>> : a, b \in Nested}

Env == (Arg(0) :> [t |-> "buf", v |-> Uuid] @@ Arg(1) :> N(1) @@ Arg(2) :> N(1)
        @@ Local(0) :> Absent @@ Seg("G") :> Absent)

DsmTable(p) ==
  [Table(<<Sb(<<Pad(Touchpad \o <<Defined("_DSM", 4, BlockTokens(p)), Named("U", Buffer(Uuid))>>)>>)>>, OnBus)
     EXCEPT !.program = p, !.env = Env, !.plain = ~\E at \in DOMAIN BlockTokens(p) : BlockTokens(p)[at] = Seg("G")]

AmlSources == Layouts \cup Described \cup {DsmTable(p) : p \in Programs}

(***************************************************************************)
(* nanochrono-core/src/aml.rs: stepping over ACPI bytecode.  A table is a  *)
(* sequence of tokens, one for each thing a reader takes from it at once:  *)
(* an opcode byte, a package length, a name, a datum, a raw byte.  What    *)
(* matters is kept: how many tokens an object takes, and that a reader     *)
(* that takes the wrong number is in the middle of something else.  There  *)
(* it reads a token of the wrong kind; what it would do then is taken to   *)
(* be a failed read.                                                       *)
(*                                                                         *)
(* Every operator takes a position and yields the next one, or Lost.       *)
(***************************************************************************)

Lost == 0
Eof  == [op |-> "Eof"]

Tok(at) == IF at \in DOMAIN code THEN code[at] ELSE Eof
OpAt(at) == Tok(at).op

(***************************************************************************)
(* The cursor.                                                             *)
(***************************************************************************)
AfterByte(at) == IF OpAt(at) = "Byte" THEN at + 1 ELSE Lost

AfterName(at) == IF OpAt(at) = "Path" THEN at + 1 ELSE Lost

\* The end of the package whose length is at `at`: the length counts itself,
\* the body starts after it, and the end must be inside the table.
PackageEnd(at) ==
  IF OpAt(at) # "Pkg" THEN Lost
  ELSE LET end == at + Tok(at).len
       IN IF end > Len(code) + 1 \/ end < at + 1 THEN Lost ELSE end

(***************************************************************************)
(* Data.                                                                   *)
(***************************************************************************)
AfterData(at) ==
  CASE OpAt(at) \in {"Int", "Str"} -> at + 1
    [] OpAt(at) = "Package"        -> PackageEnd(at + 1)
    [] OpAt(at) = "Buffer" /\ PackageEnd(at + 1) # Lost /\ OpAt(at + 2) = "Int"
                                   -> PackageEnd(at + 1)
    [] OTHER                       -> Lost

\* The value of a datum that can be stepped over: a buffer is what is left of
\* its package after the declared size.
DataAt(at) ==
  CASE OpAt(at) = "Int"     -> [t |-> "int", v |-> Tok(at).v]
    [] OpAt(at) = "Str"     -> [t |-> "str", v |-> Tok(at).v]
    [] OpAt(at) = "Buffer"  -> [t |-> "buf", v |-> IF at + 3 < AfterData(at)
                                                   THEN Tok(at + 3).v ELSE <<>>]
    [] OpAt(at) = "Package" -> [t |-> "pkg", v |-> at + 2]

(***************************************************************************)
(* Shapes: what follows an opcode.                                         *)
(***************************************************************************)
\* arity(): expressions, by their number of arguments and whether a target
\* follows them.  A name stands for the opcodes of its kind.
Expressions ==
  [op \in {"Add", "Subtract", "Index"}                 |-> <<"arg", "arg", "target">>] @@
  [op \in {"LAnd", "LOr", "LEqual", "LGreater", "LLess"} |-> <<"arg", "arg">>] @@
  [op \in {"ToBuffer", "ToInteger", "Store"}           |-> <<"arg", "target">>] @@
  [op \in {"LNot", "SizeOf", "DerefOf", "Increment"}   |-> <<"arg">>]

\* extended_arity().
ExtendedExpressions ==
  [CondRefOf |-> <<"arg", "target">>, FromBcd |-> <<"arg", "target">>,
   Acquire |-> <<"arg", "byte", "byte">>, Wait |-> <<"arg", "arg">>,
   LoadTable |-> <<"arg", "arg", "arg", "arg", "arg", "arg", "target">>,
   Timer |-> <<>>]

\* skip_object(): everything in a list of terms that defines something, but
\* for Name.  "body" is a package, stepped over whole.
Objects ==
  [op \in {"Method", "Scope", "If", "Else", "While"} |-> <<"body">>] @@
  [Alias |-> <<"name", "name">>, External |-> <<"name", "byte", "byte">>,
   CreateField |-> <<"arg", "arg", "name">>, Noop |-> <<>>]

ExtendedObjects ==
  [op \in {"Device", "PowerRes", "ThermalZone", "Processor", "Field"} |-> <<"body">>] @@
  [OpRegion |-> <<"name", "byte", "arg", "arg">>, Mutex |-> <<"name", "byte">>,
   Event |-> <<"name">>, CreateBitField |-> <<"arg", "arg", "arg", "name">>]

\* skip_statement(), beside the expressions whose value is thrown away.
Statements ==
  [op \in {"Break", "Noop", "Continue"} |-> <<>>] @@
  [Return |-> <<"arg">>, Notify |-> <<"arg", "arg">>] @@ Expressions

ExtendedStatements ==
  [op \in {"Sleep", "Release"} |-> <<"arg">>] @@
  [Load |-> <<"arg", "arg">>,
   Fatal |-> <<"byte", "byte", "byte", "byte", "byte", "arg">>]

\* The mistake of taking every name for a reference.
MethodArityOfNothing(leaf) == 0

\* The number of arguments a call to a method of this name takes: what the
\* methods of the table that have the name agree on, and 0 if they do not.
MethodArity(leaf) ==
  LET named == {at \in DOMAIN code :
                  /\ OpAt(at) = "Method" /\ PackageEnd(at + 1) # Lost
                  /\ OpAt(at + 2) = "Path" /\ OpAt(at + 3) = "Byte"
                  /\ Tok(at + 2).segs # <<>>
                  /\ Tok(at + 2).segs[Len(Tok(at + 2).segs)] = leaf}
      arities == {Tok(at + 3).v : at \in named}
  IN IF Cardinality(arities) = 1 THEN CHOOSE n \in arities : TRUE ELSE 0

(***************************************************************************)
(* Stepping over a shape, one operand after the other.                     *)
(***************************************************************************)
RECURSIVE Skip(_, _), SkipArg(_)

SkipTarget(at) == IF OpAt(at) = "Eof" THEN Lost ELSE SkipArg(at)

SkipOperand(at, kind) ==
  CASE kind = "arg"    -> SkipArg(at)
    [] kind = "target" -> SkipTarget(at)
    [] kind = "name"   -> AfterName(at)
    [] kind = "byte"   -> AfterByte(at)
    [] kind = "data"   -> AfterData(at)
    [] kind = "body"   -> PackageEnd(at)

Skip(at, shape) ==
  IF at = Lost \/ shape = <<>> THEN at
  ELSE Skip(SkipOperand(at, Head(shape)), Tail(shape))

\* skip_term_arg: a local, an argument, an expression, a name - which may be a
\* call, and then its arguments follow - or a datum.
SkipArg(at) ==
  CASE OpAt(at) \in {"Local", "Arg"} -> at + 1
    [] OpAt(at) = "Ext" -> IF OpAt(at + 1) \in DOMAIN ExtendedExpressions
                           THEN Skip(at + 2, ExtendedExpressions[OpAt(at + 1)])
                           ELSE Lost
    [] OpAt(at) \in DOMAIN Expressions -> Skip(at + 1, Expressions[OpAt(at)])
    [] OpAt(at) = "Path" ->
         LET segs == Tok(at).segs
             args == IF segs = <<>> THEN 0 ELSE MethodArity(segs[Len(segs)])
         IN Skip(at + 1, [i \in 1 .. args |-> "arg"])
    [] OTHER -> AfterData(at)

\* skip_object and skip_statement are given the opcode before `at`, which they
\* have consumed.
SkipObject(at, op) ==
  CASE op \in DOMAIN Objects -> Skip(at, Objects[op])
    [] op = "Ext" /\ OpAt(at) \in DOMAIN ExtendedObjects
                             -> Skip(at + 1, ExtendedObjects[OpAt(at)])
    [] OTHER                 -> Lost

SkipStatement(at, op) ==
  CASE op \in DOMAIN Statements -> Skip(at, Statements[op])
    [] op = "Ext" /\ OpAt(at) \in DOMAIN ExtendedStatements
                                -> Skip(at + 1, ExtendedStatements[OpAt(at)])
    [] OTHER                    -> Lost

(***************************************************************************)
(* nanochrono-core/src/aml.rs: Namespace::walk, which visits every device  *)
(* of a table.  The recursion over nested lists of terms is a stack of     *)
(* lists, each with the scope its relative names are under.                *)
(***************************************************************************)

List(at, end, scope) == [at |-> at, end |-> end, scope |-> scope]

WalkInit == walk = [lists |-> <<List(1, Len(code) + 1, <<>>)>>, found |-> <<>>]

Here == walk.lists[Len(walk.lists)]
Outer == SubSeq(walk.lists, 1, Len(walk.lists) - 1)
Ahead == OpAt(Here.at)

WalkDone == walk.lists = <<>>

(***************************************************************************)
(* Scopes.  An absolute name replaces the scope, a relative one extends    *)
(* it; a path that is full takes no more segments.                         *)
(***************************************************************************)

FullPath(name) == (IF name.abs THEN <<>> ELSE Here.scope) \o name.segs

Fits(path) == Len(path) <= MaxPath

Pushed(path) == IF Fits(path) THEN path ELSE SubSeq(path, 1, MaxPath)

(***************************************************************************)
(* What a step does to the stack.                                          *)
(***************************************************************************)
EndList == walk' = [walk EXCEPT !.lists = Outer]

Advance(at) == walk' = [walk EXCEPT !.lists[Len(walk.lists)].at = at]

\* Walk the list of terms from `inner` to `end`, then go on after it.
Descend(inner, end, scope, visited) ==
  walk' = [lists |-> Append(Append(Outer, List(end, Here.end, Here.scope)),
                            List(inner, end, scope)),
           found |-> walk.found \o visited]

(***************************************************************************)
(* One action per arm of the match.                                        *)
(***************************************************************************)
FinishList ==
  /\ ~WalkDone /\ Here.at >= Here.end
  /\ EndList

In(ops) == ~WalkDone /\ Here.at < Here.end /\ Ahead \in ops

Scopes == {"Scope"}

EnterScope ==
  /\ In(Scopes)
  /\ LET end == PackageEnd(Here.at + 1)
     IN IF end = Lost \/ OpAt(Here.at + 2) # "Path" THEN EndList
        ELSE Descend(Here.at + 3, end, Pushed(FullPath(Tok(Here.at + 2))), <<>>)

\* Fixed fields between the name and the object list.
FixedFields == [Device |-> 0, ThermalZone |-> 0, PowerRes |-> 3, Processor |-> 6]

\* A device whose path is too long cannot be named and is not visited.
EnterDevice ==
  /\ In({"Ext"}) /\ OpAt(Here.at + 1) \in DOMAIN FixedFields
  /\ LET kind  == OpAt(Here.at + 1)
         end   == PackageEnd(Here.at + 2)
         name  == Tok(Here.at + 3)
         inner == Here.at + 4 + FixedFields[kind]
     IN IF end = Lost \/ name.op # "Path" \/ inner > end THEN EndList
        ELSE Descend(inner, end, Pushed(FullPath(name)),
                     IF kind = "Device" /\ Fits(FullPath(name))
                     THEN <<[path |-> FullPath(name), start |-> inner, end |-> end]>>
                     ELSE <<>>)

Conditionals == {"If", "Else", "While"}

\* Where the body of a conditional starts: after its predicate, which an Else
\* does not have.
BodyAfterPredicate(op, at) == IF op = "Else" THEN at ELSE SkipArg(at)

\* Conditionals are walked whatever their predicate says; one whose predicate
\* cannot be stepped over is stepped over whole.
EnterConditional ==
  /\ In(Conditionals)
  /\ LET end   == PackageEnd(Here.at + 1)
         inner == BodyAfterPredicate(Ahead, Here.at + 2)
     IN CASE end = Lost                  -> EndList
          [] inner = Lost \/ inner > end -> Advance(end)
          [] OTHER                       -> Descend(inner, end, Here.scope, <<>>)

\* Everything else is stepped over.  The end of what the walk can step over is
\* the end of its list.
AfterTerm(op, at) ==
  CASE op = "Name"            -> Skip(at, <<"name", "data">>)
    [] op \in DOMAIN Objects  -> Skip(at, Objects[op])
    [] op = "Ext"             -> SkipObject(at, op)
    [] OTHER                  -> SkipStatement(at, op)

Entered == Scopes \cup Conditionals

StepOver ==
  /\ ~WalkDone /\ Here.at < Here.end /\ Ahead \notin Entered
  /\ ~(Ahead = "Ext" /\ OpAt(Here.at + 1) \in DOMAIN FixedFields)
  /\ LET next == AfterTerm(Ahead, Here.at + 1)
     IN IF next = Lost THEN EndList ELSE Advance(next)

WalkNext == FinishList \/ EnterScope \/ EnterDevice \/ EnterConditional \/ StepOver

(***************************************************************************)
(* nanochrono-core/src/aml.rs: the Interpreter, which runs the methods     *)
(* that say where a device is, and refuses what it does not implement.     *)
(*                                                                         *)
(* The interpreter's state m is its cursor, arguments, locals and what is  *)
(* left of its budget.  Evaluating gives a value and the next state, or    *)
(* Refused.                                                                *)
(***************************************************************************)

Modulus == 2 ^ IntBits
Ones    == Modulus - 1

IntV(n)       == [t |-> "int", v |-> n % Modulus]
Uninitialised == [t |-> "none", v |-> 0]

Truthy(v)  == IF v.t = "int" THEN v.v # 0 ELSE v.t # "none"
Boolean(b) == IntV(IF b THEN Ones ELSE 0)

\* Integers by number, buffers and strings by content, nothing else.
Equal(a, b) == a.t = b.t /\ a.t \in {"int", "buf", "str"} /\ a.v = b.v

Interpreter(at, args) ==
  [at |-> at, budget |-> Budget, locals |-> [i \in 0 .. 7 |-> Uninitialised],
   args |-> [i \in 0 .. 6 |-> IF i < Len(args) THEN args[i + 1] ELSE Uninitialised]]

Refused     == [ok |-> FALSE]
Gives(v, m) == [ok |-> TRUE, v |-> v, m |-> m]

GoTo(m, at) == [m EXCEPT !.at = at]
Spent(m)    == [m EXCEPT !.budget = @ - 1]

(***************************************************************************)
(* Targets: a local, an argument, nowhere, or a name, whose write is not   *)
(* modelled by the interpreter either.                                     *)
(***************************************************************************)

Store(m, v) ==
  LET next == GoTo(m, m.at + 1)
  IN CASE OpAt(m.at) = "Int" /\ Tok(m.at).v = 0 -> Gives(v, next)
       [] OpAt(m.at) = "Local" -> Gives(v, [next EXCEPT !.locals[Tok(m.at).i] = v])
       [] OpAt(m.at) = "Arg"   -> Gives(v, [next EXCEPT !.args[Tok(m.at).i] = v])
       [] OpAt(m.at) = "Path"  -> Gives(v, next)
       [] OTHER                -> Refused

(***************************************************************************)
(* Terms.                                                                  *)
(***************************************************************************)
Logical    == {"LAnd", "LOr", "LEqual"}
Arithmetic == {"Add", "Subtract"}
Ordering   == {"LGreater", "LLess"}
Data       == {"Int", "Str", "Buffer", "Package"}

Compute(op, a, b) ==
  CASE op = "LAnd"     -> Boolean(Truthy(a) /\ Truthy(b))
    [] op = "LOr"      -> Boolean(Truthy(a) \/ Truthy(b))
    [] op = "LEqual"   -> Boolean(Equal(a, b))
    [] op = "LGreater" -> Boolean(a.v > b.v)
    [] op = "LLess"    -> Boolean(a.v < b.v)
    [] op = "Add"      -> IntV(a.v + b.v)
    [] op = "Subtract" -> IntV(a.v - b.v)

RECURSIVE Eval(_)

\* Both operands, then the operation; arithmetic ends in a target.
EvalTwo(op, m) ==
  LET a == Eval(m)
      b == IF a.ok THEN Eval(a.m) ELSE Refused
  IN IF ~b.ok THEN Refused
     ELSE IF op \notin Logical /\ (a.v.t # "int" \/ b.v.t # "int") THEN Refused
     ELSE IF op \in Arithmetic THEN Store(b.m, Compute(op, a.v, b.v))
     ELSE Gives(Compute(op, a.v, b.v), b.m)

EvalOne(op, m) ==
  LET a == Eval(m)
  IN IF ~a.ok THEN Refused
     ELSE CASE op = "LNot" -> Gives(Boolean(~Truthy(a.v)), a.m)
            [] op \in {"Store", "ToBuffer"} -> Store(a.m, a.v)
            [] op = "ToInteger" /\ a.v.t = "int" -> Store(a.m, a.v)
            [] op = "Increment" /\ a.v.t = "int" 
                 -> Store(GoTo(a.m, m.at), IntV(a.v.v + 1))
            [] op = "SizeOf" /\ a.v.t \in {"buf", "str"} -> Gives(IntV(Len(a.v.v)), a.m)
            [] OTHER -> Refused

Eval(m) ==
  LET op   == OpAt(m.at)
      next == GoTo(Spent(m), m.at + 1)
  IN IF m.budget = 0 THEN Refused
     ELSE CASE op \in Data -> IF AfterData(m.at) = Lost THEN Refused
                              ELSE Gives(DataAt(m.at), GoTo(Spent(m), AfterData(m.at)))
            [] op = "Arg"   -> Gives(m.args[Tok(m.at).i], next)
            [] op = "Local" -> Gives(m.locals[Tok(m.at).i], next)
            [] op \in Logical \cup Arithmetic \cup Ordering -> EvalTwo(op, next)
            [] op \in {"LNot", "Store", "ToBuffer", "ToInteger", "Increment", "SizeOf"}
                            -> EvalOne(op, next)
            [] OTHER        -> Refused

(***************************************************************************)
(* Statements.  What one did is its flow: on to the next, out of the loop, *)
(* or out of the method with a value.                                      *)
(***************************************************************************)
Flows(flow, v, m) == [ok |-> TRUE, flow |-> flow, v |-> v, m |-> m]
Continue(m)       == Flows("continue", Uninitialised, m)

RECURSIVE Run(_, _), Loop(_, _, _)

\* Run the block of an If or an Else and come out of it at `after`.
Outside(r, after) == IF r.ok THEN [r EXCEPT !.m.at = after] ELSE Refused

\* The condition c of an If at `at` has been evaluated.
IfBranch(c, at, end) ==
  LET bodyEnd == PackageEnd(at + 1)
      hasElse == bodyEnd < end /\ OpAt(bodyEnd) = "Else"
      elseEnd == PackageEnd(bodyEnd + 1)
      after   == IF hasElse THEN elseEnd ELSE bodyEnd
  IN CASE bodyEnd = Lost \/ ~c.ok \/ after = Lost -> Refused
       [] ~Truthy(c.v) /\ ~hasElse -> Continue(GoTo(c.m, after))
       [] OTHER -> Outside(IF Truthy(c.v) THEN Run(c.m, bodyEnd)
                           ELSE Run(GoTo(c.m, bodyEnd + 2), elseEnd), after)

RunIf(m, end) == IfBranch(Eval(GoTo(m, m.at + 2)), m.at, end)

\* A While, whose predicate is at `test`: round by round, until the predicate
\* is false or the body leaves it.
AfterRound(r, test, end) ==
  CASE ~r.ok               -> Refused
    [] r.flow = "continue" -> Loop(r.m, test, end)
    [] r.flow = "break"    -> Continue(GoTo(r.m, end))
    [] r.flow = "return"   -> r

WhileRound(c, test, end) ==
  CASE ~c.ok        -> Refused
    [] ~Truthy(c.v) -> Continue(GoTo(c.m, end))
    [] OTHER        -> AfterRound(Run(c.m, end), test, end)

Loop(m, test, end) ==
  IF m.budget = 0 THEN Refused ELSE WhileRound(Eval(GoTo(Spent(m), test)), test, end)

ReturnOf(e) == IF e.ok THEN Flows("return", e.v, e.m) ELSE Refused
WithoutValue(e) == IF e.ok THEN Continue(e.m) ELSE Refused

RunBreak(m) == Flows("break", Uninitialised, GoTo(m, m.at + 1))

Statement(m, end) ==
  LET op == OpAt(m.at)
  IN CASE op = "If"     -> RunIf(m, end)
       [] op = "Else"   -> Refused
       [] op = "While"  -> IF PackageEnd(m.at + 1) = Lost THEN Refused
                           ELSE Loop(m, m.at + 2, PackageEnd(m.at + 1))
       [] op = "Return" -> ReturnOf(Eval(GoTo(m, m.at + 1)))
       [] op = "Break"  -> RunBreak(m)
       [] op = "Noop"   -> Continue(GoTo(m, m.at + 1))
       [] op = "Name"   -> IF Skip(m.at + 1, <<"name", "data">>) = Lost THEN Refused
                           ELSE Continue(GoTo(m, Skip(m.at + 1, <<"name", "data">>)))
       [] OTHER         -> WithoutValue(Eval(m))

\* On to the next statement, unless this one left.
Onward(s, end) == IF s.ok /\ s.flow = "continue" THEN Run(s.m, end) ELSE s

Run(m, end) ==
  IF m.at >= end THEN Continue(m)
  ELSE IF m.budget = 0 THEN Refused
  ELSE Onward(Statement(Spent(m), end), end)

(***************************************************************************)
(* nanochrono-core/src/aml.rs: what is asked of a table once it is walked: *)
(* which devices are present, where one is on its bus, which register its  *)
(* descriptor is at, and the windows of a GPIO controller.                 *)
(*                                                                         *)
(* for_each_device and its callers stop at the device they look for; here  *)
(* the walk goes on and they take theirs out of what it visited.           *)
(***************************************************************************)

None == [t |-> "none", v |-> 0]

Leaf(at) == LET segs == Tok(at).segs IN IF segs = <<>> THEN "" ELSE segs[Len(segs)]

(***************************************************************************)
(* Names directly in a list of terms.                                      *)
(***************************************************************************)
\* The names defined with data in a list, as positions of their data, up to
\* what cannot be stepped over.
RECURSIVE Names(_, _)

\* The term after the opcode at `at`, as a definition or else an object.
AfterDefinition(at) ==
  IF OpAt(at) = "Name" THEN Skip(at + 1, <<"name", "data">>) ELSE SkipObject(at + 1, OpAt(at))

NamesUpTo(next, at, end) ==
  IF next = Lost THEN <<>>
  ELSE (IF OpAt(at) = "Name" THEN <<[name |-> Leaf(at + 1), at |-> at + 2]>> ELSE <<>>)
         \o Names(next, end)

Names(at, end) == IF at >= end THEN <<>> ELSE NamesUpTo(AfterDefinition(at), at, end)

FirstOf(seq, Test(_)) ==
  LET hits == {i \in DOMAIN seq : Test(seq[i])}
  IN IF hits = {} THEN None ELSE seq[CHOOSE i \in hits : \A j \in hits : i <= j]

DataOf(name) == IF name = None THEN None ELSE DataAt(name.at)

NameValue(d, want) == DataOf(FirstOf(Names(d.start, d.end), LAMBDA x : x.name = want))

\* A number is a compressed identifier; of a package, the first counts.
Text(v) ==
  CASE v.t = "int" -> EisaName(v.v)
    [] v.t = "str" -> v.v
    [] OTHER       -> ""

IdentifierIn(v) ==
  CASE v.t # "pkg" -> Text(v)
    [] OpAt(v.v) = "Byte" /\ AfterData(v.v + 1) # Lost -> Text(DataAt(v.v + 1))
    [] OTHER -> ""

Identifier(d, want) == IdentifierIn(NameValue(d, want))

Is(d, id) == id \in {Identifier(d, "_HID"), Identifier(d, "_CID")}

(***************************************************************************)
(* Members: names or methods, also within conditionals.                    *)
(***************************************************************************)
NoMember == [kind |-> "none", conditional |-> FALSE]

RECURSIVE MemberAtLevel(_, _, _), FindMember(_, _, _, _), MemberWithin(_, _, _, _)

MemberUpTo(next, at, end, want) ==
  CASE next = Lost -> NoMember
    [] OpAt(at) = "Name" /\ Leaf(at + 1) = want
         -> [kind |-> "name", at |-> at + 2, conditional |-> FALSE]
    [] OpAt(at) = "Method" /\ (OpAt(at + 2) # "Path" \/ OpAt(at + 3) # "Byte")
         -> NoMember
    [] OpAt(at) = "Method" /\ Leaf(at + 2) = want
         -> [kind |-> "method", at |-> at + 4, end |-> PackageEnd(at + 1),
             args |-> Tok(at + 3).v, conditional |-> FALSE]
    [] OTHER -> MemberAtLevel(next, end, want)

MemberAtLevel(at, end, want) ==
  IF at >= end THEN NoMember ELSE MemberUpTo(AfterDefinition(at), at, end, want)

\* What find_member steps over: an object or else a statement.  An extended
\* opcode has been read by the time the statement is tried.
OrStatement(object, at, op) ==
  CASE object # Lost -> object
    [] op = "Ext" /\ OpAt(at) \in DOMAIN ExtendedObjects -> Lost
    [] OTHER -> SkipStatement(IF op = "Ext" THEN at + 1 ELSE at, op)

AfterEither(at, op) == OrStatement(SkipObject(at, op), at, op)

\* The conditionals of a list, in turn.
MemberInside(inner, end, want, depth) ==
  IF inner = Lost \/ inner > end THEN NoMember ELSE FindMember(inner, end, want, depth)

MemberOr(member, next, end, want, depth) ==
  IF member # NoMember THEN [member EXCEPT !.conditional = TRUE]
  ELSE MemberWithin(next, end, want, depth)

MemberWithin(at, end, want, depth) ==
  LET op == OpAt(at)
  IN CASE at >= end \/ at = Lost -> NoMember
       [] op \in {"If", "Else"} /\ PackageEnd(at + 1) # Lost
            -> MemberOr(MemberInside(BodyAfterPredicate(op, at + 2), PackageEnd(at + 1), want, depth - 1),
                        PackageEnd(at + 1), end, want, depth)
       [] op = "Name" -> MemberWithin(Skip(at + 1, <<"name", "data">>), end, want, depth)
       [] op \notin {"If", "Else", "Name"} -> MemberWithin(AfterEither(at + 1, op), end, want, depth)
       [] OTHER -> NoMember

DirectOr(direct, at, end, want, depth) ==
  IF direct # NoMember \/ depth = 0 THEN direct ELSE MemberWithin(at, end, want, depth)

FindMember(at, end, want, depth) == DirectOr(MemberAtLevel(at, end, want), at, end, want, depth)

Member(d, want) == FindMember(d.start, d.end, want, Depth)

ReturnedBy(r) == IF r.ok /\ r.flow = "return" THEN r.v ELSE None

\* A name is read, a method is run if it takes as many arguments.
Evaluate(member, args) ==
  CASE member.kind = "name"   -> IF AfterData(member.at) = Lost THEN None ELSE DataAt(member.at)
    [] member.kind = "method" ->
         IF member.args # Len(args) THEN None
         ELSE ReturnedBy(Run(Interpreter(member.at, args), member.end))
    [] OTHER                  -> None

(***************************************************************************)
(* Presence.  Only an unconditional _STA that can be evaluated counts.     *)
(***************************************************************************)
StatusSays(v) == v.t = "int" => v.v % 4 = 3

\* The mistake of believing an _STA of a branch that may not apply.
PresentByAnyStatus(d) == StatusSays(Evaluate(Member(d, "_STA"), <<>>))

PresentBy(sta) == sta = NoMember \/ sta.conditional \/ StatusSays(Evaluate(sta, <<>>))

Present(d) == PresentBy(Member(d, "_STA"))

(***************************************************************************)
(* Resource templates, as sequences of descriptors: what is decoded is up  *)
(* to the end tag or the first one that runs past the buffer.  Other kinds *)
(* of bus, plain I/O pins and windows of no length are passed over.        *)
(***************************************************************************)
Resources(buffer) ==
  LET stops == {i \in DOMAIN buffer : buffer[i].k \in {"end", "cut"}}
  IN IF stops = {} THEN buffer
     ELSE SubSeq(buffer, 1, (CHOOSE i \in stops : \A j \in stops : i <= j) - 1)

Template(v) == IF v.t = "buf" THEN Resources(v.v) ELSE <<>>

Bus(template)       == FirstOf(template, LAMBDA r : r.k = "i2c")
Interrupt(template) == FirstOf(template, LAMBDA r : r.k = "gpioInt")

DeclaredTemplates(d) ==
  LET names == SelectSeq(Names(d.start, d.end), LAMBDA n : DataAt(n.at).t = "buf")
  IN [i \in DOMAIN names |-> Template(DataAt(names[i].at))]

Buses(templates) ==
  UNION {{templates[i][j] : j \in {j \in DOMAIN templates[i] : templates[i][j].k = "i2c"}} :
         i \in DOMAIN templates}

\* What _CRS says, else what the declared buffers agree on.
ResourcesFrom(crs, all) ==
  LET pins == SelectSeq([i \in DOMAIN all |-> Interrupt(all[i])], LAMBDA p : p # None)
  IN CASE Bus(crs) # None -> [bus |-> Bus(crs), pin |-> Interrupt(crs), from |-> "crs"]
       [] Cardinality(Buses(all)) = 1 ->
            [bus |-> CHOOSE b \in Buses(all) : TRUE,
             pin |-> IF pins = <<>> THEN None ELSE pins[1], from |-> "buffers"]
       [] OTHER           -> None

DeclaredResources(d) ==
  ResourcesFrom(Template(Evaluate(Member(d, "_CRS"), <<>>)), DeclaredTemplates(d))

\* _DSM, function 1, asked with the identifier as it stands in the table.
RegisterFrom(r) ==
  IF /\ \E at \in DOMAIN code : OpAt(at) = "Bytes" /\ Tok(at).v = Uuid
     /\ r.t = "int" /\ r.v <= MaxRegister
  THEN r ELSE None

DescriptorRegister(d) ==
  RegisterFrom(Evaluate(Member(d, "_DSM"),
                        <<[t |-> "buf", v |-> Uuid], IntV(1), IntV(1), [t |-> "pkg", v |-> 0]>>))

(***************************************************************************)
(* The questions.                                                          *)
(***************************************************************************)
I2cHids == SelectSeq(walk.found, LAMBDA d : Is(d, Cid) /\ Present(d))

Located(d, at) ==
  IF at = None THEN None ELSE [path |-> d.path, at |-> at, register |-> DescriptorRegister(d)]

DeviceOf(d) == Located(d, DeclaredResources(d))

NthOf(hids, n) == IF n \in DOMAIN hids THEN DeviceOf(hids[n]) ELSE None

I2cHidNth(n) == NthOf(I2cHids, n)

EndsWith(path, tail) ==
  /\ Len(tail) <= Len(path)
  /\ SubSeq(path, Len(path) - Len(tail) + 1, Len(path)) = tail

WindowsOf(template) ==
  LET windows == SelectSeq(template, LAMBDA r : r.k = "mem" /\ r.writable)
  IN IF Len(windows) > Windows THEN SubSeq(windows, 1, Windows) ELSE windows

CommunitiesOf(d) ==
  IF d = None \/ ~Present(d) THEN <<>>
  ELSE WindowsOf(Template(Evaluate(Member(d, "_CRS"), <<>>)))

GpioCommunities(controller) ==
  CommunitiesOf(FirstOf(walk.found, LAMBDA x : EndsWith(x.path, controller)))

DevicesInit == WalkInit /\ answers = <<>>

Answer(a) == answers' = Append(answers, a) /\ UNCHANGED walk

\* Ask for one device after the other until there is no more.
AskDevice ==
  /\ WalkDone /\ Len(answers) <= Len(I2cHids)
  /\ Answer(I2cHidNth(Len(answers) + 1))

\* Then for the windows of a controller.
AskController(path) ==
  /\ WalkDone /\ Len(answers) = Len(I2cHids) + 1
  /\ Answer(GpioCommunities(path))

DevicesNext ==
  \/ WalkNext /\ UNCHANGED answers
  \/ AskDevice
  \/ AskController(GpioPath)

amlVars == <<source, code, walk, answers>>

Start(s) ==
  /\ source = s
  /\ code = TokensOf(s.terms)
  /\ DevicesInit

AmlNext == DevicesNext /\ UNCHANGED <<source, code>>

AmlDone == WalkDone /\ Len(answers) = Len(I2cHids) + 2

(***************************************************************************)
(* The walk visits the devices the table declares, each once, in order and *)
(* by its full path, however deep and behind whatever else they are:       *)
(* nothing that is stepped over takes a device with it, and what cannot be *)
(* stepped over costs no more than the rest of its own list.               *)
(***************************************************************************)
DeclaredDevices == Declared(source.terms, <<>>, MaxPath)

WalkFindsDeclaredDevices ==
  /\ Len(walk.found) <= Len(DeclaredDevices)
  /\ \A i \in DOMAIN walk.found : walk.found[i].path = DeclaredDevices[i].path
  /\ WalkDone => Len(walk.found) = Len(DeclaredDevices)

(***************************************************************************)
(* The first answer is about the device the table has it about, present or *)
(* not, with the bus it is on; and the register it gives is the one that   *)
(* the method returns, or none: the interpreter refuses rather than        *)
(* guesses.  It does not refuse what is said in full.                      *)
(***************************************************************************)
ProgramSays == Does(source.program, source.env, IntBits, 3)

AnswersAreTheTables ==
  answers # <<>> =>
    /\ (answers[1] = None) = (source.expect = None)
    /\ answers[1] # None =>
         /\ answers[1].path = source.expect.path
         /\ answers[1].at = source.expect.at
         /\ answers[1].register # None =>
              /\ ProgramSays.how = "return"
              /\ answers[1].register = ProgramSays.v
         /\ ProgramSays.how = "return" /\ source.plain /\ ProgramSays.v.v <= MaxRegister
              => answers[1].register = ProgramSays.v
=============================================================================
