------------------------------ MODULE KernelUi ------------------------------
(***************************************************************************)
(* nanochrono-baremetal/src/gui_x86_64.rs: the loop that takes a bounded   *)
(* number of input events and paints a frame, with the stopwatch and the   *)
(* countdown it owns.  Of the screen only the session card is kept, which  *)
(* is painted when something asked for it.  Left out: panels, precision,   *)
(* highlights, the other widgets and the power buttons.                    *)
(*                                                                         *)
(* Clock::elapsed_ticks counts from boot and does not wrap.                *)
(***************************************************************************)
EXTENDS ProtectedWord, Sequences

CONSTANTS
  EVENTS_PER_FRAME,
  MAX_LAPS,
  DEFAULT_NS, STEP_NS,   \* Timer
  Hz, NS_PER_S,          \* of the calibration
  CardsFade,             \* frames a transition of the cards takes
  Damages,               \* bound: patterns of flipped bits of a word
  MaxTicks, MaxTarget, MaxPresses  \* bounds; of keys and clicks, those that act

ASSUME KernelUiAssumption ==
  /\ {EVENTS_PER_FRAME, MAX_LAPS, DEFAULT_NS, STEP_NS, Hz, NS_PER_S} \subseteq Nat \ {0}
  /\ STEP_NS <= DEFAULT_NS /\ DEFAULT_NS <= MaxTarget
  /\ {CardsFade, MaxTicks, MaxTarget, MaxPresses} \subseteq Nat
  /\ IsFiniteSet(CopyBits) /\ Damages \subseteq [Copies -> SUBSET CopyBits]

VARIABLES
  now,         \* clock.elapsed_ticks()
  tab, stopwatch, timer,
  cardsFade,   \* frames of the transition left
  cardsDirty,
  card,        \* the session card on the screen
  taken,       \* events taken in this round of the loop
  painting,    \* past the events of this round
  \* history: ticks passed while either ran, since its last reset; keys and
  \* clicks that acted
  stopwatchRan, timerRan, presses

ui   == <<tab, cardsFade, cardsDirty, card, presses>>
loop == <<taken, painting>>
vars == <<now, stopwatch, timer, ui, loop, stopwatchRan, timerRan>>

Tabs == {"Clock", "Stopwatch", "Timer"}

TicksToNs(ticks) == (ticks * NS_PER_S) \div Hz

\* Ui::new, and the transition of the cards that run asks for before its loop.
Init ==
  /\ now = 0
  /\ tab = "Stopwatch"
  /\ stopwatch = [running |-> FALSE, accumulated |-> Fresh(0), startedAt |-> 0,
                  laps |-> <<>>, integrity |-> "Clean"]
  /\ timer = [running |-> FALSE, target |-> DEFAULT_NS, spent |-> 0,
              startedAt |-> 0, expired |-> FALSE]
  /\ cardsFade = CardsFade /\ cardsDirty = TRUE
  /\ card = [tab |-> "none"]
  /\ taken = 0 /\ painting = FALSE
  /\ stopwatchRan = 0 /\ timerRan = 0 /\ presses = 0

-----------------------------------------------------------------------------
(* Stopwatch.                                                              *)

\* The mistake of keeping the last outcome.
VerifiedLast(s) ==
  [s EXCEPT !.accumulated = Scrubbed(@), !.integrity = Integrity(s.accumulated)]

\* The total is verified whenever it is read; the worst outcome is kept.
Verified(s) ==
  [s EXCEPT !.accumulated = Scrubbed(@), !.integrity = Worse(@, Integrity(s.accumulated))]

Ticks(s, at) == Checked(s.accumulated) + IF s.running THEN at - s.startedAt ELSE 0

StopwatchToggle(s, at) ==
  IF s.running
    THEN [Verified(s) EXCEPT !.accumulated = Fresh(Ticks(s, at)), !.running = FALSE]
    ELSE [s EXCEPT !.startedAt = at, !.running = TRUE]

StopwatchReset(s) ==
  [s EXCEPT !.running = FALSE, !.accumulated = Fresh(0), !.laps = <<>>,
            !.integrity = "Clean"]

\* The oldest lap is dropped once the table is full.
Pushed(laps, ticks) ==
  Append(IF Len(laps) = MAX_LAPS THEN Tail(laps) ELSE laps, ticks)

StopwatchLap(s, at) == [Verified(s) EXCEPT !.laps = Pushed(@, Ticks(s, at))]

-----------------------------------------------------------------------------
(* Timer.                                                                  *)

\* Timer::elapsed_ticks
Spent(t, at) == t.spent + IF t.running THEN at - t.startedAt ELSE 0

Overdue(t, at) == TicksToNs(Spent(t, at)) >= t.target

\* What remaining_ns leaves: a countdown that has run out is stopped.
LookedAt(t, at) ==
  IF t.running /\ Overdue(t, at)
    THEN [t EXCEPT !.spent = Spent(t, at), !.running = FALSE, !.expired = TRUE]
    ELSE t

\* The mistake of banking this run alone.
TimerToggleUnbanked(t, at) ==
  CASE t.expired -> t
    [] ~t.expired /\ t.running  -> [t EXCEPT !.spent = at - t.startedAt, !.running = FALSE]
    [] ~t.expired /\ ~t.running -> [t EXCEPT !.startedAt = at, !.running = TRUE]

TimerToggle(t, at) ==
  CASE t.expired -> t
    [] ~t.expired /\ t.running  -> [t EXCEPT !.spent = Spent(t, at), !.running = FALSE]
    [] ~t.expired /\ ~t.running -> [t EXCEPT !.startedAt = at, !.running = TRUE]

TimerReset(t) == [t EXCEPT !.running = FALSE, !.spent = 0, !.expired = FALSE]

Stepped(target, up) ==
  CASE up -> target + STEP_NS
    [] ~up /\ target > 2 * STEP_NS  -> target - STEP_NS
    [] ~up /\ target <= 2 * STEP_NS -> STEP_NS

TimerAdjust(t, up) ==
  IF t.running THEN t
  ELSE [t EXCEPT !.target = Stepped(@, up), !.expired = FALSE, !.spent = 0]

-----------------------------------------------------------------------------
(* Events.                                                                 *)

RefreshCards    == cardsDirty' = TRUE /\ UNCHANGED cardsFade
TransitionCards == cardsDirty' = TRUE /\ cardsFade' = CardsFade
KeepCards       == UNCHANGED <<cardsDirty, cardsFade>>

KeepBoth == UNCHANGED <<stopwatch, timer, stopwatchRan, timerRan>>

\* The mistake of leaving the card of the tab before.
SelectTabOnly(t) == tab' = t /\ KeepCards /\ KeepBoth

SelectTab(t) ==
  /\ tab' = t
  /\ IF t = tab THEN KeepCards ELSE TransitionCards
  /\ KeepBoth

\* The space bar, or a click on the readout.
StartOrStop ==
  /\ \/ tab = "Clock" /\ UNCHANGED <<stopwatch, timer>>
     \/ tab = "Stopwatch" /\ stopwatch' = StopwatchToggle(stopwatch, now) /\ UNCHANGED timer
     \/ tab = "Timer" /\ timer' = TimerToggle(timer, now) /\ UNCHANGED stopwatch
  /\ RefreshCards
  /\ UNCHANGED <<tab, stopwatchRan, timerRan>>

Lap ==
  /\ tab = "Stopwatch"
  /\ stopwatch' = StopwatchLap(stopwatch, now)
  /\ TransitionCards
  /\ UNCHANGED <<tab, timer, stopwatchRan, timerRan>>

Zero ==
  /\ \/ tab = "Clock" /\ KeepCards /\ KeepBoth
     \/ /\ tab = "Stopwatch"
        /\ stopwatch' = StopwatchReset(stopwatch) /\ stopwatchRan' = 0
        /\ TransitionCards
        /\ UNCHANGED <<timer, timerRan>>
     \/ /\ tab = "Timer"
        /\ timer' = TimerReset(timer) /\ timerRan' = 0
        /\ RefreshCards
        /\ UNCHANGED <<stopwatch, stopwatchRan>>
  /\ UNCHANGED tab

Adjust(up) ==
  /\ tab = "Timer"
  /\ up => timer.target + STEP_NS <= MaxTarget
  /\ timer' = TimerAdjust(timer, up)
  /\ timerRan' = IF timer.running THEN timerRan ELSE 0
  /\ RefreshCards
  /\ UNCHANGED <<tab, stopwatch, stopwatchRan>>

\* Nothing here is bound to the key, or the tab has no use for it.
Unbound == KeepCards /\ KeepBoth /\ UNCHANGED tab

Places == Tabs \cup {"readout", "elsewhere"}

Acting(Press) == presses < MaxPresses /\ presses' = presses + 1 /\ Press

Idle == Unbound /\ UNCHANGED presses

\* pointer: a report with the left button down acts on what is under it.
Pointer(over, left) ==
  \/ (~left \/ over = "elsewhere") /\ Idle
  \/ left /\ over \in Tabs /\ Acting(SelectTab(over))
  \/ left /\ over = "readout" /\ Acting(StartOrStop)

Press ==
  \/ \E t \in Tabs : Acting(SelectTab(t))
  \/ Acting(StartOrStop) \/ Acting(Lap) \/ Acting(Zero)
  \/ \E up \in BOOLEAN : Acting(Adjust(up))
  \/ Idle

\* The mistake of taking events for as long as there are any.
RoomForEvents == ~painting

MoreEvents == ~painting /\ taken < EVENTS_PER_FRAME

Take ==
  /\ MoreEvents
  /\ taken' = (taken % EVENTS_PER_FRAME) + 1
  /\ UNCHANGED <<now, card, painting>>

Key == Take /\ Press

Report(over, left) == Take /\ Pointer(over, left)

Motion == \E over \in Places, left \in BOOLEAN : Report(over, left)

-----------------------------------------------------------------------------
(* The loop.                                                               *)

\* No event is waiting, or enough were taken.
Drained ==
  /\ ~painting
  /\ painting' = TRUE /\ taken' = 0
  /\ UNCHANGED <<now, ui, stopwatch, timer, stopwatchRan, timerRan>>

\* The last frame was less than FRAME_NS ago.
Spin ==
  /\ painting
  /\ painting' = FALSE /\ taken' = 0
  /\ UNCHANGED <<now, ui, stopwatch, timer, stopwatchRan, timerRan>>

\* session_rows
TimerState(t) == IF t.expired THEN "elapsed" ELSE IF t.running THEN "running" ELSE "stopped"

Session(t, s, m) ==
  CASE t = "Clock"     -> [tab |-> t]
    [] t = "Stopwatch" -> [tab |-> t, running |-> s.running, laps |-> Len(s.laps)]
    [] t = "Timer"     -> [tab |-> t, target |-> m.target, state |-> TimerState(m)]

\* The readout is painted first, and reading it verifies the total or ends a
\* countdown; the cards only if something asked for them.
Frame ==
  /\ painting
  /\ painting' = FALSE /\ taken' = 0
  /\ stopwatch' = IF tab = "Stopwatch" THEN Verified(stopwatch) ELSE stopwatch
  /\ timer' = IF tab = "Timer" THEN LookedAt(timer, now) ELSE timer
  /\ \/ /\ cardsDirty \/ cardsFade > 0
        /\ card' = Session(tab, stopwatch', timer')
        /\ cardsDirty' = FALSE
        /\ cardsFade' = IF cardsFade > 0 THEN cardsFade - 1 ELSE 0
     \/ ~cardsDirty /\ cardsFade = 0 /\ UNCHANGED <<card, cardsDirty, cardsFade>>
  /\ UNCHANGED <<now, tab, presses, stopwatchRan, timerRan>>

Loop == Key \/ Motion \/ Drained \/ Spin \/ Frame

Tick ==
  /\ now < MaxTicks
  /\ now' = now + 1
  /\ stopwatchRan' = stopwatchRan + IF stopwatch.running THEN 1 ELSE 0
  /\ timerRan' = timerRan + IF timer.running THEN 1 ELSE 0
  /\ UNCHANGED <<ui, stopwatch, timer, loop>>

\* Upsets hit the total, one or several before it is next looked at.
UpsetWord ==
  \E damage \in Damages :
    /\ \A c \in Copies : stopwatch.accumulated.flipped[c] = {}
    /\ stopwatch' = [stopwatch EXCEPT !.accumulated.flipped = damage]
    /\ UNCHANGED <<now, timer, ui, loop, stopwatchRan, timerRan>>

Next == Loop \/ Tick \/ UpsetWord

Spec == Init /\ [][Next]_vars

\* The loop runs whatever comes in, and time for a frame comes again and again.
LiveSpec == Spec /\ WF_vars(Loop) /\ SF_vars(Frame)

-----------------------------------------------------------------------------
(* Properties.                                                             *)

TypeOK ==
  /\ tab \in Tabs /\ cardsFade \in 0 .. CardsFade
  /\ taken \in 0 .. EVENTS_PER_FRAME
  /\ Len(stopwatch.laps) <= MAX_LAPS
  /\ stopwatch.integrity \in Tiers
  /\ timer.target \in STEP_NS .. MaxTarget
  /\ ~(timer.running /\ timer.expired)

\* The verdict a reader of the stopwatch sees now.
Verdict == Verified(stopwatch).integrity

\* "A double flip is reported rather than believed": however starts, stops,
\* reads and upsets fall, a reading that is not the time the stopwatch ran is
\* one the screen marks unrecoverable until the next reset.
WrongTimeIsFlagged ==
  Ticks(stopwatch, now) # stopwatchRan => Verdict = "Unrecoverable"

\* The laps kept are in the order they were taken, the oldest dropped.
LapsAscend ==
  Verdict # "Unrecoverable" =>
    /\ \A i, j \in DOMAIN stopwatch.laps : i < j => stopwatch.laps[i] <= stopwatch.laps[j]
    /\ \A i \in DOMAIN stopwatch.laps : stopwatch.laps[i] <= stopwatchRan

\* A countdown spends the time it ran, pauses left out, and is not called
\* elapsed a tick before its target.
TimerSpendsWhatItRan ==
  /\ Spent(timer, now) = timerRan
  /\ timer.expired => TicksToNs(timerRan) >= timer.target

\* A card nobody asked to repaint is that of the selected tab and says what is
\* true of its instrument ("a reading attached to the wrong instrument",
\* select_tab).  What painting itself finds out comes later than the card: that
\* a countdown ended, or that the total was damaged.
SessionCardIsCurrent ==
  ~cardsDirty /\ cardsFade = 0 =>
    /\ card.tab = tab
    /\ tab = "Stopwatch" => card.running = stopwatch.running /\ card.laps = Len(stopwatch.laps)
    /\ tab = "Timer" => /\ card.target = timer.target
                        /\ card.state # TimerState(timer) =>
                             card.state = "running" /\ timer.expired

\* What asked to be painted is painted though events never stop ("a pointer
\* being moved continuously cannot starve the draw", EVENTS_PER_FRAME).
ChangesReachTheScreen == cardsDirty ~> ~cardsDirty

-----------------------------------------------------------------------------

\* The instance the run checks: one bit of a value and one of its check byte,
\* and what is repaired by the code, by the vote, and by neither.

FlipEight(v, S) == IF S = {} THEN v ELSE IF (v \div 8) % 2 = 1 THEN v - 8 ELSE v + 8

OneValueBit == {3}
OneCodeBit  == {4}

Flips(primary, replica) ==
  [c \in Copies |-> CASE c = "primary" -> primary [] c = "replica0" -> replica
                      [] c = "replica1" -> {}]

OfEachTier == {Flips({3}, {}), Flips({3, 4}, {}), Flips({3, 4}, {3, 4})}
=============================================================================
