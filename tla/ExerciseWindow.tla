--------------------------- MODULE ExerciseWindow ---------------------------
(***************************************************************************)
(* ExerciseX.windowAt of lib/models/exercise.dart: a start and an end on   *)
(* the clock face, resolved to instants around a moment.                   *)
(*                                                                         *)
(* Time counts in ticks from some midnight, Minute of them to a minute;    *)
(* days are equally long, so a day on which the clocks are set is outside. *)
(***************************************************************************)
EXTENDS Integers

CONSTANTS
    Minute,   \* ticks of the clock in a minute
    Day       \* minutes of the clock face

ASSUME ClockAssumption == Minute \in Nat \ {0} /\ Day \in Nat \ {0}

DayTicks == Day * Minute

(* _onDayOf: a time of day on the calendar day of an instant.               *)
OnDayOf(at, timeOfDay) == at - (at % DayTicks) + timeOfDay * Minute

Shift(w, by) == [start |-> w.start + by, end |-> w.end + by]

Within(w, at) == w.start <= at /\ at < w.end

(* The same time for both, or an end before the start, is past midnight.    *)
SameDay(startTime, endTime, at) ==
    LET start == OnDayOf(at, startTime)
        end == OnDayOf(at, endTime)
    IN  [start |-> start, end |-> IF end > start THEN end ELSE end + DayTicks]

(* Bug: yesterday's occurrence is never the one.                            *)
WindowAtForward(startTime, endTime, at) ==
    LET today == SameDay(startTime, endTime, at)
    IN  IF at < today.end THEN today ELSE Shift(today, DayTicks)

WindowAt(startTime, endTime, at) ==
    LET today == SameDay(startTime, endTime, at)
        yesterday == Shift(today, -DayTicks)
    IN  CASE at < today.start /\ Within(yesterday, at) -> yesterday
          [] at < today.start /\ ~Within(yesterday, at) -> today
          [] at >= today.end -> Shift(today, DayTicks)
          [] Within(today, at) -> today
=============================================================================
