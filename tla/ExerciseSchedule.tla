-------------------------- MODULE ExerciseSchedule --------------------------
(***************************************************************************)
(* ExerciseSchedule of lib/models/schedule.dart: the rounds of an exercise *)
(* and how long their phases are, from what its author wrote.  An exercise *)
(* is a record: startTime, endTime, mode, numberOfRounds, the minutes of   *)
(* its three phases, what its stations say instead (Absent where they say  *)
(* nothing) and, for split, the stations of each group.                    *)
(***************************************************************************)
EXTENDS ExerciseWindow, Sequences, FiniteSetsExt, Functions

CONSTANT Absent

Phases == {"execution", "evaluation", "rotation"}

Effective(e) ==
    [i \in DOMAIN e.stations |->
        [p \in Phases |-> IF e.stations[i][p] = Absent THEN e.minutes[p] ELSE e.stations[i][p]]]

(* Phase by phase, not station by station.                                  *)
Longest(S) == [p \in Phases |-> Max({s[p] : s \in S})]

(* In split a round is a group, in together a station; split without groups *)
(* is together, and all else is as many equal rounds as the author says.    *)
ByGroup(e) == e.mode = "split" /\ e.groups # <<>>
ByStation(e) == ~ByGroup(e) /\ e.mode # "ring" /\ e.stations # <<>>

(* roundsForMode                                                            *)
Rounds(e) ==
    CASE ByGroup(e) -> Len(e.groups)
      [] ByStation(e) -> Len(e.stations)
      [] ~ByGroup(e) /\ ~ByStation(e) -> e.numberOfRounds

(* A group that names no station there is takes the minutes of the exercise. *)
GroupMinutes(e, group) ==
    LET live == {Effective(e)[i] : i \in group \cap DOMAIN e.stations}
    IN  IF live = {} THEN e.minutes ELSE Longest(live)

PhaseMinutes(e) ==
    CASE ByGroup(e) -> [n \in DOMAIN e.groups |-> GroupMinutes(e, e.groups[n])]
      [] ByStation(e) -> Effective(e)
      [] ~ByGroup(e) /\ ~ByStation(e) ->
            LET same == IF e.stations = <<>> THEN e.minutes ELSE Longest(Range(Effective(e)))
            IN  [n \in 1 .. Rounds(e) |-> same]

RoundLength(m) == m.execution + m.evaluation + m.rotation

(* Minutes from the start of the exercise to the start of round n + 1.      *)
RoundStart(e, n) ==
    LET minutes == PhaseMinutes(e)
        at[k \in 0 .. n] == IF k = 0 THEN 0 ELSE at[k - 1] + RoundLength(minutes[k])
    IN  at[n]

(* The last rotation counts: the teams still have to move off.              *)
EndTime(e) == (e.startTime + RoundStart(e, Rounds(e))) % Day

(* PlanService.generateSchedule: what is saved of what the author wrote.    *)
Saved(e) == [e EXCEPT !.numberOfRounds = Rounds(e), !.endTime = EndTime(e)]
=============================================================================
