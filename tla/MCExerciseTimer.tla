-------------------------- MODULE MCExerciseTimer --------------------------
(***************************************************************************)
(* Instances of ExerciseTimer for TLC, on a clock face of a few minutes.   *)
(***************************************************************************)
EXTENDS ExerciseTimer

Minutes(x, y, z) == [execution |-> x, evaluation |-> y, rotation |-> z]
Silent == Minutes(Absent, Absent, Absent)

Ring(start, rounds, m) ==
    [startTime |-> start, endTime |-> start, mode |-> "ring", numberOfRounds |-> rounds,
     minutes |-> m, stations |-> <<Silent>>, groups |-> <<>>]

Modes(e, mode, stations, groups) == [e EXCEPT !.mode = mode, !.stations = stations, !.groups = groups]

(* Over midnight; all day; with the debrief left out.                       *)
Night == Saved(Ring(6, 2, Minutes(1, 1, 0)))
Whole == Saved(Ring(2, 2, Minutes(2, 1, 1)))

(* Brought by a file: the end is later, or earlier, than the rounds.        *)
Long == [Saved(Ring(1, 1, Minutes(1, 0, 1))) EXCEPT !.endTime = 5]
Short == [Saved(Ring(3, 2, Minutes(1, 1, 1))) EXCEPT !.endTime = 5]

(* Stations with times of their own.                                        *)
Uneven == Saved(Modes(Ring(1, 1, Minutes(1, 0, 1)), "together",
                      <<Silent, [Silent EXCEPT !.execution = 2]>>, <<>>))
Parted == Saved(Modes(Ring(1, 1, Minutes(1, 1, 0)), "split", <<[Silent EXCEPT !.evaluation = 0], Silent>>,
                      <<{1}, {1, 2}>>))

AllExercises == {Night, Whole, Long, Short, Uneven, Parted}
=============================================================================
