--------------------------- MODULE ExerciseTimer ---------------------------
(***************************************************************************)
(* ExerciseService of lib/services/exercise_service.dart: the one timer    *)
(* that takes a running exercise through its rounds and phases.  Its       *)
(* methods call one another without an await, so a handler is one step,    *)
(* and the service one record that the methods hand on.                    *)
(***************************************************************************)
EXTENDS ExerciseSchedule

CONSTANTS
    Exercises,
    MaxStarts,   \* bound on how often an exercise is started
    StartBy,     \* the last moment to start one
    MaxSleeps,   \* bound on how often the app is suspended
    Naps,        \* how long it is, in ticks
    MaxNow       \* bound on the clock

ASSUME TimerAssumption ==
    /\ {MaxStarts, StartBy, MaxSleeps, MaxNow} \subseteq Nat /\ Naps \subseteq Nat \ {0}
    /\ Absent \notin Exercises \cup Nat
    /\ StartBy <= MaxNow /\ \A nap \in Naps : StartBy + DayTicks + nap <= MaxNow
    /\ \A e \in Exercises : {e.startTime, e.endTime} \subseteq 0 .. Day - 1
          /\ e.numberOfRounds \in Nat /\ e.minutes \in [Phases -> Nat]

VARIABLES
    now,       \* the wall clock, in ticks
    service,   \* the fields of ExerciseService
    sleeps,    \* how often the app was suspended
    fired      \* whether the timer fired since the clock moved on

vars == <<now, service, sleeps, fired>>

RunPhases == Phases \cup {"pending", "done"}

Event == [exercise : Exercises, run : 1 .. MaxStarts, phase : RunPhases, when : 0 .. MaxNow,
          elapsed : Nat, round : Nat, auto : BOOLEAN]

(* A periodic timer captures the exercise it was started for.               *)
Timer == [run : 1 .. MaxStarts, exercise : Exercises]

(* `run` numbers the runs, `live` are the timers that go on firing, `timer` *)
(* the one the service remembers, `raised` the events of the last step.     *)
Service == [exercise : Exercises \cup {Absent}, run : 0 .. MaxStarts, startedOn : 0 .. MaxNow,
            elapsed : Nat, round : Nat, phase : RunPhases, last : Event \cup {Absent},
            minuteSeen : 0 .. Day - 1, timer : Timer \cup {Absent}, live : SUBSET Timer,
            raised : Seq(Event)]

TimeOfDay == (now \div Minute) % Day

(* inMinutes rounds towards zero: in the minute before the start it is 0.   *)
InMinutes(ticks) == IF ticks >= 0 THEN ticks \div Minute ELSE -((-ticks) \div Minute)

-----------------------------------------------------------------------------
Raise(s, e, auto) ==
    LET event == [exercise |-> e, run |-> s.run, phase |-> s.phase, when |-> now,
                  elapsed |-> s.elapsed, round |-> s.round, auto |-> auto]
    IN  [s EXCEPT !.last = event, !.raised = Append(@, event)]

(* Bug: the timer is forgotten, not cancelled.                              *)
CancelForgotten(s) == [s EXCEPT !.timer = Absent]

Cancel(s) == [s EXCEPT !.live = @ \ {s.timer}, !.timer = Absent]

(* stop: the last event of a run.                                           *)
Stopped(s, auto) ==
    IF s.exercise = Absent THEN Cancel(s)
    ELSE [Raise([Cancel(s) EXCEPT !.phase = "done"], s.exercise, auto) EXCEPT !.exercise = Absent]

(* Bug: the day is that of the clock, not of the start.                     *)
AnchorNow(s) == now

Anchor(s) == s.startedOn

Window(s) == WindowAt(s.exercise.startTime, s.exercise.endTime, Anchor(s))

RoundTime(e) == RoundLength(e.minutes)
TotalTime(e) == e.numberOfRounds * RoundTime(e)

(* Bug: the end of the schedule stops nothing.                              *)
OverByRounds(s, e, minutes) == minutes >= TotalTime(e)

(* All rounds are done, or the scheduled end has come.                      *)
Over(s, e, minutes) == minutes >= TotalTime(e) \/ now >= Window(s).end

(* Bug: the phases meet a minute late.                                      *)
PhaseLate(e, inRound) ==
    CASE inRound <= e.minutes.execution -> "execution"
      [] inRound > e.minutes.execution /\ inRound <= e.minutes.execution + e.minutes.evaluation -> "evaluation"
      [] inRound > e.minutes.execution + e.minutes.evaluation -> "rotation"

Phase(e, inRound) ==
    CASE inRound < e.minutes.execution -> "execution"
      [] inRound >= e.minutes.execution /\ inRound < e.minutes.execution + e.minutes.evaluation -> "evaluation"
      [] inRound >= e.minutes.execution + e.minutes.evaluation -> "rotation"

Clamp(n, low, high) == Max({low, Min({n, high})})

(* Every round has the three durations of the exercise.                     *)
InRound(s, e, minutes) ==
    [s EXCEPT !.elapsed = minutes,
              !.round = Clamp(minutes \div RoundTime(e), 0, e.numberOfRounds - 1),
              !.phase = Phase(e, minutes % RoundTime(e))]

(* Bug: a minute is new if it is later on the clock face.                   *)
NewMinuteLater(seen) == TimeOfDay > seen

NewMinute(seen) == TimeOfDay # seen

(* _progress: once a minute, or at once when forced.                        *)
Progress(s, e, force) ==
    LET minutes == InMinutes(now - Window(s).start)
        seen == [s EXCEPT !.minuteSeen = TimeOfDay]
        waits == s.last.phase = "pending" /\ minutes < 0
    IN  IF s.exercise = Absent \/ ~(force \/ NewMinute(s.minuteSeen)) THEN s
        ELSE CASE waits -> Raise(seen, e, FALSE)
               [] ~waits /\ Over(s, e, minutes) -> Stopped([seen EXCEPT !.elapsed = TotalTime(e)], TRUE)
               [] ~waits /\ ~Over(s, e, minutes) -> Raise(InRound(seen, e, minutes), s.exercise, FALSE)

(* start: the timer is made whatever the first look at the clock did.       *)
Begun(s, e) ==
    LET run == s.run + 1
        pending == [exercise |-> e, run |-> run, phase |-> "pending", when |-> now,
                    elapsed |-> 0, round |-> 0, auto |-> FALSE]
        fresh == [s EXCEPT !.exercise = e, !.run = run, !.elapsed = 0, !.round = 0,
                           !.startedOn = now, !.last = pending, !.phase = "pending"]
        id == [run |-> run, exercise |-> e]
    IN  [Progress(fresh, e, TRUE) EXCEPT !.timer = id, !.live = @ \cup {id}]

Handling == [service EXCEPT !.raised = <<>>]

-----------------------------------------------------------------------------
Init ==
    /\ now \in 0 .. StartBy
    /\ service = [exercise |-> Absent, run |-> 0, startedOn |-> 0, elapsed |-> 0, round |-> 0,
                  phase |-> "execution", last |-> Absent, minuteSeen |-> TimeOfDay,
                  timer |-> Absent, live |-> {}, raised |-> <<>>]
    /\ sleeps = 0
    /\ fired = FALSE

(* Bug: start does not stop what runs.                                      *)
StartOver(e) ==
    /\ service.run < MaxStarts /\ now <= StartBy
    /\ service' = Begun(Handling, e)
    /\ UNCHANGED <<now, sleeps, fired>>

Start(e) ==
    /\ service.run < MaxStarts /\ now <= StartBy
    /\ service' = Begun(Stopped(Handling, FALSE), e)
    /\ UNCHANGED <<now, sleeps, fired>>

(* The stop button.                                                         *)
Stop ==
    /\ service' = Stopped(Handling, FALSE)
    /\ UNCHANGED <<now, sleeps, fired>>

Fire(timer) ==
    /\ timer \in service.live
    /\ service' = Progress(Handling, timer.exercise, FALSE)
    /\ fired' = TRUE
    /\ UNCHANGED <<now, sleeps>>

(* Half a minute goes by.  While the app is awake a timer fires every       *)
(* second of it.                                                            *)
Wait ==
    /\ now < MaxNow /\ (service.live = {} \/ fired)
    /\ now' = now + 1
    /\ fired' = FALSE
    /\ service' = Handling
    /\ UNCHANGED sleeps

(* A suspended app fires no timer.                                          *)
Sleep(nap) ==
    /\ sleeps < MaxSleeps /\ now <= StartBy + DayTicks
    /\ sleeps' = sleeps + 1
    /\ now' = now + nap
    /\ fired' = FALSE
    /\ service' = Handling

Next ==
    \/ \E e \in Exercises : Start(e)
    \/ Stop \/ Wait
    \/ \E timer \in Timer : Fire(timer)
    \/ \E nap \in Naps : Sleep(nap)

Spec == Init /\ [][Next]_vars

(* A live timer fires, and the clock goes on.                               *)
FairSpec == Spec /\ WF_vars(Wait) /\ \A timer \in Timer : WF_vars(Fire(timer))

-----------------------------------------------------------------------------
(* The fields of the service and its events have their types: no event      *)
(* carries a time before the start, which the notification would show.      *)
TypeOK ==
    /\ now \in 0 .. MaxNow /\ service \in Service
    /\ sleeps \in 0 .. MaxSleeps /\ fired \in BOOLEAN

(* What runs is driven by one timer, its own, and nothing else fires: two   *)
(* timers would advance one run by two exercises.                           *)
OneTimer ==
    /\ service.live \subseteq {service.timer}
    /\ service.exercise # Absent =>
        service.timer = [run |-> service.run, exercise |-> service.exercise]

Rank(event) == CASE event.phase = "pending" -> 0 [] event.phase \in Phases -> 1 [] event.phase = "done" -> 2

PhaseRank(event) ==
    CASE event.phase = "execution" -> 1 [] event.phase = "evaluation" -> 2 [] event.phase = "rotation" -> 3

(* a may be followed by b on the stream of events.                          *)
Follows(a, b) ==
    IF a.run # b.run THEN a.phase = "done" /\ b.run > a.run
    ELSE /\ Rank(a) <= Rank(b) /\ a.phase # "done" /\ a.exercise = b.exercise
         /\ Rank(a) = 1 /\ Rank(b) = 1 =>
                /\ a.elapsed <= b.elapsed /\ a.round <= b.round
                /\ a.round = b.round => PhaseRank(a) <= PhaseRank(b)

(* Whoever listens sees every run go forward: it waits, then rounds and     *)
(* phases in their order, then done, once, before the next run is heard of. *)
GoesForward ==
    [][LET heard == service'.raised
       IN  /\ \A i \in 1 .. Len(heard) - 1 : Follows(heard[i], heard[i + 1])
           /\ service.last # Absent /\ heard # <<>> => Follows(service.last, heard[1])]_vars

(* When an event's exercise is on, for a run started at a moment.           *)
RunWindow(event, started) == WindowAt(event.exercise.startTime, event.exercise.endTime, started)

OnTime(event, started) ==
    LET into == event.when - RunWindow(event, started).start
    IN  /\ event.phase \in Phases =>
              /\ -Minute < into /\ event.when < RunWindow(event, started).end
              /\ event.round < event.exercise.numberOfRounds
        /\ event.auto =>
              \/ event.when >= RunWindow(event, started).end
              \/ into > (TotalTime(event.exercise) - 1) * Minute

(* A run is in a round, one of its own, only between a minute before its    *)
(* start and its end, and it stops by itself only at its end or when its    *)
(* rounds are over, to the minute.                                          *)
StopsOnTime == service.last # Absent => OnTime(service.last, service.startedOn)

(* A run started while the exercise is on goes on with it, whatever day the *)
(* exercise began; otherwise it waits for the next time it is on: no time   *)
(* it is on ends between the start of the run and the one chosen.           *)
RunsTheRightDay ==
    service.last # Absent =>
        LET w == RunWindow(service.last, service.startedOn)
        IN  w.end - DayTicks <= service.startedOn /\ service.startedOn < w.end

(* The event names the phase the exercise's schedule has at that minute.    *)
OnSchedule(event) ==
    LET e == event.exercise
        at == RoundStart(e, event.round)
        m == PhaseMinutes(e)[event.round + 1]
        begins == CASE event.phase = "execution" -> at
                    [] event.phase = "evaluation" -> at + m.execution
                    [] event.phase = "rotation" -> at + m.execution + m.evaluation
    IN  begins <= event.elapsed /\ event.elapsed < begins + m[event.phase]

Even(e) == PhaseMinutes(e) = [n \in 1 .. e.numberOfRounds |-> e.minutes]

(* While the rounds are as many and as long as the exercise says, the timer *)
(* is where the schedule is that everybody has in hand.                     *)
FollowsEvenSchedule ==
    service.last # Absent /\ service.last.phase \in Phases /\ Even(service.last.exercise)
        => OnSchedule(service.last)

(* Every run ends, by hand or by itself, over midnight and sleep.           *)
EveryRunEnds == \A n \in 1 .. MaxStarts : (service.run = n) ~> (service.run > n \/ service.exercise = Absent)
=============================================================================
