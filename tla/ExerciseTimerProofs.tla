------------------------ MODULE ExerciseTimerProofs ------------------------
(***************************************************************************)
(* What ExerciseTimer promises, for every clock, every set of exercises    *)
(* and any number of runs.                                                 *)
(***************************************************************************)
EXTENDS ExerciseTimer, WellFoundedInduction, NaturalsInduction, TLAPS

-----------------------------------------------------------------------------
(* Midnight is within the day before.                                       *)
LEMMA MidnightIsNear ==
    ASSUME NEW at \in Int
    PROVE  /\ DayTicks \in Nat \ {0}
           /\ at % DayTicks \in 0 .. DayTicks - 1
<1>1. DayTicks \in Nat \ {0}
  BY ClockAssumption, SMT DEF DayTicks
<1>2. at % DayTicks \in 0 .. DayTicks - 1
  BY <1>1, SMT
<1> QED
  BY <1>1, <1>2

(* A time of day comes before the day is over.                              *)
LEMMA TimeOfDayInDay ==
    ASSUME NEW t \in 0 .. Day - 1
    PROVE  /\ t * Minute \in Nat
           /\ t * Minute < DayTicks
<1>1. Day \in Nat \ {0} /\ Minute \in Nat \ {0}
  BY ClockAssumption
<1>2. t * Minute \in Nat
  BY <1>1, SMT
<1>3. (Day - 1 - t) * Minute >= 0
  BY <1>1, SMT
<1>4. (Day - 1 - t) * Minute = Day * Minute - Minute - t * Minute
  BY <1>1, SMT
<1> QED
  BY <1>1, <1>2, <1>3, <1>4, SMT DEF DayTicks

(* ExerciseX.windowAt gives an occurrence that is not over, and of those    *)
(* the first: the one a day before has ended.                               *)
THEOREM WindowIsNext ==
    ASSUME NEW startTime \in 0 .. Day - 1, NEW endTime \in 0 .. Day - 1, NEW at \in Int
    PROVE  LET w == WindowAt(startTime, endTime, at)
           IN  /\ w.start \in Int /\ w.end \in Int
               /\ w.start < w.end /\ w.end <= w.start + DayTicks
               /\ w.end - DayTicks <= at /\ at < w.end
<1> DEFINE midnight == at - (at % DayTicks)
           start == midnight + startTime * Minute
           end == midnight + endTime * Minute
           late == IF end > start THEN end ELSE end + DayTicks
<1>1. /\ DayTicks \in Nat \ {0} /\ midnight \in Int
      /\ midnight <= at /\ at < midnight + DayTicks
  BY MidnightIsNear, SMT
<1>2. /\ start \in Int /\ end \in Int
      /\ midnight <= start /\ start < midnight + DayTicks
      /\ midnight <= end /\ end < midnight + DayTicks
  BY <1>1, TimeOfDayInDay, SMT
<1>3. late \in Int /\ start < late /\ late <= start + DayTicks
  BY <1>1, <1>2, SMT
<1>4. SameDay(startTime, endTime, at) = [start |-> start, end |-> late]
  BY DEF SameDay, OnDayOf
<1> HIDE DEF midnight, start, end, late
<1>5. Shift([start |-> start, end |-> late], -DayTicks) = [start |-> start + -DayTicks, end |-> late + -DayTicks]
  BY DEF Shift
<1>6. Shift([start |-> start, end |-> late], DayTicks) = [start |-> start + DayTicks, end |-> late + DayTicks]
  BY DEF Shift
<1>7. CASE at < start /\ start + -DayTicks <= at /\ at < late + -DayTicks
  <2>1. WindowAt(startTime, endTime, at) = [start |-> start + -DayTicks, end |-> late + -DayTicks]
    BY <1>1, <1>2, <1>3, <1>4, <1>5, <1>6, <1>7, SMT DEF WindowAt, Within
  <2> QED
    BY <1>1, <1>2, <1>3, <1>7, <2>1, SMT
<1>8. CASE at < start /\ ~(start + -DayTicks <= at /\ at < late + -DayTicks)
  <2>1. WindowAt(startTime, endTime, at) = [start |-> start, end |-> late]
    BY <1>1, <1>2, <1>3, <1>4, <1>5, <1>6, <1>8, SMT DEF WindowAt, Within
  <2> QED
    BY <1>1, <1>2, <1>3, <1>8, <2>1, SMT
<1>9. CASE at >= late
  <2>1. WindowAt(startTime, endTime, at) = [start |-> start + DayTicks, end |-> late + DayTicks]
    BY <1>1, <1>2, <1>3, <1>4, <1>5, <1>6, <1>9, SMT DEF WindowAt, Within
  <2>2. at < late + DayTicks
    BY <1>1, <1>2, <1>3, SMT
  <2> QED
    BY <1>1, <1>2, <1>3, <1>9, <2>1, <2>2, SMT
<1>10. CASE start <= at /\ at < late
  <2>1. WindowAt(startTime, endTime, at) = [start |-> start, end |-> late]
    BY <1>1, <1>2, <1>3, <1>4, <1>5, <1>6, <1>10, SMT DEF WindowAt, Within
  <2> QED
    BY <1>1, <1>2, <1>3, <1>10, <2>1, SMT
<1> QED
  BY <1>1, <1>2, <1>3, <1>7, <1>8, <1>9, <1>10, SMT

-----------------------------------------------------------------------------
(* What the methods of the service do to its fields.  Only the names of the *)
(* fields are needed for that, not their types.                             *)
Fields == {"exercise", "run", "startedOn", "elapsed", "round", "phase", "last", "minuteSeen",
           "timer", "live", "raised"}

LEMMA RaiseFacts ==
    ASSUME NEW s, NEW e, NEW auto, DOMAIN s = Fields
    PROVE  LET t == Raise(s, e, auto)
           IN  /\ DOMAIN t = Fields
               /\ t.exercise = s.exercise /\ t.run = s.run /\ t.startedOn = s.startedOn
               /\ t.timer = s.timer /\ t.live = s.live
               /\ t.last = [exercise |-> e, run |-> s.run, phase |-> s.phase, when |-> now,
                            elapsed |-> s.elapsed, round |-> s.round, auto |-> auto]
               /\ t.raised = Append(s.raised, t.last)
  BY Zenon DEF Raise, Fields

LEMMA CancelFacts ==
    ASSUME NEW s, DOMAIN s = Fields
    PROVE  LET t == Cancel(s)
           IN  /\ DOMAIN t = Fields
               /\ t.live = s.live \ {s.timer} /\ t.timer = Absent
               /\ \A f \in Fields \ {"live", "timer"} : t[f] = s[f]
  BY DEF Cancel, Fields

LEMMA StoppedFacts ==
    ASSUME NEW s, NEW auto, DOMAIN s = Fields
    PROVE  LET t == Stopped(s, auto)
           IN  /\ DOMAIN t = Fields
               /\ t.live = s.live \ {s.timer} /\ t.timer = Absent
               /\ t.exercise = Absent /\ t.run = s.run /\ t.startedOn = s.startedOn
               /\ s.exercise = Absent => t.last = s.last /\ t.raised = s.raised
               /\ s.exercise # Absent =>
                    /\ t.last = [exercise |-> s.exercise, run |-> s.run, phase |-> "done", when |-> now,
                                 elapsed |-> s.elapsed, round |-> s.round, auto |-> auto]
                    /\ t.raised = Append(s.raised, t.last)
<1> DEFINE c == Cancel(s)
           d == [c EXCEPT !.phase = "done"]
           r == Raise(d, s.exercise, auto)
<1>1. /\ DOMAIN c = Fields /\ c.live = s.live \ {s.timer} /\ c.timer = Absent
      /\ \A f \in Fields \ {"live", "timer"} : c[f] = s[f]
  BY CancelFacts
<1>2. /\ c.exercise = s.exercise /\ c.run = s.run /\ c.startedOn = s.startedOn
      /\ c.last = s.last /\ c.elapsed = s.elapsed /\ c.round = s.round /\ c.raised = s.raised
  BY <1>1 DEF Fields
<1> HIDE DEF c
<1>3. /\ DOMAIN d = Fields /\ d.phase = "done" /\ d.live = c.live /\ d.timer = c.timer
      /\ d.exercise = c.exercise /\ d.run = c.run /\ d.startedOn = c.startedOn
      /\ d.elapsed = c.elapsed /\ d.round = c.round /\ d.raised = c.raised
  BY <1>1 DEF Fields
<1> HIDE DEF d
<1>4. /\ DOMAIN r = Fields /\ r.run = d.run /\ r.startedOn = d.startedOn
      /\ r.timer = d.timer /\ r.live = d.live
      /\ r.last = [exercise |-> s.exercise, run |-> d.run, phase |-> d.phase, when |-> now,
                   elapsed |-> d.elapsed, round |-> d.round, auto |-> auto]
      /\ r.raised = Append(d.raised, r.last)
  BY <1>3, RaiseFacts
<1> HIDE DEF r
<1>5. Stopped(s, auto) = IF s.exercise = Absent THEN c ELSE [r EXCEPT !.exercise = Absent]
  BY DEF Stopped, c, d, r
<1>6. CASE s.exercise = Absent
  BY <1>1, <1>2, <1>5, <1>6
<1>7. CASE s.exercise # Absent
  <2>1. /\ DOMAIN [r EXCEPT !.exercise = Absent] = Fields
        /\ [r EXCEPT !.exercise = Absent].exercise = Absent
        /\ [r EXCEPT !.exercise = Absent].run = r.run
        /\ [r EXCEPT !.exercise = Absent].startedOn = r.startedOn
        /\ [r EXCEPT !.exercise = Absent].timer = r.timer
        /\ [r EXCEPT !.exercise = Absent].live = r.live
        /\ [r EXCEPT !.exercise = Absent].last = r.last
        /\ [r EXCEPT !.exercise = Absent].raised = r.raised
    BY <1>4 DEF Fields
  <2> QED
    BY <1>1, <1>2, <1>3, <1>4, <1>5, <1>7, <2>1
<1> QED
  BY <1>6, <1>7

-----------------------------------------------------------------------------
(* Whole minutes, rounded towards zero, and the ticks they stand for.       *)
LEMMA MinutesAreTicks ==
    ASSUME NEW x \in Int
    PROVE  /\ InMinutes(x) \in Int
           /\ InMinutes(x) >= 0 <=> x > -Minute
           /\ \A t \in Nat : InMinutes(x) >= t => x > (t - 1) * Minute
<1>1. Minute \in Nat \ {0}
  BY ClockAssumption
<1>2. CASE x >= 0
  <2> DEFINE q == x \div Minute
  <2>1. q \in Nat /\ q * Minute <= x
    BY <1>1, <1>2, SMT
  <2>2. InMinutes(x) = q
    BY <1>2 DEF InMinutes
  <2> HIDE DEF q
  <2>3. ASSUME NEW t \in Nat, q >= t
        PROVE  x > (t - 1) * Minute
    <3>1. (q - t) * Minute >= 0
      BY <1>1, <2>1, <2>3, SMT
    <3>2. (q - t) * Minute = q * Minute - t * Minute /\ (t - 1) * Minute = t * Minute - Minute
      BY <1>1, <2>1, SMT
    <3>3. q * Minute \in Int /\ t * Minute \in Int
      BY <1>1, <2>1, SMT
    <3> QED
      BY <1>1, <2>1, <3>1, <3>2, <3>3, SMT
  <2> QED
    BY <1>1, <1>2, <2>1, <2>2, <2>3, SMT
<1>3. CASE x < 0
  <2> DEFINE q == (-x) \div Minute
  <2>1. /\ q \in Nat /\ q * Minute <= -x
        /\ q = 0 <=> -x < Minute
    BY <1>1, <1>3, SMT
  <2>2. InMinutes(x) = -q
    BY <1>3 DEF InMinutes
  <2> HIDE DEF q
  <2>3. InMinutes(x) >= 0 <=> x > -Minute
    BY <1>1, <2>1, <2>2, SMT
  <2>4. ASSUME NEW t \in Nat, -q >= t
        PROVE  x > (t - 1) * Minute
    <3>1. q = 0 /\ t = 0
      BY <2>1, <2>4, SMT
    <3> QED
      BY <1>1, <2>1, <3>1, SMT
  <2> QED
    BY <2>1, <2>2, <2>3, <2>4, SMT
<1> QED
  BY <1>2, <1>3, SMT

LEMMA ExerciseFacts ==
    ASSUME NEW e \in Exercises
    PROVE  /\ e # Absent
           /\ e.startTime \in 0 .. Day - 1 /\ e.endTime \in 0 .. Day - 1
           /\ e.numberOfRounds \in Nat /\ RoundTime(e) \in Nat /\ TotalTime(e) \in Nat
           /\ e.minutes.execution \in Nat /\ e.minutes.evaluation \in Nat /\ e.minutes.rotation \in Nat
           /\ TotalTime(e) > 0 => e.numberOfRounds > 0 /\ RoundTime(e) > 0
<1>1. /\ e # Absent /\ e.startTime \in 0 .. Day - 1 /\ e.endTime \in 0 .. Day - 1
      /\ e.numberOfRounds \in Nat /\ e.minutes \in [Phases -> Nat]
  BY TimerAssumption
<1>2. /\ e.minutes.execution \in Nat /\ e.minutes.evaluation \in Nat /\ e.minutes.rotation \in Nat
  BY <1>1 DEF Phases
<1>3. RoundTime(e) \in Nat
  BY <1>2 DEF RoundTime, RoundLength
<1>4. /\ e.numberOfRounds * RoundTime(e) \in Nat
      /\ e.numberOfRounds = 0 \/ RoundTime(e) = 0 => e.numberOfRounds * RoundTime(e) = 0
  BY <1>1, <1>3, SMT
<1> QED
  BY <1>1, <1>2, <1>3, <1>4 DEF TotalTime

(* The defensive clamp keeps the round among those there are.               *)
LEMMA ClampBelow ==
    ASSUME NEW n \in Int, NEW high \in Nat
    PROVE  Clamp(n, 0, high) \in 0 .. high
<1> DEFINE low == Min({n, high})
<1>1. low \in Int /\ low <= high
  <2>1. \E x \in {n, high} : \A y \in {n, high} : x <= y
    BY SMT
  <2> QED
    BY <2>1, SMT DEF Min
<1> HIDE DEF low
<1>2. \E x \in {0, low} : \A y \in {0, low} : x >= y
  BY <1>1, SMT
<1>3. Max({0, low}) \in {0, low} /\ Max({0, low}) >= 0
  BY <1>1, <1>2, SMT DEF Max
<1> QED
  BY <1>1, <1>3, SMT DEF Clamp, low

LEMMA InRoundFacts ==
    ASSUME NEW s, NEW e \in Exercises, NEW minutes \in Int, DOMAIN s = Fields,
           0 <= minutes, minutes < TotalTime(e)
    PROVE  LET t == InRound(s, e, minutes)
           IN  /\ DOMAIN t = Fields
               /\ t.exercise = s.exercise /\ t.run = s.run /\ t.startedOn = s.startedOn
               /\ t.timer = s.timer /\ t.live = s.live
               /\ t.phase \in Phases
               /\ t.round < e.numberOfRounds
               /\ t.raised = s.raised
               /\ t.elapsed = minutes
               /\ t.round = Clamp(minutes \div RoundTime(e), 0, e.numberOfRounds - 1)
               /\ t.phase = Phase(e, minutes % RoundTime(e))
<1> DEFINE round == Clamp(minutes \div RoundTime(e), 0, e.numberOfRounds - 1)
           phase == Phase(e, minutes % RoundTime(e))
<1>1. /\ e.numberOfRounds \in Nat /\ e.numberOfRounds > 0 /\ RoundTime(e) \in Nat /\ RoundTime(e) > 0
      /\ e.minutes.execution \in Nat /\ e.minutes.evaluation \in Nat
  BY ExerciseFacts, SMT
<1>2. minutes \div RoundTime(e) \in Int /\ minutes % RoundTime(e) \in Int
  BY <1>1, SMT
<1>3. round < e.numberOfRounds
  <2>1. e.numberOfRounds - 1 \in Nat
    BY <1>1, SMT
  <2>2. round \in 0 .. e.numberOfRounds - 1
    BY <1>2, <2>1, ClampBelow
  <2> QED
    BY <1>1, <2>2, SMT
<1>4. phase \in Phases
  BY <1>1, <1>2, SMT DEF Phase, Phases
<1> HIDE DEF round, phase
<1>5. InRound(s, e, minutes) = [s EXCEPT !.elapsed = minutes, !.round = round, !.phase = phase]
  BY DEF InRound, round, phase
<1>6. /\ DOMAIN InRound(s, e, minutes) = Fields
      /\ InRound(s, e, minutes).exercise = s.exercise /\ InRound(s, e, minutes).run = s.run
      /\ InRound(s, e, minutes).startedOn = s.startedOn /\ InRound(s, e, minutes).timer = s.timer
      /\ InRound(s, e, minutes).live = s.live /\ InRound(s, e, minutes).raised = s.raised
      /\ InRound(s, e, minutes).elapsed = minutes /\ InRound(s, e, minutes).round = round
      /\ InRound(s, e, minutes).phase = phase
  BY <1>5 DEF Fields
<1> QED
  BY <1>3, <1>4, <1>6 DEF round, phase

-----------------------------------------------------------------------------
(* The inductive invariant.  The event the service holds is on time, for    *)
(* the moment its run was started, and while something runs it is an event  *)
(* of what runs, not done, raised in the past: that is why the next look at *)
(* the clock finds no time before the start.                                *)
Sound(s, at) ==
    /\ DOMAIN s = Fields
    /\ s.startedOn \in Int
    /\ s.exercise \in Exercises \cup {Absent}
    /\ s.last # Absent => s.last.exercise \in Exercises /\ OnTime(s.last, s.startedOn)
    /\ s.exercise # Absent =>
        /\ s.last.exercise = s.exercise /\ OnTime(s.last, s.startedOn)
        /\ s.last.phase \in Phases \cup {"pending"} /\ s.phase = s.last.phase
        /\ s.last.when \in Int /\ s.last.when <= at

Driven(s) ==
    /\ s.live \subseteq {s.timer}
    /\ s.exercise # Absent => s.timer = [run |-> s.run, exercise |-> s.exercise]

IInv == now \in Int /\ Sound(service, now) /\ Driven(service)

LEMMA PendingOnTime ==
    ASSUME NEW event, NEW started, event.phase \notin Phases, event.auto = FALSE
    PROVE  OnTime(event, started)
  BY DEF OnTime

LEMMA StoppedKeeps ==
    ASSUME NEW s, now \in Int, Sound(s, now), Driven(s)
    PROVE  LET t == Stopped(s, FALSE)
           IN  Sound(t, now) /\ Driven(t) /\ t.exercise = Absent /\ t.timer = Absent /\ t.live = {}
<1> DEFINE no == FALSE
           t == Stopped(s, no)
<1> HIDE DEF no
<1>1. /\ DOMAIN t = Fields /\ t.live = s.live \ {s.timer} /\ t.timer = Absent
      /\ t.exercise = Absent /\ t.startedOn = s.startedOn
      /\ s.exercise = Absent => t.last = s.last
      /\ s.exercise # Absent =>
           t.last = [exercise |-> s.exercise, run |-> s.run, phase |-> "done", when |-> now,
                     elapsed |-> s.elapsed, round |-> s.round, auto |-> no]
  <2>1. DOMAIN s = Fields
    BY DEF Sound
  <2> QED
    BY <2>1, StoppedFacts
<1> HIDE DEF t
<1>2. t.live = {}
  BY <1>1 DEF Driven
<1>3. t.last # Absent => t.last.exercise \in Exercises /\ OnTime(t.last, t.startedOn)
  <2>1. CASE s.exercise = Absent
    BY <1>1, <2>1 DEF Sound
  <2>2. CASE s.exercise # Absent
    <3>1. t.last.phase = "done" /\ t.last.auto = no /\ t.last.exercise = s.exercise
      BY <1>1, <2>2
    <3>2. OnTime(t.last, t.startedOn)
      BY <3>1, PendingOnTime DEF Phases, no
    <3> QED
      BY <2>2, <3>1, <3>2 DEF Sound
  <2> QED
    BY <2>1, <2>2
<1>4. t.startedOn \in Int
  BY <1>1 DEF Sound
<1>5. Sound(t, now)
  BY <1>1, <1>3, <1>4 DEF Sound
<1>6. Driven(t)
  BY <1>1, <1>2 DEF Driven
<1> QED
  BY <1>1, <1>2, <1>5, <1>6 DEF t, no

(* One look at the clock of something that runs: what is neither waiting    *)
(* nor over is in a round.                                                  *)
LEMMA LookFacts ==
    ASSUME NEW s, now \in Int, Sound(s, now), s.exercise # Absent
    PROVE  LET e == s.exercise
               w == Window(s)
               minutes == InMinutes(now - w.start)
           IN  /\ w = WindowAt(e.startTime, e.endTime, s.startedOn)
               /\ w.start \in Int /\ w.end \in Int /\ minutes \in Int
               /\ ~(s.last.phase = "pending" /\ minutes < 0) /\ ~Over(s, e, minutes) =>
                    /\ 0 <= minutes /\ minutes < TotalTime(e)
                    /\ -Minute < now - w.start /\ now < w.end
<1> DEFINE e == s.exercise
           w == Window(s)
           minutes == InMinutes(now - w.start)
<1>1. e \in Exercises /\ s.startedOn \in Int
  BY DEF Sound
<1>2. w = WindowAt(e.startTime, e.endTime, s.startedOn)
  BY DEF Window, Anchor
<1>3. w.start \in Int /\ w.end \in Int
  <2>1. e.startTime \in 0 .. Day - 1 /\ e.endTime \in 0 .. Day - 1
    BY <1>1, ExerciseFacts
  <2> QED
    BY <1>1, <1>2, <2>1, WindowIsNext
<1>4. minutes \in Int /\ now - w.start \in Int
  BY <1>3, MinutesAreTicks, SMT
<1> HIDE DEF e, w, minutes
<1>5. ASSUME ~(s.last.phase = "pending" /\ minutes < 0), ~Over(s, e, minutes)
      PROVE  /\ 0 <= minutes /\ minutes < TotalTime(e)
             /\ -Minute < now - w.start /\ now < w.end
  <2>1. minutes < TotalTime(e) /\ now < w.end
    <3>1. TotalTime(e) \in Nat
      BY <1>1, ExerciseFacts
    <3> QED
      BY <1>3, <1>4, <1>5, <3>1, SMT DEF Over, w
  <2>2. CASE s.last.phase = "pending"
    <3>1. minutes >= 0
      BY <1>4, <1>5, <2>2, SMT
    <3> QED
      BY <1>4, <2>1, <3>1, MinutesAreTicks DEF minutes
  <2>3. CASE s.last.phase # "pending"
    <3>1. /\ s.last.phase \in Phases /\ OnTime(s.last, s.startedOn) /\ s.last.exercise = e
          /\ s.last.when \in Int /\ s.last.when <= now
      BY <1>1, <2>3 DEF Sound, e
    <3>2. RunWindow(s.last, s.startedOn) = w
      BY <1>2, <3>1 DEF RunWindow
    <3>3. -Minute < s.last.when - w.start
      BY <3>1, <3>2 DEF OnTime
    <3>4. now - w.start > -Minute
      BY <1>3, <3>1, <3>3, ClockAssumption, SMT
    <3>5. minutes >= 0
      BY <1>4, <3>4, MinutesAreTicks DEF minutes
    <3> QED
      BY <1>3, <1>4, <2>1, <3>4, <3>5, ClockAssumption, SMT
  <2> QED
    BY <2>2, <2>3
<1> QED
  BY <1>2, <1>3, <1>4, <1>5 DEF e, w, minutes

(* Whatever the look shows, the service stays sound.                        *)
LEMMA ProgressKeeps ==
    ASSUME NEW s, NEW force, now \in Int, Sound(s, now), s.exercise # Absent
    PROVE  LET t == Progress(s, s.exercise, force)
           IN  /\ Sound(t, now) /\ t.run = s.run
               /\ \/ t.exercise = s.exercise /\ t.timer = s.timer /\ t.live = s.live
                  \/ t.exercise = Absent /\ t.timer = Absent /\ t.live = s.live \ {s.timer}
<1> DEFINE e == s.exercise
           w == Window(s)
           minutes == InMinutes(now - w.start)
           seen == [s EXCEPT !.minuteSeen = TimeOfDay]
           waits == s.last.phase = "pending" /\ minutes < 0
           t == Progress(s, s.exercise, force)
           no == FALSE
           yes == TRUE
<1>1. e \in Exercises /\ e # Absent /\ DOMAIN s = Fields /\ s.startedOn \in Int
  BY DEF Sound
<1>2. /\ w = WindowAt(e.startTime, e.endTime, s.startedOn)
      /\ w.start \in Int /\ w.end \in Int /\ minutes \in Int
      /\ ~waits /\ ~Over(s, e, minutes) =>
           /\ 0 <= minutes /\ minutes < TotalTime(e)
           /\ -Minute < now - w.start /\ now < w.end
  BY LookFacts
<1>4. /\ DOMAIN seen = Fields /\ seen.exercise = e /\ seen.run = s.run /\ seen.startedOn = s.startedOn
      /\ seen.timer = s.timer /\ seen.live = s.live /\ seen.phase = s.phase
  BY <1>1 DEF Fields
<1>5. now - w.start \in Int
  BY <1>2, SMT
<1>6. t = IF ~(force \/ NewMinute(s.minuteSeen)) THEN s
          ELSE CASE waits -> Raise(seen, e, no)
                 [] ~waits /\ Over(s, e, minutes) -> Stopped([seen EXCEPT !.elapsed = TotalTime(e)], yes)
                 [] ~waits /\ ~Over(s, e, minutes) -> Raise(InRound(seen, e, minutes), e, no)
  BY <1>1 DEF Progress
<1> HIDE DEF no, yes, e, minutes, seen, t, w
<1>7. CASE ~(force \/ NewMinute(s.minuteSeen))
  BY <1>6, <1>7 DEF e, t
<1>8. CASE (force \/ NewMinute(s.minuteSeen)) /\ waits
  <2>1. t = Raise(seen, e, no)
    BY <1>6, <1>8
  <2>2. /\ DOMAIN t = Fields
        /\ t.exercise = e /\ t.run = s.run /\ t.startedOn = s.startedOn
        /\ t.timer = s.timer /\ t.live = s.live
        /\ t.last = [exercise |-> e, run |-> s.run, phase |-> s.phase, when |-> now,
                     elapsed |-> seen.elapsed, round |-> seen.round, auto |-> no]
    BY <1>4, <2>1, RaiseFacts
  <2>3. s.phase = "pending" /\ t.phase = s.phase
    BY <1>1, <1>4, <1>8, <2>1 DEF Sound, Raise, Fields, e
  <2>4. t.last.exercise = e /\ t.last.phase = "pending" /\ t.last.auto = FALSE /\ t.last.when = now
    BY <2>2, <2>3 DEF no
  <2>5. OnTime(t.last, t.startedOn)
    BY <2>4, PendingOnTime DEF Phases
  <2>6. Sound(t, now)
    BY <1>1, <2>2, <2>3, <2>4, <2>5, SMT DEF Sound
  <2> QED
    BY <2>2, <2>6 DEF e, t
<1>9. CASE (force \/ NewMinute(s.minuteSeen)) /\ ~waits /\ Over(s, e, minutes)
  <2> DEFINE full == [seen EXCEPT !.elapsed = TotalTime(e)]
  <2>1. t = Stopped(full, yes)
    BY <1>6, <1>9
  <2>2. /\ DOMAIN full = Fields /\ full.exercise = e /\ full.run = s.run /\ full.startedOn = s.startedOn
        /\ full.timer = s.timer /\ full.live = s.live
    BY <1>4 DEF Fields
  <2> HIDE DEF full
  <2>3. /\ DOMAIN t = Fields /\ t.live = s.live \ {s.timer} /\ t.timer = Absent
        /\ t.exercise = Absent /\ t.run = s.run /\ t.startedOn = s.startedOn
        /\ t.last = [exercise |-> e, run |-> s.run, phase |-> "done", when |-> now,
                     elapsed |-> full.elapsed, round |-> full.round, auto |-> yes]
    BY <1>1, <2>1, <2>2, StoppedFacts
  <2>4. t.last.exercise = e /\ t.last.phase = "done" /\ t.last.when = now
    BY <2>3
  <2>5. now >= w.end \/ now - w.start > (TotalTime(e) - 1) * Minute
    <3>1. TotalTime(e) \in Nat
      BY <1>1, ExerciseFacts
    <3>2. minutes >= TotalTime(e) => now - w.start > (TotalTime(e) - 1) * Minute
      BY <1>5, <3>1, MinutesAreTicks DEF minutes
    <3> QED
      BY <1>9, <3>2 DEF Over, w
  <2>6. RunWindow(t.last, t.startedOn) = w
    BY <1>2, <2>3, <2>4 DEF RunWindow
  <2>7. OnTime(t.last, t.startedOn)
    BY <2>4, <2>5, <2>6 DEF OnTime, Phases
  <2>8. Sound(t, now)
    BY <1>1, <2>3, <2>4, <2>7 DEF Sound
  <2> QED
    BY <2>3, <2>8 DEF e, t
<1>10. CASE (force \/ NewMinute(s.minuteSeen)) /\ ~waits /\ ~Over(s, e, minutes)
  <2> DEFINE in == InRound(seen, e, minutes)
  <2>1. t = Raise(in, e, no)
    BY <1>6, <1>10
  <2>2. /\ 0 <= minutes /\ minutes < TotalTime(e)
        /\ -Minute < now - w.start /\ now < w.end
    BY <1>2, <1>10
  <2>4. /\ DOMAIN in = Fields
        /\ in.exercise = e /\ in.run = s.run /\ in.startedOn = s.startedOn
        /\ in.timer = s.timer /\ in.live = s.live
        /\ in.phase \in Phases /\ in.round < e.numberOfRounds
    BY <1>1, <1>2, <1>4, <2>2, InRoundFacts
  <2> HIDE DEF in
  <2>5. /\ DOMAIN t = Fields
        /\ t.exercise = e /\ t.run = s.run /\ t.startedOn = s.startedOn
        /\ t.timer = s.timer /\ t.live = s.live
        /\ t.last = [exercise |-> e, run |-> in.run, phase |-> in.phase, when |-> now,
                     elapsed |-> in.elapsed, round |-> in.round, auto |-> no]
    BY <2>1, <2>4, RaiseFacts
  <2>6. t.phase = in.phase
    BY <2>1, <2>4 DEF Raise, Fields
  <2>7. /\ t.last.exercise = e /\ t.last.phase = in.phase /\ t.last.when = now
        /\ t.last.round = in.round /\ t.last.auto = FALSE
    BY <2>5 DEF no
  <2>8. RunWindow(t.last, t.startedOn) = w
    BY <1>2, <2>5, <2>7 DEF RunWindow
  <2>9. OnTime(t.last, t.startedOn)
    BY <2>2, <2>4, <2>7, <2>8 DEF OnTime
  <2>10. Sound(t, now)
    BY <1>1, <2>4, <2>5, <2>6, <2>7, <2>9, SMT DEF Sound
  <2> QED
    BY <2>5, <2>10 DEF e, t
<1> QED
  BY <1>7, <1>8, <1>9, <1>10 DEF t

(* What start puts in place before its first look at the clock.             *)
Fresh(s, e) ==
    [s EXCEPT !.exercise = e, !.run = s.run + 1, !.elapsed = 0, !.round = 0, !.startedOn = now,
              !.last = [exercise |-> e, run |-> s.run + 1, phase |-> "pending", when |-> now,
                        elapsed |-> 0, round |-> 0, auto |-> FALSE],
              !.phase = "pending"]

LEMMA BegunIsFresh ==
    ASSUME NEW s, NEW e
    PROVE  Begun(s, e) = LET id == [run |-> s.run + 1, exercise |-> e]
                         IN  [Progress(Fresh(s, e), e, TRUE) EXCEPT !.timer = id, !.live = @ \cup {id}]
  BY DEF Begun, Fresh

LEMMA FreshFacts ==
    ASSUME NEW s, NEW e \in Exercises, now \in Int, DOMAIN s = Fields
    PROVE  /\ Sound(Fresh(s, e), now)
           /\ Fresh(s, e).exercise = e /\ Fresh(s, e).run = s.run + 1
           /\ Fresh(s, e).timer = s.timer /\ Fresh(s, e).live = s.live
           /\ Fresh(s, e).raised = s.raised /\ Fresh(s, e).startedOn = now
           /\ Fresh(s, e).last.phase = "pending" /\ Fresh(s, e).last.run = s.run + 1
           /\ Fresh(s, e).last.exercise = e
<1> DEFINE no == FALSE
           run == s.run + 1
           pending == [exercise |-> e, run |-> run, phase |-> "pending", when |-> now,
                       elapsed |-> 0, round |-> 0, auto |-> no]
           fresh == [s EXCEPT !.exercise = e, !.run = run, !.elapsed = 0, !.round = 0,
                              !.startedOn = now, !.last = pending, !.phase = "pending"]
<1>1. Fresh(s, e) = fresh
  BY DEF Fresh
<1> HIDE DEF no, run
<1>2. /\ pending.exercise = e /\ pending.phase = "pending" /\ pending.when = now
      /\ pending.run = run /\ pending.auto = FALSE
  BY DEF no
<1> HIDE DEF pending
<1>3. /\ DOMAIN fresh = Fields /\ fresh.exercise = e /\ fresh.run = run /\ fresh.startedOn = now
      /\ fresh.last = pending /\ fresh.phase = "pending"
      /\ fresh.timer = s.timer /\ fresh.live = s.live /\ fresh.raised = s.raised
  BY DEF Fields
<1> HIDE DEF fresh
<1>4. e # Absent
  BY ExerciseFacts
<1>5. OnTime(pending, now)
  BY <1>2, PendingOnTime DEF Phases
<1>6. Sound(fresh, now)
  BY <1>2, <1>3, <1>4, <1>5, SMT DEF Sound
<1> QED
  BY <1>1, <1>2, <1>3, <1>6 DEF run

LEMMA BegunKeeps ==
    ASSUME NEW s, NEW e \in Exercises, now \in Int, DOMAIN s = Fields,
           s.timer = Absent, s.live = {}
    PROVE  LET t == Begun(s, e)
           IN  Sound(t, now) /\ Driven(t)
<1> DEFINE fresh == Fresh(s, e)
           run == s.run + 1
           id == [run |-> run, exercise |-> e]
           p == Progress(fresh, e, TRUE)
           t == [p EXCEPT !.timer = id, !.live = @ \cup {id}]
<1>1. Begun(s, e) = t
  BY BegunIsFresh
<1>2. /\ Sound(fresh, now) /\ fresh.exercise = e /\ fresh.run = run
      /\ fresh.timer = Absent /\ fresh.live = {}
  BY FreshFacts
<1>3. e # Absent
  BY ExerciseFacts
<1> HIDE DEF fresh, run
<1>4. /\ Sound(p, now) /\ p.run = fresh.run
      /\ \/ p.exercise = fresh.exercise /\ p.timer = fresh.timer /\ p.live = fresh.live
         \/ p.exercise = Absent /\ p.timer = Absent /\ p.live = fresh.live \ {fresh.timer}
  BY <1>2, <1>3, ProgressKeeps
<1> HIDE DEF p
<1>5. p.run = run /\ p.live = {} /\ p.exercise \in {e, Absent} /\ DOMAIN p = Fields
  BY <1>2, <1>4 DEF Sound
<1>6. /\ DOMAIN t = Fields /\ t.timer = id /\ t.live = {id}
      /\ t.exercise = p.exercise /\ t.run = p.run /\ t.startedOn = p.startedOn
      /\ t.last = p.last /\ t.phase = p.phase
  BY <1>5 DEF Fields
<1> HIDE DEF t
<1>7. Sound(t, now)
  BY <1>4, <1>6 DEF Sound
<1>8. Driven(t)
  BY <1>5, <1>6 DEF Driven
<1> QED
  BY <1>1, <1>7, <1>8

LEMMA HandlingKeeps ==
    ASSUME NEW at \in Int, NEW later \in Int, at <= later, Sound(service, at), Driven(service)
    PROVE  /\ Sound(Handling, later) /\ Driven(Handling)
           /\ Handling.exercise = service.exercise /\ Handling.timer = service.timer
           /\ Handling.live = service.live /\ Handling.run = service.run
<1> DEFINE h == Handling
<1>1. DOMAIN service = Fields
  BY DEF Sound
<1>2. /\ DOMAIN h = Fields
      /\ h.exercise = service.exercise /\ h.run = service.run /\ h.startedOn = service.startedOn
      /\ h.timer = service.timer /\ h.live = service.live
      /\ h.last = service.last /\ h.phase = service.phase
  BY <1>1 DEF Handling, Fields
<1> HIDE DEF h
<1>3. Sound(h, later)
  BY <1>2, SMT DEF Sound
<1>4. Driven(h)
  BY <1>2 DEF Driven
<1> QED
  BY <1>2, <1>3, <1>4 DEF h

-----------------------------------------------------------------------------
(* The types of the fields.  Only a run that was started, so one with a     *)
(* number, raises events.                                                   *)
Typed(s) == s \in Service /\ (s.exercise # Absent => s.run \in 1 .. MaxStarts)

LEMMA ServiceFields ==
    /\ \A s \in Service : DOMAIN s = Fields
    /\ \A s \in Service : s.run \in 0 .. MaxStarts /\ s.raised \in Seq(Event) /\ s.live \subseteq Timer
  BY DEF Service, Fields

LEMMA RaiseTyped ==
    ASSUME NEW s \in Service, NEW e \in Exercises, NEW auto \in BOOLEAN,
           s.run \in 1 .. MaxStarts, now \in 0 .. MaxNow
    PROVE  Typed(Raise(s, e, auto)) /\ Raise(s, e, auto).run = s.run
<1> DEFINE event == [exercise |-> e, run |-> s.run, phase |-> s.phase, when |-> now,
                     elapsed |-> s.elapsed, round |-> s.round, auto |-> auto]
           t == [s EXCEPT !.last = event, !.raised = Append(s.raised, event)]
<1>1. s.phase \in RunPhases /\ s.elapsed \in Nat /\ s.round \in Nat /\ s.raised \in Seq(Event)
  BY DEF Service
<1>2. event \in Event
  BY <1>1 DEF Event
<1> HIDE DEF event
<1>3. Append(s.raised, event) \in Seq(Event)
  BY <1>1, <1>2
<1>4. t \in Service /\ t.run = s.run
  BY <1>2, <1>3 DEF Service
<1>5. Raise(s, e, auto) = t
  BY DEF Raise, event
<1> QED
  BY <1>4, <1>5 DEF Typed

LEMMA CancelTyped ==
    ASSUME NEW s \in Service
    PROVE  Cancel(s) \in Service
  BY DEF Cancel, Service

LEMMA StoppedTyped ==
    ASSUME NEW s, NEW auto \in BOOLEAN, Typed(s), now \in 0 .. MaxNow
    PROVE  Typed(Stopped(s, auto))
<1> DEFINE c == Cancel(s)
           d == [c EXCEPT !.phase = "done"]
           r == Raise(d, s.exercise, auto)
<1>1. s \in Service /\ c \in Service /\ c.run = s.run /\ c.exercise = s.exercise
  BY CancelTyped DEF Typed, Cancel, Service
<1>2. d \in Service /\ d.run = s.run
  BY <1>1 DEF Service, RunPhases
<1> HIDE DEF c, d
<1>3. CASE s.exercise = Absent
  <2>1. Stopped(s, auto) = c
    BY <1>3 DEF Stopped, c
  <2> QED
    BY <1>1, <1>3, <2>1 DEF Typed
<1>4. CASE s.exercise # Absent
  <2>1. s.exercise \in Exercises /\ d.run \in 1 .. MaxStarts
    BY <1>1, <1>2, <1>4 DEF Typed, Service
  <2>2. r \in Service
    BY <1>2, <2>1, RaiseTyped DEF Typed
  <2> HIDE DEF r
  <2>3. [r EXCEPT !.exercise = Absent] \in Service /\ [r EXCEPT !.exercise = Absent].exercise = Absent
    BY <2>2 DEF Service
  <2>4. Stopped(s, auto) = [r EXCEPT !.exercise = Absent]
    BY <1>4 DEF Stopped, r, d, c
  <2> QED
    BY <2>3, <2>4 DEF Typed
<1> QED
  BY <1>3, <1>4

LEMMA InRoundTyped ==
    ASSUME NEW s \in Service, NEW e \in Exercises, NEW minutes \in Int,
           0 <= minutes, minutes < TotalTime(e)
    PROVE  InRound(s, e, minutes) \in Service /\ InRound(s, e, minutes).run = s.run
<1> DEFINE round == Clamp(minutes \div RoundTime(e), 0, e.numberOfRounds - 1)
           phase == Phase(e, minutes % RoundTime(e))
<1>1. /\ e.numberOfRounds \in Nat /\ e.numberOfRounds > 0 /\ RoundTime(e) \in Nat /\ RoundTime(e) > 0
      /\ e.minutes.execution \in Nat /\ e.minutes.evaluation \in Nat
  BY ExerciseFacts, SMT
<1>2. minutes \div RoundTime(e) \in Int /\ minutes % RoundTime(e) \in Int /\ minutes \in Nat
  BY <1>1, SMT
<1>3. round \in Nat
  <2>1. e.numberOfRounds - 1 \in Nat
    BY <1>1, SMT
  <2>2. round \in 0 .. e.numberOfRounds - 1
    BY <1>2, <2>1, ClampBelow
  <2> QED
    BY <1>1, <2>2, SMT
<1>4. phase \in RunPhases
  BY <1>1, <1>2, SMT DEF Phase, Phases, RunPhases
<1> HIDE DEF round, phase
<1>5. InRound(s, e, minutes) = [s EXCEPT !.elapsed = minutes, !.round = round, !.phase = phase]
  BY DEF InRound, round, phase
<1> QED
  BY <1>2, <1>3, <1>4, <1>5 DEF Service

LEMMA TimeOfDayTyped == now \in Nat => TimeOfDay \in 0 .. Day - 1
<1> SUFFICES ASSUME now \in Nat PROVE TimeOfDay \in 0 .. Day - 1
  OBVIOUS
<1>1. now \div Minute \in Int
  BY ClockAssumption, SMT
<1> QED
  BY <1>1, ClockAssumption, SMT DEF TimeOfDay

LEMMA ProgressTyped ==
    ASSUME NEW s, NEW force, now \in 0 .. MaxNow, Sound(s, now), Typed(s), s.exercise # Absent
    PROVE  Typed(Progress(s, s.exercise, force))
<1> DEFINE e == s.exercise
           minutes == InMinutes(now - Window(s).start)
           seen == [s EXCEPT !.minuteSeen = TimeOfDay]
           full == [seen EXCEPT !.elapsed = TotalTime(e)]
           waits == s.last.phase = "pending" /\ minutes < 0
           t == Progress(s, s.exercise, force)
           no == FALSE
           yes == TRUE
<1>1. /\ e \in Exercises /\ s \in Service /\ s.run \in 1 .. MaxStarts
      /\ now \in Nat /\ now \in Int /\ TotalTime(e) \in Nat
  BY ExerciseFacts, TimerAssumption, SMT DEF Sound, Typed
<1>2. /\ seen \in Service /\ seen.run = s.run /\ seen.exercise = e
      /\ full \in Service /\ full.run = s.run /\ full.exercise = e
  BY <1>1, TimeOfDayTyped DEF Service
<1>3. /\ minutes \in Int
      /\ ~waits /\ ~Over(s, e, minutes) => 0 <= minutes /\ minutes < TotalTime(e)
  BY <1>1, LookFacts
<1>4. t = IF ~(force \/ NewMinute(s.minuteSeen)) THEN s
          ELSE CASE waits -> Raise(seen, e, no)
                 [] ~waits /\ Over(s, e, minutes) -> Stopped(full, yes)
                 [] ~waits /\ ~Over(s, e, minutes) -> Raise(InRound(seen, e, minutes), e, no)
  BY DEF Progress
<1>5. no \in BOOLEAN /\ yes \in BOOLEAN
  OBVIOUS
<1> HIDE DEF no, yes, e, minutes, seen, full, waits, t
<1>6. Typed(Raise(seen, e, no))
  BY <1>1, <1>2, <1>5, RaiseTyped
<1>7. Typed(Stopped(full, yes))
  BY <1>1, <1>2, <1>5, StoppedTyped DEF Typed
<1>8. ASSUME ~waits, ~Over(s, e, minutes)
      PROVE  Typed(Raise(InRound(seen, e, minutes), e, no))
  <2>1. InRound(seen, e, minutes) \in Service /\ InRound(seen, e, minutes).run = s.run
    BY <1>1, <1>2, <1>3, <1>8, InRoundTyped
  <2> QED
    BY <1>1, <1>5, <2>1, RaiseTyped
<1>9. Typed(t)
  <2>1. CASE ~(force \/ NewMinute(s.minuteSeen))
    BY <1>4, <2>1
  <2>2. CASE (force \/ NewMinute(s.minuteSeen)) /\ waits
    BY <1>4, <1>6, <2>2
  <2>3. CASE (force \/ NewMinute(s.minuteSeen)) /\ ~waits /\ Over(s, e, minutes)
    BY <1>4, <1>7, <2>3
  <2>4. CASE (force \/ NewMinute(s.minuteSeen)) /\ ~waits /\ ~Over(s, e, minutes)
    BY <1>4, <1>8, <2>4
  <2> QED
    BY <2>1, <2>2, <2>3, <2>4
<1> QED
  BY <1>9 DEF t, e

LEMMA FreshTyped ==
    ASSUME NEW s \in Service, NEW e \in Exercises, s.run < MaxStarts, now \in 0 .. MaxNow
    PROVE  Typed(Fresh(s, e))
<1> DEFINE no == FALSE
           run == s.run + 1
           pending == [exercise |-> e, run |-> run, phase |-> "pending", when |-> now,
                       elapsed |-> 0, round |-> 0, auto |-> no]
<1>1. run \in 1 .. MaxStarts /\ run \in 0 .. MaxStarts
  BY TimerAssumption, SMT DEF Service
<1>2. no \in BOOLEAN /\ Fresh(s, e) = [s EXCEPT !.exercise = e, !.run = run, !.elapsed = 0, !.round = 0,
                                       !.startedOn = now, !.last = pending, !.phase = "pending"]
  BY DEF Fresh
<1> HIDE DEF run, no
<1>3. pending \in Event
  BY <1>1, <1>2 DEF Event, RunPhases
<1>4. "pending" \in RunPhases /\ e \in Exercises \cup {Absent}
  BY DEF RunPhases
<1> DEFINE fresh == [s EXCEPT !.exercise = e, !.run = run, !.elapsed = 0, !.round = 0,
                              !.startedOn = now, !.last = pending, !.phase = "pending"]
<1> HIDE DEF pending
<1>5. fresh \in Service
  BY <1>1, <1>3, <1>4 DEF Service
<1>6. fresh.run = run
  BY DEF Service
<1> QED
  BY <1>1, <1>2, <1>5, <1>6 DEF Typed

LEMMA BegunTyped ==
    ASSUME NEW s \in Service, NEW e \in Exercises, s.run < MaxStarts, now \in 0 .. MaxNow
    PROVE  Typed(Begun(s, e))
<1> DEFINE fresh == Fresh(s, e)
           run == s.run + 1
           id == [run |-> run, exercise |-> e]
           p == Progress(fresh, e, TRUE)
           t == [p EXCEPT !.timer = id, !.live = p.live \cup {id}]
<1>1. Begun(s, e) = t
  BY BegunIsFresh
<1>2. run \in 1 .. MaxStarts /\ run \in 0 .. MaxStarts /\ now \in Int
  BY TimerAssumption, SMT DEF Service
<1>3. DOMAIN s = Fields
  BY ServiceFields
<1>4. Sound(fresh, now) /\ fresh.exercise = e /\ fresh.run = run
  BY <1>2, <1>3, FreshFacts
<1>5. Typed(fresh)
  BY FreshTyped
<1>6. e # Absent
  BY ExerciseFacts
<1> HIDE DEF fresh, run
<1>8. p \in Service /\ p.run = run
  <2>1. Typed(p)
    BY <1>2, <1>4, <1>5, <1>6, ProgressTyped
  <2>2. p.run = fresh.run
    BY <1>2, <1>4, <1>6, ProgressKeeps
  <2> QED
    BY <1>4, <2>1, <2>2 DEF Typed
<1>9. id \in Timer
  BY <1>2 DEF Timer
<1> HIDE DEF p, id
<1>10. t \in Service /\ t.run = run
  BY <1>8, <1>9 DEF Service
<1> QED
  BY <1>1, <1>2, <1>10 DEF Typed

LEMMA HandlingTyped ==
    ASSUME Typed(service)
    PROVE  /\ Typed(Handling) /\ Handling.run = service.run
           /\ Handling.exercise = service.exercise /\ Handling.raised = <<>>
<1>1. service \in Service
  BY DEF Typed
<1> DEFINE nothing == <<>>
<1>2. nothing \in Seq(Event)
  OBVIOUS
<1>3. Handling = [service EXCEPT !.raised = nothing]
  BY DEF Handling
<1> HIDE DEF nothing
<1>4. /\ Handling \in Service /\ Handling.run = service.run
      /\ Handling.exercise = service.exercise /\ Handling.raised = nothing
  BY <1>1, <1>2, <1>3 DEF Service
<1> QED
  BY <1>4 DEF Typed, nothing

-----------------------------------------------------------------------------
(* No run, no timer: nothing to be wrong about.                             *)
THEOREM InitEstablishes == Init => IInv
<1> SUFFICES ASSUME Init PROVE IInv
  OBVIOUS
<1>1. now \in Int /\ StartBy \in Nat
  BY TimerAssumption, SMT DEF Init
<1>2. /\ DOMAIN service = Fields /\ service.exercise = Absent /\ service.startedOn = 0
      /\ service.last = Absent /\ service.timer = Absent /\ service.live = {}
  BY DEF Init, Fields
<1>3. Sound(service, now)
  BY <1>2, SMT DEF Sound
<1>4. Driven(service)
  BY <1>2 DEF Driven
<1> QED
  BY <1>1, <1>3, <1>4 DEF IInv

(* Starting, stopping, firing and the passing of time keep the invariant.   *)
THEOREM StepKeeps == IInv /\ [Next]_vars => IInv'
<1> SUFFICES ASSUME IInv, [Next]_vars PROVE IInv'
  OBVIOUS
<1>1. now \in Int /\ Sound(service, now) /\ Driven(service)
  BY DEF IInv
<1>2. /\ Sound(Handling, now) /\ Driven(Handling)
      /\ Handling.exercise = service.exercise /\ Handling.timer = service.timer
      /\ Handling.live = service.live /\ Handling.run = service.run
  BY <1>1, HandlingKeeps, SMT
<1>3. ASSUME NEW e \in Exercises, Start(e)
      PROVE  IInv'
  <2> DEFINE s == Stopped(Handling, FALSE)
  <2>1. Sound(s, now) /\ s.timer = Absent /\ s.live = {}
    BY <1>1, <1>2, StoppedKeeps
  <2>2. service' = Begun(s, e) /\ now' = now
    BY <1>3 DEF Start
  <2> HIDE DEF s
  <2>3. Sound(service', now) /\ Driven(service')
    BY <1>1, <2>1, <2>2, BegunKeeps DEF Sound
  <2> QED
    BY <1>1, <2>2, <2>3 DEF IInv, Sound, Driven
<1>4. CASE Stop
  <2>1. service' = Stopped(Handling, FALSE) /\ now' = now
    BY <1>4 DEF Stop
  <2>2. Sound(service', now) /\ Driven(service')
    BY <1>1, <1>2, <2>1, StoppedKeeps
  <2> QED
    BY <1>1, <2>1, <2>2 DEF IInv
<1>5. CASE Wait
  <2>1. service' = Handling /\ now' = now + 1
    BY <1>5 DEF Wait
  <2>2. now' \in Int /\ now <= now'
    BY <1>1, <2>1, SMT
  <2>3. Sound(Handling, now') /\ Driven(Handling)
    BY <1>1, <2>2, HandlingKeeps
  <2> QED
    BY <2>1, <2>2, <2>3 DEF IInv
<1>6. ASSUME NEW timer \in Timer, Fire(timer)
      PROVE  IInv'
  <2> DEFINE p == Progress(Handling, timer.exercise, FALSE)
  <2>1. service' = p /\ now' = now /\ timer \in service.live
    BY <1>6 DEF Fire
  <2>2. timer = service.timer
    BY <1>1, <2>1 DEF Driven
  <2>3. Sound(p, now) /\ Driven(p)
    <3>1. CASE service.exercise = Absent
      <4>1. p = Handling
        BY <1>2, <3>1 DEF Progress
      <4> QED
        BY <1>2, <4>1
    <3>2. CASE service.exercise # Absent
      <4>1. timer.exercise = Handling.exercise /\ timer.run = Handling.run
        BY <1>1, <1>2, <2>2, <3>2 DEF Driven
      <4>2. /\ Sound(p, now) /\ p.run = Handling.run
            /\ \/ p.exercise = Handling.exercise /\ p.timer = Handling.timer /\ p.live = Handling.live
               \/ p.exercise = Absent /\ p.timer = Absent /\ p.live = Handling.live \ {Handling.timer}
        <5>1. p = Progress(Handling, Handling.exercise, FALSE)
          BY <4>1
        <5>2. Handling.exercise # Absent /\ Sound(Handling, now)
          BY <1>2, <3>2
        <5> HIDE DEF p
        <5> QED
          BY <1>1, <5>1, <5>2, ProgressKeeps
      <4> HIDE DEF p
      <4>3. Driven(p)
        BY <1>2, <4>2 DEF Driven
      <4> QED
        BY <4>2, <4>3
    <3> QED
      BY <3>1, <3>2
  <2> QED
    BY <1>1, <2>1, <2>3 DEF IInv
<1>7. ASSUME NEW nap \in Naps, Sleep(nap)
      PROVE  IInv'
  <2>1. service' = Handling /\ now' = now + nap
    BY <1>7 DEF Sleep
  <2>2. now' \in Int /\ now <= now'
    BY <1>1, <2>1, TimerAssumption, SMT
  <2>3. Sound(Handling, now') /\ Driven(Handling)
    BY <1>1, <2>2, HandlingKeeps
  <2> QED
    BY <2>1, <2>2, <2>3 DEF IInv
<1>8. CASE UNCHANGED vars
  BY <1>1, <1>8 DEF vars, IInv, Sound, Driven, OnTime, RunWindow
<1> QED
  BY <1>3, <1>4, <1>5, <1>6, <1>7, <1>8 DEF Next

(* The service is sound and driven by its own timer in every state.         *)
THEOREM InductiveInvariant == Spec => []IInv
  BY InitEstablishes, StepKeeps, PTL DEF Spec

(* No second timer is ever left behind.                                     *)
THEOREM TimerIsTheOnlyOne == Spec => []OneTimer
<1>1. IInv => OneTimer
  BY DEF IInv, Driven, OneTimer
<1> QED
  BY <1>1, InductiveInvariant, PTL

(* A round is shown only while the exercise is on, and a run is not cut     *)
(* short.                                                                   *)
THEOREM RunStopsOnTime == Spec => []StopsOnTime
<1>1. IInv => StopsOnTime
  BY DEF IInv, Sound, StopsOnTime
<1> QED
  BY <1>1, InductiveInvariant, PTL

(* A run is for the exercise that is on, or else comes next.                *)
THEOREM RunIsOfTheRightDay == Spec => []RunsTheRightDay
<1>1. IInv => RunsTheRightDay
  <2> SUFFICES ASSUME IInv, service.last # Absent
               PROVE  LET w == RunWindow(service.last, service.startedOn)
                      IN  w.end - DayTicks <= service.startedOn /\ service.startedOn < w.end
    BY DEF RunsTheRightDay
  <2>1. service.last.exercise \in Exercises /\ service.startedOn \in Int
    BY DEF IInv, Sound
  <2>2. /\ service.last.exercise.startTime \in 0 .. Day - 1
        /\ service.last.exercise.endTime \in 0 .. Day - 1
    BY <2>1, ExerciseFacts
  <2> QED
    BY <2>1, <2>2, WindowIsNext DEF RunWindow
<1> QED
  BY <1>1, InductiveInvariant, PTL

-----------------------------------------------------------------------------
(* Types and soundness go together: the look at the clock gives a time that *)
(* is no negative number because the service is sound.                      *)
TypedInv ==
    /\ now \in 0 .. MaxNow /\ Typed(service)
    /\ sleeps \in 0 .. MaxSleeps /\ fired \in BOOLEAN

LEMMA TypedStep == IInv /\ TypedInv /\ [Next]_vars => TypedInv'
<1> SUFFICES ASSUME IInv, TypedInv, [Next]_vars PROVE TypedInv'
  OBVIOUS
<1>1. /\ now \in 0 .. MaxNow /\ now \in Int /\ Typed(service)
      /\ sleeps \in 0 .. MaxSleeps /\ fired \in BOOLEAN
      /\ {MaxStarts, StartBy, MaxSleeps, MaxNow} \subseteq Nat
  BY TimerAssumption, SMT DEF TypedInv
<1>2. /\ Typed(Handling) /\ Handling \in Service /\ Handling.run = service.run
      /\ Handling.exercise = service.exercise
  BY <1>1, HandlingTyped DEF Typed
<1>3. Sound(Handling, now) /\ Driven(Handling) /\ Driven(service)
  BY <1>1, HandlingKeeps, SMT DEF IInv
<1>4. ASSUME NEW e \in Exercises, Start(e)
      PROVE  TypedInv'
  <2> DEFINE no == FALSE
             s == Stopped(Handling, no)
  <2>1. no \in BOOLEAN
    OBVIOUS
  <2>2. service' = Begun(s, e) /\ now' = now /\ sleeps' = sleeps /\ fired' = fired /\ service.run < MaxStarts
    BY <1>4 DEF Start
  <2> HIDE DEF no
  <2>3. s \in Service /\ s.run = Handling.run
    <3>1. DOMAIN Handling = Fields
      BY <1>2, ServiceFields
    <3>2. Typed(s)
      BY <1>1, <1>2, <2>1, StoppedTyped
    <3> QED
      BY <3>1, <3>2, StoppedFacts DEF Typed
  <2> HIDE DEF s
  <2>4. Typed(service')
    BY <1>1, <1>2, <2>2, <2>3, BegunTyped
  <2> QED
    BY <1>1, <2>2, <2>4 DEF TypedInv, Typed
<1>5. CASE Stop
  <2> DEFINE no == FALSE
  <2>1. service' = Stopped(Handling, no) /\ now' = now /\ sleeps' = sleeps /\ fired' = fired /\ no \in BOOLEAN
    BY <1>5 DEF Stop
  <2> HIDE DEF no
  <2>2. Typed(service')
    BY <1>1, <1>2, <2>1, StoppedTyped
  <2> QED
    BY <1>1, <2>1, <2>2 DEF TypedInv, Typed
<1>6. CASE Wait
  <2>1. now' = now + 1 /\ now < MaxNow /\ service' = Handling /\ sleeps' = sleeps /\ fired' = FALSE
    BY <1>6 DEF Wait
  <2>2. now' \in 0 .. MaxNow
    BY <1>1, <2>1, SMT
  <2> QED
    BY <1>1, <1>2, <2>1, <2>2 DEF TypedInv, Typed
<1>7. ASSUME NEW timer \in Timer, Fire(timer)
      PROVE  TypedInv'
  <2>1. /\ service' = Progress(Handling, timer.exercise, FALSE) /\ now' = now
        /\ sleeps' = sleeps /\ fired' \in BOOLEAN /\ timer \in service.live
    BY <1>7 DEF Fire
  <2>2. Typed(service')
    <3>1. CASE service.exercise = Absent
      <4>1. service' = Handling
        BY <1>2, <2>1, <3>1 DEF Progress
      <4> QED
        BY <1>2, <4>1
    <3>2. CASE service.exercise # Absent
      <4>1. timer.exercise = Handling.exercise /\ Handling.exercise # Absent
        BY <1>2, <1>3, <2>1, <3>2 DEF Driven
      <4>2. service' = Progress(Handling, Handling.exercise, FALSE)
        BY <2>1, <4>1
      <4> QED
        BY <1>1, <1>2, <1>3, <4>1, <4>2, ProgressTyped
    <3> QED
      BY <3>1, <3>2
  <2> QED
    BY <1>1, <2>1, <2>2 DEF TypedInv, Typed
<1>8. ASSUME NEW nap \in Naps, Sleep(nap)
      PROVE  TypedInv'
  <2>1. service' = Handling /\ now' = now + nap /\ sleeps' = sleeps + 1 /\ fired' = FALSE
        /\ sleeps < MaxSleeps /\ now <= StartBy + DayTicks
    BY <1>8 DEF Sleep
  <2>2. nap \in Nat /\ DayTicks \in Nat /\ StartBy + DayTicks + nap <= MaxNow
    BY TimerAssumption, ClockAssumption, SMT DEF DayTicks
  <2>3. now' \in 0 .. MaxNow /\ sleeps' \in 0 .. MaxSleeps
    BY <1>1, <2>1, <2>2, SMT
  <2> QED
    BY <1>1, <1>2, <2>1, <2>3 DEF TypedInv, Typed
<1>9. CASE UNCHANGED vars
  BY <1>1, <1>9 DEF vars, TypedInv, Typed
<1> QED
  BY <1>4, <1>5, <1>6, <1>7, <1>8, <1>9 DEF Next

LEMMA TypedInit == Init => TypedInv
<1> SUFFICES ASSUME Init PROVE TypedInv
  OBVIOUS
<1>1. now \in 0 .. MaxNow /\ now \in Nat /\ sleeps \in 0 .. MaxSleeps /\ fired = FALSE
  <2>1. now \in 0 .. StartBy /\ sleeps = 0 /\ fired = FALSE
    BY DEF Init
  <2> QED
    BY <2>1, TimerAssumption, SMT
<1>2. TimeOfDay \in 0 .. Day - 1
  BY <1>1, TimeOfDayTyped
<1>3. 0 \in 0 .. MaxStarts /\ 0 \in 0 .. MaxNow
  BY TimerAssumption, SMT
<1>4. service \in Service /\ service.exercise = Absent
  BY <1>2, <1>3 DEF Init, Service, RunPhases, Phases
<1> QED
  BY <1>1, <1>4 DEF TypedInv, Typed

(* No event carries a time before the start, whatever the clock does.       *)
THEOREM TimerIsTyped == Spec => []TypeOK
<1>1. IInv /\ TypedInv /\ [Next]_vars => IInv' /\ TypedInv'
  BY StepKeeps, TypedStep
<1>2. TypedInv => TypeOK
  BY DEF TypedInv, TypeOK, Typed
<1> QED
  BY <1>1, <1>2, InitEstablishes, TypedInit, PTL DEF Spec

-----------------------------------------------------------------------------
(* Whole rounds and what is over them.                                      *)
LEMMA DivFacts ==
    ASSUME NEW a \in Nat, NEW d \in Nat \ {0}
    PROVE  a \div d \in Nat /\ a % d \in 0 .. d - 1 /\ a = (a \div d) * d + (a % d)
  BY SMT

LEMMA DivBelow ==
    ASSUME NEW a \in Nat, NEW d \in Nat \ {0}, NEW n \in Nat, a < n * d
    PROVE  a \div d < n
<1> DEFINE q == a \div d
<1>1. q \in Nat /\ a >= q * d
  BY DivFacts, SMT
<1> HIDE DEF q
<1>2. SUFFICES ASSUME q >= n PROVE FALSE
  BY <1>1, SMT DEF q
<1>3. (q - n) * d >= 0
  BY <1>1, <1>2, SMT
<1>4. (q - n) * d = q * d - n * d /\ q * d \in Int /\ n * d \in Int
  BY <1>1, SMT
<1> QED
  BY <1>1, <1>3, <1>4, SMT

LEMMA DivForward ==
    ASSUME NEW a \in Nat, NEW b \in Nat, NEW d \in Nat \ {0}, a <= b
    PROVE  /\ a \div d <= b \div d
           /\ a \div d = b \div d => a % d <= b % d
<1> DEFINE q == a \div d
           p == b \div d
<1>1. /\ q \in Nat /\ p \in Nat /\ a % d \in 0 .. d - 1 /\ b % d \in 0 .. d - 1
      /\ a = q * d + (a % d) /\ b = p * d + (b % d)
  BY DivFacts
<1> HIDE DEF q, p
<1>2. q <= p
  <2>1. SUFFICES ASSUME q >= p + 1 PROVE FALSE
    BY <1>1, SMT
  <2>2. (q - p - 1) * d >= 0
    BY <1>1, <2>1, SMT
  <2>3. (q - p - 1) * d = q * d - p * d - d /\ q * d \in Int /\ p * d \in Int
    BY <1>1, SMT
  <2> QED
    BY <1>1, <2>2, <2>3, SMT
<1>3. q = p => a % d <= b % d
  <2>1. q * d \in Int /\ p * d \in Int
    BY <1>1, SMT
  <2> QED
    BY <1>1, <2>1, SMT
<1> QED
  BY <1>2, <1>3 DEF q, p

(* Time that goes on is never told as less, from the minute before zero on. *)
LEMMA MinutesForward ==
    ASSUME NEW x \in Int, NEW y \in Int, x <= y, -Minute < x
    PROVE  0 <= InMinutes(x) /\ InMinutes(x) <= InMinutes(y)
<1>1. Minute \in Nat \ {0}
  BY ClockAssumption
<1>2. InMinutes(x) \in Int /\ InMinutes(y) \in Int /\ InMinutes(x) >= 0 /\ InMinutes(y) >= 0
  BY <1>1, MinutesAreTicks, SMT
<1>3. CASE x >= 0
  <2>1. InMinutes(x) = x \div Minute /\ InMinutes(y) = y \div Minute /\ x \in Nat /\ y \in Nat
    BY <1>3, SMT DEF InMinutes
  <2> QED
    BY <1>1, <1>2, <1>3, <2>1, DivForward
<1>4. CASE x < 0
  <2>1. InMinutes(x) = -((-x) \div Minute) /\ (-x) \div Minute = 0
    BY <1>1, <1>4, SMT DEF InMinutes
  <2> QED
    BY <1>2, <2>1, SMT
<1> QED
  BY <1>3, <1>4, SMT

LEMMA ClampWithin ==
    ASSUME NEW high \in Nat, NEW n \in 0 .. high
    PROVE  Clamp(n, 0, high) = n
<1>1. n \in Int /\ 0 <= n /\ n <= high
  BY SMT
<1>2. Min({n, high}) = n
  BY <1>1, SMT DEF Min
<1>3. Max({0, n}) = n
  BY <1>1, SMT DEF Max
<1> QED
  BY <1>2, <1>3 DEF Clamp

(* Further into a round is never an earlier phase of it.                    *)
LEMMA PhaseForward ==
    ASSUME NEW e \in Exercises, NEW a \in Nat, NEW b \in Nat, a <= b,
           NEW v, NEW w, v.phase = Phase(e, a), w.phase = Phase(e, b)
    PROVE  PhaseRank(v) <= PhaseRank(w)
<1>1. e.minutes.execution \in Nat /\ e.minutes.evaluation \in Nat
  BY ExerciseFacts
<1>2. CASE a < e.minutes.execution
  <2>1. PhaseRank(v) = 1
    BY <1>1, <1>2, SMT DEF Phase, PhaseRank
  <2>2. PhaseRank(w) \in {1, 2, 3}
    BY <1>1, SMT DEF Phase, PhaseRank
  <2> QED
    BY <2>1, <2>2, SMT
<1>3. CASE a >= e.minutes.execution /\ a < e.minutes.execution + e.minutes.evaluation
  <2>1. PhaseRank(v) = 2
    BY <1>1, <1>3, SMT DEF Phase, PhaseRank
  <2>2. PhaseRank(w) \in {2, 3}
    BY <1>1, <1>3, SMT DEF Phase, PhaseRank
  <2> QED
    BY <2>1, <2>2, SMT
<1>4. CASE a >= e.minutes.execution + e.minutes.evaluation
  <2>1. PhaseRank(v) = 3 /\ PhaseRank(w) = 3
    BY <1>1, <1>4, SMT DEF Phase, PhaseRank
  <2> QED
    BY <2>1, SMT
<1> QED
  BY <1>1, <1>2, <1>3, <1>4, SMT

-----------------------------------------------------------------------------
(* Where an event of a round stands: in the round and the phase of the      *)
(* minutes since the start of what its run is for.                          *)
Placed(event, started) ==
    LET e == event.exercise
        minutes == InMinutes(event.when - RunWindow(event, started).start)
    IN  /\ 0 <= minutes /\ minutes < TotalTime(e)
        /\ event.elapsed = minutes
        /\ event.round = minutes \div RoundTime(e)
        /\ event.phase = Phase(e, minutes % RoundTime(e))

(* What runs was announced as its run, and what does not run as done.       *)
Told(s) ==
    /\ s.exercise # Absent =>
        s.last.run = s.run /\ (s.last.phase \in Phases => Placed(s.last, s.startedOn))
    /\ s.exercise = Absent /\ s.last # Absent => s.last.phase = "done" /\ s.last.run <= s.run

LEMMA StoppedTells ==
    ASSUME NEW s, NEW auto, now \in Int, Typed(s), Sound(s, now), Told(s)
    PROVE  LET t == Stopped(s, auto)
           IN  /\ Told(t) /\ t.run = s.run /\ t.exercise = Absent
               /\ s.exercise = Absent => t.last = s.last /\ t.raised = s.raised
               /\ s.exercise # Absent =>
                    /\ t.raised = Append(s.raised, t.last) /\ Follows(s.last, t.last)
                    /\ t.last.phase = "done" /\ t.last.run = s.run
<1> DEFINE t == Stopped(s, auto)
<1>1. /\ DOMAIN s = Fields /\ s.run \in Int
  BY ServiceFields, TimerAssumption, SMT DEF Typed
<1>2. /\ t.exercise = Absent /\ t.run = s.run
      /\ s.exercise = Absent => t.last = s.last /\ t.raised = s.raised
      /\ s.exercise # Absent =>
           /\ t.last = [exercise |-> s.exercise, run |-> s.run, phase |-> "done", when |-> now,
                        elapsed |-> s.elapsed, round |-> s.round, auto |-> auto]
           /\ t.raised = Append(s.raised, t.last)
  BY <1>1, StoppedFacts
<1> HIDE DEF t
<1>3. CASE s.exercise = Absent
  BY <1>2, <1>3 DEF Told, t
<1>4. CASE s.exercise # Absent
  <2>1. t.last.exercise = s.exercise /\ t.last.run = s.run /\ t.last.phase = "done"
    BY <1>2, <1>4
  <2>2. /\ s.last.exercise = s.exercise /\ s.last.run = s.run
        /\ s.last.phase \in Phases \cup {"pending"}
    BY <1>4 DEF Sound, Told
  <2>3. Rank(s.last) \in {0, 1} /\ Rank(t.last) = 2
    BY <2>1, <2>2, SMT DEF Rank, Phases
  <2>4. Follows(s.last, t.last)
    BY <2>1, <2>2, <2>3, SMT DEF Follows, Phases
  <2>5. Told(t)
    BY <1>1, <1>2, <2>1, SMT DEF Told
  <2> QED
    BY <1>2, <1>4, <2>1, <2>4, <2>5 DEF t
<1> QED
  BY <1>3, <1>4

(* A round after a round of the same run: later, and not earlier in it.     *)
LEMMA PlacedForward ==
    ASSUME NEW a, NEW b, NEW started \in Int, a.exercise \in Exercises, b.exercise = a.exercise,
           a.run = b.run, a.when \in Int, b.when \in Int, a.when <= b.when,
           a.phase \in Phases, b.phase \in Phases, OnTime(a, started),
           Placed(a, started), Placed(b, started)
    PROVE  Follows(a, b)
<1> DEFINE e == a.exercise
           start == RunWindow(a, started).start
           m == InMinutes(a.when - start)
           n == InMinutes(b.when - start)
<1>1. start \in Int
  BY ExerciseFacts, WindowIsNext DEF RunWindow
<1>2. RunWindow(b, started).start = start
  BY DEF RunWindow
<1>3. -Minute < a.when - start
  BY DEF OnTime
<1>4. /\ 0 <= m /\ m < TotalTime(e) /\ a.elapsed = m /\ a.round = m \div RoundTime(e)
      /\ a.phase = Phase(e, m % RoundTime(e))
      /\ 0 <= n /\ n < TotalTime(e) /\ b.elapsed = n /\ b.round = n \div RoundTime(e)
      /\ b.phase = Phase(e, n % RoundTime(e))
  BY <1>2 DEF Placed
<1>5. a.when - start \in Int /\ b.when - start \in Int /\ a.when - start <= b.when - start
  BY <1>1, SMT
<1>6. m \in Int /\ n \in Int /\ m <= n
  BY <1>3, <1>5, MinutesForward, MinutesAreTicks
<1>7. RoundTime(e) \in Nat /\ TotalTime(e) \in Nat /\ (TotalTime(e) > 0 => RoundTime(e) > 0)
  BY ExerciseFacts
<1> HIDE DEF e, start, m, n
<1>8. RoundTime(e) \in Nat \ {0} /\ m \in Nat /\ n \in Nat
  BY <1>4, <1>6, <1>7, SMT
<1>9. /\ m \div RoundTime(e) <= n \div RoundTime(e)
      /\ m \div RoundTime(e) = n \div RoundTime(e) => m % RoundTime(e) <= n % RoundTime(e)
  BY <1>6, <1>8, DivForward
<1>10. m % RoundTime(e) \in Nat /\ n % RoundTime(e) \in Nat
  BY <1>8, SMT
<1>11. a.round = b.round => PhaseRank(a) <= PhaseRank(b)
  BY <1>4, <1>9, <1>10, PhaseForward DEF e
<1>12. Rank(a) = 1 /\ Rank(b) = 1 /\ a.phase # "done"
  BY SMT DEF Rank, Phases
<1> QED
  BY <1>4, <1>6, <1>9, <1>11, <1>12, SMT DEF Follows, e

LEMMA ProgressTells ==
    ASSUME NEW s, NEW force, now \in Int, Typed(s), Sound(s, now), Told(s), s.exercise # Absent
    PROVE  LET t == Progress(s, s.exercise, force)
           IN  /\ Told(t)
               /\ \/ ~force /\ t = s
                  \/ /\ t.raised = Append(s.raised, t.last) /\ Follows(s.last, t.last)
                     /\ t.last.run = s.run
<1> DEFINE e == s.exercise
           w == Window(s)
           minutes == InMinutes(now - w.start)
           seen == [s EXCEPT !.minuteSeen = TimeOfDay]
           full == [seen EXCEPT !.elapsed = TotalTime(e)]
           waits == s.last.phase = "pending" /\ minutes < 0
           in == InRound(seen, e, minutes)
           t == Progress(s, s.exercise, force)
           no == FALSE
           yes == TRUE
<1>1. /\ e \in Exercises /\ DOMAIN s = Fields /\ s.startedOn \in Int /\ s.run \in Int
      /\ s.last.exercise = e /\ s.last.run = s.run /\ OnTime(s.last, s.startedOn)
      /\ s.last.phase \in Phases \cup {"pending"} /\ s.phase = s.last.phase
      /\ s.last.when \in Int /\ s.last.when <= now
      /\ s.last.phase \in Phases => Placed(s.last, s.startedOn)
  BY TimerAssumption, ServiceFields, SMT DEF Sound, Told, Typed
<1>2. /\ w = WindowAt(e.startTime, e.endTime, s.startedOn)
      /\ w.start \in Int /\ w.end \in Int /\ minutes \in Int
      /\ ~waits /\ ~Over(s, e, minutes) => 0 <= minutes /\ minutes < TotalTime(e)
  BY LookFacts
<1>3. /\ DOMAIN seen = Fields /\ seen.exercise = e /\ seen.run = s.run /\ seen.startedOn = s.startedOn
      /\ seen.phase = s.phase /\ seen.last = s.last /\ seen.raised = s.raised
      /\ DOMAIN full = Fields /\ full.exercise = e /\ full.run = s.run /\ full.raised = s.raised
  BY <1>1 DEF Fields
<1>4. t = IF ~(force \/ NewMinute(s.minuteSeen)) THEN s
          ELSE CASE waits -> Raise(seen, e, no)
                 [] ~waits /\ Over(s, e, minutes) -> Stopped(full, yes)
                 [] ~waits /\ ~Over(s, e, minutes) -> Raise(in, e, no)
  BY DEF Progress
<1> HIDE DEF no, yes, e, minutes, seen, full, t, w, in
<1>5. CASE ~(force \/ NewMinute(s.minuteSeen))
  BY <1>4, <1>5 DEF t
<1>6. CASE (force \/ NewMinute(s.minuteSeen)) /\ waits
  <2>1. t = Raise(seen, e, no)
    BY <1>4, <1>6
  <2>2. /\ t.exercise = e /\ t.run = s.run /\ t.raised = Append(s.raised, t.last)
        /\ t.last = [exercise |-> e, run |-> s.run, phase |-> s.phase, when |-> now,
                     elapsed |-> seen.elapsed, round |-> seen.round, auto |-> no]
    BY <1>3, <2>1, RaiseFacts
  <2>3. t.last.exercise = e /\ t.last.run = s.run /\ t.last.phase = "pending" /\ s.last.phase = "pending"
    BY <1>1, <1>6, <2>2
  <2>4. Follows(s.last, t.last)
    BY <1>1, <2>3, SMT DEF Follows, Rank, Phases
  <2>5. Told(t)
    BY <1>1, <2>2, <2>3 DEF Told, Phases, e
  <2> QED
    BY <2>2, <2>3, <2>4, <2>5 DEF t
<1>7. CASE (force \/ NewMinute(s.minuteSeen)) /\ ~waits /\ Over(s, e, minutes)
  <2>1. t = Stopped(full, yes)
    BY <1>4, <1>7
  <2>2. /\ t.exercise = Absent /\ t.run = s.run /\ t.raised = Append(s.raised, t.last)
        /\ t.last = [exercise |-> e, run |-> s.run, phase |-> "done", when |-> now,
                     elapsed |-> full.elapsed, round |-> full.round, auto |-> yes]
    BY <1>3, <2>1, StoppedFacts DEF e
  <2>3. t.last.exercise = e /\ t.last.run = s.run /\ t.last.phase = "done"
    BY <2>2
  <2>4. Rank(s.last) \in {0, 1} /\ Rank(t.last) = 2
    BY <1>1, <2>3, SMT DEF Rank, Phases
  <2>5. Follows(s.last, t.last)
    BY <1>1, <2>3, <2>4, SMT DEF Follows, Phases
  <2>6. Told(t)
    BY <1>1, <2>2, <2>3, SMT DEF Told
  <2> QED
    BY <2>2, <2>3, <2>5, <2>6 DEF t
<1>8. CASE (force \/ NewMinute(s.minuteSeen)) /\ ~waits /\ ~Over(s, e, minutes)
  <2>1. t = Raise(in, e, no)
    BY <1>4, <1>8
  <2>2. 0 <= minutes /\ minutes < TotalTime(e) /\ minutes \in Nat
    BY <1>2, <1>8, SMT
  <2>3. /\ DOMAIN in = Fields /\ in.exercise = e /\ in.run = s.run /\ in.startedOn = s.startedOn
        /\ in.raised = s.raised /\ in.phase \in Phases /\ in.elapsed = minutes
        /\ in.round = Clamp(minutes \div RoundTime(e), 0, e.numberOfRounds - 1)
        /\ in.phase = Phase(e, minutes % RoundTime(e))
    BY <1>1, <1>2, <1>3, <2>2, InRoundFacts DEF in
  <2>4. in.round = minutes \div RoundTime(e)
    <3>1. /\ e.numberOfRounds \in Nat /\ RoundTime(e) \in Nat \ {0} /\ e.numberOfRounds > 0
          /\ minutes < e.numberOfRounds * RoundTime(e)
      <4>1. e.numberOfRounds \in Nat /\ RoundTime(e) \in Nat /\ TotalTime(e) \in Nat
            /\ (TotalTime(e) > 0 => e.numberOfRounds > 0 /\ RoundTime(e) > 0)
        BY <1>1, ExerciseFacts
      <4>2. TotalTime(e) > 0
        BY <2>2, <4>1, SMT
      <4> QED
        BY <2>2, <4>1, <4>2, SMT DEF TotalTime
    <3>2. minutes \div RoundTime(e) < e.numberOfRounds /\ minutes \div RoundTime(e) \in Nat
      BY <2>2, <3>1, DivBelow, DivFacts
    <3>3. e.numberOfRounds - 1 \in Nat /\ minutes \div RoundTime(e) \in 0 .. e.numberOfRounds - 1
      BY <3>1, <3>2, SMT
    <3> QED
      BY <2>3, <3>3, ClampWithin
  <2>5. /\ t.exercise = e /\ t.run = s.run /\ t.startedOn = s.startedOn
        /\ t.raised = Append(s.raised, t.last)
        /\ t.last = [exercise |-> e, run |-> in.run, phase |-> in.phase, when |-> now,
                     elapsed |-> in.elapsed, round |-> in.round, auto |-> no]
    BY <2>1, <2>3, RaiseFacts
  <2>6. /\ t.last.exercise = e /\ t.last.run = s.run /\ t.last.phase = in.phase /\ t.last.when = now
        /\ t.last.elapsed = minutes /\ t.last.round = in.round
    BY <2>3, <2>5
  <2>7. RunWindow(t.last, s.startedOn) = w
    BY <1>2, <2>6 DEF RunWindow
  <2>8. Placed(t.last, s.startedOn)
    BY <2>2, <2>3, <2>4, <2>6, <2>7 DEF Placed, minutes
  <2>9. Told(t)
    BY <1>1, <2>5, <2>6, <2>8 DEF Told, e
  <2>10. Follows(s.last, t.last)
    <3>1. CASE s.last.phase \in Phases
      BY <1>1, <2>3, <2>6, <2>8, <3>1, PlacedForward
    <3>2. CASE s.last.phase = "pending"
      <4>1. Rank(s.last) = 0 /\ Rank(t.last) = 1
        BY <2>3, <2>6, <3>2, SMT DEF Rank, Phases
      <4> QED
        BY <1>1, <2>6, <3>2, <4>1, SMT DEF Follows
    <3> QED
      BY <1>1, <3>1, <3>2
  <2> QED
    BY <2>5, <2>6, <2>9, <2>10 DEF t
<1> QED
  BY <1>5, <1>6, <1>7, <1>8

LEMMA BegunTells ==
    ASSUME NEW s \in Service, NEW e \in Exercises, s.run < MaxStarts, now \in 0 .. MaxNow,
           s.exercise = Absent, Told(s)
    PROVE  LET t == Begun(s, e)
           IN  /\ Told(t) /\ t.raised = Append(s.raised, t.last) /\ t.last.run = s.run + 1
               /\ s.last # Absent => Follows(s.last, t.last)
<1> DEFINE fresh == Fresh(s, e)
           run == s.run + 1
           id == [run |-> run, exercise |-> e]
           p == Progress(fresh, e, TRUE)
           t == [p EXCEPT !.timer = id, !.live = p.live \cup {id}]
<1>1. Begun(s, e) = t
  BY BegunIsFresh
<1>2. s.run \in Int /\ now \in Int /\ DOMAIN s = Fields /\ e # Absent
  BY ServiceFields, ExerciseFacts, TimerAssumption, SMT
<1>3. /\ Sound(fresh, now) /\ fresh.exercise = e /\ fresh.run = run /\ fresh.raised = s.raised
      /\ fresh.last.phase = "pending" /\ fresh.last.run = run
  BY <1>2, FreshFacts
<1>4. Typed(fresh)
  BY FreshTyped
<1> HIDE DEF fresh, run
<1>5. Told(fresh)
  BY <1>2, <1>3 DEF Told, Phases
<1>6. /\ Told(p) /\ p.raised = Append(s.raised, p.last) /\ p.last.run = run
  BY <1>2, <1>3, <1>4, <1>5, ProgressTells
<1>7. DOMAIN p = Fields /\ p.run = run
  <2>1. Sound(p, now) /\ p.run = fresh.run
    BY <1>2, <1>3, ProgressKeeps
  <2> QED
    BY <1>3, <2>1 DEF Sound
<1> HIDE DEF p, id
<1>8. /\ t.exercise = p.exercise /\ t.run = p.run /\ t.startedOn = p.startedOn
      /\ t.last = p.last /\ t.raised = p.raised
  BY <1>7 DEF Fields
<1> HIDE DEF t
<1>9. Told(t)
  BY <1>6, <1>8 DEF Told
<1>10. s.last # Absent => Follows(s.last, t.last)
  <2> SUFFICES ASSUME s.last # Absent PROVE Follows(s.last, t.last)
    OBVIOUS
  <2>1. s.last.phase = "done" /\ s.last.run <= s.run /\ s.last \in Event
    BY DEF Told, Service
  <2>2. s.last.run \in Int
    BY <2>1, TimerAssumption, SMT DEF Event
  <2>3. t.last.run > s.last.run /\ t.last.run # s.last.run
    BY <1>2, <1>6, <1>8, <2>1, <2>2, SMT DEF run
  <2> QED
    BY <2>1, <2>3 DEF Follows
<1> QED
  BY <1>1, <1>6, <1>8, <1>9, <1>10 DEF run

(* What one step is heard to say.                                           *)
StepForward ==
    LET heard == service'.raised
    IN  /\ \A i \in 1 .. Len(heard) - 1 : Follows(heard[i], heard[i + 1])
        /\ service.last # Absent /\ heard # <<>> => Follows(service.last, heard[1])

LEMMA NothingHeard ==
    ASSUME service'.raised = <<>>
    PROVE  StepForward
  BY SMT DEF StepForward

LEMMA OneHeard ==
    ASSUME NEW event, service'.raised = Append(<<>>, event),
           service.last # Absent => Follows(service.last, event)
    PROVE  StepForward
<1> DEFINE heard == service'.raised
<1>1. heard = <<event>>
  BY SMT
<1>2. Len(heard) = 1 /\ heard[1] = event
  BY <1>1
<1>3. \A i \in 1 .. Len(heard) - 1 : Follows(heard[i], heard[i + 1])
  BY <1>2, SMT
<1> QED
  BY <1>2, <1>3 DEF StepForward

LEMMA TwoHeard ==
    ASSUME NEW first, NEW second, service'.raised = Append(Append(<<>>, first), second),
           service.last # Absent => Follows(service.last, first), Follows(first, second)
    PROVE  StepForward
<1> DEFINE heard == service'.raised
<1> DEFINE one == Append(<<>>, first)
<1>1. one = <<first>>
  BY SMT
<1>2. one \in Seq({first, second}) /\ Len(one) = 1 /\ one[1] = first
  BY <1>1
<1> HIDE DEF one
<1>3. /\ Len(Append(one, second)) = 2 /\ Append(one, second)[1] = first
      /\ Append(one, second)[2] = second
  BY <1>2, SMT
<1>4. Len(heard) = 2 /\ heard[1] = first /\ heard[2] = second
  BY <1>3 DEF one
<1> HIDE DEF heard
<1>5. ASSUME NEW i \in 1 .. Len(heard) - 1
      PROVE  Follows(heard[i], heard[i + 1])
  <2>1. i = 1 /\ i + 1 = 2
    BY <1>4, <1>5, SMT
  <2> QED
    BY <1>4, <2>1
<1> QED
  BY <1>4, <1>5 DEF StepForward, heard

LEMMA HandlingTells ==
    ASSUME Typed(service), Told(service)
    PROVE  Told(Handling) /\ Handling.last = service.last
<1>1. /\ Handling.exercise = service.exercise /\ Handling.run = service.run
      /\ Handling.last = service.last /\ Handling.startedOn = service.startedOn
  BY DEF Handling, Typed, Service
<1> QED
  BY <1>1 DEF Told

LEMMA ToldStep ==
    IInv /\ TypedInv /\ Told(service) /\ [Next]_vars => Told(service') /\ [StepForward]_vars
<1> SUFFICES ASSUME IInv, TypedInv, Told(service), [Next]_vars
             PROVE  Told(service') /\ [StepForward]_vars
  OBVIOUS
<1>1. now \in 0 .. MaxNow /\ now \in Int /\ Typed(service)
  BY TimerAssumption, SMT DEF TypedInv
<1>2. /\ Typed(Handling) /\ Handling \in Service /\ Handling.run = service.run
      /\ Handling.exercise = service.exercise /\ Handling.raised = <<>>
  BY <1>1, HandlingTyped DEF Typed
<1>3. Sound(Handling, now) /\ Driven(service)
  BY <1>1, HandlingKeeps, SMT DEF IInv
<1>4. Told(Handling) /\ Handling.last = service.last
  BY <1>1, HandlingTells
<1> DEFINE no == FALSE
<1>5. no \in BOOLEAN
  OBVIOUS
<1>6. ASSUME NEW e \in Exercises, Start(e)
      PROVE  Told(service') /\ StepForward
  <2> DEFINE s == Stopped(Handling, no)
  <2>1. service' = Begun(s, e) /\ service.run < MaxStarts
    BY <1>6 DEF Start
  <2> HIDE DEF no
  <2>2. Typed(s)
    BY <1>1, <1>2, <1>5, StoppedTyped
  <2>3. /\ Told(s) /\ s.run = service.run /\ s.exercise = Absent
        /\ service.exercise = Absent => s.last = service.last /\ s.raised = <<>>
        /\ service.exercise # Absent =>
             /\ s.raised = Append(<<>>, s.last) /\ Follows(service.last, s.last)
             /\ s.last.phase = "done" /\ s.last.run = service.run
    BY <1>1, <1>2, <1>3, <1>4, StoppedTells
  <2> HIDE DEF s
  <2>4. /\ Told(service') /\ service'.raised = Append(s.raised, service'.last)
        /\ service'.last.run = s.run + 1
        /\ s.last # Absent => Follows(s.last, service'.last)
    BY <1>1, <2>1, <2>2, <2>3, BegunTells DEF Typed
  <2>5. CASE service.exercise = Absent
    BY <2>3, <2>4, <2>5, OneHeard
  <2>6. CASE service.exercise # Absent
    <3>1. service.run \in Int
      BY <1>1, TimerAssumption, SMT DEF Typed, Service
    <3>2. s.last.run # service'.last.run /\ service'.last.run > s.last.run
      BY <2>3, <2>4, <2>6, <3>1, SMT
    <3>3. Follows(s.last, service'.last)
      BY <2>3, <2>6, <3>2 DEF Follows
    <3> QED
      BY <2>3, <2>4, <2>6, <3>3, TwoHeard
  <2> QED
    BY <2>4, <2>5, <2>6
<1>7. CASE Stop
  <2>1. service' = Stopped(Handling, no)
    BY <1>7 DEF Stop
  <2> HIDE DEF no
  <2>2. /\ Told(service')
        /\ service.exercise = Absent => service'.raised = <<>>
        /\ service.exercise # Absent =>
             service'.raised = Append(<<>>, service'.last) /\ Follows(service.last, service'.last)
    BY <1>1, <1>2, <1>3, <1>4, <2>1, StoppedTells
  <2> QED
    BY <2>2, NothingHeard, OneHeard
<1>8. CASE Wait
  <2>1. service' = Handling
    BY <1>8 DEF Wait
  <2> QED
    BY <1>2, <1>4, <2>1, NothingHeard
<1>9. ASSUME NEW timer \in Timer, Fire(timer)
      PROVE  Told(service') /\ StepForward
  <2>1. service' = Progress(Handling, timer.exercise, no) /\ timer \in service.live
    BY <1>9 DEF Fire
  <2>2. CASE service.exercise = Absent
    <3>1. service' = Handling
      BY <1>2, <2>1, <2>2 DEF Progress
    <3> QED
      BY <1>2, <1>4, <3>1, NothingHeard
  <2>3. CASE service.exercise # Absent
    <3>1. timer.exercise = Handling.exercise /\ Handling.exercise # Absent
      BY <1>2, <1>3, <2>1, <2>3 DEF Driven
    <3> HIDE DEF no
    <3>2. service' = Progress(Handling, Handling.exercise, no)
      BY <2>1, <3>1
    <3>3. /\ Told(service')
          /\ \/ service' = Handling
             \/ service'.raised = Append(<<>>, service'.last) /\ Follows(service.last, service'.last)
      BY <1>1, <1>2, <1>3, <1>4, <3>1, <3>2, ProgressTells
    <3> QED
      BY <1>2, <3>3, NothingHeard, OneHeard
  <2> QED
    BY <2>2, <2>3
<1>10. ASSUME NEW nap \in Naps, Sleep(nap)
      PROVE  Told(service') /\ StepForward
  <2>1. service' = Handling
    BY <1>10 DEF Sleep
  <2> QED
    BY <1>2, <1>4, <2>1, NothingHeard
<1>11. CASE UNCHANGED vars
  BY <1>11 DEF vars
<1> QED
  BY <1>6, <1>7, <1>8, <1>9, <1>10, <1>11 DEF Next

LEMMA ToldInit == Init => Told(service)
  BY DEF Init, Told

LEMMA AlwaysTold == Spec => [](IInv /\ TypedInv /\ Told(service))
<1>1. Init => IInv /\ TypedInv /\ Told(service)
  BY InitEstablishes, TypedInit, ToldInit
<1>2. IInv /\ TypedInv /\ Told(service) /\ [Next]_vars => (IInv /\ TypedInv /\ Told(service))'
  <2> SUFFICES ASSUME IInv, TypedInv, Told(service), [Next]_vars PROVE IInv' /\ TypedInv' /\ Told(service)'
    OBVIOUS
  <2>1. IInv' /\ TypedInv' /\ Told(service')
    BY StepKeeps, TypedStep, ToldStep
  <2> QED
    BY <2>1 DEF Told, Placed, RunWindow
<1> QED
  BY <1>1, <1>2, PTL DEF Spec

(* Whoever listens sees every run wait, then go through its rounds and      *)
(* phases in their order, then end, once, before the next one.              *)
THEOREM RunGoesForward == Spec => GoesForward
<1>1. IInv /\ TypedInv /\ Told(service) /\ [Next]_vars => [StepForward]_vars
  BY ToldStep
<1>2. Spec => [][StepForward]_vars
  BY <1>1, AlwaysTold, PTL DEF Spec
<1> QED
  BY <1>2 DEF GoesForward, StepForward

-----------------------------------------------------------------------------
(* Rounds that are all as long as the exercise says begin at multiples of   *)
(* that length: the table of starts is the only one its recursion allows.   *)
LEMMA EvenRoundStart ==
    ASSUME NEW e \in Exercises, Even(e), NEW n \in 0 .. e.numberOfRounds
    PROVE  RoundStart(e, n) = n * RoundTime(e)
<1> DEFINE L == RoundTime(e)
           minutes == PhaseMinutes(e)
           Grows(f) == f = [k \in 0 .. n |-> IF k = 0 THEN 0 ELSE f[k - 1] + RoundLength(minutes[k])]
           at == CHOOSE f : Grows(f)
           even == [k \in 0 .. n |-> k * L]
<1>1. RoundStart(e, n) = at[n]
  BY DEF RoundStart
<1>2. L \in Nat /\ e.numberOfRounds \in Nat /\ n \in Nat /\ n <= e.numberOfRounds
  BY ExerciseFacts, SMT
<1>3. \A k \in 1 .. n : RoundLength(minutes[k]) = L
  <2> SUFFICES ASSUME NEW k \in 1 .. n PROVE RoundLength(minutes[k]) = L
    OBVIOUS
  <2>1. k \in 1 .. e.numberOfRounds
    BY <1>2, SMT
  <2>2. minutes[k] = e.minutes
    BY <2>1 DEF Even
  <2> QED
    BY <2>2 DEF RoundTime
<1> HIDE DEF L, minutes
<1>4. Grows(even)
  <2>1. ASSUME NEW k \in 0 .. n
        PROVE  even[k] = IF k = 0 THEN 0 ELSE even[k - 1] + RoundLength(minutes[k])
    <3>1. CASE k = 0
      BY <1>2, <3>1, SMT
    <3>2. CASE k # 0
      <4>1. k \in 1 .. n /\ k - 1 \in 0 .. n
        BY <1>2, <3>2, SMT
      <4>2. even[k] = k * L /\ even[k - 1] = (k - 1) * L /\ RoundLength(minutes[k]) = L
        BY <1>3, <4>1
      <4>3. k * L = (k - 1) * L + L
        BY <1>2, <4>1, SMT
      <4> QED
        BY <3>2, <4>2, <4>3
    <3> QED
      BY <3>1, <3>2
  <2> HIDE DEF even
  <2>2. even = [k \in 0 .. n |-> even[k]]
    BY DEF even
  <2> QED
    BY <2>1, <2>2
<1> HIDE DEF even
<1>5. Grows(at)
  BY <1>4
<1> HIDE DEF at
<1> DEFINE Off == {k \in 0 .. n : at[k] # k * L}
<1>6. Off = {}
  <2> SUFFICES ASSUME Off # {} PROVE FALSE
    OBVIOUS
  <2>1. Off \subseteq Nat
    BY <1>2, SMT
  <2>2. PICK g \in Off : \A h \in Off : ~(<<h, g>> \in OpToRel(<, Nat))
    BY <2>1, NatLessThanWellFounded, WFMin, Zenon
  <2>3. \A h \in Off : ~(h < g)
    BY <2>1, <2>2 DEF OpToRel
  <2>4. g \in 0 .. n /\ at[g] # g * L
    OBVIOUS
  <2>5. at[g] = IF g = 0 THEN 0 ELSE at[g - 1] + RoundLength(minutes[g])
    BY <1>5, <2>4
  <2>6. CASE g = 0
    BY <1>2, <2>4, <2>5, <2>6, SMT
  <2>7. CASE g # 0
    <3>1. g - 1 \in 0 .. n /\ g - 1 < g /\ g \in 1 .. n
      BY <1>2, <2>4, <2>7, SMT
    <3>2. at[g - 1] = (g - 1) * L
      BY <2>3, <3>1
    <3>3. at[g] = (g - 1) * L + L
      BY <1>3, <2>5, <2>7, <3>1, <3>2
    <3>4. (g - 1) * L + L = g * L
      BY <1>2, <3>1, SMT
    <3> QED
      BY <2>4, <3>3, <3>4
  <2> QED
    BY <2>6, <2>7
<1>7. n \in 0 .. n
  BY <1>2, SMT
<1>8. at[n] = n * L
  BY <1>6, <1>7
<1> QED
  BY <1>1, <1>8 DEF L

(* While the rounds are as many and as long as the exercise says, the event *)
(* names the phase that the schedule has at its minute.                     *)
THEOREM TimerFollowsSchedule == Spec => []FollowsEvenSchedule
<1>1. IInv /\ TypedInv /\ Told(service) => FollowsEvenSchedule
  <2> SUFFICES ASSUME IInv, TypedInv, Told(service), service.last # Absent,
                      service.last.phase \in Phases, Even(service.last.exercise)
               PROVE  OnSchedule(service.last)
    BY DEF FollowsEvenSchedule
  <2> DEFINE event == service.last
             e == event.exercise
             m == InMinutes(event.when - RunWindow(event, service.startedOn).start)
             L == RoundTime(e)
             at == RoundStart(e, event.round)
  <2>1. service.exercise # Absent
    BY DEF Told, Phases
  <2>2. /\ e \in Exercises /\ OnTime(event, service.startedOn) /\ Placed(event, service.startedOn)
        /\ event \in Event
    BY <2>1 DEF IInv, Sound, Told, TypedInv, Typed, Service
  <2>3. /\ 0 <= m /\ m < TotalTime(e) /\ event.elapsed = m
        /\ event.round = m \div L /\ event.phase = Phase(e, m % L)
    BY <2>2 DEF Placed
  <2>4. /\ event.round \in Nat /\ event.elapsed \in Nat /\ event.phase \in Phases
        /\ event.round < e.numberOfRounds
    BY <2>2 DEF Event, OnTime
  <2>5. /\ e.numberOfRounds \in Nat /\ L \in Nat /\ TotalTime(e) \in Nat
        /\ e.minutes.execution \in Nat /\ e.minutes.evaluation \in Nat /\ e.minutes.rotation \in Nat
        /\ TotalTime(e) > 0 => L > 0
    BY <2>2, ExerciseFacts
  <2>6. L = e.minutes.execution + e.minutes.evaluation + e.minutes.rotation
    BY DEF RoundTime, RoundLength
  <2> HIDE DEF m, L
  <2>7. m \in Nat /\ L \in Nat \ {0}
    BY <2>3, <2>4, <2>5, SMT
  <2>8. m % L \in 0 .. L - 1 /\ m = event.round * L + (m % L)
    BY <2>3, <2>7, DivFacts
  <2>9. at = event.round * L
    <3>1. event.round \in 0 .. e.numberOfRounds
      BY <2>4, <2>5, SMT
    <3> QED
      BY <2>2, <3>1, EvenRoundStart DEF L
  <2>10. PhaseMinutes(e)[event.round + 1] = e.minutes
    <3>1. event.round + 1 \in 1 .. e.numberOfRounds
      BY <2>4, <2>5, SMT
    <3> QED
      BY <3>1 DEF Even
  <2> HIDE DEF at
  <2> DEFINE begins == CASE event.phase = "execution" -> at
                         [] event.phase = "evaluation" -> at + e.minutes.execution
                         [] event.phase = "rotation" -> at + e.minutes.execution + e.minutes.evaluation
  <2>11. at \in Int /\ m = at + (m % L) /\ m % L \in Nat /\ m % L < L
    BY <2>4, <2>7, <2>8, <2>9, SMT
  <2> DEFINE into == m % L
             x == e.minutes.execution
             y == e.minutes.evaluation
             z == e.minutes.rotation
  <2>12. /\ into \in Nat /\ into < x + y + z /\ m = at + into /\ event.phase = Phase(e, into)
         /\ x \in Nat /\ y \in Nat /\ z \in Nat
    BY <2>3, <2>5, <2>6, <2>11
  <2>13. event.phase = CASE into < x -> "execution"
                         [] into >= x /\ into < x + y -> "evaluation"
                         [] into >= x + y -> "rotation"
    BY <2>12 DEF Phase
  <2>14. /\ event.phase = "execution" => begins = at /\ e.minutes[event.phase] = x
         /\ event.phase = "evaluation" => begins = at + x /\ e.minutes[event.phase] = y
         /\ event.phase = "rotation" => begins = at + x + y /\ e.minutes[event.phase] = z
    OBVIOUS
  <2> HIDE DEF into, x, y, z, begins
  <2>15. begins <= m /\ m < begins + e.minutes[event.phase]
    <3>1. CASE into < x
      <4>1. event.phase = "execution"
        BY <2>12, <2>13, <3>1, SMT
      <4>2. begins = at /\ e.minutes[event.phase] = x
        BY <2>14, <4>1
      <4> QED
        BY <2>11, <2>12, <3>1, <4>2, SMT
    <3>2. CASE into >= x /\ into < x + y
      <4>1. event.phase = "evaluation"
        BY <2>12, <2>13, <3>2, SMT
      <4> QED
        BY <2>11, <2>12, <2>14, <3>2, <4>1, SMT
    <3>3. CASE into >= x + y
      <4>1. event.phase = "rotation"
        BY <2>12, <2>13, <3>3, SMT
      <4>2. begins = at + x + y /\ e.minutes[event.phase] = z
        BY <2>14, <4>1
      <4> QED
        BY <2>11, <2>12, <3>3, <4>2, SMT
    <3> QED
      BY <2>12, <3>1, <3>2, <3>3, SMT
  <2> QED
    BY <2>3, <2>10, <2>15 DEF OnSchedule, at, begins, x, y
<1> QED
  BY <1>1, AlwaysTold, PTL
=============================================================================
