----------------------------- MODULE AuthProofs -----------------------------
(***************************************************************************)
(* What Auth promises for every set of users, addresses, sessions, codes,  *)
(* devices and requests, and every start.                                  *)
(***************************************************************************)
EXTENDS Auth, TLAPS, FiniteSetTheorems

-----------------------------------------------------------------------------
(* The calls of each handler.                                               *)
SweepPcs == {"sweep_list", "sweep", "sweep_drop"}
ConsumePcs == {"source", "hour", "day"}
ConsumedPcs == {"source_put", "hour_put", "day_put"}
RefundPcs == {"hour_back", "hour_back_put", "refund_hour", "refund_hour_put", "refund_day", "refund_day_put"}
StartPcs == SweepPcs \cup ConsumePcs \cup ConsumedPcs \cup RefundPcs \cup {"mail", "unsent", "failed"}
CodePcs == {"code_get", "code_burn", "code_burned", "code_count", "code_counted", "code_spend"}
TakePcs == {"take_get", "take_delete", "taken"}
PeoplePcs == {"identity", "identity_user", "email", "email_user", "link",
              "new_user", "new_home", "new_identity", "new_email"}
SeatPcs == {"session_put", "session_index"}
BouncePcs == {"handoff_put", "bounce"}
RotatePcs == {"rotate_get", "expire", "expire_index", "tombstone", "rotate", "rotated_user"}
EndPcs == {"end_get", "end_session", "end_index"}
ListPcs == {"index_list", "index_get", "index_repair", "scan_list", "scan_get", "scan_heal"}
FillPcs == {"fill_list", "fill", "fill_put"}
ErasePcs == {"erase_home", "erase_start", "erase_index", "erase_identity", "erase_email", "erase_session"}
DevicePcs == {"use", "joined", "signout", "restart", "back", "persist", "clear", "settle"}
Pcs == StartPcs \cup CodePcs \cup {"park", "parked"} \cup TakePcs \cup PeoplePcs \cup SeatPcs
       \cup BouncePcs \cup RotatePcs \cup EndPcs \cup ListPcs \cup FillPcs \cup ErasePcs
       \cup DevicePcs \cup {"send"} \cup Answers

(* What a handler holds at each of its calls.                               *)
Stage(r, p, m) ==
    /\ p = "send" => m = Blank
    /\ p \in StartPcs => call[r].op = "start"
    /\ p \in CodePcs => call[r].op = "callback"
    /\ p \in {"park", "parked"} => call[r].op = "providers"
    /\ p \in TakePcs => call[r].op \in {"redirect", "collect"}
    /\ p \in PeoplePcs \cup SeatPcs => call[r].op \in {"callback", "redirect"}
    /\ p \in BouncePcs => call[r].op = "redirect"
    /\ p \in RotatePcs => call[r].op \in {"use", "refresh"}
    /\ p \in EndPcs => call[r].op \in {"use", "signout", "revoke"}
    /\ p \in ListPcs => call[r].op = "devices"
    /\ p \in FillPcs => call[r].op = "backfill"
    /\ p \in ErasePcs => call[r].op = "erase"
    /\ p \in {"use", "joined"} => call[r].op = "use"
    /\ p = "signout" => call[r].op = "signout"
    /\ p = "clear" => call[r].op \in {"use", "signout"}
    /\ p = "restart" => call[r].op = "restart"
    /\ p \in {"sweep", "sweep_drop"} => m.todo \subseteq Codes
    /\ p = "sweep_drop" => m.at \in Codes
    /\ p \in ConsumedPcs => m.counter \in Counter
    /\ p \in {"code_count", "code_spend", "take_delete", "taken"} => m.code \in CodeRec
    /\ p = "code_count" => m.code.attempts + 1 < MaxCodeAttempts
    /\ p \in {"code_count", "code_spend"} => m.code.email \in Emails
    /\ p \in PeoplePcs /\ call[r].op = "callback" => m.code \in CodeRec /\ m.code.email \in Emails
    /\ p \in {"email", "email_user", "link", "new_email"} /\ call[r].op = "redirect" => call[r].email \in Emails
    /\ p \in {"identity_user", "email_user", "link", "new_home", "new_identity", "new_email"} \cup SeatPcs
            => m.user \in Users
    /\ p \in RotatePcs \cup EndPcs => m.cred \in Cred
    /\ p \in RotatePcs \ {"rotate_get"} => m.rec \in SessionRec
    /\ p \in {"end_session", "end_index", "fill_put"} => m.rec \in SessionRec
    /\ p \in {"index_get", "index_repair", "scan_get", "scan_heal", "fill", "fill_put",
              "erase_index", "erase_session"} => m.todo \subseteq SessionIds
    /\ p \in {"index_repair", "scan_heal", "fill_put"} => m.at \in SessionIds
    /\ p = "erase_identity" => m.todo \subseteq Identities
    /\ p = "erase_email" => m.todo \subseteq Emails
    /\ p = "joined" => m.waits \in Requests

StageOf(r) == Stage(r, pc[r], mem[r])

(* Only a mailed code is kept under the id of a challenge.                  *)
ChallengesMailed == \A k \in Challenges : codes[k] # Absent => codes[k].email \in Emails

StoresOK ==
    /\ codes \in [Codes -> CodeRec \cup {Absent}] /\ ChallengesMailed
    /\ identities \in [Identities -> Users \cup {Absent}]
    /\ emailIndex \in [Emails -> Users \cup {Absent}]
    /\ users \subseteq Users /\ homes \subseteq Users
    /\ sessions \in [SessionIds -> SessionRec \cup {Absent}]
    /\ sessionIndex \subseteq Users \X SessionIds
    /\ counters \in [CounterKeys -> Counter \cup {Absent}]
    /\ mailbox \in [Emails -> SUBSET Mail]
    /\ lapsed \subseteq Codes \cup SessionIds /\ clock \in 0 .. MaxClock
    /\ device \in [Devices -> Device]

GivenStart == \E s \in Starts : seed = s.seed /\ call = s.calls

TypeInv ==
    /\ StoresOK /\ GivenStart
    /\ pc \in [Requests -> Pcs] /\ mem \in [Requests -> Memory]
    /\ \A r \in Requests : StageOf(r)

-----------------------------------------------------------------------------
(* What a start gives.                                                      *)
LEMMA GivenFacts ==
    ASSUME GivenStart
    PROVE  /\ call \in [Requests -> Call] /\ seed \in Seed
           /\ \A r \in Requests : WellFormed(call[r])
           /\ FreshIds(seed, call) /\ AtRest(seed) /\ CountsMail(seed)
BY AuthAssumption DEF GivenStart

LEMMA CallType ==
    ASSUME NEW c \in Call
    PROVE  /\ c.op \in Ops /\ c.device \in Devices \cup {Absent} /\ c.user \in Users \cup {Absent}
           /\ c.newUser \in Users \cup {Absent} /\ c.session \in SessionIds \cup {Absent}
           /\ c.secret \in Secrets \cup {Absent} /\ c.email \in Emails \cup {Absent}
           /\ c.identity \in Identities \cup {Absent} /\ c.code \in Codes \cup {Absent}
           /\ c.parks \in Codes \cup {Absent} /\ c.source \in Sources /\ c.after \subseteq Requests
           /\ c.verified \in BOOLEAN /\ c.right \in BOOLEAN
BY DEF Call

Fields == {"cred", "user", "rec", "code", "counter", "answer", "todo", "at", "shown", "waits",
           "orphan", "lost", "presented", "replayed", "ended", "degraded", "spent"}
Listing == SUBSET (SessionIds \cup Codes \cup Identities \cup Emails)

LEMMA MemoryType ==
    ASSUME NEW m \in Memory
    PROVE  /\ DOMAIN m = Fields
           /\ m.cred \in Cred \cup {Absent} /\ m.user \in Users \cup {Absent}
           /\ m.rec \in SessionRec \cup {Absent} /\ m.code \in CodeRec \cup {Absent}
           /\ m.counter \in Counter \cup {Absent} /\ m.answer \in Answers
           /\ m.todo \in Listing /\ m.at \in SessionIds \cup Codes \cup {Absent}
           /\ m.shown \subseteq SessionIds /\ m.waits \in Requests \cup {Absent}
           /\ m.presented \in SessionIds \cup {Absent} /\ m.spent \in Spent
BY DEF Memory, Fields, Listing

LEMMA MemoryFlags ==
    ASSUME NEW m \in Memory
    PROVE  /\ m.orphan \in BOOLEAN /\ m.lost \in BOOLEAN /\ m.replayed \in BOOLEAN
           /\ m.ended \in BOOLEAN /\ m.degraded \in BOOLEAN
BY DEF Memory

(* A memory stays one when a call changes some of it.                       *)
LEMMA MemoryCred ==
    ASSUME NEW m \in Memory, NEW x \in Cred \cup {Absent}
    PROVE  [m EXCEPT !.cred = x] \in Memory
BY DEF Memory

LEMMA MemoryCredAnswer ==
    ASSUME NEW m \in Memory, NEW x \in Cred \cup {Absent}, NEW a \in Answers
    PROVE  [m EXCEPT !.cred = x, !.answer = a] \in Memory
BY DEF Memory

LEMMA MemoryTodo ==
    ASSUME NEW m \in Memory, NEW T \in Listing
    PROVE  [m EXCEPT !.todo = T] \in Memory
BY DEF Memory, Listing

LEMMA MemoryTodoAt ==
    ASSUME NEW m \in Memory, NEW T \in Listing, NEW k \in SessionIds \cup Codes
    PROVE  [m EXCEPT !.todo = T, !.at = k] \in Memory
BY DEF Memory, Listing

LEMMA MemoryTodoAtShown ==
    ASSUME NEW m \in Memory, NEW T \in Listing, NEW k \in SessionIds, NEW S \in SUBSET SessionIds
    PROVE  [m EXCEPT !.todo = T, !.at = k, !.shown = S] \in Memory
BY DEF Memory, Listing

LEMMA MemoryTodoAtRec ==
    ASSUME NEW m \in Memory, NEW T \in Listing, NEW k \in SessionIds, NEW x \in SessionRec \cup {Absent}
    PROVE  [m EXCEPT !.todo = T, !.at = k, !.rec = x] \in Memory
BY DEF Memory, Listing

LEMMA MemoryCode ==
    ASSUME NEW m \in Memory, NEW x \in CodeRec \cup {Absent}
    PROVE  [m EXCEPT !.code = x] \in Memory
BY DEF Memory

LEMMA MemoryUser ==
    ASSUME NEW m \in Memory, NEW x \in Users \cup {Absent}
    PROVE  [m EXCEPT !.user = x] \in Memory
BY DEF Memory

LEMMA MemoryAnswer ==
    ASSUME NEW m \in Memory, NEW a \in Answers
    PROVE  [m EXCEPT !.answer = a] \in Memory
BY DEF Memory

LEMMA MemoryFlagLost ==
    ASSUME NEW m \in Memory, NEW b \in BOOLEAN
    PROVE  [m EXCEPT !.lost = b] \in Memory
BY DEF Memory

LEMMA MemoryFlagReplayed ==
    ASSUME NEW m \in Memory, NEW b \in BOOLEAN
    PROVE  [m EXCEPT !.replayed = b] \in Memory
BY DEF Memory

LEMMA MemoryFlagEnded ==
    ASSUME NEW m \in Memory, NEW b \in BOOLEAN
    PROVE  [m EXCEPT !.ended = b] \in Memory
BY DEF Memory

LEMMA MemoryLost ==
    ASSUME NEW m \in Memory, NEW a \in Answers, NEW b \in BOOLEAN
    PROVE  [m EXCEPT !.answer = a, !.lost = b] \in Memory
<1> DEFINE n == [m EXCEPT !.answer = a]
<1>1. n \in Memory
  BY DEF Memory
<1>2. [n EXCEPT !.lost = b] \in Memory
  BY <1>1, MemoryFlagLost
<1> QED
  BY <1>2

LEMMA MemoryPresented ==
    ASSUME NEW m \in Memory, NEW x \in SessionRec \cup {Absent}, NEW s \in SessionIds, NEW b \in BOOLEAN
    PROVE  [m EXCEPT !.rec = x, !.presented = s, !.replayed = b] \in Memory
<1> DEFINE n == [m EXCEPT !.rec = x, !.presented = s]
<1>1. n \in Memory
  BY DEF Memory
<1>2. [n EXCEPT !.replayed = b] \in Memory
  BY <1>1, MemoryFlagReplayed
<1> QED
  BY <1>2

LEMMA MemoryRotated ==
    ASSUME NEW m \in Memory, NEW x \in Cred, NEW b \in BOOLEAN
    PROVE  [m EXCEPT !.cred = x, !.lost = b] \in Memory
<1> DEFINE n == [m EXCEPT !.cred = x]
<1>1. n \in Memory
  BY DEF Memory
<1>2. [n EXCEPT !.lost = b] \in Memory
  BY <1>1, MemoryFlagLost
<1> QED
  BY <1>2

LEMMA MemoryEnded ==
    ASSUME NEW m \in Memory, NEW x \in SessionRec \cup {Absent}, NEW b \in BOOLEAN
    PROVE  [m EXCEPT !.rec = x, !.ended = b] \in Memory
<1> DEFINE n == [m EXCEPT !.rec = x]
<1>1. n \in Memory
  BY DEF Memory
<1>2. [n EXCEPT !.ended = b] \in Memory
  BY <1>1, MemoryFlagEnded
<1> QED
  BY <1>2

LEMMA MemoryDegraded ==
    ASSUME NEW m \in Memory, NEW b \in BOOLEAN
    PROVE  [m EXCEPT !.degraded = b] \in Memory
BY DEF Memory

LEMMA MemoryCounter ==
    ASSUME NEW m \in Memory, NEW x \in Counter \cup {Absent}
    PROVE  [m EXCEPT !.counter = x] \in Memory
BY DEF Memory

LEMMA MemorySpent ==
    ASSUME NEW m \in Memory, NEW x \in Spent
    PROVE  [m EXCEPT !.spent = x] \in Memory
BY DEF Memory

LEMMA MemoryWaits ==
    ASSUME NEW m \in Memory, NEW q \in Requests
    PROVE  [m EXCEPT !.waits = q] \in Memory
BY DEF Memory

LEMMA MemoryOrphan ==
    ASSUME NEW m \in Memory, NEW b \in BOOLEAN
    PROVE  [m EXCEPT !.orphan = b] \in Memory
BY DEF Memory

LEMMA StepType ==
    ASSUME TypeInv, NEW r \in Requests, NEW p \in Pcs, NEW m \in Memory,
           pc' = [pc EXCEPT ![r] = p], mem' = [mem EXCEPT ![r] = m], given' = given,
           StoresOK', Stage(r, p, m)
    PROVE  TypeInv'
<1>1. call' = call /\ seed' = seed
  BY DEF given
<1>2. GivenStart'
  BY <1>1 DEF GivenStart, TypeInv
<1>3. pc' \in [Requests -> Pcs] /\ mem' \in [Requests -> Memory]
  BY DEF TypeInv
<1>4. ASSUME NEW q \in Requests PROVE StageOf(q)'
  <2>1. CASE q = r
    <3>1. pc'[q] = p /\ mem'[q] = m
      BY <2>1 DEF TypeInv
    <3> QED
      BY <1>1, <2>1, <3>1 DEF StageOf, Stage
  <2>2. CASE q # r
    <3>1. pc'[q] = pc[q] /\ mem'[q] = mem[q] /\ StageOf(q)
      BY <2>2 DEF TypeInv
    <3> QED
      BY <1>1, <3>1 DEF StageOf, Stage
  <2> QED
    BY <2>1, <2>2
<1> QED
  BY <1>2, <1>3, <1>4 DEF TypeInv

LEMMA TypeParts ==
    ASSUME TypeInv, NEW r \in Requests
    PROVE  /\ StoresOK /\ GivenStart /\ StageOf(r) /\ call[r] \in Call /\ mem[r] \in Memory
           /\ pc \in [Requests -> Pcs] /\ mem \in [Requests -> Memory]
           /\ WellFormed(call[r]) /\ seed \in Seed
BY GivenFacts DEF TypeInv

(* A request that keeps what it holds.                                      *)
LEMMA KeepType ==
    ASSUME TypeInv, NEW r \in Requests, NEW p \in Pcs,
           pc' = [pc EXCEPT ![r] = p], mem' = mem, given' = given,
           StoresOK', Stage(r, p, mem[r])
    PROVE  TypeInv'
<1>1. mem' = [mem EXCEPT ![r] = mem[r]] /\ mem[r] \in Memory
  BY DEF TypeInv
<1> QED
  BY <1>1, StepType

(* An answer may come at any stage.                                         *)
LEMMA AnswerStage ==
    ASSUME NEW r, NEW a \in Answers \cup {"back"}, NEW m
    PROVE  Stage(r, a, m) /\ a \in Pcs
BY SMTT(60) DEF Stage, Pcs, Answers, StartPcs, SweepPcs, ConsumePcs, ConsumedPcs, RefundPcs, CodePcs, TakePcs,
    PeoplePcs, SeatPcs, BouncePcs, RotatePcs, EndPcs, ListPcs, FillPcs, ErasePcs, DevicePcs

LEMMA ReplyType ==
    ASSUME TypeInv, NEW r \in Requests, NEW from, NEW a \in Answers, NEW m \in Memory,
           Replies(r, from, a, m), given' = given, StoresOK'
    PROVE  TypeInv'
<1> DEFINE p == IF OnDevice(r) THEN "back" ELSE a
           n == [m EXCEPT !.answer = a]
<1>1. p \in Pcs /\ Stage(r, p, n)
  BY AnswerStage
<1>2. n \in Memory
  BY MemoryAnswer
<1>3. pc' = [pc EXCEPT ![r] = p] /\ mem' = [mem EXCEPT ![r] = n]
  BY DEF Replies, Goto, Holds
<1> QED
  BY <1>1, <1>2, <1>3, StepType

LEMMA QuietStores ==
    ASSUME StoresOK, UNCHANGED <<codes, people, seats, post, time, device>>
    PROVE  StoresOK'
BY DEF StoresOK, people, seats, post, time, ChallengesMailed
-----------------------------------------------------------------------------
(* The types, kept by each handler: mailed codes.                           *)
LEMMA StartEmailType ==
    ASSUME TypeInv, NEW r \in Requests, StartEmail(r), ~StartLimited(r)
    PROVE  TypeInv'
<1> USE DEF Stage, StageOf, Pcs, Answers, StartPcs, SweepPcs, ConsumePcs, ConsumedPcs, RefundPcs, CodePcs, TakePcs,
            PeoplePcs, SeatPcs, BouncePcs, RotatePcs, EndPcs, ListPcs, FillPcs, ErasePcs, DevicePcs
<1>1. /\ StoresOK /\ StageOf(r) /\ call[r] \in Call /\ mem[r] \in Memory /\ WellFormed(call[r])
      /\ mem[r].todo \in Listing
  BY TypeParts, MemoryType
<1>2. CASE SweepList(r)
  <2> DEFINE T == {k \in Codes : codes[k] # Absent}
             m == [mem[r] EXCEPT !.todo = T]
  <2>1. m \in Memory /\ m.todo = T
    BY <1>1, MemoryTodo, MemoryType DEF Fields, Listing
  <2>2. StoresOK' /\ given' = given
    BY <1>1, <1>2, QuietStores DEF SweepList, Reads
  <2>3. pc[r] = "sweep_list" /\ pc' = [pc EXCEPT ![r] = "sweep"] /\ mem' = [mem EXCEPT ![r] = m]
    BY <1>2 DEF SweepList, Goto, Holds
  <2>4. Stage(r, "sweep", m)
    BY <1>1, <2>1, <2>3
  <2> QED
    BY <2>1, <2>2, <2>3, <2>4, StepType
<1>3. CASE SweepRead(r)
  <2>1. PICK k \in mem[r].todo :
           LET over == codes[k] # Absent /\ k \in lapsed
           IN  /\ Goto(r, "sweep", IF over THEN "sweep_drop" ELSE "sweep")
               /\ Holds(r, [mem[r] EXCEPT !.todo = @ \ {k}, !.at = k])
               /\ Reads
    BY <1>3 DEF SweepRead
  <2> DEFINE p == IF codes[k] # Absent /\ k \in lapsed THEN "sweep_drop" ELSE "sweep"
             T == mem[r].todo \ {k}
             m == [mem[r] EXCEPT !.todo = T, !.at = k]
  <2>2. pc[r] = "sweep" /\ pc' = [pc EXCEPT ![r] = p] /\ mem' = [mem EXCEPT ![r] = m]
    BY <2>1 DEF Goto, Holds
  <2>3. mem[r].todo \subseteq Codes /\ call[r].op = "start"
    BY <1>1, <2>2
  <2>4. m \in Memory /\ m.todo = T /\ m.at = k
    BY <1>1, <2>3, MemoryTodoAt, MemoryType DEF Fields, Listing
  <2>5. StoresOK' /\ given' = given
    BY <1>1, <2>1, QuietStores DEF Reads
  <2>6. Stage(r, p, m) /\ p \in Pcs
    BY <2>3, <2>4
  <2> HIDE DEF p, m, Stage
  <2> QED
    BY <2>2, <2>4, <2>5, <2>6, StepType
<1>4. CASE SweepDrop(r)
  <2>1. /\ pc[r] = "sweep_drop" /\ pc' = [pc EXCEPT ![r] = "sweep"] /\ mem' = mem /\ given' = given
        /\ codes' = [codes EXCEPT ![mem[r].at] = Absent]
        /\ UNCHANGED <<people, seats, post, time, device>>
    BY <1>4 DEF SweepDrop, PutCode, Goto
  <2>2. StoresOK'
    BY <1>1, <2>1 DEF StoresOK, people, seats, post, time, ChallengesMailed
  <2>3. Stage(r, "sweep", mem[r])
    BY <1>1, <2>1
  <2> QED
    BY <2>1, <2>2, <2>3, KeepType
<1>5. CASE StartChallenge(r)
  <2> DEFINE rec == [email |-> call[r].email, attempts |-> 0, gives |-> Absent]
  <2>1. /\ pc[r] = "sweep" /\ pc' = [pc EXCEPT ![r] = "source"] /\ mem' = mem /\ given' = given
        /\ codes' = [codes EXCEPT ![call[r].parks] = rec]
        /\ UNCHANGED <<people, seats, post, time, device>>
    BY <1>5 DEF StartChallenge, PutCode, Goto
  <2>2. call[r].op = "start" /\ call[r].email \in Emails /\ call[r].parks \in Challenges
    BY <1>1, <2>1, CallType DEF WellFormed
  <2>3. rec \in CodeRec /\ rec.email \in Emails
    BY <2>2, AuthAssumption DEF CodeRec
  <2>4. StoresOK'
    BY <1>1, <2>1, <2>2, <2>3 DEF StoresOK, people, seats, post, time, ChallengesMailed, Codes
  <2>5. Stage(r, "source", mem[r])
    BY <2>2
  <2> QED
    BY <2>1, <2>4, <2>5, KeepType
<1> QED
  BY <1>2, <1>3, <1>4, <1>5 DEF StartEmail
(* The budget of start-email; every call of a counter is of one of a few    *)
(* forms.                                                                   *)
LEMMA KeyType ==
    ASSUME TypeInv, NEW r \in Requests, call[r].op = "start"
    PROVE  /\ SourceKey(r) \in CounterKeys /\ HourKey(r) \in CounterKeys /\ DayKey(r) \in CounterKeys
           /\ SourceKey(r)[1] = "source" /\ HourKey(r)[1] = "hour" /\ DayKey(r)[1] = "day"
           /\ call[r].email \in Emails
<1>1. call[r].email \in Emails /\ call[r].source \in Sources
  BY TypeParts, CallType DEF WellFormed
<1> QED
  BY <1>1 DEF SourceKey, HourKey, DayKey, CounterKeys

LEMMA WindowType ==
    ASSUME StoresOK, NEW key \in CounterKeys
    PROVE  /\ Window(key) \in Counter /\ Window(key).count \in Nat
           /\ [Window(key) EXCEPT !.count = @ + 1] \in Counter
<1>1. clock \in 0 .. MaxClock /\ counters[key] \in Counter \cup {Absent}
  BY DEF StoresOK
<1>2. Over(counters[key], key) \/ counters[key] \in Counter
  BY <1>1 DEF Over
<1>3. [windowStart |-> clock, count |-> 0] \in Counter
  BY <1>1, SMT DEF Counter
<1>4. Window(key) \in Counter
  BY <1>2, <1>3 DEF Window
<1>5. ASSUME NEW w \in Counter PROVE w.count \in Nat /\ [w EXCEPT !.count = @ + 1] \in Counter
  BY SMT DEF Counter
<1> QED
  BY <1>4, <1>5

LEMMA RefundedType ==
    ASSUME StoresOK, NEW key \in CounterKeys
    PROVE  (IF ~Refunds(key) \/ counters[key].count = 0 THEN counters[key]
            ELSE [counters[key] EXCEPT !.count = @ - 1]) \in Counter \cup {Absent}
<1>1. counters[key] \in Counter \cup {Absent}
  BY DEF StoresOK
<1>2. CASE Refunds(key) /\ counters[key].count # 0
  <2>1. counters[key] \in Counter /\ counters[key].count \in Nat \ {0}
    BY <1>1, <1>2 DEF Refunds, Over, Counter
  <2>2. ASSUME NEW w \in Counter, w.count \in Nat \ {0} PROVE [w EXCEPT !.count = @ - 1] \in Counter
    BY <2>2, SMT DEF Counter
  <2> QED
    BY <1>2, <2>1, <2>2
<1> QED
  BY <1>1, <1>2

LEMMA CounterStores ==
    ASSUME TypeInv, NEW key \in CounterKeys, NEW entry \in Counter \cup {Absent},
           counters' = [counters EXCEPT ![key] = entry], Keeps
    PROVE  StoresOK' /\ given' = given
BY DEF TypeInv, StoresOK, Keeps, people, seats, time, ChallengesMailed

(* A budget's calls, wherever they stand in the order of the handler.       *)
LEMMA DegradesType ==
    ASSUME TypeInv, NEW r \in Requests, NEW from, NEW to \in ConsumePcs \cup RefundPcs \cup {"mail", "unsent", "failed"},
           call[r].op = "start", Degrades(r, from, to)
    PROVE  TypeInv'
<1> DEFINE yes == TRUE
           m == [mem[r] EXCEPT !.degraded = yes]
<1>1. pc' = [pc EXCEPT ![r] = to] /\ mem' = [mem EXCEPT ![r] = m] /\ given' = given
  BY DEF Degrades, Goto, Holds, Keeps
<1>2. UNCHANGED <<codes, people, seats, post, time, device>>
  BY DEF Degrades, Keeps, post
<1>3. yes \in BOOLEAN
  OBVIOUS
<1> HIDE DEF yes
<1>4. m \in Memory
  BY <1>3, TypeParts, MemoryDegraded
<1>5. StoresOK'
  BY <1>2, QuietStores, TypeParts
<1>6. to \in Pcs /\ Stage(r, to, m)
  BY DEF Stage, Pcs, Answers, StartPcs, SweepPcs, ConsumePcs, ConsumedPcs, RefundPcs, CodePcs, TakePcs,
            PeoplePcs, SeatPcs, BouncePcs, RotatePcs, EndPcs, ListPcs, FillPcs, ErasePcs, DevicePcs
<1> QED
  BY <1>1, <1>4, <1>5, <1>6, StepType

LEMMA ConsumeType ==
    ASSUME TypeInv, NEW r \in Requests, call[r].op = "start",
           NEW at \in ConsumePcs, NEW put \in ConsumedPcs, NEW key \in CounterKeys,
           key[1] \in {"source", "hour", "day"},
           NEW next \in ConsumePcs \cup {"mail"}, NEW refused \in {"unsent", "hour_back"},
           Consume(r, at, put, key, next, refused)
    PROVE  TypeInv'
<1>1. StoresOK /\ StageOf(r) /\ mem[r] \in Memory /\ Window(key) \in Counter
  BY TypeParts, WindowType
<1>2. CASE /\ Goto(r, at, IF Window(key).count + 1 <= LimitOf(key) THEN put ELSE refused)
           /\ Holds(r, [mem[r] EXCEPT !.counter = [Window(key) EXCEPT !.count = @ + 1]])
           /\ UNCHANGED counters /\ Keeps
  <2> DEFINE p == IF Window(key).count + 1 <= LimitOf(key) THEN put ELSE refused
             w == [Window(key) EXCEPT !.count = @ + 1]
             m == [mem[r] EXCEPT !.counter = w]
  <2>1. pc' = [pc EXCEPT ![r] = p] /\ mem' = [mem EXCEPT ![r] = m] /\ given' = given
    BY <1>2 DEF Goto, Holds, Keeps
  <2>2. StoresOK'
    BY <1>1, <1>2, QuietStores DEF Keeps, post
  <2>3. w \in Counter
    BY <1>1, WindowType
  <2>4. p \in {put, refused}
    OBVIOUS
  <2> HIDE DEF w, p
  <2>5. m \in Memory /\ m.counter = w
    BY <1>1, <2>3, MemoryCounter, MemoryType DEF Fields
  <2>6. Stage(r, p, m) /\ p \in Pcs
    BY <2>3, <2>4, <2>5 DEF Stage, Pcs, Answers, StartPcs, SweepPcs, ConsumePcs, ConsumedPcs, RefundPcs, CodePcs, TakePcs,
            PeoplePcs, SeatPcs, BouncePcs, RotatePcs, EndPcs, ListPcs, FillPcs, ErasePcs, DevicePcs
  <2> HIDE DEF m
  <2> QED
    BY <2>1, <2>2, <2>5, <2>6, StepType
<1>3. CASE /\ Goto(r, put, next)
           /\ counters' = [counters EXCEPT ![key] = mem[r].counter]
           /\ Holds(r, [mem[r] EXCEPT !.spent[key[1]] = mem[r].counter.windowStart])
           /\ Keeps
  <2> DEFINE n == [mem[r].spent EXCEPT ![key[1]] = mem[r].counter.windowStart]
             m == [mem[r] EXCEPT !.spent = n]
  <2>1. pc[r] = put /\ pc' = [pc EXCEPT ![r] = next] /\ mem' = [mem EXCEPT ![r] = m] /\ given' = given
    BY <1>3 DEF Goto, Holds, Keeps
  <2>2. mem[r].counter \in Counter
    BY <1>1, <2>1 DEF StageOf, Stage
  <2>3. StoresOK'
    BY <1>3, <2>2, CounterStores
  <2>4. n \in Spent
    <3>1. mem[r].spent \in Spent /\ mem[r].counter.windowStart \in 0 .. MaxClock
      BY <1>1, <2>2, MemoryType DEF Counter
    <3> QED
      BY <3>1 DEF Spent
  <2> HIDE DEF n
  <2>5. m \in Memory
    BY <1>1, <2>4, MemorySpent
  <2>6. Stage(r, next, m) /\ next \in Pcs
    BY DEF Stage, Pcs, Answers, StartPcs, SweepPcs, ConsumePcs, ConsumedPcs, RefundPcs, CodePcs, TakePcs,
            PeoplePcs, SeatPcs, BouncePcs, RotatePcs, EndPcs, ListPcs, FillPcs, ErasePcs, DevicePcs
  <2> HIDE DEF m
  <2> QED
    BY <2>1, <2>3, <2>5, <2>6, StepType
<1>4. CASE Degrades(r, at, next) \/ Degrades(r, put, next)
  BY <1>4, DegradesType
<1> QED
  BY <1>2, <1>3, <1>4 DEF Consume

LEMMA RefundType ==
    ASSUME TypeInv, NEW r \in Requests, call[r].op = "start",
           NEW at \in RefundPcs, NEW put \in RefundPcs, NEW key \in CounterKeys,
           NEW next \in RefundPcs \cup {"unsent", "failed"}, Refund(r, at, put, key, next)
    PROVE  TypeInv'
<1>1. StoresOK /\ StageOf(r) /\ mem[r] \in Memory
  BY TypeParts
<1>2. CASE /\ Goto(r, at, IF Refunds(key) THEN put ELSE next)
           /\ Holds(r, [mem[r] EXCEPT !.counter =
                  IF ~Refunds(key) \/ counters[key].count = 0 THEN counters[key]
                  ELSE [counters[key] EXCEPT !.count = @ - 1]])
           /\ UNCHANGED counters /\ Keeps
  <2> DEFINE p == IF Refunds(key) THEN put ELSE next
             w == IF ~Refunds(key) \/ counters[key].count = 0 THEN counters[key]
                  ELSE [counters[key] EXCEPT !.count = @ - 1]
             m == [mem[r] EXCEPT !.counter = w]
  <2>1. pc' = [pc EXCEPT ![r] = p] /\ mem' = [mem EXCEPT ![r] = m] /\ given' = given
    BY <1>2 DEF Goto, Holds, Keeps
  <2>2. StoresOK'
    BY <1>1, <1>2, QuietStores DEF Keeps, post
  <2>3. w \in Counter \cup {Absent} /\ p \in {put, next}
    BY <1>1, RefundedType
  <2> HIDE DEF w, p
  <2>4. m \in Memory
    BY <1>1, <2>3, MemoryCounter
  <2>5. Stage(r, p, m) /\ p \in Pcs
    BY <2>3 DEF Stage, Pcs, Answers, StartPcs, SweepPcs, ConsumePcs, ConsumedPcs, RefundPcs, CodePcs, TakePcs,
            PeoplePcs, SeatPcs, BouncePcs, RotatePcs, EndPcs, ListPcs, FillPcs, ErasePcs, DevicePcs
  <2> HIDE DEF m
  <2> QED
    BY <2>1, <2>2, <2>4, <2>5, StepType
<1>3. CASE /\ Goto(r, put, next)
           /\ counters' = [counters EXCEPT ![key] = mem[r].counter]
           /\ Keeps /\ UNCHANGED mem
  <2>1. pc' = [pc EXCEPT ![r] = next] /\ mem' = mem
    BY <1>3 DEF Goto
  <2>2. StoresOK' /\ given' = given
    BY <1>1, <1>3, CounterStores, MemoryType
  <2>3. Stage(r, next, mem[r]) /\ next \in Pcs
    BY DEF Stage, Pcs, Answers, StartPcs, SweepPcs, ConsumePcs, ConsumedPcs, RefundPcs, CodePcs, TakePcs,
            PeoplePcs, SeatPcs, BouncePcs, RotatePcs, EndPcs, ListPcs, FillPcs, ErasePcs, DevicePcs
  <2> QED
    BY <2>1, <2>2, <2>3, KeepType
<1>4. CASE Degrades(r, at, next) \/ Degrades(r, put, next)
  BY <1>4, DegradesType
<1> QED
  BY <1>2, <1>3, <1>4 DEF Refund

LEMMA StartLimitedType ==
    ASSUME TypeInv, NEW r \in Requests, StartLimited(r)
    PROVE  TypeInv'
<1>1. pc[r] \in StartPcs /\ call[r].op = "start"
  <2>1. pc[r] \in StartPcs
    BY DEF StartLimited, AllowSend, SendMail, RefundSend, AnswerStart, Consume, Refund, Degrades, Replies, Goto,
           StartPcs, ConsumePcs, ConsumedPcs, RefundPcs
  <2> QED
    BY <2>1, TypeParts DEF StageOf, Stage
<1>2. CASE AllowSend(r)
  <2>1. CASE Consume(r, "source", "source_put", SourceKey(r), "hour", "unsent")
    BY <1>1, <2>1, KeyType, ConsumeType DEF ConsumePcs, ConsumedPcs
  <2>2. CASE Consume(r, "hour", "hour_put", HourKey(r), "day", "unsent")
    BY <1>1, <2>2, KeyType, ConsumeType DEF ConsumePcs, ConsumedPcs
  <2>3. CASE Consume(r, "day", "day_put", DayKey(r), "mail", "hour_back")
    BY <1>1, <2>3, KeyType, ConsumeType DEF ConsumePcs, ConsumedPcs
  <2>4. CASE Refund(r, "hour_back", "hour_back_put", HourKey(r), "unsent")
    BY <1>1, <2>4, KeyType, RefundType DEF RefundPcs
  <2> QED
    BY <1>2, <2>1, <2>2, <2>3, <2>4 DEF AllowSend
<1>3. CASE SendMail(r)
  <2>1. call[r].email \in Emails /\ StoresOK /\ mem[r].spent \in Spent
    BY <1>1, KeyType, TypeParts, MemoryType
  <2>2. PICK p \in {"unsent", "refund_hour"} : pc' = [pc EXCEPT ![r] = p]
    BY <1>3 DEF SendMail, Goto
  <2>3. given' = given /\ mem' = mem
    BY <1>3 DEF SendMail
  <2>4. StoresOK'
    <3>1. CASE mailbox' = [mailbox EXCEPT ![call[r].email] = @ \cup {[of |-> r, spent |-> mem[r].spent]}]
               /\ UNCHANGED <<codes, people, seats, counters, time, device, given, mem>>
      <4>1. [of |-> r, spent |-> mem[r].spent] \in Mail
        BY <2>1 DEF Mail, Secrets
      <4>2. mailbox' \in [Emails -> SUBSET Mail]
        BY <2>1, <3>1, <4>1 DEF StoresOK
      <4> QED
        BY <2>1, <3>1, <4>2 DEF StoresOK, people, seats, time, ChallengesMailed
    <3>2. CASE UNCHANGED <<codes, people, seats, post, time, device, given, mem>>
      BY <2>1, <3>2, QuietStores
    <3> QED
      BY <1>3, <3>1, <3>2 DEF SendMail
  <2>5. Stage(r, p, mem[r]) /\ p \in Pcs
    BY <1>1 DEF Stage, Pcs, Answers, StartPcs, SweepPcs, ConsumePcs, ConsumedPcs, RefundPcs, CodePcs, TakePcs,
            PeoplePcs, SeatPcs, BouncePcs, RotatePcs, EndPcs, ListPcs, FillPcs, ErasePcs, DevicePcs
  <2> QED
    BY <2>2, <2>3, <2>4, <2>5, KeepType
<1>4. CASE RefundSend(r)
  BY <1>1, <1>4, KeyType, RefundType DEF RefundSend, RefundPcs
<1>5. CASE AnswerStart(r)
  <2>1. StoresOK' /\ given' = given /\ mem[r] \in Memory
    BY <1>5, TypeParts, QuietStores DEF AnswerStart
  <2>2. "200" \in Answers /\ "500" \in Answers
    BY DEF Answers
  <2> QED
    BY <1>5, <2>1, <2>2, ReplyType DEF AnswerStart
<1> QED
  BY <1>2, <1>3, <1>4, <1>5 DEF StartLimited
-----------------------------------------------------------------------------
(* Codes, authorizations and hand-offs.                                     *)
LEMMA CodeStores ==
    ASSUME TypeInv, NEW k \in Codes, NEW rec \in CodeRec \cup {Absent},
           k \in Challenges /\ rec # Absent => rec.email \in Emails,
           codes' = [codes EXCEPT ![k] = rec], UNCHANGED <<people, seats, post, time, device>>
    PROVE  StoresOK'
BY DEF TypeInv, StoresOK, people, seats, post, time, ChallengesMailed, Codes

LEMMA PutCodeType ==
    ASSUME TypeInv, NEW r \in Requests, NEW from, NEW to \in Pcs, NEW k \in Codes, NEW rec \in CodeRec \cup {Absent},
           k \in Challenges /\ rec # Absent => rec.email \in Emails,
           PutCode(r, from, to, k, rec), mem' = mem, Stage(r, to, mem[r])
    PROVE  TypeInv'
<1>1. pc' = [pc EXCEPT ![r] = to] /\ given' = given
  BY DEF PutCode, Goto, given
<1>2. StoresOK'
  BY CodeStores DEF PutCode
<1> QED
  BY <1>1, <1>2, KeepType

LEMMA RedeemType ==
    ASSUME TypeInv, NEW r \in Requests, RedeemChallenge(r)
    PROVE  TypeInv'
<1>1. pc[r] \in CodePcs
  BY DEF RedeemChallenge, CodeGet, CodeBurn, CodeBurned, CodeCount, CodeCounted, CodeSpend, PutCode, Replies, Goto, CodePcs
<1>2. /\ call[r].op = "callback" /\ call[r].code \in Challenges /\ call[r].code \in Codes
      /\ mem[r] \in Memory /\ StoresOK /\ StageOf(r)
  BY <1>1, TypeParts DEF StageOf, Stage, WellFormed, Codes
<1>3. CASE CodeGet(r)
  <2> DEFINE rec == codes[call[r].code]
             p == CodeVerdict(r, rec)
             m == [mem[r] EXCEPT !.code = rec]
  <2>1. rec \in CodeRec \cup {Absent} /\ (rec # Absent => rec.email \in Emails)
    BY <1>2 DEF StoresOK, ChallengesMailed
  <2>2. m \in Memory /\ m.code = rec
    BY <1>2, <2>1, MemoryCode, MemoryType DEF Fields
  <2>3. StoresOK' /\ given' = given
    BY <1>2, <1>3, QuietStores DEF CodeGet, Reads
  <2>4. CASE p = "400"
    <3>1. Replies(r, "code_get", "400", m) /\ "400" \in Answers
      BY <1>3, <2>4 DEF CodeGet, Answers
    <3> QED
      BY <2>2, <2>3, <3>1, ReplyType
  <2>5. CASE p # "400"
    <3>1. pc' = [pc EXCEPT ![r] = p] /\ mem' = [mem EXCEPT ![r] = m]
      BY <1>3, <2>5 DEF CodeGet, Goto, Holds
    <3>2. rec # Absent
      BY <2>5 DEF CodeVerdict
    <3>3. p \in {"code_burn", "code_count", "code_spend"}
      BY <3>2 DEF CodeVerdict, WrongCode
    <3>4. p = "code_count" => rec.attempts + 1 < MaxCodeAttempts
      <4>1. p = "code_count" => ~(rec.attempts + 1 >= MaxCodeAttempts)
        BY <3>2 DEF CodeVerdict, WrongCode
      <4>2. rec.attempts \in Nat /\ MaxCodeAttempts \in Nat
        BY <2>1, <3>2, AuthAssumption DEF CodeRec
      <4> QED
        BY <4>1, <4>2, SMT
    <3> HIDE DEF p, rec
    <3>5. Stage(r, p, m) /\ p \in Pcs
      BY <1>2, <2>1, <2>2, <3>2, <3>3, <3>4 DEF Stage, Pcs, Answers, StartPcs, SweepPcs, ConsumePcs, ConsumedPcs,
            RefundPcs, CodePcs, TakePcs, PeoplePcs, SeatPcs, BouncePcs, RotatePcs, EndPcs, ListPcs, FillPcs,
            ErasePcs, DevicePcs
    <3> HIDE DEF m
    <3> QED
      BY <2>2, <2>3, <3>1, <3>5, StepType
  <2> QED
    BY <2>4, <2>5
<1>4. CASE CodeBurn(r)
  <2>1. Stage(r, "code_burned", mem[r]) /\ "code_burned" \in Pcs
    BY <1>2 DEF Stage, Pcs, Answers, StartPcs, SweepPcs, ConsumePcs, ConsumedPcs,
            RefundPcs, CodePcs, TakePcs, PeoplePcs, SeatPcs, BouncePcs, RotatePcs, EndPcs, ListPcs, FillPcs,
            ErasePcs, DevicePcs
  <2> QED
    BY <1>2, <1>4, <2>1, PutCodeType DEF CodeBurn
<1>5. CASE CodeBurned(r) \/ CodeCounted(r)
  <2>1. StoresOK' /\ given' = given /\ "400" \in Answers /\ "401" \in Answers
    BY <1>2, <1>5, QuietStores DEF CodeBurned, CodeCounted, Reads, Answers
  <2> QED
    BY <1>2, <1>5, <2>1, ReplyType DEF CodeBurned, CodeCounted
<1>6. CASE CodeCount(r)
  <2> DEFINE rec == [mem[r].code EXCEPT !.attempts = @ + 1]
  <2>1. /\ mem[r].code \in CodeRec /\ mem[r].code.attempts + 1 < MaxCodeAttempts
        /\ mem[r].code.email \in Emails /\ MaxCodeAttempts \in Nat
    BY <1>2, <1>6, AuthAssumption DEF CodeCount, PutCode, Goto, StageOf, Stage
  <2>2. rec \in CodeRec /\ rec.email \in Emails
    BY <2>1, SMT DEF CodeRec
  <2>3. Stage(r, "code_counted", mem[r]) /\ "code_counted" \in Pcs
    BY <1>2 DEF Stage, Pcs, Answers, StartPcs, SweepPcs, ConsumePcs, ConsumedPcs,
            RefundPcs, CodePcs, TakePcs, PeoplePcs, SeatPcs, BouncePcs, RotatePcs, EndPcs, ListPcs, FillPcs,
            ErasePcs, DevicePcs
  <2> HIDE DEF Stage
  <2> QED
    BY <1>2, <1>6, <2>2, <2>3, PutCodeType DEF CodeCount
<1>7. CASE CodeSpend(r)
  <2>1. mem[r].code \in CodeRec /\ mem[r].code.email \in Emails
    BY <1>2, <1>7 DEF CodeSpend, PutCode, Goto, StageOf, Stage
  <2>2. Stage(r, "identity", mem[r]) /\ "identity" \in Pcs
    BY <1>2, <2>1 DEF Stage, Pcs, Answers, StartPcs, SweepPcs, ConsumePcs, ConsumedPcs,
            RefundPcs, CodePcs, TakePcs, PeoplePcs, SeatPcs, BouncePcs, RotatePcs, EndPcs, ListPcs, FillPcs,
            ErasePcs, DevicePcs
  <2> QED
    BY <1>2, <1>7, <2>2, PutCodeType DEF CodeSpend
<1> QED
  BY <1>3, <1>4, <1>5, <1>6, <1>7 DEF RedeemChallenge

LEMMA ParkingType ==
    ASSUME TypeInv, NEW r \in Requests, Parking(r)
    PROVE  TypeInv'
<1>1. pc[r] \in {"park", "parked"} \cup TakePcs \cup BouncePcs
  BY DEF Parking, Park, Parked, TakeGet, TakeDelete, Taken, HandoffPut, Bounce, PutCode, Replies, Goto, TakePcs, BouncePcs
<1>2. mem[r] \in Memory /\ StoresOK /\ StageOf(r) /\ WellFormed(call[r])
  BY TypeParts
<1>3. /\ "200" \in Answers /\ "302" \in Answers /\ Refused(r) \in Answers
      /\ (Reads => StoresOK' /\ given' = given)
  BY <1>2, QuietStores DEF Answers, Refused, Reads
<1>4. pc[r] \in TakePcs => call[r].code \in Codes /\ call[r].code \notin Challenges
  BY <1>2, AuthAssumption DEF StageOf, Stage, WellFormed, Codes
<1>5. [email |-> Absent, attempts |-> 0, gives |-> Absent] \in CodeRec
  BY AuthAssumption, SMT DEF CodeRec
<1>6. CASE Park(r)
  <2>1. call[r].parks \in Codes /\ call[r].parks \notin Challenges
    BY <1>2, <1>6, AuthAssumption DEF Park, PutCode, Goto, StageOf, Stage, WellFormed, Codes
  <2>2. Stage(r, "parked", mem[r]) /\ "parked" \in Pcs
    BY <1>2, <1>6 DEF Park, PutCode, Goto, StageOf, Stage, Pcs, Answers, StartPcs, SweepPcs, ConsumePcs, ConsumedPcs,
            RefundPcs, CodePcs, TakePcs, PeoplePcs, SeatPcs, BouncePcs, RotatePcs, EndPcs, ListPcs, FillPcs,
            ErasePcs, DevicePcs
  <2> QED
    BY <1>5, <1>6, <2>1, <2>2, PutCodeType DEF Park
<1>7. CASE Parked(r) \/ Bounce(r)
  BY <1>2, <1>3, <1>7, ReplyType DEF Parked, Bounce
<1>8. CASE TakeGet(r)
  <2> DEFINE rec == codes[call[r].code]
             m == [mem[r] EXCEPT !.code = rec]
  <2>1. rec \in CodeRec \cup {Absent} /\ call[r].op \in {"redirect", "collect"}
    BY <1>2, <1>4, <1>8 DEF TakeGet, TakePcs, StoresOK, StageOf, Stage
  <2>2. m \in Memory /\ m.code = rec
    BY <1>2, <2>1, MemoryCode, MemoryType DEF Fields
  <2> HIDE DEF m
  <2>3. CASE rec = Absent
    BY <1>2, <1>3, <1>8, <2>2, <2>3, ReplyType DEF TakeGet, m
  <2>4. CASE rec # Absent
    <3>1. pc' = [pc EXCEPT ![r] = "take_delete"] /\ mem' = [mem EXCEPT ![r] = m] /\ Reads
      BY <1>8, <2>4 DEF TakeGet, Goto, Holds, m
    <3>2. Stage(r, "take_delete", m) /\ "take_delete" \in Pcs
      BY <2>1, <2>2, <2>4 DEF Stage, Pcs, Answers, StartPcs, SweepPcs, ConsumePcs, ConsumedPcs,
            RefundPcs, CodePcs, TakePcs, PeoplePcs, SeatPcs, BouncePcs, RotatePcs, EndPcs, ListPcs, FillPcs,
            ErasePcs, DevicePcs
    <3> QED
      BY <1>3, <2>2, <3>1, <3>2, StepType
  <2> QED
    BY <2>3, <2>4
<1>9. CASE TakeDelete(r)
  <2>1. pc[r] = "take_delete"
    BY <1>9 DEF TakeDelete, PutCode, Goto
  <2>2. Stage(r, "taken", mem[r]) /\ "taken" \in Pcs
    BY <1>2, <2>1 DEF StageOf, Stage, Pcs, Answers, StartPcs, SweepPcs, ConsumePcs, ConsumedPcs,
            RefundPcs, CodePcs, TakePcs, PeoplePcs, SeatPcs, BouncePcs, RotatePcs, EndPcs, ListPcs, FillPcs,
            ErasePcs, DevicePcs
  <2> QED
    BY <1>4, <1>9, <2>1, <2>2, PutCodeType DEF TakeDelete, TakePcs
<1>10. CASE Taken(r)
  <2>1. StoresOK' /\ given' = given
    BY <1>3, <1>10 DEF Taken
  <2>2. pc[r] = "taken"
    BY <1>10 DEF Taken, Replies, Goto
  <2>3. CASE Replies(r, "taken", Refused(r), mem[r])
    BY <1>2, <1>3, <2>1, <2>3, ReplyType
  <2>4. CASE Is(r, {"redirect"}) /\ Goto(r, "taken", "identity") /\ UNCHANGED mem
    <3>1. Stage(r, "identity", mem[r]) /\ "identity" \in Pcs
      BY <2>4 DEF Is, Stage, Pcs, Answers, StartPcs, SweepPcs, ConsumePcs, ConsumedPcs,
            RefundPcs, CodePcs, TakePcs, PeoplePcs, SeatPcs, BouncePcs, RotatePcs, EndPcs, ListPcs, FillPcs,
            ErasePcs, DevicePcs
    <3> QED
      BY <2>1, <2>4, <3>1, KeepType DEF Goto
  <2>5. CASE Replies(r, "taken", "200", [mem[r] EXCEPT !.cred = mem[r].code.gives])
    <3>1. mem[r].code.gives \in Cred \cup {Absent}
      BY <1>2, <2>2 DEF StageOf, Stage, CodeRec
    <3>2. [mem[r] EXCEPT !.cred = mem[r].code.gives] \in Memory
      BY <1>2, <3>1, MemoryCred
    <3> QED
      BY <1>3, <2>1, <2>5, <3>2, ReplyType
  <2> QED
    BY <1>10, <2>3, <2>4, <2>5 DEF Taken
<1>11. CASE HandoffPut(r)
  <2>1. pc[r] = "handoff_put"
    BY <1>11 DEF HandoffPut, PutCode, Goto
  <2>2. /\ call[r].parks \in Codes /\ call[r].parks \notin Challenges /\ mem[r].cred \in Cred \cup {Absent}
        /\ call[r].op = "redirect"
    BY <1>2, <2>1, AuthAssumption, MemoryType DEF StageOf, Stage, BouncePcs, WellFormed, Codes
  <2>3. [email |-> Absent, attempts |-> 0, gives |-> mem[r].cred] \in CodeRec
    BY <2>2, AuthAssumption, SMT DEF CodeRec
  <2>4. Stage(r, "bounce", mem[r]) /\ "bounce" \in Pcs
    BY <2>2 DEF Stage, Pcs, Answers, StartPcs, SweepPcs, ConsumePcs, ConsumedPcs,
            RefundPcs, CodePcs, TakePcs, PeoplePcs, SeatPcs, BouncePcs, RotatePcs, EndPcs, ListPcs, FillPcs,
            ErasePcs, DevicePcs
  <2> QED
    BY <1>11, <2>2, <2>3, <2>4, PutCodeType DEF HandoffPut
<1> QED
  BY <1>6, <1>7, <1>8, <1>9, <1>10, <1>11 DEF Parking
-----------------------------------------------------------------------------
(* Users, and the sessions that are opened for them.                        *)
LEMMA ResolveType ==
    ASSUME TypeInv, NEW r \in Requests, ResolveIdentity(r)
    PROVE  TypeInv'
<1>1. pc[r] \in PeoplePcs
  BY DEF ResolveIdentity, IdentityGet, IdentityUser, EmailGet, EmailUser, Link, PutIdentity, NewUser, NewHome,
         NewIdentity, NewEmail, Replies, Goto, PeoplePcs
<1>2. mem[r] \in Memory /\ StoresOK /\ StageOf(r) /\ WellFormed(call[r]) /\ call[r] \in Call
  BY TypeParts
<1>3. /\ call[r].op \in {"callback", "redirect"} /\ call[r].newUser \in Users
      /\ call[r].op = "callback" => mem[r].code \in CodeRec /\ mem[r].code.email \in Emails
  BY <1>1, <1>2, CallType DEF StageOf, Stage, WellFormed
<1>4. IdentityOf(r) \in Identities
  BY <1>2, <1>3, AuthAssumption, CallType DEF IdentityOf, ByMail, Is, WellFormed
<1>5. EmailOf(r) \in Emails \cup {Absent}
  BY <1>2, <1>3, CallType DEF EmailOf, ByMail, Is
<1>6. pc[r] \in {"email", "email_user", "link", "new_email"} => EmailOf(r) \in Emails
  BY <1>2, <1>3 DEF EmailOf, ByMail, Is, StageOf, Stage
<1>7. VerifiedEmail(r) => EmailOf(r) \in Emails
  BY <1>5 DEF VerifiedEmail
<1>8. EmailOf(r) \in Emails => (call[r].op = "redirect" => call[r].email \in Emails)
  BY DEF EmailOf, ByMail, Is
<1>9. Reads => StoresOK' /\ given' = given
  BY <1>2, QuietStores DEF Reads
(* What the stages of a sign-in ask for.                                    *)
<1>10. ASSUME NEW p \in PeoplePcs \cup {"session_put"}, NEW m,
              m.code = mem[r].code, p \in {"email", "email_user", "link", "new_email"} => EmailOf(r) \in Emails,
              p \notin {"identity", "email", "new_user"} => m.user \in Users
       PROVE  Stage(r, p, m) /\ p \in Pcs
  BY <1>3, <1>8, <1>10 DEF Stage, Pcs, Answers, StartPcs, SweepPcs, ConsumePcs, ConsumedPcs,
            RefundPcs, CodePcs, TakePcs, PeoplePcs, SeatPcs, BouncePcs, RotatePcs, EndPcs, ListPcs, FillPcs,
            ErasePcs, DevicePcs
<1>11. CASE IdentityGet(r)
  <2> DEFINE known == identities[IdentityOf(r)]
             p == CASE known # Absent -> "identity_user"
                    [] known = Absent /\ VerifiedEmail(r) -> "email"
                    [] known = Absent /\ ~VerifiedEmail(r) -> "new_user"
             m == [mem[r] EXCEPT !.user = known]
  <2>1. known \in Users \cup {Absent}
    BY <1>2, <1>4 DEF StoresOK
  <2>2. pc' = [pc EXCEPT ![r] = p] /\ mem' = [mem EXCEPT ![r] = m] /\ Reads
    BY <1>11 DEF IdentityGet, Goto, Holds
  <2>3. m \in Memory /\ m.user = known /\ m.code = mem[r].code
    BY <1>2, <2>1, MemoryUser, MemoryType DEF Fields
  <2>4. /\ p \in {"identity_user", "email", "new_user"} /\ (p = "email" => VerifiedEmail(r))
        /\ (p = "identity_user" => known # Absent)
    OBVIOUS
  <2> HIDE DEF p, m, known
  <2>5. Stage(r, p, m) /\ p \in Pcs
    BY <1>7, <1>10, <2>1, <2>3, <2>4 DEF PeoplePcs
  <2> QED
    BY <1>9, <2>2, <2>3, <2>5, StepType
<1>12. CASE IdentityUser(r)
  <2>1. pc[r] = "identity_user" /\ Reads
    BY <1>12 DEF IdentityUser, Goto, Replies
  <2>2. mem[r].user \in Users
    BY <1>2, <2>1 DEF StageOf, Stage
  <2>3. CASE Goto(r, "identity_user", "session_put") /\ UNCHANGED mem
    BY <1>9, <1>10, <2>1, <2>2, <2>3, KeepType DEF Goto
  <2>4. CASE Replies(r, "identity_user", Fails(r), mem[r])
    <3>1. Fails(r) \in Answers
      BY DEF Fails, Answers
    <3> QED
      BY <1>2, <1>9, <2>1, <2>4, <3>1, ReplyType
  <2> QED
    BY <1>12, <2>3, <2>4 DEF IdentityUser
<1>13. CASE EmailGet(r)
  <2> DEFINE known == emailIndex[EmailOf(r)]
             p == IF known = Absent THEN "new_user" ELSE "email_user"
             m == [mem[r] EXCEPT !.user = known]
  <2>1. pc[r] = "email" /\ pc' = [pc EXCEPT ![r] = p] /\ mem' = [mem EXCEPT ![r] = m] /\ Reads
    BY <1>13 DEF EmailGet, Goto, Holds
  <2>2. EmailOf(r) \in Emails /\ known \in Users \cup {Absent}
    BY <1>2, <1>6, <2>1 DEF StoresOK
  <2>3. m \in Memory /\ m.user = known /\ m.code = mem[r].code
    BY <1>2, <2>2, MemoryUser, MemoryType DEF Fields
  <2>4. p \in {"email_user", "new_user"} /\ (p = "email_user" => known # Absent)
    OBVIOUS
  <2> HIDE DEF p, m, known
  <2>5. Stage(r, p, m) /\ p \in Pcs
    BY <1>10, <2>2, <2>3, <2>4 DEF PeoplePcs
  <2> QED
    BY <1>9, <2>1, <2>3, <2>5, StepType
<1>14. CASE EmailUser(r)
  <2>1. pc[r] = "email_user" /\ Reads /\ mem' = mem
    BY <1>14 DEF EmailUser, Goto
  <2>2. mem[r].user \in Users /\ EmailOf(r) \in Emails
    BY <1>2, <1>6, <2>1 DEF StageOf, Stage
  <2>3. PICK p \in {"link", "new_user"} : pc' = [pc EXCEPT ![r] = p]
    BY <1>14 DEF EmailUser, Goto
  <2>4. Stage(r, p, mem[r]) /\ p \in Pcs
    BY <1>10, <2>2 DEF PeoplePcs
  <2> QED
    BY <1>9, <2>1, <2>3, <2>4, KeepType
<1>15. CASE Link(r) \/ NewIdentity(r)
  <2>1. /\ pc[r] \in {"link", "new_identity"} /\ given' = given /\ mem' = mem
        /\ identities' = [identities EXCEPT ![IdentityOf(r)] = mem[r].user]
        /\ UNCHANGED <<codes, emailIndex, users, homes, seats, post, time, device>>
    BY <1>15 DEF Link, NewIdentity, PutIdentity, Goto
  <2>2. mem[r].user \in Users
    BY <1>2, <2>1 DEF StageOf, Stage
  <2>3. StoresOK'
    BY <1>2, <1>4, <2>1, <2>2 DEF StoresOK, seats, post, time, ChallengesMailed
  <2>4. PICK p \in {"session_put", "new_email"} :
           pc' = [pc EXCEPT ![r] = p] /\ (p = "new_email" => VerifiedEmail(r))
    BY <1>15 DEF Link, NewIdentity, PutIdentity, Goto
  <2>5. Stage(r, p, mem[r]) /\ p \in Pcs
    BY <1>7, <1>10, <2>2, <2>4 DEF PeoplePcs
  <2> QED
    BY <2>1, <2>3, <2>4, <2>5, KeepType
<1>16. CASE NewUser(r)
  <2> DEFINE m == [mem[r] EXCEPT !.user = call[r].newUser]
  <2>1. /\ pc' = [pc EXCEPT ![r] = "new_home"] /\ mem' = [mem EXCEPT ![r] = m] /\ given' = given
        /\ users' = users \cup {call[r].newUser}
        /\ UNCHANGED <<codes, identities, emailIndex, homes, seats, post, time, device>>
    BY <1>16 DEF NewUser, Goto, Holds
  <2>2. m \in Memory /\ m.user = call[r].newUser /\ m.code = mem[r].code
    BY <1>2, <1>3, MemoryUser, MemoryType DEF Fields
  <2>3. StoresOK'
    BY <1>2, <1>3, <2>1 DEF StoresOK, seats, post, time, ChallengesMailed
  <2>4. Stage(r, "new_home", m) /\ "new_home" \in Pcs
    BY <1>3, <1>10, <2>2 DEF PeoplePcs
  <2> QED
    BY <2>1, <2>2, <2>3, <2>4, StepType
<1>17. CASE NewHome(r)
  <2>1. /\ pc[r] = "new_home" /\ pc' = [pc EXCEPT ![r] = "new_identity"] /\ mem' = mem /\ given' = given
        /\ homes' = homes \cup {mem[r].user}
        /\ UNCHANGED <<codes, identities, emailIndex, users, seats, post, time, device>>
    BY <1>17 DEF NewHome, Goto
  <2>2. mem[r].user \in Users
    BY <1>2, <2>1 DEF StageOf, Stage
  <2>3. StoresOK'
    BY <1>2, <2>1, <2>2 DEF StoresOK, seats, post, time, ChallengesMailed
  <2>4. Stage(r, "new_identity", mem[r]) /\ "new_identity" \in Pcs
    BY <1>10, <2>2 DEF PeoplePcs
  <2> QED
    BY <2>1, <2>3, <2>4, KeepType
<1>18. CASE NewEmail(r)
  <2>1. /\ pc[r] = "new_email" /\ pc' = [pc EXCEPT ![r] = "session_put"] /\ mem' = mem /\ given' = given
        /\ emailIndex' \in {emailIndex, [emailIndex EXCEPT ![EmailOf(r)] = mem[r].user]}
        /\ UNCHANGED <<codes, identities, users, homes, seats, post, time, device>>
    BY <1>18 DEF NewEmail, Goto
  <2>2. mem[r].user \in Users /\ EmailOf(r) \in Emails
    BY <1>2, <1>6, <2>1 DEF StageOf, Stage
  <2>3. StoresOK'
    BY <1>2, <2>1, <2>2 DEF StoresOK, seats, post, time, ChallengesMailed
  <2>4. Stage(r, "session_put", mem[r]) /\ "session_put" \in Pcs
    BY <1>10, <2>2
  <2> QED
    BY <2>1, <2>3, <2>4, KeepType
<1> QED
  BY <1>11, <1>12, <1>13, <1>14, <1>15, <1>16, <1>17, <1>18 DEF ResolveIdentity

LEMMA SessionStores ==
    ASSUME TypeInv, NEW s \in SessionIds, NEW rec \in SessionRec \cup {Absent}, WriteSession(s, rec)
    PROVE  StoresOK' /\ given' = given
BY DEF TypeInv, StoresOK, WriteSession, people, post, time, ChallengesMailed

LEMMA IndexStores ==
    ASSUME TypeInv, NEW u \in Users, NEW s \in SessionIds, SetIndex(u, s) \/ DropIndex(u, s)
    PROVE  StoresOK' /\ given' = given
BY DEF TypeInv, StoresOK, SetIndex, DropIndex, sessionIndexKey, people, post, time, ChallengesMailed

LEMMA IssueType ==
    ASSUME TypeInv, NEW r \in Requests, IssueTokens(r)
    PROVE  TypeInv'
<1>1. pc[r] \in SeatPcs
  BY DEF IssueTokens, SessionPut, SessionIndexed, Replies, Goto, SeatPcs
<1>2. /\ mem[r] \in Memory /\ StoresOK /\ call[r].session \in SessionIds /\ mem[r].user \in Users
      /\ call[r].op \in {"callback", "redirect"}
  BY <1>1, TypeParts, CallType DEF StageOf, Stage, WellFormed
<1>3. CASE SessionPut(r)
  <2> DEFINE cred == [session |-> call[r].session, secret |-> r]
             m == [mem[r] EXCEPT !.cred = cred]
  <2>1. pc' = [pc EXCEPT ![r] = "session_index"] /\ mem' = [mem EXCEPT ![r] = m]
    BY <1>3 DEF SessionPut, Goto, Holds
  <2>2. cred \in Cred
    BY <1>2 DEF Cred, Secrets
  <2>3. m \in Memory /\ m.user = mem[r].user
    BY <1>2, <2>2, MemoryCred, MemoryType DEF Fields
  <2>4. [user |-> mem[r].user, secret |-> r, ended |-> FALSE] \in SessionRec
    BY <1>2 DEF SessionRec, Secrets
  <2>5. StoresOK' /\ given' = given
    BY <1>2, <1>3, <2>4, SessionStores DEF SessionPut
  <2>6. Stage(r, "session_index", m) /\ "session_index" \in Pcs
    BY <1>2, <2>3 DEF Stage, Pcs, Answers, StartPcs, SweepPcs, ConsumePcs, ConsumedPcs,
            RefundPcs, CodePcs, TakePcs, PeoplePcs, SeatPcs, BouncePcs, RotatePcs, EndPcs, ListPcs, FillPcs,
            ErasePcs, DevicePcs
  <2> QED
    BY <2>1, <2>3, <2>5, <2>6, StepType
<1>4. CASE SessionIndexed(r)
  <2>1. StoresOK' /\ given' = given
    BY <1>2, <1>4, IndexStores DEF SessionIndexed
  <2>2. CASE Is(r, {"redirect"})
    <3>1. pc' = [pc EXCEPT ![r] = "handoff_put"] /\ mem' = mem
      BY <1>4, <2>2 DEF SessionIndexed, Goto
    <3>2. Stage(r, "handoff_put", mem[r]) /\ "handoff_put" \in Pcs
      BY <2>2 DEF Is, Stage, Pcs, Answers, StartPcs, SweepPcs, ConsumePcs, ConsumedPcs,
            RefundPcs, CodePcs, TakePcs, PeoplePcs, SeatPcs, BouncePcs, RotatePcs, EndPcs, ListPcs, FillPcs,
            ErasePcs, DevicePcs
    <3> QED
      BY <2>1, <3>1, <3>2, KeepType
  <2>3. CASE ~Is(r, {"redirect"})
    <3>1. Replies(r, "session_index", "200", mem[r]) /\ "200" \in Answers
      BY <1>4, <2>3 DEF SessionIndexed, Answers
    <3> QED
      BY <1>2, <2>1, <3>1, ReplyType
  <2> QED
    BY <2>2, <2>3
<1> QED
  BY <1>3, <1>4 DEF IssueTokens
-----------------------------------------------------------------------------
(* Refreshing and ending a session.                                         *)
LEMMA RotateType ==
    ASSUME TypeInv, NEW r \in Requests, RotateSession(r)
    PROVE  TypeInv'
<1> DEFINE s == Presented(r).session
<1>1. pc[r] \in RotatePcs
  BY DEF RotateSession, RotateGet, Expire, ExpireIndex, Tombstone, Rotate, RotatedUser, Replies, Goto, RotatePcs, Answers
<1>2. mem[r] \in Memory /\ StoresOK /\ StageOf(r)
  BY TypeParts
<1>3. mem[r].cred \in Cred /\ s \in SessionIds /\ call[r].op \in {"use", "refresh"}
  BY <1>1, <1>2 DEF StageOf, Stage, Presented, Cred
<1>4. pc[r] # "rotate_get" => mem[r].rec \in SessionRec /\ mem[r].rec.user \in Users
  BY <1>1, <1>2 DEF StageOf, Stage, SessionRec
<1>5. Reads => StoresOK' /\ given' = given
  BY <1>2, QuietStores DEF Reads
<1>6. {"200", "401", "500"} \subseteq Answers
  BY DEF Answers
<1>7. ASSUME NEW p \in RotatePcs, NEW m, m.cred = mem[r].cred, p # "rotate_get" => m.rec \in SessionRec
      PROVE  Stage(r, p, m) /\ p \in Pcs
  BY <1>3, <1>7 DEF Stage, Pcs, Answers, StartPcs, SweepPcs, ConsumePcs, ConsumedPcs,
            RefundPcs, CodePcs, TakePcs, PeoplePcs, SeatPcs, BouncePcs, RotatePcs, EndPcs, ListPcs, FillPcs,
            ErasePcs, DevicePcs
<1>8. CASE RotateGet(r)
  <2> DEFINE rec == sessions[s]
             verdict == RotateVerdict(r, rec)
             replays == Replays(r, rec)
             m == [mem[r] EXCEPT !.rec = rec, !.presented = s, !.replayed = replays]
  <2>1. /\ Reads
        /\ \/ verdict \in Answers /\ Replies(r, "rotate_get", verdict, m)
           \/ verdict \notin Answers /\ Goto(r, "rotate_get", verdict) /\ Holds(r, m)
    BY <1>8 DEF RotateGet
  <2>2. rec \in SessionRec \cup {Absent} /\ replays \in BOOLEAN
    BY <1>2, <1>3 DEF StoresOK, Replays
  <2>3. verdict \in {"401", "expire", "rotate", "tombstone"} /\ (verdict # "401" => rec # Absent)
    <3>1. rec = Absent => verdict = "401"
      BY DEF RotateVerdict
    <3>2. ASSUME rec # Absent PROVE verdict \in {"401", "expire", "rotate", "tombstone"}
      <4>1. rec.ended \in BOOLEAN
        BY <2>2, <3>2 DEF SessionRec
      <4> QED
        BY <3>2, <4>1 DEF RotateVerdict
    <3> QED
      BY <3>1, <3>2
  <2> HIDE DEF rec, verdict, replays
  <2>4. m \in Memory
    BY <1>2, <1>3, <2>2, MemoryPresented
  <2>5. m.cred = mem[r].cred /\ m.rec = rec
    BY <1>2, MemoryType DEF Fields
  <2> HIDE DEF m
  <2>6. CASE verdict = "401"
    BY <1>5, <1>6, <2>1, <2>4, <2>6, ReplyType
  <2>7. CASE verdict # "401"
    <3>1. verdict \in RotatePcs /\ verdict # "rotate_get" /\ verdict \notin Answers
      BY <2>3, <2>7 DEF RotatePcs, Answers
    <3>2. Stage(r, verdict, m) /\ verdict \in Pcs
      BY <1>7, <2>2, <2>3, <2>5, <2>7, <3>1
    <3>3. pc' = [pc EXCEPT ![r] = verdict] /\ mem' = [mem EXCEPT ![r] = m]
      BY <2>1, <3>1 DEF Goto, Holds
    <3> QED
      BY <1>5, <2>1, <2>4, <3>2, <3>3, StepType
  <2> QED
    BY <2>6, <2>7
<1>9. CASE Expire(r)
  <2>1. pc[r] = "expire" /\ pc' = [pc EXCEPT ![r] = "expire_index"] /\ mem' = mem
    BY <1>9 DEF Expire, Goto
  <2>2. StoresOK' /\ given' = given
    BY <1>3, <1>9, SessionStores DEF Expire
  <2>3. Stage(r, "expire_index", mem[r]) /\ "expire_index" \in Pcs
    BY <1>4, <1>7, <2>1 DEF RotatePcs
  <2> QED
    BY <2>1, <2>2, <2>3, KeepType
<1>10. CASE ExpireIndex(r)
  <2>1. mem[r].rec.user \in Users
    BY <1>4, <1>10 DEF ExpireIndex, Replies, Goto
  <2>2. StoresOK' /\ given' = given
    BY <1>3, <1>10, <2>1, IndexStores DEF ExpireIndex
  <2> QED
    BY <1>2, <1>6, <1>10, <2>2, ReplyType DEF ExpireIndex
<1>11. CASE Tombstone(r)
  <2>1. mem[r].rec \in SessionRec
    BY <1>4, <1>11 DEF Tombstone, Replies, Goto
  <2>2. [mem[r].rec EXCEPT !.secret = Absent, !.ended = TRUE] \in SessionRec
    BY <2>1 DEF SessionRec
  <2>3. StoresOK' /\ given' = given
    BY <1>3, <1>11, <2>2, SessionStores DEF Tombstone
  <2> QED
    BY <1>2, <1>6, <1>11, <2>3, ReplyType DEF Tombstone
<1>12. CASE Rotate(r)
  <2>1. pc[r] = "rotate" /\ pc' = [pc EXCEPT ![r] = "rotated_user"] /\ mem' = mem
    BY <1>12 DEF Rotate, Goto
  <2>2. [mem[r].rec EXCEPT !.secret = r] \in SessionRec
    BY <1>4, <2>1 DEF SessionRec, Secrets
  <2>3. StoresOK' /\ given' = given
    BY <1>3, <1>12, <2>2, SessionStores DEF Rotate
  <2>4. Stage(r, "rotated_user", mem[r]) /\ "rotated_user" \in Pcs
    BY <1>4, <1>7, <2>1 DEF RotatePcs
  <2> QED
    BY <2>1, <2>3, <2>4, KeepType
<1>13. CASE RotatedUser(r)
  <2>1. PICK answer \in {"200", "401", "500"} :
           Replies(r, "rotated_user", answer, [mem[r] EXCEPT !.cred.secret = r, !.lost = answer = "500"])
    BY <1>13 DEF RotatedUser
  <2> DEFINE lost == answer = "500"
             cred == [mem[r].cred EXCEPT !.secret = r]
  <2>2. cred \in Cred /\ lost \in BOOLEAN
    BY <1>3 DEF Cred, Secrets
  <2>3. Replies(r, "rotated_user", answer, [mem[r] EXCEPT !.cred = cred, !.lost = lost])
    BY <2>1
  <2> HIDE DEF lost, cred
  <2>4. [mem[r] EXCEPT !.cred = cred, !.lost = lost] \in Memory
    BY <1>2, <2>2, MemoryRotated
  <2>5. StoresOK' /\ given' = given /\ answer \in Answers
    BY <1>5, <1>6, <1>13 DEF RotatedUser
  <2> QED
    BY <2>3, <2>4, <2>5, ReplyType
<1> QED
  BY <1>8, <1>9, <1>10, <1>11, <1>12, <1>13 DEF RotateSession

LEMMA EndType ==
    ASSUME TypeInv, NEW r \in Requests, EndSessionOwnedBy(r)
    PROVE  TypeInv'
<1> DEFINE s == mem[r].cred.session
<1>1. pc[r] \in EndPcs
  BY DEF EndSessionOwnedBy, EndGet, EndSession, EndIndex, Replies, Goto, EndPcs
<1>2. mem[r] \in Memory /\ StoresOK /\ StageOf(r)
  BY TypeParts
<1>3. mem[r].cred \in Cred /\ s \in SessionIds /\ call[r].op \in {"use", "signout", "revoke"}
  BY <1>1, <1>2 DEF StageOf, Stage, Cred
<1>4. pc[r] # "end_get" => mem[r].rec \in SessionRec /\ mem[r].rec.user \in Users
  BY <1>1, <1>2 DEF StageOf, Stage, SessionRec, EndPcs
<1>5. "204" \in Answers
  BY DEF Answers
<1>6. ASSUME NEW p \in {"end_session", "end_index"}, NEW m, m.cred = mem[r].cred, m.rec \in SessionRec
      PROVE  Stage(r, p, m) /\ p \in Pcs
  BY <1>3, <1>6 DEF Stage, Pcs, Answers, StartPcs, SweepPcs, ConsumePcs, ConsumedPcs,
            RefundPcs, CodePcs, TakePcs, PeoplePcs, SeatPcs, BouncePcs, RotatePcs, EndPcs, ListPcs, FillPcs,
            ErasePcs, DevicePcs
<1>7. CASE EndGet(r)
  <2> DEFINE rec == sessions[s]
  <2>1. PICK authenticated \in BOOLEAN :
           LET ends == rec # Absent /\ Entitled(r, rec, authenticated)
               m == [mem[r] EXCEPT !.rec = rec, !.ended = ends]
           IN  \/ ends /\ Goto(r, "end_get", "end_session") /\ Holds(r, m)
               \/ ~ends /\ Replies(r, "end_get", "204", m)
    BY <1>7 DEF EndGet
  <2> DEFINE ends == rec # Absent /\ Entitled(r, rec, authenticated)
             m == [mem[r] EXCEPT !.rec = rec, !.ended = ends]
  <2>2. rec \in SessionRec \cup {Absent} /\ ends \in BOOLEAN /\ (ends => rec # Absent)
    BY <1>2, <1>3 DEF StoresOK
  <2>3. \/ ends /\ Goto(r, "end_get", "end_session") /\ Holds(r, m)
        \/ ~ends /\ Replies(r, "end_get", "204", m)
    BY <2>1
  <2> HIDE DEF rec, ends
  <2>4. m \in Memory
    BY <1>2, <2>2, MemoryEnded
  <2>5. m.cred = mem[r].cred /\ m.rec = rec
    BY <1>2, MemoryType DEF Fields
  <2>6. StoresOK' /\ given' = given
    BY <1>2, <1>7, QuietStores DEF EndGet, Reads
  <2> HIDE DEF m
  <2>7. CASE ends /\ Goto(r, "end_get", "end_session") /\ Holds(r, m)
    <3>1. Stage(r, "end_session", m) /\ "end_session" \in Pcs
      BY <1>6, <2>2, <2>5, <2>7
    <3> QED
      BY <2>4, <2>6, <2>7, <3>1, StepType DEF Goto, Holds
  <2>8. CASE Replies(r, "end_get", "204", m)
    BY <1>5, <2>4, <2>6, <2>8, ReplyType
  <2> QED
    BY <2>3, <2>7, <2>8
<1>8. CASE EndSession(r)
  <2>1. pc[r] = "end_session" /\ pc' = [pc EXCEPT ![r] = "end_index"] /\ mem' = mem
    BY <1>8 DEF EndSession, Goto
  <2>2. StoresOK' /\ given' = given
    BY <1>3, <1>8, SessionStores DEF EndSession
  <2>3. Stage(r, "end_index", mem[r]) /\ "end_index" \in Pcs
    BY <1>4, <1>6, <2>1
  <2> QED
    BY <2>1, <2>2, <2>3, KeepType
<1>9. CASE EndIndex(r)
  <2>1. mem[r].rec.user \in Users
    BY <1>4, <1>9 DEF EndIndex, Replies, Goto
  <2>2. StoresOK' /\ given' = given
    BY <1>3, <1>9, <2>1, IndexStores DEF EndIndex
  <2> QED
    BY <1>2, <1>5, <1>9, <2>2, ReplyType DEF EndIndex
<1> QED
  BY <1>7, <1>8, <1>9 DEF EndSessionOwnedBy

-----------------------------------------------------------------------------
(* The list of devices and the backfill of its index.                       *)
LEMMA ListType ==
    ASSUME TypeInv, NEW r \in Requests, SessionsOf(r)
    PROVE  TypeInv'
<1> DEFINE u == call[r].user
<1>1. pc[r] \in ListPcs
  BY DEF SessionsOf, ListIndex, ReadIndexed, RepairIndex, ScanList, ReadScanned, HealIndex, ShowDevices,
         Replies, Goto, ListPcs
<1>2. mem[r] \in Memory /\ StoresOK /\ StageOf(r)
  BY TypeParts
<1>3. call[r].op = "devices" /\ u \in Users
  BY <1>1, <1>2, TypeParts, CallType DEF StageOf, Stage, WellFormed
<1>4. Reads => StoresOK' /\ given' = given
  BY <1>2, QuietStores DEF Reads
<1>5. ASSUME NEW p \in ListPcs \ {"index_list"}, NEW m, m.todo \subseteq SessionIds \/ p = "scan_list",
             p \in {"index_repair", "scan_heal"} => m.at \in SessionIds
      PROVE  Stage(r, p, m) /\ p \in Pcs
  BY <1>3, <1>5 DEF Stage, Pcs, Answers, StartPcs, SweepPcs, ConsumePcs, ConsumedPcs,
            RefundPcs, CodePcs, TakePcs, PeoplePcs, SeatPcs, BouncePcs, RotatePcs, EndPcs, ListPcs, FillPcs,
            ErasePcs, DevicePcs
<1>6. CASE ListIndex(r)
  <2> DEFINE T == {s \in SessionIds : sessionIndexKey(call[r].user, s) \in sessionIndex}
             p == IF T = {} THEN "scan_list" ELSE "index_get"
             m == [mem[r] EXCEPT !.todo = T]
  <2>1. pc' = [pc EXCEPT ![r] = p] /\ mem' = [mem EXCEPT ![r] = m] /\ Reads
    BY <1>6 DEF ListIndex, Goto, Holds
  <2>2. T \subseteq SessionIds /\ T \in Listing /\ p \in {"scan_list", "index_get"}
    BY DEF Listing
  <2> HIDE DEF T, p
  <2>3. m \in Memory /\ m.todo = T
    BY <1>2, <2>2, MemoryTodo, MemoryType DEF Fields
  <2>4. Stage(r, p, m) /\ p \in Pcs
    BY <1>5, <2>2, <2>3 DEF ListPcs
  <2> QED
    BY <1>4, <2>1, <2>3, <2>4, StepType
<1>7. ASSUME NEW s \in mem[r].todo, NEW p \in {"index_get", "index_repair", "scan_get", "scan_heal"},
             pc[r] \in {"index_get", "scan_get"}, Shows(r, s, p)
      PROVE  TypeInv'
  <2> DEFINE shown == IF Presentable(sessions[s], call[r].user, s) THEN {s} ELSE {}
             T == mem[r].todo \ {s}
             S == mem[r].shown \cup shown
             m == [mem[r] EXCEPT !.todo = T, !.at = s, !.shown = S]
  <2>1. pc' = [pc EXCEPT ![r] = p] /\ mem' = [mem EXCEPT ![r] = m] /\ Reads
    BY <1>7 DEF Shows, Goto, Holds
  <2>2. mem[r].todo \subseteq SessionIds
    BY <1>2, <1>7 DEF StageOf, Stage
  <2>3. s \in SessionIds /\ T \subseteq SessionIds /\ T \in Listing /\ S \in SUBSET SessionIds
    BY <1>2, <2>2, MemoryType DEF Listing
  <2> HIDE DEF T, S
  <2>4. m \in Memory
    BY <1>2, <2>3, MemoryTodoAtShown
  <2>6. m.todo = T /\ m.at = s
    BY <1>2, MemoryType DEF Fields
  <2> HIDE DEF m
  <2>5. Stage(r, p, m) /\ p \in Pcs
    BY <1>5, <2>3, <2>6 DEF ListPcs
  <2> QED
    BY <1>4, <2>1, <2>4, <2>5, StepType
<1>8. CASE ReadIndexed(r) \/ ReadScanned(r)
  BY <1>7, <1>8 DEF ReadIndexed, ReadScanned
<1>9. CASE RepairIndex(r) \/ HealIndex(r)
  <2>1. PICK p \in {"index_get", "scan_get"} : pc' = [pc EXCEPT ![r] = p]
    BY <1>9 DEF RepairIndex, HealIndex, Goto
  <2>2. pc[r] \in {"index_repair", "scan_heal"} /\ mem' = mem
    BY <1>9 DEF RepairIndex, HealIndex, Goto
  <2>3. mem[r].todo \subseteq SessionIds /\ mem[r].at \in SessionIds
    BY <1>2, <2>2 DEF StageOf, Stage
  <2>4. StoresOK' /\ given' = given
    BY <1>3, <1>9, <2>3, IndexStores DEF RepairIndex, HealIndex
  <2>5. Stage(r, p, mem[r]) /\ p \in Pcs
    BY <1>5, <2>3 DEF ListPcs
  <2> QED
    BY <2>1, <2>2, <2>4, <2>5, KeepType
<1>10. CASE ScanList(r)
  <2> DEFINE T == {s \in SessionIds : sessions[s] # Absent}
             m == [mem[r] EXCEPT !.todo = T]
  <2>1. pc' = [pc EXCEPT ![r] = "scan_get"] /\ mem' = [mem EXCEPT ![r] = m] /\ Reads
    BY <1>10 DEF ScanList, Goto, Holds
  <2>2. T \subseteq SessionIds /\ T \in Listing
    BY DEF Listing
  <2> HIDE DEF T
  <2>3. m \in Memory /\ m.todo = T
    BY <1>2, <2>2, MemoryTodo, MemoryType DEF Fields
  <2>4. Stage(r, "scan_get", m) /\ "scan_get" \in Pcs
    BY <1>5, <2>2, <2>3 DEF ListPcs
  <2> QED
    BY <1>4, <2>1, <2>3, <2>4, StepType
<1>11. CASE ShowDevices(r)
  <2>1. Replies(r, pc[r], "200", mem[r]) /\ Reads /\ "200" \in Answers
    BY <1>11 DEF ShowDevices, Answers
  <2> QED
    BY <1>2, <1>4, <2>1, ReplyType
<1> QED
  BY <1>6, <1>8, <1>9, <1>10, <1>11 DEF SessionsOf

LEMMA FillType ==
    ASSUME TypeInv, NEW r \in Requests, BackfillSessions(r)
    PROVE  TypeInv'
<1>1. pc[r] \in FillPcs
  BY DEF BackfillSessions, FillList, FillRead, FillPut, FillEnd, Replies, Goto, FillPcs
<1>2. mem[r] \in Memory /\ StoresOK /\ StageOf(r)
  BY TypeParts
<1>3. call[r].op = "backfill" /\ (pc[r] # "fill_list" => mem[r].todo \subseteq SessionIds)
  BY <1>1, <1>2 DEF StageOf, Stage, FillPcs
<1>4. Reads => StoresOK' /\ given' = given
  BY <1>2, QuietStores DEF Reads
<1>5. ASSUME NEW p \in {"fill", "fill_put"}, NEW m, m.todo \subseteq SessionIds,
             p = "fill_put" => m.at \in SessionIds /\ m.rec \in SessionRec
      PROVE  Stage(r, p, m) /\ p \in Pcs
  BY <1>3, <1>5 DEF Stage, Pcs, Answers, StartPcs, SweepPcs, ConsumePcs, ConsumedPcs,
            RefundPcs, CodePcs, TakePcs, PeoplePcs, SeatPcs, BouncePcs, RotatePcs, EndPcs, ListPcs, FillPcs,
            ErasePcs, DevicePcs
<1>6. CASE FillList(r)
  <2> DEFINE T == {s \in SessionIds : sessions[s] # Absent}
             m == [mem[r] EXCEPT !.todo = T]
  <2>1. pc' = [pc EXCEPT ![r] = "fill"] /\ mem' = [mem EXCEPT ![r] = m] /\ Reads
    BY <1>6 DEF FillList, Goto, Holds
  <2>2. T \subseteq SessionIds /\ T \in Listing
    BY DEF Listing
  <2> HIDE DEF T
  <2>3. m \in Memory /\ m.todo = T
    BY <1>2, <2>2, MemoryTodo, MemoryType DEF Fields
  <2>4. Stage(r, "fill", m) /\ "fill" \in Pcs
    BY <1>5, <2>2, <2>3
  <2> QED
    BY <1>4, <2>1, <2>3, <2>4, StepType
<1>7. CASE FillRead(r)
  <2>1. PICK s \in mem[r].todo :
           /\ Goto(r, "fill", IF sessions[s] = Absent THEN "fill" ELSE "fill_put")
           /\ Holds(r, [mem[r] EXCEPT !.todo = @ \ {s}, !.at = s, !.rec = sessions[s]])
           /\ Reads
    BY <1>7 DEF FillRead
  <2> DEFINE p == IF sessions[s] = Absent THEN "fill" ELSE "fill_put"
             T == mem[r].todo \ {s}
             m == [mem[r] EXCEPT !.todo = T, !.at = s, !.rec = sessions[s]]
  <2>2. pc[r] = "fill" /\ pc' = [pc EXCEPT ![r] = p] /\ mem' = [mem EXCEPT ![r] = m]
    BY <2>1 DEF Goto, Holds
  <2>3. s \in SessionIds /\ T \subseteq SessionIds /\ T \in Listing /\ p \in {"fill", "fill_put"}
    BY <1>3, <2>2 DEF Listing
  <2>4. sessions[s] \in SessionRec \cup {Absent} /\ (p = "fill_put" => sessions[s] # Absent)
    BY <1>2, <2>3 DEF StoresOK
  <2> HIDE DEF T, p
  <2>5. m \in Memory
    BY <1>2, <2>3, <2>4, MemoryTodoAtRec
  <2>7. m.todo = T /\ m.at = s /\ m.rec = sessions[s]
    BY <1>2, MemoryType DEF Fields
  <2> HIDE DEF m
  <2>6. Stage(r, p, m) /\ p \in Pcs
    BY <1>5, <2>3, <2>4, <2>7
  <2> QED
    BY <1>4, <2>1, <2>2, <2>5, <2>6, StepType
<1>8. CASE FillPut(r)
  <2>1. pc[r] = "fill_put" /\ pc' = [pc EXCEPT ![r] = "fill"] /\ mem' = mem
    BY <1>8 DEF FillPut, Goto
  <2>2. mem[r].at \in SessionIds /\ mem[r].rec.user \in Users
    BY <1>2, <2>1 DEF StageOf, Stage, SessionRec
  <2>3. StoresOK' /\ given' = given
    BY <1>8, <2>2, IndexStores DEF FillPut
  <2>4. Stage(r, "fill", mem[r]) /\ "fill" \in Pcs
    BY <1>3, <1>5, <2>1
  <2> QED
    BY <2>1, <2>3, <2>4, KeepType
<1>9. CASE FillEnd(r)
  <2>1. Replies(r, "fill", "200", mem[r]) /\ Reads /\ "200" \in Answers
    BY <1>9 DEF FillEnd, Answers
  <2> QED
    BY <1>2, <1>4, <2>1, ReplyType
<1> QED
  BY <1>6, <1>7, <1>8, <1>9 DEF BackfillSessions
(* The credentials a deleted user leaves.                                   *)
LEMMA EraseType ==
    ASSUME TypeInv, NEW r \in Requests, DeleteUserRecords(r)
    PROVE  TypeInv'
<1> DEFINE u == call[r].user
<1>1. pc[r] \in ErasePcs
  BY DEF DeleteUserRecords, EraseHome, EraseList, EraseIndex, EraseIdentity, EraseEmail, EraseSession,
         EraseUser, Erases, Replies, Goto, ErasePcs
<1>2. mem[r] \in Memory /\ StoresOK /\ StageOf(r)
  BY TypeParts
<1>3. call[r].op = "erase" /\ u \in Users
  BY <1>1, <1>2, TypeParts, CallType DEF StageOf, Stage, WellFormed
<1>4. Reads => StoresOK' /\ given' = given
  BY <1>2, QuietStores DEF Reads
<1>5. ASSUME NEW p \in ErasePcs, NEW m,
             p \in {"erase_index", "erase_session"} => m.todo \subseteq SessionIds,
             p = "erase_identity" => m.todo \subseteq Identities,
             p = "erase_email" => m.todo \subseteq Emails
      PROVE  Stage(r, p, m) /\ p \in Pcs
  BY <1>3, <1>5 DEF Stage, Pcs, Answers, StartPcs, SweepPcs, ConsumePcs, ConsumedPcs,
            RefundPcs, CodePcs, TakePcs, PeoplePcs, SeatPcs, BouncePcs, RotatePcs, EndPcs, ListPcs, FillPcs,
            ErasePcs, DevicePcs
<1>6. CASE EraseHome(r)
  <2>1. pc' = [pc EXCEPT ![r] = "erase_start"] /\ mem' = mem /\ given' = given
    BY <1>6 DEF EraseHome, Goto
  <2>2. StoresOK'
    BY <1>2, <1>6 DEF EraseHome, StoresOK, seats, post, time, ChallengesMailed
  <2>3. Stage(r, "erase_start", mem[r]) /\ "erase_start" \in Pcs
    BY <1>5 DEF ErasePcs
  <2> QED
    BY <2>1, <2>2, <2>3, KeepType
<1>7. ASSUME NEW from, NEW p \in {"erase_index", "erase_identity", "erase_email", "erase_session"}, NEW T,
             EraseList(r, from, p, T),
             p \in {"erase_index", "erase_session"} => T \subseteq SessionIds,
             p = "erase_identity" => T \subseteq Identities,
             p = "erase_email" => T \subseteq Emails
      PROVE  TypeInv'
  <2> DEFINE m == [mem[r] EXCEPT !.todo = T]
  <2>1. pc' = [pc EXCEPT ![r] = p] /\ mem' = [mem EXCEPT ![r] = m] /\ Reads
    BY <1>7 DEF EraseList, Goto, Holds
  <2>2. T \in Listing
    BY <1>7 DEF Listing
  <2>3. m \in Memory
    BY <1>2, <2>2, MemoryTodo
  <2>4. m.todo = T
    BY <1>2, MemoryType DEF Fields
  <2> HIDE DEF m
  <2>5. Stage(r, p, m) /\ p \in Pcs
    BY <1>5, <1>7, <2>4 DEF ErasePcs
  <2> QED
    BY <1>4, <2>1, <2>3, <2>5, StepType
<1>8. ASSUME NEW p \in {"erase_index", "erase_identity", "erase_email", "erase_session"}, NEW k,
             Erases(r, p, k), StoresOK', given' = given
      PROVE  TypeInv'
  <2> DEFINE T == mem[r].todo \ {k}
             m == [mem[r] EXCEPT !.todo = T]
  <2>1. pc[r] = p /\ pc' = [pc EXCEPT ![r] = p] /\ mem' = [mem EXCEPT ![r] = m]
    BY <1>8 DEF Erases, Goto, Holds
  <2>2. T \in Listing /\ T \subseteq mem[r].todo
    BY <1>2, MemoryType DEF Listing
  <2> HIDE DEF T
  <2>3. m \in Memory
    BY <1>2, <2>2, MemoryTodo
  <2>4. m.todo = T
    BY <1>2, MemoryType DEF Fields
  <2> HIDE DEF m
  <2>5. /\ p \in {"erase_index", "erase_session"} => T \subseteq SessionIds
        /\ p = "erase_identity" => T \subseteq Identities
        /\ p = "erase_email" => T \subseteq Emails
    BY <1>2, <2>1, <2>2 DEF StageOf, Stage
  <2>6. Stage(r, p, m) /\ p \in Pcs
    BY <1>5, <2>4, <2>5 DEF ErasePcs
  <2> QED
    BY <1>8, <2>1, <2>3, <2>6, StepType
<1>9. CASE EraseIndex(r)
  <2>1. PICK s \in mem[r].todo : Erases(r, "erase_index", s) /\ DropIndex(call[r].user, s)
    BY <1>9 DEF EraseIndex
  <2>2. s \in SessionIds
    BY <1>2, <2>1 DEF StageOf, Stage, Erases, Goto
  <2>3. StoresOK' /\ given' = given
    BY <1>3, <2>1, <2>2, IndexStores
  <2> QED
    BY <1>8, <2>1, <2>3
<1>10. CASE EraseIdentity(r)
  <2>1. PICK i \in mem[r].todo : Erases(r, "erase_identity", i)
    BY <1>10 DEF EraseIdentity
  <2>2. StoresOK' /\ given' = given
    BY <1>2, <1>10 DEF EraseIdentity, StoresOK, seats, post, time, ChallengesMailed
  <2> QED
    BY <1>8, <2>1, <2>2
<1>11. CASE EraseEmail(r)
  <2>1. PICK e \in mem[r].todo : Erases(r, "erase_email", e)
    BY <1>11 DEF EraseEmail
  <2>2. StoresOK' /\ given' = given
    BY <1>2, <1>11 DEF EraseEmail, StoresOK, seats, post, time, ChallengesMailed
  <2> QED
    BY <1>8, <2>1, <2>2
<1>12. CASE EraseSession(r)
  <2>1. PICK s \in mem[r].todo :
           LET mine == sessions[s] # Absent /\ sessions[s].user = call[r].user
           IN  Erases(r, "erase_session", s) /\ WriteSession(s, IF mine THEN Absent ELSE sessions[s])
    BY <1>12 DEF EraseSession
  <2> DEFINE rec == IF sessions[s] # Absent /\ sessions[s].user = call[r].user THEN Absent ELSE sessions[s]
  <2>2. Erases(r, "erase_session", s) /\ WriteSession(s, rec)
    BY <2>1
  <2>3. s \in SessionIds
    BY <1>2, <2>2 DEF StageOf, Stage, Erases, Goto
  <2>4. rec \in SessionRec \cup {Absent}
    BY <1>2, <2>3 DEF StoresOK
  <2> HIDE DEF rec
  <2>5. StoresOK' /\ given' = given
    BY <2>2, <2>3, <2>4, SessionStores
  <2> QED
    BY <1>8, <2>2, <2>5
<1>13. CASE EraseUser(r)
  <2>1. Replies(r, "erase_session", "200", mem[r]) /\ given' = given /\ "200" \in Answers
    BY <1>13 DEF EraseUser, Answers
  <2>2. StoresOK'
    BY <1>2, <1>13 DEF EraseUser, StoresOK, seats, post, time, ChallengesMailed
  <2> QED
    BY <1>2, <2>1, <2>2, ReplyType
<1> QED
  BY <1>6, <1>7, <1>9, <1>10, <1>11, <1>12, <1>13 DEF DeleteUserRecords, ErasedSessions
-----------------------------------------------------------------------------
(* The devices.                                                             *)
LEMMA DeviceType ==
    ASSUME NEW d \in Device
    PROVE  /\ d.tokens \in Cred \cup {Absent} /\ d.stored \in Cred \cup {Absent}
           /\ d.refreshing \in Requests \cup {Absent} /\ d.fresh \in BOOLEAN
BY DEF Device

LEMMA DeviceKept ==
    ASSUME NEW d \in Device, NEW t \in Cred \cup {Absent}, NEW q \in Requests \cup {Absent}, NEW b \in BOOLEAN
    PROVE  /\ [d EXCEPT !.refreshing = q] \in Device
           /\ [d EXCEPT !.tokens = t, !.refreshing = q] \in Device
           /\ [d EXCEPT !.stored = t] \in Device
           /\ [d EXCEPT !.tokens = t, !.fresh = b] \in Device
           /\ [d EXCEPT !.tokens = t, !.refreshing = q, !.fresh = b] \in Device
           /\ [d EXCEPT !.fresh = b] \in Device
<1>1. /\ [d EXCEPT !.refreshing = q] \in Device
      /\ [d EXCEPT !.tokens = t, !.refreshing = q] \in Device
      /\ [d EXCEPT !.stored = t] \in Device
      /\ [d EXCEPT !.tokens = t] \in Device
  BY DEF Device
<1>2. ASSUME NEW e \in Device PROVE [e EXCEPT !.fresh = b] \in Device
  BY DEF Device
<1>3. [[d EXCEPT !.tokens = t] EXCEPT !.fresh = b] \in Device
  BY <1>1, <1>2
<1>4. [[d EXCEPT !.tokens = t, !.refreshing = q] EXCEPT !.fresh = b] \in Device
  BY <1>1, <1>2
<1> QED
  BY <1>1, <1>2, <1>3, <1>4

LEMMA DeviceStores ==
    ASSUME TypeInv, Local, NEW d \in Devices, NEW dev \in Device, device' = [device EXCEPT ![d] = dev]
    PROVE  StoresOK' /\ given' = given
BY DEF TypeInv, StoresOK, Local, people, seats, post, time, ChallengesMailed

LEMMA LocalStores ==
    ASSUME TypeInv, Local, UNCHANGED device
    PROVE  StoresOK' /\ given' = given
BY QuietStores DEF TypeInv, Local

(* A device that goes on to a call of its own.                              *)
LEMMA DeviceStage ==
    ASSUME NEW r, NEW p \in {"settle", "persist", "clear", "end_get", "rotate_get", "joined"}, NEW m,
           p \in {"rotate_get"} => call[r].op \in {"use", "refresh"} /\ m.cred \in Cred,
           p = "clear" => call[r].op \in {"use", "signout"},
           p = "end_get" => call[r].op \in {"use", "signout"} /\ m.cred \in Cred,
           p = "joined" => call[r].op = "use" /\ m.waits \in Requests
    PROVE  Stage(r, p, m) /\ p \in Pcs
BY DEF Stage, Pcs, Answers, StartPcs, SweepPcs, ConsumePcs, ConsumedPcs, RefundPcs, CodePcs, TakePcs,
    PeoplePcs, SeatPcs, BouncePcs, RotatePcs, EndPcs, ListPcs, FillPcs, ErasePcs, DevicePcs

LEMMA UseTokenType ==
    ASSUME TypeInv, NEW r \in Requests, OnDevice(r), UseToken(r)
    PROVE  TypeInv'
<1> DEFINE d == call[r].device
<1>1. pc[r] = "use"
  BY DEF UseToken, Goto
<1>2. mem[r] \in Memory /\ StoresOK /\ StageOf(r) /\ call[r].op = "use"
  BY <1>1, TypeParts DEF StageOf, Stage
<1>3. d \in Devices /\ Of(r) = device[d] /\ Of(r) \in Device
  BY TypeParts, CallType DEF OnDevice, Of, StoresOK
<1>4. Local
  BY DEF UseToken
<1>5. ASSUME NEW a \in {"null", "200"}, Goto(r, "use", a), UNCHANGED <<mem, device>>
      PROVE  TypeInv'
  <2>1. a \in Answers
    BY DEF Answers
  <2>2. Stage(r, a, mem[r]) /\ a \in Pcs
    BY <2>1, AnswerStage
  <2> QED
    BY <1>4, <1>5, <2>2, LocalStores, KeepType DEF Goto
<1>6. CASE /\ InFlight(Of(r)) /\ Goto(r, "use", "joined")
           /\ Holds(r, [mem[r] EXCEPT !.waits = Of(r).refreshing])
           /\ UNCHANGED device
  <2> DEFINE q == Of(r).refreshing
             m == [mem[r] EXCEPT !.waits = q]
  <2>1. q \in Requests
    BY <1>3, <1>6, DeviceType DEF InFlight
  <2> HIDE DEF q
  <2>2. m \in Memory
    BY <1>2, <2>1, MemoryWaits
  <2>3. m.waits = q
    BY <1>2, MemoryType DEF Fields
  <2>4. pc' = [pc EXCEPT ![r] = "joined"] /\ mem' = [mem EXCEPT ![r] = m]
    BY <1>6 DEF Goto, Holds, q
  <2> HIDE DEF m
  <2>5. Stage(r, "joined", m) /\ "joined" \in Pcs
    BY <1>2, <2>1, <2>3, DeviceStage
  <2> QED
    BY <1>4, <1>6, <2>2, <2>4, <2>5, LocalStores, StepType
<1>7. CASE /\ Of(r).tokens # Absent /\ Goto(r, "use", "rotate_get")
           /\ Holds(r, [mem[r] EXCEPT !.cred = Of(r).tokens])
           /\ Becomes(r, [Of(r) EXCEPT !.refreshing = r])
  <2> DEFINE t == Of(r).tokens
             dev == [Of(r) EXCEPT !.refreshing = r]
             m == [mem[r] EXCEPT !.cred = t]
  <2>1. t \in Cred /\ dev \in Device
    BY <1>3, <1>7, DeviceType, DeviceKept
  <2>2. pc' = [pc EXCEPT ![r] = "rotate_get"] /\ mem' = [mem EXCEPT ![r] = m]
        /\ device' = [device EXCEPT ![d] = dev]
    BY <1>7 DEF Goto, Holds, Becomes
  <2> HIDE DEF t, dev
  <2>3. m \in Memory
    BY <1>2, <2>1, MemoryCred
  <2>4. m.cred = t
    BY <1>2, MemoryType DEF Fields
  <2>5. StoresOK' /\ given' = given
    BY <1>3, <1>4, <2>1, <2>2, DeviceStores
  <2> HIDE DEF m
  <2>6. Stage(r, "rotate_get", m) /\ "rotate_get" \in Pcs
    BY <1>2, <2>1, <2>4, DeviceStage
  <2> QED
    BY <2>2, <2>3, <2>5, <2>6, StepType
<1> QED
  BY <1>5, <1>6, <1>7 DEF UseToken

(* What waits, what the network loses and what a device only reports.       *)
LEMMA WaitType ==
    ASSUME TypeInv, NEW r \in Requests, OnDevice(r),
           Joined(r) \/ LoseRequest(r) \/ LoseAnswer(r) \/ Report(r) \/ Abandoned(r)
    PROVE  TypeInv'
<1>1. mem[r] \in Memory /\ StoresOK /\ StageOf(r)
  BY TypeParts
<1>2. Local /\ UNCHANGED device
  BY DEF Joined, LoseRequest, LoseAnswer, Report, Abandoned
<1>3. StoresOK' /\ given' = given
  BY <1>2, LocalStores
<1>4. ASSUME NEW a \in Answers, NEW from, Goto(r, from, a), UNCHANGED mem
      PROVE  TypeInv'
  <2>1. Stage(r, a, mem[r]) /\ a \in Pcs
    BY AnswerStage
  <2> QED
    BY <1>3, <1>4, <2>1, KeepType DEF Goto
<1>5. CASE Joined(r)
  <2>1. \E a \in Answers : Goto(r, "joined", a)
    BY <1>5 DEF Joined, Answers
  <2> QED
    BY <1>4, <1>5, <2>1 DEF Joined
<1>6. CASE LoseRequest(r)
  <2> DEFINE m == [mem[r] EXCEPT !.answer = "null"]
  <2>1. pc' = [pc EXCEPT ![r] = "settle"] /\ mem' = [mem EXCEPT ![r] = m]
    BY <1>6 DEF LoseRequest, Goto, Holds
  <2>2. m \in Memory
    BY <1>1, MemoryAnswer DEF Answers
  <2>3. Stage(r, "settle", m) /\ "settle" \in Pcs
    BY DeviceStage
  <2> QED
    BY <1>3, <2>1, <2>2, <2>3, StepType
<1>7. CASE LoseAnswer(r)
  <2> DEFINE yes == TRUE
             m == [mem[r] EXCEPT !.answer = "null", !.lost = yes]
  <2>1. pc' = [pc EXCEPT ![r] = "settle"] /\ mem' = [mem EXCEPT ![r] = m]
    BY <1>7 DEF LoseAnswer, Goto, Holds
  <2>2. yes \in BOOLEAN
    OBVIOUS
  <2> HIDE DEF yes
  <2>3. m \in Memory
    BY <1>1, <2>2, MemoryLost DEF Answers
  <2>4. Stage(r, "settle", m) /\ "settle" \in Pcs
    BY DeviceStage
  <2> QED
    BY <1>3, <2>1, <2>3, <2>4, StepType
<1>8. CASE Report(r)
  <2>1. pc' = [pc EXCEPT ![r] = "settle"] /\ mem' = mem
    BY <1>8 DEF Report, Goto
  <2>2. Stage(r, "settle", mem[r]) /\ "settle" \in Pcs
    BY DeviceStage
  <2> QED
    BY <1>3, <2>1, <2>2, KeepType
<1>9. CASE Abandoned(r)
  BY <1>4, <1>9 DEF Abandoned, Answers
<1> QED
  BY <1>5, <1>6, <1>7, <1>8, <1>9

LEMMA AdoptType ==
    ASSUME TypeInv, NEW r \in Requests, OnDevice(r), Adopt(r) \/ Persist(r) \/ Settle(r) \/ Clear(r)
    PROVE  TypeInv'
<1> DEFINE d == call[r].device
<1>1. mem[r] \in Memory /\ StoresOK /\ StageOf(r) /\ mem[r].cred \in Cred \cup {Absent} /\ mem[r].answer \in Answers
  BY TypeParts, MemoryType
<1>2. d \in Devices /\ Of(r) = device[d] /\ Of(r) \in Device
  BY <1>1, TypeParts, CallType DEF OnDevice, Of, StoresOK
<1>3. CASE Adopt(r)
  <2> DEFINE t == mem[r].cred
             yes == TRUE
             dev == [Of(r) EXCEPT !.tokens = t, !.fresh = yes]
  <2>1. pc' = [pc EXCEPT ![r] = "persist"] /\ mem' = mem /\ device' = [device EXCEPT ![d] = dev] /\ Local
    BY <1>3 DEF Adopt, Goto, Becomes
  <2>2. yes \in BOOLEAN
    OBVIOUS
  <2> HIDE DEF yes, t
  <2>3. dev \in Device
    BY <1>1, <1>2, <2>2, DeviceKept DEF t
  <2> HIDE DEF dev
  <2>4. Stage(r, "persist", mem[r]) /\ "persist" \in Pcs
    BY DeviceStage
  <2> QED
    BY <1>2, <2>1, <2>3, <2>4, DeviceStores, KeepType
<1>4. CASE Persist(r)
  <2> DEFINE dev == [Of(r) EXCEPT !.stored = mem[r].cred]
  <2>1. pc' = [pc EXCEPT ![r] = "settle"] /\ mem' = mem /\ device' = [device EXCEPT ![d] = dev] /\ Local
    BY <1>4 DEF Persist, Goto, Becomes
  <2>2. dev \in Device
    BY <1>1, <1>2, DeviceKept
  <2> HIDE DEF dev
  <2>3. Stage(r, "settle", mem[r]) /\ "settle" \in Pcs
    BY DeviceStage
  <2> QED
    BY <1>2, <2>1, <2>2, <2>3, DeviceStores, KeepType
<1>5. CASE Settle(r)
  <2> DEFINE a == IF Is(r, {"use"}) /\ mem[r].answer # "200" THEN "null" ELSE mem[r].answer
             dev == [Of(r) EXCEPT !.refreshing = Absent]
  <2>1. pc' = [pc EXCEPT ![r] = a] /\ mem' = mem /\ Local
        /\ (device' = [device EXCEPT ![d] = dev] \/ UNCHANGED device)
    BY <1>5 DEF Settle, Goto, Becomes
  <2>2. dev \in Device /\ a \in Answers
    BY <1>1, <1>2, DeviceKept DEF Answers
  <2> HIDE DEF dev, a
  <2>3. Stage(r, a, mem[r]) /\ a \in Pcs
    BY <2>2, AnswerStage
  <2>4. StoresOK' /\ given' = given
    BY <1>2, <2>1, <2>2, DeviceStores, LocalStores
  <2> QED
    BY <2>1, <2>3, <2>4, KeepType
<1>6. CASE Clear(r)
  <2> DEFINE p == IF mem[r].cred = Absent THEN "settle" ELSE "end_get"
             dev == [Of(r) EXCEPT !.stored = Absent]
  <2>1. pc[r] = "clear" /\ pc' = [pc EXCEPT ![r] = p] /\ mem' = mem /\ Local
        /\ device' = [device EXCEPT ![d] = dev]
    BY <1>6 DEF Clear, Goto, Becomes
  <2>2. dev \in Device /\ p \in {"settle", "end_get"} /\ (p = "end_get" => mem[r].cred \in Cred)
    BY <1>1, <1>2, DeviceKept
  <2>3. call[r].op \in {"use", "signout"}
    BY <1>1, <2>1 DEF StageOf, Stage
  <2> HIDE DEF dev, p
  <2>4. Stage(r, p, mem[r]) /\ p \in Pcs
    BY <2>2, <2>3, DeviceStage
  <2> QED
    BY <1>2, <2>1, <2>2, <2>4, DeviceStores, KeepType
<1> QED
  BY <1>3, <1>4, <1>5, <1>6

LEMMA SignOutType ==
    ASSUME TypeInv, NEW r \in Requests, OnDevice(r), SignOut(r)
    PROVE  TypeInv'
<1> DEFINE d == call[r].device
           t == Of(r).tokens
           m == [mem[r] EXCEPT !.cred = t]
           dev == [Of(r) EXCEPT !.tokens = Absent, !.refreshing = Absent]
<1>1. mem[r] \in Memory /\ StoresOK /\ StageOf(r)
  BY TypeParts
<1>2. d \in Devices /\ Of(r) = device[d] /\ Of(r) \in Device
  BY <1>1, TypeParts, CallType DEF OnDevice, Of, StoresOK
<1>3. t \in Cred \cup {Absent} /\ dev \in Device
  BY <1>2, DeviceType, DeviceKept
<1>4. pc' = [pc EXCEPT ![r] = "clear"] /\ mem' = [mem EXCEPT ![r] = m] /\ Local
      /\ device' = [device EXCEPT ![d] = dev]
  BY DEF SignOut, Goto, Holds, Becomes
<1>5. call[r].op \in {"use", "signout"}
  BY <1>1 DEF SignOut, Goto, StageOf, Stage, Refused401, Is
<1> HIDE DEF t, dev
<1>6. m \in Memory
  BY <1>1, <1>3, MemoryCred
<1> HIDE DEF m
<1>7. Stage(r, "clear", m) /\ "clear" \in Pcs
  BY <1>5, DeviceStage
<1> QED
  BY <1>2, <1>3, <1>4, <1>6, <1>7, DeviceStores, StepType
LEMMA RestartType ==
    ASSUME TypeInv, NEW r \in Requests, OnDevice(r), Restart(r)
    PROVE  TypeInv'
<1> DEFINE d == call[r].device
           old == device[d]
           fresh == old.fresh /\ old.stored = old.tokens
           dev == [old EXCEPT !.tokens = old.stored, !.refreshing = Absent, !.fresh = fresh]
<1>1. StoresOK /\ GivenStart /\ pc \in [Requests -> Pcs] /\ mem \in [Requests -> Memory]
  BY DEF TypeInv
<1>2. d \in Devices /\ old \in Device
  BY <1>1, TypeParts, CallType DEF OnDevice, StoresOK
<1>3. /\ pc' = [pc EXCEPT ![r] = "null"] /\ Local /\ device' = [device EXCEPT ![d] = dev]
      /\ mem' = [q \in Requests |-> IF q # r /\ InProgress(q, d) THEN [mem[q] EXCEPT !.orphan = TRUE]
                                    ELSE mem[q]]
  BY DEF Restart, Goto, Becomes, Of
<1>4. old.stored \in Cred \cup {Absent} /\ fresh \in BOOLEAN
  BY <1>2, DeviceType
<1> HIDE DEF fresh
<1>5. dev \in Device
  BY <1>2, <1>4, DeviceKept
<1> HIDE DEF dev
<1>6. StoresOK' /\ given' = given
  BY <1>2, <1>3, <1>5, DeviceStores
<1>7. call' = call /\ seed' = seed
  BY <1>6 DEF given
<1>8. GivenStart'
  BY <1>1, <1>7 DEF GivenStart
<1>9. ASSUME NEW q \in Requests PROVE mem'[q] \in Memory
  <2> DEFINE yes == TRUE
  <2>1. mem'[q] \in {mem[q], [mem[q] EXCEPT !.orphan = yes]}
    BY <1>3
  <2>2. yes \in BOOLEAN
    OBVIOUS
  <2> HIDE DEF yes
  <2> QED
    BY <1>1, <2>1, <2>2, MemoryOrphan
<1>10. pc' \in [Requests -> Pcs] /\ mem' \in [Requests -> Memory]
  <2>1. "null" \in Pcs /\ Stage(r, "null", mem[r])
    BY AnswerStage DEF Answers
  <2> QED
    BY <1>1, <1>3, <1>9, <2>1
<1>11. ASSUME NEW q \in Requests PROVE StageOf(q)'
  <2>1. CASE q = r
    <3>1. pc'[q] = "null" /\ Stage(q, "null", mem'[q])
      BY <1>1, <1>3, <2>1, AnswerStage DEF Answers
    <3> QED
      BY <1>7, <3>1 DEF StageOf, Stage
  <2>2. CASE q # r /\ InProgress(q, d)
    <3> DEFINE yes == TRUE
    <3>1. pc'[q] = pc[q] /\ mem'[q] = [mem[q] EXCEPT !.orphan = yes] /\ pc[q] # "send" /\ StageOf(q)
      BY <1>1, <1>3, <2>2 DEF InProgress, TypeInv
    <3> HIDE DEF yes
    <3>2. /\ mem'[q].todo = mem[q].todo /\ mem'[q].at = mem[q].at /\ mem'[q].counter = mem[q].counter
          /\ mem'[q].code = mem[q].code /\ mem'[q].user = mem[q].user /\ mem'[q].cred = mem[q].cred
          /\ mem'[q].rec = mem[q].rec /\ mem'[q].waits = mem[q].waits
      BY <1>1, <3>1, MemoryType DEF Fields
    <3> QED
      BY <1>7, <3>1, <3>2 DEF StageOf, Stage
  <2>3. CASE q # r /\ ~InProgress(q, d)
    <3>1. pc'[q] = pc[q] /\ mem'[q] = mem[q] /\ StageOf(q)
      BY <1>1, <1>3, <2>3 DEF TypeInv
    <3> QED
      BY <1>7, <3>1 DEF StageOf, Stage
  <2> QED
    BY <2>1, <2>2, <2>3
<1> QED
  BY <1>6, <1>8, <1>10, <1>11 DEF TypeInv

-----------------------------------------------------------------------------
(* The rest of a step, and the time.                                        *)
LEMMA SendType ==
    ASSUME TypeInv, NEW r \in Requests, Send(r)
    PROVE  TypeInv'
<1> DEFINE c == call[r]
           cred == IF Is(r, {"refresh", "revoke"}) THEN [session |-> c.session, secret |-> c.secret] ELSE Absent
           m == [mem[r] EXCEPT !.cred = cred]
           p == FirstStep[c.op]
<1>1. mem[r] \in Memory /\ StoresOK /\ c.op \in Ops /\ WellFormed(c)
      /\ c.session \in SessionIds \cup {Absent} /\ c.secret \in Secrets \cup {Absent}
  BY TypeParts, CallType
<1>2. pc' = [pc EXCEPT ![r] = p] /\ mem' = [mem EXCEPT ![r] = m] /\ Reads
  BY DEF Send, Goto, Holds
<1>3. cred \in Cred \cup {Absent} /\ (c.op \in {"refresh", "revoke"} => cred \in Cred)
  BY <1>1 DEF Is, Cred, WellFormed
<1> HIDE DEF cred
<1>4. m \in Memory
  BY <1>1, <1>3, MemoryCred
<1>5. m.cred = cred
  BY <1>1, MemoryType DEF Fields
<1> HIDE DEF m
<1>6. StoresOK' /\ given' = given
  BY <1>1, <1>2, QuietStores DEF Reads
<1>7. p \in {"sweep_list", "code_get", "take_get", "park", "rotate_get", "end_get", "index_list", "fill_list",
             "erase_home", "use", "signout", "restart"}
      /\ (p = "sweep_list" => c.op = "start") /\ (p = "code_get" => c.op = "callback")
      /\ (p = "take_get" => c.op \in {"redirect", "collect"}) /\ (p = "park" => c.op = "providers")
      /\ (p = "rotate_get" => c.op = "refresh") /\ (p = "end_get" => c.op = "revoke")
      /\ (p = "index_list" => c.op = "devices") /\ (p = "fill_list" => c.op = "backfill")
      /\ (p = "erase_home" => c.op = "erase") /\ (p = "use" => c.op = "use")
      /\ (p = "signout" => c.op = "signout") /\ (p = "restart" => c.op = "restart")
  BY <1>1 DEF FirstStep, Ops
<1> HIDE DEF p
<1>8. Stage(r, p, m) /\ p \in Pcs
  BY <1>3, <1>5, <1>7 DEF Stage, Pcs, Answers, StartPcs, SweepPcs, ConsumePcs, ConsumedPcs, RefundPcs,
     CodePcs, TakePcs, PeoplePcs, SeatPcs, BouncePcs, RotatePcs, EndPcs, ListPcs, FillPcs, ErasePcs, DevicePcs
<1> QED
  BY <1>2, <1>4, <1>6, <1>8, StepType

(* A step that is nobody's keeps everybody where he is.                     *)
LEMMA NobodyType ==
    ASSUME TypeInv, UNCHANGED <<pc, given, mem>>, StoresOK'
    PROVE  TypeInv'
BY DEF TypeInv, GivenStart, given, StageOf, Stage

LEMMA NextType == TypeInv /\ [Next]_vars => TypeInv'
<1> SUFFICES ASSUME TypeInv, [Next]_vars PROVE TypeInv'
  OBVIOUS
<1>1. ASSUME NEW r \in Requests, Step(r) PROVE TypeInv'
  <2>1. StartEmail(r) => TypeInv'
    BY StartEmailType, StartLimitedType
  <2>2. SigningIn(r) => TypeInv'
    BY <2>1, RedeemType, ParkingType, ResolveType, IssueType DEF SigningIn
  <2>3. OnDeviceStep(r) => TypeInv'
    BY UseTokenType, WaitType, AdoptType, SignOutType, RestartType DEF OnDeviceStep
  <2> QED
    BY <1>1, <2>2, <2>3, SendType, RotateType, EndType, ListType, FillType, EraseType DEF Step
<1>2. ASSUME NEW k \in Codes \cup SessionIds, Lapse(k) PROVE TypeInv'
  <2>1. StoresOK'
    BY <1>2 DEF TypeInv, StoresOK, Lapse, people, seats, post, ChallengesMailed
  <2> QED
    BY <1>2, <2>1, NobodyType DEF Lapse
<1>3. ASSUME NEW d \in Devices, Age(d) PROVE TypeInv'
  <2> DEFINE no == FALSE
             dev == [device[d] EXCEPT !.fresh = no]
  <2>1. no \in BOOLEAN /\ device[d] \in Device
    BY DEF TypeInv, StoresOK
  <2>2. device' = [device EXCEPT ![d] = dev]
    BY <1>3 DEF Age
  <2> HIDE DEF no
  <2>3. dev \in Device
    BY <2>1 DEF Device
  <2> HIDE DEF dev
  <2>4. StoresOK'
    BY <1>3, <2>2, <2>3 DEF Age, TypeInv, StoresOK, people, seats, post, time, ChallengesMailed
  <2> QED
    BY <1>3, <2>4, NobodyType DEF Age
<1>4. CASE Tick
  <2>1. clock' \in 0 .. MaxClock
    BY <1>4, AuthAssumption DEF Tick, TypeInv, StoresOK
  <2>2. StoresOK'
    BY <1>4, <2>1 DEF Tick, TypeInv, StoresOK, people, seats, post, ChallengesMailed
  <2> QED
    BY <1>4, <2>2, NobodyType DEF Tick
<1>5. CASE UNCHANGED vars
  <2>1. StoresOK'
    BY <1>5, QuietStores DEF vars, TypeInv
  <2> QED
    BY <1>5, <2>1, NobodyType DEF vars
<1> QED
  BY <1>1, <1>2, <1>3, <1>4, <1>5 DEF Next, Done

LEMMA BlankType == Blank \in Memory
<1> DEFINE no == FALSE
<1>1. Blank = [cred |-> Absent, user |-> Absent, rec |-> Absent, code |-> Absent, counter |-> Absent,
          answer |-> "null", todo |-> {}, at |-> Absent, shown |-> {}, waits |-> Absent,
          orphan |-> no, lost |-> no, presented |-> Absent,
          replayed |-> no, ended |-> no, degraded |-> no,
          spent |-> [k \in {"source", "hour", "day"} |-> Absent]]
  BY DEF Blank
<1>2. no \in BOOLEAN /\ "null" \in Answers /\ [k \in {"source", "hour", "day"} |-> Absent] \in Spent
  BY DEF Answers, Spent
<1> HIDE DEF no
<1> QED
  BY <1>1, <1>2 DEF Memory

LEMMA InitType == Init => TypeInv
<1> SUFFICES ASSUME Init PROVE TypeInv
  OBVIOUS
<1>1. GivenStart
  BY DEF Init, GivenStart
<1>2. seed \in Seed /\ AtRest(seed)
  BY <1>1, GivenFacts
<1>3. /\ seed.codes \in [Codes -> CodeRec \cup {Absent}]
      /\ seed.identities \in [Identities -> Users \cup {Absent}]
      /\ seed.emailIndex \in [Emails -> Users \cup {Absent}]
      /\ seed.users \subseteq Users /\ seed.homes \subseteq Users
      /\ seed.sessions \in [SessionIds -> SessionRec \cup {Absent}]
      /\ seed.sessionIndex \subseteq Users \X SessionIds
      /\ seed.counters \in [CounterKeys -> Counter \cup {Absent}]
      /\ seed.mailbox \in [Emails -> SUBSET Mail]
      /\ seed.device \in [Devices -> Device]
  BY <1>2 DEF Seed
<1>4. ChallengesMailed
  BY <1>2, <1>3 DEF Init, AtRest, ChallengesMailed, CodeRec, Codes
<1>5. clock \in 0 .. MaxClock /\ lapsed \subseteq Codes \cup SessionIds
  BY AuthAssumption DEF Init
<1>6. StoresOK
  BY <1>3, <1>4, <1>5 DEF Init, StoresOK
<1>7. pc \in [Requests -> Pcs] /\ mem \in [Requests -> Memory]
  BY BlankType DEF Init, Pcs
<1>8. ASSUME NEW r \in Requests PROVE StageOf(r)
  BY DEF Init, StageOf, Stage, StartPcs, SweepPcs, ConsumePcs, ConsumedPcs, RefundPcs, CodePcs,
     TakePcs, PeoplePcs, SeatPcs, BouncePcs, RotatePcs, EndPcs, ListPcs, FillPcs, ErasePcs, DevicePcs
<1> QED
  BY <1>1, <1>6, <1>7, <1>8 DEF TypeInv

LEMMA TypeInvariant == Spec => []TypeInv
BY InitType, NextType, PTL DEF Spec

(* Every store of signing in holds records of its shape, whatever calls     *)
(* come, in whatever order their steps fall: auth.js and lib/auth.          *)
THEOREM TypeCorrect == Spec => []TypeOK
<1>1. TypeInv => TypeOK
  BY GivenFacts DEF TypeInv, TypeOK, StoresOK
<1> QED
  BY <1>1, TypeInvariant, PTL
-----------------------------------------------------------------------------
(* What a handler leaves alone, and where it goes.                          *)
Mine(r) == \A q \in Requests \ {r} : pc'[q] = pc[q] /\ mem'[q] = mem[q]

Left == Answers \cup {"back"}

LEMMA GotoMoves ==
    ASSUME TypeInv, NEW r \in Requests, NEW from, NEW to, Goto(r, from, to)
    PROVE  pc[r] = from /\ pc'[r] = to /\ \A q \in Requests \ {r} : pc'[q] = pc[q]
BY DEF TypeInv, Goto

LEMMA HoldsMoves ==
    ASSUME TypeInv, NEW r \in Requests, NEW m, Holds(r, m)
    PROVE  mem'[r] = m /\ \A q \in Requests \ {r} : mem'[q] = mem[q]
BY DEF TypeInv, Holds

LEMMA RepliesMoves ==
    ASSUME TypeInv, NEW r \in Requests, NEW from, NEW a \in Answers, NEW m, Replies(r, from, a, m)
    PROVE  /\ pc[r] = from /\ pc'[r] = (IF OnDevice(r) THEN "back" ELSE a) /\ pc'[r] \in Left /\ Mine(r)
           /\ mem'[r] = [m EXCEPT !.answer = a]
BY GotoMoves, HoldsMoves DEF Replies, Left, Mine

LEMMA ConsumeMoves ==
    ASSUME TypeInv, NEW r \in Requests, NEW at, NEW put, NEW key, NEW next, NEW refused,
           Consume(r, at, put, key, next, refused)
    PROVE  /\ UNCHANGED <<codes, people, seats, mailbox, time, device, given>> /\ Mine(r)
           /\ pc[r] \in {at, put} /\ pc'[r] \in {put, next, refused}
BY GotoMoves, HoldsMoves DEF Consume, Degrades, Keeps, Mine

LEMMA RefundMoves ==
    ASSUME TypeInv, NEW r \in Requests, NEW at, NEW put, NEW key, NEW next, Refund(r, at, put, key, next)
    PROVE  /\ UNCHANGED <<codes, people, seats, mailbox, time, device, given>> /\ Mine(r)
           /\ pc[r] \in {at, put} /\ pc'[r] \in {put, next}
BY GotoMoves, HoldsMoves DEF Refund, Degrades, Keeps, Mine

LEMMA StartMoves ==
    ASSUME TypeInv, NEW r \in Requests, StartEmail(r)
    PROVE  /\ UNCHANGED <<people, seats, time, device, given>> /\ Mine(r)
           /\ pc[r] \in StartPcs /\ pc'[r] \in StartPcs \cup Left
<1>1. CASE StartLimited(r)
  <2>1. CASE AllowSend(r)
    BY <2>1, ConsumeMoves, RefundMoves DEF AllowSend, StartPcs, ConsumePcs, ConsumedPcs, RefundPcs
  <2>2. CASE RefundSend(r)
    BY <2>2, RefundMoves DEF RefundSend, StartPcs, RefundPcs
  <2>3. CASE SendMail(r)
    BY <2>3, GotoMoves DEF SendMail, Mine, StartPcs, RefundPcs, post
  <2>4. CASE AnswerStart(r)
    BY <2>4, RepliesMoves DEF AnswerStart, StartPcs, Answers
  <2> QED
    BY <1>1, <2>1, <2>2, <2>3, <2>4 DEF StartLimited
<1>2. CASE SweepList(r) \/ SweepRead(r) \/ SweepDrop(r) \/ StartChallenge(r)
  BY <1>2, GotoMoves, HoldsMoves DEF SweepList, SweepRead, SweepDrop, StartChallenge, PutCode, Reads, Mine,
     StartPcs, SweepPcs, ConsumePcs
<1> QED
  BY <1>1, <1>2 DEF StartEmail

LEMMA CodeMoves ==
    ASSUME TypeInv, NEW r \in Requests, RedeemChallenge(r)
    PROVE  /\ UNCHANGED <<people, seats, post, time, device, given>> /\ Mine(r)
           /\ pc[r] \in CodePcs /\ pc'[r] \in CodePcs \cup {"identity"} \cup Left
<1>1. CASE CodeGet(r)
  BY <1>1, GotoMoves, HoldsMoves, RepliesMoves DEF CodeGet, CodeVerdict, WrongCode, Reads, Mine, CodePcs, Answers
<1>2. CASE CodeBurn(r) \/ CodeCount(r) \/ CodeSpend(r)
  BY <1>2, GotoMoves DEF CodeBurn, CodeCount, CodeSpend, PutCode, Mine, CodePcs
<1>3. CASE CodeBurned(r) \/ CodeCounted(r)
  BY <1>3, RepliesMoves DEF CodeBurned, CodeCounted, Reads, CodePcs, Answers
<1> QED
  BY <1>1, <1>2, <1>3 DEF RedeemChallenge

LEMMA ParkMoves ==
    ASSUME TypeInv, NEW r \in Requests, Parking(r)
    PROVE  /\ UNCHANGED <<people, seats, post, time, device, given>> /\ Mine(r)
           /\ pc[r] \in {"park", "parked"} \cup TakePcs \cup BouncePcs
           /\ pc'[r] \in {"parked", "bounce", "take_delete", "taken", "identity"} \cup Left
<1>1. CASE Park(r) \/ TakeDelete(r) \/ HandoffPut(r)
  BY <1>1, GotoMoves DEF Park, TakeDelete, HandoffPut, PutCode, Mine, TakePcs, BouncePcs
<1>2. CASE Parked(r) \/ Bounce(r)
  BY <1>2, RepliesMoves DEF Parked, Bounce, Reads, Answers, BouncePcs
<1>3. CASE TakeGet(r) \/ Taken(r)
  <2>1. Refused(r) \in Answers /\ "200" \in Answers
    BY DEF Refused, Answers
  <2> DEFINE m == [mem[r] EXCEPT !.code = codes[call[r].code]]
             n == [mem[r] EXCEPT !.cred = mem[r].code.gives]
  <2>2. CASE TakeGet(r)
    <3>1. \/ Replies(r, "take_get", Refused(r), m)
          \/ Goto(r, "take_get", "take_delete") /\ Holds(r, m)
      BY <2>2 DEF TakeGet
    <3> HIDE DEF m
    <3>2. Reads
      BY <2>2 DEF TakeGet
    <3>3. CASE Replies(r, "take_get", Refused(r), m)
      BY <2>1, <3>2, <3>3, RepliesMoves DEF Reads, TakePcs
    <3>4. CASE Goto(r, "take_get", "take_delete") /\ Holds(r, m)
      BY <3>2, <3>4, GotoMoves, HoldsMoves DEF Reads, Mine, TakePcs
    <3> QED
      BY <3>1, <3>3, <3>4
  <2>3. CASE Taken(r)
    <3>1. \/ Replies(r, "taken", Refused(r), mem[r])
          \/ Goto(r, "taken", "identity") /\ UNCHANGED mem
          \/ Replies(r, "taken", "200", n)
      BY <2>3 DEF Taken
    <3> HIDE DEF n
    <3> QED
      BY <2>1, <2>3, <3>1, GotoMoves, RepliesMoves DEF Taken, Reads, Mine, TakePcs
  <2> QED
    BY <1>3, <2>2, <2>3
<1> QED
  BY <1>1, <1>2, <1>3 DEF Parking

LEMMA PeopleMoves ==
    ASSUME TypeInv, NEW r \in Requests, ResolveIdentity(r)
    PROVE  /\ UNCHANGED <<codes, seats, post, time, device, given>> /\ Mine(r)
           /\ pc[r] \in PeoplePcs /\ pc'[r] \in PeoplePcs \cup {"session_put"} \cup Left
<1>1. CASE IdentityGet(r) \/ EmailGet(r) \/ EmailUser(r)
  BY <1>1, GotoMoves, HoldsMoves DEF IdentityGet, EmailGet, EmailUser, Reads, Mine, PeoplePcs
<1>2. CASE IdentityUser(r)
  <2>1. Fails(r) \in Answers
    BY DEF Fails, Answers
  <2> QED
    BY <1>2, <2>1, GotoMoves, RepliesMoves DEF IdentityUser, Reads, Mine, PeoplePcs
<1>3. CASE Link(r) \/ NewIdentity(r)
  BY <1>3, GotoMoves DEF Link, NewIdentity, PutIdentity, Mine, PeoplePcs
<1>4. CASE NewUser(r) \/ NewHome(r) \/ NewEmail(r)
  BY <1>4, GotoMoves, HoldsMoves DEF NewUser, NewHome, NewEmail, Mine, PeoplePcs
<1> QED
  BY <1>1, <1>2, <1>3, <1>4 DEF ResolveIdentity

LEMMA SeatMoves ==
    ASSUME TypeInv, NEW r \in Requests, IssueTokens(r)
    PROVE  /\ UNCHANGED <<codes, people, post, time, device, given>> /\ Mine(r)
           /\ pc[r] \in SeatPcs /\ pc'[r] \in {"session_index", "handoff_put"} \cup Left
<1>1. CASE SessionPut(r)
  BY <1>1, GotoMoves, HoldsMoves DEF SessionPut, WriteSession, Mine, SeatPcs
<1>2. CASE SessionIndexed(r)
  BY <1>2, GotoMoves, RepliesMoves DEF SessionIndexed, SetIndex, Mine, SeatPcs, Answers
<1> QED
  BY <1>1, <1>2 DEF IssueTokens

LEMMA RotateMoves ==
    ASSUME TypeInv, NEW r \in Requests, RotateSession(r)
    PROVE  /\ UNCHANGED <<codes, people, post, time, device, given>> /\ Mine(r)
           /\ pc[r] \in RotatePcs /\ pc'[r] \in RotatePcs \cup Left
<1>1. CASE RotateGet(r)
  <2> DEFINE s == Presented(r).session
             rec == sessions[s]
             verdict == RotateVerdict(r, rec)
             m == [mem[r] EXCEPT !.rec = rec, !.presented = s, !.replayed = Replays(r, rec)]
  <2>1. /\ pc[r] = "rotate_get" /\ Reads
        /\ \/ verdict \in Answers /\ Replies(r, "rotate_get", verdict, m)
           \/ verdict \notin Answers /\ Goto(r, "rotate_get", verdict) /\ Holds(r, m)
    BY <1>1 DEF RotateGet
  <2>2. verdict \in {"401", "expire", "rotate", "tombstone"}
    BY DEF RotateVerdict
  <2> HIDE DEF verdict, m
  <2>3. CASE verdict \in Answers /\ Replies(r, "rotate_get", verdict, m)
    BY <2>1, <2>3, RepliesMoves DEF Reads, RotatePcs
  <2>4. CASE verdict \notin Answers /\ Goto(r, "rotate_get", verdict) /\ Holds(r, m)
    BY <2>1, <2>2, <2>4, GotoMoves, HoldsMoves DEF Reads, Mine, RotatePcs, Answers
  <2> QED
    BY <2>1, <2>3, <2>4
<1>2. CASE Expire(r) \/ Rotate(r)
  BY <1>2, GotoMoves DEF Expire, Rotate, WriteSession, Mine, RotatePcs
<1>3. CASE ExpireIndex(r) \/ Tombstone(r)
  BY <1>3, RepliesMoves DEF ExpireIndex, Tombstone, WriteSession, DropIndex, RotatePcs, Answers
<1>4. CASE RotatedUser(r)
  <2>1. PICK answer \in {"200", "500", "401"} :
           Replies(r, "rotated_user", answer, [mem[r] EXCEPT !.cred.secret = r, !.lost = answer = "500"])
    BY <1>4 DEF RotatedUser
  <2> DEFINE m == [mem[r] EXCEPT !.cred.secret = r, !.lost = answer = "500"]
  <2> HIDE DEF m
  <2>2. Replies(r, "rotated_user", answer, m) /\ answer \in Answers
    BY <2>1 DEF m, Answers
  <2> QED
    BY <1>4, <2>2, RepliesMoves DEF RotatedUser, Reads, RotatePcs
<1> QED
  BY <1>1, <1>2, <1>3, <1>4 DEF RotateSession

LEMMA EndMoves ==
    ASSUME TypeInv, NEW r \in Requests, EndSessionOwnedBy(r)
    PROVE  /\ UNCHANGED <<codes, people, post, time, device, given>> /\ Mine(r)
           /\ pc[r] \in EndPcs /\ pc'[r] \in EndPcs \cup Left
<1>1. CASE EndGet(r)
  BY <1>1, GotoMoves, HoldsMoves, RepliesMoves DEF EndGet, Reads, Mine, EndPcs, Answers
<1>2. CASE EndSession(r) \/ EndIndex(r)
  BY <1>2, GotoMoves, RepliesMoves DEF EndSession, EndIndex, WriteSession, DropIndex, Mine, EndPcs, Answers
<1> QED
  BY <1>1, <1>2 DEF EndSessionOwnedBy

LEMMA ListMoves ==
    ASSUME TypeInv, NEW r \in Requests, SessionsOf(r)
    PROVE  /\ UNCHANGED <<codes, people, sessions, post, time, device, given>> /\ Mine(r)
           /\ pc[r] \in ListPcs /\ pc'[r] \in ListPcs \cup Left
<1>1. CASE ReadIndexed(r) \/ ReadScanned(r)
  BY <1>1, GotoMoves, HoldsMoves DEF ReadIndexed, ReadScanned, Shows, Reads, seats, Mine, ListPcs
<1>2. CASE ListIndex(r) \/ RepairIndex(r) \/ ScanList(r) \/ HealIndex(r)
  BY <1>2, GotoMoves, HoldsMoves
     DEF ListIndex, RepairIndex, ScanList, HealIndex, SetIndex, DropIndex, Reads, seats, Mine, ListPcs
<1>3. CASE ShowDevices(r)
  BY <1>3, RepliesMoves DEF ShowDevices, Reads, seats, ListPcs, Answers
<1> QED
  BY <1>1, <1>2, <1>3 DEF SessionsOf

LEMMA FillMoves ==
    ASSUME TypeInv, NEW r \in Requests, BackfillSessions(r)
    PROVE  /\ UNCHANGED <<codes, people, sessions, post, time, device, given>> /\ Mine(r)
           /\ pc[r] \in FillPcs /\ pc'[r] \in FillPcs \cup Left
<1>1. CASE FillList(r) \/ FillRead(r)
  BY <1>1, GotoMoves, HoldsMoves DEF FillList, FillRead, Reads, seats, Mine, FillPcs
<1>2. CASE FillPut(r)
  BY <1>2, GotoMoves DEF FillPut, SetIndex, Mine, FillPcs
<1>3. CASE FillEnd(r)
  BY <1>3, RepliesMoves DEF FillEnd, Reads, seats, FillPcs, Answers
<1> QED
  BY <1>1, <1>2, <1>3 DEF BackfillSessions

LEMMA EraseMoves ==
    ASSUME TypeInv, NEW r \in Requests, DeleteUserRecords(r)
    PROVE  /\ UNCHANGED <<codes, post, time, device, given>> /\ Mine(r)
           /\ pc[r] \in ErasePcs /\ pc'[r] \in ErasePcs \cup Left
<1>1. CASE EraseHome(r)
  BY <1>1, GotoMoves DEF EraseHome, Mine, ErasePcs
<1>2. ASSUME NEW from \in ErasePcs, NEW to \in ErasePcs, NEW T, EraseList(r, from, to, T)
      PROVE  /\ UNCHANGED <<codes, post, time, device, given>> /\ Mine(r)
             /\ pc[r] \in ErasePcs /\ pc'[r] \in ErasePcs \cup Left
  BY <1>2, GotoMoves, HoldsMoves DEF EraseList, Reads, Mine
<1>3. ASSUME NEW at \in ErasePcs, NEW k, Erases(r, at, k)
      PROVE  Mine(r) /\ pc[r] \in ErasePcs /\ pc'[r] \in ErasePcs \cup Left
  BY <1>3, GotoMoves, HoldsMoves DEF Erases, Mine
<1>4. CASE EraseIndex(r) \/ EraseIdentity(r) \/ EraseEmail(r) \/ EraseSession(r)
  BY <1>3, <1>4 DEF EraseIndex, EraseIdentity, EraseEmail, EraseSession, DropIndex, WriteSession, ErasePcs
<1>5. CASE EraseUser(r)
  BY <1>5, RepliesMoves DEF EraseUser, ErasePcs, Answers
<1> QED
  BY <1>1, <1>2, <1>4, <1>5 DEF DeleteUserRecords, ErasePcs

LEMMA SendMoves ==
    ASSUME TypeInv, NEW r \in Requests, Send(r)
    PROVE  /\ Reads /\ Mine(r) /\ pc[r] = "send"
           /\ pc'[r] \in {"sweep_list", "code_get", "take_get", "park", "rotate_get", "end_get", "index_list",
                          "fill_list", "erase_home", "use", "signout", "restart"}
<1>1. call[r].op \in Ops
  BY TypeParts, CallType
<1>2. pc[r] = "send" /\ pc'[r] = FirstStep[call[r].op] /\ Mine(r)
  BY GotoMoves, HoldsMoves DEF Send, Mine
<1> QED
  BY <1>1, <1>2 DEF Send, FirstStep, Ops

(* On a device only a restart touches another request: it is orphaned.      *)
Orphaned(q) ==
    /\ pc'[q] = pc[q]
    /\ mem'[q] = mem[q] \/ mem'[q] = [mem[q] EXCEPT !.orphan = TRUE]

LEMMA OnDeviceMoves ==
    ASSUME TypeInv, NEW r \in Requests, OnDeviceStep(r)
    PROVE  /\ Local /\ \A q \in Requests \ {r} : Orphaned(q)
           /\ pc[r] \in DevicePcs \cup {"rotate_get", "end_get"}
           /\ pc'[r] \in {"joined", "persist", "settle", "clear", "rotate_get", "end_get"} \cup Answers
<1>1. CASE UseToken(r)
  BY <1>1, GotoMoves, HoldsMoves DEF UseToken, Orphaned, DevicePcs, Answers
<1>2. CASE Joined(r)
  BY <1>2, GotoMoves DEF Joined, Orphaned, DevicePcs, Answers
<1>3. CASE LoseRequest(r) \/ LoseAnswer(r)
  BY <1>3, GotoMoves, HoldsMoves DEF LoseRequest, LoseAnswer, Orphaned, DevicePcs
<1>4. CASE Adopt(r) \/ Persist(r) \/ Clear(r) \/ Report(r)
  BY <1>4, GotoMoves DEF Adopt, Persist, Clear, Report, Orphaned, DevicePcs
<1>5. CASE SignOut(r)
  BY <1>5, GotoMoves, HoldsMoves DEF SignOut, Orphaned, DevicePcs
<1>6. CASE Settle(r)
  <2>1. mem[r].answer \in Answers
    BY TypeParts, MemoryType
  <2> QED
    BY <1>6, <2>1, GotoMoves DEF Settle, Orphaned, DevicePcs, Answers
<1>7. CASE Abandoned(r)
  BY <1>7, GotoMoves DEF Abandoned, Orphaned, DevicePcs, Answers
<1>8. CASE Restart(r)
  BY <1>8, GotoMoves DEF Restart, Orphaned, DevicePcs, Answers
<1> QED
  BY <1>1, <1>2, <1>3, <1>4, <1>5, <1>6, <1>7, <1>8 DEF OnDeviceStep
(* A step of anybody is one of a handler.                                   *)
LEMMA StepCases ==
    ASSUME TypeInv, NEW r \in Requests, Step(r)
    PROVE  \/ StartEmail(r) \/ RedeemChallenge(r) \/ Parking(r) \/ ResolveIdentity(r) \/ IssueTokens(r)
           \/ RotateSession(r) \/ EndSessionOwnedBy(r) \/ SessionsOf(r) \/ BackfillSessions(r)
           \/ DeleteUserRecords(r) \/ OnDeviceStep(r) \/ Send(r)
BY DEF Step, SigningIn

LEMMA StepFrame ==
    ASSUME TypeInv, NEW r \in Requests, Step(r)
    PROVE  /\ given' = given /\ pc[r] \notin Answers /\ pc'[r] # "send" /\ (pc[r] = "send" => Send(r))
           /\ \A q \in Requests \ {r} : Orphaned(q) \/ (pc'[q] = pc[q] /\ mem'[q] = mem[q])
<1>1. CASE StartEmail(r) \/ RedeemChallenge(r) \/ Parking(r)
  BY <1>1, StartMoves, CodeMoves, ParkMoves
     DEF Mine, StartPcs, SweepPcs, ConsumePcs, ConsumedPcs, RefundPcs, CodePcs, TakePcs, BouncePcs, Left, Answers
<1>2. CASE ResolveIdentity(r) \/ IssueTokens(r)
  BY <1>2, PeopleMoves, SeatMoves DEF Mine, PeoplePcs, SeatPcs, Left, Answers
<1>3. CASE RotateSession(r) \/ EndSessionOwnedBy(r)
  BY <1>3, RotateMoves, EndMoves DEF Mine, RotatePcs, EndPcs, Left, Answers
<1>4. CASE SessionsOf(r) \/ BackfillSessions(r) \/ DeleteUserRecords(r)
  BY <1>4, ListMoves, FillMoves, EraseMoves DEF Mine, ListPcs, FillPcs, ErasePcs, Left, Answers
<1>5. CASE OnDeviceStep(r)
  BY <1>5, OnDeviceMoves DEF Local, DevicePcs, Answers
<1>6. CASE Send(r)
  BY <1>6, SendMoves DEF Reads, Mine, Answers
<1> QED
  BY <1>1, <1>2, <1>3, <1>4, <1>5, <1>6, StepCases

LEMMA OthersKeep ==
    ASSUME TypeInv, NEW q \in Requests, Orphaned(q) \/ (pc'[q] = pc[q] /\ mem'[q] = mem[q])
    PROVE  /\ pc'[q] = pc[q]
           /\ mem'[q].cred = mem[q].cred /\ mem'[q].user = mem[q].user /\ mem'[q].rec = mem[q].rec
           /\ mem'[q].code = mem[q].code /\ mem'[q].counter = mem[q].counter
           /\ mem'[q].answer = mem[q].answer /\ mem'[q].todo = mem[q].todo /\ mem'[q].at = mem[q].at
           /\ mem'[q].shown = mem[q].shown /\ mem'[q].waits = mem[q].waits /\ mem'[q].lost = mem[q].lost
           /\ mem'[q].presented = mem[q].presented /\ mem'[q].replayed = mem[q].replayed
           /\ mem'[q].ended = mem[q].ended /\ mem'[q].degraded = mem[q].degraded
           /\ mem'[q].spent = mem[q].spent
<1>1. mem[q] \in Memory
  BY TypeParts
<1> DEFINE yes == TRUE
<1>2. pc'[q] = pc[q] /\ mem'[q] \in {mem[q], [mem[q] EXCEPT !.orphan = yes]}
  BY DEF Orphaned
<1> HIDE DEF yes
<1>3. DOMAIN mem[q] = Fields
  BY <1>1, MemoryType
<1> QED
  BY <1>2, <1>3 DEF Fields

(* What is nobody's step: time, age, rest.                                  *)
Idle ==
    /\ UNCHANGED <<codes, people, seats, post, pc, given, mem>>
    /\ lapsed \subseteq lapsed' /\ clock <= clock'
    /\ \A d \in Devices : /\ device'[d].tokens = device[d].tokens /\ device'[d].stored = device[d].stored
                          /\ device'[d].refreshing = device[d].refreshing

LEMMA NextCases ==
    ASSUME TypeInv, [Next]_vars
    PROVE  Idle \/ \E r \in Requests : Step(r)
<1>0. clock \in Nat /\ device \in [Devices -> Device]
  BY AuthAssumption DEF TypeInv, StoresOK
<1>1. ASSUME NEW k \in Codes \cup SessionIds, Lapse(k) PROVE Idle
  BY <1>0, <1>1 DEF Lapse, Idle
<1>2. ASSUME NEW d \in Devices, Age(d) PROVE Idle
  <2> DEFINE no == FALSE
             dev == [device[d] EXCEPT !.fresh = no]
  <2>1. UNCHANGED <<codes, people, seats, post, time, pc, given, mem>> /\ device' = [device EXCEPT ![d] = dev]
    BY <1>2 DEF Age
  <2> HIDE DEF no
  <2>2. dev.tokens = device[d].tokens /\ dev.stored = device[d].stored /\ dev.refreshing = device[d].refreshing
    BY <1>0 DEF Device
  <2> HIDE DEF dev
  <2>3. ASSUME NEW f \in Devices
        PROVE  /\ device'[f].tokens = device[f].tokens /\ device'[f].stored = device[f].stored
               /\ device'[f].refreshing = device[f].refreshing
    BY <1>0, <2>1, <2>2
  <2> QED
    BY <1>0, <2>1, <2>3 DEF Idle, time
<1>3. Tick => Idle
  BY <1>0 DEF Tick, Idle
<1>4. UNCHANGED vars => Idle
  BY <1>0 DEF vars, Idle, time
<1> QED
  BY <1>1, <1>2, <1>3, <1>4 DEF Next, Done

LEMMA NextFrame == TypeInv /\ [Next]_vars => call' = call /\ seed' = seed
BY NextCases, StepFrame DEF Idle, given

-----------------------------------------------------------------------------
(* A request is sent after those it comes after were answered; it is none   *)
(* of them.                                                                 *)
InOrder ==
    \A r \in Requests : pc[r] # "send" =>
        r \notin call[r].after /\ \A p \in call[r].after : pc[p] \in Answers

LEMMA OrderNext == TypeInv /\ InOrder /\ [Next]_vars => InOrder'
<1> SUFFICES ASSUME TypeInv, InOrder, [Next]_vars PROVE InOrder'
  OBVIOUS
<1>1. call' = call
  BY NextFrame
<1>2. CASE Idle
  BY <1>1, <1>2 DEF Idle, InOrder
<1>3. ASSUME NEW r \in Requests, Step(r) PROVE InOrder'
  <2>1. \A q \in Requests \ {r} : pc'[q] = pc[q]
    BY <1>3, StepFrame DEF Orphaned
  <2>2. \A p \in call[r].after : pc[p] \in Answers
    BY <1>3, StepFrame DEF Send, InOrder
  <2>3. pc[r] \notin Answers /\ pc'[r] # "send" /\ r \notin call[r].after
    BY <1>3, <2>2, StepFrame
  <2>4. \A q \in Requests : call[q].after \subseteq Requests
    BY TypeParts, CallType
  <2> QED
    BY <1>1, <2>1, <2>2, <2>3, <2>4 DEF InOrder
<1> QED
  BY <1>2, <1>3, NextCases

LEMMA OrderInvariant == Spec => [](TypeInv /\ InOrder)
<1>1. Init => InOrder
  BY DEF Init, InOrder
<1> QED
  BY <1>1, InitType, NextType, OrderNext, PTL DEF Spec

-----------------------------------------------------------------------------
(* Where an identity leads.                                                 *)
Housed(u) == u \in users \cap homes

(* What resolveIdentity holds: a user it found, or one it is making, who    *)
(* gets the account before the identity.                                    *)
Resolving(r) ==
    /\ pc[r] \in {"identity_user", "email_user", "link", "new_identity", "new_email"} => Housed(mem[r].user)
    /\ pc[r] = "new_home" => mem[r].user \in users

PeopleInv ==
    Unerased =>
        /\ \A i \in Identities : identities[i] # Absent => Housed(identities[i])
        /\ \A e \in Emails : emailIndex[e] # Absent => Housed(emailIndex[e])
        /\ \A r \in Requests : Resolving(r)

LEMMA PeopleInit == Init => PeopleInv
<1> SUFFICES ASSUME Init PROVE PeopleInv
  OBVIOUS
<1>1. AtRest(seed)
  BY InitType, GivenFacts DEF TypeInv
<1>2. \A r \in Requests : Resolving(r)
  BY DEF Init, Resolving
<1> QED
  BY <1>1, <1>2 DEF Init, AtRest, PeopleInv, Housed

(* The keys under which resolveIdentity looks.                              *)
LEMMA KeysResolved ==
    ASSUME TypeInv, NEW r \in Requests, pc[r] \in PeoplePcs
    PROVE  /\ IdentityOf(r) \in Identities /\ EmailOf(r) \in Emails \cup {Absent}
           /\ pc[r] \in {"email", "email_user", "link", "new_email"} => EmailOf(r) \in Emails
           /\ call[r].newUser \in Users
<1>1. StageOf(r) /\ WellFormed(call[r]) /\ call[r] \in Call
  BY TypeParts
<1>2. /\ call[r].op \in {"callback", "redirect"}
      /\ call[r].op = "callback" => mem[r].code \in CodeRec /\ mem[r].code.email \in Emails
  BY <1>1 DEF StageOf, Stage
<1>3. IdentityOf(r) \in Identities /\ call[r].newUser \in Users
  BY <1>1, <1>2, AuthAssumption, CallType DEF IdentityOf, ByMail, Is, WellFormed
<1>4. EmailOf(r) \in Emails \cup {Absent}
  BY <1>1, <1>2, CallType DEF EmailOf, ByMail, Is
<1>5. pc[r] \in {"email", "email_user", "link", "new_email"} => EmailOf(r) \in Emails
  BY <1>1, <1>2 DEF EmailOf, ByMail, Is, StageOf, Stage
<1> QED
  BY <1>3, <1>4, <1>5

(* Who is housed stays so, and whoever makes no step is not concerned.      *)
LEMMA PeopleKept ==
    ASSUME TypeInv, NEW q \in Requests, Resolving(q), users \subseteq users', homes \subseteq homes',
           Orphaned(q) \/ (pc'[q] = pc[q] /\ mem'[q] = mem[q])
    PROVE  Resolving(q)'
BY OthersKeep DEF Resolving, Housed

LEMMA ResolvePeople ==
    ASSUME TypeInv, NEW r \in Requests, Unerased, PeopleInv, ResolveIdentity(r)
    PROVE  /\ users \subseteq users' /\ homes \subseteq homes' /\ Resolving(r)'
           /\ \A i \in Identities : identities'[i] # Absent => Housed(identities[i])'
           /\ \A e \in Emails : emailIndex'[e] # Absent => Housed(emailIndex[e])'
<1>1. /\ mem[r] \in Memory /\ StageOf(r) /\ pc[r] \in PeoplePcs
      /\ identities \in [Identities -> Users \cup {Absent}] /\ emailIndex \in [Emails -> Users \cup {Absent}]
  BY TypeParts, PeopleMoves DEF StoresOK
<1>2. /\ \A i \in Identities : identities[i] # Absent => Housed(identities[i])
      /\ \A e \in Emails : emailIndex[e] # Absent => Housed(emailIndex[e])
      /\ Resolving(r)
  BY DEF PeopleInv
<1>3. IdentityOf(r) \in Identities
  BY <1>1, KeysResolved
<1>4. pc[r] \in {"email", "new_email"} => EmailOf(r) \in Emails
  BY <1>1, KeysResolved
<1>5. ASSUME NEW u, Holds(r, [mem[r] EXCEPT !.user = u]) PROVE mem'[r].user = u
  BY <1>1, <1>5, HoldsMoves, MemoryType DEF Fields
<1>6. CASE IdentityGet(r)
  <2>1. /\ pc'[r] \in {"identity_user", "email", "new_user"} /\ Reads
        /\ pc'[r] = "identity_user" => identities[IdentityOf(r)] # Absent
    BY <1>6, GotoMoves DEF IdentityGet
  <2>2. mem'[r].user = identities[IdentityOf(r)]
    BY <1>5, <1>6 DEF IdentityGet
  <2> QED
    BY <1>2, <1>3, <2>1, <2>2 DEF Reads, people, Resolving, Housed
<1>7. CASE EmailGet(r)
  <2>1. /\ pc[r] = "email" /\ pc'[r] \in {"email_user", "new_user"} /\ Reads
        /\ pc'[r] = "email_user" => emailIndex[EmailOf(r)] # Absent
    BY <1>7, GotoMoves DEF EmailGet
  <2>2. mem'[r].user = emailIndex[EmailOf(r)]
    BY <1>5, <1>7 DEF EmailGet
  <2> QED
    BY <1>2, <1>4, <2>1, <2>2 DEF Reads, people, Resolving, Housed
<1>8. CASE IdentityUser(r)
  <2>1. pc'[r] \in {"session_put"} \cup Left /\ Reads
    <3>1. Fails(r) \in Answers
      BY DEF Fails, Answers
    <3> QED
      BY <1>8, <3>1, GotoMoves, RepliesMoves DEF IdentityUser
  <2> QED
    BY <1>2, <2>1 DEF Reads, people, Resolving, Housed, Left, Answers
<1>9. CASE EmailUser(r)
  BY <1>2, <1>9, GotoMoves DEF EmailUser, Reads, people, Resolving, Housed
<1>10. CASE Link(r) \/ NewIdentity(r)
  <2>1. /\ pc[r] \in {"link", "new_identity"} /\ pc'[r] \in {"session_put", "new_email"}
        /\ pc'[r] = "new_email" => pc[r] = "new_identity"
        /\ identities' = [identities EXCEPT ![IdentityOf(r)] = mem[r].user]
        /\ UNCHANGED <<emailIndex, users, homes, mem>>
    BY <1>10, GotoMoves DEF Link, NewIdentity, PutIdentity
  <2> QED
    BY <1>1, <1>2, <2>1 DEF Resolving, Housed
<1>11. CASE NewUser(r)
  <2>1. pc'[r] = "new_home" /\ users' = users \cup {call[r].newUser} /\ UNCHANGED <<identities, emailIndex, homes>>
    BY <1>11, GotoMoves DEF NewUser
  <2>2. mem'[r].user = call[r].newUser
    BY <1>5, <1>11 DEF NewUser
  <2> QED
    BY <1>2, <2>1, <2>2 DEF Resolving, Housed
<1>12. CASE NewHome(r)
  BY <1>2, <1>12, GotoMoves DEF NewHome, Resolving, Housed
<1>13. CASE NewEmail(r)
  <2>1. /\ pc[r] = "new_email" /\ pc'[r] = "session_put" /\ UNCHANGED <<identities, users, homes, mem>>
        /\ emailIndex' \in {emailIndex, [emailIndex EXCEPT ![EmailOf(r)] = mem[r].user]}
    BY <1>13, GotoMoves DEF NewEmail
  <2> QED
    BY <1>1, <1>2, <1>4, <2>1 DEF Resolving, Housed
<1> QED
  BY <1>6, <1>7, <1>8, <1>9, <1>10, <1>11, <1>12, <1>13 DEF ResolveIdentity

LEMMA PeopleNext == TypeInv /\ PeopleInv /\ [Next]_vars => PeopleInv'
<1> SUFFICES ASSUME TypeInv, PeopleInv, [Next]_vars, Unerased' PROVE PeopleInv'
  BY DEF PeopleInv
<1>1. call' = call
  BY NextFrame
<1>2. Unerased
  BY <1>1 DEF Unerased, Is
<1>3. /\ \A i \in Identities : identities[i] # Absent => Housed(identities[i])
      /\ \A e \in Emails : emailIndex[e] # Absent => Housed(emailIndex[e])
      /\ \A r \in Requests : Resolving(r)
  BY <1>2 DEF PeopleInv
<1>4. CASE Idle
  BY <1>3, <1>4 DEF Idle, people, PeopleInv, Resolving, Housed
<1>5. ASSUME NEW r \in Requests, Step(r) PROVE PeopleInv'
  <2>1. \A q \in Requests \ {r} : Orphaned(q) \/ (pc'[q] = pc[q] /\ mem'[q] = mem[q])
    BY <1>5, StepFrame
  <2>2. CASE ResolveIdentity(r)
    <3>1. /\ users \subseteq users' /\ homes \subseteq homes' /\ Resolving(r)'
          /\ \A i \in Identities : identities'[i] # Absent => Housed(identities[i])'
          /\ \A e \in Emails : emailIndex'[e] # Absent => Housed(emailIndex[e])'
      BY <1>2, <2>2, ResolvePeople
    <3> QED
      BY <1>3, <2>1, <3>1, PeopleKept DEF PeopleInv, Housed
  <2>3. CASE ~ResolveIdentity(r)
    <3>1. ~DeleteUserRecords(r)
      <4>1. StageOf(r)
        BY TypeParts
      <4> QED
        BY <1>2, <4>1, EraseMoves DEF StageOf, Stage, Unerased, Is
    <3>2. UNCHANGED people /\ pc'[r] \notin PeoplePcs \ {"identity"}
      <4>1. /\ UNCHANGED people
            /\ \/ pc'[r] \in StartPcs \cup CodePcs \cup {"identity", "parked", "bounce", "take_delete", "taken"}
               \/ pc'[r] \in {"session_index", "handoff_put"} \cup RotatePcs \cup EndPcs \cup ListPcs \cup FillPcs
               \/ pc'[r] \in DevicePcs \cup Left \cup {"take_get", "park", "index_list", "fill_list", "erase_home"}
        BY <1>5, <2>3, <3>1, StepCases, StartMoves, CodeMoves, ParkMoves, SeatMoves, RotateMoves, EndMoves, ListMoves,
           FillMoves, OnDeviceMoves, SendMoves DEF Reads, Local, DevicePcs, Left, StartPcs, SweepPcs, CodePcs, RotatePcs,
           EndPcs
      <4> QED
        BY <4>1 DEF PeoplePcs, StartPcs, SweepPcs, ConsumePcs, ConsumedPcs, RefundPcs, CodePcs, RotatePcs, EndPcs,
           ListPcs, FillPcs, DevicePcs, Left, Answers
    <3>3. Resolving(r)'
      BY <3>2 DEF Resolving, PeoplePcs
    <3> QED
      BY <1>3, <2>1, <3>2, <3>3, PeopleKept DEF people, PeopleInv, Housed
  <2> QED
    BY <2>2, <2>3
<1> QED
  BY <1>4, <1>5, NextCases

LEMMA PeopleInvariant == Spec => [](TypeInv /\ PeopleInv)
BY InitType, NextType, PeopleInit, PeopleNext, PTL DEF Spec

(* Whatever sign-ins come and wherever each of them stops, an identity      *)
(* leads to a user that exists and has an account: resolveIdentity makes    *)
(* the user and the account before it names them.                           *)
THEOREM IdentityHasUser == Spec => []IdentityResolves
<1>1. PeopleInv => IdentityResolves
  BY DEF PeopleInv, IdentityResolves, Housed
<1> QED
  BY <1>1, PeopleInvariant, PTL
-----------------------------------------------------------------------------
(* What is redeemed.  Under an id whose redeemers come one after another,   *)
(* one of them wins, and the wrong ones before it were counted.             *)
(* It has read what it is about to write or delete.                         *)
Reading(p) == pc[p] \in {"code_count", "code_spend", "code_burn", "take_delete"}

Won(p) == pc[p] \in PeoplePcs \cup SeatPcs \cup BouncePcs \cup {"taken"} \/ Redeemed(p)

Guesses(k) == {p \in Requests : Is(p, {"callback"}) /\ call[p].code = k /\ ~call[p].right}
Tried(k) == {p \in Guesses(k) : pc[p] \notin {"send", "code_get", "code_count", "code_burn"}}

Redeeming(k) ==
    Apart(k) =>
        /\ \A p \in Requests : Redeems(p, k) /\ Won(p) =>
            /\ codes[k] = Absent
            /\ \A q \in Requests : Redeems(q, k) => ~Reading(q) /\ (Won(q) => q = p)
            /\ Cardinality(Guesses(k) \cap call[p].after) < MaxCodeAttempts
        /\ codes[k] # Absent => Cardinality(Tried(k)) <= codes[k].attempts
        /\ \A p \in Requests : Redeems(p, k) /\ pc[p] \in {"code_count", "code_spend"} =>
            Cardinality(Tried(k)) <= mem[p].code.attempts

RedeemInv == \A k \in Codes : Redeeming(k)

LEMMA GuessesFinite ==
    ASSUME NEW k
    PROVE  /\ IsFiniteSet(Guesses(k)) /\ Tried(k) \subseteq Guesses(k)
           /\ \A T \in SUBSET Guesses(k) : IsFiniteSet(T) /\ Cardinality(T) \in Nat
<1>1. IsFiniteSet(Requests) /\ Guesses(k) \subseteq Requests
  BY AuthAssumption DEF Guesses
<1> QED
  BY <1>1, FS_Subset, FS_CardinalityType DEF Tried

(* One redeemer at a time.                                                  *)
LEMMA OthersAtRest ==
    ASSUME TypeInv, InOrder, NEW k, Apart(k), NEW r \in Requests, NEW q \in Requests \ {r},
           Redeems(r, k), Redeems(q, k), pc[r] \notin Answers \cup {"send"}
    PROVE  pc[q] \in Answers \cup {"send"}
BY DEF Apart, Overlap, InOrder

(* An id is drawn and stored before anybody presents it.                    *)
LEMMA ParkedFirst ==
    ASSUME TypeInv, InOrder, NEW d \in Requests, call[d].op \in {"start", "providers", "redirect"},
           pc[d] \notin Answers, NEW q \in Requests, Redeems(q, call[d].parks)
    PROVE  pc[q] = "send" /\ q # d
<1>1. FreshIds(seed, call) /\ WellFormed(call[d])
  BY TypeParts, GivenFacts
<1>2. q # d
  BY <1>1, AuthAssumption DEF WellFormed, Redeems, Is
<1>3. d \in call[q].after
  BY <1>1, <1>2 DEF FreshIds, Redeems, Is
<1> QED
  BY <1>2, <1>3 DEF InOrder

(* What happens to an id by a request that does not redeem it: it may       *)
(* expire, and it may be drawn, before it is redeemed.                      *)
Drawn(k) ==
    /\ codes'[k].attempts = 0
    /\ \A q \in Requests : Redeems(q, k) => pc[q] = "send"

LEMMA CodeElsewhere ==
    ASSUME TypeInv, InOrder, NEW r \in Requests, Step(r), NEW k \in Codes, ~Redeems(r, k)
    PROVE  codes'[k] \in {codes[k], Absent} \/ Drawn(k)
<1>1. /\ codes \in [Codes -> CodeRec \cup {Absent}] /\ StageOf(r) /\ mem[r] \in Memory
      /\ pc[r] \notin Answers
  BY TypeParts, StepFrame DEF StoresOK
<1>2. ASSUME NEW rec, codes' = [codes EXCEPT ![call[r].parks] = rec], rec.attempts = 0,
             call[r].op \in {"start", "providers", "redirect"}
      PROVE  codes'[k] \in {codes[k], Absent} \/ Drawn(k)
  BY <1>1, <1>2, ParkedFirst DEF Drawn
<1>3. CASE StartEmail(r)
  <2>1. call[r].op = "start"
    BY <1>1, <1>3, StartMoves DEF StageOf, Stage
  <2>2. CASE StartLimited(r)
    <3>1. UNCHANGED codes
      BY <2>2, ConsumeMoves, RefundMoves DEF StartLimited, AllowSend, RefundSend, SendMail, AnswerStart
    <3> QED
      BY <3>1
  <2>3. CASE SweepList(r) \/ SweepRead(r)
    BY <2>3 DEF SweepList, SweepRead, Reads
  <2>4. CASE SweepDrop(r)
    BY <1>1, <2>4 DEF SweepDrop, PutCode
  <2>5. CASE StartChallenge(r)
    <3> DEFINE rec == [email |-> call[r].email, attempts |-> 0, gives |-> Absent]
    <3>1. codes' = [codes EXCEPT ![call[r].parks] = rec] /\ rec.attempts = 0
      BY <2>5 DEF StartChallenge, PutCode
    <3> HIDE DEF rec
    <3> QED
      BY <1>2, <2>1, <3>1
  <2> QED
    BY <1>3, <2>2, <2>3, <2>4, <2>5 DEF StartEmail
<1>4. CASE RedeemChallenge(r)
  <2>1. Redeems(r, call[r].code)
    BY <1>1, <1>4, CodeMoves DEF StageOf, Stage, Redeems, Is
  <2>2. codes'[k] = codes[k]
    BY <1>1, <1>4, <2>1 DEF RedeemChallenge, CodeGet, CodeBurn, CodeBurned, CodeCount, CodeCounted, CodeSpend,
       PutCode, Reads
  <2> QED
    BY <2>2
<1>5. CASE Parking(r)
  <2>1. CASE Park(r)
    <3>1. call[r].op = "providers"
      BY <1>1, <2>1 DEF Park, PutCode, Goto, StageOf, Stage
    <3> DEFINE rec == [email |-> Absent, attempts |-> 0, gives |-> Absent]
    <3>2. codes' = [codes EXCEPT ![call[r].parks] = rec] /\ rec.attempts = 0
      BY <2>1 DEF Park, PutCode
    <3> HIDE DEF rec
    <3> QED
      BY <1>2, <3>1, <3>2
  <2>2. CASE HandoffPut(r)
    <3>1. call[r].op = "redirect"
      BY <1>1, <2>2 DEF HandoffPut, PutCode, Goto, StageOf, Stage, BouncePcs
    <3> DEFINE rec == [email |-> Absent, attempts |-> 0, gives |-> mem[r].cred]
    <3>2. codes' = [codes EXCEPT ![call[r].parks] = rec] /\ rec.attempts = 0
      BY <2>2 DEF HandoffPut, PutCode
    <3> HIDE DEF rec
    <3> QED
      BY <1>2, <3>1, <3>2
  <2>3. CASE TakeDelete(r)
    <3>1. Redeems(r, call[r].code)
      BY <1>1, <2>3 DEF TakeDelete, PutCode, Goto, StageOf, Stage, TakePcs, Redeems, Is
    <3> QED
      BY <1>1, <2>3, <3>1 DEF TakeDelete, PutCode
  <2>4. CASE Parked(r) \/ TakeGet(r) \/ Taken(r) \/ Bounce(r)
    BY <2>4 DEF Parked, TakeGet, Taken, Bounce, Reads
  <2> QED
    BY <1>5, <2>1, <2>2, <2>3, <2>4 DEF Parking
<1>6. CASE ~StartEmail(r) /\ ~RedeemChallenge(r) /\ ~Parking(r)
  <2>1. UNCHANGED codes
    BY <1>6, StepCases, PeopleMoves, SeatMoves, RotateMoves, EndMoves, ListMoves, FillMoves, EraseMoves,
       OnDeviceMoves, SendMoves DEF Reads, Local
  <2> QED
    BY <2>1
<1> QED
  BY <1>3, <1>4, <1>5, <1>6

(* Whoever does not redeem an id, and whatever is nobody's step, leaves its *)
(* redeemers alone.                                                         *)
LEMMA RedeemersKept ==
    ASSUME TypeInv, InOrder, NEW k \in Codes, Redeeming(k), call' = call,
           \A q \in Requests : Redeems(q, k) => Orphaned(q) \/ (pc'[q] = pc[q] /\ mem'[q] = mem[q]),
           codes'[k] \in {codes[k], Absent} \/ Drawn(k)
    PROVE  Redeeming(k)'
<1> SUFFICES ASSUME Apart(k)' PROVE Redeeming(k)'
  BY DEF Redeeming
<1>1. Apart(k) /\ Guesses(k)' = Guesses(k) /\ \A q \in Requests : Redeems(q, k)' = Redeems(q, k)
  BY DEF Apart, Redeems, Overlap, Guesses, Is
<1>2. /\ \A p \in Requests : Redeems(p, k) /\ Won(p) =>
            /\ codes[k] = Absent
            /\ \A q \in Requests : Redeems(q, k) => ~Reading(q) /\ (Won(q) => q = p)
            /\ Cardinality(Guesses(k) \cap call[p].after) < MaxCodeAttempts
      /\ codes[k] # Absent => Cardinality(Tried(k)) <= codes[k].attempts
      /\ \A p \in Requests : Redeems(p, k) /\ pc[p] \in {"code_count", "code_spend"} =>
            Cardinality(Tried(k)) <= mem[p].code.attempts
  BY <1>1 DEF Redeeming
<1>3. ASSUME NEW q \in Requests, Redeems(q, k)
      PROVE  /\ pc'[q] = pc[q] /\ mem'[q].code = mem[q].code
             /\ mem'[q].cred = mem[q].cred /\ mem'[q].answer = mem[q].answer
  BY <1>3, OthersKeep
<1>4. ASSUME NEW q \in Requests, Redeems(q, k) PROVE Won(q)' = Won(q) /\ Reading(q)' = Reading(q)
  BY <1>3, <1>4 DEF Won, Reading, Redeemed, SignedIn, SignsIn, Is
<1>5. Tried(k)' = Tried(k)
  BY <1>1, <1>3 DEF Tried, Guesses, Redeems, Is
<1>6. CASE codes'[k] \in {codes[k], Absent}
  BY <1>1, <1>2, <1>3, <1>4, <1>5, <1>6 DEF Redeeming
<1>7. CASE Drawn(k)
  <2>1. ASSUME NEW q \in Requests, Redeems(q, k) PROVE ~Won(q) /\ ~Reading(q) /\ q \notin Tried(k)
    <3>1. pc[q] = "send" /\ mem[q] = Blank
      BY <1>7, <2>1, TypeParts DEF Drawn, StageOf, Stage
    <3> QED
      BY <3>1 DEF Won, Reading, Tried, Redeemed, SignedIn, Blank, PeoplePcs, SeatPcs, BouncePcs
  <2>2. Tried(k) = {}
    BY <2>1 DEF Tried, Guesses, Redeems, Is
  <2>3. Cardinality(Tried(k)) = 0
    BY <2>2, FS_EmptySet
  <2>4. \A q \in Requests : Redeems(q, k) => pc[q] = "send"
    BY <1>7 DEF Drawn
  <2> QED
    BY <1>1, <1>3, <1>4, <1>5, <1>7, <2>1, <2>3, <2>4 DEF Redeeming, Drawn
<1> QED
  BY <1>6, <1>7
(* A call of a redeemer that neither reads nor writes the id, and after     *)
(* which it has not won unless it had.                                      *)
Plain(r, k) ==
    /\ codes'[k] = codes[k] /\ (Won(r)' => Won(r)) /\ ~Reading(r)'
    /\ Is(r, {"callback"}) /\ pc'[r] # "code_get" => pc[r] \notin {"send", "code_get", "code_count", "code_burn"}

LEMMA RedeemedKept ==
    ASSUME NEW r, given' = given, mem'[r].cred = mem[r].cred,
           mem'[r].answer = mem[r].answer \/ mem'[r].answer # "200" \/ ~Is(r, {"collect"}),
           Redeemed(r)'
    PROVE  Redeemed(r)
BY DEF given, Redeemed, SignedIn, SignsIn, Is

LEMMA DeviceRedeems ==
    ASSUME TypeInv, NEW r \in Requests, NEW k \in Codes, Redeems(r, k), OnDeviceStep(r)
    PROVE  Plain(r, k)
<1>1. mem[r] \in Memory /\ StageOf(r) /\ call[r].op \in {"callback", "collect", "redirect"}
  BY TypeParts DEF Redeems, Is
<1>2. Local /\ given' = given /\ UNCHANGED codes
  BY OnDeviceMoves DEF Local
<1>3. pc[r] \notin {"use", "joined", "signout", "restart", "clear", "rotate_get", "end_get"}
  BY <1>1 DEF StageOf, Stage, RotatePcs, EndPcs
<1>4. LoseAnswer(r) \/ Adopt(r) \/ Persist(r) \/ Report(r) \/ Settle(r) \/ Abandoned(r)
  BY <1>1, <1>3 DEF OnDeviceStep, UseToken, Joined, LoseRequest, SignOut, Clear, Restart, Goto, Refused401, Is
<1>5. /\ mem'[r].cred = mem[r].cred
      /\ mem'[r].answer = mem[r].answer \/ mem'[r].answer # "200"
  <2>1. CASE LoseAnswer(r)
    <3> DEFINE yes == TRUE
    <3>1. mem'[r] = [mem[r] EXCEPT !.answer = "null", !.lost = yes]
      BY <2>1, HoldsMoves DEF LoseAnswer
    <3> HIDE DEF yes
    <3> QED
      BY <1>1, <3>1, MemoryType DEF Fields
  <2>2. CASE ~LoseAnswer(r)
    BY <1>4, <2>2 DEF Adopt, Persist, Report, Settle, Abandoned
  <2> QED
    BY <2>1, <2>2
<1>6. Redeemed(r)' => Redeemed(r)
  BY <1>2, <1>5, RedeemedKept
<1>7. pc[r] \in {"back", "persist", "settle"} /\ pc'[r] \in {"persist", "settle"} \cup Answers
  <2>1. mem[r].answer \in Answers
    BY <1>1, MemoryType
  <2> QED
    BY <1>3, <1>4, <2>1, GotoMoves DEF LoseAnswer, Adopt, Persist, Report, Settle, Abandoned, Answers
<1> QED
  BY <1>2, <1>6, <1>7 DEF Plain, Won, Reading, PeoplePcs, SeatPcs, BouncePcs, Answers

LEMMA SendRedeems ==
    ASSUME TypeInv, NEW r \in Requests, NEW k \in Codes, Redeems(r, k), Send(r)
    PROVE  Plain(r, k)
<1>1. mem[r] \in Memory /\ mem[r] = Blank /\ call[r].op \in {"callback", "collect", "redirect"}
  BY TypeParts, SendMoves DEF StageOf, Stage, Redeems, Is
<1> DEFINE cred == IF Is(r, {"refresh", "revoke"}) THEN [session |-> call[r].session, secret |-> call[r].secret]
                   ELSE Absent
<1>2. cred = Absent
  BY <1>1 DEF Is
<1>3. mem'[r] = [mem[r] EXCEPT !.cred = cred]
  BY HoldsMoves DEF Send
<1> HIDE DEF cred
<1>4. mem'[r].cred = Absent /\ mem'[r].answer = "null"
  BY <1>1, <1>2, <1>3 DEF Blank
<1>5. UNCHANGED <<codes, call>> /\ pc'[r] \in {"code_get", "take_get"} /\ pc[r] = "send"
  BY <1>1, GotoMoves DEF Send, Reads, given, FirstStep
<1>6. ~Redeemed(r)'
  BY <1>4 DEF Redeemed, SignedIn
<1>7. ~Won(r)' /\ ~Reading(r)'
  BY <1>5, <1>6 DEF Won, Reading, PeoplePcs, SeatPcs, BouncePcs
<1>8. pc'[r] = "take_get" => call[r].op # "callback"
  BY <1>1, GotoMoves DEF Send, FirstStep
<1> QED
  BY <1>5, <1>7, <1>8 DEF Plain, Is
LEMMA SignInRedeems ==
    ASSUME TypeInv, NEW r \in Requests, NEW k \in Codes, Redeems(r, k),
           \/ ResolveIdentity(r) \/ IssueTokens(r) \/ Taken(r) \/ HandoffPut(r) \/ Bounce(r)
           \/ CodeBurned(r) \/ CodeCounted(r)
    PROVE  Plain(r, k)
<1>1. /\ mem[r] \in Memory /\ StageOf(r) /\ WellFormed(call[r])
      /\ codes \in [Codes -> CodeRec \cup {Absent}] /\ given' = given
  BY TypeParts, PeopleMoves, SeatMoves DEF StoresOK, Taken, HandoffPut, Bounce, CodeBurned, CodeCounted, PutCode, Reads
<1>2. CASE ResolveIdentity(r) \/ IssueTokens(r)
  <2>1. /\ UNCHANGED codes /\ pc[r] \in PeoplePcs \cup SeatPcs
        /\ pc'[r] \in PeoplePcs \cup {"session_put", "session_index", "handoff_put"} \cup Left
    BY <1>2, PeopleMoves, SeatMoves
  <2>2. Won(r) /\ pc[r] \notin {"send", "code_get", "code_count", "code_burn"} /\ ~Reading(r)'
    BY <2>1 DEF Won, Reading, PeoplePcs, SeatPcs, Left, Answers
  <2> QED
    BY <2>1, <2>2 DEF Plain
<1>3. CASE Taken(r) \/ Bounce(r)
  <2>1. UNCHANGED codes /\ pc[r] \in {"taken", "bounce"}
    BY <1>3, RepliesMoves, GotoMoves DEF Taken, Bounce, Reads, Replies, Goto
  <2>2. Parking(r)
    BY <1>3 DEF Parking
  <2>3. pc'[r] \in {"identity"} \cup Left
    <3>1. Refused(r) \in Answers /\ "200" \in Answers /\ "302" \in Answers
      BY DEF Refused, Answers
    <3> DEFINE n == [mem[r] EXCEPT !.cred = mem[r].code.gives]
    <3>2. \/ Replies(r, "taken", Refused(r), mem[r])
          \/ Goto(r, "taken", "identity")
          \/ Replies(r, "taken", "200", n)
          \/ Replies(r, "bounce", "302", mem[r])
      BY <1>3 DEF Taken, Bounce
    <3> HIDE DEF n
    <3> QED
      BY <3>1, <3>2, RepliesMoves, GotoMoves
  <2>4. Won(r) /\ pc[r] \notin {"send", "code_get", "code_count", "code_burn"} /\ ~Reading(r)'
    BY <2>1, <2>3 DEF Won, Reading, BouncePcs, Left, Answers
  <2> QED
    BY <2>1, <2>4 DEF Plain
<1>4. CASE HandoffPut(r)
  <2>1. pc[r] = "handoff_put" /\ pc'[r] = "bounce"
    BY <1>4, GotoMoves DEF HandoffPut, PutCode
  <2>2. call[r].op = "redirect"
    BY <1>1, <2>1 DEF StageOf, Stage, BouncePcs
  <2>3. k # call[r].parks
    BY <1>1, <2>2, AuthAssumption DEF WellFormed, Redeems
  <2>4. codes'[k] = codes[k]
    BY <1>1, <1>4, <2>3 DEF HandoffPut, PutCode
  <2> QED
    BY <2>1, <2>2, <2>4 DEF Plain, Won, Reading, BouncePcs, Is
<1>5. ASSUME NEW a \in {"400", "401"}, NEW from \in {"code_burned", "code_counted"},
             Replies(r, from, a, mem[r]), UNCHANGED codes
      PROVE  Plain(r, k)
  <2>0. a \in Answers
    BY DEF Answers
  <2>1. pc[r] \in {"code_burned", "code_counted"} /\ pc'[r] \in Left /\ mem'[r] = [mem[r] EXCEPT !.answer = a]
    BY <1>5, <2>0, RepliesMoves
  <2>2. mem'[r].cred = mem[r].cred /\ mem'[r].answer # "200"
    BY <1>1, <1>5, <2>1, MemoryType DEF Fields
  <2>3. Redeemed(r)' => Redeemed(r)
    BY <1>1, <2>2, RedeemedKept
  <2> QED
    BY <1>5, <2>1, <2>3 DEF Plain, Won, Reading, PeoplePcs, SeatPcs, BouncePcs, Left, Answers
<1>6. CASE CodeBurned(r) \/ CodeCounted(r)
  BY <1>5, <1>6 DEF CodeBurned, CodeCounted, Reads
<1> QED
  BY <1>2, <1>3, <1>4, <1>6

(* A plain call of a redeemer changes nothing for the id.                   *)
LEMMA PlainKept ==
    ASSUME TypeInv, InOrder, NEW k \in Codes, Redeeming(k), NEW r \in Requests, Step(r), Redeems(r, k), Plain(r, k)
    PROVE  Redeeming(k)'
<1> SUFFICES ASSUME Apart(k)' PROVE Redeeming(k)'
  BY DEF Redeeming
<1>0. call' = call
  BY StepFrame DEF given
<1>1. /\ Apart(k) /\ Guesses(k)' = Guesses(k)
      /\ \A q \in Requests : Redeems(q, k)' = Redeems(q, k) /\ (Is(q, {"callback"}))' = Is(q, {"callback"})
  BY <1>0 DEF Apart, Redeems, Overlap, Guesses, Is
<1>2. /\ \A p \in Requests : Redeems(p, k) /\ Won(p) =>
            /\ codes[k] = Absent
            /\ \A q \in Requests : Redeems(q, k) => ~Reading(q) /\ (Won(q) => q = p)
            /\ Cardinality(Guesses(k) \cap call[p].after) < MaxCodeAttempts
      /\ codes[k] # Absent => Cardinality(Tried(k)) <= codes[k].attempts
      /\ \A p \in Requests : Redeems(p, k) /\ pc[p] \in {"code_count", "code_spend"} =>
            Cardinality(Tried(k)) <= mem[p].code.attempts
  BY <1>1 DEF Redeeming
<1>3. ASSUME NEW q \in Requests \ {r}
      PROVE  /\ pc'[q] = pc[q] /\ mem'[q].code = mem[q].code
             /\ mem'[q].cred = mem[q].cred /\ mem'[q].answer = mem[q].answer
  BY StepFrame, OthersKeep
<1>4. ASSUME NEW q \in Requests \ {r} PROVE Won(q)' = Won(q) /\ Reading(q)' = Reading(q)
  BY <1>0, <1>3 DEF Won, Reading, Redeemed, SignedIn, SignsIn, Is
<1>5. Tried(k)' \subseteq Tried(k)
  <2>1. \A q \in Requests \ {r} : pc'[q] = pc[q]
    BY <1>3
  <2>2. ASSUME NEW q \in Guesses(k), q \in Tried(k)' PROVE q \in Tried(k)
    <3>1. q \in Requests /\ Is(q, {"callback"})
      BY DEF Guesses
    <3> QED
      BY <2>1, <2>2, <3>1 DEF Tried, Plain
  <2> QED
    BY <1>1, <2>2 DEF Tried
<1>6. Cardinality(Tried(k)') <= Cardinality(Tried(k)) /\ Cardinality(Tried(k)) \in Nat /\ Cardinality(Tried(k)') \in Nat
  BY <1>1, <1>5, GuessesFinite, FS_Subset
<1>7. /\ codes'[k] = codes[k] /\ (Won(r)' => Won(r)) /\ ~Reading(r)' /\ pc'[r] \notin {"code_count", "code_spend"}
  BY DEF Plain, Reading
<1>8. codes[k] # Absent => codes[k].attempts \in Nat
  BY AuthAssumption DEF TypeInv, StoresOK, CodeRec
<1>9. ASSUME NEW p \in Requests, Redeems(p, k), pc[p] \in {"code_count", "code_spend"} PROVE mem[p].code.attempts \in Nat
  BY <1>9, TypeParts, AuthAssumption DEF StageOf, Stage, CodeRec
<1>10. codes'[k] # Absent => Cardinality(Tried(k)') <= codes'[k].attempts
  BY <1>2, <1>6, <1>7, <1>8
<1>11. ASSUME NEW p \in Requests, Redeems(p, k), pc'[p] \in {"code_count", "code_spend"}
       PROVE  Cardinality(Tried(k)') <= mem'[p].code.attempts
  BY <1>2, <1>3, <1>6, <1>7, <1>9, <1>11
<1>12. ASSUME NEW p \in Requests, Redeems(p, k), Won(p)'
       PROVE  /\ codes'[k] = Absent
              /\ \A q \in Requests : Redeems(q, k) => ~Reading(q)' /\ (Won(q)' => q = p)
              /\ Cardinality(Guesses(k) \cap call[p].after) < MaxCodeAttempts
  BY <1>2, <1>4, <1>7, <1>12
<1> QED
  BY <1>0, <1>1, <1>10, <1>11, <1>12 DEF Redeeming
(* A call of the one redeemer of an id under way.                           *)
LEMMA TurnKept ==
    ASSUME TypeInv, InOrder, NEW k \in Codes, Redeeming(k), Apart(k),
           NEW r \in Requests, Step(r), Redeems(r, k), pc[r] # "send",
           Won(r)' => \/ Won(r)
                      \/ /\ Reading(r) /\ codes'[k] = Absent
                         /\ Cardinality(Guesses(k) \cap call[r].after) < MaxCodeAttempts,
           codes'[k] \in {codes[k], Absent} \/ (Reading(r) /\ ~Won(r)'),
           Reading(r)' => codes[k] # Absent /\ codes'[k] = codes[k],
           codes'[k] # Absent => Cardinality(Tried(k)') <= codes'[k].attempts,
           pc'[r] \in {"code_count", "code_spend"} => Cardinality(Tried(k)') <= mem'[r].code.attempts
    PROVE  Redeeming(k)'
<1>0. call' = call /\ pc[r] \notin Answers
  BY StepFrame DEF given
<1>1. Guesses(k)' = Guesses(k) /\ \A q \in Requests : Redeems(q, k)' = Redeems(q, k)
  BY <1>0 DEF Redeems, Guesses, Is
<1>2. \A p \in Requests : Redeems(p, k) /\ Won(p) =>
            /\ codes[k] = Absent
            /\ \A q \in Requests : Redeems(q, k) => ~Reading(q) /\ (Won(q) => q = p)
            /\ Cardinality(Guesses(k) \cap call[p].after) < MaxCodeAttempts
  BY DEF Redeeming
<1>3. ASSUME NEW q \in Requests \ {r}, Redeems(q, k)
      PROVE  pc'[q] = pc[q] /\ pc[q] \in Answers \cup {"send"}
             /\ mem'[q].cred = mem[q].cred /\ mem'[q].answer = mem[q].answer
  BY <1>0, <1>3, StepFrame, OthersKeep, OthersAtRest
<1>4. ASSUME NEW q \in Requests \ {r}, Redeems(q, k)
      PROVE  Won(q)' = Won(q) /\ ~Reading(q)' /\ pc'[q] \notin {"code_count", "code_spend"}
  BY <1>0, <1>3, <1>4 DEF Won, Reading, Redeemed, SignedIn, SignsIn, Is, Answers
<1>5. ASSUME NEW p \in Requests, Redeems(p, k), pc'[p] \in {"code_count", "code_spend"}
      PROVE  Cardinality(Tried(k)') <= mem'[p].code.attempts
  BY <1>4, <1>5
<1>6. ASSUME NEW p \in Requests, Redeems(p, k), Won(p)'
      PROVE  /\ codes'[k] = Absent
             /\ \A q \in Requests : Redeems(q, k) => ~Reading(q)' /\ (Won(q)' => q = p)
             /\ Cardinality(Guesses(k) \cap call[p].after) < MaxCodeAttempts
  <2>1. CASE Won(p)
    BY <1>2, <1>4, <1>6, <2>1
  <2>2. CASE ~Won(p)
    <3>1. p = r /\ Reading(r)
      BY <1>4, <1>6, <2>2
    <3>2. \A q \in Requests : Redeems(q, k) => ~Won(q)
      BY <1>2, <3>1
    <3> QED
      BY <1>4, <1>6, <2>2, <3>1, <3>2
  <2> QED
    BY <2>1, <2>2
<1> QED
  BY <1>0, <1>1, <1>5, <1>6 DEF Redeeming

(* The wrong ones before a redeemer that is under way were tried.           *)
LEMMA BeforeTried ==
    ASSUME TypeInv, InOrder, NEW k, NEW r \in Requests, pc[r] # "send"
    PROVE  /\ Guesses(k) \cap call[r].after \subseteq Tried(k)
           /\ Cardinality(Guesses(k) \cap call[r].after) <= Cardinality(Tried(k))
<1>1. Guesses(k) \cap call[r].after \subseteq Tried(k)
  BY DEF InOrder, Tried, Answers
<1> QED
  BY <1>1, GuessesFinite, FS_Subset

(* Only a mailed code is guessed at.                                        *)
LEMMA NoGuesses ==
    ASSUME TypeInv, NEW r \in Requests, call[r].op \in {"redirect", "collect"}
    PROVE  Guesses(call[r].code) = {} /\ Cardinality(Guesses(call[r].code) \cap call[r].after) = 0
<1>1. WellFormed(call[r]) /\ \A q \in Requests : WellFormed(call[q])
  BY TypeParts
<1>2. Guesses(call[r].code) = {}
  BY <1>1, AuthAssumption DEF WellFormed, Guesses, Is
<1> QED
  BY <1>2, FS_EmptySet

LEMMA CodeTurn ==
    ASSUME TypeInv, InOrder, NEW k \in Codes, Redeeming(k), Apart(k),
           NEW r \in Requests, Step(r), Redeems(r, k), RedeemChallenge(r), ~CodeBurned(r), ~CodeCounted(r)
    PROVE  Redeeming(k)'
<1>1. /\ mem[r] \in Memory /\ StageOf(r) /\ WellFormed(call[r]) /\ codes \in [Codes -> CodeRec \cup {Absent}]
      /\ pc[r] \in CodePcs /\ given' = given /\ call' = call
  BY TypeParts, CodeMoves DEF StoresOK, given
<1>2. call[r].op = "callback" /\ call[r].code = k
  BY <1>1 DEF StageOf, Stage, Redeems
<1>3. /\ \A p \in Requests : Redeems(p, k) /\ Won(p) =>
            codes[k] = Absent /\ \A q \in Requests : Redeems(q, k) => ~Reading(q) /\ (Won(q) => q = p)
      /\ codes[k] # Absent => Cardinality(Tried(k)) <= codes[k].attempts
      /\ pc[r] \in {"code_count", "code_spend"} => Cardinality(Tried(k)) <= mem[r].code.attempts
  BY DEF Redeeming
<1>4. Guesses(k)' = Guesses(k) /\ \A q \in Requests \ {r} : pc'[q] = pc[q]
  BY <1>1, CodeMoves DEF Guesses, Is, Mine
<1>5. ASSUME r \notin Guesses(k) \/ pc'[r] \in {"code_count", "code_burn"}
      PROVE  Cardinality(Tried(k)') <= Cardinality(Tried(k))
  <2>1. Tried(k)' \subseteq Tried(k)
    <3>1. ASSUME NEW q \in Guesses(k), q \in Tried(k)' PROVE q \in Tried(k)
      <4>1. q # r
        BY <1>5, <3>1 DEF Tried
      <4>2. q \in Requests
        BY DEF Guesses
      <4> QED
        BY <1>4, <3>1, <4>1, <4>2 DEF Tried
    <3> QED
      BY <1>4, <3>1 DEF Tried
  <2> QED
    BY <2>1, GuessesFinite, FS_Subset
<1>10. Cardinality(Tried(k)') \in Nat /\ Cardinality(Tried(k)) \in Nat
  <2>1. Tried(k)' \subseteq Guesses(k)
    BY <1>4 DEF Tried
  <2> QED
    BY <2>1, GuessesFinite
<1>6. CASE CodeGet(r)
  <2> DEFINE m == [mem[r] EXCEPT !.code = codes[k]]
             v == CodeVerdict(r, codes[k])
  <2>1. /\ pc[r] = "code_get" /\ UNCHANGED codes
        /\ \/ v = "400" /\ Replies(r, "code_get", "400", m)
           \/ v # "400" /\ Goto(r, "code_get", v) /\ Holds(r, m)
    BY <1>2, <1>6 DEF CodeGet, Reads
  <2>2. m.code = codes[k] /\ m.cred = mem[r].cred /\ DOMAIN m = Fields
    BY <1>1, MemoryType DEF Fields
  <2> HIDE DEF m
  <2>3. /\ (v = "400" <=> codes[k] = Absent) /\ v \in {"400", "code_burn", "code_count", "code_spend"}
        /\ v = "code_spend" => call[r].right
    BY DEF CodeVerdict, WrongCode
  <2> HIDE DEF v
  <2>4. CASE v = "400"
    <3>0. "400" \in Answers /\ Replies(r, "code_get", "400", m)
      BY <2>1, <2>4 DEF Answers
    <3>1. pc'[r] \in Left /\ mem'[r] = [m EXCEPT !.answer = "400"]
      BY <3>0, RepliesMoves
    <3>2. Won(r)' => Won(r)
      <4>1. mem'[r].cred = mem[r].cred /\ mem'[r].answer # "200"
        BY <2>2, <3>1 DEF Fields
      <4> QED
        BY <1>1, <3>1, <4>1, RedeemedKept DEF Won, PeoplePcs, SeatPcs, BouncePcs, Left, Answers
    <3>3. ~Reading(r)' /\ pc'[r] \notin {"code_count", "code_spend"}
      BY <3>1 DEF Reading, Left, Answers
    <3> QED
      BY <2>1, <2>3, <2>4, <3>2, <3>3, TurnKept
  <2>5. CASE v # "400"
    <3>1. pc'[r] = v /\ mem'[r] = m
      BY <2>1, <2>5, GotoMoves, HoldsMoves
    <3>2. Won(r)' => Won(r)
      <4>1. mem'[r].cred = mem[r].cred /\ ~Is(r, {"collect"})
        BY <1>2, <2>2, <3>1 DEF Is
      <4> QED
        BY <1>1, <2>3, <3>1, <4>1, RedeemedKept DEF Won, PeoplePcs, SeatPcs, BouncePcs
    <3>3. Cardinality(Tried(k)') <= Cardinality(Tried(k))
      BY <1>5, <2>3, <2>5, <3>1 DEF Guesses
    <3>4. codes[k] # Absent /\ codes[k].attempts \in Nat
      BY <1>1, <2>3, <2>5, AuthAssumption DEF CodeRec
    <3>5. Cardinality(Tried(k)') <= codes[k].attempts
      BY <1>3, <1>10, <3>3, <3>4
    <3> QED
      BY <2>1, <2>2, <3>1, <3>2, <3>4, <3>5, TurnKept
  <2> QED
    BY <2>4, <2>5
<1>7. CASE CodeBurn(r)
  <2>1. pc[r] = "code_burn" /\ pc'[r] = "code_burned" /\ codes'[k] = Absent /\ mem' = mem
    BY <1>1, <1>2, <1>7, GotoMoves DEF CodeBurn, PutCode
  <2>2. Won(r)' => Won(r)
    BY <1>1, <2>1, RedeemedKept DEF Won, PeoplePcs, SeatPcs, BouncePcs
  <2> QED
    BY <2>1, <2>2, TurnKept DEF Reading
<1>8. CASE CodeCount(r)
  <2> DEFINE rec == [mem[r].code EXCEPT !.attempts = @ + 1]
  <2>1. pc[r] = "code_count" /\ pc'[r] = "code_counted" /\ codes'[k] = rec /\ mem' = mem
    BY <1>1, <1>2, <1>8, GotoMoves DEF CodeCount, PutCode
  <2>2. mem[r].code \in CodeRec /\ mem[r].code.attempts \in Nat
    BY <1>1, <2>1, AuthAssumption DEF StageOf, Stage, CodeRec
  <2>3. rec.attempts = mem[r].code.attempts + 1
    BY <2>2 DEF CodeRec
  <2> HIDE DEF rec
  <2>4. ~Won(r)
    BY <1>3, <2>1 DEF Reading
  <2>5. ~Won(r)' /\ ~Reading(r)'
    <3>1. Won(r)' => Won(r)
      BY <1>1, <2>1, RedeemedKept DEF Won, PeoplePcs, SeatPcs, BouncePcs
    <3> QED
      BY <2>1, <2>4, <3>1 DEF Reading
  <2>6. Tried(k)' \subseteq Tried(k) \cup {r}
    <3>1. ASSUME NEW q \in Guesses(k), q \in Tried(k)', q # r PROVE q \in Tried(k)
      BY <1>4, <3>1 DEF Tried, Guesses
    <3> QED
      BY <1>4, <3>1 DEF Tried
  <2>7. Cardinality(Tried(k)') <= Cardinality(Tried(k)) + 1
    <3>1. IsFiniteSet(Tried(k)) /\ Cardinality(Tried(k)) \in Nat
      BY GuessesFinite
    <3>2. IsFiniteSet(Tried(k) \cup {r}) /\ Cardinality(Tried(k) \cup {r}) <= Cardinality(Tried(k)) + 1
      <4> DEFINE n == Cardinality(Tried(k))
      <4>1. IsFiniteSet(Tried(k) \cup {r}) /\ Cardinality(Tried(k) \cup {r}) \in {n, n + 1}
        BY <3>1, FS_AddElement
      <4>2. n \in Nat
        BY <3>1
      <4> HIDE DEF n
      <4>3. Cardinality(Tried(k) \cup {r}) <= n + 1
        BY <4>1, <4>2
      <4> QED
        BY <4>1, <4>3 DEF n
    <3>3. Cardinality(Tried(k)') <= Cardinality(Tried(k) \cup {r}) /\ Cardinality(Tried(k)') \in Nat
          /\ Cardinality(Tried(k) \cup {r}) \in Nat
      BY <2>6, <3>2, FS_Subset, FS_CardinalityType
    <3> QED
      BY <3>1, <3>2, <3>3
  <2>8. Cardinality(Tried(k)') <= rec.attempts
    <3>1. Cardinality(Tried(k)') \in Nat /\ Cardinality(Tried(k)) \in Nat
      BY <1>10
    <3> QED
      BY <1>3, <2>1, <2>2, <2>3, <2>7, <3>1
  <2> QED
    BY <2>1, <2>5, <2>8, TurnKept DEF Reading
<1>9. CASE CodeSpend(r)
  <2>1. pc[r] = "code_spend" /\ pc'[r] = "identity" /\ codes'[k] = Absent /\ mem' = mem
    BY <1>1, <1>2, <1>9, GotoMoves DEF CodeSpend, PutCode
  <2>2. mem[r].code.attempts \in 0 .. MaxCodeAttempts - 1
    BY <1>1, <2>1 DEF StageOf, Stage, CodeRec
  <2>3. Cardinality(Guesses(k) \cap call[r].after) < MaxCodeAttempts
    <3>1. Cardinality(Guesses(k) \cap call[r].after) <= Cardinality(Tried(k))
      BY <2>1, BeforeTried
    <3>2. Cardinality(Guesses(k) \cap call[r].after) \in Nat /\ Cardinality(Tried(k)) \in Nat
      BY GuessesFinite
    <3> QED
      BY <1>3, <2>1, <2>2, <3>1, <3>2, AuthAssumption
  <2> QED
    BY <2>1, <2>3, TurnKept DEF Reading
<1> QED
  BY <1>6, <1>7, <1>8, <1>9 DEF RedeemChallenge

LEMMA TakeTurn ==
    ASSUME TypeInv, InOrder, NEW k \in Codes, Redeeming(k), Apart(k),
           NEW r \in Requests, Step(r), Redeems(r, k), TakeGet(r) \/ TakeDelete(r)
    PROVE  Redeeming(k)'
<1>1. /\ mem[r] \in Memory /\ StageOf(r) /\ codes \in [Codes -> CodeRec \cup {Absent}]
      /\ pc[r] \in {"take_get", "take_delete"} /\ given' = given /\ call' = call
  BY TypeParts, StepFrame DEF StoresOK, given, TakeGet, TakeDelete, PutCode, Goto
<1>2. call[r].op \in {"redirect", "collect"} /\ call[r].code = k
  BY <1>1 DEF StageOf, Stage, TakePcs, Redeems
<1>3. /\ \A q \in Requests \ {r} : pc'[q] = pc[q]
      /\ codes[k] # Absent => Cardinality(Tried(k)) <= codes[k].attempts
  BY StepFrame DEF Orphaned, Redeeming
<1>4. Guesses(k) = {} /\ Cardinality(Guesses(k) \cap call[r].after) < MaxCodeAttempts
  <2>1. Guesses(k) = {} /\ Cardinality(Guesses(k) \cap call[r].after) = 0
    BY <1>2, NoGuesses
  <2> QED
    BY <2>1, AuthAssumption
<1>5. Tried(k)' = {} /\ Tried(k) = {}
  BY <1>1, <1>4 DEF Tried, Guesses, Is
<1>6. CASE TakeGet(r)
  <2> DEFINE m == [mem[r] EXCEPT !.code = codes[k]]
  <2>1. /\ pc[r] = "take_get" /\ UNCHANGED codes
        /\ \/ Replies(r, "take_get", Refused(r), m)
           \/ codes[k] # Absent /\ Goto(r, "take_get", "take_delete") /\ Holds(r, m)
    BY <1>2, <1>6 DEF TakeGet, Reads
  <2>2. m.cred = mem[r].cred /\ m.answer = mem[r].answer /\ DOMAIN m = Fields
    BY <1>1, MemoryType DEF Fields
  <2> HIDE DEF m
  <2>3. Refused(r) \in Answers \ {"200"}
    BY DEF Refused, Answers
  <2>4. CASE Replies(r, "take_get", Refused(r), m)
    <3>1. pc'[r] \in Left /\ mem'[r] = [m EXCEPT !.answer = Refused(r)]
      BY <2>3, <2>4, RepliesMoves
    <3>2. mem'[r].cred = mem[r].cred /\ mem'[r].answer # "200"
      BY <2>2, <2>3, <3>1 DEF Fields
    <3>3. Won(r)' => Won(r)
      BY <1>1, <3>1, <3>2, RedeemedKept DEF Won, PeoplePcs, SeatPcs, BouncePcs, Left, Answers
    <3>4. ~Reading(r)' /\ pc'[r] \notin {"code_count", "code_spend"}
      BY <3>1 DEF Reading, Left, Answers
    <3> QED
      BY <1>3, <1>5, <2>1, <3>3, <3>4, TurnKept
  <2>5. CASE codes[k] # Absent /\ Goto(r, "take_get", "take_delete") /\ Holds(r, m)
    <3>1. pc'[r] = "take_delete" /\ mem'[r] = m
      BY <2>5, GotoMoves, HoldsMoves
    <3>2. Won(r)' => Won(r)
      BY <1>1, <2>2, <3>1, RedeemedKept DEF Won, PeoplePcs, SeatPcs, BouncePcs
    <3> QED
      BY <1>3, <1>5, <2>1, <2>5, <3>1, <3>2, TurnKept
  <2> QED
    BY <2>1, <2>4, <2>5
<1>7. CASE TakeDelete(r)
  <2>1. pc[r] = "take_delete" /\ pc'[r] = "taken" /\ codes'[k] = Absent
    BY <1>1, <1>2, <1>7, GotoMoves DEF TakeDelete, PutCode
  <2> QED
    BY <1>4, <2>1, TurnKept DEF Reading
<1> QED
  BY <1>6, <1>7
LEMMA RedeemNext == TypeInv /\ InOrder /\ RedeemInv /\ [Next]_vars => RedeemInv'
<1> SUFFICES ASSUME TypeInv, InOrder, RedeemInv, [Next]_vars, NEW k \in Codes PROVE Redeeming(k)'
  BY DEF RedeemInv
<1>1. Redeeming(k) /\ call' = call
  BY NextFrame DEF RedeemInv
<1>2. CASE Idle
  BY <1>1, <1>2, RedeemersKept DEF Idle
<1>3. ASSUME NEW r \in Requests, Step(r), ~Redeems(r, k) PROVE Redeeming(k)'
  <2>1. codes'[k] \in {codes[k], Absent} \/ Drawn(k)
    BY <1>3, CodeElsewhere
  <2>2. \A q \in Requests : Redeems(q, k) => Orphaned(q) \/ (pc'[q] = pc[q] /\ mem'[q] = mem[q])
    BY <1>3, StepFrame
  <2> QED
    BY <1>1, <2>1, <2>2, RedeemersKept
<1>4. ASSUME NEW r \in Requests, Step(r), Redeems(r, k), Apart(k) PROVE Redeeming(k)'
  <2>1. call[r].op \in {"callback", "collect", "redirect"} /\ StageOf(r) /\ call[r].code = k
    BY <1>4, TypeParts DEF Redeems, Is
  <2>2. ~StartEmail(r) /\ ~Park(r) /\ ~Parked(r)
    BY <2>1, StartMoves DEF Park, Parked, PutCode, Replies, Goto, StageOf, Stage
  <2>3. ~RotateSession(r) /\ ~EndSessionOwnedBy(r) /\ ~SessionsOf(r) /\ ~BackfillSessions(r) /\ ~DeleteUserRecords(r)
    BY <2>1, RotateMoves, EndMoves, ListMoves, FillMoves, EraseMoves DEF StageOf, Stage
  <2>4. CASE Send(r) \/ OnDeviceStep(r)
    BY <1>1, <1>4, <2>4, SendRedeems, DeviceRedeems, PlainKept
  <2>5. CASE \/ ResolveIdentity(r) \/ IssueTokens(r) \/ Taken(r) \/ HandoffPut(r) \/ Bounce(r)
             \/ CodeBurned(r) \/ CodeCounted(r)
    BY <1>1, <1>4, <2>5, SignInRedeems, PlainKept
  <2>6. CASE RedeemChallenge(r) /\ ~CodeBurned(r) /\ ~CodeCounted(r)
    BY <1>1, <1>4, <2>6, CodeTurn
  <2>7. CASE TakeGet(r) \/ TakeDelete(r)
    BY <1>1, <1>4, <2>7, TakeTurn
  <2> QED
    BY <1>4, <2>2, <2>3, <2>4, <2>5, <2>6, <2>7, StepCases DEF Parking
<1>5. ASSUME NEW r \in Requests, Step(r), Redeems(r, k), ~Apart(k) PROVE Redeeming(k)'
  BY <1>1, <1>5 DEF Redeeming, Apart, Redeems, Overlap, Is
<1> QED
  BY <1>2, <1>3, <1>4, <1>5, NextCases

LEMMA RedeemInit == Init => RedeemInv
<1> SUFFICES ASSUME Init, NEW k \in Codes PROVE Redeeming(k)
  BY DEF RedeemInv
<1>1. TypeInv
  BY InitType
<1>2. \A q \in Requests : pc[q] = "send" /\ mem[q] = Blank
  BY DEF Init
<1>3. \A q \in Requests : ~Won(q)
  BY <1>2 DEF Won, Redeemed, SignedIn, Blank, PeoplePcs, SeatPcs, BouncePcs
<1>4. Tried(k) = {} /\ Cardinality(Tried(k)) = 0
  <2>1. Tried(k) = {}
    BY <1>2 DEF Tried, Guesses
  <2> QED
    BY <2>1, FS_EmptySet
<1>5. codes[k] # Absent => codes[k].attempts \in Nat
  BY <1>1, AuthAssumption DEF TypeInv, StoresOK, CodeRec
<1> QED
  BY <1>2, <1>3, <1>4, <1>5 DEF Redeeming

LEMMA RedeemInvariant == Spec => [](TypeInv /\ InOrder /\ RedeemInv)
BY OrderInvariant, RedeemInit, RedeemNext, PTL DEF Spec

(* A mailed code, an authorization and a hand-off that are presented one    *)
(* after another are good once, and a mailed code is good no more once      *)
(* MaxCodeAttempts wrong ones were presented under its id: redeemChallenge  *)
(* counts every one and writes before it answers.                           *)
THEOREM RedeemedOnce == Spec => []SingleUse
<1>1. TypeInv /\ InOrder /\ RedeemInv => SingleUse
  <2> SUFFICES ASSUME TypeInv, InOrder, RedeemInv, NEW k \in Codes, NEW r \in Requests,
                      Redeems(r, k), Redeemed(r), Apart(k)
               PROVE  /\ \A p \in {p \in call[r].after : Redeems(p, k)} : ~Redeemed(p)
                      /\ Cardinality({p \in {p \in call[r].after : Redeems(p, k)} : Is(p, {"callback"}) /\ ~call[p].right})
                            < MaxCodeAttempts
    BY DEF SingleUse, Apart
  <2>1. Won(r) /\ Redeeming(k) /\ call[r].after \subseteq Requests
    BY TypeParts, CallType DEF Won, RedeemInv
  <2>2. /\ \A q \in Requests : Redeems(q, k) => (Won(q) => q = r)
        /\ Cardinality(Guesses(k) \cap call[r].after) < MaxCodeAttempts
    BY <2>1 DEF Redeeming
  <2>3. r \notin call[r].after
    <3>1. pc[r] # "send"
      BY TypeParts DEF StageOf, Stage, Blank, Redeemed, SignedIn
    <3> QED
      BY <3>1 DEF InOrder
  <2>4. {p \in {p \in call[r].after : Redeems(p, k)} : Is(p, {"callback"}) /\ ~call[p].right}
          = Guesses(k) \cap call[r].after
    BY <2>1 DEF Guesses, Redeems, Is
  <2> QED
    BY <2>1, <2>2, <2>3, <2>4 DEF Won
<1> QED
  BY <1>1, RedeemInvariant, PTL
-----------------------------------------------------------------------------
(* What a request holds, but for some fields, is what it held.              *)
Changes(r, F) == \A f \in Fields \ F : mem'[r][f] = mem[r][f]

LEMMA ChangesMore ==
    ASSUME NEW r, NEW F, NEW G, F \subseteq G, Changes(r, F)
    PROVE  Changes(r, G)
BY DEF Changes

LEMMA HoldsChanges ==
    ASSUME TypeInv, NEW r \in Requests, NEW m, NEW F, Holds(r, m),
           \A f \in Fields \ F : m[f] = mem[r][f]
    PROVE  Changes(r, F)
BY HoldsMoves DEF Changes

LEMMA RepliesChanges ==
    ASSUME TypeInv, NEW r \in Requests, NEW from, NEW a, NEW m, NEW F, Replies(r, from, a, m),
           DOMAIN m = Fields, \A f \in Fields \ F : m[f] = mem[r][f]
    PROVE  Changes(r, F \cup {"answer"})
<1> DEFINE n == [m EXCEPT !.answer = a]
<1>1. mem'[r] = n
  BY HoldsMoves DEF Replies
<1>2. \A f \in Fields \ {"answer"} : n[f] = m[f]
  OBVIOUS
<1> HIDE DEF n
<1> QED
  BY <1>1, <1>2 DEF Changes

LEMMA PlainRepliesChanges ==
    ASSUME TypeInv, NEW r \in Requests, NEW from, NEW a, Replies(r, from, a, mem[r])
    PROVE  Changes(r, {"answer"})
<1>1. DOMAIN mem[r] = Fields
  BY TypeParts, MemoryType
<1>2. Changes(r, {} \cup {"answer"})
  BY <1>1, RepliesChanges
<1> QED
  BY <1>2 DEF Changes

LEMMA SameChanges ==
    ASSUME NEW r, NEW F, UNCHANGED mem
    PROVE  Changes(r, F)
BY DEF Changes

LEMMA ExceptOne ==
    ASSUME TypeInv, NEW r \in Requests, NEW k \in Fields, NEW x
    PROVE  /\ \A f \in Fields \ {k} : [mem[r] EXCEPT ![k] = x][f] = mem[r][f]
           /\ [mem[r] EXCEPT ![k] = x][k] = x
           /\ DOMAIN [mem[r] EXCEPT ![k] = x] = Fields
<1>1. DOMAIN mem[r] = Fields
  BY TypeParts, MemoryType
<1> QED
  BY <1>1

StartFields == {"todo", "at", "counter", "spent", "degraded", "answer"}

LEMMA CounterChanges ==
    ASSUME TypeInv, NEW r \in Requests, StartLimited(r)
    PROVE  Changes(r, {"counter", "spent", "degraded", "answer"})
<1> DEFINE F == {"counter", "spent", "degraded", "answer"}
<1>1. mem[r] \in Memory /\ DOMAIN mem[r] = Fields
  BY TypeParts, MemoryType
<1>2. ASSUME NEW from, NEW to, Degrades(r, from, to) PROVE Changes(r, F)
  <2> DEFINE yes == TRUE
             m == [mem[r] EXCEPT !.degraded = yes]
  <2>1. Holds(r, m)
    BY <1>2 DEF Degrades
  <2> HIDE DEF yes
  <2>2. \A f \in Fields \ F : m[f] = mem[r][f]
    BY <1>1 DEF Fields
  <2> HIDE DEF m
  <2> QED
    BY <2>1, <2>2, HoldsChanges
<1>3. ASSUME NEW at, NEW put, NEW key, NEW next, NEW refused, Consume(r, at, put, key, next, refused)
      PROVE  Changes(r, F)
  <2>1. CASE Holds(r, [mem[r] EXCEPT !.counter = [Window(key) EXCEPT !.count = @ + 1]])
    <3> DEFINE c == [Window(key) EXCEPT !.count = @ + 1]
               m == [mem[r] EXCEPT !.counter = c]
    <3> HIDE DEF c
    <3>1. \A f \in Fields \ F : m[f] = mem[r][f]
      BY <1>1 DEF Fields
    <3>2. Holds(r, m)
      BY <2>1 DEF c
    <3> HIDE DEF m
    <3> QED
      BY <3>1, <3>2, HoldsChanges
  <2>2. CASE Holds(r, [mem[r] EXCEPT !.spent[key[1]] = mem[r].counter.windowStart])
    <3> DEFINE n == [mem[r].spent EXCEPT ![key[1]] = mem[r].counter.windowStart]
               m == [mem[r] EXCEPT !.spent = n]
    <3>1. Holds(r, m)
      BY <2>2
    <3> HIDE DEF n
    <3>2. \A f \in Fields \ F : m[f] = mem[r][f]
      BY <1>1 DEF Fields
    <3> HIDE DEF m
    <3> QED
      BY <3>1, <3>2, HoldsChanges
  <2> QED
    BY <1>2, <1>3, <2>1, <2>2 DEF Consume
<1>4. ASSUME NEW at, NEW put, NEW key, NEW next, Refund(r, at, put, key, next) PROVE Changes(r, F)
  <2> DEFINE c == IF ~Refunds(key) \/ counters[key].count = 0 THEN counters[key]
                  ELSE [counters[key] EXCEPT !.count = @ - 1]
             m == [mem[r] EXCEPT !.counter = c]
  <2>1. CASE Holds(r, m)
    <3> HIDE DEF c
    <3>1. \A f \in Fields \ F : m[f] = mem[r][f]
      BY <1>1 DEF Fields
    <3> QED
      BY <2>1, <3>1, HoldsChanges
  <2>2. CASE UNCHANGED mem
    BY <2>2, SameChanges
  <2>3. Holds(r, m) \/ UNCHANGED mem \/ Degrades(r, at, next) \/ Degrades(r, put, next)
    BY <1>4 DEF Refund
  <2> QED
    BY <1>2, <2>1, <2>2, <2>3
<1>5. CASE SendMail(r) \/ AnswerStart(r)
  <2>1. UNCHANGED mem \/ Changes(r, {"answer"})
    BY <1>5, PlainRepliesChanges DEF SendMail, AnswerStart
  <2> QED
    BY <2>1, SameChanges, ChangesMore
<1> QED
  BY <1>3, <1>4, <1>5 DEF StartLimited, AllowSend, RefundSend

LEMMA StartChanges ==
    ASSUME TypeInv, NEW r \in Requests, StartEmail(r)
    PROVE  Changes(r, StartFields)
<1>1. mem[r] \in Memory /\ DOMAIN mem[r] = Fields
  BY TypeParts, MemoryType
<1>2. CASE StartLimited(r)
  BY <1>2, CounterChanges, ChangesMore DEF StartFields
<1>3. CASE SweepList(r)
  <2> DEFINE T == {k \in Codes : codes[k] # Absent}
             m == [mem[r] EXCEPT !.todo = T]
  <2> HIDE DEF T
  <2>1. Holds(r, m)
    BY <1>3 DEF SweepList, T
  <2>2. \A f \in Fields \ StartFields : m[f] = mem[r][f]
    BY <1>1 DEF Fields, StartFields
  <2> HIDE DEF m
  <2> QED
    BY <2>1, <2>2, HoldsChanges
<1>4. CASE SweepRead(r)
  <2>1. PICK k \in mem[r].todo : Holds(r, [mem[r] EXCEPT !.todo = @ \ {k}, !.at = k])
    BY <1>4 DEF SweepRead
  <2> DEFINE m == [mem[r] EXCEPT !.todo = @ \ {k}, !.at = k]
  <2>2. \A f \in Fields \ StartFields : m[f] = mem[r][f]
    BY <1>1 DEF Fields, StartFields
  <2> HIDE DEF m
  <2> QED
    BY <2>1, <2>2, HoldsChanges DEF m
<1>5. CASE SweepDrop(r) \/ StartChallenge(r)
  BY <1>5, SameChanges DEF SweepDrop, StartChallenge
<1> QED
  BY <1>2, <1>3, <1>4, <1>5 DEF StartEmail
LEMMA CodeChanges ==
    ASSUME TypeInv, NEW r \in Requests, RedeemChallenge(r)
    PROVE  Changes(r, {"code", "answer"})
<1>1. mem[r] \in Memory /\ DOMAIN mem[r] = Fields
  BY TypeParts, MemoryType
<1>2. CASE CodeGet(r)
  <2> DEFINE rec == codes[call[r].code]
             m == [mem[r] EXCEPT !.code = rec]
  <2>1. Replies(r, "code_get", "400", m) \/ Holds(r, m)
    BY <1>2 DEF CodeGet
  <2> HIDE DEF rec
  <2>2. (\A f \in Fields \ {"code"} : m[f] = mem[r][f]) /\ DOMAIN m = Fields
    BY <1>1
  <2> HIDE DEF m
  <2>3. Changes(r, {"code"}) \/ Changes(r, {"code"} \cup {"answer"})
    BY <2>1, <2>2, HoldsChanges, RepliesChanges
  <2> QED
    BY <2>3 DEF Changes
<1>3. CASE UNCHANGED mem
  BY <1>3, SameChanges
<1>4. CASE CodeBurned(r) \/ CodeCounted(r)
  BY <1>4, PlainRepliesChanges, ChangesMore DEF CodeBurned, CodeCounted
<1> QED
  BY <1>2, <1>3, <1>4 DEF RedeemChallenge, CodeBurn, CodeCount, CodeSpend

LEMMA ParkChanges ==
    ASSUME TypeInv, NEW r \in Requests, Parking(r)
    PROVE  Changes(r, {"code", "cred", "answer"})
<1>1. mem[r] \in Memory /\ DOMAIN mem[r] = Fields
  BY TypeParts, MemoryType
<1>2. CASE TakeGet(r)
  <2> DEFINE rec == codes[call[r].code]
             m == [mem[r] EXCEPT !.code = rec]
  <2>1. Replies(r, "take_get", Refused(r), m) \/ Holds(r, m)
    BY <1>2 DEF TakeGet
  <2> HIDE DEF rec
  <2>2. (\A f \in Fields \ {"code"} : m[f] = mem[r][f]) /\ DOMAIN m = Fields
    BY <1>1
  <2> HIDE DEF m
  <2>3. Changes(r, {"code"}) \/ Changes(r, {"code"} \cup {"answer"})
    BY <2>1, <2>2, HoldsChanges, RepliesChanges
  <2> QED
    BY <2>3 DEF Changes
<1>3. CASE Taken(r)
  <2> DEFINE c == mem[r].code.gives
             m == [mem[r] EXCEPT !.cred = c]
  <2>1. Replies(r, "taken", Refused(r), mem[r]) \/ Replies(r, "taken", "200", m) \/ UNCHANGED mem
    BY <1>3 DEF Taken
  <2> HIDE DEF c
  <2>2. (\A f \in Fields \ {"cred"} : m[f] = mem[r][f]) /\ DOMAIN m = Fields
    BY <1>1
  <2> HIDE DEF m
  <2>3. Changes(r, {"answer"}) \/ Changes(r, {"cred"} \cup {"answer"}) \/ UNCHANGED mem
    BY <2>1, <2>2, PlainRepliesChanges, RepliesChanges
  <2> QED
    BY <2>3 DEF Changes
<1>4. CASE UNCHANGED mem
  BY <1>4, SameChanges
<1>5. CASE Parked(r) \/ Bounce(r)
  BY <1>5, PlainRepliesChanges, ChangesMore DEF Parked, Bounce
<1> QED
  BY <1>2, <1>3, <1>4, <1>5 DEF Parking, Park, TakeDelete, HandoffPut

LEMMA PeopleChanges ==
    ASSUME TypeInv, NEW r \in Requests, ResolveIdentity(r)
    PROVE  Changes(r, {"user", "answer"})
<1>1. mem[r] \in Memory /\ DOMAIN mem[r] = Fields
  BY TypeParts, MemoryType
<1>2. ASSUME NEW u, Holds(r, [mem[r] EXCEPT !.user = u]) PROVE Changes(r, {"user", "answer"})
  <2> DEFINE m == [mem[r] EXCEPT !.user = u]
  <2>1. Holds(r, m)
    BY <1>2
  <2>2. \A f \in Fields \ {"user", "answer"} : m[f] = mem[r][f]
    BY <1>1
  <2> HIDE DEF m
  <2> QED
    BY <2>1, <2>2, HoldsChanges
<1>3. CASE IdentityGet(r) \/ EmailGet(r) \/ NewUser(r)
  BY <1>2, <1>3 DEF IdentityGet, EmailGet, NewUser
<1>4. CASE UNCHANGED mem
  BY <1>4, SameChanges
<1>5. CASE IdentityUser(r)
  BY <1>4, <1>5, PlainRepliesChanges, ChangesMore DEF IdentityUser
<1> QED
  BY <1>3, <1>4, <1>5 DEF ResolveIdentity, EmailUser, Link, PutIdentity, NewHome, NewIdentity, NewEmail

LEMMA SeatChanges ==
    ASSUME TypeInv, NEW r \in Requests, IssueTokens(r)
    PROVE  Changes(r, {"cred", "answer"})
<1>1. mem[r] \in Memory /\ DOMAIN mem[r] = Fields
  BY TypeParts, MemoryType
<1>2. CASE SessionPut(r)
  <2> DEFINE c == [session |-> call[r].session, secret |-> r]
             m == [mem[r] EXCEPT !.cred = c]
  <2>1. Holds(r, m)
    BY <1>2 DEF SessionPut
  <2> HIDE DEF c
  <2>2. \A f \in Fields \ {"cred", "answer"} : m[f] = mem[r][f]
    BY <1>1
  <2> HIDE DEF m
  <2> QED
    BY <2>1, <2>2, HoldsChanges
<1>3. CASE SessionIndexed(r)
  <2>1. UNCHANGED mem \/ Changes(r, {"answer"})
    BY <1>3, PlainRepliesChanges DEF SessionIndexed
  <2> QED
    BY <2>1, SameChanges, ChangesMore
<1> QED
  BY <1>2, <1>3 DEF IssueTokens

LEMMA ListChanges ==
    ASSUME TypeInv, NEW r \in Requests, SessionsOf(r)
    PROVE  Changes(r, {"todo", "at", "shown", "answer"})
<1> DEFINE F == {"todo", "at", "shown", "answer"}
<1>1. mem[r] \in Memory /\ DOMAIN mem[r] = Fields
  BY TypeParts, MemoryType
<1>2. ASSUME NEW T, Holds(r, [mem[r] EXCEPT !.todo = T]) PROVE Changes(r, F)
  <2> DEFINE m == [mem[r] EXCEPT !.todo = T]
  <2>1. Holds(r, m)
    BY <1>2
  <2>2. \A f \in Fields \ F : m[f] = mem[r][f]
    BY <1>1
  <2> HIDE DEF m
  <2> QED
    BY <2>1, <2>2, HoldsChanges
<1>3. ASSUME NEW s, NEW to, Shows(r, s, to) PROVE Changes(r, F)
  <2> DEFINE shown == IF Presentable(sessions[s], call[r].user, s) THEN {s} ELSE {}
             T == mem[r].todo \ {s}
             S == mem[r].shown \cup shown
             m == [mem[r] EXCEPT !.todo = T, !.at = s, !.shown = S]
  <2>1. Holds(r, m)
    BY <1>3 DEF Shows
  <2> HIDE DEF T, S
  <2>2. \A f \in Fields \ F : m[f] = mem[r][f]
    BY <1>1
  <2> HIDE DEF m
  <2> QED
    BY <2>1, <2>2, HoldsChanges
<1>4. CASE ListIndex(r) \/ ScanList(r)
  BY <1>2, <1>4 DEF ListIndex, ScanList
<1>5. CASE ReadIndexed(r) \/ ReadScanned(r)
  BY <1>3, <1>5 DEF ReadIndexed, ReadScanned
<1>6. CASE RepairIndex(r) \/ HealIndex(r)
  BY <1>6, SameChanges DEF RepairIndex, HealIndex
<1>7. CASE ShowDevices(r)
  BY <1>7, PlainRepliesChanges, ChangesMore DEF ShowDevices
<1> QED
  BY <1>4, <1>5, <1>6, <1>7 DEF SessionsOf

LEMMA FillChanges ==
    ASSUME TypeInv, NEW r \in Requests, BackfillSessions(r)
    PROVE  Changes(r, {"todo", "at", "rec", "answer"})
<1> DEFINE F == {"todo", "at", "rec", "answer"}
<1>1. mem[r] \in Memory /\ DOMAIN mem[r] = Fields
  BY TypeParts, MemoryType
<1>2. CASE FillList(r)
  <2> DEFINE T == {s \in SessionIds : sessions[s] # Absent}
             m == [mem[r] EXCEPT !.todo = T]
  <2>1. Holds(r, m)
    BY <1>2 DEF FillList
  <2> HIDE DEF T
  <2>2. \A f \in Fields \ F : m[f] = mem[r][f]
    BY <1>1
  <2> HIDE DEF m
  <2> QED
    BY <2>1, <2>2, HoldsChanges
<1>3. CASE FillRead(r)
  <2>1. PICK s : Holds(r, [mem[r] EXCEPT !.todo = @ \ {s}, !.at = s, !.rec = sessions[s]])
    BY <1>3 DEF FillRead
  <2> DEFINE T == mem[r].todo \ {s}
             rec == sessions[s]
             m == [mem[r] EXCEPT !.todo = T, !.at = s, !.rec = rec]
  <2>2. Holds(r, m)
    BY <2>1
  <2> HIDE DEF T, rec
  <2>3. \A f \in Fields \ F : m[f] = mem[r][f]
    BY <1>1
  <2> HIDE DEF m
  <2> QED
    BY <2>2, <2>3, HoldsChanges
<1>4. CASE FillPut(r)
  BY <1>4, SameChanges DEF FillPut
<1>5. CASE FillEnd(r)
  BY <1>5, PlainRepliesChanges, ChangesMore DEF FillEnd
<1> QED
  BY <1>2, <1>3, <1>4, <1>5 DEF BackfillSessions

LEMMA EraseChanges ==
    ASSUME TypeInv, NEW r \in Requests, DeleteUserRecords(r)
    PROVE  Changes(r, {"todo", "answer"})
<1>1. mem[r] \in Memory /\ DOMAIN mem[r] = Fields
  BY TypeParts, MemoryType
<1>2. ASSUME NEW T, Holds(r, [mem[r] EXCEPT !.todo = T]) PROVE Changes(r, {"todo", "answer"})
  <2> DEFINE m == [mem[r] EXCEPT !.todo = T]
  <2>1. Holds(r, m)
    BY <1>2
  <2>2. \A f \in Fields \ {"todo", "answer"} : m[f] = mem[r][f]
    BY <1>1
  <2> HIDE DEF m
  <2> QED
    BY <2>1, <2>2, HoldsChanges
<1>3. CASE EraseHome(r)
  BY <1>3, SameChanges DEF EraseHome
<1>4. CASE EraseUser(r)
  BY <1>4, PlainRepliesChanges, ChangesMore DEF EraseUser
<1>5. ASSUME NEW from, NEW to, NEW T, EraseList(r, from, to, T) PROVE Changes(r, {"todo", "answer"})
  BY <1>2, <1>5 DEF EraseList
<1>6. ASSUME NEW at, NEW k, Erases(r, at, k) PROVE Changes(r, {"todo", "answer"})
  BY <1>2, <1>6 DEF Erases
<1>7. CASE EraseIndex(r) \/ EraseIdentity(r) \/ EraseEmail(r) \/ EraseSession(r)
  BY <1>6, <1>7 DEF EraseIndex, EraseIdentity, EraseEmail, EraseSession
<1> QED
  BY <1>3, <1>4, <1>5, <1>7 DEF DeleteUserRecords
LEMMA SendChanges ==
    ASSUME TypeInv, NEW r \in Requests, Send(r)
    PROVE  Changes(r, {"cred"})
<1> DEFINE c == IF Is(r, {"refresh", "revoke"}) THEN [session |-> call[r].session, secret |-> call[r].secret] ELSE Absent
           m == [mem[r] EXCEPT !.cred = c]
<1>1. DOMAIN mem[r] = Fields
  BY TypeParts, MemoryType
<1>2. Holds(r, m)
  BY DEF Send
<1> HIDE DEF c
<1>3. \A f \in Fields \ {"cred"} : m[f] = mem[r][f]
  BY <1>1
<1> HIDE DEF m
<1> QED
  BY <1>2, <1>3, HoldsChanges

LEMMA DeviceChanges ==
    ASSUME TypeInv, NEW r \in Requests, OnDeviceStep(r)
    PROVE  Changes(r, {"waits", "cred", "answer", "lost"})
<1> DEFINE F == {"waits", "cred", "answer", "lost"}
<1>1. mem \in [Requests -> Memory] /\ DOMAIN mem[r] = Fields
  BY TypeParts, MemoryType
<1>2. CASE UNCHANGED mem
  BY <1>2, SameChanges
<1>3. ASSUME NEW x, Holds(r, [mem[r] EXCEPT !.cred = x]) \/ Holds(r, [mem[r] EXCEPT !.waits = x])
                    \/ Holds(r, [mem[r] EXCEPT !.answer = x])
      PROVE  Changes(r, F)
  <2>1. PICK m \in {[mem[r] EXCEPT !.cred = x], [mem[r] EXCEPT !.waits = x], [mem[r] EXCEPT !.answer = x]} : Holds(r, m)
    BY <1>3
  <2>2. \A f \in Fields \ F : m[f] = mem[r][f]
    BY <1>1
  <2> QED
    BY <2>1, <2>2, HoldsChanges
<1>4. CASE UseToken(r)
  BY <1>2, <1>3, <1>4 DEF UseToken
<1>5. CASE LoseRequest(r) \/ SignOut(r)
  BY <1>3, <1>5 DEF LoseRequest, SignOut
<1>6. CASE LoseAnswer(r)
  <2> DEFINE yes == TRUE
             m == [mem[r] EXCEPT !.answer = "null", !.lost = yes]
  <2>1. Holds(r, m)
    BY <1>6 DEF LoseAnswer
  <2> HIDE DEF yes
  <2>2. \A f \in Fields \ F : m[f] = mem[r][f]
    BY <1>1
  <2> HIDE DEF m
  <2> QED
    BY <2>1, <2>2, HoldsChanges
<1>7. CASE Restart(r)
  <2>1. mem'[r] = mem[r]
    BY <1>7 DEF Restart
  <2> QED
    BY <2>1 DEF Changes
<1> QED
  BY <1>2, <1>4, <1>5, <1>6, <1>7 DEF OnDeviceStep, Joined, Adopt, Persist, Clear, Report, Settle, Abandoned

-----------------------------------------------------------------------------
(* What a request that presented a token, or ended a session, goes through. *)
Ruled == RotatePcs \ {"rotate_get"}

Presenting(r) ==
    /\ mem[r].presented # Absent =>
         /\ call[r].op \in {"use", "refresh"}
         /\ pc[r] \in Ruled \cup EndPcs \cup {"back", "persist", "clear", "settle"} \cup Answers
    /\ pc[r] \in Ruled => mem[r].presented = mem[r].cred.session
    /\ mem[r].replayed => mem[r].presented # Absent /\ pc[r] # "rotate"
    /\ mem[r].ended => \/ pc[r] \in {"end_session", "end_index", "settle"} \cup Answers
                       \/ pc[r] = "back" /\ mem[r].answer = "204"

(* A sign-in that has not opened its session, and that session: it was      *)
(* never presented, nor ended.                                              *)
BeforeSeat == {"send", "session_put"} \cup CodePcs \cup TakePcs \cup PeoplePcs
Expecting(p) == SignsIn(p) /\ pc[p] \in BeforeSeat
Unopened(s) ==
    /\ sessions[s] = Absent
    /\ \A q \in Requests : s \notin EndedBy(q) /\ (pc[q] \in Ruled => mem[q].presented # s)

(* From its write on the session a request ended is written off: it stays   *)
(* away or a tombstone, nobody is about to rotate it, and who presents it   *)
(* later is refused.                                                        *)
WrittenOff(r, s) ==
    \/ mem[r].replayed /\ mem[r].presented = s /\ pc[r] # "tombstone"
    \/ mem[r].ended /\ mem[r].cred.session = s /\ pc[r] # "end_session"
Alone(r, s) == \A p \in Requests : Overlap(p, r) => mem[p].presented # s
Closed(s) ==
    /\ sessions[s] = Absent \/ sessions[s].ended
    /\ \A p \in Requests : pc[p] = "rotate" => mem[p].presented # s
Denied(r, q, s) ==
    (s \in EndedBy(r) /\ r \in call[q].after /\ mem[q].presented = s /\ Alone(r, s))
    => pc[q] \notin {"rotate", "rotated_user"} /\ mem[q].answer # "200"

EndInv ==
    /\ \A r \in Requests : Presenting(r)
    /\ \A p \in Requests : Expecting(p) => Unopened(call[p].session)
    /\ \A r \in Requests, s \in SessionIds : WrittenOff(r, s) /\ Alone(r, s) => Closed(s)
    /\ \A r, q \in Requests, s \in SessionIds : Denied(r, q, s)

LEMMA EndInit == Init => EndInv
<1> SUFFICES ASSUME Init PROVE EndInv
  OBVIOUS
<1>1. TypeInv /\ \A q \in Requests : pc[q] = "send" /\ mem[q] = Blank
  BY InitType DEF Init
<1>2. \A q \in Requests : /\ mem[q].presented = Absent /\ mem[q].cred = Absent
                          /\ mem[q].replayed = FALSE /\ mem[q].ended = FALSE /\ mem[q].answer = "null"
  BY <1>1 DEF Blank
<1>3. \A r \in Requests : Presenting(r)
  BY <1>1, <1>2 DEF Presenting, Ruled, RotatePcs
<1>4. ASSUME NEW p \in Requests, Expecting(p) PROVE Unopened(call[p].session)
  <2>1. seed.sessions[call[p].session] = Absent
    BY <1>1, <1>4, GivenFacts DEF TypeInv, FreshIds, Expecting, SignsIn, Is
  <2>2. sessions[call[p].session] = Absent
    BY <2>1 DEF Init
  <2> QED
    BY <1>1, <1>2, <2>2 DEF Unopened, EndedBy, Ruled, RotatePcs
<1>5. \A r \in Requests, s \in SessionIds : ~WrittenOff(r, s) /\ s \notin EndedBy(r)
  BY <1>2 DEF WrittenOff, EndedBy
<1> QED
  BY <1>3, <1>4, <1>5 DEF EndInv, Denied
(* A call that neither judges what was presented nor writes a session open. *)
Unruled(r) ==
    /\ \A s \in SessionIds : sessions'[s] \in {sessions[s], Absent}
    /\ mem'[r].presented = mem[r].presented
    /\ mem'[r].replayed = mem[r].replayed /\ mem'[r].ended = mem[r].ended
    /\ mem[r].ended => mem'[r].cred.session = mem[r].cred.session
    /\ pc'[r] \notin {"rotate", "rotated_user"} /\ pc[r] \notin {"tombstone", "end_session"}
    /\ pc'[r] \in Ruled => pc[r] \in Ruled
    /\ pc'[r] \in BeforeSeat => pc[r] \in BeforeSeat
    /\ mem[r].presented # Absent /\ mem'[r].answer = "200" => mem[r].answer = "200"
    /\ Presenting(r)'

LEMMA PresentingKept ==
    ASSUME TypeInv, EndInv, NEW r \in Requests, Step(r), NEW q \in Requests \ {r}
    PROVE  Presenting(q)'
<1>1. Presenting(q) /\ call' = call
  BY StepFrame DEF EndInv, given
<1>2. /\ pc'[q] = pc[q] /\ mem'[q].presented = mem[q].presented /\ mem'[q].cred = mem[q].cred
      /\ mem'[q].replayed = mem[q].replayed /\ mem'[q].ended = mem[q].ended /\ mem'[q].answer = mem[q].answer
  BY StepFrame, OthersKeep
<1> QED
  BY <1>1, <1>2 DEF Presenting

LEMMA UnruledEnds ==
    ASSUME TypeInv, EndInv, NEW r \in Requests, Step(r), Unruled(r)
    PROVE  EndInv'
<1>1. call' = call
  BY StepFrame DEF given
<1>2. ASSUME NEW q \in Requests \ {r}
      PROVE  /\ pc'[q] = pc[q] /\ mem'[q].presented = mem[q].presented /\ mem'[q].cred = mem[q].cred
             /\ mem'[q].replayed = mem[q].replayed /\ mem'[q].ended = mem[q].ended
             /\ mem'[q].answer = mem[q].answer
  BY StepFrame, OthersKeep
<1>3. \A q \in Requests : mem'[q].presented = mem[q].presented
  BY <1>2 DEF Unruled
<1>4. ASSUME NEW q \in Requests
      PROVE  /\ EndedBy(q)' = EndedBy(q)
             /\ \A s \in SessionIds : WrittenOff(q, s)' => WrittenOff(q, s)
  BY <1>2 DEF Unruled, EndedBy, WrittenOff
<1>5. \A q \in Requests, s \in SessionIds : Alone(q, s)' = Alone(q, s)
  BY <1>1, <1>3 DEF Alone, Overlap
<1>6. \A q \in Requests : Presenting(q)'
  BY PresentingKept DEF Unruled
<1>7. ASSUME NEW q \in Requests, Expecting(q)' PROVE Unopened(call[q].session)'
  <2> DEFINE s == call[q].session
  <2>1. Expecting(q)
    BY <1>1, <1>2, <1>7 DEF Expecting, SignsIn, Is, Unruled
  <2>2. Unopened(s) /\ s \in SessionIds
    BY <2>1, TypeParts, CallType DEF EndInv, Expecting, SignsIn, Is, WellFormed
  <2>3. sessions'[s] = Absent
    BY <2>2 DEF Unopened, Unruled
  <2>4. ASSUME NEW p \in Requests PROVE s \notin EndedBy(p)' /\ (pc'[p] \in Ruled => mem'[p].presented # s)
    BY <1>2, <1>3, <1>4, <2>2 DEF Unopened, Unruled
  <2> QED
    BY <1>1, <2>3, <2>4 DEF Unopened
<1>8. ASSUME NEW q \in Requests, NEW s \in SessionIds, WrittenOff(q, s)', Alone(q, s)' PROVE Closed(s)'
  <2>1. Closed(s)
    BY <1>4, <1>5, <1>8 DEF EndInv
  <2>2. sessions'[s] = Absent \/ sessions'[s].ended
    BY <2>1 DEF Closed, Unruled
  <2>3. \A p \in Requests : pc'[p] = "rotate" => mem'[p].presented # s
    BY <1>2, <1>3, <2>1 DEF Closed, Unruled
  <2> QED
    BY <2>2, <2>3 DEF Closed
<1>9. ASSUME NEW p \in Requests, NEW q \in Requests, NEW s \in SessionIds PROVE Denied(p, q, s)'
  <2>1. Denied(p, q, s)
    BY DEF EndInv
  <2>2. s # Absent
    BY AuthAssumption
  <2>3. CASE q # r
    BY <1>1, <1>2, <1>3, <1>4, <1>5, <2>1, <2>3 DEF Denied
  <2>4. CASE q = r
    BY <1>1, <1>3, <1>4, <1>5, <2>1, <2>2, <2>4 DEF Denied, Unruled
  <2> QED
    BY <2>3, <2>4
<1> QED
  BY <1>6, <1>7, <1>8, <1>9, <1>1 DEF EndInv

(* A call of a handler that presents nothing.                               *)
LEMMA BystanderUnruled ==
    ASSUME TypeInv, EndInv, NEW r \in Requests, Step(r),
           \A s \in SessionIds : sessions'[s] \in {sessions[s], Absent},
           Changes(r, Fields \ {"presented", "replayed", "ended"}),
           pc[r] \notin Ruled \cup EndPcs \cup {"back", "persist", "clear", "settle"} \cup Answers,
           pc'[r] \notin Ruled, pc'[r] \in BeforeSeat => pc[r] \in BeforeSeat
    PROVE  Unruled(r)
<1>1. Presenting(r) /\ ~mem[r].ended /\ ~mem[r].replayed /\ mem[r].presented = Absent
  BY DEF EndInv, Presenting, EndPcs
<1>2. mem'[r].presented = mem[r].presented /\ mem'[r].replayed = mem[r].replayed /\ mem'[r].ended = mem[r].ended
  BY DEF Changes, Fields
<1>3. Presenting(r)'
  BY <1>1, <1>2 DEF Presenting
<1> QED
  BY <1>1, <1>2, <1>3 DEF Unruled, Ruled, RotatePcs, EndPcs
LEMMA BystandersUnruled ==
    ASSUME TypeInv, EndInv, NEW r \in Requests, Step(r), pc[r] \notin RotatePcs \cup EndPcs, ~SessionPut(r),
           ~OnDeviceStep(r)
    PROVE  Unruled(r)
<1> USE DEF Left
<1> DEFINE F == Fields \ {"presented", "replayed", "ended"}
<1>1. SUFFICES /\ UNCHANGED sessions \/ DeleteUserRecords(r)
               /\ Changes(r, F)
               /\ pc[r] \notin Ruled \cup EndPcs \cup {"back", "persist", "clear", "settle"} \cup Answers
               /\ pc'[r] \notin Ruled /\ (pc'[r] \in BeforeSeat => pc[r] \in BeforeSeat)
  <2>1. ASSUME NEW s \in SessionIds, DeleteUserRecords(r) PROVE sessions'[s] \in {sessions[s], Absent}
    <3>1. CASE UNCHANGED sessions
      BY <3>1
    <3>2. CASE EraseSession(r)
      <4>1. PICK e \in mem[r].todo : EraseSession(r) /\ pc[r] = "erase_session" /\
              WriteSession(e, IF sessions[e] # Absent /\ sessions[e].user = call[r].user THEN Absent ELSE sessions[e])
        BY <3>2 DEF EraseSession, Erases, Goto
      <4>2. sessions \in [SessionIds -> SessionRec \cup {Absent}]
        BY DEF TypeInv, StoresOK
      <4> QED
        BY <4>1, <4>2 DEF WriteSession
    <3> QED
      BY <2>1, <3>1, <3>2 DEF DeleteUserRecords, EraseHome, EraseList, EraseIndex, EraseIdentity, EraseEmail,
         EraseUser, DropIndex, Reads, seats
  <2> QED
    BY <2>1, BystanderUnruled
<1>2. CASE StartEmail(r)
  <2>1. Changes(r, F)
    BY <1>2, StartChanges, ChangesMore DEF StartFields, Fields
  <2> QED
    BY <1>2, <2>1, StartMoves DEF seats, StartPcs, SweepPcs, ConsumePcs, ConsumedPcs, RefundPcs, Answers, BeforeSeat,
       CodePcs, TakePcs, PeoplePcs, Ruled, RotatePcs, EndPcs
<1>3. CASE RedeemChallenge(r)
  <2>1. Changes(r, F)
    BY <1>3, CodeChanges, ChangesMore DEF Fields
  <2> QED
    BY <1>3, <2>1, CodeMoves DEF seats, Answers, BeforeSeat, CodePcs, TakePcs, PeoplePcs, Ruled, RotatePcs, EndPcs
<1>4. CASE Parking(r)
  <2>1. Changes(r, F)
    BY <1>4, ParkChanges, ChangesMore DEF Fields
  <2>2. pc'[r] \in {"take_delete", "taken", "identity"} => pc[r] \in TakePcs
    BY <1>4, GotoMoves, RepliesMoves DEF Parking, Park, Parked, TakeGet, TakeDelete, Taken, HandoffPut, Bounce, PutCode,
       TakePcs, Goto, Replies
  <2> QED
    BY <1>4, <2>1, <2>2, ParkMoves
       DEF seats, Answers, BeforeSeat, CodePcs, TakePcs, PeoplePcs, BouncePcs, Ruled, RotatePcs, EndPcs
<1>5. CASE ResolveIdentity(r)
  <2>1. Changes(r, F)
    BY <1>5, PeopleChanges, ChangesMore DEF Fields
  <2> QED
    BY <1>5, <2>1, PeopleMoves DEF seats, Answers, BeforeSeat, CodePcs, TakePcs, PeoplePcs, Ruled, RotatePcs, EndPcs
<1>6. CASE IssueTokens(r)
  <2>1. Changes(r, F)
    BY <1>6, SeatChanges, ChangesMore DEF Fields
  <2>2. UNCHANGED sessions
    BY <1>6 DEF IssueTokens, SessionIndexed, SetIndex
  <2> QED
    BY <1>6, <2>1, <2>2, SeatMoves
       DEF Answers, BeforeSeat, CodePcs, TakePcs, PeoplePcs, SeatPcs, Ruled, RotatePcs, EndPcs
<1>7. CASE SessionsOf(r)
  <2>1. Changes(r, F)
    BY <1>7, ListChanges, ChangesMore DEF Fields
  <2> QED
    BY <1>7, <2>1, ListMoves DEF Answers, BeforeSeat, CodePcs, TakePcs, PeoplePcs, ListPcs, Ruled, RotatePcs, EndPcs
<1>8. CASE BackfillSessions(r)
  <2>1. Changes(r, F)
    BY <1>8, FillChanges, ChangesMore DEF Fields
  <2> QED
    BY <1>8, <2>1, FillMoves DEF Answers, BeforeSeat, CodePcs, TakePcs, PeoplePcs, FillPcs, Ruled, RotatePcs, EndPcs
<1>9. CASE DeleteUserRecords(r)
  <2>1. Changes(r, F)
    BY <1>9, EraseChanges, ChangesMore DEF Fields
  <2> QED
    BY <1>9, <2>1, EraseMoves DEF Answers, BeforeSeat, CodePcs, TakePcs, PeoplePcs, ErasePcs, Ruled, RotatePcs, EndPcs
<1>10. CASE Send(r)
  <2>1. Changes(r, F)
    BY <1>10, SendChanges, ChangesMore DEF Fields
  <2> QED
    BY <1>10, <2>1, SendMoves DEF Reads, seats, Answers, BeforeSeat, CodePcs, TakePcs, PeoplePcs, Ruled, RotatePcs, EndPcs
<1>11. ~RotateSession(r) /\ ~EndSessionOwnedBy(r)
  BY RotateMoves, EndMoves
<1> QED
  BY <1>2, <1>3, <1>4, <1>5, <1>6, <1>7, <1>8, <1>9, <1>10, <1>11, StepCases

(* What a device does with an answer, and what the network loses.           *)
LEMMA DeviceUnruled ==
    ASSUME TypeInv, EndInv, NEW r \in Requests, Step(r), OnDeviceStep(r)
    PROVE  Unruled(r)
<1>1. /\ mem[r] \in Memory /\ StageOf(r) /\ Presenting(r) /\ call' = call /\ UNCHANGED sessions
      /\ mem[r].answer \in Answers
  BY TypeParts, MemoryType, StepFrame, OnDeviceMoves DEF EndInv, Local, seats, given
<1>2. /\ mem'[r].presented = mem[r].presented /\ mem'[r].replayed = mem[r].replayed
      /\ mem'[r].ended = mem[r].ended
  BY DeviceChanges DEF Changes, Fields
<1>3. /\ pc[r] \in DevicePcs \cup {"rotate_get", "end_get"}
      /\ pc'[r] \in {"joined", "persist", "settle", "clear", "rotate_get", "end_get"} \cup Answers
  BY OnDeviceMoves
<1>4. mem'[r].answer \in {mem[r].answer, "null"}
  <2>1. CASE LoseRequest(r)
    BY <1>1, <2>1, HoldsMoves, MemoryType DEF LoseRequest, Fields
  <2>2. CASE LoseAnswer(r)
    <3> DEFINE yes == TRUE
    <3>1. mem'[r] = [mem[r] EXCEPT !.answer = "null", !.lost = yes]
      BY <2>2, HoldsMoves DEF LoseAnswer
    <3> HIDE DEF yes
    <3> QED
      BY <1>1, <3>1, MemoryType DEF Fields
  <2>3. CASE UNCHANGED mem
    BY <2>3
  <2>4. CASE UseToken(r) \/ SignOut(r)
    <3>1. UNCHANGED mem \/ \E x : \/ Holds(r, [mem[r] EXCEPT !.cred = x])
                                  \/ Holds(r, [mem[r] EXCEPT !.waits = x])
      BY <2>4 DEF UseToken, SignOut
    <3>2. UNCHANGED mem \/ \E x : mem'[r] = [mem[r] EXCEPT !.cred = x] \/ mem'[r] = [mem[r] EXCEPT !.waits = x]
      BY <3>1, HoldsMoves
    <3>3. DOMAIN mem[r] = Fields
      BY <1>1, MemoryType
    <3> QED
      BY <3>2, <3>3 DEF Fields
  <2>5. CASE Restart(r)
    BY <2>5 DEF Restart
  <2> QED
    BY <2>1, <2>2, <2>3, <2>4, <2>5 DEF OnDeviceStep, Joined, Adopt, Persist, Clear, Report, Settle, Abandoned
<1>5. pc[r] \in DevicePcs \cup {"rotate_get", "end_get"} /\ pc'[r] \in DevicePcs \cup {"rotate_get", "end_get"} \cup Answers
  BY <1>3 DEF DevicePcs
<1>6. mem[r].ended => mem'[r].cred = mem[r].cred /\ pc[r] \in {"back", "settle"} /\ pc'[r] \in {"settle"} \cup Answers
  <2> SUFFICES ASSUME mem[r].ended
               PROVE  mem'[r].cred = mem[r].cred /\ pc[r] \in {"back", "settle"} /\ pc'[r] \in {"settle"} \cup Answers
    OBVIOUS
  <2>0. pc[r] \in {"end_session", "end_index", "settle"} \cup Answers \/ (pc[r] = "back" /\ mem[r].answer = "204")
    BY <1>1 DEF Presenting
  <2>1. pc[r] = "settle" \/ (pc[r] = "back" /\ mem[r].answer = "204")
    <3>1. pc[r] \notin Answers
      BY StepFrame
    <3> QED
      BY <1>3, <2>0, <3>1 DEF DevicePcs
  <2>2. LoseAnswer(r) \/ Report(r) \/ Settle(r) \/ Abandoned(r)
    BY <2>1 DEF OnDeviceStep, UseToken, Joined, LoseRequest, Adopt, Adopts, Persist, SignOut, Refused401, Clear,
       Restart, Goto
  <2>3. pc'[r] \in {"settle"} \cup Answers
    BY <1>1, <2>2, GotoMoves DEF LoseAnswer, Report, Settle, Abandoned, Answers
  <2>4. CASE LoseAnswer(r)
    <3> DEFINE yes == TRUE
    <3>1. mem'[r] = [mem[r] EXCEPT !.answer = "null", !.lost = yes]
      BY <2>4, HoldsMoves DEF LoseAnswer
    <3> HIDE DEF yes
    <3> QED
      BY <1>1, <2>1, <2>3, <3>1, MemoryType DEF Fields
  <2> QED
    BY <2>1, <2>2, <2>3, <2>4 DEF Report, Settle, Abandoned
<1>7. mem[r].presented # Absent => pc[r] \in {"back", "persist", "clear", "settle", "end_get"}
                                   /\ pc'[r] \in {"persist", "clear", "settle", "end_get"} \cup Answers
  <2> SUFFICES ASSUME mem[r].presented # Absent
               PROVE  /\ pc[r] \in {"back", "persist", "clear", "settle", "end_get"}
                      /\ pc'[r] \in {"persist", "clear", "settle", "end_get"} \cup Answers
    OBVIOUS
  <2>1. pc[r] \in {"back", "persist", "clear", "settle", "end_get"}
    BY <1>1, <1>3, StepFrame DEF Presenting, Ruled, RotatePcs, EndPcs, DevicePcs
  <2>2. ~UseToken(r) /\ ~Joined(r)
    BY <2>1 DEF UseToken, Joined, Goto
  <2>3. pc'[r] \notin {"joined", "rotate_get"}
    BY <1>1, <2>1, <2>2, GotoMoves DEF OnDeviceStep, LoseRequest, LoseAnswer, Adopt, Persist, SignOut, Clear, Report,
       Settle, Restart, Abandoned, Answers
  <2> QED
    BY <1>3, <2>1, <2>3
<1>8. Presenting(r)'
  BY <1>1, <1>2, <1>4, <1>5, <1>6, <1>7 DEF Presenting, Ruled, RotatePcs, EndPcs, DevicePcs, Answers
<1> QED
  BY <1>1, <1>2, <1>4, <1>5, <1>6, <1>8 DEF Unruled, Ruled, RotatePcs, DevicePcs, Answers, BeforeSeat, CodePcs,
     TakePcs, PeoplePcs
(* A call that judges or writes a session: what is left to show of it.      *)
LEMMA RulingEnds ==
    ASSUME TypeInv, InOrder, EndInv, NEW r \in Requests, Step(r), pc[r] # "send",
           mem[r].presented \in {Absent, mem'[r].presented}, Presenting(r)',
           \A p \in Requests : Expecting(p)' =>
              LET s == call[p].session
              IN  /\ Expecting(p) /\ sessions'[s] = Absent
                  /\ s \notin EndedBy(r)' /\ (pc'[r] \in Ruled => mem'[r].presented # s),
           \A t \in SessionIds : WrittenOff(r, t)' /\ Alone(r, t)' => Closed(t)',
           \A q \in Requests \ {r}, t \in SessionIds : WrittenOff(q, t) /\ Closed(t) => Closed(t)',
           \A p \in Requests \ {r}, t \in SessionIds : Denied(p, r, t)'
    PROVE  EndInv'
<1>1. call' = call /\ pc[r] \notin Answers
  BY StepFrame DEF given
<1>2. ASSUME NEW q \in Requests \ {r}
      PROVE  /\ pc'[q] = pc[q] /\ mem'[q].presented = mem[q].presented /\ mem'[q].cred = mem[q].cred
             /\ mem'[q].replayed = mem[q].replayed /\ mem'[q].ended = mem[q].ended
             /\ mem'[q].answer = mem[q].answer
  BY StepFrame, OthersKeep
<1>3. \A q \in Requests, s \in SessionIds : Alone(q, s)' => Alone(q, s)
  <2>1. \A q \in Requests, s \in SessionIds : mem[q].presented = s => mem'[q].presented = s
    BY <1>2, AuthAssumption
  <2> QED
    BY <1>1, <2>1 DEF Alone, Overlap
<1>4. ASSUME NEW q \in Requests \ {r}
      PROVE  /\ EndedBy(q)' = EndedBy(q)
             /\ \A s \in SessionIds : WrittenOff(q, s)' = WrittenOff(q, s)
  BY <1>2 DEF EndedBy, WrittenOff
<1>5. \A q \in Requests : Presenting(q)'
  BY PresentingKept
<1>6. ASSUME NEW p \in Requests, Expecting(p)' PROVE Unopened(call[p].session)'
  <2> DEFINE s == call[p].session
  <2>1. Expecting(p) /\ sessions'[s] = Absent /\ s \notin EndedBy(r)' /\ (pc'[r] \in Ruled => mem'[r].presented # s)
    BY <1>6
  <2>2. Unopened(s)
    BY <2>1 DEF EndInv
  <2>3. ASSUME NEW q \in Requests PROVE s \notin EndedBy(q)' /\ (pc'[q] \in Ruled => mem'[q].presented # s)
    BY <1>2, <1>4, <2>1, <2>2 DEF Unopened
  <2> QED
    BY <1>1, <2>1, <2>3 DEF Unopened
<1>7. ASSUME NEW q \in Requests, NEW t \in SessionIds, WrittenOff(q, t)', Alone(q, t)' PROVE Closed(t)'
  <2>1. CASE q = r
    BY <1>7, <2>1
  <2>2. CASE q # r
    BY <1>3, <1>4, <1>7, <2>2 DEF EndInv
  <2> QED
    BY <2>1, <2>2
<1>8. ASSUME NEW p \in Requests, NEW q \in Requests, NEW t \in SessionIds PROVE Denied(p, q, t)'
  <2>1. CASE q = r /\ p # r
    BY <2>1
  <2>2. CASE q = r /\ p = r
    BY <1>1, <2>2 DEF InOrder, Denied
  <2>3. CASE q # r /\ p = r
    <3>1. SUFFICES ASSUME r \in call[q].after, mem[q].presented = t PROVE FALSE
      BY <1>1, <1>2, <2>3 DEF Denied
    <3>2. Presenting(q) /\ t # Absent
      BY AuthAssumption DEF EndInv
    <3>3. pc[q] # "send"
      BY <3>1, <3>2 DEF Presenting, Ruled, RotatePcs, EndPcs, Answers
    <3> QED
      BY <1>1, <3>1, <3>3 DEF InOrder
  <2>4. CASE q # r /\ p # r
    <3>1. Denied(p, q, t)
      BY DEF EndInv
    <3> QED
      BY <1>1, <1>2, <1>3, <1>4, <2>4, <3>1 DEF Denied
  <2> QED
    BY <2>1, <2>2, <2>3, <2>4
<1> QED
  BY <1>1, <1>5, <1>6, <1>7, <1>8 DEF EndInv

(* Only who overlaps a request that has not answered can be under way.      *)
LEMMA RotatesAlone ==
    ASSUME TypeInv, InOrder, EndInv, NEW r \in Requests, pc[r] \notin Answers \cup {"send", "rotate"},
           NEW t, Alone(r, t), NEW p \in Requests, pc[p] = "rotate"
    PROVE  mem[p].presented # t
<1>1. p # r /\ pc[p] \notin Answers \cup {"send"}
  BY DEF Answers
<1>2. Overlap(p, r)
  BY <1>1 DEF InOrder, Overlap
<1> QED
  BY <1>2 DEF Alone

LEMMA SessionPutEnds ==
    ASSUME TypeInv, InOrder, EndInv, NEW r \in Requests, Step(r), SessionPut(r)
    PROVE  EndInv'
<1> DEFINE s == call[r].session
           rec == [user |-> mem[r].user, secret |-> r, ended |-> FALSE]
<1>1. /\ pc[r] = "session_put" /\ pc'[r] = "session_index" /\ sessions' = [sessions EXCEPT ![s] = rec]
      /\ sessions \in [SessionIds -> SessionRec \cup {Absent}] /\ call' = call
  BY GotoMoves, StepFrame DEF SessionPut, WriteSession, TypeInv, StoresOK, given
<1>2. IssueTokens(r)
  BY DEF IssueTokens
<1>3. /\ mem'[r].presented = mem[r].presented /\ mem'[r].replayed = mem[r].replayed
      /\ mem'[r].ended = mem[r].ended /\ mem'[r].answer = mem[r].answer
  BY <1>1, <1>2, SeatChanges, HoldsMoves, TypeParts, MemoryType DEF Changes, Fields, SessionPut
<1>4. ~mem[r].ended /\ ~mem[r].replayed /\ mem[r].presented = Absent
  BY <1>1 DEF EndInv, Presenting, Ruled, RotatePcs, EndPcs, Answers
<1>5. call[r].op \in {"callback", "redirect"} /\ FreshIds(seed, call)
  BY <1>1, TypeParts, GivenFacts DEF StageOf, Stage, SeatPcs, TypeInv
<1>6. Unopened(s)
  BY <1>1, <1>5 DEF EndInv, Expecting, BeforeSeat, SignsIn, Is
<1> HIDE DEF rec
<1>7. ASSUME NEW p \in Requests, Expecting(p)'
      PROVE  /\ Expecting(p) /\ sessions'[call[p].session] = Absent
             /\ call[p].session \notin EndedBy(r)' /\ (pc'[r] \in Ruled => mem'[r].presented # call[p].session)
  <2>1. p # r /\ Expecting(p)
    BY <1>1, <1>7, StepFrame, OthersKeep DEF Expecting, SignsIn, Is, BeforeSeat, CodePcs, TakePcs, PeoplePcs
  <2>2. call[p].session # s
    BY <1>5, <2>1 DEF FreshIds, Expecting, SignsIn, Is
  <2>3. Unopened(call[p].session)
    BY <2>1 DEF EndInv
  <2>4. sessions'[call[p].session] = Absent
    BY <1>1, <2>2, <2>3 DEF Unopened
  <2> QED
    BY <1>1, <1>3, <1>4, <2>1, <2>4 DEF EndedBy, Ruled, RotatePcs
<1>8. ASSUME NEW q \in Requests \ {r}, NEW t \in SessionIds, WrittenOff(q, t), Closed(t) PROVE Closed(t)'
  <2>1. t # s
    BY <1>6, <1>8 DEF Unopened, EndedBy, WrittenOff
  <2>2. sessions'[t] = sessions[t]
    BY <1>1, <2>1
  <2>3. \A p \in Requests : pc'[p] = "rotate" => pc[p] = "rotate" /\ mem'[p].presented = mem[p].presented
    BY <1>1, StepFrame, OthersKeep
  <2> QED
    BY <1>8, <2>2, <2>3 DEF Closed
<1>9. Presenting(r)'
  BY <1>1, <1>3, <1>4 DEF Presenting, Ruled, RotatePcs
<1>10. \A t \in SessionIds : ~WrittenOff(r, t)'
  BY <1>3, <1>4 DEF WrittenOff
<1>11. \A p \in Requests \ {r}, t \in SessionIds : Denied(p, r, t)'
  BY <1>3, <1>4, AuthAssumption DEF Denied
<1> QED
  BY <1>1, <1>3, <1>4, <1>7, <1>8, <1>9, <1>10, <1>11, RulingEnds
LEMMA RotateGetEnds ==
    ASSUME TypeInv, InOrder, EndInv, NEW r \in Requests, Step(r), RotateGet(r)
    PROVE  EndInv'
<1> DEFINE s == Presented(r).session
           rec == sessions[s]
           verdict == RotateVerdict(r, rec)
           replayed == Replays(r, rec)
           m == [mem[r] EXCEPT !.rec = rec, !.presented = s, !.replayed = replayed]
<1>1. /\ pc[r] = "rotate_get" /\ UNCHANGED <<sessions, call>>
      /\ \/ verdict \in Answers /\ Replies(r, "rotate_get", verdict, m)
         \/ verdict \notin Answers /\ Goto(r, "rotate_get", verdict) /\ Holds(r, m)
  BY DEF RotateGet, Reads, seats, given
<1>2. /\ mem[r] \in Memory /\ s = mem[r].cred.session /\ s \in SessionIds
      /\ call[r].op \in {"use", "refresh"} /\ rec \in SessionRec \cup {Absent}
  BY <1>1, TypeParts DEF StageOf, Stage, RotatePcs, Presented, Cred, StoresOK
<1>3. /\ verdict \in {"401", "expire", "rotate", "tombstone"}
      /\ replayed <=> verdict = "tombstone"
      /\ rec = Absent \/ rec.ended => verdict = "401"
  BY <1>2 DEF RotateVerdict, Replays, SessionRec
<1>4. replayed \in BOOLEAN
  BY DEF Replays
<1>5. ~mem[r].ended /\ ~mem[r].replayed /\ mem[r].presented = Absent
  BY <1>1 DEF EndInv, Presenting, Ruled, RotatePcs, EndPcs, Answers
<1>6. DOMAIN mem[r] = Fields /\ s # Absent
  BY <1>2, MemoryType, AuthAssumption
<1> HIDE DEF s, rec, verdict, replayed
<1>7. DOMAIN m = Fields /\ m.presented = s /\ m.replayed = replayed /\ m.ended = mem[r].ended /\ m.cred = mem[r].cred
  BY <1>6 DEF Fields
<1> HIDE DEF m
<1>8. /\ mem'[r].presented = s /\ mem'[r].replayed = replayed /\ mem'[r].ended = mem[r].ended
      /\ mem'[r].cred = mem[r].cred
      /\ \/ verdict = "401" /\ pc'[r] \in {"back", "401"} /\ mem'[r].answer = "401"
         \/ verdict # "401" /\ pc'[r] = verdict
  <2>1. CASE verdict \in Answers /\ Replies(r, "rotate_get", verdict, m)
    <3> DEFINE n == [m EXCEPT !.answer = verdict]
    <3>1. verdict = "401"
      BY <1>3, <2>1 DEF Answers
    <3>2. mem'[r] = n /\ pc'[r] \in {"back", "401"}
      BY <2>1, <3>1, RepliesMoves
    <3>3. n.presented = s /\ n.replayed = replayed /\ n.ended = mem[r].ended /\ n.cred = mem[r].cred /\ n.answer = verdict
      BY <1>7 DEF Fields
    <3> QED
      BY <3>1, <3>2, <3>3
  <2>2. CASE verdict \notin Answers /\ Goto(r, "rotate_get", verdict) /\ Holds(r, m)
    BY <1>3, <1>7, <2>2, GotoMoves, HoldsMoves DEF Answers
  <2> QED
    BY <1>1, <2>1, <2>2
<1>9. Presenting(r)'
  BY <1>1, <1>2, <1>3, <1>5, <1>6, <1>8 DEF Presenting, Ruled, RotatePcs, Answers
<1>10. EndedBy(r)' \subseteq {s} /\ (s \in EndedBy(r)' => verdict = "tombstone")
  BY <1>3, <1>5, <1>8 DEF EndedBy
<1>11. ASSUME NEW p \in Requests, Expecting(p)'
       PROVE  /\ Expecting(p) /\ sessions'[call[p].session] = Absent
              /\ call[p].session \notin EndedBy(r)' /\ (pc'[r] \in Ruled => mem'[r].presented # call[p].session)
  <2>1. p # r /\ Expecting(p)
    BY <1>1, <1>2, <1>11, StepFrame, OthersKeep DEF Expecting, SignsIn, Is
  <2>2. sessions[call[p].session] = Absent
    BY <2>1 DEF EndInv, Unopened
  <2>3. call[p].session = s => verdict = "401"
    BY <1>3, <2>2 DEF rec
  <2> QED
    BY <1>1, <1>8, <1>10, <2>1, <2>2, <2>3 DEF Ruled, RotatePcs
<1>12. ASSUME NEW q \in Requests \ {r}, NEW t \in SessionIds, WrittenOff(q, t), Closed(t) PROVE Closed(t)'
  <2>1. \A p \in Requests \ {r} : pc'[p] = "rotate" => pc[p] = "rotate" /\ mem'[p].presented = mem[p].presented
    BY StepFrame, OthersKeep
  <2>2. pc'[r] = "rotate" => s # t
    BY <1>3, <1>8, <1>12 DEF Closed, rec
  <2> QED
    BY <1>1, <1>8, <1>12, <2>1, <2>2 DEF Closed
<1>13. \A t \in SessionIds : ~WrittenOff(r, t)'
  BY <1>3, <1>5, <1>8 DEF WrittenOff
<1>14. ASSUME NEW p \in Requests \ {r}, NEW t \in SessionIds PROVE Denied(p, r, t)'
  <2>1. SUFFICES ASSUME t \in EndedBy(p)', p \in call[r].after, s = t, Alone(p, t)'
                 PROVE  verdict = "401"
    BY <1>1, <1>8 DEF Denied
  <2>2. pc[p] \in Answers
    BY <1>1, <2>1 DEF InOrder
  <2>3. t \in EndedBy(p)
    BY <2>1, StepFrame, OthersKeep DEF EndedBy
  <2>4. WrittenOff(p, t)
    BY <2>2, <2>3 DEF WrittenOff, EndedBy, Answers
  <2>5. Alone(p, t)
    <3>1. \A q \in Requests : mem[q].presented = t => mem'[q].presented = t
      BY <1>5, <2>1, StepFrame, OthersKeep, AuthAssumption
    <3> QED
      BY <1>1, <2>1, <3>1 DEF Alone, Overlap
  <2>6. Closed(t)
    BY <2>4, <2>5 DEF EndInv
  <2> QED
    BY <1>3, <2>1, <2>6 DEF Closed, rec
<1> QED
  BY <1>1, <1>5, <1>9, <1>11, <1>12, <1>13, <1>14, RulingEnds

LEMMA TombstoneEnds ==
    ASSUME TypeInv, InOrder, EndInv, NEW r \in Requests, Step(r), Tombstone(r)
    PROVE  EndInv'
<1> DEFINE s == mem[r].cred.session
           yes == TRUE
           rec == [mem[r].rec EXCEPT !.secret = Absent, !.ended = yes]
<1>1. /\ pc[r] = "tombstone" /\ Replies(r, "tombstone", "401", mem[r]) /\ sessions' = [sessions EXCEPT ![s] = rec]
      /\ call' = call
  BY StepFrame DEF Tombstone, Replies, Goto, WriteSession, Presented, given
<1>2. /\ mem[r] \in Memory /\ s \in SessionIds /\ mem[r].rec \in SessionRec /\ call[r].op \in {"use", "refresh"}
      /\ sessions \in [SessionIds -> SessionRec \cup {Absent}]
  BY <1>1, TypeParts DEF StageOf, Stage, RotatePcs, Cred, StoresOK
<1> HIDE DEF yes
<1>3. rec.ended = yes
  BY <1>2 DEF SessionRec
<1> HIDE DEF rec
<1>4. sessions'[s].ended
  BY <1>1, <1>2, <1>3 DEF yes
<1>5. "401" \in Answers
  BY DEF Answers
<1>6. pc'[r] \in {"back", "401"} /\ mem'[r].answer = "401" /\ Changes(r, {"answer"})
  <2>1. pc'[r] \in {"back", "401"} /\ mem'[r] = [mem[r] EXCEPT !.answer = "401"]
    BY <1>1, <1>5, RepliesMoves
  <2>2. Changes(r, {"answer"})
    BY <1>1, PlainRepliesChanges
  <2> QED
    BY <1>2, <2>1, <2>2, MemoryType DEF Fields
<1>7. /\ mem'[r].presented = mem[r].presented /\ mem'[r].replayed = mem[r].replayed
      /\ mem'[r].ended = mem[r].ended /\ mem'[r].cred = mem[r].cred
  BY <1>6 DEF Changes, Fields
<1>8. mem[r].presented = s /\ ~mem[r].ended /\ Presenting(r)
  BY <1>1 DEF EndInv, Presenting, Ruled, RotatePcs, Answers
<1>9. Presenting(r)'
  BY <1>1, <1>6, <1>7, <1>8 DEF Presenting, Ruled, RotatePcs, Answers
<1>10. ASSUME NEW p \in Requests, Expecting(p)'
       PROVE  /\ Expecting(p) /\ sessions'[call[p].session] = Absent
              /\ call[p].session \notin EndedBy(r)' /\ (pc'[r] \in Ruled => mem'[r].presented # call[p].session)
  <2>1. p # r /\ Expecting(p)
    BY <1>1, <1>2, <1>10, StepFrame, OthersKeep DEF Expecting, SignsIn, Is
  <2>2. Unopened(call[p].session) /\ call[p].session # s
    BY <1>1, <1>8, <2>1 DEF EndInv, Unopened, Ruled, RotatePcs
  <2> QED
    BY <1>1, <1>6, <1>7, <2>1, <2>2 DEF Unopened, EndedBy, Ruled, RotatePcs
<1>11. ASSUME NEW t \in SessionIds, Closed(t) PROVE Closed(t)'
  <2>1. \A p \in Requests \ {r} : pc'[p] = "rotate" => pc[p] = "rotate" /\ mem'[p].presented = mem[p].presented
    BY StepFrame, OthersKeep
  <2>2. sessions'[t] = Absent \/ sessions'[t].ended
    BY <1>1, <1>4, <1>11 DEF Closed
  <2> QED
    BY <1>6, <1>11, <2>1, <2>2 DEF Closed
<1>12. ASSUME NEW t \in SessionIds, WrittenOff(r, t)', Alone(r, t)' PROVE Closed(t)'
  <2>1. t = s
    BY <1>7, <1>8, <1>12 DEF WrittenOff
  <2>2. ASSUME NEW p \in Requests, pc'[p] = "rotate" PROVE mem'[p].presented # t
    <3>1. pc[p] = "rotate" /\ mem'[p].presented = mem[p].presented
      BY <1>6, <2>2, StepFrame, OthersKeep
    <3>2. Alone(r, t)
      <4>1. \A q \in Requests : mem'[q].presented = mem[q].presented
        BY <1>7, StepFrame, OthersKeep
      <4> QED
        BY <1>1, <1>12, <4>1 DEF Alone, Overlap
    <3>3. pc[r] \notin Answers \cup {"send", "rotate"}
      BY <1>1 DEF Answers
    <3> QED
      BY <3>1, <3>2, <3>3, RotatesAlone
  <2> QED
    BY <1>4, <2>1, <2>2 DEF Closed
<1>13. \A p \in Requests \ {r}, t \in SessionIds : Denied(p, r, t)'
  BY <1>6 DEF Denied, Answers
<1> QED
  BY <1>1, <1>7, <1>9, <1>10, <1>11, <1>12, <1>13, RulingEnds
LEMMA RotateEnds ==
    ASSUME TypeInv, InOrder, EndInv, NEW r \in Requests, Step(r), Rotate(r)
    PROVE  EndInv'
<1> DEFINE s == mem[r].cred.session
           rec == [mem[r].rec EXCEPT !.secret = r]
<1>1. /\ pc[r] = "rotate" /\ pc'[r] = "rotated_user" /\ mem' = mem /\ sessions' = [sessions EXCEPT ![s] = rec]
      /\ call' = call
  BY GotoMoves, StepFrame DEF Rotate, WriteSession, Presented, given
<1>2. s \in SessionIds /\ sessions \in [SessionIds -> SessionRec \cup {Absent}] /\ call[r].op \in {"use", "refresh"}
  BY <1>1, TypeParts DEF StageOf, Stage, RotatePcs, Cred, StoresOK
<1> HIDE DEF rec
<1>3. mem[r].presented = s /\ ~mem[r].ended /\ ~mem[r].replayed /\ Presenting(r)
  BY <1>1 DEF EndInv, Presenting, Ruled, RotatePcs, Answers
<1>4. Presenting(r)'
  BY <1>1, <1>3 DEF Presenting, Ruled, RotatePcs
<1>5. ASSUME NEW p \in Requests, Expecting(p)'
      PROVE  /\ Expecting(p) /\ sessions'[call[p].session] = Absent
             /\ call[p].session \notin EndedBy(r)' /\ (pc'[r] \in Ruled => mem'[r].presented # call[p].session)
  <2>1. p # r /\ Expecting(p)
    BY <1>1, <1>2, <1>5, StepFrame, OthersKeep DEF Expecting, SignsIn, Is
  <2>2. Unopened(call[p].session) /\ call[p].session # s
    BY <1>1, <1>3, <2>1 DEF EndInv, Unopened, Ruled, RotatePcs
  <2> QED
    BY <1>1, <1>3, <2>1, <2>2 DEF Unopened, EndedBy
<1>6. ASSUME NEW t \in SessionIds, Closed(t) PROVE Closed(t)'
  <2>1. \A p \in Requests \ {r} : pc'[p] = "rotate" => pc[p] = "rotate" /\ mem'[p].presented = mem[p].presented
    BY StepFrame, OthersKeep
  <2>2. t # s
    BY <1>1, <1>3, <1>6 DEF Closed
  <2>3. sessions'[t] = sessions[t]
    BY <1>1, <2>2
  <2> QED
    BY <1>1, <1>6, <2>1, <2>3 DEF Closed
<1>7. \A t \in SessionIds : ~WrittenOff(r, t)'
  BY <1>1, <1>3 DEF WrittenOff
<1>8. ASSUME NEW p \in Requests \ {r}, NEW t \in SessionIds PROVE Denied(p, r, t)'
  <2>1. Denied(p, r, t) /\ EndedBy(p)' = EndedBy(p) /\ Alone(p, t)' = Alone(p, t)
    BY <1>1 DEF EndInv, EndedBy, Alone, Overlap
  <2> QED
    BY <1>1, <2>1 DEF Denied
<1> QED
  BY <1>1, <1>4, <1>5, <1>6, <1>7, <1>8, RulingEnds

LEMMA RotatedUserEnds ==
    ASSUME TypeInv, InOrder, EndInv, NEW r \in Requests, Step(r), RotatedUser(r)
    PROVE  EndInv'
<1>1. PICK answer \in {"200", "500", "401"} :
         Replies(r, "rotated_user", answer, [mem[r] EXCEPT !.cred.secret = r, !.lost = answer = "500"])
  BY DEF RotatedUser
<1> DEFINE c == [mem[r].cred EXCEPT !.secret = r]
           lost == answer = "500"
           m == [mem[r] EXCEPT !.cred = c, !.lost = lost]
           n == [m EXCEPT !.answer = answer]
<1>2. DOMAIN mem[r] = Fields /\ answer \in Answers /\ Replies(r, "rotated_user", answer, m)
  BY <1>1, TypeParts, MemoryType DEF Answers
<1> HIDE DEF c, lost
<1>3. DOMAIN m = Fields /\ m.presented = mem[r].presented /\ m.replayed = mem[r].replayed /\ m.ended = mem[r].ended
  BY <1>2 DEF Fields
<1> HIDE DEF m
<1>4. n.presented = mem[r].presented /\ n.replayed = mem[r].replayed /\ n.ended = mem[r].ended
  BY <1>3 DEF Fields
<1>5. mem'[r] = n /\ pc[r] = "rotated_user" /\ pc'[r] \in {"back", "200", "500", "401"}
  BY <1>2, RepliesMoves
<1> HIDE DEF n
<1>6. UNCHANGED <<sessions, call>>
  BY DEF RotatedUser, Reads, seats, given
<1>7. ~mem[r].ended /\ Presenting(r) /\ call[r].op \in {"use", "refresh"}
  BY <1>5, TypeParts DEF EndInv, Presenting, StageOf, Stage, Ruled, RotatePcs, Answers
<1>8. Presenting(r)'
  BY <1>4, <1>5, <1>6, <1>7 DEF Presenting, Ruled, RotatePcs, Answers
<1>9. EndedBy(r)' = EndedBy(r) /\ \A t \in SessionIds : WrittenOff(r, t)' => WrittenOff(r, t)
  BY <1>4, <1>5, <1>7 DEF EndedBy, WrittenOff
<1>10. ASSUME NEW p \in Requests, Expecting(p)'
      PROVE  /\ Expecting(p) /\ sessions'[call[p].session] = Absent
             /\ call[p].session \notin EndedBy(r)' /\ (pc'[r] \in Ruled => mem'[r].presented # call[p].session)
  <2>1. p # r /\ Expecting(p)
    BY <1>6, <1>7, <1>10, StepFrame, OthersKeep DEF Expecting, SignsIn, Is
  <2>2. Unopened(call[p].session)
    BY <2>1 DEF EndInv
  <2> QED
    BY <1>5, <1>6, <1>9, <2>1, <2>2 DEF Unopened, Ruled, RotatePcs
<1>11. ASSUME NEW t \in SessionIds, Closed(t) PROVE Closed(t)'
  <2>1. \A p \in Requests \ {r} : pc'[p] = "rotate" => pc[p] = "rotate" /\ mem'[p].presented = mem[p].presented
    BY StepFrame, OthersKeep
  <2> QED
    BY <1>5, <1>6, <1>11, <2>1 DEF Closed
<1>12. \A p \in Requests : mem'[p].presented = mem[p].presented
  BY <1>4, <1>5, StepFrame, OthersKeep
<1>13. \A q \in Requests, t \in SessionIds : Alone(q, t)' = Alone(q, t)
  BY <1>6, <1>12 DEF Alone, Overlap
<1>14. \A t \in SessionIds : WrittenOff(r, t)' /\ Alone(r, t)' => Closed(t)'
  BY <1>9, <1>11, <1>13 DEF EndInv
<1>15. ASSUME NEW p \in Requests \ {r}, NEW t \in SessionIds PROVE Denied(p, r, t)'
  <2>1. Denied(p, r, t) /\ EndedBy(p)' = EndedBy(p)
    BY StepFrame, OthersKeep DEF EndInv, EndedBy
  <2> QED
    BY <1>5, <1>6, <1>12, <1>13, <2>1 DEF Denied
<1> QED
  BY <1>5, <1>8, <1>10, <1>11, <1>12, <1>14, <1>15, RulingEnds

LEMMA EndGetEnds ==
    ASSUME TypeInv, InOrder, EndInv, NEW r \in Requests, Step(r), EndGet(r)
    PROVE  EndInv'
<1> DEFINE s == mem[r].cred.session
           rec == sessions[s]
<1>1. PICK ends \in BOOLEAN :
         /\ ends => rec # Absent
         /\ \/ ends /\ Goto(r, "end_get", "end_session") /\ Holds(r, [mem[r] EXCEPT !.rec = rec, !.ended = ends])
            \/ ~ends /\ Replies(r, "end_get", "204", [mem[r] EXCEPT !.rec = rec, !.ended = ends])
  BY DEF EndGet
<1> DEFINE m == [mem[r] EXCEPT !.rec = rec, !.ended = ends]
<1>2. /\ pc[r] = "end_get" /\ UNCHANGED <<sessions, call>> /\ mem[r] \in Memory /\ s \in SessionIds
      /\ call[r].op \in {"use", "signout", "revoke"}
  BY TypeParts DEF EndGet, Reads, seats, given, StageOf, Stage, EndPcs, Cred
<1>3. Presenting(r) /\ ~mem[r].ended
  BY <1>2 DEF EndInv, Presenting, Answers
<1>4. DOMAIN mem[r] = Fields
  BY <1>2, MemoryType
<1> HIDE DEF rec
<1>5. /\ DOMAIN m = Fields /\ m.presented = mem[r].presented /\ m.replayed = mem[r].replayed /\ m.ended = ends
      /\ m.cred = mem[r].cred /\ m.answer = mem[r].answer
  BY <1>4 DEF Fields
<1>6. CASE ~ends
  <2>1. "204" \in Answers /\ Replies(r, "end_get", "204", m)
    BY <1>1, <1>6 DEF Answers
  <2> HIDE DEF m
  <2> DEFINE n == [m EXCEPT !.answer = "204"]
  <2>2. mem'[r] = n /\ pc'[r] \in {"back", "204"}
    BY <2>1, RepliesMoves
  <2>3. /\ n.presented = mem[r].presented /\ n.replayed = mem[r].replayed /\ n.ended = ends
        /\ n.cred = mem[r].cred /\ n.answer = "204"
    BY <1>5 DEF Fields
  <2> HIDE DEF n
  <2>4. Presenting(r)'
    BY <1>2, <1>3, <1>6, <2>2, <2>3 DEF Presenting, Ruled, RotatePcs, EndPcs, Answers
  <2>5. mem'[r].ended = mem[r].ended
    <3>1. mem[r].ended \in BOOLEAN
      BY <1>2, MemoryFlags
    <3> QED
      BY <1>3, <1>6, <2>2, <2>3, <3>1
  <2>6. Unruled(r)
    BY <1>2, <1>3, <2>2, <2>3, <2>4, <2>5 DEF Unruled, Ruled, RotatePcs, BeforeSeat, CodePcs, TakePcs, PeoplePcs
  <2> QED
    BY <2>6, UnruledEnds
<1>7. CASE ends
  <2>1. Goto(r, "end_get", "end_session") /\ Holds(r, m)
    BY <1>1, <1>7
  <2> HIDE DEF m
  <2>2. mem'[r] = m /\ pc'[r] = "end_session"
    BY <2>1, GotoMoves, HoldsMoves
  <2>3. Presenting(r)'
    BY <1>2, <1>3, <1>5, <2>2 DEF Presenting, Ruled, RotatePcs, EndPcs
  <2>4. ASSUME NEW p \in Requests, Expecting(p)'
        PROVE  /\ Expecting(p) /\ sessions'[call[p].session] = Absent
               /\ call[p].session \notin EndedBy(r)' /\ (pc'[r] \in Ruled => mem'[r].presented # call[p].session)
    <3>1. p # r /\ Expecting(p)
      BY <1>2, <2>4, StepFrame, OthersKeep DEF Expecting, SignsIn, Is
    <3>2. Unopened(call[p].session) /\ call[p].session # s
      BY <1>1, <1>7, <3>1 DEF EndInv, Unopened, rec
    <3> QED
      BY <1>2, <1>5, <2>2, <3>1, <3>2 DEF Unopened, EndedBy, Ruled, RotatePcs
  <2>5. \A p \in Requests : mem'[p].presented = mem[p].presented
    BY <1>5, <2>2, StepFrame, OthersKeep
  <2>6. \A q \in Requests, t \in SessionIds : Alone(q, t)' = Alone(q, t)
    BY <1>2, <2>5 DEF Alone, Overlap
  <2>7. ASSUME NEW t \in SessionIds, Closed(t) PROVE Closed(t)'
    <3>1. \A p \in Requests \ {r} : pc'[p] = "rotate" => pc[p] = "rotate"
      BY StepFrame, OthersKeep
    <3> QED
      BY <1>2, <2>2, <2>5, <2>7, <3>1 DEF Closed
  <2>8. ASSUME NEW t \in SessionIds, WrittenOff(r, t)', Alone(r, t)' PROVE Closed(t)'
    <3>1. WrittenOff(r, t)
      BY <1>2, <1>5, <2>2, <2>8 DEF WrittenOff
    <3> QED
      BY <2>6, <2>7, <2>8, <3>1 DEF EndInv
  <2>9. ASSUME NEW p \in Requests \ {r}, NEW t \in SessionIds PROVE Denied(p, r, t)'
    <3>1. Denied(p, r, t) /\ EndedBy(p)' = EndedBy(p)
      BY StepFrame, OthersKeep DEF EndInv, EndedBy
    <3> QED
      BY <1>2, <1>5, <2>2, <2>6, <3>1 DEF Denied
  <2> QED
    BY <1>2, <2>3, <2>4, <2>5, <2>7, <2>8, <2>9, RulingEnds
<1> QED
  BY <1>6, <1>7

LEMMA EndSessionEnds ==
    ASSUME TypeInv, InOrder, EndInv, NEW r \in Requests, Step(r), EndSession(r)
    PROVE  EndInv'
<1> DEFINE s == mem[r].cred.session
<1>1. /\ pc[r] = "end_session" /\ pc'[r] = "end_index" /\ mem' = mem /\ call' = call
      /\ sessions' = [sessions EXCEPT ![s] = Absent]
  BY GotoMoves, StepFrame DEF EndSession, WriteSession, given
<1>2. /\ s \in SessionIds /\ sessions \in [SessionIds -> SessionRec \cup {Absent}]
      /\ call[r].op \in {"use", "signout", "revoke"} /\ Presenting(r)
  BY <1>1, TypeParts DEF StageOf, Stage, EndPcs, Cred, StoresOK, EndInv
<1>3. Presenting(r)'
  BY <1>1, <1>2 DEF Presenting, Ruled, RotatePcs, EndPcs
<1>4. ASSUME NEW p \in Requests, Expecting(p)'
      PROVE  /\ Expecting(p) /\ sessions'[call[p].session] = Absent
             /\ call[p].session \notin EndedBy(r)' /\ (pc'[r] \in Ruled => mem'[r].presented # call[p].session)
  <2>1. p # r /\ Expecting(p)
    BY <1>1, <1>2, <1>4, StepFrame, OthersKeep DEF Expecting, SignsIn, Is
  <2>2. Unopened(call[p].session) /\ EndedBy(r)' = EndedBy(r) /\ call[p].session \in SessionIds
    BY <1>1, <2>1, TypeParts, CallType DEF EndInv, EndedBy, Expecting, SignsIn, Is, WellFormed
  <2> QED
    BY <1>1, <1>2, <2>1, <2>2 DEF Unopened, Ruled, RotatePcs
<1>5. ASSUME NEW t \in SessionIds, Closed(t) PROVE Closed(t)'
  <2>1. \A p \in Requests : pc'[p] = "rotate" => pc[p] = "rotate"
    BY <1>1, StepFrame, OthersKeep
  <2> QED
    BY <1>1, <1>2, <1>5, <2>1 DEF Closed
<1>6. \A q \in Requests, t \in SessionIds : Alone(q, t)' = Alone(q, t)
  BY <1>1 DEF Alone, Overlap
<1>7. ASSUME NEW t \in SessionIds, WrittenOff(r, t)', Alone(r, t)' PROVE Closed(t)'
  <2>1. CASE WrittenOff(r, t)
    BY <1>5, <1>6, <1>7, <2>1 DEF EndInv
  <2>2. CASE ~WrittenOff(r, t)
    <3>1. t = s
      BY <1>1, <1>7, <2>2 DEF WrittenOff
    <3>2. ASSUME NEW p \in Requests, pc'[p] = "rotate" PROVE mem'[p].presented # t
      <4>1. pc[p] = "rotate" /\ Alone(r, t)
        BY <1>1, <1>6, <1>7, <3>2, StepFrame, OthersKeep
      <4>2. pc[r] \notin Answers \cup {"send", "rotate"}
        BY <1>1 DEF Answers
      <4> QED
        BY <1>1, <4>1, <4>2, RotatesAlone
    <3> QED
      BY <1>1, <1>2, <3>1, <3>2 DEF Closed
  <2> QED
    BY <2>1, <2>2
<1>8. ASSUME NEW p \in Requests \ {r}, NEW t \in SessionIds PROVE Denied(p, r, t)'
  <2>1. Denied(p, r, t) /\ EndedBy(p)' = EndedBy(p)
    BY <1>1 DEF EndInv, EndedBy
  <2> QED
    BY <1>1, <1>6, <2>1 DEF Denied
<1> QED
  BY <1>1, <1>3, <1>4, <1>5, <1>7, <1>8, RulingEnds
LEMMA QuietRulings ==
    ASSUME TypeInv, EndInv, NEW r \in Requests, Step(r), Expire(r) \/ ExpireIndex(r) \/ EndIndex(r)
    PROVE  Unruled(r)
<1>1. /\ Presenting(r) /\ call' = call /\ mem[r] \in Memory /\ StageOf(r)
      /\ sessions \in [SessionIds -> SessionRec \cup {Absent}]
  BY TypeParts, StepFrame DEF EndInv, given, StoresOK
<1>2. CASE Expire(r)
  <2>1. /\ pc[r] = "expire" /\ pc'[r] = "expire_index" /\ mem' = mem
        /\ sessions' = [sessions EXCEPT ![mem[r].cred.session] = Absent]
    BY <1>2, GotoMoves DEF Expire, WriteSession, Presented
  <2>2. Presenting(r)' /\ ~mem[r].ended
    BY <1>1, <2>1 DEF Presenting, Ruled, RotatePcs, Answers
  <2> QED
    BY <1>1, <2>1, <2>2 DEF Unruled, Ruled, RotatePcs, BeforeSeat, CodePcs, TakePcs, PeoplePcs
<1>3. ASSUME NEW from \in {"expire_index", "end_index"}, NEW a \in Answers, Replies(r, from, a, mem[r]),
             from = "end_index" => a = "204", a # "200", UNCHANGED sessions
      PROVE  Unruled(r)
  <2>1. Changes(r, {"answer"}) /\ pc[r] = from /\ pc'[r] \in {"back", a} /\ mem'[r] = [mem[r] EXCEPT !.answer = a]
    BY <1>3, RepliesMoves, PlainRepliesChanges
  <2>2. /\ mem'[r].presented = mem[r].presented /\ mem'[r].replayed = mem[r].replayed
        /\ mem'[r].ended = mem[r].ended /\ mem'[r].cred = mem[r].cred /\ mem'[r].answer = a
    BY <1>1, <2>1, MemoryType DEF Changes, Fields
  <2>3. from = "expire_index" => ~mem[r].ended
    BY <1>1, <2>1 DEF Presenting, Answers
  <2>4. pc'[r] \in {"back"} \cup Answers
    BY <2>1
  <2>5. Presenting(r)'
    BY <1>1, <1>3, <2>1, <2>2, <2>3, <2>4 DEF Presenting, Ruled, RotatePcs, EndPcs, Answers
  <2> QED
    BY <1>3, <2>1, <2>2, <2>4, <2>5 DEF Unruled, Ruled, RotatePcs, Answers, BeforeSeat, CodePcs, TakePcs, PeoplePcs
<1>4. "401" \in Answers /\ "204" \in Answers
  BY DEF Answers
<1>5. CASE ExpireIndex(r)
  BY <1>3, <1>4, <1>5 DEF ExpireIndex, DropIndex
<1>6. CASE EndIndex(r)
  BY <1>3, <1>4, <1>6 DEF EndIndex, DropIndex
<1> QED
  BY <1>2, <1>5, <1>6

LEMMA EndNext == TypeInv /\ InOrder /\ EndInv /\ [Next]_vars => EndInv'
<1> SUFFICES ASSUME TypeInv, InOrder, EndInv, [Next]_vars PROVE EndInv'
  OBVIOUS
<1>1. CASE Idle
  BY <1>1 DEF Idle, seats, given, EndInv, Presenting, Expecting, SignsIn, Is, Unopened, EndedBy, WrittenOff, Alone,
     Overlap, Closed, Denied
<1>2. ASSUME NEW r \in Requests, Step(r) PROVE EndInv'
  <2>1. CASE SessionPut(r)
    BY <1>2, <2>1, SessionPutEnds
  <2>2. CASE OnDeviceStep(r)
    BY <1>2, <2>2, DeviceUnruled, UnruledEnds
  <2>3. CASE RotateSession(r)
    BY <1>2, <2>3, RotateGetEnds, TombstoneEnds, RotateEnds, RotatedUserEnds, QuietRulings, UnruledEnds DEF RotateSession
  <2>4. CASE EndSessionOwnedBy(r)
    BY <1>2, <2>4, EndGetEnds, EndSessionEnds, QuietRulings, UnruledEnds DEF EndSessionOwnedBy
  <2>5. CASE ~SessionPut(r) /\ ~OnDeviceStep(r) /\ ~RotateSession(r) /\ ~EndSessionOwnedBy(r)
    <3>1. pc[r] \notin RotatePcs \cup EndPcs
      BY <1>2, <2>5, StepCases, StartMoves, CodeMoves, ParkMoves, PeopleMoves, SeatMoves, ListMoves, FillMoves,
         EraseMoves, SendMoves
         DEF StartPcs, SweepPcs, ConsumePcs, ConsumedPcs, RefundPcs, CodePcs, TakePcs, BouncePcs, PeoplePcs, SeatPcs,
             ListPcs, FillPcs, ErasePcs, RotatePcs, EndPcs
    <3> QED
      BY <1>2, <2>5, <3>1, BystandersUnruled, UnruledEnds
  <2> QED
    BY <2>1, <2>2, <2>3, <2>4, <2>5
<1> QED
  BY <1>1, <1>2, NextCases

LEMMA EndInvariant == Spec => [](TypeInv /\ InOrder /\ EndInv)
BY OrderInvariant, EndInit, EndNext, PTL DEF Spec

(* A session that somebody ended, or that was ended because a token was     *)
(* presented a second time, gives no token to a request that comes later:   *)
(* rotateSession reads the tombstone, or nothing, and refuses.  A refresh   *)
(* that overlaps the end is excepted: it puts back what it read.            *)
THEOREM EndedForGood == Spec => []EndedStaysEnded
<1>1. EndInv => EndedStaysEnded
  <2> SUFFICES ASSUME EndInv, NEW r \in Requests, NEW q \in Requests, NEW s \in EndedBy(r),
                      r \in call[q].after, mem[q].presented = s,
                      \A p \in Requests : Overlap(p, r) => mem[p].presented # s
               PROVE  mem[q].answer # "200"
    BY DEF EndedStaysEnded
  <2>1. s \in SessionIds
    BY DEF EndedBy
  <2> QED
    BY <2>1 DEF EndInv, Denied, Alone
<1> QED
  BY <1>1, EndInvariant, PTL
-----------------------------------------------------------------------------
(* Who signs in.  Only resolveIdentity decides on the user.                 *)
LEMMA RotateChanges ==
    ASSUME TypeInv, NEW r \in Requests, RotateSession(r)
    PROVE  Changes(r, {"rec", "presented", "replayed", "cred", "lost", "answer"})
<1> DEFINE F == {"rec", "presented", "replayed", "cred", "lost"}
<1>1. DOMAIN mem[r] = Fields
  BY TypeParts, MemoryType
<1>2. CASE RotateGet(r)
  <2> DEFINE s == Presented(r).session
             rec == sessions[s]
             verdict == RotateVerdict(r, rec)
             replayed == Replays(r, rec)
             m == [mem[r] EXCEPT !.rec = rec, !.presented = s, !.replayed = replayed]
  <2>1. Replies(r, "rotate_get", verdict, m) \/ Holds(r, m)
    BY <1>2 DEF RotateGet
  <2> HIDE DEF s, rec, verdict, replayed
  <2>2. (\A f \in Fields \ F : m[f] = mem[r][f]) /\ DOMAIN m = Fields
    BY <1>1
  <2> HIDE DEF m
  <2>3. Changes(r, F) \/ Changes(r, F \cup {"answer"})
    BY <2>1, <2>2, HoldsChanges, RepliesChanges
  <2> QED
    BY <2>3 DEF Changes
<1>3. CASE RotatedUser(r)
  <2>1. PICK answer : Replies(r, "rotated_user", answer, [mem[r] EXCEPT !.cred.secret = r, !.lost = answer = "500"])
    BY <1>3 DEF RotatedUser
  <2> DEFINE c == [mem[r].cred EXCEPT !.secret = r]
             lost == answer = "500"
             m == [mem[r] EXCEPT !.cred = c, !.lost = lost]
  <2>2. Replies(r, "rotated_user", answer, m)
    BY <1>1, <2>1 DEF Fields
  <2> HIDE DEF c, lost
  <2>3. (\A f \in Fields \ F : m[f] = mem[r][f]) /\ DOMAIN m = Fields
    BY <1>1
  <2> HIDE DEF m
  <2>4. Changes(r, F \cup {"answer"})
    BY <2>2, <2>3, RepliesChanges
  <2> QED
    BY <2>4 DEF Changes
<1>4. CASE UNCHANGED mem
  BY <1>4, SameChanges
<1>5. CASE ExpireIndex(r) \/ Tombstone(r)
  BY <1>5, PlainRepliesChanges, ChangesMore DEF ExpireIndex, Tombstone
<1> QED
  BY <1>2, <1>3, <1>4, <1>5 DEF RotateSession, Expire, Rotate

LEMMA EndChanges ==
    ASSUME TypeInv, NEW r \in Requests, EndSessionOwnedBy(r)
    PROVE  Changes(r, {"rec", "ended", "answer"})
<1>1. DOMAIN mem[r] = Fields
  BY TypeParts, MemoryType
<1>2. CASE EndGet(r)
  <2>1. PICK x, ends : \/ Holds(r, [mem[r] EXCEPT !.rec = x, !.ended = ends])
                       \/ Replies(r, "end_get", "204", [mem[r] EXCEPT !.rec = x, !.ended = ends])
    BY <1>2 DEF EndGet
  <2> DEFINE m == [mem[r] EXCEPT !.rec = x, !.ended = ends]
  <2>2. (\A f \in Fields \ {"rec", "ended"} : m[f] = mem[r][f]) /\ DOMAIN m = Fields
    BY <1>1
  <2>3. Replies(r, "end_get", "204", m) \/ Holds(r, m)
    BY <2>1
  <2> HIDE DEF m
  <2>4. Changes(r, {"rec", "ended"}) \/ Changes(r, {"rec", "ended"} \cup {"answer"})
    BY <2>2, <2>3, HoldsChanges, RepliesChanges
  <2> QED
    BY <2>4 DEF Changes
<1>3. CASE EndSession(r)
  BY <1>3, SameChanges DEF EndSession
<1>4. CASE EndIndex(r)
  BY <1>4, PlainRepliesChanges, ChangesMore DEF EndIndex
<1> QED
  BY <1>2, <1>3, <1>4 DEF EndSessionOwnedBy

LEMMA UserKept ==
    ASSUME TypeInv, NEW r \in Requests, Step(r), ~ResolveIdentity(r)
    PROVE  mem'[r].user = mem[r].user
<1>1. Changes(r, Fields \ {"user"})
  <2>1. CASE StartEmail(r) \/ RedeemChallenge(r) \/ Parking(r) \/ IssueTokens(r)
    BY <2>1, StartChanges, CodeChanges, ParkChanges, SeatChanges, ChangesMore DEF StartFields, Fields
  <2>2. CASE RotateSession(r) \/ EndSessionOwnedBy(r)
    BY <2>2, RotateChanges, EndChanges, ChangesMore DEF Fields
  <2>3. CASE SessionsOf(r) \/ BackfillSessions(r) \/ DeleteUserRecords(r)
    BY <2>3, ListChanges, FillChanges, EraseChanges, ChangesMore DEF Fields
  <2>4. CASE OnDeviceStep(r) \/ Send(r)
    BY <2>4, DeviceChanges, SendChanges, ChangesMore DEF Fields
  <2> QED
    BY <2>1, <2>2, <2>3, <2>4, StepCases
<1> QED
  BY <1>1 DEF Changes, Fields

(* Who has signed in has a user, and does not go back.                      *)
Seated(p) ==
    SignsIn(p) /\ mem[p].cred # Absent =>
        mem[p].user \in Users /\ pc[p] \in {"session_index", "back", "persist", "settle"} \cup BouncePcs \cup Answers

SeatInv == \A p \in Requests : Seated(p)

LEMMA SeatKept ==
    ASSUME TypeInv, SeatInv, NEW r \in Requests, Step(r), NEW q \in Requests \ {r}
    PROVE  Seated(q)'
<1>1. Seated(q) /\ call' = call
  BY StepFrame DEF SeatInv, given
<1>2. pc'[q] = pc[q] /\ mem'[q].cred = mem[q].cred /\ mem'[q].user = mem[q].user
  BY StepFrame, OthersKeep
<1> QED
  BY <1>1, <1>2 DEF Seated, SignsIn, Is

(* The other calls of a sign-in.                                            *)
LEMMA SignInCalls ==
    ASSUME TypeInv, SeatInv, NEW r \in Requests, Step(r), SignsIn(r), ~ResolveIdentity(r), ~SessionPut(r)
    PROVE  /\ pc'[r] \notin (PeoplePcs \ {"identity"}) \cup {"session_put"}
           /\ mem'[r].cred # Absent => mem[r].cred # Absent /\ mem'[r].code = mem[r].code
           /\ Seated(r)'
<1>1. /\ Seated(r) /\ call' = call /\ StageOf(r) /\ mem[r] \in Memory /\ mem'[r].user = mem[r].user
      /\ call[r].op \in {"callback", "redirect"} /\ mem[r].answer \in Answers
  BY TypeParts, StepFrame, UserKept, MemoryType DEF SeatInv, given, SignsIn, Is
<1>2. CASE RedeemChallenge(r)
  <2>1. mem'[r].cred = mem[r].cred
    BY <1>2, CodeChanges DEF Changes, Fields
  <2>2. pc[r] \in CodePcs /\ pc'[r] \in CodePcs \cup {"identity"} \cup Left
    BY <1>2, CodeMoves
  <2>3. mem[r].cred = Absent
    BY <1>1, <2>2 DEF Seated, CodePcs, BouncePcs, Answers
  <2> QED
    BY <1>1, <2>1, <2>2, <2>3 DEF Seated, SignsIn, Is, CodePcs, PeoplePcs, Left, Answers
<1>3. CASE Parking(r)
  <2>1. pc[r] \in {"park", "parked"} \cup TakePcs \cup BouncePcs
        /\ pc'[r] \in {"parked", "bounce", "take_delete", "taken", "identity"} \cup Left
    BY <1>3, ParkMoves
  <2>2. ~Parked(r) /\ ~Park(r)
    BY <1>1 DEF Park, Parked, PutCode, Replies, Goto, StageOf, Stage
  <2>3. mem'[r].cred = mem[r].cred
    <3>1. CASE TakeGet(r)
      <4> DEFINE rec == codes[call[r].code]
                 m == [mem[r] EXCEPT !.code = rec]
                 n == [m EXCEPT !.answer = Refused(r)]
      <4>1. Replies(r, "take_get", Refused(r), m) \/ Holds(r, m)
        BY <3>1 DEF TakeGet
      <4>2. DOMAIN mem[r] = Fields
        BY <1>1, MemoryType
      <4> HIDE DEF rec
      <4>3. m.cred = mem[r].cred /\ n.cred = mem[r].cred
        BY <4>2 DEF Fields
      <4>4. Refused(r) \in Answers
        BY DEF Refused, Answers
      <4> HIDE DEF m
      <4>5. mem'[r] = m \/ mem'[r] = n
        BY <4>1, <4>4, RepliesMoves, HoldsMoves
      <4> QED
        BY <4>3, <4>5
    <3>2. CASE Taken(r)
      <4>1. UNCHANGED mem \/ Changes(r, {"answer"})
        BY <1>1, <3>2, PlainRepliesChanges DEF Taken, Is
      <4> QED
        BY <4>1 DEF Changes, Fields
    <3>3. CASE TakeDelete(r) \/ HandoffPut(r)
      BY <3>3 DEF TakeDelete, HandoffPut
    <3>4. CASE Bounce(r)
      BY <3>4, PlainRepliesChanges DEF Bounce, Changes, Fields
    <3> QED
      BY <1>3, <2>2, <3>1, <3>2, <3>3, <3>4 DEF Parking
  <2>4. mem'[r].code = mem[r].code \/ pc[r] = "take_get"
    <3>1. CASE TakeGet(r)
      BY <3>1 DEF TakeGet
    <3>2. CASE Taken(r)
      <4>1. UNCHANGED mem \/ Changes(r, {"answer"})
        BY <1>1, <3>2, PlainRepliesChanges DEF Taken, Is
      <4> QED
        BY <4>1 DEF Changes, Fields
    <3>3. CASE TakeDelete(r) \/ HandoffPut(r)
      BY <3>3 DEF TakeDelete, HandoffPut
    <3>4. CASE Bounce(r)
      BY <3>4, PlainRepliesChanges DEF Bounce, Changes, Fields
    <3> QED
      BY <1>3, <2>2, <3>1, <3>2, <3>3, <3>4 DEF Parking
  <2>5. mem[r].cred # Absent => pc[r] \in BouncePcs
    BY <1>1, <2>1 DEF Seated, TakePcs, BouncePcs, Answers
  <2>6. pc[r] \in BouncePcs => pc'[r] \in {"bounce"} \cup Left
    <3>1. pc[r] \in BouncePcs => HandoffPut(r) \/ Bounce(r)
      BY <1>3 DEF Parking, Park, Parked, TakeGet, TakeDelete, Taken, PutCode, Replies, Goto, BouncePcs
    <3>2. "302" \in Answers
      BY DEF Answers
    <3> QED
      BY <3>1, <3>2, GotoMoves, RepliesMoves DEF HandoffPut, Bounce, PutCode
  <2> QED
    BY <1>1, <2>1, <2>3, <2>4, <2>5, <2>6 DEF Seated, SignsIn, Is, PeoplePcs, BouncePcs, Left, Answers
<1>4. CASE SessionIndexed(r)
  <2>1. pc[r] = "session_index" /\ pc'[r] \in {"handoff_put"} \cup Left
    <3>1. "200" \in Answers
      BY DEF Answers
    <3> QED
      BY <1>4, <3>1, GotoMoves, RepliesMoves DEF SessionIndexed
  <2>2. UNCHANGED mem \/ Changes(r, {"answer"})
    BY <1>4, PlainRepliesChanges DEF SessionIndexed
  <2>3. mem'[r].cred = mem[r].cred /\ mem'[r].code = mem[r].code
    BY <2>2 DEF Changes, Fields
  <2> QED
    BY <1>1, <2>1, <2>3 DEF Seated, SignsIn, Is, PeoplePcs, BouncePcs, Left, Answers
<1>5. CASE OnDeviceStep(r)
  <2>1. LoseAnswer(r) \/ Adopt(r) \/ Persist(r) \/ Report(r) \/ Settle(r) \/ Abandoned(r)
    BY <1>1, <1>5 DEF OnDeviceStep, UseToken, Joined, LoseRequest, SignOut, Clear, Restart, Goto, Refused401, Is,
       StageOf, Stage, RotatePcs, EndPcs
  <2>2. pc[r] \in {"back", "persist", "settle", "use", "signout", "clear"} /\ pc'[r] \in {"persist", "settle"} \cup Answers
    BY <1>1, <2>1, GotoMoves DEF LoseAnswer, Adopt, Persist, Report, Settle, Abandoned, Answers
  <2>3. mem'[r].cred = mem[r].cred /\ mem'[r].code = mem[r].code
    <3>1. CASE LoseAnswer(r)
      <4> DEFINE yes == TRUE
      <4>1. mem'[r] = [mem[r] EXCEPT !.answer = "null", !.lost = yes]
        BY <3>1, HoldsMoves DEF LoseAnswer
      <4> HIDE DEF yes
      <4> QED
        BY <1>1, <4>1, MemoryType DEF Fields
    <3> QED
      BY <2>1, <3>1 DEF Adopt, Persist, Report, Settle, Abandoned
  <2> QED
    BY <1>1, <2>2, <2>3 DEF Seated, SignsIn, Is, PeoplePcs, BouncePcs, Answers
<1>6. CASE Send(r)
  <2>1. mem'[r] = [mem[r] EXCEPT !.cred = Absent]
    BY <1>1, <1>6, HoldsMoves DEF Send, Is
  <2>2. mem'[r].cred = Absent
    BY <1>1, <2>1, MemoryType DEF Fields
  <2>3. pc'[r] \in {"code_get", "take_get"}
    BY <1>1, <1>6, GotoMoves DEF Send, FirstStep
  <2> QED
    BY <2>2, <2>3 DEF Seated, PeoplePcs
<1> QED
  <2>1. ~StartEmail(r) /\ ~RotateSession(r) /\ ~EndSessionOwnedBy(r) /\ ~SessionsOf(r) /\ ~BackfillSessions(r)
        /\ ~DeleteUserRecords(r)
    BY <1>1, StartMoves, RotateMoves, EndMoves, ListMoves, FillMoves, EraseMoves DEF StageOf, Stage
  <2> QED
    BY <1>2, <1>3, <1>4, <1>5, <1>6, <2>1, StepCases DEF IssueTokens

LEMMA SeatInit == Init => SeatInv
<1> SUFFICES ASSUME Init PROVE SeatInv
  OBVIOUS
<1>1. \A p \in Requests : mem[p].cred = Absent
  BY DEF Init, Blank
<1> QED
  BY <1>1 DEF SeatInv, Seated, SignedIn

LEMMA SeatNext == TypeInv /\ SeatInv /\ [Next]_vars => SeatInv'
<1> SUFFICES ASSUME TypeInv, SeatInv, [Next]_vars PROVE SeatInv'
  OBVIOUS
<1>1. CASE Idle
  BY <1>1 DEF Idle, given, SeatInv, Seated, SignsIn, Is
<1>2. ASSUME NEW r \in Requests, Step(r) PROVE SeatInv'
  <2>1. \A q \in Requests \ {r} : Seated(q)'
    BY <1>2, SeatKept
  <2> SUFFICES Seated(r)'
    BY <2>1 DEF SeatInv
  <2>2. Seated(r) /\ call' = call /\ StageOf(r)
    BY <1>2, StepFrame, TypeParts DEF SeatInv, given
  <2>3. CASE ~SignsIn(r)
    BY <2>2, <2>3 DEF Seated, SignsIn, Is
  <2>4. CASE ResolveIdentity(r)
    <3>1. pc[r] \in PeoplePcs /\ mem'[r].cred = mem[r].cred
      BY <2>4, PeopleMoves, PeopleChanges DEF Changes, Fields
    <3>2. SignsIn(r) => mem[r].cred = Absent
      BY <2>2, <3>1 DEF Seated, PeoplePcs, BouncePcs, Answers
    <3> QED
      BY <2>2, <3>1, <3>2 DEF Seated, SignsIn, Is
  <2>5. CASE SessionPut(r)
    <3>1. pc[r] = "session_put" /\ pc'[r] = "session_index"
      BY <2>5, GotoMoves DEF SessionPut
    <3>2. mem[r].user \in Users
      BY <2>2, <3>1 DEF StageOf, Stage, SeatPcs
    <3>3. ~ResolveIdentity(r)
      BY <3>1, PeopleMoves DEF PeoplePcs
    <3>4. mem'[r].user = mem[r].user
      BY <1>2, <3>3, UserKept
    <3> QED
      BY <3>1, <3>2, <3>4 DEF Seated
  <2>6. CASE SignsIn(r) /\ ~ResolveIdentity(r) /\ ~SessionPut(r)
    BY <1>2, <2>6, SignInCalls
  <2> QED
    BY <2>3, <2>4, <2>5, <2>6
<1> QED
  BY <1>1, <1>2, NextCases

(* Only resolveIdentity names users; who is erased is no longer named.      *)
LEMMA NamesKept ==
    ASSUME TypeInv, NEW r \in Requests, Step(r), ~ResolveIdentity(r)
    PROVE  /\ \A i \in Identities : identities'[i] \in {identities[i], Absent}
           /\ \A e \in Emails : emailIndex'[e] \in {emailIndex[e], Absent}
           /\ ~DeleteUserRecords(r) => UNCHANGED people
<1>1. CASE ~DeleteUserRecords(r)
  <2>1. UNCHANGED people
    BY <1>1, StepCases, StartMoves, CodeMoves, ParkMoves, SeatMoves, RotateMoves, EndMoves, ListMoves,
       FillMoves, OnDeviceMoves, SendMoves DEF Reads, Local
  <2> QED
    BY <2>1 DEF people
<1>2. CASE DeleteUserRecords(r)
  <2>1. /\ identities \in [Identities -> Users \cup {Absent}] /\ emailIndex \in [Emails -> Users \cup {Absent}]
    BY TypeParts DEF StoresOK
  <2>2. CASE EraseIdentity(r)
    <3>1. PICK k \in mem[r].todo :
            /\ identities' \in {identities, [identities EXCEPT ![k] = Absent]}
            /\ UNCHANGED emailIndex
      BY <2>2 DEF EraseIdentity
    <3> QED
      BY <1>2, <2>1, <3>1
  <2>3. CASE EraseEmail(r)
    <3>1. PICK k \in mem[r].todo :
            /\ emailIndex' \in {emailIndex, [emailIndex EXCEPT ![k] = Absent]}
            /\ UNCHANGED identities
      BY <2>3 DEF EraseEmail
    <3> QED
      BY <1>2, <2>1, <3>1
  <2>4. CASE ~EraseIdentity(r) /\ ~EraseEmail(r)
    <3> SUFFICES UNCHANGED <<identities, emailIndex>>
      BY <1>2
    <3>1. ASSUME NEW from, NEW to, NEW T, EraseList(r, from, to, T) PROVE UNCHANGED <<identities, emailIndex>>
      BY <3>1 DEF EraseList, Reads, people
    <3>2. CASE EraseHome(r) \/ EraseUser(r)
      BY <3>2 DEF EraseHome, EraseUser
    <3>3. CASE EraseIndex(r)
      BY <3>3 DEF EraseIndex, DropIndex, people
    <3>4. CASE EraseSession(r)
      BY <3>4 DEF EraseSession, WriteSession, people
    <3> QED
      BY <1>2, <2>4, <3>1, <3>2, <3>3, <3>4 DEF DeleteUserRecords
  <2> QED
    BY <1>2, <2>2, <2>3, <2>4
<1> QED
  BY <1>1, <1>2
-----------------------------------------------------------------------------
(* The wall around an identity that never proved an address: it leads only  *)
(* to the users its own sign-ins drew, and nothing else leads to them.      *)
Claims(p, i) == Is(p, {"redirect"}) /\ call[p].identity = i
DrawnFor(i) == {call[p].newUser : p \in {p \in Requests : Claims(p, i)}}

Behind(p, i) ==
    IF Claims(p, i) THEN /\ pc[p] \notin {"email", "email_user", "link", "new_email"}
                         /\ mem[p].user \in DrawnFor(i) \cup {Absent}
                    ELSE mem[p].user \notin DrawnFor(i)

Walled(i) ==
    /\ identities[i] \in DrawnFor(i) \cup {Absent}
    /\ \A j \in Identities \ {i} : identities[j] \notin DrawnFor(i)
    /\ \A e \in Emails : emailIndex[e] \notin DrawnFor(i)
    /\ \A p \in Requests : Behind(p, i)

WallInv == \A p \in Requests : Is(p, {"redirect"}) /\ Unproven(call[p].identity) => Walled(call[p].identity)

(* Users are drawn for one sign-in each, before anybody knows them.         *)
LEMMA DrawnApart ==
    ASSUME GivenStart, NEW i
    PROVE  /\ Absent \notin DrawnFor(i) /\ DrawnFor(i) \cap seed.users = {}
           /\ \A r \in Requests : SignsIn(r) /\ ~Claims(r, i) => call[r].newUser \notin DrawnFor(i)
<1>1. FreshIds(seed, call) /\ \A r \in Requests : WellFormed(call[r])
  BY GivenFacts
<1>2. \A p \in Requests : Claims(p, i) =>
        call[p].newUser # Absent /\ call[p].newUser \notin seed.users
  BY <1>1 DEF FreshIds, WellFormed, Claims, Is
<1>3. ASSUME NEW r \in Requests, SignsIn(r), ~Claims(r, i), NEW p \in Requests, Claims(p, i)
      PROVE  call[r].newUser # call[p].newUser
  BY <1>1, <1>3 DEF FreshIds, SignsIn, Claims, Is
<1> QED
  BY <1>2, <1>3 DEF DrawnFor

LEMMA WallInit == Init => WallInv
<1> SUFFICES ASSUME Init, NEW p \in Requests, Is(p, {"redirect"}), Unproven(call[p].identity)
             PROVE  Walled(call[p].identity)
  BY DEF WallInv
<1> DEFINE i == call[p].identity
<1>1. GivenStart /\ AtRest(seed)
  BY InitType, GivenFacts DEF TypeInv
<1>2. Absent \notin DrawnFor(i) /\ DrawnFor(i) \cap seed.users = {}
  BY <1>1, DrawnApart
<1>3. identities = seed.identities /\ emailIndex = seed.emailIndex /\ identities[i] = Absent
  BY DEF Init, Unproven
<1>4. \A q \in Requests : pc[q] = "send" /\ mem[q].user = Absent
  BY DEF Init, Blank
<1>5. \A j \in Identities \ {i} : identities[j] \notin DrawnFor(i)
  BY <1>1, <1>2, <1>3 DEF AtRest
<1>6. \A e \in Emails : emailIndex[e] \notin DrawnFor(i)
  BY <1>1, <1>2, <1>3 DEF AtRest
<1> QED
  BY <1>2, <1>3, <1>4, <1>5, <1>6 DEF Walled, Behind

(* Finding and making users leaves the wall standing: whose identity it is  *)
(* finds or makes a user of its own and never asks for an address, and      *)
(* nobody else comes by that identity.                                      *)
LEMMA ResolveWalled ==
    ASSUME TypeInv, NEW r \in Requests, ResolveIdentity(r), NEW i \in Identities, Walled(i),
           Unproven(i), \A e \in Emails : MailIdentity[e] # i
    PROVE  /\ identities'[i] \in DrawnFor(i) \cup {Absent}
           /\ \A j \in Identities \ {i} : identities'[j] \notin DrawnFor(i)
           /\ \A e \in Emails : emailIndex'[e] \notin DrawnFor(i)
           /\ Claims(r, i) => /\ pc'[r] \notin {"email", "email_user", "link", "new_email"}
                              /\ mem'[r].user \in DrawnFor(i) \cup {Absent}
           /\ ~Claims(r, i) => mem'[r].user \notin DrawnFor(i)
<1> DEFINE D == DrawnFor(i)
<1>1. /\ mem[r] \in Memory /\ DOMAIN mem[r] = Fields /\ StageOf(r) /\ pc[r] \in PeoplePcs /\ SignsIn(r)
      /\ identities \in [Identities -> Users \cup {Absent}] /\ emailIndex \in [Emails -> Users \cup {Absent}]
  BY TypeParts, PeopleMoves, MemoryType DEF StoresOK, StageOf, Stage, SignsIn, Is
<1>2. /\ identities[i] \in D \cup {Absent} /\ \A j \in Identities \ {i} : identities[j] \notin D
      /\ \A e \in Emails : emailIndex[e] \notin D
      /\ Behind(r, i)
  BY DEF Walled
<1>3. /\ IdentityOf(r) \in Identities /\ (Claims(r, i) <=> IdentityOf(r) = i)
      /\ Claims(r, i) => ~VerifiedEmail(r)
  <2>1. IdentityOf(r) \in Identities
    BY <1>1, KeysResolved
  <2>2. Is(r, {"callback"}) => mem[r].code.email \in Emails
    BY <1>1 DEF StageOf, Stage, Is
  <2> QED
    BY <1>1, <2>1, <2>2 DEF Claims, IdentityOf, ByMail, SignsIn, Is, Unproven
<1>4. pc[r] \in {"email", "new_email"} => EmailOf(r) \in Emails
  BY <1>1, KeysResolved
<1>5. /\ Absent \notin D /\ (~Claims(r, i) => call[r].newUser \notin D)
      /\ Claims(r, i) => call[r].newUser \in D
  BY <1>1, DrawnApart DEF TypeInv, DrawnFor
<1>6. ASSUME NEW u, Holds(r, [mem[r] EXCEPT !.user = u]) PROVE mem'[r].user = u
  BY <1>1, <1>6, HoldsMoves DEF Fields
<1>7. /\ Claims(r, i) => /\ pc[r] \notin {"email", "email_user", "link", "new_email"}
                         /\ mem[r].user \in D \cup {Absent}
      /\ ~Claims(r, i) => mem[r].user \notin D
  BY <1>2 DEF Behind
<1>8. pc[r] \in {"link", "new_identity", "new_email"} => mem[r].user \in Users
  BY <1>1 DEF StageOf, Stage
<1> HIDE DEF D
<1>10. CASE IdentityGet(r)
  <2>1. Reads /\ mem'[r].user = identities[IdentityOf(r)] /\ (Claims(r, i) => pc'[r] \in {"identity_user", "new_user"})
    BY <1>3, <1>6, <1>10, GotoMoves DEF IdentityGet
  <2> QED
    BY <1>2, <1>3, <2>1 DEF Reads, people, D
<1>11. CASE IdentityUser(r)
  <2>1. Fails(r) \in Answers
    BY DEF Fails, Answers
  <2>2. Reads /\ pc'[r] \in {"session_put"} \cup Left /\ (UNCHANGED mem \/ Changes(r, {"answer"}))
    BY <1>11, <2>1, GotoMoves, RepliesMoves, PlainRepliesChanges DEF IdentityUser
  <2>3. mem'[r].user = mem[r].user
    BY <2>2 DEF Changes, Fields
  <2> QED
    BY <1>2, <1>7, <2>2, <2>3 DEF Reads, people, D, Left, Answers
<1>12. CASE EmailGet(r)
  <2>1. pc[r] = "email" /\ Reads /\ mem'[r].user = emailIndex[EmailOf(r)]
    BY <1>6, <1>12, GotoMoves DEF EmailGet
  <2> QED
    BY <1>2, <1>4, <1>7, <2>1 DEF Reads, people, D
<1>13. CASE EmailUser(r)
  <2>1. pc[r] = "email_user" /\ Reads /\ UNCHANGED mem
    BY <1>13, GotoMoves DEF EmailUser
  <2> QED
    BY <1>2, <1>7, <2>1 DEF Reads, people, D
<1>14. CASE Link(r) \/ NewIdentity(r)
  <2>1. /\ pc[r] \in {"link", "new_identity"} /\ UNCHANGED <<emailIndex, mem>>
        /\ identities' = [identities EXCEPT ![IdentityOf(r)] = mem[r].user]
        /\ pc[r] = "new_identity" /\ ~VerifiedEmail(r) => pc'[r] = "session_put"
    BY <1>14, GotoMoves DEF Link, NewIdentity, PutIdentity
  <2>2. \A j \in Identities : identities'[j] = IF j = IdentityOf(r) THEN mem[r].user ELSE identities[j]
    BY <1>1, <2>1
  <2> QED
    BY <1>2, <1>3, <1>7, <1>8, <2>1, <2>2 DEF D
<1>15. CASE NewUser(r)
  <2>1. pc'[r] = "new_home" /\ UNCHANGED <<identities, emailIndex>> /\ mem'[r].user = call[r].newUser
    BY <1>6, <1>15, GotoMoves DEF NewUser
  <2> QED
    BY <1>2, <1>5, <2>1 DEF D
<1>16. CASE NewHome(r)
  <2>1. pc'[r] = "new_identity" /\ UNCHANGED <<identities, emailIndex, mem>>
    BY <1>16, GotoMoves DEF NewHome
  <2> QED
    BY <1>2, <1>7, <2>1 DEF D
<1>17. CASE NewEmail(r)
  <2>1. /\ pc[r] = "new_email" /\ UNCHANGED <<identities, mem>>
        /\ emailIndex' \in {emailIndex, [emailIndex EXCEPT ![EmailOf(r)] = mem[r].user]}
    BY <1>17, GotoMoves DEF NewEmail
  <2>2. \A e \in Emails : emailIndex'[e] \in {emailIndex[e], mem[r].user}
    BY <1>1, <1>4, <2>1
  <2> QED
    BY <1>2, <1>7, <2>1, <2>2 DEF D
<1> QED
  BY <1>10, <1>11, <1>12, <1>13, <1>14, <1>15, <1>16, <1>17 DEF ResolveIdentity

LEMMA WallNext == TypeInv /\ SeatInv /\ WallInv /\ [Next]_vars => WallInv'
<1> SUFFICES ASSUME TypeInv, SeatInv, WallInv, [Next]_vars, NEW p \in Requests,
                    Is(p, {"redirect"})', Unproven(call[p].identity)'
             PROVE  Walled(call[p].identity)'
  BY DEF WallInv
<1> DEFINE i == call[p].identity
           D == DrawnFor(i)
<1>1. call' = call /\ seed' = seed
  BY NextFrame
<1>2. Is(p, {"redirect"}) /\ Unproven(i)
  BY <1>1 DEF Is, Unproven, VerifiedEmail, EmailOf, ByMail
<1>3. Walled(i)
  BY <1>2 DEF WallInv
<1>4. i \in Identities /\ (\A e \in Emails : MailIdentity[e] # i)
  BY <1>2, TypeParts DEF WellFormed, Is
<1>5. /\ identities[i] \in D \cup {Absent} /\ \A j \in Identities \ {i} : identities[j] \notin D
      /\ \A e \in Emails : emailIndex[e] \notin D
      /\ \A q \in Requests : Behind(q, i)
  BY <1>3 DEF Walled
<1>6. Absent \notin D
  BY DrawnApart DEF TypeInv
<1>7. SUFFICES /\ identities'[i] \in D \cup {Absent} /\ \A j \in Identities \ {i} : identities'[j] \notin D
               /\ \A e \in Emails : emailIndex'[e] \notin D
               /\ \A q \in Requests : /\ Claims(q, i) => /\ pc'[q] \notin {"email", "email_user", "link", "new_email"}
                                                         /\ mem'[q].user \in D \cup {Absent}
                                      /\ ~Claims(q, i) => mem'[q].user \notin D
  BY <1>1 DEF Walled, Behind, DrawnFor, Claims, Is
<1> HIDE DEF D
<1>8. \A q \in Requests : /\ Claims(q, i) => /\ pc[q] \notin {"email", "email_user", "link", "new_email"}
                                             /\ mem[q].user \in D \cup {Absent}
                          /\ ~Claims(q, i) => mem[q].user \notin D
  BY <1>5 DEF Behind, D
<1>9. CASE Idle
  BY <1>5, <1>8, <1>9 DEF Idle, people
<1>10. ASSUME NEW r \in Requests, Step(r)
       PROVE  /\ identities'[i] \in D \cup {Absent} /\ \A j \in Identities \ {i} : identities'[j] \notin D
              /\ \A e \in Emails : emailIndex'[e] \notin D
              /\ \A q \in Requests : /\ Claims(q, i) => /\ pc'[q] \notin {"email", "email_user", "link", "new_email"}
                                                        /\ mem'[q].user \in D \cup {Absent}
                                     /\ ~Claims(q, i) => mem'[q].user \notin D
  <2>1. \A q \in Requests \ {r} : pc'[q] = pc[q] /\ mem'[q].user = mem[q].user
    BY <1>10, StepFrame, OthersKeep
  <2>2. CASE ResolveIdentity(r)
    BY <1>2, <1>3, <1>4, <1>8, <2>1, <2>2, ResolveWalled DEF D
  <2>3. CASE ~ResolveIdentity(r)
    <3>1. /\ \A j \in Identities : identities'[j] \in {identities[j], Absent}
          /\ \A e \in Emails : emailIndex'[e] \in {emailIndex[e], Absent}
      BY <1>10, <2>3, NamesKept
    <3>2. mem'[r].user = mem[r].user
      BY <1>10, <2>3, UserKept
    <3>3. Claims(r, i) => pc'[r] \notin {"email", "email_user", "link", "new_email"}
      <4>1. SignsIn(r) /\ ~SessionPut(r) => pc'[r] \notin PeoplePcs \ {"identity"}
        BY <1>10, <2>3, SignInCalls
      <4>2. SessionPut(r) => pc'[r] = "session_index"
        BY GotoMoves DEF SessionPut
      <4> QED
        BY <4>1, <4>2 DEF Claims, SignsIn, Is, PeoplePcs
    <3> QED
      BY <1>4, <1>5, <1>6, <1>8, <2>1, <3>1, <3>2, <3>3
  <2> QED
    BY <2>2, <2>3
<1> QED
  BY <1>9, <1>10, NextCases

LEMMA WallInvariant == Spec => [](TypeInv /\ SeatInv /\ WallInv)
BY InitType, NextType, SeatInit, SeatNext, WallInit, WallNext, PTL DEF Spec

LEMMA WallSuffices ==
    ASSUME TypeInv, SeatInv, WallInv
    PROVE  UnverifiedNeverLinks
<1> SUFFICES ASSUME NEW a \in Requests, NEW b \in Requests, SignedIn(a), Is(a, {"redirect"}),
                    Unproven(call[a].identity), SignedIn(b), IdentityOf(b) # call[a].identity
             PROVE  mem[a].user # mem[b].user
  BY DEF UnverifiedNeverLinks
<1> DEFINE i == call[a].identity
<1>1. Behind(a, i) /\ Behind(b, i) /\ Claims(a, i)
  BY DEF WallInv, Walled, Claims
<1>2. ~Claims(b, i)
  BY DEF Claims, IdentityOf, ByMail, Is
<1>3. mem[a].user # Absent
  BY AuthAssumption DEF SeatInv, Seated, SignedIn
<1> QED
  BY <1>1, <1>2, <1>3 DEF Behind
-----------------------------------------------------------------------------
(* Where a proven address leads, when sign-ins come one after another.      *)
LeadsTo(i, e) ==
    \/ i = MailIdentity[e]
    \/ \E p \in Requests : Is(p, {"redirect"}) /\ call[p].identity = i /\ call[p].email = e

(* The sign-up has written its identity and not yet its address.            *)
Finishing(p, i, e) ==
    SignsIn(p) /\ pc[p] = "new_email" /\ IdentityOf(p) = i /\ EmailOf(p) = e /\ mem[p].user = identities[i]

Going(p) ==
    SignsIn(p) =>
        LET known == emailIndex[EmailOf(p)]
        IN  /\ pc[p] \in {"email_user", "link", "identity_user", "session_put"} => mem[p].user = known
            /\ pc[p] \in {"new_user", "new_home", "new_identity", "new_email"} => known = Absent
            /\ pc[p] = "new_email" => Finishing(p, IdentityOf(p), EmailOf(p))
            /\ pc[p] = "session_put" \/ mem[p].cred # Absent => EmailOf(p) \in Emails
            /\ mem[p].cred # Absent => mem[p].user = known

Agreeing(i, e) ==
    LeadsTo(i, e) /\ identities[i] # Absent =>
        identities[i] = emailIndex[e] \/ \E p \in Requests : Finishing(p, i, e)

AddressInv ==
    Unerased /\ Orderly =>
        /\ \A i \in Identities : \A e \in Emails : Agreeing(i, e)
        /\ \A p \in Requests : Going(p)

LEMMA AddressInit == Init => AddressInv
<1> SUFFICES ASSUME Init, Orderly PROVE AddressInv
  BY DEF AddressInv
<1>1. \A p \in Requests : Going(p)
  BY DEF Init, Blank, Going
<1>2. ASSUME NEW i \in Identities, NEW e \in Emails, LeadsTo(i, e) PROVE seed.identities[i] \in {Absent, seed.emailIndex[e]}
  BY <1>2 DEF LeadsTo, Orderly
<1>3. \A i \in Identities : \A e \in Emails : Agreeing(i, e)
  BY <1>2 DEF Init, Agreeing
<1> QED
  BY <1>1, <1>3 DEF AddressInv

(* An identity is presented with one address.                               *)
LEMMA OneAddress ==
    ASSUME TypeInv, Orderly, NEW i, NEW e \in Emails, NEW f \in Emails, LeadsTo(i, e), LeadsTo(i, f)
    PROVE  e = f
<1>1. \A p \in Requests : Is(p, {"redirect"}) => \A g \in Emails : call[p].identity # MailIdentity[g]
  BY TypeParts DEF WellFormed, Is
<1>2. MailIdentity[e] = MailIdentity[f] => e = f
  BY AuthAssumption
<1> QED
  BY <1>1, <1>2 DEF LeadsTo, Orderly

LEMMA OwnAddress ==
    ASSUME TypeInv, Orderly, NEW r \in Requests, pc[r] \in PeoplePcs
    PROVE  /\ SignsIn(r) /\ EmailOf(r) \in Emails /\ VerifiedEmail(r)
           /\ IdentityOf(r) \in Identities /\ LeadsTo(IdentityOf(r), EmailOf(r))
<1>1. /\ call[r].op \in {"callback", "redirect"} /\ call[r].email \in Emails \cup {Absent}
      /\ call[r].op = "callback" => mem[r].code.email \in Emails
  BY TypeParts, CallType DEF StageOf, Stage
<1>2. Is(r, {"redirect"}) => call[r].email # Absent /\ call[r].verified
  BY DEF Orderly
<1>3. IdentityOf(r) \in Identities
  BY KeysResolved
<1> QED
  BY <1>1, <1>2, <1>3, AuthAssumption DEF SignsIn, Is, EmailOf, IdentityOf, VerifiedEmail, ByMail, LeadsTo

(* One sign-in at a time.                                                   *)
LEMMA SignInsApart ==
    ASSUME InOrder, Orderly, NEW r \in Requests, NEW q \in Requests \ {r}, SignsIn(r), SignsIn(q),
           pc[r] \notin Answers \cup {"send"}
    PROVE  pc[q] \in Answers \cup {"send"}
BY DEF Orderly, Overlap, InOrder

(* What resolveIdentity does to the stores, to what it holds and to where   *)
(* it goes, for a proven address.                                           *)
LEMMA ResolveAddress ==
    ASSUME TypeInv, InOrder, PeopleInv, SeatInv, AddressInv, Unerased, Orderly, NEW r \in Requests, ResolveIdentity(r)
    PROVE  /\ \A i \in Identities : \A e \in Emails : Agreeing(i, e)'
           /\ Going(r)'
           /\ \A e \in Emails : emailIndex[e] # Absent => emailIndex'[e] = emailIndex[e]
<1> DEFINE i == IdentityOf(r)
           e == EmailOf(r)
           u == mem[r].user
           Same == UNCHANGED <<identities, emailIndex>>
<1>1. /\ mem[r] \in Memory /\ DOMAIN mem[r] = Fields /\ StageOf(r) /\ pc[r] \in PeoplePcs
      /\ identities \in [Identities -> Users \cup {Absent}] /\ emailIndex \in [Emails -> Users \cup {Absent}]
      /\ call' = call /\ Mine(r)
  BY TypeParts, PeopleMoves, MemoryType DEF StoresOK, given
<1>2. SignsIn(r) /\ e \in Emails /\ VerifiedEmail(r) /\ i \in Identities /\ LeadsTo(i, e)
  BY <1>1, OwnAddress
<1>3. \A f \in Emails : LeadsTo(i, f) => f = e
  BY <1>2, OneAddress
<1>4. mem[r].cred = Absent /\ mem'[r].cred = Absent /\ mem'[r].code = mem[r].code
  <2>1. mem[r].cred = Absent
    BY <1>1, <1>2 DEF SeatInv, Seated, PeoplePcs, BouncePcs, Answers
  <2> QED
    BY <2>1, PeopleChanges DEF Changes, Fields
<1>5. SignsIn(r)' /\ IdentityOf(r)' = i /\ EmailOf(r)' = e
  BY <1>1, <1>2, <1>4 DEF SignsIn, Is, IdentityOf, EmailOf, ByMail
<1>6. /\ pc[r] \in {"email_user", "link", "identity_user", "session_put"} => u = emailIndex[e]
      /\ pc[r] \in {"new_user", "new_home", "new_identity", "new_email"} => emailIndex[e] = Absent
      /\ pc[r] = "new_email" => u = identities[i]
  BY <1>2 DEF AddressInv, Going, Finishing
<1>7. \A j \in Identities, f \in Emails :
        LeadsTo(j, f) /\ identities[j] # Absent =>
            identities[j] = emailIndex[f] \/ (pc[r] = "new_email" /\ j = i /\ f = e)
  <2>1. \A p \in Requests \ {r} : SignsIn(p) => pc[p] # "new_email"
    BY <1>1, <1>2, SignInsApart DEF PeoplePcs, Answers
  <2> QED
    BY <2>1 DEF AddressInv, Agreeing, Finishing
<1>8. ASSUME NEW x, Holds(r, [mem[r] EXCEPT !.user = x]) PROVE mem'[r].user = x
  BY <1>1, <1>8, HoldsMoves DEF Fields
<1>9. \A j, f : LeadsTo(j, f)' <=> LeadsTo(j, f)
  BY <1>1 DEF LeadsTo, Is
<1>10. SUFFICES /\ \A j \in Identities, f \in Emails :
                     LeadsTo(j, f) /\ identities'[j] # Absent =>
                        \/ identities'[j] = emailIndex'[f]
                        \/ pc'[r] = "new_email" /\ j = i /\ f = e /\ mem'[r].user = identities'[i]
                /\ pc'[r] \in {"email_user", "link", "identity_user", "session_put"} => mem'[r].user = emailIndex'[e]
                /\ pc'[r] \in {"new_user", "new_home", "new_identity", "new_email"} => emailIndex'[e] = Absent
                /\ pc'[r] = "new_email" => mem'[r].user = identities'[i]
                /\ \A f \in Emails : emailIndex[f] # Absent => emailIndex'[f] = emailIndex[f]
  <2>1. ASSUME NEW j \in Identities, NEW f \in Emails,
               pc'[r] = "new_email" /\ j = i /\ f = e /\ mem'[r].user = identities'[i]
        PROVE  Finishing(r, j, f)'
    BY <1>5, <2>1 DEF Finishing
  <2>2. \A j \in Identities : \A f \in Emails : Agreeing(j, f)'
    BY <1>9, <1>10, <2>1 DEF Agreeing
  <2>3. Going(r)'
    BY <1>2, <1>4, <1>5, <1>10 DEF Going, Finishing
  <2> QED
    BY <1>10, <2>2, <2>3
<1> HIDE DEF i, e, u
<1>11. CASE IdentityGet(r)
  <2>1. /\ pc[r] = "identity" /\ Reads /\ mem'[r].user = identities[i]
        /\ pc'[r] \in {"identity_user", "email"} /\ (pc'[r] = "identity_user" => identities[i] # Absent)
    BY <1>2, <1>8, <1>11, GotoMoves DEF IdentityGet, i
  <2> QED
    BY <1>2, <1>7, <2>1 DEF Reads, people
<1>12. CASE IdentityUser(r)
  <2>1. Fails(r) \in Answers
    BY DEF Fails, Answers
  <2>2. pc[r] = "identity_user" /\ Reads /\ pc'[r] \in {"session_put"} \cup Left /\ (UNCHANGED mem \/ Changes(r, {"answer"}))
    BY <1>12, <2>1, GotoMoves, RepliesMoves, PlainRepliesChanges DEF IdentityUser
  <2>3. mem'[r].user = u
    BY <2>2 DEF Changes, Fields, u
  <2> QED
    BY <1>6, <1>7, <2>2, <2>3 DEF Reads, people, Left, Answers
<1>13. CASE EmailGet(r)
  <2>1. /\ pc[r] = "email" /\ Reads /\ mem'[r].user = emailIndex[e]
        /\ pc'[r] = IF emailIndex[e] = Absent THEN "new_user" ELSE "email_user"
    BY <1>8, <1>13, GotoMoves DEF EmailGet, e
  <2> QED
    BY <1>7, <2>1 DEF Reads, people
<1>14. CASE EmailUser(r)
  <2>1. pc[r] = "email_user" /\ u \in users
    BY <1>14, GotoMoves DEF EmailUser, PeopleInv, Resolving, Housed, u
  <2>2. Reads /\ UNCHANGED mem /\ pc'[r] = "link"
    BY <1>14, <2>1, GotoMoves DEF EmailUser, u
  <2> QED
    BY <1>6, <1>7, <2>1, <2>2 DEF Reads, people, u
<1>15. CASE Link(r)
  <2>1. /\ pc[r] = "link" /\ pc'[r] = "session_put" /\ UNCHANGED <<emailIndex, mem>>
        /\ identities' = [identities EXCEPT ![i] = u]
    BY <1>15, GotoMoves DEF Link, PutIdentity, i, u
  <2>2. \A j \in Identities : identities'[j] = IF j = i THEN u ELSE identities[j]
    BY <1>1, <2>1
  <2> QED
    BY <1>3, <1>6, <1>7, <2>1, <2>2 DEF u
<1>16. CASE NewUser(r)
  <2>1. pc[r] = "new_user" /\ pc'[r] = "new_home" /\ UNCHANGED <<identities, emailIndex>>
    BY <1>16, GotoMoves DEF NewUser
  <2> QED
    BY <1>6, <1>7, <2>1
<1>17. CASE NewHome(r)
  <2>1. pc[r] = "new_home" /\ pc'[r] = "new_identity" /\ UNCHANGED <<identities, emailIndex>>
    BY <1>17, GotoMoves DEF NewHome
  <2> QED
    BY <1>6, <1>7, <2>1
<1>18. CASE NewIdentity(r)
  <2>1. /\ pc[r] = "new_identity" /\ pc'[r] = "new_email" /\ UNCHANGED <<emailIndex, mem>>
        /\ identities' = [identities EXCEPT ![i] = u]
    BY <1>2, <1>18, GotoMoves DEF NewIdentity, PutIdentity, i, u
  <2>2. \A j \in Identities : identities'[j] = IF j = i THEN u ELSE identities[j]
    BY <1>1, <2>1
  <2> QED
    BY <1>2, <1>3, <1>6, <1>7, <2>1, <2>2 DEF u
<1>19. CASE NewEmail(r)
  <2>1. /\ pc[r] = "new_email" /\ pc'[r] = "session_put" /\ UNCHANGED <<identities, mem>>
        /\ emailIndex' = [emailIndex EXCEPT ![e] = u]
    BY <1>6, <1>19, GotoMoves DEF NewEmail, IfNew, e, u
  <2>2. \A f \in Emails : emailIndex'[f] = IF f = e THEN u ELSE emailIndex[f]
    BY <1>1, <2>1
  <2> QED
    BY <1>2, <1>6, <1>7, <2>1, <2>2 DEF u
<1> QED
  BY <1>11, <1>12, <1>13, <1>14, <1>15, <1>16, <1>17, <1>18, <1>19 DEF ResolveIdentity
LEMMA AddressNext ==
    TypeInv /\ InOrder /\ PeopleInv /\ SeatInv /\ AddressInv /\ [Next]_vars => AddressInv'
<1> SUFFICES ASSUME TypeInv, InOrder, PeopleInv, SeatInv, AddressInv, [Next]_vars, Unerased', Orderly'
             PROVE  AddressInv'
  BY DEF AddressInv
<1>1. call' = call /\ seed' = seed
  BY NextFrame
<1>2. Unerased /\ Orderly
  BY <1>1 DEF Unerased, Orderly, SignsIn, Overlap, Is
<1>3. /\ \A i \in Identities : \A e \in Emails : Agreeing(i, e)
      /\ \A p \in Requests : Going(p)
  BY <1>2 DEF AddressInv
<1>4. CASE Idle
  BY <1>3, <1>4 DEF Idle, given, people, AddressInv, Agreeing, LeadsTo, Finishing, Going, SignsIn, Is, IdentityOf, EmailOf, ByMail
<1>5. ASSUME NEW r \in Requests, Step(r) PROVE AddressInv'
  <2>1. \A q \in Requests \ {r} : /\ pc'[q] = pc[q] /\ mem'[q].user = mem[q].user
                                  /\ mem'[q].cred = mem[q].cred /\ mem'[q].code = mem[q].code
    BY <1>5, StepFrame, OthersKeep
  <2>2. CASE ResolveIdentity(r)
    <3>1. /\ \A i \in Identities : \A e \in Emails : Agreeing(i, e)'
          /\ Going(r)'
          /\ \A e \in Emails : emailIndex[e] # Absent => emailIndex'[e] = emailIndex[e]
      BY <1>2, <2>2, ResolveAddress
    <3>2. ASSUME NEW q \in Requests \ {r} PROVE Going(q)'
      <4>1. SUFFICES ASSUME SignsIn(q) PROVE Going(q)'
        BY <1>1 DEF Going, SignsIn, Is
      <4>2. SignsIn(r) /\ pc[r] \in PeoplePcs
        BY <1>2, <2>2, PeopleMoves, OwnAddress
      <4>3. pc[q] \in Answers \cup {"send"}
        BY <1>2, <4>1, <4>2, SignInsApart DEF PeoplePcs, Answers
      <4>4. EmailOf(q)' = EmailOf(q)
        BY <1>1, <2>1 DEF EmailOf, ByMail, Is
      <4>5. mem[q].cred # Absent => /\ EmailOf(q) \in Emails /\ mem[q].user = emailIndex[EmailOf(q)]
                                    /\ mem[q].user \in Users
        BY <1>3, <4>1 DEF Going, SeatInv, Seated
      <4>6. mem[q].cred # Absent => emailIndex'[EmailOf(q)] = emailIndex[EmailOf(q)]
        BY <3>1, <4>5, AuthAssumption
      <4> QED
        BY <1>1, <2>1, <4>3, <4>4, <4>5, <4>6 DEF Going, Answers
    <3> QED
      BY <3>1, <3>2 DEF AddressInv
  <2>3. CASE ~ResolveIdentity(r)
    <3>1. UNCHANGED people
      <4>1. ~DeleteUserRecords(r)
        BY <1>2, TypeParts, EraseMoves DEF StageOf, Stage, Unerased, Is
      <4> QED
        BY <1>5, <2>3, <4>1, NamesKept
    <3>2. pc[r] # "new_email"
      BY <1>5, <2>3, StepCases, StartMoves, CodeMoves, ParkMoves, SeatMoves, RotateMoves, EndMoves, ListMoves,
         FillMoves, EraseMoves, OnDeviceMoves, SendMoves
         DEF DevicePcs, StartPcs, SweepPcs, ConsumePcs, ConsumedPcs, RefundPcs, CodePcs, TakePcs, SeatPcs, BouncePcs,
             RotatePcs, EndPcs, ListPcs, FillPcs, ErasePcs
    <3>3. mem'[r].user = mem[r].user
      BY <1>5, <2>3, UserKept
    <3>4. Going(r)'
      <4>1. SUFFICES ASSUME SignsIn(r) PROVE Going(r)'
        BY <1>1 DEF Going, SignsIn, Is
      <4>2. Going(r)
        BY <1>3
      <4>3. CASE SessionPut(r)
        <5>1. pc[r] = "session_put" /\ pc'[r] = "session_index"
          BY <4>3, GotoMoves DEF SessionPut
        <5>2. mem'[r].code = mem[r].code
          BY <4>3, SeatChanges DEF IssueTokens, Changes, Fields
        <5>3. EmailOf(r)' = EmailOf(r)
          BY <1>1, <5>2 DEF EmailOf, ByMail, Is
        <5>4. EmailOf(r) \in Emails /\ mem[r].user = emailIndex[EmailOf(r)]
          BY <4>1, <4>2, <5>1 DEF Going
        <5> QED
          BY <3>1, <3>3, <5>1, <5>3, <5>4 DEF Going, people
      <4>4. CASE ~SessionPut(r)
        <5>1. /\ pc'[r] \notin (PeoplePcs \ {"identity"}) \cup {"session_put"}
              /\ mem'[r].cred # Absent => mem[r].cred # Absent /\ mem'[r].code = mem[r].code
          BY <1>5, <2>3, <4>1, <4>4, SignInCalls
        <5>2. mem'[r].cred # Absent => /\ EmailOf(r)' = EmailOf(r) /\ EmailOf(r) \in Emails
                                       /\ mem[r].user = emailIndex[EmailOf(r)]
          BY <1>1, <4>1, <4>2, <5>1 DEF Going, EmailOf, ByMail, Is
        <5> QED
          BY <3>1, <3>3, <5>1, <5>2 DEF Going, people, PeoplePcs
      <4> QED
        BY <4>3, <4>4
    <3>5. ASSUME NEW q \in Requests \ {r} PROVE Going(q)'
      BY <1>1, <1>3, <2>1, <3>1 DEF people, Going, Finishing, SignsIn, Is, IdentityOf, EmailOf, ByMail
    <3>6. ASSUME NEW i \in Identities, NEW e \in Emails PROVE Agreeing(i, e)'
      <4>1. \A p \in Requests : Finishing(p, i, e) => Finishing(p, i, e)'
        BY <1>1, <2>1, <3>1, <3>2 DEF people, Finishing, SignsIn, Is, IdentityOf, EmailOf, ByMail
      <4> QED
        BY <1>1, <1>3, <3>1, <4>1 DEF people, Agreeing, LeadsTo, Is
    <3> QED
      BY <3>4, <3>5, <3>6 DEF AddressInv
  <2> QED
    BY <2>2, <2>3
<1> QED
  BY <1>4, <1>5, NextCases

LEMMA AddressInvariant == Spec => [](TypeInv /\ InOrder /\ PeopleInv /\ SeatInv /\ AddressInv)
BY OrderInvariant, PeopleInvariant, WallInvariant, AddressInit, AddressNext, PTL DEF Spec

LEMMA AddressSuffices ==
    ASSUME AddressInv
    PROVE  OneUserPerAddress
BY DEF AddressInv, OneUserPerAddress, Going, SignedIn

(* A proven address leads to one user, whichever button was pressed, as     *)
(* long as sign-ins come one after another: resolveIdentity finds who has   *)
(* the address before it makes anybody.  An identity that proves no address *)
(* leads to a user of its own, however sign-ins overlap.                    *)
THEOREM ProofDecidesUser == Spec => []AddressDecidesUser
BY AddressInvariant, WallInvariant, AddressSuffices, WallSuffices, PTL DEF AddressDecidesUser
-----------------------------------------------------------------------------
(* What the window of an address counts.  Of its requests one is under way, *)
(* and may hold a charge for a mail that is not out yet.                    *)
Charged(kind) ==
    IF kind = "hour"
    THEN {"day", "day_put", "mail", "hour_back", "hour_back_put", "refund_hour", "refund_hour_put"}
    ELSE {"mail", "refund_hour", "refund_hour_put", "refund_day", "refund_day_put"}
Charging(kind) == IF kind = "hour" THEN "hour_put" ELSE "day_put"
Refunding(kind) == IF kind = "hour" THEN {"hour_back_put", "refund_hour_put"} ELSE {"refund_day_put"}
Concerned(kind) == Charged(kind) \cup {Charging(kind)}

InWindow(e, kind, t) == {m \in mailbox[e] : m.spent[kind] = t}
Upto(e, kind, t) == \A m \in mailbox[e] : m.spent[kind] # Absent => m.spent[kind] <= t
Pending(e, kind) == \E p \in Requests : Mailing(p, e) /\ pc[p] \in Charged(kind)

(* The counter, and the ones read to be written back.                       *)
Tally(e, kind) ==
    LET c == counters[<<kind, e>>]
    IN  /\ c = Absent => \A m \in mailbox[e] : m.spent[kind] = Absent
        /\ c # Absent => c.windowStart <= clock /\ c.count <= LimitOf(<<kind, e>>) /\ Upto(e, kind, c.windowStart)
        /\ ~Over(c, <<kind, e>>) =>
            c.count = Cardinality(InWindow(e, kind, c.windowStart)) + (IF Pending(e, kind) THEN 1 ELSE 0)

Holding(p, e, kind) ==
    LET c == counters[<<kind, e>>]
        x == mem[p].counter
    IN  /\ pc[p] \in Charged(kind) => c # Absent /\ mem[p].spent[kind] = c.windowStart
        /\ pc[p] = Charging(kind) =>
            /\ x.windowStart <= clock /\ x.count <= LimitOf(<<kind, e>>) /\ Upto(e, kind, x.windowStart)
            /\ x.count = Cardinality(InWindow(e, kind, x.windowStart)) + 1
        /\ pc[p] \in Refunding(kind) =>
            /\ x # Absent /\ x.windowStart = c.windowStart /\ x.count <= LimitOf(<<kind, e>>)
            /\ x.count = Cardinality(InWindow(e, kind, x.windowStart))

Counted(e, kind) == Tally(e, kind) /\ \A p \in Requests : Mailing(p, e) => Holding(p, e, kind)

Serial(e) == \A p, q \in Requests : Mailing(p, e) /\ Mailing(q, e) => ~Overlap(p, q)
Undegraded(e) == \A p \in Requests : Mailing(p, e) => ~mem[p].degraded

BudgetInv == \A e \in Emails : Serial(e) /\ Undegraded(e) => \A kind \in {"hour", "day"} : Counted(e, kind)

(* A request has its mail in a box only after it sent it.                   *)
Unsent == {"send"} \cup (StartPcs \ {"unsent"})
LetterInv ==
    \A e \in Emails : /\ IsFiniteSet(mailbox[e])
                      /\ \A m \in mailbox[e] : m.of \in Requests => pc[m.of] \notin Unsent

LEMMA BudgetTypes ==
    ASSUME TypeInv, NEW e \in Emails, NEW kind \in {"hour", "day"}
    PROVE  /\ <<kind, e>> \in CounterKeys /\ counters[<<kind, e>>] \in Counter \cup {Absent}
           /\ counters \in [CounterKeys -> Counter \cup {Absent}] /\ mailbox \in [Emails -> SUBSET Mail]
           /\ clock \in Nat /\ LengthOf(<<kind, e>>) \in Nat \ {0} /\ LimitOf(<<kind, e>>) \in Nat
           /\ \A m \in mailbox[e] : m.spent[kind] \in Nat \cup {Absent}
           /\ \A c \in Counter : c.windowStart \in Nat /\ c.count \in Nat
           /\ Absent \notin Nat \cup Counter
<1>1. StoresOK
  BY DEF TypeInv
<1>2. MaxClock \in Nat /\ Absent \notin Nat \cup Counter
  BY AuthAssumption
<1>3. LengthOf(<<kind, e>>) \in Nat \ {0} /\ LimitOf(<<kind, e>>) \in Nat
  BY AuthAssumption DEF LengthOf, LimitOf
<1>4. \A m \in Mail : m.spent[kind] \in Nat \cup {Absent}
  BY <1>2 DEF Mail, Spent
<1>5. \A c \in Counter : c.windowStart \in Nat /\ c.count \in Nat
  BY <1>2 DEF Counter
<1>6. <<kind, e>> \in CounterKeys
  BY DEF CounterKeys
<1> QED
  BY <1>1, <1>2, <1>3, <1>4, <1>5, <1>6 DEF StoresOK

LEMMA WindowFinite ==
    ASSUME LetterInv, NEW e \in Emails, NEW kind, NEW t
    PROVE  IsFiniteSet(InWindow(e, kind, t)) /\ Cardinality(InWindow(e, kind, t)) \in Nat
<1>1. IsFiniteSet(mailbox[e]) /\ InWindow(e, kind, t) \subseteq mailbox[e]
  BY DEF LetterInv, InWindow
<1> QED
  BY <1>1, FS_Subset, FS_CardinalityType

(* Who leaves the counter and the box alone, and goes on holding what it    *)
(* holds, as time goes by.                                                  *)
LEMMA CountedKept ==
    ASSUME TypeInv, NEW e \in Emails, NEW kind \in {"hour", "day"}, Counted(e, kind), call' = call,
           clock' \in Nat, clock <= clock', counters'[<<kind, e>>] = counters[<<kind, e>>], mailbox'[e] = mailbox[e],
           \A p \in Requests : Mailing(p, e) =>
               /\ pc'[p] \in Charged(kind) <=> pc[p] \in Charged(kind)
               /\ pc'[p] \in Charged(kind) => mem'[p].spent[kind] = mem[p].spent[kind]
               /\ pc'[p] = Charging(kind) => pc[p] = Charging(kind) /\ mem'[p].counter = mem[p].counter
               /\ pc'[p] \in Refunding(kind) => pc[p] \in Refunding(kind) /\ mem'[p].counter = mem[p].counter
    PROVE  Counted(e, kind)'
<1> DEFINE key == <<kind, e>>
           c == counters[key]
<1>1. /\ c \in Counter \cup {Absent} /\ clock \in Nat /\ LengthOf(key) \in Nat \ {0}
      /\ \A x \in Counter : x.windowStart \in Nat
  BY BudgetTypes
<1>2. \A p : Mailing(p, e)' <=> Mailing(p, e)
  BY DEF Mailing, Is
<1>3. /\ \A t : InWindow(e, kind, t)' = InWindow(e, kind, t)
      /\ \A t : Upto(e, kind, t)' <=> Upto(e, kind, t)
  BY DEF InWindow, Upto
<1>4. Pending(e, kind)' <=> Pending(e, kind)
  BY <1>2 DEF Pending
<1>5. ~Over(c, key)' => ~Over(c, key)
  BY <1>1 DEF Over
<1>6. Tally(e, kind)
  BY DEF Counted
<1>7. Tally(e, kind)'
  <2>1. c' = c
    OBVIOUS
  <2>2. c = Absent => \A m \in mailbox[e] : m.spent[kind] = Absent
    BY <1>6 DEF Tally
  <2>3. c # Absent => c.windowStart <= clock' /\ c.count <= LimitOf(key) /\ Upto(e, kind, c.windowStart)
    <3>1. c # Absent => c.windowStart <= clock /\ c.count <= LimitOf(key) /\ Upto(e, kind, c.windowStart)
      BY <1>6 DEF Tally
    <3> QED
      BY <1>1, <3>1
  <2>4. ~Over(c, key) =>
            c.count = Cardinality(InWindow(e, kind, c.windowStart)) + (IF Pending(e, kind) THEN 1 ELSE 0)
    BY <1>6 DEF Tally
  <2> QED
    BY <1>3, <1>4, <1>5, <2>1, <2>2, <2>3, <2>4 DEF Tally
<1>8. ASSUME NEW p \in Requests, Mailing(p, e) PROVE Holding(p, e, kind)'
  <2>1. Holding(p, e, kind)
    BY <1>8 DEF Counted
  <2>2. mem[p].counter \in Counter \cup {Absent} /\ (pc[p] = Charging(kind) => mem[p].counter \in Counter)
    BY TypeParts, MemoryType DEF StageOf, Stage, Charging, ConsumedPcs
  <2>3. pc'[p] = Charging(kind) => mem[p].counter.windowStart <= clock'
    BY <1>1, <1>8, <2>1, <2>2 DEF Holding
  <2> QED
    BY <1>3, <1>8, <2>1, <2>3 DEF Holding
<1> QED
  BY <1>2, <1>7, <1>8 DEF Counted
(* What the calls of a budget do, if the store does not fail.               *)
Consumed(r, at, put, key, next, refused) ==
    /\ UNCHANGED <<mailbox, clock, call>> /\ mem'[r].degraded = mem[r].degraded
    /\ \/ /\ pc[r] = at /\ counters' = counters /\ mem'[r].spent = mem[r].spent
          /\ mem'[r].counter = [Window(key) EXCEPT !.count = @ + 1]
          /\ pc'[r] = IF Window(key).count + 1 <= LimitOf(key) THEN put ELSE refused
       \/ /\ pc[r] = put /\ pc'[r] = next /\ counters' = [counters EXCEPT ![key] = mem[r].counter]
          /\ mem'[r].counter = mem[r].counter
          /\ mem'[r].spent = [mem[r].spent EXCEPT ![key[1]] = mem[r].counter.windowStart]

Refunded(r, at, put, key, next) ==
    /\ UNCHANGED <<mailbox, clock, call>> /\ mem'[r].spent = mem[r].spent /\ mem'[r].degraded = mem[r].degraded
    /\ \/ /\ pc[r] = at /\ counters' = counters /\ pc'[r] = IF Refunds(key) THEN put ELSE next
          /\ mem'[r].counter = IF ~Refunds(key) \/ counters[key].count = 0 THEN counters[key]
                               ELSE [counters[key] EXCEPT !.count = @ - 1]
       \/ /\ pc[r] = put /\ pc'[r] = next /\ counters' = [counters EXCEPT ![key] = mem[r].counter]
          /\ mem'[r].counter = mem[r].counter

LEMMA ConsumeEffect ==
    ASSUME TypeInv, NEW r \in Requests, NEW at, NEW put, NEW key, NEW next, NEW refused,
           Consume(r, at, put, key, next, refused), ~mem'[r].degraded
    PROVE  Consumed(r, at, put, key, next, refused)
<1>1. mem[r] \in Memory /\ DOMAIN mem[r] = Fields
  BY TypeParts, MemoryType
<1>2. ASSUME NEW from, NEW to PROVE ~Degrades(r, from, to)
  <2> DEFINE yes == TRUE
  <2>1. Degrades(r, from, to) => mem'[r] = [mem[r] EXCEPT !.degraded = yes]
    BY HoldsMoves DEF Degrades
  <2> HIDE DEF yes
  <2>2. Degrades(r, from, to) => mem'[r].degraded = yes
    BY <1>1, <2>1 DEF Fields
  <2> QED
    BY <2>2 DEF yes
<1>3. CASE /\ Goto(r, at, IF Window(key).count + 1 <= LimitOf(key) THEN put ELSE refused)
           /\ Holds(r, [mem[r] EXCEPT !.counter = [Window(key) EXCEPT !.count = @ + 1]])
           /\ UNCHANGED counters /\ Keeps
  <2> DEFINE w == [Window(key) EXCEPT !.count = @ + 1]
             p == IF Window(key).count + 1 <= LimitOf(key) THEN put ELSE refused
  <2>1. pc[r] = at /\ pc'[r] = p /\ mem'[r] = [mem[r] EXCEPT !.counter = w]
    BY <1>3, GotoMoves, HoldsMoves
  <2> HIDE DEF w, p
  <2>2. mem'[r].counter = w /\ mem'[r].spent = mem[r].spent /\ mem'[r].degraded = mem[r].degraded
    BY <1>1, <2>1 DEF Fields
  <2> QED
    BY <1>3, <2>1, <2>2 DEF w, p, Keeps, time, given, Consumed
<1>4. CASE /\ Goto(r, put, next)
           /\ counters' = [counters EXCEPT ![key] = mem[r].counter]
           /\ Holds(r, [mem[r] EXCEPT !.spent[key[1]] = mem[r].counter.windowStart])
           /\ Keeps
  <2> DEFINE n == [mem[r].spent EXCEPT ![key[1]] = mem[r].counter.windowStart]
  <2>1. pc[r] = put /\ pc'[r] = next /\ mem'[r] = [mem[r] EXCEPT !.spent = n]
    BY <1>4, GotoMoves, HoldsMoves
  <2> HIDE DEF n
  <2>2. mem'[r].spent = n /\ mem'[r].counter = mem[r].counter /\ mem'[r].degraded = mem[r].degraded
    BY <1>1, <2>1 DEF Fields
  <2> QED
    BY <1>4, <2>1, <2>2 DEF n, Keeps, time, given, Consumed
<1> QED
  BY <1>2, <1>3, <1>4 DEF Consume

LEMMA RefundEffect ==
    ASSUME TypeInv, NEW r \in Requests, NEW at, NEW put, NEW key, NEW next,
           Refund(r, at, put, key, next), ~mem'[r].degraded
    PROVE  Refunded(r, at, put, key, next)
<1>1. mem[r] \in Memory /\ DOMAIN mem[r] = Fields
  BY TypeParts, MemoryType
<1>2. ASSUME NEW from, NEW to PROVE ~Degrades(r, from, to)
  <2> DEFINE yes == TRUE
  <2>1. Degrades(r, from, to) => mem'[r] = [mem[r] EXCEPT !.degraded = yes]
    BY HoldsMoves DEF Degrades
  <2> HIDE DEF yes
  <2>2. Degrades(r, from, to) => mem'[r].degraded = yes
    BY <1>1, <2>1 DEF Fields
  <2> QED
    BY <2>2 DEF yes
<1> DEFINE w == IF ~Refunds(key) \/ counters[key].count = 0 THEN counters[key]
                ELSE [counters[key] EXCEPT !.count = @ - 1]
           p == IF Refunds(key) THEN put ELSE next
<1>3. CASE Goto(r, at, p) /\ Holds(r, [mem[r] EXCEPT !.counter = w]) /\ UNCHANGED counters /\ Keeps
  <2>1. pc[r] = at /\ pc'[r] = p /\ mem'[r] = [mem[r] EXCEPT !.counter = w]
    BY <1>3, GotoMoves, HoldsMoves
  <2>2. UNCHANGED <<counters, mailbox, clock, call>>
    BY <1>3 DEF Keeps, time, given
  <2> HIDE DEF w, p
  <2>3. mem'[r].counter = w /\ mem'[r].spent = mem[r].spent /\ mem'[r].degraded = mem[r].degraded
    BY <1>1, <2>1 DEF Fields
  <2> QED
    BY <2>1, <2>2, <2>3 DEF w, p, Refunded
<1>4. CASE /\ Goto(r, put, next)
           /\ counters' = [counters EXCEPT ![key] = mem[r].counter]
           /\ Keeps /\ UNCHANGED mem
  BY <1>4, GotoMoves DEF Keeps, time, given, Refunded
<1> QED
  BY <1>2, <1>3, <1>4 DEF Refund

(* One request for the address moves, with no other one under way.          *)
AloneFor(r, e, kind) ==
    \A q \in Requests \ {r} : Mailing(q, e) => pc[q] \notin Concerned(kind) /\ pc'[q] = pc[q]

LEMMA OthersHold ==
    ASSUME NEW e, NEW kind \in {"hour", "day"}, NEW r \in Requests, NEW q \in Requests \ {r}, AloneFor(r, e, kind), Mailing(q, e)
    PROVE  Holding(q, e, kind)' /\ pc[q] \notin Charged(kind) /\ pc'[q] \notin Charged(kind)
<1>1. pc'[q] \notin Concerned(kind) /\ Refunding(kind) \subseteq Charged(kind) /\ pc[q] \notin Concerned(kind)
  BY DEF AloneFor, Refunding, Charged
<1> QED
  BY <1>1 DEF Holding, Concerned

LEMMA WindowCounts ==
    ASSUME TypeInv, LetterInv, NEW e \in Emails, NEW kind \in {"hour", "day"}, Tally(e, kind), ~Pending(e, kind)
    PROVE  LET w == Window(<<kind, e>>)
           IN  /\ w.windowStart <= clock /\ Upto(e, kind, w.windowStart)
               /\ w.count = Cardinality(InWindow(e, kind, w.windowStart))
<1> DEFINE key == <<kind, e>>
           c == counters[key]
           w == Window(key)
<1>1. /\ c \in Counter \cup {Absent} /\ clock \in Nat /\ LengthOf(key) \in Nat \ {0}
      /\ \A x \in Counter : x.windowStart \in Nat /\ x.count \in Nat
      /\ \A m \in mailbox[e] : m.spent[kind] \in Nat \cup {Absent}
      /\ Absent \notin Nat \cup Counter
  BY BudgetTypes
<1>2. CASE Over(c, key)
  <2>1. w.windowStart = clock /\ w.count = 0
    BY <1>2 DEF Window
  <2>2. \A m \in mailbox[e] : m.spent[kind] # Absent => m.spent[kind] < clock
    <3>1. CASE c = Absent
      BY <3>1 DEF Tally
    <3>2. CASE c # Absent
      <4>1. c.windowStart \in Nat /\ c.windowStart < clock /\ Upto(e, kind, c.windowStart)
        BY <1>1, <1>2, <3>2 DEF Tally, Over
      <4> QED
        BY <1>1, <4>1 DEF Upto
    <3> QED
      BY <3>1, <3>2
  <2>3. InWindow(e, kind, clock) = {} /\ Upto(e, kind, clock)
    BY <1>1, <2>2 DEF InWindow, Upto
  <2>4. Cardinality({}) = 0
    BY FS_EmptySet
  <2> QED
    BY <1>1, <2>1, <2>3, <2>4
<1>3. CASE ~Over(c, key)
  <2>1. w = c /\ c # Absent
    BY <1>3 DEF Window, Over
  <2>2. Cardinality(InWindow(e, kind, c.windowStart)) \in Nat
    BY WindowFinite
  <2> QED
    BY <1>1, <1>3, <2>1, <2>2 DEF Tally
<1> QED
  BY <1>2, <1>3

LEMMA ConsumeCounted ==
    ASSUME TypeInv, LetterInv, NEW e \in Emails, NEW kind \in {"hour", "day"}, Counted(e, kind),
           NEW r \in Requests, Mailing(r, e), AloneFor(r, e, kind), ~mem'[r].degraded,
           NEW at, NEW next \in Charged(kind) \ Refunding(kind), NEW refused,
           at \notin Concerned(kind), refused \notin Concerned(kind),
           Consume(r, at, Charging(kind), <<kind, e>>, next, refused)
    PROVE  Counted(e, kind)'
<1> DEFINE key == <<kind, e>>
           c == counters[key]
           put == Charging(kind)
           x == mem[r].counter
           w == Window(key)
<1>1. /\ key \in CounterKeys /\ counters \in [CounterKeys -> Counter \cup {Absent}] /\ clock \in Nat
      /\ \A y \in Counter : y.windowStart \in Nat /\ y.count \in Nat
      /\ Absent \notin Nat \cup Counter
  BY BudgetTypes
<1>2. /\ mailbox' = mailbox /\ clock' = clock /\ call' = call
      /\ \/ /\ pc[r] = at /\ counters' = counters /\ mem'[r].spent = mem[r].spent
            /\ mem'[r].counter = [w EXCEPT !.count = @ + 1]
            /\ pc'[r] = IF w.count + 1 <= LimitOf(key) THEN put ELSE refused
         \/ /\ pc[r] = put /\ pc'[r] = next /\ counters' = [counters EXCEPT ![key] = x]
            /\ mem'[r].counter = x
            /\ mem'[r].spent = [mem[r].spent EXCEPT ![kind] = x.windowStart]
  <2>1. key[1] = kind /\ Consume(r, at, put, key, next, refused)
    OBVIOUS
  <2> HIDE DEF key, put, w, x
  <2>2. Consumed(r, at, put, key, next, refused) /\ key[1] = kind
    BY <2>1, ConsumeEffect
  <2> QED
    BY <2>2 DEF w, x, Consumed
<1>3. put \notin Charged(kind) /\ Refunding(kind) \subseteq Charged(kind)
  BY DEF Charging, Charged, Refunding
<1>4. \A q \in Requests \ {r} : Mailing(q, e) => Holding(q, e, kind)' /\ pc[q] \notin Charged(kind) /\ pc'[q] \notin Charged(kind)
  BY OthersHold
<1>5. \A p : Mailing(p, e)' <=> Mailing(p, e)
  BY <1>2 DEF Mailing, Is
<1>6. /\ \A t : InWindow(e, kind, t)' = InWindow(e, kind, t)
      /\ \A t : Upto(e, kind, t)' <=> Upto(e, kind, t)
  BY <1>2 DEF InWindow, Upto
<1>7. Tally(e, kind) /\ Holding(r, e, kind)
  BY DEF Counted
<1>8. SUFFICES Tally(e, kind)' /\ Holding(r, e, kind)'
  BY <1>4, <1>5 DEF Counted
<1>9. ~Pending(e, kind)
  BY <1>2, <1>3, <1>4 DEF Pending, Concerned
<1>10. CASE pc[r] = at
  <2>1. pc[r] # put
    BY <1>10 DEF Concerned
  <2>2. /\ counters' = counters /\ mem'[r].counter = [w EXCEPT !.count = @ + 1]
        /\ pc'[r] = IF w.count + 1 <= LimitOf(key) THEN put ELSE refused
    BY <1>2, <2>1
  <2>3. pc'[r] \notin Charged(kind)
    BY <1>3, <2>2 DEF Concerned
  <2>4. ~Pending(e, kind)'
    BY <1>4, <1>5, <2>3 DEF Pending
  <2>5. Tally(e, kind)'
    BY <1>2, <1>6, <1>7, <1>9, <2>2, <2>4 DEF Tally, Over
  <2>6. /\ w \in Counter /\ w.windowStart <= clock /\ Upto(e, kind, w.windowStart)
        /\ w.count = Cardinality(InWindow(e, kind, w.windowStart))
    BY <1>1, <1>7, <1>9, WindowCounts, WindowType DEF TypeInv
  <2>7. mem'[r].counter.windowStart = w.windowStart /\ mem'[r].counter.count = w.count + 1
    BY <2>2, <2>6 DEF Counter
  <2>8. pc'[r] = put => w.count + 1 <= LimitOf(key)
    BY <2>2 DEF Concerned
  <2> HIDE DEF w, put
  <2>9. Holding(r, e, kind)'
    <3>1. pc'[r] = put =>
            /\ mem'[r].counter.windowStart <= clock /\ mem'[r].counter.count <= LimitOf(key)
            /\ \A m \in mailbox[e] : m.spent[kind] # Absent => m.spent[kind] <= mem'[r].counter.windowStart
            /\ mem'[r].counter.count = Cardinality({m \in mailbox[e] : m.spent[kind] = mem'[r].counter.windowStart}) + 1
      BY <2>6, <2>7, <2>8 DEF Upto, InWindow
    <3> QED
      BY <1>2, <1>3, <2>3, <3>1 DEF Holding, Upto, InWindow, put
  <2> QED
    BY <2>5, <2>9
<1>11. CASE pc[r] = put
  <2>1. pc[r] # at
    BY <1>11 DEF Concerned
  <2>2. /\ pc'[r] = next /\ counters'[key] = x
        /\ mem'[r].spent = [mem[r].spent EXCEPT ![kind] = x.windowStart]
    BY <1>1, <1>2, <2>1
  <2>3. mem[r].spent \in Spent /\ x \in Counter
    BY <1>11, TypeParts, MemoryType DEF StageOf, Stage, Charging, ConsumedPcs
  <2>4. mem'[r].spent[kind] = x.windowStart
    BY <2>2, <2>3 DEF Spent
  <2>5. /\ x.windowStart <= clock /\ x.count <= LimitOf(key) /\ Upto(e, kind, x.windowStart)
        /\ x.count = Cardinality(InWindow(e, kind, x.windowStart)) + 1
    BY <1>7, <1>11 DEF Holding
  <2>6. Pending(e, kind)'
    BY <1>5, <2>2 DEF Pending
  <2>7. x # Absent
    BY <1>1, <2>3
  <2> HIDE DEF x
  <2>8. Tally(e, kind)'
    BY <1>2, <1>6, <2>2, <2>5, <2>6, <2>7 DEF Tally
  <2>9. Holding(r, e, kind)'
    BY <1>3, <2>2, <2>4, <2>7 DEF Holding
  <2> QED
    BY <2>8, <2>9
<1> QED
  BY <1>2, <1>10, <1>11
LEMMA RefundCounted ==
    ASSUME TypeInv, LetterInv, NEW e \in Emails, NEW kind \in {"hour", "day"}, Counted(e, kind),
           NEW r \in Requests, Mailing(r, e), AloneFor(r, e, kind), ~mem'[r].degraded,
           NEW at \in Charged(kind) \ Refunding(kind), NEW put \in Refunding(kind), NEW next,
           next \notin Concerned(kind), Refund(r, at, put, <<kind, e>>, next)
    PROVE  Counted(e, kind)'
<1> DEFINE key == <<kind, e>>
           c == counters[key]
           x == mem[r].counter
           w == IF ~Refunds(key) \/ counters[key].count = 0 THEN counters[key]
                ELSE [counters[key] EXCEPT !.count = @ - 1]
<1>1. /\ key \in CounterKeys /\ counters \in [CounterKeys -> Counter \cup {Absent}] /\ clock \in Nat
      /\ \A y \in Counter : y.windowStart \in Nat /\ y.count \in Nat
      /\ Absent \notin Nat \cup Counter
      /\ LimitOf(key) \in Nat
  BY BudgetTypes
<1>2. Refunded(r, at, put, key, next)
  BY RefundEffect
<1>3. /\ Charging(kind) \notin Charged(kind) /\ Refunding(kind) \subseteq Charged(kind) /\ Charging(kind) \notin Refunding(kind)
      /\ put # at
  BY DEF Charging, Charged, Refunding
<1>4. \A q \in Requests \ {r} : Mailing(q, e) => Holding(q, e, kind)' /\ pc[q] \notin Charged(kind) /\ pc'[q] \notin Charged(kind)
  BY OthersHold
<1>5. mailbox' = mailbox /\ clock' = clock /\ call' = call /\ mem'[r].spent = mem[r].spent /\ pc[r] \in {at, put}
  BY <1>2 DEF Refunded
<1>6. \A p : Mailing(p, e)' <=> Mailing(p, e)
  BY <1>5 DEF Mailing, Is
<1>7. /\ \A t : InWindow(e, kind, t)' = InWindow(e, kind, t)
      /\ \A t : Upto(e, kind, t)' <=> Upto(e, kind, t)
  BY <1>5 DEF InWindow, Upto
<1>8. Tally(e, kind) /\ Holding(r, e, kind)
  BY DEF Counted
<1>9. SUFFICES Tally(e, kind)' /\ Holding(r, e, kind)'
  BY <1>4, <1>6 DEF Counted
<1>10. /\ c # Absent /\ c \in Counter /\ mem[r].spent[kind] = c.windowStart /\ Pending(e, kind)
       /\ Cardinality(InWindow(e, kind, c.windowStart)) \in Nat
  BY <1>1, <1>3, <1>5, <1>8, WindowFinite DEF Holding, Pending
<1>11. /\ c.windowStart <= clock /\ c.count <= LimitOf(key) /\ Upto(e, kind, c.windowStart)
       /\ ~Over(c, key) => c.count = Cardinality(InWindow(e, kind, c.windowStart)) + 1
  BY <1>8, <1>10 DEF Tally
<1>12. CASE pc[r] = at
  <2>1. counters' = counters /\ pc'[r] = IF Refunds(key) THEN put ELSE next
    BY <1>2, <1>3, <1>12 DEF Refunded
  <2>2. mem'[r].counter = w
    BY <1>2, <1>3, <1>12 DEF Refunded
  <2>3. CASE Refunds(key)
    <3>1. pc'[r] = put /\ ~Over(c, key)
      BY <2>1, <2>3 DEF Refunds
    <3>2. c.count \in Nat /\ c.count # 0 /\ c.count - 1 = Cardinality(InWindow(e, kind, c.windowStart))
      BY <1>1, <1>10, <1>11, <3>1
    <3>3. w = [c EXCEPT !.count = @ - 1]
      BY <2>3, <3>2
    <3>4. w.windowStart = c.windowStart /\ w.count = c.count - 1 /\ w # Absent
      <4>1. w.windowStart = c.windowStart /\ w.count = c.count - 1
        BY <1>10, <3>3 DEF Counter
      <4>2. w \in Counter
        BY <1>10, <3>2, <3>3 DEF Counter
      <4> QED
        BY <1>1, <4>1, <4>2
    <3>5. Pending(e, kind)'
      BY <1>3, <1>6, <3>1 DEF Pending
    <3>6. Tally(e, kind)'
      BY <1>5, <1>7, <1>8, <1>10, <2>1, <3>5 DEF Tally, Over
    <3> HIDE DEF w
    <3>7. w.count <= LimitOf(key)
      BY <1>1, <1>11, <3>2, <3>4
    <3>8. Holding(r, e, kind)'
      BY <1>3, <1>5, <1>10, <2>1, <2>2, <3>1, <3>2, <3>4, <3>7 DEF Holding, InWindow
    <3> QED
      BY <3>6, <3>8
  <2>4. CASE ~Refunds(key)
    <3>1. pc'[r] = next /\ Over(c, key)
      BY <2>1, <2>4 DEF Refunds
    <3>2. Tally(e, kind)'
      BY <1>5, <1>7, <1>8, <2>1, <3>1 DEF Tally, Over
    <3>3. Holding(r, e, kind)'
      BY <1>3, <3>1 DEF Holding, Concerned
    <3> QED
      BY <3>2, <3>3
  <2> QED
    BY <2>3, <2>4
<1>13. CASE pc[r] = put
  <2>1. pc'[r] = next /\ counters' = [counters EXCEPT ![key] = x]
    BY <1>2, <1>3, <1>13 DEF Refunded
  <2>2. counters'[key] = x
    BY <1>1, <2>1
  <2>3. /\ x # Absent /\ x.windowStart = c.windowStart /\ x.count <= LimitOf(key)
        /\ x.count = Cardinality(InWindow(e, kind, x.windowStart))
    BY <1>8, <1>13 DEF Holding
  <2>4. ~Pending(e, kind)'
    BY <1>4, <1>6, <2>1 DEF Pending, Concerned
  <2>5. Cardinality(InWindow(e, kind, x.windowStart)) \in Nat
    BY WindowFinite
  <2> HIDE DEF x
  <2>6. Tally(e, kind)'
    BY <1>5, <1>7, <1>11, <2>2, <2>3, <2>4, <2>5 DEF Tally
  <2>7. Holding(r, e, kind)'
    BY <1>3, <2>1 DEF Holding, Concerned
  <2> QED
    BY <2>6, <2>7
<1> QED
  BY <1>5, <1>12, <1>13

(* The mail takes the place of the charge.                                  *)
LEMMA MailCounted ==
    ASSUME TypeInv, LetterInv, NEW e \in Emails, NEW kind \in {"hour", "day"}, Counted(e, kind),
           NEW r \in Requests, Mailing(r, e), AloneFor(r, e, kind), pc[r] = "mail", pc'[r] = "unsent",
           mailbox' = [mailbox EXCEPT ![e] = @ \cup {[of |-> r, spent |-> mem[r].spent]}],
           UNCHANGED <<counters, clock, call, mem>>
    PROVE  Counted(e, kind)'
<1> DEFINE key == <<kind, e>>
           c == counters[key]
           m == [of |-> r, spent |-> mem[r].spent]
           W == InWindow(e, kind, c.windowStart)
<1>1. /\ mailbox \in [Emails -> SUBSET Mail] /\ c \in Counter \cup {Absent}
      /\ \A y \in Counter : y.windowStart \in Nat /\ y.count \in Nat
      /\ Absent \notin Nat \cup Counter
  BY BudgetTypes
<1>2. /\ "mail" \in Charged(kind) /\ "unsent" \notin Charged(kind) /\ "unsent" # Charging(kind)
      /\ "unsent" \notin Refunding(kind)
  BY DEF Charging, Charged, Refunding
<1>3. \A q \in Requests \ {r} : Mailing(q, e) => Holding(q, e, kind)' /\ pc[q] \notin Charged(kind) /\ pc'[q] \notin Charged(kind)
  BY OthersHold
<1>4. \A p : Mailing(p, e)' <=> Mailing(p, e)
  BY DEF Mailing, Is
<1>5. Tally(e, kind) /\ Holding(r, e, kind)
  BY DEF Counted
<1>6. Holding(r, e, kind)'
  BY <1>2 DEF Holding
<1>7. c # Absent /\ c \in Counter /\ mem[r].spent[kind] = c.windowStart /\ Pending(e, kind)
  BY <1>1, <1>2, <1>5 DEF Holding, Pending
<1>8. mailbox'[e] = mailbox[e] \cup {m} /\ m.spent[kind] = c.windowStart
  BY <1>1, <1>7
<1>9. m \notin mailbox[e]
  <2>1. m.of = r /\ "mail" \in Unsent
    BY DEF Unsent, StartPcs
  <2> QED
    BY <2>1 DEF LetterInv
<1> HIDE DEF m
<1>10. InWindow(e, kind, c.windowStart)' = W \cup {m} /\ m \notin W
  BY <1>8, <1>9 DEF InWindow
<1>11. /\ IsFiniteSet(W) /\ Cardinality(W) \in Nat
  BY WindowFinite
<1>12. Cardinality(W \cup {m}) = Cardinality(W) + 1
  BY <1>10, <1>11, FS_AddElement
<1>13. Upto(e, kind, c.windowStart)'
  <2>1. Upto(e, kind, c.windowStart)
    BY <1>5, <1>7 DEF Tally
  <2> QED
    BY <1>1, <1>7, <1>8, <2>1 DEF Upto
<1>14. ~Pending(e, kind)'
  BY <1>2, <1>3, <1>4 DEF Pending
<1>15. /\ c.windowStart <= clock /\ c.count <= LimitOf(key)
       /\ ~Over(c, key) => c.count = Cardinality(W) + 1
  BY <1>5, <1>7 DEF Tally
<1>16. Tally(e, kind)'
  <2>1. counters' = counters /\ clock' = clock
    OBVIOUS
  <2>2. ~Over(c, key) => c.count = Cardinality(InWindow(e, kind, c.windowStart)')
    BY <1>10, <1>12, <1>15
  <2> QED
    BY <1>7, <1>11, <1>10, <1>12, <1>13, <1>14, <1>15, <2>1, <2>2 DEF Tally, Over
<1> QED
  BY <1>3, <1>4, <1>6, <1>16 DEF Counted
(* Who asks for a mail, and when a budget is not touched.                   *)
LEMMA LimitedCases ==
    ASSUME TypeInv, NEW r \in Requests, StartLimited(r)
    PROVE  /\ Is(r, {"start"}) /\ call[r].email \in Emails /\ pc[r] \notin Answers \cup {"send"} /\ call' = call
           /\ \/ Consume(r, "source", "source_put", SourceKey(r), "hour", "unsent")
              \/ Consume(r, "hour", "hour_put", HourKey(r), "day", "unsent")
              \/ Consume(r, "day", "day_put", DayKey(r), "mail", "hour_back")
              \/ Refund(r, "hour_back", "hour_back_put", HourKey(r), "unsent")
              \/ Refund(r, "refund_hour", "refund_hour_put", HourKey(r), "refund_day")
              \/ Refund(r, "refund_day", "refund_day_put", DayKey(r), "failed")
              \/ SendMail(r) \/ AnswerStart(r)
<1>1. pc[r] \in StartPcs /\ call' = call
  BY StartMoves DEF StartEmail, given
<1>2. call[r].op = "start"
  BY <1>1, TypeParts DEF StageOf, Stage
<1> QED
  BY <1>1, <1>2, KeyType DEF StartLimited, AllowSend, RefundSend, Is, StartPcs, SweepPcs, ConsumePcs, ConsumedPcs,
     RefundPcs, Answers

LEMMA LimitedTouches ==
    ASSUME TypeInv, NEW r \in Requests, StartLimited(r)
    PROVE  /\ clock' = clock
           /\ \A key \in CounterKeys \ {SourceKey(r), HourKey(r), DayKey(r)} : counters'[key] = counters[key]
           /\ \A e \in Emails \ {call[r].email} : mailbox'[e] = mailbox[e]
<1>1. counters \in [CounterKeys -> Counter \cup {Absent}] /\ mailbox \in [Emails -> SUBSET Mail]
  BY DEF TypeInv, StoresOK
<1>2. clock' = clock
  BY StartMoves DEF StartEmail, time
<1>3. ASSUME NEW at, NEW put, NEW k, NEW next, NEW refused, Consume(r, at, put, k, next, refused)
      PROVE  mailbox' = mailbox /\ \A key \in CounterKeys \ {k} : counters'[key] = counters[key]
  BY <1>1, <1>3 DEF Consume, Degrades, Keeps
<1>4. ASSUME NEW at, NEW put, NEW k, NEW next, Refund(r, at, put, k, next)
      PROVE  mailbox' = mailbox /\ \A key \in CounterKeys \ {k} : counters'[key] = counters[key]
  BY <1>1, <1>4 DEF Refund, Degrades, Keeps
<1>5. CASE SendMail(r)
  <2>1. counters' = counters
    BY <1>5 DEF SendMail, post
  <2>2. \A e \in Emails \ {call[r].email} : mailbox'[e] = mailbox[e]
    BY <1>1, <1>5 DEF SendMail, post
  <2> QED
    BY <1>2, <2>1, <2>2
<1>6. CASE AnswerStart(r)
  <2>1. counters' = counters /\ mailbox' = mailbox
    BY <1>6 DEF AnswerStart, post
  <2> QED
    BY <1>2, <2>1
<1> QED
  BY <1>2, <1>3, <1>4, <1>5, <1>6, LimitedCases

LEMMA Unpriced ==
    ASSUME TypeInv, NEW r \in Requests, Step(r), ~StartLimited(r), NEW kind \in {"hour", "day"}
    PROVE  UNCHANGED post /\ pc[r] \notin Concerned(kind) /\ pc'[r] \notin Concerned(kind)
<1>1. Concerned(kind) \subseteq {"day"} \cup ConsumedPcs \cup RefundPcs \cup {"mail"}
  BY DEF Concerned, Charged, Charging, ConsumedPcs, RefundPcs
<1>2. CASE StartEmail(r)
  <2>1. SweepList(r) \/ SweepRead(r) \/ SweepDrop(r) \/ StartChallenge(r)
    BY <1>2 DEF StartEmail
  <2>2. UNCHANGED post /\ pc[r] \in SweepPcs /\ pc'[r] \in SweepPcs \cup {"source"}
    BY <2>1, GotoMoves DEF SweepList, SweepRead, SweepDrop, StartChallenge, PutCode, Reads, SweepPcs
  <2> QED
    BY <1>1, <2>2 DEF SweepPcs, ConsumedPcs, RefundPcs
<1>3. CASE RedeemChallenge(r) \/ Parking(r)
  BY <1>1, <1>3, CodeMoves, ParkMoves DEF CodePcs, TakePcs, BouncePcs, Left, Answers, ConsumedPcs, RefundPcs
<1>4. CASE ResolveIdentity(r) \/ IssueTokens(r)
  BY <1>1, <1>4, PeopleMoves, SeatMoves DEF PeoplePcs, SeatPcs, Left, Answers, ConsumedPcs, RefundPcs
<1>5. CASE RotateSession(r) \/ EndSessionOwnedBy(r)
  BY <1>1, <1>5, RotateMoves, EndMoves DEF RotatePcs, EndPcs, Left, Answers, ConsumedPcs, RefundPcs
<1>6. CASE SessionsOf(r) \/ BackfillSessions(r) \/ DeleteUserRecords(r)
  BY <1>1, <1>6, ListMoves, FillMoves, EraseMoves DEF ListPcs, FillPcs, ErasePcs, Left, Answers, ConsumedPcs, RefundPcs
<1>7. CASE OnDeviceStep(r)
  BY <1>1, <1>7, OnDeviceMoves DEF Local, DevicePcs, Answers, ConsumedPcs, RefundPcs
<1>8. CASE Send(r)
  BY <1>1, <1>8, SendMoves DEF Reads, ConsumedPcs, RefundPcs
<1> QED
  BY <1>2, <1>3, <1>4, <1>5, <1>6, <1>7, <1>8, StepCases

LEMMA DegradedStays ==
    ASSUME TypeInv, NEW r \in Requests, Step(r), ~mem'[r].degraded
    PROVE  ~mem[r].degraded
<1>1. CASE StartLimited(r)
  <2>1. ASSUME NEW at, NEW put, NEW k, NEW next, NEW refused, Consume(r, at, put, k, next, refused)
        PROVE  ~mem[r].degraded
    BY <2>1, ConsumeEffect DEF Consumed
  <2>2. ASSUME NEW at, NEW put, NEW k, NEW next, Refund(r, at, put, k, next)
        PROVE  ~mem[r].degraded
    BY <2>2, RefundEffect DEF Refunded
  <2>3. CASE SendMail(r)
    BY <2>3 DEF SendMail
  <2>4. CASE AnswerStart(r)
    <3>1. Changes(r, {"answer"})
      BY <2>4, PlainRepliesChanges DEF AnswerStart
    <3> QED
      BY <3>1 DEF Changes, Fields
  <2> QED
    BY <1>1, <2>1, <2>2, <2>3, <2>4, LimitedCases
<1>2. CASE StartEmail(r) /\ ~StartLimited(r)
  <2>1. mem[r] \in Memory /\ DOMAIN mem[r] = Fields
    BY TypeParts, MemoryType
  <2>2. CASE SweepList(r)
    <3> DEFINE T == {k \in Codes : codes[k] # Absent}
    <3> HIDE DEF T
    <3>1. mem'[r] = [mem[r] EXCEPT !.todo = T]
      BY <2>2, HoldsMoves DEF SweepList, T
    <3> QED
      BY <2>1, <3>1 DEF Fields
  <2>3. CASE SweepRead(r)
    <3>1. PICK k \in mem[r].todo : mem'[r] = [mem[r] EXCEPT !.todo = @ \ {k}, !.at = k]
      BY <2>3, HoldsMoves DEF SweepRead
    <3> QED
      BY <2>1, <3>1 DEF Fields
  <2>4. CASE SweepDrop(r) \/ StartChallenge(r)
    BY <2>4 DEF SweepDrop, StartChallenge
  <2> QED
    BY <1>2, <2>2, <2>3, <2>4 DEF StartEmail
<1>3. CASE ~StartEmail(r)
  <2>1. Changes(r, Fields \ {"degraded"})
    <3>1. CASE RedeemChallenge(r) \/ Parking(r) \/ ResolveIdentity(r) \/ IssueTokens(r)
      BY <3>1, CodeChanges, ParkChanges, PeopleChanges, SeatChanges, ChangesMore DEF Fields
    <3>2. CASE RotateSession(r) \/ EndSessionOwnedBy(r)
      BY <3>2, RotateChanges, EndChanges, ChangesMore DEF Fields
    <3>3. CASE SessionsOf(r) \/ BackfillSessions(r) \/ DeleteUserRecords(r)
      BY <3>3, ListChanges, FillChanges, EraseChanges, ChangesMore DEF Fields
    <3>4. CASE OnDeviceStep(r) \/ Send(r)
      BY <3>4, DeviceChanges, SendChanges, ChangesMore DEF Fields
    <3> QED
      BY <1>3, <3>1, <3>2, <3>3, <3>4, StepCases
  <2> QED
    BY <2>1 DEF Changes, Fields
<1> QED
  BY <1>1, <1>2, <1>3
(* A step on the budget of the address.                                     *)
LEMMA LimitedCounted ==
    ASSUME TypeInv, LetterInv, NEW e \in Emails, NEW kind \in {"hour", "day"}, Counted(e, kind),
           NEW r \in Requests, Mailing(r, e), StartLimited(r), ~mem'[r].degraded, AloneFor(r, e, kind)
    PROVE  Counted(e, kind)'
<1>1. /\ HourKey(r) = <<"hour", e>> /\ DayKey(r) = <<"day", e>> /\ SourceKey(r)[1] = "source" /\ call' = call /\ clock' = clock
      /\ <<kind, e>> \in CounterKeys /\ counters \in [CounterKeys -> Counter \cup {Absent}] /\ clock \in Nat
      /\ mem[r].spent \in Spent
  BY LimitedCases, LimitedTouches, BudgetTypes, TypeParts, MemoryType DEF HourKey, DayKey, SourceKey, Mailing
<1>2. ASSUME counters'[<<kind, e>>] = counters[<<kind, e>>], mailbox'[e] = mailbox[e],
             pc'[r] \in Charged(kind) <=> pc[r] \in Charged(kind),
             pc'[r] \in Charged(kind) => mem'[r].spent[kind] = mem[r].spent[kind],
             pc'[r] # Charging(kind), pc'[r] \notin Refunding(kind)
      PROVE  Counted(e, kind)'
  <2>1. \A q \in Requests \ {r} : Mailing(q, e) => pc'[q] \notin Charged(kind) /\ pc[q] \notin Charged(kind)
                                                  /\ pc'[q] # Charging(kind) /\ pc'[q] \notin Refunding(kind)
    BY DEF AloneFor, Concerned, Refunding, Charged
  <2>2. clock <= clock'
    BY <1>1
  <2> QED
    BY <1>1, <1>2, <2>1, <2>2, CountedKept
<1>3. ASSUME NEW at, NEW put, NEW key, NEW next, NEW refused, key # <<kind, e>>, key[1] # kind,
             Consume(r, at, put, key, next, refused),
             \/ {at, put, next, refused} \cap Concerned(kind) = {}
             \/ {at, put, next, refused} \subseteq Charged(kind) \ Refunding(kind)
      PROVE  Counted(e, kind)'
  <2>1. Consumed(r, at, put, key, next, refused)
    BY <1>3, ConsumeEffect
  <2>2. pc[r] \in {at, put} /\ pc'[r] \in {put, next, refused} /\ mailbox' = mailbox
    BY <2>1 DEF Consumed
  <2>3. counters'[<<kind, e>>] = counters[<<kind, e>>]
    BY <1>1, <1>3, <2>1 DEF Consumed
  <2>4. mem'[r].spent[kind] = mem[r].spent[kind]
    BY <1>1, <1>3, <2>1 DEF Consumed, Spent
  <2>5. Charging(kind) \notin Charged(kind) /\ Refunding(kind) \subseteq Charged(kind)
    BY DEF Charging, Charged, Refunding
  <2> QED
    BY <1>2, <1>3, <2>2, <2>3, <2>4, <2>5 DEF Concerned
<1>4. ASSUME NEW at, NEW put, NEW key, NEW next, key # <<kind, e>>,
             Refund(r, at, put, key, next),
             \/ {at, put, next} \cap Concerned(kind) = {}
             \/ {at, put, next} \subseteq Charged(kind) \ Refunding(kind)
      PROVE  Counted(e, kind)'
  <2>1. Refunded(r, at, put, key, next)
    BY <1>4, RefundEffect
  <2>2. pc[r] \in {at, put} /\ pc'[r] \in {put, next} /\ mailbox' = mailbox /\ mem'[r].spent = mem[r].spent
    BY <2>1 DEF Refunded
  <2>3. counters'[<<kind, e>>] = counters[<<kind, e>>]
    BY <1>1, <1>4, <2>1 DEF Refunded
  <2>5. Charging(kind) \notin Charged(kind) /\ Refunding(kind) \subseteq Charged(kind)
    BY DEF Charging, Charged, Refunding
  <2> QED
    BY <1>2, <1>4, <2>2, <2>3, <2>5 DEF Concerned
<1>5. CASE Consume(r, "source", "source_put", SourceKey(r), "hour", "unsent")
  <2>1. {"source", "source_put", "hour", "unsent"} \cap Concerned(kind) = {}
    BY DEF Concerned, Charged, Charging
  <2>2. SourceKey(r) # <<kind, e>> /\ SourceKey(r)[1] # kind
    BY <1>1
  <2> QED
    BY <1>3, <1>5, <2>1, <2>2
<1>6. CASE Consume(r, "hour", "hour_put", HourKey(r), "day", "unsent")
  <2>1. CASE kind = "hour"
    <3>1. /\ "day" \in Charged(kind) \ Refunding(kind) /\ "hour" \notin Concerned(kind) /\ "unsent" \notin Concerned(kind)
          /\ Charging(kind) = "hour_put" /\ HourKey(r) = <<kind, e>>
      BY <1>1, <2>1 DEF Concerned, Charged, Charging, Refunding
    <3> QED
      BY <1>6, <3>1, ConsumeCounted
  <2>2. CASE kind = "day"
    <3>1. {"hour", "hour_put", "day", "unsent"} \cap Concerned(kind) = {}
      BY <2>2 DEF Concerned, Charged, Charging
    <3>2. HourKey(r) # <<kind, e>> /\ HourKey(r)[1] # kind
      BY <1>1, <2>2
    <3> QED
      BY <1>3, <1>6, <3>1, <3>2
  <2> QED
    BY <2>1, <2>2
<1>7. CASE Consume(r, "day", "day_put", DayKey(r), "mail", "hour_back")
  <2>1. CASE kind = "day"
    <3>1. /\ "mail" \in Charged(kind) \ Refunding(kind) /\ "day" \notin Concerned(kind) /\ "hour_back" \notin Concerned(kind)
          /\ Charging(kind) = "day_put" /\ DayKey(r) = <<kind, e>>
      BY <1>1, <2>1 DEF Concerned, Charged, Charging, Refunding
    <3> QED
      BY <1>7, <3>1, ConsumeCounted
  <2>2. CASE kind = "hour"
    <3>1. {"day", "day_put", "mail", "hour_back"} \subseteq Charged(kind) \ Refunding(kind)
      BY <2>2 DEF Charged, Refunding
    <3>2. DayKey(r) # <<kind, e>> /\ DayKey(r)[1] # kind
      BY <1>1, <2>2
    <3> QED
      BY <1>3, <1>7, <3>1, <3>2
  <2> QED
    BY <2>1, <2>2
<1>8. CASE Refund(r, "hour_back", "hour_back_put", HourKey(r), "unsent")
  <2>1. CASE kind = "hour"
    <3>1. /\ "hour_back" \in Charged(kind) \ Refunding(kind) /\ "hour_back_put" \in Refunding(kind)
          /\ "unsent" \notin Concerned(kind) /\ HourKey(r) = <<kind, e>>
      BY <1>1, <2>1 DEF Concerned, Charged, Charging, Refunding
    <3> QED
      BY <1>8, <3>1, RefundCounted
  <2>2. CASE kind = "day"
    <3>1. {"hour_back", "hour_back_put", "unsent"} \cap Concerned(kind) = {}
      BY <2>2 DEF Concerned, Charged, Charging
    <3>2. HourKey(r) # <<kind, e>>
      BY <1>1, <2>2
    <3> QED
      BY <1>4, <1>8, <3>1, <3>2
  <2> QED
    BY <2>1, <2>2
<1>9. CASE Refund(r, "refund_hour", "refund_hour_put", HourKey(r), "refund_day")
  <2>1. CASE kind = "hour"
    <3>1. /\ "refund_hour" \in Charged(kind) \ Refunding(kind) /\ "refund_hour_put" \in Refunding(kind)
          /\ "refund_day" \notin Concerned(kind) /\ HourKey(r) = <<kind, e>>
      BY <1>1, <2>1 DEF Concerned, Charged, Charging, Refunding
    <3> QED
      BY <1>9, <3>1, RefundCounted
  <2>2. CASE kind = "day"
    <3>1. {"refund_hour", "refund_hour_put", "refund_day"} \subseteq Charged(kind) \ Refunding(kind)
      BY <2>2 DEF Charged, Refunding
    <3>2. HourKey(r) # <<kind, e>>
      BY <1>1, <2>2
    <3> QED
      BY <1>4, <1>9, <3>1, <3>2
  <2> QED
    BY <2>1, <2>2
<1>10. CASE Refund(r, "refund_day", "refund_day_put", DayKey(r), "failed")
  <2>1. CASE kind = "day"
    <3>1. /\ "refund_day" \in Charged(kind) \ Refunding(kind) /\ "refund_day_put" \in Refunding(kind)
          /\ "failed" \notin Concerned(kind) /\ DayKey(r) = <<kind, e>>
      BY <1>1, <2>1 DEF Concerned, Charged, Charging, Refunding
    <3> QED
      BY <1>10, <3>1, RefundCounted
  <2>2. CASE kind = "hour"
    <3>1. {"refund_day", "refund_day_put", "failed"} \cap Concerned(kind) = {}
      BY <2>2 DEF Concerned, Charged, Charging
    <3>2. DayKey(r) # <<kind, e>>
      BY <1>1, <2>2
    <3> QED
      BY <1>4, <1>10, <3>1, <3>2
  <2> QED
    BY <2>1, <2>2
<1>11. CASE SendMail(r)
  <2>1. pc[r] = "mail" /\ UNCHANGED <<counters, mem>>
    BY <1>11, GotoMoves DEF SendMail, post
  <2>2. CASE pc'[r] = "unsent"
    <3>1. "unsent" # "refund_hour" /\ call[r].email = e
      BY DEF Mailing
    <3>2. mailbox' = [mailbox EXCEPT ![e] = @ \cup {[of |-> r, spent |-> mem[r].spent]}]
      BY <1>11, <2>2, <3>1, GotoMoves DEF SendMail
    <3> QED
      BY <1>1, <2>1, <2>2, <3>2, MailCounted
  <2>3. CASE pc'[r] # "unsent"
    <3>1. pc'[r] = "refund_hour" /\ mailbox' = mailbox
      BY <1>11, <2>3, GotoMoves DEF SendMail, post
    <3>2. {"mail", "refund_hour"} \subseteq Charged(kind) \ Refunding(kind) /\ Charging(kind) \notin {"mail", "refund_hour"}
      BY DEF Charged, Refunding, Charging
    <3> QED
      BY <1>2, <2>1, <3>1, <3>2
  <2> QED
    BY <2>2, <2>3
<1>12. CASE AnswerStart(r)
  <2>1. "200" \in Answers /\ "500" \in Answers
    BY DEF Answers
  <2>2. pc[r] \in {"unsent", "failed"} /\ pc'[r] \in Left /\ UNCHANGED <<counters, mailbox>>
    BY <1>12, <2>1, RepliesMoves DEF AnswerStart, post
  <2>3. ({"unsent", "failed"} \cup Left) \cap Concerned(kind) = {} /\ Refunding(kind) \subseteq Concerned(kind)
    BY DEF Left, Answers, Concerned, Charged, Charging, Refunding
  <2> QED
    BY <1>2, <2>2, <2>3 DEF Concerned
<1> QED
  BY <1>5, <1>6, <1>7, <1>8, <1>9, <1>10, <1>11, <1>12, LimitedCases
LEMMA SentForGood ==
    ASSUME TypeInv, NEW r \in Requests, Step(r), pc[r] \notin Unsent
    PROVE  pc'[r] \notin Unsent
<1>1. pc'[r] # "send"
  BY StepFrame
<1>2. CASE StartEmail(r)
  <2>1. pc[r] = "unsent"
    BY <1>2, StartMoves DEF Unsent
  <2>2. AnswerStart(r)
    BY <1>2, <2>1 DEF StartEmail, SweepList, SweepRead, SweepDrop, StartChallenge, PutCode, StartLimited, AllowSend,
       RefundSend, SendMail, Consume, Refund, Degrades, Goto
  <2>3. "200" \in Answers /\ "500" \in Answers
    BY DEF Answers
  <2>4. pc'[r] \in Left
    BY <2>2, <2>3, RepliesMoves DEF AnswerStart
  <2> QED
    BY <2>4 DEF Left, Answers, Unsent, StartPcs, SweepPcs, ConsumePcs, ConsumedPcs, RefundPcs
<1>3. CASE ~StartEmail(r)
  <2>1. \/ pc'[r] \in CodePcs \cup {"identity", "parked", "bounce", "take_delete", "taken"} \cup PeoplePcs \cup {"session_put"}
        \/ pc'[r] \in {"session_index", "handoff_put"} \cup RotatePcs \cup EndPcs \cup ListPcs \cup FillPcs \cup ErasePcs
        \/ pc'[r] \in DevicePcs \cup Left
    <3>1. pc[r] # "send"
      BY DEF Unsent
    <3>2. ~Send(r)
      BY <3>1, SendMoves
    <3> QED
      BY <1>3, <3>2, StepCases, CodeMoves, ParkMoves, PeopleMoves, SeatMoves, RotateMoves, EndMoves, ListMoves,
         FillMoves, EraseMoves, OnDeviceMoves DEF DevicePcs, Left, RotatePcs, EndPcs
  <2> QED
    BY <2>1 DEF Unsent, StartPcs, SweepPcs, ConsumePcs, ConsumedPcs, RefundPcs, CodePcs, PeoplePcs, RotatePcs, EndPcs,
       ListPcs, FillPcs, ErasePcs, DevicePcs, Left, Answers
<1> QED
  BY <1>2, <1>3

LEMMA LetterInit == Init => LetterInv
<1> SUFFICES ASSUME Init PROVE LetterInv
  OBVIOUS
<1>1. CountsMail(seed) /\ mailbox = seed.mailbox
  BY InitType, GivenFacts DEF TypeInv, Init
<1> QED
  BY <1>1 DEF CountsMail, LetterInv

LEMMA LetterNext == TypeInv /\ LetterInv /\ [Next]_vars => LetterInv'
<1> SUFFICES ASSUME TypeInv, LetterInv, [Next]_vars PROVE LetterInv'
  OBVIOUS
<1>1. CASE Idle
  BY <1>1 DEF Idle, post, LetterInv
<1>2. ASSUME NEW r \in Requests, Step(r) PROVE LetterInv'
  <2>1. \A q \in Requests \ {r} : pc'[q] = pc[q]
    BY <1>2, StepFrame, OthersKeep
  <2>2. pc[r] \notin Unsent => pc'[r] \notin Unsent
    BY <1>2, SentForGood
  <2>3. CASE mailbox' = mailbox
    BY <2>1, <2>2, <2>3 DEF LetterInv
  <2>4. CASE mailbox' # mailbox
    <3>1. StartLimited(r)
      BY <1>2, <2>4, Unpriced DEF post
    <3>2. SendMail(r)
      BY <2>4, <3>1, LimitedCases DEF Consume, Refund, Degrades, Keeps, AnswerStart, post
    <3> DEFINE m == [of |-> r, spent |-> mem[r].spent]
               f == call[r].email
    <3>3. mailbox' = [mailbox EXCEPT ![f] = @ \cup {m}] /\ pc'[r] = "unsent"
      BY <2>4, <3>2, GotoMoves DEF SendMail, post
    <3>4. m.of = r
      OBVIOUS
    <3> HIDE DEF m
    <3>5. mailbox \in [Emails -> SUBSET Mail]
      BY DEF TypeInv, StoresOK
    <3>6. ASSUME NEW e \in Emails
          PROVE  IsFiniteSet(mailbox'[e]) /\ \A n \in mailbox'[e] : n.of \in Requests => pc'[n.of] \notin Unsent
      <4>1. mailbox'[e] = mailbox[e] \/ mailbox'[e] = mailbox[e] \cup {m}
        BY <3>3, <3>5
      <4>2. IsFiniteSet(mailbox[e]) /\ \A n \in mailbox[e] : n.of \in Requests => pc[n.of] \notin Unsent
        BY DEF LetterInv
      <4>3. IsFiniteSet(mailbox[e] \cup {m})
        BY <4>2, FS_AddElement
      <4>4. "unsent" \notin Unsent
        BY DEF Unsent
      <4> QED
        BY <2>1, <2>2, <3>3, <3>4, <4>1, <4>2, <4>3, <4>4
    <3> QED
      BY <3>6 DEF LetterInv
  <2> QED
    BY <2>3, <2>4
<1> QED
  BY <1>1, <1>2, NextCases

LEMMA BudgetInit == Init => BudgetInv
<1> SUFFICES ASSUME Init, NEW e \in Emails, NEW kind \in {"hour", "day"} PROVE Counted(e, kind)
  BY DEF BudgetInv
<1> DEFINE c == counters[<<kind, e>>]
<1>1. CountsMail(seed) /\ mailbox = seed.mailbox /\ counters = seed.counters /\ clock = 0
  BY InitType, GivenFacts DEF TypeInv, Init
<1>2. \A p \in Requests : pc[p] = "send"
  BY DEF Init
<1>3. "send" \notin Charged(kind) \cup {Charging(kind)} \cup Refunding(kind)
  BY DEF Charged, Charging, Refunding
<1>4. ~Pending(e, kind) /\ \A p \in Requests : Holding(p, e, kind)
  BY <1>2, <1>3 DEF Pending, Holding
<1>5. /\ \A m \in mailbox[e] : m.spent[kind] # Absent => c # Absent /\ m.spent[kind] <= c.windowStart
      /\ c # Absent => /\ c.windowStart = 0 /\ c.count <= LimitOf(<<kind, e>>)
                       /\ c.count = Cardinality(InWindow(e, kind, c.windowStart))
  BY <1>1 DEF CountsMail, InWindow
<1>6. LetterInv /\ TypeInv
  BY LetterInit, InitType
<1>7. Cardinality(InWindow(e, kind, c.windowStart)) \in Nat
  BY <1>6, WindowFinite
<1>8. Tally(e, kind)
  BY <1>1, <1>4, <1>5, <1>7 DEF Tally, Upto, Over
<1> QED
  BY <1>4, <1>8 DEF Counted

LEMMA BudgetNext == TypeInv /\ InOrder /\ LetterInv /\ BudgetInv /\ [Next]_vars => BudgetInv'
<1> SUFFICES ASSUME TypeInv, InOrder, LetterInv, BudgetInv, [Next]_vars, NEW e \in Emails, Serial(e)', Undegraded(e)',
                    NEW kind \in {"hour", "day"}
             PROVE  Counted(e, kind)'
  BY DEF BudgetInv
<1>1. call' = call
  BY NextFrame
<1>2. Serial(e) /\ \A p : Mailing(p, e)' <=> Mailing(p, e)
  BY <1>1 DEF Serial, Mailing, Overlap, Is
<1>3. clock \in Nat /\ TypeInv'
  BY BudgetTypes, NextType
<1>4. clock' \in Nat
  BY <1>3, AuthAssumption DEF TypeInv, StoresOK
<1>5. CASE Idle
  <2>1. Undegraded(e)
    BY <1>2, <1>5 DEF Idle, Undegraded
  <2>2. Counted(e, kind)
    BY <1>2, <2>1 DEF BudgetInv
  <2> QED
    BY <1>1, <1>4, <1>5, <2>2, CountedKept DEF Idle, post
<1>6. ASSUME NEW r \in Requests, Step(r) PROVE Counted(e, kind)'
  <2>1. \A q \in Requests \ {r} : /\ pc'[q] = pc[q] /\ mem'[q].degraded = mem[q].degraded
                                  /\ mem'[q].counter = mem[q].counter /\ mem'[q].spent = mem[q].spent
    BY <1>6, StepFrame, OthersKeep
  <2>2. Undegraded(e)
    <3>1. Mailing(r, e) => ~mem[r].degraded
      BY <1>2, <1>6, DegradedStays DEF Undegraded
    <3> QED
      BY <1>2, <2>1, <3>1 DEF Undegraded
  <2>3. Counted(e, kind)
    BY <1>2, <2>2 DEF BudgetInv
  <2>4. CASE StartLimited(r) /\ Mailing(r, e)
    <3>1. AloneFor(r, e, kind)
      <4>1. \A q \in Requests \ {r} : Mailing(q, e) => pc[q] \in Answers \cup {"send"}
        BY <1>2, <2>4, LimitedCases DEF Serial, Overlap, InOrder
      <4>2. (Answers \cup {"send"}) \cap Concerned(kind) = {}
        BY DEF Answers, Concerned, Charged, Charging
      <4> QED
        BY <2>1, <4>1, <4>2 DEF AloneFor
    <3>2. ~mem'[r].degraded
      BY <1>2, <2>4 DEF Undegraded
    <3> QED
      BY <2>3, <2>4, <3>1, <3>2, LimitedCounted
  <2>5. CASE StartLimited(r) /\ ~Mailing(r, e)
    <3>1. call[r].email # e /\ Is(r, {"start"})
      BY <2>5, LimitedCases DEF Mailing
    <3>2. <<kind, e>> \in CounterKeys \ {SourceKey(r), HourKey(r), DayKey(r)}
      BY <3>1, BudgetTypes DEF SourceKey, HourKey, DayKey
    <3>3. counters'[<<kind, e>>] = counters[<<kind, e>>] /\ mailbox'[e] = mailbox[e] /\ clock <= clock'
      BY <1>3, <2>5, <3>1, <3>2, LimitedTouches
    <3> QED
      BY <1>1, <1>4, <2>1, <2>3, <2>5, <3>3, CountedKept
  <2>6. CASE ~StartLimited(r)
    <3>1. UNCHANGED post /\ pc[r] \notin Concerned(kind) /\ pc'[r] \notin Concerned(kind)
      BY <1>6, <2>6, Unpriced
    <3>2. clock' = clock
      BY <1>6, StepCases, StartMoves, CodeMoves, ParkMoves, PeopleMoves, SeatMoves, RotateMoves, EndMoves, ListMoves,
         FillMoves, EraseMoves, OnDeviceMoves, SendMoves DEF Reads, Local, time
    <3>3. Refunding(kind) \subseteq Charged(kind)
      BY DEF Refunding, Charged
    <3>4. clock <= clock' /\ counters' = counters /\ mailbox' = mailbox
      BY <1>3, <3>1, <3>2 DEF post
    <3> QED
      BY <1>1, <1>4, <2>1, <2>3, <3>1, <3>3, <3>4, CountedKept DEF Concerned
  <2> QED
    BY <2>4, <2>5, <2>6
<1> QED
  BY <1>5, <1>6, NextCases

LEMMA BudgetInvariant == Spec => [](TypeInv /\ InOrder /\ LetterInv /\ BudgetInv)
BY OrderInvariant, LetterInit, LetterNext, BudgetInit, BudgetNext, PTL DEF Spec

(* For every address and every limit, what a window counts is the mail that *)
(* went out in it, and no more than the limit: consume and refund balance   *)
(* whatever is refused, fails or runs over the end of a window.             *)
THEOREM BudgetCountsMail == Spec => []BudgetIsMail
<1>1. TypeInv /\ LetterInv /\ BudgetInv => BudgetIsMail
  <2> SUFFICES ASSUME TypeInv, LetterInv, BudgetInv, NEW e \in Emails, NEW kind \in {"hour", "day"},
                      ~Over(counters[<<kind, e>>], <<kind, e>>),
                      \A r \in Requests : Mailing(r, e) => (pc[r] = "send" \/ Answered(r)) /\ ~mem[r].degraded,
                      Serial(e)
               PROVE  LET count == counters[<<kind, e>>]
                      IN  /\ count.count = Cardinality({m \in mailbox[e] : m.spent[kind] = count.windowStart})
                          /\ count.count <= LimitOf(<<kind, e>>)
    BY DEF BudgetIsMail, Serial
  <2>1. Counted(e, kind)
    BY DEF BudgetInv, Undegraded
  <2>2. ~Pending(e, kind)
    BY DEF Pending, Answered, Answers, Charged
  <2>3. counters[<<kind, e>>] # Absent
    BY DEF Over
  <2>4. Cardinality(InWindow(e, kind, counters[<<kind, e>>].windowStart)) \in Nat
    BY WindowFinite
  <2> QED
    BY <2>1, <2>2, <2>3, <2>4 DEF Counted, Tally, InWindow
<1> QED
  BY <1>1, BudgetInvariant, PTL
=============================================================================
