-------------------------- MODULE AuthDeviceProofs --------------------------
(***************************************************************************)
(* What Auth promises about the devices of a user: the list shows them,    *)
(* and each holds a token the server takes.                                *)
(***************************************************************************)
EXTENDS AuthProofs

-----------------------------------------------------------------------------
(* Whose a session is: the owner it had at the start, or who opened it.     *)
Opened(s) == \A p \in Requests : Opens(p, s) => SignedIn(p)
Rooted(s, u) ==
    \/ seed.sessions[s] # Absent /\ seed.sessions[s].user = u
    \/ \E p \in Requests : Opens(p, s) /\ SignedIn(p) /\ mem[p].user = u
OwnersRecord(rec, s) == rec # Absent => Rooted(s, rec.user)

(* A session that neither expired nor was ended, of a user who is not       *)
(* deleted: it is there, and stays.                                         *)
Spared(u, s) ==
    /\ s \notin lapsed
    /\ \A p \in Requests : ~(mem[p].ended /\ mem[p].cred.session = s)
    /\ \A p \in Requests : Is(p, {"erase"}) => call[p].user # u
Kept(u, s) == Rooted(s, u) /\ Spared(u, s)

(* What a handler holds is about a session of its owner, or about one that  *)
(* is gone for good.                                                        *)
InHand(p) ==
    /\ pc[p] \in {"rotate", "tombstone"} => OwnersRecord(mem[p].rec, mem[p].cred.session)
    /\ pc[p] \in {"expire", "expire_index"} => mem[p].cred.session \in lapsed
    /\ pc[p] \in {"end_session", "end_index"} => mem[p].ended
    /\ pc[p] = "session_index" => SignedIn(p)
    /\ pc[p] = "fill_put" => OwnersRecord(mem[p].rec, mem[p].at)
    /\ pc[p] = "scan_heal" => Opened(mem[p].at)
    /\ pc[p] \in {"index_get", "index_repair"} => \A s \in mem[p].todo : Opened(s)
    /\ pc[p] = "index_repair" => Opened(mem[p].at) /\ ~Kept(call[p].user, mem[p].at)

(* The index of a user it knew completely.                                  *)
Complete(u) == OpenAtStart(u) \subseteq IndexedAtStart(u)
Indexed(u, s) ==
    Kept(u, s) /\ Complete(u) /\ (\A p \in Requests : Opens(p, s) => pc[p] # "session_index")
    => <<u, s>> \in sessionIndex

(* And of one it did not know: who indexes it has the rest still to do.     *)
ScanPcs == {"scan_get", "scan_heal", "fill", "fill_put"}
Fills(p, u) == pc[p] \in ScanPcs /\ (Is(p, {"devices"}) => call[p].user = u)
Ahead(p, u, s) == Fills(p, u) /\ (s \in mem[p].todo \/ (pc[p] \in {"scan_heal", "fill_put"} /\ mem[p].at = s))
Filled(p, u) == \A s \in SessionIds : Kept(u, s) => <<u, s>> \in sessionIndex \/ Ahead(p, u, s)
Begun(u) == \E s \in SessionIds : <<u, s>> \in sessionIndex
NoSignIn == \A p \in Requests : ~SignsIn(p)
FillInv ==
    NoSignIn =>
      /\ \A p \in Requests, u \in Users : Fills(p, u) => Filled(p, u)
      /\ \A u \in Users : IndexedAtStart(u) = {} /\ Begun(u) => \E p \in Requests : pc[p] # "send" /\ Filled(p, u)

(* A list of devices that is under way has shown a session, or will.        *)
Awaited(q, s) ==
    /\ Is(q, {"devices"}) /\ Kept(call[q].user, s)
    /\ \A p \in Requests : Opens(p, s) => p \in call[q].after
    /\ \/ Complete(call[q].user)
       \/ IndexedAtStart(call[q].user) = {} /\ NoSignIn /\ \A p \in Requests : ~Overlap(p, q)
Finds(q, s) ==
    \/ pc[q] \in {"send", "index_list", "scan_list"} \/ s \in mem[q].shown
    \/ pc[q] \in {"index_get", "index_repair", "scan_get", "scan_heal"} /\ s \in mem[q].todo

StoredInv ==
    /\ \A s \in SessionIds : OwnersRecord(sessions[s], s)
    /\ \A u \in Users, s \in SessionIds : <<u, s>> \in sessionIndex => Opened(s)
    /\ \A u \in Users, s \in SessionIds : Kept(u, s) => sessions[s] # Absent

ListInv ==
    /\ StoredInv
    /\ \A p \in Requests : InHand(p)
    /\ \A u \in Users, s \in SessionIds : Indexed(u, s)
    /\ FillInv
    /\ \A q \in Requests, s \in SessionIds : Awaited(q, s) => Finds(q, s)

LEMMA ListInit == Init => ListInv
<1> SUFFICES ASSUME Init PROVE ListInv
  OBVIOUS
<1>1. /\ TypeInv /\ \A q \in Requests : pc[q] = "send" /\ mem[q] = Blank
      /\ sessions = seed.sessions /\ sessionIndex = seed.sessionIndex
  BY InitType DEF Init
<1>2. \A q \in Requests : mem[q].cred = Absent /\ mem[q].ended = FALSE
  BY <1>1 DEF Blank
<1>3. \A s, u : Rooted(s, u) => seed.sessions[s] # Absent /\ seed.sessions[s].user = u
  BY <1>2 DEF Rooted, SignedIn
<1>4. \A s \in SessionIds : OwnersRecord(sessions[s], s)
  BY <1>1 DEF OwnersRecord, Rooted
<1>5. ASSUME NEW u \in Users, NEW s \in SessionIds, <<u, s>> \in sessionIndex PROVE Opened(s)
  <2>1. \A p \in Requests : ~Opens(p, s)
    BY <1>1, <1>5, GivenFacts DEF TypeInv, FreshIds, Opens, SignsIn, Is
  <2> QED
    BY <2>1 DEF Opened
<1>6. \A u \in Users, s \in SessionIds : Kept(u, s) => sessions[s] # Absent
  BY <1>1, <1>3 DEF Kept
<1>7. \A p \in Requests : InHand(p)
  BY <1>1 DEF InHand
<1>8. \A u \in Users, s \in SessionIds : Indexed(u, s)
  BY <1>1, <1>3 DEF Indexed, Kept, Complete, OpenAtStart, IndexedAtStart
<1>9. FillInv
  <2>1. \A u \in Users : IndexedAtStart(u) = {} => ~Begun(u)
    BY <1>1 DEF IndexedAtStart, Begun
  <2>2. \A p \in Requests, u \in Users : ~Fills(p, u)
    BY <1>1 DEF Fills, ScanPcs
  <2> QED
    BY <2>1, <2>2 DEF FillInv
<1>10. \A q \in Requests, s \in SessionIds : Finds(q, s)
  BY <1>1 DEF Finds
<1> QED
  BY <1>4, <1>5, <1>6, <1>7, <1>8, <1>9, <1>10 DEF ListInv, StoredInv

(* A session has one owner, and once it has one no sign-in is to open it.   *)
LEMMA OneOwner ==
    ASSUME TypeInv, NEW s \in SessionIds, NEW u, Rooted(s, u)
    PROVE  Opened(s) /\ \A v : Rooted(s, v) => v = u
<1>1. FreshIds(seed, call)
  BY GivenFacts DEF TypeInv
<1>2. \A p \in Requests : Opens(p, s) => seed.sessions[s] = Absent
  BY <1>1 DEF FreshIds, Opens, SignsIn, Is
<1>3. \A p, q \in Requests : Opens(p, s) /\ Opens(q, s) => p = q
  BY <1>1 DEF FreshIds, Opens, SignsIn, Is
<1> QED
  BY <1>2, <1>3 DEF Rooted, Opened

LEMMA StepTime ==
    ASSUME TypeInv, NEW r \in Requests, Step(r)
    PROVE  UNCHANGED time
BY StepCases, StartMoves, CodeMoves, ParkMoves, PeopleMoves, SeatMoves, RotateMoves, EndMoves, ListMoves,
   FillMoves, EraseMoves, OnDeviceMoves, SendMoves DEF Local, Reads

(* Who has signed in keeps its session and its user.                        *)
LEMMA SignedInKept ==
    ASSUME TypeInv, SeatInv, NEW r \in Requests, Step(r), SignedIn(r)
    PROVE  SignedIn(r)' /\ mem'[r].user = mem[r].user /\ mem'[r].cred = mem[r].cred
<1>1. /\ call' = call /\ SignsIn(r) /\ mem[r].cred # Absent /\ StageOf(r) /\ call[r].op \in {"callback", "redirect"}
      /\ pc[r] \in {"session_index", "back", "persist", "settle"} \cup BouncePcs \cup Answers
  BY StepFrame, TypeParts DEF given, SignedIn, SeatInv, Seated, SignsIn, Is
<1>2. ~ResolveIdentity(r) /\ ~SessionPut(r)
  BY <1>1, PeopleMoves, GotoMoves DEF PeoplePcs, BouncePcs, Answers, SessionPut
<1>3. mem'[r].cred = mem[r].cred
  <2>1. CASE Parking(r)
    <3>1. HandoffPut(r) \/ Bounce(r)
      BY <1>1, <2>1 DEF Parking, Park, Parked, TakeGet, TakeDelete, Taken, PutCode, Replies, Goto, BouncePcs, Answers
    <3> QED
      BY <3>1, PlainRepliesChanges DEF HandoffPut, Bounce, Changes, Fields
  <2>2. CASE IssueTokens(r)
    <3>1. UNCHANGED mem \/ Changes(r, {"answer"})
      BY <1>2, <2>2, PlainRepliesChanges DEF IssueTokens, SessionIndexed
    <3> QED
      BY <3>1 DEF Changes, Fields
  <2>3. CASE OnDeviceStep(r)
    <3>1. LoseAnswer(r) \/ UNCHANGED mem
      BY <1>1, <2>3 DEF OnDeviceStep, UseToken, Joined, LoseRequest, SignOut, Restart, Goto, Refused401, Is,
         Adopt, Persist, Clear, Report, Settle, Abandoned, BouncePcs, Answers
    <3>2. CASE LoseAnswer(r)
      <4> DEFINE yes == TRUE
      <4>1. mem'[r] = [mem[r] EXCEPT !.answer = "null", !.lost = yes]
        BY <3>2, HoldsMoves DEF LoseAnswer
      <4> HIDE DEF yes
      <4> QED
        BY <4>1, TypeParts, MemoryType DEF Fields
    <3> QED
      BY <3>1, <3>2
  <2>4. ~StartEmail(r) /\ ~RedeemChallenge(r) /\ ~RotateSession(r) /\ ~EndSessionOwnedBy(r) /\ ~SessionsOf(r)
        /\ ~BackfillSessions(r) /\ ~DeleteUserRecords(r) /\ ~Send(r)
    BY <1>1, StartMoves, CodeMoves, RotateMoves, EndMoves, ListMoves, FillMoves, EraseMoves, SendMoves
       DEF StageOf, Stage, CodePcs, BouncePcs, Answers
  <2> QED
    BY <1>2, <2>1, <2>2, <2>3, <2>4, StepCases
<1> QED
  BY <1>1, <1>2, <1>3, UserKept DEF SignedIn, SignsIn, Is

(* What a request ended it has ended for good.                              *)
LEMMA EndedKept ==
    ASSUME TypeInv, EndInv, NEW r \in Requests, Step(r), mem[r].ended
    PROVE  mem'[r].ended /\ mem'[r].cred.session = mem[r].cred.session
<1>1. /\ pc[r] \in {"end_session", "end_index", "settle", "back"} /\ mem[r] \in Memory
  BY StepFrame, TypeParts DEF EndInv, Presenting
<1>2. CASE OnDeviceStep(r)
  BY <1>2, DeviceUnruled DEF Unruled
<1>3. CASE EndSessionOwnedBy(r)
  <2>1. UNCHANGED mem \/ Changes(r, {"answer"})
    BY <1>1, <1>3, PlainRepliesChanges DEF EndSessionOwnedBy, EndGet, EndSession, EndIndex
  <2> QED
    BY <2>1 DEF Changes, Fields
<1> QED
  BY <1>1, <1>2, <1>3, StepCases, StartMoves, CodeMoves, ParkMoves, PeopleMoves, SeatMoves, RotateMoves, ListMoves,
     FillMoves, EraseMoves, SendMoves
     DEF StartPcs, SweepPcs, ConsumePcs, ConsumedPcs, RefundPcs, CodePcs, TakePcs, BouncePcs, PeoplePcs, SeatPcs,
         ListPcs, FillPcs, ErasePcs, RotatePcs

(* Only the write of a session opens one.                                   *)
LEMMA RootsKept ==
    ASSUME TypeInv, SeatInv, EndInv, NEW r \in Requests, Step(r)
    PROVE  /\ \A p \in Requests : SignedIn(p) => SignedIn(p)' /\ mem'[p].user = mem[p].user
           /\ \A p \in Requests : SignedIn(p)' => SignedIn(p) \/ (p = r /\ SessionPut(r))
           /\ \A s \in SessionIds : \A u : Rooted(s, u) => Rooted(s, u)'
           /\ \A s \in SessionIds : Opened(s) => Opened(s)'
           /\ \A s \in SessionIds : \A u : Spared(u, s)' => Spared(u, s)
<1>1. call' = call /\ seed' = seed /\ UNCHANGED lapsed
  BY StepFrame, StepTime DEF given, time
<1>2. ASSUME NEW p \in Requests \ {r}
      PROVE  /\ mem'[p].cred = mem[p].cred /\ mem'[p].user = mem[p].user /\ mem'[p].ended = mem[p].ended
             /\ SignedIn(p)' = SignedIn(p)
  BY <1>1, StepFrame, OthersKeep DEF SignedIn, SignsIn, Is
<1>3. ASSUME NEW p \in Requests, SignedIn(p) PROVE SignedIn(p)' /\ mem'[p].user = mem[p].user
  BY <1>2, <1>3, SignedInKept
<1>4. ASSUME SignedIn(r)', ~SignedIn(r) PROVE SessionPut(r)
  <2>1. SignsIn(r) /\ mem[r].cred = Absent /\ mem'[r].cred # Absent
    BY <1>1, <1>4 DEF SignedIn, SignsIn, Is
  <2>2. ~ResolveIdentity(r)
    BY <2>1, PeopleChanges DEF Changes, Fields
  <2> QED
    BY <2>1, <2>2, SignInCalls
<1>5. \A s \in SessionIds : \A u : Rooted(s, u) => Rooted(s, u)'
  <2> SUFFICES ASSUME NEW s \in SessionIds, NEW u, Rooted(s, u) PROVE Rooted(s, u)'
    OBVIOUS
  <2> QED
    BY <1>1, <1>3 DEF Rooted, Opens, SignsIn, Is
<1>6. \A s \in SessionIds : Opened(s) => Opened(s)'
  BY <1>1, <1>3 DEF Opened, Opens, SignsIn, Is
<1>7. \A s \in SessionIds : \A u : Spared(u, s)' => Spared(u, s)
  <2>1. \A p \in Requests : mem[p].ended => mem'[p].ended /\ mem'[p].cred.session = mem[p].cred.session
    BY <1>2, EndedKept
  <2> QED
    BY <1>1, <2>1 DEF Spared, Is
<1> QED
  BY <1>2, <1>3, <1>4, <1>5, <1>6, <1>7

LEMMA KeptBefore ==
    ASSUME TypeInv, SeatInv, EndInv, NEW r \in Requests, Step(r), NEW s \in SessionIds, NEW u, Kept(u, s)'
    PROVE  Kept(u, s) \/ (SessionPut(r) /\ Opens(r, s) /\ mem[r].user = u /\ ~Opened(s))
<1>1. call' = call /\ seed' = seed
  BY StepFrame DEF given
<1>2. Spared(u, s) /\ Rooted(s, u)'
  BY RootsKept DEF Kept
<1>3. CASE Rooted(s, u)
  BY <1>2, <1>3 DEF Kept
<1>4. CASE ~Rooted(s, u)
  <2>1. PICK p \in Requests : Opens(p, s) /\ SignedIn(p)' /\ mem'[p].user = u
    BY <1>1, <1>2, <1>4 DEF Rooted, Opens, SignsIn, Is
  <2>2. ~SignedIn(p)
    BY <1>4, <2>1, RootsKept DEF Rooted
  <2>3. p = r /\ SessionPut(r)
    BY <2>1, <2>2, RootsKept
  <2>4. mem'[r].user = mem[r].user
    BY <2>3, SeatChanges DEF IssueTokens, Changes, Fields
  <2> QED
    BY <2>1, <2>2, <2>3, <2>4 DEF Opened
<1> QED
  BY <1>3, <1>4

(* What a step does to a session, and to the index.                         *)
Loses(r, s) ==
    \/ pc[r] = "expire" /\ s = mem[r].cred.session
    \/ pc[r] = "end_session" /\ s = mem[r].cred.session
    \/ Is(r, {"erase"}) /\ sessions[s] # Absent /\ sessions[s].user = call[r].user
PutsBack(r, s) == pc[r] \in {"rotate", "tombstone"} /\ s = mem[r].cred.session
Writes(r, s) ==
    \/ sessions'[s] = sessions[s]
    \/ sessions'[s] = Absent /\ Loses(r, s)
    \/ sessions'[s] # Absent /\ sessions'[s].user = mem[r].rec.user /\ PutsBack(r, s)
    \/ sessions'[s] # Absent /\ sessions'[s].user = mem[r].user /\ SessionPut(r) /\ Opens(r, s)

LEMMA SessionEffect ==
    ASSUME TypeInv, NEW r \in Requests, Step(r), NEW s \in SessionIds
    PROVE  Writes(r, s)
<1>1. /\ StoresOK /\ StageOf(r) /\ mem[r] \in Memory /\ sessions \in [SessionIds -> SessionRec \cup {Absent}]
      /\ Absent \notin SessionRec
  BY TypeParts, AuthAssumption DEF StoresOK
<1>2. CASE SessionPut(r)
  <2> DEFINE rec == [user |-> mem[r].user, secret |-> r, ended |-> FALSE]
  <2>1. WriteSession(call[r].session, rec) /\ pc[r] = "session_put"
    BY <1>2 DEF SessionPut, Goto
  <2>2. rec \in SessionRec
    BY <1>1, <2>1 DEF StageOf, Stage, SeatPcs, SessionRec, Secrets
  <2>3. sessions' = [sessions EXCEPT ![call[r].session] = rec] /\ rec.user = mem[r].user /\ rec # Absent
    BY <1>1, <2>1, <2>2 DEF WriteSession
  <2>4. SignsIn(r)
    BY <1>1, <2>1 DEF StageOf, Stage, SeatPcs, SignsIn, Is
  <2> HIDE DEF rec
  <2> QED
    BY <1>1, <1>2, <2>3, <2>4 DEF Writes, Opens
<1>3. CASE Rotate(r) \/ Tombstone(r)
  <2> DEFINE old == mem[r].rec
             k == mem[r].cred.session
  <2>1. pc[r] \in {"rotate", "tombstone"}
        /\ \E rec : rec \in {[old EXCEPT !.secret = r], [old EXCEPT !.secret = Absent, !.ended = TRUE]}
                    /\ WriteSession(k, rec)
    BY <1>3 DEF Rotate, Tombstone, Goto, Replies, Presented
  <2>2. old \in SessionRec
    BY <1>1, <2>1 DEF StageOf, Stage, RotatePcs
  <2>3. PICK rec : rec \in {[old EXCEPT !.secret = r], [old EXCEPT !.secret = Absent, !.ended = TRUE]}
                   /\ WriteSession(k, rec)
    BY <2>1
  <2>4. rec \in SessionRec /\ rec.user = old.user
    BY <2>2, <2>3 DEF SessionRec, Secrets
  <2>5. sessions' = [sessions EXCEPT ![k] = rec] /\ rec # Absent
    BY <1>1, <2>3, <2>4 DEF WriteSession
  <2> QED
    BY <1>1, <2>1, <2>4, <2>5 DEF Writes, PutsBack
<1>4. CASE Expire(r) \/ EndSession(r)
  <2>1. pc[r] \in {"expire", "end_session"} /\ sessions' = [sessions EXCEPT ![mem[r].cred.session] = Absent]
    BY <1>4 DEF Expire, EndSession, WriteSession, Goto, Presented
  <2> QED
    BY <1>1, <2>1 DEF Writes, Loses
<1>5. CASE EraseSession(r)
  <2>1. PICK k : sessions' = [sessions EXCEPT ![k] = IF sessions[k] # Absent /\ sessions[k].user = call[r].user
                                                     THEN Absent ELSE sessions[k]]
    BY <1>5 DEF EraseSession, WriteSession
  <2>2. Is(r, {"erase"})
    BY <1>1, <1>5 DEF EraseSession, Erases, Goto, StageOf, Stage, ErasePcs, Is
  <2> QED
    BY <1>1, <2>1, <2>2 DEF Writes, Loses
<1>6. CASE UNCHANGED sessions
  BY <1>6 DEF Writes
<1>7. CASE StartEmail(r) \/ RedeemChallenge(r) \/ Parking(r) \/ ResolveIdentity(r) \/ SessionsOf(r) \/ BackfillSessions(r)
           \/ OnDeviceStep(r) \/ Send(r)
  BY <1>6, <1>7, StartMoves, CodeMoves, ParkMoves, PeopleMoves, ListMoves, FillMoves, OnDeviceMoves, SendMoves
     DEF seats, Local, Reads
<1>8. CASE SessionIndexed(r) \/ RotateGet(r) \/ ExpireIndex(r) \/ RotatedUser(r) \/ EndGet(r) \/ EndIndex(r)
  BY <1>6, <1>8 DEF SessionIndexed, SetIndex, RotateGet, ExpireIndex, DropIndex, RotatedUser, EndGet, EndIndex,
     Reads, seats
<1>9. CASE DeleteUserRecords(r) /\ ~EraseSession(r)
  <2>1. ASSUME NEW from, NEW to, NEW T, EraseList(r, from, to, T) PROVE UNCHANGED sessions
    BY <2>1 DEF EraseList, Reads, seats
  <2> QED
    BY <1>6, <1>9, <2>1 DEF DeleteUserRecords, EraseHome, EraseIndex, EraseIdentity, EraseEmail, EraseUser,
       DropIndex, seats
<1> QED
  BY <1>2, <1>3, <1>4, <1>5, <1>7, <1>8, <1>9, StepCases DEF IssueTokens, RotateSession, EndSessionOwnedBy
Adds(r, u, s) ==
    \/ SessionIndexed(r) /\ u = mem[r].user /\ Opens(r, s)
    \/ pc[r] = "scan_heal" /\ u = call[r].user /\ s = mem[r].at
    \/ pc[r] = "fill_put" /\ u = mem[r].rec.user /\ s = mem[r].at
Drops(r, u, s) ==
    \/ pc[r] \in {"expire_index", "end_index"} /\ s = mem[r].cred.session
    \/ pc[r] = "index_repair" /\ u = call[r].user /\ s = mem[r].at
    \/ Is(r, {"erase"}) /\ u = call[r].user

LEMMA IndexEffect ==
    ASSUME TypeInv, NEW r \in Requests, Step(r), NEW s \in SessionIds, NEW u \in Users
    PROVE  /\ <<u, s>> \in sessionIndex' => <<u, s>> \in sessionIndex \/ Adds(r, u, s)
           /\ <<u, s>> \in sessionIndex => <<u, s>> \in sessionIndex' \/ Drops(r, u, s)
           /\ Adds(r, u, s) => <<u, s>> \in sessionIndex'
<1> DEFINE Goal == /\ <<u, s>> \in sessionIndex' => <<u, s>> \in sessionIndex \/ Adds(r, u, s)
                   /\ <<u, s>> \in sessionIndex => <<u, s>> \in sessionIndex' \/ Drops(r, u, s)
                   /\ Adds(r, u, s) => <<u, s>> \in sessionIndex'
<1>1. StageOf(r)
  BY TypeParts
<1>2. CASE SessionIndexed(r)
  <2>1. pc[r] = "session_index" /\ sessionIndex' = sessionIndex \cup {<<mem[r].user, call[r].session>>}
    BY <1>2 DEF SessionIndexed, SetIndex, sessionIndexKey, Goto, Replies
  <2>2. SignsIn(r)
    BY <1>1, <2>1 DEF StageOf, Stage, SeatPcs, SignsIn, Is
  <2> QED
    BY <1>2, <2>1, <2>2 DEF Adds, Opens
<1>3. ~SessionIndexed(r) => (Adds(r, u, s) => pc[r] \in {"scan_heal", "fill_put"})
  BY DEF Adds
<1>4. CASE HealIndex(r)
  <2>1. pc[r] = "scan_heal" /\ sessionIndex' = sessionIndex \cup {<<call[r].user, mem[r].at>>}
    BY <1>4 DEF HealIndex, SetIndex, sessionIndexKey, Goto
  <2>2. ~SessionIndexed(r)
    BY <2>1 DEF SessionIndexed, Goto, Replies
  <2> QED
    BY <2>1, <2>2 DEF Adds
<1>5. CASE FillPut(r)
  <2>1. pc[r] = "fill_put" /\ sessionIndex' = sessionIndex \cup {<<mem[r].rec.user, mem[r].at>>}
    BY <1>5 DEF FillPut, SetIndex, sessionIndexKey, Goto
  <2>2. ~SessionIndexed(r)
    BY <2>1 DEF SessionIndexed, Goto, Replies
  <2> QED
    BY <2>1, <2>2 DEF Adds
<1>6. CASE ExpireIndex(r) \/ EndIndex(r) \/ RepairIndex(r)
  <2>1. \/ pc[r] \in {"expire_index", "end_index"} /\ \E v : sessionIndex' = sessionIndex \ {<<v, mem[r].cred.session>>}
        \/ pc[r] = "index_repair" /\ sessionIndex' = sessionIndex \ {<<call[r].user, mem[r].at>>}
    BY <1>6 DEF ExpireIndex, EndIndex, RepairIndex, DropIndex, sessionIndexKey, Goto, Replies, Presented
  <2>2. ~SessionIndexed(r)
    BY <2>1 DEF SessionIndexed, Goto, Replies
  <2> QED
    BY <1>3, <2>1, <2>2 DEF Drops
<1>7. CASE EraseIndex(r)
  <2>1. pc[r] = "erase_index" /\ \E k : sessionIndex' = sessionIndex \ {<<call[r].user, k>>}
    BY <1>7 DEF EraseIndex, Erases, DropIndex, sessionIndexKey, Goto
  <2>2. Is(r, {"erase"}) /\ ~SessionIndexed(r)
    BY <1>1, <2>1 DEF StageOf, Stage, ErasePcs, Is, SessionIndexed, Goto, Replies
  <2> QED
    BY <1>3, <2>1, <2>2 DEF Drops
<1>8. ASSUME UNCHANGED sessionIndex, pc[r] \notin {"session_index", "scan_heal", "fill_put"} PROVE Goal
  BY <1>8 DEF Adds, SessionIndexed, Goto, Replies
<1>9. CASE StartEmail(r) \/ RedeemChallenge(r) \/ Parking(r) \/ ResolveIdentity(r)
  BY <1>8, <1>9, StartMoves, CodeMoves, ParkMoves, PeopleMoves
     DEF seats, StartPcs, SweepPcs, ConsumePcs, ConsumedPcs, RefundPcs, CodePcs, TakePcs, BouncePcs, PeoplePcs
<1>10. CASE OnDeviceStep(r) \/ Send(r)
  BY <1>8, <1>10, OnDeviceMoves, SendMoves DEF seats, Local, Reads, DevicePcs
<1>11. CASE DeleteUserRecords(r) /\ ~EraseIndex(r)
  <2>1. ASSUME NEW from, NEW to, NEW T, EraseList(r, from, to, T) PROVE UNCHANGED sessionIndex
    BY <2>1 DEF EraseList, Reads, seats
  <2>2. UNCHANGED sessionIndex
    BY <1>11, <2>1 DEF DeleteUserRecords, EraseHome, EraseIdentity, EraseEmail, EraseUser, EraseSession,
       WriteSession, seats
  <2> QED
    BY <1>8, <1>11, <2>2, EraseMoves DEF ErasePcs
<1>12. CASE SessionPut(r) \/ (RotateSession(r) /\ ~ExpireIndex(r)) \/ (EndSessionOwnedBy(r) /\ ~EndIndex(r))
  <2>1. UNCHANGED sessionIndex
    BY <1>12 DEF SessionPut, RotateSession, RotateGet, Expire, Tombstone, Rotate, RotatedUser, EndSessionOwnedBy,
       EndGet, EndSession, WriteSession, Reads, seats
  <2>2. pc[r] \in {"session_put"} \cup RotatePcs \cup EndPcs
    BY <1>12, RotateMoves, EndMoves DEF SessionPut, Goto
  <2> QED
    BY <1>8, <2>1, <2>2 DEF RotatePcs, EndPcs
<1>13. CASE ListIndex(r) \/ ReadIndexed(r) \/ ScanList(r) \/ ReadScanned(r) \/ ShowDevices(r)
  BY <1>8, <1>13 DEF ListIndex, ReadIndexed, ScanList, ReadScanned, ShowDevices, Shows, Goto, Replies, Reads, seats
<1>14. CASE FillList(r) \/ FillRead(r) \/ FillEnd(r)
  BY <1>8, <1>14 DEF FillList, FillRead, FillEnd, Goto, Replies, Reads, seats
<1> QED
  BY <1>2, <1>4, <1>5, <1>6, <1>7, <1>9, <1>10, <1>11, <1>12, <1>13, <1>14, StepCases
     DEF IssueTokens, RotateSession, EndSessionOwnedBy, SessionsOf, BackfillSessions

(* What is stored of a session that is kept stays.                          *)
LEMMA StoredNext ==
    ASSUME TypeInv, SeatInv, EndInv, ListInv, NEW r \in Requests, Step(r)
    PROVE  StoredInv'
<1>1. /\ StoredInv /\ InHand(r) /\ call' = call /\ StageOf(r) /\ Absent \notin SessionRec
  BY StepFrame, TypeParts, AuthAssumption DEF ListInv, given
<1>2. ASSUME NEW s \in SessionIds, NEW u, SessionPut(r), Opens(r, s), mem[r].user = u
      PROVE  Rooted(s, u)' /\ sessions'[s] # Absent
  <2>1. mem'[r].cred # Absent
    <3> DEFINE c == [session |-> call[r].session, secret |-> r]
    <3>1. mem'[r] = [mem[r] EXCEPT !.cred = c] /\ DOMAIN mem[r] = Fields
      BY <1>2, HoldsMoves, TypeParts, MemoryType DEF SessionPut
    <3>2. c \in Cred /\ Absent \notin Cred
      BY <1>2, AuthAssumption, TypeParts, CallType DEF Cred, Secrets, Opens
    <3> HIDE DEF c
    <3> QED
      BY <3>1, <3>2 DEF Fields
  <2>2. mem'[r].user = mem[r].user
    BY <1>2, SeatChanges DEF IssueTokens, Changes, Fields
  <2>3. Rooted(s, u)'
    BY <1>1, <1>2, <2>1, <2>2 DEF Rooted, Opens, SignsIn, Is, SignedIn
  <2>4. sessions'[s] # Absent
    <3> DEFINE rec == [user |-> mem[r].user, secret |-> r, ended |-> FALSE]
    <3>1. pc[r] = "session_put" /\ sessions' = [sessions EXCEPT ![s] = rec]
      BY <1>2 DEF SessionPut, WriteSession, Goto, Opens
    <3>2. rec \in SessionRec /\ sessions \in [SessionIds -> SessionRec \cup {Absent}]
      BY <1>1, <3>1, TypeParts DEF StageOf, Stage, SeatPcs, SessionRec, Secrets, StoresOK
    <3> HIDE DEF rec
    <3> QED
      BY <1>1, <3>1, <3>2
  <2> QED
    BY <2>3, <2>4
<1>3. ASSUME NEW s \in SessionIds, NEW u, sessions'[s] # Absent, sessions'[s].user = u PROVE Rooted(s, u)'
  <2>1. CASE sessions'[s] = sessions[s]
    BY <1>1, <1>3, <2>1, RootsKept DEF StoredInv, OwnersRecord
  <2>2. CASE sessions'[s].user = mem[r].rec.user /\ PutsBack(r, s)
    <3>1. mem[r].rec # Absent
      BY <1>1, <2>2 DEF PutsBack, StageOf, Stage, RotatePcs
    <3>2. Rooted(s, u)
      BY <1>1, <1>3, <2>2, <3>1 DEF PutsBack, InHand, OwnersRecord
    <3> QED
      BY <3>2, RootsKept
  <2>3. CASE sessions'[s].user = mem[r].user /\ SessionPut(r) /\ Opens(r, s)
    BY <1>2, <1>3, <2>3
  <2> QED
    BY <1>3, <2>1, <2>2, <2>3, SessionEffect DEF Writes
<1>4. ASSUME NEW u \in Users, NEW s \in SessionIds, <<u, s>> \in sessionIndex' PROVE Opened(s)'
  <2> SUFFICES Opened(s)
    BY RootsKept
  <2>1. CASE <<u, s>> \in sessionIndex
    BY <1>1, <2>1 DEF StoredInv
  <2>2. CASE SessionIndexed(r) /\ u = mem[r].user /\ Opens(r, s)
    <3>1. pc[r] = "session_index"
      BY <2>2 DEF SessionIndexed, Goto, Replies
    <3>2. SignedIn(r)
      BY <1>1, <3>1 DEF InHand
    <3> QED
      BY <2>2, <3>2, OneOwner DEF Rooted
  <2>3. CASE pc[r] = "scan_heal" /\ u = call[r].user /\ s = mem[r].at
    BY <1>1, <2>3 DEF InHand
  <2>4. CASE pc[r] = "fill_put" /\ u = mem[r].rec.user /\ s = mem[r].at
    <3>1. Rooted(s, u)
      BY <1>1, <2>4 DEF InHand, OwnersRecord, StageOf, Stage
    <3> QED
      BY <3>1, OneOwner
  <2> QED
    BY <1>4, <2>1, <2>2, <2>3, <2>4, IndexEffect DEF Adds
<1>5. ASSUME NEW u \in Users, NEW s \in SessionIds, Kept(u, s)' PROVE sessions'[s] # Absent
  <2>1. CASE Kept(u, s)
    <3>1. sessions[s] # Absent /\ sessions[s].user = u
      BY <1>1, <2>1, OneOwner DEF StoredInv, OwnersRecord, Kept
    <3>2. ~Loses(r, s)
      BY <1>1, <2>1, <3>1 DEF Loses, InHand, Kept, Spared
    <3> QED
      BY <3>1, <3>2, SessionEffect DEF Writes
  <2>2. CASE SessionPut(r) /\ Opens(r, s)
    BY <1>2, <2>2
  <2> QED
    BY <1>5, <2>1, <2>2, KeptBefore
<1> QED
  BY <1>3, <1>4, <1>5 DEF StoredInv, OwnersRecord
HandPcs == {"session_index", "rotate", "tombstone", "expire", "expire_index", "end_session", "end_index", "fill_put",
            "scan_heal", "index_get", "index_repair"}

LEMMA RotateHolds ==
    ASSUME TypeInv, SeatInv, EndInv, ListInv, NEW r \in Requests, Step(r), RotateSession(r)
    PROVE  InHand(r)'
<1>1. /\ StoredInv /\ InHand(r) /\ call' = call /\ StageOf(r) /\ mem[r] \in Memory /\ UNCHANGED lapsed
      /\ mem[r].cred \in Cred /\ pc[r] \in RotatePcs
  BY StepFrame, StepTime, TypeParts, RotateMoves DEF ListInv, given, time, StageOf, Stage
<1>2. mem[r].cred.session \in SessionIds
  BY <1>1 DEF Cred
<1>3. CASE RotateGet(r)
  <2> DEFINE s == mem[r].cred.session
             rec == sessions[s]
             verdict == RotateVerdict(r, rec)
             replayed == Replays(r, rec)
             m == [mem[r] EXCEPT !.rec = rec, !.presented = s, !.replayed = replayed]
  <2>1. \/ verdict \in Answers /\ Replies(r, "rotate_get", verdict, m)
        \/ verdict \notin Answers /\ Goto(r, "rotate_get", verdict) /\ Holds(r, m)
    BY <1>3 DEF RotateGet, Presented
  <2>2. verdict \in {"401", "expire", "rotate", "tombstone"} /\ (verdict = "expire" => s \in lapsed)
    BY DEF RotateVerdict, Presented
  <2>3. DOMAIN mem[r] = Fields
    BY <1>1, MemoryType
  <2> HIDE DEF rec, verdict, replayed
  <2>4. m.cred = mem[r].cred /\ m.rec = rec
    BY <2>3 DEF Fields
  <2> HIDE DEF m
  <2>5. CASE verdict \in Answers /\ Replies(r, "rotate_get", verdict, m)
    <3>1. pc'[r] \in Left
      BY <2>5, RepliesMoves
    <3> QED
      BY <3>1 DEF InHand, Left, Answers
  <2>6. CASE verdict \notin Answers /\ Goto(r, "rotate_get", verdict) /\ Holds(r, m)
    <3>1. pc'[r] = verdict /\ mem'[r] = m
      BY <2>6, GotoMoves, HoldsMoves
    <3>2. \A k \in SessionIds : \A u : k = s /\ rec # Absent /\ rec.user = u => Rooted(k, u)'
      BY <1>1, <1>2, RootsKept DEF StoredInv, OwnersRecord, rec
    <3>3. verdict \in {"expire", "rotate", "tombstone"}
      BY <2>2, <2>6 DEF Answers
    <3>4. mem'[r].cred = mem[r].cred /\ mem'[r].rec = rec
      BY <2>4, <3>1
    <3>5. OwnersRecord(mem[r].rec, mem[r].cred.session)'
      BY <1>2, <3>2, <3>4 DEF OwnersRecord
    <3> QED
      BY <1>1, <2>2, <3>1, <3>3, <3>4, <3>5 DEF InHand
  <2> QED
    BY <2>1, <2>5, <2>6
<1>4. CASE Expire(r)
  BY <1>1, <1>4, GotoMoves DEF Expire, InHand
<1>5. CASE ExpireIndex(r) \/ Tombstone(r)
  <2>1. pc'[r] \in Left
    BY <1>5, RepliesMoves DEF ExpireIndex, Tombstone, Answers
  <2> QED
    BY <2>1 DEF InHand, Left, Answers
<1>6. CASE Rotate(r)
  BY <1>6, GotoMoves DEF Rotate, InHand
<1>7. CASE RotatedUser(r)
  <2>1. PICK a \in {"200", "500", "401"} : Goto(r, "rotated_user", IF OnDevice(r) THEN "back" ELSE a)
    BY <1>7 DEF RotatedUser, Replies
  <2>2. pc'[r] \in Left
    BY <2>1, GotoMoves DEF Left, Answers
  <2> QED
    BY <2>2 DEF InHand, Left, Answers
<1> QED
  BY <1>3, <1>4, <1>5, <1>6, <1>7 DEF RotateSession

LEMMA EndHolds ==
    ASSUME TypeInv, ListInv, NEW r \in Requests, EndSessionOwnedBy(r)
    PROVE  InHand(r)'
<1>1. InHand(r) /\ mem[r] \in Memory /\ DOMAIN mem[r] = Fields
  BY TypeParts, MemoryType DEF ListInv
<1>2. CASE EndGet(r)
  <2>1. PICK x, ends :
           \/ ends = TRUE /\ Goto(r, "end_get", "end_session") /\ Holds(r, [mem[r] EXCEPT !.rec = x, !.ended = ends])
           \/ \E m : Replies(r, "end_get", "204", m)
    BY <1>2 DEF EndGet
  <2>2. CASE ends = TRUE /\ Goto(r, "end_get", "end_session") /\ Holds(r, [mem[r] EXCEPT !.rec = x, !.ended = ends])
    <3>1. pc'[r] = "end_session" /\ mem'[r] = [mem[r] EXCEPT !.rec = x, !.ended = ends]
      BY <2>2, GotoMoves, HoldsMoves
    <3>2. mem'[r].ended
      BY <1>1, <2>2, <3>1 DEF Fields
    <3> QED
      BY <3>1, <3>2 DEF InHand
  <2>3. CASE \E m : Replies(r, "end_get", "204", m)
    <3>1. pc'[r] \in Left
      BY <2>3, RepliesMoves DEF Answers
    <3> QED
      BY <3>1 DEF InHand, Left, Answers
  <2> QED
    BY <2>1, <2>2, <2>3
<1>3. CASE EndSession(r)
  BY <1>1, <1>3, GotoMoves DEF EndSession, InHand
<1>4. CASE EndIndex(r)
  <2>1. pc'[r] \in Left
    BY <1>4, RepliesMoves DEF EndIndex, Answers
  <2> QED
    BY <2>1 DEF InHand, Left, Answers
<1> QED
  BY <1>2, <1>3, <1>4 DEF EndSessionOwnedBy

(* What the calls on the index hold next.                                   *)
LEMMA ShowsMoves ==
    ASSUME TypeInv, NEW r \in Requests, NEW s \in SessionIds, NEW to, Shows(r, s, to)
    PROVE  /\ pc'[r] = to /\ mem'[r].todo = mem[r].todo \ {s} /\ mem'[r].at = s
           /\ mem'[r].shown = mem[r].shown \cup (IF Presentable(sessions[s], call[r].user, s) THEN {s} ELSE {})
           /\ UNCHANGED <<sessions, sessionIndex>>
<1> DEFINE T == mem[r].todo \ {s}
           S == mem[r].shown \cup (IF Presentable(sessions[s], call[r].user, s) THEN {s} ELSE {})
<1>1. mem'[r] = [mem[r] EXCEPT !.todo = T, !.at = s, !.shown = S] /\ pc'[r] = to
  BY GotoMoves, HoldsMoves DEF Shows
<1>2. DOMAIN mem[r] = Fields
  BY TypeParts, MemoryType
<1> HIDE DEF T, S
<1>3. mem'[r].todo = T /\ mem'[r].at = s /\ mem'[r].shown = S
  BY <1>1, <1>2 DEF Fields
<1> QED
  BY <1>1, <1>3 DEF Shows, Reads, seats, T, S

LEMMA TodoMoves ==
    ASSUME TypeInv, NEW r \in Requests, NEW T, Holds(r, [mem[r] EXCEPT !.todo = T])
    PROVE  mem'[r].todo = T
<1>1. mem'[r] = [mem[r] EXCEPT !.todo = T] /\ DOMAIN mem[r] = Fields
  BY HoldsMoves, TypeParts, MemoryType
<1> QED
  BY <1>1 DEF Fields

LEMMA FillReadMoves ==
    ASSUME TypeInv, NEW r \in Requests, FillRead(r)
    PROVE  \E s \in mem[r].todo :
              /\ s \in SessionIds /\ pc[r] = "fill"
              /\ pc'[r] = (IF sessions[s] = Absent THEN "fill" ELSE "fill_put")
              /\ mem'[r].todo = mem[r].todo \ {s} /\ mem'[r].at = s /\ mem'[r].rec = sessions[s]
              /\ UNCHANGED <<sessions, sessionIndex>>
<1>1. PICK s \in mem[r].todo :
        /\ Goto(r, "fill", IF sessions[s] = Absent THEN "fill" ELSE "fill_put")
        /\ Holds(r, [mem[r] EXCEPT !.todo = @ \ {s}, !.at = s, !.rec = sessions[s]])
        /\ Reads
  BY DEF FillRead
<1> DEFINE T == mem[r].todo \ {s}
           rec == sessions[s]
<1>2. mem'[r] = [mem[r] EXCEPT !.todo = T, !.at = s, !.rec = rec] /\ pc[r] = "fill"
      /\ pc'[r] = (IF sessions[s] = Absent THEN "fill" ELSE "fill_put")
  BY <1>1, GotoMoves, HoldsMoves
<1>3. DOMAIN mem[r] = Fields /\ s \in SessionIds
  BY <1>2, TypeParts, MemoryType DEF StageOf, Stage
<1> HIDE DEF T, rec
<1>4. mem'[r].todo = T /\ mem'[r].at = s /\ mem'[r].rec = rec
  BY <1>2, <1>3 DEF Fields
<1> QED
  BY <1>1, <1>2, <1>3, <1>4 DEF Reads, seats, T, rec

LEMMA ListHolds ==
    ASSUME TypeInv, SeatInv, EndInv, ListInv, NEW r \in Requests, Step(r), SessionsOf(r)
    PROVE  InHand(r)'
<1>1. /\ StoredInv /\ InHand(r) /\ call' = call /\ StageOf(r) /\ call[r].user \in Users
  BY StepFrame, TypeParts, CallType, ListMoves DEF ListInv, given, StageOf, Stage, WellFormed
<1>2. \A s \in SessionIds : Opened(s) => Opened(s)'
  BY RootsKept
<1>3. ASSUME NEW s \in SessionIds, Opened(s), ~Kept(call[r].user, s) PROVE ~Kept(call[r].user, s)'
  BY <1>1, <1>3, KeptBefore
<1>4. CASE ListIndex(r)
  <2> DEFINE indexed == {s \in SessionIds : sessionIndexKey(call[r].user, s) \in sessionIndex}
  <2>1. pc'[r] \in {"scan_list", "index_get"} /\ mem'[r].todo = indexed
    BY <1>4, GotoMoves, TodoMoves DEF ListIndex
  <2>2. \A s \in indexed : Opened(s)'
    BY <1>1, <1>2 DEF StoredInv, sessionIndexKey
  <2> QED
    BY <2>1, <2>2 DEF InHand
<1>5. CASE ReadIndexed(r)
  <2>1. PICK s \in mem[r].todo : pc[r] = "index_get" /\
           Shows(r, s, IF sessions[s] = Absent THEN "index_repair" ELSE "index_get")
    BY <1>5 DEF ReadIndexed
  <2>2. s \in SessionIds /\ Opened(s) /\ mem[r].todo \subseteq SessionIds /\ \A t \in mem[r].todo : Opened(t)
    BY <1>1, <2>1 DEF InHand, StageOf, Stage
  <2>3. /\ pc'[r] = (IF sessions[s] = Absent THEN "index_repair" ELSE "index_get")
        /\ mem'[r].todo = mem[r].todo \ {s} /\ mem'[r].at = s
    BY <2>1, <2>2, ShowsMoves
  <2>4. sessions[s] = Absent => ~Kept(call[r].user, s)
    BY <1>1, <2>2 DEF StoredInv
  <2>5. \A t \in mem'[r].todo : Opened(t)'
    BY <1>2, <2>2, <2>3
  <2>6. Opened(s)' /\ (sessions[s] = Absent => ~Kept(call[r].user, s)')
    BY <1>2, <1>3, <2>2, <2>4
  <2> QED
    BY <1>1, <2>3, <2>5, <2>6 DEF InHand
<1>6. CASE RepairIndex(r)
  <2>1. pc[r] = "index_repair" /\ pc'[r] = "index_get" /\ mem' = mem
    BY <1>6, GotoMoves DEF RepairIndex
  <2>2. mem[r].todo \subseteq SessionIds /\ \A t \in mem[r].todo : Opened(t)
    BY <1>1, <2>1 DEF InHand, StageOf, Stage
  <2> QED
    BY <1>2, <2>1, <2>2 DEF InHand
<1>7. CASE ScanList(r) \/ HealIndex(r)
  <2>1. pc'[r] = "scan_get"
    BY <1>7, GotoMoves DEF ScanList, HealIndex
  <2> QED
    BY <2>1 DEF InHand
<1>8. CASE ReadScanned(r)
  <2>1. PICK s \in mem[r].todo : pc[r] = "scan_get" /\
           Shows(r, s, IF sessions[s] # Absent /\ sessions[s].user = call[r].user THEN "scan_heal" ELSE "scan_get")
    BY <1>8 DEF ReadScanned
  <2>2. s \in SessionIds
    BY <1>1, <2>1 DEF StageOf, Stage
  <2>3. /\ pc'[r] = (IF sessions[s] # Absent /\ sessions[s].user = call[r].user THEN "scan_heal" ELSE "scan_get")
        /\ mem'[r].at = s
    BY <2>1, <2>2, ShowsMoves
  <2>4. sessions[s] # Absent => Opened(s)'
    BY <1>1, <1>2, <2>2, OneOwner DEF StoredInv, OwnersRecord
  <2> QED
    BY <2>3, <2>4 DEF InHand
<1>9. CASE ShowDevices(r)
  <2>1. pc'[r] \in Left
    BY <1>9, RepliesMoves DEF ShowDevices, Answers
  <2> QED
    BY <2>1 DEF InHand, Left, Answers
<1> QED
  BY <1>4, <1>5, <1>6, <1>7, <1>8, <1>9 DEF SessionsOf

LEMMA HandNext ==
    ASSUME TypeInv, SeatInv, EndInv, ListInv, NEW r \in Requests, Step(r), NEW p \in Requests
    PROVE  InHand(p)'
<1>1. /\ StoredInv /\ InHand(p) /\ call' = call /\ StageOf(p) /\ UNCHANGED lapsed /\ call[p] \in Call
  BY StepFrame, StepTime, TypeParts DEF ListInv, given, time
<1>2. CASE p # r
  <2>1. /\ pc'[p] = pc[p] /\ mem'[p].rec = mem[p].rec /\ mem'[p].cred = mem[p].cred /\ mem'[p].ended = mem[p].ended
        /\ mem'[p].at = mem[p].at /\ mem'[p].todo = mem[p].todo
    BY <1>2, StepFrame, OthersKeep
  <2>2. /\ pc[p] \in RotatePcs => mem[p].cred.session \in SessionIds
        /\ pc[p] \in {"index_get", "index_repair"} => mem[p].todo \subseteq SessionIds
        /\ pc[p] \in {"fill_put", "scan_heal", "index_repair"} => mem[p].at \in SessionIds
        /\ pc[p] = "index_repair" => call[p].user \in Users
    BY <1>1, TypeParts, CallType DEF StageOf, Stage, Cred, ListPcs, WellFormed
  <2>3. ASSUME NEW s \in SessionIds, OwnersRecord(mem[p].rec, s) PROVE mem[p].rec # Absent => Rooted(s, mem[p].rec.user)'
    BY <2>1, <2>3, RootsKept DEF OwnersRecord
  <2>4. pc[p] \in {"rotate", "tombstone"} => OwnersRecord(mem[p].rec, mem[p].cred.session)'
    BY <1>1, <2>1, <2>2, <2>3 DEF InHand, OwnersRecord, RotatePcs
  <2>5. pc[p] = "fill_put" => OwnersRecord(mem[p].rec, mem[p].at)'
    BY <1>1, <2>1, <2>2, <2>3 DEF InHand, OwnersRecord
  <2>6. pc[p] = "index_repair" => ~Kept(call[p].user, mem[p].at)'
    <3> SUFFICES ASSUME NEW u, NEW s \in SessionIds, pc[p] = "index_repair", u = call[p].user, s = mem[p].at
                 PROVE  ~Kept(u, s)'
      BY <1>1, <2>1, <2>2
    <3> QED
      BY <1>1, KeptBefore DEF InHand
  <2>7. pc[p] \in {"scan_heal", "index_repair"} => Opened(mem[p].at)'
    BY <1>1, <2>1, <2>2, RootsKept DEF InHand
  <2>8. pc[p] \in {"index_get", "index_repair"} => \A s \in mem[p].todo : Opened(s)'
    BY <1>1, <2>2, RootsKept DEF InHand
  <2>9. pc[p] = "session_index" => SignedIn(p)'
    BY <1>1, RootsKept DEF InHand
  <2> QED
    BY <1>1, <2>1, <2>4, <2>5, <2>6, <2>7, <2>8, <2>9 DEF InHand
<1>3. CASE p = r
  <2>1. CASE pc'[r] \notin HandPcs
    BY <1>3, <2>1 DEF InHand, HandPcs
  <2>2. CASE SessionPut(r)
    <3>1. pc'[r] = "session_index" /\ SignedIn(r)'
      <4> DEFINE c == [session |-> call[r].session, secret |-> r]
      <4>1. mem'[r] = [mem[r] EXCEPT !.cred = c] /\ DOMAIN mem[r] = Fields /\ pc[r] = "session_put" /\ pc'[r] = "session_index"
        BY <2>2, GotoMoves, HoldsMoves, TypeParts, MemoryType DEF SessionPut
      <4>2. SignsIn(r)
        BY <1>1, <1>3, <4>1 DEF StageOf, Stage, SeatPcs, SignsIn, Is
      <4>3. c \in Cred /\ Absent \notin Cred
        BY <4>2, AuthAssumption, TypeParts, CallType DEF Cred, Secrets, SignsIn, Is, WellFormed
      <4> HIDE DEF c
      <4> QED
        BY <1>1, <4>1, <4>2, <4>3 DEF Fields, SignedIn, SignsIn, Is
    <3> QED
      BY <1>3, <3>1 DEF InHand
  <2>3. CASE BackfillSessions(r)
    <3>1. CASE FillRead(r)
      <4>1. PICK s \in SessionIds :
              /\ pc'[r] = (IF sessions[s] = Absent THEN "fill" ELSE "fill_put")
              /\ mem'[r].at = s /\ mem'[r].rec = sessions[s]
        BY <3>1, FillReadMoves
      <4>2. \A u : sessions[s] # Absent /\ sessions[s].user = u => Rooted(s, u)'
        BY <1>1, RootsKept DEF StoredInv, OwnersRecord
      <4>3. OwnersRecord(mem[r].rec, mem[r].at)'
        BY <4>1, <4>2 DEF OwnersRecord
      <4> QED
        BY <1>3, <4>1, <4>3 DEF InHand
    <3>2. CASE FillList(r) \/ FillPut(r)
      <4>1. pc'[r] = "fill"
        BY <3>2, GotoMoves DEF FillList, FillPut
      <4> QED
        BY <2>1, <4>1 DEF HandPcs
    <3>3. CASE FillEnd(r)
      <4>1. pc'[r] \in Left
        BY <3>3, RepliesMoves DEF FillEnd, Answers
      <4> QED
        BY <2>1, <4>1 DEF HandPcs, Left, Answers
    <3> QED
      BY <2>3, <3>1, <3>2, <3>3 DEF BackfillSessions
  <2>4. CASE StartEmail(r) \/ RedeemChallenge(r) \/ Parking(r) \/ ResolveIdentity(r) \/ SessionIndexed(r)
             \/ DeleteUserRecords(r) \/ OnDeviceStep(r) \/ Send(r)
    <3>1. SessionIndexed(r) => pc'[r] # "session_index"
      <4>1. SessionIndexed(r) => Goto(r, "session_index", "handoff_put") \/ Replies(r, "session_index", "200", mem[r])
        BY DEF SessionIndexed
      <4>2. "200" \in Answers /\ "session_index" \notin Left
        BY DEF Left, Answers
      <4>3. CASE Goto(r, "session_index", "handoff_put")
        BY <4>3, GotoMoves
      <4>4. CASE Replies(r, "session_index", "200", mem[r])
        <5>1. pc'[r] \in Left
          BY <4>2, <4>4, RepliesMoves
        <5> QED
          BY <4>2, <5>1
      <4> QED
        BY <4>1, <4>3, <4>4
    <3>2. pc'[r] \notin HandPcs
      BY <2>4, <3>1, StartMoves, CodeMoves, ParkMoves, PeopleMoves, SeatMoves, EraseMoves, OnDeviceMoves, SendMoves
         DEF HandPcs, StartPcs, SweepPcs, ConsumePcs, ConsumedPcs, RefundPcs, CodePcs, PeoplePcs, ErasePcs,
             Left, Answers, IssueTokens
    <3> QED
      BY <2>1, <3>2
  <2> QED
    BY <1>3, <2>2, <2>3, <2>4, StepCases, RotateHolds, EndHolds, ListHolds DEF IssueTokens
<1> QED
  BY <1>2, <1>3
(* The index of a session that is kept is kept too.                         *)
LEMMA IndexKept ==
    ASSUME TypeInv, ListInv, NEW r \in Requests, Step(r), NEW u \in Users, NEW s \in SessionIds,
           Kept(u, s), <<u, s>> \in sessionIndex
    PROVE  <<u, s>> \in sessionIndex'
<1>1. ~Drops(r, u, s)
  BY DEF Drops, ListInv, InHand, Kept, Spared
<1> QED
  BY <1>1, IndexEffect

LEMMA KeptRecord ==
    ASSUME TypeInv, ListInv, NEW u \in Users, NEW s \in SessionIds, Kept(u, s)
    PROVE  Presentable(sessions[s], u, s)
BY OneOwner DEF ListInv, StoredInv, OwnersRecord, Kept, Spared, Presentable

LEMMA IndexedNext ==
    ASSUME TypeInv, SeatInv, EndInv, ListInv, NEW r \in Requests, Step(r), NEW u \in Users, NEW s \in SessionIds
    PROVE  Indexed(u, s)'
<1>1. call' = call /\ seed' = seed /\ InHand(r) /\ Indexed(u, s)
  BY StepFrame DEF given, ListInv
<1> SUFFICES ASSUME Kept(u, s)', Complete(u), \A p \in Requests : Opens(p, s) => pc'[p] # "session_index"
             PROVE  <<u, s>> \in sessionIndex'
  BY <1>1 DEF Indexed, Complete, OpenAtStart, IndexedAtStart, Opens, SignsIn, Is
<1>2. Kept(u, s)
  <2>1. ~SessionPut(r) \/ ~Opens(r, s)
    BY GotoMoves DEF SessionPut
  <2> QED
    BY <2>1, KeptBefore
<1>3. CASE \E p \in Requests : Opens(p, s) /\ pc[p] = "session_index"
  <2>1. PICK p \in Requests : Opens(p, s) /\ pc[p] = "session_index"
    BY <1>3
  <2>2. p = r /\ pc[r] = "session_index" /\ Opens(r, s)
    BY <2>1, StepFrame, OthersKeep
  <2>3. SessionIndexed(r)
    BY <2>2, StepCases, StartMoves, CodeMoves, ParkMoves, PeopleMoves, RotateMoves, EndMoves, ListMoves, FillMoves,
       EraseMoves, OnDeviceMoves, SendMoves
       DEF IssueTokens, SessionPut, Goto, StartPcs, SweepPcs, ConsumePcs, ConsumedPcs, RefundPcs, CodePcs, TakePcs,
           BouncePcs, PeoplePcs, RotatePcs, EndPcs, ListPcs, FillPcs, ErasePcs, DevicePcs
  <2>4. Rooted(s, mem[r].user)
    BY <1>1, <2>2 DEF InHand, Rooted
  <2>5. mem[r].user = u
    BY <1>2, <2>4, OneOwner DEF Kept
  <2> QED
    BY <2>2, <2>3, <2>5, IndexEffect DEF Adds
<1>4. CASE \A p \in Requests : Opens(p, s) => pc[p] # "session_index"
  <2>1. <<u, s>> \in sessionIndex
    BY <1>1, <1>2, <1>4 DEF Indexed
  <2> QED
    BY <1>2, <2>1, IndexKept
<1> QED
  BY <1>3, <1>4

(* Who scans and indexes what it finds has done so, or will.                *)
LEMMA FilledKept ==
    ASSUME TypeInv, SeatInv, EndInv, ListInv, NoSignIn, NEW r \in Requests, Step(r), NEW p \in Requests,
           NEW u \in Users, Filled(p, u)
    PROVE  Filled(p, u)'
<1>1. call' = call /\ InHand(r) /\ StageOf(r)
  BY StepFrame, TypeParts DEF given, ListInv
<1> SUFFICES ASSUME NEW s \in SessionIds, Kept(u, s)' PROVE <<u, s>> \in sessionIndex' \/ Ahead(p, u, s)'
  BY DEF Filled
<1>2. Kept(u, s)
  BY KeptBefore DEF NoSignIn, Opens
<1>3. CASE <<u, s>> \in sessionIndex
  BY <1>2, <1>3, IndexKept
<1>4. CASE Ahead(p, u, s) /\ p # r
  <2>1. pc'[p] = pc[p] /\ mem'[p].todo = mem[p].todo /\ mem'[p].at = mem[p].at
    BY <1>4, StepFrame, OthersKeep
  <2> QED
    BY <1>1, <1>4, <2>1 DEF Ahead, Fills, Is
<1>5. CASE Ahead(p, u, s) /\ p = r
  <2>1. pc[r] \in ScanPcs /\ (Is(r, {"devices"}) => call[r].user = u)
        /\ (s \in mem[r].todo \/ (pc[r] \in {"scan_heal", "fill_put"} /\ mem[r].at = s))
    BY <1>5 DEF Ahead, Fills
  <2>2. sessions[s] # Absent /\ sessions[s].user = u
    BY <1>2, KeptRecord DEF Presentable
  <2>3. SessionsOf(r) \/ BackfillSessions(r)
    BY <2>1, StepCases, StartMoves, CodeMoves, ParkMoves, PeopleMoves, SeatMoves, RotateMoves, EndMoves,
       EraseMoves, OnDeviceMoves, SendMoves
       DEF ScanPcs, StartPcs, SweepPcs, ConsumePcs, ConsumedPcs, RefundPcs, CodePcs, TakePcs, SeatPcs,
           BouncePcs, PeoplePcs, RotatePcs, EndPcs, ErasePcs, DevicePcs
  <2>4. CASE ReadScanned(r)
    <3>1. PICK k \in mem[r].todo : pc[r] = "scan_get" /\
             Shows(r, k, IF sessions[k] # Absent /\ sessions[k].user = call[r].user THEN "scan_heal" ELSE "scan_get")
      BY <2>4 DEF ReadScanned
    <3>2. k \in SessionIds /\ Is(r, {"devices"})
      BY <1>1, <3>1 DEF StageOf, Stage, ListPcs, Is
    <3>3. /\ pc'[r] = (IF sessions[k] # Absent /\ sessions[k].user = call[r].user THEN "scan_heal" ELSE "scan_get")
          /\ mem'[r].todo = mem[r].todo \ {k} /\ mem'[r].at = k
      BY <3>1, <3>2, ShowsMoves
    <3>4. s \in mem[r].todo /\ call[r].user = u
      BY <2>1, <3>1, <3>2
    <3>5. pc'[r] \in ScanPcs /\ (s = k => pc'[r] = "scan_heal")
      BY <2>2, <3>3, <3>4 DEF ScanPcs
    <3> QED
      BY <1>1, <1>5, <3>3, <3>4, <3>5 DEF Ahead, Fills, Is
  <2>5. CASE HealIndex(r)
    <3>1. pc[r] = "scan_heal" /\ pc'[r] = "scan_get" /\ mem' = mem
      BY <2>5, GotoMoves DEF HealIndex
    <3>2. call[r].user = u
      BY <1>1, <2>1, <3>1 DEF StageOf, Stage, ListPcs, Is
    <3>3. CASE mem[r].at = s
      BY <3>1, <3>2, <3>3, IndexEffect DEF Adds
    <3>4. CASE s \in mem[r].todo
      BY <1>1, <1>5, <3>1, <3>2, <3>4 DEF Ahead, Fills, ScanPcs, Is
    <3> QED
      BY <2>1, <3>3, <3>4
  <2>6. CASE FillRead(r)
    <3>1. PICK k \in mem[r].todo :
              /\ pc[r] = "fill" /\ pc'[r] = (IF sessions[k] = Absent THEN "fill" ELSE "fill_put")
              /\ mem'[r].todo = mem[r].todo \ {k} /\ mem'[r].at = k
      BY <2>6, FillReadMoves
    <3>2. s \in mem[r].todo /\ pc'[r] \in ScanPcs /\ (s = k => pc'[r] = "fill_put")
      BY <2>1, <2>2, <3>1 DEF ScanPcs
    <3> QED
      BY <1>1, <1>5, <2>1, <3>1, <3>2 DEF Ahead, Fills, Is
  <2>7. CASE FillPut(r)
    <3>1. pc[r] = "fill_put" /\ pc'[r] = "fill" /\ mem' = mem
      BY <2>7, GotoMoves DEF FillPut
    <3>2. CASE mem[r].at = s
      <4>1. Rooted(s, mem[r].rec.user)
        BY <1>1, <3>1, <3>2, AuthAssumption DEF InHand, OwnersRecord, StageOf, Stage
      <4>2. mem[r].rec.user = u
        BY <1>2, <4>1, OneOwner DEF Kept
      <4> QED
        BY <3>1, <3>2, <4>2, IndexEffect DEF Adds
    <3>3. CASE s \in mem[r].todo
      BY <1>1, <1>5, <2>1, <3>1, <3>3 DEF Ahead, Fills, ScanPcs, Is
    <3> QED
      BY <2>1, <3>2, <3>3
  <2>8. ~ShowDevices(r) /\ ~FillEnd(r) /\ ~ListIndex(r) /\ ~ReadIndexed(r) /\ ~RepairIndex(r) /\ ~ScanList(r)
        /\ ~FillList(r)
    BY <2>1 DEF ScanPcs, ShowDevices, FillEnd, ListIndex, ReadIndexed, RepairIndex, ScanList, FillList, Replies, Goto
  <2> QED
    BY <2>3, <2>4, <2>5, <2>6, <2>7, <2>8 DEF SessionsOf, BackfillSessions
<1> QED
  BY <1>2, <1>3, <1>4, <1>5 DEF Filled

LEMMA FillNext ==
    ASSUME TypeInv, SeatInv, EndInv, ListInv, NEW r \in Requests, Step(r)
    PROVE  FillInv'
<1>1. call' = call /\ seed' = seed /\ StageOf(r)
  BY StepFrame, TypeParts DEF given
<1> SUFFICES ASSUME NoSignIn
             PROVE  /\ \A p \in Requests, u \in Users : Fills(p, u)' => Filled(p, u)'
                    /\ \A u \in Users : IndexedAtStart(u) = {} /\ Begun(u)'
                          => \E p \in Requests : pc'[p] # "send" /\ Filled(p, u)'
  BY <1>1 DEF FillInv, NoSignIn, SignsIn, Is, IndexedAtStart
<1>2. /\ \A p \in Requests, u \in Users : Fills(p, u) => Filled(p, u)
      /\ \A u \in Users : IndexedAtStart(u) = {} /\ Begun(u) => \E p \in Requests : pc[p] # "send" /\ Filled(p, u)
  BY DEF ListInv, FillInv
<1>3. ASSUME NEW p \in Requests, NEW u \in Users, Fills(p, u)' PROVE Filled(p, u)'
  <2>1. CASE Fills(p, u)
    BY <1>2, <2>1, FilledKept
  <2>2. CASE ScanList(r) \/ FillList(r)
    <3> DEFINE there == {s \in SessionIds : sessions[s] # Absent}
    <3>1. mem'[r].todo = there /\ pc[r] \notin ScanPcs
      BY <2>2, TodoMoves DEF ScanList, FillList, ScanPcs, Goto
    <3>2. CASE p # r
      <4>1. pc'[p] = pc[p]
        BY <3>2, StepFrame, OthersKeep
      <4> QED
        BY <1>1, <1>3, <2>1, <4>1 DEF Fills, Is
    <3>3. ASSUME NEW s \in SessionIds, Kept(u, s)', p = r PROVE Ahead(p, u, s)'
      <4>1. Kept(u, s)
        BY <3>3, KeptBefore DEF NoSignIn, Opens
      <4>2. s \in there
        BY <4>1, KeptRecord DEF Presentable
      <4> QED
        BY <1>3, <3>1, <3>3, <4>2 DEF Ahead
    <3> QED
      BY <3>2, <3>3 DEF Filled
  <2>3. CASE ~Fills(p, u) /\ ~ScanList(r) /\ ~FillList(r)
    <3>1. pc[p] \notin ScanPcs /\ pc'[p] \in ScanPcs
      BY <1>1, <1>3, <2>3 DEF Fills, Is
    <3>2. p = r
      BY <3>1, StepFrame, OthersKeep
    <3>3. SessionsOf(r) \/ BackfillSessions(r)
      BY <3>1, <3>2, StepCases, StartMoves, CodeMoves, ParkMoves, PeopleMoves, SeatMoves, RotateMoves, EndMoves,
         EraseMoves, OnDeviceMoves, SendMoves
         DEF ScanPcs, StartPcs, SweepPcs, ConsumePcs, ConsumedPcs, RefundPcs, CodePcs, PeoplePcs, RotatePcs,
             EndPcs, ErasePcs, Left, Answers
    <3>4. pc'[r] \notin ScanPcs
      <4>1. CASE ShowDevices(r) \/ FillEnd(r)
        BY <4>1, <3>1, <3>2, RepliesMoves DEF ShowDevices, FillEnd, Left, Answers, ScanPcs
      <4>2. CASE ListIndex(r) \/ RepairIndex(r)
        BY <4>2, GotoMoves DEF ListIndex, RepairIndex, ScanPcs
      <4>3. CASE ReadIndexed(r)
        BY <4>3, GotoMoves DEF ReadIndexed, Shows, ScanPcs
      <4>4. ~ReadScanned(r) /\ ~HealIndex(r) /\ ~FillRead(r) /\ ~FillPut(r)
        BY <3>1, <3>2 DEF ReadScanned, HealIndex, FillRead, FillPut, Goto, ScanPcs
      <4> QED
        BY <2>3, <3>3, <4>1, <4>2, <4>3, <4>4 DEF SessionsOf, BackfillSessions
    <3> QED
      BY <3>1, <3>2, <3>4
  <2> QED
    BY <2>1, <2>2, <2>3
<1>4. ASSUME NEW u \in Users, IndexedAtStart(u) = {}, Begun(u)'
      PROVE  \E p \in Requests : pc'[p] # "send" /\ Filled(p, u)'
  <2>1. CASE Begun(u)
    <3>1. PICK p \in Requests : pc[p] # "send" /\ Filled(p, u)
      BY <1>2, <1>4, <2>1
    <3>2. pc'[p] # "send"
      BY <3>1, StepFrame, OthersKeep
    <3> QED
      BY <3>1, <3>2, FilledKept
  <2>2. CASE ~Begun(u)
    <3>1. PICK s \in SessionIds : <<u, s>> \in sessionIndex' /\ <<u, s>> \notin sessionIndex
      BY <1>4, <2>2 DEF Begun
    <3>2. Adds(r, u, s) /\ ~Opens(r, s)
      BY <3>1, IndexEffect DEF NoSignIn, Opens
    <3>3. Fills(r, u)
      <4>1. CASE pc[r] = "scan_heal" /\ u = call[r].user
        BY <4>1 DEF Fills, ScanPcs
      <4>2. CASE pc[r] = "fill_put"
        BY <1>1, <4>2 DEF Fills, ScanPcs, StageOf, Stage, FillPcs, Is
      <4> QED
        BY <3>2, <4>1, <4>2 DEF Adds
    <3> QED
      BY <1>2, <3>3, FilledKept, StepFrame
  <2> QED
    BY <2>1, <2>2
<1> QED
  BY <1>3, <1>4
(* A list that is under way loses nothing of what it is to show.            *)
LEMMA AwaitedBefore ==
    ASSUME TypeInv, InOrder, SeatInv, EndInv, NEW r \in Requests, Step(r), NEW q \in Requests, NEW s \in SessionIds,
           Awaited(q, s)', pc'[q] # "send"
    PROVE  Awaited(q, s)
<1>1. call' = call /\ seed' = seed
  BY StepFrame DEF given
<1>2. /\ Is(q, {"devices"}) /\ Kept(call[q].user, s)' /\ \A p \in Requests : Opens(p, s) => p \in call[q].after
      /\ \/ Complete(call[q].user)
         \/ IndexedAtStart(call[q].user) = {} /\ NoSignIn /\ \A p \in Requests : ~Overlap(p, q)
  BY <1>1 DEF Awaited, Opens, SignsIn, Is, Complete, OpenAtStart, IndexedAtStart, NoSignIn, Overlap
<1>3. ~SessionPut(r) \/ ~Opens(r, s)
  <2> SUFFICES ASSUME SessionPut(r), Opens(r, s) PROVE FALSE
    OBVIOUS
  <2>1. r \in call[q].after
    BY <1>2
  <2>2. pc[r] = "session_put"
    BY DEF SessionPut, Goto
  <2>3. pc[q] # "send"
    BY <2>2, StepFrame, OthersKeep, GotoMoves DEF SessionPut
  <2> QED
    BY <2>1, <2>2, <2>3 DEF InOrder, Answers
<1>4. Kept(call[q].user, s)
  <2> DEFINE u == call[q].user
  <2>1. PICK v : v = u
    OBVIOUS
  <2>2. Kept(v, s)'
    BY <1>1, <1>2, <2>1
  <2> QED
    BY <1>3, <2>1, <2>2, KeptBefore
<1> QED
  BY <1>2, <1>4 DEF Awaited

LEMMA ListIndexFinds ==
    ASSUME TypeInv, InOrder, ListInv, NEW q \in Requests, ListIndex(q), NEW s \in SessionIds, Awaited(q, s)
    PROVE  Finds(q, s)'
<1> DEFINE u == call[q].user
           indexed == {t \in SessionIds : sessionIndexKey(u, t) \in sessionIndex}
<1>1. /\ pc[q] = "index_list" /\ pc'[q] = (IF indexed = {} THEN "scan_list" ELSE "index_get")
      /\ mem'[q].todo = indexed
  BY GotoMoves, TodoMoves DEF ListIndex
<1>2. u \in Users /\ Kept(u, s)
  BY TypeParts, CallType DEF Awaited, WellFormed, Is
<1>3. CASE indexed = {}
  BY <1>1, <1>3 DEF Finds
<1>4. CASE indexed # {}
  <2>1. <<u, s>> \in sessionIndex
    <3>1. CASE Complete(u)
      <4>1. \A p \in Requests : Opens(p, s) => pc[p] # "session_index"
        BY <1>1 DEF Awaited, InOrder, Answers
      <4> QED
        BY <1>2, <3>1, <4>1 DEF ListInv, Indexed
    <3>2. CASE IndexedAtStart(u) = {} /\ NoSignIn /\ \A p \in Requests : ~Overlap(p, q)
      <4>1. Begun(u)
        BY <1>4 DEF Begun, sessionIndexKey
      <4>2. PICK p \in Requests : pc[p] # "send" /\ Filled(p, u)
        BY <1>2, <3>2, <4>1 DEF ListInv, FillInv
      <4>3. pc[p] \notin ScanPcs
        <5>1. p = q \/ p \in call[q].after \/ q \in call[p].after
          BY <3>2 DEF Overlap
        <5> QED
          BY <1>1, <4>2, <5>1 DEF InOrder, Answers, ScanPcs
      <4> QED
        BY <1>2, <4>2, <4>3 DEF Filled, Ahead, Fills
    <3> QED
      BY <3>1, <3>2 DEF Awaited
  <2>2. s \in indexed
    BY <2>1 DEF sessionIndexKey
  <2> QED
    BY <1>1, <1>4, <2>2 DEF Finds
<1> QED
  BY <1>3, <1>4

LEMMA FindsNext ==
    ASSUME TypeInv, InOrder, SeatInv, EndInv, ListInv, NEW r \in Requests, Step(r), NEW q \in Requests,
           NEW s \in SessionIds, Awaited(q, s)'
    PROVE  Finds(q, s)'
<1>1. CASE pc'[q] = "send"
  BY <1>1 DEF Finds
<1> SUFFICES ASSUME pc'[q] # "send" PROVE Finds(q, s)'
  BY <1>1
<1> DEFINE u == call[q].user
<1>2. Awaited(q, s) /\ Finds(q, s) /\ StageOf(q) /\ Is(q, {"devices"}) /\ call[q] \in Call
  BY AwaitedBefore, TypeParts DEF ListInv, Awaited
<1>3. u \in Users /\ Kept(u, s)
  BY <1>2, TypeParts, CallType DEF Awaited, WellFormed, Is
<1>4. Presentable(sessions[s], u, s)
  BY <1>3, KeptRecord
<1>5. CASE q # r
  <2>1. pc'[q] = pc[q] /\ mem'[q].todo = mem[q].todo /\ mem'[q].shown = mem[q].shown
    BY <1>5, StepFrame, OthersKeep
  <2> QED
    BY <1>2, <2>1 DEF Finds
<1>6. CASE q = r /\ Send(r)
  BY <1>2, <1>6, GotoMoves DEF Send, FirstStep, Is, Finds
<1>7. CASE q = r /\ OnDeviceStep(r)
  <2>1. pc[r] \in DevicePcs \cup {"rotate_get", "end_get"} /\ mem'[r].shown = mem[r].shown
    BY <1>7, OnDeviceMoves, DeviceChanges DEF Changes, Fields
  <2> QED
    BY <1>2, <1>7, <2>1 DEF Finds, DevicePcs
<1>8. CASE q = r /\ SessionsOf(r)
  <2>1. CASE ListIndex(r)
    BY <1>2, <1>8, <2>1, ListIndexFinds
  <2>2. ASSUME NEW at \in {"index_get", "scan_get"}, NEW to \in {"index_get", "index_repair", "scan_get", "scan_heal"},
               NEW k \in mem[r].todo, pc[r] = at, Shows(r, k, to)
        PROVE  Finds(q, s)'
    <3>1. k \in SessionIds
      BY <1>2, <1>8, <2>2 DEF StageOf, Stage
    <3>2. /\ pc'[r] = to /\ mem'[r].todo = mem[r].todo \ {k}
          /\ mem'[r].shown = mem[r].shown \cup (IF Presentable(sessions[k], call[r].user, k) THEN {k} ELSE {})
      BY <2>2, <3>1, ShowsMoves
    <3>3. s \in mem[r].shown \/ s \in mem[r].todo
      BY <1>2, <1>8, <2>2 DEF Finds
    <3> QED
      BY <1>4, <1>8, <3>2, <3>3 DEF Finds
  <2>3. CASE ReadIndexed(r)
    <3>1. PICK k \in mem[r].todo : pc[r] = "index_get" /\
             Shows(r, k, IF sessions[k] = Absent THEN "index_repair" ELSE "index_get")
      BY <2>3 DEF ReadIndexed
    <3> QED
      BY <2>2, <3>1
  <2>4. CASE ReadScanned(r)
    <3>1. PICK k \in mem[r].todo : pc[r] = "scan_get" /\
             Shows(r, k, IF sessions[k] # Absent /\ sessions[k].user = call[r].user THEN "scan_heal" ELSE "scan_get")
      BY <2>4 DEF ReadScanned
    <3> QED
      BY <2>2, <3>1
  <2>5. CASE RepairIndex(r) \/ HealIndex(r)
    <3>1. pc[r] \in {"index_repair", "scan_heal"} /\ pc'[r] \in {"index_get", "scan_get"} /\ mem' = mem
      BY <2>5, GotoMoves DEF RepairIndex, HealIndex
    <3> QED
      BY <1>2, <1>8, <3>1 DEF Finds
  <2>6. CASE ScanList(r)
    <3> DEFINE there == {t \in SessionIds : sessions[t] # Absent}
    <3>1. pc'[r] = "scan_get" /\ mem'[r].todo = there
      BY <2>6, GotoMoves, TodoMoves DEF ScanList
    <3>2. s \in there
      BY <1>4 DEF Presentable
    <3> QED
      BY <1>8, <3>1, <3>2 DEF Finds
  <2>7. CASE ShowDevices(r)
    <3>1. mem[r].todo = {} /\ pc[r] \in {"index_get", "scan_get"} /\ mem'[r].shown = mem[r].shown
      BY <2>7, PlainRepliesChanges DEF ShowDevices, Changes, Fields
    <3> QED
      BY <1>2, <1>8, <3>1 DEF Finds
  <2> QED
    BY <1>8, <2>1, <2>3, <2>4, <2>5, <2>6, <2>7 DEF SessionsOf
<1>9. q = r => Send(r) \/ OnDeviceStep(r) \/ SessionsOf(r)
  BY <1>2, StepCases, StartMoves, CodeMoves, ParkMoves, PeopleMoves, SeatMoves, RotateMoves, EndMoves, FillMoves,
     EraseMoves DEF StageOf, Stage, Is
<1> QED
  BY <1>5, <1>6, <1>7, <1>8, <1>9

LEMMA ListNext == TypeInv /\ InOrder /\ SeatInv /\ EndInv /\ ListInv /\ [Next]_vars => ListInv'
<1> SUFFICES ASSUME TypeInv, InOrder, SeatInv, EndInv, ListInv, [Next]_vars PROVE ListInv'
  OBVIOUS
<1>1. CASE Idle
  <2>1. /\ call' = call /\ seed' = seed /\ pc' = pc /\ mem' = mem /\ sessions' = sessions
        /\ sessionIndex' = sessionIndex /\ lapsed \subseteq lapsed'
    BY <1>1 DEF Idle, given, seats
  <2>2. \A s, u : Rooted(s, u)' = Rooted(s, u) /\ (Kept(u, s)' => Kept(u, s))
    BY <2>1 DEF Rooted, Opens, SignedIn, SignsIn, Is, Kept, Spared
  <2>3. \A s : Opened(s)' = Opened(s)
    BY <2>1 DEF Opened, Opens, SignedIn, SignsIn, Is
  <2>4. StoredInv'
    BY <2>1, <2>2, <2>3 DEF ListInv, StoredInv, OwnersRecord
  <2>5. ASSUME NEW p \in Requests PROVE InHand(p)'
    <3>1. InHand(p) /\ SignedIn(p)' = SignedIn(p)
      BY <2>1 DEF ListInv, SignedIn, SignsIn, Is
    <3> QED
      BY <2>1, <2>2, <2>3, <3>1 DEF InHand, OwnersRecord
  <2>6. \A u \in Users, s \in SessionIds : Indexed(u, s)'
    BY <2>1, <2>2 DEF ListInv, Indexed, Complete, OpenAtStart, IndexedAtStart, Opens, SignsIn, Is
  <2>7. \A p \in Requests, u \in Users : Filled(p, u) => Filled(p, u)'
    BY <2>1, <2>2 DEF Filled, Ahead, Fills, Is
  <2>8. FillInv'
    BY <2>1, <2>7 DEF ListInv, FillInv, NoSignIn, SignsIn, Is, Fills, Begun, IndexedAtStart
  <2>9. \A q \in Requests, s \in SessionIds : Awaited(q, s)' => Awaited(q, s)
    BY <2>1, <2>2 DEF Awaited, Complete, OpenAtStart, IndexedAtStart, Opens, NoSignIn, SignsIn, Is, Overlap
  <2>10. \A q \in Requests, s \in SessionIds : Awaited(q, s)' => Finds(q, s)'
    BY <2>1, <2>9 DEF ListInv, Finds
  <2> QED
    BY <2>4, <2>5, <2>6, <2>8, <2>10 DEF ListInv
<1>2. ASSUME NEW r \in Requests, Step(r) PROVE ListInv'
  BY <1>2, StoredNext, HandNext, IndexedNext, FillNext, FindsNext DEF ListInv
<1> QED
  BY <1>1, <1>2, NextCases

LEMMA ListInvariant == Spec => [](TypeInv /\ InOrder /\ SeatInv /\ EndInv /\ ListInv)
BY EndInvariant, SeatInit, SeatNext, ListInit, ListNext, PTL DEF Spec, Init

(* The list of devices shows every session of its user that was there all   *)
(* the while: sessionsOf follows an index that createSession completes and  *)
(* that loses a key only with its session, or scans, and of those who scan  *)
(* and index at once each finishes what it began.                           *)
THEOREM EveryDeviceListed == Spec => []DevicesListed
<1>1. TypeInv /\ ListInv => DevicesListed
  <2> SUFFICES ASSUME TypeInv, ListInv, NEW q \in Requests, NEW s \in SessionIds,
                      Is(q, {"devices"}), pc[q] = "200",
                      sessions[s] # Absent, sessions[s].user = call[q].user, s \notin lapsed,
                      \A p \in Requests : ~Ends(p, s) /\ (Opens(p, s) => p \in call[q].after),
                      \/ OpenAtStart(call[q].user) \subseteq IndexedAtStart(call[q].user)
                      \/ /\ IndexedAtStart(call[q].user) = {}
                         /\ \A p \in Requests : ~Overlap(p, q) /\ ~SignsIn(p)
               PROVE  s \in mem[q].shown
    BY DEF DevicesListed
  <2>1. Rooted(s, call[q].user)
    BY DEF ListInv, StoredInv, OwnersRecord
  <2>2. Spared(call[q].user, s)
    BY DEF Spared, Ends, EndedBy, Is
  <2>3. Awaited(q, s)
    BY <2>1, <2>2 DEF Awaited, Kept, Complete, NoSignIn
  <2> QED
    BY <2>3 DEF ListInv, Finds
<1> QED
  BY <1>1, ListInvariant, PTL

-----------------------------------------------------------------------------
(* What is issued to a sign-in, and the hand-off it is parked under.        *)
IssuedBy(p) == [session |-> call[p].session, secret |-> p]
HandsOver(p, k) == Is(p, {"redirect"}) /\ call[p].parks = k /\ SignedIn(p)

(* What a hand-off gives is what was issued to the sign-in that parked it.  *)
HandInv ==
    /\ \A p \in Requests : SignedIn(p) => mem[p].cred = IssuedBy(p)
    /\ \A k \in Handoffs : codes[k] # Absent => \E p \in Requests : HandsOver(p, k) /\ codes[k].gives = IssuedBy(p)
    /\ \A q \in Requests : Is(q, {"collect"}) /\ pc[q] \in {"take_delete", "taken"} =>
         \E p \in Requests : HandsOver(p, call[q].code) /\ mem[q].code.gives = IssuedBy(p)
    /\ \A q \in Requests : Is(q, {"collect"}) /\ mem[q].answer = "200" =>
         \E p \in Requests : HandsOver(p, call[q].code) /\ mem[q].cred = IssuedBy(p)
    /\ \A q \in Requests : Is(q, {"callback"}) /\ (mem[q].answer = "200" \/ pc[q] = "session_index") => SignedIn(q)
    /\ \A q \in Requests : Is(q, {"redirect"}) /\ pc[q] \in {"session_index", "handoff_put"} => SignedIn(q)

(* Whose a token is: the device's that had its session at the start, or     *)
(* whose sign-in was answered with it.                                      *)
Ours(d) == {r \in Requests : call[r].device = d}
Wins(q, s) == Is(q, {"callback", "collect"}) /\ mem[q].answer = "200" /\ mem[q].cred.session = s
Holder(d, s) ==
    \/ seed.device[d].tokens # Absent /\ seed.device[d].tokens.session = s
    \/ \E q \in Ours(d) : Wins(q, s) /\ pc[q] \in {"persist", "settle"} \cup Answers
Unheld(s) == \A d \in Devices : ~Holder(d, s)

(* The hand-off of a session is not collected twice at once.                *)
Solo(s) == \A p \in Requests : Is(p, {"redirect"}) /\ call[p].session = s => Apart(call[p].parks)

(* Nobody has a token but its holder: memory, store, and what a request is  *)
(* about to present.                                                        *)
HoldInv ==
    /\ \A d \in Devices : /\ device[d].tokens # Absent => Holder(d, device[d].tokens.session)
                          /\ device[d].stored # Absent => Holder(d, device[d].stored.session)
    /\ \A r \in Requests : Is(r, {"use", "signout"}) /\ mem[r].cred # Absent =>
         Holder(call[r].device, mem[r].cred.session)
    /\ \A r \in Requests : Is(r, {"refresh", "revoke"}) /\ mem[r].cred # Absent =>
         mem[r].cred.session = call[r].session
    /\ \A r \in Requests : pc[r] = "persist" => Adopts(r)
    /\ \A r \in Requests : mem[r].lost =>
         pc[r] \in {"back", "persist", "clear", "settle"} \cup EndPcs \cup Answers

(* A steady device that nobody signs out.  Of its requests one refreshes,   *)
(* from the read to the new tokens in the store, or was refused and signs   *)
(* the device out.                                                          *)
Calm(d) == Steady(d) /\ \A p \in Requests : ~Is(p, {"signout"})
Rotating(r) ==
    Is(r, {"use"}) /\ (pc[r] \in RotatePcs \cup {"persist"} \/ (pc[r] = "back" /\ mem[r].answer # "204"))
Leaving(r) ==
    Is(r, {"use"}) /\ (pc[r] \in EndPcs \cup {"clear"} \/ (pc[r] = "back" /\ mem[r].answer = "204"))

InFlightOK(d, r) ==
    /\ r \in Ours(d) /\ Is(r, {"use"}) /\ (Rotating(r) \/ pc[r] = "settle") /\ device[d].tokens # Absent
    /\ Rotating(r) => mem[r].cred # Absent /\ mem[r].cred.session = device[d].tokens.session
    /\ pc[r] \in RotatePcs => mem[r].cred = device[d].tokens
    /\ pc[r] = "back" /\ mem[r].answer = "200" => mem[r].cred.secret = r
    /\ pc[r] = "back" => mem[r].answer \in {"200", "401"}
Placed(d, r) ==
    /\ Rotating(r) => device[d].refreshing = r
    /\ Leaving(r) => device[d].tokens = Absent /\ device[d].refreshing = Absent
    /\ Is(r, {"use"}) /\ pc[r] = "settle" =>
         device[d].refreshing = r \/ (device[d].tokens = Absent /\ device[d].refreshing = Absent)
    /\ pc[r] = "persist" => device[d].tokens # Absent /\ device[d].tokens = mem[r].cred
Tidy(d) ==
    /\ \A r \in Ours(d) : Placed(d, r)
    /\ device[d].refreshing # Absent => InFlightOK(d, device[d].refreshing)
    /\ (\A r \in Ours(d) : pc[r] \notin {"persist", "clear"}) => device[d].stored = device[d].tokens
TidyInv == \A d \in Devices : Calm(d) => Tidy(d)

(* The token the server will take next: that of the device, or of the       *)
(* request that refreshes, from its write on.                               *)
Live(s, x) == sessions[s] # Absent /\ sessions[s].secret = x /\ ~sessions[s].ended
Current(d) ==
    LET r == device[d].refreshing
        t == device[d].tokens
    IN  t # Absent /\ Undisturbed(t.session) =>
            /\ r = Absent \/ pc[r] \in {"rotate_get", "rotate", "persist", "settle"} => Live(t.session, t.secret)
            /\ r # Absent /\ pc[r] = "rotate" => ~mem[r].rec.ended
            /\ r # Absent /\ (pc[r] = "rotated_user" \/ (pc[r] = "back" /\ mem[r].answer = "200")) => Live(t.session, r)
LiveInv ==
    /\ \A p \in Requests : SignedIn(p) /\ Undisturbed(call[p].session) /\ Unheld(call[p].session)
         => Live(call[p].session, p)
    /\ \A d \in Devices : Calm(d) => Current(d)

LEMMA ReplyAnswers ==
    ASSUME TypeInv, NEW r \in Requests, NEW from, NEW a, NEW m, Replies(r, from, a, m), DOMAIN m = Fields
    PROVE  mem'[r].answer = a
<1> DEFINE n == [m EXCEPT !.answer = a]
<1>1. mem'[r] = n
  BY HoldsMoves DEF Replies
<1>2. n.answer = a
  BY DEF Fields
<1> HIDE DEF n
<1> QED
  BY <1>1, <1>2

(* Where what a request holds as its token comes from.                      *)
LEMMA CredEffect ==
    ASSUME TypeInv, NEW r \in Requests, Step(r)
    PROVE  \/ mem'[r].cred = mem[r].cred
           \/ SessionPut(r) /\ mem'[r].cred = IssuedBy(r)
           \/ Is(r, {"collect"}) /\ pc[r] = "taken" /\ mem'[r].cred = mem[r].code.gives
           \/ pc[r] = "rotated_user" /\ mem[r].cred \in Cred /\ mem'[r].cred = [mem[r].cred EXCEPT !.secret = r]
           \/ (UseToken(r) \/ SignOut(r)) /\ mem'[r].cred = device[call[r].device].tokens
           \/ pc[r] = "send" /\ mem'[r].cred =
                IF Is(r, {"refresh", "revoke"}) THEN [session |-> call[r].session, secret |-> call[r].secret] ELSE Absent
<1>1. mem[r] \in Memory /\ DOMAIN mem[r] = Fields /\ StageOf(r)
  BY TypeParts, MemoryType
<1>2. ASSUME NEW F \in SUBSET (Fields \ {"cred"}), Changes(r, F) PROVE mem'[r].cred = mem[r].cred
  BY <1>2 DEF Changes, Fields
<1>3. ASSUME NEW c, mem'[r] = [mem[r] EXCEPT !.cred = c] PROVE mem'[r].cred = c
  BY <1>1, <1>3 DEF Fields
<1>4. CASE StartEmail(r) \/ RedeemChallenge(r) \/ ResolveIdentity(r)
  <2>1. Changes(r, StartFields \cup {"code", "user"})
    BY <1>4, StartChanges, CodeChanges, PeopleChanges, ChangesMore DEF StartFields
  <2> QED
    BY <1>2, <2>1 DEF StartFields, Fields
<1>5. CASE Parking(r)
  <2>1. CASE Taken(r)
    <3> DEFINE c == mem[r].code.gives
               m == [mem[r] EXCEPT !.cred = c]
    <3>1. pc[r] = "taken"
      BY <2>1 DEF Taken, Replies, Goto
    <3>2. \/ Replies(r, "taken", Refused(r), mem[r]) \/ UNCHANGED mem
          \/ Is(r, {"collect"}) /\ Replies(r, "taken", "200", m)
      BY <2>1 DEF Taken
    <3> HIDE DEF c
    <3>3. m.cred = c /\ DOMAIN m = Fields
      BY <1>1 DEF Fields
    <3> HIDE DEF m
    <3>4. ASSUME Replies(r, "taken", "200", m) PROVE mem'[r].cred = c
      <4>1. mem'[r] = [m EXCEPT !.answer = "200"]
        BY <3>4, HoldsMoves DEF Replies
      <4> QED
        BY <3>3, <4>1 DEF Fields
    <3>5. Replies(r, "taken", Refused(r), mem[r]) => mem'[r].cred = mem[r].cred
      BY <1>2, PlainRepliesChanges DEF Fields
    <3> QED
      BY <3>1, <3>2, <3>4, <3>5 DEF c
  <2>2. CASE TakeGet(r)
    <3> DEFINE rec == codes[call[r].code]
               m == [mem[r] EXCEPT !.code = rec]
    <3>1. Replies(r, "take_get", Refused(r), m) \/ Holds(r, m)
      BY <2>2 DEF TakeGet
    <3> HIDE DEF rec
    <3>2. (\A f \in Fields \ {"code"} : m[f] = mem[r][f]) /\ DOMAIN m = Fields
      BY <1>1
    <3> HIDE DEF m
    <3>3. Changes(r, {"code"}) \/ Changes(r, {"code"} \cup {"answer"})
      BY <3>1, <3>2, HoldsChanges, RepliesChanges
    <3> QED
      BY <1>2, <3>3 DEF Fields
  <2>3. CASE Parked(r) \/ Bounce(r)
    BY <1>2, <2>3, PlainRepliesChanges DEF Parked, Bounce, Fields
  <2> QED
    BY <1>5, <2>1, <2>2, <2>3 DEF Parking, Park, TakeDelete, HandoffPut
<1>6. CASE IssueTokens(r)
  <2>1. CASE SessionPut(r)
    <3> DEFINE c == [session |-> call[r].session, secret |-> r]
    <3>1. mem'[r] = [mem[r] EXCEPT !.cred = c]
      BY <2>1, HoldsMoves DEF SessionPut
    <3> HIDE DEF c
    <3>2. mem'[r].cred = c
      BY <1>3, <3>1
    <3> QED
      BY <2>1, <3>2 DEF c, IssuedBy
  <2>2. CASE SessionIndexed(r)
    BY <1>2, <2>2, PlainRepliesChanges DEF SessionIndexed, Fields
  <2> QED
    BY <1>6, <2>1, <2>2 DEF IssueTokens
<1>7. CASE RotateSession(r)
  <2>1. CASE RotateGet(r)
    <3> DEFINE s == Presented(r).session
               rec == sessions[s]
               verdict == RotateVerdict(r, rec)
               replayed == Replays(r, rec)
               m == [mem[r] EXCEPT !.rec = rec, !.presented = s, !.replayed = replayed]
               F == {"rec", "presented", "replayed"}
    <3>1. Replies(r, "rotate_get", verdict, m) \/ Holds(r, m)
      BY <2>1 DEF RotateGet
    <3> HIDE DEF s, rec, verdict, replayed
    <3>2. (\A f \in Fields \ F : m[f] = mem[r][f]) /\ DOMAIN m = Fields
      BY <1>1
    <3> HIDE DEF m
    <3>3. Changes(r, F) \/ Changes(r, F \cup {"answer"})
      BY <3>1, <3>2, HoldsChanges, RepliesChanges
    <3> QED
      BY <1>2, <3>3 DEF Fields
  <2>2. CASE RotatedUser(r)
    <3>1. pc[r] = "rotated_user" /\ mem[r].cred \in Cred
      BY <1>1, <2>2 DEF RotatedUser, StageOf, Stage, RotatePcs
    <3>2. PICK answer : Replies(r, "rotated_user", answer, [mem[r] EXCEPT !.cred.secret = r, !.lost = answer = "500"])
      BY <2>2 DEF RotatedUser
    <3> DEFINE c == [mem[r].cred EXCEPT !.secret = r]
               lost == answer = "500"
               m == [mem[r] EXCEPT !.cred = c, !.lost = lost]
    <3>3. Replies(r, "rotated_user", answer, m)
      BY <1>1, <3>2 DEF Fields
    <3> HIDE DEF c, lost
    <3>4. m.cred = c /\ DOMAIN m = Fields
      BY <1>1 DEF Fields
    <3>5. mem'[r] = [m EXCEPT !.answer = answer]
      BY <3>3, HoldsMoves DEF Replies
    <3> HIDE DEF m
    <3>6. mem'[r].cred = c
      BY <3>4, <3>5 DEF Fields
    <3> QED
      BY <3>1, <3>6 DEF c
  <2>3. CASE ExpireIndex(r) \/ Tombstone(r)
    BY <1>2, <2>3, PlainRepliesChanges DEF ExpireIndex, Tombstone, Fields
  <2> QED
    BY <1>7, <2>1, <2>2, <2>3 DEF RotateSession, Expire, Rotate
<1>8. CASE EndSessionOwnedBy(r) \/ SessionsOf(r) \/ BackfillSessions(r) \/ DeleteUserRecords(r)
  <2>1. Changes(r, Fields \ {"cred"})
    BY <1>8, EndChanges, ListChanges, FillChanges, EraseChanges, ChangesMore DEF Fields
  <2> QED
    BY <1>2, <2>1
<1>9. CASE OnDeviceStep(r)
  <2>1. ASSUME NEW c, Holds(r, [mem[r] EXCEPT !.cred = c]) PROVE mem'[r].cred = c
    <3>1. mem'[r] = [mem[r] EXCEPT !.cred = c]
      BY <2>1, HoldsMoves
    <3> QED
      BY <1>3, <3>1
  <2>2. CASE SignOut(r)
    BY <2>1, <2>2 DEF SignOut, Of
  <2>3. CASE UseToken(r)
    <3>1. \/ UNCHANGED mem \/ Holds(r, [mem[r] EXCEPT !.cred = Of(r).tokens])
          \/ \E x : mem'[r] = [mem[r] EXCEPT !.waits = x]
      BY <2>3, HoldsMoves DEF UseToken
    <3>2. ASSUME NEW x, mem'[r] = [mem[r] EXCEPT !.waits = x] PROVE mem'[r].cred = mem[r].cred
      BY <1>1, <3>2 DEF Fields
    <3> QED
      BY <2>1, <2>3, <3>1, <3>2 DEF Of
  <2>4. CASE LoseRequest(r) \/ LoseAnswer(r)
    <3> DEFINE yes == TRUE
    <3>1. \/ mem'[r] = [mem[r] EXCEPT !.answer = "null"]
          \/ mem'[r] = [mem[r] EXCEPT !.answer = "null", !.lost = yes]
      BY <2>4, HoldsMoves DEF LoseRequest, LoseAnswer
    <3> HIDE DEF yes
    <3> QED
      BY <1>1, <3>1 DEF Fields
  <2>5. CASE Restart(r)
    BY <2>5 DEF Restart
  <2> QED
    BY <1>9, <2>2, <2>3, <2>4, <2>5 DEF OnDeviceStep, Joined, Adopt, Persist, Clear, Report, Settle, Abandoned
<1>10. CASE Send(r)
  <2> DEFINE c == IF Is(r, {"refresh", "revoke"}) THEN [session |-> call[r].session, secret |-> call[r].secret]
                  ELSE Absent
  <2>1. mem'[r] = [mem[r] EXCEPT !.cred = c] /\ pc[r] = "send"
    BY <1>10, HoldsMoves DEF Send, Goto
  <2> HIDE DEF c
  <2>2. mem'[r].cred = c
    BY <1>3, <2>1
  <2> QED
    BY <2>1, <2>2 DEF c
<1> QED
  BY <1>4, <1>5, <1>6, <1>7, <1>8, <1>9, <1>10, StepCases

(* A hand-off is stored by the redirect that drew it, and only deleted.     *)
LEMMA HandoffEffect ==
    ASSUME TypeInv, NEW r \in Requests, Step(r), NEW k \in Handoffs
    PROVE  \/ codes'[k] \in {codes[k], Absent}
           \/ /\ Is(r, {"redirect"}) /\ pc[r] = "handoff_put" /\ call[r].parks = k
              /\ codes'[k].gives = mem[r].cred
<1>1. /\ codes \in [Codes -> CodeRec \cup {Absent}] /\ StageOf(r) /\ WellFormed(call[r]) /\ k \in Codes
      /\ Challenges \cap Handoffs = {} /\ Authorizations \cap (Challenges \cup Handoffs) = {}
  BY TypeParts, AuthAssumption DEF StoresOK, Codes
<1>2. ASSUME NEW from, NEW to, NEW j, NEW rec, PutCode(r, from, to, j, rec)
      PROVE  /\ pc[r] = from /\ codes'[k] \in {codes[k], rec} /\ (codes'[k] = codes[k] \/ j = k)
  BY <1>1, <1>2 DEF PutCode, Goto
<1>3. CASE SweepDrop(r) \/ CodeBurn(r) \/ CodeSpend(r) \/ TakeDelete(r)
  BY <1>2, <1>3 DEF SweepDrop, CodeBurn, CodeSpend, TakeDelete
<1>4. CASE StartChallenge(r)
  <2>1. call[r].parks \in Challenges
    BY <1>1, <1>4 DEF StartChallenge, PutCode, Goto, StageOf, Stage, StartPcs, SweepPcs, WellFormed
  <2> QED
    BY <1>1, <1>2, <1>4, <2>1 DEF StartChallenge
<1>5. CASE CodeCount(r)
  <2>1. call[r].code \in Challenges
    BY <1>1, <1>5 DEF CodeCount, PutCode, Goto, StageOf, Stage, CodePcs, WellFormed
  <2> QED
    BY <1>1, <1>2, <1>5, <2>1 DEF CodeCount
<1>6. CASE Park(r)
  <2>1. call[r].parks \in Authorizations
    BY <1>1, <1>6 DEF Park, PutCode, Goto, StageOf, Stage, WellFormed
  <2> QED
    BY <1>1, <1>2, <1>6, <2>1 DEF Park
<1>7. CASE HandoffPut(r)
  <2> DEFINE rec == [email |-> Absent, attempts |-> 0, gives |-> mem[r].cred]
  <2>1. PutCode(r, "handoff_put", "bounce", call[r].parks, rec)
    BY <1>7 DEF HandoffPut
  <2>2. rec.gives = mem[r].cred
    OBVIOUS
  <2> HIDE DEF rec
  <2>3. Is(r, {"redirect"}) /\ pc[r] = "handoff_put"
    BY <1>1, <1>2, <2>1 DEF StageOf, Stage, BouncePcs, Is
  <2> QED
    BY <1>1, <1>2, <2>1, <2>2, <2>3
<1>8. CASE UNCHANGED codes
  BY <1>8
<1>9. CASE StartLimited(r)
  BY <1>8, <1>9, ConsumeMoves, RefundMoves DEF StartLimited, AllowSend, RefundSend, SendMail, AnswerStart
<1>10. CASE SweepList(r) \/ SweepRead(r) \/ CodeGet(r) \/ CodeBurned(r) \/ CodeCounted(r) \/ Parked(r) \/ TakeGet(r)
            \/ Taken(r) \/ Bounce(r)
  BY <1>8, <1>10 DEF SweepList, SweepRead, CodeGet, CodeBurned, CodeCounted, Parked, TakeGet, Taken, Bounce, Reads
<1>11. CASE ~StartEmail(r) /\ ~RedeemChallenge(r) /\ ~Parking(r)
  BY <1>8, <1>11, StepCases, PeopleMoves, SeatMoves, RotateMoves, EndMoves, ListMoves, FillMoves, EraseMoves,
     OnDeviceMoves, SendMoves DEF Reads, Local
<1> QED
  BY <1>3, <1>4, <1>5, <1>6, <1>7, <1>9, <1>10, <1>11 DEF StartEmail, RedeemChallenge, Parking

(* A collection: the hand-off is read, deleted, and then given.             *)
LEMMA CollectMoves ==
    ASSUME TypeInv, NEW r \in Requests, Step(r), Is(r, {"collect"})
    PROVE  /\ mem'[r].answer = "200" =>
                \/ mem[r].answer = "200" /\ mem'[r].cred = mem[r].cred
                \/ pc[r] = "taken" /\ mem'[r].cred = mem[r].code.gives
           /\ pc'[r] \in {"take_delete", "taken"} =>
                \/ pc[r] = "take_delete" /\ mem'[r].code = mem[r].code
                \/ mem'[r].code = codes[call[r].code] /\ codes[call[r].code] # Absent
<1>1. mem[r] \in Memory /\ DOMAIN mem[r] = Fields /\ StageOf(r) /\ call[r].op = "collect"
  BY TypeParts, MemoryType DEF Is
<1>2. Parking(r) \/ OnDeviceStep(r) \/ Send(r)
  BY <1>1, StepCases, StartMoves, CodeMoves, PeopleMoves, SeatMoves, RotateMoves, EndMoves, ListMoves, FillMoves,
     EraseMoves DEF StageOf, Stage
<1>3. CASE TakeGet(r)
  <2> DEFINE rec == codes[call[r].code]
             m == [mem[r] EXCEPT !.code = rec]
  <2>1. Refused(r) = "401"
    BY <1>1 DEF Refused, Is
  <2>2. /\ pc[r] = "take_get"
        /\ \/ Replies(r, "take_get", "401", m)
           \/ rec # Absent /\ Goto(r, "take_get", "take_delete") /\ Holds(r, m)
    BY <1>3, <2>1 DEF TakeGet
  <2> HIDE DEF rec
  <2>3. DOMAIN m = Fields /\ m.code = rec /\ m.cred = mem[r].cred /\ m.answer = mem[r].answer
    BY <1>1 DEF Fields
  <2> HIDE DEF m
  <2>4. CASE Replies(r, "take_get", "401", m)
    <3>1. mem'[r].answer = "401"
      BY <2>3, <2>4, ReplyAnswers
    <3>2. pc'[r] \notin {"take_delete", "taken"}
      BY <2>4, GotoMoves DEF Replies
    <3> QED
      BY <3>1, <3>2
  <2>5. CASE rec # Absent /\ Goto(r, "take_get", "take_delete") /\ Holds(r, m)
    <3>1. mem'[r] = m
      BY <2>5, HoldsMoves
    <3> QED
      BY <2>3, <2>5, <3>1 DEF rec
  <2> QED
    BY <2>2, <2>4, <2>5
<1>4. CASE TakeDelete(r)
  BY <1>4, GotoMoves DEF TakeDelete, PutCode
<1>5. CASE Taken(r)
  <2> DEFINE c == mem[r].code.gives
             m == [mem[r] EXCEPT !.cred = c]
  <2>1. /\ pc[r] = "taken" /\ DOMAIN m = Fields
        /\ Replies(r, "taken", "401", mem[r]) \/ Replies(r, "taken", "200", m)
    BY <1>1, <1>5 DEF Taken, Refused, Is, Replies, Goto
  <2>2. pc'[r] \notin {"take_delete", "taken"}
    BY <2>1, GotoMoves DEF Replies
  <2> HIDE DEF m
  <2>3. Replies(r, "taken", "401", mem[r]) => mem'[r].answer = "401"
    BY <1>1, ReplyAnswers
  <2>4. Replies(r, "taken", "200", m) => mem'[r].cred = c
    <3> HIDE DEF c
    <3>1. DOMAIN m = Fields /\ m.cred = c
      BY <1>1 DEF Fields, m
    <3>2. Replies(r, "taken", "200", m) => mem'[r] = [m EXCEPT !.answer = "200"]
      BY HoldsMoves DEF Replies
    <3> QED
      BY <3>1, <3>2 DEF Fields
  <2> QED
    BY <2>1, <2>2, <2>3, <2>4
<1>6. CASE OnDeviceStep(r)
  <2>1. pc'[r] \notin {"take_delete", "taken"}
    BY <1>6, OnDeviceMoves DEF Answers
  <2>2. LoseAnswer(r) \/ UNCHANGED mem \/ LoseRequest(r) \/ mem'[r] = mem[r]
    BY <1>1, <1>6 DEF OnDeviceStep, UseToken, Joined, SignOut, Goto, Refused401, Is, Adopt, Persist, Clear, Report,
       Settle, Abandoned, StageOf, Stage, Restart
  <2>3. LoseAnswer(r) \/ LoseRequest(r) => mem'[r].answer = "null"
    <3> DEFINE yes == TRUE
    <3>1. LoseAnswer(r) \/ LoseRequest(r) =>
             mem'[r] \in {[mem[r] EXCEPT !.answer = "null", !.lost = yes], [mem[r] EXCEPT !.answer = "null"]}
      BY HoldsMoves DEF LoseAnswer, LoseRequest
    <3> HIDE DEF yes
    <3> QED
      BY <1>1, <3>1 DEF Fields
  <2> QED
    BY <2>1, <2>2, <2>3
<1>7. CASE Send(r)
  <2>1. pc'[r] \notin {"take_delete", "taken"} /\ mem[r] = Blank
    BY <1>1, <1>7, SendMoves DEF StageOf, Stage
  <2>2. mem'[r].answer = mem[r].answer
    BY <1>7, SendChanges DEF Changes, Fields
  <2> QED
    BY <2>1, <2>2 DEF Blank
<1>8. CASE Park(r) \/ Parked(r) \/ HandoffPut(r) \/ Bounce(r)
  BY <1>1, <1>8 DEF Park, Parked, HandoffPut, Bounce, PutCode, Replies, Goto, StageOf, Stage, BouncePcs
<1> QED
  BY <1>2, <1>3, <1>4, <1>5, <1>6, <1>7, <1>8 DEF Parking

(* A mailed sign-in is answered with its tokens after they were issued.     *)
LEMMA CallbackAnswers ==
    ASSUME TypeInv, NEW r \in Requests, Step(r), Is(r, {"callback"}), mem'[r].answer = "200"
    PROVE  mem[r].answer = "200" \/ pc[r] = "session_index"
<1>1. mem[r] \in Memory /\ DOMAIN mem[r] = Fields /\ StageOf(r) /\ call[r].op = "callback"
  BY TypeParts, MemoryType DEF Is
<1>2. RedeemChallenge(r) \/ ResolveIdentity(r) \/ IssueTokens(r) \/ OnDeviceStep(r) \/ Send(r)
  BY <1>1, StepCases, StartMoves, ParkMoves, RotateMoves, EndMoves, ListMoves, FillMoves,
     EraseMoves DEF StageOf, Stage, BouncePcs
<1>3. ASSUME NEW F \in SUBSET (Fields \ {"answer"}), Changes(r, F) PROVE mem[r].answer = "200"
  BY <1>3 DEF Changes, Fields
<1>4. CASE RedeemChallenge(r)
  <2>1. CASE CodeGet(r)
    <3> DEFINE rec == codes[call[r].code]
               m == [mem[r] EXCEPT !.code = rec]
    <3>1. Replies(r, "code_get", "400", m) \/ Holds(r, m)
      BY <2>1 DEF CodeGet
    <3> HIDE DEF rec
    <3>2. DOMAIN m = Fields /\ m.answer = mem[r].answer
      BY <1>1 DEF Fields
    <3> HIDE DEF m
    <3>3. ~Replies(r, "code_get", "400", m)
      BY <3>2, ReplyAnswers
    <3> QED
      BY <3>1, <3>2, <3>3, HoldsMoves
  <2>2. CASE CodeBurned(r) \/ CodeCounted(r)
    BY <1>1, <2>2, ReplyAnswers DEF CodeBurned, CodeCounted
  <2> QED
    BY <1>4, <2>1, <2>2 DEF RedeemChallenge, CodeBurn, CodeCount, CodeSpend
<1>5. CASE ResolveIdentity(r)
  <2>1. CASE IdentityUser(r)
    BY <1>1, <2>1, ReplyAnswers DEF IdentityUser, Fails, Is
  <2>2. CASE IdentityGet(r) \/ EmailGet(r) \/ NewUser(r)
    <3>1. PICK u : Holds(r, [mem[r] EXCEPT !.user = u])
      BY <2>2 DEF IdentityGet, EmailGet, NewUser
    <3>2. mem'[r] = [mem[r] EXCEPT !.user = u]
      BY <3>1, HoldsMoves
    <3> QED
      BY <1>1, <3>2 DEF Fields
  <2> QED
    BY <1>5, <2>1, <2>2 DEF ResolveIdentity, EmailUser, Link, PutIdentity, NewHome, NewIdentity, NewEmail
<1>6. CASE IssueTokens(r)
  <2>1. CASE SessionPut(r)
    <3> DEFINE c == [session |-> call[r].session, secret |-> r]
    <3>1. mem'[r] = [mem[r] EXCEPT !.cred = c]
      BY <2>1, HoldsMoves DEF SessionPut
    <3> HIDE DEF c
    <3> QED
      BY <1>1, <3>1 DEF Fields
  <2> QED
    BY <1>6, <2>1 DEF IssueTokens, SessionIndexed, Replies, Goto
<1>7. CASE OnDeviceStep(r)
  <2>1. LoseAnswer(r) \/ UNCHANGED mem \/ LoseRequest(r) \/ mem'[r] = mem[r]
    BY <1>1, <1>7 DEF OnDeviceStep, UseToken, Joined, SignOut, Goto, Refused401, Is, Adopt, Persist, Clear, Report,
       Settle, Abandoned, StageOf, Stage, Restart
  <2>2. LoseAnswer(r) \/ LoseRequest(r) => mem'[r].answer = "null"
    <3> DEFINE yes == TRUE
    <3>1. LoseAnswer(r) \/ LoseRequest(r) =>
             mem'[r] \in {[mem[r] EXCEPT !.answer = "null", !.lost = yes], [mem[r] EXCEPT !.answer = "null"]}
      BY HoldsMoves DEF LoseAnswer, LoseRequest
    <3> HIDE DEF yes
    <3> QED
      BY <1>1, <3>1 DEF Fields
  <2> QED
    BY <2>1, <2>2
<1>8. CASE Send(r)
  BY <1>8, SendChanges DEF Changes, Fields
<1> QED
  BY <1>2, <1>4, <1>5, <1>6, <1>7, <1>8

LEMMA SeatGoes ==
    ASSUME TypeInv, NEW r \in Requests, Step(r), pc'[r] \in {"session_index", "handoff_put"}
    PROVE  SessionPut(r) \/ pc[r] = "session_index"
<1>1. IssueTokens(r)
  BY StepCases, StartMoves, CodeMoves, ParkMoves, PeopleMoves, RotateMoves, EndMoves, ListMoves, FillMoves,
     EraseMoves, OnDeviceMoves, SendMoves
     DEF StartPcs, SweepPcs, ConsumePcs, ConsumedPcs, RefundPcs, CodePcs, PeoplePcs, RotatePcs, EndPcs, ListPcs,
         FillPcs, ErasePcs, Left, Answers
<1> QED
  BY <1>1 DEF IssueTokens, SessionIndexed, Replies, Goto

LEMMA PutIssues ==
    ASSUME TypeInv, NEW r \in Requests, SessionPut(r)
    PROVE  mem'[r].cred = IssuedBy(r) /\ IssuedBy(r) \in Cred /\ SignsIn(r)
<1>1. /\ mem[r] \in Memory /\ DOMAIN mem[r] = Fields /\ StageOf(r) /\ pc[r] = "session_put"
      /\ WellFormed(call[r]) /\ call[r] \in Call
  BY TypeParts, MemoryType DEF SessionPut, Goto
<1> DEFINE c == [session |-> call[r].session, secret |-> r]
<1>2. mem'[r] = [mem[r] EXCEPT !.cred = c]
  BY HoldsMoves DEF SessionPut
<1>3. SignsIn(r) /\ call[r].session \in SessionIds
  BY <1>1, CallType DEF StageOf, Stage, SeatPcs, SignsIn, Is, WellFormed
<1>4. c \in Cred
  BY <1>3 DEF Cred, Secrets
<1> HIDE DEF c
<1>5. mem'[r].cred = c
  BY <1>1, <1>2 DEF Fields
<1> QED
  BY <1>3, <1>4, <1>5 DEF c, IssuedBy

LEMMA HandoffInit == Init => HandInv
<1> SUFFICES ASSUME Init PROVE HandInv
  OBVIOUS
<1>1. TypeInv /\ \A q \in Requests : pc[q] = "send" /\ mem[q].cred = Absent /\ mem[q].answer = "null"
  BY InitType DEF Init, Blank
<1>2. \A k \in Handoffs : codes[k] = Absent
  BY <1>1, GivenFacts DEF Init, TypeInv, AtRest
<1> QED
  BY <1>1, <1>2 DEF HandInv, SignedIn

LEMMA HandoffKept ==
    ASSUME TypeInv, SeatInv, EndInv, NEW r \in Requests, Step(r)
    PROVE  /\ \A p \in Requests : IssuedBy(p)' = IssuedBy(p)
           /\ \A p \in Requests, k \in Codes : HandsOver(p, k) => HandsOver(p, k)'
<1>1. call' = call
  BY StepFrame DEF given
<1> QED
  BY <1>1, RootsKept DEF IssuedBy, HandsOver, Is

LEMMA HandoffStep ==
    ASSUME TypeInv, SeatInv, EndInv, HandInv, NEW r \in Requests, Step(r)
    PROVE  HandInv'
<1>1. call' = call /\ Handoffs \subseteq Codes
  BY StepFrame DEF given, Codes
<1>2. ASSUME NEW q \in Requests \ {r}
      PROVE  /\ pc'[q] = pc[q] /\ mem'[q].cred = mem[q].cred /\ mem'[q].code = mem[q].code
             /\ mem'[q].answer = mem[q].answer /\ SignedIn(q)' = SignedIn(q)
  BY <1>1, StepFrame, OthersKeep DEF SignedIn, SignsIn, Is
<1>3. ASSUME SessionPut(r) PROVE SignedIn(r)' /\ mem'[r].cred = IssuedBy(r)
  <2>1. IssuedBy(r) # Absent
    BY <1>3, PutIssues, AuthAssumption
  <2> QED
    BY <1>1, <1>3, <2>1, PutIssues DEF SignedIn, SignsIn, Is
<1>4. ASSUME NEW p \in Requests, SignedIn(p)' PROVE mem'[p].cred = IssuedBy(p)
  BY <1>2, <1>3, <1>4, RootsKept, SignedInKept DEF HandInv
<1>5. ASSUME NEW k \in Handoffs, codes'[k] # Absent
      PROVE  \E p \in Requests : HandsOver(p, k)' /\ codes'[k].gives = IssuedBy(p)'
  <2>1. CASE codes'[k] \in {codes[k], Absent}
    <3>1. PICK p \in Requests : HandsOver(p, k) /\ codes[k].gives = IssuedBy(p)
      BY <1>5, <2>1 DEF HandInv
    <3> QED
      BY <1>1, <1>5, <2>1, <3>1, HandoffKept
  <2>2. CASE /\ Is(r, {"redirect"}) /\ pc[r] = "handoff_put" /\ call[r].parks = k
             /\ codes'[k].gives = mem[r].cred
    <3>1. SignedIn(r) /\ mem[r].cred = IssuedBy(r)
      BY <2>2 DEF HandInv
    <3>2. HandsOver(r, k)
      BY <2>2, <3>1 DEF HandsOver
    <3> QED
      BY <1>1, <2>2, <3>1, <3>2, HandoffKept
  <2> QED
    BY <2>1, <2>2, HandoffEffect
<1>6. ASSUME NEW q \in Requests, Is(q, {"collect"}), pc'[q] \in {"take_delete", "taken"}
      PROVE  \E p \in Requests : HandsOver(p, call[q].code)' /\ mem'[q].code.gives = IssuedBy(p)'
  <2>1. call[q].code \in Handoffs
    BY <1>6, TypeParts DEF WellFormed, Is
  <2>2. \E p \in Requests : HandsOver(p, call[q].code) /\ mem'[q].code.gives = IssuedBy(p)
    BY <1>2, <1>6, <2>1, CollectMoves DEF HandInv
  <2> QED
    BY <1>1, <2>1, <2>2, HandoffKept
<1>7. ASSUME NEW q \in Requests, Is(q, {"collect"}), mem'[q].answer = "200"
      PROVE  \E p \in Requests : HandsOver(p, call[q].code)' /\ mem'[q].cred = IssuedBy(p)'
  <2>1. call[q].code \in Handoffs
    BY <1>7, TypeParts DEF WellFormed, Is
  <2>2. \E p \in Requests : HandsOver(p, call[q].code) /\ mem'[q].cred = IssuedBy(p)
    BY <1>2, <1>7, CollectMoves DEF HandInv
  <2> QED
    BY <1>1, <2>1, <2>2, HandoffKept
<1>8. ASSUME NEW q \in Requests, Is(q, {"callback"}), mem'[q].answer = "200" \/ pc'[q] = "session_index"
      PROVE  SignedIn(q)'
  BY <1>2, <1>3, <1>8, CallbackAnswers, SeatGoes, RootsKept DEF HandInv
<1>9. ASSUME NEW q \in Requests, Is(q, {"redirect"}), pc'[q] \in {"session_index", "handoff_put"}
      PROVE  SignedIn(q)'
  BY <1>2, <1>3, <1>9, SeatGoes, RootsKept DEF HandInv
<1>10. \A p \in Requests : IssuedBy(p)' = IssuedBy(p)
  BY <1>1 DEF IssuedBy
<1> QED
  BY <1>1, <1>4, <1>5, <1>6, <1>7, <1>8, <1>9, <1>10 DEF HandInv, Is

LEMMA HandoffNext == TypeInv /\ SeatInv /\ EndInv /\ HandInv /\ [Next]_vars => HandInv'
<1> SUFFICES ASSUME TypeInv, SeatInv, EndInv, HandInv, [Next]_vars PROVE HandInv'
  OBVIOUS
<1>1. CASE Idle
  BY <1>1, NextFrame DEF Idle, HandInv, HandsOver, IssuedBy, SignedIn, SignsIn, Is
<1> QED
  BY <1>1, NextCases, HandoffStep

-----------------------------------------------------------------------------
(* A session has one holder.                                                *)
LEMMA WinnerOpens ==
    ASSUME TypeInv, HandInv, NEW q \in Requests, NEW s, Wins(q, s)
    PROVE  \E p \in Requests :
             /\ SignedIn(p) /\ mem[q].cred = IssuedBy(p) /\ call[p].session = s
             /\ q = p \/ (Is(p, {"redirect"}) /\ Redeems(q, call[p].parks) /\ Redeemed(q))
<1>1. CASE Is(q, {"callback"})
  BY <1>1 DEF Wins, HandInv, IssuedBy
<1>2. CASE Is(q, {"collect"})
  <2>1. PICK p \in Requests : HandsOver(p, call[q].code) /\ mem[q].cred = IssuedBy(p)
    BY <1>2 DEF Wins, HandInv
  <2> QED
    BY <1>2, <2>1 DEF HandsOver, Wins, IssuedBy, Redeems, Redeemed, Is
<1> QED
  BY <1>1, <1>2 DEF Wins, Is

LEMMA OneWinner ==
    ASSUME TypeInv, RedeemInv, HandInv, NEW s, Solo(s),
           NEW p \in Requests, NEW q \in Requests, Wins(p, s), Wins(q, s)
    PROVE  p = q
<1>1. FreshIds(seed, call)
  BY GivenFacts DEF TypeInv
<1>2. PICK a \in Requests : /\ SignedIn(a) /\ call[a].session = s
                            /\ p = a \/ (Is(a, {"redirect"}) /\ Redeems(p, call[a].parks) /\ Redeemed(p))
  BY WinnerOpens
<1>3. PICK b \in Requests : /\ SignedIn(b) /\ call[b].session = s
                            /\ q = b \/ (Is(b, {"redirect"}) /\ Redeems(q, call[b].parks) /\ Redeemed(q))
  BY WinnerOpens
<1>4. a = b
  BY <1>1, <1>2, <1>3 DEF FreshIds, SignedIn, SignsIn, Is
<1>5. CASE Is(a, {"redirect"})
  <2>1. p # a /\ q # a
    BY <1>5 DEF Wins, Is
  <2>2. Apart(call[a].parks) /\ call[a].parks \in Codes
    BY <1>2, <1>5, TypeParts DEF Solo, WellFormed, Is, Codes
  <2> QED
    BY <1>2, <1>3, <1>4, <2>1, <2>2 DEF RedeemInv, Redeeming, Won
<1>6. CASE ~Is(a, {"redirect"})
  BY <1>2, <1>3, <1>4, <1>6
<1> QED
  BY <1>5, <1>6

(* A session somebody opens was nobody's at the start.                      *)
LEMMA SeedHolder ==
    ASSUME TypeInv, NEW p \in Requests, SignsIn(p), NEW d \in Devices
    PROVE  ~(seed.device[d].tokens # Absent /\ seed.device[d].tokens.session = call[p].session)
<1>1. FreshIds(seed, call) /\ AtRest(seed)
  BY GivenFacts DEF TypeInv
<1> QED
  BY <1>1 DEF FreshIds, AtRest, SignsIn, Is

LEMMA OneHolder ==
    ASSUME TypeInv, RedeemInv, HandInv, NEW s, Solo(s),
           NEW d \in Devices, NEW e \in Devices, Holder(d, s), Holder(e, s)
    PROVE  d = e
<1>1. ASSUME NEW q \in Requests, Wins(q, s), NEW f \in Devices
      PROVE  ~(seed.device[f].tokens # Absent /\ seed.device[f].tokens.session = s)
  BY <1>1, WinnerOpens, SeedHolder DEF SignedIn
<1>2. AtRest(seed)
  BY GivenFacts DEF TypeInv
<1>3. CASE \E q \in Requests : Wins(q, s)
  <2>1. PICK p \in Ours(d) : Wins(p, s)
    BY <1>1, <1>3 DEF Holder
  <2>2. PICK q \in Ours(e) : Wins(q, s)
    BY <1>1, <1>3 DEF Holder
  <2> QED
    BY <2>1, <2>2, OneWinner DEF Ours
<1>4. CASE ~\E q \in Requests : Wins(q, s)
  <2>1. /\ seed.device[d].tokens # Absent /\ seed.device[d].tokens.session = s
        /\ seed.device[e].tokens # Absent /\ seed.device[e].tokens.session = s
    BY <1>4 DEF Holder, Ours
  <2> QED
    BY <1>2, <2>1 DEF AtRest
<1> QED
  BY <1>3, <1>4

(* A session that is being opened is nobody's yet.                          *)
LEMMA NoHolderYet ==
    ASSUME TypeInv, SeatInv, HandInv, NEW r \in Requests, SessionPut(r), NEW d \in Devices
    PROVE  ~Holder(d, call[r].session)
<1>1. SignsIn(r) /\ pc[r] = "session_put" /\ ~SignedIn(r)
  BY PutIssues DEF SessionPut, Goto, SeatInv, Seated, SignedIn, BouncePcs, Answers
<1>2. FreshIds(seed, call)
  BY GivenFacts DEF TypeInv
<1>3. ASSUME NEW q \in Requests, Wins(q, call[r].session) PROVE FALSE
  <2>1. PICK p \in Requests : SignedIn(p) /\ call[p].session = call[r].session
    BY <1>3, WinnerOpens
  <2> QED
    BY <1>1, <1>2, <2>1 DEF FreshIds, SignedIn, SignsIn, Is
<1> QED
  BY <1>1, <1>3, SeedHolder DEF Holder, Ours

-----------------------------------------------------------------------------
(* What each call of a device does to the device.                           *)
After(r, t, s, f) ==
    LET dev == device'[call[r].device] IN dev.tokens = t /\ dev.stored = s /\ dev.refreshing = f
Untouched(r) == After(r, Of(r).tokens, Of(r).stored, Of(r).refreshing)

LEMMA HisDevice ==
    ASSUME TypeInv, NEW r \in Requests, OnDeviceStep(r)
    PROVE  /\ call[r].device \in Devices /\ Of(r) \in Device /\ OnDevice(r) /\ DOMAIN mem[r] = Fields
           /\ StageOf(r) /\ WellFormed(call[r])
           /\ DOMAIN Of(r) = {"tokens", "stored", "fresh", "refreshing"}
<1>1. call[r].device \in Devices /\ OnDevice(r)
  BY TypeParts, CallType DEF OnDeviceStep, OnDevice
<1>2. Of(r) \in Device
  BY <1>1, TypeParts DEF StoresOK, Of
<1> QED
  BY <1>1, <1>2, TypeParts, MemoryType DEF Device

LEMMA OtherDevices ==
    ASSUME TypeInv, NEW r \in Requests, Step(r), NEW d \in Devices, d # call[r].device \/ ~OnDeviceStep(r)
    PROVE  device'[d] = device[d]
<1>1. device \in [Devices -> Device]
  BY TypeParts DEF StoresOK
<1>2. CASE OnDeviceStep(r)
  <2>1. UNCHANGED device \/ \E dev : Becomes(r, dev)
    BY <1>2 DEF OnDeviceStep, UseToken, Joined, LoseRequest, LoseAnswer, Adopt, Persist, SignOut, Clear, Report,
       Settle, Restart, Abandoned
  <2> QED
    BY <1>1, <1>2, <2>1 DEF Becomes
<1>3. CASE ~OnDeviceStep(r)
  BY <1>3, StepCases, StartMoves, CodeMoves, ParkMoves, PeopleMoves, SeatMoves, RotateMoves, EndMoves, ListMoves,
     FillMoves, EraseMoves, SendMoves DEF Reads
<1> QED
  BY <1>2, <1>3

LEMMA QuietDevice ==
    ASSUME TypeInv, NEW r \in Requests, OnDeviceStep(r),
           Joined(r) \/ LoseRequest(r) \/ LoseAnswer(r) \/ Report(r) \/ Abandoned(r)
    PROVE  Untouched(r)
<1>1. UNCHANGED device
  BY DEF Joined, LoseRequest, LoseAnswer, Report, Abandoned
<1> QED
  BY <1>1 DEF Untouched, After, Of

LEMMA UseTokenMoves ==
    ASSUME TypeInv, NEW r \in Requests, OnDeviceStep(r), UseToken(r)
    PROVE  /\ Is(r, {"use"}) /\ pc[r] = "use" /\ ~mem[r].orphan /\ mem'[r].answer = mem[r].answer
           /\ \/ pc'[r] \in {"200", "null", "joined"} /\ mem'[r].cred = mem[r].cred /\ Untouched(r)
              \/ /\ pc'[r] = "rotate_get" /\ mem'[r].cred = Of(r).tokens /\ Of(r).tokens # Absent
                 /\ Of(r).refreshing = Absent /\ After(r, Of(r).tokens, Of(r).stored, r)
<1>1. /\ OnDevice(r) /\ call[r].device \in Devices /\ DOMAIN mem[r] = Fields /\ StageOf(r)
      /\ device \in [Devices -> Device] /\ DOMAIN Of(r) = {"tokens", "stored", "fresh", "refreshing"}
  BY HisDevice, TypeParts DEF StoresOK
<1>2. pc[r] = "use" /\ ~mem[r].orphan /\ Is(r, {"use"})
  BY <1>1 DEF UseToken, Goto, StageOf, Stage, Is
<1>3. CASE Of(r).tokens = Absent \/ Of(r).fresh
  <2>1. pc'[r] \in {"200", "null"} /\ UNCHANGED <<mem, device>>
    BY <1>3, GotoMoves DEF UseToken
  <2> QED
    BY <1>2, <2>1 DEF Untouched, After, Of
<1>4. CASE Of(r).tokens # Absent /\ ~Of(r).fresh /\ InFlight(Of(r))
  <2>1. pc'[r] = "joined" /\ mem'[r] = [mem[r] EXCEPT !.waits = Of(r).refreshing] /\ UNCHANGED device
    BY <1>4, GotoMoves, HoldsMoves DEF UseToken
  <2> QED
    BY <1>1, <1>2, <2>1 DEF Untouched, After, Of, Fields
<1>5. CASE Of(r).tokens # Absent /\ ~Of(r).fresh /\ ~InFlight(Of(r))
  <2> DEFINE c == Of(r).tokens
             dev == [Of(r) EXCEPT !.refreshing = r]
  <2>1. pc'[r] = "rotate_get" /\ mem'[r] = [mem[r] EXCEPT !.cred = c] /\ Becomes(r, dev)
    BY <1>5, GotoMoves, HoldsMoves DEF UseToken
  <2>2. mem'[r].cred = c /\ mem'[r].answer = mem[r].answer
    <3> HIDE DEF c
    <3> QED
      BY <1>1, <2>1 DEF Fields
  <2>3. dev.tokens = Of(r).tokens /\ dev.stored = Of(r).stored /\ dev.refreshing = r
    BY <1>1
  <2> HIDE DEF dev
  <2>4. device'[call[r].device] = dev
    BY <1>1, <2>1 DEF Becomes
  <2> QED
    BY <1>2, <1>5, <2>1, <2>2, <2>3, <2>4 DEF After, InFlight
<1> QED
  BY <1>3, <1>4, <1>5

LEMMA AdoptMoves ==
    ASSUME TypeInv, NEW r \in Requests, OnDeviceStep(r), Adopt(r)
    PROVE  /\ pc[r] = "back" /\ pc'[r] = "persist" /\ ~mem[r].orphan /\ Adopts(r) /\ UNCHANGED mem
           /\ After(r, mem[r].cred, Of(r).stored, Of(r).refreshing)
<1>1. /\ call[r].device \in Devices /\ device \in [Devices -> Device]
      /\ DOMAIN Of(r) = {"tokens", "stored", "fresh", "refreshing"}
  BY HisDevice, TypeParts DEF StoresOK
<1> DEFINE c == mem[r].cred
           yes == TRUE
           dev == [Of(r) EXCEPT !.tokens = c, !.fresh = yes]
<1>2. Becomes(r, dev)
  BY DEF Adopt
<1> HIDE DEF c, yes
<1>3. dev.tokens = c /\ dev.stored = Of(r).stored /\ dev.refreshing = Of(r).refreshing
  BY <1>1
<1> HIDE DEF dev
<1>4. device'[call[r].device] = dev
  BY <1>1, <1>2 DEF Becomes
<1>5. After(r, mem[r].cred, Of(r).stored, Of(r).refreshing)
  BY <1>3, <1>4 DEF After, c
<1> QED
  BY <1>5, GotoMoves DEF Adopt

LEMMA PersistMoves ==
    ASSUME TypeInv, NEW r \in Requests, OnDeviceStep(r), Persist(r)
    PROVE  /\ pc[r] = "persist" /\ pc'[r] = "settle" /\ ~mem[r].orphan /\ UNCHANGED mem
           /\ After(r, Of(r).tokens, mem[r].cred, Of(r).refreshing)
<1>1. /\ call[r].device \in Devices /\ device \in [Devices -> Device]
      /\ DOMAIN Of(r) = {"tokens", "stored", "fresh", "refreshing"}
  BY HisDevice, TypeParts DEF StoresOK
<1> DEFINE c == mem[r].cred
           dev == [Of(r) EXCEPT !.stored = c]
<1>2. Becomes(r, dev)
  BY DEF Persist
<1> HIDE DEF c
<1>3. dev.tokens = Of(r).tokens /\ dev.stored = c /\ dev.refreshing = Of(r).refreshing
  BY <1>1
<1> HIDE DEF dev
<1>4. device'[call[r].device] = dev
  BY <1>1, <1>2 DEF Becomes
<1>5. After(r, Of(r).tokens, mem[r].cred, Of(r).refreshing)
  BY <1>3, <1>4 DEF After, c
<1> QED
  BY <1>5, GotoMoves DEF Persist

LEMMA SignOutMoves ==
    ASSUME TypeInv, NEW r \in Requests, OnDeviceStep(r), SignOut(r)
    PROVE  /\ pc[r] = "signout" \/ (pc[r] = "back" /\ Refused401(r))
           /\ pc'[r] = "clear" /\ ~mem[r].orphan /\ mem'[r].cred = Of(r).tokens /\ mem'[r].answer = mem[r].answer
           /\ After(r, Absent, Of(r).stored, Absent)
<1>1. /\ call[r].device \in Devices /\ device \in [Devices -> Device] /\ DOMAIN mem[r] = Fields
      /\ DOMAIN Of(r) = {"tokens", "stored", "fresh", "refreshing"}
  BY HisDevice, TypeParts DEF StoresOK
<1> DEFINE c == Of(r).tokens
           dev == [Of(r) EXCEPT !.tokens = Absent, !.refreshing = Absent]
<1>2. Becomes(r, dev) /\ mem'[r] = [mem[r] EXCEPT !.cred = c]
  BY HoldsMoves DEF SignOut
<1> HIDE DEF c
<1>3. dev.tokens = Absent /\ dev.stored = Of(r).stored /\ dev.refreshing = Absent
  BY <1>1
<1> HIDE DEF dev
<1>4. device'[call[r].device] = dev
  BY <1>1, <1>2 DEF Becomes
<1>5. After(r, Absent, Of(r).stored, Absent)
  BY <1>3, <1>4 DEF After
<1>6. mem'[r].cred = c /\ mem'[r].answer = mem[r].answer
  BY <1>1, <1>2 DEF Fields
<1> QED
  BY <1>5, <1>6, GotoMoves DEF SignOut, c

LEMMA ClearMoves ==
    ASSUME TypeInv, NEW r \in Requests, OnDeviceStep(r), Clear(r)
    PROVE  /\ pc[r] = "clear" /\ pc'[r] = (IF mem[r].cred = Absent THEN "settle" ELSE "end_get")
           /\ ~mem[r].orphan /\ UNCHANGED mem
           /\ After(r, Of(r).tokens, Absent, Of(r).refreshing)
<1>1. /\ call[r].device \in Devices /\ device \in [Devices -> Device]
      /\ DOMAIN Of(r) = {"tokens", "stored", "fresh", "refreshing"}
  BY HisDevice, TypeParts DEF StoresOK
<1> DEFINE dev == [Of(r) EXCEPT !.stored = Absent]
<1>2. Becomes(r, dev)
  BY DEF Clear
<1>3. dev.tokens = Of(r).tokens /\ dev.stored = Absent /\ dev.refreshing = Of(r).refreshing
  BY <1>1
<1> HIDE DEF dev
<1>4. device'[call[r].device] = dev
  BY <1>1, <1>2 DEF Becomes
<1>5. After(r, Of(r).tokens, Absent, Of(r).refreshing)
  BY <1>3, <1>4 DEF After
<1> QED
  BY <1>5, GotoMoves DEF Clear

LEMMA SettleMoves ==
    ASSUME TypeInv, NEW r \in Requests, OnDeviceStep(r), Settle(r)
    PROVE  /\ pc[r] = "settle" /\ pc'[r] \in Answers /\ ~mem[r].orphan /\ UNCHANGED mem
           /\ Is(r, {"use"}) => After(r, Of(r).tokens, Of(r).stored, Absent)
           /\ ~Is(r, {"use"}) => Untouched(r)
<1>1. /\ call[r].device \in Devices /\ device \in [Devices -> Device] /\ mem[r].answer \in Answers
      /\ DOMAIN Of(r) = {"tokens", "stored", "fresh", "refreshing"}
  BY HisDevice, TypeParts, MemoryType DEF StoresOK
<1> DEFINE dev == [Of(r) EXCEPT !.refreshing = Absent]
<1>2. Is(r, {"use"}) => Becomes(r, dev)
  BY DEF Settle
<1>3. dev.tokens = Of(r).tokens /\ dev.stored = Of(r).stored /\ dev.refreshing = Absent
  BY <1>1
<1> HIDE DEF dev
<1>4. Is(r, {"use"}) => device'[call[r].device] = dev
  BY <1>1, <1>2 DEF Becomes
<1>5. Is(r, {"use"}) => After(r, Of(r).tokens, Of(r).stored, Absent)
  BY <1>3, <1>4 DEF After
<1>6. ~Is(r, {"use"}) => Untouched(r)
  BY DEF Settle, Untouched, After, Of
<1>7. pc[r] = "settle" /\ pc'[r] \in Answers
  BY <1>1, GotoMoves DEF Settle, Answers
<1> QED
  BY <1>5, <1>6, <1>7 DEF Settle

LEMMA RestartMoves ==
    ASSUME TypeInv, NEW r \in Requests, OnDeviceStep(r), Restart(r)
    PROVE  /\ Is(r, {"restart"}) /\ pc[r] = "restart" /\ pc'[r] = "null" /\ mem'[r] = mem[r]
           /\ After(r, Of(r).stored, Of(r).stored, Absent)
           /\ \A q \in Requests \ {r} : InProgress(q, call[r].device) => mem'[q].orphan
<1>1. /\ call[r].device \in Devices /\ device \in [Devices -> Device] /\ StageOf(r)
      /\ DOMAIN Of(r) = {"tokens", "stored", "fresh", "refreshing"}
      /\ \A q \in Requests : DOMAIN mem[q] = Fields
  BY HisDevice, TypeParts, MemoryType DEF StoresOK
<1> DEFINE c == Of(r).stored
           b == Of(r).fresh /\ Of(r).stored = Of(r).tokens
           dev == [Of(r) EXCEPT !.tokens = c, !.refreshing = Absent, !.fresh = b]
<1>2. Becomes(r, dev)
  BY DEF Restart, Of
<1> HIDE DEF b
<1>3. dev.tokens = Of(r).stored /\ dev.stored = Of(r).stored /\ dev.refreshing = Absent
  BY <1>1
<1> HIDE DEF dev
<1>4. device'[call[r].device] = dev
  BY <1>1, <1>2 DEF Becomes
<1>5. After(r, Of(r).stored, Of(r).stored, Absent)
  BY <1>3, <1>4 DEF After
<1>6. ASSUME NEW q \in Requests \ {r}, InProgress(q, call[r].device) PROVE mem'[q].orphan
  <2> DEFINE yes == TRUE
  <2>1. mem'[q] = [mem[q] EXCEPT !.orphan = yes]
    BY <1>6 DEF Restart
  <2>2. mem'[q].orphan = yes
    <3> HIDE DEF yes
    <3> QED
      BY <1>1, <2>1 DEF Fields
  <2> QED
    BY <2>2
<1>7. Is(r, {"restart"}) /\ pc[r] = "restart" /\ pc'[r] = "null" /\ mem'[r] = mem[r]
  BY <1>1, GotoMoves DEF Restart, StageOf, Stage, Is
<1> QED
  BY <1>5, <1>6, <1>7

-----------------------------------------------------------------------------
(* Nobody loses a token it was answered with, and nobody else gets one.     *)
LEMMA AtEnd ==
    ASSUME TypeInv, NEW r \in Requests, Step(r), pc[r] \in {"persist", "settle"}
    PROVE  /\ OnDeviceStep(r) /\ (Persist(r) \/ Settle(r) \/ Abandoned(r))
           /\ UNCHANGED mem /\ pc'[r] \in {"settle"} \cup Answers
<1>1. OnDeviceStep(r)
  BY StepCases, StartMoves, CodeMoves, ParkMoves, PeopleMoves, SeatMoves, RotateMoves, EndMoves, ListMoves,
     FillMoves, EraseMoves, SendMoves
     DEF StartPcs, SweepPcs, ConsumePcs, ConsumedPcs, RefundPcs, CodePcs, TakePcs, PeoplePcs, SeatPcs, BouncePcs,
         RotatePcs, EndPcs, ListPcs, FillPcs, ErasePcs
<1>2. Persist(r) \/ Settle(r) \/ Abandoned(r)
  BY <1>1 DEF OnDeviceStep, UseToken, Joined, LoseRequest, LoseAnswer, Adopt, SignOut, Clear, Report, Restart, Goto
<1>3. Abandoned(r) => UNCHANGED mem /\ pc'[r] = "null"
  BY GotoMoves DEF Abandoned
<1> QED
  BY <1>1, <1>2, <1>3, PersistMoves, SettleMoves DEF Answers

LEMMA HolderKept ==
    ASSUME TypeInv, NEW r \in Requests, Step(r), NEW d, NEW s, Holder(d, s)
    PROVE  Holder(d, s)'
<1>1. call' = call /\ seed' = seed
  BY StepFrame DEF given
<1>2. CASE seed.device[d].tokens # Absent /\ seed.device[d].tokens.session = s
  BY <1>1, <1>2 DEF Holder
<1>3. ASSUME NEW q \in Ours(d), Wins(q, s), pc[q] \in {"persist", "settle"} \cup Answers
      PROVE  Wins(q, s)' /\ pc'[q] \in {"persist", "settle"} \cup Answers /\ q \in Ours(d)'
  <2>1. q \in Requests /\ q \in Ours(d)'
    BY <1>1, <1>3 DEF Ours
  <2>2. CASE q # r
    <3>1. pc'[q] = pc[q] /\ mem'[q].cred = mem[q].cred /\ mem'[q].answer = mem[q].answer
      BY <2>1, <2>2, StepFrame, OthersKeep
    <3> QED
      BY <1>1, <1>3, <2>1, <3>1 DEF Wins, Is
  <2>3. CASE q = r
    <3>1. pc[r] \in {"persist", "settle"}
      BY <1>3, <2>3, StepFrame
    <3> QED
      BY <1>1, <1>3, <2>1, <2>3, <3>1, AtEnd DEF Wins, Is
  <2> QED
    BY <2>2, <2>3
<1> QED
  BY <1>2, <1>3 DEF Holder

LEMMA LostEffect ==
    ASSUME TypeInv, NEW r \in Requests, Step(r)
    PROVE  /\ mem'[r].lost = mem[r].lost \/ (OnDeviceStep(r) /\ LoseAnswer(r)) \/ RotatedUser(r)
           /\ mem'[r].orphan = mem[r].orphan
<1>1. DOMAIN mem[r] = Fields
  BY TypeParts, MemoryType
<1>2. ASSUME NEW F \in SUBSET (Fields \ {"lost", "orphan"}), Changes(r, F)
      PROVE  mem'[r].lost = mem[r].lost /\ mem'[r].orphan = mem[r].orphan
  BY <1>2 DEF Changes, Fields
<1>3. CASE StartEmail(r) \/ RedeemChallenge(r) \/ Parking(r) \/ ResolveIdentity(r) \/ IssueTokens(r)
  <2>1. Changes(r, Fields \ {"lost", "orphan"})
    BY <1>3, StartChanges, CodeChanges, ParkChanges, PeopleChanges, SeatChanges, ChangesMore DEF StartFields, Fields
  <2> QED
    BY <1>2, <2>1
<1>4. CASE EndSessionOwnedBy(r) \/ SessionsOf(r) \/ BackfillSessions(r) \/ DeleteUserRecords(r) \/ Send(r)
  <2>1. Changes(r, Fields \ {"lost", "orphan"})
    BY <1>4, EndChanges, ListChanges, FillChanges, EraseChanges, SendChanges, ChangesMore DEF Fields
  <2> QED
    BY <1>2, <2>1
<1>5. CASE RotateSession(r)
  <2>1. mem'[r].orphan = mem[r].orphan
    BY <1>5, RotateChanges DEF Changes, Fields
  <2>2. CASE RotateGet(r)
    <3> DEFINE s == Presented(r).session
               rec == sessions[s]
               verdict == RotateVerdict(r, rec)
               replayed == Replays(r, rec)
               m == [mem[r] EXCEPT !.rec = rec, !.presented = s, !.replayed = replayed]
               F == {"rec", "presented", "replayed"}
    <3>1. Replies(r, "rotate_get", verdict, m) \/ Holds(r, m)
      BY <2>2 DEF RotateGet
    <3> HIDE DEF s, rec, verdict, replayed
    <3>2. (\A f \in Fields \ F : m[f] = mem[r][f]) /\ DOMAIN m = Fields
      BY <1>1
    <3> HIDE DEF m
    <3>3. Changes(r, F) \/ Changes(r, F \cup {"answer"})
      BY <3>1, <3>2, HoldsChanges, RepliesChanges
    <3> QED
      BY <1>2, <3>3 DEF Fields
  <2>3. CASE ExpireIndex(r) \/ Tombstone(r)
    BY <1>2, <2>3, PlainRepliesChanges DEF ExpireIndex, Tombstone, Fields
  <2> QED
    BY <1>5, <2>1, <2>2, <2>3 DEF RotateSession, Expire, Rotate
<1>6. CASE OnDeviceStep(r)
  <2>1. mem'[r].orphan = mem[r].orphan
    BY <1>6, DeviceChanges DEF Changes, Fields
  <2>2. /\ \A x : mem'[r] = [mem[r] EXCEPT !.cred = x] => mem'[r].lost = mem[r].lost
        /\ \A x : mem'[r] = [mem[r] EXCEPT !.waits = x] => mem'[r].lost = mem[r].lost
        /\ \A x : mem'[r] = [mem[r] EXCEPT !.answer = x] => mem'[r].lost = mem[r].lost
    BY <1>1 DEF Fields
  <2>3. CASE SignOut(r) \/ LoseRequest(r)
    <3>1. (\E x : mem'[r] = [mem[r] EXCEPT !.cred = x]) \/ (\E x : mem'[r] = [mem[r] EXCEPT !.answer = x])
      BY <2>3, HoldsMoves DEF SignOut, LoseRequest
    <3> QED
      BY <2>1, <2>2, <3>1, Zenon
  <2>4. CASE UseToken(r)
    <3>1. UNCHANGED mem \/ (\E x : mem'[r] = [mem[r] EXCEPT !.cred = x]) \/ (\E x : mem'[r] = [mem[r] EXCEPT !.waits = x])
      BY <2>4, HoldsMoves DEF UseToken
    <3> QED
      BY <2>1, <2>2, <3>1, Zenon
  <2> QED
    BY <1>6, <2>1, <2>3, <2>4 DEF OnDeviceStep, Joined, Adopt, Persist, Clear, Report, Settle, Restart, Abandoned
<1> QED
  BY <1>3, <1>4, <1>5, <1>6, StepCases

LEMMA PersistBefore ==
    ASSUME TypeInv, NEW r \in Requests, Step(r), pc'[r] = "persist"
    PROVE  OnDeviceStep(r) /\ Adopt(r)
<1>1. OnDeviceStep(r)
  BY StepCases, StartMoves, CodeMoves, ParkMoves, PeopleMoves, SeatMoves, RotateMoves, EndMoves, ListMoves,
     FillMoves, EraseMoves, SendMoves
     DEF StartPcs, SweepPcs, ConsumePcs, ConsumedPcs, RefundPcs, CodePcs, TakePcs, PeoplePcs, SeatPcs, BouncePcs,
         RotatePcs, EndPcs, ListPcs, FillPcs, ErasePcs, Left, Answers
<1>2. ~UseToken(r) /\ ~SignOut(r) /\ ~Persist(r) /\ ~Settle(r) /\ ~Restart(r) /\ ~Clear(r)
  BY <1>1, UseTokenMoves, SignOutMoves, PersistMoves, SettleMoves, RestartMoves, ClearMoves DEF Answers
<1>3. ~Joined(r) /\ ~LoseRequest(r) /\ ~LoseAnswer(r) /\ ~Report(r) /\ ~Abandoned(r)
  BY GotoMoves DEF Joined, LoseRequest, LoseAnswer, Report, Abandoned, Answers
<1> QED
  BY <1>1, <1>2, <1>3 DEF OnDeviceStep

LEMMA HoldInit == Init => HoldInv
<1> SUFFICES ASSUME Init PROVE HoldInv
  OBVIOUS
<1>1. /\ TypeInv /\ device = seed.device
      /\ \A q \in Requests : pc[q] = "send" /\ mem[q].cred = Absent /\ mem[q].lost = FALSE
  BY InitType DEF Init, Blank
<1>2. \A d \in Devices : seed.device[d].stored = seed.device[d].tokens
  BY <1>1, GivenFacts DEF TypeInv, AtRest
<1> QED
  BY <1>1, <1>2 DEF HoldInv, Holder

(* What the device of r holds after the step has its holder.                *)
LEMMA DeviceHolds ==
    ASSUME TypeInv, HoldInv, NEW r \in Requests, Step(r), NEW d \in Devices, NEW s
    PROVE  /\ device'[d].tokens # Absent /\ device'[d].tokens.session = s => Holder(d, s)'
           /\ device'[d].stored # Absent /\ device'[d].stored.session = s => Holder(d, s)'
<1>1. call' = call /\ seed' = seed
  BY StepFrame DEF given
<1>2. /\ device[d].tokens # Absent /\ device[d].tokens.session = s => Holder(d, s)'
      /\ device[d].stored # Absent /\ device[d].stored.session = s => Holder(d, s)'
  BY HolderKept DEF HoldInv
<1>3. CASE d # call[r].device \/ ~OnDeviceStep(r)
  BY <1>2, <1>3, OtherDevices
<1>4. CASE d = call[r].device /\ OnDeviceStep(r)
  <2>1. ASSUME Adopts(r), UNCHANGED mem, pc'[r] \in {"persist", "settle"}, mem[r].cred # Absent, mem[r].cred.session = s
        PROVE  Holder(d, s)'
    <3>1. CASE Is(r, {"use"})
      BY <1>4, <2>1, <3>1, HolderKept DEF HoldInv, Is
    <3>2. CASE ~Is(r, {"use"})
      <4>1. Wins(r, s)' /\ r \in Ours(d)'
        BY <1>1, <1>4, <2>1, <3>2 DEF Wins, Adopts, Is, Ours
      <4> QED
        BY <2>1, <4>1 DEF Holder
    <3> QED
      BY <3>1, <3>2
  <2>2. CASE Adopt(r)
    BY <1>2, <1>4, <2>1, <2>2, AdoptMoves DEF After, Of
  <2>3. CASE Persist(r)
    <3>1. Adopts(r)
      BY <1>4, <2>3, PersistMoves DEF HoldInv
    <3> QED
      BY <1>2, <1>4, <2>1, <2>3, <3>1, PersistMoves DEF After, Of
  <2>4. CASE SignOut(r) \/ Clear(r) \/ Restart(r)
    BY <1>2, <1>4, <2>4, SignOutMoves, ClearMoves, RestartMoves DEF After, Of
  <2>5. CASE UseToken(r) \/ Settle(r)
    BY <1>2, <1>4, <2>5, UseTokenMoves, SettleMoves DEF Untouched, After, Of
  <2>6. CASE Joined(r) \/ LoseRequest(r) \/ LoseAnswer(r) \/ Report(r) \/ Abandoned(r)
    BY <1>2, <1>4, <2>6, QuietDevice DEF Untouched, After, Of
  <2> QED
    BY <1>4, <2>2, <2>3, <2>4, <2>5, <2>6 DEF OnDeviceStep
<1> QED
  BY <1>3, <1>4

LEMMA HoldStep ==
    ASSUME TypeInv, HoldInv, NEW r \in Requests, Step(r)
    PROVE  HoldInv'
<1>1. call' = call /\ seed' = seed /\ StageOf(r) /\ WellFormed(call[r])
  BY StepFrame, TypeParts DEF given
<1>2. ASSUME NEW q \in Requests \ {r}
      PROVE  /\ pc'[q] = pc[q] /\ mem'[q].cred = mem[q].cred /\ mem'[q].lost = mem[q].lost
             /\ mem'[q].answer = mem[q].answer
  BY StepFrame, OthersKeep
<1>3. ASSUME NEW q \in Requests, Is(q, {"use", "signout"}), NEW d, d = call[q].device,
             mem'[q].cred # Absent, NEW s, mem'[q].cred.session = s
      PROVE  Holder(d, s)'
  <2>1. CASE q # r
    BY <1>2, <1>3, <2>1, HolderKept DEF HoldInv
  <2>2. CASE q = r
    <3>1. /\ (UseToken(r) \/ SignOut(r)) => call[r].device \in Devices
          /\ ~SessionPut(r)
      BY <1>1, <1>3, <2>2, TypeParts, CallType, PutIssues DEF WellFormed, Is, SignsIn
    <3>2. CASE mem'[r].cred = mem[r].cred
      BY <1>3, <2>2, <3>2, HolderKept DEF HoldInv
    <3>3. CASE mem[r].cred \in Cred /\ mem'[r].cred = [mem[r].cred EXCEPT !.secret = r]
      <4>1. mem[r].cred # Absent /\ mem'[r].cred.session = mem[r].cred.session
        BY <3>3, AuthAssumption DEF Cred
      <4> QED
        BY <1>3, <2>2, <4>1, HolderKept DEF HoldInv
    <3>4. CASE (UseToken(r) \/ SignOut(r)) /\ mem'[r].cred = device[call[r].device].tokens
      BY <1>3, <2>2, <3>1, <3>4, HolderKept DEF HoldInv
    <3> QED
      BY <1>3, <2>2, <3>1, <3>2, <3>3, <3>4, CredEffect DEF Is
  <2> QED
    BY <2>1, <2>2
<1>4. ASSUME NEW q \in Requests, Is(q, {"refresh", "revoke"}), mem'[q].cred # Absent
      PROVE  mem'[q].cred.session = call[q].session
  <2>1. CASE q # r
    BY <1>2, <1>4, <2>1 DEF HoldInv
  <2>2. CASE q = r
    <3>1. ~SessionPut(r) /\ ~UseToken(r) /\ ~SignOut(r)
      BY <1>1, <1>4, <2>2, PutIssues DEF UseToken, SignOut, Refused401, Goto, StageOf, Stage, Is, SignsIn
    <3>2. mem[r].cred \in Cred => mem[r].cred # Absent /\ [mem[r].cred EXCEPT !.secret = r].session = mem[r].cred.session
      BY AuthAssumption DEF Cred
    <3>3. mem[r].cred # Absent => mem[r].cred.session = call[r].session
      BY <1>4, <2>2 DEF HoldInv
    <3>4. CASE mem'[r].cred = [session |-> call[r].session, secret |-> call[r].secret]
      BY <2>2, <3>4
    <3> QED
      BY <1>4, <2>2, <3>1, <3>2, <3>3, <3>4, CredEffect DEF Is
  <2> QED
    BY <2>1, <2>2
<1>5. ASSUME NEW q \in Requests, pc'[q] = "persist" PROVE Adopts(q)'
  <2>1. CASE q # r
    BY <1>1, <1>2, <1>5, <2>1 DEF HoldInv, Adopts, Is
  <2>2. CASE q = r
    BY <1>1, <1>5, <2>2, PersistBefore, AdoptMoves DEF Adopts, Is
  <2> QED
    BY <2>1, <2>2
<1>6. ASSUME NEW q \in Requests, mem'[q].lost
      PROVE  pc'[q] \in {"back", "persist", "clear", "settle"} \cup EndPcs \cup Answers
  <2>1. CASE q # r
    BY <1>2, <1>6, <2>1 DEF HoldInv
  <2>2. CASE q = r /\ mem[r].lost
    <3>1. pc[r] \in {"back", "persist", "clear", "settle"} \cup EndPcs
      BY <2>2, StepFrame DEF HoldInv
    <3>2. OnDeviceStep(r) \/ EndSessionOwnedBy(r)
      BY <3>1, StepCases, StartMoves, CodeMoves, ParkMoves, PeopleMoves, SeatMoves, RotateMoves, ListMoves,
         FillMoves, EraseMoves, SendMoves
         DEF StartPcs, SweepPcs, ConsumePcs, ConsumedPcs, RefundPcs, CodePcs, TakePcs, PeoplePcs, SeatPcs, BouncePcs,
             RotatePcs, EndPcs, ListPcs, FillPcs, ErasePcs
    <3>3. CASE EndSessionOwnedBy(r)
      BY <2>2, <3>3, EndMoves DEF Left
    <3>4. CASE OnDeviceStep(r)
      <4>1. ~UseToken(r)
        BY <3>1 DEF UseToken, Goto, EndPcs
      <4>2. LoseRequest(r) \/ Joined(r) \/ LoseAnswer(r) \/ Report(r) \/ Abandoned(r) => pc'[r] \in {"settle"} \cup Answers
        BY <3>1, GotoMoves DEF LoseRequest, Joined, LoseAnswer, Report, Abandoned, EndPcs, Answers
      <4>3. pc'[r] \in {"persist", "settle", "clear", "end_get"} \cup Answers
        BY <3>4, <4>1, <4>2, AdoptMoves, PersistMoves, SignOutMoves, ClearMoves, SettleMoves, RestartMoves
           DEF OnDeviceStep, Answers
      <4> QED
        BY <2>2, <4>3 DEF EndPcs
    <3> QED
      BY <3>2, <3>3, <3>4
  <2>3. CASE q = r /\ ~mem[r].lost
    <3>1. LoseAnswer(r) \/ RotatedUser(r)
      BY <1>6, <2>3, LostEffect
    <3>2. LoseAnswer(r) => pc'[r] = "settle"
      BY GotoMoves DEF LoseAnswer
    <3>3. RotatedUser(r) => pc'[r] \in {"back"} \cup Answers
      <4>1. RotatedUser(r) => \E a \in {"200", "500", "401"} : Goto(r, "rotated_user", IF OnDevice(r) THEN "back" ELSE a)
        BY DEF RotatedUser, Replies
      <4> QED
        BY <4>1, GotoMoves DEF Answers
    <3> QED
      BY <2>3, <3>1, <3>2, <3>3
  <2> QED
    BY <2>1, <2>2, <2>3
<1>7. \A d \in Devices : /\ device'[d].tokens # Absent => Holder(d, device[d].tokens.session)'
                         /\ device'[d].stored # Absent => Holder(d, device[d].stored.session)'
  <2> SUFFICES ASSUME NEW d \in Devices
               PROVE  /\ device'[d].tokens # Absent => Holder(d, device[d].tokens.session)'
                      /\ device'[d].stored # Absent => Holder(d, device[d].stored.session)'
    OBVIOUS
  <2>1. PICK s : device'[d].tokens.session = s
    OBVIOUS
  <2>2. PICK k : device'[d].stored.session = k
    OBVIOUS
  <2>3. (device'[d].tokens # Absent => Holder(d, s)') /\ (device'[d].stored # Absent => Holder(d, k)')
    BY <2>1, <2>2, DeviceHolds
  <2> QED
    BY <2>1, <2>2, <2>3 DEF Holder, Wins
<1>8. \A q \in Requests : Is(q, {"use", "signout"})' /\ mem'[q].cred # Absent =>
         Holder(call[q].device, mem[q].cred.session)'
  BY <1>1, <1>3 DEF Holder, Is
<1>9. \A q \in Requests : Is(q, {"refresh", "revoke"})' /\ mem'[q].cred # Absent => mem'[q].cred.session = call'[q].session
  BY <1>1, <1>4 DEF Is
<1> QED
  BY <1>5, <1>6, <1>7, <1>8, <1>9 DEF HoldInv

LEMMA HoldNext == TypeInv /\ HoldInv /\ [Next]_vars => HoldInv'
<1> SUFFICES ASSUME TypeInv, HoldInv, [Next]_vars PROVE HoldInv'
  OBVIOUS
<1>1. CASE Idle
  <2>1. call' = call /\ seed' = seed /\ pc' = pc /\ mem' = mem
    BY <1>1 DEF Idle, given
  <2>2. \A d, s : Holder(d, s) => Holder(d, s)'
    BY <2>1 DEF Holder, Ours, Wins, Is
  <2> QED
    BY <1>1, <2>1, <2>2 DEF HoldInv, Idle, Adopts, Is
<1> QED
  BY <1>1, NextCases, HoldStep

-----------------------------------------------------------------------------
(* What a device holds while nobody disturbs it.                            *)
LEMMA CalmBefore ==
    ASSUME TypeInv, HoldInv, NEW r \in Requests, Step(r), NEW d, Calm(d)'
    PROVE  Calm(d)
<1>1. call' = call
  BY StepFrame DEF given
<1>2. ASSUME NEW q \in Requests PROVE (mem[q].lost => mem'[q].lost) /\ (mem[q].orphan => mem'[q].orphan)
  <2>1. mem[q] \in Memory /\ DOMAIN mem[q] = Fields
    BY TypeParts, MemoryType
  <2>2. CASE q # r
    <3> DEFINE yes == TRUE
    <3>1. mem'[q].lost = mem[q].lost /\ mem'[q] \in {mem[q], [mem[q] EXCEPT !.orphan = yes]}
      BY <2>2, StepFrame, OthersKeep DEF Orphaned
    <3> HIDE DEF yes
    <3>2. mem'[q].orphan \in {mem[q].orphan, yes}
      BY <2>1, <3>1 DEF Fields
    <3> QED
      BY <3>1, <3>2 DEF yes
  <2>3. CASE q = r
    <3>1. LoseAnswer(r) => mem'[r].lost
      <4> DEFINE yes == TRUE
      <4>1. LoseAnswer(r) => mem'[r] = [mem[r] EXCEPT !.answer = "null", !.lost = yes]
        BY HoldsMoves DEF LoseAnswer
      <4> HIDE DEF yes
      <4>2. LoseAnswer(r) => mem'[r].lost = yes
        BY <2>1, <2>3, <4>1 DEF Fields
      <4> QED
        BY <4>2 DEF yes
    <3>2. RotatedUser(r) => ~mem[r].lost
      BY DEF RotatedUser, HoldInv, EndPcs, Answers
    <3> QED
      BY <2>3, <3>1, <3>2, LostEffect
  <2> QED
    BY <2>2, <2>3
<1> QED
  BY <1>1, <1>2 DEF Calm, Steady, Overlap, Is

LEMMA SignInAlone ==
    ASSUME TypeInv, InOrder, NEW d, Steady(d), NEW p \in Ours(d), NEW q \in Ours(d), p # q,
           Is(p, {"callback", "collect"}), pc[p] \notin Answers \cup {"send"}
    PROVE  pc[q] \in Answers \cup {"send"}
BY DEF Steady, Ours, Overlap, InOrder

(* What goes on between two calls of a device's requests.                   *)
Same(q) == pc'[q] = pc[q] /\ mem'[q].cred = mem[q].cred /\ mem'[q].answer = mem[q].answer
SameDevice(d) ==
    /\ device'[d].tokens = device[d].tokens /\ device'[d].stored = device[d].stored
    /\ device'[d].refreshing = device[d].refreshing

LEMMA TidyKept ==
    ASSUME NEW d \in Devices, Tidy(d), call' = call, SameDevice(d), \A q \in Ours(d) : Same(q)
    PROVE  Tidy(d)'
BY DEF Tidy, Placed, InFlightOK, Rotating, Leaving, Ours, Is, Same, SameDevice

LEMMA TidyQuiet ==
    ASSUME NEW d \in Devices, Tidy(d), call' = call, SameDevice(d),
           NEW r \in Ours(d), \A q \in Ours(d) \ {r} : Same(q),
           pc[r] \notin {"persist", "clear"}, Placed(d, r)', device[d].refreshing = r => InFlightOK(d, r)'
    PROVE  Tidy(d)'
<1>1. Ours(d)' = Ours(d)
  BY DEF Ours
<1>2. ASSUME NEW q \in Ours(d) PROVE Placed(d, q)'
  <2>1. CASE q # r
    BY <2>1 DEF Tidy, Placed, Rotating, Leaving, Is, Same, SameDevice
  <2> QED
    BY <2>1
<1>3. ASSUME device'[d].refreshing # Absent PROVE InFlightOK(d, device[d].refreshing)'
  <2>1. InFlightOK(d, device[d].refreshing) /\ device'[d].refreshing = device[d].refreshing
    BY <1>3 DEF Tidy, SameDevice
  <2>2. CASE device[d].refreshing # r
    <3>1. Same(device[d].refreshing)
      BY <2>1, <2>2 DEF InFlightOK
    <3> QED
      BY <1>1, <2>1, <3>1 DEF InFlightOK, Rotating, Is, Same, SameDevice
  <2>3. CASE device[d].refreshing = r
    BY <2>1, <2>3 DEF InFlightOK, Rotating
  <2> QED
    BY <2>2, <2>3
<1>4. (\A q \in Ours(d) : pc'[q] \notin {"persist", "clear"}) => device'[d].stored = device'[d].tokens
  BY DEF Tidy, Same, SameDevice
<1> QED
  BY <1>1, <1>2, <1>3, <1>4 DEF Tidy

LEMMA RotateOutcome ==
    ASSUME TypeInv, NEW r \in Requests, RotateSession(r), OnDevice(r)
    PROVE  \/ pc'[r] \in RotatePcs /\ mem'[r].cred = mem[r].cred /\ ~RotatedUser(r)
           \/ pc'[r] = "back" /\ mem'[r].answer = "401" /\ mem'[r].cred = mem[r].cred
           \/ /\ RotatedUser(r) /\ pc'[r] = "back" /\ mem'[r].answer \in {"200", "401", "500"}
              /\ mem[r].cred \in Cred /\ mem'[r].cred = [mem[r].cred EXCEPT !.secret = r]
              /\ mem'[r].answer = "500" => mem'[r].lost
<1>1. mem[r] \in Memory /\ DOMAIN mem[r] = Fields /\ StageOf(r) /\ pc[r] \in RotatePcs
  BY TypeParts, MemoryType, RotateMoves
<1>2. CASE RotateGet(r)
  <2> DEFINE s == Presented(r).session
             rec == sessions[s]
             verdict == RotateVerdict(r, rec)
             replayed == Replays(r, rec)
             m == [mem[r] EXCEPT !.rec = rec, !.presented = s, !.replayed = replayed]
  <2>1. \/ verdict \in Answers /\ Replies(r, "rotate_get", verdict, m)
        \/ verdict \notin Answers /\ Goto(r, "rotate_get", verdict) /\ Holds(r, m)
    BY <1>2 DEF RotateGet
  <2>2. verdict \in {"401", "expire", "rotate", "tombstone"} /\ pc[r] = "rotate_get"
    BY <1>2 DEF RotateVerdict, RotateGet
  <2> HIDE DEF s, rec, verdict, replayed
  <2>3. m.cred = mem[r].cred /\ DOMAIN m = Fields
    BY <1>1 DEF Fields
  <2> HIDE DEF m
  <2>4. CASE verdict \in Answers /\ Replies(r, "rotate_get", verdict, m)
    <3>1. verdict = "401"
      BY <2>2, <2>4 DEF Answers
    <3>2. pc'[r] = "back" /\ mem'[r] = [m EXCEPT !.answer = "401"]
      BY <2>4, <3>1, RepliesMoves
    <3> QED
      BY <2>3, <3>2 DEF Fields
  <2>5. CASE verdict \notin Answers /\ Goto(r, "rotate_get", verdict) /\ Holds(r, m)
    <3>1. pc'[r] = verdict /\ mem'[r] = m
      BY <2>5, GotoMoves, HoldsMoves
    <3> QED
      BY <2>2, <2>3, <2>5, <3>1 DEF Answers, RotatePcs, RotatedUser
  <2> QED
    BY <2>1, <2>4, <2>5
<1>3. CASE Expire(r) \/ Rotate(r)
  BY <1>3, GotoMoves DEF Expire, Rotate, RotatePcs, RotatedUser, Goto
<1>4. CASE ExpireIndex(r) \/ Tombstone(r)
  <2>1. "401" \in Answers
    BY DEF Answers
  <2>2. pc'[r] = "back" /\ mem'[r] = [mem[r] EXCEPT !.answer = "401"]
    BY <1>4, <2>1, RepliesMoves DEF ExpireIndex, Tombstone
  <2> QED
    BY <1>1, <2>2 DEF Fields
<1>5. CASE RotatedUser(r)
  <2>1. PICK answer \in {"200", "401", "500"} :
           Replies(r, "rotated_user", answer, [mem[r] EXCEPT !.cred.secret = r, !.lost = answer = "500"])
    BY <1>5 DEF RotatedUser
  <2> DEFINE c == [mem[r].cred EXCEPT !.secret = r]
             lost == answer = "500"
             m == [mem[r] EXCEPT !.cred = c, !.lost = lost]
  <2>2. Replies(r, "rotated_user", answer, m) /\ answer \in Answers
    BY <1>1, <2>1 DEF Fields, Answers
  <2> HIDE DEF c, lost
  <2>3. m.cred = c /\ m.lost = lost /\ DOMAIN m = Fields
    BY <1>1 DEF Fields
  <2> HIDE DEF m
  <2>4. pc'[r] = "back" /\ mem'[r] = [m EXCEPT !.answer = answer]
    BY <2>2, RepliesMoves
  <2>5. mem'[r].cred = c /\ mem'[r].lost = lost /\ mem'[r].answer = answer
    BY <2>3, <2>4 DEF Fields
  <2>6. mem[r].cred \in Cred
    BY <1>1, <1>5 DEF RotatedUser, StageOf, Stage, RotatePcs
  <2> QED
    BY <1>5, <2>4, <2>5, <2>6 DEF c, lost
<1> QED
  BY <1>2, <1>3, <1>4, <1>5 DEF RotateSession

LEMMA EndOutcome ==
    ASSUME TypeInv, NEW r \in Requests, EndSessionOwnedBy(r), OnDevice(r)
    PROVE  pc'[r] \in EndPcs \/ (pc'[r] = "back" /\ mem'[r].answer = "204")
<1>1. DOMAIN mem[r] = Fields /\ "204" \in Answers
  BY TypeParts, MemoryType DEF Answers
<1>2. ASSUME NEW from, NEW m, DOMAIN m = Fields, Replies(r, from, "204", m)
      PROVE  pc'[r] = "back" /\ mem'[r].answer = "204"
  <2>1. mem'[r].answer = "204"
    BY <1>2, ReplyAnswers
  <2>2. pc'[r] = "back"
    BY <1>2, GotoMoves DEF Replies
  <2> QED
    BY <2>1, <2>2
<1>3. CASE EndGet(r)
  <2>1. PICK x, ends :
           \/ Goto(r, "end_get", "end_session")
           \/ Replies(r, "end_get", "204", [mem[r] EXCEPT !.rec = x, !.ended = ends])
    BY <1>3 DEF EndGet
  <2>2. DOMAIN [mem[r] EXCEPT !.rec = x, !.ended = ends] = Fields
    BY <1>1
  <2> QED
    BY <1>2, <2>1, <2>2, GotoMoves DEF EndPcs
<1>4. CASE EndSession(r)
  BY <1>4, GotoMoves DEF EndSession, EndPcs
<1>5. CASE EndIndex(r)
  BY <1>1, <1>2, <1>5 DEF EndIndex
<1> QED
  BY <1>3, <1>4, <1>5 DEF EndSessionOwnedBy

(* A call of the server on behalf of a device.                              *)
LEMMA TidyServer ==
    ASSUME TypeInv, HoldInv, NEW d \in Devices, Calm(d)', Tidy(d), NEW r \in Ours(d), Step(r), ~OnDeviceStep(r)
    PROVE  Tidy(d)'
<1>1. /\ r \in Requests /\ call[r].device = d /\ OnDevice(r) /\ call' = call /\ StageOf(r)
      /\ SameDevice(d) /\ \A q \in Ours(d) \ {r} : Same(q)
  <2>1. r \in Requests /\ call[r].device = d /\ OnDevice(r)
    BY AuthAssumption DEF Ours, OnDevice
  <2>2. SameDevice(d)
    BY <2>1, OtherDevices DEF SameDevice
  <2>3. \A q \in Ours(d) \ {r} : Same(q)
    BY <2>1, StepFrame, OthersKeep DEF Same, Ours
  <2> QED
    BY <2>1, <2>2, <2>3, StepFrame, TypeParts DEF given
<1>2. pc[r] \notin {"persist", "clear", "settle", "back"} /\ pc'[r] \notin {"persist", "clear", "settle"}
  BY <1>1, StepCases, StartMoves, CodeMoves, ParkMoves, PeopleMoves, SeatMoves, RotateMoves, EndMoves, ListMoves,
     FillMoves, EraseMoves, SendMoves
     DEF StartPcs, SweepPcs, ConsumePcs, ConsumedPcs, RefundPcs, CodePcs, TakePcs, PeoplePcs, SeatPcs, BouncePcs,
         RotatePcs, EndPcs, ListPcs, FillPcs, ErasePcs, Left, Answers
<1>3. CASE ~Is(r, {"use"})
  <2>1. Placed(d, r)'
    BY <1>1, <1>2, <1>3 DEF Placed, Rotating, Leaving, Is
  <2>2. device[d].refreshing # r
    BY <1>1, <1>3, AuthAssumption DEF Tidy, InFlightOK, Secrets
  <2> QED
    BY <1>1, <1>2, <2>1, <2>2, TidyQuiet
<1>4. CASE RotateSession(r) /\ Is(r, {"use"})
  <2>1. device[d].refreshing = r /\ InFlightOK(d, r) /\ Rotating(r)
    BY <1>1, <1>4, RotateMoves, AuthAssumption DEF Tidy, Placed, Rotating, Secrets
  <2>2. pc'[r] \in RotatePcs \/ (pc'[r] = "back" /\ mem'[r].answer \in {"200", "401"})
    BY <1>1, <1>4, RotateOutcome DEF Calm, Steady
  <2>3. mem'[r].cred # Absent /\ mem'[r].cred.session = mem[r].cred.session /\ (pc'[r] \in RotatePcs => mem'[r].cred = mem[r].cred)
        /\ (pc'[r] = "back" /\ mem'[r].answer = "200" => mem'[r].cred.secret = r)
    <3>1. mem[r].cred \in Cred => LET c == [mem[r].cred EXCEPT !.secret = r]
                                  IN  c # Absent /\ c.session = mem[r].cred.session /\ c.secret = r
      <4> DEFINE c == [mem[r].cred EXCEPT !.secret = r]
      <4>1. mem[r].cred \in Cred => c \in Cred /\ c.session = mem[r].cred.session /\ c.secret = r
        BY <1>1 DEF Cred, Secrets
      <4> QED
        BY <4>1, AuthAssumption
    <3>2. mem[r].cred # Absent
      BY <2>1 DEF InFlightOK
    <3> QED
      BY <1>1, <1>4, <3>1, <3>2, RotateOutcome DEF RotatePcs
  <2>4. Placed(d, r)'
    <3>1. ~Leaving(r)'
      BY <2>2 DEF Leaving, RotatePcs, EndPcs
    <3>2. device'[d].refreshing = r
      BY <1>1, <2>1 DEF SameDevice
    <3> QED
      BY <1>2, <3>1, <3>2 DEF Placed
  <2>5. InFlightOK(d, r)'
    <3>1. Is(r, {"use"})' /\ r \in Ours(d)'
      BY <1>1, <1>4 DEF Is, Ours
    <3>2. Rotating(r)'
      BY <2>2, <3>1 DEF Rotating
    <3>3. /\ device'[d].tokens = device[d].tokens /\ device[d].tokens # Absent
          /\ mem[r].cred.session = device[d].tokens.session
          /\ pc[r] \in RotatePcs /\ mem[r].cred = device[d].tokens
      BY <1>1, <1>4, <2>1, RotateMoves DEF SameDevice, InFlightOK
    <3> QED
      BY <2>2, <2>3, <3>1, <3>2, <3>3 DEF InFlightOK, RotatePcs
  <2> QED
    BY <1>1, <1>2, <2>4, <2>5, TidyQuiet
<1>5. CASE EndSessionOwnedBy(r) /\ Is(r, {"use"})
  <2>1. device[d].tokens = Absent /\ device[d].refreshing = Absent
    BY <1>1, <1>5, EndMoves DEF Tidy, Placed, Leaving
  <2>2. pc'[r] \in EndPcs \/ (pc'[r] = "back" /\ mem'[r].answer = "204")
    BY <1>1, <1>5, EndOutcome
  <2>3. Placed(d, r)'
    BY <1>1, <2>1, <2>2 DEF Placed, Rotating, Leaving, Is, SameDevice, RotatePcs, EndPcs
  <2> QED
    BY <1>1, <1>2, <2>1, <2>3, TidyQuiet, AuthAssumption DEF Secrets
<1>6. CASE Send(r) /\ Is(r, {"use"})
  <2>1. pc[r] = "send" /\ pc'[r] = "use"
    BY <1>1, <1>6, GotoMoves DEF Send, FirstStep, Is
  <2>2. device[d].refreshing # r
    BY <1>1, <2>1, AuthAssumption DEF Tidy, InFlightOK, Rotating, RotatePcs, Secrets
  <2>3. Placed(d, r)'
    BY <2>1 DEF Placed, Rotating, Leaving, RotatePcs, EndPcs
  <2> QED
    BY <1>1, <1>2, <2>2, <2>3, TidyQuiet
<1> QED
  <2>1. Is(r, {"use"}) => RotateSession(r) \/ EndSessionOwnedBy(r) \/ Send(r)
    BY <1>1, StepCases, StartMoves, CodeMoves, ParkMoves, PeopleMoves, SeatMoves, ListMoves, FillMoves, EraseMoves
       DEF StageOf, Stage, Is, BouncePcs
  <2> QED
    BY <1>3, <1>4, <1>5, <1>6, <2>1

(* The facts about the requests of a device that a step of one of them      *)
(* builds on.                                                               *)
LEMMA Ground ==
    ASSUME TypeInv, NEW d \in Devices, NEW r \in Ours(d), Step(r)
    PROVE  /\ r \in Requests /\ call[r].device = d /\ OnDevice(r) /\ call' = call /\ StageOf(r) /\ r # Absent
           /\ Ours(d)' = Ours(d) /\ Of(r) = device[d] /\ \A q \in Ours(d) : q \in Requests /\ q # Absent
           /\ \A q \in Ours(d) \ {r} : Same(q)
<1>1. r \in Requests /\ call[r].device = d /\ \A q \in Ours(d) : q \in Requests
  BY DEF Ours
<1>2. \A q \in Ours(d) \ {r} : Same(q)
  BY <1>1, StepFrame, OthersKeep DEF Same
<1>3. call' = call /\ StageOf(r)
  BY <1>1, StepFrame, TypeParts DEF given
<1> QED
  BY <1>1, <1>2, <1>3, AuthAssumption DEF Ours, OnDevice, Of, Secrets

(* A step that leaves the device alone.                                     *)
LEMMA TidyLocal ==
    ASSUME TypeInv, HoldInv, NEW d \in Devices, Calm(d)', Calm(d), Tidy(d), NEW r \in Ours(d), Step(r), OnDeviceStep(r),
           (UseToken(r) /\ pc'[r] # "rotate_get") \/ Joined(r) \/ LoseRequest(r) \/ LoseAnswer(r) \/ Report(r) \/ Abandoned(r)
    PROVE  Tidy(d)'
<1>1. /\ r \in Requests /\ call[r].device = d /\ OnDevice(r) /\ call' = call /\ StageOf(r) /\ r # Absent
      /\ Of(r) = device[d] /\ \A q \in Ours(d) \ {r} : Same(q)
  BY Ground
<1>2. SameDevice(d)
  BY <1>1, UseTokenMoves, QuietDevice DEF Untouched, After, SameDevice
<1>3. device[d].refreshing = r => InFlightOK(d, r)
  BY <1>1 DEF Tidy
<1>4. Placed(d, r)
  BY DEF Tidy
<1>5. CASE UseToken(r) /\ pc'[r] # "rotate_get"
  <2>1. pc[r] = "use" /\ pc'[r] \in {"200", "null", "joined"}
    BY <1>1, <1>5, UseTokenMoves
  <2>2. Placed(d, r)'
    BY <2>1 DEF Placed, Rotating, Leaving, RotatePcs, EndPcs
  <2>3. device[d].refreshing # r
    BY <1>3, <2>1 DEF InFlightOK, Rotating, RotatePcs
  <2> QED
    BY <1>1, <1>2, <2>1, <2>2, <2>3, TidyQuiet
<1>6. CASE Joined(r)
  <2>1. pc[r] = "joined" /\ pc'[r] \in Answers
    BY <1>1, <1>6, GotoMoves DEF Joined, Answers
  <2>2. Placed(d, r)'
    BY <2>1 DEF Placed, Rotating, Leaving, RotatePcs, EndPcs, Answers
  <2>3. device[d].refreshing # r
    BY <1>3, <2>1 DEF InFlightOK, Rotating, RotatePcs
  <2> QED
    BY <1>1, <1>2, <2>1, <2>2, <2>3, TidyQuiet
<1>7. CASE LoseRequest(r)
  <2>1. pc[r] \in {"rotate_get", "end_get"} /\ pc'[r] = "settle"
    BY <1>1, <1>7, GotoMoves DEF LoseRequest
  <2>2. Placed(d, r)'
    <3>1. ~Rotating(r)' /\ ~Leaving(r)' /\ pc'[r] # "persist"
      BY <2>1 DEF Rotating, Leaving, RotatePcs, EndPcs
    <3>2. Is(r, {"use"}) => device[d].refreshing = r \/ (device[d].tokens = Absent /\ device[d].refreshing = Absent)
      BY <1>4, <2>1 DEF Placed, Rotating, Leaving, RotatePcs, EndPcs
    <3> QED
      BY <1>1, <1>2, <3>1, <3>2 DEF Placed, SameDevice, Is
  <2>3. device[d].refreshing = r => InFlightOK(d, r)'
    <3>1. Is(r, {"use"})' = Is(r, {"use"}) /\ ~Rotating(r)' /\ r \in Ours(d)'
      BY <1>1, <2>1 DEF Is, Rotating, RotatePcs, Ours
    <3> QED
      BY <1>2, <1>3, <2>1, <3>1 DEF InFlightOK, SameDevice, RotatePcs
  <2> QED
    BY <1>1, <1>2, <2>1, <2>2, <2>3, TidyQuiet
<1>8. CASE LoseAnswer(r)
  <2> DEFINE yes == TRUE
  <2>1. mem'[r] = [mem[r] EXCEPT !.answer = "null", !.lost = yes] /\ DOMAIN mem[r] = Fields
    BY <1>1, <1>8, HoldsMoves, TypeParts, MemoryType DEF LoseAnswer
  <2>2. mem'[r].lost = yes
    <3> HIDE DEF yes
    <3> QED
      BY <2>1 DEF Fields
  <2> QED
    BY <1>1, <2>2 DEF Calm, Steady
<1>9. CASE Report(r)
  <2>1. pc[r] = "back" /\ pc'[r] = "settle" /\ ~Adopts(r) /\ ~Refused401(r)
    BY <1>1, <1>9, GotoMoves DEF Report
  <2>2. Is(r, {"use"}) => device[d].tokens = Absent /\ device[d].refreshing = Absent
    BY <1>3, <1>4, <2>1 DEF Placed, InFlightOK, Rotating, Leaving, Adopts, Refused401, Is
  <2>3. device[d].refreshing # r
    BY <1>1, <1>3, <2>2 DEF InFlightOK
  <2>4. Placed(d, r)'
    <3>1. ~Rotating(r)' /\ ~Leaving(r)' /\ pc'[r] # "persist"
      BY <2>1 DEF Rotating, Leaving, RotatePcs, EndPcs
    <3> QED
      BY <1>1, <1>2, <2>2, <3>1 DEF Placed, SameDevice, Is
  <2> QED
    BY <1>1, <1>2, <2>1, <2>3, <2>4, TidyQuiet
<1>10. CASE Abandoned(r)
  BY <1>1, <1>10 DEF Abandoned, Calm, Steady
<1> QED
  BY <1>5, <1>6, <1>7, <1>8, <1>9, <1>10

LEMMA TidyUse ==
    ASSUME TypeInv, NEW d \in Devices, Tidy(d), NEW r \in Ours(d), Step(r), OnDeviceStep(r), UseToken(r), pc'[r] = "rotate_get"
    PROVE  Tidy(d)'
<1>1. /\ r \in Requests /\ call[r].device = d /\ OnDevice(r) /\ call' = call /\ StageOf(r) /\ r # Absent
      /\ Ours(d)' = Ours(d) /\ Of(r) = device[d] /\ (\A q \in Ours(d) : q # Absent) /\ \A q \in Ours(d) \ {r} : Same(q)
  BY Ground
<1>2. /\ Is(r, {"use"}) /\ pc[r] = "use" /\ mem'[r].cred = device[d].tokens /\ device[d].tokens # Absent
      /\ device[d].refreshing = Absent /\ device'[d].refreshing = r
      /\ device'[d].tokens = device[d].tokens /\ device'[d].stored = device[d].stored
  BY <1>1, UseTokenMoves DEF After
<1>3. Rotating(r)' /\ ~Leaving(r)'
  BY <1>1, <1>2 DEF Rotating, Leaving, Is, RotatePcs, EndPcs
<1>4. ASSUME NEW q \in Ours(d) PROVE Placed(d, q)'
  <2>1. CASE q = r
    BY <1>2, <1>3, <2>1 DEF Placed
  <2>2. CASE q # r
    <3>1. ~Rotating(q) /\ ~Leaving(q) /\ ~(Is(q, {"use"}) /\ pc[q] = "settle")
      BY <1>1, <1>2 DEF Tidy, Placed
    <3>2. pc[q] = "persist" => device[d].tokens = mem[q].cred
      BY DEF Tidy, Placed
    <3>3. Same(q)
      BY <1>1, <2>2
    <3> QED
      BY <1>1, <1>2, <3>1, <3>2, <3>3 DEF Placed, Rotating, Leaving, Is, Same
  <2> QED
    BY <2>1, <2>2
<1>5. InFlightOK(d, r)'
  BY <1>1, <1>2, <1>3 DEF InFlightOK, Is
<1>6. (\A q \in Ours(d) : pc'[q] \notin {"persist", "clear"}) => device'[d].stored = device'[d].tokens
  BY <1>1, <1>2 DEF Tidy, Same
<1>7. InFlightOK(d, device[d].refreshing)'
  BY <1>2, <1>5 DEF InFlightOK, Rotating, Ours, Is
<1> QED
  BY <1>1, <1>4, <1>6, <1>7 DEF Tidy

(* While a sign-in is under way nothing else of a calm device is.           *)
LEMMA Idling ==
    ASSUME TypeInv, InOrder, HoldInv, NEW d \in Devices, Calm(d), Tidy(d), NEW r \in Ours(d),
           Is(r, {"callback", "collect"}), pc[r] \notin Answers \cup {"send"}
    PROVE  /\ \A q \in Ours(d) \ {r} : ~Rotating(q) /\ ~Leaving(q) /\ pc[q] \notin {"settle", "persist", "clear"}
           /\ device[d].refreshing = Absent
<1>1. ASSUME NEW q \in Ours(d) \ {r} PROVE ~Rotating(q) /\ ~Leaving(q) /\ pc[q] \notin {"settle", "persist", "clear"}
  <2>1. pc[q] \in Answers \cup {"send"}
    BY SignInAlone DEF Calm
  <2> QED
    BY <2>1 DEF Rotating, Leaving, Answers, RotatePcs, EndPcs
<1>2. ASSUME device[d].refreshing # Absent PROVE FALSE
  <2>1. InFlightOK(d, device[d].refreshing)
    BY <1>2 DEF Tidy
  <2> QED
    BY <1>1, <2>1 DEF InFlightOK, Is
<1> QED
  BY <1>1, <1>2

(* The one that refreshes is alone with the tokens.                         *)
LEMMA Refreshing ==
    ASSUME TypeInv, InOrder, HoldInv, NEW d \in Devices, Calm(d), Tidy(d), NEW r \in Ours(d),
           Is(r, {"use"}), Rotating(r), pc[r] # "send"
    PROVE  /\ \A q \in Ours(d) \ {r} : ~Rotating(q) /\ ~Leaving(q) /\ pc[q] # "persist"
                                       /\ ~(Is(q, {"use"}) /\ pc[q] = "settle")
           /\ device[d].refreshing = r /\ InFlightOK(d, r)
<1>1. device[d].refreshing = r /\ r # Absent
  BY AuthAssumption DEF Tidy, Placed, Ours, Secrets
<1>2. InFlightOK(d, r)
  BY <1>1 DEF Tidy
<1>3. ASSUME NEW q \in Ours(d) \ {r}
      PROVE  ~Rotating(q) /\ ~Leaving(q) /\ ~(Is(q, {"use"}) /\ pc[q] = "settle")
  BY <1>1, <1>2 DEF Tidy, Placed, InFlightOK
<1>4. ASSUME NEW q \in Ours(d) \ {r}, pc[q] = "persist" PROVE FALSE
  <2>1. Is(q, {"use", "callback", "collect"})
    BY <1>4 DEF HoldInv, Adopts, Ours
  <2>2. Is(q, {"callback", "collect"})
    BY <1>3, <1>4, <2>1 DEF Rotating, Is
  <2>3. pc[q] \notin Answers \cup {"send"} /\ pc[r] \notin Answers \cup {"send"}
    BY <1>4 DEF Answers, Rotating, RotatePcs
  <2> QED
    BY <2>2, <2>3, SignInAlone DEF Calm
<1> QED
  BY <1>1, <1>2, <1>3, <1>4

LEMMA TidyAdopt ==
    ASSUME TypeInv, InOrder, HandInv, HoldInv, NEW d \in Devices, Calm(d), Tidy(d), NEW r \in Ours(d), Step(r),
           OnDeviceStep(r), Adopt(r)
    PROVE  Tidy(d)'
<1>1. /\ r \in Requests /\ call[r].device = d /\ OnDevice(r) /\ call' = call /\ r # Absent
      /\ Ours(d)' = Ours(d) /\ Of(r) = device[d] /\ \A q \in Ours(d) \ {r} : Same(q)
  BY Ground
<1>2. /\ pc[r] = "back" /\ pc'[r] = "persist" /\ Adopts(r) /\ mem'[r] = mem[r] /\ mem[r].answer = "200"
      /\ device'[d].tokens = mem[r].cred /\ device'[d].stored = device[d].stored
      /\ device'[d].refreshing = device[d].refreshing
  BY <1>1, AdoptMoves DEF After, Adopts
<1>3. ASSUME NEW q \in Ours(d) \ {r}, ~Rotating(q), ~Leaving(q), pc[q] # "persist", ~(Is(q, {"use"}) /\ pc[q] = "settle")
      PROVE  Placed(d, q)'
  BY <1>1, <1>3 DEF Placed, Rotating, Leaving, Is, Same
<1>4. CASE Is(r, {"use"})
  <2>1. Rotating(r)
    BY <1>2, <1>4 DEF Rotating
  <2>2. InFlightOK(d, r) /\ device[d].refreshing = r /\ \A q \in Ours(d) \ {r} : Placed(d, q)'
    BY <1>2, <1>3, <1>4, <2>1, Refreshing
  <2>3. Rotating(r)' /\ ~Leaving(r)' /\ Is(r, {"use"})'
    BY <1>1, <1>2, <1>4 DEF Rotating, Leaving, Is, EndPcs
  <2>4. mem[r].cred # Absent
    BY <2>1, <2>2 DEF InFlightOK
  <2>5. Placed(d, r)'
    BY <1>2, <2>2, <2>3, <2>4 DEF Placed
  <2>6. InFlightOK(d, r)'
    BY <1>1, <1>2, <2>3, <2>4 DEF InFlightOK, RotatePcs
  <2> QED
    BY <1>1, <1>2, <2>2, <2>5, <2>6 DEF Tidy, InFlightOK, Rotating, Is
<1>5. CASE Is(r, {"callback", "collect"})
  <2>1. /\ device[d].refreshing = Absent
        /\ \A q \in Ours(d) \ {r} : ~Rotating(q) /\ ~Leaving(q) /\ pc[q] \notin {"settle", "persist", "clear"}
    BY <1>2, <1>5, Idling DEF Answers
  <2>2. \A q \in Ours(d) \ {r} : Placed(d, q)'
    BY <1>3, <2>1
  <2>3. mem[r].cred # Absent
    <3>1. \E p \in Requests : mem[r].cred = IssuedBy(p) /\ SignedIn(p)
      BY <1>1, <1>2, <1>5, WinnerOpens DEF Wins
    <3> QED
      BY <1>1, <1>2, <1>5, <3>1 DEF HandInv, SignedIn
  <2>4. ~Is(r, {"use"})' /\ ~Rotating(r)' /\ ~Leaving(r)'
    BY <1>1, <1>5 DEF Rotating, Leaving, Is
  <2>5. Placed(d, r)'
    BY <1>2, <2>3, <2>4 DEF Placed
  <2> QED
    BY <1>1, <1>2, <2>1, <2>2, <2>5 DEF Tidy
<1> QED
  BY <1>2, <1>4, <1>5 DEF Adopts, Is

LEMMA TidyPersist ==
    ASSUME TypeInv, NEW d \in Devices, Tidy(d), NEW r \in Ours(d), Step(r), OnDeviceStep(r), Persist(r)
    PROVE  Tidy(d)'
<1>1. /\ r \in Requests /\ call[r].device = d /\ call' = call /\ r # Absent
      /\ Ours(d)' = Ours(d) /\ Of(r) = device[d] /\ \A q \in Ours(d) \ {r} : Same(q)
  BY Ground
<1>2. /\ pc[r] = "persist" /\ pc'[r] = "settle" /\ mem'[r] = mem[r]
      /\ device'[d].tokens = device[d].tokens /\ device'[d].stored = mem[r].cred
      /\ device'[d].refreshing = device[d].refreshing
  BY <1>1, PersistMoves DEF After
<1>3. device[d].tokens = mem[r].cred /\ (Is(r, {"use"}) => device[d].refreshing = r)
  BY <1>2 DEF Tidy, Placed, Rotating
<1>4. ASSUME NEW q \in Ours(d) PROVE Placed(d, q)'
  <2>1. CASE q = r
    <3>1. ~Rotating(r)' /\ ~Leaving(r)'
      BY <1>2 DEF Rotating, Leaving, RotatePcs, EndPcs
    <3> QED
      BY <1>1, <1>2, <1>3, <2>1, <3>1 DEF Placed, Is
  <2>2. CASE q # r
    BY <1>1, <1>2, <2>2 DEF Tidy, Placed, Rotating, Leaving, Is, Same
  <2> QED
    BY <2>1, <2>2
<1>5. ASSUME device'[d].refreshing # Absent PROVE InFlightOK(d, device[d].refreshing)'
  <2>1. InFlightOK(d, device[d].refreshing)
    BY <1>2, <1>5 DEF Tidy
  <2>2. CASE device[d].refreshing = r
    <3>1. ~Rotating(r)'
      BY <1>2 DEF Rotating, RotatePcs
    <3>2. InFlightOK(d, r)'
      BY <1>1, <1>2, <2>1, <2>2, <3>1 DEF InFlightOK, Is, RotatePcs
    <3> QED
      BY <1>2, <2>2, <3>2 DEF InFlightOK, Rotating, Is
  <2>3. CASE device[d].refreshing # r
    BY <1>1, <1>2, <2>1, <2>3 DEF InFlightOK, Rotating, Is, Same
  <2> QED
    BY <2>2, <2>3
<1> QED
  BY <1>1, <1>2, <1>3, <1>4, <1>5 DEF Tidy

LEMMA TidySignOut ==
    ASSUME TypeInv, InOrder, HoldInv, NEW d \in Devices, Calm(d), Tidy(d), NEW r \in Ours(d), Step(r),
           OnDeviceStep(r), SignOut(r)
    PROVE  Tidy(d)'
<1>1. /\ r \in Requests /\ call[r].device = d /\ call' = call /\ StageOf(r)
      /\ Ours(d)' = Ours(d) /\ Of(r) = device[d] /\ \A q \in Ours(d) \ {r} : Same(q)
  BY Ground
<1>2. /\ pc[r] = "back" /\ Is(r, {"use"}) /\ mem[r].answer = "401" /\ pc'[r] = "clear"
      /\ device'[d].tokens = Absent /\ device'[d].refreshing = Absent
  <2>1. pc[r] # "signout"
    BY <1>1 DEF Calm, StageOf, Stage, Is
  <2> QED
    BY <1>1, <2>1, SignOutMoves DEF After, Refused401
<1>3. Rotating(r)
  BY <1>2 DEF Rotating
<1>4. \A q \in Ours(d) \ {r} : ~Rotating(q) /\ ~Leaving(q) /\ pc[q] # "persist" /\ ~(Is(q, {"use"}) /\ pc[q] = "settle")
  BY <1>2, <1>3, Refreshing
<1>5. ASSUME NEW q \in Ours(d) PROVE Placed(d, q)'
  <2>1. CASE q = r
    <3>1. ~Rotating(r)'
      BY <1>2 DEF Rotating, RotatePcs
    <3> QED
      BY <1>2, <2>1, <3>1 DEF Placed
  <2>2. CASE q # r
    BY <1>1, <1>4, <2>2 DEF Placed, Rotating, Leaving, Is, Same
  <2> QED
    BY <2>1, <2>2
<1> QED
  BY <1>1, <1>2, <1>5 DEF Tidy

LEMMA TidyClear ==
    ASSUME TypeInv, NEW d \in Devices, Calm(d), Tidy(d), NEW r \in Ours(d), Step(r), OnDeviceStep(r), Clear(r)
    PROVE  Tidy(d)'
<1>1. /\ r \in Requests /\ call[r].device = d /\ call' = call /\ StageOf(r)
      /\ Ours(d)' = Ours(d) /\ Of(r) = device[d] /\ \A q \in Ours(d) \ {r} : Same(q)
  BY Ground
<1>2. /\ pc[r] = "clear" /\ Is(r, {"use"}) /\ pc'[r] \in {"settle", "end_get"}
      /\ device'[d].tokens = device[d].tokens /\ device'[d].stored = Absent
      /\ device'[d].refreshing = device[d].refreshing
  <2>1. pc[r] = "clear"
    BY <1>1, ClearMoves
  <2>2. Is(r, {"use"})
    BY <1>1, <2>1 DEF Calm, StageOf, Stage, Is
  <2> QED
    BY <1>1, <2>1, <2>2, ClearMoves DEF After
<1>3. device[d].tokens = Absent /\ device[d].refreshing = Absent
  BY <1>2 DEF Tidy, Placed, Leaving
<1>4. ASSUME NEW q \in Ours(d) PROVE Placed(d, q)'
  <2>1. CASE q = r
    <3>1. ~Rotating(r)' /\ pc'[r] # "persist"
      BY <1>2 DEF Rotating, RotatePcs
    <3> QED
      BY <1>2, <1>3, <2>1, <3>1 DEF Placed
  <2>2. CASE q # r
    BY <1>1, <1>2, <2>2 DEF Tidy, Placed, Rotating, Leaving, Is, Same
  <2> QED
    BY <2>1, <2>2
<1> QED
  BY <1>1, <1>2, <1>3, <1>4 DEF Tidy

LEMMA TidySettle ==
    ASSUME TypeInv, NEW d \in Devices, Tidy(d), NEW r \in Ours(d), Step(r), OnDeviceStep(r), Settle(r)
    PROVE  Tidy(d)'
<1>1. /\ r \in Requests /\ call[r].device = d /\ call' = call /\ r # Absent
      /\ Ours(d)' = Ours(d) /\ Of(r) = device[d] /\ (\A q \in Ours(d) : q # Absent) /\ \A q \in Ours(d) \ {r} : Same(q)
  BY Ground
<1>2. /\ pc[r] = "settle" /\ pc'[r] \in Answers
      /\ device'[d].tokens = device[d].tokens /\ device'[d].stored = device[d].stored
  BY <1>1, SettleMoves DEF Untouched, After
<1>3. ~Rotating(r)' /\ ~Leaving(r)' /\ pc'[r] \notin {"settle", "persist", "clear"}
  BY <1>2 DEF Rotating, Leaving, Answers, RotatePcs, EndPcs
<1>4. Placed(d, r)'
  BY <1>3 DEF Placed
<1>5. CASE ~Is(r, {"use"})
  <2>1. SameDevice(d)
    BY <1>1, <1>5, SettleMoves DEF Untouched, After, SameDevice
  <2>2. device[d].refreshing # r
    BY <1>1, <1>5 DEF Tidy, InFlightOK
  <2> QED
    BY <1>1, <1>2, <1>4, <2>1, <2>2, TidyQuiet
<1>6. CASE Is(r, {"use"})
  <2>1. device'[d].refreshing = Absent
    BY <1>1, <1>6, SettleMoves DEF After
  <2>2. device[d].refreshing = r \/ (device[d].tokens = Absent /\ device[d].refreshing = Absent)
    BY <1>2, <1>6 DEF Tidy, Placed
  <2>3. ASSUME NEW q \in Ours(d), q # r PROVE Placed(d, q)'
    BY <1>1, <1>2, <2>1, <2>2, <2>3 DEF Tidy, Placed, Rotating, Leaving, Is, Same
  <2>4. (\A q \in Ours(d) : pc'[q] \notin {"persist", "clear"}) => device'[d].stored = device'[d].tokens
    BY <1>1, <1>2 DEF Tidy, Same
  <2> QED
    BY <1>1, <1>4, <2>1, <2>3, <2>4 DEF Tidy
<1> QED
  BY <1>5, <1>6

LEMMA TidyRestart ==
    ASSUME TypeInv, NEW d \in Devices, Calm(d)', Tidy(d), NEW r \in Ours(d), Step(r), OnDeviceStep(r), Restart(r)
    PROVE  Tidy(d)'
<1>1. /\ r \in Requests /\ call[r].device = d /\ call' = call
      /\ Ours(d)' = Ours(d) /\ (\A q \in Ours(d) : q \in Requests) /\ \A q \in Ours(d) \ {r} : Same(q)
  BY Ground
<1>2. /\ pc'[r] = "null" /\ device'[d].tokens = device'[d].stored /\ device'[d].refreshing = Absent
  BY <1>1, RestartMoves DEF After
<1>3. ASSUME NEW q \in Ours(d) \ {r} PROVE pc'[q] \in Answers \cup {"send"}
  <2>1. ~mem'[q].orphan
    BY <1>1 DEF Calm, Steady, Ours
  <2>2. ~InProgress(q, d)
    BY <1>1, <2>1, RestartMoves
  <2> QED
    BY <1>1, <2>2 DEF InProgress, Same, Ours
<1>4. ASSUME NEW q \in Ours(d) PROVE Placed(d, q)'
  <2>1. pc'[q] \in Answers \cup {"send"}
    BY <1>2, <1>3 DEF Answers
  <2> QED
    BY <2>1 DEF Placed, Rotating, Leaving, Answers, RotatePcs, EndPcs
<1> QED
  BY <1>1, <1>2, <1>4 DEF Tidy

LEMMA TidyInit == Init => TidyInv
<1> SUFFICES ASSUME Init, NEW d \in Devices PROVE Tidy(d)
  BY DEF TidyInv
<1>1. /\ TypeInv /\ device = seed.device /\ \A q \in Requests : pc[q] = "send"
  BY InitType DEF Init
<1>2. device[d].stored = device[d].tokens /\ device[d].refreshing = Absent
  BY <1>1, GivenFacts DEF TypeInv, AtRest
<1>3. ASSUME NEW q \in Ours(d) PROVE Placed(d, q)
  BY <1>1 DEF Placed, Rotating, Leaving, RotatePcs, EndPcs, Ours
<1> QED
  BY <1>2, <1>3 DEF Tidy

LEMMA TidyStep ==
    ASSUME TypeInv, InOrder, HandInv, HoldInv, TidyInv, NEW r \in Requests, Step(r), NEW d \in Devices, Calm(d)'
    PROVE  Tidy(d)'
<1>1. call' = call /\ Calm(d) /\ Tidy(d)
  BY StepFrame, CalmBefore DEF given, TidyInv
<1>2. CASE r \notin Ours(d)
  <2>1. SameDevice(d)
    BY <1>2, OtherDevices DEF Ours, SameDevice
  <2>2. \A q \in Ours(d) : Same(q)
    BY <1>2, StepFrame, OthersKeep DEF Same, Ours
  <2> QED
    BY <1>1, <2>1, <2>2, TidyKept
<1>3. CASE r \in Ours(d) /\ ~OnDeviceStep(r)
  BY <1>1, <1>3, TidyServer
<1>4. CASE r \in Ours(d) /\ OnDeviceStep(r)
  <2>1. CASE (UseToken(r) /\ pc'[r] # "rotate_get") \/ Joined(r) \/ LoseRequest(r) \/ LoseAnswer(r) \/ Report(r) \/ Abandoned(r)
    BY <1>1, <1>4, <2>1, TidyLocal
  <2>2. CASE (UseToken(r) /\ pc'[r] = "rotate_get") \/ Adopt(r) \/ Persist(r)
    BY <1>1, <1>4, <2>2, TidyUse, TidyAdopt, TidyPersist
  <2>3. CASE SignOut(r) \/ Clear(r) \/ Settle(r) \/ Restart(r)
    BY <1>1, <1>4, <2>3, TidySignOut, TidyClear, TidySettle, TidyRestart
  <2> QED
    BY <1>4, <2>1, <2>2, <2>3 DEF OnDeviceStep
<1> QED
  BY <1>2, <1>3, <1>4

LEMMA TidyNext == TypeInv /\ InOrder /\ HandInv /\ HoldInv /\ TidyInv /\ [Next]_vars => TidyInv'
<1> SUFFICES ASSUME TypeInv, InOrder, HandInv, HoldInv, TidyInv, [Next]_vars, NEW d \in Devices, Calm(d)' PROVE Tidy(d)'
  BY DEF TidyInv
<1>1. CASE Idle
  <2>1. call' = call /\ pc' = pc /\ mem' = mem
    BY <1>1 DEF Idle, given
  <2>2. Calm(d)
    BY <2>1 DEF Calm, Steady, Overlap, Is
  <2> QED
    BY <1>1, <2>1, <2>2, TidyKept DEF TidyInv, Idle, SameDevice, Same
<1> QED
  BY <1>1, NextCases, TidyStep

-----------------------------------------------------------------------------
(* What the server will take next.                                          *)
LEMMA LiveInit == Init => LiveInv
<1> SUFFICES ASSUME Init PROVE LiveInv
  OBVIOUS
<1>1. TypeInv /\ sessions = seed.sessions /\ device = seed.device /\ \A p \in Requests : mem[p].cred = Absent
  BY InitType DEF Init, Blank
<1>2. AtRest(seed) /\ device \in [Devices -> Device] /\ Absent \notin Secrets
  BY <1>1, GivenFacts, AuthAssumption DEF TypeInv, StoresOK
<1>3. ASSUME NEW d \in Devices, device[d].tokens # Absent
      PROVE  /\ device[d].refreshing = Absent
             /\ Live(device[d].tokens.session, device[d].tokens.secret)
  <2>1. device[d].tokens \in Cred
    BY <1>2, <1>3 DEF Device
  <2> QED
    BY <1>1, <1>2, <1>3, <2>1 DEF AtRest, Live, Cred
<1> QED
  BY <1>1, <1>3 DEF LiveInv, Current, SignedIn

LEMMA Undisturbing ==
    ASSUME TypeInv, NEW r \in Requests, Step(r)
    PROVE  lapsed' = lapsed /\ \A s : Undisturbed(s)' => Undisturbed(s) /\ Solo(s)
<1>1. call' = call
  BY StepFrame DEF given
<1>2. lapsed' = lapsed
  BY StepCases, StartMoves, CodeMoves, ParkMoves, PeopleMoves, SeatMoves, RotateMoves, EndMoves, ListMoves,
     FillMoves, EraseMoves, SendMoves, OnDeviceMoves DEF Reads, Local, time
<1> QED
  BY <1>1, <1>2 DEF Undisturbed, Solo, Apart, Redeems, Overlap, Is

(* Who writes to a session nobody disturbs.                                 *)
Writing(r, s) ==
    /\ Is(r, {"use"}) /\ pc[r] \in {"expire", "rotate", "tombstone", "end_session"}
    /\ mem[r].cred # Absent /\ mem[r].cred.session = s

LEMMA QuietSession ==
    ASSUME TypeInv, HoldInv, NEW r \in Requests, Step(r), NEW s \in SessionIds, Undisturbed(s)
    PROVE  sessions'[s] = sessions[s] \/ (SessionPut(r) /\ call[r].session = s) \/ Writing(r, s)
<1>0. StageOf(r) /\ Absent \notin Cred
  BY TypeParts, AuthAssumption
<1>1. Writes(r, s)
  BY SessionEffect
<1>2. ~Is(r, {"erase"}) /\ ~Is(r, {"signout"}) /\ (Is(r, {"refresh", "revoke"}) => call[r].session # s)
  BY DEF Undisturbed, Is
<1>3. CASE pc[r] \in {"expire", "rotate", "tombstone", "end_session"} /\ s = mem[r].cred.session
  <2>1. mem[r].cred \in Cred /\ call[r].op \in {"use", "refresh", "signout", "revoke"}
    BY <1>0, <1>3 DEF StageOf, Stage, RotatePcs, EndPcs
  <2> QED
    BY <1>0, <1>2, <1>3, <2>1 DEF Writing, HoldInv, Is
<1> QED
  BY <1>1, <1>2, <1>3 DEF Writes, Loses, PutsBack, Opens

LEMMA HeldSession ==
    ASSUME TypeInv, SeatInv, RedeemInv, HandInv, HoldInv, NEW r \in Requests, Step(r),
           NEW d \in Devices, NEW s \in SessionIds, Holder(d, s), Undisturbed(s)
    PROVE  sessions'[s] = sessions[s] \/ (Writing(r, s) /\ r \in Ours(d))
<1>1. CASE SessionPut(r) /\ call[r].session = s
  BY <1>1, NoHolderYet
<1>2. CASE Writing(r, s)
  <2>1. call[r].device \in Devices
    BY <1>2, TypeParts, CallType DEF Writing, WellFormed, Is
  <2>2. Holder(call[r].device, s) /\ Solo(s)
    BY <1>2 DEF Writing, HoldInv, Is, Undisturbed, Solo
  <2> QED
    BY <1>2, <2>1, <2>2, OneHolder DEF Ours
<1> QED
  BY <1>1, <1>2, QuietSession

(* A session that was opened and that no device has yet.                    *)
LEMMA LiveUnheld ==
    ASSUME TypeInv, SeatInv, HandInv, HoldInv, LiveInv, NEW r \in Requests, Step(r), NEW p \in Requests,
           SignedIn(p)', Undisturbed(call[p].session)', Unheld(call[p].session)'
    PROVE  Live(call[p].session, p)'
<1>1. call' = call /\ call[p].session \in SessionIds /\ SignsIn(p)
  BY StepFrame, TypeParts, CallType DEF given, SignedIn, SignsIn, WellFormed, Is
<1>2. PICK s \in SessionIds : s = call[p].session
  BY <1>1
<1>3. Undisturbed(s) /\ Unheld(s)
  BY <1>1, <1>2, Undisturbing, HolderKept DEF Unheld
<1>4. CASE SessionPut(r) /\ call[r].session = s
  <2>1. r = p
    BY <1>1, <1>2, <1>4, PutIssues, GivenFacts DEF TypeInv, FreshIds, SignsIn, Is
  <2> DEFINE rec == [user |-> mem[r].user, secret |-> r, ended |-> FALSE]
  <2>2. sessions' = [sessions EXCEPT ![s] = rec] /\ sessions \in [SessionIds -> SessionRec \cup {Absent}]
    BY <1>4, TypeParts DEF SessionPut, WriteSession, StoresOK
  <2>3. rec \in SessionRec /\ rec.secret = r /\ ~rec.ended /\ Absent \notin SessionRec
    BY <1>4, TypeParts, AuthAssumption DEF SessionPut, Goto, StageOf, Stage, SeatPcs, SessionRec, Secrets
  <2> HIDE DEF rec
  <2>4. sessions'[s] = rec /\ rec # Absent
    BY <2>2, <2>3
  <2> QED
    BY <1>1, <1>2, <2>1, <2>3, <2>4 DEF Live
<1>5. CASE ~(SessionPut(r) /\ call[r].session = s)
  <2>1. SignedIn(p)
    <3>1. CASE r # p
      BY <1>1, <3>1, StepFrame, OthersKeep DEF SignedIn
    <3>2. CASE r = p
      <4>1. StageOf(r)
        BY TypeParts
      <4>2. pc[r] # "rotated_user" /\ ~UseToken(r) /\ ~SignOut(r) /\ ~Is(r, {"collect", "refresh", "revoke"})
        BY <1>1, <3>2, <4>1
           DEF StageOf, Stage, RotatePcs, UseToken, SignOut, Refused401, Goto, SignsIn, Is
      <4>3. mem'[r].cred = mem[r].cred \/ mem'[r].cred = Absent
        BY <1>2, <1>5, <3>2, <4>2, CredEffect DEF Is
      <4> QED
        BY <1>1, <3>2, <4>3 DEF SignedIn
    <3> QED
      BY <3>1, <3>2
  <2>2. Live(s, p)
    BY <1>2, <1>3, <2>1 DEF LiveInv
  <2>3. ~Writing(r, s)
    <3>1. Writing(r, s) => call[r].device \in Devices /\ Holder(call[r].device, s)
      BY TypeParts, CallType DEF Writing, WellFormed, HoldInv, Is
    <3> QED
      BY <1>3, <3>1 DEF Unheld
  <2>4. sessions'[s] = sessions[s]
    BY <1>3, <1>5, <2>3, QuietSession
  <2> QED
    BY <1>1, <1>2, <2>2, <2>4 DEF Live
<1> QED
  BY <1>4, <1>5

(* A step that does not concern the device, or not its refresh.             *)
Unmoved(q) == pc'[q] = pc[q] /\ mem'[q].answer = mem[q].answer /\ mem'[q].rec = mem[q].rec

LEMMA CurrentKept ==
    ASSUME NEW d \in Devices, Current(d), SameDevice(d),
           \A s : Undisturbed(s)' => Undisturbed(s),
           device[d].tokens # Absent => sessions'[device[d].tokens.session] = sessions[device[d].tokens.session],
           device[d].refreshing # Absent => Unmoved(device[d].refreshing)
    PROVE  Current(d)'
<1>1. SUFFICES ASSUME device[d].tokens # Absent, Undisturbed(device[d].tokens.session)
               PROVE  /\ device[d].refreshing = Absent
                         \/ pc'[device[d].refreshing] \in {"rotate_get", "rotate", "persist", "settle"}
                         => Live(device[d].tokens.session, device[d].tokens.secret)'
                      /\ device[d].refreshing # Absent /\ pc'[device[d].refreshing] = "rotate"
                         => ~mem'[device[d].refreshing].rec.ended
                      /\ device[d].refreshing # Absent
                         /\ (\/ pc'[device[d].refreshing] = "rotated_user"
                             \/ pc'[device[d].refreshing] = "back" /\ mem'[device[d].refreshing].answer = "200")
                         => Live(device[d].tokens.session, device[d].refreshing)'
  BY DEF Current, SameDevice, Live
<1> QED
  BY <1>1 DEF Current, SameDevice, Live, Unmoved

(* What the steps below start from: a device nobody disturbs, with tokens.  *)
LEMMA CurrentFrom ==
    ASSUME TypeInv, SeatInv, RedeemInv, HandInv, HoldInv, NEW r \in Requests, Step(r), NEW d \in Devices,
           NEW t, t = device[d].tokens, t # Absent, Undisturbed(t.session)'
    PROVE  /\ t \in Cred /\ Undisturbed(t.session) /\ Holder(d, t.session)
           /\ sessions'[t.session] = sessions[t.session] \/ (Writing(r, t.session) /\ r \in Ours(d))
<1>1. device[d] \in Device
  BY TypeParts DEF StoresOK
<1>2. t \in Cred
  BY <1>1 DEF Device
<1>3. PICK s \in SessionIds : s = t.session
  BY <1>2 DEF Cred
<1>4. Undisturbed(s) /\ Holder(d, s)
  BY <1>3, Undisturbing DEF HoldInv
<1> QED
  BY <1>2, <1>3, <1>4, HeldSession

(* A step of somebody else, or that is not the refresh and leaves the       *)
(* device as it was.                                                        *)
LEMMA CurrentBeside ==
    ASSUME TypeInv, SeatInv, RedeemInv, HandInv, HoldInv, NEW r \in Requests, Step(r), NEW d \in Devices, Current(d),
           Tidy(d), SameDevice(d), r # device[d].refreshing
    PROVE  Current(d)'
<1>1. \A s : Undisturbed(s)' => Undisturbed(s)
  BY Undisturbing
<1>2. PICK t : t = device[d].tokens
  OBVIOUS
<1>3. CASE t = Absent \/ ~Undisturbed(t.session)'
  BY <1>2, <1>3 DEF Current, SameDevice
<1>4. CASE t # Absent /\ Undisturbed(t.session)'
  <2>1. ~(Writing(r, t.session) /\ r \in Ours(d))
    BY <1>2, <1>4 DEF Writing, Tidy, Placed, Rotating, Leaving, RotatePcs, EndPcs
  <2>2. sessions'[device[d].tokens.session] = sessions[device[d].tokens.session]
    BY <1>2, <1>4, <2>1, CurrentFrom
  <2>3. ASSUME device[d].refreshing # Absent PROVE Unmoved(device[d].refreshing)
    <3>1. PICK q \in Requests : q = device[d].refreshing
      BY <2>3 DEF Tidy, InFlightOK, Ours
    <3> QED
      BY <3>1, StepFrame, OthersKeep DEF Unmoved
  <2> QED
    BY <1>1, <2>2, <2>3, CurrentKept
<1> QED
  BY <1>3, <1>4

(* The server's side of the refresh.                                        *)
LEMMA CurrentRotates ==
    ASSUME TypeInv, SeatInv, RedeemInv, HandInv, HoldInv, NEW r \in Requests, Step(r), NEW d \in Devices, Current(d),
           Tidy(d), device[d].refreshing = r, r # Absent, ~OnDeviceStep(r)
    PROVE  Current(d)'
<1>1. /\ InFlightOK(d, r) /\ StageOf(r) /\ mem[r] \in Memory /\ DOMAIN mem[r] = Fields
      /\ sessions \in [SessionIds -> SessionRec \cup {Absent}] /\ Absent \notin SessionRec
  BY TypeParts, MemoryType, AuthAssumption DEF Tidy, StoresOK
<1>2. device' = device
  BY TypeParts, <1>1, StepCases, StartMoves, CodeMoves, ParkMoves, PeopleMoves, SeatMoves, RotateMoves, EndMoves,
     ListMoves, FillMoves, EraseMoves, SendMoves DEF Reads
<1>3. SUFFICES ASSUME NEW t, t = device[d].tokens, t # Absent, Undisturbed(t.session)' PROVE Current(d)'
  BY <1>2 DEF Current
<1>4. t \in Cred /\ t = device[d].tokens /\ OnDevice(r)
  BY <1>1, <1>3, CurrentFrom, AuthAssumption DEF InFlightOK, Ours, OnDevice
<1>5. t.session \in SessionIds /\ Undisturbed(t.session) /\ t.session \notin lapsed
  BY <1>3, <1>4, CurrentFrom DEF Cred, Undisturbed
<1>6. RotateSession(r) /\ pc[r] \in RotatePcs
  <2>1. ~Is(r, {"callback", "redirect", "collect", "providers", "start", "devices", "backfill", "erase"})
    BY <1>1 DEF InFlightOK, Is
  <2>2. pc[r] \notin EndPcs /\ pc[r] # "send"
    BY <1>1 DEF InFlightOK, Rotating, Leaving, EndPcs, RotatePcs
  <2>3. pc[r] \in RotatePcs \cup {"back", "persist", "settle"}
    BY <1>1 DEF InFlightOK, Rotating
  <2> QED
    BY <2>2, <2>3, StepCases, StartMoves, CodeMoves, ParkMoves, PeopleMoves, SeatMoves, RotateMoves, EndMoves, ListMoves,
       FillMoves, EraseMoves, SendMoves
       DEF StartPcs, SweepPcs, ConsumePcs, ConsumedPcs, RefundPcs, CodePcs, TakePcs, PeoplePcs, SeatPcs, BouncePcs,
           RotatePcs, EndPcs, ListPcs, FillPcs, ErasePcs
<1>7. mem[r].cred = t
  BY <1>1, <1>4, <1>6 DEF InFlightOK
<1>8. CASE RotateGet(r)
  <2> DEFINE rec == sessions[t.session]
             replayed == Replays(r, rec)
             m == [mem[r] EXCEPT !.rec = rec, !.presented = t.session, !.replayed = replayed]
  <2>1. Live(t.session, t.secret) /\ pc[r] = "rotate_get"
    BY <1>4, <1>5, <1>8, <1>3 DEF Current, RotateGet
  <2>2. RotateVerdict(r, rec) = "rotate"
    BY <1>5, <1>7, <2>1 DEF Live, RotateVerdict, Presented
  <2>3. Goto(r, "rotate_get", "rotate") /\ Holds(r, m) /\ sessions' = sessions
    BY <1>7, <1>8, <2>2 DEF RotateGet, Presented, Answers, Reads, seats
  <2> HIDE DEF rec, replayed
  <2>4. m.rec = rec
    BY <1>1 DEF Fields
  <2> HIDE DEF m
  <2>5. pc'[r] = "rotate" /\ mem'[r].rec = rec
    BY <2>3, <2>4, TypeParts, GotoMoves, HoldsMoves
  <2> QED
    BY <1>2, <1>4, <2>1, <2>3, <2>5 DEF Current, Live, rec
<1>9. CASE Rotate(r)
  <2> DEFINE rec == [mem[r].rec EXCEPT !.secret = r]
  <2>1. /\ pc[r] = "rotate" /\ pc'[r] = "rotated_user" /\ sessions' = [sessions EXCEPT ![t.session] = rec]
        /\ mem[r].rec \in SessionRec
    BY <1>1, <1>7, <1>9, TypeParts, GotoMoves DEF Rotate, WriteSession, Presented, Goto, StageOf, Stage, RotatePcs
  <2>2. ~mem[r].rec.ended
    BY <1>3, <1>4, <1>5, <2>1 DEF Current
  <2>3. rec \in SessionRec /\ rec.secret = r /\ rec.ended = mem[r].rec.ended
    BY <2>1 DEF SessionRec, Secrets
  <2> HIDE DEF rec
  <2>4. sessions'[t.session] = rec /\ rec # Absent
    BY <1>1, <1>5, <2>1, <2>3
  <2> QED
    BY <1>2, <1>4, <2>1, <2>2, <2>3, <2>4 DEF Current, Live
<1>10. CASE RotatedUser(r)
  <2>1. pc[r] = "rotated_user" /\ pc'[r] = "back" /\ sessions' = sessions
    BY <1>4, <1>10, RotateOutcome, <1>6 DEF RotatedUser, Reads, seats, InFlightOK, RotatePcs
  <2>2. Live(t.session, r)
    BY <1>3, <1>4, <1>5, <2>1 DEF Current
  <2> QED
    BY <1>2, <1>4, <2>1, <2>2 DEF Current, Live
<1>11. CASE Expire(r) \/ ExpireIndex(r) \/ Tombstone(r)
  <2>1. pc'[r] \in {"expire_index", "back"} /\ (pc'[r] = "back" => mem'[r].answer = "401")
    <3>1. Expire(r) => pc'[r] = "expire_index"
      BY GotoMoves DEF Expire
    <3>2. ASSUME NEW from, Replies(r, from, "401", mem[r]) PROVE pc'[r] = "back" /\ mem'[r].answer = "401"
      BY <1>1, <1>4, <3>2, RepliesMoves, ReplyAnswers DEF Answers
    <3> QED
      BY <1>11, <3>1, <3>2 DEF ExpireIndex, Tombstone
  <2> QED
    BY <1>2, <2>1 DEF Current
<1> QED
  BY <1>6, <1>8, <1>9, <1>10, <1>11 DEF RotateSession

(* What the device does: no session changes.                                *)
LEMMA CurrentLocal ==
    ASSUME TypeInv, NEW r \in Requests, Step(r), OnDeviceStep(r)
    PROVE  sessions' = sessions /\ \A s, x : Undisturbed(s)' => Undisturbed(s) /\ (Live(s, x)' <=> Live(s, x))
<1>1. sessions' = sessions
  BY OnDeviceMoves DEF Local, seats
<1> QED
  BY <1>1, Undisturbing DEF Live

(* The refresh does something that leaves the device as it was.             *)
LEMMA CurrentWaits ==
    ASSUME TypeInv, HoldInv, NEW d \in Devices, Calm(d)', Calm(d), Tidy(d), Current(d), NEW r \in Ours(d), Step(r),
           OnDeviceStep(r), device[d].refreshing = r,
           UseToken(r) \/ Joined(r) \/ LoseRequest(r) \/ LoseAnswer(r) \/ Report(r) \/ Abandoned(r),
           SameDevice(d)
    PROVE  Current(d)'
<1>1. /\ r \in Requests /\ r # Absent /\ InFlightOK(d, r) /\ ~mem[r].orphan /\ ~mem'[r].lost /\ call' = call
      /\ mem[r] \in Memory /\ DOMAIN mem[r] = Fields
  <2>1. r \in Requests /\ r # Absent /\ call[r].device = d /\ call' = call
    BY Ground
  <2> QED
    BY <2>1, TypeParts, MemoryType DEF Tidy, Calm, Steady
<1>2. LoseRequest(r) /\ pc[r] = "rotate_get" /\ pc'[r] = "settle"
  <2>1. ~UseToken(r) /\ ~Joined(r)
    BY <1>1 DEF UseToken, Joined, Goto, InFlightOK, Rotating, RotatePcs
  <2>2. ~LoseAnswer(r)
    <3> DEFINE yes == TRUE
    <3>1. LoseAnswer(r) => mem'[r] = [mem[r] EXCEPT !.answer = "null", !.lost = yes]
      BY <1>1, HoldsMoves DEF LoseAnswer
    <3> HIDE DEF yes
    <3>2. LoseAnswer(r) => mem'[r].lost = yes
      BY <1>1, <3>1 DEF Fields
    <3> QED
      BY <1>1, <3>2 DEF yes
  <2>3. ~Report(r)
    BY <1>1 DEF Report, InFlightOK, Adopts, Refused401, Goto, Is
  <2>4. ~Abandoned(r)
    BY <1>1 DEF Abandoned
  <2>5. LoseRequest(r) => pc[r] \in {"rotate_get", "end_get"} /\ pc'[r] = "settle"
    BY <1>1, GotoMoves DEF LoseRequest
  <2> QED
    BY <1>1, <2>1, <2>2, <2>3, <2>4, <2>5 DEF InFlightOK, Rotating, RotatePcs
<1>3. PICK t : t = device[d].tokens
  OBVIOUS
<1>4. t # Absent /\ Undisturbed(t.session)' => Live(t.session, t.secret)'
  BY <1>1, <1>2, <1>3, CurrentLocal DEF Current
<1> QED
  BY <1>1, <1>2, <1>3, <1>4 DEF Current, SameDevice

LEMMA CurrentQuiet ==
    ASSUME TypeInv, SeatInv, RedeemInv, HandInv, HoldInv, NEW d \in Devices, Calm(d)', Calm(d), Tidy(d), Current(d),
           NEW r \in Ours(d), Step(r), OnDeviceStep(r),
           (UseToken(r) /\ pc'[r] # "rotate_get") \/ Joined(r) \/ LoseRequest(r) \/ LoseAnswer(r) \/ Report(r) \/ Abandoned(r)
    PROVE  Current(d)'
<1>1. r \in Requests /\ call[r].device = d /\ Of(r) = device[d]
  BY Ground
<1>2. Untouched(r)
  BY <1>1, QuietDevice, UseTokenMoves
<1>3. SameDevice(d)
  BY <1>1, <1>2 DEF Untouched, After, SameDevice
<1> QED
  BY <1>1, <1>3, CurrentWaits, CurrentBeside

LEMMA CurrentUse ==
    ASSUME TypeInv, NEW d \in Devices, Current(d), NEW r \in Ours(d), Step(r), OnDeviceStep(r), UseToken(r), pc'[r] = "rotate_get"
    PROVE  Current(d)'
<1>1. r \in Requests /\ call[r].device = d /\ Of(r) = device[d]
  BY Ground
<1>2. /\ device[d].refreshing = Absent /\ device'[d].refreshing = r
      /\ device'[d].tokens = device[d].tokens
  BY <1>1, UseTokenMoves, AuthAssumption DEF After, Untouched, Answers
<1>3. PICK t : t = device[d].tokens
  OBVIOUS
<1>4. t # Absent /\ Undisturbed(t.session)' => Live(t.session, t.secret)'
  BY <1>2, <1>3, CurrentLocal, <1>1 DEF Current
<1> QED
  BY <1>2, <1>3, <1>4 DEF Current

LEMMA CurrentAdopt ==
    ASSUME TypeInv, InOrder, RedeemInv, HandInv, HoldInv, LiveInv, NEW d \in Devices, Calm(d), Tidy(d), Current(d),
           NEW r \in Ours(d), Step(r), OnDeviceStep(r), Adopt(r)
    PROVE  Current(d)'
<1>1. /\ r \in Requests /\ call[r].device = d /\ Of(r) = device[d] /\ r # Absent
      /\ pc[r] = "back" /\ pc'[r] = "persist" /\ Adopts(r) /\ UNCHANGED mem
  BY Ground, AdoptMoves
<1>2. device'[d].tokens = mem[r].cred /\ device'[d].refreshing = device[d].refreshing
  BY <1>1, AdoptMoves DEF After
<1>3. PICK t : t = mem[r].cred
  OBVIOUS
<1>4. CASE Is(r, {"use"})
  <2>1. device[d].refreshing = r /\ InFlightOK(d, r)
    BY <1>1, <1>4, Refreshing DEF Rotating, Adopts
  <2>2. t.session = device[d].tokens.session /\ t.secret = r /\ device[d].tokens # Absent
    BY <1>1, <1>3, <1>4, <2>1 DEF InFlightOK, Rotating, Adopts
  <2>3. Undisturbed(t.session)' => Live(t.session, t.secret)'
    BY <1>1, <2>1, <2>2, CurrentLocal DEF Current, Adopts
  <2> QED
    BY <1>1, <1>2, <1>3, <2>1, <2>3 DEF Current
<1>5. CASE Is(r, {"callback", "collect"})
  <2>1. device[d].refreshing = Absent
    BY <1>1, <1>5, Idling DEF Answers
  <2>2. Wins(r, t.session)
    BY <1>1, <1>3, <1>5 DEF Wins, Adopts
  <2>3. PICK p \in Requests : SignedIn(p) /\ t = IssuedBy(p) /\ call[p].session = t.session
    BY <1>1, <1>3, <2>2, WinnerOpens
  <2>4. ASSUME Undisturbed(t.session) PROVE Unheld(t.session)
    <3>1. Solo(t.session)
      BY <2>4 DEF Undisturbed, Solo
    <3>2. SUFFICES ASSUME NEW f \in Devices, Holder(f, t.session) PROVE FALSE
      BY DEF Unheld
    <3>3. ~(seed.device[f].tokens # Absent /\ seed.device[f].tokens.session = t.session)
      BY <2>3, SeedHolder DEF SignedIn
    <3>4. PICK q \in Requests : Wins(q, t.session) /\ pc[q] \in {"persist", "settle"} \cup Answers
      BY <3>2, <3>3 DEF Holder, Ours
    <3> QED
      BY <1>1, <2>2, <3>1, <3>4, OneWinner DEF Answers
  <2>5. Undisturbed(t.session)' => Live(t.session, t.secret)'
    BY <1>1, <2>3, <2>4, CurrentLocal DEF LiveInv, IssuedBy
  <2> QED
    BY <1>1, <1>2, <1>3, <2>1, <2>5 DEF Current
<1> QED
  BY <1>1, <1>4, <1>5 DEF Adopts, Is

(* The new tokens go to the store, and the place of the refresh is freed.   *)
LEMMA CurrentPersist ==
    ASSUME TypeInv, SeatInv, RedeemInv, HandInv, HoldInv, NEW d \in Devices, Tidy(d), Current(d),
           NEW r \in Ours(d), Step(r), OnDeviceStep(r), Persist(r) \/ Clear(r) \/ (Settle(r) /\ ~Is(r, {"use"}))
    PROVE  Current(d)'
<1>1. r \in Requests /\ call[r].device = d /\ Of(r) = device[d]
  BY Ground
<1>2. SameDevice(d) \/ /\ device'[d].tokens = device[d].tokens /\ device'[d].refreshing = device[d].refreshing
                       /\ Persist(r) \/ Clear(r)
  BY <1>1, PersistMoves, ClearMoves, SettleMoves DEF Untouched, After, SameDevice
<1>3. PICK t : t = device[d].tokens
  OBVIOUS
<1>4. PICK x : x = device[d].refreshing
  OBVIOUS
<1>5. device'[d].tokens = t /\ device'[d].refreshing = x
  BY <1>2, <1>3, <1>4 DEF SameDevice
<1>6. x # Absent => InFlightOK(d, x) /\ x \in Requests
  BY <1>4 DEF Tidy, InFlightOK, Ours
<1>7. ASSUME x = r, x # Absent PROVE pc[r] = "persist" /\ pc'[r] = "settle"
  BY <1>1, <1>6, <1>7, PersistMoves, ClearMoves DEF InFlightOK, Rotating, RotatePcs, Clear, Goto
<1>8. ASSUME x # Absent, x # r PROVE Unmoved(x)
  BY <1>1, <1>6, <1>8, StepFrame, OthersKeep DEF Unmoved
<1>9. t # Absent /\ Undisturbed(t.session)' =>
        /\ Undisturbed(t.session)
        /\ \A y : Live(t.session, y)' <=> Live(t.session, y)
  BY <1>1, CurrentLocal
<1>10. CASE x = Absent \/ x = r
  <2>1. t # Absent /\ Undisturbed(t.session)' => Live(t.session, t.secret)'
    BY <1>3, <1>4, <1>7, <1>9, <1>10 DEF Current
  <2> QED
    BY <1>5, <1>7, <1>10, <2>1 DEF Current
<1>11. CASE x # Absent /\ x # r
  BY <1>3, <1>4, <1>5, <1>8, <1>9, <1>11 DEF Current, Unmoved
<1> QED
  BY <1>10, <1>11

LEMMA CurrentSettle ==
    ASSUME TypeInv, NEW d \in Devices, Tidy(d), Current(d),
           NEW r \in Ours(d), Step(r), OnDeviceStep(r), SignOut(r) \/ (Settle(r) /\ Is(r, {"use"}))
    PROVE  Current(d)'
<1>1. r \in Requests /\ call[r].device = d /\ Of(r) = device[d] /\ r # Absent
  BY Ground
<1>2. CASE SignOut(r)
  BY <1>1, <1>2, SignOutMoves DEF After, Current
<1>3. CASE Settle(r) /\ Is(r, {"use"})
  <2>1. device'[d].tokens = device[d].tokens /\ device'[d].refreshing = Absent /\ pc[r] = "settle"
    BY <1>1, <1>3, SettleMoves DEF After
  <2>2. device[d].refreshing = r \/ device[d].tokens = Absent
    BY <1>3, <2>1 DEF Tidy, Placed
  <2>3. PICK t : t = device[d].tokens
    OBVIOUS
  <2>4. t # Absent /\ Undisturbed(t.session)' => Live(t.session, t.secret)'
    BY <1>1, <2>1, <2>2, <2>3, CurrentLocal DEF Current
  <2> QED
    BY <2>1, <2>3, <2>4 DEF Current
<1> QED
  BY <1>2, <1>3

(* The device is opened again: what it reads back is what it held.          *)
LEMMA CurrentRestart ==
    ASSUME TypeInv, NEW d \in Devices, Calm(d)', Tidy(d), Current(d),
           NEW r \in Ours(d), Step(r), OnDeviceStep(r), Restart(r)
    PROVE  Current(d)'
<1>1. /\ r \in Requests /\ call[r].device = d /\ call' = call /\ Of(r) = device[d]
      /\ \A q \in Ours(d) : q \in Requests
  BY Ground
<1>2. /\ pc[r] = "restart" /\ device'[d].tokens = device[d].stored /\ device'[d].refreshing = Absent
  BY <1>1, RestartMoves DEF After
<1>3. ASSUME NEW q \in Ours(d) \ {r} PROVE pc[q] \in Answers \cup {"send"}
  <2>1. ~mem'[q].orphan
    BY <1>1 DEF Calm, Steady, Ours
  <2>2. ~InProgress(q, d)
    BY <1>1, <2>1, RestartMoves
  <2> QED
    BY <1>1, <2>2 DEF InProgress, Ours
<1>4. ASSUME NEW q \in Ours(d) PROVE pc[q] \notin {"persist", "clear", "settle"} /\ ~Rotating(q)
  BY <1>2, <1>3 DEF Rotating, RotatePcs, Answers
<1>5. device[d].stored = device[d].tokens /\ device[d].refreshing = Absent
  BY <1>4 DEF Tidy, InFlightOK
<1>6. PICK t : t = device[d].tokens
  OBVIOUS
<1>7. t # Absent /\ Undisturbed(t.session)' => Live(t.session, t.secret)'
  BY <1>1, <1>5, <1>6, CurrentLocal DEF Current
<1> QED
  BY <1>2, <1>5, <1>6, <1>7 DEF Current

LEMMA CurrentStep ==
    ASSUME TypeInv, InOrder, SeatInv, RedeemInv, HandInv, HoldInv, TidyInv, LiveInv,
           NEW r \in Requests, Step(r), NEW d \in Devices, Calm(d)'
    PROVE  Current(d)'
<1>1. Calm(d) /\ Tidy(d) /\ Current(d)
  BY CalmBefore DEF TidyInv, LiveInv
<1>2. CASE r \notin Ours(d) \/ ~OnDeviceStep(r)
  <2>1. SameDevice(d)
    BY <1>2, OtherDevices DEF Ours, SameDevice
  <2>2. r # Absent
    BY AuthAssumption DEF Secrets
  <2>3. r \notin Ours(d) => r # device[d].refreshing
    BY <1>1, <2>2 DEF Tidy, InFlightOK
  <2> QED
    BY <1>1, <1>2, <2>1, <2>2, <2>3, CurrentBeside, CurrentRotates
<1>3. CASE r \in Ours(d) /\ OnDeviceStep(r)
  <2>1. CASE (UseToken(r) /\ pc'[r] # "rotate_get") \/ Joined(r) \/ LoseRequest(r) \/ LoseAnswer(r) \/ Report(r) \/ Abandoned(r)
    BY <1>1, <1>3, <2>1, CurrentQuiet
  <2>2. CASE (UseToken(r) /\ pc'[r] = "rotate_get") \/ Adopt(r)
    BY <1>1, <1>3, <2>2, CurrentUse, CurrentAdopt
  <2>3. CASE Persist(r) \/ Clear(r) \/ Settle(r) \/ SignOut(r)
    BY <1>1, <1>3, <2>3, CurrentPersist, CurrentSettle
  <2>4. CASE Restart(r)
    BY <1>1, <1>3, <2>4, CurrentRestart
  <2> QED
    BY <1>3, <2>1, <2>2, <2>3, <2>4 DEF OnDeviceStep
<1> QED
  BY <1>2, <1>3

LEMMA LiveNext ==
    TypeInv /\ InOrder /\ SeatInv /\ RedeemInv /\ HandInv /\ HoldInv /\ TidyInv /\ LiveInv /\ [Next]_vars => LiveInv'
<1> SUFFICES ASSUME TypeInv, InOrder, SeatInv, RedeemInv, HandInv, HoldInv, TidyInv, LiveInv, [Next]_vars
             PROVE  LiveInv'
  OBVIOUS
<1>1. CASE Idle
  <2>1. /\ call' = call /\ seed' = seed /\ pc' = pc /\ mem' = mem /\ sessions' = sessions
        /\ \A s : Undisturbed(s)' => Undisturbed(s)
    BY <1>1 DEF Idle, given, seats, Undisturbed, Apart, Redeems, Overlap, Is
  <2>2. \A s : Unheld(s)' => Unheld(s)
    BY <2>1 DEF Unheld, Holder, Ours, Wins, Is
  <2>3. ASSUME NEW p \in Requests, SignedIn(p)', Undisturbed(call[p].session)', Unheld(call[p].session)'
        PROVE  Live(call[p].session, p)'
    <3>1. PICK s : s = call[p].session
      OBVIOUS
    <3>2. SignedIn(p) /\ Undisturbed(s) /\ Unheld(s)
      BY <2>1, <2>2, <2>3, <3>1 DEF SignedIn, SignsIn, Is
    <3> QED
      BY <2>1, <3>1, <3>2 DEF LiveInv, Live
  <2>4. ASSUME NEW d \in Devices, Calm(d)' PROVE Current(d)'
    <3>1. Calm(d)
      BY <2>1, <2>4 DEF Calm, Steady, Overlap, Is
    <3>2. Current(d) /\ SameDevice(d)
      BY <1>1, <3>1 DEF LiveInv, Idle, SameDevice
    <3> QED
      BY <2>1, <3>2, CurrentKept DEF Unmoved
  <2> QED
    BY <2>1, <2>3, <2>4 DEF LiveInv
<1>2. ASSUME NEW r \in Requests, Step(r) PROVE LiveInv'
  <2>1. call' = call
    BY <1>2, StepFrame DEF given
  <2>2. \A p \in Requests : SignedIn(p)' /\ Undisturbed(call[p].session)' /\ Unheld(call[p].session)'
                                => Live(call[p].session, p)'
    BY <1>2, LiveUnheld
  <2>3. \A d \in Devices : Calm(d)' => Current(d)'
    BY <1>2, CurrentStep
  <2> QED
    BY <2>1, <2>2, <2>3 DEF LiveInv
<1> QED
  BY <1>1, <1>2, NextCases

LEMMA LiveInvariant == Spec => [](TypeInv /\ InOrder /\ SeatInv /\ RedeemInv /\ HandInv /\ HoldInv /\ TidyInv /\ LiveInv)
BY EndInvariant, RedeemInvariant, SeatInit, SeatNext, HandoffInit, HandoffNext, HoldInit, HoldNext, TidyInit, TidyNext,
   LiveInit, LiveNext, PTL DEF Spec

(* What a device presents next is what the server takes: a second token of  *)
(* a session would be read as stolen, and rotateSession would end the       *)
(* session.  Whatever asks for a token at once, a refresh that did not get  *)
(* through, a restart, or other devices do, the token the device holds is   *)
(* the last one issued.                                                     *)
THEOREM DeviceTokenStaysLive == Spec => []DeviceTokenIsLive
<1>1. LiveInv => DeviceTokenIsLive
  <2> SUFFICES ASSUME LiveInv, NEW d \in Devices, device[d].tokens # Absent, device[d].refreshing = Absent,
                      Steady(d), Undisturbed(device[d].tokens.session)
               PROVE  /\ sessions[device[d].tokens.session] # Absent
                      /\ sessions[device[d].tokens.session].secret = device[d].tokens.secret
    BY DEF DeviceTokenIsLive
  <2>1. Calm(d)
    BY DEF Calm, Undisturbed, Is
  <2> QED
    BY <2>1 DEF LiveInv, Current, Live
<1> QED
  BY <1>1, LiveInvariant, PTL
=============================================================================
