-------------------------- MODULE RefreshSessions --------------------------
(***************************************************************************)
(* lib/auth/session.js: refresh sessions and their index, with the         *)
(* handlers of auth.js that use them, the backfill of the index and the    *)
(* credentials a deleted user leaves (deleteUserRecords).                  *)
(***************************************************************************)
EXTENDS AuthStores

WriteSession(s, rec) ==
    /\ sessions' = [sessions EXCEPT ![s] = rec]
    /\ UNCHANGED <<codes, people, sessionIndex, post, time, device, given>>

SetIndex(u, s) ==
    /\ sessionIndex' = sessionIndex \cup {sessionIndexKey(u, s)}
    /\ UNCHANGED <<codes, people, sessions, post, time, device, given>>

DropIndex(u, s) ==
    /\ sessionIndex' = sessionIndex \ {sessionIndexKey(u, s)}
    /\ UNCHANGED <<codes, people, sessions, post, time, device, given>>

Reads == UNCHANGED <<codes, people, seats, post, time, device, given>>

-----------------------------------------------------------------------------
(* createSession: the session, then its index key; then the answer, or      *)
(* after a provider sign-in the hand-off.                                   *)
SessionPut(r) ==
    /\ Goto(r, "session_put", "session_index")
    /\ WriteSession(call[r].session, [user |-> mem[r].user, secret |-> r, ended |-> FALSE])
    /\ Holds(r, [mem[r] EXCEPT !.cred = [session |-> call[r].session, secret |-> r]])

(* Bug: the index is not written.                                           *)
SessionIndexedForgotten(r) ==
    /\ IF Is(r, {"redirect"}) THEN Goto(r, "session_index", "handoff_put") /\ UNCHANGED mem
       ELSE Replies(r, "session_index", "200", mem[r])
    /\ Reads

SessionIndexed(r) ==
    /\ IF Is(r, {"redirect"}) THEN Goto(r, "session_index", "handoff_put") /\ UNCHANGED mem
       ELSE Replies(r, "session_index", "200", mem[r])
    /\ SetIndex(mem[r].user, call[r].session)

-----------------------------------------------------------------------------
(* rotateSession: one read, a verdict, and the write it calls for.  The     *)
(* write puts back what was read.                                           *)
Presented(r) == mem[r].cred

(* Bug: a token that does not match is refused and nothing else happens.    *)
RotateVerdictLenient(r, rec) ==
    CASE rec = Absent -> "401"
      [] rec # Absent /\ rec.ended -> "401"
      [] rec # Absent /\ ~rec.ended /\ Presented(r).session \in lapsed -> "expire"
      [] rec # Absent /\ ~rec.ended /\ Presented(r).session \notin lapsed ->
            IF rec.secret = Presented(r).secret THEN "rotate" ELSE "401"

RotateVerdict(r, rec) ==
    CASE rec = Absent -> "401"
      [] rec # Absent /\ rec.ended -> "401"
      [] rec # Absent /\ ~rec.ended /\ Presented(r).session \in lapsed -> "expire"
      [] rec # Absent /\ ~rec.ended /\ Presented(r).session \notin lapsed ->
            IF rec.secret = Presented(r).secret THEN "rotate" ELSE "tombstone"

(* A token that was good once and has been rotated since.                   *)
Replays(r, rec) ==
    /\ rec # Absent /\ Presented(r).session \notin lapsed
    /\ ~rec.ended /\ rec.secret # Presented(r).secret

RotateGet(r) ==
    LET rec == sessions[Presented(r).session]
        verdict == RotateVerdict(r, rec)
        m == [mem[r] EXCEPT !.rec = rec, !.presented = Presented(r).session,
                            !.replayed = Replays(r, rec)]
    IN  /\ pc[r] = "rotate_get"
        /\ \/ verdict \in Answers /\ Replies(r, "rotate_get", verdict, m)
           \/ verdict \notin Answers /\ Goto(r, "rotate_get", verdict) /\ Holds(r, m)
        /\ Reads

Expire(r) ==
    /\ Goto(r, "expire", "expire_index")
    /\ WriteSession(Presented(r).session, Absent)
    /\ UNCHANGED mem

ExpireIndex(r) ==
    /\ Replies(r, "expire_index", "401", mem[r])
    /\ DropIndex(mem[r].rec.user, Presented(r).session)

Tombstone(r) ==
    /\ Replies(r, "tombstone", "401", mem[r])
    /\ WriteSession(Presented(r).session, [mem[r].rec EXCEPT !.secret = Absent, !.ended = TRUE])

Rotate(r) ==
    /\ Goto(r, "rotate", "rotated_user")
    /\ WriteSession(Presented(r).session, [mem[r].rec EXCEPT !.secret = r])
    /\ UNCHANGED mem

(* The user and the memberships are read after the rotation: whatever fails *)
(* there fails with the old token already spent.                            *)
RotatedUser(r) ==
    /\ pc[r] = "rotated_user"
    /\ \E answer \in IF mem[r].rec.user \in users THEN {"200", "500"} ELSE {"401"} :
        Replies(r, "rotated_user", answer,
            [mem[r] EXCEPT !.cred.secret = r, !.lost = answer = "500"])
    /\ Reads

RotateSession(r) ==
    RotateGet(r) \/ Expire(r) \/ ExpireIndex(r) \/ Tombstone(r) \/ Rotate(r) \/ RotatedUser(r)

-----------------------------------------------------------------------------
(* endSessionOwnedBy: sessions/revoke is for the owner of the session, and  *)
(* logout for who holds it, by an access token that may have expired or by  *)
(* the refresh token.                                                       *)
Entitled(r, rec, authenticated) ==
    \/ Is(r, {"revoke"}) /\ rec.user = call[r].user
    \/ ~Is(r, {"revoke"}) /\ (authenticated \/ rec.secret = mem[r].cred.secret)

EndGet(r) ==
    LET rec == sessions[mem[r].cred.session]
    IN  /\ pc[r] = "end_get"
        /\ \E authenticated \in BOOLEAN :
            LET ends == rec # Absent /\ Entitled(r, rec, authenticated)
                m == [mem[r] EXCEPT !.rec = rec, !.ended = ends]
            IN  \/ ends /\ Goto(r, "end_get", "end_session") /\ Holds(r, m)
                \/ ~ends /\ Replies(r, "end_get", "204", m)
        /\ Reads

EndSession(r) ==
    /\ Goto(r, "end_session", "end_index")
    /\ WriteSession(mem[r].cred.session, Absent)
    /\ UNCHANGED mem

EndIndex(r) ==
    /\ Replies(r, "end_index", "204", mem[r])
    /\ DropIndex(mem[r].rec.user, mem[r].cred.session)

EndSessionOwnedBy(r) == EndGet(r) \/ EndSession(r) \/ EndIndex(r)

-----------------------------------------------------------------------------
(* sessionsOf: the index of the user if it says anything, else a scan that  *)
(* indexes what it finds.  A tombstone is shown until it expires.           *)
Presentable(rec, u, s) == rec # Absent /\ rec.user = u /\ s \notin lapsed

ListIndex(r) ==
    LET indexed == {s \in SessionIds : sessionIndexKey(call[r].user, s) \in sessionIndex}
    IN  /\ Goto(r, "index_list", IF indexed = {} THEN "scan_list" ELSE "index_get")
        /\ Holds(r, [mem[r] EXCEPT !.todo = indexed])
        /\ Reads

Shows(r, s, to) ==
    LET shown == IF Presentable(sessions[s], call[r].user, s) THEN {s} ELSE {}
    IN  /\ Goto(r, pc[r], to)
        /\ Holds(r, [mem[r] EXCEPT !.todo = @ \ {s}, !.at = s, !.shown = @ \cup shown])
        /\ Reads

ReadIndexed(r) ==
    /\ pc[r] = "index_get"
    /\ \E s \in mem[r].todo :
        Shows(r, s, IF sessions[s] = Absent THEN "index_repair" ELSE "index_get")

RepairIndex(r) ==
    Goto(r, "index_repair", "index_get") /\ DropIndex(call[r].user, mem[r].at) /\ UNCHANGED mem

ScanList(r) ==
    /\ Goto(r, "scan_list", "scan_get")
    /\ Holds(r, [mem[r] EXCEPT !.todo = {s \in SessionIds : sessions[s] # Absent}])
    /\ Reads

ReadScanned(r) ==
    /\ pc[r] = "scan_get"
    /\ \E s \in mem[r].todo :
        LET mine == sessions[s] # Absent /\ sessions[s].user = call[r].user
        IN  Shows(r, s, IF mine THEN "scan_heal" ELSE "scan_get")

HealIndex(r) ==
    Goto(r, "scan_heal", "scan_get") /\ SetIndex(call[r].user, mem[r].at) /\ UNCHANGED mem

ShowDevices(r) ==
    /\ pc[r] \in {"index_get", "scan_get"} /\ mem[r].todo = {}
    /\ Replies(r, pc[r], "200", mem[r])
    /\ Reads

SessionsOf(r) ==
    \/ ListIndex(r) \/ ReadIndexed(r) \/ RepairIndex(r)
    \/ ScanList(r) \/ ReadScanned(r) \/ HealIndex(r) \/ ShowDevices(r)

-----------------------------------------------------------------------------
(* backfillSessionIndex: every session is read and indexed.                 *)
FillList(r) ==
    /\ Goto(r, "fill_list", "fill")
    /\ Holds(r, [mem[r] EXCEPT !.todo = {s \in SessionIds : sessions[s] # Absent}])
    /\ Reads

FillRead(r) ==
    \E s \in mem[r].todo :
        /\ Goto(r, "fill", IF sessions[s] = Absent THEN "fill" ELSE "fill_put")
        /\ Holds(r, [mem[r] EXCEPT !.todo = @ \ {s}, !.at = s, !.rec = sessions[s]])
        /\ Reads

FillPut(r) ==
    Goto(r, "fill_put", "fill") /\ SetIndex(mem[r].rec.user, mem[r].at) /\ UNCHANGED mem

FillEnd(r) == mem[r].todo = {} /\ Replies(r, "fill", "200", mem[r]) /\ Reads

BackfillSessions(r) == FillList(r) \/ FillRead(r) \/ FillPut(r) \/ FillEnd(r)

-----------------------------------------------------------------------------
(* The end of deleteAccount for a personal account, in these stores.  It    *)
(* scans the stores themselves: a session the index does not know is a live *)
(* credential.  The owner of a record does not change, so it is judged and  *)
(* deleted in one step.                                                     *)
EraseHome(r) ==
    /\ Goto(r, "erase_home", "erase_start")
    /\ homes' = homes \ {call[r].user}
    /\ UNCHANGED <<codes, identities, emailIndex, users, seats, post, time, device, given, mem>>

EraseList(r, from, to, keys) ==
    /\ mem[r].todo = {}
    /\ Goto(r, from, to)
    /\ Holds(r, [mem[r] EXCEPT !.todo = keys])
    /\ Reads

Erases(r, at, key) == Goto(r, at, at) /\ Holds(r, [mem[r] EXCEPT !.todo = @ \ {key}])

EraseIndex(r) ==
    \E s \in mem[r].todo : Erases(r, "erase_index", s) /\ DropIndex(call[r].user, s)

EraseIdentity(r) ==
    \E i \in mem[r].todo :
        /\ Erases(r, "erase_identity", i)
        /\ identities' = IF identities[i] = call[r].user THEN [identities EXCEPT ![i] = Absent] ELSE identities
        /\ UNCHANGED <<codes, emailIndex, users, homes, seats, post, time, device, given>>

EraseEmail(r) ==
    \E e \in mem[r].todo :
        /\ Erases(r, "erase_email", e)
        /\ emailIndex' = IF emailIndex[e] = call[r].user THEN [emailIndex EXCEPT ![e] = Absent] ELSE emailIndex
        /\ UNCHANGED <<codes, identities, users, homes, seats, post, time, device, given>>

ErasedSessions(r) == {s \in SessionIds : sessions[s] # Absent}

EraseSession(r) ==
    \E s \in mem[r].todo :
        LET mine == sessions[s] # Absent /\ sessions[s].user = call[r].user
        IN  Erases(r, "erase_session", s) /\ WriteSession(s, IF mine THEN Absent ELSE sessions[s])

EraseUser(r) ==
    /\ mem[r].todo = {}
    /\ Replies(r, "erase_session", "200", mem[r])
    /\ users' = users \ {call[r].user}
    /\ UNCHANGED <<codes, identities, emailIndex, homes, seats, post, time, device, given>>

DeleteUserRecords(r) ==
    \/ EraseHome(r)
    \/ EraseList(r, "erase_start", "erase_index",
                 {s \in SessionIds : sessionIndexKey(call[r].user, s) \in sessionIndex})
    \/ EraseIndex(r)
    \/ EraseList(r, "erase_index", "erase_identity", {i \in Identities : identities[i] # Absent})
    \/ EraseIdentity(r)
    \/ EraseList(r, "erase_identity", "erase_email", {e \in Emails : emailIndex[e] # Absent})
    \/ EraseEmail(r)
    \/ EraseList(r, "erase_email", "erase_session", ErasedSessions(r))
    \/ EraseSession(r) \/ EraseUser(r)
=============================================================================
