----------------------------- MODULE AuthClient -----------------------------
(***************************************************************************)
(* AuthService of the app (lib/services/auth_service.dart): one device, its *)
(* tokens, and what it does with an answer.  Dart runs one callback at a   *)
(* time, so a step is what happens between two awaits.                     *)
(***************************************************************************)
EXTENDS AuthStores

(* What a device does changes no store of the server.                       *)
Local == UNCHANGED <<codes, people, seats, post, time, given>>

Of(r) == device[call[r].device]

Becomes(r, dev) == device' = [device EXCEPT ![call[r].device] = dev]

(* Bug: a refresh in flight does not stop the next one.                     *)
InFlightIgnored(dev) == FALSE

(* accessToken: one refresh at a time; who comes later waits for it.        *)
InFlight(dev) == dev.refreshing # Absent

UseToken(r) ==
    /\ ~mem[r].orphan
    /\ \/ /\ Of(r).tokens = Absent
          /\ Goto(r, "use", "null") /\ UNCHANGED <<mem, device>>
       \/ /\ Of(r).tokens # Absent /\ Of(r).fresh
          /\ Goto(r, "use", "200") /\ UNCHANGED <<mem, device>>
       \/ /\ Of(r).tokens # Absent /\ ~Of(r).fresh /\ InFlight(Of(r))
          /\ Goto(r, "use", "joined")
          /\ Holds(r, [mem[r] EXCEPT !.waits = Of(r).refreshing])
          /\ UNCHANGED device
       \/ /\ Of(r).tokens # Absent /\ ~Of(r).fresh /\ ~InFlight(Of(r))
          /\ Goto(r, "use", "rotate_get")
          /\ Holds(r, [mem[r] EXCEPT !.cred = Of(r).tokens])
          /\ Becomes(r, [Of(r) EXCEPT !.refreshing = r])
    /\ Local

Joined(r) ==
    /\ pc[r] = "joined"
    /\ \/ mem[r].orphan /\ Goto(r, "joined", "null")
       \/ pc[mem[r].waits] \in Answers /\ Goto(r, "joined", pc[mem[r].waits])
    /\ Local /\ UNCHANGED <<mem, device>>

(* The network: a request that does not arrive, an answer that does not.    *)
LoseRequest(r) ==
    /\ OnDevice(r)
    /\ pc[r] \in {"rotate_get", "end_get"}
    /\ Goto(r, pc[r], "settle")
    /\ Holds(r, [mem[r] EXCEPT !.answer = "null"])
    /\ Local /\ UNCHANGED device

LoseAnswer(r) ==
    /\ Goto(r, "back", "settle")
    /\ Holds(r, [mem[r] EXCEPT !.answer = "null", !.lost = TRUE])
    /\ Local /\ UNCHANGED device

-----------------------------------------------------------------------------
(* _adopt: whatever the device holds by now, the answer replaces it.        *)
Adopts(r) == mem[r].answer = "200" /\ Is(r, {"use", "callback", "collect"})

Adopt(r) ==
    /\ ~mem[r].orphan /\ Adopts(r)
    /\ Goto(r, "back", "persist")
    /\ Becomes(r, [Of(r) EXCEPT !.tokens = mem[r].cred, !.fresh = TRUE])
    /\ Local /\ UNCHANGED mem

Persist(r) ==
    /\ ~mem[r].orphan
    /\ Goto(r, "persist", "settle")
    /\ Becomes(r, [Of(r) EXCEPT !.stored = mem[r].cred])
    /\ Local /\ UNCHANGED mem

(* signOut: memory first, then the store, then the server is told.  A       *)
(* refresh that is refused ends in it.                                      *)
Refused401(r) == Is(r, {"use"}) /\ mem[r].answer = "401"

SignOut(r) ==
    /\ ~mem[r].orphan
    /\ \/ Goto(r, "signout", "clear")
       \/ Refused401(r) /\ Goto(r, "back", "clear")
    /\ Holds(r, [mem[r] EXCEPT !.cred = Of(r).tokens])
    /\ Becomes(r, [Of(r) EXCEPT !.tokens = Absent, !.refreshing = Absent])
    /\ Local

Clear(r) ==
    /\ ~mem[r].orphan
    /\ Goto(r, "clear", IF mem[r].cred = Absent THEN "settle" ELSE "end_get")
    /\ Becomes(r, [Of(r) EXCEPT !.stored = Absent])
    /\ Local /\ UNCHANGED mem

(* Bug: a refresh that failed is tried again at once.                       *)
ReportAgain(r) ==
    /\ ~mem[r].orphan /\ ~Adopts(r) /\ ~Refused401(r)
    /\ Goto(r, "back", IF Is(r, {"use"}) THEN "rotate_get" ELSE "settle")
    /\ Local /\ UNCHANGED <<mem, device>>

(* Any other answer is only reported.                                       *)
Report(r) ==
    /\ ~mem[r].orphan /\ ~Adopts(r) /\ ~Refused401(r)
    /\ Goto(r, "back", "settle")
    /\ Local /\ UNCHANGED <<mem, device>>

(* whenComplete frees the place of the refresh in flight, whose ever it is. *)
Settle(r) ==
    /\ ~mem[r].orphan
    /\ Goto(r, "settle", IF Is(r, {"use"}) /\ mem[r].answer # "200" THEN "null" ELSE mem[r].answer)
    /\ IF Is(r, {"use"}) THEN Becomes(r, [Of(r) EXCEPT !.refreshing = Absent]) ELSE UNCHANGED device
    /\ Local /\ UNCHANGED mem

-----------------------------------------------------------------------------
(* The app is closed and opened: restore reads the secure store, and what   *)
(* was waiting for an answer is gone.                                       *)
InProgress(r, d) == call[r].device = d /\ pc[r] \notin Answers \cup {"send"}

Restart(r) ==
    LET d == call[r].device
        old == device[d]
    IN  /\ Goto(r, "restart", "null")
        /\ Becomes(r, [old EXCEPT !.tokens = old.stored, !.refreshing = Absent,
                                  !.fresh = @ /\ old.stored = old.tokens])
        /\ mem' = [q \in Requests |-> IF q # r /\ InProgress(q, d) THEN [mem[q] EXCEPT !.orphan = TRUE]
                                      ELSE mem[q]]
        /\ Local

Abandoned(r) ==
    /\ mem[r].orphan
    /\ pc[r] \in {"use", "signout", "back", "persist", "clear", "settle"}
    /\ Goto(r, pc[r], "null")
    /\ Local /\ UNCHANGED <<mem, device>>

(* The access token comes within five minutes of its end.                   *)
Age(d) ==
    /\ device[d].tokens # Absent /\ device[d].fresh
    /\ device' = [device EXCEPT ![d].fresh = FALSE]
    /\ UNCHANGED <<codes, people, seats, post, time, pc, given, mem>>

OnDeviceStep(r) ==
    /\ OnDevice(r)
    /\ \/ UseToken(r) \/ Joined(r) \/ LoseRequest(r) \/ LoseAnswer(r) \/ Adopt(r) \/ Persist(r)
       \/ SignOut(r) \/ Clear(r) \/ Report(r) \/ Settle(r) \/ Restart(r) \/ Abandoned(r)
=============================================================================
