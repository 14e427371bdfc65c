---------------------------- MODULE Membership ----------------------------
(***************************************************************************)
(* Members and invitations: the handlers of accounts.js that change who is *)
(* in an account, the answer to an invitation (invitations.js), the sweep  *)
(* of expired invitations, and the backfill of the member index.           *)
(***************************************************************************)
EXTENDS AccountStores

-----------------------------------------------------------------------------
(* Minting an access token: it claims the memberships found now.            *)
Mint(r) ==
    /\ HasMemberships(r)
    /\ Is(r, {"mint"})
    /\ Goto(r, pc[r], "200")
    /\ access' = [access EXCEPT ![call[r].user] = mem[r].mine]
    /\ UNCHANGED <<accounts, handles, people, letters, lapsed, users, plans, call, mem>>

-----------------------------------------------------------------------------
(* changeRole.  The row is put back whole.                                  *)
RoleVerdict(r) ==
    CASE mem[r].roster[call[r].target] = Absent \/ call[r].target \notin Users -> "404"
      [] call[r].role # "owner" /\ IsLastOwner(mem[r].roster, call[r].target) -> "409"
      [] OTHER -> "role_index"

PutRole(r) ==
    /\ pc[r] = "role_row" /\ mem[r].todo = {}
    /\ RoleVerdict(r) = "role_index"
    /\ PutRow(r, "role_row", "role_index", call[r].account, call[r].target, call[r].role)
    /\ UNCHANGED mem

RefuseRole(r) ==
    /\ pc[r] = "role_row" /\ mem[r].todo = {}
    /\ RoleVerdict(r) # "role_index"
    /\ Goto(r, "role_row", RoleVerdict(r))
    /\ UNCHANGED <<stores, call, mem>>

ChangeRole(r) ==
    LET c == call[r]
    IN  \/ ListRoster(r, "role_list", "role_row", c.account)
        \/ ReadRoster(r, "role_row", c.account)
        \/ PutRole(r)
        \/ RefuseRole(r)
        \/ PutIndex(r, "role_index", "200", c.account, c.target)

-----------------------------------------------------------------------------
(* remove, of somebody with a user id.                                      *)
RemoveVerdict(r) ==
    CASE mem[r].roster[call[r].target] = Absent -> "404"
      [] IsLastOwner(mem[r].roster, call[r].target) -> "409"
      [] OTHER -> "remove_index"

RemoveRow(r) ==
    /\ pc[r] = "remove_row" /\ mem[r].todo = {}
    /\ RemoveVerdict(r) = "remove_index"
    /\ DeleteRow(r, "remove_row", "remove_index", call[r].account, call[r].target)
    /\ UNCHANGED mem

RefuseRemove(r) ==
    /\ pc[r] = "remove_row" /\ mem[r].todo = {}
    /\ RemoveVerdict(r) # "remove_index"
    /\ Goto(r, "remove_row", RemoveVerdict(r))
    /\ UNCHANGED <<stores, call, mem>>

Remove(r) ==
    LET c == call[r]
    IN  \/ ListRoster(r, "remove_list", "remove_row", c.account)
        \/ ReadRoster(r, "remove_row", c.account)
        \/ RemoveRow(r)
        \/ RefuseRemove(r)
        \/ DeleteIndex(r, "remove_index", "204", c.account, c.target)

(* remove, of an invitation that was not answered: the pending row goes,    *)
(* the invitation itself stays.                                             *)
WithdrawRead(r) ==
    /\ Goto(r, "withdraw_read",
            IF members[call[r].account][call[r].target] = Absent THEN "404" ELSE "withdraw_row")
    /\ UNCHANGED <<stores, call, mem>>

Withdraw(r) ==
    \/ WithdrawRead(r)
    \/ DeleteRow(r, "withdraw_row", "204", call[r].account, call[r].target) /\ UNCHANGED mem

-----------------------------------------------------------------------------
(* sweepExpired, with its index: what the index lists and has lapsed is     *)
(* dropped unread ...                                                       *)
SweepList(r) ==
    /\ Goto(r, "sweep_list", "sweep")
    /\ Holds(r, [mem[r] EXCEPT !.todo = expiryIndex, !.known = expiryIndex])
    /\ UNCHANGED <<stores, call>>

SweepDrop(r) ==
    \E t \in mem[r].todo \cap lapsed :
        /\ Goto(r, "sweep", "sweep_unindex")
        /\ invites' = [invites EXCEPT ![t] = Absent]
        /\ Holds(r, [mem[r] EXCEPT !.todo = @ \ {t}, !.at = t])
        /\ UNCHANGED <<accounts, handles, people, expiryIndex, lapsed, users, plans, access, call>>

SweepUnindex(r) ==
    /\ Goto(r, "sweep_unindex", "sweep")
    /\ expiryIndex' = expiryIndex \ {mem[r].at}
    /\ UNCHANGED <<accounts, handles, people, invites, lapsed, users, plans, access, call, mem>>

(* Bug: no catch-up, the index is taken for complete.                       *)
NotListedNone(r) == {}

(* ... and what it does not list is read, and dropped or indexed.           *)
NotListed(r) == {t \in Tokens : invites[t] # Absent} \ mem[r].known

CatchUpList(r) ==
    /\ pc[r] = "sweep" /\ mem[r].todo \cap lapsed = {}
    /\ Goto(r, "sweep", "catch_up")
    /\ Holds(r, [mem[r] EXCEPT !.todo = NotListed(r)])
    /\ UNCHANGED <<stores, call>>

CatchUpRead(r) ==
    \E t \in mem[r].todo :
        /\ Goto(r, "catch_up",
                CASE invites[t] = Absent -> "catch_up"
                  [] invites[t] # Absent /\ t \in lapsed -> "catch_up_drop"
                  [] invites[t] # Absent /\ t \notin lapsed -> "catch_up_index")
        /\ Holds(r, [mem[r] EXCEPT !.todo = @ \ {t}, !.at = t])
        /\ UNCHANGED <<stores, call>>

CatchUpDrop(r) ==
    /\ Goto(r, "catch_up_drop", "catch_up")
    /\ invites' = [invites EXCEPT ![mem[r].at] = Absent]
    /\ UNCHANGED <<accounts, handles, people, expiryIndex, lapsed, users, plans, access, call, mem>>

CatchUpIndex(r) ==
    /\ Goto(r, "catch_up_index", "catch_up")
    /\ expiryIndex' = expiryIndex \cup {mem[r].at}
    /\ UNCHANGED <<accounts, handles, people, invites, lapsed, users, plans, access, call, mem>>

Sweep(r) ==
    \/ SweepList(r) \/ SweepDrop(r) \/ SweepUnindex(r)
    \/ CatchUpList(r) \/ CatchUpRead(r) \/ CatchUpDrop(r) \/ CatchUpIndex(r)

-----------------------------------------------------------------------------
(* invite: sweep, then the invitation, its expiry key, the row keyed by the *)
(* address, and the mail, which may fail.                                   *)
InviteAccount(r) ==
    /\ Goto(r, "invite_account",
            IF accounts[call[r].account] = Absent THEN "404" ELSE "sweep_list")
    /\ UNCHANGED <<stores, call, mem>>

PutInvite(r) ==
    LET c == call[r]
    IN  /\ mem[r].todo = {}
        /\ Goto(r, "catch_up", "put_expiry")
        /\ invites' = [invites EXCEPT ![c.token] =
                [account |-> c.account, email |-> c.target, role |-> c.role,
                 invitedBy |-> c.user, accepted |-> FALSE]]
        /\ UNCHANGED <<accounts, handles, people, expiryIndex, lapsed, users, plans, access, call, mem>>

PutExpiry(r) ==
    /\ Goto(r, "put_expiry", "put_pending")
    /\ expiryIndex' = expiryIndex \cup {call[r].token}
    /\ UNCHANGED <<accounts, handles, people, invites, lapsed, users, plans, access, call, mem>>

PutPending(r) ==
    PutRow(r, "put_pending", "mail", call[r].account, call[r].target, call[r].role) /\ UNCHANGED mem

SendMail(r) ==
    /\ \E answer \in {"201", "500"} : Goto(r, "mail", answer)
    /\ UNCHANGED <<stores, call, mem>>

DoInvite(r) ==
    InviteAccount(r) \/ Sweep(r) \/ PutInvite(r) \/ PutExpiry(r) \/ PutPending(r) \/ SendMail(r)

-----------------------------------------------------------------------------
(* accept: load() decides over the state of the invitation ...              *)
LoadInvite(r) ==
    LET t == call[r].token
        inv == invites[t]
    IN  /\ Goto(r, "load_invite",
                CASE inv = Absent -> "404"
                  [] inv # Absent /\ inv.accepted -> "409"
                  [] inv # Absent /\ ~inv.accepted /\ t \in lapsed -> "410"
                  [] inv # Absent /\ ~inv.accepted /\ t \notin lapsed -> "load_account")
        /\ Holds(r, [mem[r] EXCEPT !.inv = inv])
        /\ UNCHANGED <<stores, call>>

LoadAccount(r) ==
    /\ Goto(r, "load_account", IF accounts[mem[r].inv.account] = Absent THEN "410" ELSE "load_pending")
    /\ UNCHANGED <<stores, call, mem>>

(* A missing pending row is how a withdrawn invitation shows.               *)
LoadPending(r) ==
    /\ Goto(r, "load_pending",
            IF members[mem[r].inv.account][mem[r].inv.email] = Absent THEN "410" ELSE "verify")
    /\ UNCHANGED <<stores, call, mem>>

(* holdsVerifiedAddress: the email index, or the user record.               *)
Verify(r) ==
    LET u == call[r].user
    IN  /\ Goto(r, "verify",
                IF u \in users /\ AddressOf[u] = mem[r].inv.email THEN "accept_row" ELSE "403")
        /\ UNCHANGED <<stores, call, mem>>

AcceptRow(r) ==
    /\ PutRow(r, "accept_row", "accept_index", mem[r].inv.account, call[r].user, mem[r].inv.role)
    /\ UNCHANGED mem

(* Bug: a member is not put in the index.                                   *)
AcceptIndexForgotten(r) ==
    Goto(r, "accept_index", "accept_pending") /\ UNCHANGED <<stores, call, mem>>

AcceptIndex(r) ==
    PutIndex(r, "accept_index", "accept_pending", mem[r].inv.account, call[r].user)

AcceptPending(r) ==
    /\ DeleteRow(r, "accept_pending", "accept_mark", mem[r].inv.account, mem[r].inv.email)
    /\ UNCHANGED mem

(* ... and the invitation is put back whole, marked.                        *)
AcceptMark(r) ==
    /\ Goto(r, "accept_mark", "200")
    /\ invites' = [invites EXCEPT ![call[r].token] = [mem[r].inv EXCEPT !.accepted = TRUE]]
    /\ UNCHANGED <<accounts, handles, people, expiryIndex, lapsed, users, plans, access, call, mem>>

Accept(r) ==
    \/ LoadInvite(r) \/ LoadAccount(r) \/ LoadPending(r) \/ Verify(r)
    \/ AcceptRow(r) \/ AcceptIndex(r) \/ AcceptPending(r) \/ AcceptMark(r)

-----------------------------------------------------------------------------
(* backfillMemberIndex: every user row that a listing shows is indexed; it  *)
(* reads nothing else.                                                      *)
BackfillList(r) ==
    /\ Goto(r, "backfill_list", "backfill")
    /\ Holds(r, [mem[r] EXCEPT !.listed = {k \in Users \X AccountIds : members[k[2]][k[1]] # Absent}])
    /\ UNCHANGED <<stores, call>>

(* Bug: the listing starts over.                                            *)
BackfillPutAgain(r) ==
    \E k \in mem[r].listed :
        /\ Goto(r, "backfill", "backfill")
        /\ memberIndex' = memberIndex \cup {memberIndexKey(k[1], k[2])}
        /\ UNCHANGED <<accounts, handles, members, letters, lapsed, users, plans, access, call, mem>>

BackfillPut(r) ==
    \E k \in mem[r].listed :
        /\ Goto(r, "backfill", "backfill")
        /\ memberIndex' = memberIndex \cup {memberIndexKey(k[1], k[2])}
        /\ Holds(r, [mem[r] EXCEPT !.listed = @ \ {k}])
        /\ UNCHANGED <<accounts, handles, members, letters, lapsed, users, plans, access, call>>

BackfillReport(r) ==
    /\ mem[r].listed = {}
    /\ Goto(r, "backfill", "200")
    /\ UNCHANGED <<stores, call, mem>>

Backfill(r) == BackfillList(r) \/ BackfillPut(r) \/ BackfillReport(r)
=============================================================================
