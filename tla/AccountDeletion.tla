-------------------------- MODULE AccountDeletion --------------------------
(***************************************************************************)
(* DELETE /api/accounts/:id: destroy (accounts.js), dropAccountOwnership   *)
(* (lib/catalog.js) and deleteAccount (lib/identity.js).                   *)
(***************************************************************************)
EXTENDS AccountStores

DestroyRead(r) ==
    LET account == accounts[call[r].account]
    IN  /\ Goto(r, "destroy_read",
                CASE account = Absent -> "404"
                  [] account # Absent /\ account.type = "personal" -> "index_list"
                  [] account # Absent /\ account.type # "personal" -> "plan_list")
        /\ Holds(r, [mem[r] EXCEPT !.personal = account # Absent /\ account.type = "personal"])
        /\ UNCHANGED <<stores, call>>

-----------------------------------------------------------------------------
(* soleOwnerships, before a personal account goes with its user: of the     *)
(* user's memberships, is any an organisation with no other owner?          *)
SoleBegin(r) ==
    /\ HasMemberships(r)
    /\ Is(r, {"destroy"})
    /\ Goto(r, pc[r], "sole_account")
    /\ Holds(r, [mem[r] EXCEPT !.left = {a \in AccountIds : mem[r].mine[a] # Absent}])
    /\ UNCHANGED <<stores, call>>

SoleAccount(r) ==
    \E a \in mem[r].left :
        LET organization == accounts[a] # Absent /\ accounts[a].type = "organization"
        IN  /\ Goto(r, "sole_account", IF organization THEN "sole_list" ELSE "sole_account")
            /\ Holds(r, [mem[r] EXCEPT !.left = @ \ {a}, !.at = a])
            /\ UNCHANGED <<stores, call>>

SoleJudge(r) ==
    /\ mem[r].todo = {}
    /\ Goto(r, "sole_row", "sole_account")
    /\ Holds(r, [mem[r] EXCEPT !.stuck = @ \/ IsLastOwner(mem[r].roster, call[r].user)])
    /\ UNCHANGED <<stores, call>>

SoleEnd(r) ==
    /\ mem[r].left = {}
    /\ Goto(r, "sole_account", IF mem[r].stuck THEN "409" ELSE "plan_list")
    /\ UNCHANGED <<stores, call, mem>>

SoleOwnerships(r) ==
    \/ SoleBegin(r) \/ SoleAccount(r)
    \/ ListRoster(r, "sole_list", "sole_row", mem[r].at)
    \/ ReadRoster(r, "sole_row", mem[r].at)
    \/ SoleJudge(r) \/ SoleEnd(r)

-----------------------------------------------------------------------------
(* dropAccountOwnership: each catalog entry of the account is deleted, or   *)
(* left without an owner if somebody relies on it or drafts are released.   *)
WritePlan(r, plan) ==
    /\ plans' = [plans EXCEPT ![call[r].account][mem[r].at] = plan]
    /\ UNCHANGED <<accounts, handles, people, letters, lapsed, users, access, call>>

PlanList(r) ==
    /\ Goto(r, "plan_list", "plan_record")
    /\ Holds(r, [mem[r] EXCEPT !.todo = {s \in Slugs : plans[call[r].account][s] # Absent}])
    /\ UNCHANGED <<stores, call>>

PlanRecord(r) ==
    \E s \in mem[r].todo :
        LET plan == plans[call[r].account][s]
        IN  /\ Goto(r, "plan_record", IF plan = Absent THEN "plan_record" ELSE "plan_meta")
            /\ Holds(r, [mem[r] EXCEPT !.todo = @ \ {s}, !.at = s, !.plan = plan])
            /\ UNCHANGED <<stores, call>>

PlanDoc(r) == LET plan == plans[call[r].account][mem[r].at]
              IN  IF plan = Absent THEN Absent ELSE plan.doc

PlanStays(r) == PlanDoc(r) \in {"published", "shared"} \/ call[r].release

PlanMeta(r) ==
    /\ Goto(r, "plan_meta", IF PlanStays(r) THEN "plan_disown" ELSE "plan_blobs")
    /\ Holds(r, [mem[r] EXCEPT !.plan.doc = PlanDoc(r)])
    /\ UNCHANGED <<stores, call>>

(* deleteEntry: what is under the prefix, then the index key.               *)
PlanBlobs(r) ==
    LET plan == plans[call[r].account][mem[r].at]
    IN  /\ Goto(r, "plan_blobs", "plan_key")
        /\ WritePlan(r, IF plan = Absent THEN Absent ELSE [plan EXCEPT !.doc = Absent, !.owned = FALSE])
        /\ UNCHANGED mem

PlanKey(r) ==
    /\ Goto(r, "plan_key", "plan_record")
    /\ WritePlan(r, Absent)
    /\ UNCHANGED mem

PlanOwned(r) == LET plan == plans[call[r].account][mem[r].at]
                IN  plan # Absent /\ plan.owned

PlanNames(r) == LET plan == plans[call[r].account][mem[r].at]
                IN  IF plan = Absent THEN {} ELSE plan.record

(* Bug: the index record is put back as it was.                             *)
PlanDisownKept(r) ==
    /\ Goto(r, "plan_disown", IF mem[r].plan.doc = Absent THEN "plan_record" ELSE "plan_release")
    /\ UNCHANGED <<stores, call, mem>>

(* The index record is put back without ownerAccountId, and its ownerId     *)
(* stays.  Then meta.json goes to nobody, and no longer says who it was     *)
(* shared with; an entry without meta.json is not counted.                  *)
PlanDisown(r) ==
    LET doc == mem[r].plan.doc
    IN  /\ Goto(r, "plan_disown", IF doc = Absent THEN "plan_record" ELSE "plan_release")
        /\ WritePlan(r, [record |-> mem[r].plan.record \ {"ownerAccountId"}, doc |-> PlanDoc(r),
                         owned |-> PlanOwned(r)])
        /\ UNCHANGED mem

PlanRelease(r) ==
    LET doc == IF mem[r].plan.doc = "published" \/ call[r].release THEN "published" ELSE "draft"
    IN  /\ Goto(r, "plan_release", "plan_record")
        /\ WritePlan(r, [record |-> PlanNames(r), doc |-> doc, owned |-> FALSE])
        /\ Holds(r, [mem[r] EXCEPT !.kept = TRUE])

PlanEnd(r) ==
    /\ mem[r].todo = {}
    /\ Goto(r, "plan_record", "account_read")
    /\ UNCHANGED <<stores, call, mem>>

DropOwnership(r) ==
    \/ PlanList(r) \/ PlanRecord(r) \/ PlanMeta(r) \/ PlanBlobs(r) \/ PlanKey(r)
    \/ PlanDisown(r) \/ PlanRelease(r) \/ PlanEnd(r)

-----------------------------------------------------------------------------
(* deleteAccount: the rows, the handle, the account, and the user if the    *)
(* first read of the account found a personal one.                          *)
AccountRead(r) ==
    LET account == accounts[call[r].account]
    IN  /\ Goto(r, "account_read", IF account = Absent THEN "400" ELSE "drop_list")
        /\ Holds(r, [mem[r] EXCEPT !.rec = account])
        /\ UNCHANGED <<stores, call>>

(* Bug: rows keyed by address are passed over.                              *)
ListedUsers(r) == {k \in Users : mem[r].roster[k] # Absent}

Listed(r) == {k \in Keys : mem[r].roster[k] # Absent}

DropRow(r) ==
    \E k \in Listed(r) :
        /\ mem[r].todo = {}
        /\ DeleteRow(r, "drop_row", IF k \in Users THEN "drop_index" ELSE "drop_row",
                     call[r].account, k)
        /\ Holds(r, [mem[r] EXCEPT !.roster[k] = Absent, !.at = k])

(* Bug: the name always goes back to the pool.                              *)
DropHandleReleased(r) ==
    LET h == mem[r].rec.handle
    IN  /\ Goto(r, "drop_row", "drop_account")
        /\ mem[r].todo = {} /\ Listed(r) = {} /\ h # Absent
        /\ handles' = [handles EXCEPT ![h] = Absent]
        /\ UNCHANGED <<accounts, people, letters, lapsed, users, plans, access, call, mem>>

(* The handle is retired while something is left under it, and goes back to *)
(* the pool otherwise.                                                      *)
DropHandle(r) ==
    LET h == mem[r].rec.handle
    IN  /\ Goto(r, "drop_row", "drop_account")
        /\ mem[r].todo = {} /\ Listed(r) = {} /\ h # Absent
        /\ handles' = [handles EXCEPT ![h] =
               IF mem[r].kept THEN [account |-> call[r].account, tombstone |-> TRUE, redirectsTo |-> Absent]
               ELSE Absent]
        /\ UNCHANGED <<accounts, people, letters, lapsed, users, plans, access, call, mem>>

DropAccount(r) ==
    /\ \/ pc[r] = "drop_account"
       \/ pc[r] = "drop_row" /\ mem[r].todo = {} /\ Listed(r) = {} /\ mem[r].rec.handle = Absent
    /\ Goto(r, pc[r], IF mem[r].personal THEN "erase_read" ELSE "200")
    /\ accounts' = [accounts EXCEPT ![call[r].account] = Absent]
    /\ UNCHANGED <<handles, people, letters, lapsed, users, plans, access, call, mem>>

DeleteAccount(r) ==
    \/ AccountRead(r)
    \/ ListRoster(r, "drop_list", "drop_row", call[r].account)
    \/ ReadRoster(r, "drop_row", call[r].account)
    \/ DropRow(r)
    \/ DeleteIndex(r, "drop_index", "drop_row", call[r].account, mem[r].at)
    \/ DropHandle(r) \/ DropAccount(r)

-----------------------------------------------------------------------------
(* deleteUserRecords, of these stores: the user's index keys, invitations   *)
(* sent by or to the user, pending rows of the address, the user.  The      *)
(* fields a record is judged by never change, so a record is judged and     *)
(* deleted in one step.                                                     *)
Address(r) == mem[r].at

EraseRead(r) ==
    LET u == call[r].user
    IN  /\ Goto(r, "erase_read", "erase_index_list")
        /\ Holds(r, [mem[r] EXCEPT !.at = IF u \in users THEN AddressOf[u] ELSE Absent])
        /\ UNCHANGED <<stores, call>>

EraseIndexList(r) ==
    /\ Goto(r, "erase_index_list", "erase_index")
    /\ Holds(r, [mem[r] EXCEPT !.todo = {a \in AccountIds : memberIndexKey(call[r].user, a) \in memberIndex}])
    /\ UNCHANGED <<stores, call>>

EraseIndex(r) ==
    \E a \in mem[r].todo :
        /\ Goto(r, "erase_index", "erase_index")
        /\ memberIndex' = memberIndex \ {memberIndexKey(call[r].user, a)}
        /\ Holds(r, [mem[r] EXCEPT !.todo = @ \ {a}])
        /\ UNCHANGED <<accounts, handles, members, letters, lapsed, users, plans, access, call>>

EraseInviteList(r) ==
    /\ mem[r].todo = {}
    /\ Goto(r, "erase_index", "erase_invite")
    /\ Holds(r, [mem[r] EXCEPT !.todo = {t \in Tokens : invites[t] # Absent}])
    /\ UNCHANGED <<stores, call>>

Mine(r, inv) == inv # Absent /\ (inv.invitedBy = call[r].user \/ inv.email = Address(r))

EraseInvite(r) ==
    \E t \in mem[r].todo :
        /\ Goto(r, "erase_invite", "erase_invite")
        /\ invites' = IF Mine(r, invites[t]) THEN [invites EXCEPT ![t] = Absent] ELSE invites
        /\ Holds(r, [mem[r] EXCEPT !.todo = @ \ {t}])
        /\ UNCHANGED <<accounts, handles, people, expiryIndex, lapsed, users, plans, access, call>>

ErasePendingList(r) ==
    /\ mem[r].todo = {}
    /\ Goto(r, "erase_invite", "erase_pending")
    /\ Holds(r, [mem[r] EXCEPT !.todo =
            {a \in AccountIds : Address(r) # Absent /\ members[a][Address(r)] # Absent}])
    /\ UNCHANGED <<stores, call>>

ErasePending(r) ==
    \E a \in mem[r].todo :
        /\ DeleteRow(r, "erase_pending", "erase_pending", a, Address(r))
        /\ Holds(r, [mem[r] EXCEPT !.todo = @ \ {a}])

EraseUser(r) ==
    /\ mem[r].todo = {}
    /\ Goto(r, "erase_pending", "200")
    /\ users' = users \ {call[r].user}
    /\ UNCHANGED <<accounts, handles, people, letters, lapsed, plans, access, call, mem>>

Erase(r) ==
    \/ EraseRead(r) \/ EraseIndexList(r) \/ EraseIndex(r) \/ EraseInviteList(r) \/ EraseInvite(r)
    \/ ErasePendingList(r) \/ ErasePending(r) \/ EraseUser(r)

Destroy(r) == DestroyRead(r) \/ SoleOwnerships(r) \/ DropOwnership(r) \/ DeleteAccount(r) \/ Erase(r)
=============================================================================
