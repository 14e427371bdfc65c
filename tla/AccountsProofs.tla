--------------------------- MODULE AccountsProofs ---------------------------
(***************************************************************************)
(* What Accounts promises for every set of users, accounts, names and      *)
(* requests, and every start.                                              *)
(***************************************************************************)
EXTENDS Accounts, TLAPS

-----------------------------------------------------------------------------
(* What a handler holds at each of its calls.                               *)
IndexPcs == {"index_get", "index_repair", "scan_get", "scan_heal"}
RosterPcs == {"role_row", "remove_row", "sole_row", "drop_row", "drop_index"}
RolePcs == {"role_list", "role_row"}
ClaimPcs == {"claim", "claim_check"}
SweepPcs == {"sweep", "sweep_unindex", "catch_up", "catch_up_drop", "catch_up_index"}
InvitePcs == SweepPcs \cup {"invite_account", "sweep_list", "put_expiry", "put_pending", "mail"}
LoadedPcs == {"load_account", "load_pending", "verify", "accept_row", "accept_index",
              "accept_pending", "accept_mark"}
SolePcs == {"sole_account", "sole_list", "sole_row"}
EntryPcs == {"plan_meta", "plan_blobs", "plan_key", "plan_disown", "plan_release"}
DropPcs == {"drop_list", "drop_row", "drop_index", "drop_account"}
ErasePcs == {"erase_read", "erase_index_list", "erase_index", "erase_invite", "erase_pending"}
DestroyPcs == {"destroy_read", "plan_list", "plan_record", "account_read"} \cup SolePcs
              \cup EntryPcs \cup DropPcs \cup ErasePcs

Stage(p, c, m) ==
    /\ p \in IndexPcs \cup {"index_list", "scan_list"} => c.op \in {"mint", "destroy"}
    /\ p \in IndexPcs => m.todo \subseteq AccountIds
    /\ p \in {"index_repair", "scan_heal", "sole_list", "sole_row"} => m.at \in AccountIds
    /\ p \in RosterPcs => m.todo \subseteq Keys
    /\ p \in RolePcs => c.op = "role"
    /\ p = "role_index" => c.target \in Users
    /\ p \in ClaimPcs => c.op \in {"create", "upgrade", "rename"} /\ c.handle \in HandleNames
    /\ p \in ClaimPcs /\ c.op # "create" => m.rec \in Account
    /\ p \in {"create_account", "create_row", "create_index"} => c.op = "create"
    /\ p \in {"upgrade_check", "upgrade_read", "upgrade_write"} => c.op = "upgrade"
    /\ p = "upgrade_write" => m.rec \in Account
    /\ p \in {"rename_read", "retire", "rename_write"} => c.op = "rename" /\ c.handle \in HandleNames
    /\ p \in {"retire", "rename_write"} => m.rec \in Account
    /\ p = "retire" => m.rec.handle # Absent
    /\ p \in InvitePcs => c.op = "invite" /\ c.token \in Tokens /\ c.target \in Emails
    /\ p \in SweepPcs => m.todo \subseteq Tokens
    /\ p \in {"sweep_unindex", "catch_up_drop", "catch_up_index"} => m.at \in Tokens
    /\ p \in {"load_invite"} \cup LoadedPcs => c.op = "accept" /\ c.token \in Tokens
    /\ p \in LoadedPcs => m.inv \in Invite
    /\ p \in DestroyPcs => c.op = "destroy"
    /\ p \in EntryPcs \cup {"plan_record"} => m.todo \subseteq Slugs
    /\ p \in EntryPcs => m.at \in Slugs
    /\ p \in EntryPcs => m.plan \in Plan
    /\ p \in DropPcs => m.rec \in Account
    /\ p = "drop_account" => m.rec.handle # Absent
    /\ p = "drop_index" => m.at \in Users
    /\ p \in {"erase_index_list", "erase_index", "erase_invite", "erase_pending"} =>
            m.at \in Emails \cup {Absent}
    /\ p \in {"erase_index", "erase_pending"} => m.todo \subseteq AccountIds
    /\ p = "erase_invite" => m.todo \subseteq Tokens
    /\ p = "erase_pending" /\ m.todo # {} => m.at \in Emails

StageOf(r) == Stage(pc[r], call[r], mem[r])
StageOK == \A r \in Requests : StageOf(r)

GivenCalls == \E s \in Starts : call = s.calls

TypeInv == TypeOK /\ StageOK /\ GivenCalls

-----------------------------------------------------------------------------
(* The two blobs of an entry that dropAccountOwnership rewrites.            *)
RecordOwned(a, s) == plans[a][s] # Absent /\ "ownerAccountId" \in plans[a][s].record
MetaOwned(a, s) == plans[a][s] # Absent /\ (plans[a][s].owned \/ plans[a][s].doc = "shared")

AfterPlans == {"account_read"} \cup DropPcs

(* What a deletion has been through is dropped, and of the entry in hand    *)
(* the index record is dropped before meta.json.                            *)
Disowned(r) ==
    LET a == call[r].account
        at == mem[r].at
    IN  /\ pc[r] \in EntryPcs \cup {"plan_record"} =>
              \A s \in Slugs : RecordOwned(a, s) \/ MetaOwned(a, s) =>
                  s \in mem[r].todo \/ (pc[r] \in EntryPcs /\ s = at)
        /\ pc[r] = "plan_disown" /\ mem[r].plan.doc = Absent => ~MetaOwned(a, at)
        /\ pc[r] = "plan_key" => ~MetaOwned(a, at)
        /\ pc[r] = "plan_release" => ~RecordOwned(a, at)
        /\ pc[r] \in AfterPlans => \A s \in Slugs : ~RecordOwned(a, s) /\ ~MetaOwned(a, s)

(* A meta.json that is not there names nobody.                              *)
NoDocNoOwner ==
    \A a \in AccountIds : \A s \in Slugs :
        plans[a][s] # Absent /\ plans[a][s].owned => plans[a][s].doc # Absent

OwnersInv == OwnershipDropped /\ NoDocNoOwner /\ \A r \in Requests : Disowned(r)

-----------------------------------------------------------------------------
(* A deletion does not overlap what else writes its account: such a request *)
(* writes the account back, or finds its name with somebody else.           *)
OnAccount(c) == c.op \in {"create", "upgrade", "rename", "destroy"}

LoneDeletions ==
    \A s \in Starts : \A d, p \in Requests :
        (/\ d # p /\ s.calls[d].op = "destroy" /\ OnAccount(s.calls[p])
         /\ s.calls[d].account = s.calls[p].account)
        => p \in s.calls[d].after \/ d \in s.calls[p].after

InOrder ==
    \A r \in Requests : pc[r] # "send" => \A p \in call[r].after : pc[p] \in Answers

BoundTo(h, a) == handles[h] # Absent /\ handles[h].account = a

(* The names a handler is about to write lead to its account.               *)
Names(r) ==
    LET a == call[r].account
        old == mem[r].rec.handle
    IN  /\ pc[r] \in {"create_account", "upgrade_write", "retire", "rename_write"}
              /\ call[r].handle # Absent => BoundTo(call[r].handle, a)
        /\ pc[r] \in ClaimPcs /\ call[r].op # "create" /\ old # Absent => BoundTo(old, a)
        /\ pc[r] \in {"upgrade_write", "retire", "rename_write"} /\ old # Absent => BoundTo(old, a)
        /\ pc[r] \in DropPcs \ {"drop_account"} /\ old # Absent => BoundTo(old, a)

(* What a deletion has been through and kept nothing of holds nothing.      *)
Keeping(a, s) == plans[a][s] # Absent /\ plans[a][s].doc # Absent

Kept(r) ==
    LET a == call[r].account
    IN  /\ pc[r] \in EntryPcs \cup {"plan_record"} /\ ~mem[r].kept =>
              \A s \in Slugs : Keeping(a, s) =>
                  s \in mem[r].todo \/ (pc[r] \in EntryPcs /\ s = mem[r].at)
        /\ pc[r] = "plan_disown" /\ mem[r].plan.doc = Absent => ~Keeping(a, mem[r].at)
        /\ pc[r] \in AfterPlans /\ ~mem[r].kept => \A s \in Slugs : ~Keeping(a, s)

HandlesInv == HandleIsOwn /\ \A r \in Requests : Names(r) /\ Kept(r)

-----------------------------------------------------------------------------
(* A step of one request leaves every other where it stands.                *)
Undisturbed(q) == pc'[q] = pc[q] /\ mem'[q] = mem[q]

LEMMA StepFrame ==
    ASSUME TypeInv, NEW r \in Requests, Step(r)
    PROVE  /\ call' = call /\ lapsed' = lapsed
           /\ \A q \in Requests \ {r} : Undisturbed(q)
           /\ pc[r] \notin Answers /\ pc'[r] # "send"
<1> USE DEF TypeInv, TypeOK, Undisturbed, Goto, Holds, Answers, stores, people, letters
<1>1. CASE Send(r)
  <2>1. call[r].op \in Ops
    BY DEF Call
  <2>2. FirstOf(r) # "send"
    BY <2>1 DEF FirstOf, First, Ops
  <2> QED
    BY <1>1, <2>2 DEF Send
<1>2. CASE MembershipsOf(r) \/ Mint(r)
  BY <1>2 DEF MembershipsOf, ListIndex, ReadIndexed, RepairIndex, ListAllRows, ReadScanned, HealIndex,
              Mint, HasMemberships
<1>3. CASE ChangeRole(r) \/ Remove(r) \/ Withdraw(r)
  BY <1>3 DEF ChangeRole, PutRole, RefuseRole, RoleVerdict, Remove, RemoveRow, RefuseRemove, RemoveVerdict,
              Withdraw, WithdrawRead, ListRoster, ReadRoster, PutRow, PutIndex, DeleteRow, DeleteIndex
<1>4. CASE DoInvite(r)
  BY <1>4 DEF DoInvite, InviteAccount, Sweep, SweepList, SweepDrop, SweepUnindex, CatchUpList, CatchUpRead,
              CatchUpDrop, CatchUpIndex, PutInvite, PutExpiry, PutPending, SendMail, PutRow
<1>5. CASE Accept(r)
  BY <1>5 DEF Accept, LoadInvite, LoadAccount, LoadPending, Verify, AcceptRow, AcceptIndex, AcceptPending,
              AcceptMark, PutRow, PutIndex, DeleteRow
<1>6. CASE Backfill(r)
  BY <1>6 DEF Backfill, BackfillList, BackfillPut, BackfillReport
<1>7. CASE Claim(r)
  <2>1. pc[r] \in ClaimPcs /\ StageOf(r)
    BY <1>7 DEF Claim, ClaimHandle, ClaimCheck, ClaimPcs, StageOK
  <2>2. Claimed(r) # "send"
    BY <2>1 DEF Claimed, Is, StageOf, Stage
  <2> QED
    BY <1>7, <2>2 DEF Claim, ClaimHandle, ClaimCheck
<1>12. CASE Create(r) \/ Upgrade(r) \/ Rename(r)
  BY <1>12 DEF Create, CreateAccount, CreateRow, CreateIndex, Upgrade,
              UpgradeCheck, UpgradeRead, UpgradeWrite, Rename, RenameRead, RenameRetire, RenameWrite,
              PutAccount, PutRow, PutIndex
<1>8. CASE DestroyRead(r) \/ SoleOwnerships(r)
  BY <1>8 DEF DestroyRead, SoleOwnerships, SoleBegin, SoleAccount, SoleJudge, SoleEnd, ListRoster, ReadRoster,
              HasMemberships
<1>9. CASE DropOwnership(r)
  BY <1>9 DEF DropOwnership, PlanList, PlanRecord, PlanMeta, PlanBlobs, PlanKey, PlanDisown, PlanRelease,
              PlanEnd, WritePlan
<1>10. CASE DeleteAccount(r)
  BY <1>10 DEF DeleteAccount, AccountRead, ListRoster, ReadRoster, DropRow, DropHandle, DropAccount,
               DeleteRow, DeleteIndex
<1>11. CASE Erase(r)
  BY <1>11 DEF Erase, EraseRead, EraseIndexList, EraseIndex, EraseInviteList, EraseInvite, ErasePendingList,
               ErasePending, EraseUser, DeleteRow
<1> QED
  BY <1>1, <1>2, <1>3, <1>4, <1>5, <1>6, <1>7, <1>8, <1>9, <1>10, <1>11, <1>12 DEF Step, Destroy

-----------------------------------------------------------------------------
(* The types of what a request carries.                                     *)
Rosters == [Keys -> Roles \cup {Absent}]
Places == Keys \cup AccountIds \cup Tokens \cup Slugs \cup {Absent}
Listing == SUBSET (Keys \cup AccountIds \cup Tokens \cup Slugs)

LEMMA CallType ==
    ASSUME NEW c \in Call
    PROVE  /\ c.op \in Ops /\ c.user \in Users /\ c.account \in AccountIds /\ c.role \in Roles
           /\ c.target \in Keys \cup {Absent} /\ c.handle \in HandleNames \cup {Absent}
           /\ c.token \in Tokens \cup {Absent} /\ c.after \subseteq Requests
           /\ c.release \in BOOLEAN
BY DEF Call

(* What of a handler's memory a stage is about.                             *)
Holding(m, todo, at, rec, inv, plan, kept) ==
    /\ m \in Memory /\ m.todo = todo /\ m.at = at /\ m.rec = rec /\ m.inv = inv
    /\ m.plan = plan /\ m.kept = kept

LEMMA MemoryType ==
    ASSUME NEW m \in Memory
    PROVE  /\ m.todo \in Listing /\ m.roster \in Rosters /\ m.mine \in Claims
           /\ m.left \subseteq AccountIds /\ m.listed \subseteq Users \X AccountIds
           /\ m.at \in Places /\ m.rec \in Account \cup {Absent} /\ m.inv \in Invite \cup {Absent}
           /\ m.plan \in Plan \cup {Absent} /\ m.stuck \in BOOLEAN /\ m.kept \in BOOLEAN
           /\ m.personal \in BOOLEAN
           /\ m.known \subseteq Tokens /\ m.old \subseteq Tokens
BY DEF Memory, Listing, Rosters, Places

(* What a handler holds after it changed some of it: a lemma for each       *)
(* combination that a call changes together.                                *)
LEMMA MemoryTodo ==
    ASSUME NEW m \in Memory, NEW T \in Listing
    PROVE  Holding([m EXCEPT !.todo = T], T, m.at, m.rec, m.inv, m.plan, m.kept)
BY DEF Holding, Memory, Listing, Rosters, Claims, Places

LEMMA MemoryTodoRosterNew ==
    ASSUME NEW m \in Memory, NEW T \in Listing, NEW f \in Rosters
    PROVE  Holding([m EXCEPT !.todo = T, !.roster = f], T, m.at, m.rec, m.inv, m.plan, m.kept)
BY DEF Holding, Memory, Listing, Rosters, Claims, Places

LEMMA MemoryTodoRoster ==
    ASSUME NEW m \in Memory, NEW T \in Listing, NEW k \in Keys, NEW x \in Roles \cup {Absent}
    PROVE  Holding([m EXCEPT !.todo = T, !.roster[k] = x], T, m.at, m.rec, m.inv, m.plan, m.kept)
<1>1. [m.roster EXCEPT ![k] = x] \in Rosters
  BY MemoryType DEF Rosters, Claims
<1> QED
  BY <1>1 DEF Holding, Memory, Listing, Rosters, Claims, Places

LEMMA MemoryTodoMineNew ==
    ASSUME NEW m \in Memory, NEW T \in Listing, NEW f \in Claims
    PROVE  Holding([m EXCEPT !.todo = T, !.mine = f], T, m.at, m.rec, m.inv, m.plan, m.kept)
BY DEF Holding, Memory, Listing, Rosters, Claims, Places

LEMMA MemoryTodoMine ==
    ASSUME NEW m \in Memory, NEW T \in Listing, NEW a \in AccountIds, NEW x \in Roles \cup {Absent}
    PROVE  Holding([m EXCEPT !.todo = T, !.mine[a] = x, !.at = a], T, a, m.rec, m.inv, m.plan, m.kept)
<1>1. [m.mine EXCEPT ![a] = x] \in Claims
  BY MemoryType DEF Rosters, Claims
<1> QED
  BY <1>1 DEF Holding, Memory, Listing, Rosters, Claims, Places

LEMMA MemoryLeft ==
    ASSUME NEW m \in Memory, NEW S \in SUBSET AccountIds
    PROVE  Holding([m EXCEPT !.left = S], m.todo, m.at, m.rec, m.inv, m.plan, m.kept)
BY DEF Holding, Memory, Listing, Rosters, Claims, Places

LEMMA MemoryLeftAt ==
    ASSUME NEW m \in Memory, NEW S \in SUBSET AccountIds, NEW a \in AccountIds
    PROVE  Holding([m EXCEPT !.left = S, !.at = a], m.todo, a, m.rec, m.inv, m.plan, m.kept)
BY DEF Holding, Memory, Listing, Rosters, Claims, Places

LEMMA MemoryStuck ==
    ASSUME NEW m \in Memory, NEW b \in BOOLEAN
    PROVE  Holding([m EXCEPT !.stuck = b], m.todo, m.at, m.rec, m.inv, m.plan, m.kept)
BY DEF Holding, Memory, Listing, Rosters, Claims, Places

LEMMA MemoryRec ==
    ASSUME NEW m \in Memory, NEW x \in Account \cup {Absent}
    PROVE  Holding([m EXCEPT !.rec = x], m.todo, m.at, x, m.inv, m.plan, m.kept)
BY DEF Holding, Memory, Listing, Rosters, Claims, Places

LEMMA MemoryTodoKnown ==
    ASSUME NEW m \in Memory, NEW T \in Listing, NEW S \in SUBSET Tokens
    PROVE  Holding([m EXCEPT !.todo = T, !.known = S], T, m.at, m.rec, m.inv, m.plan, m.kept)
BY DEF Holding, Memory, Listing, Rosters, Claims, Places

LEMMA MemoryTodoAt ==
    ASSUME NEW m \in Memory, NEW T \in Listing, NEW y \in Places
    PROVE  Holding([m EXCEPT !.todo = T, !.at = y], T, y, m.rec, m.inv, m.plan, m.kept)
BY DEF Holding, Memory, Listing, Rosters, Claims, Places

LEMMA MemoryTodoAtPlan ==
    ASSUME NEW m \in Memory, NEW T \in Listing, NEW y \in Places, NEW x \in Plan \cup {Absent}
    PROVE  Holding([m EXCEPT !.todo = T, !.at = y, !.plan = x], T, y, m.rec, m.inv, x, m.kept)
BY DEF Holding, Memory, Listing, Rosters, Claims, Places

LEMMA MemoryPersonal ==
    ASSUME NEW m \in Memory, NEW b \in BOOLEAN
    PROVE  Holding([m EXCEPT !.personal = b], m.todo, m.at, m.rec, m.inv, m.plan, m.kept)
BY DEF Holding, Memory, Listing, Rosters, Claims, Places

LEMMA MemoryInv ==
    ASSUME NEW m \in Memory, NEW x \in Invite \cup {Absent}
    PROVE  Holding([m EXCEPT !.inv = x], m.todo, m.at, m.rec, x, m.plan, m.kept)
BY DEF Holding, Memory, Listing, Rosters, Claims, Places

LEMMA MemoryListed ==
    ASSUME NEW m \in Memory, NEW S \in SUBSET (Users \X AccountIds)
    PROVE  Holding([m EXCEPT !.listed = S], m.todo, m.at, m.rec, m.inv, m.plan, m.kept)
BY DEF Holding, Memory, Listing, Rosters, Claims, Places

LEMMA MemoryOld ==
    ASSUME NEW m \in Memory, NEW S \in SUBSET Tokens
    PROVE  Holding([m EXCEPT !.old = S], m.todo, m.at, m.rec, m.inv, m.plan, m.kept)
BY DEF Holding, Memory, Listing, Rosters, Claims, Places

LEMMA MemoryPlan ==
    ASSUME NEW m \in Memory, m.plan \in Plan, NEW x \in {"draft", "shared", "published", Absent}
    PROVE  Holding([m EXCEPT !.plan.doc = x], m.todo, m.at, m.rec, m.inv, [m.plan EXCEPT !.doc = x], m.kept)
<1>1. [m.plan EXCEPT !.doc = x] \in Plan
  BY DEF Plan
<1> QED
  BY <1>1 DEF Holding, Memory, Listing, Rosters, Claims, Places

LEMMA MemoryKept ==
    ASSUME NEW m \in Memory, NEW b \in BOOLEAN
    PROVE  Holding([m EXCEPT !.kept = b], m.todo, m.at, m.rec, m.inv, m.plan, b)
BY DEF Holding, Memory, Listing, Rosters, Claims, Places

LEMMA MemoryRosterAt ==
    ASSUME NEW m \in Memory, NEW k \in Keys, NEW x \in Roles \cup {Absent}
    PROVE  Holding([m EXCEPT !.roster[k] = x, !.at = k], m.todo, k, m.rec, m.inv, m.plan, m.kept)
<1>1. [m.roster EXCEPT ![k] = x] \in Rosters
  BY MemoryType DEF Rosters, Claims
<1> QED
  BY <1>1 DEF Holding, Memory, Listing, Rosters, Claims, Places

LEMMA MemoryAt ==
    ASSUME NEW m \in Memory, NEW y \in Places
    PROVE  Holding([m EXCEPT !.at = y], m.todo, y, m.rec, m.inv, m.plan, m.kept)
BY DEF Holding, Memory, Listing, Rosters, Claims, Places

-----------------------------------------------------------------------------
(* What is to be shown of a step.                                           *)
StoresOK ==
    /\ accounts \in [AccountIds -> Account \cup {Absent}]
    /\ handles \in [HandleNames -> HandleRec \cup {Absent}]
    /\ invites \in [Tokens -> Invite \cup {Absent}]
    /\ members \in [AccountIds -> Rosters]
    /\ memberIndex \subseteq Users \X AccountIds
    /\ expiryIndex \subseteq Tokens
    /\ lapsed \subseteq Tokens
    /\ users \subseteq Users
    /\ plans \in [AccountIds -> [Slugs -> Plan \cup {Absent}]]
    /\ access \in [Users -> Claims]

LEMMA TypeParts ==
    ASSUME TypeInv, NEW r \in Requests
    PROVE  /\ StoresOK /\ StageOf(r) /\ call[r] \in Call /\ mem[r] \in Memory
           /\ pc \in [Requests -> Pcs]
BY DEF TypeInv, TypeOK, StageOK, StoresOK, Rosters

LEMMA StepType ==
    ASSUME TypeInv, NEW r \in Requests, NEW p \in Pcs, NEW m \in Memory,
           pc' = [pc EXCEPT ![r] = p], mem' = [mem EXCEPT ![r] = m], call' = call,
           StoresOK', Stage(p, call[r], m)
    PROVE  TypeOK' /\ StageOf(r)'
BY DEF TypeInv, TypeOK, StoresOK, StageOf, Rosters

(* The same where the handler keeps what it holds.                          *)
LEMMA StepTypeKept ==
    ASSUME TypeInv, NEW r \in Requests, NEW p \in Pcs, Goto(r, pc[r], p), mem' = mem, call' = call,
           StoresOK', Stage(p, call[r], mem[r])
    PROVE  TypeOK' /\ StageOf(r)'
BY DEF TypeInv, TypeOK, StoresOK, StageOf, Rosters, Goto

(* Memberships are read, and a token is minted.                             *)
LEMMA MembershipsType ==
    ASSUME TypeInv, NEW r \in Requests, MembershipsOf(r) \/ Mint(r)
    PROVE  TypeOK' /\ StageOf(r)'
<1> USE DEF IndexPcs, RosterPcs, RolePcs, ClaimPcs, SweepPcs, InvitePcs, LoadedPcs, SolePcs,
        EntryPcs, DropPcs, ErasePcs, DestroyPcs, Pcs, Answers
<1>0. /\ StoresOK /\ StageOf(r) /\ call[r] \in Call /\ mem[r] \in Memory
      /\ pc \in [Requests -> Pcs]
  BY TypeParts
<1>1. /\ call[r].user \in Users /\ call[r].account \in AccountIds /\ call[r].role \in Roles
      /\ call[r].handle \in HandleNames \cup {Absent}
  BY <1>0, CallType
<1>2. CASE ListIndex(r)
  <2> DEFINE p == IF {a \in AccountIds : memberIndexKey(call[r].user, a) \in memberIndex} = {}
                  THEN "scan_list" ELSE "index_get"
             m == [mem[r] EXCEPT !.todo = {a \in AccountIds : memberIndexKey(call[r].user, a) \in memberIndex},
                                !.mine = NoClaims]
  <2>1. pc[r] = "index_list"
    BY <1>2 DEF Goto, ListIndex
  <2>2. {a \in AccountIds : memberIndexKey(call[r].user, a) \in memberIndex} \in Listing /\ NoClaims \in Claims
    BY <1>0, <1>1, <2>1 DEF StageOf, Stage, Listing, NoClaims, Claims
  <2>3. Holding(m, {a \in AccountIds : memberIndexKey(call[r].user, a) \in memberIndex}, mem[r].at,
      mem[r].rec, mem[r].inv, mem[r].plan, mem[r].kept)
    BY <1>0, <1>1, <2>2, MemoryType, MemoryTodoMineNew
  <2>4. StoresOK'
    BY <1>0, <1>1, <1>2, <2>2 DEF stores, people, letters, StoresOK, ListIndex
  <2>5. pc' = [pc EXCEPT ![r] = p] /\ mem' = [mem EXCEPT ![r] = m] /\ call' = call
    BY <1>0, <1>1, <1>2, <2>1 DEF Goto, Holds, ListIndex
  <2>6. p \in {"scan_list", "index_get"}
    OBVIOUS
  <2> HIDE DEF p, m
  <2>7. Stage(p, call[r], m)
    BY <1>0, <1>1, <2>1, <2>2, <2>3, <2>6 DEF Holding, StageOf, Stage
  <2> QED
    BY <2>4, <2>5, <2>3, <2>6, <2>7, StepType DEF Holding
<1>3. CASE ReadIndexed(r)
  <2>1. PICK a \in mem[r].todo :
           /\ Goto(r, "index_get", IF members[a][call[r].user] = Absent THEN "index_repair" ELSE "index_get")
           /\ Holds(r, [mem[r] EXCEPT !.todo = @ \ {a}, !.mine[a] = members[a][call[r].user], !.at = a])
           /\ UNCHANGED <<stores, call>>
    BY <1>3 DEF ReadIndexed, RowThroughIndex
  <2> DEFINE p == IF members[a][call[r].user] = Absent THEN "index_repair" ELSE "index_get"
             m == [mem[r] EXCEPT !.todo = mem[r].todo \ {a}, !.mine[a] = members[a][call[r].user], !.at = a]
  <2>2. pc[r] = "index_get"
    BY <2>1 DEF Goto, Holds
  <2>3. a \in AccountIds /\ mem[r].todo \ {a} \in Listing /\ members[a][call[r].user] \in Roles \cup {Absent}
    BY <1>0, <1>1, <2>2, MemoryType DEF StageOf, Stage, Listing, StoresOK, Rosters, Keys
  <2>4. Holding(m, mem[r].todo \ {a}, a, mem[r].rec, mem[r].inv, mem[r].plan, mem[r].kept)
    BY <1>0, <1>1, <2>3, MemoryType, MemoryTodoMine
  <2>5. StoresOK'
    BY <1>0, <1>1, <2>1, <2>3 DEF stores, people, letters, StoresOK, Holds
  <2>6. pc' = [pc EXCEPT ![r] = p] /\ mem' = [mem EXCEPT ![r] = m] /\ call' = call
    BY <1>0, <1>1, <2>1, <2>2 DEF Goto, Holds, Holds
  <2>7. p \in {"index_repair", "index_get"}
    OBVIOUS
  <2> HIDE DEF p, m
  <2>8. Stage(p, call[r], m)
    BY <1>0, <1>1, <2>2, <2>3, <2>4, <2>7 DEF Holding, StageOf, Stage
  <2> QED
    BY <2>5, <2>6, <2>4, <2>7, <2>8, StepType DEF Holding
<1>4. CASE RepairIndex(r)
  <2>1. pc[r] = "index_repair"
    BY <1>4 DEF Goto, RepairIndex
  <2>2. StoresOK'
    BY <1>0, <1>1, <1>4 DEF letters, StoresOK, RepairIndex
  <2>3. Goto(r, pc[r], "index_get") /\ mem' = mem /\ call' = call
    BY <1>0, <1>1, <1>4, <2>1 DEF Goto, Holds, RepairIndex
  <2>4. Stage("index_get", call[r], mem[r])
    BY <1>0, <1>1, <2>1 DEF Holding, StageOf, Stage
  <2> QED
    BY <2>2, <2>3, <2>4, StepTypeKept DEF Holding
<1>5. CASE ListAllRows(r)
  <2> DEFINE m == [mem[r] EXCEPT !.todo = {a \in AccountIds : members[a][call[r].user] # Absent}]
  <2>1. pc[r] = "scan_list"
    BY <1>5 DEF Goto, ListAllRows
  <2>2. {a \in AccountIds : members[a][call[r].user] # Absent} \in Listing
    BY <1>0, <1>1, <2>1 DEF StageOf, Stage, Listing
  <2>3. Holding(m, {a \in AccountIds : members[a][call[r].user] # Absent}, mem[r].at, mem[r].rec,
      mem[r].inv, mem[r].plan, mem[r].kept)
    BY <1>0, <1>1, <2>2, MemoryType, MemoryTodo
  <2>4. StoresOK'
    BY <1>0, <1>1, <1>5, <2>2 DEF stores, people, letters, StoresOK, ListAllRows
  <2>5. pc' = [pc EXCEPT ![r] = "scan_get"] /\ mem' = [mem EXCEPT ![r] = m] /\ call' = call
    BY <1>0, <1>1, <1>5, <2>1 DEF Goto, Holds, ListAllRows
  <2> HIDE DEF m
  <2>6. Stage("scan_get", call[r], m)
    BY <1>0, <1>1, <2>1, <2>2, <2>3 DEF Holding, StageOf, Stage
  <2> QED
    BY <2>4, <2>5, <2>3, <2>6, StepType DEF Holding
<1>6. CASE ReadScanned(r)
  <2>1. PICK a \in mem[r].todo :
           /\ Goto(r, "scan_get", IF members[a][call[r].user] = Absent THEN "scan_get" ELSE "scan_heal")
           /\ Holds(r, [mem[r] EXCEPT !.todo = @ \ {a}, !.mine[a] = members[a][call[r].user], !.at = a])
           /\ UNCHANGED <<stores, call>>
    BY <1>6 DEF ReadScanned
  <2> DEFINE p == IF members[a][call[r].user] = Absent THEN "scan_get" ELSE "scan_heal"
             m == [mem[r] EXCEPT !.todo = mem[r].todo \ {a}, !.mine[a] = members[a][call[r].user], !.at = a]
  <2>2. pc[r] = "scan_get"
    BY <2>1 DEF Goto, Holds
  <2>3. a \in AccountIds /\ mem[r].todo \ {a} \in Listing /\ members[a][call[r].user] \in Roles \cup {Absent}
    BY <1>0, <1>1, <2>2, MemoryType DEF StageOf, Stage, Listing, StoresOK, Rosters, Keys
  <2>4. Holding(m, mem[r].todo \ {a}, a, mem[r].rec, mem[r].inv, mem[r].plan, mem[r].kept)
    BY <1>0, <1>1, <2>3, MemoryType, MemoryTodoMine
  <2>5. StoresOK'
    BY <1>0, <1>1, <2>1, <2>3 DEF stores, people, letters, StoresOK, Holds
  <2>6. pc' = [pc EXCEPT ![r] = p] /\ mem' = [mem EXCEPT ![r] = m] /\ call' = call
    BY <1>0, <1>1, <2>1, <2>2 DEF Goto, Holds, Holds
  <2>7. p \in {"scan_get", "scan_heal"}
    OBVIOUS
  <2> HIDE DEF p, m
  <2>8. Stage(p, call[r], m)
    BY <1>0, <1>1, <2>2, <2>3, <2>4, <2>7 DEF Holding, StageOf, Stage
  <2> QED
    BY <2>5, <2>6, <2>4, <2>7, <2>8, StepType DEF Holding
<1>7. CASE HealIndex(r)
  <2>1. pc[r] = "scan_heal"
    BY <1>7 DEF Goto, HealIndex
  <2>2. mem[r].at \in AccountIds
    BY <1>0, <1>1, <2>1 DEF StageOf, Stage
  <2>3. StoresOK'
    BY <1>0, <1>1, <1>7, <2>2 DEF letters, memberIndexKey, StoresOK, HealIndex
  <2>4. Goto(r, pc[r], "scan_get") /\ mem' = mem /\ call' = call
    BY <1>0, <1>1, <1>7, <2>1 DEF Goto, Holds, HealIndex
  <2>5. Stage("scan_get", call[r], mem[r])
    BY <1>0, <1>1, <2>1, <2>2 DEF Holding, StageOf, Stage
  <2> QED
    BY <2>3, <2>4, <2>5, StepTypeKept DEF Holding
<1>8. CASE Mint(r)
  <2>1. pc[r] \in {"index_get", "scan_get"}
    BY <1>8 DEF Goto, Mint, HasMemberships
  <2>2. mem[r].mine \in Claims
    BY <1>0, <1>1, <2>1, MemoryType DEF StageOf, Stage
  <2>3. StoresOK'
    BY <1>0, <1>1, <1>8, <2>2 DEF people, letters, StoresOK, Mint, HasMemberships
  <2>4. Goto(r, pc[r], "200") /\ mem' = mem /\ call' = call
    BY <1>0, <1>1, <1>8, <2>1 DEF Goto, Holds, Mint, HasMemberships
  <2>5. Stage("200", call[r], mem[r])
    BY <1>0, <1>1, <2>1, <2>2 DEF Holding, StageOf, Stage
  <2> QED
    BY <2>3, <2>4, <2>5, StepTypeKept DEF Holding
<1> QED
  BY <1>2, <1>3, <1>4, <1>5, <1>6, <1>7, <1>8 DEF MembershipsOf

(* Members are changed and removed, and an invitation is withdrawn.         *)
LEMMA RosterType ==
    ASSUME TypeInv, NEW r \in Requests, ChangeRole(r) \/ Remove(r) \/ Withdraw(r)
    PROVE  TypeOK' /\ StageOf(r)'
<1> USE DEF IndexPcs, RosterPcs, RolePcs, ClaimPcs, SweepPcs, InvitePcs, LoadedPcs, SolePcs,
        EntryPcs, DropPcs, ErasePcs, DestroyPcs, Pcs, Answers
<1>0. /\ StoresOK /\ StageOf(r) /\ call[r] \in Call /\ mem[r] \in Memory
      /\ pc \in [Requests -> Pcs]
  BY TypeParts
<1>1. /\ call[r].user \in Users /\ call[r].account \in AccountIds /\ call[r].role \in Roles
      /\ call[r].handle \in HandleNames \cup {Absent}
  BY <1>0, CallType
<1>2. CASE ListRoster(r, "role_list", "role_row", call[r].account)
  <2> DEFINE m == [mem[r] EXCEPT !.todo = Rows(call[r].account), !.roster = NoRows]
  <2>1. pc[r] = "role_list"
    BY <1>2 DEF Goto, ListRoster
  <2>2. Rows(call[r].account) \in Listing /\ NoRows \in Rosters /\ Rows(call[r].account) \subseteq Keys
    BY <1>0, <1>1, <2>1 DEF StageOf, Stage, Rows, NoRows, Listing, Rosters
  <2>3. Holding(m, Rows(call[r].account), mem[r].at, mem[r].rec, mem[r].inv, mem[r].plan,
      mem[r].kept)
    BY <1>0, <1>1, <2>2, MemoryType, MemoryTodoRosterNew
  <2>4. StoresOK'
    BY <1>0, <1>1, <1>2, <2>2 DEF stores, people, letters, StoresOK, ListRoster
  <2>5. pc' = [pc EXCEPT ![r] = "role_row"] /\ mem' = [mem EXCEPT ![r] = m] /\ call' = call
    BY <1>0, <1>1, <1>2, <2>1 DEF Goto, Holds, ListRoster
  <2> HIDE DEF m
  <2>6. Stage("role_row", call[r], m)
    BY <1>0, <1>1, <2>1, <2>2, <2>3 DEF Holding, StageOf, Stage
  <2> QED
    BY <2>4, <2>5, <2>3, <2>6, StepType DEF Holding
<1>3. CASE ReadRoster(r, "role_row", call[r].account)
  <2>1. PICK k \in mem[r].todo :
           /\ pc[r] = "role_row"
           /\ Holds(r, [mem[r] EXCEPT !.todo = @ \ {k}, !.roster[k] = members[call[r].account][k]])
           /\ UNCHANGED <<stores, pc, call>>
    BY <1>3 DEF ReadRoster
  <2> DEFINE m == [mem[r] EXCEPT !.todo = mem[r].todo \ {k}, !.roster[k] = members[call[r].account][k]]
  <2>2. pc[r] = "role_row"
    BY <2>1 DEF Goto, Holds
  <2>3. k \in Keys /\ mem[r].todo \ {k} \in Listing /\ members[call[r].account][k] \in Roles \cup {Absent}
    BY <1>0, <1>1, <2>2, MemoryType DEF StageOf, Stage, StoresOK, Rosters, Listing
  <2>4. Holding(m, mem[r].todo \ {k}, mem[r].at, mem[r].rec, mem[r].inv, mem[r].plan, mem[r].kept)
    BY <1>0, <1>1, <2>3, MemoryType, MemoryTodoRoster
  <2>5. StoresOK'
    BY <1>0, <1>1, <2>1, <2>3 DEF stores, people, letters, StoresOK, Holds
  <2>6. pc' = [pc EXCEPT ![r] = "role_row"] /\ mem' = [mem EXCEPT ![r] = m] /\ call' = call
    BY <1>0, <1>1, <2>1, <2>2 DEF Goto, Holds, Holds
  <2> HIDE DEF m
  <2>7. Stage("role_row", call[r], m)
    BY <1>0, <1>1, <2>2, <2>3, <2>4 DEF Holding, StageOf, Stage
  <2> QED
    BY <2>5, <2>6, <2>4, <2>7, StepType DEF Holding
<1>4. CASE PutRole(r)
  <2>1. pc[r] = "role_row"
    BY <1>4 DEF Goto, PutRole, PutRow
  <2>2. call[r].target \in Users
    BY <1>0, <1>1, <2>1, <1>4 DEF StageOf, Stage, PutRole, RoleVerdict
  <2>3. StoresOK'
    BY <1>0, <1>1, <1>4, <2>2 DEF letters, Rosters, Keys, StoresOK, PutRole, PutRow
  <2>4. Goto(r, pc[r], "role_index") /\ mem' = mem /\ call' = call
    BY <1>0, <1>1, <1>4, <2>1 DEF Goto, Holds, PutRole, PutRow
  <2>5. Stage("role_index", call[r], mem[r])
    BY <1>0, <1>1, <2>1, <2>2 DEF Holding, StageOf, Stage
  <2> QED
    BY <2>3, <2>4, <2>5, StepTypeKept DEF Holding
<1>5. CASE RefuseRole(r)
  <2>1. pc[r] = "role_row"
    BY <1>5 DEF Goto, RefuseRole
  <2>2. RoleVerdict(r) \in {"404", "409"}
    BY <1>0, <1>1, <2>1, <1>5 DEF StageOf, Stage, RefuseRole, RoleVerdict
  <2>3. StoresOK'
    BY <1>0, <1>1, <1>5, <2>2 DEF stores, people, letters, StoresOK, RefuseRole
  <2>4. Goto(r, pc[r], RoleVerdict(r)) /\ mem' = mem /\ call' = call
    BY <1>0, <1>1, <1>5, <2>1 DEF Goto, Holds, RefuseRole
  <2>5. Stage(RoleVerdict(r), call[r], mem[r])
    BY <1>0, <1>1, <2>1, <2>2 DEF Holding, StageOf, Stage
  <2> QED
    BY <2>3, <2>4, <2>2, <2>5, StepTypeKept DEF Holding
<1>6. CASE PutIndex(r, "role_index", "200", call[r].account, call[r].target)
  <2>1. pc[r] = "role_index"
    BY <1>6 DEF Goto, PutIndex
  <2>2. call[r].target \in Users
    BY <1>0, <1>1, <2>1 DEF StageOf, Stage
  <2>3. StoresOK'
    BY <1>0, <1>1, <1>6, <2>2 DEF letters, memberIndexKey, StoresOK, PutIndex
  <2>4. Goto(r, pc[r], "200") /\ mem' = mem /\ call' = call
    BY <1>0, <1>1, <1>6, <2>1 DEF Goto, Holds, PutIndex
  <2>5. Stage("200", call[r], mem[r])
    BY <1>0, <1>1, <2>1, <2>2 DEF Holding, StageOf, Stage
  <2> QED
    BY <2>3, <2>4, <2>5, StepTypeKept DEF Holding
<1>7. CASE ListRoster(r, "remove_list", "remove_row", call[r].account)
  <2> DEFINE m == [mem[r] EXCEPT !.todo = Rows(call[r].account), !.roster = NoRows]
  <2>1. pc[r] = "remove_list"
    BY <1>7 DEF Goto, ListRoster
  <2>2. Rows(call[r].account) \in Listing /\ NoRows \in Rosters /\ Rows(call[r].account) \subseteq Keys
    BY <1>0, <1>1, <2>1 DEF StageOf, Stage, Rows, NoRows, Listing, Rosters
  <2>3. Holding(m, Rows(call[r].account), mem[r].at, mem[r].rec, mem[r].inv, mem[r].plan,
      mem[r].kept)
    BY <1>0, <1>1, <2>2, MemoryType, MemoryTodoRosterNew
  <2>4. StoresOK'
    BY <1>0, <1>1, <1>7, <2>2 DEF stores, people, letters, StoresOK, ListRoster
  <2>5. pc' = [pc EXCEPT ![r] = "remove_row"] /\ mem' = [mem EXCEPT ![r] = m] /\ call' = call
    BY <1>0, <1>1, <1>7, <2>1 DEF Goto, Holds, ListRoster
  <2> HIDE DEF m
  <2>6. Stage("remove_row", call[r], m)
    BY <1>0, <1>1, <2>1, <2>2, <2>3 DEF Holding, StageOf, Stage
  <2> QED
    BY <2>4, <2>5, <2>3, <2>6, StepType DEF Holding
<1>8. CASE ReadRoster(r, "remove_row", call[r].account)
  <2>1. PICK k \in mem[r].todo :
           /\ pc[r] = "remove_row"
           /\ Holds(r, [mem[r] EXCEPT !.todo = @ \ {k}, !.roster[k] = members[call[r].account][k]])
           /\ UNCHANGED <<stores, pc, call>>
    BY <1>8 DEF ReadRoster
  <2> DEFINE m == [mem[r] EXCEPT !.todo = mem[r].todo \ {k}, !.roster[k] = members[call[r].account][k]]
  <2>2. pc[r] = "remove_row"
    BY <2>1 DEF Goto, Holds
  <2>3. k \in Keys /\ mem[r].todo \ {k} \in Listing /\ members[call[r].account][k] \in Roles \cup {Absent}
    BY <1>0, <1>1, <2>2, MemoryType DEF StageOf, Stage, StoresOK, Rosters, Listing
  <2>4. Holding(m, mem[r].todo \ {k}, mem[r].at, mem[r].rec, mem[r].inv, mem[r].plan, mem[r].kept)
    BY <1>0, <1>1, <2>3, MemoryType, MemoryTodoRoster
  <2>5. StoresOK'
    BY <1>0, <1>1, <2>1, <2>3 DEF stores, people, letters, StoresOK, Holds
  <2>6. pc' = [pc EXCEPT ![r] = "remove_row"] /\ mem' = [mem EXCEPT ![r] = m] /\ call' = call
    BY <1>0, <1>1, <2>1, <2>2 DEF Goto, Holds, Holds
  <2> HIDE DEF m
  <2>7. Stage("remove_row", call[r], m)
    BY <1>0, <1>1, <2>2, <2>3, <2>4 DEF Holding, StageOf, Stage
  <2> QED
    BY <2>5, <2>6, <2>4, <2>7, StepType DEF Holding
<1>9. CASE RemoveRow(r)
  <2>1. pc[r] = "remove_row"
    BY <1>9 DEF Goto, RemoveRow, DeleteRow
  <2>2. StoresOK'
    BY <1>0, <1>1, <1>9 DEF letters, Rosters, StoresOK, RemoveRow, DeleteRow
  <2>3. Goto(r, pc[r], "remove_index") /\ mem' = mem /\ call' = call
    BY <1>0, <1>1, <1>9, <2>1 DEF Goto, Holds, RemoveRow, DeleteRow
  <2>4. Stage("remove_index", call[r], mem[r])
    BY <1>0, <1>1, <2>1 DEF Holding, StageOf, Stage
  <2> QED
    BY <2>2, <2>3, <2>4, StepTypeKept DEF Holding
<1>10. CASE RefuseRemove(r)
  <2>1. pc[r] = "remove_row"
    BY <1>10 DEF Goto, RefuseRemove
  <2>2. RemoveVerdict(r) \in {"404", "409"}
    BY <1>0, <1>1, <2>1, <1>10 DEF StageOf, Stage, RefuseRemove, RemoveVerdict
  <2>3. StoresOK'
    BY <1>0, <1>1, <1>10, <2>2 DEF stores, people, letters, StoresOK, RefuseRemove
  <2>4. Goto(r, pc[r], RemoveVerdict(r)) /\ mem' = mem /\ call' = call
    BY <1>0, <1>1, <1>10, <2>1 DEF Goto, Holds, RefuseRemove
  <2>5. Stage(RemoveVerdict(r), call[r], mem[r])
    BY <1>0, <1>1, <2>1, <2>2 DEF Holding, StageOf, Stage
  <2> QED
    BY <2>3, <2>4, <2>2, <2>5, StepTypeKept DEF Holding
<1>11. CASE DeleteIndex(r, "remove_index", "204", call[r].account, call[r].target)
  <2>1. pc[r] = "remove_index"
    BY <1>11 DEF Goto, DeleteIndex
  <2>2. StoresOK'
    BY <1>0, <1>1, <1>11 DEF letters, StoresOK, DeleteIndex
  <2>3. Goto(r, pc[r], "204") /\ mem' = mem /\ call' = call
    BY <1>0, <1>1, <1>11, <2>1 DEF Goto, Holds, DeleteIndex
  <2>4. Stage("204", call[r], mem[r])
    BY <1>0, <1>1, <2>1 DEF Holding, StageOf, Stage
  <2> QED
    BY <2>2, <2>3, <2>4, StepTypeKept DEF Holding
<1>12. CASE WithdrawRead(r)
  <2> DEFINE p == IF members[call[r].account][call[r].target] = Absent THEN "404" ELSE "withdraw_row"
  <2>1. pc[r] = "withdraw_read"
    BY <1>12 DEF Goto, WithdrawRead
  <2>2. StoresOK'
    BY <1>0, <1>1, <1>12 DEF stores, people, letters, StoresOK, WithdrawRead
  <2>3. Goto(r, pc[r], p) /\ mem' = mem /\ call' = call
    BY <1>0, <1>1, <1>12, <2>1 DEF Goto, Holds, WithdrawRead
  <2>4. p \in {"404", "withdraw_row"}
    OBVIOUS
  <2> HIDE DEF p
  <2>5. Stage(p, call[r], mem[r])
    BY <1>0, <1>1, <2>1, <2>4 DEF Holding, StageOf, Stage
  <2> QED
    BY <2>2, <2>3, <2>4, <2>5, StepTypeKept DEF Holding
<1>13. CASE DeleteRow(r, "withdraw_row", "204", call[r].account, call[r].target) /\ UNCHANGED mem
  <2>1. pc[r] = "withdraw_row"
    BY <1>13 DEF Goto, DeleteRow
  <2>2. StoresOK'
    BY <1>0, <1>1, <1>13 DEF letters, Rosters, StoresOK, DeleteRow
  <2>3. Goto(r, pc[r], "204") /\ mem' = mem /\ call' = call
    BY <1>0, <1>1, <1>13, <2>1 DEF Goto, Holds, DeleteRow
  <2>4. Stage("204", call[r], mem[r])
    BY <1>0, <1>1, <2>1 DEF Holding, StageOf, Stage
  <2> QED
    BY <2>2, <2>3, <2>4, StepTypeKept DEF Holding
<1> QED
  BY <1>2, <1>3, <1>4, <1>5, <1>6, <1>7, <1>8, <1>9, <1>10, <1>11, <1>12, <1>13 DEF ChangeRole,
      Remove, Withdraw

(* An invitation is sent, after the sweep.                                  *)
LEMMA InviteType ==
    ASSUME TypeInv, NEW r \in Requests, DoInvite(r)
    PROVE  TypeOK' /\ StageOf(r)'
<1> USE DEF IndexPcs, RosterPcs, RolePcs, ClaimPcs, SweepPcs, InvitePcs, LoadedPcs, SolePcs,
        EntryPcs, DropPcs, ErasePcs, DestroyPcs, Pcs, Answers
<1>0. /\ StoresOK /\ StageOf(r) /\ call[r] \in Call /\ mem[r] \in Memory
      /\ pc \in [Requests -> Pcs]
  BY TypeParts
<1>1. /\ call[r].user \in Users /\ call[r].account \in AccountIds /\ call[r].role \in Roles
      /\ call[r].handle \in HandleNames \cup {Absent}
  BY <1>0, CallType
<1>2. CASE InviteAccount(r)
  <2> DEFINE p == IF accounts[call[r].account] = Absent THEN "404" ELSE "sweep_list"
  <2>1. pc[r] = "invite_account"
    BY <1>2 DEF Goto, InviteAccount
  <2>2. StoresOK'
    BY <1>0, <1>1, <1>2 DEF stores, people, letters, StoresOK, InviteAccount
  <2>3. Goto(r, pc[r], p) /\ mem' = mem /\ call' = call
    BY <1>0, <1>1, <1>2, <2>1 DEF Goto, Holds, InviteAccount
  <2>4. p \in {"404", "sweep_list"}
    OBVIOUS
  <2> HIDE DEF p
  <2>5. Stage(p, call[r], mem[r])
    BY <1>0, <1>1, <2>1, <2>4 DEF Holding, StageOf, Stage
  <2> QED
    BY <2>2, <2>3, <2>4, <2>5, StepTypeKept DEF Holding
<1>3. CASE SweepList(r)
  <2> DEFINE m == [mem[r] EXCEPT !.todo = expiryIndex, !.known = expiryIndex]
  <2>1. pc[r] = "sweep_list"
    BY <1>3 DEF Goto, SweepList
  <2>2. expiryIndex \in Listing /\ expiryIndex \in SUBSET Tokens
    BY <1>0, <1>1, <2>1 DEF StageOf, Stage, Listing, StoresOK
  <2>3. Holding(m, expiryIndex, mem[r].at, mem[r].rec, mem[r].inv, mem[r].plan, mem[r].kept)
    BY <1>0, <1>1, <2>2, MemoryType, MemoryTodoKnown
  <2>4. StoresOK'
    BY <1>0, <1>1, <1>3, <2>2 DEF stores, people, letters, StoresOK, SweepList
  <2>5. pc' = [pc EXCEPT ![r] = "sweep"] /\ mem' = [mem EXCEPT ![r] = m] /\ call' = call
    BY <1>0, <1>1, <1>3, <2>1 DEF Goto, Holds, SweepList
  <2> HIDE DEF m
  <2>6. Stage("sweep", call[r], m)
    BY <1>0, <1>1, <2>1, <2>2, <2>3 DEF Holding, StageOf, Stage
  <2> QED
    BY <2>4, <2>5, <2>3, <2>6, StepType DEF Holding
<1>4. CASE SweepDrop(r)
  <2>1. PICK t \in mem[r].todo \cap lapsed :
           /\ Goto(r, "sweep", "sweep_unindex")
           /\ invites' = [invites EXCEPT ![t] = Absent]
           /\ Holds(r, [mem[r] EXCEPT !.todo = @ \ {t}, !.at = t])
           /\ UNCHANGED <<accounts, handles, people, expiryIndex, lapsed, users, plans, access, call>>
    BY <1>4 DEF SweepDrop
  <2> DEFINE m == [mem[r] EXCEPT !.todo = mem[r].todo \ {t}, !.at = t]
  <2>2. pc[r] = "sweep"
    BY <2>1 DEF Goto, Holds
  <2>3. t \in Tokens /\ mem[r].todo \ {t} \in Listing /\ t \in Places /\ mem[r].todo \subseteq Tokens
    BY <1>0, <1>1, <2>2, MemoryType DEF StageOf, Stage, Listing, Places
  <2>4. Holding(m, mem[r].todo \ {t}, t, mem[r].rec, mem[r].inv, mem[r].plan, mem[r].kept)
    BY <1>0, <1>1, <2>3, MemoryType, MemoryTodoAt
  <2>5. StoresOK'
    BY <1>0, <1>1, <2>1, <2>3 DEF people, StoresOK, Holds
  <2>6. pc' = [pc EXCEPT ![r] = "sweep_unindex"] /\ mem' = [mem EXCEPT ![r] = m] /\ call' = call
    BY <1>0, <1>1, <2>1, <2>2 DEF Goto, Holds, Holds
  <2> HIDE DEF m
  <2>7. Stage("sweep_unindex", call[r], m)
    BY <1>0, <1>1, <2>2, <2>3, <2>4 DEF Holding, StageOf, Stage
  <2> QED
    BY <2>5, <2>6, <2>4, <2>7, StepType DEF Holding
<1>5. CASE SweepUnindex(r)
  <2>1. pc[r] = "sweep_unindex"
    BY <1>5 DEF Goto, SweepUnindex
  <2>2. StoresOK'
    BY <1>0, <1>1, <1>5 DEF people, StoresOK, SweepUnindex
  <2>3. Goto(r, pc[r], "sweep") /\ mem' = mem /\ call' = call
    BY <1>0, <1>1, <1>5, <2>1 DEF Goto, Holds, SweepUnindex
  <2>4. Stage("sweep", call[r], mem[r])
    BY <1>0, <1>1, <2>1 DEF Holding, StageOf, Stage
  <2> QED
    BY <2>2, <2>3, <2>4, StepTypeKept DEF Holding
<1>6. CASE CatchUpList(r)
  <2> DEFINE m == [mem[r] EXCEPT !.todo = NotListed(r)]
  <2>1. pc[r] = "sweep"
    BY <1>6 DEF Goto, CatchUpList
  <2>2. NotListed(r) \in Listing /\ NotListed(r) \subseteq Tokens
    BY <1>0, <1>1, <2>1 DEF StageOf, Stage, Listing, NotListed
  <2>3. Holding(m, NotListed(r), mem[r].at, mem[r].rec, mem[r].inv, mem[r].plan, mem[r].kept)
    BY <1>0, <1>1, <2>2, MemoryType, MemoryTodo
  <2>4. StoresOK'
    BY <1>0, <1>1, <1>6, <2>2 DEF stores, people, letters, StoresOK, CatchUpList
  <2>5. pc' = [pc EXCEPT ![r] = "catch_up"] /\ mem' = [mem EXCEPT ![r] = m] /\ call' = call
    BY <1>0, <1>1, <1>6, <2>1 DEF Goto, Holds, CatchUpList
  <2> HIDE DEF m
  <2>6. Stage("catch_up", call[r], m)
    BY <1>0, <1>1, <2>1, <2>2, <2>3 DEF Holding, StageOf, Stage
  <2> QED
    BY <2>4, <2>5, <2>3, <2>6, StepType DEF Holding
<1>7. CASE CatchUpRead(r)
  <2>1. PICK t \in mem[r].todo :
           /\ Goto(r, "catch_up",
                   CASE invites[t] = Absent -> "catch_up"
                     [] invites[t] # Absent /\ t \in lapsed -> "catch_up_drop"
                     [] invites[t] # Absent /\ t \notin lapsed -> "catch_up_index")
           /\ Holds(r, [mem[r] EXCEPT !.todo = @ \ {t}, !.at = t])
           /\ UNCHANGED <<stores, call>>
    BY <1>7 DEF CatchUpRead
  <2> DEFINE p == CASE invites[t] = Absent -> "catch_up"
                   [] invites[t] # Absent /\ t \in lapsed -> "catch_up_drop"
                   [] invites[t] # Absent /\ t \notin lapsed -> "catch_up_index"
             m == [mem[r] EXCEPT !.todo = mem[r].todo \ {t}, !.at = t]
  <2>2. pc[r] = "catch_up"
    BY <2>1 DEF Goto, Holds
  <2>3. t \in Tokens /\ mem[r].todo \ {t} \in Listing /\ t \in Places /\ mem[r].todo \subseteq Tokens
    BY <1>0, <1>1, <2>2, MemoryType DEF StageOf, Stage, Listing, Places
  <2>4. Holding(m, mem[r].todo \ {t}, t, mem[r].rec, mem[r].inv, mem[r].plan, mem[r].kept)
    BY <1>0, <1>1, <2>3, MemoryType, MemoryTodoAt
  <2>5. StoresOK'
    BY <1>0, <1>1, <2>1, <2>3 DEF stores, people, letters, StoresOK, Holds
  <2>6. pc' = [pc EXCEPT ![r] = p] /\ mem' = [mem EXCEPT ![r] = m] /\ call' = call
    BY <1>0, <1>1, <2>1, <2>2 DEF Goto, Holds, Holds
  <2>7. p \in {"catch_up", "catch_up_drop", "catch_up_index"}
    OBVIOUS
  <2> HIDE DEF p, m
  <2>8. Stage(p, call[r], m)
    BY <1>0, <1>1, <2>2, <2>3, <2>4, <2>7 DEF Holding, StageOf, Stage
  <2> QED
    BY <2>5, <2>6, <2>4, <2>7, <2>8, StepType DEF Holding
<1>8. CASE CatchUpDrop(r)
  <2>1. pc[r] = "catch_up_drop"
    BY <1>8 DEF Goto, CatchUpDrop
  <2>2. mem[r].at \in Tokens
    BY <1>0, <1>1, <2>1 DEF StageOf, Stage
  <2>3. StoresOK'
    BY <1>0, <1>1, <1>8, <2>2 DEF people, StoresOK, CatchUpDrop
  <2>4. Goto(r, pc[r], "catch_up") /\ mem' = mem /\ call' = call
    BY <1>0, <1>1, <1>8, <2>1 DEF Goto, Holds, CatchUpDrop
  <2>5. Stage("catch_up", call[r], mem[r])
    BY <1>0, <1>1, <2>1, <2>2 DEF Holding, StageOf, Stage
  <2> QED
    BY <2>3, <2>4, <2>5, StepTypeKept DEF Holding
<1>9. CASE CatchUpIndex(r)
  <2>1. pc[r] = "catch_up_index"
    BY <1>9 DEF Goto, CatchUpIndex
  <2>2. mem[r].at \in Tokens
    BY <1>0, <1>1, <2>1 DEF StageOf, Stage
  <2>3. StoresOK'
    BY <1>0, <1>1, <1>9, <2>2 DEF people, StoresOK, CatchUpIndex
  <2>4. Goto(r, pc[r], "catch_up") /\ mem' = mem /\ call' = call
    BY <1>0, <1>1, <1>9, <2>1 DEF Goto, Holds, CatchUpIndex
  <2>5. Stage("catch_up", call[r], mem[r])
    BY <1>0, <1>1, <2>1, <2>2 DEF Holding, StageOf, Stage
  <2> QED
    BY <2>3, <2>4, <2>5, StepTypeKept DEF Holding
<1>10. CASE PutInvite(r)
  <2>1. pc[r] = "catch_up"
    BY <1>10 DEF Goto, PutInvite
  <2>2. call[r].token \in Tokens /\ call[r].target \in Emails
    BY <1>0, <1>1, <2>1 DEF StageOf, Stage
  <2>3. StoresOK'
    BY <1>0, <1>1, <1>10, <2>2 DEF people, Invite, StoresOK, PutInvite
  <2>4. Goto(r, pc[r], "put_expiry") /\ mem' = mem /\ call' = call
    BY <1>0, <1>1, <1>10, <2>1 DEF Goto, Holds, PutInvite
  <2>5. Stage("put_expiry", call[r], mem[r])
    BY <1>0, <1>1, <2>1, <2>2 DEF Holding, StageOf, Stage
  <2> QED
    BY <2>3, <2>4, <2>5, StepTypeKept DEF Holding
<1>11. CASE PutExpiry(r)
  <2>1. pc[r] = "put_expiry"
    BY <1>11 DEF Goto, PutExpiry
  <2>2. call[r].token \in Tokens
    BY <1>0, <1>1, <2>1 DEF StageOf, Stage
  <2>3. StoresOK'
    BY <1>0, <1>1, <1>11, <2>2 DEF people, StoresOK, PutExpiry
  <2>4. Goto(r, pc[r], "put_pending") /\ mem' = mem /\ call' = call
    BY <1>0, <1>1, <1>11, <2>1 DEF Goto, Holds, PutExpiry
  <2>5. Stage("put_pending", call[r], mem[r])
    BY <1>0, <1>1, <2>1, <2>2 DEF Holding, StageOf, Stage
  <2> QED
    BY <2>3, <2>4, <2>5, StepTypeKept DEF Holding
<1>12. CASE PutPending(r)
  <2>1. pc[r] = "put_pending"
    BY <1>12 DEF Goto, PutPending, PutRow
  <2>2. call[r].target \in Emails
    BY <1>0, <1>1, <2>1 DEF StageOf, Stage
  <2>3. StoresOK'
    BY <1>0, <1>1, <1>12, <2>2 DEF letters, Rosters, Keys, StoresOK, PutPending, PutRow
  <2>4. Goto(r, pc[r], "mail") /\ mem' = mem /\ call' = call
    BY <1>0, <1>1, <1>12, <2>1 DEF Goto, Holds, PutPending, PutRow
  <2>5. Stage("mail", call[r], mem[r])
    BY <1>0, <1>1, <2>1, <2>2 DEF Holding, StageOf, Stage
  <2> QED
    BY <2>3, <2>4, <2>5, StepTypeKept DEF Holding
<1>13. CASE SendMail(r)
  <2>1. PICK answer \in {"201", "500"} :
           Goto(r, "mail", answer) /\ UNCHANGED <<stores, call, mem>>
    BY <1>13 DEF SendMail
  <2>2. pc[r] = "mail"
    BY <2>1 DEF Goto, stores
  <2>3. answer \in {"201", "500"}
    BY <1>0, <1>1, <2>2, <2>1 DEF StageOf, Stage
  <2>4. StoresOK'
    BY <1>0, <1>1, <2>1, <2>3 DEF people, letters, StoresOK, stores
  <2>5. Goto(r, pc[r], answer) /\ mem' = mem /\ call' = call
    BY <1>0, <1>1, <2>1, <2>2 DEF Goto, Holds, stores
  <2>6. Stage(answer, call[r], mem[r])
    BY <1>0, <1>1, <2>2, <2>3 DEF Holding, StageOf, Stage
  <2> QED
    BY <2>4, <2>5, <2>3, <2>6, StepTypeKept DEF Holding
<1> QED
  BY <1>2, <1>3, <1>4, <1>5, <1>6, <1>7, <1>8, <1>9, <1>10, <1>11, <1>12, <1>13 DEF DoInvite, Sweep

(* An invitation is answered.                                               *)
LEMMA AcceptType ==
    ASSUME TypeInv, NEW r \in Requests, Accept(r)
    PROVE  TypeOK' /\ StageOf(r)'
<1> USE DEF IndexPcs, RosterPcs, RolePcs, ClaimPcs, SweepPcs, InvitePcs, LoadedPcs, SolePcs,
        EntryPcs, DropPcs, ErasePcs, DestroyPcs, Pcs, Answers
<1>0. /\ StoresOK /\ StageOf(r) /\ call[r] \in Call /\ mem[r] \in Memory
      /\ pc \in [Requests -> Pcs]
  BY TypeParts
<1>1. /\ call[r].user \in Users /\ call[r].account \in AccountIds /\ call[r].role \in Roles
      /\ call[r].handle \in HandleNames \cup {Absent}
  BY <1>0, CallType
<1>2. CASE LoadInvite(r)
  <2> DEFINE p == CASE invites[call[r].token] = Absent -> "404"
                    [] invites[call[r].token] # Absent /\ invites[call[r].token].accepted -> "409"
                    [] invites[call[r].token] # Absent /\ ~invites[call[r].token].accepted
                         /\ call[r].token \in lapsed -> "410"
                    [] invites[call[r].token] # Absent /\ ~invites[call[r].token].accepted
                         /\ call[r].token \notin lapsed -> "load_account"
             m == [mem[r] EXCEPT !.inv = invites[call[r].token]]
  <2>1. pc[r] = "load_invite"
    BY <1>2 DEF Goto, LoadInvite
  <2>2. call[r].token \in Tokens /\ invites[call[r].token] \in Invite \cup {Absent}
    BY <1>0, <1>1, <2>1 DEF StageOf, Stage, StoresOK
  <2>3. Holding(m, mem[r].todo, mem[r].at, mem[r].rec, invites[call[r].token], mem[r].plan,
      mem[r].kept)
    BY <1>0, <1>1, <2>2, MemoryType, MemoryInv
  <2>4. StoresOK'
    BY <1>0, <1>1, <1>2, <2>2 DEF stores, people, letters, StoresOK, LoadInvite
  <2>5. pc' = [pc EXCEPT ![r] = p] /\ mem' = [mem EXCEPT ![r] = m] /\ call' = call
    BY <1>0, <1>1, <1>2, <2>1 DEF Goto, Holds, LoadInvite
  <2>6. p \in {"404", "409", "410", "load_account"}
    BY <1>0, <1>1, <2>1, <2>2 DEF StageOf, Stage, StoresOK, Invite
  <2>7. p = "load_account" => invites[call[r].token] \in Invite
    BY <1>0, <1>1, <1>2, <2>1, <2>2, <2>3 DEF Holding, StageOf, Stage
  <2> HIDE DEF p, m
  <2>8. Stage(p, call[r], m)
    BY <1>0, <1>1, <2>1, <2>2, <2>3, <2>6, <2>7 DEF Holding, StageOf, Stage
  <2> QED
    BY <2>4, <2>5, <2>3, <2>6, <2>8, StepType DEF Holding
<1>3. CASE LoadAccount(r)
  <2> DEFINE p == IF accounts[mem[r].inv.account] = Absent THEN "410" ELSE "load_pending"
  <2>1. pc[r] = "load_account"
    BY <1>3 DEF Goto, LoadAccount
  <2>2. StoresOK'
    BY <1>0, <1>1, <1>3 DEF stores, people, letters, StoresOK, LoadAccount
  <2>3. Goto(r, pc[r], p) /\ mem' = mem /\ call' = call
    BY <1>0, <1>1, <1>3, <2>1 DEF Goto, Holds, LoadAccount
  <2>4. p \in {"410", "load_pending"}
    OBVIOUS
  <2> HIDE DEF p
  <2>5. Stage(p, call[r], mem[r])
    BY <1>0, <1>1, <2>1, <2>4 DEF Holding, StageOf, Stage
  <2> QED
    BY <2>2, <2>3, <2>4, <2>5, StepTypeKept DEF Holding
<1>4. CASE LoadPending(r)
  <2> DEFINE p == IF members[mem[r].inv.account][mem[r].inv.email] = Absent THEN "410" ELSE "verify"
  <2>1. pc[r] = "load_pending"
    BY <1>4 DEF Goto, LoadPending
  <2>2. StoresOK'
    BY <1>0, <1>1, <1>4 DEF stores, people, letters, StoresOK, LoadPending
  <2>3. Goto(r, pc[r], p) /\ mem' = mem /\ call' = call
    BY <1>0, <1>1, <1>4, <2>1 DEF Goto, Holds, LoadPending
  <2>4. p \in {"410", "verify"}
    OBVIOUS
  <2> HIDE DEF p
  <2>5. Stage(p, call[r], mem[r])
    BY <1>0, <1>1, <2>1, <2>4 DEF Holding, StageOf, Stage
  <2> QED
    BY <2>2, <2>3, <2>4, <2>5, StepTypeKept DEF Holding
<1>5. CASE Verify(r)
  <2> DEFINE p == IF call[r].user \in users /\ AddressOf[call[r].user] = mem[r].inv.email THEN "accept_row" ELSE "403"
  <2>1. pc[r] = "verify"
    BY <1>5 DEF Goto, Verify
  <2>2. StoresOK'
    BY <1>0, <1>1, <1>5 DEF stores, people, letters, StoresOK, Verify
  <2>3. Goto(r, pc[r], p) /\ mem' = mem /\ call' = call
    BY <1>0, <1>1, <1>5, <2>1 DEF Goto, Holds, Verify
  <2>4. p \in {"accept_row", "403"}
    OBVIOUS
  <2> HIDE DEF p
  <2>5. Stage(p, call[r], mem[r])
    BY <1>0, <1>1, <2>1, <2>4 DEF Holding, StageOf, Stage
  <2> QED
    BY <2>2, <2>3, <2>4, <2>5, StepTypeKept DEF Holding
<1>6. CASE AcceptRow(r)
  <2>1. pc[r] = "accept_row"
    BY <1>6 DEF Goto, AcceptRow, PutRow
  <2>2. mem[r].inv.account \in AccountIds /\ mem[r].inv.role \in Roles
    BY <1>0, <1>1, <2>1 DEF StageOf, Stage, Invite
  <2>3. StoresOK'
    BY <1>0, <1>1, <1>6, <2>2 DEF letters, Rosters, Keys, StoresOK, AcceptRow, PutRow
  <2>4. Goto(r, pc[r], "accept_index") /\ mem' = mem /\ call' = call
    BY <1>0, <1>1, <1>6, <2>1 DEF Goto, Holds, AcceptRow, PutRow
  <2>5. Stage("accept_index", call[r], mem[r])
    BY <1>0, <1>1, <2>1, <2>2 DEF Holding, StageOf, Stage
  <2> QED
    BY <2>3, <2>4, <2>5, StepTypeKept DEF Holding
<1>7. CASE AcceptIndex(r)
  <2>1. pc[r] = "accept_index"
    BY <1>7 DEF Goto, AcceptIndex, PutIndex
  <2>2. mem[r].inv.account \in AccountIds
    BY <1>0, <1>1, <2>1 DEF StageOf, Stage, Invite
  <2>3. StoresOK'
    BY <1>0, <1>1, <1>7, <2>2 DEF letters, memberIndexKey, StoresOK, AcceptIndex, PutIndex
  <2>4. Goto(r, pc[r], "accept_pending") /\ mem' = mem /\ call' = call
    BY <1>0, <1>1, <1>7, <2>1 DEF Goto, Holds, AcceptIndex, PutIndex
  <2>5. Stage("accept_pending", call[r], mem[r])
    BY <1>0, <1>1, <2>1, <2>2 DEF Holding, StageOf, Stage
  <2> QED
    BY <2>3, <2>4, <2>5, StepTypeKept DEF Holding
<1>8. CASE AcceptPending(r)
  <2>1. pc[r] = "accept_pending"
    BY <1>8 DEF Goto, AcceptPending, DeleteRow
  <2>2. StoresOK'
    BY <1>0, <1>1, <1>8 DEF letters, Rosters, StoresOK, AcceptPending, DeleteRow
  <2>3. Goto(r, pc[r], "accept_mark") /\ mem' = mem /\ call' = call
    BY <1>0, <1>1, <1>8, <2>1 DEF Goto, Holds, AcceptPending, DeleteRow
  <2>4. Stage("accept_mark", call[r], mem[r])
    BY <1>0, <1>1, <2>1 DEF Holding, StageOf, Stage
  <2> QED
    BY <2>2, <2>3, <2>4, StepTypeKept DEF Holding
<1>9. CASE AcceptMark(r)
  <2>1. pc[r] = "accept_mark"
    BY <1>9 DEF Goto, AcceptMark
  <2>2. call[r].token \in Tokens /\ [mem[r].inv EXCEPT !.accepted = TRUE] \in Invite
    BY <1>0, <1>1, <2>1 DEF StageOf, Stage, Invite
  <2>3. StoresOK'
    BY <1>0, <1>1, <1>9, <2>2 DEF people, StoresOK, AcceptMark
  <2>4. Goto(r, pc[r], "200") /\ mem' = mem /\ call' = call
    BY <1>0, <1>1, <1>9, <2>1 DEF Goto, Holds, AcceptMark
  <2>5. Stage("200", call[r], mem[r])
    BY <1>0, <1>1, <2>1, <2>2 DEF Holding, StageOf, Stage
  <2> QED
    BY <2>3, <2>4, <2>5, StepTypeKept DEF Holding
<1> QED
  BY <1>2, <1>3, <1>4, <1>5, <1>6, <1>7, <1>8, <1>9 DEF Accept

(* The member index is filled.                                              *)
LEMMA BackfillType ==
    ASSUME TypeInv, NEW r \in Requests, Backfill(r)
    PROVE  TypeOK' /\ StageOf(r)'
<1> USE DEF IndexPcs, RosterPcs, RolePcs, ClaimPcs, SweepPcs, InvitePcs, LoadedPcs, SolePcs,
        EntryPcs, DropPcs, ErasePcs, DestroyPcs, Pcs, Answers
<1>0. /\ StoresOK /\ StageOf(r) /\ call[r] \in Call /\ mem[r] \in Memory
      /\ pc \in [Requests -> Pcs]
  BY TypeParts
<1>1. /\ call[r].user \in Users /\ call[r].account \in AccountIds /\ call[r].role \in Roles
      /\ call[r].handle \in HandleNames \cup {Absent}
  BY <1>0, CallType
<1>2. CASE BackfillList(r)
  <2> DEFINE m == [mem[r] EXCEPT !.listed = {k \in Users \X AccountIds : members[k[2]][k[1]] # Absent}]
  <2>1. pc[r] = "backfill_list"
    BY <1>2 DEF Goto, BackfillList
  <2>2. {k \in Users \X AccountIds : members[k[2]][k[1]] # Absent} \in SUBSET (Users \X AccountIds)
    BY <1>0, <1>1, <2>1 DEF StageOf, Stage
  <2>3. Holding(m, mem[r].todo, mem[r].at, mem[r].rec, mem[r].inv, mem[r].plan, mem[r].kept)
    BY <1>0, <1>1, <2>2, MemoryType, MemoryListed
  <2>4. StoresOK'
    BY <1>0, <1>1, <1>2, <2>2 DEF stores, people, letters, StoresOK, BackfillList
  <2>5. pc' = [pc EXCEPT ![r] = "backfill"] /\ mem' = [mem EXCEPT ![r] = m] /\ call' = call
    BY <1>0, <1>1, <1>2, <2>1 DEF Goto, Holds, BackfillList
  <2> HIDE DEF m
  <2>6. Stage("backfill", call[r], m)
    BY <1>0, <1>1, <2>1, <2>2, <2>3 DEF Holding, StageOf, Stage
  <2> QED
    BY <2>4, <2>5, <2>3, <2>6, StepType DEF Holding
<1>3. CASE BackfillPut(r)
  <2>1. PICK k \in mem[r].listed :
           /\ Goto(r, "backfill", "backfill")
           /\ memberIndex' = memberIndex \cup {memberIndexKey(k[1], k[2])}
           /\ Holds(r, [mem[r] EXCEPT !.listed = @ \ {k}])
           /\ UNCHANGED <<accounts, handles, members, letters, lapsed, users, plans, access, call>>
    BY <1>3 DEF BackfillPut
  <2> DEFINE m == [mem[r] EXCEPT !.listed = mem[r].listed \ {k}]
  <2>2. pc[r] = "backfill"
    BY <2>1 DEF Goto, Holds
  <2>3. k \in Users \X AccountIds /\ mem[r].listed \ {k} \in SUBSET (Users \X AccountIds)
    BY <1>0, <1>1, <2>2, MemoryType DEF StageOf, Stage
  <2>4. Holding(m, mem[r].todo, mem[r].at, mem[r].rec, mem[r].inv, mem[r].plan, mem[r].kept)
    BY <1>0, <1>1, <2>3, MemoryType, MemoryListed
  <2>5. StoresOK'
    BY <1>0, <1>1, <2>1, <2>3 DEF letters, memberIndexKey, StoresOK, Holds
  <2>6. pc' = [pc EXCEPT ![r] = "backfill"] /\ mem' = [mem EXCEPT ![r] = m] /\ call' = call
    BY <1>0, <1>1, <2>1, <2>2 DEF Goto, Holds, Holds
  <2> HIDE DEF m
  <2>7. Stage("backfill", call[r], m)
    BY <1>0, <1>1, <2>2, <2>3, <2>4 DEF Holding, StageOf, Stage
  <2> QED
    BY <2>5, <2>6, <2>4, <2>7, StepType DEF Holding
<1>4. CASE BackfillReport(r)
  <2>1. pc[r] = "backfill"
    BY <1>4 DEF Goto, BackfillReport
  <2>2. StoresOK'
    BY <1>0, <1>1, <1>4 DEF stores, people, letters, StoresOK, BackfillReport
  <2>3. Goto(r, pc[r], "200") /\ mem' = mem /\ call' = call
    BY <1>0, <1>1, <1>4, <2>1 DEF Goto, Holds, BackfillReport
  <2>4. Stage("200", call[r], mem[r])
    BY <1>0, <1>1, <2>1 DEF Holding, StageOf, Stage
  <2> QED
    BY <2>2, <2>3, <2>4, StepTypeKept DEF Holding
<1> QED
  BY <1>2, <1>3, <1>4 DEF Backfill

(* A handle is claimed; accounts are founded, upgraded and renamed.         *)
LEMMA HandlesType ==
    ASSUME TypeInv, NEW r \in Requests, Claim(r) \/ Create(r) \/ Upgrade(r) \/ Rename(r)
    PROVE  TypeOK' /\ StageOf(r)'
<1> USE DEF IndexPcs, RosterPcs, RolePcs, ClaimPcs, SweepPcs, InvitePcs, LoadedPcs, SolePcs,
        EntryPcs, DropPcs, ErasePcs, DestroyPcs, Pcs, Answers
<1>0. /\ StoresOK /\ StageOf(r) /\ call[r] \in Call /\ mem[r] \in Memory
      /\ pc \in [Requests -> Pcs]
  BY TypeParts
<1>1. /\ call[r].user \in Users /\ call[r].account \in AccountIds /\ call[r].role \in Roles
      /\ call[r].handle \in HandleNames \cup {Absent}
  BY <1>0, CallType
<1>2. CASE ClaimHandle(r)
  <2> DEFINE p == IF IfNew(handles[call[r].handle]) THEN Claimed(r) ELSE "claim_check"
  <2>1. pc[r] = "claim"
    BY <1>2 DEF Goto, ClaimHandle
  <2>2. /\ call[r].handle \in HandleNames
        /\ Claimed(r) \in {"create_account", "upgrade_write", "rename_write", "retire"}
        /\ Stage(Claimed(r), call[r], mem[r]) /\ Stage("claim_check", call[r], mem[r])
    BY <1>0, <1>1, <2>1 DEF StageOf, Stage, Claimed, Is
  <2>3. StoresOK'
    BY <1>0, <1>1, <1>2, <2>2 DEF people, letters, HandleRec, StoresOK, ClaimHandle
  <2>4. Goto(r, pc[r], p) /\ mem' = mem /\ call' = call
    BY <1>0, <1>1, <1>2, <2>1 DEF Goto, Holds, ClaimHandle
  <2>5. p \in {"create_account", "upgrade_write", "rename_write", "retire", "claim_check"}
    BY <1>0, <1>1, <2>1, <2>2 DEF StageOf, Stage
  <2>6. p \in {Claimed(r), "claim_check"}
    BY <1>0, <1>1, <1>2, <2>1, <2>2 DEF Holding, StageOf, Stage
  <2> HIDE DEF p
  <2>7. Stage(p, call[r], mem[r])
    BY <1>0, <1>1, <2>1, <2>2, <2>5, <2>6 DEF Holding, StageOf, Stage
  <2> QED
    BY <2>3, <2>4, <2>5, <2>7, StepTypeKept DEF Holding
<1>3. CASE ClaimCheck(r)
  <2> DEFINE p == IF handles[call[r].handle] # Absent /\ handles[call[r].handle].account = call[r].account
                  THEN Claimed(r) ELSE "409"
  <2>1. pc[r] = "claim_check"
    BY <1>3 DEF Goto, ClaimCheck
  <2>2. /\ Claimed(r) \in {"create_account", "upgrade_write", "rename_write", "retire"}
        /\ Stage(Claimed(r), call[r], mem[r])
    BY <1>0, <1>1, <2>1 DEF StageOf, Stage, Claimed, Is
  <2>3. StoresOK'
    BY <1>0, <1>1, <1>3, <2>2 DEF stores, people, letters, StoresOK, ClaimCheck
  <2>4. Goto(r, pc[r], p) /\ mem' = mem /\ call' = call
    BY <1>0, <1>1, <1>3, <2>1 DEF Goto, Holds, ClaimCheck
  <2>5. p \in {"create_account", "upgrade_write", "rename_write", "retire", "409"}
    BY <1>0, <1>1, <2>1, <2>2 DEF StageOf, Stage
  <2>6. p \in {Claimed(r), "409"}
    BY <1>0, <1>1, <1>3, <2>1, <2>2 DEF Holding, StageOf, Stage
  <2> HIDE DEF p
  <2>7. Stage(p, call[r], mem[r])
    BY <1>0, <1>1, <2>1, <2>2, <2>5, <2>6 DEF Holding, StageOf, Stage
  <2> QED
    BY <2>3, <2>4, <2>5, <2>7, StepTypeKept DEF Holding
<1>4. CASE CreateAccount(r)
  <2>1. pc[r] = "create_account"
    BY <1>4 DEF Goto, CreateAccount, PutAccount
  <2>2. StoresOK'
    BY <1>0, <1>1, <1>4 DEF people, letters, Account, StoresOK, CreateAccount, PutAccount
  <2>3. Goto(r, pc[r], "create_row") /\ mem' = mem /\ call' = call
    BY <1>0, <1>1, <1>4, <2>1 DEF Goto, Holds, CreateAccount, PutAccount
  <2>4. Stage("create_row", call[r], mem[r])
    BY <1>0, <1>1, <2>1 DEF Holding, StageOf, Stage
  <2> QED
    BY <2>2, <2>3, <2>4, StepTypeKept DEF Holding
<1>5. CASE CreateRow(r)
  <2>1. pc[r] = "create_row"
    BY <1>5 DEF Goto, CreateRow, PutRow
  <2>2. StoresOK'
    BY <1>0, <1>1, <1>5 DEF letters, Rosters, Keys, Roles, StoresOK, CreateRow, PutRow
  <2>3. Goto(r, pc[r], "create_index") /\ mem' = mem /\ call' = call
    BY <1>0, <1>1, <1>5, <2>1 DEF Goto, Holds, CreateRow, PutRow
  <2>4. Stage("create_index", call[r], mem[r])
    BY <1>0, <1>1, <2>1 DEF Holding, StageOf, Stage
  <2> QED
    BY <2>2, <2>3, <2>4, StepTypeKept DEF Holding
<1>6. CASE CreateIndex(r)
  <2>1. pc[r] = "create_index"
    BY <1>6 DEF Goto, CreateIndex, PutIndex
  <2>2. StoresOK'
    BY <1>0, <1>1, <1>6 DEF letters, memberIndexKey, StoresOK, CreateIndex, PutIndex
  <2>3. Goto(r, pc[r], "201") /\ mem' = mem /\ call' = call
    BY <1>0, <1>1, <1>6, <2>1 DEF Goto, Holds, CreateIndex, PutIndex
  <2>4. Stage("201", call[r], mem[r])
    BY <1>0, <1>1, <2>1 DEF Holding, StageOf, Stage
  <2> QED
    BY <2>2, <2>3, <2>4, StepTypeKept DEF Holding
<1>7. CASE UpgradeCheck(r)
  <2> DEFINE p == CASE accounts[call[r].account] = Absent -> "404"
                    [] accounts[call[r].account] # Absent /\ accounts[call[r].account].type # "personal" -> "409"
                    [] accounts[call[r].account] # Absent /\ accounts[call[r].account].type = "personal" -> "upgrade_read"
  <2>1. pc[r] = "upgrade_check"
    BY <1>7 DEF Goto, UpgradeCheck
  <2>2. StoresOK'
    BY <1>0, <1>1, <1>7 DEF stores, people, letters, StoresOK, UpgradeCheck
  <2>3. Goto(r, pc[r], p) /\ mem' = mem /\ call' = call
    BY <1>0, <1>1, <1>7, <2>1 DEF Goto, Holds, UpgradeCheck
  <2>4. p \in {"404", "409", "upgrade_read"}
    OBVIOUS
  <2> HIDE DEF p
  <2>5. Stage(p, call[r], mem[r])
    BY <1>0, <1>1, <2>1, <2>4 DEF Holding, StageOf, Stage
  <2> QED
    BY <2>2, <2>3, <2>4, <2>5, StepTypeKept DEF Holding
<1>8. CASE UpgradeRead(r)
  <2> DEFINE p == CASE accounts[call[r].account] = Absent -> "400"
                    [] accounts[call[r].account] # Absent /\ accounts[call[r].account].type = "organization" -> "200"
                    [] accounts[call[r].account] # Absent /\ accounts[call[r].account].type # "organization" ->
                          IF call[r].handle = Absent THEN "upgrade_write" ELSE "claim"
             m == [mem[r] EXCEPT !.rec = accounts[call[r].account]]
  <2>1. pc[r] = "upgrade_read"
    BY <1>8 DEF Goto, UpgradeRead
  <2>2. accounts[call[r].account] \in Account \cup {Absent}
    BY <1>0, <1>1, <2>1 DEF StageOf, Stage, StoresOK
  <2>3. Holding(m, mem[r].todo, mem[r].at, accounts[call[r].account], mem[r].inv, mem[r].plan,
      mem[r].kept)
    BY <1>0, <1>1, <2>2, MemoryType, MemoryRec
  <2>4. StoresOK'
    BY <1>0, <1>1, <1>8, <2>2 DEF stores, people, letters, StoresOK, UpgradeRead
  <2>5. pc' = [pc EXCEPT ![r] = p] /\ mem' = [mem EXCEPT ![r] = m] /\ call' = call
    BY <1>0, <1>1, <1>8, <2>1 DEF Goto, Holds, UpgradeRead
  <2>6. p \in {"400", "200", "upgrade_write", "claim"}
    OBVIOUS
  <2>7. /\ (p \in {"upgrade_write", "claim"} => m.rec \in Account)
        /\ p = "claim" => call[r].handle \in HandleNames
    BY <1>0, <1>1, <1>8, <2>1, <2>2, <2>3 DEF Holding, StageOf, Stage
  <2> HIDE DEF p, m
  <2>8. Stage(p, call[r], m)
    BY <1>0, <1>1, <2>1, <2>2, <2>3, <2>6, <2>7 DEF Holding, StageOf, Stage
  <2> QED
    BY <2>4, <2>5, <2>3, <2>6, <2>8, StepType DEF Holding
<1>9. CASE UpgradeWrite(r)
  <2>1. pc[r] = "upgrade_write"
    BY <1>9 DEF Goto, UpgradeWrite, PutAccount
  <2>2. mem[r].rec.handle \in HandleNames \cup {Absent}
    BY <1>0, <1>1, <2>1 DEF StageOf, Stage, Account
  <2>3. StoresOK'
    BY <1>0, <1>1, <1>9, <2>2 DEF people, letters, Account, StoresOK, UpgradeWrite, PutAccount
  <2>4. Goto(r, pc[r], "200") /\ mem' = mem /\ call' = call
    BY <1>0, <1>1, <1>9, <2>1 DEF Goto, Holds, UpgradeWrite, PutAccount
  <2>5. Stage("200", call[r], mem[r])
    BY <1>0, <1>1, <2>1, <2>2 DEF Holding, StageOf, Stage
  <2> QED
    BY <2>3, <2>4, <2>5, StepTypeKept DEF Holding
<1>10. CASE RenameRead(r)
  <2> DEFINE p == CASE accounts[call[r].account] = Absent -> "404"
                    [] accounts[call[r].account] # Absent /\ accounts[call[r].account].handle = call[r].handle -> "200"
                    [] accounts[call[r].account] # Absent /\ accounts[call[r].account].handle # call[r].handle -> "claim"
             m == [mem[r] EXCEPT !.rec = accounts[call[r].account]]
  <2>1. pc[r] = "rename_read"
    BY <1>10 DEF Goto, RenameRead
  <2>2. accounts[call[r].account] \in Account \cup {Absent}
    BY <1>0, <1>1, <2>1 DEF StageOf, Stage, StoresOK
  <2>3. Holding(m, mem[r].todo, mem[r].at, accounts[call[r].account], mem[r].inv, mem[r].plan,
      mem[r].kept)
    BY <1>0, <1>1, <2>2, MemoryType, MemoryRec
  <2>4. StoresOK'
    BY <1>0, <1>1, <1>10, <2>2 DEF stores, people, letters, StoresOK, RenameRead
  <2>5. pc' = [pc EXCEPT ![r] = p] /\ mem' = [mem EXCEPT ![r] = m] /\ call' = call
    BY <1>0, <1>1, <1>10, <2>1 DEF Goto, Holds, RenameRead
  <2>6. p \in {"404", "200", "claim"}
    OBVIOUS
  <2>7. p = "claim" => accounts[call[r].account] \in Account
    BY <1>0, <1>1, <1>10, <2>1, <2>2, <2>3 DEF Holding, StageOf, Stage
  <2> HIDE DEF p, m
  <2>8. Stage(p, call[r], m)
    BY <1>0, <1>1, <2>1, <2>2, <2>3, <2>6, <2>7 DEF Holding, StageOf, Stage
  <2> QED
    BY <2>4, <2>5, <2>3, <2>6, <2>8, StepType DEF Holding
<1>11. CASE RenameRetire(r)
  <2>1. pc[r] = "retire"
    BY <1>11 DEF Goto, RenameRetire
  <2>2. call[r].handle \in HandleNames
    BY <1>0, <1>1, <2>1 DEF StageOf, Stage
  <2>3. StoresOK'
    BY <1>0, <1>1, <1>11, <2>2 DEF people, letters, HandleRec, StoresOK, RenameRetire
  <2>4. Goto(r, pc[r], "rename_write") /\ mem' = mem /\ call' = call
    BY <1>0, <1>1, <1>11, <2>1 DEF Goto, Holds, RenameRetire
  <2>5. Stage("rename_write", call[r], mem[r])
    BY <1>0, <1>1, <2>1, <2>2 DEF Holding, StageOf, Stage
  <2> QED
    BY <2>3, <2>4, <2>5, StepTypeKept DEF Holding
<1>12. CASE RenameWrite(r)
  <2>1. pc[r] = "rename_write"
    BY <1>12 DEF Goto, RenameWrite, PutAccount
  <2>2. [mem[r].rec EXCEPT !.handle = call[r].handle] \in Account
    BY <1>0, <1>1, <2>1 DEF StageOf, Stage, Account
  <2>3. StoresOK'
    BY <1>0, <1>1, <1>12, <2>2 DEF people, letters, StoresOK, RenameWrite, PutAccount
  <2>4. Goto(r, pc[r], "200") /\ mem' = mem /\ call' = call
    BY <1>0, <1>1, <1>12, <2>1 DEF Goto, Holds, RenameWrite, PutAccount
  <2>5. Stage("200", call[r], mem[r])
    BY <1>0, <1>1, <2>1, <2>2 DEF Holding, StageOf, Stage
  <2> QED
    BY <2>3, <2>4, <2>5, StepTypeKept DEF Holding
<1> QED
  BY <1>2, <1>3, <1>4, <1>5, <1>6, <1>7, <1>8, <1>9, <1>10, <1>11, <1>12 DEF Claim, Create, Upgrade,
      Rename

(* A deletion looks for organisations that only its user owns.              *)
LEMMA SoleType ==
    ASSUME TypeInv, NEW r \in Requests, DestroyRead(r) \/ SoleOwnerships(r)
    PROVE  TypeOK' /\ StageOf(r)'
<1> USE DEF IndexPcs, RosterPcs, RolePcs, ClaimPcs, SweepPcs, InvitePcs, LoadedPcs, SolePcs,
        EntryPcs, DropPcs, ErasePcs, DestroyPcs, Pcs, Answers
<1>0. /\ StoresOK /\ StageOf(r) /\ call[r] \in Call /\ mem[r] \in Memory
      /\ pc \in [Requests -> Pcs]
  BY TypeParts
<1>1. /\ call[r].user \in Users /\ call[r].account \in AccountIds /\ call[r].role \in Roles
      /\ call[r].handle \in HandleNames \cup {Absent}
  BY <1>0, CallType
<1>2. CASE DestroyRead(r)
  <2> DEFINE p == CASE accounts[call[r].account] = Absent -> "404"
                    [] accounts[call[r].account] # Absent /\ accounts[call[r].account].type = "personal" -> "index_list"
                    [] accounts[call[r].account] # Absent /\ accounts[call[r].account].type # "personal" -> "plan_list"
             b == accounts[call[r].account] # Absent /\ accounts[call[r].account].type = "personal"
             m == [mem[r] EXCEPT !.personal = b]
  <2>1. pc[r] = "destroy_read"
    BY <1>2 DEF Goto, DestroyRead
  <2>2. b \in BOOLEAN
    OBVIOUS
  <2>3. Holding(m, mem[r].todo, mem[r].at, mem[r].rec, mem[r].inv, mem[r].plan, mem[r].kept)
    BY <1>0, <2>2, MemoryPersonal
  <2>4. StoresOK'
    BY <1>0, <1>1, <1>2, <2>2 DEF stores, people, letters, StoresOK, DestroyRead
  <2>5. pc' = [pc EXCEPT ![r] = p] /\ mem' = [mem EXCEPT ![r] = m] /\ call' = call
    BY <1>0, <1>1, <1>2, <2>1 DEF Goto, Holds, DestroyRead
  <2>6. p \in {"404", "index_list", "plan_list"}
    OBVIOUS
  <2> HIDE DEF p, m
  <2>7. Stage(p, call[r], m)
    BY <1>0, <1>1, <2>1, <2>2, <2>3, <2>6 DEF Holding, StageOf, Stage
  <2> QED
    BY <2>4, <2>5, <2>3, <2>6, <2>7, StepType DEF Holding
<1>3. CASE SoleBegin(r)
  <2> DEFINE m == [mem[r] EXCEPT !.left = {a \in AccountIds : mem[r].mine[a] # Absent}]
  <2>1. pc[r] \in {"index_get", "scan_get"}
    BY <1>3 DEF Goto, SoleBegin, HasMemberships
  <2>2. {a \in AccountIds : mem[r].mine[a] # Absent} \in SUBSET AccountIds /\ call[r].op = "destroy"
    BY <1>0, <1>1, <2>1, <1>3 DEF StageOf, Stage, SoleBegin, Is
  <2>3. Holding(m, mem[r].todo, mem[r].at, mem[r].rec, mem[r].inv, mem[r].plan, mem[r].kept)
    BY <1>0, <1>1, <2>2, MemoryType, MemoryLeft
  <2>4. StoresOK'
    BY <1>0, <1>1, <1>3, <2>2 DEF stores, people, letters, StoresOK, SoleBegin, HasMemberships
  <2>5. pc' = [pc EXCEPT ![r] = "sole_account"] /\ mem' = [mem EXCEPT ![r] = m] /\ call' = call
    BY <1>0, <1>1, <1>3, <2>1 DEF Goto, Holds, SoleBegin, HasMemberships
  <2> HIDE DEF m
  <2>6. Stage("sole_account", call[r], m)
    BY <1>0, <1>1, <2>1, <2>2, <2>3 DEF Holding, StageOf, Stage
  <2> QED
    BY <2>4, <2>5, <2>3, <2>6, StepType DEF Holding
<1>4. CASE SoleAccount(r)
  <2>1. PICK a \in mem[r].left :
           /\ Goto(r, "sole_account", IF accounts[a] # Absent /\ accounts[a].type = "organization"
                                       THEN "sole_list" ELSE "sole_account")
           /\ Holds(r, [mem[r] EXCEPT !.left = @ \ {a}, !.at = a])
           /\ UNCHANGED <<stores, call>>
    BY <1>4 DEF SoleAccount
  <2> DEFINE p == IF accounts[a] # Absent /\ accounts[a].type = "organization" THEN "sole_list" ELSE "sole_account"
             m == [mem[r] EXCEPT !.left = mem[r].left \ {a}, !.at = a]
  <2>2. pc[r] = "sole_account"
    BY <2>1 DEF Goto, Holds
  <2>3. a \in AccountIds /\ mem[r].left \ {a} \in SUBSET AccountIds
    BY <1>0, <1>1, <2>2, MemoryType DEF StageOf, Stage
  <2>4. Holding(m, mem[r].todo, a, mem[r].rec, mem[r].inv, mem[r].plan, mem[r].kept)
    BY <1>0, <1>1, <2>3, MemoryType, MemoryLeftAt
  <2>5. StoresOK'
    BY <1>0, <1>1, <2>1, <2>3 DEF stores, people, letters, StoresOK, Holds
  <2>6. pc' = [pc EXCEPT ![r] = p] /\ mem' = [mem EXCEPT ![r] = m] /\ call' = call
    BY <1>0, <1>1, <2>1, <2>2 DEF Goto, Holds, Holds
  <2>7. p \in {"sole_list", "sole_account"}
    OBVIOUS
  <2> HIDE DEF p, m
  <2>8. Stage(p, call[r], m)
    BY <1>0, <1>1, <2>2, <2>3, <2>4, <2>7 DEF Holding, StageOf, Stage
  <2> QED
    BY <2>5, <2>6, <2>4, <2>7, <2>8, StepType DEF Holding
<1>5. CASE ListRoster(r, "sole_list", "sole_row", mem[r].at)
  <2> DEFINE m == [mem[r] EXCEPT !.todo = Rows(mem[r].at), !.roster = NoRows]
  <2>1. pc[r] = "sole_list"
    BY <1>5 DEF Goto, ListRoster
  <2>2. Rows(mem[r].at) \in Listing /\ NoRows \in Rosters /\ Rows(mem[r].at) \subseteq Keys
    BY <1>0, <1>1, <2>1 DEF StageOf, Stage, Rows, NoRows, Listing, Rosters
  <2>3. Holding(m, Rows(mem[r].at), mem[r].at, mem[r].rec, mem[r].inv, mem[r].plan, mem[r].kept)
    BY <1>0, <1>1, <2>2, MemoryType, MemoryTodoRosterNew
  <2>4. StoresOK'
    BY <1>0, <1>1, <1>5, <2>2 DEF stores, people, letters, StoresOK, ListRoster
  <2>5. pc' = [pc EXCEPT ![r] = "sole_row"] /\ mem' = [mem EXCEPT ![r] = m] /\ call' = call
    BY <1>0, <1>1, <1>5, <2>1 DEF Goto, Holds, ListRoster
  <2> HIDE DEF m
  <2>6. Stage("sole_row", call[r], m)
    BY <1>0, <1>1, <2>1, <2>2, <2>3 DEF Holding, StageOf, Stage
  <2> QED
    BY <2>4, <2>5, <2>3, <2>6, StepType DEF Holding
<1>6. CASE ReadRoster(r, "sole_row", mem[r].at)
  <2>1. PICK k \in mem[r].todo :
           /\ pc[r] = "sole_row"
           /\ Holds(r, [mem[r] EXCEPT !.todo = @ \ {k}, !.roster[k] = members[mem[r].at][k]])
           /\ UNCHANGED <<stores, pc, call>>
    BY <1>6 DEF ReadRoster
  <2> DEFINE m == [mem[r] EXCEPT !.todo = mem[r].todo \ {k}, !.roster[k] = members[mem[r].at][k]]
  <2>2. pc[r] = "sole_row"
    BY <2>1 DEF Goto, Holds
  <2>3. k \in Keys /\ mem[r].todo \ {k} \in Listing /\ members[mem[r].at][k] \in Roles \cup {Absent}
    BY <1>0, <1>1, <2>2, MemoryType DEF StageOf, Stage, StoresOK, Rosters, Listing
  <2>4. Holding(m, mem[r].todo \ {k}, mem[r].at, mem[r].rec, mem[r].inv, mem[r].plan, mem[r].kept)
    BY <1>0, <1>1, <2>3, MemoryType, MemoryTodoRoster
  <2>5. StoresOK'
    BY <1>0, <1>1, <2>1, <2>3 DEF stores, people, letters, StoresOK, Holds
  <2>6. pc' = [pc EXCEPT ![r] = "sole_row"] /\ mem' = [mem EXCEPT ![r] = m] /\ call' = call
    BY <1>0, <1>1, <2>1, <2>2 DEF Goto, Holds, Holds
  <2> HIDE DEF m
  <2>7. Stage("sole_row", call[r], m)
    BY <1>0, <1>1, <2>2, <2>3, <2>4 DEF Holding, StageOf, Stage
  <2> QED
    BY <2>5, <2>6, <2>4, <2>7, StepType DEF Holding
<1>7. CASE SoleJudge(r)
  <2> DEFINE m == [mem[r] EXCEPT !.stuck = mem[r].stuck \/ IsLastOwner(mem[r].roster, call[r].user)]
  <2>1. pc[r] = "sole_row"
    BY <1>7 DEF Goto, SoleJudge
  <2>2. (mem[r].stuck \/ IsLastOwner(mem[r].roster, call[r].user)) \in BOOLEAN
    BY <1>0, <1>1, <2>1, MemoryType DEF StageOf, Stage, IsLastOwner
  <2>3. Holding(m, mem[r].todo, mem[r].at, mem[r].rec, mem[r].inv, mem[r].plan, mem[r].kept)
    BY <1>0, <1>1, <2>2, MemoryType, MemoryStuck
  <2>4. StoresOK'
    BY <1>0, <1>1, <1>7, <2>2 DEF stores, people, letters, StoresOK, SoleJudge
  <2>5. pc' = [pc EXCEPT ![r] = "sole_account"] /\ mem' = [mem EXCEPT ![r] = m] /\ call' = call
    BY <1>0, <1>1, <1>7, <2>1 DEF Goto, Holds, SoleJudge
  <2> HIDE DEF m
  <2>6. Stage("sole_account", call[r], m)
    BY <1>0, <1>1, <2>1, <2>2, <2>3 DEF Holding, StageOf, Stage
  <2> QED
    BY <2>4, <2>5, <2>3, <2>6, StepType DEF Holding
<1>8. CASE SoleEnd(r)
  <2> DEFINE p == IF mem[r].stuck THEN "409" ELSE "plan_list"
  <2>1. pc[r] = "sole_account"
    BY <1>8 DEF Goto, SoleEnd
  <2>2. StoresOK'
    BY <1>0, <1>1, <1>8 DEF stores, people, letters, StoresOK, SoleEnd
  <2>3. Goto(r, pc[r], p) /\ mem' = mem /\ call' = call
    BY <1>0, <1>1, <1>8, <2>1 DEF Goto, Holds, SoleEnd
  <2>4. p \in {"409", "plan_list"}
    OBVIOUS
  <2> HIDE DEF p
  <2>5. Stage(p, call[r], mem[r])
    BY <1>0, <1>1, <2>1, <2>4 DEF Holding, StageOf, Stage
  <2> QED
    BY <2>2, <2>3, <2>4, <2>5, StepTypeKept DEF Holding
<1> QED
  BY <1>2, <1>3, <1>4, <1>5, <1>6, <1>7, <1>8 DEF SoleOwnerships

(* An entry without its blobs.                                              *)
LEMMA BarePlan ==
    ASSUME NEW y \in Plan
    PROVE  LET x == [y EXCEPT !.doc = Absent, !.owned = FALSE]
           IN  x \in Plan /\ x.record = y.record /\ x.doc = Absent /\ ~x.owned
BY DEF Plan

(* A deletion walks the account's plans.                                    *)
LEMMA PlansType ==
    ASSUME TypeInv, NEW r \in Requests, DropOwnership(r)
    PROVE  TypeOK' /\ StageOf(r)'
<1> USE DEF IndexPcs, RosterPcs, RolePcs, ClaimPcs, SweepPcs, InvitePcs, LoadedPcs, SolePcs,
        EntryPcs, DropPcs, ErasePcs, DestroyPcs, Pcs, Answers
<1>0. /\ StoresOK /\ StageOf(r) /\ call[r] \in Call /\ mem[r] \in Memory
      /\ pc \in [Requests -> Pcs]
  BY TypeParts
<1>1. /\ call[r].user \in Users /\ call[r].account \in AccountIds /\ call[r].role \in Roles
      /\ call[r].handle \in HandleNames \cup {Absent}
  BY <1>0, CallType
<1>2. CASE PlanList(r)
  <2> DEFINE m == [mem[r] EXCEPT !.todo = {s \in Slugs : plans[call[r].account][s] # Absent}]
  <2>1. pc[r] = "plan_list"
    BY <1>2 DEF Goto, PlanList
  <2>2. {s \in Slugs : plans[call[r].account][s] # Absent} \in Listing
    BY <1>0, <1>1, <2>1 DEF StageOf, Stage, Listing
  <2>3. Holding(m, {s \in Slugs : plans[call[r].account][s] # Absent}, mem[r].at, mem[r].rec,
      mem[r].inv, mem[r].plan, mem[r].kept)
    BY <1>0, <1>1, <2>2, MemoryType, MemoryTodo
  <2>4. StoresOK'
    BY <1>0, <1>1, <1>2, <2>2 DEF stores, people, letters, StoresOK, PlanList
  <2>5. pc' = [pc EXCEPT ![r] = "plan_record"] /\ mem' = [mem EXCEPT ![r] = m] /\ call' = call
    BY <1>0, <1>1, <1>2, <2>1 DEF Goto, Holds, PlanList
  <2> HIDE DEF m
  <2>6. Stage("plan_record", call[r], m)
    BY <1>0, <1>1, <2>1, <2>2, <2>3 DEF Holding, StageOf, Stage
  <2> QED
    BY <2>4, <2>5, <2>3, <2>6, StepType DEF Holding
<1>3. CASE PlanRecord(r)
  <2>1. PICK s \in mem[r].todo :
           /\ Goto(r, "plan_record", IF plans[call[r].account][s] = Absent THEN "plan_record" ELSE "plan_meta")
           /\ Holds(r, [mem[r] EXCEPT !.todo = @ \ {s}, !.at = s, !.plan = plans[call[r].account][s]])
           /\ UNCHANGED <<stores, call>>
    BY <1>3 DEF PlanRecord
  <2> DEFINE p == IF plans[call[r].account][s] = Absent THEN "plan_record" ELSE "plan_meta"
             x == plans[call[r].account][s]
             m == [mem[r] EXCEPT !.todo = mem[r].todo \ {s}, !.at = s, !.plan = x]
  <2>2. pc[r] = "plan_record"
    BY <2>1 DEF Goto, Holds
  <2>3. s \in Slugs /\ mem[r].todo \ {s} \in Listing /\ s \in Places
    BY <1>0, <1>1, <2>2, MemoryType DEF StageOf, Stage, Listing, Places
  <2>9. x \in Plan \cup {Absent} /\ (p = "plan_meta" => x \in Plan)
    BY <1>0, <1>1, <2>3 DEF StoresOK
  <2>4. Holding(m, mem[r].todo \ {s}, s, mem[r].rec, mem[r].inv, x, mem[r].kept)
    BY <1>0, <1>1, <2>3, <2>9, MemoryType, MemoryTodoAtPlan
  <2>5. StoresOK'
    BY <1>0, <1>1, <2>1, <2>3 DEF stores, people, letters, StoresOK, Holds
  <2>6. pc' = [pc EXCEPT ![r] = p] /\ mem' = [mem EXCEPT ![r] = m] /\ call' = call
    BY <1>0, <1>1, <2>1, <2>2 DEF Goto, Holds, Holds
  <2>7. p \in {"plan_record", "plan_meta"}
    OBVIOUS
  <2> HIDE DEF p, m, x
  <2>8. Stage(p, call[r], m)
    BY <1>0, <1>1, <2>2, <2>3, <2>4, <2>7, <2>9 DEF Holding, StageOf, Stage
  <2> QED
    BY <2>5, <2>6, <2>4, <2>7, <2>8, StepType DEF Holding
<1>4. CASE PlanMeta(r)
  <2> DEFINE p == IF PlanStays(r) THEN "plan_disown" ELSE "plan_blobs"
             x == [mem[r].plan EXCEPT !.doc = PlanDoc(r)]
             m == [mem[r] EXCEPT !.plan.doc = PlanDoc(r)]
  <2>1. pc[r] = "plan_meta"
    BY <1>4 DEF Goto, PlanMeta
  <2>8. mem[r].plan \in Plan /\ PlanDoc(r) \in {"draft", "shared", "published", Absent}
    BY <1>0, <1>1, <2>1 DEF StageOf, Stage, StoresOK, PlanDoc, Plan
  <2>2. x \in Plan
    BY <2>8 DEF Plan
  <2>3. Holding(m, mem[r].todo, mem[r].at, mem[r].rec, mem[r].inv, x, mem[r].kept)
    BY <1>0, <2>8, MemoryPlan
  <2>4. StoresOK'
    BY <1>0, <1>1, <1>4, <2>2 DEF stores, people, letters, StoresOK, PlanMeta
  <2>5. pc' = [pc EXCEPT ![r] = p] /\ mem' = [mem EXCEPT ![r] = m] /\ call' = call
    BY <1>0, <1>1, <1>4, <2>1 DEF Goto, Holds, PlanMeta
  <2>6. p \in {"plan_disown", "plan_blobs"}
    OBVIOUS
  <2> HIDE DEF p, m, x
  <2>7. Stage(p, call[r], m)
    BY <1>0, <1>1, <2>1, <2>2, <2>3, <2>6 DEF Holding, StageOf, Stage
  <2> QED
    BY <2>4, <2>5, <2>3, <2>6, <2>7, StepType DEF Holding
<1>5. CASE PlanBlobs(r)
  <2>1. pc[r] = "plan_blobs"
    BY <1>5 DEF Goto, PlanBlobs, WritePlan
  <2>2. mem[r].at \in Slugs /\ (IF plans[call[r].account][mem[r].at] = Absent THEN Absent
              ELSE [plans[call[r].account][mem[r].at] EXCEPT !.doc = Absent, !.owned = FALSE])
              \in Plan \cup {Absent}
    <3>1. mem[r].at \in Slugs /\ plans[call[r].account][mem[r].at] \in Plan \cup {Absent}
      BY <1>0, <1>1, <2>1 DEF StageOf, Stage, StoresOK
    <3> QED
      BY <3>1, BarePlan
  <2>3. StoresOK'
    BY <1>0, <1>1, <1>5, <2>2 DEF people, letters, StoresOK, PlanBlobs, WritePlan
  <2>4. Goto(r, pc[r], "plan_key") /\ mem' = mem /\ call' = call
    BY <1>0, <1>1, <1>5, <2>1 DEF Goto, Holds, PlanBlobs, WritePlan
  <2>5. Stage("plan_key", call[r], mem[r])
    BY <1>0, <1>1, <2>1, <2>2 DEF Holding, StageOf, Stage
  <2> QED
    BY <2>3, <2>4, <2>5, StepTypeKept DEF Holding
<1>6. CASE PlanKey(r)
  <2>1. pc[r] = "plan_key"
    BY <1>6 DEF Goto, PlanKey, WritePlan
  <2>2. mem[r].at \in Slugs
    BY <1>0, <1>1, <2>1 DEF StageOf, Stage
  <2>3. StoresOK'
    BY <1>0, <1>1, <1>6, <2>2 DEF people, letters, StoresOK, PlanKey, WritePlan
  <2>4. Goto(r, pc[r], "plan_record") /\ mem' = mem /\ call' = call
    BY <1>0, <1>1, <1>6, <2>1 DEF Goto, Holds, PlanKey, WritePlan
  <2>5. Stage("plan_record", call[r], mem[r])
    BY <1>0, <1>1, <2>1, <2>2 DEF Holding, StageOf, Stage
  <2> QED
    BY <2>3, <2>4, <2>5, StepTypeKept DEF Holding
<1>7. CASE PlanDisown(r)
  <2> DEFINE p == IF mem[r].plan.doc = Absent THEN "plan_record" ELSE "plan_release"
  <2>1. pc[r] = "plan_disown"
    BY <1>7 DEF Goto, PlanDisown, WritePlan
  <2>2. mem[r].at \in Slugs /\ [record |-> mem[r].plan.record \ {"ownerAccountId"}, doc |-> PlanDoc(r),
                                owned |-> PlanOwned(r)] \in Plan
    BY <1>0, <1>1, <2>1 DEF StageOf, Stage, StoresOK, PlanDoc, PlanOwned, Plan
  <2>3. StoresOK'
    BY <1>0, <1>1, <1>7, <2>2 DEF people, letters, StoresOK, PlanDisown, WritePlan
  <2>4. Goto(r, pc[r], p) /\ mem' = mem /\ call' = call
    BY <1>0, <1>1, <1>7, <2>1 DEF Goto, Holds, PlanDisown, WritePlan
  <2>5. p \in {"plan_record", "plan_release"}
    OBVIOUS
  <2> HIDE DEF p
  <2>6. Stage(p, call[r], mem[r])
    BY <1>0, <1>1, <2>1, <2>2, <2>5 DEF Holding, StageOf, Stage
  <2> QED
    BY <2>3, <2>4, <2>5, <2>6, StepTypeKept DEF Holding
<1>8. CASE PlanRelease(r)
  <2> DEFINE m == [mem[r] EXCEPT !.kept = TRUE]
  <2>1. pc[r] = "plan_release"
    BY <1>8 DEF Goto, PlanRelease, WritePlan
  <2>2. mem[r].at \in Slugs /\ PlanNames(r) \in SUBSET {"ownerId", "ownerAccountId"}
    BY <1>0, <1>1, <2>1 DEF StageOf, Stage, StoresOK, Plan, PlanNames
  <2>3. Holding(m, mem[r].todo, mem[r].at, mem[r].rec, mem[r].inv, mem[r].plan, TRUE)
    BY <1>0, <1>1, <2>2, MemoryType, MemoryKept
  <2>4. StoresOK'
    BY <1>0, <1>1, <1>8, <2>2 DEF people, letters, Plan, StoresOK, PlanRelease, WritePlan
  <2>5. pc' = [pc EXCEPT ![r] = "plan_record"] /\ mem' = [mem EXCEPT ![r] = m] /\ call' = call
    BY <1>0, <1>1, <1>8, <2>1 DEF Goto, Holds, PlanRelease, WritePlan
  <2> HIDE DEF m
  <2>6. Stage("plan_record", call[r], m)
    BY <1>0, <1>1, <2>1, <2>2, <2>3 DEF Holding, StageOf, Stage
  <2> QED
    BY <2>4, <2>5, <2>3, <2>6, StepType DEF Holding
<1>9. CASE PlanEnd(r)
  <2>1. pc[r] = "plan_record"
    BY <1>9 DEF Goto, PlanEnd
  <2>2. StoresOK'
    BY <1>0, <1>1, <1>9 DEF stores, people, letters, StoresOK, PlanEnd
  <2>3. Goto(r, pc[r], "account_read") /\ mem' = mem /\ call' = call
    BY <1>0, <1>1, <1>9, <2>1 DEF Goto, Holds, PlanEnd
  <2>4. Stage("account_read", call[r], mem[r])
    BY <1>0, <1>1, <2>1 DEF Holding, StageOf, Stage
  <2> QED
    BY <2>2, <2>3, <2>4, StepTypeKept DEF Holding
<1> QED
  BY <1>2, <1>3, <1>4, <1>5, <1>6, <1>7, <1>8, <1>9 DEF DropOwnership

(* A deletion drops the rows, the handle and the account.                   *)
LEMMA DeleteType ==
    ASSUME TypeInv, NEW r \in Requests, DeleteAccount(r)
    PROVE  TypeOK' /\ StageOf(r)'
<1> USE DEF IndexPcs, RosterPcs, RolePcs, ClaimPcs, SweepPcs, InvitePcs, LoadedPcs, SolePcs,
        EntryPcs, DropPcs, ErasePcs, DestroyPcs, Pcs, Answers
<1>0. /\ StoresOK /\ StageOf(r) /\ call[r] \in Call /\ mem[r] \in Memory
      /\ pc \in [Requests -> Pcs]
  BY TypeParts
<1>1. /\ call[r].user \in Users /\ call[r].account \in AccountIds /\ call[r].role \in Roles
      /\ call[r].handle \in HandleNames \cup {Absent}
  BY <1>0, CallType
<1>2. CASE AccountRead(r)
  <2> DEFINE p == IF accounts[call[r].account] = Absent THEN "400" ELSE "drop_list"
             m == [mem[r] EXCEPT !.rec = accounts[call[r].account]]
  <2>1. pc[r] = "account_read"
    BY <1>2 DEF Goto, AccountRead
  <2>2. accounts[call[r].account] \in Account \cup {Absent}
    BY <1>0, <1>1, <2>1 DEF StageOf, Stage, StoresOK
  <2>3. Holding(m, mem[r].todo, mem[r].at, accounts[call[r].account], mem[r].inv, mem[r].plan,
      mem[r].kept)
    BY <1>0, <1>1, <2>2, MemoryType, MemoryRec
  <2>4. StoresOK'
    BY <1>0, <1>1, <1>2, <2>2 DEF stores, people, letters, StoresOK, AccountRead
  <2>5. pc' = [pc EXCEPT ![r] = p] /\ mem' = [mem EXCEPT ![r] = m] /\ call' = call
    BY <1>0, <1>1, <1>2, <2>1 DEF Goto, Holds, AccountRead
  <2>6. p \in {"400", "drop_list"}
    OBVIOUS
  <2>7. p = "drop_list" => accounts[call[r].account] \in Account
    BY <1>0, <1>1, <1>2, <2>1, <2>2, <2>3 DEF Holding, StageOf, Stage
  <2> HIDE DEF p, m
  <2>8. Stage(p, call[r], m)
    BY <1>0, <1>1, <2>1, <2>2, <2>3, <2>6, <2>7 DEF Holding, StageOf, Stage
  <2> QED
    BY <2>4, <2>5, <2>3, <2>6, <2>8, StepType DEF Holding
<1>3. CASE ListRoster(r, "drop_list", "drop_row", call[r].account)
  <2> DEFINE m == [mem[r] EXCEPT !.todo = Rows(call[r].account), !.roster = NoRows]
  <2>1. pc[r] = "drop_list"
    BY <1>3 DEF Goto, ListRoster
  <2>2. Rows(call[r].account) \in Listing /\ NoRows \in Rosters /\ Rows(call[r].account) \subseteq Keys
    BY <1>0, <1>1, <2>1 DEF StageOf, Stage, Rows, NoRows, Listing, Rosters
  <2>3. Holding(m, Rows(call[r].account), mem[r].at, mem[r].rec, mem[r].inv, mem[r].plan,
      mem[r].kept)
    BY <1>0, <1>1, <2>2, MemoryType, MemoryTodoRosterNew
  <2>4. StoresOK'
    BY <1>0, <1>1, <1>3, <2>2 DEF stores, people, letters, StoresOK, ListRoster
  <2>5. pc' = [pc EXCEPT ![r] = "drop_row"] /\ mem' = [mem EXCEPT ![r] = m] /\ call' = call
    BY <1>0, <1>1, <1>3, <2>1 DEF Goto, Holds, ListRoster
  <2> HIDE DEF m
  <2>6. Stage("drop_row", call[r], m)
    BY <1>0, <1>1, <2>1, <2>2, <2>3 DEF Holding, StageOf, Stage
  <2> QED
    BY <2>4, <2>5, <2>3, <2>6, StepType DEF Holding
<1>4. CASE ReadRoster(r, "drop_row", call[r].account)
  <2>1. PICK k \in mem[r].todo :
           /\ pc[r] = "drop_row"
           /\ Holds(r, [mem[r] EXCEPT !.todo = @ \ {k}, !.roster[k] = members[call[r].account][k]])
           /\ UNCHANGED <<stores, pc, call>>
    BY <1>4 DEF ReadRoster
  <2> DEFINE m == [mem[r] EXCEPT !.todo = mem[r].todo \ {k}, !.roster[k] = members[call[r].account][k]]
  <2>2. pc[r] = "drop_row"
    BY <2>1 DEF Goto, Holds
  <2>3. k \in Keys /\ mem[r].todo \ {k} \in Listing /\ members[call[r].account][k] \in Roles \cup {Absent}
    BY <1>0, <1>1, <2>2, MemoryType DEF StageOf, Stage, StoresOK, Rosters, Listing
  <2>4. Holding(m, mem[r].todo \ {k}, mem[r].at, mem[r].rec, mem[r].inv, mem[r].plan, mem[r].kept)
    BY <1>0, <1>1, <2>3, MemoryType, MemoryTodoRoster
  <2>5. StoresOK'
    BY <1>0, <1>1, <2>1, <2>3 DEF stores, people, letters, StoresOK, Holds
  <2>6. pc' = [pc EXCEPT ![r] = "drop_row"] /\ mem' = [mem EXCEPT ![r] = m] /\ call' = call
    BY <1>0, <1>1, <2>1, <2>2 DEF Goto, Holds, Holds
  <2> HIDE DEF m
  <2>7. Stage("drop_row", call[r], m)
    BY <1>0, <1>1, <2>2, <2>3, <2>4 DEF Holding, StageOf, Stage
  <2> QED
    BY <2>5, <2>6, <2>4, <2>7, StepType DEF Holding
<1>5. CASE DropRow(r)
  <2>1. PICK k \in Listed(r) :
           /\ mem[r].todo = {}
           /\ DeleteRow(r, "drop_row", IF k \in Users THEN "drop_index" ELSE "drop_row", call[r].account, k)
           /\ Holds(r, [mem[r] EXCEPT !.roster[k] = Absent, !.at = k])
    BY <1>5 DEF DropRow
  <2> DEFINE p == IF k \in Users THEN "drop_index" ELSE "drop_row"
             m == [mem[r] EXCEPT !.roster[k] = Absent, !.at = k]
  <2>2. pc[r] = "drop_row"
    BY <2>1 DEF Goto, DeleteRow
  <2>3. k \in Keys
    BY <1>0, <1>1, <2>2 DEF StageOf, Stage, Listed
  <2>4. Holding(m, mem[r].todo, k, mem[r].rec, mem[r].inv, mem[r].plan, mem[r].kept)
    BY <1>0, <1>1, <2>3, MemoryType, MemoryRosterAt
  <2>5. StoresOK'
    BY <1>0, <1>1, <2>1, <2>3 DEF letters, Rosters, StoresOK, DeleteRow
  <2>6. pc' = [pc EXCEPT ![r] = p] /\ mem' = [mem EXCEPT ![r] = m] /\ call' = call
    BY <1>0, <1>1, <2>1, <2>2 DEF Goto, Holds, DeleteRow
  <2>7. p \in {"drop_index", "drop_row"}
    OBVIOUS
  <2>8. p = "drop_index" => k \in Users
    BY <1>0, <1>1, <2>1, <2>2, <2>3, <2>4 DEF Holding, StageOf, Stage
  <2> HIDE DEF p, m
  <2>9. Stage(p, call[r], m)
    BY <1>0, <1>1, <2>2, <2>3, <2>4, <2>7, <2>8 DEF Holding, StageOf, Stage
  <2> QED
    BY <2>5, <2>6, <2>4, <2>7, <2>9, StepType DEF Holding
<1>6. CASE DeleteIndex(r, "drop_index", "drop_row", call[r].account, mem[r].at)
  <2>1. pc[r] = "drop_index"
    BY <1>6 DEF Goto, DeleteIndex
  <2>2. StoresOK'
    BY <1>0, <1>1, <1>6 DEF letters, StoresOK, DeleteIndex
  <2>3. Goto(r, pc[r], "drop_row") /\ mem' = mem /\ call' = call
    BY <1>0, <1>1, <1>6, <2>1 DEF Goto, Holds, DeleteIndex
  <2>4. Stage("drop_row", call[r], mem[r])
    BY <1>0, <1>1, <2>1 DEF Holding, StageOf, Stage
  <2> QED
    BY <2>2, <2>3, <2>4, StepTypeKept DEF Holding
<1>7. CASE DropHandle(r)
  <2>1. pc[r] = "drop_row"
    BY <1>7 DEF Goto, DropHandle
  <2>2. mem[r].rec.handle # Absent
    BY <1>0, <1>1, <2>1, <1>7 DEF StageOf, Stage, DropHandle
  <2>3. StoresOK'
    BY <1>0, <1>1, <1>7, <2>2 DEF people, letters, HandleRec, StoresOK, DropHandle
  <2>4. Goto(r, pc[r], "drop_account") /\ mem' = mem /\ call' = call
    BY <1>0, <1>1, <1>7, <2>1 DEF Goto, Holds, DropHandle
  <2>5. Stage("drop_account", call[r], mem[r])
    BY <1>0, <1>1, <2>1, <2>2 DEF Holding, StageOf, Stage
  <2> QED
    BY <2>3, <2>4, <2>5, StepTypeKept DEF Holding
<1>8. CASE DropAccount(r)
  <2> DEFINE p == IF mem[r].personal THEN "erase_read" ELSE "200"
  <2>1. pc[r] \in {"drop_account", "drop_row"}
    BY <1>8 DEF Goto, DropAccount
  <2>2. StoresOK'
    BY <1>0, <1>1, <1>8 DEF people, letters, StoresOK, DropAccount
  <2>3. Goto(r, pc[r], p) /\ mem' = mem /\ call' = call
    BY <1>0, <1>1, <1>8, <2>1 DEF Goto, Holds, DropAccount
  <2>4. p \in {"erase_read", "200"}
    OBVIOUS
  <2> HIDE DEF p
  <2>5. Stage(p, call[r], mem[r])
    BY <1>0, <1>1, <2>1, <2>4 DEF Holding, StageOf, Stage
  <2> QED
    BY <2>2, <2>3, <2>4, <2>5, StepTypeKept DEF Holding
<1> QED
  BY <1>2, <1>3, <1>4, <1>5, <1>6, <1>7, <1>8 DEF DeleteAccount

(* The deletion of a personal account deletes the user.                     *)
LEMMA EraseType ==
    ASSUME TypeInv, NEW r \in Requests, Erase(r)
    PROVE  TypeOK' /\ StageOf(r)'
<1> USE DEF IndexPcs, RosterPcs, RolePcs, ClaimPcs, SweepPcs, InvitePcs, LoadedPcs, SolePcs,
        EntryPcs, DropPcs, ErasePcs, DestroyPcs, Pcs, Answers
<1>0. /\ StoresOK /\ StageOf(r) /\ call[r] \in Call /\ mem[r] \in Memory
      /\ pc \in [Requests -> Pcs]
  BY TypeParts
<1>1. /\ call[r].user \in Users /\ call[r].account \in AccountIds /\ call[r].role \in Roles
      /\ call[r].handle \in HandleNames \cup {Absent}
  BY <1>0, CallType
<1>2. CASE EraseRead(r)
  <2> DEFINE m == [mem[r] EXCEPT !.at = IF call[r].user \in users THEN AddressOf[call[r].user] ELSE Absent]
  <2>1. pc[r] = "erase_read"
    BY <1>2 DEF Goto, EraseRead
  <2>2. (IF call[r].user \in users THEN AddressOf[call[r].user] ELSE Absent) \in (Emails \cup {Absent}) \cap Places
    BY <1>0, <1>1, <2>1, AccountsAssumption DEF StageOf, Stage, Places, Keys
  <2>3. Holding(m, mem[r].todo, IF call[r].user \in users THEN AddressOf[call[r].user] ELSE Absent,
      mem[r].rec, mem[r].inv, mem[r].plan, mem[r].kept)
    BY <1>0, <1>1, <2>2, MemoryType, MemoryAt
  <2>4. StoresOK'
    BY <1>0, <1>1, <1>2, <2>2 DEF stores, people, letters, StoresOK, EraseRead
  <2>5. pc' = [pc EXCEPT ![r] = "erase_index_list"] /\ mem' = [mem EXCEPT ![r] = m] /\ call' = call
    BY <1>0, <1>1, <1>2, <2>1 DEF Goto, Holds, EraseRead
  <2> HIDE DEF m
  <2>6. Stage("erase_index_list", call[r], m)
    BY <1>0, <1>1, <2>1, <2>2, <2>3 DEF Holding, StageOf, Stage
  <2> QED
    BY <2>4, <2>5, <2>3, <2>6, StepType DEF Holding
<1>3. CASE EraseIndexList(r)
  <2> DEFINE m == [mem[r] EXCEPT !.todo = {a \in AccountIds : memberIndexKey(call[r].user, a) \in memberIndex}]
  <2>1. pc[r] = "erase_index_list"
    BY <1>3 DEF Goto, EraseIndexList
  <2>2. {a \in AccountIds : memberIndexKey(call[r].user, a) \in memberIndex} \in Listing
        /\ {a \in AccountIds : memberIndexKey(call[r].user, a) \in memberIndex} \subseteq AccountIds
    BY <1>0, <1>1, <2>1 DEF StageOf, Stage, Listing, Address
  <2>3. Holding(m, {a \in AccountIds : memberIndexKey(call[r].user, a) \in memberIndex}, mem[r].at,
      mem[r].rec, mem[r].inv, mem[r].plan, mem[r].kept)
    BY <1>0, <1>1, <2>2, MemoryType, MemoryTodo
  <2>4. StoresOK'
    BY <1>0, <1>1, <1>3, <2>2 DEF stores, people, letters, StoresOK, EraseIndexList
  <2>5. pc' = [pc EXCEPT ![r] = "erase_index"] /\ mem' = [mem EXCEPT ![r] = m] /\ call' = call
    BY <1>0, <1>1, <1>3, <2>1 DEF Goto, Holds, EraseIndexList
  <2> HIDE DEF m
  <2>6. Stage("erase_index", call[r], m)
    BY <1>0, <1>1, <2>1, <2>2, <2>3 DEF Holding, StageOf, Stage
  <2> QED
    BY <2>4, <2>5, <2>3, <2>6, StepType DEF Holding
<1>4. CASE EraseIndex(r)
  <2>1. PICK a \in mem[r].todo :
           /\ Goto(r, "erase_index", "erase_index")
           /\ memberIndex' = memberIndex \ {memberIndexKey(call[r].user, a)}
           /\ Holds(r, [mem[r] EXCEPT !.todo = @ \ {a}])
           /\ UNCHANGED <<accounts, handles, members, letters, lapsed, users, plans, access, call>>
    BY <1>4 DEF EraseIndex
  <2> DEFINE m == [mem[r] EXCEPT !.todo = mem[r].todo \ {a}]
  <2>2. pc[r] = "erase_index"
    BY <2>1 DEF Goto, Holds
  <2>3. a \in AccountIds /\ mem[r].todo \ {a} \in Listing
    BY <1>0, <1>1, <2>2, MemoryType DEF StageOf, Stage, Listing
  <2>4. Holding(m, mem[r].todo \ {a}, mem[r].at, mem[r].rec, mem[r].inv, mem[r].plan, mem[r].kept)
    BY <1>0, <1>1, <2>3, MemoryType, MemoryTodo
  <2>5. StoresOK'
    BY <1>0, <1>1, <2>1, <2>3 DEF letters, StoresOK, Holds
  <2>6. pc' = [pc EXCEPT ![r] = "erase_index"] /\ mem' = [mem EXCEPT ![r] = m] /\ call' = call
    BY <1>0, <1>1, <2>1, <2>2 DEF Goto, Holds, Holds
  <2> HIDE DEF m
  <2>7. Stage("erase_index", call[r], m)
    BY <1>0, <1>1, <2>2, <2>3, <2>4 DEF Holding, StageOf, Stage
  <2> QED
    BY <2>5, <2>6, <2>4, <2>7, StepType DEF Holding
<1>5. CASE EraseInviteList(r)
  <2> DEFINE m == [mem[r] EXCEPT !.todo = {t \in Tokens : invites[t] # Absent}]
  <2>1. pc[r] = "erase_index"
    BY <1>5 DEF Goto, EraseInviteList
  <2>2. {t \in Tokens : invites[t] # Absent} \in Listing
        /\ {t \in Tokens : invites[t] # Absent} \subseteq Tokens
    BY <1>0, <1>1, <2>1 DEF StageOf, Stage, Listing, Address
  <2>3. Holding(m, {t \in Tokens : invites[t] # Absent}, mem[r].at, mem[r].rec, mem[r].inv,
      mem[r].plan, mem[r].kept)
    BY <1>0, <1>1, <2>2, MemoryType, MemoryTodo
  <2>4. StoresOK'
    BY <1>0, <1>1, <1>5, <2>2 DEF stores, people, letters, StoresOK, EraseInviteList
  <2>5. pc' = [pc EXCEPT ![r] = "erase_invite"] /\ mem' = [mem EXCEPT ![r] = m] /\ call' = call
    BY <1>0, <1>1, <1>5, <2>1 DEF Goto, Holds, EraseInviteList
  <2> HIDE DEF m
  <2>6. Stage("erase_invite", call[r], m)
    BY <1>0, <1>1, <2>1, <2>2, <2>3 DEF Holding, StageOf, Stage
  <2> QED
    BY <2>4, <2>5, <2>3, <2>6, StepType DEF Holding
<1>6. CASE EraseInvite(r)
  <2>1. PICK t \in mem[r].todo :
           /\ Goto(r, "erase_invite", "erase_invite")
           /\ invites' = IF Mine(r, invites[t]) THEN [invites EXCEPT ![t] = Absent] ELSE invites
           /\ Holds(r, [mem[r] EXCEPT !.todo = @ \ {t}])
           /\ UNCHANGED <<accounts, handles, people, expiryIndex, lapsed, users, plans, access, call>>
    BY <1>6 DEF EraseInvite
  <2> DEFINE m == [mem[r] EXCEPT !.todo = mem[r].todo \ {t}]
  <2>2. pc[r] = "erase_invite"
    BY <2>1 DEF Goto, Holds
  <2>3. t \in Tokens /\ mem[r].todo \ {t} \in Listing
    BY <1>0, <1>1, <2>2, MemoryType DEF StageOf, Stage, Listing
  <2>4. Holding(m, mem[r].todo \ {t}, mem[r].at, mem[r].rec, mem[r].inv, mem[r].plan, mem[r].kept)
    BY <1>0, <1>1, <2>3, MemoryType, MemoryTodo
  <2>5. StoresOK'
    BY <1>0, <1>1, <2>1, <2>3 DEF people, StoresOK, Holds
  <2>6. pc' = [pc EXCEPT ![r] = "erase_invite"] /\ mem' = [mem EXCEPT ![r] = m] /\ call' = call
    BY <1>0, <1>1, <2>1, <2>2 DEF Goto, Holds, Holds
  <2> HIDE DEF m
  <2>7. Stage("erase_invite", call[r], m)
    BY <1>0, <1>1, <2>2, <2>3, <2>4 DEF Holding, StageOf, Stage
  <2> QED
    BY <2>5, <2>6, <2>4, <2>7, StepType DEF Holding
<1>7. CASE ErasePendingList(r)
  <2> DEFINE m == [mem[r] EXCEPT !.todo = {a \in AccountIds : mem[r].at # Absent /\ members[a][mem[r].at] # Absent}]
  <2>1. pc[r] = "erase_invite"
    BY <1>7 DEF Goto, ErasePendingList, Address
  <2>2. {a \in AccountIds : mem[r].at # Absent /\ members[a][mem[r].at] # Absent} \in Listing
        /\ {a \in AccountIds : mem[r].at # Absent /\ members[a][mem[r].at] # Absent} \subseteq AccountIds
    BY <1>0, <1>1, <2>1 DEF StageOf, Stage, Listing, Address
  <2>3. Holding(m, {a \in AccountIds : mem[r].at # Absent /\ members[a][mem[r].at] # Absent},
      mem[r].at, mem[r].rec, mem[r].inv, mem[r].plan, mem[r].kept)
    BY <1>0, <1>1, <2>2, MemoryType, MemoryTodo
  <2>4. StoresOK'
    BY <1>0, <1>1, <1>7, <2>2 DEF stores, people, letters, StoresOK, ErasePendingList, Address
  <2>5. pc' = [pc EXCEPT ![r] = "erase_pending"] /\ mem' = [mem EXCEPT ![r] = m] /\ call' = call
    BY <1>0, <1>1, <1>7, <2>1 DEF Goto, Holds, ErasePendingList, Address
  <2> HIDE DEF m
  <2>6. Stage("erase_pending", call[r], m)
    BY <1>0, <1>1, <2>1, <2>2, <2>3 DEF Holding, StageOf, Stage
  <2> QED
    BY <2>4, <2>5, <2>3, <2>6, StepType DEF Holding
<1>8. CASE ErasePending(r)
  <2>1. PICK a \in mem[r].todo :
           /\ DeleteRow(r, "erase_pending", "erase_pending", a, mem[r].at)
           /\ Holds(r, [mem[r] EXCEPT !.todo = @ \ {a}])
    BY <1>8 DEF ErasePending, Address
  <2> DEFINE m == [mem[r] EXCEPT !.todo = mem[r].todo \ {a}]
  <2>2. pc[r] = "erase_pending"
    BY <2>1 DEF Goto, DeleteRow
  <2>3. a \in AccountIds /\ mem[r].todo \ {a} \in Listing
    BY <1>0, <1>1, <2>2, MemoryType DEF StageOf, Stage, Listing
  <2>4. Holding(m, mem[r].todo \ {a}, mem[r].at, mem[r].rec, mem[r].inv, mem[r].plan, mem[r].kept)
    BY <1>0, <1>1, <2>3, MemoryType, MemoryTodo
  <2>5. StoresOK'
    BY <1>0, <1>1, <2>1, <2>3 DEF letters, Rosters, StoresOK, DeleteRow
  <2>6. pc' = [pc EXCEPT ![r] = "erase_pending"] /\ mem' = [mem EXCEPT ![r] = m] /\ call' = call
    BY <1>0, <1>1, <2>1, <2>2 DEF Goto, Holds, DeleteRow
  <2> HIDE DEF m
  <2>7. Stage("erase_pending", call[r], m)
    BY <1>0, <1>1, <2>2, <2>3, <2>4 DEF Holding, StageOf, Stage
  <2> QED
    BY <2>5, <2>6, <2>4, <2>7, StepType DEF Holding
<1>9. CASE EraseUser(r)
  <2>1. pc[r] = "erase_pending"
    BY <1>9 DEF Goto, EraseUser
  <2>2. StoresOK'
    BY <1>0, <1>1, <1>9 DEF people, letters, StoresOK, EraseUser
  <2>3. Goto(r, pc[r], "200") /\ mem' = mem /\ call' = call
    BY <1>0, <1>1, <1>9, <2>1 DEF Goto, Holds, EraseUser
  <2>4. Stage("200", call[r], mem[r])
    BY <1>0, <1>1, <2>1 DEF Holding, StageOf, Stage
  <2> QED
    BY <2>2, <2>3, <2>4, StepTypeKept DEF Holding
<1> QED
  BY <1>2, <1>3, <1>4, <1>5, <1>6, <1>7, <1>8, <1>9 DEF Erase

(* What the handlers need is in the calls they are given.                   *)
LEMMA CallGiven ==
    ASSUME TypeInv, NEW r \in Requests
    PROVE  /\ call[r] \in Call
           /\ call[r].op = "rename" => call[r].handle \in HandleNames
           /\ call[r].op \in {"invite", "accept"} => call[r].token \in Tokens
           /\ call[r].op = "invite" => call[r].target \in Emails
<1>1. PICK s \in Starts : call = s.calls
  BY DEF TypeInv, GivenCalls
<1>2. call[r] \in Call
  BY DEF TypeInv, TypeOK
<1>3. call[r].handle \in HandleNames \cup {Absent} /\ call[r].token \in Tokens \cup {Absent}
  BY <1>2, CallType
<1> QED
  BY <1>1, <1>2, <1>3, AccountsAssumption

(* The first call of a request needs nothing but its parameters.            *)
LEMMA FirstStage ==
    ASSUME TypeInv, NEW r \in Requests, NEW m \in Memory
    PROVE  FirstOf(r) \in Pcs /\ Stage(FirstOf(r), call[r], m)
<1> USE DEF IndexPcs, RosterPcs, RolePcs, ClaimPcs, SweepPcs, InvitePcs, LoadedPcs, SolePcs, EntryPcs,
        DropPcs, ErasePcs, DestroyPcs, Pcs, Answers, FirstOf, First, Is, Stage
<1>1. call[r].op \in Ops /\ call[r].handle \in HandleNames \cup {Absent}
  BY CallGiven, CallType
<1>2. CASE call[r].op \in {"upgrade", "withdraw", "role", "remove", "destroy", "mint", "backfill"}
  BY <1>2
<1>3. CASE call[r].op = "rename"
  BY <1>3, CallGiven
<1>4. CASE call[r].op = "invite"
  BY <1>4, CallGiven
<1>5. CASE call[r].op = "accept"
  BY <1>5, CallGiven
<1>6. CASE call[r].op = "create"
  BY <1>6, <1>1
<1> QED
  BY <1>1, <1>2, <1>3, <1>4, <1>5, <1>6 DEF Ops

(* A request is sent, and the server decides whether its user may.          *)
LEMMA SendType ==
    ASSUME TypeInv, NEW r \in Requests, Send(r)
    PROVE  TypeOK' /\ StageOf(r)'
<1> DEFINE p == IF Authorised(r) THEN FirstOf(r) ELSE "403"
           m == [mem[r] EXCEPT !.old = lapsed]
<1>1. StoresOK /\ mem[r] \in Memory
  BY TypeParts
<1>2. m \in Memory
  BY <1>1, MemoryOld DEF Holding, StoresOK
<1>3. p \in Pcs /\ Stage(p, call[r], m)
  <2>1. "403" \in Pcs
    BY DEF Pcs, Answers
  <2>2. Stage("403", call[r], m)
    BY DEF Stage, IndexPcs, RosterPcs, RolePcs, ClaimPcs, SweepPcs, InvitePcs, LoadedPcs, SolePcs, EntryPcs,
           DropPcs, ErasePcs, DestroyPcs
  <2> HIDE DEF m
  <2>3. FirstOf(r) \in Pcs /\ Stage(FirstOf(r), call[r], m)
    BY <1>2, FirstStage
  <2> QED
    BY <2>1, <2>2, <2>3
<1>4. StoresOK'
  BY <1>1 DEF Send, stores, people, letters, StoresOK
<1>5. pc' = [pc EXCEPT ![r] = p] /\ mem' = [mem EXCEPT ![r] = m] /\ call' = call
  BY DEF Send, Goto, Holds
<1> HIDE DEF p, m
<1> QED
  BY <1>2, <1>3, <1>4, <1>5, StepType

(* What every request did to itself, and nothing to the others.             *)
LEMMA StepKeepsType ==
    ASSUME TypeInv, NEW r \in Requests, Step(r)
    PROVE  TypeInv'
<1>1. TypeOK' /\ StageOf(r)'
  BY SendType, MembershipsType, RosterType, InviteType, AcceptType, BackfillType, HandlesType, SoleType,
     PlansType, DeleteType, EraseType DEF Step, Destroy
<1>2. call' = call /\ \A q \in Requests \ {r} : Undisturbed(q)
  BY StepFrame
<1>3. ASSUME NEW q \in Requests \ {r}
      PROVE  StageOf(q)'
  BY <1>2 DEF TypeInv, StageOK, StageOf, Undisturbed
<1> QED
  BY <1>1, <1>2, <1>3 DEF TypeInv, StageOK, GivenCalls

LEMMA NextKeepsType == TypeInv /\ [Next]_vars => TypeInv'
<1> SUFFICES ASSUME TypeInv, [Next]_vars
             PROVE  TypeInv'
  OBVIOUS
<1>1. CASE UNCHANGED vars
  BY <1>1 DEF vars, stores, people, letters, TypeInv, TypeOK, StageOK, StageOf, GivenCalls
<1>2. ASSUME NEW t \in Tokens, Lapse(t)
      PROVE  TypeInv'
  BY <1>2 DEF Lapse, people, letters, TypeInv, TypeOK, StageOK, StageOf, GivenCalls
<1>3. ASSUME NEW r \in Requests, Step(r)
      PROVE  TypeInv'
  BY <1>3, StepKeepsType
<1> QED
  BY <1>1, <1>2, <1>3 DEF Next, Done

(* What a handler starts with.                                              *)
LEMMA BlankType ==
    ASSUME NEW u \in Users
    PROVE  [Blank EXCEPT !.cover = CoverageOf(u)] \in Memory
<1>1. CoverageOf(u) \in Coverages
  BY DEF CoverageOf, Coverages
<1>2. NoRows \in Rosters /\ NoClaims \in Claims
  BY DEF NoRows, NoClaims, Rosters, Claims
<1> QED
  BY <1>1, <1>2 DEF Blank, Memory, Rosters

LEMMA InitType == Init => TypeInv
<1> SUFFICES ASSUME Init
             PROVE  TypeInv
  OBVIOUS
<1>1. PICK s \in Starts :
        /\ accounts = s.seed.accounts /\ handles = s.seed.handles /\ invites = s.seed.invites
        /\ members = s.seed.members /\ memberIndex = s.seed.memberIndex
        /\ expiryIndex = s.seed.expiryIndex /\ lapsed = s.seed.lapsed /\ users = s.seed.users
        /\ plans = s.seed.plans /\ access = s.seed.access /\ call = s.calls
  BY DEF Init
<1>2. s.seed \in Seed /\ call \in [Requests -> Call]
  BY <1>1, AccountsAssumption
<1>3. mem \in [Requests -> Memory]
  <2>1. ASSUME NEW r \in Requests
        PROVE  [Blank EXCEPT !.cover = CoverageOf(call[r].user)] \in Memory
    BY <1>2, CallType, BlankType
  <2> QED
    BY <2>1 DEF Init
<1>4. pc \in [Requests -> Pcs] /\ \A r \in Requests : pc[r] = "send"
  BY DEF Init, Pcs
<1>5. StageOK
  BY <1>4 DEF StageOK, StageOf, Stage, IndexPcs, RosterPcs, RolePcs, ClaimPcs, SweepPcs, InvitePcs,
              LoadedPcs, SolePcs, EntryPcs, DropPcs, ErasePcs, DestroyPcs
<1> QED
  BY <1>1, <1>2, <1>3, <1>4, <1>5 DEF TypeInv, TypeOK, GivenCalls, Seed

(* Every store keeps records of its shape and every handler holds what its  *)
(* next call needs, whatever overlaps and wherever requests stop.           *)
THEOREM TypeCorrect == Spec => []TypeOK
<1>1. TypeInv => TypeOK
  BY DEF TypeInv
<1> QED
  BY <1>1, InitType, NextKeepsType, PTL DEF Spec

-----------------------------------------------------------------------------
(* Plans and their owners.  Most steps let every account stand and stay     *)
(* away from plans.                                                         *)
PlanPcs == EntryPcs \cup {"plan_record"} \cup AfterPlans

Standing == \A a \in AccountIds : accounts[a] # Absent => accounts'[a] # Absent

(* An account that is written is there.                                     *)
LEMMA PutAccountStands ==
    ASSUME TypeInv, NEW r \in Requests, NEW x, NEW y, NEW rec \in Account, PutAccount(r, x, y, rec)
    PROVE  Standing
<1>1. rec # Absent
  BY AccountsAssumption
<1>2. call[r].account \in AccountIds
  BY CallType DEF TypeInv, TypeOK
<1> QED
  BY <1>1, <1>2 DEF PutAccount, Standing, TypeInv, TypeOK

(* Claiming, founding, upgrading and renaming delete nothing.               *)
LEMMA HandlesStand ==
    ASSUME TypeInv, NEW r \in Requests, Claim(r) \/ Create(r) \/ Upgrade(r) \/ Rename(r)
    PROVE  Standing
<1>1. call[r].handle \in HandleNames \cup {Absent} /\ StageOf(r)
  BY CallType DEF TypeInv, TypeOK, StageOK
<1>2. CASE CreateAccount(r)
  <2>1. [type |-> "organization", handle |-> call[r].handle] \in Account
    BY <1>1 DEF Account
  <2> QED
    BY <1>2, <2>1, PutAccountStands DEF CreateAccount
<1>3. CASE UpgradeWrite(r)
  <2>1. mem[r].rec \in Account
    BY <1>1, <1>3 DEF UpgradeWrite, PutAccount, Goto, StageOf, Stage
  <2>2. [type |-> "organization",
         handle |-> IF call[r].handle = Absent THEN mem[r].rec.handle ELSE call[r].handle] \in Account
    BY <1>1, <2>1 DEF Account
  <2> QED
    BY <1>3, <2>2, PutAccountStands DEF UpgradeWrite
<1>4. CASE RenameWrite(r)
  <2>1. mem[r].rec \in Account
    BY <1>1, <1>4 DEF RenameWrite, PutAccount, Goto, StageOf, Stage
  <2>2. [mem[r].rec EXCEPT !.handle = call[r].handle] \in Account
    BY <1>1, <2>1 DEF Account
  <2> QED
    BY <1>4, <2>2, PutAccountStands DEF RenameWrite
<1>5. CASE Claim(r) \/ CreateRow(r) \/ CreateIndex(r) \/ UpgradeCheck(r) \/ UpgradeRead(r)
             \/ RenameRead(r) \/ RenameRetire(r)
  BY <1>5 DEF Standing, Claim, ClaimHandle, ClaimCheck, CreateRow, CreateIndex, PutRow, PutIndex, UpgradeCheck,
              UpgradeRead, RenameRead, RenameRetire, stores
<1> QED
  BY <1>2, <1>3, <1>4, <1>5 DEF Create, Upgrade, Rename

(* Every other request neither walks plans nor deletes accounts.            *)
LEMMA AwayFromPlans ==
    ASSUME TypeInv, NEW r \in Requests, Step(r), ~DropOwnership(r), ~DeleteAccount(r)
    PROVE  plans' = plans /\ Standing /\ pc'[r] \notin PlanPcs
<1> USE DEF TypeInv, TypeOK, Goto, stores, people, PlanPcs, EntryPcs, AfterPlans, DropPcs
<1>1. CASE Send(r)
  <2>1. call[r].op \in Ops
    BY DEF Call
  <2>2. FirstOf(r) \notin PlanPcs
    BY <2>1 DEF FirstOf, First, Ops
  <2> QED
    BY <1>1, <2>2 DEF Send, Standing
<1>2. CASE MembershipsOf(r) \/ Mint(r)
  BY <1>2 DEF Standing, MembershipsOf, ListIndex, ReadIndexed, RepairIndex, ListAllRows, ReadScanned, HealIndex,
              Mint, HasMemberships
<1>3. CASE ChangeRole(r) \/ Remove(r) \/ Withdraw(r)
  BY <1>3 DEF Standing, ChangeRole, PutRole, RefuseRole, RoleVerdict, Remove, RemoveRow, RefuseRemove,
              RemoveVerdict, Withdraw, WithdrawRead, ListRoster, ReadRoster, PutRow, PutIndex, DeleteRow,
              DeleteIndex
<1>4. CASE DoInvite(r)
  BY <1>4 DEF Standing, DoInvite, InviteAccount, Sweep, SweepList, SweepDrop, SweepUnindex, CatchUpList,
              CatchUpRead, CatchUpDrop, CatchUpIndex, PutInvite, PutExpiry, PutPending, SendMail, PutRow
<1>5. CASE Accept(r)
  BY <1>5 DEF Standing, Accept, LoadInvite, LoadAccount, LoadPending, Verify, AcceptRow, AcceptIndex,
              AcceptPending, AcceptMark, PutRow, PutIndex, DeleteRow
<1>6. CASE Backfill(r)
  BY <1>6 DEF Standing, Backfill, BackfillList, BackfillPut, BackfillReport
<1>7. CASE Claim(r) \/ Create(r) \/ Upgrade(r) \/ Rename(r)
  <2>1. Standing
    BY <1>7, HandlesStand
  <2>2. CASE Claim(r)
    <3>1. pc[r] \in ClaimPcs /\ StageOf(r)
      BY <2>2 DEF Claim, ClaimHandle, ClaimCheck, ClaimPcs, StageOK
    <3>2. Claimed(r) \notin PlanPcs
      BY <3>1 DEF Claimed, Is, StageOf, Stage
    <3> QED
      BY <2>1, <2>2, <3>2 DEF Claim, ClaimHandle, ClaimCheck
  <2>3. CASE Create(r) \/ Upgrade(r) \/ Rename(r)
    BY <2>1, <2>3 DEF Create, CreateAccount, CreateRow, CreateIndex, Upgrade, UpgradeCheck, UpgradeRead,
              UpgradeWrite, Rename, RenameRead, RenameRetire, RenameWrite, PutAccount, PutRow, PutIndex
  <2> QED
    BY <1>7, <2>2, <2>3
<1>8. CASE DestroyRead(r) \/ SoleOwnerships(r)
  BY <1>8 DEF Standing, DestroyRead, SoleOwnerships, SoleBegin, SoleAccount, SoleJudge, SoleEnd, ListRoster,
              ReadRoster, HasMemberships
<1>9. CASE Erase(r)
  BY <1>9 DEF Standing, Erase, EraseRead, EraseIndexList, EraseIndex, EraseInviteList, EraseInvite,
              ErasePendingList, ErasePending, EraseUser, DeleteRow
<1> QED
  BY <1>1, <1>2, <1>3, <1>4, <1>5, <1>6, <1>7, <1>8, <1>9 DEF Step, Destroy

(* Where the plans stand and no account goes, so does what was reached.     *)
LEMMA AwayKeepsOwners ==
    ASSUME OwnersInv, NEW r \in Requests, plans' = plans, Standing, pc'[r] \notin PlanPcs, call' = call,
           \A q \in Requests \ {r} : Undisturbed(q)
    PROVE  OwnersInv'
<1>1. OwnershipDropped' /\ NoDocNoOwner'
  BY DEF OwnersInv, OwnershipDropped, NoDocNoOwner, Standing
<1>2. ASSUME NEW q \in Requests
      PROVE  Disowned(q)'
  BY DEF OwnersInv, Disowned, RecordOwned, MetaOwned, Undisturbed, PlanPcs, EntryPcs
<1> QED
  BY <1>1, <1>2 DEF OwnersInv

(* No step of a walk gives an entry back: what was dropped of it stays so.  *)
OnlyDrops ==
    \A b \in AccountIds : \A s \in Slugs :
        (RecordOwned(b, s)' => RecordOwned(b, s)) /\ (MetaOwned(b, s)' => MetaOwned(b, s))

LEMMA WalkOnlyDrops ==
    ASSUME TypeInv, OwnersInv, NEW r \in Requests, DropOwnership(r)
    PROVE  OnlyDrops /\ NoDocNoOwner'
<1> USE DEF Goto, EntryPcs
<1> DEFINE a == call[r].account
           at == mem[r].at
<1>0. /\ a \in AccountIds /\ StageOf(r) /\ NoDocNoOwner
      /\ plans \in [AccountIds -> [Slugs -> Plan \cup {Absent}]]
  BY CallType DEF TypeInv, TypeOK, StageOK, OwnersInv
<1>1. CASE plans' = plans
  BY <1>0, <1>1 DEF OnlyDrops, RecordOwned, MetaOwned, NoDocNoOwner
<1>2. ASSUME NEW x, plans' = [plans EXCEPT ![a][at] = x], at \in Slugs,
             x # Absent =>
                 /\ "ownerAccountId" \in x.record => RecordOwned(a, at)
                 /\ x.owned \/ x.doc = "shared" => MetaOwned(a, at)
                 /\ x.owned => x.doc # Absent
      PROVE  OnlyDrops /\ NoDocNoOwner'
  <2>1. \A b \in AccountIds : \A s \in Slugs :
            plans'[b][s] = IF b = a /\ s = at THEN x ELSE plans[b][s]
    BY <1>0, <1>2
  <2> QED
    BY <1>0, <1>2, <2>1 DEF OnlyDrops, RecordOwned, MetaOwned, NoDocNoOwner
<1>3. CASE PlanBlobs(r)
  <2> DEFINE x == IF plans[a][at] = Absent THEN Absent
                  ELSE [plans[a][at] EXCEPT !.doc = Absent, !.owned = FALSE]
  <2>1. at \in Slugs /\ plans' = [plans EXCEPT ![a][at] = x]
    BY <1>0, <1>3 DEF PlanBlobs, WritePlan, StageOf, Stage
  <2>2. x # Absent => /\ plans[a][at] # Absent /\ x.record = plans[a][at].record
                      /\ ~x.owned /\ x.doc = Absent
    <3>1. plans[a][at] \in Plan \cup {Absent}
      BY <1>0, <2>1
    <3>2. CASE plans[a][at] = Absent
      BY <3>2
    <3>3. CASE plans[a][at] # Absent
      <4>1. plans[a][at] \in Plan
        BY <3>1, <3>3
      <4> QED
        BY <3>3, <4>1, BarePlan
    <3> QED
      BY <3>2, <3>3
  <2> HIDE DEF x
  <2> QED
    BY <1>2, <2>1, <2>2, AccountsAssumption DEF RecordOwned
<1>4. CASE PlanKey(r)
  <2>1. at \in Slugs /\ plans' = [plans EXCEPT ![a][at] = Absent]
    BY <1>0, <1>4 DEF PlanKey, WritePlan, StageOf, Stage
  <2> QED
    BY <1>2, <2>1
<1>5. CASE PlanDisown(r)
  <2> DEFINE x == [record |-> mem[r].plan.record \ {"ownerAccountId"}, doc |-> PlanDoc(r), owned |-> PlanOwned(r)]
  <2>1. at \in Slugs /\ plans' = [plans EXCEPT ![a][at] = x]
    BY <1>0, <1>5 DEF PlanDisown, WritePlan, StageOf, Stage
  <2>2. "ownerAccountId" \notin x.record /\ x.doc = PlanDoc(r) /\ x.owned = PlanOwned(r)
    OBVIOUS
  <2>3. x.owned => MetaOwned(a, at) /\ x.doc # Absent
    BY <1>0, <2>1, <2>2 DEF PlanOwned, PlanDoc, MetaOwned, NoDocNoOwner
  <2>4. x.doc = "shared" => MetaOwned(a, at)
    BY <2>2, AccountsAssumption DEF PlanDoc, MetaOwned
  <2> HIDE DEF x
  <2> QED
    BY <1>2, <2>1, <2>2, <2>3, <2>4
<1>6. CASE PlanRelease(r)
  <2>1. PICK doc \in {"published", "draft"} : plans' = [plans EXCEPT ![a][at] =
               [record |-> PlanNames(r), doc |-> doc, owned |-> FALSE]]
    BY <1>6 DEF PlanRelease, WritePlan
  <2>2. at \in Slugs
    BY <1>0, <1>6 DEF PlanRelease, StageOf, Stage
  <2>3. "ownerAccountId" \in PlanNames(r) => RecordOwned(a, at)
    BY DEF PlanNames, RecordOwned
  <2> QED
    BY <1>2, <2>1, <2>2, <2>3
<1> QED
  BY <1>1, <1>3, <1>4, <1>5, <1>6
     DEF DropOwnership, PlanList, PlanRecord, PlanMeta, PlanEnd, stores

(* The walk drops an entry in two calls, the index record first.            *)
LEMMA WalkKeepsOwners ==
    ASSUME TypeInv, OwnersInv, NEW r \in Requests, DropOwnership(r)
    PROVE  OwnersInv'
<1> USE DEF EntryPcs, AfterPlans, DropPcs, Goto
<1> DEFINE a == call[r].account
           at == mem[r].at
           Undropped(s) == RecordOwned(a, s) \/ MetaOwned(a, s)
<1>0. /\ a \in AccountIds /\ mem[r] \in Memory /\ pc \in [Requests -> Pcs] /\ mem \in [Requests -> Memory]
      /\ plans \in [AccountIds -> [Slugs -> Plan \cup {Absent}]]
      /\ StageOf(r) /\ call \in [Requests -> Call]
  BY CallType DEF TypeInv, TypeOK, StageOK
<1>1. call' = call /\ accounts' = accounts /\ \A q \in Requests \ {r} : Undisturbed(q)
  <2>1. Step(r)
    BY DEF Step, Destroy
  <2>2. accounts' = accounts
    BY DEF DropOwnership, PlanList, PlanRecord, PlanMeta, PlanBlobs, PlanKey, PlanDisown, PlanRelease,
           PlanEnd, WritePlan, stores
  <2> QED
    BY <2>1, <2>2, StepFrame
<1>2. OnlyDrops /\ NoDocNoOwner'
  BY WalkOnlyDrops
<1>3. \A s \in Slugs : Undropped(s)' => Undropped(s)
  BY <1>0, <1>1, <1>2 DEF OnlyDrops
<1>4. Disowned(r)'
  <2>1. Disowned(r) /\ NoDocNoOwner
    BY DEF OwnersInv
  <2>2. CASE PlanList(r)
    <3>1. mem'[r].todo = {s \in Slugs : plans[a][s] # Absent}
      BY <1>0, <2>2, MemoryTodo DEF PlanList, Holds, Holding, Listing
    <3> QED
      BY <1>0, <1>1, <2>2, <3>1 DEF PlanList, stores, Disowned, RecordOwned, MetaOwned
  <2>3. CASE PlanRecord(r)
    <3>1. PICK s \in mem[r].todo :
            /\ Goto(r, "plan_record", IF plans[a][s] = Absent THEN "plan_record" ELSE "plan_meta")
            /\ Holds(r, [mem[r] EXCEPT !.todo = @ \ {s}, !.at = s, !.plan = plans[a][s]])
            /\ UNCHANGED <<stores, call>>
      BY <2>3 DEF PlanRecord
    <3>2. s \in Slugs
      BY <1>0, <3>1 DEF StageOf, Stage
    <3>3. mem[r].todo \ {s} \in Listing /\ s \in Places /\ plans[a][s] \in Plan \cup {Absent}
      BY <1>0, <3>2, MemoryType DEF Listing, Places
    <3>4. mem'[r].todo = mem[r].todo \ {s} /\ mem'[r].at = s
      <4> DEFINE m == [mem[r] EXCEPT !.todo = mem[r].todo \ {s}, !.at = s, !.plan = plans[a][s]]
      <4>1. Holding(m, mem[r].todo \ {s}, s, mem[r].rec, mem[r].inv, plans[a][s], mem[r].kept)
        BY <1>0, <3>3, MemoryTodoAtPlan
      <4>2. mem' = [mem EXCEPT ![r] = m]
        BY <3>1 DEF Holds
      <4> HIDE DEF m
      <4> QED
        BY <1>0, <4>1, <4>2 DEF Holding
    <3>5. pc[r] = "plan_record" /\ pc'[r] = IF plans[a][s] = Absent THEN "plan_record" ELSE "plan_meta"
      BY <1>0, <3>1
    <3>6. plans[a][s] = Absent => ~Undropped(s)
      BY DEF RecordOwned, MetaOwned
    <3> QED
      BY <1>0, <1>1, <1>3, <2>1, <3>2, <3>4, <3>5, <3>6 DEF Disowned
  <2>4. CASE PlanMeta(r)
    <3>1. mem[r].plan \in Plan /\ at \in Slugs /\ PlanDoc(r) \in {"draft", "shared", "published", Absent}
      BY <1>0, <2>4 DEF PlanMeta, PlanDoc, Plan, StageOf, Stage
    <3>2. /\ mem'[r].todo = mem[r].todo /\ mem'[r].at = at
          /\ mem'[r].plan = [mem[r].plan EXCEPT !.doc = PlanDoc(r)]
      BY <1>0, <2>4, <3>1, MemoryPlan DEF PlanMeta, Holds, Holding
    <3>3. mem'[r].plan.doc = PlanDoc(r)
      BY <3>1, <3>2 DEF Plan
    <3>4. PlanDoc(r) = Absent => ~MetaOwned(a, at)
      BY <1>0, <2>1, <3>1, AccountsAssumption DEF PlanDoc, MetaOwned, NoDocNoOwner, Plan
    <3>5. MetaOwned(a, at)' => MetaOwned(a, at)
      BY <1>0, <1>1, <1>2, <3>1, <3>2 DEF OnlyDrops
    <3>6. pc[r] = "plan_meta" /\ pc'[r] \in {"plan_disown", "plan_blobs"}
      BY <1>0, <2>4 DEF PlanMeta
    <3> QED
      BY <1>0, <1>1, <1>3, <2>1, <3>2, <3>3, <3>4, <3>5, <3>6 DEF Disowned
  <2>5. CASE PlanBlobs(r)
    <3>1. at \in Slugs /\ mem'[r] = mem[r] /\ pc[r] = "plan_blobs" /\ pc'[r] = "plan_key"
      BY <1>0, <2>5 DEF PlanBlobs, StageOf, Stage
    <3>2. plans'[a][at] = IF plans[a][at] = Absent THEN Absent
                          ELSE [plans[a][at] EXCEPT !.doc = Absent, !.owned = FALSE]
      BY <1>0, <2>5, <3>1 DEF PlanBlobs, WritePlan
    <3>3. plans'[a][at] # Absent => ~plans'[a][at].owned /\ plans'[a][at].doc = Absent
      <4>1. plans[a][at] \in Plan \cup {Absent}
        BY <1>0, <3>1
      <4>2. CASE plans[a][at] = Absent
        BY <3>2, <4>2
      <4>3. CASE plans[a][at] # Absent
        <5>1. plans[a][at] \in Plan
          BY <4>1, <4>3
        <5> QED
          BY <3>2, <4>3, <5>1, BarePlan
      <4> QED
        BY <4>2, <4>3
    <3>4. ~MetaOwned(a, at)'
      BY <1>1, <3>1, <3>3, AccountsAssumption DEF MetaOwned
    <3> QED
      BY <1>0, <1>1, <1>3, <2>1, <3>1, <3>4 DEF Disowned
  <2>6. CASE PlanKey(r)
    <3>1. at \in Slugs /\ mem'[r] = mem[r] /\ pc[r] = "plan_key" /\ pc'[r] = "plan_record"
      BY <1>0, <2>6 DEF PlanKey, StageOf, Stage
    <3>2. plans'[a][at] = Absent
      BY <1>0, <2>6, <3>1 DEF PlanKey, WritePlan
    <3>3. ~Undropped(at)'
      BY <1>1, <3>1, <3>2 DEF RecordOwned, MetaOwned
    <3> QED
      BY <1>0, <1>1, <1>3, <2>1, <3>1, <3>3 DEF Disowned
  <2>7. CASE PlanDisown(r)
    <3>1. /\ at \in Slugs /\ mem'[r] = mem[r] /\ pc[r] = "plan_disown"
          /\ pc'[r] = IF mem[r].plan.doc = Absent THEN "plan_record" ELSE "plan_release"
      BY <1>0, <2>7 DEF PlanDisown, StageOf, Stage
    <3>2. plans'[a][at] = [record |-> mem[r].plan.record \ {"ownerAccountId"}, doc |-> PlanDoc(r),
                           owned |-> PlanOwned(r)]
      BY <1>0, <2>7, <3>1 DEF PlanDisown, WritePlan
    <3>3. ~RecordOwned(a, at)'
      BY <1>1, <3>1, <3>2 DEF RecordOwned
    <3>4. mem[r].plan.doc = Absent => ~MetaOwned(a, at)'
      BY <1>0, <1>1, <1>2, <2>1, <3>1 DEF OnlyDrops, Disowned
    <3> QED
      BY <1>0, <1>1, <1>3, <2>1, <3>1, <3>3, <3>4 DEF Disowned
  <2>8. CASE PlanRelease(r)
    <3>1. at \in Slugs /\ pc[r] = "plan_release" /\ pc'[r] = "plan_record"
      BY <1>0, <2>8 DEF PlanRelease, StageOf, Stage
    <3>2. mem'[r].todo = mem[r].todo /\ mem'[r].at = at
      BY <1>0, <2>8 DEF PlanRelease, Holds, Memory
    <3>3. PICK doc \in {"published", "draft"} :
             plans'[a][at] = [record |-> PlanNames(r), doc |-> doc, owned |-> FALSE]
      BY <1>0, <2>8, <3>1 DEF PlanRelease, WritePlan
    <3>4. ~MetaOwned(a, at)'
      BY <1>1, <3>2, <3>3 DEF MetaOwned
    <3>5. ~RecordOwned(a, at)'
      BY <1>0, <1>1, <1>2, <2>1, <3>1, <3>2 DEF OnlyDrops, Disowned
    <3>6. \A s \in Slugs : Undropped(s)' => s # at
      BY <1>1, <3>2, <3>4, <3>5
    <3> QED
      BY <1>0, <1>1, <1>3, <2>1, <3>1, <3>2, <3>6 DEF Disowned
  <2>9. CASE PlanEnd(r)
    <3>1. pc[r] = "plan_record" /\ pc'[r] = "account_read" /\ mem' = mem /\ mem[r].todo = {}
      BY <1>0, <2>9 DEF PlanEnd
    <3> QED
      BY <1>0, <1>1, <1>3, <2>1, <3>1 DEF Disowned
  <2> QED
    BY <2>2, <2>3, <2>4, <2>5, <2>6, <2>7, <2>8, <2>9 DEF DropOwnership
<1>5. OwnershipDropped'
  BY <1>1, <1>2 DEF OwnersInv, OwnershipDropped, Dropped, OnlyDrops, RecordOwned, MetaOwned
<1>6. ASSUME NEW q \in Requests \ {r}
      PROVE  Disowned(q)'
  <2>1. Undisturbed(q) /\ call[q].account \in AccountIds /\ StageOf(q) /\ Disowned(q)
    BY <1>0, <1>1, CallType DEF TypeInv, TypeOK, StageOK, OwnersInv
  <2>2. pc[q] \in EntryPcs => mem[q].at \in Slugs
    BY <2>1 DEF StageOf, Stage
  <2> QED
    BY <1>1, <1>2, <2>1, <2>2 DEF Disowned, Undisturbed, OnlyDrops
<1> QED
  BY <1>2, <1>4, <1>5, <1>6 DEF OwnersInv

(* An account goes after its last plan went.                                *)
LEMMA DeletionKeepsOwners ==
    ASSUME TypeInv, OwnersInv, NEW r \in Requests, DeleteAccount(r)
    PROVE  OwnersInv'
<1> USE DEF EntryPcs, AfterPlans, DropPcs, Goto
<1>0. /\ call[r].account \in AccountIds /\ pc \in [Requests -> Pcs]
      /\ accounts \in [AccountIds -> Account \cup {Absent}]
  BY CallType DEF TypeInv, TypeOK
<1>1. Step(r)
  BY DEF Step, Destroy
<1>2. call' = call /\ \A q \in Requests \ {r} : Undisturbed(q)
  BY <1>1, StepFrame
<1>3. plans' = plans
  BY DEF DeleteAccount, AccountRead, ListRoster, ReadRoster, DropRow, DropHandle, DropAccount, DeleteRow,
         DeleteIndex, stores
<1>4. pc[r] \in AfterPlans /\ pc'[r] \in AfterPlans \cup {"400", "200", "erase_read"}
  BY <1>0 DEF DeleteAccount, AccountRead, ListRoster, ReadRoster, DropRow, DropHandle, DropAccount, DeleteRow,
         DeleteIndex
<1>5. \A s \in Slugs : ~RecordOwned(call[r].account, s) /\ ~MetaOwned(call[r].account, s)
  BY <1>4 DEF OwnersInv, Disowned
<1>6. \A a \in AccountIds \ {call[r].account} : accounts'[a] = accounts[a]
  BY <1>0 DEF DeleteAccount, AccountRead, ListRoster, ReadRoster, DropRow, DropHandle, DropAccount, DeleteRow,
         DeleteIndex, stores
<1>7. OwnershipDropped' /\ NoDocNoOwner'
  BY <1>3, <1>5, <1>6 DEF OwnersInv, OwnershipDropped, NoDocNoOwner, Dropped, RecordOwned, MetaOwned
<1>8. ASSUME NEW q \in Requests
      PROVE  Disowned(q)'
  <2>1. CASE q # r
    BY <1>2, <1>3, <2>1 DEF OwnersInv, Disowned, RecordOwned, MetaOwned, Undisturbed
  <2>2. CASE q = r
    BY <1>2, <1>3, <1>4, <1>5, <2>2 DEF Disowned, RecordOwned, MetaOwned
  <2> QED
    BY <2>1, <2>2
<1> QED
  BY <1>7, <1>8 DEF OwnersInv

(* The strengthened invariant of the plans' owners, step and start.         *)
LEMMA NextKeepsOwners == TypeInv /\ OwnersInv /\ [Next]_vars => OwnersInv'
<1> SUFFICES ASSUME TypeInv, OwnersInv, [Next]_vars
             PROVE  OwnersInv'
  OBVIOUS
<1> USE DEF OwnersInv, OwnershipDropped, NoDocNoOwner, Disowned, RecordOwned, MetaOwned
<1>1. CASE UNCHANGED vars
  BY <1>1 DEF vars, stores
<1>2. ASSUME NEW t \in Tokens, Lapse(t)
      PROVE  OwnersInv'
  BY <1>2 DEF Lapse
<1> HIDE DEF OwnersInv, OwnershipDropped, NoDocNoOwner, Disowned, RecordOwned, MetaOwned
<1>3. ASSUME NEW r \in Requests, Step(r)
      PROVE  OwnersInv'
  <2>1. CASE DropOwnership(r) \/ DeleteAccount(r)
    BY <2>1, WalkKeepsOwners, DeletionKeepsOwners
  <2>2. CASE ~DropOwnership(r) /\ ~DeleteAccount(r)
    BY <1>3, <2>2, StepFrame, AwayFromPlans, AwayKeepsOwners
  <2> QED
    BY <2>1, <2>2
<1> QED
  BY <1>1, <1>2, <1>3 DEF Next, Done

LEMMA InitOwners == Init => OwnersInv
<1> SUFFICES ASSUME Init
             PROVE  OwnersInv
  OBVIOUS
<1>1. PICK s \in Starts : accounts = s.seed.accounts /\ plans = s.seed.plans
  BY DEF Init
<1>2. Consistent(s.seed)
  BY AccountsAssumption
<1>3. OwnershipDropped /\ NoDocNoOwner
  BY <1>1, <1>2 DEF Consistent, OwnershipDropped, NoDocNoOwner
<1>4. \A r \in Requests : pc[r] = "send"
  BY DEF Init
<1> QED
  BY <1>3, <1>4 DEF OwnersInv, Disowned, EntryPcs, AfterPlans, DropPcs

(* An account goes only when every entry of it is deleted, or dropped in    *)
(* both of its blobs, wherever the deletion stops and whatever runs next    *)
(* to it: other deletions of the same account only ever drop more.          *)
THEOREM PlansAreDropped == Spec => []OwnershipDropped
<1>1. OwnersInv => OwnershipDropped
  BY DEF OwnersInv
<1> QED
  BY <1>1, InitType, NextKeepsType, InitOwners, NextKeepsOwners, PTL DEF Spec


-----------------------------------------------------------------------------
(* Handles.  First, who can be at work on an account at once.               *)
LEMMA NextKeepsOrder == TypeInv /\ InOrder /\ [Next]_vars => InOrder'
<1> SUFFICES ASSUME TypeInv, InOrder, [Next]_vars
             PROVE  InOrder'
  OBVIOUS
<1>1. CASE UNCHANGED vars
  BY <1>1 DEF vars, InOrder
<1>2. ASSUME NEW t \in Tokens, Lapse(t)
      PROVE  InOrder'
  BY <1>2 DEF Lapse, InOrder
<1>3. ASSUME NEW r \in Requests, Step(r)
      PROVE  InOrder'
  <2>1. /\ call' = call /\ pc[r] \notin Answers
        /\ \A q \in Requests \ {r} : Undisturbed(q)
    BY <1>3, StepFrame
  <2>2. \A q \in Requests : call[q].after \subseteq Requests
    BY CallType DEF TypeInv, TypeOK
  <2>3. \A p \in call[r].after : pc[p] \in Answers
    <3>1. CASE pc[r] = "send"
      <4>1. Send(r)
        <5>1. StageOf(r)
          BY DEF TypeInv, StageOK
        <5> QED
          BY <1>3, <3>1 DEF Step, Goto, MembershipsOf, ListIndex, ReadIndexed, RepairIndex, ListAllRows,
             ReadScanned, HealIndex, Mint, HasMemberships, ChangeRole, PutRole, RefuseRole, Remove, RemoveRow,
             RefuseRemove, Withdraw, WithdrawRead, ListRoster, ReadRoster, PutRow, PutIndex, DeleteRow,
             DeleteIndex, DoInvite, InviteAccount, Sweep, SweepList, SweepDrop, SweepUnindex, CatchUpList,
             CatchUpRead, CatchUpDrop, CatchUpIndex, PutInvite, PutExpiry, PutPending, SendMail, Accept,
             LoadInvite, LoadAccount, LoadPending, Verify, AcceptRow, AcceptIndex, AcceptPending, AcceptMark,
             Backfill, BackfillList, BackfillPut, BackfillReport, Claim, ClaimHandle, ClaimCheck, Create,
             CreateAccount, CreateRow, CreateIndex, Upgrade, UpgradeCheck, UpgradeRead, UpgradeWrite, Rename,
             RenameRead, RenameRetire, RenameWrite, PutAccount, Destroy, DestroyRead, SoleOwnerships,
             SoleBegin, SoleAccount, SoleJudge, SoleEnd, DropOwnership, PlanList, PlanRecord, PlanMeta,
             PlanBlobs, PlanKey, PlanDisown, PlanRelease, PlanEnd, DeleteAccount, AccountRead, DropRow,
             DropHandle, DropAccount, Erase, EraseRead, EraseIndexList, EraseIndex, EraseInviteList,
             EraseInvite, ErasePendingList, ErasePending, EraseUser
      <4> QED
        BY <4>1 DEF Send
    <3>2. CASE pc[r] # "send"
      BY <3>2 DEF InOrder
    <3> QED
      BY <3>1, <3>2
  <2>4. \A p \in Requests : pc[p] \in Answers => pc'[p] \in Answers
    BY <2>1 DEF Undisturbed
  <2>5. ASSUME NEW q \in Requests, pc'[q] # "send", NEW p \in call[q].after
        PROVE  pc[p] \in Answers
    <3>1. CASE q = r
      BY <2>3, <3>1, <2>5
    <3>2. CASE q # r
      BY <2>1, <3>2, <2>5 DEF InOrder, Undisturbed
    <3> QED
      BY <3>1, <3>2
  <2> QED
    BY <2>1, <2>2, <2>4, <2>5 DEF InOrder
<1> QED
  BY <1>1, <1>2, <1>3 DEF Next, Done

(* While a deletion is at work, nothing else writes its account.            *)
LEMMA DeletesAlone ==
    ASSUME LoneDeletions, TypeInv, InOrder, NEW d \in Requests, NEW p \in Requests, d # p,
           call[d].op = "destroy", OnAccount(call[p]), call[d].account = call[p].account,
           pc[d] \notin Answers \cup {"send"}
    PROVE  pc[p] \in Answers \cup {"send"}
<1>1. PICK s \in Starts : call = s.calls
  BY DEF TypeInv, GivenCalls
<1>2. p \in call[d].after \/ d \in call[p].after
  BY <1>1 DEF LoneDeletions
<1> QED
  BY <1>2 DEF InOrder

-----------------------------------------------------------------------------
(* What a step must respect to leave the names in order.                    *)
Dropping == {"drop_row", "drop_index", "drop_account"}

NamesStay == \A h \in HandleNames : \A a \in AccountIds : BoundTo(h, a) => BoundTo(h, a)'

AccountsNamed ==
    \A a \in AccountIds :
        accounts'[a] # Absent /\ accounts'[a].handle # Absent =>
            accounts'[a] = accounts[a] \/ BoundTo(accounts[a].handle, a)'

DroppingStays(r) ==
    pc[r] \in Dropping => pc'[r] \in Dropping \/ accounts'[call[r].account] = Absent

(* The names another handler holds still lead to its account.               *)
LEMMA NamesOfOthers ==
    ASSUME TypeInv, HandlesInv, NEW q \in Requests, Undisturbed(q), call' = call, NamesStay
    PROVE  Names(q)'
<1> USE DEF ClaimPcs, DropPcs
<1>1. /\ call[q].account \in AccountIds /\ call[q].handle \in HandleNames \cup {Absent} /\ StageOf(q)
      /\ Names(q)
  BY CallType DEF TypeInv, TypeOK, StageOK, HandlesInv
<1>2. ASSUME NEW h \in HandleNames, BoundTo(h, call[q].account)
      PROVE  BoundTo(h, call[q].account)'
  BY <1>1, <1>2 DEF NamesStay
<1>3. (\/ pc[q] \in ClaimPcs /\ call[q].op # "create"
       \/ pc[q] \in {"upgrade_write", "retire", "rename_write"} \cup (DropPcs \ {"drop_account"}))
      => mem[q].rec.handle \in HandleNames \cup {Absent}
  BY <1>1 DEF StageOf, Stage, Account
<1> QED
  BY <1>1, <1>2, <1>3 DEF Names, Undisturbed, BoundTo

(* What was listed suffices.                                                *)
LEMMA HandlesFollow ==
    ASSUME TypeInv, TypeInv', HandlesInv, NEW r \in Requests, call' = call,
           \A q \in Requests \ {r} : Undisturbed(q) /\ Kept(q)',
           NamesStay, AccountsNamed, DroppingStays(r), Names(r)', Kept(r)'
    PROVE  HandlesInv'
<1>1. ASSUME NEW a \in AccountIds, accounts'[a] # Absent, accounts'[a].handle # Absent, ~Destroying(a)'
      PROVE  BoundTo(accounts[a].handle, a)'
  <2>1. CASE accounts'[a] = accounts[a]
    <3>1. ~Destroying(a)
      BY <1>1 DEF Destroying, Is, DroppingStays, Dropping, Undisturbed
    <3>2. BoundTo(accounts[a].handle, a)
      BY <1>1, <2>1, <3>1 DEF HandlesInv, HandleIsOwn, BoundTo
    <3>3. accounts[a].handle \in HandleNames
      BY <1>1, <2>1 DEF TypeInv, TypeOK, Account
    <3> QED
      BY <2>1, <3>2, <3>3 DEF NamesStay, BoundTo
  <2> QED
    BY <1>1, <2>1 DEF AccountsNamed
<1>2. HandleIsOwn'
  BY <1>1 DEF HandleIsOwn, BoundTo
<1>3. ASSUME NEW q \in Requests
      PROVE  Names(q)' /\ Kept(q)'
  BY NamesOfOthers
<1> QED
  BY <1>2, <1>3 DEF HandlesInv

(* Plans that stand keep what other deletions found.                        *)
LEMMA KeptByOthers ==
    ASSUME HandlesInv, NEW q \in Requests, Undisturbed(q), call' = call, plans' = plans
    PROVE  Kept(q)'
BY DEF HandlesInv, Kept, Keeping, Undisturbed

(* What else a step of these requests does, it stays away from names.       *)
LEMMA AwayFromNames ==
    ASSUME TypeInv, TypeInv', HandlesInv, NEW r \in Requests, Step(r),
           ~(Claim(r) \/ Create(r) \/ Upgrade(r) \/ Rename(r) \/ DropOwnership(r) \/ DeleteAccount(r))
    PROVE  /\ accounts' = accounts /\ handles' = handles /\ plans' = plans
           /\ pc[r] \notin Dropping /\ Names(r)' /\ Kept(r)'
<1> USE DEF TypeInv, TypeOK, Goto, stores, people, EntryPcs, AfterPlans, DropPcs, ClaimPcs, Dropping
<1> DEFINE Apart == /\ accounts' = accounts /\ handles' = handles /\ plans' = plans
                    /\ pc[r] \notin Dropping
           Elsewhere == pc'[r] \notin {"create_account", "upgrade_write", "retire", "rename_write", "plan_record"}
                                      \cup ClaimPcs \cup DropPcs \cup EntryPcs \cup AfterPlans
<1>1. CASE Send(r)
  <2>1. call[r].op \in Ops /\ call' = call
    BY <1>1 DEF Call, Send
  <2>2. pc'[r] = "claim" => call[r].op = "create"
    BY <1>1, <2>1 DEF Send, FirstOf, First, Ops, Is
  <2>3. pc'[r] = "create_account" => call[r].handle = Absent
    BY <1>1, <2>1 DEF Send, FirstOf, First, Ops, Is
  <2>4. pc'[r] \notin {"upgrade_write", "retire", "rename_write", "plan_record", "claim_check"}
                      \cup DropPcs \cup EntryPcs \cup AfterPlans
    BY <1>1, <2>1 DEF Send, FirstOf, First, Ops, Is
  <2> QED
    BY <1>1, <2>1, <2>2, <2>3, <2>4 DEF Send, Names, Kept
<1>2. CASE MembershipsOf(r) \/ Mint(r)
  <2>1. Apart /\ Elsewhere
    BY <1>2 DEF MembershipsOf, ListIndex, ReadIndexed, RepairIndex, ListAllRows, ReadScanned, HealIndex,
                Mint, HasMemberships
  <2> QED
    BY <2>1 DEF Names, Kept
<1>3. CASE ChangeRole(r) \/ Remove(r) \/ Withdraw(r)
  <2>1. Apart /\ Elsewhere
    BY <1>3 DEF ChangeRole, PutRole, RefuseRole, RoleVerdict, Remove, RemoveRow, RefuseRemove,
                RemoveVerdict, Withdraw, WithdrawRead, ListRoster, ReadRoster, PutRow, PutIndex, DeleteRow,
                DeleteIndex
  <2> QED
    BY <2>1 DEF Names, Kept
<1>4. CASE DoInvite(r)
  <2>1. Apart /\ Elsewhere
    BY <1>4 DEF DoInvite, InviteAccount, Sweep, SweepList, SweepDrop, SweepUnindex, CatchUpList,
                CatchUpRead, CatchUpDrop, CatchUpIndex, PutInvite, PutExpiry, PutPending, SendMail, PutRow
  <2> QED
    BY <2>1 DEF Names, Kept
<1>5. CASE Accept(r)
  <2>1. Apart /\ Elsewhere
    BY <1>5 DEF Accept, LoadInvite, LoadAccount, LoadPending, Verify, AcceptRow, AcceptIndex,
                AcceptPending, AcceptMark, PutRow, PutIndex, DeleteRow
  <2> QED
    BY <2>1 DEF Names, Kept
<1>6. CASE Backfill(r)
  <2>1. Apart /\ Elsewhere
    BY <1>6 DEF Backfill, BackfillList, BackfillPut, BackfillReport
  <2> QED
    BY <2>1 DEF Names, Kept
<1>7. CASE DestroyRead(r) \/ SoleOwnerships(r)
  <2>1. Apart /\ Elsewhere
    BY <1>7 DEF DestroyRead, SoleOwnerships, SoleBegin, SoleAccount, SoleJudge, SoleEnd, ListRoster,
                ReadRoster, HasMemberships
  <2> QED
    BY <2>1 DEF Names, Kept
<1>8. CASE Erase(r)
  <2>1. Apart /\ Elsewhere
    BY <1>8 DEF Erase, EraseRead, EraseIndexList, EraseIndex, EraseInviteList, EraseInvite,
                ErasePendingList, ErasePending, EraseUser, DeleteRow
  <2> QED
    BY <2>1 DEF Names, Kept
<1> QED
  BY <1>1, <1>2, <1>3, <1>4, <1>5, <1>6, <1>7, <1>8 DEF Step, Destroy

(* An account that is written, or read to be written, is not being dropped. *)
LEMMA NotDropping ==
    ASSUME LoneDeletions, TypeInv, InOrder, NEW r \in Requests, OnAccount(call[r]),
           pc[r] \notin Answers \cup {"send"} \cup Dropping
    PROVE  ~Destroying(call[r].account)
<1> SUFFICES ASSUME NEW d \in Requests, Is(d, {"destroy"}), call[d].account = call[r].account,
                    pc[d] \in Dropping
             PROVE  FALSE
  BY DEF Destroying, Dropping
<1>1. d # r /\ call[d].op = "destroy" /\ pc[d] \notin Answers \cup {"send"}
  BY DEF Is, Dropping, Answers
<1> QED
  BY <1>1, DeletesAlone

(* Claiming a name binds it to the claimant; it takes nobody else's.        *)
LEMMA ClaimFollows ==
    ASSUME TypeInv, TypeInv', HandlesInv, NEW r \in Requests, Claim(r)
    PROVE  /\ NamesStay /\ AccountsNamed /\ DroppingStays(r) /\ Names(r)' /\ Kept(r)' /\ plans' = plans
           /\ handles' # handles => /\ handles[call[r].handle] = Absent
                                    /\ \E rec \in HandleRec : /\ rec.account = call[r].account
                                          /\ handles' = [handles EXCEPT ![call[r].handle] = rec]
<1> USE DEF Goto, ClaimPcs, DropPcs, EntryPcs, AfterPlans, Dropping
<1>1. /\ pc[r] \in ClaimPcs /\ StageOf(r) /\ Names(r)
      /\ handles \in [HandleNames -> HandleRec \cup {Absent}] /\ pc \in [Requests -> Pcs]
      /\ call[r].account \in AccountIds
  BY CallType DEF Claim, ClaimHandle, ClaimCheck, TypeInv, TypeOK, StageOK, HandlesInv
<1>2. /\ call[r].op \in {"create", "upgrade", "rename"} /\ call[r].handle \in HandleNames
      /\ call[r].op # "create" => mem[r].rec \in Account
  BY <1>1 DEF StageOf, Stage
<1>3. accounts' = accounts /\ plans' = plans /\ mem' = mem /\ call' = call
  BY DEF Claim, ClaimHandle, ClaimCheck, stores
<1>4. /\ NamesStay
      /\ pc'[r] \in {"create_account", "upgrade_write", "retire", "rename_write", "claim_check", "409"}
      /\ (pc'[r] \in {"create_account", "upgrade_write", "retire", "rename_write"} =>
                BoundTo(call[r].handle, call[r].account)')
      /\ (pc'[r] = "create_account" <=> call[r].op = "create" /\ pc'[r] \notin {"claim_check", "409"})
      /\ handles' # handles => /\ handles[call[r].handle] = Absent
                               /\ \E rec \in HandleRec : /\ rec.account = call[r].account
                                     /\ handles' = [handles EXCEPT ![call[r].handle] = rec]
  <2>1. /\ Claimed(r) \in {"create_account", "upgrade_write", "retire", "rename_write"}
        /\ Claimed(r) = "create_account" <=> call[r].op = "create"
    BY <1>2 DEF Claimed, Is
  <2>2. [account |-> call[r].account, tombstone |-> FALSE, redirectsTo |-> Absent] \in HandleRec
    BY <1>1 DEF HandleRec
  <2>3. CASE ClaimHandle(r) /\ IfNew(handles[call[r].handle])
    <3> DEFINE rec == [account |-> call[r].account, tombstone |-> FALSE, redirectsTo |-> Absent]
    <3>1. rec.account = call[r].account /\ rec # Absent /\ rec \in HandleRec
      BY <2>2, AccountsAssumption
    <3>2. handles' = [handles EXCEPT ![call[r].handle] = rec] /\ pc'[r] = Claimed(r)
      BY <1>1, <2>3 DEF ClaimHandle
    <3>3. handles[call[r].handle] = Absent
      BY <2>3 DEF IfNew
    <3> HIDE DEF rec
    <3>4. BoundTo(call[r].handle, call[r].account)'
      BY <1>1, <1>2, <1>3, <3>1, <3>2 DEF BoundTo
    <3>5. NamesStay
      BY <1>1, <3>2, <3>3 DEF NamesStay, BoundTo
    <3> QED
      BY <2>1, <3>1, <3>2, <3>3, <3>4, <3>5
  <2>4. CASE ClaimHandle(r) /\ ~IfNew(handles[call[r].handle])
    BY <1>1, <2>4 DEF ClaimHandle, NamesStay, BoundTo
  <2>5. CASE ClaimCheck(r)
    <3>1. handles' = handles /\ pc'[r] \in {Claimed(r), "409"}
      BY <1>1, <2>5 DEF ClaimCheck, stores
    <3>2. pc'[r] # "409" => BoundTo(call[r].handle, call[r].account)
      BY <1>1, <2>5 DEF ClaimCheck, BoundTo
    <3> QED
      BY <1>3, <2>1, <3>1, <3>2 DEF NamesStay, BoundTo
  <2> QED
    BY <2>3, <2>4, <2>5 DEF Claim
<1>5. Names(r)'
  <2>1. call[r].op # "create" /\ mem[r].rec.handle # Absent => BoundTo(mem[r].rec.handle, call[r].account)'
    <3>1. call[r].op # "create" => mem[r].rec.handle \in HandleNames \cup {Absent}
      BY <1>2 DEF Account
    <3>2. call[r].op # "create" /\ mem[r].rec.handle # Absent => BoundTo(mem[r].rec.handle, call[r].account)
      BY <1>1 DEF Names
    <3> QED
      BY <1>1, <1>3, <1>4, <3>1, <3>2 DEF NamesStay, BoundTo
  <2> QED
    BY <1>2, <1>3, <1>4, <2>1 DEF Names, BoundTo
<1>6. Kept(r)' /\ DroppingStays(r) /\ AccountsNamed
  BY <1>1, <1>3, <1>4 DEF Kept, DroppingStays, AccountsNamed
<1> QED
  BY <1>3, <1>4, <1>5, <1>6

(* The account a name leads to.                                             *)
Bound(h) == IF handles[h] = Absent THEN Absent ELSE handles[h].account

(* What is read of an account that is not being dropped goes by its name.   *)
LEMMA ReadName ==
    ASSUME LoneDeletions, TypeInv, InOrder, HandlesInv, NEW r \in Requests, OnAccount(call[r]),
           pc[r] \notin Answers \cup {"send"} \cup Dropping,
           accounts[call[r].account] # Absent, accounts[call[r].account].handle # Absent
    PROVE  BoundTo(accounts[call[r].account].handle, call[r].account)
<1>1. ~Destroying(call[r].account)
  BY NotDropping
<1>2. call[r].account \in AccountIds
  BY CallType DEF TypeInv, TypeOK
<1> QED
  BY <1>1, <1>2 DEF HandlesInv, HandleIsOwn, BoundTo

(* An account is written under a name that leads to it.                     *)
LEMMA WriteFollows ==
    ASSUME LoneDeletions, TypeInv, TypeInv', InOrder, HandlesInv, NEW r \in Requests,
           Create(r) \/ Upgrade(r) \/ Rename(r)
    PROVE  /\ NamesStay /\ AccountsNamed /\ DroppingStays(r) /\ Names(r)' /\ Kept(r)' /\ plans' = plans
           /\ \A h \in HandleNames : Bound(h)' = Bound(h)
<1> USE DEF Goto, ClaimPcs, DropPcs, EntryPcs, AfterPlans, Dropping
<1> DEFINE a == call[r].account
<1>1. /\ StageOf(r) /\ Names(r) /\ a \in AccountIds /\ call[r].handle \in HandleNames \cup {Absent}
      /\ handles \in [HandleNames -> HandleRec \cup {Absent}] /\ pc \in [Requests -> Pcs]
      /\ accounts \in [AccountIds -> Account \cup {Absent}] /\ accounts[a] \in Account \cup {Absent}
      /\ mem \in [Requests -> Memory] /\ mem[r] \in Memory
  BY CallType DEF TypeInv, TypeOK, StageOK, HandlesInv
<1>2. plans' = plans /\ call' = call
  BY DEF Create, CreateAccount, CreateRow, CreateIndex, Upgrade, UpgradeCheck, UpgradeRead, UpgradeWrite,
         Rename, RenameRead, RenameRetire, RenameWrite, PutAccount, PutRow, PutIndex, stores
<1>3. CASE CreateRow(r) \/ CreateIndex(r) \/ UpgradeCheck(r)
  <2>1. /\ accounts' = accounts /\ handles' = handles /\ pc[r] \notin Dropping
        /\ pc'[r] \in {"create_index", "201", "404", "409", "upgrade_read"}
    BY <1>1, <1>3 DEF CreateRow, CreateIndex, UpgradeCheck, PutRow, PutIndex, stores
  <2> QED
    BY <1>2, <2>1 DEF NamesStay, AccountsNamed, DroppingStays, Names, Kept, BoundTo, Bound
<1>4. CASE UpgradeRead(r) \/ RenameRead(r)
  <2>1. /\ accounts' = accounts /\ handles' = handles
        /\ pc[r] \in {"upgrade_read", "rename_read"}
        /\ mem' = [mem EXCEPT ![r] = [mem[r] EXCEPT !.rec = accounts[a]]]
    BY <1>4 DEF UpgradeRead, RenameRead, Holds, stores
  <2>2. mem'[r].rec = accounts[a]
    BY <1>1, <2>1, MemoryRec DEF Holding
  <2>3. OnAccount(call[r])
    BY <1>1, <2>1 DEF StageOf, Stage, OnAccount
  <2>4. /\ pc'[r] \in {"400", "404", "200", "upgrade_write", "claim"}
        /\ pc'[r] \in {"upgrade_write", "claim"} => accounts[a] # Absent
        /\ pc'[r] = "upgrade_write" => call[r].handle = Absent
    BY <1>1, <1>4 DEF UpgradeRead, RenameRead
  <2>5. accounts[a] # Absent /\ accounts[a].handle # Absent => BoundTo(accounts[a].handle, a)
    BY <2>1, <2>3, ReadName DEF Answers
  <2>6. Names(r)'
    BY <1>2, <2>1, <2>2, <2>4, <2>5 DEF Names, BoundTo
  <2> QED
    BY <1>2, <2>1, <2>4, <2>6 DEF NamesStay, AccountsNamed, DroppingStays, Kept, BoundTo, Bound
<1>5. CASE CreateAccount(r) \/ UpgradeWrite(r) \/ RenameWrite(r)
  <2>1. PICK rec \in Account : /\ accounts' = [accounts EXCEPT ![a] = rec]
                               /\ rec.handle # Absent => BoundTo(rec.handle, a)
    <3>1. CASE CreateAccount(r)
      <4>1. [type |-> "organization", handle |-> call[r].handle] \in Account
        BY <1>1 DEF Account
      <4>2. call[r].handle # Absent => BoundTo(call[r].handle, a)
        BY <1>1, <3>1 DEF CreateAccount, PutAccount, Names
      <4> QED
        BY <3>1, <4>1, <4>2 DEF CreateAccount, PutAccount
    <3>2. CASE UpgradeWrite(r)
      <4> DEFINE h == IF call[r].handle = Absent THEN mem[r].rec.handle ELSE call[r].handle
      <4>1. mem[r].rec \in Account
        BY <1>1, <3>2 DEF UpgradeWrite, PutAccount, StageOf, Stage
      <4>2. [type |-> "organization", handle |-> h] \in Account
        BY <1>1, <4>1 DEF Account
      <4>3. h # Absent => BoundTo(h, a)
        BY <1>1, <3>2 DEF UpgradeWrite, PutAccount, Names
      <4>4. accounts' = [accounts EXCEPT ![a] = [type |-> "organization", handle |-> h]]
        BY <3>2 DEF UpgradeWrite, PutAccount
      <4> HIDE DEF h
      <4> QED
        BY <4>2, <4>3, <4>4
    <3>3. CASE RenameWrite(r)
      <4>1. mem[r].rec \in Account
        BY <1>1, <3>3 DEF RenameWrite, PutAccount, StageOf, Stage
      <4>2. /\ [mem[r].rec EXCEPT !.handle = call[r].handle] \in Account
            /\ [mem[r].rec EXCEPT !.handle = call[r].handle].handle = call[r].handle
        BY <1>1, <4>1 DEF Account
      <4>3. call[r].handle # Absent => BoundTo(call[r].handle, a)
        BY <1>1, <3>3 DEF RenameWrite, PutAccount, Names
      <4> QED
        BY <3>3, <4>2, <4>3 DEF RenameWrite, PutAccount
    <3> QED
      BY <1>5, <3>1, <3>2, <3>3
  <2>2. handles' = handles /\ pc[r] \notin Dropping /\ pc'[r] \in {"create_row", "200"}
    BY <1>1, <1>5 DEF CreateAccount, UpgradeWrite, RenameWrite, PutAccount
  <2>3. AccountsNamed
    BY <1>1, <2>1, <2>2 DEF AccountsNamed, BoundTo
  <2> QED
    BY <1>2, <2>2, <2>3 DEF NamesStay, DroppingStays, Names, Kept, BoundTo, Bound
<1>6. CASE RenameRetire(r)
  <2> DEFINE old == mem[r].rec.handle
             rec == [account |-> a, tombstone |-> TRUE, redirectsTo |-> call[r].handle]
  <2>1. pc[r] = "retire" /\ pc'[r] = "rename_write" /\ accounts' = accounts /\ mem' = mem
    BY <1>1, <1>6 DEF RenameRetire
  <2>2. handles' = [handles EXCEPT ![old] = rec]
    BY <1>6 DEF RenameRetire
  <2>3. old \in HandleNames /\ BoundTo(old, a) /\ call[r].handle \in HandleNames
    BY <1>1, <2>1 DEF StageOf, Stage, Account, Names
  <2>4. rec # Absent /\ rec.account = a
    <3>1. rec \in HandleRec
      BY <1>1, <2>3 DEF HandleRec
    <3>2. Absent \notin HandleRec
      BY AccountsAssumption
    <3> QED
      BY <3>1, <3>2
  <2> HIDE DEF rec, old
  <2>5. NamesStay /\ \A h \in HandleNames : Bound(h)' = Bound(h)
    BY <1>1, <2>2, <2>3, <2>4 DEF NamesStay, BoundTo, Bound
  <2>6. BoundTo(call[r].handle, a)
    <3>1. call[r].handle # Absent
      BY <2>3, AccountsAssumption
    <3> QED
      BY <1>1, <2>1, <3>1 DEF Names
  <2>7. \A h \in {call[r].handle, old} : handles'[h] # Absent /\ handles'[h].account = a
    BY <1>1, <2>2, <2>3, <2>4, <2>6 DEF BoundTo
  <2>8. Names(r)'
    BY <1>2, <2>1, <2>7 DEF Names, BoundTo, old
  <2> QED
    BY <1>2, <2>1, <2>5, <2>8 DEF AccountsNamed, DroppingStays, Kept
<1> QED
  BY <1>2, <1>3, <1>4, <1>5, <1>6 DEF Create, Upgrade, Rename

(* The walk over the plans finds out whether anything is left under a name. *)
LEMMA WalkFollows ==
    ASSUME LoneDeletions, TypeInv, InOrder, HandlesInv, NEW r \in Requests, DropOwnership(r)
    PROVE  /\ accounts' = accounts /\ handles' = handles /\ pc[r] \notin Dropping
           /\ Names(r)' /\ Kept(r)' /\ \A q \in Requests \ {r} : Kept(q)'
<1> USE DEF EntryPcs, AfterPlans, DropPcs, Goto, Keeping
<1> DEFINE a == call[r].account
           at == mem[r].at
<1>0. /\ a \in AccountIds /\ mem[r] \in Memory /\ pc \in [Requests -> Pcs] /\ mem \in [Requests -> Memory]
      /\ plans \in [AccountIds -> [Slugs -> Plan \cup {Absent}]]
      /\ StageOf(r) /\ call \in [Requests -> Call] /\ Kept(r)
  BY CallType DEF TypeInv, TypeOK, StageOK, HandlesInv
<1>1. /\ accounts' = accounts /\ handles' = handles /\ call' = call /\ pc[r] \notin Dropping
      /\ pc[r] \in DestroyPcs \/ pc[r] = "plan_list"
      /\ pc'[r] \in EntryPcs \cup {"plan_record", "account_read"}
      /\ \A b \in AccountIds \ {a} : plans'[b] = plans[b]
  BY <1>0 DEF DropOwnership, PlanList, PlanRecord, PlanMeta, PlanBlobs, PlanKey, PlanDisown, PlanRelease,
         PlanEnd, WritePlan, stores, Dropping, DestroyPcs
<1>2. Names(r)'
  BY <1>1 DEF Names, ClaimPcs
<1>3. call[r].op = "destroy" /\ pc[r] \notin Answers \cup {"send"}
  BY <1>0, <1>1 DEF StageOf, Stage, DestroyPcs, Answers, SolePcs, ErasePcs
<1>4. ASSUME NEW q \in Requests \ {r}
      PROVE  Kept(q)'
  <2>1. Undisturbed(q)
    BY StepFrame DEF Step, Destroy
  <2>2. StageOf(q) /\ call[q].account \in AccountIds /\ Kept(q)
    BY CallType DEF TypeInv, TypeOK, StageOK, HandlesInv
  <2>3. CASE call[q].account # a
    BY <1>1, <2>1, <2>2, <2>3 DEF Kept, Undisturbed
  <2>4. CASE call[q].account = a
    <3>1. call[q].op = "destroy" => pc[q] \in Answers \cup {"send"}
      BY <1>3, <2>4, DeletesAlone DEF OnAccount
    <3>2. pc[q] \notin EntryPcs \cup {"plan_record"} \cup AfterPlans
      BY <2>2, <3>1 DEF StageOf, Stage, DestroyPcs, Answers
    <3> QED
      BY <2>1, <3>2 DEF Kept, Undisturbed
  <2> QED
    BY <2>3, <2>4
<1>5. Kept(r)'
  <2>2. CASE PlanList(r)
    <3>1. mem'[r].todo = {s \in Slugs : plans[a][s] # Absent}
      BY <1>0, <2>2, MemoryTodo DEF PlanList, Holds, Holding, Listing
    <3> QED
      BY <1>0, <1>1, <2>2, <3>1 DEF PlanList, stores, Kept
  <2>3. CASE PlanRecord(r)
    <3>1. PICK s \in mem[r].todo :
            /\ Goto(r, "plan_record", IF plans[a][s] = Absent THEN "plan_record" ELSE "plan_meta")
            /\ Holds(r, [mem[r] EXCEPT !.todo = @ \ {s}, !.at = s, !.plan = plans[a][s]])
            /\ UNCHANGED <<stores, call>>
      BY <2>3 DEF PlanRecord
    <3>2. s \in Slugs
      BY <1>0, <3>1 DEF StageOf, Stage
    <3>3. mem[r].todo \ {s} \in Listing /\ s \in Places /\ plans[a][s] \in Plan \cup {Absent}
      BY <1>0, <3>2, MemoryType DEF Listing, Places
    <3>4. mem'[r].todo = mem[r].todo \ {s} /\ mem'[r].at = s /\ mem'[r].kept = mem[r].kept
      <4> DEFINE m == [mem[r] EXCEPT !.todo = mem[r].todo \ {s}, !.at = s, !.plan = plans[a][s]]
      <4>1. Holding(m, mem[r].todo \ {s}, s, mem[r].rec, mem[r].inv, plans[a][s], mem[r].kept)
        BY <1>0, <3>3, MemoryTodoAtPlan
      <4>2. mem' = [mem EXCEPT ![r] = m]
        BY <3>1 DEF Holds
      <4> HIDE DEF m
      <4> QED
        BY <1>0, <4>1, <4>2 DEF Holding
    <3> QED
      BY <1>0, <1>1, <3>1, <3>2, <3>4 DEF stores, Kept
  <2>4. CASE PlanMeta(r)
    <3>1. mem[r].plan \in Plan /\ PlanDoc(r) \in {"draft", "shared", "published", Absent}
      BY <1>0, <2>4 DEF PlanMeta, PlanDoc, Plan, StageOf, Stage
    <3>2. /\ mem'[r].todo = mem[r].todo /\ mem'[r].at = at /\ mem'[r].kept = mem[r].kept
          /\ mem'[r].plan = [mem[r].plan EXCEPT !.doc = PlanDoc(r)]
      BY <1>0, <2>4, <3>1, MemoryPlan DEF PlanMeta, Holds, Holding
    <3>4. mem'[r].plan.doc = PlanDoc(r)
      BY <3>1, <3>2 DEF Plan
    <3>3. PlanDoc(r) = Absent => ~Keeping(a, at)
      BY DEF PlanDoc
    <3> QED
      BY <1>0, <1>1, <2>4, <3>2, <3>3, <3>4 DEF PlanMeta, stores, Kept
  <2>5. CASE PlanBlobs(r)
    <3>1. at \in Slugs
      BY <1>0, <2>5 DEF PlanBlobs, StageOf, Stage
    <3>2. plans' = [plans EXCEPT ![a][at] =
             IF plans[a][at] = Absent THEN Absent ELSE [plans[a][at] EXCEPT !.doc = Absent, !.owned = FALSE]]
      BY <2>5 DEF PlanBlobs, WritePlan
    <3>3. \A s \in Slugs : s # at => plans'[a][s] = plans[a][s]
      BY <1>0, <3>1, <3>2
    <3> QED
      BY <1>0, <1>1, <2>5, <3>1, <3>3 DEF PlanBlobs, Kept
  <2>6. CASE PlanKey(r)
    <3>1. at \in Slugs
      BY <1>0, <2>6 DEF PlanKey, StageOf, Stage
    <3> QED
      BY <1>0, <1>1, <2>6, <3>1 DEF PlanKey, WritePlan, Kept
  <2>7. CASE PlanDisown(r)
    <3>1. at \in Slugs /\ mem'[r] = mem[r] /\ pc[r] = "plan_disown"
      BY <1>0, <2>7 DEF PlanDisown, StageOf, Stage
    <3>2. PICK x, y : plans' = [plans EXCEPT ![a][at] = [record |-> x, doc |-> PlanDoc(r), owned |-> y]]
      BY <2>7 DEF PlanDisown, WritePlan
    <3>3. PlanDoc(r) = Absent <=> ~Keeping(a, at)
      BY DEF PlanDoc
    <3>4. \A s \in Slugs : Keeping(a, s)' => Keeping(a, s)
      BY <1>0, <1>1, <3>1, <3>2, <3>3
    <3>5. pc'[r] = IF mem[r].plan.doc = Absent THEN "plan_record" ELSE "plan_release"
      BY <1>0, <2>7 DEF PlanDisown
    <3> QED
      BY <1>0, <1>1, <3>1, <3>4, <3>5 DEF Kept
  <2>8. CASE PlanRelease(r)
    <3>1. mem'[r].kept /\ pc'[r] = "plan_record"
      BY <1>0, <2>8 DEF PlanRelease, Holds, Memory
    <3> QED
      BY <3>1 DEF Kept
  <2>9. CASE PlanEnd(r)
    BY <1>0, <1>1, <2>9 DEF PlanEnd, stores, Kept
  <2> QED
    BY <2>2, <2>3, <2>4, <2>5, <2>6, <2>7, <2>8, <2>9 DEF DropOwnership
<1> QED
  BY <1>1, <1>2, <1>4, <1>5

(* A deletion goes on under the name it read.                               *)
LEMMA DeleteFollows ==
    ASSUME LoneDeletions, TypeInv, InOrder, HandlesInv, NEW r \in Requests, DeleteAccount(r), ~DropHandle(r)
    PROVE  /\ NamesStay /\ AccountsNamed /\ DroppingStays(r) /\ Names(r)' /\ Kept(r)'
           /\ plans' = plans /\ handles' = handles
<1> USE DEF EntryPcs, AfterPlans, DropPcs, Goto
<1> DEFINE a == call[r].account
<1>0. /\ a \in AccountIds /\ mem[r] \in Memory /\ pc \in [Requests -> Pcs] /\ mem \in [Requests -> Memory]
      /\ accounts \in [AccountIds -> Account \cup {Absent}] /\ accounts[a] \in Account \cup {Absent}
      /\ StageOf(r) /\ Kept(r) /\ Names(r) /\ NoRows \in Rosters /\ members \in [AccountIds -> Rosters]
  BY CallType DEF TypeInv, TypeOK, StageOK, HandlesInv, NoRows, Rosters
<1>1. plans' = plans /\ handles' = handles /\ call' = call
  BY DEF DeleteAccount, AccountRead, ListRoster, ReadRoster, DropRow, DropAccount, DeleteRow,
         DeleteIndex, stores
<1>2. pc[r] \in AfterPlans /\ pc'[r] \in AfterPlans \cup {"400", "200", "erase_read"}
  BY <1>0 DEF DeleteAccount, AccountRead, ListRoster, ReadRoster, DropRow, DropAccount, DeleteRow, DeleteIndex
<1>3. mem'[r].kept = mem[r].kept /\ (~AccountRead(r) => mem'[r].rec = mem[r].rec)
  <2>1. CASE AccountRead(r)
    BY <1>0, <2>1, MemoryRec DEF AccountRead, Holds, Holding
  <2>2. CASE ListRoster(r, "drop_list", "drop_row", a)
    <3>1. Rows(a) \in Listing
      BY DEF Rows, Listing
    <3> DEFINE m == [mem[r] EXCEPT !.todo = Rows(a), !.roster = NoRows]
    <3>2. Holding(m, Rows(a), mem[r].at, mem[r].rec, mem[r].inv, mem[r].plan, mem[r].kept)
      BY <1>0, <3>1, MemoryTodoRosterNew
    <3>3. mem' = [mem EXCEPT ![r] = m]
      BY <2>2 DEF ListRoster, Holds
    <3> HIDE DEF m
    <3> QED
      BY <1>0, <3>2, <3>3 DEF Holding
  <2>3. CASE ReadRoster(r, "drop_row", a)
    <3>1. PICK k \in mem[r].todo :
            /\ pc[r] = "drop_row"
            /\ Holds(r, [mem[r] EXCEPT !.todo = @ \ {k}, !.roster[k] = members[a][k]])
      BY <2>3 DEF ReadRoster
    <3>2. k \in Keys /\ mem[r].todo \ {k} \in Listing
      BY <1>0, <3>1, MemoryType DEF StageOf, Stage, RosterPcs, Listing
    <3>3. members[a][k] \in Roles \cup {Absent}
      BY <1>0, <3>2 DEF Rosters
    <3> DEFINE m == [mem[r] EXCEPT !.todo = mem[r].todo \ {k}, !.roster[k] = members[a][k]]
    <3>4. Holding(m, mem[r].todo \ {k}, mem[r].at, mem[r].rec, mem[r].inv, mem[r].plan, mem[r].kept)
      BY <1>0, <3>2, <3>3, MemoryTodoRoster
    <3>5. mem' = [mem EXCEPT ![r] = m]
      BY <3>1 DEF Holds
    <3> HIDE DEF m
    <3> QED
      BY <1>0, <3>4, <3>5 DEF Holding
  <2>4. CASE DropRow(r)
    <3>1. PICK k \in Listed(r) : Holds(r, [mem[r] EXCEPT !.roster[k] = Absent, !.at = k])
      BY <2>4 DEF DropRow
    <3>2. k \in Keys
      BY DEF Listed
    <3> DEFINE m == [mem[r] EXCEPT !.roster[k] = Absent, !.at = k]
    <3>3. Holding(m, mem[r].todo, k, mem[r].rec, mem[r].inv, mem[r].plan, mem[r].kept)
      BY <1>0, <3>2, MemoryRosterAt
    <3>4. mem' = [mem EXCEPT ![r] = m]
      BY <3>1 DEF Holds
    <3> HIDE DEF m
    <3> QED
      BY <1>0, <3>3, <3>4 DEF Holding
  <2>5. CASE DeleteIndex(r, "drop_index", "drop_row", a, mem[r].at) \/ DropAccount(r)
    BY <2>5 DEF DeleteIndex, DropAccount
  <2> QED
    BY <2>1, <2>2, <2>3, <2>4, <2>5 DEF DeleteAccount
<1>4. Kept(r)'
  BY <1>0, <1>1, <1>2, <1>3 DEF Kept, Keeping
<1>5. Names(r)'
  <2>1. CASE AccountRead(r)
    <3>1. pc[r] = "account_read" /\ pc'[r] \in {"400", "drop_list"}
          /\ (pc'[r] = "drop_list" => accounts[a] # Absent)
      BY <1>0, <2>1 DEF AccountRead
    <3>2. mem'[r].rec = accounts[a]
      BY <1>0, <2>1, MemoryRec DEF AccountRead, Holds, Holding
    <3>3. OnAccount(call[r])
      BY <1>0, <3>1 DEF StageOf, Stage, DestroyPcs, OnAccount
    <3>4. accounts[a] # Absent /\ accounts[a].handle # Absent => BoundTo(accounts[a].handle, a)
      BY <3>1, <3>3, ReadName DEF Answers, Dropping
    <3> QED
      BY <1>1, <3>1, <3>2, <3>4 DEF Names, BoundTo, ClaimPcs
  <2>2. CASE ~AccountRead(r)
    <3>1. pc'[r] \notin {"200", "erase_read"} => pc[r] \in DropPcs \ {"drop_account"}
      BY <1>0, <2>2 DEF DeleteAccount, ListRoster, ReadRoster, DropRow, DropAccount, DeleteRow, DeleteIndex
    <3> QED
      BY <1>0, <1>1, <1>2, <1>3, <2>2, <3>1 DEF Names, BoundTo, ClaimPcs
  <2> QED
    BY <2>1, <2>2
<1>6. AccountsNamed /\ DroppingStays(r)
  <2>1. CASE DropAccount(r)
    <3>1. accounts' = [accounts EXCEPT ![a] = Absent]
      BY <2>1 DEF DropAccount
    <3> QED
      BY <1>0, <3>1 DEF AccountsNamed, DroppingStays
  <2>2. CASE ~DropAccount(r)
    <3>1. accounts' = accounts /\ (pc[r] \in Dropping => pc'[r] \in Dropping)
      BY <1>0, <2>2 DEF DeleteAccount, AccountRead, ListRoster, ReadRoster, DropRow, DeleteRow, DeleteIndex,
             stores, Dropping
    <3> QED
      BY <3>1 DEF AccountsNamed, DroppingStays
  <2> QED
    BY <2>1, <2>2
<1>7. NamesStay
  BY <1>1 DEF NamesStay, BoundTo
<1> QED
  BY <1>1, <1>4, <1>5, <1>6, <1>7

(* The name of a dropped account is retired or given back: it is nobody     *)
(* else's, and if it is given back there is nothing left under it.          *)
LEMMA DropFollows ==
    ASSUME LoneDeletions, TypeInv, TypeInv', InOrder, HandlesInv, NEW r \in Requests, DropHandle(r)
    PROVE  /\ HandlesInv' /\ plans' = plans
           /\ \E h \in HandleNames : \E a \in AccountIds :
                /\ BoundTo(h, a)
                /\ \A g \in HandleNames \ {h} : Bound(g)' = Bound(g)
                /\ Bound(h)' = a \/ (Bound(h)' = Absent /\ ~Held(a))
<1> USE DEF EntryPcs, AfterPlans, DropPcs, Goto
<1> DEFINE a == call[r].account
           h == mem[r].rec.handle
           rec == [account |-> a, tombstone |-> TRUE, redirectsTo |-> Absent]
<1>0. /\ a \in AccountIds /\ mem[r] \in Memory /\ pc \in [Requests -> Pcs]
      /\ handles \in [HandleNames -> HandleRec \cup {Absent}] /\ plans' = plans /\ accounts' = accounts
      /\ StageOf(r) /\ Kept(r) /\ Names(r) /\ call' = call /\ mem' = mem
      /\ pc[r] = "drop_row" /\ pc'[r] = "drop_account" /\ h # Absent
      /\ handles' = [handles EXCEPT ![h] = IF mem[r].kept THEN rec ELSE Absent]
  BY CallType DEF TypeInv, TypeOK, StageOK, HandlesInv, DropHandle
<1>1. h \in HandleNames /\ call[r].op = "destroy"
  BY <1>0 DEF StageOf, Stage, DestroyPcs, Account
<1>2. BoundTo(h, a)
  BY <1>0 DEF Names
<1>3. rec # Absent /\ rec.account = a
  <2>1. rec \in HandleRec
    BY <1>0 DEF HandleRec
  <2>2. Absent \notin HandleRec
    BY AccountsAssumption
  <2> QED
    BY <2>1, <2>2
<1>4. \A q \in Requests \ {r} : Undisturbed(q)
  BY StepFrame DEF Step, Destroy, DeleteAccount
<1> HIDE DEF rec
<1>5. ASSUME NEW g \in HandleNames, NEW b \in AccountIds, BoundTo(g, b), b # a
      PROVE  BoundTo(g, b)'
  BY <1>0, <1>2, <1>5 DEF BoundTo
<1>6. ASSUME NEW b \in AccountIds, accounts'[b] # Absent, accounts'[b].handle # Absent, ~Destroying(b)'
      PROVE  BoundTo(accounts[b].handle, b)'
  <2>1. b # a
    BY <1>0, <1>1, <1>6 DEF Destroying, Is
  <2>2. ~Destroying(b)
    BY <1>0, <1>4, <1>6, <2>1 DEF Destroying, Is, Undisturbed
  <2>3. BoundTo(accounts[b].handle, b) /\ accounts[b].handle \in HandleNames
    BY <1>0, <1>6, <2>2 DEF HandlesInv, HandleIsOwn, BoundTo, TypeInv, TypeOK, Account
  <2>4. \A g \in HandleNames : BoundTo(g, b) => handles'[g] # Absent /\ handles'[g].account = b
    BY <1>5, <2>1 DEF BoundTo
  <2> QED
    BY <1>0, <2>3, <2>4 DEF BoundTo
<1>7. HandleIsOwn'
  BY <1>6 DEF HandleIsOwn, BoundTo
<1>8. ASSUME NEW q \in Requests
      PROVE  Names(q)' /\ Kept(q)'
  <2>1. CASE q = r
    BY <1>0, <2>1 DEF Names, Kept, Keeping, ClaimPcs
  <2>2. CASE q # r
    <3>1. Kept(q)'
      BY <1>0, <1>4, <2>2, KeptByOthers
    <3>2. /\ call[q].account \in AccountIds /\ call[q].handle \in HandleNames \cup {Absent} /\ StageOf(q)
          /\ Names(q)
      BY CallType DEF TypeInv, TypeOK, StageOK, HandlesInv
    <3>3. CASE call[q].account = a
      <4>1. OnAccount(call[q]) => pc[q] \in Answers \cup {"send"}
        BY <1>0, <1>1, <2>2, <3>3, DeletesAlone DEF Answers
      <4>2. pc[q] \notin {"create_account", "upgrade_write", "retire", "rename_write"} \cup ClaimPcs \cup DropPcs
        BY <3>2, <4>1 DEF StageOf, Stage, OnAccount, ClaimPcs, DestroyPcs, Answers
      <4> QED
        BY <1>4, <2>2, <3>1, <4>2 DEF Names, Undisturbed
    <3>4. CASE call[q].account # a
      <4>1. \A g \in HandleNames : BoundTo(g, call[q].account) => BoundTo(g, call[q].account)'
        BY <1>0, <1>5, <3>2, <3>4
      <4>2. (\/ pc[q] \in ClaimPcs /\ call[q].op # "create"
             \/ pc[q] \in {"upgrade_write", "retire", "rename_write"} \cup (DropPcs \ {"drop_account"}))
            => mem[q].rec.handle \in HandleNames \cup {Absent}
        BY <3>2 DEF StageOf, Stage, Account, ClaimPcs
      <4>3. Undisturbed(q)
        BY <1>4, <2>2
      <4> QED
        BY <1>0, <3>1, <3>2, <4>1, <4>2, <4>3 DEF Names, Undisturbed, BoundTo, ClaimPcs
    <3> QED
      BY <3>3, <3>4
  <2> QED
    BY <2>1, <2>2
<1>9. \A g \in HandleNames \ {h} : Bound(g)' = Bound(g)
  BY <1>0 DEF Bound
<1>10. \/ handles'[h] # Absent /\ handles'[h].account = a
       \/ handles'[h] = Absent /\ ~Held(a)
  <2>1. CASE mem[r].kept
    BY <1>0, <1>1, <1>3, <2>1
  <2>2. CASE ~mem[r].kept
    <3>1. ~Held(a)
      BY <1>0, <2>2 DEF Kept, Keeping, Held
    <3> QED
      BY <1>0, <1>1, <2>2, <3>1
  <2> QED
    BY <2>1, <2>2
<1>11. \E g \in HandleNames : \E b \in AccountIds :
         /\ BoundTo(g, b)
         /\ \A i \in HandleNames \ {g} : Bound(i)' = Bound(i)
         /\ Bound(g)' = b \/ (Bound(g)' = Absent /\ ~Held(b))
  <2>1. PICK g \in HandleNames : g = h
    BY <1>1
  <2>2. PICK b \in AccountIds : b = a
    BY <1>0
  <2> HIDE DEF a, h
  <2>3. Bound(g)' = b \/ (Bound(g)' = Absent /\ ~Held(b))
    BY <1>10, <2>1, <2>2 DEF Bound
  <2> QED
    BY <1>2, <1>9, <2>1, <2>2, <2>3
<1> QED
  BY <1>0, <1>7, <1>8, <1>11 DEF HandlesInv

(* The strengthened invariant of the names, step and start.                 *)
LEMMA NextKeepsHandles ==
    ASSUME LoneDeletions
    PROVE  TypeInv /\ TypeInv' /\ InOrder /\ HandlesInv /\ [Next]_vars => HandlesInv'
<1> SUFFICES ASSUME TypeInv, TypeInv', InOrder, HandlesInv, [Next]_vars
             PROVE  HandlesInv'
  OBVIOUS
<1>1. CASE UNCHANGED vars
  BY <1>1 DEF vars, stores, HandlesInv, HandleIsOwn, Destroying, Is, Names, Kept, Keeping, BoundTo
<1>2. ASSUME NEW t \in Tokens, Lapse(t)
      PROVE  HandlesInv'
  BY <1>2 DEF Lapse, HandlesInv, HandleIsOwn, Destroying, Is, Names, Kept, Keeping, BoundTo
<1>3. ASSUME NEW r \in Requests, Step(r)
      PROVE  HandlesInv'
  <2>1. call' = call /\ \A q \in Requests \ {r} : Undisturbed(q)
    BY <1>3, StepFrame
  <2>2. plans' = plans => \A q \in Requests \ {r} : Kept(q)'
    BY <2>1, KeptByOthers
  <2>3. CASE Claim(r)
    BY <2>1, <2>2, <2>3, ClaimFollows, HandlesFollow
  <2>4. CASE Create(r) \/ Upgrade(r) \/ Rename(r)
    BY <2>1, <2>2, <2>4, WriteFollows, HandlesFollow
  <2>5. CASE DropOwnership(r)
    <3>1. /\ accounts' = accounts /\ handles' = handles /\ pc[r] \notin Dropping
          /\ Names(r)' /\ Kept(r)' /\ \A q \in Requests \ {r} : Kept(q)'
      BY <2>5, WalkFollows
    <3>2. NamesStay /\ AccountsNamed /\ DroppingStays(r)
      BY <3>1 DEF NamesStay, AccountsNamed, DroppingStays, BoundTo
    <3> QED
      BY <2>1, <3>1, <3>2, HandlesFollow
  <2>6. CASE DeleteAccount(r) /\ ~DropHandle(r)
    BY <2>1, <2>2, <2>6, DeleteFollows, HandlesFollow
  <2>7. CASE DropHandle(r)
    BY <2>7, DropFollows
  <2>8. CASE ~(Claim(r) \/ Create(r) \/ Upgrade(r) \/ Rename(r) \/ DropOwnership(r) \/ DeleteAccount(r))
    <3>1. /\ accounts' = accounts /\ handles' = handles /\ plans' = plans
          /\ pc[r] \notin Dropping /\ Names(r)' /\ Kept(r)'
      BY <1>3, <2>8, AwayFromNames
    <3>2. NamesStay /\ AccountsNamed /\ DroppingStays(r)
      BY <3>1 DEF NamesStay, AccountsNamed, DroppingStays, BoundTo
    <3> QED
      BY <2>1, <2>2, <3>1, <3>2, HandlesFollow
  <2> QED
    BY <2>3, <2>4, <2>5, <2>6, <2>7, <2>8
<1> QED
  BY <1>1, <1>2, <1>3 DEF Next, Done

LEMMA InitHandles == Init => HandlesInv /\ InOrder
<1> SUFFICES ASSUME Init
             PROVE  HandlesInv /\ InOrder
  OBVIOUS
<1>1. PICK s \in Starts : accounts = s.seed.accounts /\ handles = s.seed.handles
  BY DEF Init
<1>2. Consistent(s.seed)
  BY AccountsAssumption
<1>3. HandleIsOwn
  BY <1>1, <1>2 DEF Consistent, HandleIsOwn
<1>4. \A r \in Requests : pc[r] = "send"
  BY DEF Init
<1> QED
  BY <1>3, <1>4 DEF HandlesInv, InOrder, Names, Kept, EntryPcs, AfterPlans, DropPcs, ClaimPcs

(* The handle an account goes by leads to that account, at every point a    *)
(* claim, a rename or an upgrade can stop and whoever else wants the name,  *)
(* if nothing else writes an account while it is deleted.                   *)
THEOREM HandlesAreOwn ==
    ASSUME LoneDeletions
    PROVE  Spec => []HandleIsOwn
<1>1. HandlesInv => HandleIsOwn
  BY DEF HandlesInv
<1>2. TypeInv /\ TypeInv' /\ InOrder /\ HandlesInv /\ [Next]_vars => HandlesInv'
  BY NextKeepsHandles
<1> QED
  BY <1>1, <1>2, InitType, NextKeepsType, InitHandles, NextKeepsOrder, PTL DEF Spec

-----------------------------------------------------------------------------
(* The registry: claims and releases of names, and what is published.       *)
BoundNames == [h \in HandleNames |-> IF handles[h] = Absent THEN Absent ELSE handles[h].account]
Needed == {a \in AccountIds : Held(a)}

(* The registry sees a name by the account it leads to.                     *)
LEMMA SameNames ==
    ASSUME \A h \in HandleNames : Bound(h)' = Bound(h)
    PROVE  BoundNames' = BoundNames
BY DEF Bound, BoundNames

(* Every step of a request is a step of the registry, or none.              *)
LEMMA StepKeepsRegistry ==
    ASSUME LoneDeletions, TypeInv, TypeInv', InOrder, HandlesInv, NEW r \in Requests, Step(r)
    PROVE  [Registry!Next]_(Registry!vars)
<1> USE DEF Registry!Next, Registry!vars, Registry!Claim, Registry!Release, Registry!Publish
<1>1. plans' = plans => Needed' = Needed
  BY DEF Needed, Held
<1>2. CASE Claim(r)
  <2>1. plans' = plans
    BY <1>2, ClaimFollows
  <2>2. CASE handles' = handles
    BY <1>1, <2>1, <2>2 DEF BoundNames, Needed
  <2>3. CASE handles' # handles
    <3>1. PICK rec \in HandleRec : /\ handles[call[r].handle] = Absent /\ rec.account = call[r].account
                                   /\ handles' = [handles EXCEPT ![call[r].handle] = rec]
      BY <1>2, <2>3, ClaimFollows
    <3>2. call[r].handle \in HandleNames /\ call[r].account \in AccountIds
      <4>1. StageOf(r) /\ pc[r] \in ClaimPcs
        BY <1>2 DEF TypeInv, StageOK, Claim, ClaimHandle, ClaimCheck, Goto, ClaimPcs
      <4> QED
        BY <4>1, CallType DEF StageOf, Stage, TypeInv, TypeOK
    <3>3. rec # Absent /\ handles \in [HandleNames -> HandleRec \cup {Absent}]
      BY AccountsAssumption DEF TypeInv, TypeOK
    <3>4. /\ BoundNames[call[r].handle] = Absent
          /\ BoundNames' = [BoundNames EXCEPT ![call[r].handle] = call[r].account]
      BY <3>1, <3>2, <3>3 DEF BoundNames
    <3> QED
      BY <1>1, <2>1, <3>2, <3>4 DEF BoundNames, Needed
  <2> QED
    BY <2>2, <2>3
<1>3. CASE Create(r) \/ Upgrade(r) \/ Rename(r)
  <2>1. plans' = plans /\ \A h \in HandleNames : Bound(h)' = Bound(h)
    BY <1>3, WriteFollows
  <2>2. BoundNames' = BoundNames
    BY <2>1, SameNames
  <2> QED
    BY <1>1, <2>1, <2>2 DEF BoundNames, Needed
<1>4. CASE DropOwnership(r)
  <2>1. handles' = handles
    BY <1>4, WalkFollows
  <2>2. BoundNames' = BoundNames /\ Needed' \subseteq AccountIds
    BY <2>1 DEF BoundNames, Needed
  <2> QED
    BY <2>2 DEF BoundNames, Needed
<1>5. CASE DeleteAccount(r) /\ ~DropHandle(r)
  <2>1. handles' = handles /\ plans' = plans
    BY <1>5, DeleteFollows
  <2> QED
    BY <1>1, <2>1 DEF BoundNames, Needed
<1>6. CASE DropHandle(r)
  <2>1. PICK h \in HandleNames, a \in AccountIds :
          /\ BoundTo(h, a)
          /\ \A g \in HandleNames \ {h} : Bound(g)' = Bound(g)
          /\ Bound(h)' = a \/ (Bound(h)' = Absent /\ ~Held(a))
    BY <1>6, DropFollows
  <2>2. plans' = plans
    BY <1>6, DropFollows
  <2>3. Bound(h) = a /\ BoundNames[h] = a
    BY <2>1 DEF BoundTo, Bound, BoundNames
  <2>4. CASE Bound(h)' = a
    <3>1. BoundNames' = BoundNames
      BY <2>1, <2>3, <2>4, SameNames
    <3> QED
      BY <1>1, <2>2, <3>1 DEF BoundNames, Needed
  <2>5. CASE Bound(h)' = Absent /\ ~Held(a)
    <3>1. BoundNames' = [BoundNames EXCEPT ![h] = Absent]
      BY <2>1, <2>5 DEF BoundNames, Bound
    <3>2. a \notin Needed
      BY <2>5 DEF Needed
    <3> QED
      BY <1>1, <2>2, <2>3, <3>1, <3>2 DEF BoundNames, Needed
  <2> QED
    BY <2>1, <2>4, <2>5
<1>7. CASE ~(Claim(r) \/ Create(r) \/ Upgrade(r) \/ Rename(r) \/ DropOwnership(r) \/ DeleteAccount(r))
  <2>1. handles' = handles /\ plans' = plans
    BY <1>7, AwayFromNames
  <2> QED
    BY <1>1, <2>1 DEF BoundNames, Needed
<1> QED
  BY <1>2, <1>3, <1>4, <1>5, <1>6, <1>7

(* Claiming, renaming and deleting implement the registry: a name leads to  *)
(* one account, and goes to nobody else while something is published under  *)
(* it, if nothing else writes an account while it is deleted.               *)
THEOREM RegistryKept ==
    ASSUME LoneDeletions
    PROVE  Spec => KeepsRegistry
<1>1. Init /\ TypeInv => Registry!Init
  BY DEF Registry!Init, TypeInv, TypeOK, HandleRec
<1>2. TypeInv /\ TypeInv' /\ InOrder /\ HandlesInv /\ [Next]_vars => [Registry!Next]_(Registry!vars)
  <2> SUFFICES ASSUME TypeInv, TypeInv', InOrder, HandlesInv, [Next]_vars
               PROVE  [Registry!Next]_(Registry!vars)
    OBVIOUS
  <2>1. CASE \E r \in Requests : Step(r)
    BY <2>1, StepKeepsRegistry
  <2>2. CASE UNCHANGED vars \/ \E t \in Tokens : Lapse(t)
    <3>1. handles' = handles /\ plans' = plans
      BY <2>2 DEF vars, stores, Lapse
    <3> QED
      BY <3>1 DEF Registry!vars, Held
  <2> QED
    BY <2>1, <2>2 DEF Next, Done
<1>3. TypeInv /\ TypeInv' /\ InOrder /\ HandlesInv /\ [Next]_vars => HandlesInv'
  BY NextKeepsHandles
<1> QED
  BY <1>1, <1>2, <1>3, InitType, NextKeepsType, InitHandles, NextKeepsOrder, PTL
     DEF Spec, KeepsRegistry, Registry!Spec
-----------------------------------------------------------------------------
(* What a step may do to the rows of members: the four calls that write one,*)
(* and else rows only go.                                                   *)
LEMMA RowsChange ==
    ASSUME TypeInv, NEW r \in Requests, Step(r), NEW a \in AccountIds, NEW k \in Keys
    PROVE  \/ members'[a][k] = members[a][k]
           \/ members'[a][k] = Absent
           \/ PutRole(r) /\ call[r].account = a /\ call[r].target = k /\ k \in Users
           \/ CreateRow(r) /\ call[r].account = a /\ call[r].user = k
           \/ AcceptRow(r) /\ mem[r].inv.account = a /\ call[r].user = k
           \/ PutPending(r) /\ call[r].account = a /\ call[r].target = k /\ k \in Emails
<1> DEFINE Same == members' = members
           Gone == \E b \in AccountIds, j \in Keys \cup {Absent} : members' = [members EXCEPT ![b][j] = Absent]
           Put(b, j) == \E x \in Roles : members' = [members EXCEPT ![b][j] = x]
<1>0. /\ members \in [AccountIds -> Rosters] /\ StageOf(r)
      /\ call[r] \in Call /\ mem[r] \in Memory
  BY TypeParts DEF StoresOK
<1>1. Same => members'[a][k] = members[a][k]
  OBVIOUS
<1>2. Gone => members'[a][k] = members[a][k] \/ members'[a][k] = Absent
  <2> SUFFICES ASSUME NEW b \in AccountIds, NEW j \in Keys \cup {Absent},
                      members' = [members EXCEPT ![b][j] = Absent]
               PROVE  members'[a][k] = members[a][k] \/ members'[a][k] = Absent
    OBVIOUS
  <2> QED
    BY <1>0 DEF Rosters
<1>3. ASSUME NEW b, NEW j, Put(b, j)
      PROVE  members'[a][k] = members[a][k] \/ (a = b /\ k = j)
  BY <1>0, <1>3 DEF Rosters
<1>4. CASE Send(r)
  BY <1>1, <1>4 DEF Send, stores, people
<1>5. CASE MembershipsOf(r) \/ Mint(r)
  BY <1>1, <1>5 DEF MembershipsOf, ListIndex, ReadIndexed, RepairIndex, ListAllRows, ReadScanned, HealIndex,
              Mint, stores, people
<1>6. CASE ChangeRole(r)
  <2>1. CASE PutRole(r)
    <3>1. call[r].target \in Users
      BY <2>1 DEF PutRole, RoleVerdict
    <3>2. members' = [members EXCEPT ![call[r].account][call[r].target] = call[r].role]
      BY <2>1 DEF PutRole, PutRow
    <3>3. call[r].role \in Roles
      BY <1>0, CallType
    <3>4. Put(call[r].account, call[r].target)
      BY <3>2, <3>3
    <3> HIDE DEF Put
    <3> QED
      BY <2>1, <3>1, <3>4, <1>3
  <2>2. CASE ~PutRole(r)
    BY <1>1, <1>6, <2>2 DEF ChangeRole, ListRoster, ReadRoster, RefuseRole, PutIndex, stores, people
  <2> QED
    BY <2>1, <2>2
<1>7. CASE Remove(r)
  <2>1. CASE RemoveRow(r)
    BY <1>0, <1>2, <2>1, CallType DEF RemoveRow, DeleteRow
  <2>2. CASE ~RemoveRow(r)
    BY <1>1, <1>7, <2>2 DEF Remove, ListRoster, ReadRoster, RefuseRemove, DeleteIndex, stores, people
  <2> QED
    BY <2>1, <2>2
<1>8. CASE Withdraw(r)
  <2>1. CASE WithdrawRead(r)
    BY <1>1, <2>1 DEF WithdrawRead, stores, people
  <2>2. CASE ~WithdrawRead(r)
    BY <1>0, <1>2, <1>8, <2>2, CallType DEF Withdraw, DeleteRow
  <2> QED
    BY <2>1, <2>2
<1>9. CASE DoInvite(r)
  <2>1. CASE PutPending(r)
    <3>1. call[r].target \in Emails
      BY <1>0, <2>1 DEF PutPending, PutRow, Goto, StageOf, Stage, InvitePcs
    <3>2. members' = [members EXCEPT ![call[r].account][call[r].target] = call[r].role]
      BY <2>1 DEF PutPending, PutRow
    <3>3. call[r].role \in Roles
      BY <1>0, CallType
    <3>4. Put(call[r].account, call[r].target)
      BY <3>2, <3>3
    <3> HIDE DEF Put
    <3> QED
      BY <2>1, <3>1, <3>4, <1>3
  <2>2. CASE ~PutPending(r)
    BY <1>1, <1>9, <2>2 DEF DoInvite, InviteAccount, Sweep, SweepList, SweepDrop, SweepUnindex, CatchUpList,
       CatchUpRead, CatchUpDrop, CatchUpIndex, PutInvite, PutExpiry, SendMail, stores, people
  <2> QED
    BY <2>1, <2>2
<1>10. CASE Accept(r)
  <2>1. pc[r] \in LoadedPcs => mem[r].inv \in Invite
    BY <1>0 DEF StageOf, Stage
  <2>2. CASE AcceptRow(r)
    <3>1. mem[r].inv \in Invite
      BY <2>1, <2>2 DEF AcceptRow, PutRow, Goto, LoadedPcs
    <3>2. members' = [members EXCEPT ![mem[r].inv.account][call[r].user] = mem[r].inv.role]
      BY <2>2 DEF AcceptRow, PutRow
    <3>3. mem[r].inv.role \in Roles
      BY <3>1 DEF Invite
    <3>4. Put(mem[r].inv.account, call[r].user)
      BY <3>2, <3>3
    <3> HIDE DEF Put
    <3> QED
      BY <2>2, <3>4, <1>3
  <2>3. CASE AcceptPending(r)
    <3>1. mem[r].inv \in Invite
      BY <2>1, <2>3 DEF AcceptPending, DeleteRow, Goto, LoadedPcs
    <3>2. mem[r].inv.account \in AccountIds /\ mem[r].inv.email \in Keys
      BY <3>1 DEF Invite, Keys
    <3> QED
      BY <1>2, <2>3, <3>2 DEF AcceptPending, DeleteRow
  <2>4. CASE ~AcceptRow(r) /\ ~AcceptPending(r)
    BY <1>1, <1>10, <2>4 DEF Accept, LoadInvite, LoadAccount, LoadPending, Verify, AcceptIndex, AcceptMark,
       PutIndex, stores, people
  <2> QED
    BY <2>2, <2>3, <2>4
<1>11. CASE Backfill(r) \/ Claim(r) \/ Upgrade(r) \/ Rename(r)
  BY <1>1, <1>11 DEF Backfill, BackfillList, BackfillPut, BackfillReport, Claim, ClaimHandle, ClaimCheck,
     Upgrade, UpgradeCheck, UpgradeRead, UpgradeWrite, Rename, RenameRead, RenameRetire, RenameWrite,
     PutAccount, stores, people
<1>12. CASE Create(r)
  <2>1. CASE CreateRow(r)
    <3>1. members' = [members EXCEPT ![call[r].account][call[r].user] = "owner"]
      BY <2>1 DEF CreateRow, PutRow
    <3>2. Put(call[r].account, call[r].user)
      BY <3>1 DEF Roles
    <3> HIDE DEF Put
    <3> QED
      BY <2>1, <3>2, <1>3
  <2>2. CASE ~CreateRow(r)
    BY <1>1, <1>12, <2>2 DEF Create, CreateAccount, CreateIndex, PutAccount, PutIndex, stores, people
  <2> QED
    BY <2>1, <2>2
<1>13. CASE DestroyRead(r) \/ SoleOwnerships(r) \/ DropOwnership(r)
  BY <1>1, <1>13 DEF DestroyRead, SoleOwnerships, SoleBegin, SoleAccount, SoleJudge, SoleEnd, ListRoster,
     ReadRoster, DropOwnership, PlanList, PlanRecord, PlanMeta, PlanBlobs, PlanKey, PlanDisown, PlanRelease,
     PlanEnd, WritePlan, stores, people
<1>14. CASE DeleteAccount(r)
  <2>1. CASE DropRow(r)
    BY <1>0, <1>2, <2>1, CallType DEF DropRow, DeleteRow, Listed
  <2>2. CASE ~DropRow(r)
    BY <1>1, <1>14, <2>2 DEF DeleteAccount, AccountRead, ListRoster, ReadRoster, DeleteIndex, DropHandle,
       DropAccount, stores, people
  <2> QED
    BY <2>1, <2>2
<1>15. CASE Erase(r)
  <2>1. CASE ErasePending(r)
    <3>1. mem[r].todo \subseteq AccountIds /\ mem[r].at \in Keys \cup {Absent}
      BY <1>0, <2>1 DEF ErasePending, DeleteRow, Goto, StageOf, Stage, Keys
    <3> QED
      BY <1>2, <2>1, <3>1 DEF ErasePending, DeleteRow, Address
  <2>2. CASE ~ErasePending(r)
    BY <1>1, <1>15, <2>2 DEF Erase, EraseRead, EraseIndexList, EraseIndex, EraseInviteList, EraseInvite,
       ErasePendingList, EraseUser, stores, people
  <2> QED
    BY <2>1, <2>2
<1> QED
  BY <1>4, <1>5, <1>6, <1>7, <1>8, <1>9, <1>10, <1>11, <1>12, <1>13, <1>14, <1>15 DEF Step, Destroy
-----------------------------------------------------------------------------
(* Members who are removed.  A request that was not sent holds nothing, and *)
(* the calls of a removal, a withdrawal and a backfill are their own.       *)
RemovePcs == {"remove_list", "remove_row", "remove_index"}
WithdrawPcs == {"withdraw_read", "withdraw_row"}
BackfillPcs == {"backfill_list", "backfill"}

Placed(r) ==
    /\ pc[r] = "send" => mem[r] = [Blank EXCEPT !.cover = mem[r].cover]
    /\ pc[r] \in RemovePcs => Is(r, {"remove"})
    /\ pc[r] \in WithdrawPcs => Is(r, {"withdraw"})
    /\ pc[r] \in BackfillPcs => Is(r, {"backfill"})
    /\ pc[r] = "role_index" => Is(r, {"role"})

PlacedInv == \A r \in Requests : Placed(r)

LEMMA StepPlaces ==
    ASSUME TypeInv, PlacedInv, NEW r \in Requests, Step(r)
    PROVE  Placed(r)'
<1> DEFINE Own == RemovePcs \cup WithdrawPcs \cup BackfillPcs \cup {"role_index"}
<1> USE DEF RemovePcs, WithdrawPcs, BackfillPcs, Goto, Answers
<1>0. pc'[r] # "send" /\ call' = call /\ pc \in [Requests -> Pcs]
  BY StepFrame, TypeParts
<1>1. pc'[r] \notin Own => Placed(r)'
  BY <1>0 DEF Placed
<1>2. Placed(r)
  BY DEF PlacedInv
<1>3. CASE Send(r)
  <2>1. call[r].op \in Ops
    BY TypeParts, CallType
  <2> QED
    BY <1>0, <1>3, <2>1 DEF Send, FirstOf, First, Is, Placed, Ops
<1>4. CASE MembershipsOf(r) \/ Mint(r)
  BY <1>0, <1>1, <1>4 DEF MembershipsOf, ListIndex, ReadIndexed, RepairIndex, ListAllRows, ReadScanned,
     HealIndex, Mint, HasMemberships
<1>5. CASE ChangeRole(r)
  <2>1. CASE PutRole(r)
    <3>1. pc[r] \in RolePcs /\ pc'[r] = "role_index"
      BY <1>0, <2>1 DEF PutRole, PutRow, RolePcs
    <3>2. Is(r, {"role"})
      BY <3>1, TypeParts DEF StageOf, Stage, Is
    <3> QED
      BY <1>0, <3>1, <3>2 DEF Placed, Is
  <2>2. CASE ~PutRole(r)
    BY <1>0, <1>1, <1>5, <2>2 DEF ChangeRole, RefuseRole, RoleVerdict, ListRoster, ReadRoster, PutIndex
  <2> QED
    BY <2>1, <2>2
<1>6. CASE Remove(r)
  BY <1>0, <1>2, <1>6 DEF Remove, RemoveRow, RefuseRemove, RemoveVerdict, ListRoster, ReadRoster, DeleteRow,
     DeleteIndex, Placed, Is
<1>7. CASE Withdraw(r)
  BY <1>0, <1>2, <1>7 DEF Withdraw, WithdrawRead, DeleteRow, Placed, Is
<1>8. CASE DoInvite(r)
  BY <1>0, <1>1, <1>8 DEF DoInvite, InviteAccount, Sweep, SweepList, SweepDrop, SweepUnindex, CatchUpList,
     CatchUpRead, CatchUpDrop, CatchUpIndex, PutInvite, PutExpiry, PutPending, SendMail, PutRow
<1>9. CASE Accept(r)
  BY <1>0, <1>1, <1>9 DEF Accept, LoadInvite, LoadAccount, LoadPending, Verify, AcceptRow, AcceptIndex,
     AcceptPending, AcceptMark, PutRow, PutIndex, DeleteRow
<1>10. CASE Backfill(r)
  BY <1>0, <1>2, <1>10 DEF Backfill, BackfillList, BackfillPut, BackfillReport, Placed, Is
<1>11. CASE Claim(r)
  <2>1. pc[r] \in ClaimPcs /\ StageOf(r)
    BY <1>11, TypeParts DEF Claim, ClaimHandle, ClaimCheck, ClaimPcs
  <2>2. Claimed(r) \notin Own
    BY <2>1 DEF Claimed, Is, StageOf, Stage
  <2> QED
    BY <1>0, <1>1, <1>11, <2>2 DEF Claim, ClaimHandle, ClaimCheck
<1>12. CASE Create(r) \/ Upgrade(r) \/ Rename(r)
  BY <1>0, <1>1, <1>12 DEF Create, CreateAccount, CreateRow, CreateIndex, Upgrade, UpgradeCheck, UpgradeRead,
     UpgradeWrite, Rename, RenameRead, RenameRetire, RenameWrite, PutAccount, PutRow, PutIndex
<1>13. CASE DestroyRead(r) \/ SoleOwnerships(r)
  BY <1>0, <1>1, <1>13 DEF DestroyRead, SoleOwnerships, SoleBegin, SoleAccount, SoleJudge, SoleEnd, ListRoster,
     ReadRoster, HasMemberships
<1>14. CASE DropOwnership(r)
  BY <1>0, <1>1, <1>14 DEF DropOwnership, PlanList, PlanRecord, PlanMeta, PlanBlobs, PlanKey, PlanDisown,
     PlanRelease, PlanEnd, WritePlan
<1>15. CASE DeleteAccount(r)
  BY <1>0, <1>1, <1>15 DEF DeleteAccount, AccountRead, ListRoster, ReadRoster, DropRow, DropHandle, DropAccount,
     DeleteRow, DeleteIndex
<1>16. CASE Erase(r)
  BY <1>0, <1>1, <1>16 DEF Erase, EraseRead, EraseIndexList, EraseIndex, EraseInviteList, EraseInvite,
     ErasePendingList, ErasePending, EraseUser, DeleteRow
<1> QED
  BY <1>3, <1>4, <1>5, <1>6, <1>7, <1>8, <1>9, <1>10, <1>11, <1>12, <1>13, <1>14, <1>15, <1>16
     DEF Step, Destroy

LEMMA NextSteps ==
    ASSUME [Next]_vars
    PROVE  \/ \E r \in Requests : Step(r)
           \/ UNCHANGED vars
           \/ \E t \in Tokens : Lapse(t)
BY DEF Next, Done

LEMMA PlacedNext == TypeInv /\ PlacedInv /\ [Next]_vars => PlacedInv'
<1> SUFFICES ASSUME TypeInv, PlacedInv, [Next]_vars
             PROVE  PlacedInv'
  OBVIOUS
<1>1. CASE UNCHANGED vars
  BY <1>1 DEF vars, PlacedInv, Placed, Is
<1>2. ASSUME NEW t \in Tokens, Lapse(t)
      PROVE  PlacedInv'
  BY <1>2 DEF Lapse, PlacedInv, Placed, Is
<1>3. ASSUME NEW r \in Requests, Step(r)
      PROVE  PlacedInv'
  <2>1. ASSUME NEW q \in Requests
        PROVE  Placed(q)'
    <3>1. CASE q = r
      BY <1>3, <3>1, StepPlaces
    <3>2. CASE q # r
      BY <1>3, <3>2, StepFrame DEF PlacedInv, Placed, Is, Undisturbed
    <3> QED
      BY <3>1, <3>2
  <2> QED
    BY <2>1 DEF PlacedInv
<1> QED
  BY <1>1, <1>2, <1>3, NextSteps

LEMMA PlacedInit == Init => PlacedInv
<1> SUFFICES ASSUME Init, NEW r \in Requests
             PROVE  Placed(r)
  BY DEF PlacedInv
<1>1. mem[r] = [Blank EXCEPT !.cover = CoverageOf(call[r].user)] /\ pc[r] = "send"
  BY DEF Init
<1>2. mem[r].cover = CoverageOf(call[r].user)
  BY <1>1 DEF Blank
<1> QED
  BY <1>1, <1>2 DEF Placed, RemovePcs, WithdrawPcs, BackfillPcs

LEMMA OrderInvariant == Spec => [](TypeInv /\ InOrder /\ PlacedInv)
<1>1. Init => InOrder
  BY DEF Init, InOrder
<1> QED
  BY <1>1, InitType, NextKeepsType, NextKeepsOrder, PlacedInit, PlacedNext, PTL DEF Spec

(* Each handler makes its own calls only.                                   *)
LEMMA StepOfHandler ==
    ASSUME TypeInv, PlacedInv, NEW r \in Requests, Step(r)
    PROVE  \/ Send(r)
           \/ Is(r, {"mint", "destroy"}) /\ MembershipsOf(r)
           \/ Is(r, {"mint"}) /\ Mint(r)
           \/ Is(r, {"role"}) /\ ChangeRole(r)
           \/ Is(r, {"remove"}) /\ Remove(r)
           \/ Is(r, {"withdraw"}) /\ Withdraw(r)
           \/ Is(r, {"invite"}) /\ DoInvite(r)
           \/ Is(r, {"accept"}) /\ Accept(r)
           \/ Is(r, {"backfill"}) /\ Backfill(r)
           \/ Is(r, {"create", "upgrade", "rename"}) /\ (Claim(r) \/ Create(r) \/ Upgrade(r) \/ Rename(r))
           \/ Is(r, {"destroy"}) /\ Destroy(r)
<1> USE DEF Goto, Is
<1>0. StageOf(r) /\ Placed(r)
  BY TypeParts DEF PlacedInv
<1>1. MembershipsOf(r) => Is(r, {"mint", "destroy"})
  <2>1. MembershipsOf(r) => pc[r] \in IndexPcs \cup {"index_list", "scan_list"}
    BY DEF MembershipsOf, ListIndex, ReadIndexed, RepairIndex, ListAllRows, ReadScanned, HealIndex, IndexPcs
  <2>2. pc[r] \in IndexPcs \cup {"index_list", "scan_list"} => call[r].op \in {"mint", "destroy"}
    BY <1>0, Zenon DEF StageOf, Stage
  <2> QED
    BY <2>1, <2>2
<1>2. ChangeRole(r) => Is(r, {"role"})
  BY <1>0 DEF ChangeRole, ListRoster, ReadRoster, PutRole, RefuseRole, PutRow, PutIndex, StageOf, Stage, RolePcs,
     Placed
<1>3. Remove(r) => Is(r, {"remove"})
  BY <1>0 DEF Remove, ListRoster, ReadRoster, RemoveRow, RefuseRemove, DeleteRow, DeleteIndex, Placed, RemovePcs
<1>4. Withdraw(r) => Is(r, {"withdraw"})
  BY <1>0 DEF Withdraw, WithdrawRead, DeleteRow, Placed, WithdrawPcs
<1>5. DoInvite(r) => Is(r, {"invite"})
  BY <1>0 DEF DoInvite, InviteAccount, Sweep, SweepList, SweepDrop, SweepUnindex, CatchUpList,
     CatchUpRead, CatchUpDrop, CatchUpIndex, PutInvite, PutExpiry, PutPending, SendMail, PutRow, StageOf, Stage,
     InvitePcs, SweepPcs
<1>6. Accept(r) => Is(r, {"accept"})
  BY <1>0 DEF Accept, LoadInvite, LoadAccount, LoadPending, Verify, AcceptRow, AcceptIndex,
     AcceptPending, AcceptMark, PutRow, PutIndex, DeleteRow, StageOf, Stage, LoadedPcs
<1>7. Backfill(r) => Is(r, {"backfill"})
  BY <1>0 DEF Backfill, BackfillList, BackfillPut, BackfillReport, Placed, BackfillPcs
<1>8. Claim(r) \/ Create(r) \/ Upgrade(r) \/ Rename(r) => Is(r, {"create", "upgrade", "rename"})
  BY <1>0 DEF Claim, ClaimHandle, ClaimCheck, Create, CreateAccount, CreateRow, CreateIndex, Upgrade,
     UpgradeCheck, UpgradeRead, UpgradeWrite, Rename, RenameRead, RenameRetire, RenameWrite, PutAccount, PutRow,
     PutIndex, StageOf, Stage, ClaimPcs
<1>9. DestroyRead(r) \/ SoleOwnerships(r) => Is(r, {"destroy"})
  BY <1>0 DEF DestroyRead, SoleOwnerships, SoleBegin, SoleAccount, SoleJudge, SoleEnd, ListRoster,
     ReadRoster, StageOf, Stage, DestroyPcs, SolePcs
<1>10. DropOwnership(r) => Is(r, {"destroy"})
  BY <1>0 DEF DropOwnership, PlanList, PlanRecord, PlanMeta, PlanBlobs, PlanKey, PlanDisown,
     PlanRelease, PlanEnd, StageOf, Stage, DestroyPcs, EntryPcs
<1>11. DeleteAccount(r) => Is(r, {"destroy"})
  BY <1>0 DEF DeleteAccount, AccountRead, ListRoster, ReadRoster, DropRow, DropHandle, DropAccount, DeleteRow,
     DeleteIndex, StageOf, Stage, DestroyPcs, DropPcs
<1>12. Erase(r) => Is(r, {"destroy"})
  BY <1>0 DEF Erase, EraseRead, EraseIndexList, EraseIndex, EraseInviteList, EraseInvite,
     ErasePendingList, ErasePending, EraseUser, DeleteRow, StageOf, Stage, DestroyPcs, ErasePcs
<1>13. Mint(r) => Is(r, {"mint"})
  BY DEF Mint
<1> QED
  BY <1>1, <1>2, <1>3, <1>4, <1>5, <1>6, <1>7, <1>8, <1>9, <1>10, <1>11, <1>12, <1>13 DEF Step, Destroy

(* Accounts go when they are deleted, and come when they are founded or     *)
(* written back.                                                            *)
LEMMA AccountsChange ==
    ASSUME TypeInv, PlacedInv, NEW r \in Requests, Step(r), NEW a \in AccountIds
    PROVE  \/ accounts'[a] = accounts[a]
           \/ accounts'[a] = Absent /\ DropAccount(r) /\ Is(r, {"destroy"}) /\ call[r].account = a
           \/ accounts'[a] # Absent /\ call[r].account = a
                /\ (CreateAccount(r) \/ UpgradeWrite(r) \/ RenameWrite(r))
<1> DEFINE Same == accounts' = accounts
           Put == \E x, y, rec : rec \in Account /\ PutAccount(r, x, y, rec)
<1>0. /\ accounts \in [AccountIds -> Account \cup {Absent}] /\ StageOf(r) /\ call[r] \in Call
  BY TypeParts DEF StoresOK
<1>1. Same => accounts'[a] = accounts[a]
  OBVIOUS
<1>2. Put => accounts'[a] = accounts[a] \/ (accounts'[a] # Absent /\ call[r].account = a)
  BY <1>0, AccountsAssumption DEF PutAccount
<1>3. CASE Send(r) \/ MembershipsOf(r) \/ Mint(r) \/ ChangeRole(r) \/ Remove(r) \/ Withdraw(r)
  BY <1>1, <1>3 DEF Send, MembershipsOf, ListIndex, ReadIndexed, RepairIndex, ListAllRows, ReadScanned, HealIndex,
     Mint, ChangeRole, PutRole, RefuseRole, Remove, RemoveRow, RefuseRemove, Withdraw, WithdrawRead,
     ListRoster, ReadRoster, PutRow, PutIndex, DeleteRow, DeleteIndex, stores, people
<1>4. CASE DoInvite(r)
  BY <1>1, <1>4 DEF DoInvite, InviteAccount, Sweep, SweepList, SweepDrop, SweepUnindex, CatchUpList,
     CatchUpRead, CatchUpDrop, CatchUpIndex, PutInvite, PutExpiry, PutPending, SendMail, PutRow, stores
<1>5. CASE Accept(r) \/ Backfill(r) \/ Claim(r)
  BY <1>1, <1>5 DEF Accept, LoadInvite, LoadAccount, LoadPending, Verify, AcceptRow, AcceptIndex, AcceptPending,
     AcceptMark, PutRow, PutIndex, DeleteRow, Backfill, BackfillList, BackfillPut, BackfillReport, Claim,
     ClaimHandle, ClaimCheck, stores
<1>6. CASE Create(r) \/ Upgrade(r) \/ Rename(r)
  <2>1. CASE CreateAccount(r)
    <3>1. [type |-> "organization", handle |-> call[r].handle] \in Account
      BY <1>0, CallType DEF Account
    <3>2. Put
      BY <2>1, <3>1 DEF CreateAccount
    <3> HIDE DEF Put
    <3> QED
      BY <1>2, <2>1, <3>2
  <2>2. CASE UpgradeWrite(r)
    <3>1. mem[r].rec \in Account
      BY <1>0, <2>2 DEF UpgradeWrite, PutAccount, Goto, StageOf, Stage
    <3>2. [type |-> "organization",
           handle |-> IF call[r].handle = Absent THEN mem[r].rec.handle ELSE call[r].handle] \in Account
      BY <1>0, <3>1, CallType DEF Account
    <3>3. Put
      BY <2>2, <3>2 DEF UpgradeWrite
    <3> HIDE DEF Put
    <3> QED
      BY <1>2, <2>2, <3>3
  <2>3. CASE RenameWrite(r)
    <3>1. mem[r].rec \in Account
      BY <1>0, <2>3 DEF RenameWrite, PutAccount, Goto, StageOf, Stage
    <3>2. [mem[r].rec EXCEPT !.handle = call[r].handle] \in Account
      BY <1>0, <3>1, CallType DEF Account
    <3>3. Put
      BY <2>3, <3>2 DEF RenameWrite
    <3> HIDE DEF Put
    <3> QED
      BY <1>2, <2>3, <3>3
  <2>4. CASE ~CreateAccount(r) /\ ~UpgradeWrite(r) /\ ~RenameWrite(r)
    BY <1>1, <1>6, <2>4 DEF Create, CreateRow, CreateIndex, PutRow, PutIndex, Upgrade, UpgradeCheck, UpgradeRead,
       Rename, RenameRead, RenameRetire, stores
  <2> QED
    BY <2>1, <2>2, <2>3, <2>4
<1>7. CASE DestroyRead(r) \/ SoleOwnerships(r) \/ DropOwnership(r) \/ Erase(r)
  BY <1>1, <1>7 DEF DestroyRead, SoleOwnerships, SoleBegin, SoleAccount, SoleJudge, SoleEnd, ListRoster,
     ReadRoster, DropOwnership, PlanList, PlanRecord, PlanMeta, PlanBlobs, PlanKey, PlanDisown, PlanRelease,
     PlanEnd, WritePlan, Erase, EraseRead, EraseIndexList, EraseIndex, EraseInviteList, EraseInvite,
     ErasePendingList, ErasePending, EraseUser, DeleteRow, stores
<1>8. CASE Is(r, {"destroy"}) /\ DeleteAccount(r)
  <2>1. CASE DropAccount(r)
    <3>1. accounts' = [accounts EXCEPT ![call[r].account] = Absent]
      BY <2>1 DEF DropAccount
    <3> QED
      BY <1>0, <1>8, <2>1, <3>1
  <2>2. CASE ~DropAccount(r)
    BY <1>1, <1>8, <2>2 DEF DeleteAccount, AccountRead, ListRoster, ReadRoster, DropRow, DeleteRow, DeleteIndex,
       DropHandle, stores
  <2> QED
    BY <2>1, <2>2
<1> QED
  BY <1>3, <1>4, <1>5, <1>6, <1>7, <1>8, StepOfHandler DEF Destroy

(* What a mint has read of an account, it has read in the user's row.       *)
LEMMA MintReads ==
    ASSUME TypeInv, PlacedInv, NEW m \in Requests, Step(m), Is(m, {"mint"}), NEW a \in AccountIds
    PROVE  mem'[m].mine[a] \in {mem[m].mine[a], Absent, members[a][call[m].user]}
<1> USE DEF Holds
<1>0. /\ mem[m] \in Memory /\ mem[m].mine \in Claims /\ mem \in [Requests -> Memory] /\ StageOf(m)
  BY TypeParts, MemoryType DEF TypeInv, TypeOK
<1>1. Send(m) \/ MembershipsOf(m) \/ Mint(m)
  BY StepOfHandler DEF Is
<1>2. UNCHANGED mem => mem'[m].mine[a] = mem[m].mine[a]
  OBVIOUS
<1>3. CASE Send(m)
  BY <1>0, <1>3 DEF Send, Memory
<1>4. CASE Mint(m)
  BY <1>2, <1>4 DEF Mint
<1>5. CASE ListIndex(m)
  BY <1>0, <1>5 DEF ListIndex, Memory, NoClaims
<1>6. CASE ReadIndexed(m)
  <2>1. PICK b \in mem[m].todo :
          mem' = [mem EXCEPT ![m] = [mem[m] EXCEPT !.todo = @ \ {b}, !.mine[b] = members[b][call[m].user], !.at = b]]
    BY <1>6 DEF ReadIndexed, RowThroughIndex
  <2>2. mem'[m].mine = [mem[m].mine EXCEPT ![b] = members[b][call[m].user]]
    BY <1>0, <2>1 DEF Memory
  <2> QED
    BY <1>0, <2>2 DEF Claims
<1>7. CASE ReadScanned(m)
  <2>1. PICK b \in mem[m].todo :
          mem' = [mem EXCEPT ![m] = [mem[m] EXCEPT !.todo = @ \ {b}, !.mine[b] = members[b][call[m].user], !.at = b]]
    BY <1>7 DEF ReadScanned
  <2>2. mem'[m].mine = [mem[m].mine EXCEPT ![b] = members[b][call[m].user]]
    BY <1>0, <2>1 DEF Memory
  <2> QED
    BY <1>0, <2>2 DEF Claims
<1>8. CASE ListAllRows(m)
  BY <1>0, <1>8 DEF ListAllRows, Memory
<1>9. CASE RepairIndex(m) \/ HealIndex(m)
  BY <1>2, <1>9 DEF RepairIndex, HealIndex
<1> QED
  BY <1>1, <1>3, <1>4, <1>5, <1>6, <1>7, <1>8, <1>9 DEF MembershipsOf

(* No request writes the row of a member who was removed, so whoever mints  *)
(* a token after the removal finds none, in whatever way it looks.          *)
Removed(r) ==
    LET a == call[r].account
        u == call[r].target
    IN  Is(r, {"remove"}) /\ u \in Users /\ pc[r] \in {"remove_index", "204"}
          /\ (\A p \in Requests : ~Rewrites(p, a, u))
        => /\ members[a][u] = Absent
           /\ \A m \in Requests :
                Is(m, {"mint"}) /\ call[m].user = u /\ r \in call[m].after => mem[m].mine[a] = Absent

RemovedInv == \A r \in Requests : Removed(r)

LEMMA StepRemoves ==
    ASSUME TypeInv, InOrder, PlacedInv, RemovedInv, NEW p \in Requests, Step(p), NEW r \in Requests
    PROVE  Removed(r)'
<1> DEFINE a == call[r].account
           u == call[r].target
<1>0. call' = call /\ \A q \in Requests \ {p} : Undisturbed(q)
  BY StepFrame
<1> SUFFICES ASSUME Is(r, {"remove"}), u \in Users, pc'[r] \in {"remove_index", "204"},
                    \A q \in Requests : ~Rewrites(q, a, u)
             PROVE  /\ members'[a][u] = Absent
                    /\ \A m \in Requests :
                         Is(m, {"mint"}) /\ call[m].user = u /\ r \in call[m].after => mem'[m].mine[a] = Absent
  BY <1>0 DEF Removed, Is, Rewrites, Joins
<1>1. a \in AccountIds /\ u \in Keys /\ Removed(r) /\ members \in [AccountIds -> Rosters]
  BY TypeParts, CallType DEF Keys, RemovedInv, StoresOK
<1>2. members[a][u] = Absent => members'[a][u] = Absent
  <2>1. ~Rewrites(p, a, u) /\ u \notin Emails
    BY AccountsAssumption
  <2>2. PutRole(p) => Is(p, {"role"})
    <3>1. PutRole(p) => pc[p] \in RolePcs
      BY DEF PutRole, RolePcs
    <3> QED
      BY <3>1, TypeParts DEF StageOf, Stage, Is
  <2>3. CreateRow(p) => Is(p, {"create"})
    <3>1. CreateRow(p) => pc[p] = "create_row"
      BY DEF CreateRow, PutRow, Goto
    <3> QED
      BY <3>1, TypeParts DEF StageOf, Stage, Is
  <2>4. AcceptRow(p) => Is(p, {"accept"})
    <3>1. AcceptRow(p) => pc[p] \in LoadedPcs
      BY DEF AcceptRow, PutRow, Goto, LoadedPcs
    <3> QED
      BY <3>1, TypeParts DEF StageOf, Stage, Is
  <2> QED
    BY <1>1, <2>1, <2>2, <2>3, <2>4, RowsChange DEF Rewrites, Joins
<1>3. CASE pc[r] \in {"remove_index", "204"}
  <2>1. /\ members[a][u] = Absent
        /\ \A m \in Requests :
             Is(m, {"mint"}) /\ call[m].user = u /\ r \in call[m].after => mem[m].mine[a] = Absent
    BY <1>1, <1>3 DEF Removed
  <2>2. ASSUME NEW m \in Requests, Is(m, {"mint"}), call[m].user = u, r \in call[m].after
        PROVE  mem'[m].mine[a] = Absent
    <3>1. CASE m = p
      BY <1>1, <2>1, <2>2, <3>1, MintReads
    <3>2. CASE m # p
      BY <1>0, <2>1, <2>2, <3>2 DEF Undisturbed
    <3> QED
      BY <3>1, <3>2
  <2> QED
    BY <1>2, <2>1, <2>2
<1>4. CASE pc[r] \notin {"remove_index", "204"}
  <2>1. p = r
    BY <1>0, <1>4 DEF Undisturbed
  <2>2. RemoveRow(r)
    <3>1. call[r].op = "remove" /\ pc \in [Requests -> Pcs]
      BY TypeParts DEF Is
    <3>2. Send(r) \/ Remove(r)
      BY <2>1, <3>1, StepOfHandler DEF Is
    <3>3. Send(r) => pc'[r] \in {"remove_list", "403"}
      BY <3>1 DEF Send, Goto, FirstOf, First, Is
    <3>4. Remove(r) => RemoveRow(r) \/ pc[r] = "remove_index" \/ pc'[r] \in {"remove_row", "404", "409"}
      BY <3>1 DEF Remove, ListRoster, ReadRoster, RefuseRemove, RemoveVerdict, DeleteIndex, Goto
    <3> QED
      BY <1>4, <3>2, <3>3, <3>4
  <2>3. members' = [members EXCEPT ![a][u] = Absent] /\ pc[r] = "remove_row" /\ mem' = mem
    BY <2>2 DEF RemoveRow, DeleteRow, Goto
  <2>4. ASSUME NEW m \in Requests, r \in call[m].after
        PROVE  mem'[m].mine[a] = Absent
    <3>1. pc[m] = "send"
      BY <2>3, <2>4 DEF InOrder, Answers
    <3>2. mem[m] = [Blank EXCEPT !.cover = mem[m].cover]
      BY <3>1 DEF PlacedInv, Placed
    <3>3. mem[m].mine = NoClaims
      BY <3>2 DEF Blank
    <3> QED
      BY <1>1, <2>3, <3>3 DEF NoClaims
  <2> QED
    BY <1>1, <2>3, <2>4 DEF Rosters
<1> QED
  BY <1>3, <1>4

LEMMA RemovedNext ==
    TypeInv /\ InOrder /\ PlacedInv /\ RemovedInv /\ [Next]_vars => RemovedInv'
<1> SUFFICES ASSUME TypeInv, InOrder, PlacedInv, RemovedInv, [Next]_vars
             PROVE  RemovedInv'
  OBVIOUS
<1>1. CASE UNCHANGED vars
  BY <1>1 DEF vars, stores, people, RemovedInv, Removed, Is, Rewrites, Joins
<1>2. ASSUME NEW t \in Tokens, Lapse(t)
      PROVE  RemovedInv'
  BY <1>2 DEF Lapse, people, RemovedInv, Removed, Is, Rewrites, Joins
<1>3. ASSUME NEW p \in Requests, Step(p)
      PROVE  RemovedInv'
  BY <1>3, StepRemoves DEF RemovedInv
<1> QED
  BY <1>1, <1>2, <1>3, NextSteps

(* A token minted after a removal was answered does not claim the account,  *)
(* whatever the removal, other mints and the backfill did to the derived    *)
(* index: what a mint reads of an account is the user's row (identity.js).  *)
THEOREM RemovedLoseAccess == Spec => []RemovalTakesEffect
<1>1. Init => RemovedInv
  BY DEF Init, RemovedInv, Removed
<1>2. RemovedInv /\ TypeInv => RemovalTakesEffect
  <2> SUFFICES ASSUME RemovedInv, TypeInv
               PROVE  RemovalTakesEffect
    OBVIOUS
  <2>1. \A m \in Requests : call[m].user \in Users
    BY CallType DEF TypeInv, TypeOK
  <2> QED
    BY <2>1 DEF RemovalTakesEffect, RemovedInv, Removed
<1> QED
  BY <1>1, <1>2, OrderInvariant, RemovedNext, PTL DEF Spec
-----------------------------------------------------------------------------
(* The sweep of invitations.  They are stored by who sends one and by who   *)
(* accepts one; everybody else only deletes them.                           *)
LEMMA InvitesChange ==
    ASSUME TypeInv, NEW r \in Requests, Step(r), NEW t \in Tokens
    PROVE  \/ invites'[t] = invites[t]
           \/ invites'[t] = Absent
           \/ PutInvite(r) /\ t = call[r].token
           \/ AcceptMark(r) /\ t = call[r].token
<1> DEFINE Same == invites' = invites
           Set(i, x) == invites' = [invites EXCEPT ![i] = x]
<1>0. invites \in [Tokens -> Invite \cup {Absent}]
  BY TypeParts DEF StoresOK
<1>1. Same => invites'[t] = invites[t]
  OBVIOUS
<1>2. ASSUME NEW i, NEW x, Set(i, x)
      PROVE  invites'[t] = invites[t] \/ (i = t /\ invites'[t] = x)
  BY <1>0, <1>2
<1> USE DEF stores, letters
<1>4. CASE Send(r)
  BY <1>1, <1>4 DEF Send
<1>5. CASE MembershipsOf(r) \/ Mint(r)
  BY <1>1, <1>5 DEF MembershipsOf, ListIndex, ReadIndexed, RepairIndex, ListAllRows, ReadScanned, HealIndex, Mint
<1>6. CASE ChangeRole(r) \/ Remove(r) \/ Withdraw(r)
  BY <1>1, <1>6 DEF ChangeRole, PutRole, RefuseRole, Remove, RemoveRow, RefuseRemove, Withdraw, WithdrawRead,
     ListRoster, ReadRoster, PutRow, PutIndex, DeleteRow, DeleteIndex
<1>7. CASE DoInvite(r)
  <2>1. CASE PutInvite(r)
    <3>1. PICK x : Set(call[r].token, x)
      BY <2>1 DEF PutInvite
    <3> HIDE DEF Set
    <3> QED
      BY <2>1, <3>1, <1>2
  <2>2. CASE SweepDrop(r)
    <3>1. PICK i : Set(i, Absent)
      BY <2>2 DEF SweepDrop
    <3> HIDE DEF Set
    <3> QED
      BY <3>1, <1>2
  <2>3. CASE CatchUpDrop(r)
    <3>1. Set(mem[r].at, Absent)
      BY <2>3 DEF CatchUpDrop
    <3> HIDE DEF Set
    <3> QED
      BY <3>1, <1>2
  <2>4. CASE ~PutInvite(r) /\ ~SweepDrop(r) /\ ~CatchUpDrop(r)
    BY <1>1, <1>7, <2>4 DEF DoInvite, InviteAccount, Sweep, SweepList, SweepUnindex, CatchUpList,
       CatchUpRead, CatchUpIndex, PutExpiry, PutPending, SendMail, PutRow
  <2> QED
    BY <2>1, <2>2, <2>3, <2>4
<1>8. CASE Accept(r)
  <2>1. CASE AcceptMark(r)
    <3>1. PICK x : Set(call[r].token, x)
      BY <2>1 DEF AcceptMark
    <3> HIDE DEF Set
    <3> QED
      BY <2>1, <3>1, <1>2
  <2>2. CASE ~AcceptMark(r)
    BY <1>1, <1>8, <2>2 DEF Accept, LoadInvite, LoadAccount, LoadPending, Verify, AcceptRow, AcceptIndex,
       AcceptPending, PutRow, PutIndex, DeleteRow
  <2> QED
    BY <2>1, <2>2
<1>9. CASE Backfill(r) \/ Claim(r) \/ Upgrade(r) \/ Rename(r) \/ Create(r)
  BY <1>1, <1>9 DEF Backfill, BackfillList, BackfillPut, BackfillReport, Claim, ClaimHandle, ClaimCheck,
     Upgrade, UpgradeCheck, UpgradeRead, UpgradeWrite, Rename, RenameRead, RenameRetire, RenameWrite,
     PutAccount, Create, CreateAccount, CreateRow, CreateIndex, PutRow, PutIndex
<1>10. CASE DestroyRead(r) \/ SoleOwnerships(r) \/ DropOwnership(r)
  BY <1>1, <1>10 DEF DestroyRead, SoleOwnerships, SoleBegin, SoleAccount, SoleJudge, SoleEnd, ListRoster,
     ReadRoster, DropOwnership, PlanList, PlanRecord, PlanMeta, PlanBlobs, PlanKey, PlanDisown, PlanRelease,
     PlanEnd, WritePlan
<1>11. CASE DeleteAccount(r)
  BY <1>1, <1>11 DEF DeleteAccount, AccountRead, ListRoster, ReadRoster, DropRow, DeleteRow, DeleteIndex,
     DropHandle, DropAccount
<1>12. CASE Erase(r)
  <2>1. CASE EraseInvite(r)
    <3>1. PICK i : Same \/ Set(i, Absent)
      BY <2>1 DEF EraseInvite
    <3> HIDE DEF Set, Same
    <3> QED
      BY <3>1, <1>1, <1>2
  <2>2. CASE ~EraseInvite(r)
    BY <1>1, <1>12, <2>2 DEF Erase, EraseRead, EraseIndexList, EraseIndex, EraseInviteList,
       ErasePendingList, ErasePending, EraseUser, DeleteRow
  <2> QED
    BY <2>1, <2>2
<1> QED
  BY <1>4, <1>5, <1>6, <1>7, <1>8, <1>9, <1>10, <1>11, <1>12 DEF Step, Destroy

(* What an acceptance holds it has read under its token.                    *)
LEMMA AcceptReads ==
    ASSUME TypeInv, PlacedInv, NEW p \in Requests, Step(p), Is(p, {"accept"})
    PROVE  \/ mem'[p].inv = mem[p].inv
           \/ pc[p] = "load_invite" /\ mem'[p].inv = invites[call[p].token]
<1> USE DEF Holds
<1>0. mem[p] \in Memory /\ mem \in [Requests -> Memory]
  BY TypeParts DEF TypeInv, TypeOK
<1>1. Send(p) \/ Accept(p)
  BY StepOfHandler DEF Is
<1>2. CASE Send(p)
  BY <1>0, <1>2 DEF Send, Memory
<1>3. CASE LoadInvite(p)
  BY <1>0, <1>3 DEF LoadInvite, Memory, Goto
<1>4. CASE Accept(p) /\ ~LoadInvite(p)
  BY <1>0, <1>4 DEF Accept, LoadAccount, LoadPending, Verify, AcceptRow, AcceptIndex, AcceptPending, AcceptMark,
     PutIndex
<1> QED
  BY <1>1, <1>2, <1>3, <1>4

(* An invitation is not there, has not lapsed and is held by nobody before  *)
(* it is stored: its token is random.                                       *)
StoredPcs == {"put_expiry", "put_pending", "mail", "201", "500"}

Unborn(q) ==
    LET t == call[q].token
    IN  Is(q, {"invite"}) /\ pc[q] \notin StoredPcs =>
            /\ invites[t] = Absent /\ t \notin lapsed
            /\ \A p \in Requests : Is(p, {"accept"}) /\ call[p].token = t => mem[p].inv = Absent

AcceptedMeanwhile(t, r) ==
    \E p \in Requests : Is(p, {"accept"}) /\ call[p].token = t /\ p \notin call[r].after

(* Where sweepExpired has been, nothing is left of what had lapsed before.  *)
Swept(r) ==
    LET m == mem[r]
    IN  Is(r, {"invite"}) =>
        /\ m.old \subseteq lapsed
        /\ \A t \in m.old : invites[t] # Absent /\ ~AcceptedMeanwhile(t, r) =>
            /\ pc[r] \in {"sweep", "sweep_unindex"} => t \in m.todo \/ t \notin m.known
            /\ pc[r] \in {"catch_up", "catch_up_index"} => t \in m.todo
            /\ pc[r] = "catch_up_drop" => t \in m.todo \/ t = m.at
            /\ pc[r] \notin {"put_expiry", "put_pending", "mail", "201"}

SweptInv == \A r \in Requests : Unborn(r) /\ Swept(r)

(* Tokens of invites are their own.                                         *)
LEMMA TokensAreOwn ==
    ASSUME TypeInv, NEW q \in Requests, Is(q, {"invite"})
    PROVE  /\ call[q].token \in Tokens
           /\ \A p \in Requests : Is(p, {"invite"}) /\ call[p].token = call[q].token => p = q
           /\ \A p \in Requests : Is(p, {"accept"}) => call[p].token \in Tokens
<1>1. PICK s \in Starts : call = s.calls
  BY DEF TypeInv, GivenCalls
<1>2. FreshIds(s.seed, s.calls)
  BY AccountsAssumption
<1>3. \A p \in Requests : Is(p, {"invite", "accept"}) => call[p].token # Absent
  BY <1>1, AccountsAssumption DEF Is
<1>4. \A p \in Requests : call[p].token \in Tokens \cup {Absent}
  BY CallType DEF TypeInv, TypeOK
<1> QED
  BY <1>1, <1>2, <1>3, <1>4 DEF FreshIds, Is

LEMMA StoredStays ==
    ASSUME TypeInv, PlacedInv, NEW q \in Requests, Step(q), Is(q, {"invite"}), pc[q] \in StoredPcs
    PROVE  pc'[q] \in StoredPcs
<1>1. pc[q] # "send" /\ pc[q] # "invite_account" /\ pc[q] \notin SweepPcs \cup {"sweep_list"}
  BY DEF StoredPcs, SweepPcs
<1>2. DoInvite(q) /\ pc \in [Requests -> Pcs]
  BY <1>1, StepOfHandler, TypeParts DEF Is, Send, Goto
<1> QED
  BY <1>1, <1>2 DEF DoInvite, InviteAccount, Sweep, SweepList, SweepDrop, SweepUnindex, CatchUpList,
     CatchUpRead, CatchUpDrop, CatchUpIndex, PutInvite, PutExpiry, PutPending, SendMail, PutRow, Goto, SweepPcs,
     StoredPcs

LEMMA StepKeepsUnborn ==
    ASSUME TypeInv, PlacedInv, SweptInv, NEW r \in Requests, Step(r), NEW q \in Requests
    PROVE  Unborn(q)'
<1> DEFINE t == call[q].token
<1>0. call' = call /\ lapsed' = lapsed /\ \A p \in Requests \ {r} : Undisturbed(p)
  BY StepFrame
<1> SUFFICES ASSUME Is(q, {"invite"}), pc'[q] \notin StoredPcs
             PROVE  /\ invites'[t] = Absent /\ t \notin lapsed
                    /\ \A p \in Requests : Is(p, {"accept"}) /\ call[p].token = t => mem'[p].inv = Absent
  BY <1>0 DEF Unborn, Is
<1>1. pc[q] \notin StoredPcs
  <2>1. CASE q = r
    BY <2>1, StoredStays
  <2>2. CASE q # r
    BY <1>0, <2>2 DEF Undisturbed
  <2> QED
    BY <2>1, <2>2
<1>2. /\ invites[t] = Absent /\ t \notin lapsed
      /\ \A p \in Requests : Is(p, {"accept"}) /\ call[p].token = t => mem[p].inv = Absent
  BY <1>1 DEF SweptInv, Unborn
<1>3. t \in Tokens
  BY TokensAreOwn
<1>4. ~(PutInvite(r) /\ t = call[r].token)
  <2> SUFFICES ASSUME PutInvite(r), t = call[r].token
               PROVE  FALSE
    OBVIOUS
  <2>1. pc[r] \in SweepPcs
    BY DEF PutInvite, Goto, SweepPcs
  <2>2. Is(r, {"invite"})
    BY <2>1, TypeParts DEF StageOf, Stage, InvitePcs, Is
  <2>3. r = q
    BY <2>2, TokensAreOwn
  <2>4. pc'[r] = "put_expiry"
    BY TypeParts DEF PutInvite, Goto
  <2> QED
    BY <2>3, <2>4 DEF StoredPcs
<1>5. ~(AcceptMark(r) /\ t = call[r].token)
  <2> SUFFICES ASSUME AcceptMark(r), t = call[r].token
               PROVE  FALSE
    OBVIOUS
  <2>1. pc[r] \in LoadedPcs
    BY DEF AcceptMark, Goto, LoadedPcs
  <2>2. mem[r].inv \in Invite /\ Is(r, {"accept"})
    BY <2>1, TypeParts DEF StageOf, Stage, Is
  <2> QED
    BY <1>2, <2>2, AccountsAssumption
<1>6. invites'[t] = Absent
  BY <1>2, <1>3, <1>4, <1>5, InvitesChange
<1>7. ASSUME NEW p \in Requests, Is(p, {"accept"}), call[p].token = t
      PROVE  mem'[p].inv = Absent
  <2>1. CASE p = r
    BY <1>2, <1>7, <2>1, AcceptReads
  <2>2. CASE p # r
    BY <1>0, <1>2, <1>7, <2>2 DEF Undisturbed
  <2> QED
    BY <2>1, <2>2
<1> QED
  BY <1>2, <1>6, <1>7

(* What a sweep does with its listing.                                      *)
LEMMA SweepsOn ==
    ASSUME TypeInv, PlacedInv, SweptInv, NEW r \in Requests, Step(r), Is(r, {"invite"})
    PROVE  Swept(r)'
<1> DEFINE T == call[r].token
           m == mem[r]
           n == mem'[r]
           Left(t) == invites[t] # Absent /\ ~AcceptedMeanwhile(t, r)
           Stays(t) == invites'[t] # Absent /\ ~AcceptedMeanwhile(t, r)
<1>0. /\ call' = call /\ lapsed' = lapsed
      /\ mem \in [Requests -> Memory] /\ m \in Memory /\ pc \in [Requests -> Pcs] /\ StageOf(r)
      /\ invites \in [Tokens -> Invite \cup {Absent}]
  BY StepFrame, TypeParts DEF TypeInv, TypeOK, StoresOK
<1>1. Unborn(r) /\ Swept(r) /\ m.old \subseteq lapsed /\ lapsed \subseteq Tokens
  BY <1>0, TypeParts DEF SweptInv, Swept, StoresOK
<1> SUFFICES
      /\ n.old \subseteq lapsed
      /\ \A t \in n.old : Stays(t) =>
            /\ pc'[r] \in {"sweep", "sweep_unindex"} => t \in n.todo \/ t \notin n.known
            /\ pc'[r] \in {"catch_up", "catch_up_index"} => t \in n.todo
            /\ pc'[r] = "catch_up_drop" => t \in n.todo \/ t = n.at
            /\ pc'[r] \notin {"put_expiry", "put_pending", "mail", "201"}
  BY <1>0 DEF Swept, AcceptedMeanwhile, Is
<1>2. Send(r) \/ DoInvite(r)
  BY StepOfHandler DEF Is
<1> USE DEF Goto, Holds
<1>3. CASE Send(r)
  <2>1. n.old = lapsed
    BY <1>0, <1>3 DEF Send, Memory
  <2>2. pc'[r] \in {"invite_account", "403"}
    BY <1>0, <1>3 DEF Send, FirstOf, First, Is
  <2> QED
    BY <2>1, <2>2
<1>4. CASE InviteAccount(r) \/ SendMail(r) \/ PutExpiry(r) \/ PutPending(r)
  <2>1. n = m /\ invites' = invites
    BY <1>4 DEF InviteAccount, SendMail, PutExpiry, PutPending, PutRow, stores, letters
  <2>2. \/ pc'[r] \in {"404", "sweep_list", "500"}
        \/ pc[r] \in {"put_expiry", "put_pending", "mail"}
    BY <1>0, <1>4 DEF InviteAccount, SendMail, PutExpiry, PutPending, PutRow
  <2>3. CASE pc'[r] \in {"404", "sweep_list", "500"}
    BY <1>1, <2>1, <2>3
  <2>4. CASE pc[r] \in {"put_expiry", "put_pending", "mail"}
    BY <1>1, <2>1, <2>4 DEF Swept, Is
  <2> QED
    BY <2>2, <2>3, <2>4
<1>5. CASE SweepList(r)
  <2>1. n.old = m.old /\ n.todo = n.known /\ pc'[r] = "sweep"
    BY <1>0, <1>5 DEF SweepList, Memory
  <2> QED
    BY <1>1, <2>1
<1>6. CASE SweepDrop(r)
  <2>1. PICK t \in m.todo \cap lapsed :
          /\ invites' = [invites EXCEPT ![t] = Absent]
          /\ mem' = [mem EXCEPT ![r] = [m EXCEPT !.todo = @ \ {t}, !.at = t]]
    BY <1>6 DEF SweepDrop
  <2>2. n.old = m.old /\ n.todo = m.todo \ {t} /\ n.known = m.known
    BY <1>0, <2>1 DEF Memory
  <2>3. pc[r] = "sweep" /\ pc'[r] = "sweep_unindex"
    BY <1>0, <1>6 DEF SweepDrop
  <2>4. ASSUME NEW x \in m.old, Stays(x)
        PROVE  x \in n.todo \/ x \notin n.known
    <3>1. x # t /\ Left(x)
      BY <1>0, <1>1, <2>1, <2>4
    <3> QED
      BY <1>1, <2>2, <2>3, <2>4, <3>1 DEF Swept, Is
  <2> QED
    BY <1>1, <2>2, <2>3, <2>4
<1>7. CASE SweepUnindex(r)
  <2>1. n = m /\ invites' = invites /\ pc[r] = "sweep_unindex" /\ pc'[r] = "sweep"
    BY <1>0, <1>7 DEF SweepUnindex
  <2> QED
    BY <1>1, <2>1 DEF Swept, Is
<1>8. CASE CatchUpList(r)
  <2>1. /\ n.old = m.old /\ n.todo = NotListed(r) /\ invites' = invites
        /\ pc[r] = "sweep" /\ pc'[r] = "catch_up" /\ m.todo \cap lapsed = {}
    BY <1>0, <1>8 DEF CatchUpList, Memory, stores, letters
  <2>2. ASSUME NEW x \in m.old, Stays(x)
        PROVE  x \in n.todo
    <3>1. x \notin m.known
      BY <1>1, <2>1, <2>2 DEF Swept, Is
    <3> QED
      BY <1>1, <2>1, <2>2, <3>1 DEF NotListed
  <2> QED
    BY <1>1, <2>1, <2>2
<1>9. CASE CatchUpRead(r)
  <2>1. PICK t \in m.todo :
          /\ mem' = [mem EXCEPT ![r] = [m EXCEPT !.todo = @ \ {t}, !.at = t]]
          /\ pc[r] = "catch_up"
          /\ pc' = [pc EXCEPT ![r] = CASE invites[t] = Absent -> "catch_up"
                  [] invites[t] # Absent /\ t \in lapsed -> "catch_up_drop"
                  [] invites[t] # Absent /\ t \notin lapsed -> "catch_up_index"]
          /\ invites' = invites
    BY <1>9 DEF CatchUpRead, stores, letters
  <2>2. n.old = m.old /\ n.todo = m.todo \ {t} /\ n.at = t
    BY <1>0, <2>1 DEF Memory
  <2>3. \/ invites[t] = Absent /\ pc'[r] = "catch_up"
        \/ t \in lapsed /\ pc'[r] = "catch_up_drop"
        \/ t \notin lapsed /\ pc'[r] = "catch_up_index"
    BY <1>0, <2>1
  <2>4. ASSUME NEW x \in m.old, Stays(x)
        PROVE  x \in m.todo /\ x \in lapsed
    BY <1>1, <2>1, <2>4 DEF Swept, Is
  <2> QED
    BY <1>1, <2>1, <2>2, <2>3, <2>4
<1>10. CASE CatchUpDrop(r)
  <2>1. /\ n = m /\ invites' = [invites EXCEPT ![m.at] = Absent]
        /\ pc[r] = "catch_up_drop" /\ pc'[r] = "catch_up"
    BY <1>0, <1>10 DEF CatchUpDrop
  <2>2. ASSUME NEW x \in m.old, Stays(x)
        PROVE  x \in m.todo
    <3>1. x # m.at /\ Left(x)
      BY <1>0, <1>1, <2>1, <2>2
    <3> QED
      BY <1>1, <2>1, <2>2, <3>1 DEF Swept, Is
  <2> QED
    BY <1>1, <2>1, <2>2
<1>11. CASE CatchUpIndex(r)
  <2>1. n = m /\ invites' = invites /\ pc[r] = "catch_up_index" /\ pc'[r] = "catch_up"
    BY <1>0, <1>11 DEF CatchUpIndex
  <2> QED
    BY <1>1, <2>1 DEF Swept, Is
<1>12. CASE PutInvite(r)
  <2>1. /\ n = m /\ pc[r] = "catch_up" /\ pc'[r] = "put_expiry" /\ m.todo = {}
        /\ \A x \in Tokens \ {T} : invites'[x] = invites[x]
    BY <1>0, <1>12 DEF PutInvite
  <2>2. T \notin m.old
    BY <1>1, <2>1 DEF Unborn, StoredPcs, Is
  <2>3. ASSUME NEW x \in m.old, Stays(x)
        PROVE  FALSE
    <3>1. Left(x)
      BY <1>1, <2>1, <2>2, <2>3
    <3> QED
      BY <1>1, <2>1, <2>3, <3>1 DEF Swept, Is
  <2> QED
    BY <1>1, <2>1, <2>3
<1> QED
  BY <1>2, <1>3, <1>4, <1>5, <1>6, <1>7, <1>8, <1>9, <1>10, <1>11, <1>12 DEF DoInvite, Sweep

(* Nobody else stores an invitation that had lapsed, but who accepts it.    *)
LEMMA SweepsStand ==
    ASSUME TypeInv, InOrder, PlacedInv, SweptInv, NEW p \in Requests, Step(p), NEW r \in Requests, r # p
    PROVE  Swept(r)'
<1>0. call' = call /\ lapsed' = lapsed /\ Undisturbed(r) /\ pc[p] \notin Answers
  BY StepFrame
<1>1. CASE ~Is(r, {"invite"})
  BY <1>0, <1>1 DEF Swept, Is
<1>2. CASE Is(r, {"invite"})
  <2>1. Swept(r) /\ mem[r].old \subseteq lapsed /\ lapsed \subseteq Tokens
    BY <1>2, TypeParts DEF SweptInv, Swept, StoresOK
  <2>2. ASSUME NEW t \in mem[r].old, invites'[t] # Absent, ~AcceptedMeanwhile(t, r), pc[r] # "send"
        PROVE  invites[t] # Absent
    <3>1. ~(PutInvite(p) /\ t = call[p].token)
      <4> SUFFICES ASSUME PutInvite(p), t = call[p].token
                   PROVE  FALSE
        OBVIOUS
      <4>1. pc[p] = "catch_up"
        BY DEF PutInvite, Goto
      <4>2. Is(p, {"invite"})
        BY <4>1, TypeParts DEF StageOf, Stage, InvitePcs, SweepPcs, Is
      <4> QED
        BY <2>1, <2>2, <4>1, <4>2 DEF SweptInv, Unborn, StoredPcs
    <3>2. ~(AcceptMark(p) /\ t = call[p].token)
      <4> SUFFICES ASSUME AcceptMark(p), t = call[p].token
                   PROVE  FALSE
        OBVIOUS
      <4>1. pc[p] \in LoadedPcs
        BY DEF AcceptMark, Goto, LoadedPcs
      <4>2. Is(p, {"accept"})
        BY <4>1, TypeParts DEF StageOf, Stage, Is
      <4>3. p \notin call[r].after
        BY <1>0, <2>2 DEF InOrder
      <4> QED
        BY <2>2, <4>2, <4>3 DEF AcceptedMeanwhile
    <3> QED
      BY <2>1, <2>2, <3>1, <3>2, InvitesChange
  <2>3. pc[r] = "send" => mem[r].old = {}
    <3>1. pc[r] = "send" => mem[r] = [Blank EXCEPT !.cover = mem[r].cover]
      BY DEF PlacedInv, Placed
    <3> QED
      BY <3>1 DEF Blank
  <2>4. mem'[r] = mem[r] /\ pc'[r] = pc[r]
    BY <1>0 DEF Undisturbed
  <2>5. \A t : AcceptedMeanwhile(t, r)' <=> AcceptedMeanwhile(t, r)
    BY <1>0 DEF AcceptedMeanwhile, Is
  <2>6. \A t \in mem[r].old : invites'[t] # Absent /\ ~AcceptedMeanwhile(t, r) =>
            invites[t] # Absent
    BY <2>2, <2>3
  <2> QED
    BY <1>0, <1>2, <2>1, <2>4, <2>5, <2>6 DEF Swept, Is
<1> QED
  BY <1>1, <1>2

LEMMA SweptNext == TypeInv /\ InOrder /\ PlacedInv /\ SweptInv /\ [Next]_vars => SweptInv'
<1> SUFFICES ASSUME TypeInv, InOrder, PlacedInv, SweptInv, [Next]_vars
             PROVE  SweptInv'
  OBVIOUS
<1>1. CASE UNCHANGED vars
  BY <1>1 DEF vars, stores, letters, SweptInv, Swept, Unborn, AcceptedMeanwhile, Is
<1>2. ASSUME NEW t \in Tokens, Lapse(t)
      PROVE  SweptInv'
  <2>1. /\ invites[t] # Absent /\ lapsed' = lapsed \cup {t}
        /\ invites' = invites /\ call' = call /\ pc' = pc /\ mem' = mem
    BY <1>2 DEF Lapse, letters
  <2>2. ASSUME NEW q \in Requests
        PROVE  Unborn(q)'
    BY <2>1 DEF SweptInv, Unborn, Is
  <2>3. ASSUME NEW q \in Requests
        PROVE  Swept(q)'
    BY <2>1 DEF SweptInv, Swept, AcceptedMeanwhile, Is
  <2> QED
    BY <2>2, <2>3 DEF SweptInv
<1>3. ASSUME NEW p \in Requests, Step(p)
      PROVE  SweptInv'
  <2>1. ASSUME NEW r \in Requests
        PROVE  Swept(r)'
    <3>1. CASE r = p /\ Is(r, {"invite"})
      BY <1>3, <3>1, SweepsOn
    <3>2. CASE ~Is(r, {"invite"})
      BY <1>3, <3>2, StepFrame DEF Swept, Is
    <3>3. CASE r # p
      BY <1>3, <3>3, SweepsStand
    <3> QED
      BY <3>1, <3>2, <3>3
  <2> QED
    BY <1>3, <2>1, StepKeepsUnborn DEF SweptInv
<1> QED
  BY <1>1, <1>2, <1>3, NextSteps

LEMMA SweptInit == Init => SweptInv
<1> SUFFICES ASSUME Init
             PROVE  SweptInv
  OBVIOUS
<1>1. PICK s \in Starts : invites = s.seed.invites /\ lapsed = s.seed.lapsed /\ call = s.calls
  BY DEF Init
<1>2. FreshIds(s.seed, s.calls)
  BY AccountsAssumption
<1>3. \A r \in Requests : mem[r].inv = Absent /\ mem[r].old = {} /\ pc[r] = "send"
  BY DEF Init, Blank
<1> QED
  BY <1>1, <1>2, <1>3 DEF FreshIds, SweptInv, Swept, Unborn, Is

(* An invitation that had lapsed before an invite was sent is gone when its *)
(* sweep is over, whether or not the expiry index knew it, unless somebody  *)
(* is accepting it: sweepExpired (identity.js) reads what the index misses. *)
THEOREM LapsedAreSwept == Spec => []SweptIsGone
<1>1. SweptInv => SweptIsGone
  BY DEF SweptInv, Swept, SweptIsGone, AcceptedMeanwhile
<1> QED
  BY <1>1, OrderInvariant, SweptInit, SweptNext, PTL DEF Spec
-----------------------------------------------------------------------------
(* What a deletion leaves.  A user is deleted with the personal account, by *)
(* one request, and is there until then.                                    *)
IsPersonal(account) == account # Absent /\ account.type = "personal"

Erases(s, d) == s.calls[d].op = "destroy" /\ IsPersonal(s.seed.accounts[s.calls[d].account])

LoneErasures ==
    \A s \in Starts : \A d, p \in Requests :
        Erases(s, d) =>
            /\ s.calls[d].user \in s.seed.users
            /\ Erases(s, p) /\ s.calls[p].user = s.calls[d].user => p = d

(* No account becomes a personal one, so who erases a user was sent to do   *)
(* it, and finds the user.                                                  *)
Erasable(s) ==
    /\ call = s.calls
    /\ \A a \in AccountIds : IsPersonal(accounts[a]) => IsPersonal(s.seed.accounts[a])
    /\ \A r \in Requests :
        /\ Is(r, {"rename"}) /\ IsPersonal(mem[r].rec) => IsPersonal(s.seed.accounts[call[r].account])
        /\ mem[r].personal => IsPersonal(s.seed.accounts[call[r].account])
        /\ pc[r] \in ErasePcs => mem[r].personal
        /\ Erases(s, r) /\ pc[r] # "200" => call[r].user \in users

ErasableInv == \E s \in Starts : Erasable(s)

ErasedPcs == {"erase_index_list", "erase_index", "erase_invite", "erase_pending"}

Unrevived(r) == Is(r, {"destroy"}) /\ \A p \in Requests : ~Reviving(p, r)

(* The rows that a deletion has walked are gone, and nobody who comes later *)
(* finds one to write back.                                                 *)
RowsGo(r) ==
    LET a == call[r].account
    IN  Unrevived(r) =>
        /\ pc[r] \in {"drop_row", "drop_index"} => Rows(a) \subseteq mem[r].todo \cup Listed(r)
        /\ pc[r] \in {"drop_account", "erase_read", "200"} \cup ErasedPcs => Rows(a) = {}
        /\ pc[r] = "200" => \A p \in Requests : r \in call[p].after =>
            /\ Is(p, {"role"}) /\ call[p].account = a => mem[p].roster = NoRows
            /\ Is(p, {"accept"}) /\ pc[p] \in {"verify", "accept_row"} => mem[p].inv.account # a

(* What names the user goes key by key, and nobody who comes later holds an *)
(* invitation that does.                                                    *)
UserGoes(r) ==
    LET u == call[r].user
        m == mem[r]
    IN  Unrevived(r) =>
        /\ pc[r] \in ErasedPcs => m.at = AddressOf[u]
        /\ pc[r] = "erase_invite" => \A t \in Tokens : IsOf(u, invites[t]) => t \in m.todo
        /\ pc[r] = "erase_pending" =>
            /\ \A t \in Tokens : ~IsOf(u, invites[t])
            /\ \A a \in AccountIds : members[a][AddressOf[u]] # Absent => a \in m.todo
        /\ pc[r] = "200" /\ m.personal =>
            /\ u \notin users
            /\ \A t \in Tokens : ~IsOf(u, invites[t])
            /\ \A a \in AccountIds : members[a][AddressOf[u]] = Absent
            /\ \A p \in Requests : Is(p, {"accept"}) /\ r \in call[p].after => ~IsOf(u, mem[p].inv)

DeletedInv == \A r \in Requests : RowsGo(r) /\ UserGoes(r)

(* Who might bring something back has been answered before the deletion was *)
(* sent, or comes after it.                                                 *)
LEMMA NobodyRevives ==
    ASSUME TypeInv, InOrder, NEW r \in Requests, Unrevived(r), NEW p \in Requests, p # r,
           pc[r] # "send", pc[p] \notin Answers
    PROVE  /\ ~Is(p, {"invite"})
           /\ Is(p, {"role", "accept"}) => r \in call[p].after
           /\ Is(p, {"create"}) => call[p].account # call[r].account
<1>1. p \notin call[r].after
  BY DEF InOrder
<1>2. ~Reviving(p, r)
  BY DEF Unrevived
<1>3. PICK s \in Starts : call = s.calls
  BY DEF TypeInv, GivenCalls
<1>4. FreshIds(s.seed, s.calls)
  BY AccountsAssumption
<1>5. Is(p, {"create"}) => call[p].account # call[r].account
  BY <1>1, <1>3, <1>4 DEF FreshIds, Is
<1> QED
  BY <1>1, <1>2, <1>5 DEF Reviving, Is

(* The calls that write a row are made by whom they belong to.              *)
LEMMA RowWriters ==
    ASSUME TypeInv, PlacedInv, NEW p \in Requests
    PROVE  /\ PutRole(p) => Is(p, {"role"}) /\ pc[p] = "role_row"
           /\ CreateRow(p) => Is(p, {"create"})
           /\ AcceptRow(p) => Is(p, {"accept"}) /\ pc[p] = "accept_row"
           /\ PutPending(p) => Is(p, {"invite"})
           /\ PutInvite(p) => Is(p, {"invite"})
           /\ AcceptMark(p) => Is(p, {"accept"}) /\ mem[p].inv \in Invite
<1>0. StageOf(p)
  BY TypeParts
<1> USE DEF Is, StageOf, Stage, Goto
<1>1. PutRole(p) => Is(p, {"role"}) /\ pc[p] = "role_row"
  BY <1>0 DEF PutRole, RolePcs
<1>2. CreateRow(p) => Is(p, {"create"})
  BY <1>0 DEF CreateRow, PutRow
<1>3. AcceptRow(p) => Is(p, {"accept"}) /\ pc[p] = "accept_row"
  BY <1>0 DEF AcceptRow, PutRow, LoadedPcs
<1>4. PutPending(p) => Is(p, {"invite"})
  BY <1>0 DEF PutPending, PutRow, InvitePcs
<1>5. PutInvite(p) => Is(p, {"invite"})
  BY <1>0 DEF PutInvite, InvitePcs, SweepPcs
<1>6. AcceptMark(p) => Is(p, {"accept"}) /\ mem[p].inv \in Invite
  BY <1>0 DEF AcceptMark, LoadedPcs
<1> QED
  BY <1>1, <1>2, <1>3, <1>4, <1>5, <1>6

(* From the time a deletion is sent no row of its account appears, and no   *)
(* pending row of its user.                                                 *)
LEMMA RowsOnlyGo ==
    ASSUME TypeInv, InOrder, PlacedInv, DeletedInv, NEW r \in Requests, Unrevived(r), pc[r] # "send",
           pc[r] \in Answers => pc[r] = "200", NEW p \in Requests, Step(p), NEW k \in Keys
    PROVE  /\ members'[call[r].account][k] \in {members[call[r].account][k], Absent}
           /\ k \in Emails => \A a \in AccountIds : members'[a][k] \in {members[a][k], Absent}
<1>0. call[r].account \in AccountIds /\ pc[p] \notin Answers
  BY TypeParts, CallType, StepFrame
<1>1. CASE p = r
  <2>1. ~Is(p, {"role", "create", "accept", "invite"})
    BY <1>1 DEF Unrevived, Is
  <2>2. ~PutRole(p) /\ ~CreateRow(p) /\ ~AcceptRow(p) /\ ~PutPending(p)
    BY <2>1, RowWriters DEF Is
  <2> QED
    BY <1>0, <2>2, RowsChange
<1>2. CASE p # r
  <2>1. /\ ~Is(p, {"invite"})
        /\ Is(p, {"role", "accept"}) => r \in call[p].after
        /\ Is(p, {"create"}) => call[p].account # call[r].account
    BY <1>0, <1>2, NobodyRevives
  <2>2. ~PutPending(p) /\ (CreateRow(p) => call[p].account # call[r].account)
    BY <2>1, RowWriters DEF Is
  <2>3. ASSUME PutRole(p), call[p].account = call[r].account, call[p].target = k
        PROVE  FALSE
    <3>1. r \in call[p].after /\ Is(p, {"role"}) /\ pc[p] = "role_row"
      BY <2>1, <2>3, RowWriters DEF Is
    <3>2. pc[r] \in Answers
      BY <3>1 DEF InOrder
    <3>3. mem[p].roster[k] # Absent
      BY <2>3 DEF PutRole, RoleVerdict
    <3>4. pc[r] = "200" => mem[p].roster = NoRows
      BY <2>3, <3>1 DEF DeletedInv, RowsGo
    <3> QED
      BY <3>2, <3>3, <3>4, <2>3 DEF NoRows
  <2>4. ASSUME AcceptRow(p), mem[p].inv.account = call[r].account
        PROVE  FALSE
    <3>1. r \in call[p].after /\ Is(p, {"accept"}) /\ pc[p] = "accept_row"
      BY <2>1, <2>4, RowWriters DEF Is
    <3>2. pc[r] \in Answers
      BY <3>1 DEF InOrder
    <3> QED
      BY <2>4, <3>1, <3>2 DEF DeletedInv, RowsGo
  <2>5. call[p].user \in Users /\ Users \cap Emails = {}
    BY TypeParts, CallType, AccountsAssumption
  <2> QED
    BY <1>0, <2>2, <2>3, <2>4, <2>5, RowsChange
<1> QED
  BY <1>1, <1>2

(* The walk over the rows of the account.                                   *)
LEMMA DeletionDropsRows ==
    ASSUME TypeInv, InOrder, PlacedInv, DeletedInv, NEW r \in Requests, Step(r), Unrevived(r)
    PROVE  RowsGo(r)'
<1> DEFINE a == call[r].account
           m == mem[r]
           n == mem'[r]
           Over == {"drop_account", "erase_read", "200"} \cup ErasedPcs
           Left == {k \in Keys : members'[a][k] # Absent}
           Now == {k \in Keys : n.roster[k] # Absent}
<1>0. /\ call' = call /\ a \in AccountIds /\ pc[r] \notin Answers
      /\ mem \in [Requests -> Memory] /\ m \in Memory /\ pc \in [Requests -> Pcs] /\ StageOf(r)
      /\ members \in [AccountIds -> Rosters] /\ m.roster \in Rosters
      /\ \A q \in Requests \ {r} : Undisturbed(q)
  BY StepFrame, TypeParts, CallType, MemoryType DEF TypeInv, TypeOK, StoresOK
<1>1. RowsGo(r) /\ Is(r, {"destroy"})
  BY DEF DeletedInv, Unrevived
<1>2. pc[r] # "send" => Left \subseteq Rows(a)
  <2> SUFFICES ASSUME pc[r] # "send", NEW k \in Left
               PROVE  k \in Rows(a)
    OBVIOUS
  <2>1. members'[a][k] \in {members[a][k], Absent}
    BY <1>0, RowsOnlyGo
  <2> QED
    BY <2>1 DEF Rows
<1>3. ASSUME NEW q \in Requests, r \in call[q].after
      PROVE  /\ Is(q, {"role"}) => mem'[q].roster = NoRows
             /\ Is(q, {"accept"}) => pc'[q] \notin {"verify", "accept_row"}
  <2>1. pc[q] = "send"
    BY <1>0, <1>3 DEF InOrder
  <2>2. mem[q].roster = NoRows
    <3>1. mem[q] = [Blank EXCEPT !.cover = mem[q].cover]
      BY <2>1 DEF PlacedInv, Placed
    <3> QED
      BY <3>1 DEF Blank
  <2>3. Is(q, {"role", "accept"}) => q # r
    BY <1>1 DEF Is
  <2> QED
    BY <1>0, <2>1, <2>2, <2>3 DEF Undisturbed, Is
<1> SUFFICES /\ pc'[r] \in {"drop_row", "drop_index"} => Left \subseteq n.todo \cup Now
             /\ pc'[r] \in Over => Left = {}
  BY <1>0, <1>3 DEF RowsGo, Rows, Listed, Is
<1> HIDE DEF Left, Now
<1> USE DEF Goto, Holds
<1>4. CASE pc'[r] \notin {"drop_row", "drop_index"} \cup Over
  BY <1>4
<1>5. CASE pc[r] \in Over
  <2>1. Rows(a) = {} /\ pc[r] # "send"
    BY <1>0, <1>1, <1>5 DEF RowsGo, ErasedPcs
  <2> QED
    BY <1>2, <2>1
<1>6. CASE pc[r] \notin Over /\ pc'[r] \in {"drop_row", "drop_index"} \cup Over
  <2>1. DeleteAccount(r)
    <3>1. Send(r) \/ MembershipsOf(r) \/ Destroy(r)
      BY <1>1, StepOfHandler DEF Is
    <3>2. ~Send(r)
      BY <1>0, <1>1, <1>6 DEF Send, FirstOf, First, Is, ErasedPcs
    <3>3. ~MembershipsOf(r)
      BY <1>0, <1>6 DEF MembershipsOf, ListIndex, ReadIndexed, RepairIndex, ListAllRows, ReadScanned, HealIndex,
         ErasedPcs
    <3>4. ~DestroyRead(r) /\ ~SoleOwnerships(r)
      BY <1>0, <1>6 DEF DestroyRead, SoleOwnerships, SoleBegin, SoleAccount, SoleJudge, SoleEnd,
         ListRoster, ReadRoster, HasMemberships, ErasedPcs
    <3>5. ~DropOwnership(r)
      BY <1>0, <1>6 DEF DropOwnership, PlanList, PlanRecord, PlanMeta, PlanBlobs, PlanKey, PlanDisown,
         PlanRelease, PlanEnd, WritePlan, ErasedPcs
    <3>6. ~Erase(r)
      BY <1>0, <1>6 DEF Erase, EraseRead, EraseIndexList, EraseIndex, EraseInviteList, EraseInvite,
         ErasePendingList, ErasePending, EraseUser, DeleteRow, ErasedPcs
    <3> QED
      BY <3>1, <3>2, <3>3, <3>4, <3>5, <3>6 DEF Destroy
  <2>2. CASE AccountRead(r)
    BY <1>0, <1>6, <2>2 DEF AccountRead, ErasedPcs
  <2>3. CASE ListRoster(r, "drop_list", "drop_row", a)
    <3>1. n.todo = Rows(a) /\ pc'[r] = "drop_row" /\ pc[r] = "drop_list"
      BY <1>0, <2>3 DEF ListRoster, Memory
    <3> QED
      BY <1>2, <3>1 DEF ErasedPcs
  <2>4. CASE ReadRoster(r, "drop_row", a)
    <3>1. PICK k \in m.todo :
            /\ mem' = [mem EXCEPT ![r] = [m EXCEPT !.todo = @ \ {k}, !.roster[k] = members[a][k]]]
            /\ pc[r] = "drop_row" /\ pc' = pc
      BY <2>4 DEF ReadRoster
    <3>2. n.todo = m.todo \ {k} /\ n.roster = [m.roster EXCEPT ![k] = members[a][k]]
      BY <1>0, <3>1 DEF Memory
    <3>3. Rows(a) \subseteq m.todo \cup Listed(r)
      BY <1>1, <3>1 DEF RowsGo
    <3>4. ASSUME NEW j \in Rows(a)
          PROVE  j \in n.todo \cup Now
      BY <1>0, <3>2, <3>3, <3>4 DEF Rows, Listed, Now, Rosters
    <3> QED
      BY <1>2, <3>1, <3>4 DEF ErasedPcs
  <2>5. CASE DropRow(r)
    <3>1. PICK k \in Listed(r) :
            /\ members' = [members EXCEPT ![a][k] = Absent]
            /\ mem' = [mem EXCEPT ![r] = [m EXCEPT !.roster[k] = Absent, !.at = k]]
            /\ pc[r] = "drop_row" /\ pc'[r] \in {"drop_row", "drop_index"}
      BY <1>0, <2>5 DEF DropRow, DeleteRow
    <3>2. n.todo = m.todo /\ n.roster = [m.roster EXCEPT ![k] = Absent]
      BY <1>0, <3>1 DEF Memory
    <3>3. Rows(a) \subseteq m.todo \cup Listed(r)
      BY <1>1, <3>1 DEF RowsGo
    <3>4. ASSUME NEW j \in Left
          PROVE  j \in n.todo \cup Now
      <4>1. j # k /\ j \in Rows(a)
        BY <1>0, <3>1, <3>4 DEF Rows, Left, Rosters, Listed
      <4> QED
        BY <1>0, <3>2, <3>3, <3>4, <4>1 DEF Rows, Listed, Now, Rosters
    <3> QED
      BY <3>1, <3>4 DEF ErasedPcs
  <2>6. CASE DeleteIndex(r, "drop_index", "drop_row", a, m.at)
    <3>1. n = m /\ pc[r] = "drop_index" /\ pc'[r] = "drop_row"
      BY <1>0, <2>6 DEF DeleteIndex
    <3>2. Rows(a) \subseteq m.todo \cup Listed(r) /\ Listed(r) = Now
      BY <1>1, <3>1 DEF RowsGo, Listed, Now
    <3> QED
      BY <1>2, <3>1, <3>2 DEF ErasedPcs
  <2>7. CASE DropHandle(r) \/ DropAccount(r)
    <3>1. pc[r] = "drop_row" /\ m.todo = {} /\ Listed(r) = {} /\ pc'[r] \notin {"drop_row", "drop_index"}
      BY <1>0, <1>6, <2>7 DEF DropHandle, DropAccount
    <3>2. Rows(a) = {}
      BY <1>1, <3>1 DEF RowsGo
    <3> QED
      BY <1>2, <3>1, <3>2
  <2> QED
    BY <2>1, <2>2, <2>3, <2>4, <2>5, <2>6, <2>7 DEF DeleteAccount
<1> QED
  BY <1>4, <1>5, <1>6

(* Whoever changes a role after the deletion finds no rows, and who accepts *)
(* an invitation finds no pending row.                                      *)
LEMMA LateRequestsFindNothing ==
    ASSUME TypeInv, InOrder, PlacedInv, DeletedInv, NEW r \in Requests, Unrevived(r), pc[r] = "200",
           NEW p \in Requests, Step(p), r \in call[p].after
    PROVE  /\ Is(p, {"role"}) /\ call[p].account = call[r].account => mem'[p].roster = NoRows
           /\ Is(p, {"accept"}) /\ pc'[p] \in {"verify", "accept_row"} => mem'[p].inv.account # call[r].account
<1> DEFINE a == call[r].account
<1> USE DEF Goto, Holds
<1>0. /\ mem \in [Requests -> Memory] /\ mem[p] \in Memory /\ pc \in [Requests -> Pcs] /\ StageOf(p)
      /\ members \in [AccountIds -> Rosters]
  BY TypeParts DEF TypeInv, TypeOK, StoresOK
<1>1. /\ RowsGo(r) /\ Rows(a) = {}
      /\ Is(p, {"role"}) /\ call[p].account = a => mem[p].roster = NoRows
      /\ Is(p, {"accept"}) /\ pc[p] \in {"verify", "accept_row"} => mem[p].inv.account # a
  BY DEF DeletedInv, RowsGo
<1>2. ASSUME Is(p, {"role"}), call[p].account = a
      PROVE  mem'[p].roster = NoRows
  <2>1. Send(p) \/ ChangeRole(p)
    BY <1>2, StepOfHandler DEF Is
  <2>2. CASE Send(p)
    BY <1>0, <1>1, <1>2, <2>2 DEF Send, Memory
  <2>3. CASE ListRoster(p, "role_list", "role_row", a)
    BY <1>0, <2>3 DEF ListRoster, Memory
  <2>4. CASE ReadRoster(p, "role_row", a)
    <3>1. PICK k \in mem[p].todo :
            /\ mem' = [mem EXCEPT ![p] = [mem[p] EXCEPT !.todo = @ \ {k}, !.roster[k] = members[a][k]]]
            /\ pc[p] = "role_row"
      BY <2>4 DEF ReadRoster
    <3>2. mem'[p].roster = [mem[p].roster EXCEPT ![k] = members[a][k]]
      BY <1>0, <3>1 DEF Memory
    <3>3. k \in Keys
      BY <1>0, <3>1 DEF StageOf, Stage, RosterPcs
    <3>4. members[a][k] = Absent
      BY <1>1, <3>3 DEF Rows
    <3> QED
      BY <1>1, <1>2, <3>2, <3>3, <3>4 DEF NoRows
  <2>5. CASE ChangeRole(p) /\ ~ListRoster(p, "role_list", "role_row", a) /\ ~ReadRoster(p, "role_row", a)
    BY <1>0, <1>1, <1>2, <2>5 DEF ChangeRole, PutRole, RefuseRole, PutIndex
  <2> QED
    BY <2>1, <2>2, <2>3, <2>4, <2>5
<1>3. ASSUME Is(p, {"accept"}), pc'[p] \in {"verify", "accept_row"}
      PROVE  mem'[p].inv.account # a
  <2>1. Send(p) \/ Accept(p)
    BY <1>3, StepOfHandler DEF Is
  <2>2. ~Send(p)
    BY <1>0, <1>3 DEF Send, FirstOf, First, Is
  <2>3. LoadPending(p) \/ Verify(p)
    BY <1>0, <1>3, <2>1, <2>2 DEF Accept, LoadInvite, LoadAccount, AcceptRow, AcceptIndex, AcceptPending,
       AcceptMark, PutRow, PutIndex, DeleteRow
  <2>4. CASE LoadPending(p)
    <3>1. mem[p].inv \in Invite
      BY <1>0, <2>4 DEF LoadPending, StageOf, Stage, LoadedPcs
    <3>2. members[mem[p].inv.account][mem[p].inv.email] # Absent /\ mem' = mem
      BY <1>0, <1>3, <2>4 DEF LoadPending
    <3>3. mem[p].inv.email \in Keys
      BY <3>1 DEF Invite, Keys
    <3> QED
      BY <1>1, <3>2, <3>3 DEF Rows
  <2>5. CASE Verify(p)
    BY <1>0, <1>1, <1>3, <2>5 DEF Verify
  <2> QED
    BY <2>3, <2>4, <2>5
<1> QED
  BY <1>2, <1>3

LEMMA RowsStayGone ==
    ASSUME TypeInv, InOrder, PlacedInv, DeletedInv, NEW r \in Requests, Unrevived(r),
           NEW p \in Requests, Step(p), p # r
    PROVE  RowsGo(r)'
<1> DEFINE a == call[r].account
<1>0. /\ call' = call /\ pc'[r] = pc[r] /\ mem'[r] = mem[r] /\ RowsGo(r)
      /\ \A q \in Requests \ {p} : Undisturbed(q)
  BY StepFrame DEF Undisturbed, DeletedInv
<1>1. CASE pc[r] \in {"drop_row", "drop_index", "drop_account", "erase_read", "200"} \cup ErasedPcs
  <2>1. ASSUME NEW k \in Keys, members'[a][k] # Absent
        PROVE  members[a][k] # Absent
    <3>1. pc[r] # "send" /\ (pc[r] \in Answers => pc[r] = "200")
      BY <1>1 DEF ErasedPcs, Answers
    <3>2. members'[a][k] \in {members[a][k], Absent}
      BY <3>1, RowsOnlyGo
    <3> QED
      BY <2>1, <3>2
  <2>2. Rows(a)' \subseteq Rows(a)
    BY <1>0, <2>1 DEF Rows
  <2>3. ASSUME pc[r] = "200", NEW q \in Requests, r \in call[q].after
        PROVE  /\ Is(q, {"role"}) /\ call[q].account = a => mem'[q].roster = NoRows
               /\ Is(q, {"accept"}) /\ pc'[q] \in {"verify", "accept_row"} => mem'[q].inv.account # a
    <3>1. CASE q = p
      BY <2>3, <3>1, LateRequestsFindNothing
    <3>2. CASE q # p
      BY <1>0, <2>3, <3>2 DEF RowsGo, Undisturbed
    <3> QED
      BY <3>1, <3>2
  <2>4. Listed(r)' = Listed(r)
    BY <1>0 DEF Listed
  <2> QED
    BY <1>0, <2>2, <2>3, <2>4 DEF RowsGo, Is
<1>2. CASE pc[r] \notin {"drop_row", "drop_index", "drop_account", "erase_read", "200"} \cup ErasedPcs
  BY <1>0, <1>2 DEF RowsGo
<1> QED
  BY <1>1, <1>2

(* A user record goes in one place.                                         *)
LEMMA UsersChange ==
    ASSUME TypeInv, PlacedInv, NEW r \in Requests, Step(r)
    PROVE  users' = users \/ (EraseUser(r) /\ Is(r, {"destroy"}) /\ users' = users \ {call[r].user})
<1> USE DEF stores
<1>4. Send(r) => users' = users
  BY DEF Send
<1>5. (MembershipsOf(r) \/ Mint(r)) => users' = users
  BY DEF MembershipsOf, ListIndex, ReadIndexed, RepairIndex, ListAllRows, ReadScanned, HealIndex, Mint
<1>6. (ChangeRole(r) \/ Remove(r) \/ Withdraw(r)) => users' = users
  BY DEF ChangeRole, PutRole, RefuseRole, Remove, RemoveRow, RefuseRemove, Withdraw, WithdrawRead,
     ListRoster, ReadRoster, PutRow, PutIndex, DeleteRow, DeleteIndex
<1>7. DoInvite(r) => users' = users
  BY DEF DoInvite, InviteAccount, Sweep, SweepList, SweepDrop, SweepUnindex, CatchUpList, CatchUpDrop,
     CatchUpRead, CatchUpIndex, PutInvite, PutExpiry, PutPending, SendMail, PutRow
<1>8. Accept(r) => users' = users
  BY DEF Accept, LoadInvite, LoadAccount, LoadPending, Verify, AcceptRow, AcceptIndex,
     AcceptPending, AcceptMark, PutRow, PutIndex, DeleteRow
<1>9. (Backfill(r) \/ Claim(r) \/ Upgrade(r) \/ Rename(r) \/ Create(r)) => users' = users
  BY DEF Backfill, BackfillList, BackfillPut, BackfillReport, Claim, ClaimHandle, ClaimCheck,
     Upgrade, UpgradeCheck, UpgradeRead, UpgradeWrite, Rename, RenameRead, RenameRetire, RenameWrite,
     PutAccount, Create, CreateAccount, CreateRow, CreateIndex, PutRow, PutIndex
<1>10. (DestroyRead(r) \/ SoleOwnerships(r) \/ DropOwnership(r)) => users' = users
  BY DEF DestroyRead, SoleOwnerships, SoleBegin, SoleAccount, SoleJudge, SoleEnd, ListRoster,
     ReadRoster, DropOwnership, PlanList, PlanRecord, PlanMeta, PlanBlobs, PlanKey, PlanDisown, PlanRelease,
     PlanEnd, WritePlan
<1>11. DeleteAccount(r) => users' = users
  BY DEF DeleteAccount, AccountRead, ListRoster, ReadRoster, DropRow, DeleteRow, DeleteIndex,
     DropHandle, DropAccount
<1>12. Erase(r) /\ ~EraseUser(r) => users' = users
  BY DEF Erase, EraseRead, EraseIndexList, EraseIndex, EraseInviteList, EraseInvite,
     ErasePendingList, ErasePending, DeleteRow
<1>13. EraseUser(r) => Is(r, {"destroy"}) /\ users' = users \ {call[r].user}
  BY TypeParts DEF EraseUser, StageOf, Stage, DestroyPcs, ErasePcs, Is, Goto
<1> HIDE DEF stores
<1> QED
  BY <1>4, <1>5, <1>6, <1>7, <1>8, <1>9, <1>10, <1>11, <1>12, <1>13 DEF Step, Destroy, Erase

(* What a rename has read of its account.                                   *)
LEMMA RecReads ==
    ASSUME TypeInv, PlacedInv, NEW r \in Requests, Step(r), Is(r, {"rename"})
    PROVE  mem'[r].rec \in {mem[r].rec, accounts[call[r].account]}
<1> USE DEF Holds
<1>0. mem[r] \in Memory /\ mem \in [Requests -> Memory]
  BY TypeParts DEF TypeInv, TypeOK
<1>1. CASE Send(r)
  BY <1>0, <1>1 DEF Send, Memory
<1>2. CASE Claim(r) \/ Create(r)
  BY <1>0, <1>2 DEF Claim, ClaimHandle, ClaimCheck, Create, CreateAccount, CreateRow, CreateIndex, PutAccount, PutRow,
     PutIndex
<1>3. CASE Upgrade(r) \/ Rename(r)
  BY <1>0, <1>3 DEF Upgrade, UpgradeCheck, UpgradeRead, UpgradeWrite, Rename, RenameRead, RenameRetire, RenameWrite,
     PutAccount, Memory
<1> QED
  BY <1>1, <1>2, <1>3, StepOfHandler DEF Is

(* Whether the account is a personal one is read once, by the deletion.     *)
LEMMA PersonalReads ==
    ASSUME TypeInv, PlacedInv, NEW r \in Requests, Step(r)
    PROVE  \/ mem'[r].personal = mem[r].personal
           \/ DestroyRead(r) /\ mem'[r].personal = IsPersonal(accounts[call[r].account])
<1> USE DEF Holds
<1>0. mem[r] \in Memory /\ mem \in [Requests -> Memory]
  BY TypeParts DEF TypeInv, TypeOK
<1> DEFINE Same == mem'[r].personal = mem[r].personal
<1>1. Send(r) => Same
  BY <1>0 DEF Send, Memory
<1>2. MembershipsOf(r) \/ Mint(r) => Same
  <2>1. ASSUME NEW a \in mem[r].todo,
               mem' = [mem EXCEPT ![r] = [mem[r] EXCEPT !.todo = @ \ {a}, !.mine[a] = members[a][call[r].user], !.at = a]]
        PROVE  Same
    BY <1>0, <2>1 DEF Memory
  <2>2. ReadIndexed(r) \/ ReadScanned(r) => Same
    BY <2>1, Zenon DEF ReadIndexed, ReadScanned, RowThroughIndex
  <2>3. ListIndex(r) \/ RepairIndex(r) \/ ListAllRows(r) \/ HealIndex(r) \/ Mint(r) => Same
    BY <1>0 DEF ListIndex, RepairIndex, ListAllRows, HealIndex, Mint, Memory
  <2> QED
    BY <2>2, <2>3 DEF MembershipsOf
<1>3. ChangeRole(r) \/ Remove(r) \/ Withdraw(r) => Same
  BY <1>0 DEF ChangeRole, PutRole, RefuseRole, Remove, RemoveRow, RefuseRemove, Withdraw, WithdrawRead,
     ListRoster, ReadRoster, PutRow, PutIndex, DeleteRow, DeleteIndex, Memory
<1>4. DoInvite(r) => Same
  BY <1>0 DEF DoInvite, InviteAccount, Sweep, SweepList, SweepDrop, SweepUnindex, CatchUpList, CatchUpDrop,
     CatchUpRead, CatchUpIndex, PutInvite, PutExpiry, PutPending, SendMail, PutRow, Memory
<1>5. Accept(r) => Same
  BY <1>0 DEF Accept, LoadInvite, LoadAccount, LoadPending, Verify, AcceptRow, AcceptIndex,
     AcceptPending, AcceptMark, PutRow, PutIndex, DeleteRow, Memory
<1>6. Backfill(r) \/ Claim(r) \/ Upgrade(r) \/ Rename(r) \/ Create(r) => Same
  BY <1>0 DEF Backfill, BackfillList, BackfillPut, BackfillReport, Claim, ClaimHandle, ClaimCheck,
     Upgrade, UpgradeCheck, UpgradeRead, UpgradeWrite, Rename, RenameRead, RenameRetire, RenameWrite,
     PutAccount, Create, CreateAccount, CreateRow, CreateIndex, PutRow, PutIndex, Memory
<1>7. DestroyRead(r) => mem'[r].personal = IsPersonal(accounts[call[r].account])
  BY <1>0 DEF DestroyRead, IsPersonal, Memory
<1>8. SoleOwnerships(r) => Same
  BY <1>0 DEF SoleOwnerships, SoleBegin, SoleAccount, SoleJudge, SoleEnd, ListRoster, ReadRoster, Memory
<1>9. DropOwnership(r) => Same
  BY <1>0 DEF DropOwnership, PlanList, PlanRecord, PlanMeta, PlanBlobs, PlanKey, PlanDisown, PlanRelease,
     PlanEnd, WritePlan, Memory
<1>10. DeleteAccount(r) => Same
  <2>1. ListRoster(r, "drop_list", "drop_row", call[r].account) => Same
    BY <1>0 DEF ListRoster, Memory
  <2>2. ReadRoster(r, "drop_row", call[r].account) => Same
    BY <1>0 DEF ReadRoster, Memory
  <2>3. AccountRead(r) \/ DropRow(r) => Same
    BY <1>0 DEF AccountRead, DropRow, Memory
  <2>4. mem' = mem => Same
    OBVIOUS
  <2> QED
    BY <2>1, <2>2, <2>3, <2>4 DEF DeleteAccount, DeleteIndex, DropHandle, DropAccount
<1>11. Erase(r) => Same
  BY <1>0 DEF Erase, EraseRead, EraseIndexList, EraseIndex, EraseInviteList, EraseInvite,
     ErasePendingList, ErasePending, EraseUser, DeleteRow, Memory
<1> QED
  BY <1>1, <1>2, <1>3, <1>4, <1>5, <1>6, <1>7, <1>8, <1>9, <1>10, <1>11 DEF Step, Destroy

(* Only a personal account takes its user along.                            *)
LEMMA ErasureBegins ==
    ASSUME TypeInv, PlacedInv, NEW r \in Requests, Step(r), pc'[r] \in ErasePcs
    PROVE  \/ DropAccount(r) /\ mem[r].personal /\ mem' = mem
           \/ Erase(r) /\ pc[r] \in ErasePcs
<1> USE DEF Goto, Holds, ErasePcs
<1>0. pc \in [Requests -> Pcs] /\ StageOf(r) /\ call' = call
  BY StepFrame, TypeParts
<1>1. Is(r, {"destroy"})
  <2>1. StageOf(r)'
    BY StepKeepsType DEF TypeInv, StageOK
  <2> QED
    BY <1>0, <2>1 DEF StageOf, Stage, DestroyPcs, Is
<1>2. Send(r) \/ MembershipsOf(r) \/ Destroy(r)
  BY <1>1, StepOfHandler DEF Is
<1>3. ~Send(r)
  BY <1>0, <1>1 DEF Send, FirstOf, First, Is
<1>4. ~MembershipsOf(r)
  BY <1>0 DEF MembershipsOf, ListIndex, ReadIndexed, RepairIndex, ListAllRows, ReadScanned, HealIndex
<1>5. ~DestroyRead(r) /\ ~SoleOwnerships(r)
  BY <1>0 DEF DestroyRead, SoleOwnerships, SoleBegin, SoleAccount, SoleJudge, SoleEnd,
         ListRoster, ReadRoster, HasMemberships
<1>6. ~DropOwnership(r)
  BY <1>0 DEF DropOwnership, PlanList, PlanRecord, PlanMeta, PlanBlobs, PlanKey, PlanDisown,
         PlanRelease, PlanEnd, WritePlan
<1>7. CASE DropAccount(r)
  BY <1>0, <1>7 DEF DropAccount
<1>8. CASE DeleteAccount(r) /\ ~DropAccount(r)
  BY <1>0, <1>8 DEF DeleteAccount, AccountRead, ListRoster, ReadRoster, DropRow, DeleteRow, DeleteIndex, DropHandle
<1>9. CASE Erase(r)
  BY <1>0, <1>9 DEF Erase, EraseRead, EraseIndexList, EraseIndex, EraseInviteList, EraseInvite,
     ErasePendingList, ErasePending, EraseUser, DeleteRow
<1> QED
  BY <1>2, <1>3, <1>4, <1>5, <1>6, <1>7, <1>8, <1>9 DEF Destroy

LEMMA ErasedAreThere ==
    ASSUME TypeInv, ErasableInv, NEW r \in Requests, pc[r] \in ErasePcs
    PROVE  call[r].user \in users
<1>1. PICK s \in Starts : Erasable(s)
  BY DEF ErasableInv
<1>2. call[r].op = "destroy" /\ pc[r] # "200"
  BY TypeParts DEF StageOf, Stage, DestroyPcs, ErasePcs
<1>3. Erases(s, r)
  BY <1>1, <1>2 DEF Erasable, Erases, Is
<1> QED
  BY <1>1, <1>2, <1>3 DEF Erasable

LEMMA StepKeepsErasable ==
    ASSUME LoneErasures, TypeInv, PlacedInv, NEW s \in Starts, Erasable(s), NEW p \in Requests, Step(p)
    PROVE  Erasable(s)'
<1>0. /\ call' = call /\ \A q \in Requests \ {p} : Undisturbed(q)
      /\ pc \in [Requests -> Pcs] /\ StageOf(p) /\ call[p].account \in AccountIds
      /\ accounts \in [AccountIds -> Account \cup {Absent}]
  BY StepFrame, TypeParts, CallType DEF StoresOK
<1>1. ASSUME NEW a \in AccountIds, IsPersonal(accounts'[a])
      PROVE  IsPersonal(s.seed.accounts[a])
  <2>1. CASE accounts'[a] = accounts[a]
    BY <1>1, <2>1 DEF Erasable
  <2>2. CASE accounts'[a] = Absent
    BY <1>1, <2>2 DEF IsPersonal
  <2>3. CASE call[p].account = a /\ (CreateAccount(p) \/ UpgradeWrite(p))
    BY <1>0, <1>1, <2>3 DEF CreateAccount, UpgradeWrite, PutAccount, IsPersonal
  <2>4. CASE call[p].account = a /\ RenameWrite(p)
    <3>1. mem[p].rec \in Account /\ Is(p, {"rename"})
      BY <1>0, <2>4 DEF RenameWrite, PutAccount, Goto, StageOf, Stage, Is
    <3>2. accounts'[a] = [mem[p].rec EXCEPT !.handle = call[p].handle]
      BY <1>0, <2>4 DEF RenameWrite, PutAccount
    <3>3. IsPersonal(mem[p].rec)
      BY <1>1, <3>1, <3>2, AccountsAssumption DEF IsPersonal, Account
    <3> QED
      BY <2>4, <3>1, <3>3 DEF Erasable, Is
  <2> QED
    BY <2>1, <2>2, <2>3, <2>4, AccountsChange
<1>2. ASSUME NEW r \in Requests, Is(r, {"rename"}), IsPersonal(mem'[r].rec)
      PROVE  IsPersonal(s.seed.accounts[call[r].account])
  <2>1. CASE r # p
    BY <1>0, <1>2, <2>1 DEF Erasable, Undisturbed
  <2>2. CASE r = p
    BY <1>0, <1>2, <2>2, RecReads DEF Erasable
  <2> QED
    BY <2>1, <2>2
<1>5. ASSUME NEW r \in Requests, mem'[r].personal
      PROVE  IsPersonal(s.seed.accounts[call[r].account])
  <2>1. CASE r # p
    BY <1>0, <1>5, <2>1 DEF Erasable, Undisturbed
  <2>2. CASE r = p /\ mem'[p].personal = mem[p].personal
    BY <1>5, <2>2 DEF Erasable
  <2>3. CASE r = p /\ DestroyRead(p) /\ mem'[p].personal = IsPersonal(accounts[call[p].account])
    BY <1>0, <1>5, <2>3 DEF Erasable
  <2> QED
    BY <2>1, <2>2, <2>3, PersonalReads
<1>3. ASSUME NEW r \in Requests, pc'[r] \in ErasePcs
      PROVE  mem'[r].personal
  <2>1. CASE r # p
    BY <1>0, <1>3, <2>1 DEF Erasable, Undisturbed
  <2>2. CASE r = p /\ DropAccount(p) /\ mem[p].personal /\ mem' = mem
    BY <2>2
  <2>3. CASE r = p /\ Erase(p) /\ pc[p] \in ErasePcs
    <3>1. mem[p].personal
      BY <2>3 DEF Erasable
    <3>2. ~DestroyRead(p)
      BY <2>3 DEF DestroyRead, Goto, ErasePcs
    <3> QED
      BY <2>3, <3>1, <3>2, PersonalReads
  <2> QED
    BY <1>3, <2>1, <2>2, <2>3, ErasureBegins
<1>4. ASSUME NEW r \in Requests, Erases(s, r), pc'[r] # "200"
      PROVE  call[r].user \in users'
  <2>1. call[r].user \in users
    <3>1. pc[r] # "200"
      <4>1. CASE r = p
        BY <4>1, StepFrame DEF Answers
      <4>2. CASE r # p
        BY <1>0, <1>4, <4>2 DEF Undisturbed
      <4> QED
        BY <4>1, <4>2
    <3> QED
      BY <1>4, <3>1 DEF Erasable
  <2>2. CASE users' = users
    BY <2>1, <2>2
  <2>3. CASE EraseUser(p) /\ Is(p, {"destroy"}) /\ users' = users \ {call[p].user}
    <3>1. pc[p] \in ErasePcs /\ pc'[p] = "200"
      BY <1>0, <2>3 DEF EraseUser, Goto, ErasePcs
    <3>2. Erases(s, p)
      BY <2>3, <3>1 DEF Erasable, Erases, Is
    <3>3. p # r
      BY <1>4, <3>1
    <3>4. call[p].user # call[r].user
      BY <1>4, <3>2, <3>3 DEF LoneErasures, Erasable
    <3> QED
      BY <2>1, <2>3, <3>4
  <2> QED
    BY <2>2, <2>3, UsersChange
<1> QED
  BY <1>0, <1>1, <1>2, <1>3, <1>4, <1>5 DEF Erasable, Is

LEMMA ErasableNext ==
    ASSUME LoneErasures
    PROVE  TypeInv /\ PlacedInv /\ ErasableInv /\ [Next]_vars => ErasableInv'
<1> SUFFICES ASSUME TypeInv, PlacedInv, ErasableInv, [Next]_vars
             PROVE  ErasableInv'
  OBVIOUS
<1>0. PICK s \in Starts : Erasable(s)
  BY DEF ErasableInv
<1>1. CASE UNCHANGED vars
  BY <1>0, <1>1 DEF vars, stores, ErasableInv, Erasable, Is
<1>2. ASSUME NEW t \in Tokens, Lapse(t)
      PROVE  ErasableInv'
  BY <1>0, <1>2 DEF Lapse, ErasableInv, Erasable, Is
<1>3. ASSUME NEW p \in Requests, Step(p)
      PROVE  ErasableInv'
  BY <1>0, <1>3, StepKeepsErasable DEF ErasableInv
<1> QED
  BY <1>1, <1>2, <1>3, NextSteps

LEMMA ErasableInit == ASSUME LoneErasures PROVE Init => ErasableInv
<1> SUFFICES ASSUME Init
             PROVE  ErasableInv
  OBVIOUS
<1>1. PICK s \in Starts : call = s.calls /\ accounts = s.seed.accounts /\ users = s.seed.users
  BY DEF Init
<1>2. \A r \in Requests : mem[r].rec = Absent /\ ~mem[r].personal /\ pc[r] = "send"
  BY DEF Init, Blank
<1>3. Erasable(s)
  BY <1>1, <1>2 DEF Erasable, IsPersonal, LoneErasures, ErasePcs
<1> QED
  BY <1>3 DEF ErasableInv

(* From the time a deletion is sent no invitation of its user appears.      *)
LEMMA InvitesOnlyGo ==
    ASSUME TypeInv, InOrder, PlacedInv, DeletedInv, NEW r \in Requests, Unrevived(r), pc[r] # "send",
           pc[r] \in Answers => pc[r] = "200" /\ mem[r].personal,
           NEW p \in Requests, Step(p), NEW t \in Tokens, IsOf(call[r].user, invites'[t])
    PROVE  IsOf(call[r].user, invites[t])
<1>0. pc[p] \notin Answers
  BY StepFrame
<1>1. ~PutInvite(p) /\ (AcceptMark(p) => p # r /\ r \in call[p].after /\ Is(p, {"accept"}) /\ mem[p].inv \in Invite)
  <2>1. CASE p = r
    BY <2>1, RowWriters DEF Unrevived, Is
  <2>2. CASE p # r
    BY <1>0, <2>2, NobodyRevives, RowWriters DEF Is
  <2> QED
    BY <2>1, <2>2
<1>2. ASSUME AcceptMark(p), t = call[p].token
      PROVE  FALSE
  <2>1. pc[r] \in Answers
    BY <1>1, <1>2 DEF InOrder, AcceptMark, Goto
  <2>2. ~IsOf(call[r].user, mem[p].inv)
    BY <1>1, <1>2, <2>1 DEF DeletedInv, UserGoes
  <2>3. invites \in [Tokens -> Invite \cup {Absent}]
    BY TypeParts DEF StoresOK
  <2>4. invites'[t] = [mem[p].inv EXCEPT !.accepted = TRUE]
    BY <1>2, <2>3 DEF AcceptMark
  <2>5. /\ mem[p].inv # Absent /\ invites'[t].invitedBy = mem[p].inv.invitedBy
        /\ invites'[t].email = mem[p].inv.email
    BY <1>1, <1>2, <2>4, AccountsAssumption DEF Invite
  <2> QED
    BY <2>2, <2>5 DEF IsOf
<1>3. invites'[t] = invites[t] \/ invites'[t] = Absent
  BY <1>1, <1>2, InvitesChange
<1> QED
  BY <1>3 DEF IsOf

(* The walk over what names the user.                                       *)
LEMMA ErasureDropsUser ==
    ASSUME TypeInv, InOrder, PlacedInv, ErasableInv, DeletedInv, NEW r \in Requests, Erase(r), Step(r), Unrevived(r)
    PROVE  UserGoes(r)'
<1> DEFINE u == call[r].user
           m == mem[r]
           n == mem'[r]
           Named == {t \in Tokens : IsOf(u, invites'[t])}
           Pending == {a \in AccountIds : members'[a][AddressOf[u]] # Absent}
<1>0. /\ call' = call /\ u \in Users /\ AddressOf[u] \in Emails /\ AddressOf[u] # Absent
      /\ mem \in [Requests -> Memory] /\ m \in Memory /\ pc \in [Requests -> Pcs]
      /\ members \in [AccountIds -> Rosters] /\ invites \in [Tokens -> Invite \cup {Absent}]
      /\ pc[r] \in {"erase_read"} \cup ErasedPcs /\ StageOf(r)
      /\ \A q \in Requests \ {r} : Undisturbed(q)
  <2>1. pc[r] \in {"erase_read"} \cup ErasedPcs
    BY DEF Erase, EraseRead, EraseIndexList, EraseIndex, EraseInviteList, EraseInvite, ErasePendingList,
       ErasePending, EraseUser, DeleteRow, Goto, ErasedPcs
  <2>2. /\ StoresOK /\ StageOf(r) /\ call[r] \in Call /\ mem[r] \in Memory /\ pc \in [Requests -> Pcs]
        /\ mem \in [Requests -> Memory]
    BY TypeParts DEF TypeInv, TypeOK
  <2>3. u \in Users
    BY <2>2, CallType
  <2>4. AddressOf[u] \in Emails /\ AddressOf[u] # Absent
    BY <2>3, AccountsAssumption DEF Keys
  <2>5. call' = call /\ \A q \in Requests \ {r} : Undisturbed(q)
    BY StepFrame
  <2> QED
    BY <2>1, <2>2, <2>3, <2>4, <2>5 DEF StoresOK
<1>1. /\ UserGoes(r) /\ Is(r, {"destroy"}) /\ u \in users
      /\ pc[r] \in ErasedPcs => m.at = AddressOf[u]
  <2>1. pc[r] \in ErasePcs
    BY <1>0 DEF ErasedPcs, ErasePcs
  <2> QED
    BY <1>0, <2>1, ErasedAreThere DEF DeletedInv, Unrevived, UserGoes
<1>2. ASSUME NEW t \in Named
      PROVE  t \in Tokens /\ IsOf(u, invites[t]) /\ IsOf(u, invites'[t])
  <2>1. pc[r] # "send" /\ pc[r] \notin Answers
    BY <1>0 DEF Answers, ErasedPcs
  <2> QED
    BY <1>2, <2>1, InvitesOnlyGo
<1>3. ASSUME NEW a \in Pending
      PROVE  a \in AccountIds /\ members[a][AddressOf[u]] # Absent
  <2>1. pc[r] # "send" /\ pc[r] \notin Answers
    BY <1>0 DEF Answers, ErasedPcs
  <2>2. AddressOf[u] \in Keys /\ AddressOf[u] \in Emails
    BY <1>0 DEF Keys
  <2>3. members'[a][AddressOf[u]] \in {members[a][AddressOf[u]], Absent}
    BY <1>3, <2>1, <2>2, RowsOnlyGo
  <2> QED
    BY <1>3, <2>3
<1>4. ASSUME NEW q \in Requests, Is(q, {"accept"}), r \in call[q].after
      PROVE  ~IsOf(u, mem'[q].inv)
  <2>1. pc[q] = "send"
    BY <1>0, <1>4 DEF InOrder, ErasedPcs, Answers
  <2>2. mem[q] = [Blank EXCEPT !.cover = mem[q].cover]
    BY <2>1 DEF PlacedInv, Placed
  <2>3. mem[q].inv = Absent
    BY <2>2 DEF Blank
  <2>4. q # r
    BY <1>1, <1>4 DEF Is
  <2> QED
    BY <1>0, <2>3, <2>4 DEF Undisturbed, IsOf
<1> SUFFICES /\ pc'[r] \in ErasedPcs => n.at = AddressOf[u]
             /\ pc'[r] = "erase_invite" => Named \subseteq n.todo
             /\ pc'[r] = "erase_pending" => Named = {} /\ Pending \subseteq n.todo
             /\ pc'[r] = "200" => u \notin users' /\ Named = {} /\ Pending = {}
  BY <1>0, <1>4 DEF UserGoes, Is
<1> HIDE DEF Named, Pending
<1> USE DEF Goto, Holds
<1>5. CASE EraseRead(r)
  <2>1. pc'[r] = "erase_index_list" /\ users' = users /\ n = [m EXCEPT !.at = AddressOf[u]]
    BY <1>0, <1>1, <1>5 DEF EraseRead, stores
  <2>2. n.at = AddressOf[u]
    BY <1>0, <2>1 DEF Memory
  <2> QED
    BY <1>1, <2>1, <2>2 DEF ErasedPcs
<1>6. CASE EraseIndexList(r)
  <2>1. pc'[r] = "erase_index" /\ users' = users /\ pc[r] = "erase_index_list"
    BY <1>0, <1>6 DEF EraseIndexList, stores
  <2>2. n.at = m.at
    BY <1>0, <1>6 DEF EraseIndexList, Memory
  <2> QED
    BY <1>1, <2>1, <2>2 DEF ErasedPcs
<1>7. CASE EraseIndex(r)
  <2>1. PICK a \in m.todo : mem' = [mem EXCEPT ![r] = [m EXCEPT !.todo = @ \ {a}]]
    BY <1>7 DEF EraseIndex
  <2>2. pc'[r] = "erase_index" /\ users' = users /\ pc[r] = "erase_index"
    BY <1>0, <1>7 DEF EraseIndex
  <2>3. n.at = m.at
    BY <1>0, <2>1 DEF Memory
  <2> QED
    BY <1>1, <2>2, <2>3 DEF ErasedPcs
<1>8. CASE EraseInviteList(r)
  <2>1. pc'[r] = "erase_invite" /\ users' = users /\ pc[r] = "erase_index"
    BY <1>0, <1>8 DEF EraseInviteList, stores
  <2>2. n.at = m.at /\ n.todo = {t \in Tokens : invites[t] # Absent}
    BY <1>0, <1>8 DEF EraseInviteList, Memory
  <2>3. Named \subseteq n.todo
    BY <1>2, <2>2 DEF IsOf
  <2> QED
    BY <1>1, <2>1, <2>2, <2>3 DEF ErasedPcs
<1>9. CASE EraseInvite(r)
  <2>1. PICK t \in m.todo :
          /\ mem' = [mem EXCEPT ![r] = [m EXCEPT !.todo = @ \ {t}]]
          /\ invites' = IF Mine(r, invites[t]) THEN [invites EXCEPT ![t] = Absent] ELSE invites
          /\ pc[r] = "erase_invite" /\ pc' = [pc EXCEPT ![r] = "erase_invite"] /\ users' = users
    BY <1>9 DEF EraseInvite
  <2>2. n.at = m.at /\ n.todo = m.todo \ {t}
    BY <1>0, <2>1 DEF Memory
  <2>3. t \in Tokens
    BY <1>0, <2>1 DEF StageOf, Stage
  <2>4. t \notin Named
    <3>1. Mine(r, invites[t]) <=> IsOf(u, invites[t])
      BY <1>1, <2>1 DEF Mine, IsOf, Address, ErasedPcs
    <3>2. CASE Mine(r, invites[t])
      <4>1. invites'[t] = Absent
        BY <1>0, <2>1, <2>3, <3>2
      <4> QED
        BY <1>2, <4>1 DEF IsOf
    <3>3. CASE ~Mine(r, invites[t])
      BY <1>2, <3>1, <3>3
    <3> QED
      BY <3>2, <3>3
  <2>5. \A i \in Tokens : IsOf(u, invites[i]) => i \in m.todo
    BY <1>1, <2>1 DEF UserGoes
  <2>6. Named \subseteq n.todo
    BY <1>2, <2>2, <2>4, <2>5
  <2> QED
    BY <1>0, <1>1, <2>1, <2>2, <2>6 DEF ErasedPcs
<1>10. CASE ErasePendingList(r)
  <2>1. pc'[r] = "erase_pending" /\ users' = users /\ pc[r] = "erase_invite" /\ m.todo = {}
    BY <1>0, <1>10 DEF ErasePendingList, stores
  <2>2. n.at = m.at /\ n.todo = {a \in AccountIds : m.at # Absent /\ members[a][m.at] # Absent}
    BY <1>0, <1>10 DEF ErasePendingList, Memory, Address
  <2>3. \A i \in Tokens : ~IsOf(u, invites[i])
    BY <1>1, <2>1 DEF UserGoes
  <2>4. Named = {}
    BY <1>2, <2>3
  <2>5. Pending \subseteq n.todo
    BY <1>0, <1>1, <1>3, <2>1, <2>2 DEF ErasedPcs
  <2> QED
    BY <1>1, <2>1, <2>2, <2>4, <2>5 DEF ErasedPcs
<1>11. CASE ErasePending(r)
  <2>1. PICK a \in m.todo :
          /\ mem' = [mem EXCEPT ![r] = [m EXCEPT !.todo = @ \ {a}]]
          /\ members' = [members EXCEPT ![a][m.at] = Absent]
          /\ pc[r] = "erase_pending" /\ pc' = [pc EXCEPT ![r] = "erase_pending"] /\ users' = users
    BY <1>11 DEF ErasePending, DeleteRow, Address
  <2>2. n.at = m.at /\ n.todo = m.todo \ {a}
    BY <1>0, <2>1 DEF Memory
  <2>3. a \in AccountIds /\ m.at = AddressOf[u]
    BY <1>0, <1>1, <2>1 DEF StageOf, Stage, ErasedPcs
  <2>4. a \notin Pending
    <3>1. members'[a] = [members[a] EXCEPT ![m.at] = Absent] /\ m.at \in Keys /\ members[a] \in Rosters
      BY <1>0, <2>1, <2>3 DEF Keys
    <3>2. members'[a][m.at] = Absent
      BY <3>1 DEF Rosters
    <3> QED
      BY <2>3, <3>2 DEF Pending
  <2>5. /\ \A i \in Tokens : ~IsOf(u, invites[i])
        /\ \A i \in AccountIds : members[i][AddressOf[u]] # Absent => i \in m.todo
    BY <1>1, <2>1 DEF UserGoes
  <2>6. Named = {} /\ Pending \subseteq n.todo
    BY <1>2, <1>3, <2>2, <2>4, <2>5
  <2> QED
    BY <1>0, <1>1, <2>1, <2>2, <2>6 DEF ErasedPcs
<1>12. CASE EraseUser(r)
  <2>1. pc'[r] = "200" /\ users' = users \ {u} /\ pc[r] = "erase_pending" /\ m.todo = {}
    BY <1>0, <1>12 DEF EraseUser
  <2>2. /\ \A i \in Tokens : ~IsOf(u, invites[i])
        /\ \A i \in AccountIds : members[i][AddressOf[u]] # Absent => i \in m.todo
    BY <1>1, <2>1 DEF UserGoes
  <2>3. Named = {} /\ Pending = {}
    BY <1>2, <1>3, <2>1, <2>2
  <2> QED
    BY <2>1, <2>3 DEF ErasedPcs
<1> QED
  BY <1>5, <1>6, <1>7, <1>8, <1>9, <1>10, <1>11, <1>12 DEF Erase

(* Before that, nothing is claimed of the user.                             *)
LEMMA NothingIsErased ==
    ASSUME TypeInv, PlacedInv, NEW r \in Requests, Step(r), ~Erase(r), Unrevived(r)
    PROVE  UserGoes(r)'
<1> USE DEF Goto, Holds
<1>0. /\ call' = call /\ pc[r] \notin Answers /\ mem \in [Requests -> Memory] /\ mem[r] \in Memory
      /\ pc \in [Requests -> Pcs] /\ StageOf(r)
  BY StepFrame, TypeParts DEF TypeInv, TypeOK
<1>1. Is(r, {"destroy"})
  BY DEF Unrevived
<1> SUFFICES pc'[r] \notin ErasedPcs /\ (pc'[r] = "200" => ~mem'[r].personal)
  BY DEF UserGoes, ErasedPcs
<1> USE DEF ErasedPcs
<1>3. Send(r) \/ MembershipsOf(r) \/ Destroy(r)
  BY <1>1, StepOfHandler DEF Is
<1>4. CASE Send(r)
  BY <1>0, <1>1, <1>4 DEF Send, FirstOf, First, Is
<1>5. CASE MembershipsOf(r)
  BY <1>0, <1>5 DEF MembershipsOf, ListIndex, ReadIndexed, RepairIndex, ListAllRows, ReadScanned, HealIndex
<1>6. CASE DestroyRead(r) \/ SoleOwnerships(r)
  BY <1>0, <1>6 DEF DestroyRead, SoleOwnerships, SoleBegin, SoleAccount, SoleJudge, SoleEnd,
         ListRoster, ReadRoster, HasMemberships
<1>7. CASE DropOwnership(r)
  BY <1>0, <1>7 DEF DropOwnership, PlanList, PlanRecord, PlanMeta, PlanBlobs, PlanKey, PlanDisown,
         PlanRelease, PlanEnd, WritePlan
<1>8. CASE DropAccount(r)
  BY <1>0, <1>8 DEF DropAccount
<1>9. CASE DeleteAccount(r) /\ ~DropAccount(r)
  BY <1>0, <1>9 DEF DeleteAccount, AccountRead, ListRoster, ReadRoster, DropRow, DeleteRow, DeleteIndex, DropHandle
<1> QED
  BY <1>3, <1>4, <1>5, <1>6, <1>7, <1>8, <1>9 DEF Destroy

(* What is gone of a user stays gone, and who accepts an invitation late    *)
(* holds none of the user's.                                                *)
LEMMA UserStaysGone ==
    ASSUME TypeInv, InOrder, PlacedInv, DeletedInv, NEW r \in Requests, Unrevived(r),
           NEW p \in Requests, Step(p), p # r
    PROVE  UserGoes(r)'
<1> DEFINE u == call[r].user
           m == mem[r]
<1>0. /\ call' = call /\ pc'[r] = pc[r] /\ mem'[r] = mem[r] /\ UserGoes(r)
      /\ \A q \in Requests \ {p} : Undisturbed(q)
      /\ u \in Users /\ AddressOf[u] \in Emails
  BY StepFrame, TypeParts, CallType, AccountsAssumption DEF Undisturbed, DeletedInv
<1>2. u \in users' => u \in users
  BY UsersChange
<1>3. ASSUME pc[r] \in ErasedPcs \/ (pc[r] = "200" /\ m.personal)
      PROVE  /\ \A t \in Tokens : IsOf(u, invites'[t]) => IsOf(u, invites[t])
             /\ \A a \in AccountIds : members'[a][AddressOf[u]] # Absent => members[a][AddressOf[u]] # Absent
  <2>1. pc[r] # "send" /\ (pc[r] \in Answers => pc[r] = "200" /\ m.personal)
    BY <1>3 DEF ErasedPcs, Answers
  <2>2. AddressOf[u] \in Keys
    BY <1>0 DEF Keys
  <2>3. \A a \in AccountIds : members'[a][AddressOf[u]] \in {members[a][AddressOf[u]], Absent}
    BY <1>0, <2>1, <2>2, RowsOnlyGo
  <2>4. \A t \in Tokens : IsOf(u, invites'[t]) => IsOf(u, invites[t])
    BY <2>1, InvitesOnlyGo
  <2> QED
    BY <2>3, <2>4
<1>4. ASSUME pc[r] = "200", m.personal, NEW q \in Requests, Is(q, {"accept"}), r \in call[q].after
      PROVE  ~IsOf(u, mem'[q].inv)
  <2>1. ~IsOf(u, mem[q].inv) /\ \A t \in Tokens : ~IsOf(u, invites[t])
    BY <1>0, <1>4 DEF UserGoes
  <2>2. CASE q # p
    BY <1>0, <2>1, <2>2 DEF Undisturbed
  <2>3. CASE q = p
    <3>1. pc[p] = "load_invite" => call[p].token \in Tokens
      BY TypeParts DEF StageOf, Stage
    <3> QED
      BY <1>4, <2>1, <2>3, <3>1, AcceptReads
  <2> QED
    BY <2>2, <2>3
<1>5. CASE pc[r] \in ErasedPcs \/ pc[r] = "200"
  BY <1>0, <1>2, <1>3, <1>4, <1>5 DEF UserGoes, Is, ErasedPcs
<1>6. CASE pc[r] \notin ErasedPcs \cup {"200"}
  BY <1>0, <1>6 DEF UserGoes, Is, ErasedPcs
<1> QED
  BY <1>5, <1>6

LEMMA DeletedNext ==
    TypeInv /\ InOrder /\ PlacedInv /\ ErasableInv /\ DeletedInv /\ [Next]_vars => DeletedInv'
<1> SUFFICES ASSUME TypeInv, InOrder, PlacedInv, ErasableInv, DeletedInv, [Next]_vars, NEW r \in Requests
             PROVE  RowsGo(r)' /\ UserGoes(r)'
  BY DEF DeletedInv
<1>0. RowsGo(r) /\ UserGoes(r)
  BY DEF DeletedInv
<1>1. CASE UNCHANGED vars
  BY <1>0, <1>1 DEF vars, stores, people, letters, RowsGo, UserGoes, Unrevived, Is, Reviving, Rows, Listed, IsOf
<1>2. ASSUME NEW t \in Tokens, Lapse(t)
      PROVE  RowsGo(r)' /\ UserGoes(r)'
  BY <1>0, <1>2 DEF Lapse, people, letters, RowsGo, UserGoes, Unrevived, Is, Reviving, Rows, Listed, IsOf
<1>3. ASSUME NEW p \in Requests, Step(p)
      PROVE  RowsGo(r)' /\ UserGoes(r)'
  <2>1. CASE ~Unrevived(r)
    <3>1. ~Unrevived(r)'
      BY <1>3, <2>1, StepFrame DEF Unrevived, Is, Reviving
    <3> QED
      BY <3>1 DEF RowsGo, UserGoes
  <2>2. CASE Unrevived(r) /\ p = r
    BY <1>3, <2>2, DeletionDropsRows, ErasureDropsUser, NothingIsErased
  <2>3. CASE Unrevived(r) /\ p # r
    BY <1>3, <2>3, RowsStayGone, UserStaysGone
  <2> QED
    BY <2>1, <2>2, <2>3
<1> QED
  BY <1>1, <1>2, <1>3, NextSteps

LEMMA DeletedInit == Init => DeletedInv
<1> SUFFICES ASSUME Init, NEW r \in Requests
             PROVE  RowsGo(r) /\ UserGoes(r)
  BY DEF DeletedInv
<1>1. pc[r] = "send"
  BY DEF Init
<1> QED
  BY <1>1 DEF RowsGo, UserGoes, Unrevived, ErasedPcs

(* A deletion that was answered has left no row of the account, and of a    *)
(* personal account no trace of the user, whatever overlapped it: no        *)
(* handler that came after it writes a row or an invitation back.           *)
THEOREM DeletionLeavesNothing == ASSUME LoneErasures PROVE Spec => []DeletedLeavesNothing
<1>1. DeletedInv => DeletedLeavesNothing
  BY DEF DeletedInv, RowsGo, UserGoes, DeletedLeavesNothing, Unrevived
<1> QED
  BY <1>1, OrderInvariant, ErasableInit, ErasableNext, DeletedInit, DeletedNext, PTL DEF Spec
-----------------------------------------------------------------------------
(* The member index and the tokens minted through it.                       *)
Key(u, a) == memberIndexKey(u, a) \in memberIndex

Settled(u) == u \in users /\ ~Erasing(u)

(* Nobody who drops the index key of u for a overlaps who writes the row.   *)
Ordered(a, u) ==
    \A w, d \in Requests :
        Rewrites(w, a, u) /\ DropsKey(d, a, u) => w \in call[d].after \/ d \in call[w].after

AboutToDrop(d, a, u) ==
    \/ pc[d] = "remove_index" /\ call[d].account = a /\ call[d].target = u
    \/ pc[d] = "drop_index" /\ call[d].account = a /\ mem[d].at = u
    \/ pc[d] = "index_repair" /\ call[d].user = u /\ mem[d].at = a

AboutToIndex(w, a, u) ==
    \/ pc[w] = "role_index" /\ call[w].account = a /\ call[w].target = u
    \/ pc[w] = "create_index" /\ call[w].account = a /\ call[w].user = u
    \/ pc[w] = "accept_index" /\ mem[w].inv.account = a /\ call[w].user = u

LEMMA IndexersRewrite ==
    ASSUME TypeInv, PlacedInv, NEW w \in Requests, NEW a, NEW u, AboutToIndex(w, a, u)
    PROVE  Rewrites(w, a, u)
BY TypeParts DEF AboutToIndex, Rewrites, Joins, PlacedInv, Placed, StageOf, Stage, LoadedPcs, Is

LEMMA DroppersDrop ==
    ASSUME TypeInv, PlacedInv, NEW d \in Requests, NEW a, NEW u, AboutToDrop(d, a, u)
    PROVE  DropsKey(d, a, u)
BY TypeParts DEF AboutToDrop, DropsKey, PlacedInv, Placed, RemovePcs, StageOf, Stage, DestroyPcs, DropPcs, IndexPcs, Is

(* A row of a user appears by who goes on to write the index key.           *)
LEMMA RowWritten ==
    ASSUME TypeInv, PlacedInv, NEW p \in Requests, Step(p), NEW a \in AccountIds, NEW u \in Users
    PROVE  \/ members'[a][u] \in {members[a][u], Absent}
           \/ Rewrites(p, a, u) /\ pc[p] # "send" /\ AboutToIndex(p, a, u)'
<1> USE DEF Goto, PutRow, Is
<1>0. /\ call' = call /\ u \in Keys /\ u \notin Emails /\ pc \in [Requests -> Pcs]
  BY StepFrame, TypeParts, AccountsAssumption DEF Keys
<1>1. ASSUME PutRole(p), call[p].account = a, call[p].target = u
      PROVE  Rewrites(p, a, u) /\ pc[p] # "send" /\ AboutToIndex(p, a, u)'
  <2>1. Is(p, {"role"}) /\ pc[p] = "role_row"
    BY <1>1, RowWriters
  <2>2. pc'[p] = "role_index"
    BY <1>0, <1>1 DEF PutRole
  <2> QED
    BY <1>0, <1>1, <2>1, <2>2 DEF Rewrites, AboutToIndex
<1>2. ASSUME CreateRow(p), call[p].account = a, call[p].user = u
      PROVE  Rewrites(p, a, u) /\ pc[p] # "send" /\ AboutToIndex(p, a, u)'
  <2>1. Is(p, {"create"})
    BY <1>2, RowWriters
  <2>2. pc'[p] = "create_index" /\ pc[p] = "create_row"
    BY <1>0, <1>2 DEF CreateRow
  <2> QED
    BY <1>0, <1>2, <2>1, <2>2 DEF Rewrites, Joins, AboutToIndex
<1>3. ASSUME AcceptRow(p), mem[p].inv.account = a, call[p].user = u
      PROVE  Rewrites(p, a, u) /\ pc[p] # "send" /\ AboutToIndex(p, a, u)'
  <2>1. Is(p, {"accept"}) /\ pc[p] = "accept_row"
    BY <1>3, RowWriters
  <2>2. pc'[p] = "accept_index" /\ mem' = mem
    BY <1>0, <1>3 DEF AcceptRow
  <2> QED
    BY <1>0, <1>3, <2>1, <2>2 DEF Rewrites, Joins, AboutToIndex
<1> QED
  BY <1>0, <1>1, <1>2, <1>3, RowsChange

(* What a step may do to an index key.                                      *)
Indexes(r, a, u) ==
    \/ AboutToIndex(r, a, u)
    \/ HealIndex(r) /\ call[r].user = u /\ mem[r].at = a
    \/ BackfillPut(r) /\ <<u, a>> \in mem[r].listed

Unindexes(r, a, u) == AboutToDrop(r, a, u) \/ (EraseIndex(r) /\ call[r].user = u)

LEMMA IndexChange ==
    ASSUME TypeInv, PlacedInv, NEW r \in Requests, Step(r), NEW a \in AccountIds, NEW u \in Users
    PROVE  /\ Key(u, a)' /\ ~Key(u, a) => Indexes(r, a, u)
           /\ ~Key(u, a)' /\ Key(u, a) => Unindexes(r, a, u)
<1> DEFINE Same == memberIndex' = memberIndex
           Add(v, b) == memberIndex' = memberIndex \cup {memberIndexKey(v, b)}
           Drop(v, b) == memberIndex' = memberIndex \ {memberIndexKey(v, b)}
           Goal == /\ Key(u, a)' /\ ~Key(u, a) => Indexes(r, a, u)
                   /\ ~Key(u, a)' /\ Key(u, a) => Unindexes(r, a, u)
<1>1. Same => Goal
  BY DEF Key
<1>2. ASSUME NEW v, NEW b, Add(v, b), v = u /\ b = a => Indexes(r, a, u)
      PROVE  Goal
  BY <1>2 DEF Key, memberIndexKey
<1>3. ASSUME NEW v, NEW b, Drop(v, b), v = u /\ b = a => Unindexes(r, a, u)
      PROVE  Goal
  BY <1>3 DEF Key, memberIndexKey
<1> SUFFICES Goal
  OBVIOUS
<1> HIDE DEF Goal
<1> USE DEF stores, people
<1>4. Send(r) => Same
  BY DEF Send
<1>5. ListIndex(r) \/ ReadIndexed(r) \/ ListAllRows(r) \/ ReadScanned(r) \/ Mint(r) => Same
  BY DEF ListIndex, ReadIndexed, ListAllRows, ReadScanned, Mint
<1>6. CASE RepairIndex(r)
  <2>1. Drop(call[r].user, mem[r].at) /\ pc[r] = "index_repair"
    BY <1>6 DEF RepairIndex, Goto
  <2> HIDE DEF Drop
  <2> QED
    BY <2>1, <1>3 DEF Unindexes, AboutToDrop
<1>7. CASE HealIndex(r)
  <2>1. Add(call[r].user, mem[r].at)
    BY <1>7 DEF HealIndex
  <2> HIDE DEF Add
  <2> QED
    BY <1>7, <2>1, <1>2 DEF Indexes
<1>8. CASE ChangeRole(r)
  <2>1. CASE PutIndex(r, "role_index", "200", call[r].account, call[r].target)
    <3>1. Add(call[r].target, call[r].account) /\ pc[r] = "role_index"
      BY <2>1 DEF PutIndex, Goto
    <3> HIDE DEF Add
    <3> QED
      BY <3>1, <1>2 DEF Indexes, AboutToIndex
  <2>2. ~PutIndex(r, "role_index", "200", call[r].account, call[r].target) => Same
    BY <1>8 DEF ChangeRole, ListRoster, ReadRoster, PutRole, RefuseRole, PutRow
  <2> QED
    BY <1>1, <2>1, <2>2
<1>9. CASE Remove(r)
  <2>1. CASE DeleteIndex(r, "remove_index", "204", call[r].account, call[r].target)
    <3>1. Drop(call[r].target, call[r].account) /\ pc[r] = "remove_index"
      BY <2>1 DEF DeleteIndex, Goto
    <3> HIDE DEF Drop
    <3> QED
      BY <3>1, <1>3 DEF Unindexes, AboutToDrop
  <2>2. ~DeleteIndex(r, "remove_index", "204", call[r].account, call[r].target) => Same
    BY <1>9 DEF Remove, ListRoster, ReadRoster, RemoveRow, RefuseRemove, DeleteRow
  <2> QED
    BY <1>1, <2>1, <2>2
<1>10. Withdraw(r) \/ DoInvite(r) => Same
  BY DEF Withdraw, WithdrawRead, DeleteRow, DoInvite, InviteAccount, Sweep, SweepList, SweepDrop, SweepUnindex,
     CatchUpList, CatchUpDrop, CatchUpRead, CatchUpIndex, PutInvite, PutExpiry, PutPending, SendMail, PutRow
<1>11. CASE Accept(r)
  <2>1. CASE AcceptIndex(r)
    <3>1. Add(call[r].user, mem[r].inv.account) /\ pc[r] = "accept_index"
      BY <2>1 DEF AcceptIndex, PutIndex, Goto
    <3> HIDE DEF Add
    <3> QED
      BY <3>1, <1>2 DEF Indexes, AboutToIndex
  <2>2. ~AcceptIndex(r) => Same
    BY <1>11 DEF Accept, LoadInvite, LoadAccount, LoadPending, Verify, AcceptRow, AcceptPending, AcceptMark,
       PutRow, DeleteRow
  <2> QED
    BY <1>1, <2>1, <2>2
<1>12. CASE Backfill(r)
  <2>1. CASE BackfillPut(r)
    <3>1. PICK k \in mem[r].listed : Add(k[1], k[2])
      BY <2>1 DEF BackfillPut
    <3>2. mem[r].listed \subseteq Users \X AccountIds
      BY TypeParts, MemoryType
    <3>3. k = <<k[1], k[2]>>
      BY <3>2
    <3>4. k[1] = u /\ k[2] = a => Indexes(r, a, u)
      BY <2>1, <3>3 DEF Indexes
    <3> HIDE DEF Add
    <3> QED
      BY <3>1, <3>4, <1>2
  <2>2. ~BackfillPut(r) => Same
    BY <1>12 DEF Backfill, BackfillList, BackfillReport
  <2> QED
    BY <1>1, <2>1, <2>2
<1>13. Claim(r) \/ Upgrade(r) \/ Rename(r) => Same
  BY DEF Claim, ClaimHandle, ClaimCheck, Upgrade, UpgradeCheck, UpgradeRead, UpgradeWrite, Rename, RenameRead,
     RenameRetire, RenameWrite, PutAccount
<1>14. CASE Create(r)
  <2>1. CASE CreateIndex(r)
    <3>1. Add(call[r].user, call[r].account) /\ pc[r] = "create_index"
      BY <2>1 DEF CreateIndex, PutIndex, Goto
    <3> HIDE DEF Add
    <3> QED
      BY <3>1, <1>2 DEF Indexes, AboutToIndex
  <2>2. ~CreateIndex(r) => Same
    BY <1>14 DEF Create, CreateAccount, CreateRow, PutAccount, PutRow
  <2> QED
    BY <1>1, <2>1, <2>2
<1>15. DestroyRead(r) \/ SoleOwnerships(r) \/ DropOwnership(r) => Same
  BY DEF DestroyRead, SoleOwnerships, SoleBegin, SoleAccount, SoleJudge, SoleEnd, ListRoster,
     ReadRoster, DropOwnership, PlanList, PlanRecord, PlanMeta, PlanBlobs, PlanKey, PlanDisown, PlanRelease,
     PlanEnd, WritePlan
<1>16. CASE DeleteAccount(r)
  <2>1. CASE DeleteIndex(r, "drop_index", "drop_row", call[r].account, mem[r].at)
    <3>1. Drop(mem[r].at, call[r].account) /\ pc[r] = "drop_index"
      BY <2>1 DEF DeleteIndex, Goto
    <3> HIDE DEF Drop
    <3> QED
      BY <3>1, <1>3 DEF Unindexes, AboutToDrop
  <2>2. ~DeleteIndex(r, "drop_index", "drop_row", call[r].account, mem[r].at) => Same
    BY <1>16 DEF DeleteAccount, AccountRead, ListRoster, ReadRoster, DropRow, DeleteRow, DropHandle, DropAccount
  <2> QED
    BY <1>1, <2>1, <2>2
<1>17. CASE Erase(r)
  <2>1. CASE EraseIndex(r)
    <3>1. PICK b : Drop(call[r].user, b)
      BY <2>1 DEF EraseIndex
    <3> HIDE DEF Drop
    <3> QED
      BY <2>1, <3>1, <1>3 DEF Unindexes
  <2>2. ~EraseIndex(r) => Same
    BY <1>17 DEF Erase, EraseRead, EraseIndexList, EraseInviteList, EraseInvite,
       ErasePendingList, ErasePending, EraseUser, DeleteRow
  <2> QED
    BY <1>1, <2>1, <2>2
<1> HIDE DEF Same
<1> QED
  BY <1>1, <1>4, <1>5, <1>6, <1>7, <1>8, <1>9, <1>10, <1>11, <1>12, <1>13, <1>14, <1>15, <1>16, <1>17
     DEF Step, Destroy, MembershipsOf

(* Who is about to drop an index key has seen to it, or seen, that the row  *)
(* is gone, and nobody writes it meanwhile.                                 *)
DropInv ==
    \A d \in Requests : \A a \in AccountIds : \A u \in Users :
        AboutToDrop(d, a, u) /\ Ordered(a, u) => members[a][u] = Absent

LEMMA DroppersSee ==
    ASSUME TypeInv, PlacedInv, NEW d \in Requests, Step(d), NEW a \in AccountIds, NEW u \in Users,
           AboutToDrop(d, a, u)'
    PROVE  members'[a][u] = Absent
<1> USE DEF Goto, Holds
<1>0. /\ call' = call /\ u \in Keys /\ call[d].account \in AccountIds /\ pc \in [Requests -> Pcs]
      /\ mem \in [Requests -> Memory] /\ mem[d] \in Memory /\ members \in [AccountIds -> Rosters]
  BY StepFrame, TypeParts, CallType DEF Keys, TypeInv, TypeOK, StoresOK
<1>1. ASSUME NEW k, members' = [members EXCEPT ![a][k] = Absent], k = u
      PROVE  members'[a][u] = Absent
  BY <1>0, <1>1 DEF Rosters
<1>2. TypeInv' /\ Placed(d)'
  BY StepKeepsType, StepPlaces
<1>3. CASE pc'[d] = "remove_index"
  <2>1. Is(d, {"remove"})
    BY <1>0, <1>2, <1>3 DEF Placed, RemovePcs, Is
  <2>2. Send(d) \/ Remove(d)
    BY <2>1, StepOfHandler DEF Is
  <2>3. ~Send(d)
    BY <1>0, <1>3, <2>1 DEF Send, FirstOf, First, Is
  <2>4. RemoveRow(d)
    BY <1>0, <1>3, <2>2, <2>3 DEF Remove, ListRoster, ReadRoster, RefuseRemove, RemoveVerdict, DeleteIndex
  <2>5. call[d].account = a /\ call[d].target = u
    BY <1>0, <1>3 DEF AboutToDrop
  <2> QED
    BY <1>1, <2>4, <2>5 DEF RemoveRow, DeleteRow
<1>4. CASE pc'[d] \in {"drop_index", "index_repair"}
  <2>1. Is(d, {"mint", "destroy"})
    <3>1. StageOf(d)'
      BY <1>2 DEF TypeInv, StageOK
    <3> QED
      BY <1>0, <1>4, <3>1 DEF StageOf, Stage, DestroyPcs, DropPcs, IndexPcs, Is
  <2>2. Send(d) \/ MembershipsOf(d) \/ Mint(d) \/ Destroy(d)
    BY <2>1, StepOfHandler DEF Is
  <2>3. ~Send(d) /\ ~Mint(d)
    BY <1>0, <1>4, <2>1 DEF Send, FirstOf, First, Is, Mint, HasMemberships
  <2>4. CASE MembershipsOf(d)
    <3>1. ReadIndexed(d)
      BY <1>0, <1>4, <2>4 DEF MembershipsOf, ListIndex, ReadIndexed, RepairIndex, ListAllRows, ReadScanned, HealIndex
    <3>2. PICK b \in mem[d].todo :
            /\ pc' = [pc EXCEPT ![d] = IF members[b][call[d].user] = Absent THEN "index_repair" ELSE "index_get"]
            /\ mem' = [mem EXCEPT ![d] = [mem[d] EXCEPT !.todo = @ \ {b}, !.mine[b] = members[b][call[d].user],
                                                        !.at = b]]
            /\ members' = members
      BY <3>1 DEF ReadIndexed, RowThroughIndex, stores, people
    <3>3. mem'[d].at = b /\ members[b][call[d].user] = Absent /\ pc'[d] = "index_repair"
      BY <1>0, <1>4, <3>2 DEF Memory
    <3> QED
      BY <1>0, <3>2, <3>3 DEF AboutToDrop
  <2>5. CASE Destroy(d)
    <3>1. ~(DestroyRead(d) \/ SoleOwnerships(d) \/ DropOwnership(d))
      BY <1>0, <1>4 DEF DestroyRead, SoleOwnerships, SoleBegin, SoleAccount, SoleJudge, SoleEnd, ListRoster,
         ReadRoster, HasMemberships, DropOwnership, PlanList, PlanRecord, PlanMeta, PlanBlobs, PlanKey, PlanDisown,
         PlanRelease, PlanEnd, WritePlan
    <3>2. ~Erase(d)
      BY <1>0, <1>4 DEF Erase, EraseRead, EraseIndexList, EraseIndex, EraseInviteList, EraseInvite,
         ErasePendingList, ErasePending, EraseUser, DeleteRow
    <3>3. DropRow(d)
      BY <1>0, <1>4, <2>5, <3>1, <3>2 DEF Destroy, DeleteAccount, AccountRead, ListRoster, ReadRoster, DropHandle,
         DropAccount, DeleteIndex
    <3>4. PICK k \in Listed(d) :
            /\ members' = [members EXCEPT ![call[d].account][k] = Absent]
            /\ mem' = [mem EXCEPT ![d] = [mem[d] EXCEPT !.roster[k] = Absent, !.at = k]]
      BY <3>3 DEF DropRow, DeleteRow
    <3>5. mem'[d].at = k /\ pc'[d] = "drop_index"
      BY <1>0, <1>4, <3>3, <3>4 DEF DropRow, DeleteRow, Memory
    <3>6. call[d].account = a /\ k = u
      BY <1>0, <3>5 DEF AboutToDrop
    <3> QED
      BY <1>1, <3>4, <3>6
  <2> QED
    BY <2>2, <2>3, <2>4, <2>5
<1> QED
  BY <1>3, <1>4 DEF AboutToDrop

LEMMA DropNext == TypeInv /\ InOrder /\ PlacedInv /\ DropInv /\ [Next]_vars => DropInv'
<1> SUFFICES ASSUME TypeInv, InOrder, PlacedInv, DropInv, [Next]_vars,
                    NEW d \in Requests, NEW a \in AccountIds, NEW u \in Users,
                    AboutToDrop(d, a, u)', Ordered(a, u)'
             PROVE  members'[a][u] = Absent
  BY DEF DropInv
<1>1. CASE UNCHANGED vars
  <2>1. AboutToDrop(d, a, u) /\ Ordered(a, u)
    BY <1>1 DEF vars, AboutToDrop, Ordered, Rewrites, Joins, DropsKey, Is
  <2> QED
    BY <1>1, <2>1 DEF vars, stores, people, DropInv
<1>2. ASSUME NEW t \in Tokens, Lapse(t)
      PROVE  members'[a][u] = Absent
  <2>1. AboutToDrop(d, a, u) /\ Ordered(a, u)
    BY <1>2 DEF Lapse, AboutToDrop, Ordered, Rewrites, Joins, DropsKey, Is
  <2> QED
    BY <1>2, <2>1 DEF Lapse, people, DropInv
<1>3. ASSUME NEW p \in Requests, Step(p)
      PROVE  members'[a][u] = Absent
  <2>0. call' = call /\ pc[p] \notin Answers /\ \A q \in Requests \ {p} : Undisturbed(q)
    BY <1>3, StepFrame
  <2>1. Ordered(a, u)
    BY <2>0 DEF Ordered, Rewrites, Joins, DropsKey, Is
  <2>2. CASE p = d
    BY <1>3, <2>2, DroppersSee
  <2>3. CASE p # d
    <3>1. AboutToDrop(d, a, u)
      BY <2>0, <2>3 DEF AboutToDrop, Undisturbed
    <3>2. members[a][u] = Absent /\ DropsKey(d, a, u)
      BY <2>1, <3>1, DroppersDrop DEF DropInv
    <3>3. pc[d] # "send" /\ pc[d] \notin Answers
      BY <3>1 DEF AboutToDrop, Answers
    <3>4. ~(Rewrites(p, a, u) /\ pc[p] # "send")
      BY <2>0, <2>1, <3>2, <3>3 DEF Ordered, InOrder
    <3> QED
      BY <1>3, <3>2, <3>4, RowWritten
  <2> QED
    BY <2>2, <2>3
<1> QED
  BY <1>1, <1>2, <1>3, NextSteps

(* Who deletes the user goes on to the end.                                 *)
LEMMA SettledBefore ==
    ASSUME TypeInv, PlacedInv, NEW p \in Requests, Step(p), NEW u \in Users, Settled(u)'
    PROVE  Settled(u)
<1> USE DEF Settled, Goto
<1>0. call' = call /\ pc \in [Requests -> Pcs] /\ \A q \in Requests \ {p} : Undisturbed(q)
  BY StepFrame, TypeParts
<1>1. u \in users
  BY UsersChange
<1>2. ASSUME NEW r \in Requests, Is(r, {"destroy"}), call[r].user = u, pc[r] \in ErasedPcs
      PROVE  FALSE
  <2>1. CASE p # r
    BY <1>0, <1>2, <2>1 DEF Undisturbed, Erasing, Is, ErasedPcs
  <2>2. CASE p = r
    <3>1. Send(r) \/ MembershipsOf(r) \/ Destroy(r)
      BY <1>2, <2>2, StepOfHandler DEF Is
    <3>2. ~Send(r)
      BY <1>2 DEF Send, ErasedPcs
    <3>3. ~MembershipsOf(r)
      BY <1>2 DEF MembershipsOf, ListIndex, ReadIndexed, RepairIndex, ListAllRows, ReadScanned, HealIndex, ErasedPcs
    <3>4. ~(DestroyRead(r) \/ SoleOwnerships(r) \/ DropOwnership(r) \/ DeleteAccount(r))
      BY <1>2 DEF DestroyRead, SoleOwnerships, SoleBegin, SoleAccount, SoleJudge, SoleEnd, ListRoster,
         ReadRoster, HasMemberships, DropOwnership, PlanList, PlanRecord, PlanMeta, PlanBlobs, PlanKey, PlanDisown,
         PlanRelease, PlanEnd, WritePlan, DeleteAccount, AccountRead, DropRow, DropHandle,
         DropAccount, DeleteRow, DeleteIndex, ErasedPcs
    <3>5. EraseUser(r) => u \notin users'
      BY <1>2 DEF EraseUser
    <3>6. Erase(r) /\ ~EraseUser(r) => pc'[r] \in ErasedPcs
      BY <1>0, <1>2 DEF Erase, EraseRead, EraseIndexList, EraseIndex, EraseInviteList, EraseInvite,
         ErasePendingList, ErasePending, DeleteRow, ErasedPcs
    <3>7. pc'[r] \notin ErasedPcs
      BY <1>0, <1>2 DEF Erasing, Is, ErasedPcs
    <3> QED
      BY <3>1, <3>2, <3>3, <3>4, <3>5, <3>6, <3>7 DEF Destroy
  <2> QED
    BY <2>1, <2>2
<1> QED
  BY <1>1, <1>2 DEF Erasing, ErasedPcs

(* Of a settled user an index key is dropped only where the row is gone.    *)
LEMMA KeysStand ==
    ASSUME TypeInv, PlacedInv, DropInv, NEW p \in Requests, Step(p), NEW u \in Users, NEW a \in AccountIds,
           Settled(u), Ordered(a, u), members[a][u] # Absent, Key(u, a)
    PROVE  Key(u, a)'
<1>1. ~AboutToDrop(p, a, u)
  BY DEF DropInv
<1>2. ~(EraseIndex(p) /\ call[p].user = u)
  <2>1. EraseIndex(p) => Is(p, {"destroy"}) /\ pc[p] = "erase_index"
    BY TypeParts DEF EraseIndex, Goto, StageOf, Stage, DestroyPcs, ErasePcs, Is
  <2> QED
    BY <2>1 DEF Settled, Erasing
<1> QED
  BY <1>1, <1>2, IndexChange DEF Unindexes

(* What the index knew of the user at the start is only noted.              *)
LEMMA MintKeepsCover ==
    ASSUME TypeInv, PlacedInv, NEW m \in Requests, Step(m), Is(m, {"mint"})
    PROVE  mem'[m].cover = mem[m].cover
<1> USE DEF Holds
<1>0. mem[m] \in Memory /\ mem \in [Requests -> Memory]
  BY TypeParts DEF TypeInv, TypeOK
<1>1. Send(m) \/ MembershipsOf(m) \/ Mint(m)
  BY StepOfHandler DEF Is
<1>2. CASE Send(m)
  BY <1>0, <1>2 DEF Send, Memory
<1>3. CASE ListIndex(m)
  BY <1>0, <1>3 DEF ListIndex, Memory
<1>4. CASE ReadIndexed(m)
  BY <1>0, <1>4 DEF ReadIndexed, Memory
<1>5. CASE RepairIndex(m) \/ HealIndex(m) \/ Mint(m)
  BY <1>5 DEF RepairIndex, HealIndex, Mint
<1>6. CASE ListAllRows(m)
  BY <1>0, <1>6 DEF ListAllRows, Memory
<1>7. CASE ReadScanned(m)
  BY <1>0, <1>7 DEF ReadScanned, Memory
<1> QED
  BY <1>1, <1>2, <1>3, <1>4, <1>5, <1>6, <1>7 DEF MembershipsOf

(* Who wrote a row goes on to index it.                                     *)
LEMMA IndexersIndex ==
    ASSUME TypeInv, PlacedInv, NEW w \in Requests, Step(w), NEW a, NEW u, AboutToIndex(w, a, u)
    PROVE  Key(u, a)'
<1> USE DEF Goto, Is
<1>1. CASE pc[w] = "role_index" /\ call[w].account = a /\ call[w].target = u
  <2>1. Is(w, {"role"})
    BY <1>1, TypeParts DEF PlacedInv, Placed
  <2>2. Send(w) \/ ChangeRole(w)
    BY <2>1, StepOfHandler
  <2>3. PutIndex(w, "role_index", "200", a, u)
    BY <1>1, <2>2 DEF Send, ChangeRole, ListRoster, ReadRoster, PutRole, RefuseRole, PutRow
  <2> QED
    BY <2>3 DEF PutIndex, Key
<1>2. CASE pc[w] = "create_index" /\ call[w].account = a /\ call[w].user = u
  <2>1. Is(w, {"create"})
    BY <1>2, TypeParts DEF StageOf, Stage
  <2>2. Send(w) \/ Claim(w) \/ Create(w) \/ Upgrade(w) \/ Rename(w)
    BY <2>1, StepOfHandler
  <2>3. CreateIndex(w)
    BY <1>2, <2>2 DEF Send, Claim, ClaimHandle, ClaimCheck, Create, CreateAccount, CreateRow, Upgrade,
       UpgradeCheck, UpgradeRead, UpgradeWrite, Rename, RenameRead, RenameRetire, RenameWrite, PutAccount, PutRow
  <2> QED
    BY <1>2, <2>3 DEF CreateIndex, PutIndex, Key
<1>3. CASE pc[w] = "accept_index" /\ mem[w].inv.account = a /\ call[w].user = u
  <2>1. Is(w, {"accept"})
    BY <1>3, TypeParts DEF StageOf, Stage, LoadedPcs
  <2>2. Send(w) \/ Accept(w)
    BY <2>1, StepOfHandler
  <2>3. AcceptIndex(w)
    BY <1>3, <2>2 DEF Send, Accept, LoadInvite, LoadAccount, LoadPending, Verify, AcceptRow, AcceptPending,
       AcceptMark, PutRow, DeleteRow
  <2> QED
    BY <1>3, <2>3 DEF AcceptIndex, PutIndex, Key
<1> QED
  BY <1>1, <1>2, <1>3 DEF AboutToIndex

(* A user whom the index knew completely at the start stays known: a row    *)
(* without a key is being written.                                          *)
KnownWholly(m, a) ==
    LET u == call[m].user
    IN  (/\ Is(m, {"mint"}) /\ mem[m].cover = "all" /\ Ordered(a, u) /\ Settled(u)
         /\ members[a][u] # Absent)
        => Key(u, a) \/ \E w \in Requests : AboutToIndex(w, a, u)

LEMMA StepKeepsKnown ==
    ASSUME TypeInv, PlacedInv, DropInv, NEW m \in Requests, NEW a \in AccountIds, KnownWholly(m, a),
           NEW p \in Requests, Step(p)
    PROVE  KnownWholly(m, a)'
<1> DEFINE u == call[m].user
<1>0. /\ call' = call /\ u \in Users /\ \A q \in Requests \ {p} : Undisturbed(q)
  BY StepFrame, TypeParts, CallType
<1> SUFFICES ASSUME Is(m, {"mint"}), mem'[m].cover = "all", Ordered(a, u)', Settled(u)', members'[a][u] # Absent
             PROVE  Key(u, a)' \/ \E w \in Requests : AboutToIndex(w, a, u)'
  BY <1>0 DEF KnownWholly, Is, Key, Ordered, Settled, Erasing, AboutToIndex, Rewrites, Joins, DropsKey
<1>1. mem[m].cover = "all"
  BY <1>0, MintKeepsCover DEF Undisturbed
<1>2. Settled(u)
  BY <1>0, SettledBefore
<1>3. Ordered(a, u)
  BY <1>0 DEF Ordered, Rewrites, Joins, DropsKey, Is
<1>4. CASE members[a][u] = Absent \/ AboutToIndex(p, a, u)'
  BY <1>0, <1>4, RowWritten
<1>5. CASE members[a][u] # Absent
  <2>1. Key(u, a) \/ \E w \in Requests : AboutToIndex(w, a, u)
    BY <1>1, <1>2, <1>3, <1>5 DEF KnownWholly
  <2>2. CASE Key(u, a)
    BY <1>0, <1>2, <1>3, <1>5, <2>2, KeysStand
  <2>3. ASSUME NEW w \in Requests, AboutToIndex(w, a, u)
        PROVE  Key(u, a)' \/ AboutToIndex(w, a, u)'
    <3>1. CASE w = p
      BY <1>0, <2>3, <3>1, IndexersIndex
    <3>2. CASE w # p
      BY <1>0, <2>3, <3>2 DEF AboutToIndex, Undisturbed
    <3> QED
      BY <3>1, <3>2
  <2> QED
    BY <2>1, <2>2, <2>3
<1> QED
  BY <1>4, <1>5

(* Where nobody writes rows of u, whoever walks over all of them to index   *)
(* what it finds has left out nothing.                                      *)
Unwritten(u) == \A r \in Requests : \A a \in AccountIds : ~Rewrites(r, a, u)

Scanning(h, u) == pc[h] \in {"scan_get", "scan_heal"} /\ call[h].user = u

Backfilling(h) == pc[h] = "backfill"

Healing(h, u) == Scanning(h, u) \/ Backfilling(h)

ToHeal(h, u, a) ==
    \/ Backfilling(h) /\ <<u, a>> \in mem[h].listed
    \/ Scanning(h, u) /\ a \in mem[h].todo
    \/ Scanning(h, u) /\ pc[h] = "scan_heal" /\ a = mem[h].at

Covers(h, u) == \A a \in AccountIds : members[a][u] # Absent => Key(u, a) \/ ToHeal(h, u, a)

Full(u) == \A a \in AccountIds : members[a][u] # Absent => Key(u, a)

LEMMA UnwrittenStand ==
    ASSUME TypeInv, PlacedInv, DropInv, NEW p \in Requests, Step(p), NEW u \in Users, Unwritten(u), Settled(u),
           NEW a \in AccountIds, members'[a][u] # Absent
    PROVE  /\ members'[a][u] = members[a][u]
           /\ Key(u, a) => Key(u, a)'
<1>1. members'[a][u] = members[a][u]
  BY RowWritten DEF Unwritten
<1>2. Ordered(a, u)
  BY DEF Ordered, Unwritten
<1> QED
  BY <1>1, <1>2, KeysStand

(* The healer itself.                                                       *)
LEMMA HealerCovers ==
    ASSUME TypeInv, PlacedInv, DropInv, NEW h \in Requests, Step(h), NEW u \in Users, Unwritten(u), Settled(u),
           Healing(h, u) => Covers(h, u), Healing(h, u)'
    PROVE  Covers(h, u)'
<1> USE DEF Goto, Holds
<1>0. /\ call' = call /\ pc \in [Requests -> Pcs] /\ mem \in [Requests -> Memory] /\ mem[h] \in Memory
      /\ StageOf(h)
  BY StepFrame, TypeParts DEF TypeInv, TypeOK
<1> SUFFICES ASSUME NEW a \in AccountIds, members'[a][u] # Absent, ~Key(u, a)'
             PROVE  ToHeal(h, u, a)'
  BY DEF Covers
<1>1. members[a][u] # Absent /\ members'[a][u] = members[a][u] /\ ~Key(u, a)
  BY UnwrittenStand
<1>2. Healing(h, u) => ToHeal(h, u, a)
  BY <1>1 DEF Covers
<1>3. TypeInv' /\ Placed(h)'
  BY StepKeepsType, StepPlaces
<1>4. CASE Backfilling(h)'
  <2>1. Is(h, {"backfill"})
    BY <1>0, <1>3, <1>4 DEF Placed, Backfilling, BackfillPcs, Is
  <2>2. Send(h) \/ Backfill(h)
    BY <2>1, StepOfHandler DEF Is
  <2>3. BackfillList(h) \/ BackfillPut(h)
    BY <1>0, <1>4, <2>1, <2>2 DEF Send, FirstOf, First, Is, Backfill, BackfillReport, Backfilling
  <2>4. CASE BackfillList(h)
    <3>1. mem'[h].listed = {k \in Users \X AccountIds : members[k[2]][k[1]] # Absent}
      BY <1>0, <2>4 DEF BackfillList, Memory
    <3> QED
      BY <1>1, <1>4, <3>1 DEF ToHeal, Backfilling
  <2>5. CASE BackfillPut(h)
    <3>1. PICK k \in mem[h].listed :
            /\ memberIndex' = memberIndex \cup {memberIndexKey(k[1], k[2])}
            /\ mem' = [mem EXCEPT ![h] = [mem[h] EXCEPT !.listed = @ \ {k}]]
      BY <2>5 DEF BackfillPut
    <3>2. mem'[h].listed = mem[h].listed \ {k} /\ pc[h] = "backfill"
      BY <1>0, <2>5, <3>1 DEF BackfillPut, Memory
    <3>3. <<u, a>> \in mem[h].listed
      BY <1>2, <3>2 DEF Healing, ToHeal, Backfilling, Scanning
    <3>4. k # <<u, a>>
      BY <3>1 DEF Key, memberIndexKey
    <3> QED
      BY <1>4, <3>2, <3>3, <3>4 DEF ToHeal, Backfilling
  <2> QED
    BY <2>3, <2>4, <2>5
<1>5. CASE Scanning(h, u)'
  <2>1. Is(h, {"mint", "destroy"}) /\ call[h].user = u /\ pc'[h] \in {"scan_get", "scan_heal"}
    <3>1. StageOf(h)'
      BY <1>3 DEF TypeInv, StageOK
    <3> QED
      BY <1>0, <1>5, <3>1 DEF Scanning, StageOf, Stage, IndexPcs, Is
  <2>2. Send(h) \/ MembershipsOf(h) \/ Mint(h) \/ Destroy(h)
    BY <2>1, StepOfHandler DEF Is
  <2>3. ~Send(h) /\ ~Mint(h)
    BY <1>0, <2>1 DEF Send, FirstOf, First, Is, Mint
  <2>4. ~Destroy(h)
    <3>1. ~(DestroyRead(h) \/ SoleOwnerships(h) \/ DropOwnership(h))
      BY <1>0, <2>1 DEF DestroyRead, SoleOwnerships, SoleBegin, SoleAccount, SoleJudge, SoleEnd, ListRoster,
         ReadRoster, HasMemberships, DropOwnership, PlanList, PlanRecord, PlanMeta, PlanBlobs, PlanKey, PlanDisown,
         PlanRelease, PlanEnd, WritePlan
    <3>2. ~(DeleteAccount(h) \/ Erase(h))
      BY <1>0, <2>1 DEF DeleteAccount, AccountRead, ListRoster, ReadRoster, DropRow, DropHandle,
         DropAccount, DeleteRow, DeleteIndex, Erase, EraseRead, EraseIndexList, EraseIndex, EraseInviteList,
         EraseInvite, ErasePendingList, ErasePending, EraseUser
    <3> QED
      BY <3>1, <3>2 DEF Destroy
  <2>5. ListAllRows(h) \/ ReadScanned(h) \/ HealIndex(h)
    BY <1>0, <2>1, <2>2, <2>3, <2>4 DEF MembershipsOf, ListIndex, ReadIndexed, RepairIndex
  <2>6. CASE ListAllRows(h)
    <3>1. mem'[h].todo = {b \in AccountIds : members[b][u] # Absent}
      BY <1>0, <2>1, <2>6 DEF ListAllRows, Memory
    <3> QED
      BY <1>1, <1>5, <3>1 DEF ToHeal
  <2>7. CASE ReadScanned(h)
    <3>1. PICK b \in mem[h].todo :
            /\ pc' = [pc EXCEPT ![h] = IF members[b][u] = Absent THEN "scan_get" ELSE "scan_heal"]
            /\ mem' = [mem EXCEPT ![h] = [mem[h] EXCEPT !.todo = @ \ {b}, !.mine[b] = members[b][u], !.at = b]]
            /\ pc[h] = "scan_get"
      BY <2>1, <2>7 DEF ReadScanned
    <3>2. mem'[h].todo = mem[h].todo \ {b} /\ mem'[h].at = b
      BY <1>0, <3>1 DEF Memory
    <3>3. a \in mem[h].todo
      BY <1>2, <2>1, <3>1 DEF Healing, ToHeal, Backfilling, Scanning
    <3>4. a = b => pc'[h] = "scan_heal"
      BY <1>0, <1>1, <3>1
    <3> QED
      BY <1>5, <3>2, <3>3, <3>4 DEF ToHeal
  <2>8. CASE HealIndex(h)
    <3>1. pc[h] = "scan_heal" /\ mem' = mem /\ memberIndex' = memberIndex \cup {memberIndexKey(u, mem[h].at)}
      BY <2>1, <2>8 DEF HealIndex
    <3>2. a # mem[h].at
      BY <3>1 DEF Key, memberIndexKey
    <3>3. a \in mem[h].todo
      BY <1>2, <2>1, <3>1, <3>2 DEF Healing, ToHeal, Backfilling, Scanning
    <3> QED
      BY <1>5, <3>1, <3>3 DEF ToHeal
  <2> QED
    BY <2>5, <2>6, <2>7, <2>8
<1> QED
  BY <1>4, <1>5 DEF Healing

(* A healer ends when all that it found is indexed.                         *)
LEMMA HealerEnds ==
    ASSUME TypeInv, PlacedInv, DropInv, NEW h \in Requests, Step(h), NEW u \in Users, Unwritten(u), Settled(u),
           Healing(h, u), Covers(h, u), ~Healing(h, u)'
    PROVE  Full(u)'
<1> USE DEF Goto, Holds
<1>0. call' = call /\ pc \in [Requests -> Pcs] /\ StageOf(h) /\ Placed(h)
  BY StepFrame, TypeParts DEF PlacedInv
<1>1. \A a \in AccountIds : ~ToHeal(h, u, a)
  <2>1. CASE Backfilling(h)
    <3>1. Is(h, {"backfill"})
      BY <1>0, <2>1 DEF Placed, Backfilling, BackfillPcs
    <3>2. Send(h) \/ Backfill(h)
      BY <3>1, StepOfHandler DEF Is
    <3>3. BackfillReport(h)
      BY <1>0, <2>1, <3>2 DEF Send, Backfill, BackfillList, BackfillPut, Backfilling, Healing
    <3> QED
      BY <2>1, <3>3 DEF BackfillReport, ToHeal, Backfilling, Scanning
  <2>2. CASE Scanning(h, u)
    <3>1. Is(h, {"mint", "destroy"})
      BY <1>0, <2>2 DEF Scanning, StageOf, Stage, IndexPcs, Is
    <3>2. Send(h) \/ MembershipsOf(h) \/ Mint(h) \/ Destroy(h)
      BY <3>1, StepOfHandler DEF Is
    <3>3. ~Send(h) /\ ~MembershipsOf(h)
      BY <1>0, <2>2 DEF Scanning, Healing, Send, MembershipsOf, ListIndex, ReadIndexed, RepairIndex, ListAllRows,
         ReadScanned, HealIndex
    <3>4. Destroy(h) => SoleBegin(h)
      <4>1. ~(DestroyRead(h) \/ DropOwnership(h) \/ Erase(h))
        BY <1>0, <2>2 DEF Scanning, DestroyRead, DropOwnership, PlanList, PlanRecord, PlanMeta, PlanBlobs, PlanKey,
           PlanDisown, PlanRelease, PlanEnd, WritePlan, Erase, EraseRead, EraseIndexList, EraseIndex,
           EraseInviteList, EraseInvite, ErasePendingList, ErasePending, EraseUser, DeleteRow
      <4>2. ~DeleteAccount(h)
        BY <1>0, <2>2 DEF Scanning, DeleteAccount, AccountRead, ListRoster, ReadRoster, DropRow, DropHandle,
           DropAccount, DeleteRow, DeleteIndex
      <4>3. SoleOwnerships(h) => SoleBegin(h)
        BY <1>0, <2>2 DEF Scanning, SoleOwnerships, SoleAccount, SoleJudge, SoleEnd, ListRoster, ReadRoster
      <4> QED
        BY <4>1, <4>2, <4>3 DEF Destroy
    <3>5. HasMemberships(h)
      BY <3>2, <3>3, <3>4 DEF Mint, SoleBegin
    <3> QED
      BY <2>2, <3>5 DEF HasMemberships, ToHeal, Backfilling, Scanning
  <2> QED
    BY <2>1, <2>2 DEF Healing
<1> SUFFICES ASSUME NEW a \in AccountIds, members'[a][u] # Absent
             PROVE  Key(u, a)'
  BY DEF Full
<1>2. members'[a][u] = members[a][u] /\ (Key(u, a) => Key(u, a)')
  BY UnwrittenStand
<1> QED
  BY <1>1, <1>2 DEF Covers

(* A user whom the index did not know at all: it stays unknown, or somebody *)
(* is indexing every row, or every row is indexed.                          *)
Unindexed(u) == \A a \in AccountIds : ~Key(u, a)

HealInv(m) ==
    LET u == call[m].user
    IN  Is(m, {"mint"}) /\ mem[m].cover = "none" /\ Unwritten(u) /\ Settled(u) =>
        /\ \A h \in Requests : Healing(h, u) => Covers(h, u)
        /\ Unindexed(u) \/ Full(u) \/ \E h \in Requests : Healing(h, u)

LEMMA StepHeals ==
    ASSUME TypeInv, PlacedInv, DropInv, NEW m \in Requests, HealInv(m), NEW p \in Requests, Step(p)
    PROVE  HealInv(m)'
<1>0. call' = call /\ call[m].user \in Users /\ \A q \in Requests \ {p} : Undisturbed(q)
  BY StepFrame, TypeParts, CallType
<1>u. PICK u \in Users : u = call[m].user
  BY <1>0
<1> SUFFICES ASSUME Is(m, {"mint"}), mem'[m].cover = "none", Unwritten(u), Settled(u)'
             PROVE  /\ \A h \in Requests : Healing(h, u)' => Covers(h, u)'
                    /\ Unindexed(u)' \/ Full(u)' \/ \E h \in Requests : Healing(h, u)'
  BY <1>0, <1>u DEF HealInv, Is, Unwritten, Rewrites, Joins, Settled, Erasing, Healing, Scanning, Covers, ToHeal,
     Unindexed, Full, Key, Backfilling
<1>1. mem[m].cover = "none"
  BY <1>0, MintKeepsCover DEF Undisturbed
<1>2. Settled(u)
  BY <1>0, SettledBefore
<1>3. /\ \A h \in Requests : Healing(h, u) => Covers(h, u)
      /\ Unindexed(u) \/ Full(u) \/ \E h \in Requests : Healing(h, u)
  BY <1>1, <1>2, <1>u DEF HealInv
<1>4. ASSUME NEW a \in AccountIds, members'[a][u] # Absent
      PROVE  members'[a][u] = members[a][u] /\ (Key(u, a) => Key(u, a)')
  BY <1>0, <1>2, <1>4, UnwrittenStand
<1>5. ASSUME NEW h \in Requests, Healing(h, u)'
      PROVE  Covers(h, u)'
  <2>1. CASE h = p
    BY <1>0, <1>2, <1>3, <1>5, <2>1, HealerCovers
  <2>2. CASE h # p
    <3>1. Healing(h, u) /\ mem'[h] = mem[h] /\ pc'[h] = pc[h]
      BY <1>0, <1>5, <2>2 DEF Undisturbed, Healing, Scanning, Backfilling
    <3>2. Covers(h, u)
      BY <1>3, <3>1
    <3> QED
      BY <1>0, <1>4, <3>1, <3>2 DEF Covers, ToHeal, Scanning, Backfilling, Key
  <2> QED
    BY <2>1, <2>2
<1>6. CASE Full(u)
  BY <1>0, <1>4, <1>5, <1>6 DEF Full, Key
<1>7. ASSUME NEW h \in Requests, Healing(h, u)
      PROVE  Full(u)' \/ Healing(h, u)'
  <2>1. CASE h = p
    BY <1>0, <1>2, <1>3, <1>7, <2>1, HealerEnds
  <2>2. CASE h # p
    BY <1>0, <1>7, <2>2 DEF Undisturbed, Healing, Scanning, Backfilling
  <2> QED
    BY <2>1, <2>2
<1>8. CASE Unindexed(u) /\ ~\E h \in Requests : Healing(h, u)
  <2>1. ASSUME NEW a \in AccountIds
        PROVE  ~Key(u, a)'
    <3>1. ~AboutToIndex(p, a, u)
      BY IndexersRewrite DEF Unwritten
    <3>2. ~(HealIndex(p) /\ call[p].user = u)
      BY <1>8 DEF HealIndex, Goto, Healing, Scanning
    <3>3. ~BackfillPut(p)
      BY <1>8 DEF BackfillPut, Goto, Healing, Backfilling
    <3> QED
      BY <1>0, <1>8, <3>1, <3>2, <3>3, IndexChange DEF Unindexed, Indexes
  <2> QED
    BY <1>0, <1>5, <2>1 DEF Unindexed, Key
<1> QED
  BY <1>3, <1>5, <1>6, <1>7, <1>8

(* What a mint has still to read, or has read: every row that is there.     *)
Shown(m, a) ==
    LET u == call[m].user
    IN  /\ Is(m, {"mint"}) /\ Settled(u) /\ Ordered(a, u) /\ members[a][u] # Absent
        /\ \A w \in Requests : Rewrites(w, a, u) => w \in call[m].after
        /\ mem[m].cover = "all" \/ (mem[m].cover = "none" /\ Alone(m, u))

MintInv(m, a) ==
    LET row == members[a][call[m].user]
    IN  Shown(m, a) =>
        /\ pc[m] \in IndexPcs => a \in mem[m].todo \/ mem[m].mine[a] = row
        /\ pc[m] = "200" => mem[m].mine[a] = row

(* Past sending, nobody writes the row, so it can only go.                  *)
LEMMA ShownBefore ==
    ASSUME TypeInv, InOrder, PlacedInv, NEW m \in Requests, NEW a \in AccountIds, NEW p \in Requests, Step(p),
           Shown(m, a)', pc[m] # "send"
    PROVE  Shown(m, a) /\ members'[a][call[m].user] = members[a][call[m].user]
<1> DEFINE u == call[m].user
<1>0. /\ call' = call /\ u \in Users /\ \A q \in Requests \ {p} : Undisturbed(q)
      /\ pc[p] \notin Answers
  BY StepFrame, TypeParts, CallType
<1>1. /\ Is(m, {"mint"}) /\ Settled(u)' /\ Ordered(a, u) /\ members'[a][u] # Absent
      /\ \A w \in Requests : Rewrites(w, a, u) => w \in call[m].after
      /\ mem'[m].cover = "all" \/ (mem'[m].cover = "none" /\ Alone(m, u))
  BY <1>0 DEF Shown, Is, Settled, Erasing, Ordered, Rewrites, Joins, DropsKey, Alone
<1>2. ~Rewrites(p, a, u)
  BY <1>0, <1>1 DEF InOrder
<1>3. members'[a][u] = members[a][u]
  BY <1>0, <1>1, <1>2, RowWritten
<1>4. Settled(u)
  BY <1>0, <1>1, SettledBefore
<1>5. mem'[m].cover = mem[m].cover
  BY <1>0, <1>1, MintKeepsCover DEF Undisturbed
<1> QED
  BY <1>1, <1>3, <1>4, <1>5 DEF Shown

(* A row that is there is in the index when a mint lists it, unless the     *)
(* index has nothing of the user.                                           *)
LEMMA ListedWholly ==
    ASSUME TypeInv, InOrder, PlacedInv, NEW m \in Requests, NEW a \in AccountIds, Shown(m, a),
           KnownWholly(m, a), HealInv(m), pc[m] = "index_list"
    PROVE  Key(call[m].user, a) \/ Unindexed(call[m].user)
<1> DEFINE u == call[m].user
<1>0. /\ Is(m, {"mint"}) /\ Settled(u) /\ Ordered(a, u) /\ members[a][u] # Absent
      /\ \A w \in Requests : Rewrites(w, a, u) => w \in call[m].after
      /\ mem[m].cover = "all" \/ (mem[m].cover = "none" /\ Alone(m, u))
  BY DEF Shown
<1>1. CASE mem[m].cover = "all"
  <2>1. ASSUME NEW w \in Requests, AboutToIndex(w, a, u)
        PROVE  FALSE
    <3>1. w \in call[m].after
      BY <1>0, <2>1, IndexersRewrite
    <3>2. pc[w] \in Answers
      BY <3>1 DEF InOrder
    <3> QED
      BY <2>1, <3>2 DEF AboutToIndex, Answers
  <2> QED
    BY <1>0, <1>1, <2>1 DEF KnownWholly
<1>2. CASE mem[m].cover = "none" /\ Alone(m, u)
  <2>1. Unwritten(u)
    BY <1>0, <1>2 DEF Unwritten, Alone, Rewrites, Joins, Is
  <2>2. ASSUME NEW h \in Requests, Healing(h, u)
        PROVE  FALSE
    <3>1. pc[h] # "send" /\ pc[h] \notin Answers /\ h # m
      BY <2>2 DEF Healing, Scanning, Backfilling, Answers
    <3>2. h \in call[m].after \/ m \in call[h].after
      BY <1>2, <3>1 DEF Alone
    <3> QED
      BY <3>1, <3>2 DEF InOrder, Answers
  <2>3. Unindexed(u) \/ Full(u)
    BY <1>0, <1>2, <2>1, <2>2 DEF HealInv
  <2> QED
    BY <1>0, <2>3 DEF Full
<1> QED
  BY <1>0, <1>1, <1>2

(* The mint itself.                                                         *)
LEMMA MintShows ==
    ASSUME TypeInv, InOrder, PlacedInv, NEW m \in Requests, NEW a \in AccountIds, Step(m), MintInv(m, a),
           KnownWholly(m, a), HealInv(m)
    PROVE  MintInv(m, a)'
<1> DEFINE u == call[m].user
           row == members[a][u]
<1> USE DEF Goto, Holds
<1>0. /\ call' = call /\ pc \in [Requests -> Pcs] /\ mem \in [Requests -> Memory] /\ mem[m] \in Memory
  BY StepFrame, TypeParts DEF TypeInv, TypeOK
<1> SUFFICES ASSUME Shown(m, a)', pc'[m] \in IndexPcs \cup {"200"}
             PROVE  /\ pc'[m] \in IndexPcs => a \in mem'[m].todo \/ mem'[m].mine[a] = members'[a][u]
                    /\ pc'[m] = "200" => mem'[m].mine[a] = members'[a][u]
  BY <1>0 DEF MintInv
<1> USE DEF IndexPcs
<1>1. Is(m, {"mint"})
  BY <1>0 DEF Shown, Is
<1>2. Send(m) \/ MembershipsOf(m) \/ Mint(m)
  BY <1>1, StepOfHandler DEF Is
<1>3. ~Send(m)
  BY <1>0, <1>1 DEF Send, FirstOf, First, Is
<1>4. pc[m] # "send"
  BY <1>2, <1>3 DEF MembershipsOf, ListIndex, ReadIndexed, RepairIndex, ListAllRows, ReadScanned, HealIndex,
     Mint, HasMemberships
<1>5. Shown(m, a) /\ members'[a][u] = row /\ row # Absent
  <2>1. Shown(m, a) /\ members'[a][u] = row
    BY <1>4, ShownBefore
  <2> QED
    BY <2>1 DEF Shown
<1>6. pc[m] \in IndexPcs => a \in mem[m].todo \/ mem[m].mine[a] = row
  BY <1>5 DEF MintInv
<1>7. CASE ListIndex(m)
  <2>1. Key(u, a) \/ Unindexed(u)
    BY <1>5, <1>7, ListedWholly DEF ListIndex
  <2>2. mem'[m].todo = {b \in AccountIds : Key(u, b)}
    BY <1>0, <1>7 DEF ListIndex, Memory, Key
  <2>3. Unindexed(u) => pc'[m] = "scan_list"
    BY <1>0, <1>7 DEF ListIndex, Unindexed, Key
  <2>4. pc'[m] \in {"index_get", "scan_list"}
    BY <1>0, <1>7 DEF ListIndex
  <2> QED
    BY <2>1, <2>2, <2>3, <2>4
<1>8. CASE ReadIndexed(m) \/ ReadScanned(m)
  <2>1. PICK b \in mem[m].todo :
          mem' = [mem EXCEPT ![m] = [mem[m] EXCEPT !.todo = @ \ {b}, !.mine[b] = members[b][u], !.at = b]]
    BY <1>8 DEF ReadIndexed, RowThroughIndex, ReadScanned
  <2>2. mem'[m].todo = mem[m].todo \ {b} /\ mem'[m].mine = [mem[m].mine EXCEPT ![b] = members[b][u]]
    BY <1>0, <2>1 DEF Memory
  <2>3. mem[m].mine \in Claims
    BY <1>0, MemoryType
  <2>4. pc[m] \in IndexPcs /\ pc'[m] # "200"
    BY <1>0, <1>8 DEF ReadIndexed, ReadScanned
  <2> QED
    BY <1>5, <1>6, <2>2, <2>3, <2>4 DEF Claims
<1>9. CASE RepairIndex(m) \/ HealIndex(m)
  BY <1>0, <1>5, <1>6, <1>9 DEF RepairIndex, HealIndex
<1>10. CASE ListAllRows(m)
  <2>1. mem'[m].todo = {b \in AccountIds : members[b][u] # Absent} /\ pc'[m] = "scan_get"
    BY <1>0, <1>10 DEF ListAllRows, Memory
  <2> QED
    BY <1>5, <2>1
<1>11. CASE Mint(m)
  BY <1>0, <1>5, <1>6, <1>11 DEF Mint, HasMemberships
<1> QED
  BY <1>2, <1>3, <1>7, <1>8, <1>9, <1>10, <1>11 DEF MembershipsOf

ShownInv ==
    /\ DropInv
    /\ \A m \in Requests : HealInv(m) /\ \A a \in AccountIds : KnownWholly(m, a) /\ MintInv(m, a)

LEMMA ShownNext == TypeInv /\ InOrder /\ PlacedInv /\ ShownInv /\ [Next]_vars => ShownInv'
<1> SUFFICES ASSUME TypeInv, InOrder, PlacedInv, ShownInv, [Next]_vars
             PROVE  ShownInv'
  OBVIOUS
<1>0. DropInv'
  BY DropNext DEF ShownInv
<1> SUFFICES ASSUME NEW m \in Requests, NEW a \in AccountIds
             PROVE  HealInv(m)' /\ KnownWholly(m, a)' /\ MintInv(m, a)'
  <2>1. \A m \in Requests : call[m].account \in AccountIds
    BY TypeParts, CallType
  <2> QED
    BY <1>0, <2>1 DEF ShownInv
<1>1. HealInv(m) /\ KnownWholly(m, a) /\ MintInv(m, a) /\ DropInv
  BY DEF ShownInv
<1>2. CASE UNCHANGED <<accounts, members, memberIndex, users, pc, call, mem>>
  BY <1>1, <1>2 DEF HealInv, KnownWholly, MintInv, Shown, Is, Unwritten, Rewrites, Joins, Settled, Erasing, Healing,
     Scanning, Covers, ToHeal, Unindexed, Full, Key, Backfilling, AboutToIndex, Ordered, DropsKey, Alone
<1>3. UNCHANGED vars => UNCHANGED <<accounts, members, memberIndex, users, pc, call, mem>>
  BY DEF vars, stores, people
<1>4. ASSUME NEW t \in Tokens, Lapse(t)
      PROVE  UNCHANGED <<accounts, members, memberIndex, users, pc, call, mem>>
  BY <1>4 DEF Lapse, people
<1>5. ASSUME NEW p \in Requests, Step(p)
      PROVE  HealInv(m)' /\ KnownWholly(m, a)' /\ MintInv(m, a)'
  <2>1. HealInv(m)' /\ KnownWholly(m, a)'
    BY <1>1, <1>5, StepHeals, StepKeepsKnown
  <2>2. CASE p = m
    BY <1>1, <1>5, <2>1, <2>2, MintShows
  <2>3. CASE p # m
    <3>1. mem'[m] = mem[m] /\ pc'[m] = pc[m] /\ call' = call
      BY <1>5, <2>3, StepFrame DEF Undisturbed
    <3>2. CASE pc[m] # "send"
      <4>1. Shown(m, a)' => Shown(m, a) /\ members'[a][call[m].user] = members[a][call[m].user]
        BY <1>5, <3>2, ShownBefore
      <4> QED
        BY <1>1, <2>1, <3>1, <4>1 DEF MintInv, IndexPcs
    <3>3. CASE pc[m] = "send"
      BY <2>1, <3>1, <3>3 DEF MintInv, IndexPcs
    <3> QED
      BY <3>2, <3>3
  <2> QED
    BY <2>1, <2>2, <2>3
<1> QED
  BY <1>2, <1>3, <1>4, <1>5, NextSteps

LEMMA ShownInit == Init => ShownInv
<1> SUFFICES ASSUME Init
             PROVE  ShownInv
  OBVIOUS
<1>1. \A r \in Requests : pc[r] = "send" /\ mem[r] = [Blank EXCEPT !.cover = CoverageOf(call[r].user)]
  BY DEF Init
<1>2. DropInv
  BY <1>1 DEF DropInv, AboutToDrop
<1> SUFFICES ASSUME NEW m \in Requests, NEW a \in AccountIds
             PROVE  HealInv(m) /\ KnownWholly(m, a) /\ MintInv(m, a)
  <2>1. \A m \in Requests : call[m].account \in AccountIds
    BY InitType, TypeParts, CallType
  <2> QED
    BY <1>2, <2>1 DEF ShownInv
<1> DEFINE u == call[m].user
<1>3. mem[m].cover = CoverageOf(u)
  BY <1>1 DEF Blank
<1>4. CoverageOf(u) = "all" => Full(u)
  BY DEF CoverageOf, Full, Key, memberIndexKey
<1>5. CoverageOf(u) = "none" => Unindexed(u)
  BY DEF CoverageOf, Unindexed, Key, memberIndexKey
<1>6. HealInv(m)
  BY <1>1, <1>3, <1>5 DEF HealInv, Healing, Scanning, Backfilling
<1>7. KnownWholly(m, a)
  BY <1>3, <1>4 DEF KnownWholly, Full
<1>8. MintInv(m, a)
  BY <1>1 DEF MintInv, IndexPcs
<1> QED
  BY <1>6, <1>7, <1>8

(* A token claims every membership whose row is there and was so when it    *)
(* was asked for: no repair of the index, no healing and no backfill next   *)
(* to it hides one, if who removes the row does not overlap who writes it.  *)
THEOREM TokensShowMemberships == Spec => []TokenShowsMemberships
<1>1. ShownInv => TokenShowsMemberships
  <2> SUFFICES ASSUME ShownInv, NEW m \in Requests, NEW a \in AccountIds,
                      Is(m, {"mint"}), pc[m] = "200", RowStood(m, a),
                      mem[m].cover = "all" \/ (mem[m].cover = "none" /\ Alone(m, call[m].user))
               PROVE  mem[m].mine[a] = members[a][call[m].user]
    BY DEF TokenShowsMemberships
  <2>1. Shown(m, a)
    BY DEF Shown, RowStood, Settled, Ordered
  <2> QED
    BY <2>1 DEF ShownInv, MintInv
<1> QED
  BY <1>1, OrderInvariant, ShownInit, ShownNext, PTL DEF Spec
=============================================================================
