------------------------------ MODULE Accounts ------------------------------
(***************************************************************************)
(* Accounts, handles, members and invitations together: every request of   *)
(* accounts.js and invitations.js that writes, next to the minting of      *)
(* tokens and the backfill of the member index.                            *)
(***************************************************************************)
EXTENDS Membership, Handles, AccountDeletion

Seed == [accounts : [AccountIds -> Account \cup {Absent}],
         handles : [HandleNames -> HandleRec \cup {Absent}],
         invites : [Tokens -> Invite \cup {Absent}],
         members : [AccountIds -> [Keys -> Roles \cup {Absent}]],
         memberIndex : SUBSET (Users \X AccountIds),
         expiryIndex : SUBSET Tokens, lapsed : SUBSET Tokens, users : SUBSET Users,
         plans : [AccountIds -> [Slugs -> Plan \cup {Absent}]],
         access : [Users -> Claims]]

(* An entry after dropAccountOwnership: its record has no ownerAccountId,   *)
(* and its meta.json neither the account as ownerId nor grantees.           *)
Dropped(plan) == "ownerAccountId" \notin plan.record /\ ~plan.owned /\ plan.doc # "shared"

(* No account goes by a name that is not its own, and only an account that  *)
(* is there has an entry that is not dropped.                               *)
Consistent(w) ==
    \A a \in AccountIds :
        /\ w.accounts[a] # Absent /\ w.accounts[a].handle # Absent =>
             LET rec == w.handles[w.accounts[a].handle] IN rec # Absent /\ rec.account = a
        /\ \A s \in Slugs : w.plans[a][s] # Absent =>
             /\ w.plans[a][s].owned => w.plans[a][s].doc # Absent
             /\ w.accounts[a] = Absent => Dropped(w.plans[a][s])

(* Ids are random: an invite and a create draw one that nobody else has,    *)
(* and who names the account of a create comes after it.                    *)
FreshIds(w, calls) ==
    \A r \in Requests :
        LET c == calls[r]
        IN  /\ c.op = "invite" =>
                /\ w.invites[c.token] = Absent /\ c.token \notin w.lapsed
                /\ \A p \in Requests \ {r} : calls[p].op = "invite" => calls[p].token # c.token
            /\ c.op = "create" =>
                \A p \in Requests \ {r} : calls[p].account = c.account => r \in calls[p].after

ASSUME AccountsAssumption ==
    /\ AddressOf \in [Users -> Emails]
    /\ Absent \notin Keys \cup AccountIds \cup HandleNames \cup Tokens \cup Slugs \cup Roles
    /\ Absent \notin {"draft", "shared", "published"}
    /\ Absent \notin Account \cup HandleRec \cup Invite \cup Plan
    /\ Users \cap Emails = {}
    /\ \A s \in Starts :
        /\ s.seed \in Seed /\ s.calls \in [Requests -> Call]
        /\ Consistent(s.seed) /\ FreshIds(s.seed, s.calls)
        /\ \A r \in Requests :
            LET c == s.calls[r]
            IN  /\ c.op = "rename" => c.handle # Absent
                /\ c.op \in {"invite", "accept"} => c.token # Absent
                /\ c.op \in {"invite", "withdraw"} => c.target \in Emails
                /\ c.op = "remove" => c.target \in Users

Init ==
    /\ \E s \in Starts :
        /\ accounts = s.seed.accounts
        /\ handles = s.seed.handles
        /\ invites = s.seed.invites
        /\ members = s.seed.members
        /\ memberIndex = s.seed.memberIndex
        /\ expiryIndex = s.seed.expiryIndex
        /\ lapsed = s.seed.lapsed
        /\ users = s.seed.users
        /\ plans = s.seed.plans
        /\ access = s.seed.access
        /\ call = s.calls
    /\ pc = [r \in Requests |-> "send"]
    /\ mem = [r \in Requests |-> [Blank EXCEPT !.cover = CoverageOf(call[r].user)]]

-----------------------------------------------------------------------------
(* The access token decides, and it says what was so when it was minted.    *)
IsOwner(r) == access[call[r].user][call[r].account] = "owner"

Authorised(r) ==
    CASE Is(r, {"upgrade", "rename", "invite", "role", "withdraw", "destroy"}) -> IsOwner(r)
      [] Is(r, {"remove"}) -> IsOwner(r) \/ call[r].target = call[r].user
      [] Is(r, {"create", "accept", "mint", "backfill"}) -> TRUE

First == [upgrade |-> "upgrade_check", rename |-> "rename_read", invite |-> "invite_account",
          accept |-> "load_invite", withdraw |-> "withdraw_read", role |-> "role_list",
          remove |-> "remove_list", destroy |-> "destroy_read", mint |-> "index_list",
          backfill |-> "backfill_list", create |-> "claim"]

FirstOf(r) == IF Is(r, {"create"}) /\ call[r].handle = Absent THEN "create_account"
              ELSE First[call[r].op]

Send(r) ==
    /\ \A p \in call[r].after : pc[p] \in Answers
    /\ Goto(r, "send", IF Authorised(r) THEN FirstOf(r) ELSE "403")
    /\ Holds(r, [mem[r] EXCEPT !.old = lapsed])
    /\ UNCHANGED <<stores, call>>

(* Fourteen days go by.                                                     *)
Lapse(t) ==
    /\ t \notin lapsed /\ invites[t] # Absent
    /\ lapsed' = lapsed \cup {t}
    /\ UNCHANGED <<accounts, handles, people, letters, users, plans, access, pc, call, mem>>

Step(r) ==
    \/ Send(r)
    \/ MembershipsOf(r) \/ Mint(r) \/ ChangeRole(r) \/ Remove(r) \/ Withdraw(r)
    \/ DoInvite(r) \/ Accept(r) \/ Backfill(r)
    \/ Claim(r) \/ Create(r) \/ Upgrade(r) \/ Rename(r)
    \/ Destroy(r)

Answered(r) == pc[r] \in Answers

Done == (\A r \in Requests : Answered(r)) /\ UNCHANGED vars

Next == (\E r \in Requests : Step(r)) \/ (\E t \in Tokens : Lapse(t)) \/ Done

Spec == Init /\ [][Next]_vars

(* A function that is not killed resumes when its call completes.           *)
FairSpec == Spec /\ \A r \in Requests : WF_vars(Step(r))

-----------------------------------------------------------------------------
Pcs == Answers \cup {"send", "index_list", "index_get", "index_repair", "scan_list",
    "scan_get", "scan_heal", "role_list", "role_row", "role_index", "remove_list",
    "remove_row", "remove_index", "withdraw_read", "withdraw_row", "invite_account",
    "sweep_list", "sweep", "sweep_unindex", "catch_up", "catch_up_drop", "catch_up_index",
    "put_expiry", "put_pending", "mail", "load_invite", "load_account", "load_pending",
    "verify", "accept_row", "accept_index", "accept_pending", "accept_mark",
    "backfill_list", "backfill", "claim", "claim_check", "create_account", "create_row",
    "create_index", "upgrade_check", "upgrade_read", "upgrade_write", "rename_read",
    "retire", "rename_write", "destroy_read", "sole_account", "sole_list", "sole_row",
    "plan_list", "plan_record", "plan_meta", "plan_blobs", "plan_key", "plan_disown",
    "plan_release", "account_read", "drop_list", "drop_row", "drop_index", "drop_account",
    "erase_read", "erase_index_list", "erase_index", "erase_invite", "erase_pending"}

(* Every store holds records of its shape, and a handler what it can hold.  *)
TypeOK ==
    /\ accounts \in [AccountIds -> Account \cup {Absent}]
    /\ handles \in [HandleNames -> HandleRec \cup {Absent}]
    /\ invites \in [Tokens -> Invite \cup {Absent}]
    /\ members \in [AccountIds -> [Keys -> Roles \cup {Absent}]]
    /\ memberIndex \subseteq Users \X AccountIds
    /\ expiryIndex \subseteq Tokens
    /\ lapsed \subseteq Tokens
    /\ users \subseteq Users
    /\ plans \in [AccountIds -> [Slugs -> Plan \cup {Absent}]]
    /\ access \in [Users -> Claims]
    /\ pc \in [Requests -> Pcs]
    /\ call \in [Requests -> Call]
    /\ mem \in [Requests -> Memory]

-----------------------------------------------------------------------------
(* Somebody who joins is in the row of (a, u): by these requests.           *)
Joins(r, a, u) ==
    \/ Is(r, {"create"}) /\ call[r].account = a /\ call[r].user = u
    \/ Is(r, {"accept"}) /\ call[r].user = u

Rewrites(r, a, u) ==
    \/ Joins(r, a, u)
    \/ Is(r, {"role"}) /\ call[r].account = a /\ call[r].target = u

(* A token minted after a removal was answered does not claim the account,  *)
(* whatever the removal, other mints and the backfill did to the derived    *)
(* index meanwhile: an index entry on its own grants nothing.               *)
RemovalTakesEffect ==
    \A r, m \in Requests :
        LET a == call[r].account
            u == call[r].target
        IN  (/\ Is(r, {"remove"}) /\ pc[r] = "204"
             /\ Is(m, {"mint"}) /\ pc[m] = "200" /\ r \in call[m].after /\ call[m].user = u
             /\ \A p \in Requests : ~Rewrites(p, a, u))
            => mem[m].mine[a] = Absent

Alone(m, u) ==
    \A r \in Requests \ {m} :
        /\ r \in call[m].after \/ m \in call[r].after
        /\ \A a \in AccountIds : ~Rewrites(r, a, u)

Erasing(u) == \E r \in Requests :
    /\ Is(r, {"destroy"}) /\ call[r].user = u
    /\ pc[r] \in {"erase_index_list", "erase_index", "erase_invite", "erase_pending"}

(* A request that may delete the index key of u for a: it removes the row,  *)
(* or found none.                                                           *)
DropsKey(r, a, u) ==
    \/ Is(r, {"remove"}) /\ call[r].account = a /\ call[r].target = u
    \/ Is(r, {"destroy"}) /\ call[r].account = a
    \/ Is(r, {"mint", "destroy"}) /\ call[r].user = u

(* The row is there, was so when m was sent, and nobody who removes it or   *)
(* misses it overlapped who wrote it.                                       *)
RowStood(m, a) ==
    LET u == call[m].user
    IN  /\ members[a][u] # Absent
        /\ u \in users /\ ~Erasing(u)
        /\ \A p \in Requests : Rewrites(p, a, u) =>
            /\ p \in call[m].after
            /\ \A q \in Requests : DropsKey(q, a, u) => p \in call[q].after \/ q \in call[p].after

(* A token claims every account whose row was there all the time it was     *)
(* being minted: neither the index and its repair nor the scan and its      *)
(* healing hide a membership.  It is stated for users the index knew        *)
(* completely at the start, and for users it did not know at all if nothing *)
(* else indexes them: one membership indexed hides the others.              *)
TokenShowsMemberships ==
    \A m \in Requests : \A a \in AccountIds :
        (/\ Is(m, {"mint"}) /\ pc[m] = "200" /\ RowStood(m, a)
         /\ \/ mem[m].cover = "all"
            \/ mem[m].cover = "none" /\ Alone(m, call[m].user))
        => mem[m].mine[a] = members[a][call[m].user]

Destroying(a) ==
    \E r \in Requests : /\ Is(r, {"destroy"}) /\ call[r].account = a
                        /\ pc[r] \in {"drop_row", "drop_index", "drop_account"}

Founding(a) == \E r \in Requests : Is(r, {"create"}) /\ call[r].account = a /\ pc[r] = "create_row"

(* An organisation always keeps an accepted owner, from its founding to its *)
(* deletion.  Two owners who leave at once break it.                        *)
OrganisationKeepsOwner ==
    \A a \in AccountIds :
        accounts[a] # Absent /\ accounts[a].type = "organization"
          /\ ~Destroying(a) /\ ~Founding(a)
        => \E u \in Users : members[a][u] = "owner"

(* The handle an account goes by leads to that account, at every point a    *)
(* claim, a rename or an upgrade can stop and whoever else wants the name.  *)
HandleIsOwn ==
    \A a \in AccountIds :
        accounts[a] # Absent /\ accounts[a].handle # Absent /\ ~Destroying(a)
        => LET rec == handles[accounts[a].handle] IN rec # Absent /\ rec.account = a

Held(a) == \E s \in Slugs : plans[a][s] # Absent /\ plans[a][s].doc # Absent

Registry == INSTANCE HandleRegistry WITH
    Free <- Absent,
    bound <- [h \in HandleNames |-> IF handles[h] = Absent THEN Absent ELSE handles[h].account],
    needed <- {a \in AccountIds : Held(a)}

(* Claiming, renaming and deleting implement the registry of handles.       *)
KeepsRegistry == Registry!Spec

(* What an account leaves in the catalog was dropped before the account     *)
(* went, entry by entry and in both of its blobs, wherever the deletion     *)
(* stops: no ownerAccountId of a record and no ownerId of a meta.json is an *)
(* account that is gone, and nothing is still shared by it.  The ownerId of *)
(* a record is not among what is dropped (RetainedIsAnonymous).             *)
OwnershipDropped ==
    \A a \in AccountIds : \A s \in Slugs :
        accounts[a] = Absent /\ plans[a][s] # Absent => Dropped(plans[a][s])

(* An invitation that had lapsed before an invite was sent is gone when its *)
(* sweep is over, whether or not the expiry index knew it, unless it is     *)
(* being accepted meanwhile, which puts the record back.                    *)
SweptIsGone ==
    \A r \in Requests :
        Is(r, {"invite"}) /\ pc[r] \in {"put_expiry", "put_pending", "mail", "201"}
        => \A t \in mem[r].old :
              \/ invites[t] = Absent
              \/ \E p \in Requests : Is(p, {"accept"}) /\ call[p].token = t /\ p \notin call[r].after

(* Requests that may bring back something of what r deletes: those that     *)
(* meet it, and an invite of an erased user whose token is still good.      *)
Reviving(p, r) ==
    \/ Is(p, {"invite"}) /\ p \notin call[r].after
    \/ Is(p, {"role", "accept"}) /\ p \notin call[r].after /\ r \notin call[p].after

IsOf(u, inv) == inv # Absent /\ (inv.invitedBy = u \/ inv.email = AddressOf[u])

(* A deletion that was answered has left no row of the account, and for a   *)
(* personal account no trace of the user: no invitation either way and no   *)
(* pending row anywhere.                                                    *)
DeletedLeavesNothing ==
    \A r \in Requests :
        LET u == call[r].user
        IN  (/\ Is(r, {"destroy"}) /\ pc[r] = "200"
             /\ \A p \in Requests : ~Reviving(p, r))
            => /\ Rows(call[r].account) = {}
               /\ mem[r].personal =>
                    /\ u \notin users
                    /\ \A t \in Tokens : ~IsOf(u, invites[t])
                    /\ \A a \in AccountIds : members[a][AddressOf[u]] = Absent

(* Every request is answered: no handler waits for another, and every walk  *)
(* over a listing ends.                                                     *)
EveryCallAnswered == \A r \in Requests : <>Answered(r)

-----------------------------------------------------------------------------
(* What the code says and does not do.                                      *)

(* accounts.js: an organisation always keeps one accepted owner.  The       *)
(* deletion of a personal account leaves the rows of its user in other      *)
(* organisations, and the last-owner guard goes on counting them.           *)
OrganisationHasLivingOwner ==
    \A a \in AccountIds :
        accounts[a] # Absent /\ accounts[a].type = "organization"
          /\ ~Destroying(a) /\ ~Founding(a)
        => \E u \in users : members[a][u] = "owner"

(* Who owns an entry, as the uploads and the policy changes decide it.      *)
OwnerOf(a, s) ==
    LET plan == plans[a][s]
    IN  IF "ownerId" \in plan.record \/ plan.owned THEN a ELSE Absent

(* api.md: what a deleted account published loses its owner and behaves     *)
(* like an anonymous plan.  The ownerId of the index record stays, and it   *)
(* decides before the one of meta.json.                                     *)
RetainedIsAnonymous ==
    \A a \in AccountIds : \A s \in Slugs :
        accounts[a] = Absent /\ plans[a][s] # Absent => OwnerOf(a, s) = Absent
=============================================================================
