--------------------------- MODULE AccountStores ---------------------------
(***************************************************************************)
(* The blob stores behind accounts, members, handles and invitations       *)
(* (netlify/functions/lib/identity.js), the requests that work on them,    *)
(* and the two ways the handlers read members: an account's roster and a   *)
(* user's memberships.                                                     *)
(*                                                                         *)
(* As in DrillCatalog a request is a process and a step is one awaited     *)
(* call on one key, or one listing.  What a handler computes between two   *)
(* awaits belongs to one of the two steps.  A listing is walked in any     *)
(* order.  Accounts, members, handles, invitations and users are read       *)
(* strongly.  The deletion reads the catalog's index and meta.json through  *)
(* the edge cache; here the cache is up to date with entries written before *)
(* the behaviour starts.                                                    *)
(***************************************************************************)
EXTENDS FiniteSets, BlobStore

CONSTANTS
    Requests,     \* the requests of a behaviour
    Users,
    Emails,       \* normalised addresses
    AddressOf,    \* the verified address of each user
    AccountIds,
    HandleNames,
    Tokens,       \* of invitations
    Slugs,        \* plan names, per account
    Starts        \* what a behaviour may start from: a seed and the requests

(* A member row is <account>/<userId> or <account>/pending:<address>.  Rows *)
(* of users are always accepted and pending rows never are, so a row is     *)
(* its role.                                                                *)
Roles == {"owner", "member", "guest"}
Keys == Users \cup Emails
NoRows == [k \in Keys |-> Absent]
NoClaims == [a \in AccountIds |-> Absent]
Claims == [AccountIds -> Roles \cup {Absent}]

Account == [type : {"personal", "organization"}, handle : HandleNames \cup {Absent}]

(* A claimed handle, or with `tombstone` a retired one and where it leads.  *)
HandleRec == [account : AccountIds, tombstone : BOOLEAN, redirectsTo : HandleNames \cup {Absent}]

Invite == [account : AccountIds, email : Emails, role : Roles, invitedBy : Users,
           accepted : BOOLEAN]

(* An entry <account>/<slug> of the catalog: the fields of its index record *)
(* that name the account, what its meta.json is (a draft, one shared with   *)
(* other accounts only, or a published one), and whether meta.ownerId names *)
(* the account.                                                             *)
Plan == [record : SUBSET {"ownerId", "ownerAccountId"},
         doc : {"draft", "shared", "published", Absent}, owned : BOOLEAN]

Ops == {"create", "upgrade", "rename", "invite", "accept", "withdraw", "role", "remove",
        "destroy", "mint", "backfill"}

(* `after` are the requests that are answered before this one is sent.      *)
(* `account` and `token` are the ids a create and an invite draw: newId is  *)
(* random, so no two draw the same.                                         *)
Call == [op : Ops, user : Users, account : AccountIds, target : Keys \cup {Absent},
         role : Roles, handle : HandleNames \cup {Absent}, token : Tokens \cup {Absent},
         release : BOOLEAN, after : SUBSET Requests]

VARIABLES
    accounts, handles, invites,  \* each a record or Absent per key
    members,       \* the rows of each account
    memberIndex,   \* the keys <userId>/<account>
    expiryIndex,   \* the tokens with a key <expiresAt>/<token>
    lapsed,        \* tokens whose fourteen days are over
    users,         \* the user records (with their email-index entries)
    plans,         \* the catalog entries of each account
    access,        \* the roles each user's access token claims
    pc, call,
    mem            \* what the handler of each request holds

people == <<members, memberIndex>>
letters == <<invites, expiryIndex>>
stores == <<accounts, handles, people, letters, lapsed, users, plans, access>>
vars == <<stores, pc, call, mem>>

Answers == {"200", "201", "204", "400", "403", "404", "409", "410", "500"}

(* How many of a user's rows the member index knows.                        *)
Coverages == {"all", "some", "none"}
CoverageOf(u) ==
    LET rows == {a \in AccountIds : members[a][u] # Absent}
        indexed == {a \in AccountIds : <<u, a>> \in memberIndex}
    IN  CASE rows \subseteq indexed -> "all"
          [] ~(rows \subseteq indexed) /\ indexed = {} -> "none"
          [] ~(rows \subseteq indexed) /\ indexed # {} -> "some"

(* What a handler may hold across awaits.  The properties refer to the last *)
(* two: what was so at the start and when the request was sent.             *)
Memory == [todo : SUBSET (Keys \cup AccountIds \cup Tokens \cup Slugs), \* left of a listing
           roster : [Keys -> Roles \cup {Absent}],  \* member rows read
           mine : Claims,                           \* memberships read
           left : SUBSET AccountIds,                \* of them, still to look at
           listed : SUBSET (Users \X AccountIds),   \* index keys to write
           at : Keys \cup AccountIds \cup Tokens \cup Slugs \cup {Absent}, \* the one in hand
           rec : Account \cup {Absent}, inv : Invite \cup {Absent}, plan : Plan \cup {Absent},
           stuck : BOOLEAN, kept : BOOLEAN, personal : BOOLEAN,
           known : SUBSET Tokens,                   \* what the expiry index listed
           old : SUBSET Tokens,                     \* what had lapsed when it was sent
           cover : Coverages]                       \* what the index knew of the user at the start

Blank == [todo |-> {}, roster |-> NoRows, mine |-> NoClaims, left |-> {}, listed |-> {},
          at |-> Absent, rec |-> Absent, inv |-> Absent, plan |-> Absent, stuck |-> FALSE, kept |-> FALSE,
          personal |-> FALSE, known |-> {}, old |-> {}, cover |-> "all"]

(* Request r makes the call `from` and goes on to `to`, or answers it.      *)
Goto(r, from, to) == pc[r] = from /\ pc' = [pc EXCEPT ![r] = to]

Holds(r, m) == mem' = [mem EXCEPT ![r] = m]

Is(r, ops) == call[r].op \in ops

(* Bug: the parts swapped.                                                  *)
memberIndexKeySwapped(u, a) == <<a, u>>

memberIndexKey(u, a) == <<u, a>>

-----------------------------------------------------------------------------
(* membersOf: the rows of an account, listed and then read one by one.      *)
Rows(a) == {k \in Keys : members[a][k] # Absent}

ListRoster(r, from, to, a) ==
    /\ Goto(r, from, to)
    /\ Holds(r, [mem[r] EXCEPT !.todo = Rows(a), !.roster = NoRows])
    /\ UNCHANGED <<stores, call>>

ReadRoster(r, at, a) ==
    /\ pc[r] = at
    /\ \E k \in mem[r].todo :
        Holds(r, [mem[r] EXCEPT !.todo = @ \ {k}, !.roster[k] = members[a][k]])
    /\ UNCHANGED <<stores, pc, call>>

(* Bug: an invited owner counts.                                            *)
acceptedOwnersOrInvited(roster) == {k \in Keys : roster[k] = "owner"}

acceptedOwners(roster) == {k \in Users : roster[k] = "owner"}

IsLastOwner(roster, k) == acceptedOwners(roster) = {k}

-----------------------------------------------------------------------------
(* membershipsOf: the accounts of a user from the index.  A key whose row   *)
(* is gone is dropped.                                                      *)
ListIndex(r) ==
    LET indexed == {a \in AccountIds : memberIndexKey(call[r].user, a) \in memberIndex}
    IN  /\ Goto(r, "index_list", IF indexed = {} THEN "scan_list" ELSE "index_get")
        /\ Holds(r, [mem[r] EXCEPT !.todo = indexed, !.mine = NoClaims])
        /\ UNCHANGED <<stores, call>>

(* Bug: the index entry is believed.                                        *)
RowThroughIndexKept(r, a) == IF members[a][call[r].user] = Absent THEN "member"
                             ELSE members[a][call[r].user]

(* Only the row says what the membership is.                                *)
RowThroughIndex(r, a) == members[a][call[r].user]

ReadIndexed(r) ==
    \E a \in mem[r].todo :
        LET row == RowThroughIndex(r, a)
        IN  /\ Goto(r, "index_get", IF row = Absent THEN "index_repair" ELSE "index_get")
            /\ Holds(r, [mem[r] EXCEPT !.todo = @ \ {a}, !.mine[a] = row, !.at = a])
            /\ UNCHANGED <<stores, call>>

RepairIndex(r) ==
    /\ Goto(r, "index_repair", "index_get")
    /\ memberIndex' = memberIndex \ {memberIndexKey(call[r].user, mem[r].at)}
    /\ UNCHANGED <<accounts, handles, members, letters, lapsed, users, plans, access, call, mem>>

(* scanMemberships: nobody indexed the user yet.  All rows are walked and   *)
(* what is found is indexed on the way.                                     *)
ListAllRows(r) ==
    /\ Goto(r, "scan_list", "scan_get")
    /\ Holds(r, [mem[r] EXCEPT !.todo = {a \in AccountIds : members[a][call[r].user] # Absent}])
    /\ UNCHANGED <<stores, call>>

ReadScanned(r) ==
    \E a \in mem[r].todo :
        LET row == members[a][call[r].user]
        IN  /\ Goto(r, "scan_get", IF row = Absent THEN "scan_get" ELSE "scan_heal")
            /\ Holds(r, [mem[r] EXCEPT !.todo = @ \ {a}, !.mine[a] = row, !.at = a])
            /\ UNCHANGED <<stores, call>>

HealIndex(r) ==
    /\ Goto(r, "scan_heal", "scan_get")
    /\ memberIndex' = memberIndex \cup {memberIndexKey(call[r].user, mem[r].at)}
    /\ UNCHANGED <<accounts, handles, members, letters, lapsed, users, plans, access, call, mem>>

MembershipsOf(r) ==
    \/ ListIndex(r) \/ ReadIndexed(r) \/ RepairIndex(r)
    \/ ListAllRows(r) \/ ReadScanned(r) \/ HealIndex(r)

HasMemberships(r) == pc[r] \in {"index_get", "scan_get"} /\ mem[r].todo = {}

(* The two calls of putMember.                                              *)
PutRow(r, from, to, a, u, role) ==
    /\ Goto(r, from, to)
    /\ members' = [members EXCEPT ![a][u] = role]
    /\ UNCHANGED <<accounts, handles, memberIndex, letters, lapsed, users, plans, access, call>>

PutIndex(r, from, to, a, u) ==
    /\ Goto(r, from, to)
    /\ memberIndex' = memberIndex \cup {memberIndexKey(u, a)}
    /\ UNCHANGED <<accounts, handles, members, letters, lapsed, users, plans, access, call, mem>>

(* The two calls of removeMember.                                           *)
DeleteRow(r, from, to, a, k) ==
    /\ Goto(r, from, to)
    /\ members' = [members EXCEPT ![a][k] = Absent]
    /\ UNCHANGED <<accounts, handles, memberIndex, letters, lapsed, users, plans, access, call>>

DeleteIndex(r, from, to, a, u) ==
    /\ Goto(r, from, to)
    /\ memberIndex' = memberIndex \ {memberIndexKey(u, a)}
    /\ UNCHANGED <<accounts, handles, members, letters, lapsed, users, plans, access, call, mem>>
=============================================================================
