----------------------------- MODULE MCAccounts -----------------------------
(***************************************************************************)
(* Instances of Accounts for TLC.  An organisation o, the personal         *)
(* accounts p of u1 and q of u2, and n that a create may draw.             *)
(***************************************************************************)
EXTENDS Accounts, TLC

CONSTANTS u1, u2, e1, e2, o, p, q, n, h1, h2, h3, t1, t2, s1, s2, r1, r2, r3

Addresses == u1 :> e1 @@ u2 :> e2

Org == [type |-> "organization", handle |-> h1]
Personal(h) == [type |-> "personal", handle |-> h]

Live(a) == [account |-> a, tombstone |-> FALSE, redirectsTo |-> Absent]

InviteTo(e, role) == [account |-> o, email |-> e, role |-> role, invitedBy |-> u1, accepted |-> FALSE]

NoPlans == [s \in Slugs |-> Absent]

(* u1 owns o, and u2 has `row` in it; both own a personal account, everything is indexed. *)
World(row) ==
    LET rows == [a \in AccountIds |->
            CASE a = o -> [NoRows EXCEPT ![u1] = "owner", ![u2] = row]
              [] a = p -> [NoRows EXCEPT ![u1] = "owner"]
              [] a = q -> [NoRows EXCEPT ![u2] = "owner"]
              [] a = n -> NoRows]
    IN  [accounts |-> o :> Org @@ p :> Personal(h2) @@ q :> Personal(Absent) @@ n :> Absent,
         handles |-> h1 :> Live(o) @@ h2 :> Live(p) @@ h3 :> Absent,
         invites |-> [t \in Tokens |-> Absent],
         members |-> rows,
         memberIndex |-> {k \in Users \X AccountIds : rows[k[2]][k[1]] # Absent},
         expiryIndex |-> {}, lapsed |-> {}, users |-> Users,
         plans |-> [a \in AccountIds |-> NoPlans],
         access |-> [u \in Users |-> [a \in AccountIds |-> rows[a][u]]]]

(* The rows of u2 as they were before there was an index.                   *)
Unindexed(w) == [w EXCEPT !.memberIndex = {k \in @ : k[1] # u2}]

(* What a removal that stopped half way, or a backfill next to one, leaves. *)
StaleIndex(w) == [w EXCEPT !.memberIndex = @ \cup {<<u2, o>>}]

(* u2 was invited; the expiry index may have missed it.                     *)
Invited(w, role, indexed) ==
    [w EXCEPT !.invites[t1] = InviteTo(e2, role), !.members[o][e2] = role,
              !.expiryIndex = IF indexed THEN {t1} ELSE {}]

WithPlans(w, a, x, y) ==
    LET entry(doc) == [record |-> {"ownerId", "ownerAccountId"}, doc |-> doc, owned |-> doc # Absent]
    IN  [w EXCEPT !.plans[a] = s1 :> entry(x) @@ s2 :> entry(y)]

Nothing == [op |-> "backfill", user |-> u1, account |-> o, target |-> Absent, role |-> "member",
            handle |-> Absent, token |-> Absent, release |-> FALSE, after |-> {}]

By(u, op, a) == [Nothing EXCEPT !.user = u, !.op = op, !.account = a]
On(u, op, k, role) == [By(u, op, o) EXCEPT !.target = k, !.role = role]
Named(u, op, a, h) == [By(u, op, a) EXCEPT !.handle = h]
InviteCall(u, e, role, t) == [On(u, "invite", e, role) EXCEPT !.token = t]
AcceptCall(u, t) == [By(u, "accept", o) EXCEPT !.token = t]
After(rs, c) == [c EXCEPT !.after = rs]
MintFor(u) == By(u, "mint", o)

Together(seeds, A, B, C) ==
    {[seed |-> s, calls |-> r1 :> x @@ r2 :> y @@ r3 :> z] : s \in seeds, x \in A, y \in B, z \in C}

-----------------------------------------------------------------------------
(* A removal next to mints and a backfill, one mint after it.               *)
RemovalStarts ==
    Together({World("member"), Unindexed(World("member")), World("owner")},
             {On(u1, "remove", u2, "member"), On(u2, "remove", u2, "member")},
             {MintFor(u2), Nothing}, {After({r1}, MintFor(u2))})

(* Owners made and unmade one after another, with tokens old and new.       *)
OwnerStarts ==
    Together({World("member"), World("owner"), Invited(World("member"), "owner", TRUE)},
             {On(u1, "role", u2, x) : x \in Roles} \cup {On(u2, "remove", u2, "member")},
             {After({r1}, MintFor(u2)), After({r1}, On(u1, "remove", u1, "member"))},
             {After({r1, r2}, c) : c \in {On(u2, "role", u1, "guest"), On(u2, "remove", u1, "member"),
                                         On(u1, "role", u1, "guest")}})

(* An invitation accepted, withdrawn, repeated; then a token.               *)
InviteSeeds == {Invited(World(Absent), "member", TRUE), Invited(World(Absent), "owner", FALSE)}

InviteStarts ==
    Together(InviteSeeds, {AcceptCall(u2, t1)},
             {MintFor(u2), Nothing, AcceptCall(u1, t1), AcceptCall(u2, t1), On(u1, "withdraw", e2, "member")},
             {After({r1}, MintFor(u2))})
    \cup Together(InviteSeeds, {On(u1, "withdraw", e2, "member")},
             {After({r1}, AcceptCall(u2, t1)), After({r1}, InviteCall(u1, e2, "guest", t2))},
             {After({r1, r2}, AcceptCall(u2, t1)), After({r1, r2}, AcceptCall(u2, t2))})
    \cup Together({[s EXCEPT !.lapsed = l] : s \in InviteSeeds, l \in {{}, {t1}}},
             {InviteCall(u1, e2, "guest", t2)},
             {AcceptCall(u2, t1), On(u1, "withdraw", e2, "member"), MintFor(u2)},
             {After({r1}, AcceptCall(u2, t2))})

(* An index key dropped for a row that comes back meanwhile.                *)
RejoinStarts ==
    Together({Invited(World("member"), "member", TRUE)}, {On(u1, "remove", u2, "member")},
             {AcceptCall(u2, t1), After({r1}, AcceptCall(u2, t1))}, {After({r1, r2}, MintFor(u2))})
    \cup Together({StaleIndex(Invited(World(Absent), "member", TRUE))}, {MintFor(u2)},
             {AcceptCall(u2, t1)}, {After({r2}, MintFor(u2)), After({r1, r2}, MintFor(u2))})

(* Before there was an index: mints and a backfill build it meanwhile, and  *)
(* a mint comes after them all.                                             *)
BackfillStarts ==
    Together({Unindexed(World("member"))},
             {MintFor(u2), Nothing, On(u2, "remove", u2, "member"), By(u2, "destroy", q)},
             {MintFor(u2), Nothing, On(u1, "remove", u2, "member")}, {After({r1, r2}, MintFor(u2))})

(* Several want the free name, and accounts change theirs.                  *)
HandleStarts ==
    Together({World("owner")},
             {Named(u1, "rename", o, h3), Named(u1, "upgrade", p, h3), By(u1, "upgrade", p)},
             {Named(u2, "rename", o, h3), Named(u2, "rename", q, h3), Named(u2, "rename", q, h1)},
             {Named(u2, "create", n, x) : x \in {h3, h1, Absent}}
             \cup {After({r1}, Named(u1, "rename", o, h1)), Named(u1, "rename", p, h1)})

(* Deletions: of the organisation and of a personal account, with plans     *)
(* under them, next to requests that read or write the same keys.           *)
DestroySeeds ==
    {World("member"), WithPlans(World("owner"), o, "draft", "published"),
     WithPlans(World("owner"), o, "draft", "draft"),
     WithPlans(Invited(World("owner"), "member", TRUE), p, "shared", "draft"),
     WithPlans(World(Absent), p, Absent, "draft")}

DestroyStarts ==
    Together(DestroySeeds,
             {By(u1, "destroy", o), By(u1, "destroy", p), [By(u1, "destroy", p) EXCEPT !.release = TRUE]},
             {MintFor(u1), Nothing, Named(u2, "create", n, h1), Named(u2, "create", n, h2),
              On(u1, "withdraw", e2, "member"), On(u1, "remove", u2, "member"), AcceptCall(u2, t1),
              On(u1, "role", u2, "guest")},
             {After({r1, r2}, MintFor(u1)), After({r1, r2}, InviteCall(u1, e2, "guest", t2))})

(* A user with an invitation not answered is deleted.                       *)
InviteeStarts ==
    Together(InviteSeeds, {By(u2, "destroy", q)},
             {On(u1, "withdraw", e2, "member"), AcceptCall(u2, t1), Nothing},
             {After({r1, r2}, MintFor(u2))})

AllStarts == RemovalStarts \cup OwnerStarts \cup InviteStarts \cup RejoinStarts \cup BackfillStarts \cup HandleStarts
             \cup DestroyStarts \cup InviteeStarts
-----------------------------------------------------------------------------
(* One of two owners deletes the personal account, then the other leaves.   *)
OwnersGo ==
    Together({World("owner")}, {By(u1, "destroy", p)}, {After({r1}, On(u2, "remove", u2, "member"))},
             {After({r1, r2}, MintFor(u2))})

(* An organisation with a published plan is deleted.                        *)
PlansStay ==
    Together({WithPlans(World("owner"), o, "published", "draft")}, {By(u1, "destroy", o)}, {MintFor(u2)},
             {After({r1, r2}, MintFor(u1))})
=============================================================================
