--------------------------- MODULE MCDrillCatalog ---------------------------
(***************************************************************************)
(* Instances of DrillCatalog for TLC.                                      *)
(***************************************************************************)
EXTENDS DrillCatalog, TLC

CONSTANTS a, b, e1, e2, e3, p1, p2, c1, c2, c3, r1, r2, r3

Blank == [op |-> "upload", ns |-> Anon, caller |-> Anon, role |-> "guest",
          plan |-> p1, content |-> Absent, ifMatch |-> Absent,
          version |-> Absent, published |-> FALSE, policy |-> Absent,
          grantees |-> {}]

UploadCall(caller, plan, content, ifMatch) ==
    [Blank EXCEPT !.caller = caller, !.plan = plan, !.content = content,
                  !.ifMatch = ifMatch, !.published = TRUE]

AdminCall(op, ns, version) ==
    [Blank EXCEPT !.op = op, !.ns = ns, !.version = version]

PolicyCall(ns, policy) ==
    [Blank EXCEPT !.op = "policy", !.ns = ns, !.caller = ns, !.role = "owner",
                  !.policy = policy, !.grantees = {b}]

(* An entry of namespace ns after uploads of the given archives.           *)
SeedOf(ns, list) ==
    [rec |-> [entry |-> e1, ns |-> ns, plan |-> p1],
     doc |-> [versions |-> [v \in Versions |->
                              IF v \in DOMAIN list THEN list[v] ELSE Absent],
              published |-> TRUE, plan |-> p1, grantees |-> {},
              policy |-> IF ns = Anon THEN "public" ELSE "account"]]

Together(seeds, A, B, C) ==
    {[seed |-> s, calls |-> r1 :> x @@ r2 :> y @@ r3 :> z] :
        s \in seeds, x \in A, y \in B, z \in C}

Symmetry == Permutations({e2, e3})

-----------------------------------------------------------------------------
(* Uploads of two accounts and of nobody, next to each other and to the    *)
(* requests that write meta.json only; deletions next to publish and       *)
(* unpublish.                                                              *)
MixSeeds == {Absent, SeedOf(a, <<c1, c2>>), SeedOf(Anon, <<c1>>)}

MixUploads ==
    {UploadCall(n, p1, c3, Absent) : n \in {a, Anon}}
    \cup {UploadCall(a, p1, c1, c2), UploadCall(a, p2, c3, Absent),
          [UploadCall(a, p1, c3, Absent) EXCEPT !.version = 2]}

MixToggles == {AdminCall(op, a, Absent) : op \in {"publish", "unpublish"}}

MixStarts ==
    Together(MixSeeds, MixUploads, MixUploads,
             MixToggles \cup {PolicyCall(a, "shared"), UploadCall(a, p1, c2, Absent)})
    \cup Together({SeedOf(a, <<c1>>), SeedOf(a, <<c1, c2>>), SeedOf(a, <<c1, c1>>)},
                  {AdminCall("deleteversion", a, v) : v \in 1..2}
                  \cup {AdminCall("deleteall", a, Absent)},
                  MixToggles, MixToggles)
-----------------------------------------------------------------------------
(* Any two requests, deletions and uploads included; the third finds       *)
(* nothing.                                                                *)
PairCalls ==
    {UploadCall(a, p1, c3, Absent), UploadCall(Anon, p1, c2, Absent),
     UploadCall(a, p1, c1, c2), PolicyCall(a, "public"),
     AdminCall("publish", a, Absent), AdminCall("unpublish", a, Absent),
     AdminCall("deleteversion", a, 1), AdminCall("deleteversion", a, 2),
     AdminCall("deleteall", a, Absent)}

PairStarts ==
    Together(MixSeeds, PairCalls, PairCalls, {AdminCall("publish", b, Absent)})

AnyStarts == MixStarts \cup PairStarts

-----------------------------------------------------------------------------
(* Two devices that both saw the first version publish a change of it.     *)
TwoEditors ==
    {[seed |-> SeedOf(a, <<c1>>),
      calls |-> r1 :> UploadCall(a, p1, c2, c1) @@ r2 :> UploadCall(a, p1, c3, c1)]}

(* An owner changes the policy while a member publishes.                   *)
PolicyAndUpload ==
    {[seed |-> SeedOf(a, <<c1>>),
      calls |-> r1 :> UploadCall(a, p1, c2, c1) @@ r2 :> PolicyCall(a, "shared")]}

(* A new plan of an account is published and, when that fails, again.      *)
Retry ==
    {[seed |-> Absent,
      calls |-> r1 :> UploadCall(a, p1, c1, Absent) @@ r2 :> UploadCall(a, p1, c1, Absent)]}

(* A version is published, withdrawn by the operator, and published anew.  *)
Withdraw ==
    Together({SeedOf(a, <<c1>>)}, {UploadCall(a, p1, c2, Absent)},
             {AdminCall("deleteversion", a, 2)}, {UploadCall(a, p1, c3, Absent)})

(* The operator deletes the only version of a plan.                        *)
LastVersion ==
    Together({SeedOf(a, <<c1>>)}, {AdminCall("deleteversion", a, 1)},
             {AdminCall("publish", a, Absent)}, {AdminCall("unpublish", a, Absent)})
=============================================================================
