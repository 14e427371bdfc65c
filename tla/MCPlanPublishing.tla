-------------------------- MODULE MCPlanPublishing --------------------------
(***************************************************************************)
(* Instances of PlanPublishing for TLC.                                    *)
(***************************************************************************)
EXTENDS PlanPublishing, TLC

CONSTANTS a, e1, e2, p1, d1, d2, x, y, z, r1, r2, r3

Archives == [text : SUBSET {x, y, z}, stamp : Stamps]

AuthorOf == x :> d1 @@ y :> d2 @@ z :> d1

First == Archive({}, 1)
Second == Archive({z}, 1)

UploadBy(caller) ==
    [op |-> "upload", ns |-> Anon, caller |-> caller, role |-> "guest", plan |-> p1,
     content |-> First, ifMatch |-> Absent, version |-> Absent, published |-> TRUE,
     policy |-> Absent, grantees |-> {}]

(* A wiki plan with one version.                                           *)
Wiki(archived) ==
    [rec |-> [entry |-> e1, ns |-> Anon, plan |-> p1],
     doc |-> [versions |-> [v \in Versions |-> IF v = 1 THEN archived ELSE Absent],
              published |-> TRUE, plan |-> p1, grantees |-> {}, policy |-> "public"]]

StartOf(seed, caller) ==
    [seed |-> seed, calls |-> [r \in Requests |-> UploadBy(IF r = r1 THEN caller ELSE Anon)]]

J(d, op) == [device |-> d, op |-> op]

On(start, d, o1, o2) ==
    [start |-> start, jobs |-> r1 :> J(d1, o1) @@ r2 :> J(d, o2) @@ r3 :> J(d2, "none")]

(* Any two requests on a wiki plan, of one device or of two; two devices   *)
(* publish a new plan, one of them for an account.                         *)
Pairs ==
    {On(StartOf(Wiki(First), Anon), d, o[1], o[2]) :
        d \in {d1, d2}, o \in {<<"publish", "publish">>, <<"publish", "refresh">>,
                               <<"refresh", "refresh">>}}
    \cup {On(StartOf(Wiki(First), a), d2, "refresh", "publish"),
          On(StartOf(Absent, a), d2, "publish", "publish"),
          On(StartOf(Absent, a), d1, "publish", "refresh")}

(* A device publishes and refreshes while another publishes; each makes a  *)
(* nested edit meanwhile.                                                  *)
Triples ==
    {[start |-> StartOf(Wiki(Second), Anon),
      jobs |-> r1 :> J(d1, "publish") @@ r2 :> J(d1, "refresh") @@ r3 :> J(d2, "publish")]}

PairsAndTriples == Pairs \cup Triples

PublishingStarts == {w.start : w \in PairsAndTriples}
=============================================================================
