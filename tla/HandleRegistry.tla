--------------------------- MODULE HandleRegistry ---------------------------
(***************************************************************************)
(* What a handle promises the people who were given a link with it: the    *)
(* name leads to one account, and does not go to another account while     *)
(* something is still published under it.                                  *)
(***************************************************************************)
CONSTANTS HandleNames, AccountIds, Free

VARIABLES
    bound,   \* the account each name leads to, or Free
    needed   \* the accounts with something left under their name

vars == <<bound, needed>>

Init == bound \in [HandleNames -> AccountIds \cup {Free}] /\ needed \subseteq AccountIds

Claim(h, a) ==
    /\ bound[h] = Free
    /\ bound' = [bound EXCEPT ![h] = a]
    /\ UNCHANGED needed

Release(h) ==
    /\ bound[h] \notin needed
    /\ bound' = [bound EXCEPT ![h] = Free]
    /\ UNCHANGED needed

Publish == needed' \subseteq AccountIds /\ UNCHANGED bound

Next == Publish \/ \E h \in HandleNames : Release(h) \/ \E a \in AccountIds : Claim(h, a)

Spec == Init /\ [][Next]_vars
=============================================================================
