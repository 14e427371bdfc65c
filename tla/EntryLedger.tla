---------------------------- MODULE EntryLedger ----------------------------
(***************************************************************************)
(* What the catalog's storage promises whatever requests overlap: a key of *)
(* the directory is never repointed, only released and claimed again; an   *)
(* entry id is claimed once in all time; and the bytes of a version are    *)
(* written once - they can go, they can not change.                        *)
(***************************************************************************)
CONSTANTS Namespaces, Entries, Versions, Contents, Absent

VARIABLES
    directory,     \* which entry each key of the index leads to
    claimed,       \* the entry ids ever claimed
    bytes          \* the archive under each version of each entry

ledger == <<directory, claimed, bytes>>

Init ==
    /\ directory \in [Namespaces -> Entries \cup {Absent}]
    /\ claimed = {directory[n] : n \in Namespaces} \ {Absent}
    /\ bytes \in [Entries -> [Versions -> Contents \cup {Absent}]]

Claim(n, e) ==
    /\ directory[n] = Absent
    /\ e \notin claimed
    /\ directory' = [directory EXCEPT ![n] = e]
    /\ claimed' = claimed \cup {e}
    /\ UNCHANGED bytes

Release(n) ==
    /\ directory' = [directory EXCEPT ![n] = Absent]
    /\ UNCHANGED <<claimed, bytes>>

Store(e, v, c) ==
    /\ e \in claimed
    /\ bytes[e][v] = Absent
    /\ bytes' = [bytes EXCEPT ![e][v] = c]
    /\ UNCHANGED <<directory, claimed>>

Discard(e, v) ==
    /\ bytes' = [bytes EXCEPT ![e][v] = Absent]
    /\ UNCHANGED <<directory, claimed>>

Next ==
    \/ \E n \in Namespaces : Release(n) \/ \E e \in Entries : Claim(n, e)
    \/ \E e \in Entries, v \in Versions :
           Discard(e, v) \/ \E c \in Contents : Store(e, v, c)

Spec == Init /\ [][Next]_ledger
=============================================================================
