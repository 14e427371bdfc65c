--------------------------- MODULE CatalogPolicy ---------------------------
(***************************************************************************)
(* Who may write a catalog entry: lib/authorize.js as pure operators.      *)
(*                                                                         *)
(* A caller is the account a request acts for, or Anon.  `stored` is the   *)
(* part of meta.json the decision reads, [policy, grantees], or Absent.    *)
(***************************************************************************)
EXTENDS BlobStore

CONSTANTS Accounts, Anon

Namespaces == Accounts \cup {Anon}

Policies == {"public", "account", "shared"}

Roles == {"owner", "member", "guest"}

View == [policy : Policies, grantees : SUBSET Accounts]

(* Bug: a missing meta.json has no policy.                                 *)
readAccessPolicyBare(stored) == IF stored = Absent THEN Absent ELSE stored.policy

(* A missing meta.json reads as public: there is no ownerId to say         *)
(* otherwise.                                                              *)
readAccessPolicy(stored) == IF stored = Absent THEN "public" ELSE stored.policy

(* What the write decision falls back on instead: the owner of the index   *)
(* record, when the entry has no meta.json yet.                            *)
EffectivePolicy(stored, owner) ==
    IF stored = Absent
    THEN IF owner = Anon THEN "public" ELSE "account"
    ELSE stored.policy

(* The matrix rows for an entry that exists.                               *)
authorizeCatalogWrite(caller, owner, stored) ==
    LET policy == EffectivePolicy(stored, owner)
    IN  \/ policy = "public"
        \/ /\ caller # Anon
           /\ \/ caller = owner
              \/ policy = "shared" /\ caller \in stored.grantees

(* The policy of a new entry: an anonymous one is public, an account's is  *)
(* the one asked for and `account` when none is.                           *)
NewEntryPolicy(caller, requested) ==
    IF caller = Anon THEN "public"
    ELSE IF requested = Absent THEN "account" ELSE requested

(* Only an owner of the owning account may change who may publish.         *)
authorizePolicyChange(caller, role, owner) ==
    /\ caller # Anon
    /\ owner # Anon
    /\ caller = owner
    /\ role = "owner"
=============================================================================
