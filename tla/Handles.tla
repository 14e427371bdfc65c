------------------------------ MODULE Handles ------------------------------
(***************************************************************************)
(* Accounts and their handles: creating an organisation, upgrading a       *)
(* personal account, changing the handle (accounts.js and identity.js).    *)
(***************************************************************************)
EXTENDS AccountStores

PutAccount(r, from, to, rec) ==
    /\ Goto(r, from, to)
    /\ accounts' = [accounts EXCEPT ![call[r].account] = rec]
    /\ UNCHANGED <<handles, people, letters, lapsed, users, plans, access, call, mem>>

-----------------------------------------------------------------------------
(* claimHandle.  Where a claimed handle leads the three handlers ...        *)
Claimed(r) ==
    CASE Is(r, {"create"}) -> "create_account"
      [] Is(r, {"upgrade"}) -> "upgrade_write"
      [] Is(r, {"rename"}) -> IF mem[r].rec.handle = Absent THEN "rename_write" ELSE "retire"

(* Bug: the condition is not sent.                                          *)
ClaimHandleOver(r) ==
    /\ Goto(r, "claim", Claimed(r))
    /\ handles' = [handles EXCEPT ![call[r].handle] =
            [account |-> call[r].account, tombstone |-> FALSE, redirectsTo |-> Absent]]
    /\ UNCHANGED <<accounts, people, letters, lapsed, users, plans, access, call, mem>>

ClaimHandle(r) ==
    LET h == call[r].handle
        new == IfNew(handles[h])
    IN  /\ Goto(r, "claim", IF new THEN Claimed(r) ELSE "claim_check")
        /\ handles' = IF new THEN [handles EXCEPT ![h] = [account |-> call[r].account,
                                      tombstone |-> FALSE, redirectsTo |-> Absent]]
                      ELSE handles
        /\ UNCHANGED <<accounts, people, letters, lapsed, users, plans, access, call, mem>>

(* ... and one that is taken, unless by this account: a retried request     *)
(* does not fail.  A handle this account retired passes as well.            *)
ClaimCheck(r) ==
    LET existing == handles[call[r].handle]
        own == existing # Absent /\ existing.account = call[r].account
    IN  /\ Goto(r, "claim_check", IF own THEN Claimed(r) ELSE "409")
        /\ UNCHANGED <<stores, call, mem>>

Claim(r) == ClaimHandle(r) \/ ClaimCheck(r)

-----------------------------------------------------------------------------
(* createOrganisation: handle, account, then the creator as owner.          *)
CreateAccount(r) ==
    PutAccount(r, "create_account", "create_row", [type |-> "organization", handle |-> call[r].handle])

CreateRow(r) ==
    /\ PutRow(r, "create_row", "create_index", call[r].account, call[r].user, "owner")
    /\ UNCHANGED mem

CreateIndex(r) == PutIndex(r, "create_index", "201", call[r].account, call[r].user)

Create(r) == CreateAccount(r) \/ CreateRow(r) \/ CreateIndex(r)

-----------------------------------------------------------------------------
(* The upgrade reads the account twice: the handler for its answer,         *)
(* upgradeToOrganisation for the copy it writes back.                       *)
UpgradeCheck(r) ==
    LET account == accounts[call[r].account]
    IN  /\ Goto(r, "upgrade_check",
                CASE account = Absent -> "404"
                  [] account # Absent /\ account.type # "personal" -> "409"
                  [] account # Absent /\ account.type = "personal" -> "upgrade_read")
        /\ UNCHANGED <<stores, call, mem>>

UpgradeRead(r) ==
    LET account == accounts[call[r].account]
    IN  /\ Goto(r, "upgrade_read",
                CASE account = Absent -> "400"
                  [] account # Absent /\ account.type = "organization" -> "200"
                  [] account # Absent /\ account.type # "organization" ->
                        IF call[r].handle = Absent THEN "upgrade_write" ELSE "claim")
        /\ Holds(r, [mem[r] EXCEPT !.rec = account])
        /\ UNCHANGED <<stores, call>>

UpgradeWrite(r) ==
    LET h == call[r].handle
    IN  PutAccount(r, "upgrade_write", "200",
            [type |-> "organization", handle |-> IF h = Absent THEN mem[r].rec.handle ELSE h])

Upgrade(r) == UpgradeCheck(r) \/ UpgradeRead(r) \/ UpgradeWrite(r)

-----------------------------------------------------------------------------
(* updateAccount and renameHandle: claim the new handle, retire the old one *)
(* so that it leads on, write the account back.                             *)
RenameRead(r) ==
    LET account == accounts[call[r].account]
    IN  /\ Goto(r, "rename_read",
                CASE account = Absent -> "404"
                  [] account # Absent /\ account.handle = call[r].handle -> "200"
                  [] account # Absent /\ account.handle # call[r].handle -> "claim")
        /\ Holds(r, [mem[r] EXCEPT !.rec = account])
        /\ UNCHANGED <<stores, call>>

RenameRetire(r) ==
    /\ Goto(r, "retire", "rename_write")
    /\ handles' = [handles EXCEPT ![mem[r].rec.handle] =
            [account |-> call[r].account, tombstone |-> TRUE, redirectsTo |-> call[r].handle]]
    /\ UNCHANGED <<accounts, people, letters, lapsed, users, plans, access, call, mem>>

RenameWrite(r) == PutAccount(r, "rename_write", "200", [mem[r].rec EXCEPT !.handle = call[r].handle])

Rename(r) == RenameRead(r) \/ RenameRetire(r) \/ RenameWrite(r)
=============================================================================
