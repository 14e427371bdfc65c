------------------------- MODULE CatalogLedgerProofs -------------------------
(***************************************************************************)
(* The slug index of DrillCatalog: what the conditional create of          *)
(* claimEntry gives, the refinement of EntryLedger, and what an            *)
(* acknowledged upload can rely on: its version is its own and keeps its   *)
(* bytes, and the index leads to the entry.                                *)
(***************************************************************************)
EXTENDS DrillCatalogProofs

(* The index records in the store and in the hands of requests.            *)
Known == ({index[n] : n \in Namespaces} \cup {found[r] : r \in Requests}) \ {Absent}

PastGate == {"put_version", "put_latest", "put_meta", "200"}

RecordsInv ==
    /\ TypeInv
    /\ \A n \in Namespaces : index[n] # Absent => index[n].ns = n
    /\ \A x \in Known : x.entry \in minted
    /\ \A x, y \in Known : x.entry = y.entry => x = y
    /\ \A r \in Requests : Is(r, UploadOps) /\ pc[r] \in PastGate =>
           found[r] \in Record /\ found[r].plan = call[r].plan

(* A request claims an entry nobody has, or knows no record that was not   *)
(* known before.                                                           *)
Claims(r) ==
    LET ns == call[r].caller
    IN  \E e \in Entries \ minted :
            LET rec == [entry |-> e, ns |-> ns, plan |-> call[r].plan]
            IN  /\ index[ns] = Absent
                /\ index' = [index EXCEPT ![ns] = rec]
                /\ found' = [found EXCEPT ![r] = rec]
                /\ minted' = minted \cup {e}

Releases(r) ==
    /\ \A n \in Namespaces : index'[n] \in {index[n], Absent}
    /\ Known' \subseteq Known
    /\ minted' = minted

LEMMA IndexStep ==
    ASSUME TypeInv, TypeInv', NEW r \in Requests, Step(r)
    PROVE  Claims(r) \/ Releases(r)
<1>. USE DEF TypeInv, TypeOK
<1>1. /\ index' \in [Namespaces -> Record \cup {Absent}]
      /\ call[r] \in Call /\ call[r].caller \in Namespaces /\ call[r].ns \in Namespaces
      /\ Anon \in Namespaces
  BY CallType DEF Namespaces
<1>2. ASSUME \A n \in Namespaces : index'[n] \in {index[n], Absent},
             \A q \in Requests : found'[q] \in {index[n] : n \in Namespaces} \cup {found[q], Absent},
             minted' = minted
      PROVE  Releases(r)
  <2>1. Known' \subseteq Known
    BY <1>2 DEF Known
  <2>. QED
    BY <1>2, <2>1 DEF Releases
<1>. HIDE DEF TypeInv
<1>3. CASE UploadClaim(r)
  <2>1. CASE IfNew(index[call[r].caller])
    BY <1>3, <2>1 DEF UploadClaim, newEntryIds, Claims, IfNew
  <2>2. CASE ~IfNew(index[call[r].caller])
    BY <1>2, <1>3, <2>2 DEF UploadClaim
  <2>. QED
    BY <2>1, <2>2
<1>4. CASE UploadLookupOwn(r) \/ UploadLookupAnon(r) \/ Resolve(r)
  BY <1>1, <1>2, <1>4 DEF TypeInv, UploadLookupOwn, UploadLookupAnon, Resolve, stores, document, head
<1>5. CASE LastIndex(r) \/ SweepIndex(r)
  BY <1>1, <1>2, <1>5 DEF TypeInv, LastIndex, SweepIndex, TryDelete, locals
<1>6. CASE UNCHANGED <<index, found, minted>>
  BY <1>2, <1>6
<1>7. Step(r) => \/ UploadClaim(r) \/ UploadLookupOwn(r) \/ UploadLookupAnon(r)
                 \/ Resolve(r) \/ LastIndex(r) \/ SweepIndex(r)
                 \/ UNCHANGED <<index, found, minted>>
  BY DEF Step, Upload, UploadReadPolicy, UploadRejectArchive, UploadGate, UploadPutVersion,
     UploadVersionTaken, UploadPutLatest, UploadPutMeta,
     MetaOnly, ToggleEtag, ToggleRead, ToggleWrite, PolicyRead, PolicyEtag, PolicyWrite,
     DeleteVersion, DeleteRead, ReadNewLatest, LatestEtagRead, Promote, MetaEtagRead,
     Unlist, DropBytes, LastEtag, LastLatest, LastMeta,
     DeleteAll, ListKeys, SweepKey, stores, document, head, locals
<1>. QED
  BY <1>3, <1>4, <1>5, <1>6, <1>7

(* The plan check of the gate outlives the gate.                           *)
LEMMA PlanStep ==
    ASSUME RecordsInv, TypeInv', NEW r \in Requests, Step(r),
           Is(r, UploadOps)', pc'[r] \in PastGate
    PROVE  found'[r] \in Record /\ found'[r].plan = call'[r].plan
<1>. USE DEF UploadOps, Is
<1>1. call' = call /\ call[r].op = "upload" /\ TypeInv /\ StageOf(r)
  BY StepFrame DEF RecordsInv, TypeInv, StageOK
<1>2. Upload(r) \/ MetaOnly(r)
  BY <1>1, StepOfOp DEF Deleters, DeleteOps
<1>3. Upload(r)
  <2>1. ~MetaOnly(r)
    BY <1>1 DEF MetaOnly, Resolve, ToggleEtag, ToggleRead, ToggleWrite, PolicyRead, PolicyEtag,
       PolicyWrite, Goto, StageOf, TogglePcs, PolicyPcs, ToggleOps
  <2>. QED
    BY <1>2, <2>1
<1>4. CASE UploadGate(r)
  BY <1>1, <1>4 DEF UploadGate, Verdict, Goto, TypeInv, TypeOK, PastGate, StageOf, HasRecord
<1>5. CASE \/ UploadPutVersion(r) \/ UploadVersionTaken(r) \/ UploadPutLatest(r)
           \/ UploadPutMeta(r)
  <2>1. pc[r] \in PastGate /\ found' = found
    BY <1>5 DEF UploadPutVersion, UploadVersionTaken, UploadPutLatest, UploadPutMeta, Goto,
       PastGate, locals
  <2>. QED
    BY <1>1, <2>1 DEF RecordsInv
<1>6. CASE \/ UploadLookupOwn(r) \/ UploadLookupAnon(r) \/ UploadReadPolicy(r)
           \/ UploadClaim(r) \/ UploadRejectArchive(r)
  <2>1. pc'[r] \notin PastGate
    BY <1>1, <1>6 DEF UploadLookupOwn, UploadLookupAnon, UploadReadPolicy, UploadClaim,
       UploadRejectArchive, Goto, TypeInv, TypeOK, PastGate
  <2>. QED
    BY <2>1
<1>. QED
  BY <1>3, <1>4, <1>5, <1>6 DEF Upload

LEMMA NextRecords == RecordsInv /\ [Next]_vars => RecordsInv'
<1>. SUFFICES ASSUME RecordsInv, [Next]_vars
              PROVE  RecordsInv'
  OBVIOUS
<1>1. TypeInv /\ TypeInv'
  BY NextType DEF RecordsInv
<1>2. ASSUME NEW r \in Requests, Step(r)
      PROVE  RecordsInv'
  <2>1. /\ \A n \in Namespaces : (index[n] # Absent => index[n].ns = n)'
        /\ \A x \in Known' : x.entry \in minted'
        /\ \A x, y \in Known' : x.entry = y.entry => x = y
    <3>1. CASE Releases(r)
      BY <3>1 DEF Releases, RecordsInv
    <3>2. CASE Claims(r)
      <4>1. call[r].caller \in Namespaces
        BY <1>1, CallType DEF TypeInv, TypeOK
      <4>2. PICK e \in Entries \ minted, rec \in Record :
              /\ rec = [entry |-> e, ns |-> call[r].caller, plan |-> call[r].plan]
              /\ index' = [index EXCEPT ![call[r].caller] = rec]
              /\ found' = [found EXCEPT ![r] = rec]
              /\ minted' = minted \cup {e}
        BY <1>1, <3>2, <4>1, CallType DEF Claims, TypeInv, TypeOK, Record
      <4>3. Known' \subseteq Known \cup {rec}
        BY <1>1, <4>1, <4>2 DEF Known, TypeInv, TypeOK
      <4>4. \A x \in Known : x.entry # rec.entry
        BY <4>2 DEF RecordsInv
      <4>5. \A n \in Namespaces : (index[n] # Absent => index[n].ns = n)'
        BY <1>1, <4>1, <4>2 DEF RecordsInv, TypeInv, TypeOK
      <4>6. \A x \in Known' : x.entry \in minted'
        BY <4>2, <4>3 DEF RecordsInv
      <4>7. \A x, y \in Known' : x.entry = y.entry => x = y
        BY <4>3, <4>4 DEF RecordsInv
      <4>. QED
        BY <4>5, <4>6, <4>7
    <3>. QED
      BY <1>1, <1>2, <3>1, <3>2, IndexStep
  <2>2. ASSUME NEW q \in Requests, Is(q, UploadOps)', pc'[q] \in PastGate
        PROVE  found'[q] \in Record /\ found'[q].plan = call'[q].plan
    <3>1. CASE q = r
      BY <1>1, <1>2, <2>2, <3>1, PlanStep
    <3>2. CASE q # r
      <4>1. call' = call /\ Undisturbed(q)
        BY <1>1, <1>2, <3>2, StepFrame DEF TypeInv
      <4>. QED
        BY <2>2, <4>1 DEF RecordsInv, Undisturbed, Is
    <3>. QED
      BY <3>1, <3>2
  <2>. QED
    BY <1>1, <2>1, <2>2 DEF RecordsInv
<1>3. ASSUME UNCHANGED <<index, minted, pc, locals>>
      PROVE  RecordsInv'
  BY <1>1, <1>3 DEF RecordsInv, Known, Is, locals
<1>. QED
  BY <1>2, <1>3 DEF Next, CatchUp, Done, vars, stores, document, head

LEMMA InitRecords == Init => RecordsInv
<1>. SUFFICES ASSUME Init
              PROVE  RecordsInv
  OBVIOUS
<1>1. TypeInv
  BY InitType
<1>2. PICK seed \in Seed :
        /\ index = [n \in Namespaces |->
                      IF seed # Absent /\ n = seed.rec.ns THEN seed.rec ELSE Absent]
        /\ minted = IF seed = Absent THEN {} ELSE {seed.rec.entry}
  BY CatalogAssumption DEF Init, InitFrom, InitRequests, Start
<1>3. Known \subseteq IF seed = Absent THEN {} ELSE {seed.rec}
  BY <1>2 DEF Known, Init, InitFrom, InitRequests
<1>4. \A r \in Requests : pc[r] \notin PastGate
  BY DEF Init, InitFrom, InitRequests, PastGate
<1>. QED
  BY <1>1, <1>2, <1>3, <1>4 DEF RecordsInv

LEMMA RecordsAlways == Spec => []RecordsInv
BY InitRecords, NextRecords, PTL DEF Spec

(* Two uploads that are acknowledged for one entry carry the same plan,    *)
(* although each checked it against a record it read long before.          *)
THEOREM EntryIsOnePlan == Spec => []OnePlanPerEntry
<1>1. RecordsInv => OnePlanPerEntry
  <2>. SUFFICES ASSUME RecordsInv, NEW r \in Requests, NEW q \in Requests,
                       Acknowledged(r), Acknowledged(q), Entry(r) = Entry(q)
                PROVE  call[r].plan = call[q].plan
    BY DEF OnePlanPerEntry
  <2>1. \A p \in {r, q} : found[p] \in Record /\ found[p].plan = call[p].plan
    BY DEF Acknowledged, RecordsInv, PastGate
  <2>2. found[r] \in Known /\ found[q] \in Known
    BY <2>1, CatalogAssumption DEF Known
  <2>. QED
    BY <2>1, <2>2 DEF RecordsInv, Entry
<1>. QED
  BY RecordsAlways, <1>1, PTL
-----------------------------------------------------------------------------
(* The refinement.  The three variables of the ledger are the keys of the  *)
(* index, the ids handed out and the archives; of the steps of a request,  *)
(* a claim, a release of the key, a stored and a dropped archive are steps *)
(* of the ledger, and every other one leaves it alone.                     *)

Directory == [n \in Namespaces |-> IF index[n] = Absent THEN Absent ELSE index[n].entry]

LEMMA DirectoryStep ==
    ASSUME RecordsInv, TypeInv', NEW r \in Requests, Step(r)
    PROVE  \/ /\ UploadClaim(r) /\ archive' = archive
              /\ \E n \in Namespaces, e \in Entries \ minted :
                    /\ Directory[n] = Absent
                    /\ Directory' = [Directory EXCEPT ![n] = e]
                    /\ minted' = minted \cup {e}
           \/ /\ LastIndex(r) \/ SweepIndex(r)
              /\ minted' = minted /\ archive' = archive
              /\ \E n \in Namespaces : Directory' = [Directory EXCEPT ![n] = Absent]
           \/ Directory' = Directory /\ minted' = minted
<1>. USE DEF RecordsInv, TypeInv, TypeOK
<1>1. call[r] \in Call /\ call[r].caller \in Namespaces /\ StageOf(r)
  BY CallType DEF StageOK
<1>2. CASE UploadClaim(r)
  <2>1. CASE IfNew(index[call[r].caller])
    <3>. DEFINE n == call[r].caller
    <3>1. PICK e \in Entries \ minted :
            /\ index' = [index EXCEPT ![n] = [entry |-> e, ns |-> n, plan |-> call[r].plan]]
            /\ minted' = minted \cup {e}
      BY <1>2, <2>1 DEF UploadClaim, newEntryIds
    <3>2. [entry |-> e, ns |-> n, plan |-> call[r].plan] # Absent
      BY <1>1, CallType, CatalogAssumption DEF Record
    <3>3. Directory[n] = Absent /\ Directory' = [Directory EXCEPT ![n] = e]
      BY <1>1, <2>1, <3>1, <3>2 DEF Directory, IfNew
    <3>. QED
      BY <1>1, <1>2, <3>1, <3>3 DEF UploadClaim
  <2>2. CASE ~IfNew(index[call[r].caller])
    BY <1>2, <2>2 DEF UploadClaim, Directory
  <2>. QED
    BY <2>1, <2>2
<1>3. CASE LastIndex(r) \/ SweepIndex(r)
  <2>1. found[r].ns \in Namespaces
    BY <1>1, <1>3, RecordType
    DEF LastIndex, SweepIndex, Goto, StageOf, HasRecord, DeletePcs, LastPcs, SweepPcs
  <2>2. /\ index' \in {[index EXCEPT ![found[r].ns] = Absent], index}
        /\ minted' = minted /\ archive' = archive
    BY <1>3 DEF LastIndex, SweepIndex, TryDelete
  <2>3. Directory' \in {[Directory EXCEPT ![found[r].ns] = Absent], Directory}
    <3>. DEFINE gone == [index EXCEPT ![found[r].ns] = Absent]
    <3>1. index' = gone => Directory' = [Directory EXCEPT ![found[r].ns] = Absent]
      BY <2>1 DEF Directory
    <3>2. index' = index => Directory' = Directory
      BY DEF Directory
    <3>. QED
      BY <2>2, <3>1, <3>2
  <2>. QED
    BY <1>3, <2>1, <2>2, <2>3
<1>4. CASE UNCHANGED <<index, minted>>
  BY <1>4 DEF Directory
<1>5. Step(r) => \/ UploadClaim(r) \/ LastIndex(r) \/ SweepIndex(r)
                 \/ UNCHANGED <<index, minted>>
  BY DEF Step, Upload, UploadLookupOwn, UploadLookupAnon, UploadReadPolicy,
     UploadRejectArchive, UploadGate, UploadPutVersion,
     UploadVersionTaken, UploadPutLatest, UploadPutMeta,
     MetaOnly, Resolve, ToggleEtag, ToggleRead, ToggleWrite, PolicyRead, PolicyEtag,
     PolicyWrite, DeleteVersion, DeleteRead, ReadNewLatest, LatestEtagRead, Promote,
     MetaEtagRead, Unlist, DropBytes, LastEtag, LastLatest, LastMeta,
     DeleteAll, ListKeys, SweepKey, stores, document, head, locals
<1>. QED
  BY <1>2, <1>3, <1>4, <1>5

LEMMA ArchiveStep ==
    ASSUME RecordsInv, NEW r \in Requests, Step(r)
    PROVE  \/ /\ UNCHANGED <<index, minted>>
              /\ \E e \in minted, v \in Versions, c \in Contents :
                    archive[e][v] = Absent /\ archive' = [archive EXCEPT ![e][v] = c]
           \/ /\ UNCHANGED <<index, minted>>
              /\ \E e \in Entries, v \in Versions :
                    archive' = [archive EXCEPT ![e][v] = Absent]
           \/ archive' = archive
<1>. USE DEF RecordsInv, TypeInv, TypeOK
<1>1. call[r] \in Call /\ StageOf(r)
  BY DEF StageOK
<1>2. CASE UploadPutVersion(r)
  <2>1. /\ found[r] \in Record /\ ver[r] \in Versions /\ call[r].content \in Contents
        /\ archive[Entry(r)][ver[r]] = Absent
        /\ archive' = [archive EXCEPT ![Entry(r)][ver[r]] = call[r].content]
        /\ UNCHANGED <<index, minted>>
    BY <1>1, <1>2, CallType
    DEF UploadPutVersion, Goto, StageOf, HasRecord, UploadPcs, IfNew
  <2>2. Entry(r) \in minted
    BY <2>1, CatalogAssumption DEF Known, Entry
  <2>. QED
    BY <2>1, <2>2
<1>3. CASE DropBytes(r)
  <2>1. Entry(r) \in Entries /\ call[r].version \in Versions
    BY <1>1, <1>3, CallType, RecordType
    DEF DropBytes, Goto, StageOf, HasRecord, DeletePcs, SweepPcs
  <2>. QED
    BY <1>3, <2>1 DEF DropBytes, TryDelete
<1>4. CASE SweepKey(r)
  <2>1. Entry(r) \in Entries
    BY <1>1, <1>4, RecordType DEF SweepKey, Goto, StageOf, HasRecord, DeletePcs, SweepPcs
  <2>. QED
    BY <1>4, <2>1 DEF SweepKey
<1>5. Step(r) => UploadPutVersion(r) \/ DropBytes(r) \/ SweepKey(r) \/ archive' = archive
  BY DEF Step, Upload, UploadLookupOwn, UploadLookupAnon, UploadReadPolicy, UploadClaim,
     UploadRejectArchive, UploadGate, UploadVersionTaken, UploadPutLatest, UploadPutMeta,
     MetaOnly, Resolve, ToggleEtag, ToggleRead, ToggleWrite, PolicyRead, PolicyEtag,
     PolicyWrite, DeleteVersion, DeleteRead, ReadNewLatest, LatestEtagRead, Promote,
     MetaEtagRead, Unlist, LastEtag, LastLatest, LastMeta, LastIndex,
     DeleteAll, ListKeys, SweepIndex, stores, document, head, locals
<1>. QED
  BY <1>2, <1>3, <1>4, <1>5

(* DrillCatalog implements EntryLedger, deletions and uploads overlapping  *)
(* as they like: a key is never repointed, an id never claimed twice, the  *)
(* bytes of a version never rewritten in place.                            *)
THEOREM CatalogKeepsLedger == Spec => KeepsLedger
<1>. USE DEF Ledger!ledger
<1>1. Init => Ledger!Init
  <2>. SUFFICES ASSUME Init
                PROVE  Ledger!Init
    OBVIOUS
  <2>1. TypeOK
    BY InitType DEF TypeInv
  <2>2. Directory \in [Namespaces -> Entries \cup {Absent}]
    BY <2>1 DEF Directory, TypeOK, Record
  <2>3. minted = {Directory[n] : n \in Namespaces} \ {Absent}
    <3>1. PICK seed \in Seed :
            /\ index = [n \in Namespaces |->
                          IF seed # Absent /\ n = seed.rec.ns THEN seed.rec ELSE Absent]
            /\ minted = IF seed = Absent THEN {} ELSE {seed.rec.entry}
      BY CatalogAssumption DEF Init, InitFrom, InitRequests, Start
    <3>. QED
      BY <3>1, CatalogAssumption DEF Directory, Seed, Record
  <2>. QED
    BY <2>1, <2>2, <2>3 DEF Ledger!Init, Directory, TypeOK, Listing
<1>2. RecordsInv /\ RecordsInv' /\ [Next]_vars => [Ledger!Next]_(Ledger!ledger)
  <2>. SUFFICES ASSUME RecordsInv, RecordsInv', [Next]_vars
                PROVE  [Ledger!Next]_(Ledger!ledger)
    OBVIOUS
  <2>1. ASSUME NEW r \in Requests, Step(r)
        PROVE  [Ledger!Next]_(Ledger!ledger)
    <3>1. CASE \E n \in Namespaces, e \in Entries \ minted :
                  /\ Directory[n] = Absent
                  /\ Directory' = [Directory EXCEPT ![n] = e]
                  /\ minted' = minted \cup {e}
                  /\ archive' = archive
      BY <3>1 DEF Ledger!Next, Ledger!Claim, Directory
    <3>2. CASE \E n \in Namespaces :
                  /\ Directory' = [Directory EXCEPT ![n] = Absent]
                  /\ minted' = minted /\ archive' = archive
      BY <3>2 DEF Ledger!Next, Ledger!Release, Directory
    <3>3. CASE /\ Directory' = Directory /\ minted' = minted
               /\ \E e \in minted, v \in Versions, c \in Contents :
                     archive[e][v] = Absent /\ archive' = [archive EXCEPT ![e][v] = c]
      <4>1. PICK e \in minted, v \in Versions, c \in Contents :
              archive[e][v] = Absent /\ archive' = [archive EXCEPT ![e][v] = c]
        BY <3>3
      <4>2. Ledger!Store(e, v, c)
        BY <3>3, <4>1 DEF Ledger!Store, Directory
      <4>3. minted \subseteq Entries
        BY DEF RecordsInv, TypeInv, TypeOK
      <4>. QED
        BY <4>2, <4>3 DEF Ledger!Next
    <3>4. CASE /\ Directory' = Directory /\ minted' = minted
               /\ \E e \in Entries, v \in Versions :
                     archive' = [archive EXCEPT ![e][v] = Absent]
      BY <3>4 DEF Ledger!Next, Ledger!Discard, Directory
    <3>5. CASE Directory' = Directory /\ minted' = minted /\ archive' = archive
      BY <3>5 DEF Directory
    <3>6. UNCHANGED <<index, minted>> => Directory' = Directory /\ minted' = minted
      BY DEF Directory
    <3>. QED
      BY <2>1, <3>1, <3>2, <3>3, <3>4, <3>5, <3>6, DirectoryStep, ArchiveStep DEF RecordsInv
  <2>2. CASE UNCHANGED <<index, minted, archive>>
    BY <2>2
  <2>. QED
    BY <2>1, <2>2 DEF Next, CatchUp, Done, vars, stores, document, head
<1>. QED
  BY RecordsAlways, <1>1, <1>2, PTL DEF Spec, KeepsLedger, Ledger!Spec

-----------------------------------------------------------------------------
(* What an acknowledged upload can rely on.                                *)
(* An upload that has stored its archive.                                  *)
Stored(r) == Is(r, UploadOps) /\ pc[r] \in {"put_latest", "put_meta", "200"}

(* The index leads to every record a request works on.                     *)
StillNamed(r) == found[r] # Absent => index[found[r].ns] = found[r]

StillStored(r) ==
    Stored(r) => /\ found[r] \in Record /\ ver[r] \in Versions
                 /\ archive[Entry(r)][ver[r]] = call[r].content

OwnVersion(r, q) == Stored(r) /\ Stored(q) /\ Entry(r) = Entry(q) => ver[r] # ver[q]

StillDescribed(r) == Acknowledged(r) => meta[Entry(r)] # Absent

StandsInv ==
    /\ RecordsInv
    /\ Deleters = {} =>
           \A r \in Requests :
               /\ StillNamed(r) /\ StillStored(r) /\ StillDescribed(r)
               /\ \A q \in Requests \ {r} : OwnVersion(r, q)

(* Where nothing is deleted, nothing in the store goes away or is          *)
(* replaced: not a key of the index, not an archive, not a meta.json.      *)
NothingGoes ==
    /\ \A n \in Namespaces : index[n] # Absent => index'[n] = index[n]
    /\ \A e \in Entries, v \in Versions :
           archive[e][v] # Absent => archive'[e][v] = archive[e][v]
    /\ \A e \in Entries : meta[e] # Absent => meta'[e] # Absent

LEMMA KeepStep ==
    ASSUME TypeInv, TypeInv', Deleters = {}, NEW r \in Requests, Step(r)
    PROVE  NothingGoes
<1>. USE DEF TypeInv
<1>1. (Upload(r) \/ MetaOnly(r)) /\ StageOf(r) /\ call[r] \in Call
  BY StepOfOp DEF StageOK, TypeOK
<1>2. \A n \in Namespaces : index[n] # Absent => index'[n] = index[n]
  <2>1. CASE UploadClaim(r)
    BY <1>1, <2>1, CallType DEF UploadClaim, IfNew, TypeOK
  <2>2. CASE index' = index
    BY <2>2
  <2>. QED
    BY <1>1, <2>1, <2>2 DEF Upload, UploadLookupOwn, UploadLookupAnon, UploadReadPolicy,
       UploadRejectArchive, UploadGate, UploadPutVersion, UploadVersionTaken, UploadPutLatest,
       UploadPutMeta, MetaOnly, Resolve, ToggleEtag, ToggleRead, ToggleWrite, PolicyRead,
       PolicyEtag, PolicyWrite, stores
<1>3. \A e \in Entries, v \in Versions :
           archive[e][v] # Absent => archive'[e][v] = archive[e][v]
  <2>1. CASE UploadPutVersion(r)
    <3>1. Entry(r) \in Entries /\ ver[r] \in Versions
      BY <1>1, <2>1, RecordType DEF UploadPutVersion, Goto, StageOf, HasRecord
    <3>. QED
      BY <2>1, <3>1 DEF UploadPutVersion, IfNew, TypeOK, Listing
  <2>2. CASE archive' = archive
    BY <2>2
  <2>. QED
    BY <1>1, <2>1, <2>2 DEF Upload, UploadLookupOwn, UploadLookupAnon, UploadReadPolicy,
       UploadClaim, UploadRejectArchive, UploadGate, UploadVersionTaken, UploadPutLatest,
       UploadPutMeta, MetaOnly, Resolve, ToggleEtag, ToggleRead, ToggleWrite, PolicyRead,
       PolicyEtag, PolicyWrite, stores
<1>4. \A e \in Entries : meta[e] # Absent => meta'[e] # Absent
  <2>1. ASSUME NEW m \in Meta, meta' = [meta EXCEPT ![Entry(r)] = m]
        PROVE  \A e \in Entries : meta[e] # Absent => meta'[e] # Absent
    BY <2>1, CatalogAssumption DEF TypeOK
  <2>2. CASE UploadPutMeta(r)
    <3>1. seen[r] \in Meta /\ ver[r] \in Versions /\ call[r].content \in Contents
      BY <1>1, <2>2, CallType DEF UploadPutMeta, Goto, StageOf, UploadPcs
    <3>. DEFINE m == [seen[r] EXCEPT !.versions[ver[r]] = call[r].content,
                                     !.published = call[r].published, !.policy = keep[r]]
    <3>2. m \in Meta
      BY <1>1, <3>1, CallType, MetaType DEF TypeOK
    <3>3. meta' = [meta EXCEPT ![Entry(r)] = m]
      BY <2>2 DEF UploadPutMeta, WriteMeta
    <3>. HIDE DEF m
    <3>. QED
      BY <2>1, <3>2, <3>3
  <2>3. CASE ToggleWrite(r)
    <3>1. seen[r] \in Meta
      BY <1>1, <2>3 DEF ToggleWrite, Goto, StageOf
    <3>. DEFINE m == [seen[r] EXCEPT !.published = (call[r].op = "publish")]
    <3>2. m \in Meta
      BY <3>1 DEF Meta
    <3>3. meta' = [meta EXCEPT ![Entry(r)] = m] \/ meta' = meta
      BY <2>3 DEF ToggleWrite, WriteMeta, document
    <3>. HIDE DEF m
    <3>. QED
      BY <2>1, <3>2, <3>3
  <2>4. CASE PolicyWrite(r)
    <3>1. seen[r] \in Meta \cup {Absent} /\ call[r].policy \in Policies
          /\ call[r].grantees \in SUBSET Accounts
      BY <1>1, <2>4, CallType DEF PolicyWrite, Goto, StageOf, PolicyPcs, TypeOK
    <3>. DEFINE base == IF seen[r] = Absent THEN BareMeta ELSE seen[r]
                grantees == IF call[r].policy = "shared" THEN call[r].grantees ELSE {}
                m == [base EXCEPT !.policy = call[r].policy, !.grantees = grantees]
    <3>2. base \in Meta
      BY <3>1 DEF Meta, BareMeta, NoVersions, Listing, Policies
    <3>3. grantees \in SUBSET Accounts
      BY <3>1
    <3>4. m \in Meta
      <4>. HIDE DEF base, grantees
      <4>. QED
        BY <3>1, <3>2, <3>3 DEF Meta
    <3>5. meta' = [meta EXCEPT ![Entry(r)] = m] \/ meta' = meta
      BY <2>4 DEF PolicyWrite, WriteMeta, document
    <3>. HIDE DEF m
    <3>. QED
      BY <2>1, <3>4, <3>5
  <2>5. CASE meta' = meta
    BY <2>5
  <2>. QED
    BY <1>1, <2>2, <2>3, <2>4, <2>5 DEF Upload, UploadLookupOwn, UploadLookupAnon,
       UploadReadPolicy, UploadClaim, UploadRejectArchive, UploadGate, UploadPutVersion,
       UploadVersionTaken, UploadPutLatest, MetaOnly, Resolve, ToggleEtag, ToggleRead,
       PolicyRead, PolicyEtag, stores, document
<1>. QED
  BY <1>2, <1>3, <1>4 DEF NothingGoes

(* What a request works on is, or was at its last lookup, in the index.    *)
LEMMA NamedStep ==
    ASSUME RecordsInv, TypeInv', Deleters = {}, NEW r \in Requests, Step(r),
           NothingGoes, StillNamed(r)
    PROVE  StillNamed(r)'
<1>. USE DEF RecordsInv, TypeInv
<1>1. (Upload(r) \/ MetaOnly(r)) /\ call[r] \in Call
  BY StepOfOp DEF TypeOK
<1>2. call[r].caller \in Namespaces /\ call[r].ns \in Namespaces /\ Anon \in Namespaces
  BY <1>1, CallType DEF Namespaces
<1>3. CASE UploadLookupOwn(r) \/ UploadLookupAnon(r) \/ Resolve(r)
  <2>1. index' = index /\ \E n \in Namespaces : found'[r] = index[n]
    BY <1>2, <1>3 DEF UploadLookupOwn, UploadLookupAnon, Resolve, stores, TypeOK
  <2>. QED
    BY <2>1 DEF StillNamed
<1>4. CASE UploadClaim(r)
  <2>1. CASE IfNew(index[call[r].caller])
    <3>1. PICK rec : /\ rec.ns = call[r].caller
                     /\ index' = [index EXCEPT ![call[r].caller] = rec]
                     /\ found' = [found EXCEPT ![r] = rec]
      BY <1>4, <2>1 DEF UploadClaim
    <3>. QED
      BY <1>2, <3>1 DEF StillNamed, TypeOK
  <2>2. CASE ~IfNew(index[call[r].caller])
    BY <1>4, <2>2 DEF UploadClaim, StillNamed
  <2>. QED
    BY <2>1, <2>2
<1>5. CASE found' = found
  <2>1. found[r] # Absent => found[r].ns \in Namespaces
    BY DEF TypeOK, Record
  <2>. QED
    BY <1>5, <2>1 DEF StillNamed, NothingGoes
<1>. QED
  BY <1>1, <1>3, <1>4, <1>5 DEF Upload, UploadReadPolicy, UploadRejectArchive, UploadGate,
     UploadPutVersion, UploadVersionTaken, UploadPutLatest, UploadPutMeta, MetaOnly, ToggleEtag,
     ToggleRead, ToggleWrite, PolicyRead, PolicyEtag, PolicyWrite, locals

(* An upload comes to have stored its archive by the conditional write of  *)
(* it alone, and keeps its record and its number from then on.             *)
LEMMA StoringStep ==
    ASSUME TypeInv, TypeInv', Deleters = {}, NEW r \in Requests, Step(r), Stored(r)'
    PROVE  /\ found' = found /\ ver' = ver
           /\ UploadPutVersion(r) \/ Stored(r)
           /\ pc'[r] = "200" => UploadPutMeta(r)
<1>. USE DEF Is, UploadOps
<1>1. call' = call /\ call[r].op = "upload" /\ StageOf(r)
  BY StepFrame DEF TypeInv, StageOK, Stored
<1>2. Upload(r)
  <2>1. ~MetaOnly(r)
    BY <1>1 DEF MetaOnly, Resolve, ToggleEtag, ToggleRead, ToggleWrite, PolicyRead, PolicyEtag,
       PolicyWrite, Goto, StageOf, TogglePcs, PolicyPcs, ToggleOps
  <2>. QED
    BY <2>1, StepOfOp
<1>3. CASE UploadPutVersion(r) \/ UploadPutLatest(r) \/ UploadPutMeta(r)
  BY <1>1, <1>3 DEF UploadPutVersion, UploadPutLatest, UploadPutMeta, Goto, TypeInv, TypeOK,
     locals, Stored
<1>4. CASE \/ UploadLookupOwn(r) \/ UploadLookupAnon(r) \/ UploadReadPolicy(r)
           \/ UploadClaim(r) \/ UploadRejectArchive(r) \/ UploadGate(r)
           \/ UploadVersionTaken(r)
  <2>1. pc'[r] \notin {"put_latest", "put_meta", "200"}
    BY <1>4 DEF UploadLookupOwn, UploadLookupAnon, UploadReadPolicy, UploadClaim,
       UploadRejectArchive, UploadGate, Verdict, UploadVersionTaken, Goto, TypeInv, TypeOK
  <2>. QED
    BY <2>1 DEF Stored
<1>. QED
  BY <1>2, <1>3, <1>4 DEF Upload

LEMMA NextStands == StandsInv /\ [Next]_vars => StandsInv'
<1>. SUFFICES ASSUME StandsInv, [Next]_vars
              PROVE  StandsInv'
  OBVIOUS
<1>1. RecordsInv /\ RecordsInv' /\ TypeInv /\ TypeInv'
  BY NextRecords DEF StandsInv, RecordsInv
<1>2. ASSUME NEW r \in Requests, Step(r), Deleters = {}
      PROVE  \A q \in Requests :
               /\ StillNamed(q)' /\ StillStored(q)' /\ StillDescribed(q)'
               /\ \A p \in Requests \ {q} : OwnVersion(q, p)'
  <2>1. /\ NothingGoes
        /\ call' = call
        /\ \A q \in Requests \ {r} : Undisturbed(q)
    BY <1>1, <1>2, KeepStep, StepFrame DEF TypeInv
  <2>2. \A q \in Requests : /\ StillNamed(q) /\ StillStored(q) /\ StillDescribed(q)
                            /\ \A p \in Requests \ {q} : OwnVersion(q, p)
    BY <1>2 DEF StandsInv
  <2>3. ASSUME NEW q \in Requests, Stored(q)
        PROVE  /\ Entry(q) \in Entries /\ ver[q] \in Versions
               /\ archive[Entry(q)][ver[q]] = call[q].content
               /\ call[q].content # Absent
               /\ archive'[Entry(q)][ver[q]] = call[q].content
    <3>1. call[q] \in Call /\ call[q].op = "upload"
      BY <1>1, <2>3 DEF TypeInv, TypeOK, Stored, Is, UploadOps
    <3>2. call[q].content # Absent
      BY <3>1, CallType, CatalogAssumption
    <3>3. Entry(q) \in Entries /\ ver[q] \in Versions
          /\ archive[Entry(q)][ver[q]] = call[q].content
      BY <2>2, <2>3, RecordType DEF StillStored
    <3>. QED
      BY <2>1, <3>2, <3>3 DEF NothingGoes
  <2>4. ASSUME NEW q \in Requests \ {r}
        PROVE  /\ StillNamed(q)' /\ StillStored(q)' /\ StillDescribed(q)'
               /\ Stored(q)' => Stored(q)
               /\ Entry(q)' = Entry(q) /\ ver'[q] = ver[q]
    <3>1. /\ pc'[q] = pc[q] /\ found'[q] = found[q] /\ ver'[q] = ver[q]
          /\ Entry(q)' = Entry(q)
          /\ Stored(q)' = Stored(q) /\ Acknowledged(q)' = Acknowledged(q)
      BY <2>1 DEF Undisturbed, Entry, Stored, Acknowledged, Is
    <3>2. StillNamed(q)'
      <4>1. found[q] # Absent => found[q].ns \in Namespaces
        BY <1>1 DEF TypeInv, TypeOK, Record
      <4>. QED
        BY <2>1, <2>2, <3>1, <4>1 DEF StillNamed, NothingGoes
    <3>3. StillStored(q)'
      <4>1. Stored(q) => found[q] \in Record
        BY <2>2 DEF StillStored
      <4>. QED
        BY <2>1, <2>3, <3>1, <4>1 DEF StillStored
    <3>4. StillDescribed(q)'
      <4>1. Acknowledged(q) => Stored(q)
        BY DEF Acknowledged, Stored
      <4>. QED
        BY <2>1, <2>2, <2>3, <3>1, <4>1 DEF StillDescribed, NothingGoes
    <3>. QED
      BY <3>1, <3>2, <3>3, <3>4
  <2>5. StillNamed(r)'
    BY <1>1, <1>2, <2>1, <2>2, NamedStep
  <2>6. ASSUME Stored(r)'
        PROVE  /\ Entry(r)' = Entry(r) /\ ver'[r] = ver[r] /\ found'[r] = found[r]
               /\ found[r] \in Record /\ Entry(r) \in Entries /\ ver[r] \in Versions
               /\ archive'[Entry(r)][ver[r]] = call[r].content
               /\ ~Stored(r) => archive[Entry(r)][ver[r]] = Absent
    <3>1. found' = found /\ ver' = ver /\ Entry(r)' = Entry(r)
      BY <1>1, <1>2, <2>6, StoringStep DEF Entry
    <3>2. CASE Stored(r)
      BY <2>2, <2>3, <3>1, <3>2 DEF StillStored
    <3>3. CASE UploadPutVersion(r)
      <4>1. found[r] \in Record /\ ver[r] \in Versions
        BY <1>1, <3>3 DEF UploadPutVersion, Goto, TypeInv, StageOK, StageOf, HasRecord
      <4>2. Entry(r) \in Entries
        BY <4>1, RecordType
      <4>3. archive[Entry(r)][ver[r]] = Absent
            /\ archive' = [archive EXCEPT ![Entry(r)][ver[r]] = call[r].content]
        BY <3>3 DEF UploadPutVersion, IfNew
      <4>4. archive'[Entry(r)][ver[r]] = call[r].content
        BY <1>1, <4>1, <4>2, <4>3 DEF TypeInv, TypeOK, Listing
      <4>. QED
        BY <3>1, <4>1, <4>2, <4>3, <4>4
    <3>. QED
      BY <1>1, <1>2, <2>6, <3>2, <3>3, StoringStep
  <2>7. StillStored(r)'
    BY <2>1, <2>6 DEF StillStored
  <2>8. StillDescribed(r)'
    <3>. SUFFICES ASSUME Acknowledged(r)'
                  PROVE  meta'[Entry(r)'] # Absent
      BY DEF StillDescribed
    <3>1. Stored(r)' /\ pc'[r] = "200"
      BY DEF Acknowledged, Stored
    <3>2. UploadPutMeta(r) /\ Entry(r)' = Entry(r) /\ Entry(r) \in Entries
      BY <1>1, <1>2, <2>6, <3>1, StoringStep
    <3>3. meta'[Entry(r)] \in Meta
      <4>1. seen[r] \in Meta
        BY <1>1, <3>2 DEF UploadPutMeta, Goto, TypeInv, StageOK, StageOf
      <4>. DEFINE m == [seen[r] EXCEPT !.versions[ver[r]] = call[r].content,
                                       !.published = call[r].published, !.policy = keep[r]]
      <4>2. m # Absent
        <5>1. call[r] \in Call /\ call[r].op = "upload" /\ keep[r] \in Policies
          BY <1>1, <3>1, <2>1 DEF TypeInv, TypeOK, Stored, Is, UploadOps
        <5>2. m \in Meta
          BY <2>6, <3>1, <4>1, <5>1, CallType, MetaType
        <5>. QED
          BY <5>2, CatalogAssumption
      <4>3. meta' = [meta EXCEPT ![Entry(r)] = m]
        BY <3>2 DEF UploadPutMeta, WriteMeta
      <4>. HIDE DEF m
      <4>. QED
        BY <1>1, <3>2, <4>2, <4>3 DEF TypeInv, TypeOK
    <3>. QED
      BY <3>2, <3>3, CatalogAssumption
  <2>9. ASSUME NEW q \in Requests \ {r}
        PROVE  OwnVersion(r, q)' /\ OwnVersion(q, r)'
    <3>. SUFFICES ASSUME Stored(r)', Stored(q)', Entry(r)' = Entry(q)'
                  PROVE  ver'[r] # ver'[q]
      BY DEF OwnVersion
    <3>1. Stored(q) /\ Entry(q)' = Entry(q) /\ ver'[q] = ver[q]
      BY <2>4
    <3>2. Entry(r)' = Entry(r) /\ ver'[r] = ver[r]
      BY <2>6
    <3>3. CASE Stored(r)
      BY <2>2, <3>1, <3>2, <3>3 DEF OwnVersion
    <3>4. CASE ~Stored(r)
      BY <2>3, <2>6, <3>1, <3>2, <3>4
    <3>. QED
      BY <3>3, <3>4
  <2>10. \A q, p \in Requests \ {r} : p # q => OwnVersion(q, p)'
    BY <2>2, <2>4 DEF OwnVersion
  <2>. QED
    BY <2>4, <2>5, <2>7, <2>8, <2>9, <2>10
<1>3. ASSUME NEW r \in Requests, Step(r)
      PROVE  StandsInv'
  <2>1. Deleters' = Deleters
    BY <1>1, <1>3, StepFrame DEF TypeInv, Deleters, Is
  <2>. QED
    BY <1>1, <1>2, <1>3, <2>1 DEF StandsInv
<1>4. ASSUME UNCHANGED <<index, document, archive, pc, locals>>
      PROVE  StandsInv'
  BY <1>1, <1>4 DEF StandsInv, document, locals, Deleters, Is, StillNamed, StillStored, Stored,
     StillDescribed, OwnVersion, Entry, Acknowledged
<1>. QED
  BY <1>3, <1>4 DEF Next, CatchUp, Done, vars, stores, document, head

LEMMA InitStands == Init => StandsInv
<1>. SUFFICES ASSUME Init
              PROVE  StandsInv
  OBVIOUS
<1>1. \A r \in Requests : ~Stored(r) /\ found[r] = Absent
  BY DEF Init, InitRequests, Stored
<1>. QED
  BY <1>1, InitRecords
  DEF StandsInv, StillNamed, StillStored, StillDescribed, OwnVersion, Acknowledged, Stored

(* For any number of uploads, policy changes and toggles, in any order and *)
(* stopped anywhere: an upload that was answered 200 has a version no      *)
(* other was given, with its bytes, in the entry the index leads to.       *)
THEOREM UploadsStand == Spec => []AcknowledgedStands
<1>1. StandsInv => AcknowledgedStands
  <2>. SUFFICES ASSUME StandsInv, Deleters = {}, NEW r \in Requests, Acknowledged(r)
                PROVE  /\ archive[Entry(r)][ver[r]] = call[r].content
                       /\ \A q \in Requests \ {r} :
                              Acknowledged(q) /\ Entry(q) = Entry(r) => ver[q] # ver[r]
                       /\ index[found[r].ns] = found[r]
                       /\ meta[Entry(r)] # Absent
    BY DEF AcknowledgedStands, AcknowledgedKept, AcknowledgedFindable
  <2>1. Stored(r) /\ found[r] # Absent
    BY CatalogAssumption DEF Acknowledged, Stored, StandsInv, StillStored
  <2>2. /\ StillNamed(r) /\ StillStored(r) /\ StillDescribed(r)
        /\ \A q \in Requests \ {r} : OwnVersion(r, q)
    BY DEF StandsInv
  <2>3. \A q \in Requests : Acknowledged(q) => Stored(q)
    BY DEF Acknowledged, Stored
  <2>. QED
    BY <2>1, <2>2, <2>3 DEF StillNamed, StillStored, StillDescribed, OwnVersion
<1>. QED
  BY InitStands, NextStands, <1>1, PTL DEF Spec
=============================================================================
