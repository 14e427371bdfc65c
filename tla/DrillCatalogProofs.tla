------------------------- MODULE DrillCatalogProofs -------------------------
(***************************************************************************)
(* Theorems about DrillCatalog, for every set of requests, every catalog   *)
(* to start from and every bound.                                          *)
(***************************************************************************)
EXTENDS DrillCatalog, WellFoundedInduction, NaturalsInduction, TLAPS

(* The greatest version of a listing is one of its versions, or 0 when it  *)
(* lists none.                                                             *)
LEMMA GreatestFact ==
    ASSUME NEW list \in Listing
    PROVE  /\ Greatest(list) \in 0..MaxVersion
           /\ Listed(list) # {} => Greatest(list) \in Listed(list)
           /\ \A w \in Listed(list) : w <= Greatest(list)
<1>. DEFINE S == Listed(list) \cup {0}
            Gap == {MaxVersion - v : v \in S}
<1>0. MaxVersion \in Nat
  BY CatalogAssumption
<1>1. S \subseteq 0..MaxVersion /\ 0 \in S
  BY <1>0 DEF Listed, Versions
<1>2. Gap \subseteq Nat /\ Gap # {}
  BY <1>0, <1>1
<1>3. PICK g \in Gap : \A h \in Gap : ~(<<h, g>> \in OpToRel(<, Nat))
  BY <1>2, NatLessThanWellFounded, WFMin, Zenon
<1>4. \A h \in Gap : ~(h < g)
  BY <1>2, <1>3 DEF OpToRel
<1>5. PICK m \in S : g = MaxVersion - m
  OBVIOUS
<1>6. \A w \in S : m >= w
  <2>. TAKE w \in S
  <2>1. MaxVersion - w \in Gap
    OBVIOUS
  <2>2. ~(MaxVersion - w < MaxVersion - m)
    BY <1>4, <1>5, <2>1
  <2>. QED
    BY <1>0, <1>1, <2>2
<1>7. /\ Greatest(list) \in S
      /\ \A w \in S : Greatest(list) >= w
  BY <1>6 DEF Greatest, Max
<1>8. Listed(list) \subseteq Versions
  BY DEF Listed
<1>9. Greatest(list) \in 0..MaxVersion
  BY <1>1, <1>7
<1>10. Listed(list) # {} => Greatest(list) \in Listed(list)
  <2>. SUFFICES ASSUME NEW w \in Listed(list), Greatest(list) = 0
                PROVE  FALSE
    BY <1>7
  <2>1. Greatest(list) >= w /\ w \in 1..MaxVersion
    BY <1>7, <1>8 DEF Versions
  <2>. QED
    BY <1>0, <2>1
<1>11. \A w \in Listed(list) : w <= Greatest(list)
  BY <1>0, <1>1, <1>7, <1>9
<1>. QED
  BY <1>9, <1>10, <1>11

-----------------------------------------------------------------------------

TypeInv == TypeOK /\ StageOK

(* A step of one request leaves every other request where it stands.       *)
Undisturbed(q) ==
    /\ pc'[q] = pc[q] /\ found'[q] = found[q] /\ seen'[q] = seen[q]
    /\ etag'[q] = etag[q] /\ buf'[q] = buf[q] /\ ver'[q] = ver[q]
    /\ keep'[q] = keep[q] /\ doomed'[q] = doomed[q]

LEMMA StepFrame ==
    ASSUME TypeOK, NEW r \in Requests, Step(r)
    PROVE  call' = call /\ \A q \in Requests \ {r} : Undisturbed(q)
<1>. USE DEF TypeOK, Undisturbed, Goto, stores, document, head, locals
<1>1. CASE Upload(r)
  BY <1>1 DEF Upload, UploadLookupOwn, UploadLookupAnon, UploadReadPolicy, UploadClaim, UploadRejectArchive, UploadGate, UploadPutVersion, UploadVersionTaken, UploadPutLatest, UploadPutMeta
<1>2. CASE MetaOnly(r)
  BY <1>2 DEF MetaOnly, Resolve, ToggleEtag, ToggleRead, ToggleWrite, PolicyRead, PolicyEtag, PolicyWrite
<1>3. CASE DeleteVersion(r)
  BY <1>3 DEF DeleteVersion, DeleteRead, ReadNewLatest, LatestEtagRead, Promote, MetaEtagRead, Unlist, DropBytes, LastEtag, LastLatest, LastMeta, LastIndex
<1>4. CASE DeleteAll(r)
  BY <1>4 DEF DeleteAll, ListKeys, SweepKey, SweepIndex
<1>. QED
  BY <1>1, <1>2, <1>3, <1>4 DEF Step

LEMMA StageFrame ==
    ASSUME TypeOK, StageOK, NEW r \in Requests, Step(r), StageOf(r)'
    PROVE  StageOK'
<1>. SUFFICES ASSUME NEW q \in Requests \ {r}
              PROVE  StageOf(q)'
  BY DEF StageOK
<1>1. call' = call /\ Undisturbed(q)
  BY StepFrame
<1>2. StageOf(q)
  BY DEF StageOK
<1>. QED
  BY <1>1, <1>2 DEF StageOf, Undisturbed, Remaining

-----------------------------------------------------------------------------
(* The types of what a request has in hand.                                *)

LEMMA RecordType ==
    ASSUME NEW r \in Requests, found[r] \in Record
    PROVE  /\ Entry(r) \in Entries
           /\ found[r].ns \in Namespaces
           /\ OwnerOf(found[r]) \in Namespaces
           /\ found[r].plan \in Plans
BY DEF Record, Entry, OwnerOf

LEMMA CallType ==
    ASSUME NEW c \in Call
    PROVE  /\ c.op \in Ops /\ c.ns \in Namespaces /\ c.caller \in Namespaces
           /\ c.plan \in Plans /\ c.ifMatch \in Contents \cup {Absent}
           /\ c.version \in Versions \cup {Absent} /\ c.published \in BOOLEAN
           /\ c.policy \in Policies \cup {Absent} /\ c.grantees \in SUBSET Accounts
           /\ c.content \in Contents \cup {Absent}
           /\ c.op = "upload" => c.content \in Contents
           /\ c.op = "upload" => c.policy \in {"public", "account", Absent}
           /\ c.op = "policy" => c.policy \in Policies
           /\ c.op = "deleteversion" => c.version \in Versions
BY DEF Call, Params

LEMMA MetaType ==
    ASSUME NEW m \in Meta
    PROVE  /\ m.versions \in Listing
           /\ \A list \in Listing : [m EXCEPT !.versions = list] \in Meta
           /\ \A f \in BOOLEAN : [m EXCEPT !.published = f] \in Meta
           /\ \A p \in Policies, g \in SUBSET Accounts :
                  [m EXCEPT !.policy = p, !.grantees = g] \in Meta
           /\ \A v \in Versions, c \in Contents, f \in BOOLEAN, p \in Policies :
                  [m EXCEPT !.versions[v] = c, !.published = f, !.policy = p] \in Meta
           /\ ViewOf(m) \in View
<1>1. m.versions \in Listing
  BY DEF Meta
<1>2. \A list \in Listing : [m EXCEPT !.versions = list] \in Meta
  BY DEF Meta
<1>3. \A f \in BOOLEAN : [m EXCEPT !.published = f] \in Meta
  BY DEF Meta
<1>4. \A p \in Policies, g \in SUBSET Accounts :
          [m EXCEPT !.policy = p, !.grantees = g] \in Meta
  BY DEF Meta
<1>5. \A v \in Versions, c \in Contents, f \in BOOLEAN, p \in Policies :
          [m EXCEPT !.versions[v] = c, !.published = f, !.policy = p] \in Meta
  <2>. TAKE v \in Versions, c \in Contents, f \in BOOLEAN, p \in Policies
  <2>1. [m.versions EXCEPT ![v] = c] \in Listing
    BY <1>1 DEF Listing
  <2>. QED
    BY <2>1 DEF Meta
<1>6. ViewOf(m) \in View
  BY CatalogAssumption DEF Meta, ViewOf, View
<1>. QED
  BY <1>1, <1>2, <1>3, <1>4, <1>5, <1>6

LEMMA NewMetaType ==
    ASSUME NEW r \in Requests, call[r] \in Call
    PROVE  NoVersions \in Listing /\ DefaultMeta(r) \in Meta /\ BareMeta \in Meta
<1>1. NoVersions \in Listing
  BY DEF NoVersions, Listing
<1>2. call[r].plan \in Plans
  BY CallType
<1>. QED
  BY <1>1, <1>2 DEF DefaultMeta, BareMeta, Meta, Policies

LEMMA LatestEtagType ==
    ASSUME NEW list \in Listing
    PROVE  LatestEtag(list) \in Contents \cup {Absent}
BY GreatestFact DEF LatestEtag, Listing, Listed

LEMMA RemainingType ==
    ASSUME NEW r \in Requests, seen[r] \in Meta
    PROVE  Remaining(r) \in Listing
<1>1. seen[r].versions \in Listing
  BY MetaType
<1>. QED
  BY <1>1 DEF Remaining, Listing

LEMMA UploadType ==
    ASSUME TypeOK, StageOK, NEW r \in Requests, Upload(r)
    PROVE  TypeOK' /\ StageOf(r)'
<1>. USE CatalogAssumption DEF TypeOK, Goto, stores, document, head, locals, WriteMeta, WriteLatest, StageOf, HasRecord, Pcs, UploadPcs,
         TogglePcs, PolicyPcs, DeletePcs, RecomputePcs, LastPcs, SweepPcs, Answers,
         newEntryIds, Verdict
<1>1. StageOf(r) /\ call[r] \in Call
  BY DEF StageOK
<1>2. CASE UploadLookupOwn(r)
  <2>. USE <1>2 DEF UploadLookupOwn
  <2>1. pc' \in [Requests -> Pcs]
    OBVIOUS
  <2>2. found' \in [Requests -> Record \cup {Absent}]
    BY <1>1, RecordType, CallType
  <2>3. TypeOK'
    BY <2>1, <2>2
  <2>4. StageOf(r)'
    BY <1>1, <2>1, <2>2
  <2>. QED
    BY <2>3, <2>4
<1>3. CASE UploadLookupAnon(r)
  <2>. USE <1>3 DEF UploadLookupAnon
  <2>1. pc' \in [Requests -> Pcs]
    OBVIOUS
  <2>2. found' \in [Requests -> Record \cup {Absent}]
    BY <1>1, RecordType, CallType DEF Namespaces
  <2>3. TypeOK'
    BY <2>1, <2>2
  <2>4. StageOf(r)'
    BY <1>1, <2>1, <2>2 DEF Namespaces
  <2>. QED
    BY <2>3, <2>4
<1>4. CASE UploadReadPolicy(r)
  <2>. USE <1>4 DEF UploadReadPolicy
  <2>1. pc' \in [Requests -> Pcs]
    OBVIOUS
  <2>2. keep' \in [Requests -> Policies]
    BY <1>1, RecordType, CallType DEF readAccessPolicy, View, Policies
  <2>3. TypeOK'
    BY <2>1, <2>2
  <2>4. StageOf(r)'
    BY <1>1, <2>1, <2>2
  <2>. QED
    BY <2>3, <2>4
<1>5. CASE UploadClaim(r)
  <2>. USE <1>5 DEF UploadClaim
  <2>1. pc' \in [Requests -> Pcs]
    OBVIOUS
  <2>2. index' \in [Namespaces -> Record \cup {Absent}]
    BY <1>1, RecordType, CallType DEF Record
  <2>3. found' \in [Requests -> Record \cup {Absent}]
    BY <1>1, <2>2, RecordType, CallType DEF Record
  <2>4. minted' \in SUBSET Entries
    BY <1>1, <2>2, <2>3, RecordType, CallType
  <2>5. keep' \in [Requests -> Policies]
    BY <1>1, <2>2, <2>3, <2>4, RecordType, CallType DEF NewEntryPolicy, Policies
  <2>6. TypeOK'
    BY <2>1, <2>2, <2>3, <2>4, <2>5
  <2>7. StageOf(r)'
    <3>1. CASE IfNew(index[call[r].caller])
      <4>1. pc'[r] = "gate" /\ found'[r] \in Record
        BY <1>1, <3>1, CallType DEF Record
      <4>. QED
        BY <1>1, <4>1
    <3>2. CASE ~IfNew(index[call[r].caller])
      <4>1. pc'[r] = "409_slug"
        BY <3>2
      <4>. QED
        BY <1>1, <4>1
    <3>. QED
      BY <3>1, <3>2
  <2>. QED
    BY <2>6, <2>7
<1>6. CASE UploadRejectArchive(r)
  <2>. USE <1>6 DEF UploadRejectArchive
  <2>1. pc' \in [Requests -> Pcs]
    OBVIOUS
  <2>2. TypeOK'
    BY <2>1
  <2>3. StageOf(r)'
    BY <1>1, <2>1
  <2>. QED
    BY <2>2, <2>3
<1>7. CASE UploadGate(r)
  <2>. USE <1>7 DEF UploadGate
  <2>. DEFINE m == IF meta[Entry(r)] = Absent THEN DefaultMeta(r) ELSE meta[Entry(r)]
              first == IF call[r].version # Absent THEN call[r].version
                       ELSE Greatest(m.versions) + 1
  <2>1. pc' \in [Requests -> Pcs]
    OBVIOUS
  <2>2. m \in Meta /\ m.versions \in Listing
    BY <1>1, RecordType, NewMetaType, MetaType
  <2>3. first \in Versions
    <3>1. Greatest(m.versions) \in 0..MaxVersion
      BY <2>2, GreatestFact
    <3>2. call[r].version \in Versions \cup {Absent}
      BY <1>1, CallType
    <3>. QED
      BY <3>1, <3>2 DEF Versions
  <2>4. seen' = [seen EXCEPT ![r] = m] /\ ver' = [ver EXCEPT ![r] = first]
    OBVIOUS
  <2>5. TypeOK'
    BY <2>1, <2>2, <2>3, <2>4 DEF Versions
  <2>6. StageOf(r)'
    <3>1. seen'[r] \in Meta /\ ver'[r] \in Versions
      BY <2>2, <2>3, <2>4
    <3>. HIDE DEF m, first
    <3>. QED
      BY <1>1, <3>1
  <2>. QED
    BY <2>5, <2>6
<1>8. CASE UploadPutVersion(r)
  <2>. USE <1>8 DEF UploadPutVersion
  <2>1. pc' \in [Requests -> Pcs]
    OBVIOUS
  <2>2. archive' \in [Entries -> Listing]
    BY <1>1, RecordType, CallType DEF Listing
  <2>3. TypeOK'
    BY <2>1, <2>2
  <2>4. StageOf(r)'
    BY <1>1, <2>1, <2>2
  <2>. QED
    BY <2>3, <2>4
<1>9. CASE UploadVersionTaken(r)
  <2>. USE <1>9 DEF UploadVersionTaken
  <2>1. pc' \in [Requests -> Pcs]
    OBVIOUS
  <2>2. ver' \in [Requests -> 0..MaxVersion]
    BY <1>1, RecordType, CallType DEF Versions
  <2>3. TypeOK'
    BY <2>1, <2>2
  <2>4. StageOf(r)'
    BY <1>1, <2>1, <2>2 DEF Versions
  <2>. QED
    BY <2>3, <2>4
<1>10. CASE UploadPutLatest(r)
  <2>. USE <1>10 DEF UploadPutLatest
  <2>1. pc' \in [Requests -> Pcs]
    OBVIOUS
  <2>2. latest' \in [Entries -> Contents \cup {Absent}]
    BY <1>1, RecordType, CallType
  <2>3. TypeOK'
    BY <2>1, <2>2
  <2>4. StageOf(r)'
    BY <1>1, <2>1, <2>2
  <2>. QED
    BY <2>3, <2>4
<1>11. CASE UploadPutMeta(r)
  <2>. USE <1>11 DEF UploadPutMeta
  <2>1. pc' \in [Requests -> Pcs]
    OBVIOUS
  <2>2. meta' \in [Entries -> Meta \cup {Absent}]
    BY <1>1, RecordType, CallType, MetaType
  <2>3. TypeOK'
    BY <2>1, <2>2
  <2>4. StageOf(r)'
    BY <1>1, <2>1, <2>2
  <2>. QED
    BY <2>3, <2>4
<1>. QED
  BY <1>2, <1>3, <1>4, <1>5, <1>6, <1>7, <1>8, <1>9, <1>10, <1>11 DEF Upload

LEMMA MetaOnlyType ==
    ASSUME TypeOK, StageOK, NEW r \in Requests, MetaOnly(r)
    PROVE  TypeOK' /\ StageOf(r)'
<1>. USE CatalogAssumption DEF TypeOK, Goto, stores, document, head, locals, WriteMeta, WriteLatest, StageOf, HasRecord, Pcs, UploadPcs,
         TogglePcs, PolicyPcs, DeletePcs, RecomputePcs, LastPcs, SweepPcs, Answers
<1>1. StageOf(r) /\ call[r] \in Call
  BY DEF StageOK
<1>2. CASE Resolve(r)
  <2>. USE <1>2 DEF Resolve
  <2>1. pc' \in [Requests -> Pcs]
    OBVIOUS
  <2>2. found' \in [Requests -> Record \cup {Absent}]
    BY <1>1, RecordType, CallType
  <2>3. TypeOK'
    BY <2>1, <2>2
  <2>4. StageOf(r)'
    <3>1. CASE index[call[r].ns] = Absent
      <4>1. pc'[r] = "404"
        BY <3>1
      <4>. QED
        BY <1>1, <4>1
    <3>2. CASE index[call[r].ns] # Absent
      <4>1. found'[r] \in Record
        BY <1>1, <3>2, CallType
      <4>2. /\ call'[r] = call[r]
            /\ call[r].op \in ToggleOps => pc'[r] = "toggle_etag"
            /\ call[r].op = "policy" => pc'[r] = "policy_read"
            /\ call[r].op = "deleteversion" => pc'[r] = "delete_read"
            /\ call[r].op = "deleteall" => pc'[r] = "list"
        BY <3>2 DEF ToggleOps
      <4>3. call[r].op \in ToggleOps \cup {"policy", "deleteversion", "deleteall"}
        BY <1>1, CallType DEF Ops, UploadOps, ToggleOps, DeleteOps
      <4>. QED
        BY <1>1, <4>1, <4>2, <4>3 DEF ToggleOps
    <3>. QED
      BY <3>1, <3>2
  <2>. QED
    BY <2>3, <2>4
<1>3. CASE ToggleEtag(r)
  <2>. USE <1>3 DEF ToggleEtag
  <2>1. pc' \in [Requests -> Pcs]
    OBVIOUS
  <2>2. etag' \in [Requests -> Nat \cup {Absent}]
    BY <1>1, RecordType, CallType DEF Etag
  <2>3. TypeOK'
    BY <2>1, <2>2
  <2>4. StageOf(r)'
    BY <1>1, <2>1, <2>2
  <2>. QED
    BY <2>3, <2>4
<1>4. CASE ToggleRead(r)
  <2>. USE <1>4 DEF ToggleRead
  <2>1. pc' \in [Requests -> Pcs]
    OBVIOUS
  <2>2. seen' \in [Requests -> Meta \cup {Absent}]
    BY <1>1, RecordType, CallType
  <2>3. TypeOK'
    BY <2>1, <2>2
  <2>4. StageOf(r)'
    BY <1>1, <2>1, <2>2
  <2>. QED
    BY <2>3, <2>4
<1>5. CASE ToggleWrite(r)
  <2>. USE <1>5 DEF ToggleWrite
  <2>1. pc' \in [Requests -> Pcs]
    OBVIOUS
  <2>. DEFINE m == [seen[r] EXCEPT !.published = (call[r].op = "publish")]
  <2>2. meta' \in [Entries -> Meta \cup {Absent}]
    <3>1. m \in Meta
      BY <1>1, MetaType
    <3>2. meta' = [meta EXCEPT ![Entry(r)] = m] \/ meta' = meta
      OBVIOUS
    <3>. HIDE DEF m
    <3>. QED
      BY <1>1, <3>1, <3>2, RecordType
  <2>3. TypeOK'
    BY <2>1, <2>2
  <2>4. StageOf(r)'
    BY <1>1, <2>1, <2>2
  <2>. QED
    BY <2>3, <2>4
<1>6. CASE PolicyRead(r)
  <2>. USE <1>6 DEF PolicyRead
  <2>1. pc' \in [Requests -> Pcs]
    OBVIOUS
  <2>2. seen' \in [Requests -> Meta \cup {Absent}]
    BY <1>1, RecordType, CallType
  <2>3. TypeOK'
    BY <2>1, <2>2
  <2>4. StageOf(r)'
    BY <1>1, <2>1, <2>2
  <2>. QED
    BY <2>3, <2>4
<1>7. CASE PolicyEtag(r)
  <2>. USE <1>7 DEF PolicyEtag
  <2>1. pc' \in [Requests -> Pcs]
    OBVIOUS
  <2>2. etag' \in [Requests -> Nat \cup {Absent}]
    BY <1>1, RecordType, CallType DEF Etag
  <2>3. TypeOK'
    BY <2>1, <2>2
  <2>4. StageOf(r)'
    BY <1>1, <2>1, <2>2
  <2>. QED
    BY <2>3, <2>4
<1>8. CASE PolicyWrite(r)
  <2>. USE <1>8 DEF PolicyWrite
  <2>1. pc' \in [Requests -> Pcs]
    OBVIOUS
  <2>. DEFINE base == IF seen[r] = Absent THEN BareMeta ELSE seen[r]
              grantees == IF call[r].policy = "shared" THEN call[r].grantees ELSE {}
              m == [base EXCEPT !.policy = call[r].policy, !.grantees = grantees]
  <2>2. meta' \in [Entries -> Meta \cup {Absent}]
    <3>1. m \in Meta
      <4>1. base \in Meta
        BY NewMetaType
      <4>2. call[r].policy \in Policies /\ grantees \in SUBSET Accounts
        BY <1>1, CallType
      <4>. QED
        BY <4>1, <4>2, MetaType
    <3>2. meta' = [meta EXCEPT ![Entry(r)] = m] \/ meta' = meta
      OBVIOUS
    <3>. HIDE DEF m
    <3>. QED
      BY <1>1, <3>1, <3>2, RecordType
  <2>3. TypeOK'
    BY <2>1, <2>2
  <2>4. StageOf(r)'
    BY <1>1, <2>1, <2>2
  <2>. QED
    BY <2>3, <2>4
<1>. QED
  BY <1>2, <1>3, <1>4, <1>5, <1>6, <1>7, <1>8 DEF MetaOnly

LEMMA DeleteVersionType ==
    ASSUME TypeOK, StageOK, NEW r \in Requests, DeleteVersion(r)
    PROVE  TypeOK' /\ StageOf(r)'
<1>. USE CatalogAssumption DEF TypeOK, Goto, stores, document, head, locals, WriteMeta, WriteLatest, StageOf, HasRecord, Pcs, UploadPcs,
         TogglePcs, PolicyPcs, DeletePcs, RecomputePcs, LastPcs, SweepPcs, Answers,
         DeletePath, TryDelete
<1>1. StageOf(r) /\ call[r] \in Call
  BY DEF StageOK
<1>2. CASE DeleteRead(r)
  <2>. USE <1>2 DEF DeleteRead
  <2>1. pc' \in [Requests -> Pcs]
    OBVIOUS
  <2>2. seen' \in [Requests -> Meta \cup {Absent}]
    BY <1>1, RecordType, CallType
  <2>3. TypeOK'
    BY <2>1, <2>2
  <2>4. StageOf(r)'
    BY <1>1, <2>1, <2>2 DEF Remaining, Listed, Listing
  <2>. QED
    BY <2>3, <2>4
<1>3. CASE ReadNewLatest(r)
  <2>. USE <1>3 DEF ReadNewLatest
  <2>1. pc' \in [Requests -> Pcs]
    OBVIOUS
  <2>2. Greatest(Remaining(r)) \in Versions
    BY <1>1, RecordType, CallType, RemainingType, GreatestFact DEF Listed
  <2>3. buf' \in [Requests -> Contents \cup {Absent}]
    BY <1>1, <2>2, RecordType, CallType DEF Listing
  <2>4. TypeOK'
    BY <2>1, <2>2, <2>3
  <2>5. StageOf(r)'
    BY <1>1, <2>1, <2>2, <2>3 DEF Remaining
  <2>. QED
    BY <2>4, <2>5
<1>4. CASE LatestEtagRead(r)
  <2>. USE <1>4 DEF LatestEtagRead
  <2>1. pc' \in [Requests -> Pcs]
    OBVIOUS
  <2>2. etag' \in [Requests -> Nat \cup {Absent}]
    BY <1>1, RecordType, CallType DEF Etag
  <2>3. TypeOK'
    BY <2>1, <2>2
  <2>4. StageOf(r)'
    BY <1>1, <2>1, <2>2 DEF Remaining
  <2>. QED
    BY <2>3, <2>4
<1>5. CASE Promote(r)
  <2>. USE <1>5 DEF Promote
  <2>1. pc' \in [Requests -> Pcs]
    OBVIOUS
  <2>2. latest' \in [Entries -> Contents \cup {Absent}]
    BY <1>1, RecordType, CallType
  <2>3. TypeOK'
    BY <2>1, <2>2
  <2>4. StageOf(r)'
    BY <1>1, <2>1, <2>2 DEF Remaining
  <2>. QED
    BY <2>3, <2>4
<1>6. CASE MetaEtagRead(r)
  <2>. USE <1>6 DEF MetaEtagRead
  <2>1. pc' \in [Requests -> Pcs]
    OBVIOUS
  <2>2. etag' \in [Requests -> Nat \cup {Absent}]
    BY <1>1, RecordType, CallType DEF Etag
  <2>3. TypeOK'
    BY <2>1, <2>2
  <2>4. StageOf(r)'
    BY <1>1, <2>1, <2>2 DEF Remaining
  <2>. QED
    BY <2>3, <2>4
<1>7. CASE Unlist(r)
  <2>. USE <1>7 DEF Unlist
  <2>1. pc' \in [Requests -> Pcs]
    OBVIOUS
  <2>. DEFINE m == [seen[r] EXCEPT !.versions = Remaining(r)]
  <2>2. meta' \in [Entries -> Meta \cup {Absent}]
    <3>1. m \in Meta
      BY <1>1, MetaType, RemainingType
    <3>2. meta' = [meta EXCEPT ![Entry(r)] = m] \/ meta' = meta
      OBVIOUS
    <3>. HIDE DEF m
    <3>. QED
      BY <1>1, <3>1, <3>2, RecordType
  <2>3. TypeOK'
    BY <2>1, <2>2
  <2>4. StageOf(r)'
    BY <1>1, <2>1, <2>2
  <2>. QED
    BY <2>3, <2>4
<1>8. CASE DropBytes(r)
  <2>. USE <1>8 DEF DropBytes
  <2>1. pc' \in [Requests -> Pcs]
    OBVIOUS
  <2>2. archive' \in [Entries -> Listing]
    <3>1. Entry(r) \in Entries
      BY <1>1, RecordType
    <3>2. [archive EXCEPT ![Entry(r)][call[r].version] = Absent] \in [Entries -> Listing]
      BY <3>1 DEF Listing
    <3>. QED
      BY <3>2
  <2>3. TypeOK'
    BY <2>1, <2>2
  <2>4. StageOf(r)'
    BY <1>1, <2>1, <2>2
  <2>. QED
    BY <2>3, <2>4
<1>9. CASE LastEtag(r)
  <2>. USE <1>9 DEF LastEtag
  <2>1. pc' \in [Requests -> Pcs]
    OBVIOUS
  <2>2. TypeOK'
    BY <2>1
  <2>3. StageOf(r)'
    BY <1>1, <2>1
  <2>. QED
    BY <2>2, <2>3
<1>10. CASE LastLatest(r)
  <2>. USE <1>10 DEF LastLatest
  <2>1. pc' \in [Requests -> Pcs]
    OBVIOUS
  <2>2. latest' \in [Entries -> Contents \cup {Absent}]
    BY <1>1, RecordType, CallType
  <2>3. TypeOK'
    BY <2>1, <2>2
  <2>4. StageOf(r)'
    BY <1>1, <2>1, <2>2
  <2>. QED
    BY <2>3, <2>4
<1>11. CASE LastMeta(r)
  <2>. USE <1>11 DEF LastMeta
  <2>1. pc' \in [Requests -> Pcs]
    OBVIOUS
  <2>2. meta' \in [Entries -> Meta \cup {Absent}]
    BY <1>1, RecordType, CallType
  <2>3. TypeOK'
    BY <2>1, <2>2
  <2>4. StageOf(r)'
    BY <1>1, <2>1, <2>2
  <2>. QED
    BY <2>3, <2>4
<1>12. CASE LastIndex(r)
  <2>. USE <1>12 DEF LastIndex
  <2>1. pc' \in [Requests -> Pcs]
    OBVIOUS
  <2>2. index' \in [Namespaces -> Record \cup {Absent}]
    BY <1>1, RecordType, CallType
  <2>3. TypeOK'
    BY <2>1, <2>2
  <2>4. StageOf(r)'
    BY <1>1, <2>1, <2>2
  <2>. QED
    BY <2>3, <2>4
<1>. QED
  BY <1>2, <1>3, <1>4, <1>5, <1>6, <1>7, <1>8, <1>9, <1>10, <1>11, <1>12 DEF DeleteVersion

LEMMA DeleteAllType ==
    ASSUME TypeOK, StageOK, NEW r \in Requests, DeleteAll(r)
    PROVE  TypeOK' /\ StageOf(r)'
<1>. USE CatalogAssumption DEF TypeOK, Goto, stores, document, head, locals, WriteMeta, WriteLatest, StageOf, HasRecord, Pcs, UploadPcs,
         TogglePcs, PolicyPcs, DeletePcs, RecomputePcs, LastPcs, SweepPcs, Answers,
         TryDelete
<1>1. StageOf(r) /\ call[r] \in Call
  BY DEF StageOK
<1>2. CASE ListKeys(r)
  <2>. USE <1>2 DEF ListKeys
  <2>1. pc' \in [Requests -> Pcs]
    OBVIOUS
  <2>2. doomed' \in [Requests -> SUBSET Keys]
    BY <1>1, RecordType, CallType DEF Present, Listed, Keys
  <2>3. TypeOK'
    BY <2>1, <2>2
  <2>4. StageOf(r)'
    BY <1>1, <2>1, <2>2
  <2>. QED
    BY <2>3, <2>4
<1>3. CASE SweepKey(r)
  <2>. USE <1>3 DEF SweepKey
  <2>1. pc' \in [Requests -> Pcs]
    OBVIOUS
  <2>2. archive' \in [Entries -> Listing]
    BY <1>1, RecordType, CallType DEF Listing
  <2>3. latest' \in [Entries -> Contents \cup {Absent}]
    BY <1>1, <2>2, RecordType, CallType
  <2>4. meta' \in [Entries -> Meta \cup {Absent}]
    BY <1>1, <2>2, <2>3, RecordType, CallType
  <2>5. doomed' \in [Requests -> SUBSET Keys]
    BY <1>1, <2>2, <2>3, <2>4, RecordType, CallType
  <2>6. TypeOK'
    BY <2>1, <2>2, <2>3, <2>4, <2>5
  <2>7. StageOf(r)'
    BY <1>1, <2>1, <2>2, <2>3, <2>4, <2>5
  <2>. QED
    BY <2>6, <2>7
<1>4. CASE SweepIndex(r)
  <2>. USE <1>4 DEF SweepIndex
  <2>1. pc' \in [Requests -> Pcs]
    OBVIOUS
  <2>2. index' \in [Namespaces -> Record \cup {Absent}]
    BY <1>1, RecordType, CallType
  <2>3. TypeOK'
    BY <2>1, <2>2
  <2>4. StageOf(r)'
    BY <1>1, <2>1, <2>2
  <2>. QED
    BY <2>3, <2>4
<1>. QED
  BY <1>2, <1>3, <1>4 DEF DeleteAll

-----------------------------------------------------------------------------

LEMMA InitType == Init => TypeInv
<1>. SUFFICES ASSUME Init
              PROVE  TypeOK /\ StageOK
  BY DEF TypeInv
<1>. USE CatalogAssumption
<1>1. PICK s \in Starts :
        LET seed == s.seed
            doc == IF seed = Absent THEN Absent ELSE seed.doc
            list == IF seed = Absent THEN NoVersions ELSE seed.doc.versions
        IN  /\ index = [n \in Namespaces |->
                         IF seed # Absent /\ n = seed.rec.ns THEN seed.rec ELSE Absent]
            /\ meta = Holding(seed, Absent, doc)
            /\ latest = Holding(seed, Absent, LatestEtag(list))
            /\ archive = Holding(seed, NoVersions, list)
            /\ replica = Holding(seed, Absent, ViewOf(doc))
            /\ minted = IF seed = Absent THEN {} ELSE {seed.rec.entry}
            /\ call = s.calls
  BY DEF Init, InitFrom, InitRequests
<1>. DEFINE list == IF s.seed = Absent THEN NoVersions ELSE s.seed.doc.versions
<1>2. s.calls \in [Requests -> Call] /\ s.seed \in Seed
  BY DEF Start
<1>3. s.seed # Absent => s.seed.rec \in Record /\ s.seed.doc \in Meta
  BY <1>2 DEF Seed
<1>4. NoVersions \in Listing /\ list \in Listing
  BY <1>3, MetaType DEF NoVersions, Listing
<1>5. LatestEtag(list) \in Contents \cup {Absent}
  BY <1>4, LatestEtagType
<1>6. pc \in [Requests -> {"lookup_own", "resolve"}]
  BY DEF Init, InitFrom, InitRequests
<1>7. \A r \in Requests : pc[r] = IF call[r].op \in UploadOps THEN "lookup_own" ELSE "resolve"
  BY DEF Init, InitFrom, InitRequests
<1>8. TypeOK
  <2>1. /\ index \in [Namespaces -> Record \cup {Absent}]
        /\ minted \in SUBSET Entries
    BY <1>1, <1>3 DEF Record
  <2>2. meta \in [Entries -> Meta \cup {Absent}]
    BY <1>1, <1>3 DEF Holding
  <2>3. latest \in [Entries -> Contents \cup {Absent}]
    BY <1>1, <1>5 DEF Holding
  <2>4. archive \in [Entries -> Listing]
    BY <1>1, <1>4 DEF Holding
  <2>5. replica \in [Entries -> View \cup {Absent}]
    <3>1. s.seed # Absent => ViewOf(s.seed.doc) \in View
      BY <1>3, MetaType
    <3>. QED
      BY <1>1, <3>1 DEF Holding, ViewOf
  <2>6. pc \in [Requests -> Pcs]
    BY <1>6 DEF Pcs, UploadPcs
  <2>. QED
    BY <1>1, <1>2, <2>1, <2>2, <2>3, <2>4, <2>5, <2>6 DEF Init, InitFrom, InitRequests, TypeOK, Policies, Keys
<1>9. StageOK
  <2>. SUFFICES ASSUME NEW r \in Requests
                PROVE  StageOf(r)
    BY DEF StageOK
  <2>. QED
    BY <1>6, <1>7 DEF StageOf, HasRecord, UploadOps, UploadPcs, TogglePcs,
         PolicyPcs, DeletePcs, RecomputePcs, LastPcs, SweepPcs
<1>. QED
  BY <1>8, <1>9

LEMMA NextType == TypeInv /\ [Next]_vars => TypeInv'
<1>. SUFFICES ASSUME TypeOK, StageOK, [Next]_vars
              PROVE  TypeOK' /\ StageOK'
  BY DEF TypeInv
<1>1. ASSUME NEW r \in Requests, Step(r)
      PROVE  TypeOK' /\ StageOK'
  <2>1. TypeOK' /\ StageOf(r)'
    BY <1>1, UploadType, MetaOnlyType, DeleteVersionType, DeleteAllType DEF Step
  <2>. QED
    BY <1>1, <2>1, StageFrame
<1>2. ASSUME NEW e \in Entries, CatchUp(e)
      PROVE  TypeOK' /\ StageOK'
  <2>1. ViewOf(meta[e]) \in View \cup {Absent}
    BY MetaType DEF TypeOK, ViewOf
  <2>2. TypeOK'
    BY <1>2, <2>1 DEF TypeOK, CatchUp, document, head, locals
  <2>3. StageOK'
    BY <1>2 DEF StageOK, StageOf, CatchUp, locals, Remaining
  <2>. QED
    BY <2>2, <2>3
<1>3. CASE UNCHANGED vars
  BY <1>3 DEF TypeOK, StageOK, StageOf, vars, stores, document, head, locals, Remaining
<1>. QED
  BY <1>1, <1>2, <1>3 DEF Next, Done

(* Every value stays in its type, and a request that reaches a storage     *)
(* call has read what the call needs - for every number of requests, every *)
(* catalog to start from and every bound.                                  *)
THEOREM TypeCorrect == Spec => []TypeOK
<1>1. TypeInv => TypeOK
  BY DEF TypeInv
<1>. QED
  BY InitType, NextType, <1>1, PTL DEF Spec

-----------------------------------------------------------------------------
(* A publish or unpublish writes back the copy it read.  That copy is the  *)
(* meta.json of now if the ETag it read before still stands: every write   *)
(* moves the ETag on, and a delete leaves nothing to match.                *)

FreshCopy(q) ==
    LET e == Entry(q)
    IN  /\ pc[q] \in {"toggle_read", "toggle_write"} /\ etag[q] # Absent =>
               etag[q] <= metaTag[e]
        /\ pc[q] = "toggle_write" /\ etag[q] # Absent =>
               (meta[e] # Absent /\ etag[q] = metaTag[e] => seen[q] = meta[e])

FreshInv == TypeInv /\ \A q \in Requests : FreshCopy(q)

(* What one call may do to meta.json.                                      *)
LEMMA MetaMoves ==
    ASSUME TypeInv, NEW r \in Requests, Step(r), NEW e \in Entries
    PROVE  \/ metaTag'[e] = metaTag[e] /\ meta'[e] \in {meta[e], Absent}
           \/ metaTag'[e] = metaTag[e] + 1
<1>. USE DEF TypeInv, TypeOK, stores, document, locals, WriteMeta
<1>1. CASE Upload(r)
  BY <1>1 DEF Upload, UploadLookupOwn, UploadLookupAnon, UploadReadPolicy, UploadClaim, UploadRejectArchive, UploadGate, UploadPutVersion, UploadVersionTaken, UploadPutLatest, UploadPutMeta
<1>2. CASE MetaOnly(r)
  BY <1>2 DEF MetaOnly, Resolve, ToggleEtag, ToggleRead, ToggleWrite, PolicyRead, PolicyEtag, PolicyWrite
<1>3. CASE DeleteVersion(r)
  BY <1>3 DEF DeleteVersion, DeleteRead, ReadNewLatest, LatestEtagRead, Promote, MetaEtagRead, Unlist, DropBytes, LastEtag, LastLatest, LastMeta, LastIndex, TryDelete
<1>4. CASE DeleteAll(r)
  BY <1>4 DEF DeleteAll, ListKeys, SweepKey, SweepIndex
<1>. QED
  BY <1>1, <1>2, <1>3, <1>4 DEF Step

LEMMA NextFresh == FreshInv /\ [Next]_vars => FreshInv'
<1>. SUFFICES ASSUME FreshInv, [Next]_vars
              PROVE  FreshInv'
  OBVIOUS
<1>1. TypeInv /\ TypeInv'
  BY NextType DEF FreshInv
<1>2. ASSUME NEW r \in Requests, Step(r), NEW q \in Requests
      PROVE  FreshCopy(q)'
  <2>1. FreshCopy(q)
    BY DEF FreshInv
  <2>2. pc[q] \in TogglePcs => Entry(q) \in Entries
    BY <1>1, RecordType DEF TypeInv, StageOK, StageOf, HasRecord
  <2>3. ASSUME Undisturbed(q)
        PROVE  FreshCopy(q)'
    <3>1. CASE pc[q] \in {"toggle_read", "toggle_write"}
      <4>1. Entry(q)' = Entry(q) /\ Entry(q) \in Entries
        BY <2>2, <2>3, <3>1 DEF Entry, Undisturbed, TogglePcs
      <4>2. /\ metaTag[Entry(q)] \in Nat /\ etag[q] \in Nat \cup {Absent}
            /\ \/ /\ metaTag'[Entry(q)] = metaTag[Entry(q)]
                  /\ meta'[Entry(q)] \in {meta[Entry(q)], Absent}
               \/ metaTag'[Entry(q)] = metaTag[Entry(q)] + 1
        BY <1>1, <1>2, <4>1, MetaMoves DEF TypeInv, TypeOK
      <4>. QED
        BY <2>1, <2>3, <4>1, <4>2 DEF FreshCopy, Undisturbed
    <3>2. CASE pc[q] \notin {"toggle_read", "toggle_write"}
      BY <2>3, <3>2 DEF FreshCopy, Undisturbed
    <3>. QED
      BY <3>1, <3>2
  <2>4. CASE q # r
    BY <1>1, <1>2, <2>3, <2>4, StepFrame DEF TypeInv
  <2>5. CASE q = r /\ ToggleEtag(r)
    <3>1. /\ pc[q] = "toggle_etag" /\ pc'[q] = "toggle_read" /\ Entry(q)' = Entry(q)
          /\ metaTag' = metaTag
          /\ etag'[q] = Etag(meta[Entry(q)], metaTag[Entry(q)])
      BY <1>1, <2>5 DEF ToggleEtag, Goto, TypeInv, TypeOK, Entry, stores, document
    <3>2. metaTag[Entry(q)] \in Nat
      BY <1>1, <2>2, <3>1 DEF TogglePcs, TypeInv, TypeOK
    <3>. QED
      BY <3>1, <3>2 DEF FreshCopy, Etag
  <2>6. CASE q = r /\ ToggleRead(r)
    <3>1. /\ pc[q] = "toggle_read" /\ Entry(q)' = Entry(q)
          /\ metaTag' = metaTag /\ meta' = meta /\ etag' = etag
          /\ seen'[q] = meta[Entry(q)]
      BY <1>1, <2>6 DEF ToggleRead, Goto, TypeInv, TypeOK, Entry, stores, document
    <3>. QED
      BY <2>1, <3>1 DEF FreshCopy
  <2>7. CASE q = r /\ ~ToggleEtag(r) /\ ~ToggleRead(r)
    <3>1. pc'[q] \notin {"toggle_read", "toggle_write"}
      <4>. USE <1>1 DEF TypeInv, TypeOK, Goto
      <4>1. CASE Upload(r)
        <5>1. CASE UploadClaim(r)
          BY <2>7, <5>1 DEF UploadClaim
        <5>2. CASE ~UploadClaim(r)
          BY <2>7, <4>1, <5>2 DEF Upload, UploadLookupOwn, UploadLookupAnon, UploadReadPolicy, UploadRejectArchive, UploadGate, UploadPutVersion, UploadVersionTaken, UploadPutLatest, UploadPutMeta, Verdict
        <5>. QED
          BY <5>1, <5>2
      <4>2. CASE MetaOnly(r)
        BY <2>7, <4>2 DEF MetaOnly, Resolve, ToggleOps, ToggleWrite, PolicyRead, PolicyEtag, PolicyWrite
      <4>3. CASE DeleteVersion(r)
        BY <2>7, <4>3 DEF DeleteVersion, DeleteRead, DeletePath, ReadNewLatest, LatestEtagRead, Promote, MetaEtagRead, Unlist, DropBytes, LastEtag, LastLatest, LastMeta, LastIndex
      <4>4. CASE DeleteAll(r)
        BY <2>7, <4>4 DEF DeleteAll, ListKeys, SweepKey, SweepIndex
      <4>. QED
        BY <1>2, <4>1, <4>2, <4>3, <4>4 DEF Step
    <3>. QED
      BY <3>1 DEF FreshCopy
  <2>. QED
    BY <2>4, <2>5, <2>6, <2>7
<1>3. ASSUME UNCHANGED <<index, document, head, archive, minted, pc, locals>>
      PROVE  FreshInv'
  BY <1>1, <1>3 DEF FreshInv, FreshCopy, Entry, document, locals
<1>4. ASSUME NEW r \in Requests, Step(r)
      PROVE  FreshInv'
  BY <1>1, <1>2, <1>4 DEF FreshInv
<1>. QED
  BY <1>3, <1>4 DEF Next, CatchUp, Done, vars, stores

LEMMA InitFresh == Init => FreshInv
<1>. SUFFICES ASSUME Init
              PROVE  FreshInv
  OBVIOUS
<1>1. \A r \in Requests : pc[r] \in {"lookup_own", "resolve"}
  BY DEF Init, InitFrom, InitRequests
<1>. QED
  BY <1>1, InitType DEF FreshInv, FreshCopy

(* A write that the ETag let through writes the meta.json of now.          *)
LEMMA ToggleWrites ==
    ASSUME FreshInv, NEW r \in Requests, ToggleWrite(r), etag[r] # Absent
    PROVE  \/ pc'[r] = "412" /\ UNCHANGED document
           \/ /\ Entry(r) \in Entries /\ meta[Entry(r)] \in Meta
              /\ meta' = [meta EXCEPT ![Entry(r)] =
                            [meta[Entry(r)] EXCEPT !.published = (call[r].op = "publish")]]
<1>. USE DEF FreshInv, TypeInv, TypeOK
<1>1. pc[r] = "toggle_write" /\ Entry(r) \in Entries
  BY RecordType DEF ToggleWrite, Goto, StageOK, StageOf, HasRecord, TogglePcs
<1>2. CASE IfMatch(meta[Entry(r)], metaTag[Entry(r)], etag[r])
  <2>1. meta[Entry(r)] # Absent /\ etag[r] = metaTag[Entry(r)]
    BY <1>2 DEF IfMatch
  <2>2. seen[r] = meta[Entry(r)]
    BY <1>1, <2>1 DEF FreshCopy
  <2>. QED
    BY <1>1, <1>2, <2>1, <2>2 DEF ToggleWrite, WriteMeta
<1>3. CASE ~IfMatch(meta[Entry(r)], metaTag[Entry(r)], etag[r])
  BY <1>3 DEF ToggleWrite, Goto
<1>. QED
  BY <1>2, <1>3

(* A publish or unpublish that is answered 200 has changed the flag and    *)
(* nothing else, however many writers of meta.json ran next to it.         *)
THEOREM TogglesChangeTheFlag == Spec => ToggleChangesFlagOnly
<1>. DEFINE FlagOnly(r) ==
        pc[r] = "toggle_write" /\ pc'[r] = "200" /\ etag[r] # Absent =>
          LET e == Entry(r)
          IN  /\ meta[e] # Absent
              /\ meta'[e] = [meta[e] EXCEPT !.published = (call[r].op = "publish")]
<1>1. FreshInv /\ [Next]_vars => [\A r \in Requests : FlagOnly(r)]_vars
  <2>. SUFFICES ASSUME FreshInv, Next, NEW r \in Requests, pc[r] = "toggle_write",
                       pc'[r] = "200", etag[r] # Absent
                PROVE  LET e == Entry(r)
                       IN  /\ meta[e] # Absent
                           /\ meta'[e] = [meta[e] EXCEPT !.published = (call[r].op = "publish")]
    OBVIOUS
  <2>. USE DEF FreshInv, TypeInv
  <2>1. Step(r)
    <3>1. \A q \in Requests \ {r} : Step(q) => pc'[r] = pc[r]
      BY StepFrame DEF Undisturbed
    <3>. QED
      BY <3>1 DEF Next, CatchUp, Done, vars
  <2>2. ToggleWrite(r)
    <3>. USE DEF Goto
    <3>1. ~Upload(r)
      BY DEF Upload, UploadLookupOwn, UploadLookupAnon, UploadReadPolicy, UploadClaim, UploadRejectArchive, UploadGate, UploadPutVersion, UploadVersionTaken, UploadPutLatest, UploadPutMeta
    <3>2. ~DeleteVersion(r) /\ ~DeleteAll(r)
      BY DEF DeleteVersion, DeleteRead, ReadNewLatest, LatestEtagRead, Promote, MetaEtagRead, Unlist, DropBytes, LastEtag, LastLatest, LastMeta, LastIndex, DeleteAll, ListKeys, SweepKey, SweepIndex
    <3>. QED
      BY <2>1, <3>1, <3>2 DEF Step, MetaOnly, Resolve, ToggleEtag, ToggleRead, PolicyRead, PolicyEtag, PolicyWrite
  <2>3. Absent \notin Meta
    BY CatalogAssumption
  <2>. QED
    BY <2>2, <2>3, ToggleWrites DEF TypeOK
<1>. QED
  BY InitFresh, NextFresh, <1>1, PTL DEF Spec, ToggleChangesFlagOnly

-----------------------------------------------------------------------------
(* ListedHaveBytes is not inductive: it says nothing of the copies of      *)
(* meta.json that requests hold and will write back.  Sub(l, m): what the  *)
(* listing l lists, m lists as well, with the same bytes.                  *)

Sub(l, m) == \A v \in Versions : l[v] # Absent => m[v] = l[v]

CopyPcs == {"put_version", "put_latest", "put_meta",
            "toggle_write", "policy_etag", "policy_write"}

(* Without deletions the archive only grows, so every copy stays good.     *)
GoodMeta(e) == meta[e] # Absent => Sub(meta[e].versions, archive[e])

GoodCopy(r) ==
    /\ pc[r] \in CopyPcs /\ seen[r] # Absent =>
           Sub(seen[r].versions, archive[Entry(r)])
    /\ pc[r] \in {"put_latest", "put_meta"} =>
           archive[Entry(r)][ver[r]] = call[r].content

Growing == (\A e \in Entries : GoodMeta(e)) /\ (\A r \in Requests : GoodCopy(r))

(* With one deletion next to publish and unpublish, the listing only       *)
(* shrinks: a toggle that has a meta.json to write back has an ETag to     *)
(* write it under, so no write of it brings a listing back.                *)
ToggleCopy(q) ==
    /\ pc[q] = "toggle_read" /\ etag[q] = Absent => meta[Entry(q)] = Absent
    /\ pc[q] = "toggle_write" => etag[q] # Absent

(* What the deletion itself relies on.                                     *)
DeleteStage(d) ==
    LET m == meta[Entry(d)]
    IN  /\ pc[d] \in RecomputePcs => m # Absent /\ m.versions = seen[d].versions
        /\ pc[d] = "last_index" => m = Absent
        /\ pc[d] = "drop_bytes" /\ m # Absent => m.versions[call[d].version] = Absent
        /\ pc[d] = "sweep" /\ m # Absent => MetaKey \in doomed[d]

Shrinking(d) ==
    /\ \A e \in Entries : ~(pc[d] = "sweep" /\ Entry(d) = e) => GoodMeta(e)
    /\ \A q \in Requests \ {d} : ToggleCopy(q)
    /\ DeleteStage(d)

BytesInv ==
    /\ FreshInv
    /\ Deleters = {} => Growing
    /\ DeletesAlone => \A d \in Deleters : Shrinking(d)

(* A request is at the calls of its own operation.                         *)
LEMMA StepOfOp ==
    ASSUME TypeInv, NEW r \in Requests, Step(r)
    PROVE  /\ r \notin Deleters => Upload(r) \/ MetaOnly(r)
           /\ call[r].op \in ToggleOps =>
                  Resolve(r) \/ ToggleEtag(r) \/ ToggleRead(r) \/ ToggleWrite(r)
           /\ r \in Deleters => Resolve(r) \/ DeleteVersion(r) \/ DeleteAll(r)
<1>. USE DEF TypeInv, StageOK, StageOf, Goto, UploadPcs, TogglePcs, PolicyPcs,
             DeletePcs, RecomputePcs, LastPcs, SweepPcs, ToggleOps, DeleteOps
<1>1. StageOf(r)
  OBVIOUS
<1>2. Upload(r) => call[r].op = "upload"
  BY <1>1 DEF Upload, UploadLookupOwn, UploadLookupAnon, UploadReadPolicy,
     UploadClaim, UploadRejectArchive, UploadGate, UploadPutVersion,
     UploadVersionTaken, UploadPutLatest, UploadPutMeta
<1>3. PolicyRead(r) \/ PolicyEtag(r) \/ PolicyWrite(r) => call[r].op = "policy"
  BY <1>1 DEF PolicyRead, PolicyEtag, PolicyWrite
<1>4. ToggleEtag(r) \/ ToggleRead(r) \/ ToggleWrite(r) => call[r].op \in ToggleOps
  BY <1>1 DEF ToggleEtag, ToggleRead, ToggleWrite
<1>5. DeleteVersion(r) => call[r].op = "deleteversion"
  BY <1>1 DEF DeleteVersion, DeleteRead, ReadNewLatest, LatestEtagRead, Promote,
     MetaEtagRead, Unlist, DropBytes, LastEtag, LastLatest, LastMeta, LastIndex
<1>6. DeleteAll(r) => call[r].op = "deleteall"
  BY <1>1 DEF DeleteAll, ListKeys, SweepKey, SweepIndex
<1>. QED
  BY <1>2, <1>3, <1>4, <1>5, <1>6 DEF Step, MetaOnly, Deleters, Is

LEMMA GrowFrame ==
    ASSUME TypeInv, TypeInv', Growing, NEW r \in Requests, Step(r),
           \A e \in Entries : Sub(archive[e], archive'[e]),
           \A e \in Entries : meta'[e] = meta[e] \/ GoodMeta(e)',
           GoodCopy(r)'
    PROVE  Growing'
<1>1. ASSUME NEW e \in Entries PROVE GoodMeta(e)'
  <2>1. GoodMeta(e) /\ Sub(archive[e], archive'[e])
    BY DEF Growing
  <2>. QED
    BY <2>1 DEF GoodMeta, Sub
<1>2. ASSUME NEW q \in Requests \ {r} PROVE GoodCopy(q)'
  <2>1. GoodCopy(q) /\ Undisturbed(q) /\ call' = call
    BY StepFrame DEF Growing, TypeInv
  <2>2. CASE pc[q] \in CopyPcs
    <3>1. Entry(q) \in Entries
      BY <2>2, RecordType DEF TypeInv, StageOK, StageOf, HasRecord, CopyPcs, TogglePcs, PolicyPcs
    <3>2. Sub(archive[Entry(q)], archive'[Entry(q)]) /\ Entry(q)' = Entry(q)
      BY <2>1, <3>1 DEF Undisturbed, Entry
    <3>3. pc[q] \in {"put_latest", "put_meta"} =>
             ver[q] \in Versions /\ call[q].content # Absent
      BY CallType, CatalogAssumption DEF TypeInv, TypeOK, StageOK, StageOf, UploadPcs
    <3>. QED
      BY <2>1, <3>2, <3>3 DEF GoodCopy, Undisturbed, Sub
  <2>3. CASE pc[q] \notin CopyPcs
    BY <2>1, <2>3 DEF GoodCopy, Undisturbed, CopyPcs
  <2>. QED
    BY <2>2, <2>3
<1>. QED
  BY <1>1, <1>2 DEF Growing

LEMMA GrowStep ==
    ASSUME TypeInv, TypeInv', Growing, NEW r \in Requests, Step(r),
           Upload(r) \/ MetaOnly(r)
    PROVE  Growing'
<1>. USE DEF TypeInv
<1>1. /\ StageOf(r) /\ StageOf(r)' /\ call[r] \in Call /\ call' = call
      /\ GoodCopy(r)
  BY StepFrame DEF StageOK, TypeOK, Growing
<1>2. archive' = archive => \A e \in Entries : Sub(archive[e], archive'[e])
  BY DEF Sub
<1>. SUFFICES /\ \A e \in Entries : Sub(archive[e], archive'[e])
              /\ \A e \in Entries : meta'[e] = meta[e] \/ GoodMeta(e)'
              /\ GoodCopy(r)'
  BY GrowFrame
<1>3. CASE \/ UploadLookupOwn(r) \/ UploadLookupAnon(r) \/ UploadReadPolicy(r)
           \/ UploadClaim(r) \/ UploadRejectArchive(r) \/ Resolve(r) \/ ToggleEtag(r)
  <2>1. archive' = archive /\ meta' = meta
    BY <1>3 DEF UploadLookupOwn, UploadLookupAnon, UploadReadPolicy, UploadClaim,
       UploadRejectArchive, Resolve, ToggleEtag, stores, document, head
  <2>2. pc'[r] \notin CopyPcs
    <3>1. CASE UploadClaim(r)
      BY <3>1 DEF UploadClaim, Goto, TypeOK, CopyPcs
    <3>2. CASE ~UploadClaim(r)
      BY <1>3, <3>2 DEF UploadLookupOwn, UploadLookupAnon, UploadReadPolicy,
         UploadRejectArchive, Resolve, ToggleEtag, Goto, TypeOK, CopyPcs, ToggleOps
    <3>. QED
      BY <3>1, <3>2
  <2>. QED
    BY <1>2, <2>1, <2>2 DEF GoodCopy, CopyPcs
<1>4. CASE UploadVersionTaken(r) \/ UploadPutLatest(r) \/ PolicyEtag(r)
  BY <1>1, <1>2, <1>4 DEF UploadVersionTaken, UploadPutLatest, PolicyEtag, Goto, TypeOK,
     GoodCopy, CopyPcs, Entry, stores, document, head, locals
<1>5. CASE UploadGate(r)
  <2>1. Entry(r) \in Entries
    BY <1>1, <1>5, RecordType DEF UploadGate, Goto, StageOf, HasRecord
  <2>2. Sub(NoVersions, archive[Entry(r)]) /\ GoodMeta(Entry(r))
    BY <2>1 DEF Growing, Sub, NoVersions
  <2>3. Sub(seen'[r].versions, archive[Entry(r)])
    BY <2>2, <1>5 DEF UploadGate, GoodMeta, DefaultMeta, TypeOK
  <2>4. pc'[r] \notin {"put_latest", "put_meta"}
    BY <1>5 DEF UploadGate, Verdict, Goto, TypeOK
  <2>5. archive' = archive /\ meta' = meta /\ Entry(r)' = Entry(r)
    BY <1>5 DEF UploadGate, stores, document, head, Entry
  <2>. QED
    BY <1>2, <2>3, <2>4, <2>5 DEF GoodCopy
<1>6. CASE UploadPutVersion(r)
  <2>1. Entry(r) \in Entries /\ ver[r] \in Versions /\ call[r].content # Absent
    BY <1>1, <1>6, RecordType, CallType, CatalogAssumption
    DEF UploadPutVersion, Goto, StageOf, HasRecord, UploadPcs
  <2>2. archive' = [archive EXCEPT ![Entry(r)][ver[r]] = call[r].content]
        /\ archive[Entry(r)][ver[r]] = Absent
    BY <1>6 DEF UploadPutVersion, IfNew
  <2>3. \A e \in Entries : Sub(archive[e], archive'[e])
    BY <2>1, <2>2 DEF TypeOK, Listing, Sub
  <2>4. archive'[Entry(r)][ver[r]] = call[r].content
    BY <2>1, <2>2 DEF TypeOK, Listing
  <2>5. meta' = meta /\ seen' = seen /\ ver' = ver /\ Entry(r)' = Entry(r)
    BY <1>6 DEF UploadPutVersion, document, locals, Entry
  <2>6. seen[r] # Absent => Sub(seen[r].versions, archive'[Entry(r)])
    BY <1>1, <1>6, <2>1, <2>3 DEF UploadPutVersion, Goto, GoodCopy, CopyPcs, Sub
  <2>. QED
    BY <1>1, <2>3, <2>4, <2>5, <2>6 DEF GoodCopy
<1>7. CASE UploadPutMeta(r)
  <2>1. Entry(r) \in Entries /\ ver[r] \in Versions /\ seen[r] \in Meta
    BY <1>1, <1>7, RecordType DEF UploadPutMeta, Goto, StageOf, HasRecord
  <2>2. Sub(seen[r].versions, archive[Entry(r)])
        /\ archive[Entry(r)][ver[r]] = call[r].content
    BY <1>1, <1>7, <2>1, CatalogAssumption DEF UploadPutMeta, Goto, GoodCopy, CopyPcs
  <2>3. Sub([seen[r].versions EXCEPT ![ver[r]] = call[r].content], archive[Entry(r)])
    BY <2>1, <2>2, MetaType DEF Sub, Listing
  <2>4. meta'[Entry(r)].versions = [seen[r].versions EXCEPT ![ver[r]] = call[r].content]
    BY <1>7, <2>1 DEF UploadPutMeta, WriteMeta, TypeOK, Meta
  <2>5. archive' = archive /\ \A e \in Entries \ {Entry(r)} : meta'[e] = meta[e]
    BY <1>7 DEF UploadPutMeta, WriteMeta, TypeOK
  <2>6. pc'[r] = "200"
    BY <1>7 DEF UploadPutMeta, Goto, TypeOK
  <2>. QED
    BY <1>2, <2>1, <2>3, <2>4, <2>5, <2>6 DEF GoodMeta, GoodCopy, CopyPcs
<1>8. CASE ToggleRead(r) \/ PolicyRead(r)
  <2>1. Entry(r) \in Entries
    BY <1>1, <1>8, RecordType
    DEF ToggleRead, PolicyRead, Goto, StageOf, HasRecord, TogglePcs, PolicyPcs
  <2>2. seen'[r] = meta[Entry(r)] /\ pc'[r] \notin {"put_latest", "put_meta"}
    BY <1>8 DEF ToggleRead, PolicyRead, Goto, TypeOK
  <2>3. archive' = archive /\ meta' = meta /\ Entry(r)' = Entry(r)
    BY <1>8 DEF ToggleRead, PolicyRead, stores, document, head, Entry
  <2>. QED
    BY <1>2, <2>1, <2>2, <2>3 DEF GoodCopy, Growing, GoodMeta
<1>9. CASE ToggleWrite(r) \/ PolicyWrite(r)
  <2>1. Entry(r) \in Entries /\ pc[r] \in CopyPcs
    BY <1>1, <1>9, RecordType
    DEF ToggleWrite, PolicyWrite, Goto, StageOf, HasRecord, TogglePcs, PolicyPcs, CopyPcs
  <2>2. archive' = archive /\ \A e \in Entries \ {Entry(r)} : meta'[e] = meta[e]
    BY <1>9 DEF ToggleWrite, PolicyWrite, WriteMeta, document, TypeOK
  <2>3. \/ meta'[Entry(r)] = meta[Entry(r)]
        \/ seen[r] # Absent /\ meta'[Entry(r)].versions = seen[r].versions
        \/ meta'[Entry(r)].versions = NoVersions
    <3>1. CASE ToggleWrite(r)
      <4>1. seen[r] \in Meta
        BY <1>1, <3>1 DEF ToggleWrite, Goto, StageOf
      <4>. QED
        BY <2>1, <3>1, <4>1, CatalogAssumption DEF ToggleWrite, WriteMeta, document, TypeOK, Meta
    <3>2. CASE PolicyWrite(r)
      <4>1. seen[r] \in Meta \cup {Absent}
        BY DEF TypeOK
      <4>. DEFINE base == IF seen[r] = Absent THEN BareMeta ELSE seen[r]
                  grantees == IF call[r].policy = "shared" THEN call[r].grantees ELSE {}
                  m == [base EXCEPT !.policy = call[r].policy, !.grantees = grantees]
      <4>2. m.versions = base.versions
        BY <4>1 DEF Meta, BareMeta
      <4>3. meta' = [meta EXCEPT ![Entry(r)] = m] \/ meta' = meta
        BY <3>2 DEF PolicyWrite, WriteMeta, document
      <4>4. (seen[r] # Absent /\ base.versions = seen[r].versions) \/ base.versions = NoVersions
        BY DEF BareMeta
      <4>. HIDE DEF m, base
      <4>. QED
        BY <2>1, <4>2, <4>3, <4>4 DEF TypeOK
    <3>. QED
      BY <1>9, <3>1, <3>2
  <2>4. Sub(NoVersions, archive[Entry(r)])
    BY DEF Sub, NoVersions
  <2>5. meta'[Entry(r)] = meta[Entry(r)] \/ GoodMeta(Entry(r))'
    <3>1. Entry(r)' = Entry(r)
      BY <1>9 DEF ToggleWrite, PolicyWrite, locals, Entry
    <3>. QED
      BY <1>1, <2>1, <2>2, <2>3, <2>4, <3>1 DEF GoodMeta, GoodCopy
  <2>6. pc'[r] \in {"200", "412"}
    BY <1>9 DEF ToggleWrite, PolicyWrite, Goto, TypeOK
  <2>7. GoodCopy(r)'
    BY <2>6 DEF GoodCopy, CopyPcs
  <2>8. \A e \in Entries : meta'[e] = meta[e] \/ GoodMeta(e)'
    <3>1. ASSUME NEW e \in Entries, e = Entry(r)
          PROVE  meta'[e] = meta[e] \/ GoodMeta(e)'
      <4>1. Entry(r)' = Entry(r)
        BY <1>9 DEF ToggleWrite, PolicyWrite, locals, Entry
      <4>. QED
        BY <2>5, <3>1, <4>1 DEF GoodMeta
    <3>. QED
      BY <2>2, <3>1
  <2>. QED
    BY <1>2, <2>2, <2>7, <2>8
<1>. QED
  BY <1>3, <1>4, <1>5, <1>6, <1>7, <1>8, <1>9 DEF Upload, MetaOnly

(* A publish or unpublish changes no listing and no bytes.                 *)
LEMMA ToggleKeeps ==
    ASSUME FreshInv, NEW r \in Requests, call[r].op \in ToggleOps, Step(r), ToggleCopy(r)
    PROVE  /\ UNCHANGED <<index, head, archive, minted>>
           /\ \A e \in Entries :
                 /\ meta'[e] = Absent <=> meta[e] = Absent
                 /\ meta[e] # Absent => meta'[e].versions = meta[e].versions
<1>. USE DEF FreshInv, TypeInv
<1>1. Resolve(r) \/ ToggleEtag(r) \/ ToggleRead(r) \/ ToggleWrite(r)
  BY StepOfOp
<1>2. UNCHANGED <<index, head, archive, minted>>
  BY <1>1 DEF Resolve, ToggleEtag, ToggleRead, ToggleWrite, stores
<1>3. \A e \in Entries :
          /\ meta'[e] = Absent <=> meta[e] = Absent
          /\ meta[e] # Absent => meta'[e].versions = meta[e].versions
  <2>1. CASE Resolve(r) \/ ToggleEtag(r) \/ ToggleRead(r)
    BY <2>1 DEF Resolve, ToggleEtag, ToggleRead, stores, document, head
  <2>2. CASE ToggleWrite(r)
    <3>1. etag[r] # Absent
      BY <2>2 DEF ToggleCopy, ToggleWrite, Goto
    <3>2. CASE UNCHANGED document
      BY <2>2, <3>2 DEF ToggleWrite, document
    <3>3. CASE /\ Entry(r) \in Entries /\ meta[Entry(r)] \in Meta
               /\ meta' = [meta EXCEPT ![Entry(r)] =
                            [meta[Entry(r)] EXCEPT !.published = (call[r].op = "publish")]]
      <4>. DEFINE m == [meta[Entry(r)] EXCEPT !.published = (call[r].op = "publish")]
      <4>1. m \in Meta /\ m.versions = meta[Entry(r)].versions
        BY <3>3, MetaType DEF Meta
      <4>2. meta' = [meta EXCEPT ![Entry(r)] = m]
        BY <3>3
      <4>. HIDE DEF m
      <4>. QED
        <5>1. \A e \in Entries \ {Entry(r)} : meta'[e] = meta[e]
          BY <4>2
        <5>2. meta'[Entry(r)] = m
          BY <3>3, <4>2 DEF TypeOK
        <5>. QED
          BY <3>3, <4>1, <5>1, <5>2, CatalogAssumption
    <3>. QED
      BY <2>2, <3>1, <3>2, <3>3, ToggleWrites
  <2>. QED
    BY <1>1, <2>1, <2>2
<1>. QED
  BY <1>2, <1>3

LEMMA ToggleStep ==
    ASSUME FreshInv, TypeInv', NEW d \in Deleters, Shrinking(d),
           NEW r \in Requests \ {d}, call[r].op \in ToggleOps, Step(r)
    PROVE  Shrinking(d)'
<1>. USE DEF FreshInv, TypeInv
<1>1. /\ StageOf(r) /\ call[r] \in Call /\ call' = call /\ ToggleCopy(r)
      /\ d \in Requests
      /\ \A q \in Requests \ {r} : Undisturbed(q)
  BY StepFrame DEF StageOK, TypeOK, Shrinking, Deleters
<1>2. Resolve(r) \/ ToggleEtag(r) \/ ToggleRead(r) \/ ToggleWrite(r)
  BY StepOfOp
<1>3. /\ archive' = archive
      /\ \A e \in Entries :
             /\ meta'[e] = Absent <=> meta[e] = Absent
             /\ meta[e] # Absent => meta'[e].versions = meta[e].versions
  BY <1>1, ToggleKeeps
<1>4. ToggleCopy(r)'
  <2>1. CASE Resolve(r) \/ ToggleWrite(r)
    <3>1. pc'[r] \notin {"toggle_read", "toggle_write"}
      BY <2>1 DEF Resolve, ToggleWrite, Goto, TypeOK, ToggleOps
    <3>. QED
      BY <3>1 DEF ToggleCopy
  <2>2. CASE ToggleEtag(r)
    <3>1. /\ Entry(r) \in Entries /\ Entry(r)' = Entry(r) /\ meta' = meta
          /\ pc'[r] = "toggle_read"
          /\ etag'[r] = Etag(meta[Entry(r)], metaTag[Entry(r)])
      BY <1>1, <2>2, RecordType
      DEF ToggleEtag, Goto, StageOf, HasRecord, TogglePcs, TypeOK, Entry, stores, document
    <3>. QED
      BY <3>1, CatalogAssumption DEF ToggleCopy, Etag, TypeOK
  <2>3. CASE ToggleRead(r)
    <3>1. /\ pc[r] = "toggle_read" /\ etag' = etag
          /\ pc'[r] = IF meta[Entry(r)] = Absent THEN "404" ELSE "toggle_write"
      BY <1>1, <2>3 DEF ToggleRead, Goto, TypeOK
    <3>. QED
      BY <1>1, <3>1 DEF ToggleCopy
  <2>. QED
    BY <1>2, <2>1, <2>2, <2>3
<1>5. ASSUME NEW q \in Requests \ {d} PROVE ToggleCopy(q)'
  <2>1. CASE q = r
    BY <1>4, <2>1
  <2>2. CASE q # r
    <3>1. ToggleCopy(q) /\ Undisturbed(q)
      BY <1>1, <2>2 DEF Shrinking
    <3>2. CASE pc[q] \in {"toggle_read", "toggle_write"}
      <4>1. Entry(q) \in Entries /\ Entry(q)' = Entry(q)
        BY <3>1, <3>2, RecordType
        DEF StageOK, StageOf, HasRecord, TogglePcs, Undisturbed, Entry
      <4>. QED
        BY <1>3, <3>1, <4>1 DEF ToggleCopy, Undisturbed
    <3>3. CASE pc[q] \notin {"toggle_read", "toggle_write"}
      BY <3>1, <3>3 DEF ToggleCopy, Undisturbed
    <3>. QED
      BY <3>2, <3>3
  <2>. QED
    BY <2>1, <2>2
<1>6. Undisturbed(d) /\ Entry(d)' = Entry(d) /\ call'[d] = call[d]
  BY <1>1 DEF Undisturbed, Entry
<1>7. DeleteStage(d)'
  <2>1. DeleteStage(d)
    BY DEF Shrinking
  <2>2. CASE pc[d] \in DeletePcs
    <3>1. Entry(d) \in Entries
      BY <1>1, <2>2, RecordType DEF StageOK, StageOf, HasRecord
    <3>. QED
      BY <1>3, <1>6, <2>1, <3>1 DEF DeleteStage, Undisturbed
  <2>3. CASE pc[d] \notin DeletePcs
    BY <1>6, <2>3 DEF DeleteStage, Undisturbed, DeletePcs, RecomputePcs, LastPcs, SweepPcs
  <2>. QED
    BY <2>2, <2>3
<1>8. ASSUME NEW e \in Entries, ~(pc[d] = "sweep" /\ Entry(d) = e)'
      PROVE  GoodMeta(e)'
  BY <1>3, <1>6, <1>8 DEF Shrinking, GoodMeta, Undisturbed
<1>. QED
  BY <1>5, <1>7, <1>8 DEF Shrinking

(* A step of the deletion brings no meta.json back.                        *)
LEMMA DeleteFrame ==
    ASSUME TypeInv, TypeInv', NEW d \in Deleters, Shrinking(d), Step(d),
           \A e \in Entries : meta[e] = Absent => meta'[e] = Absent,
           \A e \in Entries : ~(pc[d] = "sweep" /\ Entry(d) = e)' => GoodMeta(e)',
           DeleteStage(d)'
    PROVE  Shrinking(d)'
<1>. USE DEF TypeInv
<1>1. d \in Requests
  BY DEF Deleters
<1>2. ASSUME NEW q \in Requests \ {d} PROVE ToggleCopy(q)'
  <2>1. ToggleCopy(q) /\ Undisturbed(q)
    BY <1>1, StepFrame DEF Shrinking
  <2>2. CASE pc[q] \in {"toggle_read", "toggle_write"}
    <3>1. Entry(q) \in Entries /\ Entry(q)' = Entry(q)
      BY <2>1, <2>2, RecordType
      DEF StageOK, StageOf, HasRecord, TogglePcs, Undisturbed, Entry
    <3>. QED
      BY <2>1, <3>1 DEF ToggleCopy, Undisturbed
  <2>3. CASE pc[q] \notin {"toggle_read", "toggle_write"}
    BY <2>1, <2>3 DEF ToggleCopy, Undisturbed
  <2>. QED
    BY <2>2, <2>3
<1>. QED
  BY <1>2 DEF Shrinking

LEMMA DeleteStep ==
    ASSUME "meta" \notin FailedDeletes, TypeInv, TypeInv', NEW d \in Deleters, Shrinking(d), Step(d)
    PROVE  Shrinking(d)'
<1>. USE DEF TypeInv
<1>1. /\ d \in Requests /\ StageOf(d) /\ call[d] \in Call /\ call' = call
      /\ DeleteStage(d)
      /\ \A e \in Entries : ~(pc[d] = "sweep" /\ Entry(d) = e) => GoodMeta(e)
  BY StepFrame DEF StageOK, TypeOK, Shrinking, Deleters
<1>. SUFFICES /\ \A e \in Entries : meta[e] = Absent => meta'[e] = Absent
              /\ \A e \in Entries : ~(pc[d] = "sweep" /\ Entry(d) = e)' => GoodMeta(e)'
              /\ DeleteStage(d)'
  BY DeleteFrame
<1>2. meta' = meta /\ archive' = archive => \A e \in Entries : GoodMeta(e) => GoodMeta(e)'
  BY DEF Sub, GoodMeta
<1>. USE DEF DeleteStage, Goto, TypeOK, RecomputePcs
<1>3. CASE Resolve(d)
  BY <1>1, <1>2, <1>3 DEF Resolve, ToggleOps, stores, document, head
<1>4. Resolve(d) \/ Entry(d) \in Entries
  <2>1. Resolve(d) \/ DeleteVersion(d) \/ DeleteAll(d)
    BY <1>1, StepOfOp
  <2>. QED
    BY <1>1, <2>1, RecordType DEF StageOf, HasRecord, DeletePcs, LastPcs, SweepPcs,
       DeleteVersion, DeleteRead, ReadNewLatest, LatestEtagRead, Promote, MetaEtagRead,
       Unlist, DropBytes, LastEtag, LastLatest, LastMeta, LastIndex,
       DeleteAll, ListKeys, SweepKey, SweepIndex
<1>. DEFINE e0 == Entry(d)
<1>5. CASE DeleteRead(d)
  <2>1. /\ pc[d] = "delete_read" /\ seen'[d] = meta[e0] /\ Entry(d)' = e0
        /\ meta' = meta /\ archive' = archive
        /\ pc'[d] \in {"404", "last_etag", "read_bytes"}
        /\ pc'[d] = "read_bytes" => meta[e0] # Absent
    BY <1>5 DEF DeleteRead, DeletePath, stores, document, head, Entry
  <2>. QED
    BY <1>1, <1>2, <2>1
<1>6. CASE \/ ReadNewLatest(d) \/ LatestEtagRead(d) \/ Promote(d) \/ MetaEtagRead(d)
  <2>1. /\ pc[d] \in RecomputePcs /\ pc'[d] \in RecomputePcs \cup {"500", "412"}
        /\ meta' = meta /\ archive' = archive /\ Entry(d)' = e0 /\ seen' = seen
    BY <1>6 DEF ReadNewLatest, LatestEtagRead, Promote, MetaEtagRead, stores, document, head, locals, Entry
  <2>. QED
    BY <1>1, <1>2, <2>1
<1>7. CASE \/ LastEtag(d) \/ LastLatest(d)
  <2>1. /\ pc[d] \in {"last_etag", "last_latest"} /\ pc'[d] \in {"last_latest", "last_meta"}
        /\ meta' = meta /\ archive' = archive /\ Entry(d)' = e0
    <3>1. CASE LastEtag(d)
      BY <3>1 DEF LastEtag, stores, document, head, locals, Entry
    <3>2. CASE LastLatest(d)
      BY <3>2 DEF LastLatest, document, locals, Entry
    <3>. QED
      BY <1>7, <3>1, <3>2
  <2>. QED
    BY <1>1, <1>2, <2>1
<1>8. CASE LastMeta(d)
  <2>1. /\ pc[d] = "last_meta" /\ pc'[d] = "last_index" /\ archive' = archive
        /\ meta' = [meta EXCEPT ![e0] = Absent] /\ Entry(d)' = e0
    BY <1>8 DEF LastMeta, TryDelete, locals, Entry
  <2>2. Entry(d) \in Entries
    BY <1>1, <1>4, <1>8 DEF LastMeta, Resolve
  <2>. QED
    BY <1>1, <2>1, <2>2 DEF GoodMeta, Sub
<1>9. CASE LastIndex(d)
  <2>1. /\ pc[d] = "last_index" /\ pc'[d] = "drop_bytes" /\ archive' = archive
        /\ meta' = meta /\ Entry(d)' = e0
    BY <1>9 DEF LastIndex, document, locals, Entry
  <2>. QED
    BY <1>1, <1>2, <2>1
<1>10. CASE Unlist(d)
  <2>1. /\ pc[d] = "unlist" /\ archive' = archive /\ Entry(d)' = e0
        /\ seen[d] \in Meta /\ call[d].version \in Versions
    BY <1>1, <1>10, CallType
    DEF Unlist, locals, Entry, StageOf, DeletePcs, SweepPcs
  <2>2. meta[e0] # Absent /\ meta[e0].versions = seen[d].versions /\ e0 \in Entries
    BY <1>1, <1>4, <2>1, <1>10 DEF Unlist, Resolve
  <2>3. CASE IfMatch(meta[e0], metaTag[e0], etag[d])
    <3>1. pc'[d] = "drop_bytes"
          /\ meta' = [meta EXCEPT ![e0] = [seen[d] EXCEPT !.versions = Remaining(d)]]
      BY <1>10, <2>3 DEF Unlist, WriteMeta
    <3>2. meta'[e0].versions = Remaining(d)
      BY <2>1, <2>2, <3>1 DEF Meta
    <3>3. /\ Sub(Remaining(d), meta[e0].versions)
          /\ Remaining(d)[call[d].version] = Absent
      BY <2>1, <2>2, MetaType DEF Remaining, Sub, Listing
    <3>4. GoodMeta(e0)
      BY <1>1, <2>1, <2>2
    <3>5. Sub(meta'[e0].versions, archive[e0])
      BY <2>2, <3>2, <3>3, <3>4 DEF GoodMeta, Sub
    <3>6. \A e \in Entries \ {e0} : meta'[e] = meta[e]
      BY <3>1
    <3>. HIDE DEF e0
    <3>7. \A e \in Entries \ {e0} : GoodMeta(e) => GoodMeta(e)'
      BY <2>1, <3>6 DEF GoodMeta
    <3>8. \A e \in Entries : GoodMeta(e)'
      <4>1. TAKE e \in Entries
      <4>2. CASE e = e0
        BY <2>1, <3>5, <4>2 DEF GoodMeta
      <4>3. CASE e # e0
        BY <1>1, <2>1, <3>7, <4>3
      <4>. QED
        BY <4>2, <4>3
    <3>9. \A e \in Entries : meta[e] = Absent => meta'[e] = Absent
      BY <2>2, <3>6
    <3>10. DeleteStage(d)'
      BY <1>1, <2>1, <3>1, <3>2, <3>3 DEF e0
    <3>. QED
      BY <3>8, <3>9, <3>10
  <2>4. CASE ~IfMatch(meta[e0], metaTag[e0], etag[d])
    <3>1. pc'[d] = "412" /\ meta' = meta
      BY <1>10, <2>4 DEF Unlist, document
    <3>. QED
      BY <1>1, <1>2, <2>1, <3>1
  <2>. QED
    BY <2>3, <2>4
<1>11. CASE DropBytes(d)
  <2>1. /\ pc[d] = "drop_bytes" /\ pc'[d] = "200" /\ meta' = meta
        /\ archive' \in {[archive EXCEPT ![e0][call[d].version] = Absent], archive}
    BY <1>11 DEF DropBytes, TryDelete, document, locals
  <2>2. /\ call[d].version \in Versions /\ e0 \in Entries
        /\ meta[e0] # Absent => meta[e0].versions[call[d].version] = Absent
    BY <1>1, <1>4, <2>1, <1>11, CallType
    DEF StageOf, DeletePcs, SweepPcs, DropBytes, Resolve
  <2>3. \A e \in Entries : GoodMeta(e) => GoodMeta(e)'
    BY <2>1, <2>2 DEF GoodMeta, Sub, Listing
  <2>. QED
    BY <1>1, <1>2, <2>1, <2>3
<1>12. CASE ListKeys(d)
  <2>1. /\ pc[d] = "list" /\ pc'[d] = "sweep" /\ meta' = meta /\ archive' = archive
        /\ Entry(d)' = e0 /\ doomed'[d] = Present(e0)
    BY <1>12 DEF ListKeys, stores, document, head, Entry
  <2>. QED
    BY <1>1, <1>2, <2>1 DEF Present
<1>13. CASE SweepKey(d)
  <2>1. e0 \in Entries /\ MetaKey \notin Versions /\ MetaKey # LatestKey
    BY <1>4, <1>13, CatalogAssumption DEF SweepKey, Resolve, MetaKey, LatestKey, Versions
  <2>2. PICK k \in doomed[d] :
          /\ doomed' = [doomed EXCEPT ![d] = @ \ {k}]
          /\ archive' = IF k \in Versions
                        THEN [archive EXCEPT ![e0][k] = Absent] ELSE archive
          /\ meta' = IF k = MetaKey THEN [meta EXCEPT ![e0] = Absent] ELSE meta
    BY <1>13 DEF SweepKey
  <2>3. pc[d] = "sweep" /\ pc'[d] = "sweep" /\ Entry(d)' = e0
    BY <1>13 DEF SweepKey, Entry
  <2>4. \A e \in Entries \ {e0} : meta'[e] = meta[e] /\ archive'[e] = archive[e]
    BY <2>1, <2>2
  <2>5. meta'[e0] # Absent => meta'[e0] = meta[e0] /\ k # MetaKey
    BY <2>1, <2>2
  <2>6. DeleteStage(d)'
    BY <1>1, <2>2, <2>3, <2>5
  <2>7. \A e \in Entries : e # e0 => GoodMeta(e)'
    BY <1>1, <2>3, <2>4 DEF GoodMeta
  <2>8. \A e \in Entries : meta[e] = Absent => meta'[e] = Absent
    BY <2>4, <2>5
  <2>. QED
    BY <2>3, <2>6, <2>7, <2>8
<1>14. CASE SweepIndex(d)
  <2>1. /\ pc[d] = "sweep" /\ doomed[d] = {} /\ pc'[d] = "200" /\ Entry(d)' = e0
        /\ meta' = meta /\ archive' = archive
    BY <1>14 DEF SweepIndex, document, locals, Entry
  <2>2. meta[e0] = Absent
    BY <1>1, <2>1
  <2>3. \A e \in Entries : GoodMeta(e)
    BY <1>1, <2>2 DEF GoodMeta
  <2>. QED
    BY <1>1, <1>2, <2>1, <2>3
<1>15. Resolve(d) \/ DeleteVersion(d) \/ DeleteAll(d)
  BY <1>1, StepOfOp
<1>. QED
  BY <1>3, <1>5, <1>6, <1>7, <1>8, <1>9, <1>10, <1>11, <1>12, <1>13, <1>14, <1>15
  DEF DeleteVersion, DeleteAll

LEMMA NextBytes ==
    ASSUME "meta" \notin FailedDeletes, BytesInv, [Next]_vars
    PROVE  BytesInv'
<1>1. TypeInv /\ TypeInv'
  BY NextType DEF BytesInv, FreshInv
<1>2. ASSUME NEW r \in Requests, Step(r)
      PROVE  BytesInv'
  <2>1. call' = call
    BY <1>1, <1>2, StepFrame DEF TypeInv
  <2>2. Deleters' = Deleters /\ (DeletesAlone' <=> DeletesAlone)
    BY <2>1 DEF Deleters, DeletesAlone, Is
  <2>3. Deleters = {} => Growing'
    BY <1>1, <1>2, GrowStep, StepOfOp DEF BytesInv
  <2>4. ASSUME DeletesAlone, NEW d \in Deleters
        PROVE  Shrinking(d)'
    <3>1. Shrinking(d)
      BY <2>4 DEF BytesInv
    <3>2. CASE r = d
      BY <1>1, <1>2, <3>1, <3>2, DeleteStep
    <3>3. CASE r # d
      <4>1. call[r].op \in ToggleOps
        BY <2>4, <3>3 DEF DeletesAlone, Is
      <4>. QED
        BY <1>1, <1>2, <3>1, <3>3, <4>1, ToggleStep DEF BytesInv
    <3>. QED
      BY <3>2, <3>3
  <2>. QED
    BY <2>2, <2>3, <2>4, NextFresh DEF BytesInv
<1>3. ASSUME UNCHANGED <<index, document, head, archive, minted, pc, locals>>
      PROVE  BytesInv'
  BY <1>3, NextFresh DEF document, BytesInv, Deleters, DeletesAlone, Is, Growing, Shrinking, GoodMeta,
     GoodCopy, ToggleCopy, DeleteStage, Entry, locals
<1>. QED
  BY <1>2, <1>3 DEF Next, CatchUp, Done, vars, stores, document, head

LEMMA InitBytes == Init => BytesInv
<1>. SUFFICES ASSUME Init
              PROVE  BytesInv
  OBVIOUS
<1>1. FreshInv
  BY InitFresh
<1>2. \A e \in Entries : GoodMeta(e)
  BY DEF Init, InitFrom, InitRequests, GoodMeta, Holding, Sub
<1>3. \A r \in Requests : pc[r] \in {"lookup_own", "resolve"}
  BY DEF Init, InitFrom, InitRequests
<1>. QED
  BY <1>1, <1>2, <1>3 DEF BytesInv, Growing, GoodCopy, Shrinking, ToggleCopy, DeleteStage,
     CopyPcs, RecomputePcs, Deleters

(* No version is listed whose bytes are gone, or are not the bytes listed: *)
(* at every point a request can be killed, for any number of uploads,      *)
(* policy changes and toggles, and for one deletion next to any number of  *)
(* publish and unpublish requests.  The delete of meta.json must not fail  *)
(* where deleteversion would pass over it (see FindableHaveBytes).         *)
THEOREM ListingsHoldBytes ==
    ASSUME "meta" \notin FailedDeletes
    PROVE  Spec => []ListedHaveBytes
<1>1. BytesInv => ListedHaveBytes
  <2>. SUFFICES ASSUME BytesInv, DeletesAlone, NEW e \in Entries,
                       meta[e] # Absent, ~BeingSwept(e),
                       NEW v \in Listed(meta[e].versions)
                PROVE  archive[e][v] = meta[e].versions[v]
    BY DEF ListedHaveBytes
  <2>1. CASE Deleters = {}
    BY <2>1 DEF BytesInv, Growing, GoodMeta, Sub, Listed
  <2>2. CASE Deleters # {}
    <3>1. PICK d \in Deleters : Shrinking(d)
      BY <2>2 DEF BytesInv
    <3>2. ~(pc[d] = "sweep" /\ Entry(d) = e)
      BY <3>1 DEF BeingSwept, Deleters
    <3>. QED
      BY <3>1, <3>2 DEF Shrinking, GoodMeta, Sub, Listed
  <2>. QED
    BY <2>1, <2>2
<1>2. BytesInv /\ [Next]_vars => BytesInv'
  BY NextBytes
<1>. QED
  BY InitBytes, <1>1, <1>2, PTL DEF Spec
=============================================================================
