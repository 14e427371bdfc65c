----------------------- MODULE CatalogDeletionProofs -----------------------
(***************************************************************************)
(* One deletion of DrillCatalog, next to any number of publish and         *)
(* unpublish requests: it leaves latest.drill on a version that is there,  *)
(* and what it was answered 200 for stays deleted.                         *)
(***************************************************************************)
EXTENDS CatalogLedgerProofs

(* Every request but the deletion is a publish or an unpublish, and stays  *)
(* one.                                                                    *)
LEMMA AloneFrame ==
    ASSUME TypeOK, NEW r \in Requests, Step(r)
    PROVE  /\ call' = call /\ Deleters' = Deleters
           /\ DeletesAlone' <=> DeletesAlone
           /\ \A d \in Deleters : DeletesAlone /\ r # d => call[r].op \in ToggleOps
<1>1. call' = call
  BY StepFrame
<1>. QED
  BY <1>1 DEF Deleters, DeletesAlone, Is

(* The entry of a deletion that is past its lookup.                        *)
LEMMA DeletesEntry ==
    ASSUME TypeInv, NEW d \in Requests, pc[d] \in DeletePcs
    PROVE  Entry(d) \in Entries /\ found[d] \in Record /\ found[d].ns \in Namespaces
BY RecordType DEF TypeInv, StageOK, StageOf, HasRecord

LEMMA DeleteSteps ==
    ASSUME TypeInv, NEW d \in Deleters, Step(d)
    PROVE  /\ d \in Requests /\ StageOf(d) /\ call[d] \in Call
           /\ \A q \in Requests \ {d} : Undisturbed(q)
           /\ Resolve(d) \/ DeleteVersion(d) \/ DeleteAll(d)
BY StepOfOp, StepFrame DEF Deleters, TypeInv, StageOK, TypeOK

-----------------------------------------------------------------------------
(* latest.drill.  A deletion that is to drop a version first moves         *)
(* latest.drill to another one, or removes it when there is no other.      *)

HeadKept(e) == latest[e] # Absent => \E v \in Versions : archive[e][v] = latest[e]

(* latest.drill does not need the version that is being deleted.           *)
HeldElsewhere(d) ==
    LET e == Entry(d)
    IN  latest[e] # Absent =>
            \E v \in Versions \ {call[d].version} : archive[e][v] = latest[e]

HeadStage(d) ==
    LET e == Entry(d)
    IN  /\ pc[d] \in {"latest_etag", "promote"} =>
               buf[d] # Absent /\ archive[e][Greatest(Remaining(d))] = buf[d]
        /\ pc[d] \in {"meta_etag", "unlist", "drop_bytes"} => HeldElsewhere(d)
        /\ pc[d] \in {"last_meta", "last_index"} => latest[e] = Absent
        /\ pc[d] = "sweep" /\ latest[e] # Absent => LatestKey \in doomed[d]

Moving(d) ==
    /\ \A e \in Entries : ~(pc[d] = "sweep" /\ Entry(d) = e) => HeadKept(e)
    /\ HeadStage(d)

HeadInv ==
    /\ StandsInv
    /\ Deleters = {} => \A e \in Entries : HeadKept(e)
    /\ DeletesAlone => \A d \in Deleters : Moving(d)

(* Uploads: the archive is stored before latest.drill is written.          *)
LEMMA UploadsKeepHead ==
    ASSUME StandsInv, TypeInv', Deleters = {}, \A e \in Entries : HeadKept(e),
           NEW r \in Requests, Step(r)
    PROVE  \A e \in Entries : HeadKept(e)'
<1>1. TypeInv /\ (Upload(r) \/ MetaOnly(r)) /\ StageOf(r) /\ NothingGoes
  BY StepOfOp, KeepStep DEF StandsInv, RecordsInv, TypeInv, StageOK
<1>. SUFFICES ASSUME NEW e \in Entries
              PROVE  HeadKept(e)'
  OBVIOUS
<1>2. ASSUME latest'[e] = latest[e]
      PROVE  HeadKept(e)'
  BY <1>1, <1>2 DEF HeadKept, NothingGoes
<1>3. CASE UploadPutLatest(r)
  <2>1. Stored(r)
    BY <1>1, <1>3 DEF UploadPutLatest, Goto, Stored, StageOf, UploadPcs, Is, UploadOps
  <2>2. ver[r] \in Versions /\ archive[Entry(r)][ver[r]] = call[r].content
    BY <2>1 DEF StandsInv, StillStored
  <2>3. latest' = [latest EXCEPT ![Entry(r)] = call[r].content] /\ archive' = archive
    BY <1>3 DEF UploadPutLatest, WriteLatest
  <2>4. CASE e = Entry(r)
    BY <1>1, <2>2, <2>3, <2>4 DEF HeadKept, TypeInv, TypeOK
  <2>5. CASE e # Entry(r)
    BY <1>2, <2>3, <2>5
  <2>. QED
    BY <2>4, <2>5
<1>4. CASE latest' = latest
  BY <1>2, <1>4
<1>. QED
  BY <1>1, <1>3, <1>4 DEF Upload, UploadLookupOwn, UploadLookupAnon, UploadReadPolicy,
     UploadClaim, UploadRejectArchive, UploadGate, UploadPutVersion, UploadVersionTaken,
     UploadPutMeta, MetaOnly, Resolve, ToggleEtag, ToggleRead, ToggleWrite, PolicyRead,
     PolicyEtag, PolicyWrite, stores, head

(* A publish or unpublish touches neither.                                 *)
LEMMA TogglesKeepHead ==
    ASSUME TypeInv, NEW d \in Deleters, Moving(d),
           NEW r \in Requests \ {d}, call[r].op \in ToggleOps, Step(r)
    PROVE  Moving(d)'
<1>1. latest' = latest /\ archive' = archive
  BY StepOfOp DEF Resolve, ToggleEtag, ToggleRead, ToggleWrite, stores, head
<1>2. Undisturbed(d) /\ call' = call /\ Entry(d)' = Entry(d)
  BY StepFrame DEF TypeInv, Deleters, Undisturbed, Entry
<1>. QED
  BY <1>1, <1>2 DEF Moving, HeadKept, HeadStage, HeldElsewhere, Undisturbed, Remaining

LEMMA DeleteKeepsHead ==
    ASSUME "latest" \notin FailedDeletes, TypeInv, TypeInv', NEW d \in Deleters,
           Moving(d), Step(d)
    PROVE  Moving(d)'
<1>. USE DEF TypeInv
<1>1. /\ d \in Requests /\ StageOf(d) /\ call[d] \in Call /\ call' = call
      /\ Resolve(d) \/ DeleteVersion(d) \/ DeleteAll(d)
      /\ HeadStage(d)
      /\ \A e \in Entries : ~(pc[d] = "sweep" /\ Entry(d) = e) => HeadKept(e)
  BY DeleteSteps, StepFrame DEF Moving
<1>. DEFINE e0 == Entry(d)
<1>2. pc[d] \in DeletePcs => e0 \in Entries
  BY <1>1, DeletesEntry
<1>3. pc[d] \in DeletePcs \ SweepPcs => call[d].op = "deleteversion" /\ call[d].version \in Versions
  BY <1>1, CallType DEF StageOf
<1>4. ASSUME UNCHANGED <<latest, archive>>, pc'[d] # "sweep" \/ pc[d] = "sweep",
             Entry(d)' = e0, pc[d] # "sweep"
      PROVE  \A e \in Entries : HeadKept(e)'
  BY <1>1, <1>4 DEF HeadKept
<1>. USE DEF Goto, TypeOK
<1>5. CASE Resolve(d) \/ DeleteRead(d)
  <2>1. UNCHANGED <<latest, archive>> /\ pc[d] \in {"resolve", "delete_read"}
    BY <1>5 DEF Resolve, DeleteRead, stores, head
  <2>2. pc'[d] \notin {"latest_etag", "promote", "meta_etag", "unlist", "drop_bytes",
                       "last_meta", "last_index", "sweep"}
    BY <1>5 DEF Resolve, ToggleOps, DeleteRead, DeletePath
  <2>. QED
    BY <1>1, <2>1, <2>2 DEF Moving, HeadKept, HeadStage
<1>6. CASE ReadNewLatest(d)
  <2>1. /\ pc[d] = "read_bytes" /\ UNCHANGED <<latest, archive, call>>
        /\ pc'[d] \in {"500", "latest_etag"}
        /\ pc'[d] = "latest_etag" => buf'[d] # Absent
        /\ buf'[d] = archive[e0][Greatest(Remaining(d))]
        /\ Entry(d)' = e0 /\ Remaining(d)' = Remaining(d)
    BY <1>6 DEF ReadNewLatest, stores, head, Entry, Remaining
  <2>. QED
    BY <1>1, <2>1 DEF Moving, HeadKept, HeadStage, Greatest, Listed
<1>7. CASE LatestEtagRead(d)
  <2>1. /\ pc[d] = "latest_etag" /\ pc'[d] = "promote" /\ UNCHANGED <<latest, archive, buf, call>>
        /\ Entry(d)' = e0 /\ Remaining(d)' = Remaining(d)
    BY <1>7 DEF LatestEtagRead, stores, head, Entry, Remaining
  <2>. QED
    BY <1>1, <2>1 DEF Moving, HeadKept, HeadStage, Greatest, Listed
<1>8. CASE Promote(d)
  <2>. DEFINE w == Greatest(Remaining(d))
  <2>1. /\ pc[d] = "promote" /\ archive' = archive /\ Entry(d)' = e0 /\ call' = call
        /\ \/ pc'[d] = "meta_etag" /\ latest' = [latest EXCEPT ![e0] = buf[d]]
           \/ pc'[d] = "412" /\ latest' = latest
    BY <1>8 DEF Promote, WriteLatest, head, locals, Entry
  <2>2. seen[d] \in Meta /\ Listed(Remaining(d)) # {} /\ e0 \in Entries
        /\ call[d].version \in Versions
    BY <1>1, <1>2, <1>3, <2>1 DEF StageOf, DeletePcs, RecomputePcs, SweepPcs
  <2>3. w \in Versions \ {call[d].version}
    <3>1. Remaining(d) \in Listing
      BY <1>1, <2>2, RemainingType
    <3>2. w \in Listed(Remaining(d))
      BY <2>2, <3>1, GreatestFact
    <3>3. seen[d].versions \in Listing
      BY <2>2, MetaType
    <3>4. Remaining(d)[call[d].version] = Absent
      BY <2>2, <3>3 DEF Remaining, Listing
    <3>. QED
      BY <3>2, <3>4 DEF Listed
  <2>4. archive[e0][w] = buf[d]
    BY <1>1, <2>1 DEF HeadStage
  <2>5. CASE pc'[d] = "meta_etag" /\ latest' = [latest EXCEPT ![e0] = buf[d]]
    <3>1. latest'[e0] = buf[d] /\ \A e \in Entries \ {e0} : latest'[e] = latest[e]
      BY <2>2, <2>5
    <3>2. HeldElsewhere(d)'
      BY <2>1, <2>3, <2>4, <3>1 DEF HeldElsewhere
    <3>3. \A e \in Entries : HeadKept(e)'
      <4>1. TAKE e \in Entries
      <4>2. CASE e = e0
        BY <2>1, <2>3, <2>4, <3>1, <4>2 DEF HeadKept
      <4>3. CASE e # e0
        BY <1>1, <2>1, <3>1, <4>3 DEF HeadKept
      <4>. QED
        BY <4>2, <4>3
    <3>. QED
      BY <2>5, <3>2, <3>3 DEF Moving, HeadStage
  <2>6. CASE pc'[d] = "412" /\ latest' = latest
    BY <1>1, <2>1, <2>6 DEF Moving, HeadStage, HeadKept
  <2>. QED
    BY <2>1, <2>5, <2>6
<1>9. CASE MetaEtagRead(d) \/ Unlist(d)
  <2>1. /\ pc[d] \in {"meta_etag", "unlist"} /\ UNCHANGED <<latest, archive, call>>
        /\ pc'[d] \in {"unlist", "drop_bytes", "412"}
        /\ Entry(d)' = e0
    <3>1. CASE MetaEtagRead(d)
      BY <3>1 DEF MetaEtagRead, stores, head, Entry
    <3>2. CASE Unlist(d)
      BY <3>2 DEF Unlist, head, locals, Entry
    <3>. QED
      BY <1>9, <3>1, <3>2
  <2>2. HeldElsewhere(d)'
    BY <1>1, <2>1 DEF HeadStage, HeldElsewhere
  <2>. QED
    BY <1>1, <2>1, <2>2 DEF Moving, HeadStage, HeadKept
<1>10. CASE DropBytes(d)
  <2>1. /\ pc[d] = "drop_bytes" /\ pc'[d] = "200" /\ latest' = latest
        /\ archive' \in {[archive EXCEPT ![e0][call[d].version] = Absent], archive}
    BY <1>10 DEF DropBytes, TryDelete, head
  <2>2. e0 \in Entries /\ call[d].version \in Versions /\ HeldElsewhere(d)
    BY <1>1, <1>2, <1>3, <2>1 DEF HeadStage, DeletePcs, SweepPcs
  <2>3. /\ \A e \in Entries \ {e0} : archive'[e] = archive[e]
        /\ \A v \in Versions \ {call[d].version} : archive'[e0][v] = archive[e0][v]
    BY <2>1, <2>2 DEF Listing
  <2>4. \A e \in Entries : HeadKept(e)'
    <3>1. TAKE e \in Entries
    <3>2. CASE e = e0
      BY <2>1, <2>2, <2>3, <3>2 DEF HeadKept, HeldElsewhere
    <3>3. CASE e # e0
      BY <1>1, <2>1, <2>3, <3>3 DEF HeadKept
    <3>. QED
      BY <3>2, <3>3
  <2>. QED
    BY <2>1, <2>4 DEF Moving, HeadStage
<1>11. CASE LastEtag(d)
  <2>1. /\ pc[d] = "last_etag" /\ UNCHANGED <<latest, archive>> /\ Entry(d)' = e0
        /\ pc'[d] = IF Etag(latest[e0], latestTag[e0]) = Absent THEN "last_meta" ELSE "last_latest"
    BY <1>11 DEF LastEtag, stores, head, locals, Entry
  <2>2. e0 \in Entries
    BY <1>2, <2>1 DEF DeletePcs, LastPcs
  <2>3. Etag(latest[e0], latestTag[e0]) = Absent => latest[e0] = Absent
    BY <2>2, CatalogAssumption DEF Etag
  <2>. QED
    BY <1>1, <2>1, <2>3 DEF Moving, HeadStage, HeadKept
<1>12. CASE LastLatest(d)
  <2>1. /\ pc[d] = "last_latest" /\ pc'[d] = "last_meta" /\ archive' = archive /\ Entry(d)' = e0
        /\ latest' = [latest EXCEPT ![e0] = Absent]
    BY <1>12 DEF LastLatest, TryDelete, locals, Entry
  <2>2. e0 \in Entries
    BY <1>2, <2>1 DEF DeletePcs, LastPcs
  <2>. QED
    BY <1>1, <2>1, <2>2 DEF Moving, HeadStage, HeadKept
<1>13. CASE LastMeta(d)
  <2>1. /\ pc[d] = "last_meta" /\ pc'[d] = "last_index" /\ UNCHANGED <<latest, archive>>
        /\ Entry(d)' = e0
    BY <1>13 DEF LastMeta, head, locals, Entry
  <2>. QED
    BY <1>1, <2>1 DEF Moving, HeadStage, HeadKept
<1>14. CASE LastIndex(d)
  <2>1. /\ pc[d] = "last_index" /\ pc'[d] = "drop_bytes" /\ UNCHANGED <<latest, archive, call>>
        /\ Entry(d)' = e0
    BY <1>14 DEF LastIndex, head, locals, Entry
  <2>2. HeldElsewhere(d)'
    BY <1>1, <2>1 DEF HeadStage, HeldElsewhere
  <2>. QED
    BY <1>1, <2>1, <2>2 DEF Moving, HeadStage, HeadKept
<1>15. CASE ListKeys(d)
  <2>1. /\ pc[d] = "list" /\ pc'[d] = "sweep" /\ UNCHANGED <<latest, archive>>
        /\ Entry(d)' = e0 /\ doomed'[d] = Present(e0)
    BY <1>15 DEF ListKeys, stores, head, Entry
  <2>. QED
    BY <1>1, <2>1 DEF Moving, HeadStage, HeadKept, Present
<1>16. CASE SweepKey(d)
  <2>1. pc[d] = "sweep" /\ pc'[d] = "sweep" /\ Entry(d)' = e0 /\ e0 \in Entries
    BY <1>2, <1>16 DEF SweepKey, Entry, DeletePcs, SweepPcs
  <2>2. PICK k \in doomed[d] :
          /\ doomed' = [doomed EXCEPT ![d] = @ \ {k}]
          /\ archive' = IF k \in Versions
                        THEN [archive EXCEPT ![e0][k] = Absent] ELSE archive
          /\ latest' = IF k = LatestKey THEN [latest EXCEPT ![e0] = Absent] ELSE latest
    BY <1>16 DEF SweepKey
  <2>3. \A e \in Entries \ {e0} : latest'[e] = latest[e] /\ archive'[e] = archive[e]
    BY <2>1, <2>2
  <2>4. latest'[e0] # Absent => latest'[e0] = latest[e0] /\ k # LatestKey
    BY <2>1, <2>2
  <2>5. HeadStage(d)'
    BY <1>1, <2>1, <2>2, <2>4 DEF HeadStage
  <2>6. \A e \in Entries : e # e0 => HeadKept(e)'
    BY <1>1, <2>1, <2>3 DEF HeadKept
  <2>. QED
    BY <2>1, <2>5, <2>6 DEF Moving
<1>17. CASE SweepIndex(d)
  <2>1. /\ pc[d] = "sweep" /\ doomed[d] = {} /\ pc'[d] = "200" /\ UNCHANGED <<latest, archive>>
        /\ Entry(d)' = e0
    BY <1>17 DEF SweepIndex, head, locals, Entry
  <2>2. latest[e0] = Absent
    BY <1>1, <2>1 DEF HeadStage
  <2>. QED
    BY <1>1, <2>1, <2>2 DEF Moving, HeadStage, HeadKept
<1>. QED
  BY <1>1, <1>5, <1>6, <1>7, <1>8, <1>9, <1>10, <1>11, <1>12, <1>13, <1>14, <1>15, <1>16, <1>17
  DEF DeleteVersion, DeleteAll

LEMMA NextHead ==
    ASSUME "latest" \notin FailedDeletes, HeadInv, [Next]_vars
    PROVE  HeadInv'
<1>1. TypeInv /\ TypeInv' /\ StandsInv /\ StandsInv'
  BY NextStands DEF HeadInv, StandsInv, RecordsInv
<1>2. ASSUME NEW r \in Requests, Step(r)
      PROVE  HeadInv'
  <2>1. /\ Deleters' = Deleters /\ (DeletesAlone' <=> DeletesAlone)
        /\ \A d \in Deleters : DeletesAlone /\ r # d => call[r].op \in ToggleOps
    BY <1>1, <1>2, AloneFrame DEF TypeInv
  <2>2. Deleters = {} => \A e \in Entries : HeadKept(e)'
    BY <1>1, <1>2, UploadsKeepHead DEF HeadInv
  <2>3. ASSUME DeletesAlone, NEW d \in Deleters
        PROVE  Moving(d)'
    BY <1>1, <1>2, <2>1, <2>3, TogglesKeepHead, DeleteKeepsHead DEF HeadInv
  <2>. QED
    BY <1>1, <2>1, <2>2, <2>3 DEF HeadInv
<1>3. ASSUME UNCHANGED <<index, document, head, archive, minted, pc, locals>>
      PROVE  HeadInv'
  BY <1>1, <1>3 DEF HeadInv, head, locals, Deleters, DeletesAlone, Is, Moving, HeadKept,
     HeadStage, HeldElsewhere, Entry, Remaining
<1>. QED
  BY <1>2, <1>3 DEF Next, CatchUp, Done, vars, stores

LEMMA InitHead == Init => HeadInv
<1>. SUFFICES ASSUME Init
              PROVE  HeadInv
  OBVIOUS
<1>1. \A r \in Requests : pc[r] \in {"lookup_own", "resolve"}
  BY DEF Init, InitFrom, InitRequests
<1>2. ASSUME NEW e \in Entries
      PROVE  HeadKept(e)
  <2>1. PICK s \in Starts : InitFrom(s)
    BY DEF Init
  <2>. DEFINE list == IF s.seed = Absent THEN NoVersions ELSE s.seed.doc.versions
  <2>2. list \in Listing
    <3>1. s.seed \in Seed
      BY CatalogAssumption DEF Start
    <3>2. CASE s.seed = Absent
      BY <3>2 DEF NoVersions, Listing
    <3>3. CASE s.seed # Absent
      <4>1. s.seed.doc \in Meta
        BY <3>1, <3>3 DEF Seed
      <4>. QED
        BY <3>3, <4>1, MetaType
    <3>. QED
      BY <3>2, <3>3
  <2>3. LatestEtag(list) # Absent => \E v \in Versions : list[v] = LatestEtag(list)
    BY <2>2, GreatestFact DEF LatestEtag, Listed
  <2>4. /\ latest[e] \in {Absent, LatestEtag(list)}
        /\ latest[e] # Absent => latest[e] = LatestEtag(list) /\ archive[e] = list
    <3>1. latest = Holding(s.seed, Absent, LatestEtag(list))
          /\ archive = Holding(s.seed, NoVersions, list)
      BY <2>1 DEF InitFrom
    <3>. HIDE DEF list
    <3>. QED
      BY <3>1 DEF Holding
  <2>. HIDE DEF list
  <2>. QED
    BY <2>3, <2>4 DEF HeadKept
<1>. QED
  BY <1>1, <1>2, InitStands DEF HeadInv, Moving, HeadStage, Deleters

(* Wherever requests are stopped, latest.drill holds the bytes of a        *)
(* version that is there: next to uploads because they store the version   *)
(* first, next to a deletion because it moves latest.drill first.  The     *)
(* delete of latest.drill must not fail where deleteversion passes over it.*)
THEOREM LatestStaysArchived ==
    ASSUME "latest" \notin FailedDeletes
    PROVE  Spec => []LatestIsArchived
<1>1. HeadInv => LatestIsArchived
  <2>. SUFFICES ASSUME HeadInv, DeletesAlone, NEW e \in Entries, ~BeingSwept(e)
                PROVE  HeadKept(e)
    BY DEF LatestIsArchived, HeadKept
  <2>1. CASE Deleters = {}
    BY <2>1 DEF HeadInv
  <2>2. CASE Deleters # {}
    <3>1. PICK d \in Deleters : Moving(d)
      BY <2>2 DEF HeadInv
    <3>2. ~(pc[d] = "sweep" /\ Entry(d) = e)
      BY DEF BeingSwept, Deleters
    <3>. QED
      BY <3>1, <3>2 DEF Moving
  <2>. QED
    BY <2>1, <2>2
<1>2. HeadInv /\ [Next]_vars => HeadInv'
  BY NextHead
<1>. QED
  BY InitHead, <1>1, <1>2, PTL DEF Spec
-----------------------------------------------------------------------------
(* What a deletion was answered 200 for.                                   *)

Gone(d) ==
    LET e == Entry(d)
    IN  /\ pc[d] = "sweep" => Present(e) \subseteq doomed[d]
        /\ pc[d] = "200" =>
              /\ found[d] \in Record
              /\ call[d].op = "deleteall" => Present(e) = {} /\ index[found[d].ns] = Absent
              /\ call[d].op # "deleteall" /\ meta[e] # Absent =>
                     meta[e].versions[call[d].version] = Absent

GoneInv == BytesInv /\ (DeletesAlone => \A d \in Deleters : Gone(d))

(* A publish or unpublish brings nothing back: its write is let through    *)
(* only where there is a meta.json, and keeps the listing of that one.     *)
LEMMA TogglesBringNothingBack ==
    ASSUME FreshInv, NEW d \in Deleters, Shrinking(d), Gone(d),
           NEW r \in Requests \ {d}, call[r].op \in ToggleOps, Step(r)
    PROVE  Gone(d)'
<1>. USE DEF FreshInv, TypeInv
<1>1. ToggleCopy(r) /\ d \in Requests
  BY DEF Shrinking, Deleters
<1>2. /\ index' = index /\ latest' = latest /\ archive' = archive
      /\ \A e \in Entries :
            /\ meta'[e] = Absent <=> meta[e] = Absent
            /\ meta[e] # Absent => meta'[e].versions = meta[e].versions
  BY <1>1, ToggleKeeps DEF head
<1>3. Undisturbed(d) /\ call' = call /\ Entry(d)' = Entry(d)
  BY <1>1, StepFrame DEF Undisturbed, Entry
<1>4. ASSUME pc[d] = "sweep" \/ pc[d] = "200"
      PROVE  Entry(d) \in Entries /\ Present(Entry(d))' = Present(Entry(d))
  <2>1. Entry(d) \in Entries
    BY <1>1, <1>4, DeletesEntry, RecordType DEF DeletePcs, SweepPcs, Gone
  <2>. QED
    BY <1>2, <1>3, <2>1 DEF Present, Listed
<1>. QED
  BY <1>2, <1>3, <1>4 DEF Gone, Undisturbed

LEMMA DeletionEnds ==
    ASSUME "index" \notin FailedDeletes, TypeInv, TypeInv', NEW d \in Deleters,
           DeleteStage(d), Gone(d), Step(d)
    PROVE  Gone(d)'
<1>. USE DEF TypeInv
<1>1. /\ d \in Requests /\ StageOf(d) /\ call[d] \in Call /\ call' = call
      /\ Resolve(d) \/ DeleteVersion(d) \/ DeleteAll(d)
  BY DeleteSteps, StepFrame
<1>. DEFINE e0 == Entry(d)
<1>2. pc[d] \in DeletePcs => e0 \in Entries /\ found[d] \in Record /\ found[d].ns \in Namespaces
  BY <1>1, DeletesEntry
<1>. USE DEF Goto, TypeOK
<1>3. CASE \/ Resolve(d) \/ DeleteRead(d) \/ ReadNewLatest(d) \/ LatestEtagRead(d) \/ Promote(d)
           \/ MetaEtagRead(d) \/ Unlist(d) \/ LastEtag(d) \/ LastLatest(d) \/ LastMeta(d)
           \/ LastIndex(d)
  <2>1. pc'[d] \notin {"sweep", "200"}
    <3>1. CASE \/ Resolve(d) \/ DeleteRead(d) \/ ReadNewLatest(d) \/ LatestEtagRead(d)
               \/ Promote(d)
      BY <3>1 DEF Resolve, ToggleOps, DeleteRead, DeletePath, ReadNewLatest, LatestEtagRead,
         Promote
    <3>2. CASE \/ MetaEtagRead(d) \/ Unlist(d) \/ LastEtag(d) \/ LastLatest(d) \/ LastMeta(d)
               \/ LastIndex(d)
      BY <3>2 DEF MetaEtagRead, Unlist, LastEtag, LastLatest, LastMeta, LastIndex
    <3>. QED
      BY <1>3, <3>1, <3>2
  <2>. QED
    BY <2>1 DEF Gone
<1>4. CASE DropBytes(d)
  <2>1. /\ pc[d] = "drop_bytes" /\ pc'[d] = "200" /\ meta' = meta /\ found' = found
        /\ Entry(d)' = e0
    BY <1>4 DEF DropBytes, document, locals, Entry
  <2>2. call[d].op = "deleteversion" /\ found[d] \in Record
        /\ (meta[e0] # Absent => meta[e0].versions[call[d].version] = Absent)
    BY <1>1, <1>2, <2>1 DEF StageOf, DeletePcs, SweepPcs, DeleteStage
  <2>. QED
    BY <1>1, <2>1, <2>2 DEF Gone
<1>5. CASE ListKeys(d)
  <2>1. /\ pc'[d] = "sweep" /\ doomed'[d] = Present(e0) /\ Entry(d)' = e0
        /\ UNCHANGED <<latest, archive, meta>>
    BY <1>5 DEF ListKeys, stores, head, document, Entry
  <2>. QED
    BY <2>1 DEF Gone, Present, Listed
<1>6. CASE SweepKey(d)
  <2>1. pc[d] = "sweep" /\ pc'[d] = "sweep" /\ Entry(d)' = e0 /\ e0 \in Entries
    BY <1>2, <1>6 DEF SweepKey, Entry, DeletePcs, SweepPcs
  <2>2. PICK k \in doomed[d] :
          /\ doomed' = [doomed EXCEPT ![d] = @ \ {k}]
          /\ archive' = IF k \in Versions
                        THEN [archive EXCEPT ![e0][k] = Absent] ELSE archive
          /\ latest' = IF k = LatestKey THEN [latest EXCEPT ![e0] = Absent] ELSE latest
          /\ meta' = IF k = MetaKey THEN [meta EXCEPT ![e0] = Absent] ELSE meta
    BY <1>6 DEF SweepKey
  <2>3. LatestKey \notin Versions /\ MetaKey \notin Versions
    BY CatalogAssumption DEF LatestKey, MetaKey, Versions
  <2>4. /\ latest'[e0] # Absent => latest[e0] # Absent /\ k # LatestKey
        /\ meta'[e0] # Absent => meta[e0] # Absent /\ k # MetaKey
    BY <2>1, <2>2
  <2>5. \A v \in Versions : archive'[e0][v] # Absent => archive[e0][v] # Absent /\ k # v
    BY <2>1, <2>2 DEF Listing
  <2>6. Present(e0)' \subseteq Present(e0) \ {k}
    <3>1. \A v \in Listed(archive'[e0]) : v \in Listed(archive[e0]) /\ v # k
      BY <2>5 DEF Listed
    <3>2. \A x \in Present(e0)' : \/ x \in Listed(archive'[e0])
                                  \/ x = LatestKey /\ latest'[e0] # Absent
                                  \/ x = MetaKey /\ meta'[e0] # Absent
      BY <2>1 DEF Present
    <3>3. \A x \in Present(e0)' : x # k /\ \/ x \in Listed(archive[e0])
                                           \/ x = LatestKey /\ latest[e0] # Absent
                                           \/ x = MetaKey /\ meta[e0] # Absent
      BY <2>4, <3>1, <3>2
    <3>. QED
      BY <3>3 DEF Present
  <2>. QED
    BY <2>1, <2>2, <2>6 DEF Gone
<1>7. CASE SweepIndex(d)
  <2>1. /\ pc[d] = "sweep" /\ doomed[d] = {} /\ pc'[d] = "200" /\ Entry(d)' = e0
        /\ UNCHANGED <<latest, archive, meta, found>>
        /\ index' = [index EXCEPT ![found[d].ns] = Absent]
    BY <1>7 DEF SweepIndex, TryDelete, head, document, locals, Entry
  <2>2. call[d].op = "deleteall" /\ found[d] \in Record /\ found[d].ns \in Namespaces
    BY <1>1, <1>2, <2>1 DEF StageOf, DeletePcs, SweepPcs
  <2>3. Present(e0) = {} /\ Present(e0)' = Present(e0)
    BY <2>1 DEF Gone, Present, Listed
  <2>. QED
    BY <1>1, <2>1, <2>2, <2>3 DEF Gone
<1>. QED
  BY <1>1, <1>3, <1>4, <1>5, <1>6, <1>7 DEF DeleteVersion, DeleteAll

LEMMA NextGone ==
    ASSUME {"meta", "index"} \cap FailedDeletes = {}, GoneInv, [Next]_vars
    PROVE  GoneInv'
<1>1. BytesInv /\ BytesInv' /\ FreshInv /\ TypeInv /\ TypeInv'
  BY NextBytes, NextType DEF GoneInv, BytesInv, FreshInv
<1>2. ASSUME NEW r \in Requests, Step(r)
      PROVE  GoneInv'
  <2>1. /\ Deleters' = Deleters /\ (DeletesAlone' <=> DeletesAlone)
        /\ \A d \in Deleters : DeletesAlone /\ r # d => call[r].op \in ToggleOps
    BY <1>1, <1>2, AloneFrame DEF TypeInv
  <2>2. ASSUME DeletesAlone, NEW d \in Deleters
        PROVE  Gone(d)'
    <3>1. Gone(d) /\ Shrinking(d) /\ DeleteStage(d)
      BY <1>1, <2>2 DEF GoneInv, BytesInv, Shrinking
    <3>2. CASE r = d
      BY <1>1, <1>2, <3>1, <3>2, DeletionEnds
    <3>3. CASE r # d
      BY <1>1, <1>2, <2>1, <2>2, <3>1, <3>3, TogglesBringNothingBack
    <3>. QED
      BY <3>2, <3>3
  <2>. QED
    BY <1>1, <2>1, <2>2 DEF GoneInv
<1>3. ASSUME UNCHANGED <<index, document, head, archive, minted, pc, locals>>
      PROVE  GoneInv'
  BY <1>1, <1>3 DEF GoneInv, document, head, locals, Deleters, DeletesAlone, Is, Gone, Present,
     Entry
<1>. QED
  BY <1>2, <1>3 DEF Next, CatchUp, Done, vars, stores

LEMMA InitGone == Init => GoneInv
<1>. SUFFICES ASSUME Init
              PROVE  GoneInv
  OBVIOUS
<1>1. \A r \in Requests : pc[r] \notin {"sweep", "200"}
  BY DEF Init, InitFrom, InitRequests
<1>. QED
  BY <1>1, InitBytes DEF GoneInv, Gone, Deleters

(* A deletion that was answered 200 sticks, whatever publish and unpublish *)
(* requests had read when it ran and however late they write: nothing of   *)
(* the entry is left after deleteall, and the version is not listed after  *)
(* deleteversion.  The deletes of meta.json and of the index key must not  *)
(* fail where the handler passes over it.                                  *)
THEOREM DeletionsStick ==
    ASSUME {"meta", "index"} \cap FailedDeletes = {}
    PROVE  Spec => []DeletionSticks
<1>1. GoneInv => DeletionSticks
  BY DEF GoneInv, Gone, DeletionSticks, Listed
<1>2. GoneInv /\ [Next]_vars => GoneInv'
  BY NextGone
<1>. QED
  BY InitGone, <1>1, <1>2, PTL DEF Spec
=============================================================================
