------------------------ MODULE PlanPublishingProofs ------------------------
(***************************************************************************)
(* Theorems about PlanPublishing, for every set of devices, edits and      *)
(* requests, every plan to start from and every bound.                     *)
(***************************************************************************)
EXTENDS PlanPublishing, DrillCatalogProofs

(* Where an upload has read meta.json, and where it has written a version. *)
Writing == {"put_latest", "put_meta"}
Past == {"put_version", "200"} \cup Writing
Wrote == {"200"} \cup Writing

(* What a listing names is in the archive.                                 *)
Kept(e, list) == \A v \in Versions : list[v] # Absent => archive[e][v] = list[v]

MetaKept(e) == meta[e] # Absent => Kept(e, meta[e].versions)
SeenKept(r) == pc[r] \in Past => Kept(Entry(r), seen[r].versions)
VersionKept(r) ==
    pc[r] \in Wrote => /\ Entry(r) \in Entries /\ ver[r] \in Versions
                       /\ archive[Entry(r)][ver[r]] = call[r].content

(* A version is listed, and read, only after meta.json was written.        *)
NotListed(r) ==
    pc[r] \in Writing /\ meta[Entry(r)] # Absent => meta[Entry(r)].versions[ver[r]] = Absent
NotRead(r, q) ==
    pc[r] \in Writing /\ pc[q] \in Past /\ Entry(q) = Entry(r) =>
        seen[q].versions[ver[r]] = Absent

Apart(r, q) ==
    r # q /\ pc[r] \in Wrote /\ pc[q] \in Wrote /\ Entry(q) = Entry(r) => ver[r] # ver[q]

(* A version in the archive was there at the start, and nothing has        *)
(* dropped it, or an upload wrote it.                                      *)
Old(e, v) ==
    /\ meta[e] # Absent /\ meta[e].versions[v] # Absent
    /\ \A q \in Requests : pc[q] \in Past /\ Entry(q) = e => seen[q].versions[v] # Absent
Origin(e, v) ==
    archive[e][v] # Absent =>
        Old(e, v) \/ \E r \in Requests : pc[r] \in Wrote /\ Entry(r) = e /\ ver[r] = v

Flights ==
    /\ \A e \in Entries : MetaKept(e) /\ \A v \in Versions : Origin(e, v)
    /\ \A r \in Requests : SeenKept(r) /\ VersionKept(r) /\ NotListed(r)
    /\ \A r, q \in Requests : NotRead(r, q) /\ Apart(r, q)

(* What an edit may be lost from without being lost.                       *)
Safe(x) == x \in aside \/ \E text \in Text : x \in text /\ Published(text)

Calm(d) == {x \in made \ hasty : Author[x] = d}

(* Whatever the catalog hands out is published.                            *)
EntryBacked(e) ==
    /\ latest[e] # Absent => Published(latest[e].text)
    /\ edgeLatest[e] # Absent => Published(edgeLatest[e].text)

UploadBacked(r) ==
    /\ call[r].op = "upload"
    /\ pc[r] \in {"200", "304"} => Published(call[r].content.text)

(* A request that may still send has nothing on the server that goes on.   *)
Unsent == {"idle", "conflict", "dialog"} \cup Reading

(* What a request holds: the calm edits of its device are in the plan it   *)
(* loaded, or safe; all are safe before the plan is replaced.              *)
HeldOK(r) ==
    /\ held[r].local.etag # Absent => Published(held[r].local.hash)
    /\ stage[r] \in Unsent => pc[r] = "412" \/ (pc[r] = "lookup_own" /\ r \notin sent)
    /\ stage[r] \in Reading => held[r].local.etag # Absent
    /\ stage[r] \in {"head_read", "get_meta", "get_bytes"} => index[Anon] # Absent
    /\ stage[r] \in Sending => r \in sent /\ call[r].content.text = held[r].local.text
    /\ stage[r] \in {"dialog"} \cup Saving => Published(held[r].remote)
    /\ stage[r] \in Reading \cup {"dialog"} =>
           \A x \in Calm(Device(r)) : Safe(x) \/ x \in held[r].local.text
    /\ stage[r] \in Sending =>
           \A x \in Calm(Device(r)) \cap ShellEdits : Safe(x) \/ x \in held[r].local.text
    /\ stage[r] \in Saving => \A x \in Calm(Device(r)) : Safe(x)

CopyOK(d) ==
    /\ copy[d].etag # Absent => Published(copy[d].hash)
    /\ \A x \in Calm(d) : Safe(x) \/ x \in copy[d].text

Catalog ==
    /\ Flights
    /\ \A e \in Entries : EntryBacked(e)
    /\ \A r \in Requests : UploadBacked(r)

PlanInv ==
    /\ PlanTypeOK /\ StageOK
    /\ Catalog
    /\ \A r \in Requests : HeldOK(r)
    /\ \A d \in Devices : CopyOK(d)

-----------------------------------------------------------------------------
(* Versions and listings, from one storage call to the next.               *)

LEMMA SafeStays ==
    ASSUME \A text : Published(text) => Published(text)', aside \subseteq aside'
    PROVE  \A x : Safe(x) => Safe(x)'
BY DEF Safe

LEMMA PublishedIsSafe ==
    ASSUME NEW text \in Text, Published(text), NEW x \in text
    PROVE  Safe(x)
BY DEF Safe

(* A request that has written stays one, and a request that has read keeps *)
(* what it read.                                                           *)
Flying(r) ==
    /\ pc'[r] \in Past => /\ pc[r] \in Past
                          /\ seen'[r] = seen[r] /\ Entry(r)' = Entry(r)
    /\ pc'[r] \in Wrote <=> pc[r] \in Wrote
    /\ pc'[r] \in Wrote => ver'[r] = ver[r] /\ call'[r] = call[r]
    /\ pc'[r] \in Writing => pc[r] \in Writing

LEMMA FlightsStay ==
    ASSUME Flights, archive' = archive, meta' = meta, \A r \in Requests : Flying(r)
    PROVE  Flights'
<1>. USE DEF Kept
<1>0. Writing \subseteq Wrote /\ Wrote \subseteq Past
  BY DEF Past, Wrote, Writing
<1>1. ASSUME NEW e \in Entries
      PROVE  MetaKept(e)'
  BY DEF Flights, MetaKept
<1>2. ASSUME NEW e \in Entries, NEW v \in Versions
      PROVE  Origin(e, v)'
  <2>1. Origin(e, v)
    BY DEF Flights
  <2>2. Old(e, v) => Old(e, v)'
    BY DEF Old, Flying
  <2>. QED
    BY <1>0, <2>1, <2>2 DEF Origin, Flying
<1>3. ASSUME NEW r \in Requests
      PROVE  SeenKept(r)' /\ VersionKept(r)' /\ NotListed(r)'
  BY <1>0 DEF Flights, SeenKept, VersionKept, NotListed, Flying
<1>4. ASSUME NEW r \in Requests, NEW q \in Requests
      PROVE  NotRead(r, q)' /\ Apart(r, q)'
  BY <1>0 DEF Flights, NotRead, Apart, Flying
<1>. QED
  BY <1>1, <1>2, <1>3, <1>4 DEF Flights

(* meta.json becomes what the request makes of the copy it read.           *)
LEMMA GateFlights ==
    ASSUME TypeOK, StageOK, Flights, NEW r \in Requests, UploadGate(r),
           \A q \in Requests \ {r} : Undisturbed(q)
    PROVE  Flights'
<1>. USE DEF TypeOK, Goto, Undisturbed
<1>. DEFINE m == IF meta[Entry(r)] = Absent THEN DefaultMeta(r) ELSE meta[Entry(r)]
<1>1. Entry(r) \in Entries
  BY RecordType DEF UploadGate, StageOK, StageOf, HasRecord
<1>2. /\ pc[r] = "gate" /\ pc'[r] \in {"put_version", "409_slug", "412", "304"}
      /\ seen' = [seen EXCEPT ![r] = m]
      /\ UNCHANGED <<stores, call, found>>
  BY DEF UploadGate, Verdict
<1>3. seen'[r] = m
  BY <1>2
<1>4. UNCHANGED <<index, meta, archive, call, found>>
  BY <1>2 DEF stores, document
<1>5. \A v \in Versions : m.versions[v] # Absent =>
          meta[Entry(r)] # Absent /\ meta[Entry(r)].versions[v] = m.versions[v]
  BY DEF DefaultMeta, NoVersions
<1>. HIDE DEF m
<1>6. /\ \A q \in Requests : Entry(q)' = Entry(q)
      /\ \A q \in Requests : pc'[q] \in Wrote => pc[q] \in Wrote /\ q # r
      /\ \A q \in Requests : pc'[q] \in Writing => pc[q] \in Writing /\ q # r
      /\ \A q \in Requests : pc[q] \in Wrote => pc'[q] \in Wrote /\ q # r
      /\ \A q \in Requests \ {r} : pc'[q] = pc[q] /\ seen'[q] = seen[q] /\ ver'[q] = ver[q]
  BY <1>2, <1>4 DEF Entry, Wrote, Writing
<1>7. ASSUME NEW e \in Entries
      PROVE  MetaKept(e)'
  BY <1>4 DEF Flights, MetaKept, Kept
<1>8. ASSUME NEW e \in Entries, NEW v \in Versions
      PROVE  Origin(e, v)'
  <2>1. Origin(e, v)
    BY DEF Flights
  <2>2. ASSUME Old(e, v)
        PROVE  Old(e, v)'
    <3>1. meta[e] # Absent /\ meta[e].versions[v] # Absent
      BY <2>2 DEF Old
    <3>2. Entry(r) = e => m.versions[v] # Absent
      BY <3>1 DEF m
    <3>. QED
      BY <1>3, <1>4, <1>6, <2>2, <3>1, <3>2 DEF Old
  <2>. QED
    BY <1>4, <1>6, <2>1, <2>2 DEF Origin
<1>9. ASSUME NEW q \in Requests
      PROVE  SeenKept(q)' /\ VersionKept(q)' /\ NotListed(q)'
  <2>1. SeenKept(q) /\ VersionKept(q) /\ NotListed(q) /\ MetaKept(Entry(r))
    BY <1>1 DEF Flights
  <2>2. VersionKept(q)' /\ NotListed(q)'
    BY <1>4, <1>6, <2>1 DEF VersionKept, NotListed
  <2>3. CASE q = r
    BY <1>3, <1>4, <1>5, <1>6, <2>1, <2>2, <2>3 DEF SeenKept, MetaKept, Kept
  <2>4. CASE q # r
    BY <1>4, <1>6, <2>1, <2>2, <2>4 DEF SeenKept, Kept
  <2>. QED
    BY <2>3, <2>4
<1>10. ASSUME NEW q \in Requests, NEW s \in Requests
       PROVE  NotRead(q, s)' /\ Apart(q, s)'
  <2>1. NotRead(q, s) /\ Apart(q, s) /\ NotListed(q) /\ VersionKept(q)
    BY DEF Flights
  <2>2. Apart(q, s)'
    BY <1>6, <2>1 DEF Apart
  <2>3. CASE s = r
    <3>. SUFFICES ASSUME pc'[q] \in Writing, Entry(q)' = Entry(r)'
                  PROVE  m.versions[ver'[q]] = Absent
      BY <1>3, <2>2, <2>3 DEF NotRead
    <3>1. pc[q] \in Writing /\ Entry(q) = Entry(r) /\ ver'[q] = ver[q]
      BY <1>6
    <3>2. ver[q] \in Versions
      BY <2>1, <3>1 DEF VersionKept, Wrote
    <3>. QED
      BY <1>5, <2>1, <3>1, <3>2 DEF NotListed
  <2>4. CASE s # r
    BY <1>6, <2>1, <2>2, <2>4 DEF NotRead
  <2>. QED
    BY <2>3, <2>4
<1>. QED
  BY <1>7, <1>8, <1>9, <1>10 DEF Flights

(* The number was free: nothing lists it and nobody else wrote it.         *)
LEMMA VersionFlights ==
    ASSUME TypeOK, StageOK, Flights, NEW r \in Requests, UploadPutVersion(r),
           \A q \in Requests : call[q].content # Absent, \A q \in Requests \ {r} : Undisturbed(q)
    PROVE  Flights'
<1>. USE DEF TypeOK, Goto, Undisturbed
<1>0. PICK e \in Entries : e = Entry(r)
  BY RecordType DEF UploadPutVersion, StageOK, StageOf, HasRecord
<1>1. PICK w \in Versions : w = ver[r]
  BY DEF UploadPutVersion, StageOK, StageOf
<1>2. /\ pc[r] = "put_version" /\ pc'[r] = "put_latest"
      /\ archive[e][w] = Absent
      /\ archive' = [archive EXCEPT ![e][w] = call[r].content]
      /\ UNCHANGED <<meta, call, found, seen, ver>>
  BY <1>0, <1>1 DEF UploadPutVersion, IfNew, document, locals
<1>3. /\ archive'[e][w] = call[r].content
      /\ \A f \in Entries, v \in Versions : f # e \/ v # w => archive'[f][v] = archive[f][v]
  BY <1>2 DEF Listing
<1>4. /\ \A q \in Requests : Entry(q)' = Entry(q)
      /\ \A q \in Requests : pc'[q] \in Past <=> pc[q] \in Past
      /\ \A q \in Requests : pc'[q] \in Wrote <=> pc[q] \in Wrote \/ q = r
      /\ \A q \in Requests : pc'[q] \in Writing <=> pc[q] \in Writing \/ q = r
  BY <1>2 DEF Entry, Past, Wrote, Writing
<1>5. ASSUME NEW f \in Entries, NEW list, Kept(f, list)
      PROVE  Kept(f, list)' /\ (f = e => list[w] = Absent)
  BY <1>2, <1>3, <1>5 DEF Kept
<1>6. ASSUME NEW f \in Entries
      PROVE  MetaKept(f)' /\ (f = e /\ meta[e] # Absent => meta[e].versions[w] = Absent)
  BY <1>2, <1>5 DEF Flights, MetaKept
<1>7. ASSUME NEW f \in Entries, NEW v \in Versions
      PROVE  Origin(f, v)'
  <2>1. Origin(f, v)
    BY DEF Flights
  <2>2. Old(f, v) => Old(f, v)'
    BY <1>2, <1>4 DEF Old
  <2>3. CASE f = e /\ v = w
    BY <1>0, <1>1, <1>2, <1>4, <2>3 DEF Origin
  <2>4. CASE f # e \/ v # w
    BY <1>2, <1>3, <1>4, <2>1, <2>2, <2>4 DEF Origin
  <2>. QED
    BY <2>3, <2>4
<1>8. ASSUME NEW q \in Requests
      PROVE  /\ SeenKept(q)'
             /\ pc[q] \in Past /\ Entry(q) = e => seen[q].versions[w] = Absent
  <2>1. SeenKept(q)
    BY DEF Flights
  <2>2. pc[q] \in Past => Entry(q) \in Entries
    <3>1. StageOf(q) /\ VersionKept(q)
      BY DEF StageOK, Flights
    <3>. QED
      BY <3>1, RecordType DEF Past, Wrote, Writing, StageOf, HasRecord, VersionKept
  <2>3. ASSUME pc[q] \in Past
        PROVE  /\ Kept(Entry(q), seen[q].versions)'
               /\ Entry(q) = e => seen[q].versions[w] = Absent
    <3>1. Kept(Entry(q), seen[q].versions)
      BY <2>1, <2>3 DEF SeenKept
    <3>2. PICK f \in Entries : f = Entry(q)
      BY <2>2, <2>3
    <3>3. PICK list : list = seen[q].versions
      OBVIOUS
    <3>4. Kept(f, list)' /\ (f = e => list[w] = Absent)
      BY <1>5, <3>1, <3>2, <3>3
    <3>. QED
      BY <1>2, <1>4, <3>2, <3>3, <3>4
  <2>. QED
    BY <1>4, <2>3 DEF SeenKept
<1>9. ASSUME NEW q \in Requests
      PROVE  VersionKept(q)' /\ NotListed(q)'
  <2>1. VersionKept(q) /\ NotListed(q)
    BY DEF Flights
  <2>2. CASE q = r
    BY <1>0, <1>1, <1>2, <1>3, <1>4, <1>6, <2>2 DEF VersionKept, NotListed
  <2>3. CASE q # r
    <3>1. ASSUME pc[q] \in Wrote
          PROVE  /\ Entry(q) \in Entries /\ ver[q] \in Versions
                 /\ archive'[Entry(q)][ver[q]] = call[q].content
      <4>1. /\ Entry(q) \in Entries /\ ver[q] \in Versions
            /\ archive[Entry(q)][ver[q]] = call[q].content
        BY <2>1, <3>1 DEF VersionKept
      <4>2. Entry(q) # e \/ ver[q] # w
        BY <1>2, <4>1
      <4>. QED
        BY <1>3, <4>1, <4>2
    <3>. QED
      BY <1>2, <1>4, <2>1, <2>3, <3>1 DEF VersionKept, NotListed
  <2>. QED
    BY <2>2, <2>3
<1>10. ASSUME NEW q \in Requests, NEW s \in Requests
       PROVE  NotRead(q, s)' /\ Apart(q, s)'
  <2>1. NotRead(q, s) /\ Apart(q, s) /\ VersionKept(q) /\ VersionKept(s)
    BY DEF Flights
  <2>2. NotRead(q, s)'
    <3>1. CASE q = r
      BY <1>0, <1>1, <1>2, <1>4, <1>8, <3>1 DEF NotRead
    <3>2. CASE q # r
      BY <1>2, <1>4, <2>1, <3>2 DEF NotRead
    <3>. QED
      BY <3>1, <3>2
  <2>3. \A t \in Requests : pc[t] \in Wrote /\ Entry(t) = e => ver[t] # w
    BY <1>2 DEF Flights, VersionKept
  <2>4. Apart(q, s)'
    BY <1>0, <1>1, <1>2, <1>4, <2>1, <2>3 DEF Apart
  <2>. QED
    BY <2>2, <2>4
<1>. QED
  BY <1>6, <1>7, <1>8, <1>9, <1>10 DEF Flights

LEMMA ListingFlights ==
    ASSUME TypeOK, StageOK, Flights, NEW r \in Requests, UploadPutMeta(r),
           call[r].content # Absent, \A q \in Requests \ {r} : Undisturbed(q)
    PROVE  /\ Flights'
           /\ \A text : Published(text) => Published(text)'
<1>. USE DEF TypeOK, Goto, Undisturbed
<1>0. PICK e \in Entries : e = Entry(r)
  BY RecordType DEF UploadPutMeta, StageOK, StageOf, HasRecord
<1>1. PICK w \in Versions : w = ver[r]
  BY DEF UploadPutMeta, StageOK, StageOf
<1>2. PICK m : m = [seen[r] EXCEPT !.versions[ver[r]] = call[r].content,
                                  !.published = call[r].published,
                                  !.policy = keep[r]]
  OBVIOUS
<1>3. /\ pc[r] = "put_meta" /\ pc'[r] = "200"
      /\ meta' = [meta EXCEPT ![e] = m]
      /\ UNCHANGED <<archive, call, found, seen, ver>>
  BY <1>0, <1>2 DEF UploadPutMeta, WriteMeta, locals
<1>4. seen[r] \in Meta /\ seen[r].versions \in Listing
  BY <1>3, MetaType DEF StageOK, StageOf
<1>5. m.versions = [seen[r].versions EXCEPT ![w] = call[r].content]
  BY <1>1, <1>2, <1>4 DEF Meta
<1>6. /\ m.versions[w] = call[r].content
      /\ \A v \in Versions : v # w => m.versions[v] = seen[r].versions[v]
      /\ m # Absent
  <2>1. m \in Meta
    BY <1>1, <1>2, <1>4, <1>3, CallType DEF StageOK, StageOf, UploadPcs, Meta, Listing
  <2>. QED
    BY <1>4, <1>5, <2>1, CatalogAssumption DEF Listing
<1>7. /\ meta'[e] = m
      /\ \A f \in Entries : f # e => meta'[f] = meta[f]
      /\ \A q \in Requests : Entry(q)' = Entry(q)
      /\ \A q \in Requests : pc'[q] \in Past <=> pc[q] \in Past
      /\ \A q \in Requests : pc'[q] \in Wrote <=> pc[q] \in Wrote
      /\ \A q \in Requests : pc'[q] \in Writing => pc[q] \in Writing /\ q # r
      /\ \A q \in Requests : pc[q] \in {"put_meta", "200"} /\ q # r => pc'[q] = pc[q]
  BY <1>3 DEF Entry, Past, Wrote, Writing
<1>8. /\ Kept(e, seen[r].versions) /\ archive[e][w] = call[r].content
      /\ meta[e] # Absent => meta[e].versions[w] = Absent
      /\ \A q \in Requests : pc[q] \in Past /\ Entry(q) = e => seen[q].versions[w] = Absent
  BY <1>0, <1>1, <1>3 DEF Flights, SeenKept, VersionKept, NotListed, NotRead, Past, Wrote, Writing
<1>9. Kept(e, m.versions)
  BY <1>6, <1>8 DEF Kept
<1>10. ASSUME NEW f \in Entries
       PROVE  MetaKept(f)'
  <2>1. CASE f = e
    BY <1>3, <1>7, <1>9, <2>1 DEF MetaKept, Kept
  <2>2. CASE f # e
    BY <1>3, <1>7, <2>2 DEF Flights, MetaKept, Kept
  <2>. QED
    BY <2>1, <2>2
<1>11. ASSUME NEW f \in Entries, NEW v \in Versions
       PROVE  Origin(f, v)'
  <2>1. Origin(f, v)
    BY DEF Flights
  <2>2. ASSUME Old(f, v)
        PROVE  Old(f, v)'
    <3>1. CASE f = e
      <4>1. seen[r].versions[v] # Absent
        BY <1>0, <1>3, <2>2, <3>1 DEF Old, Past, Writing
      <4>2. v # w
        BY <1>0, <1>3, <1>8, <4>1 DEF Past, Writing
      <4>3. m.versions[v] # Absent
        BY <1>6, <4>1, <4>2
      <4>. QED
        BY <1>3, <1>6, <1>7, <2>2, <3>1, <4>3 DEF Old
    <3>2. CASE f # e
      BY <1>3, <1>7, <2>2, <3>2 DEF Old
    <3>. QED
      BY <3>1, <3>2
  <2>. QED
    BY <1>3, <1>7, <2>1, <2>2 DEF Origin
<1>12. ASSUME NEW q \in Requests
       PROVE  SeenKept(q)' /\ VersionKept(q)' /\ NotListed(q)'
  <2>1. SeenKept(q) /\ VersionKept(q) /\ NotListed(q)
    BY DEF Flights
  <2>2. SeenKept(q)' /\ VersionKept(q)'
    BY <1>3, <1>7, <2>1 DEF SeenKept, VersionKept, Kept
  <2>3. NotListed(q)'
    <3>. SUFFICES ASSUME pc'[q] \in Writing, meta'[Entry(q)] # Absent
                  PROVE  meta'[Entry(q)].versions[ver[q]] = Absent
      BY <1>3, <1>7 DEF NotListed
    <3>1. pc[q] \in Writing /\ q # r /\ Entry(q) \in Entries /\ ver[q] \in Versions
      BY <1>7, <2>1 DEF VersionKept, Wrote
    <3>2. CASE Entry(q) = e
      <4>1. ver[q] # w /\ seen[r].versions[ver[q]] = Absent
        BY <1>0, <1>1, <1>3, <3>1, <3>2 DEF Flights, Apart, NotRead, Past, Wrote, Writing
      <4>. QED
        BY <1>6, <1>7, <3>1, <3>2, <4>1
    <3>3. CASE Entry(q) # e
      BY <1>7, <2>1, <3>1, <3>3 DEF NotListed
    <3>. QED
      BY <3>2, <3>3
  <2>. QED
    BY <2>2, <2>3
<1>13. ASSUME NEW q \in Requests, NEW s \in Requests
       PROVE  NotRead(q, s)' /\ Apart(q, s)'
  BY <1>3, <1>7 DEF Flights, NotRead, Apart
<1>14. Flights'
  BY <1>10, <1>11, <1>12, <1>13 DEF Flights
<1>15. ASSUME NEW text, Published(text)
       PROVE  Published(text)'
  <2>1. CASE InCatalog(text)
    <3>1. PICK f \in Entries, v \in Versions :
             meta[f] # Absent /\ meta[f].versions[v] # Absent /\ meta[f].versions[v].text = text
      BY <2>1 DEF InCatalog, Listed
    <3>2. CASE f # e
      BY <1>7, <3>1, <3>2 DEF Published, InCatalog, Listed
    <3>3. CASE f = e /\ seen[r].versions[v] # Absent
      <4>1. v # w
        BY <1>8, <3>1, <3>3
      <4>2. meta[e].versions[v] = archive[e][v] /\ seen[r].versions[v] = archive[e][v]
        BY <1>8, <3>1, <3>3 DEF Flights, MetaKept, Kept
      <4>3. m.versions[v] # Absent /\ m.versions[v].text = text
        BY <1>6, <3>1, <3>3, <4>1, <4>2
      <4>. QED
        BY <1>6, <1>7, <4>3 DEF Published, InCatalog, Listed
    <3>4. CASE f = e /\ seen[r].versions[v] = Absent
      <4>1. archive[e][v] = meta[e].versions[v]
        BY <3>1, <3>4 DEF Flights, MetaKept, Kept
      <4>2. ~Old(e, v)
        BY <1>0, <1>3, <3>4 DEF Old, Past, Writing
      <4>3. PICK x \in Requests : pc[x] \in Wrote /\ Entry(x) = e /\ ver[x] = v
        BY <3>1, <3>4, <4>1, <4>2 DEF Flights, Origin
      <4>4. pc[x] = "200" /\ call[x].content = archive[e][v]
        BY <3>1, <3>4, <4>3 DEF Flights, NotListed, VersionKept, Wrote
      <4>5. x # r /\ seen[x].versions[w] = Absent
        BY <1>3, <1>8, <4>3, <4>4 DEF Past
      <4>6. Crossed(x, r)'
        BY <1>0, <1>1, <1>3, <1>7, <3>4, <4>3, <4>4, <4>5 DEF Crossed, Listed
      <4>. QED
        BY <1>3, <3>1, <3>4, <4>1, <4>4, <4>6 DEF Published
    <3>. QED
      BY <3>2, <3>3, <3>4
  <2>2. ASSUME NEW x \in Requests, call[x].content.text = text, pc[x] = "put_meta"
        PROVE  Published(text)'
    <3>1. CASE x = r
      BY <1>6, <1>7, <2>2, <3>1 DEF Published, InCatalog, Listed
    <3>2. CASE x # r
      BY <1>3, <1>7, <2>2, <3>2 DEF Published
    <3>. QED
      BY <3>1, <3>2
  <2>3. ASSUME NEW x \in Requests, call[x].content.text = text, NEW q \in Requests, Crossed(x, q)
        PROVE  Published(text)'
    <3>1. Crossed(x, q)'
      BY <1>3, <1>7, <2>3 DEF Crossed
    <3>. QED
      BY <1>3, <2>3, <3>1 DEF Published
  <2>. QED
    BY <1>15, <2>1, <2>2, <2>3 DEF Published
<1>. QED
  BY <1>14, <1>15

(* What has been published stays so while no listing is written.           *)
LEMMA PublishedStays ==
    ASSUME meta' = meta,
           \A r \in Requests :
               \/ pc[r] \notin {"put_meta", "200"}
               \/ /\ pc'[r] = pc[r] /\ call'[r] = call[r] /\ seen'[r] = seen[r]
                  /\ ver'[r] = ver[r] /\ Entry(r)' = Entry(r)
    PROVE  \A text : Published(text) => Published(text)'
<1>1. \A r, q \in Requests : Crossed(r, q) => Crossed(r, q)'
  BY DEF Crossed
<1>2. \A text : InCatalog(text) => InCatalog(text)'
  BY DEF InCatalog
<1>. QED
  BY <1>1, <1>2 DEF Published, Crossed

(* What the handling of an upload does to the catalog.                     *)
LEMMA UploadCatalog ==
    ASSUME TypeOK, StageOK, Catalog, NEW r \in Requests, Upload(r), edgeLatest' = edgeLatest
    PROVE  /\ Catalog'
           /\ \A text : Published(text) => Published(text)'
           /\ index[Anon] # Absent => index'[Anon] = index[Anon]
           /\ call' = call
           /\ \A q \in Requests \ {r} : pc'[q] = pc[q]
           /\ pc[r] # "412"
<1>. USE DEF TypeOK, Goto, stores, document, head, locals
<1>1. call' = call /\ \A q \in Requests \ {r} : Undisturbed(q)
  BY StepFrame DEF Step
<1>2. \A q \in Requests : call[q] \in Call /\ call[q].op = "upload" /\ call[q].content \in Contents
                          /\ call[q].content # Absent
  BY CallType, CatalogAssumption DEF Catalog, UploadBacked
<1>3. Flights /\ StageOf(r)
  BY DEF Catalog, StageOK
<1>4. pc[r] # "412"
  BY DEF Upload, UploadLookupOwn, UploadLookupAnon, UploadReadPolicy, UploadClaim,
         UploadRejectArchive, UploadGate, UploadPutVersion, UploadVersionTaken, UploadPutLatest,
         UploadPutMeta
<1>5. index[Anon] # Absent => index'[Anon] = index[Anon]
  <2>1. CASE UploadClaim(r)
    <3>1. \/ index' = index
          \/ /\ index[call[r].caller] = Absent
             /\ \E rec : index' = [index EXCEPT ![call[r].caller] = rec]
      BY <2>1 DEF UploadClaim, IfNew
    <3>. QED
      BY <3>1 DEF Namespaces
  <2>2. CASE ~UploadClaim(r)
    BY <2>2 DEF Upload, UploadLookupOwn, UploadLookupAnon, UploadReadPolicy, UploadRejectArchive,
         UploadGate, UploadPutVersion, UploadVersionTaken, UploadPutLatest, UploadPutMeta
  <2>. QED
    BY <2>1, <2>2
<1>6. ASSUME ~UploadPutMeta(r)
      PROVE  Flights' /\ \A text : Published(text) => Published(text)'
  <2>1. meta' = meta
    BY <1>6 DEF Upload, UploadLookupOwn, UploadLookupAnon, UploadReadPolicy, UploadClaim,
         UploadRejectArchive, UploadGate, UploadPutVersion, UploadVersionTaken, UploadPutLatest
  <2>2. pc[r] \notin {"put_meta", "200"}
    BY <1>6 DEF Upload, UploadLookupOwn, UploadLookupAnon, UploadReadPolicy, UploadClaim,
         UploadRejectArchive, UploadGate, UploadPutVersion, UploadVersionTaken, UploadPutLatest
  <2>3. \A text : Published(text) => Published(text)'
    <3>1. ASSUME NEW q \in Requests \ {r}
          PROVE  /\ pc'[q] = pc[q] /\ call'[q] = call[q] /\ seen'[q] = seen[q]
                 /\ ver'[q] = ver[q] /\ Entry(q)' = Entry(q)
      BY <1>1 DEF Undisturbed, Entry
    <3>. QED
      BY <2>1, <2>2, <3>1, PublishedStays
  <2>4. Flights'
    <3>1. CASE UploadGate(r)
      BY <1>1, <1>3, <3>1, GateFlights
    <3>2. CASE UploadPutVersion(r)
      BY <1>1, <1>2, <1>3, <3>2, VersionFlights
    <3>3. CASE UploadVersionTaken(r) \/ UploadPutLatest(r)
      <4>1. archive' = archive
        BY <3>3 DEF UploadVersionTaken, UploadPutLatest
      <4>2. Flying(r)
        BY <1>1, <3>3 DEF UploadVersionTaken, UploadPutLatest, Flying, Past, Wrote, Writing, Entry
      <4>3. \A q \in Requests \ {r} : Flying(q)
        BY <1>1 DEF Undisturbed, Flying, Entry
      <4>. QED
        BY <1>3, <2>1, <4>1, <4>2, <4>3, FlightsStay
    <3>4. CASE \/ UploadLookupOwn(r) \/ UploadLookupAnon(r) \/ UploadReadPolicy(r)
               \/ UploadClaim(r) \/ UploadRejectArchive(r)
      <4>1. archive' = archive
        BY <3>4 DEF UploadLookupOwn, UploadLookupAnon, UploadReadPolicy, UploadClaim,
             UploadRejectArchive
      <4>2. pc[r] \notin Past /\ pc'[r] \notin Past
        BY <3>4 DEF UploadLookupOwn, UploadLookupAnon, UploadReadPolicy, UploadClaim,
             UploadRejectArchive, Past, Writing
      <4>3. Flying(r)
        BY <4>2 DEF Flying, Past, Wrote
      <4>4. \A q \in Requests \ {r} : Flying(q)
        BY <1>1 DEF Undisturbed, Flying, Entry
      <4>. QED
        BY <1>3, <2>1, <4>1, <4>3, <4>4, FlightsStay
    <3>. QED
      BY <1>6, <3>1, <3>2, <3>3, <3>4 DEF Upload
  <2>. QED
    BY <2>3, <2>4
<1>7. Flights' /\ \A text : Published(text) => Published(text)'
  BY <1>1, <1>2, <1>3, <1>6, ListingFlights
<1>8. ASSUME NEW q \in Requests
      PROVE  UploadBacked(q)'
  <2>1. UploadBacked(q)
    BY DEF Catalog
  <2>2. CASE q # r \/ pc'[q] \notin {"200", "304"}
    BY <1>1, <1>7, <2>1, <2>2 DEF UploadBacked, Undisturbed
  <2>3. CASE q = r /\ pc'[r] = "200"
    <3>1. UploadPutMeta(r)
      BY <2>3 DEF Upload, UploadLookupOwn, UploadLookupAnon, UploadReadPolicy, UploadClaim,
           UploadRejectArchive, UploadGate, Verdict, UploadPutVersion, UploadVersionTaken, UploadPutLatest
    <3>2. pc[r] = "put_meta"
      BY <3>1 DEF UploadPutMeta
    <3>3. Published(call[r].content.text)
      BY <3>2 DEF Published
    <3>. QED
      BY <1>1, <1>7, <2>1, <2>3, <3>3 DEF UploadBacked
  <2>4. CASE q = r /\ pc'[r] = "304"
    <3>. DEFINE m == IF meta[Entry(r)] = Absent THEN DefaultMeta(r) ELSE meta[Entry(r)]
    <3>1. UploadGate(r)
      BY <2>4 DEF Upload, UploadLookupOwn, UploadLookupAnon, UploadReadPolicy, UploadClaim,
           UploadRejectArchive, UploadPutVersion, UploadVersionTaken, UploadPutLatest, UploadPutMeta
    <3>2. Entry(r) \in Entries
      BY <1>3, <3>1, RecordType DEF UploadGate, StageOf, HasRecord
    <3>3. m \in Meta /\ m.versions \in Listing
      BY <1>2, <3>2, NewMetaType, MetaType
    <3>4. m # DefaultMeta(r) => meta[Entry(r)] = m /\ m # Absent
      OBVIOUS
    <3>5. pc' = [pc EXCEPT ![r] = Verdict(r, LatestEtag(m.versions))]
      BY <3>1 DEF UploadGate
    <3>. HIDE DEF m
    <3>6. LatestEtag(m.versions) = call[r].content
      BY <2>4, <3>5 DEF Verdict
    <3>7. PICK v \in Listed(m.versions) : m.versions[v] = call[r].content
      BY <1>2, <3>3, <3>6, GreatestFact DEF LatestEtag
    <3>8. InCatalog(call[r].content.text)
      BY <3>2, <3>4, <3>7 DEF InCatalog, Listed, DefaultMeta, NoVersions
    <3>. QED
      BY <1>1, <1>7, <2>1, <2>4, <3>8 DEF UploadBacked, Published
  <2>. QED
    BY <2>2, <2>3, <2>4
<1>9. ASSUME NEW e \in Entries
      PROVE  EntryBacked(e)'
  <2>1. EntryBacked(e)
    BY DEF Catalog
  <2>2. CASE latest'[e] = latest[e]
    BY <1>7, <2>1, <2>2 DEF EntryBacked
  <2>3. CASE latest'[e] # latest[e]
    <3>1. UploadPutLatest(r)
      BY <2>3 DEF Upload, UploadLookupOwn, UploadLookupAnon, UploadReadPolicy, UploadClaim,
           UploadRejectArchive, UploadGate, UploadPutVersion, UploadVersionTaken, UploadPutMeta
    <3>2. pc'[r] = "put_meta" /\ latest' = [latest EXCEPT ![Entry(r)] = call[r].content]
      BY <3>1 DEF UploadPutLatest, WriteLatest
    <3>3. latest'[e] = call[r].content
      BY <2>3, <3>2
    <3>4. Published(call[r].content.text)'
      BY <1>1, <3>2 DEF Published
    <3>. QED
      BY <1>1, <1>7, <2>1, <3>3, <3>4 DEF EntryBacked
  <2>. QED
    BY <2>2, <2>3
<1>. QED
  BY <1>1, <1>4, <1>5, <1>7, <1>8, <1>9 DEF Catalog, Undisturbed

-----------------------------------------------------------------------------
(* What the devices hold.                                                  *)

LEMMA Shapes ==
    ASSUME PlanTypeOK
    PROVE  /\ \A d \in Devices :
                 copy[d].text \in Text /\ copy[d].hash \in Text /\ copy[d] \in Copy
                 /\ copy[d].etag \in Contents \cup {Absent}
           /\ \A r \in Requests :
                 /\ Device(r) \in Devices
                 /\ held[r] \in Held /\ held[r].local \in Copy
                 /\ held[r].local.text \in Text /\ held[r].local.hash \in Text
                 /\ held[r].remote \in Text
                 /\ held[r].etag \in Contents \cup {Absent}
           /\ \A c \in Contents : c.text \in Text /\ c # Absent
BY PublishingAssumption, CatalogAssumption DEF PlanTypeOK, Copy, Held, Job, Device

(* A step of request r on its device.                                      *)
Acts(r) ==
    /\ work' = work /\ made' = made /\ hasty' = hasty /\ aside \subseteq aside'
    /\ UNCHANGED <<index, meta, archive, latest, found, seen, ver, edgeLatest>>
    /\ \A q \in Requests \ {r} :
          /\ stage'[q] = stage[q] /\ held'[q] = held[q]
          /\ call'[q] = call[q] /\ pc'[q] = pc[q]
          /\ q \in sent' <=> q \in sent
    /\ \/ pc'[r] = pc[r] /\ call'[r] = call[r] /\ sent' = sent
       \/ pc[r] \in {"lookup_own", "412"} /\ pc'[r] = "lookup_own" /\ call'[r].op = "upload"

LEMMA ActsGrow ==
    ASSUME NEW r \in Requests, Acts(r)
    PROVE  /\ \A text : Published(text) => Published(text)'
           /\ \A x : Safe(x) => Safe(x)'
           /\ \A q \in Requests : Device(q)' = Device(q) /\ Calm(Device(q))' = Calm(Device(q))
           /\ \A d : Calm(d)' = Calm(d)
<1>1. \A q \in Requests : \/ pc[q] \notin {"put_meta", "200"}
                          \/ /\ pc'[q] = pc[q] /\ call'[q] = call[q] /\ seen'[q] = seen[q]
                             /\ ver'[q] = ver[q] /\ Entry(q)' = Entry(q)
  BY DEF Acts, Entry
<1>2. \A text : Published(text) => Published(text)'
  BY <1>1, PublishedStays DEF Acts
<1>3. \A x : Safe(x) => Safe(x)'
  BY <1>2, SafeStays DEF Acts
<1>. QED
  BY <1>2, <1>3 DEF Acts, Device, Calm

LEMMA ActsCatalog ==
    ASSUME Catalog, NEW r \in Requests, Acts(r)
    PROVE  Catalog'
<1>1. \A text : Published(text) => Published(text)'
  BY ActsGrow
<1>2. ASSUME NEW q \in Requests
      PROVE  Flying(q)
  BY DEF Acts, Flying, Past, Wrote, Writing, Entry
<1>3. Flights'
  BY <1>2, FlightsStay DEF Catalog, Acts
<1>4. ASSUME NEW e \in Entries
      PROVE  EntryBacked(e)'
  BY <1>1 DEF Catalog, EntryBacked, Acts
<1>5. ASSUME NEW q \in Requests
      PROVE  UploadBacked(q)'
  BY <1>1 DEF Catalog, UploadBacked, Acts
<1>. QED
  BY <1>3, <1>4, <1>5 DEF Catalog

LEMMA OthersHeld ==
    ASSUME NEW r \in Requests, Acts(r), NEW q \in Requests \ {r}, HeldOK(q)
    PROVE  HeldOK(q)'
<1>1. /\ \A text : Published(text) => Published(text)'
      /\ \A x : Safe(x) => Safe(x)'
      /\ Device(q)' = Device(q) /\ Calm(Device(q))' = Calm(Device(q))
  BY ActsGrow
<1>2. /\ stage'[q] = stage[q] /\ held'[q] = held[q] /\ call'[q] = call[q] /\ pc'[q] = pc[q]
      /\ index' = index /\ (q \in sent' <=> q \in sent)
  BY DEF Acts
<1>. QED
  BY <1>1, <1>2 DEF HeldOK

LEMMA CopyStays ==
    ASSUME NEW r \in Requests, Acts(r), NEW d \in Devices, CopyOK(d), copy'[d] = copy[d]
    PROVE  CopyOK(d)'
<1>1. /\ \A text : Published(text) => Published(text)'
      /\ \A x : Safe(x) => Safe(x)'
      /\ Calm(d)' = Calm(d)
  BY ActsGrow
<1>. QED
  BY <1>1 DEF CopyOK

LEMMA CatalogStays ==
    ASSUME Catalog, UNCHANGED <<stores, pc, locals>>, edgeLatest' = edgeLatest
    PROVE  /\ Catalog'
           /\ \A text : Published(text)' <=> Published(text)
<1>1. UNCHANGED <<meta, archive, latest, pc, call, found, seen, ver>>
  BY DEF stores, document, head, locals
<1>2. \A text : Published(text)' <=> Published(text)
  BY <1>1 DEF Published, InCatalog, Crossed, Entry
<1>3. \A q \in Requests : Flying(q)
  BY <1>1 DEF Flying, Entry
<1>4. Flights'
  BY <1>1, <1>3, FlightsStay DEF Catalog
<1>. QED
  BY <1>1, <1>2, <1>4 DEF Catalog, EntryBacked, UploadBacked

(* A step that only moves request r on its device.                         *)
LEMMA QuietStep ==
    ASSUME PlanInv, NEW r \in Requests,
           UNCHANGED <<vars, copy, work, sent, held, edge, history>>,
           NEW to \in Stages, stage' = [stage EXCEPT ![r] = to],
           \/ to = "ended"
           \/ to = "conflict" /\ pc[r] = "412"
           \/ to \in {"head_read", "get_meta"} /\ index[Anon] # Absent /\ stage[r] \in Reading
           \/ to = "get_find" /\ stage[r] \in Reading
    PROVE  PlanInv'
<1>. USE DEF PlanInv
<1>0. UNCHANGED <<stores, pc, locals>>
  BY DEF vars
<1>1. PlanTypeOK' /\ StageOK'
  BY <1>0 DEF PlanTypeOK, TypeOK, StageOK, StageOf, Remaining, stores, document, head, locals, edge, history
<1>2. Catalog'
  BY <1>0, CatalogStays DEF edge
<1>3. Acts(r)
  BY <1>0 DEF Acts, PlanTypeOK, history, stores, document, head, locals, edge
<1>4. \A q \in Requests \ {r} : HeldOK(q)'
  BY <1>3, OthersHeld
<1>5. HeldOK(r)'
  <2>1. stage'[r] = to /\ held'[r] = held[r] /\ Device(r)' = Device(r) /\ index' = index
    BY <1>0 DEF PlanTypeOK, Device, stores
  <2>2. /\ \A text : Published(text) => Published(text)'
        /\ \A x : Safe(x) => Safe(x)'
        /\ \A d : Calm(d)' = Calm(d)
    BY <1>3, ActsGrow
  <2>3. HeldOK(r) /\ sent' = sent /\ pc' = pc /\ call' = call
    BY <1>0 DEF locals
  <2>4. Calm(Device(r))' = Calm(Device(r))
    BY <2>1, <2>2 DEF Calm, history
  <2>. QED
    BY <2>1, <2>2, <2>3, <2>4 DEF HeldOK, Sending, Reading, Saving, Unsent
<1>6. \A d \in Devices : CopyOK(d)'
  BY <1>3, CopyStays
<1>. QED
  BY <1>1, <1>2, <1>4, <1>5, <1>6

(* A step of request r on its device that sends nothing.                   *)
Local(r) ==
    /\ UNCHANGED <<vars, work, sent, edge, made, hasty>>
    /\ aside \subseteq aside'
    /\ \A q \in Requests \ {r} : stage'[q] = stage[q] /\ held'[q] = held[q]
    /\ \A d \in Devices : d # Device(r) => copy'[d] = copy[d]

LEMMA LocalFacts ==
    ASSUME NEW r \in Requests, Local(r)
    PROVE  /\ Acts(r)
           /\ \A text : Published(text)' <=> Published(text)
           /\ \A x : Safe(x) => Safe(x)'
           /\ Device(r)' = Device(r) /\ Calm(Device(r))' = Calm(Device(r))
           /\ index' = index /\ call' = call /\ sent' = sent /\ pc' = pc
<1>1. UNCHANGED <<stores, pc, locals, edge>>
  BY DEF Local, vars
<1>2. Acts(r)
  BY <1>1 DEF Local, Acts, stores, document, head, locals, edge
<1>3. \A text : Published(text)' <=> Published(text)
  BY <1>1 DEF Published, InCatalog, Crossed, Entry, stores, document, locals
<1>4. \A x : Safe(x) => Safe(x)'
  BY <1>2, ActsGrow
<1>. QED
  BY <1>1, <1>2, <1>3, <1>4 DEF Local, Device, Calm, stores, locals

LEMMA LocalStep ==
    ASSUME PlanInv, NEW r \in Requests, Local(r), PlanTypeOK', HeldOK(r)',
           NEW d \in Devices, d = Device(r), CopyOK(d)'
    PROVE  PlanInv'
<1>. USE DEF PlanInv
<1>0. UNCHANGED <<stores, pc, locals, edge>>
  BY DEF Local, vars
<1>1. StageOK'
  BY <1>0 DEF StageOK, StageOf, Remaining, stores, document, head, locals
<1>2. Catalog'
  BY <1>0, CatalogStays DEF edge
<1>3. Acts(r)
  BY LocalFacts
<1>4. \A q \in Requests : HeldOK(q)'
  BY <1>3, OthersHeld
<1>5. \A c \in Devices : CopyOK(c)'
  <2>. TAKE c \in Devices
  <2>1. CASE c = d
    BY <2>1
  <2>2. CASE c # d
    BY <1>3, <2>2, CopyStays DEF Local
  <2>. QED
    BY <2>1, <2>2
<1>. QED
  BY <1>1, <1>2, <1>4, <1>5

(* What a request loads holds the calm edits of its device.                *)
LEMMA LoadStep ==
    ASSUME PlanInv, NEW r \in Requests, LoadForRefresh(r)
    PROVE  PlanInv'
<1>. USE DEF PlanInv
<1>0. PICK d \in Devices : d = Device(r)
  BY Shapes
<1>1. /\ held' = [held EXCEPT ![r].local = copy[d]]
      /\ stage' = [stage EXCEPT ![r] = IF copy[d].etag = Absent THEN "ended" ELSE "head_find"]
      /\ UNCHANGED <<vars, copy, work, sent, edge, history>>
  BY <1>0 DEF LoadForRefresh, Mine
<1>2. PlanTypeOK'
  <2>1. held' \in [Requests -> Held]
    BY <1>1, Shapes DEF PlanTypeOK, Held
  <2>2. stage' \in [Requests -> Stages]
    BY <1>1 DEF PlanTypeOK, Stages, Reading
  <2>. QED
    BY <1>1, <2>1, <2>2 DEF PlanTypeOK, TypeOK, vars, stores, document, head, locals, edge, history
<1>3. Local(r)
  BY <1>1 DEF Local, PlanTypeOK, history
<1>4. CopyOK(d)'
  BY <1>1, <1>3, LocalFacts, CopyStays
<1>5. HeldOK(r)'
  <2>1. /\ held'[r].local = copy[d]
        /\ stage'[r] \in {"ended", "head_find"}
        /\ stage'[r] = "head_find" => copy[d].etag # Absent
    BY <1>1, Shapes DEF PlanTypeOK, Held
  <2>2. CopyOK(d) /\ HeldOK(r) /\ stage[r] \in {"idle", "conflict"}
    BY DEF LoadForRefresh
  <2>. QED
    BY <1>0, <1>3, <2>1, <2>2, LocalFacts DEF HeldOK, CopyOK, Sending, Reading, Saving, Unsent
<1>. QED
  BY <1>0, <1>2, <1>3, <1>4, <1>5, LocalStep

LEMMA GetMetaStep ==
    ASSUME PlanInv, NEW r \in Requests, GetMeta(r)
    PROVE  PlanInv'
<1>. USE DEF PlanInv
<1>0. PICK d \in Devices : d = Device(r)
  BY Shapes
<1>1. /\ stage[r] = "get_meta" /\ stage' = [stage EXCEPT ![r] = "get_bytes"]
      /\ held' = [held EXCEPT ![r].etag = edgeMeta[BareEntry]]
      /\ UNCHANGED <<vars, copy, work, sent, edge, history>>
  BY DEF GetMeta, Enter
<1>2. PlanTypeOK'
  <2>1. index[Anon] # Absent
    BY <1>1 DEF HeldOK
  <2>2. edgeMeta[BareEntry] \in Contents \cup {Absent}
    BY <2>1 DEF BareEntry, PlanTypeOK, TypeOK, Record, Namespaces
  <2>3. held' \in [Requests -> Held]
    BY <1>1, <2>2, Shapes DEF PlanTypeOK, Held
  <2>. QED
    BY <1>1, <2>3 DEF PlanTypeOK, Stages, Reading, TypeOK, vars, stores, document, head, locals, edge, history
<1>3. Local(r)
  BY <1>1 DEF Local, PlanTypeOK, history
<1>4. CopyOK(d)'
  BY <1>1, <1>3, LocalFacts, CopyStays
<1>5. HeldOK(r)'
  <2>1. held'[r].local = held[r].local /\ stage'[r] = "get_bytes" /\ HeldOK(r)
    BY <1>1, Shapes DEF PlanTypeOK, Held
  <2>. QED
    BY <1>1, <1>3, <2>1, LocalFacts DEF HeldOK, Sending, Reading, Saving, Unsent
<1>. QED
  BY <1>0, <1>2, <1>3, <1>4, <1>5, LocalStep

(* The shell is replaced by what a version of the catalog holds, or by     *)
(* what the request loaded: the edits lost from the copy are safe.         *)
LEMMA ShellStep ==
    ASSUME PlanInv, NEW r \in Requests, Local(r), NEW d \in Devices, d = Device(r),
           NEW text \in Text, NEW e \in Contents \cup {Absent}, NEW h \in Text,
           SavePlanShell(d, text, e, h), e # Absent => Published(h),
           \A x \in Calm(d) \cap ShellEdits : Safe(x)' \/ x \in text
    PROVE  copy' \in [Devices -> Copy] /\ CopyOK(d)'
<1>. USE DEF PlanInv
<1>. DEFINE new == (copy[d].text \ ShellEdits) \cup (text \cap ShellEdits)
<1>1. new \in Text
  BY Shapes DEF Text
<1>2. copy' = [copy EXCEPT ![d] = [text |-> new, etag |-> e, hash |-> h]]
  BY DEF SavePlanShell, PlanTypeOK
<1>3. copy'[d] = [text |-> new, etag |-> e, hash |-> h]
  BY <1>2 DEF PlanTypeOK
<1>4. copy' \in [Devices -> Copy]
  BY <1>1, <1>2 DEF PlanTypeOK, Copy
<1>5. \A x \in Calm(d) : Safe(x)' \/ x \in new
  <2>. TAKE x \in Calm(d)
  <2>1. Safe(x) \/ x \in copy[d].text
    BY DEF CopyOK
  <2>. QED
    BY <2>1, LocalFacts
<1>6. Calm(d)' = Calm(d)
  BY LocalFacts, ActsGrow
<1>. QED
  BY <1>3, <1>4, <1>5, <1>6, LocalFacts DEF CopyOK

LEMMA LocalType ==
    ASSUME PlanTypeOK, NEW r \in Requests, Local(r), copy' \in [Devices -> Copy],
           held' \in [Requests -> Held], stage' \in [Requests -> Stages], aside' \subseteq Edits
    PROVE  PlanTypeOK'
BY DEF PlanTypeOK, TypeOK, Local, vars, stores, document, head, locals, edge

LEMMA GetBytesStep ==
    ASSUME PlanInv, NEW r \in Requests, GetBytes(r)
    PROVE  PlanInv'
<1>. USE DEF PlanInv
<1>. DEFINE bytes == edgeLatest[BareEntry]
            tag == IF held[r].etag = Absent THEN bytes ELSE held[r].etag
<1>0. PICK d \in Devices : d = Device(r)
  BY Shapes
<1>1. /\ stage[r] = "get_bytes" /\ UNCHANGED <<vars, work, sent, edge, history>>
      /\ HeldOK(r) /\ CopyOK(d)
  BY DEF GetBytes, Enter
<1>2. BareEntry \in Entries
  BY <1>1 DEF HeldOK, BareEntry, PlanTypeOK, TypeOK, Record, Namespaces
<1>3. CASE bytes = Absent
  <2>1. /\ stage' = [stage EXCEPT ![r] = "ended"]
        /\ UNCHANGED <<vars, copy, work, sent, held, edge, history>>
    BY <1>3 DEF GetBytes, Enter
  <2>. QED
    BY <2>1, QuietStep DEF Stages
<1>4. CASE bytes # Absent
  <2>1. bytes \in Contents /\ tag \in Contents /\ bytes.text \in Text
    BY <1>2, <1>4, Shapes DEF PlanTypeOK
  <2>2. Published(bytes.text)
    <3>1. EntryBacked(BareEntry)
      BY <1>2 DEF Catalog
    <3>. QED
      BY <1>4, <3>1 DEF EntryBacked
  <2>3. held' = [held EXCEPT ![r].remote = bytes.text, ![r].etag = tag]
    BY <1>4 DEF GetBytes
  <2>4. held' \in [Requests -> Held]
    BY <2>1, <2>3, Shapes DEF PlanTypeOK, Held
  <2>5. held'[r].local = held[r].local /\ held'[r].remote = bytes.text
    BY <2>3, Shapes DEF PlanTypeOK, Held
  <2>. HIDE DEF bytes, tag
  <2>6. CASE hasLocalChanges(r)
    <3>1. stage' = [stage EXCEPT ![r] = "dialog"] /\ copy' = copy
      BY <1>4, <2>6 DEF GetBytes, Enter, bytes
    <3>2. Local(r)
      BY <1>1, <2>3, <3>1 DEF Local, PlanTypeOK, history
    <3>3. PlanTypeOK'
      BY <1>1, <2>4, <3>1, <3>2, LocalType DEF PlanTypeOK, Stages, Saving, history
    <3>4. CopyOK(d)'
      BY <1>1, <3>1, <3>2, LocalFacts, CopyStays
    <3>5. HeldOK(r)'
      <4>1. stage'[r] = "dialog"
        BY <3>1 DEF PlanTypeOK
      <4>. QED
        BY <1>1, <2>2, <2>5, <3>2, <4>1, LocalFacts DEF HeldOK, Sending, Reading, Saving, Unsent
    <3>. QED
      BY <1>0, <3>2, <3>3, <3>4, <3>5, LocalStep
  <2>7. CASE ~hasLocalChanges(r)
    <3>1. stage' = [stage EXCEPT ![r] = "save_nested"] /\ SavePlanShell(d, bytes.text, tag, bytes.text)
      BY <1>0, <1>4, <2>7 DEF GetBytes, Enter, bytes, tag
    <3>2. Local(r)
      BY <1>0, <1>1, <2>3, <3>1 DEF Local, PlanTypeOK, history, SavePlanShell
    <3>3. \A x \in Calm(d) : Safe(x)
      <4>1. held[r].local.text \in Text /\ Published(held[r].local.text)
        BY <1>1, <2>7, Shapes DEF HeldOK, hasLocalChanges, Reading
      <4>2. \A x \in Calm(d) : Safe(x) \/ x \in held[r].local.text
        BY <1>0, <1>1 DEF HeldOK, Reading
      <4>. QED
        BY <4>1, <4>2, PublishedIsSafe
    <3>. PICK text \in Text, t \in Contents : text = bytes.text /\ t = tag
      BY <2>1
    <3>4. \A x \in Calm(d) : Safe(x)'
      BY <3>2, <3>3, LocalFacts
    <3>5. SavePlanShell(d, text, t, text) /\ Published(text)
      BY <2>2, <3>1
    <3>6. copy' \in [Devices -> Copy] /\ CopyOK(d)'
      BY <1>0, <3>2, <3>5, <3>4, ShellStep
    <3>7. PlanTypeOK'
      BY <1>1, <2>4, <3>1, <3>2, <3>6, LocalType DEF PlanTypeOK, Stages, Saving, history
    <3>8. HeldOK(r)'
      <4>1. stage'[r] = "save_nested"
        BY <3>1 DEF PlanTypeOK
      <4>2. \A x \in Calm(Device(r))' : Safe(x)'
        BY <1>0, <3>2, <3>3, LocalFacts
      <4>. QED
        BY <1>1, <2>2, <2>5, <3>2, <4>1, <4>2, LocalFacts DEF HeldOK, Sending, Reading, Saving, Unsent
    <3>. QED
      BY <1>0, <3>2, <3>6, <3>7, <3>8, LocalStep
  <2>. QED
    BY <2>6, <2>7
<1>. QED
  BY <1>3, <1>4

(* The nested records are replaced when every calm edit is safe already.   *)
LEMMA SaveNestedStep ==
    ASSUME PlanInv, NEW r \in Requests, SaveNested(r)
    PROVE  PlanInv'
<1>. USE DEF PlanInv
<1>0. PICK d \in Devices : d = Device(r)
  BY Shapes
<1>1. PICK new \in Text, to \in {"add_nested", "ended"} :
        /\ stage[r] \in Saving /\ stage' = [stage EXCEPT ![r] = to]
        /\ copy' = [copy EXCEPT ![d].text = new]
        /\ UNCHANGED <<vars, work, sent, held, edge, history>>
  <2>1. CASE Enter(r, "save_nested", "add_nested") /\ RemoveNested(Device(r))
    <3>1. copy[d].text \cap ShellEdits \in Text
      BY Shapes DEF Text
    <3>2. copy' = [copy EXCEPT ![d].text = copy[d].text \cap ShellEdits]
      BY <1>0, <2>1 DEF RemoveNested
    <3>. QED
      BY <2>1, <3>1, <3>2 DEF SaveNested, Enter, Saving
  <2>2. CASE Enter(r, "add_nested", "ended") /\ AddNested(Device(r), held[r].remote)
    <3>1. PICK left \in SUBSET (copy[d].text \ ShellEdits) :
             copy' = [copy EXCEPT ![d].text = (@ \cap ShellEdits) \cup left
                                               \cup (held[r].remote \ ShellEdits)]
      BY <1>0, <2>2 DEF AddNested
    <3>2. (copy[d].text \cap ShellEdits) \cup left \cup (held[r].remote \ ShellEdits) \in Text
      BY Shapes DEF Text
    <3>. QED
      BY <2>2, <3>1, <3>2 DEF SaveNested, Enter, Saving
  <2>. QED
    BY <2>1, <2>2 DEF SaveNested
<1>2. HeldOK(r) /\ CopyOK(d)
  OBVIOUS
<1>3. Local(r)
  BY <1>0, <1>1 DEF Local, PlanTypeOK, history
<1>4. copy' \in [Devices -> Copy] /\ copy'[d].etag = copy[d].etag /\ copy'[d].hash = copy[d].hash
  BY <1>1, Shapes DEF PlanTypeOK, Copy
<1>5. PlanTypeOK'
  BY <1>1, <1>3, <1>4, LocalType DEF PlanTypeOK, Stages, Saving, history
<1>6. CopyOK(d)'
  <2>1. \A x \in Calm(d)' : Safe(x)'
    BY <1>0, <1>1, <1>2, <1>3, LocalFacts, ActsGrow DEF HeldOK
  <2>. QED
    BY <1>2, <1>3, <1>4, <2>1, LocalFacts DEF CopyOK
<1>7. HeldOK(r)'
  <2>1. stage'[r] = to /\ held'[r] = held[r]
    BY <1>1 DEF PlanTypeOK
  <2>. QED
    BY <1>1, <1>2, <1>3, <2>1, LocalFacts DEF HeldOK, Sending, Reading, Saving, Unsent
<1>. QED
  BY <1>0, <1>3, <1>5, <1>6, <1>7, LocalStep

LEMMA OverwriteLocalStep ==
    ASSUME PlanInv, NEW r \in Requests, OverwriteLocal(r)
    PROVE  PlanInv'
<1>. USE DEF PlanInv
<1>0. PICK d \in Devices : d = Device(r)
  BY Shapes
<1>1. /\ stage[r] = "dialog" /\ stage' = [stage EXCEPT ![r] = "save_nested"]
      /\ SavePlanShell(d, held[r].remote, held[r].etag, held[r].remote)
      /\ aside' = aside \cup (held[r].local.text \ held[r].remote)
      /\ UNCHANGED <<vars, work, sent, held, edge, made, hasty>>
      /\ HeldOK(r) /\ CopyOK(d)
  BY <1>0 DEF OverwriteLocal, Enter
<1>2. Local(r)
  BY <1>0, <1>1 DEF Local, PlanTypeOK, SavePlanShell
<1>3. held[r].remote \in Text /\ Published(held[r].remote) /\ held[r].local.text \subseteq Edits
  BY <1>1, Shapes DEF HeldOK, Text
<1>4. \A x \in Calm(d) : Safe(x)'
  <2>. TAKE x \in Calm(d)
  <2>1. CASE Safe(x)
    BY <1>2, <2>1, LocalFacts
  <2>2. CASE x \in held[r].remote
    BY <1>2, <1>3, <2>2, PublishedIsSafe, LocalFacts
  <2>3. CASE x \in held[r].local.text \ held[r].remote
    BY <1>1, <2>3 DEF Safe
  <2>. QED
    BY <1>0, <1>1, <2>1, <2>2, <2>3 DEF HeldOK
<1>5. copy' \in [Devices -> Copy] /\ CopyOK(d)'
  <2>1. PICK text \in Text, t \in Contents \cup {Absent} :
            text = held[r].remote /\ t = held[r].etag
    BY Shapes
  <2>2. SavePlanShell(d, text, t, text) /\ Published(text)
    BY <1>1, <1>3, <2>1
  <2>. QED
    BY <1>0, <1>2, <1>4, <2>2, ShellStep
<1>6. PlanTypeOK'
  BY <1>1, <1>2, <1>3, <1>5, LocalType DEF PlanTypeOK, Stages, Saving
<1>7. HeldOK(r)'
  <2>1. stage'[r] = "save_nested" /\ held'[r] = held[r]
    BY <1>1 DEF PlanTypeOK
  <2>2. \A x \in Calm(Device(r))' : Safe(x)'
    BY <1>0, <1>2, <1>4, LocalFacts
  <2>. QED
    BY <1>1, <1>2, <2>1, <2>2, LocalFacts DEF HeldOK, Sending, Reading, Saving, Unsent
<1>. QED
  BY <1>0, <1>2, <1>5, <1>6, <1>7, LocalStep

LEMMA ForkStep ==
    ASSUME PlanInv, NEW r \in Requests, ForkAsLocal(r)
    PROVE  PlanInv'
<1>. USE DEF PlanInv
<1>0. PICK d \in Devices : d = Device(r)
  BY Shapes
<1>1. /\ stage' = [stage EXCEPT ![r] = "ended"]
      /\ aside' = aside \cup held[r].local.text
      /\ UNCHANGED <<vars, copy, work, sent, held, edge, made, hasty>>
      /\ HeldOK(r) /\ CopyOK(d)
  BY DEF ForkAsLocal, Enter
<1>2. Local(r)
  BY <1>1 DEF Local, PlanTypeOK
<1>3. PlanTypeOK'
  BY <1>1, <1>2, LocalType, Shapes DEF PlanTypeOK, Stages, Saving, Text
<1>4. CopyOK(d)'
  BY <1>1, <1>2, LocalFacts, CopyStays
<1>5. HeldOK(r)'
  <2>1. stage'[r] = "ended" /\ held'[r] = held[r]
    BY <1>1 DEF PlanTypeOK
  <2>. QED
    BY <1>1, <1>2, <2>1, LocalFacts DEF HeldOK, Sending, Reading, Saving, Unsent
<1>. QED
  BY <1>0, <1>2, <1>3, <1>4, <1>5, LocalStep

(* The answer of the upload is written back: what was sent is a version.   *)
LEMMA PublishSavedStep ==
    ASSUME PlanInv, NEW r \in Requests, PublishSaved(r)
    PROVE  PlanInv'
<1>. USE DEF PlanInv
<1>0. PICK d \in Devices : d = Device(r)
  BY Shapes
<1>1. /\ stage[r] \in Sending /\ pc[r] \in {"200", "304"}
      /\ stage' = [stage EXCEPT ![r] = "ended"]
      /\ SavePlanShell(d, held[r].local.text, call[r].content, held[r].local.text)
      /\ UNCHANGED <<vars, work, sent, held, edge, history>>
      /\ HeldOK(r) /\ CopyOK(d) /\ UploadBacked(r)
  BY <1>0 DEF PublishSaved, Catalog
<1>2. Local(r)
  BY <1>0, <1>1 DEF Local, PlanTypeOK, history, SavePlanShell
<1>3. held[r].local.text \in Text /\ call[r].content \in Contents
  BY <1>1, Shapes, CallType DEF PlanTypeOK, TypeOK, UploadBacked
<1>4. Published(held[r].local.text)
  BY <1>1 DEF HeldOK, UploadBacked
<1>5. \A x \in Calm(d) \cap ShellEdits : Safe(x)' \/ x \in held[r].local.text
  BY <1>0, <1>1, <1>2, LocalFacts DEF HeldOK
<1>6. copy' \in [Devices -> Copy] /\ CopyOK(d)'
  BY <1>0, <1>1, <1>2, <1>3, <1>4, <1>5, ShellStep
<1>7. PlanTypeOK'
  BY <1>1, <1>2, <1>6, LocalType DEF PlanTypeOK, Stages, Saving, history
<1>8. HeldOK(r)'
  <2>1. stage'[r] = "ended" /\ held'[r] = held[r]
    BY <1>1 DEF PlanTypeOK
  <2>. QED
    BY <1>1, <1>2, <2>1, LocalFacts DEF HeldOK, Sending, Reading, Saving, Unsent
<1>. QED
  BY <1>0, <1>2, <1>6, <1>7, <1>8, LocalStep

LEMMA SendStep ==
    ASSUME PlanInv, NEW r \in Requests, NEW text \in Text,
           NEW ifMatch \in Contents \cup {Absent}, Send(r, text, ifMatch),
           UNCHANGED <<copy, work, edge, history>>, stage[r] \in Unsent,
           NEW to \in Sending, stage' = [stage EXCEPT ![r] = to],
           held' \in [Requests -> Held], \A q \in Requests \ {r} : held'[q] = held[q],
           held'[r].local.text = text,
           held'[r].local.etag # Absent => Published(held'[r].local.hash),
           \A x \in Calm(Device(r)) \cap ShellEdits : Safe(x) \/ x \in text
    PROVE  PlanInv'
<1>. USE DEF PlanInv
<1>1. PICK t \in Stamps :
        /\ call' = [call EXCEPT ![r].content = Archive(text, t), ![r].ifMatch = ifMatch,
                                ![r].published = TRUE]
        /\ pc' = [pc EXCEPT ![r] = "lookup_own"]
        /\ sent' = sent \cup {r}
        /\ UNCHANGED <<stores, found, seen, etag, buf, ver, keep, doomed>>
  BY DEF Send
<1>2. Archive(text, t) \in Contents /\ Archive(text, t).text = text
  BY PublishingAssumption DEF Archive
<1>3. call[r] \in Call /\ call[r].op = "upload"
  BY DEF PlanTypeOK, TypeOK, Catalog, UploadBacked
<1>. DEFINE c == [call[r] EXCEPT !.content = Archive(text, t), !.ifMatch = ifMatch, !.published = TRUE]
<1>4. c \in Params /\ c.op = "upload" /\ c.content = Archive(text, t) /\ c.policy = call[r].policy
  BY <1>2, <1>3 DEF Call, Params
<1>5. c \in Call
  BY <1>2, <1>3, <1>4, CatalogAssumption DEF Call
<1>6. call' = [call EXCEPT ![r] = c]
  BY <1>1 DEF PlanTypeOK, TypeOK
<1>. HIDE DEF c
<1>7. /\ call'[r] = c /\ pc'[r] = "lookup_own" /\ stage'[r] = to
      /\ \A q \in Requests \ {r} : call'[q] = call[q] /\ pc'[q] = pc[q] /\ stage'[q] = stage[q]
      /\ stage' \in [Requests -> Stages]
  BY <1>1, <1>6 DEF PlanTypeOK, TypeOK, Stages
<1>8. PlanTypeOK'
  <2>1. call' \in [Requests -> Call] /\ pc' \in [Requests -> Pcs]
    <3>1. pc' = [pc EXCEPT ![r] = "lookup_own"]
      BY <1>1
    <3>. QED
      BY <1>5, <1>6, <3>1 DEF PlanTypeOK, TypeOK, Pcs, UploadPcs
  <2>2. TypeOK'
    BY <1>1, <2>1 DEF PlanTypeOK, TypeOK, stores, document, head
  <2>. QED
    BY <1>1, <1>7, <2>2 DEF PlanTypeOK, edge, history
<1>9. StageOK'
  <2>. SUFFICES ASSUME NEW q \in Requests
                PROVE  StageOf(q)'
    BY DEF StageOK
  <2>1. CASE q = r
    BY <1>4, <1>7, <2>1 DEF StageOf, HasRecord, UploadPcs, TogglePcs, PolicyPcs, DeletePcs,
         RecomputePcs, LastPcs, SweepPcs
  <2>2. CASE q # r
    BY <1>1, <1>7, <2>2 DEF StageOK, StageOf, Remaining
  <2>. QED
    BY <2>1, <2>2
<1>10. Acts(r)
  <2>1. pc[r] \in {"lookup_own", "412"}
    BY DEF HeldOK
  <2>2. \A q \in Requests \ {r} : q \in sent' <=> q \in sent
    BY <1>1
  <2>. QED
    BY <1>1, <1>4, <1>7, <2>1, <2>2 DEF Acts, history, stores, document, head, edge
<1>11. Catalog'
  BY <1>10, ActsCatalog
<1>12. \A q \in Requests \ {r} : HeldOK(q)'
  BY <1>10, OthersHeld
<1>13. HeldOK(r)'
  <2>1. /\ \A tt : Published(tt) => Published(tt)'
        /\ \A x : Safe(x) => Safe(x)'
        /\ Calm(Device(r))' = Calm(Device(r))
    BY <1>10, ActsGrow
  <2>2. r \in sent' /\ call'[r].content.text = text
    BY <1>1, <1>2, <1>4, <1>7
  <2>3. held'[r].local.etag # Absent => Published(held[r].local.hash)'
    <3>1. PICK h : h = held'[r].local.hash
      OBVIOUS
    <3>2. held'[r].local.etag # Absent => Published(h)'
      BY <2>1, <3>1
    <3>. QED
      BY <3>1, <3>2
  <2>. QED
    BY <1>7, <2>1, <2>2, <2>3 DEF HeldOK, Sending, Reading, Saving, Unsent
<1>14. \A d \in Devices : CopyOK(d)'
  BY <1>10, CopyStays
<1>. QED
  BY <1>8, <1>9, <1>11, <1>12, <1>13, <1>14

LEMMA PublishPlanStep ==
    ASSUME PlanInv, NEW r \in Requests, PublishPlan(r)
    PROVE  PlanInv'
<1>. USE DEF PlanInv
<1>0. PICK d \in Devices : d = Device(r)
  BY Shapes
<1>1. /\ stage' = [stage EXCEPT ![r] = "publishing"]
      /\ held' = [held EXCEPT ![r].local = copy[d]]
      /\ Send(r, copy[d].text, copy[d].etag)
      /\ UNCHANGED <<copy, work, edge, history>>
  BY <1>0 DEF PublishPlan, Enter, Mine
<1>2. held' \in [Requests -> Held]
  BY <1>1, Shapes DEF PlanTypeOK, Held
<1>3. /\ held'[r].local = copy[d]
      /\ \A q \in Requests \ {r} : held'[q] = held[q]
  BY <1>1, Shapes DEF PlanTypeOK, Held
<1>4. CopyOK(d)
  OBVIOUS
<1>5. copy[d].text \in Text /\ copy[d].etag \in Contents \cup {Absent}
  BY Shapes
<1>6. stage[r] \in Unsent
  BY DEF PublishPlan, Enter, Unsent
<1>. QED
  BY <1>0, <1>1, <1>2, <1>3, <1>4, <1>5, <1>6, SendStep DEF CopyOK, Sending

LEMMA PublishMyChangesStep ==
    ASSUME PlanInv, NEW r \in Requests, PublishMyChanges(r)
    PROVE  PlanInv'
<1>. USE DEF PlanInv
<1>1. /\ stage[r] = "dialog" /\ stage' = [stage EXCEPT ![r] = "republishing"]
      /\ Send(r, held[r].local.text, held[r].etag)
      /\ UNCHANGED <<copy, work, held, edge, history>>
      /\ HeldOK(r)
  BY DEF PublishMyChanges, Enter
<1>2. held[r].local.text \in Text /\ held[r].etag \in Contents \cup {Absent}
  BY Shapes
<1>3. held' \in [Requests -> Held]
  BY <1>1 DEF PlanTypeOK
<1>. QED
  BY <1>1, <1>2, <1>3, SendStep DEF HeldOK, Sending, Unsent

-----------------------------------------------------------------------------

LEMMA HandleStep ==
    ASSUME PlanInv, NEW r \in Requests, Handle(r)
    PROVE  PlanInv'
<1>. USE DEF PlanInv
<1>1. Upload(r) /\ UNCHANGED <<device, edge, history>>
  BY DEF Handle
<1>2. TypeOK' /\ StageOf(r)'
  BY <1>1, UploadType DEF PlanTypeOK
<1>3. PlanTypeOK' /\ StageOK'
  BY <1>1, <1>2, StageFrame DEF PlanTypeOK, device, edge, history, Step
<1>4. /\ Catalog'
      /\ \A text : Published(text) => Published(text)'
      /\ index[Anon] # Absent => index'[Anon] = index[Anon]
      /\ call' = call
      /\ \A q \in Requests \ {r} : pc'[q] = pc[q]
      /\ pc[r] # "412" /\ r \in sent
  BY <1>1, UploadCatalog DEF PlanTypeOK, edge, Handle
<1>5. \A x : Safe(x) => Safe(x)'
  BY <1>1, <1>4, SafeStays DEF history
<1>6. ASSUME NEW q \in Requests
      PROVE  HeldOK(q)'
  <2>1. /\ Calm(Device(q))' = Calm(Device(q))
        /\ stage'[q] = stage[q] /\ held'[q] = held[q] /\ sent' = sent
    BY <1>1 DEF Calm, Device, device, history
  <2>2. HeldOK(q)
    OBVIOUS
  <2>. QED
    BY <1>4, <1>5, <2>1, <2>2 DEF HeldOK
<1>7. ASSUME NEW d \in Devices
      PROVE  CopyOK(d)'
  <2>1. Calm(d)' = Calm(d) /\ copy'[d] = copy[d] /\ CopyOK(d)
    BY <1>1 DEF Calm, device, history
  <2>. QED
    BY <1>4, <1>5, <2>1 DEF CopyOK
<1>. QED
  BY <1>3, <1>4, <1>6, <1>7

(* An edit is calm only if no request is about to replace what it changes. *)
LEMMA EditStep ==
    ASSUME PlanInv, NEW x \in Edits, Edit(x)
    PROVE  PlanInv'
<1>. USE DEF PlanInv
<1>. DEFINE replaced == \E r \in {q \in Requests : Device(q) = Author[x]} :
                           \/ stage[r] \in Refreshing
                           \/ x \in ShellEdits /\ stage[r] \in Sending
<1>0. PICK a \in Devices : a = Author[x]
  BY PublishingAssumption
<1>1. /\ x \notin made /\ made' = made \cup {x}
      /\ hasty' = IF replaced THEN hasty \cup {x} ELSE hasty
      /\ copy' = [copy EXCEPT ![a].text = @ \cup {x}]
      /\ UNCHANGED <<vars, work, stage, sent, held, edge, aside>>
  BY <1>0 DEF Edit
<1>2. UNCHANGED <<stores, pc, locals>>
  BY <1>1 DEF vars
<1>3. copy' \in [Devices -> Copy]
  BY <1>0, <1>1, Shapes DEF PlanTypeOK, Copy, Text
<1>. HIDE DEF replaced
<1>4. PlanTypeOK' /\ StageOK'
  BY <1>1, <1>2, <1>3 DEF PlanTypeOK, TypeOK, StageOK, StageOf, Remaining, stores, document, head,
         locals, edge
<1>5. Catalog'
  BY <1>1, <1>2, CatalogStays DEF edge
<1>6. /\ \A text : Published(text)' <=> Published(text)
      /\ \A y : Safe(y)' <=> Safe(y)
  BY <1>1, <1>2, CatalogStays DEF Safe, edge
<1>7. \A d \in Devices : \A y \in Calm(d)' : y \in Calm(d) \/ (y = x /\ d = a /\ ~replaced)
  BY <1>0, <1>1 DEF Calm, PlanTypeOK
<1>8. ASSUME NEW q \in Requests
      PROVE  HeldOK(q)'
  <2>1. PICK d \in Devices : d = Device(q)
    BY Shapes
  <2>2. /\ stage'[q] = stage[q] /\ held'[q] = held[q] /\ sent' = sent
        /\ call' = call /\ pc' = pc /\ index' = index /\ Device(q)' = d
    BY <1>1, <1>2, <2>1 DEF Device, stores, locals
  <2>3. d = a /\ ~replaced => stage[q] \notin Refreshing /\ (x \in ShellEdits => stage[q] \notin Sending)
    BY <1>0, <2>1 DEF replaced
  <2>4. \/ Calm(Device(q))' \subseteq Calm(Device(q))
        \/ /\ stage[q] \notin Refreshing
           /\ stage[q] \in Sending => Calm(Device(q))' \cap ShellEdits \subseteq Calm(Device(q))
    <3>1. \A y \in Calm(d)' : y \in Calm(d) \/ (y = x /\ d = a /\ ~replaced)
      BY <1>7
    <3>2. Calm(Device(q))' = Calm(d)'
      BY <2>2 DEF Calm
    <3>. QED
      BY <2>1, <2>3, <3>1, <3>2
  <2>5. HeldOK(q)
    OBVIOUS
  <2>. QED
    BY <1>6, <2>2, <2>4, <2>5 DEF HeldOK, Refreshing, Saving
<1>9. ASSUME NEW d \in Devices
      PROVE  CopyOK(d)'
  <2>1. /\ copy'[d].etag = copy[d].etag /\ copy'[d].hash = copy[d].hash
        /\ copy[d].text \subseteq copy'[d].text
        /\ d = a => x \in copy'[d].text
    BY <1>1, Shapes DEF PlanTypeOK, Copy
  <2>2. CopyOK(d) /\ \A y \in Calm(d)' : y \in Calm(d) \/ (y = x /\ d = a)
    BY <1>7
  <2>. QED
    BY <1>6, <2>1, <2>2 DEF CopyOK
<1>. QED
  BY <1>4, <1>5, <1>8, <1>9

LEMMA EdgeStep ==
    ASSUME PlanInv, NEW e \in Entries, EdgeCatchUp(e)
    PROVE  PlanInv'
<1>. USE DEF PlanInv
<1>1. UNCHANGED <<stores, pc, locals, device, history>>
  BY DEF EdgeCatchUp, vars
<1>2. /\ edgeMeta' \in [Entries -> Contents \cup {Absent}]
      /\ edgeLatest' = edgeLatest \/ edgeLatest' = [edgeLatest EXCEPT ![e] = latest[e]]
  <2>1. LatestOf(meta[e]) \in Contents \cup {Absent}
    BY MetaType, LatestEtagType DEF LatestOf, PlanTypeOK, TypeOK
  <2>. QED
    BY <2>1 DEF EdgeCatchUp, PlanTypeOK
<1>3. PlanTypeOK' /\ StageOK'
  BY <1>1, <1>2 DEF PlanTypeOK, TypeOK, StageOK, StageOf, Remaining, stores, document, head,
         locals, device, history
<1>4. \A text : Published(text)' <=> Published(text)
  BY <1>1 DEF Published, InCatalog, Crossed, Entry, stores, document, locals
<1>5. Catalog'
  <2>1. Flights'
    <3>1. /\ archive' = archive /\ meta' = meta
          /\ \A q \in Requests : Flying(q)
      BY <1>1 DEF Flying, Entry, stores, document, locals
    <3>. QED
      BY <3>1, FlightsStay DEF Catalog
  <2>2. ASSUME NEW q \in Requests
        PROVE  UploadBacked(q)'
    BY <1>1, <1>4 DEF Catalog, UploadBacked, locals
  <2>3. ASSUME NEW f \in Entries
        PROVE  EntryBacked(f)'
    <3>1. EntryBacked(f) /\ latest'[f] = latest[f]
      BY <1>1 DEF Catalog, stores, head
    <3>2. edgeLatest'[f] \in {edgeLatest[f], latest[f]}
      BY <1>2 DEF PlanTypeOK
    <3>. QED
      BY <1>4, <3>1, <3>2 DEF EntryBacked
  <2>. QED
    BY <2>1, <2>2, <2>3 DEF Catalog
<1>6. ASSUME NEW q \in Requests
      PROVE  HeldOK(q)'
  BY <1>1, <1>4 DEF HeldOK, Safe, Calm, Device, stores, locals, device, history
<1>7. ASSUME NEW d \in Devices
      PROVE  CopyOK(d)'
  BY <1>1, <1>4 DEF CopyOK, Safe, Calm, device, history
<1>. QED
  BY <1>3, <1>5, <1>6, <1>7

LEMMA PlanStep == PlanInv /\ [PlanNext]_all => PlanInv'
<1>. SUFFICES ASSUME PlanInv, [PlanNext]_all
              PROVE  PlanInv'
  OBVIOUS
<1>1. ASSUME NEW r \in Requests, Refresh(r)
      PROVE  PlanInv'
  <2>1. CASE FindEntry(r, "head_find", "head_read") \/ FindEntry(r, "get_find", "get_meta")
    <3>1. PICK to \in {"ended", "head_read", "get_meta"} :
            /\ stage' = [stage EXCEPT ![r] = to]
            /\ to # "ended" => index[Anon] # Absent
            /\ stage[r] \in Reading
            /\ UNCHANGED <<vars, copy, work, sent, held, edge, history>>
      BY <2>1 DEF FindEntry, Enter, Reading
    <3>. QED
      BY <3>1, QuietStep DEF Stages, Reading
  <2>2. CASE HeadRead(r)
    <3>1. PICK to \in {"ended", "get_find"} :
            /\ stage' = [stage EXCEPT ![r] = to]
            /\ stage[r] \in Reading
            /\ UNCHANGED <<vars, copy, work, sent, held, edge, history>>
      BY <2>2 DEF HeadRead, Enter, Reading
    <3>. QED
      BY <3>1, QuietStep DEF Stages, Reading
  <2>. QED
    BY <1>1, <2>1, <2>2, LoadStep, GetMetaStep, GetBytesStep, SaveNestedStep DEF Refresh
<1>2. ASSUME NEW r \in Requests, PublishRefused(r) \/ LoseConnection(r) \/ Cancel(r)
      PROVE  PlanInv'
  <2>1. PICK to \in {"ended", "conflict"} :
          /\ stage' = [stage EXCEPT ![r] = to]
          /\ to = "conflict" => pc[r] = "412"
          /\ UNCHANGED <<vars, copy, work, sent, held, edge, history>>
    BY <1>2 DEF PublishRefused, LoseConnection, Cancel, Enter
  <2>. QED
    BY <2>1, QuietStep DEF Stages
<1>3. ASSUME NEW r \in Requests, OnDevice(r)
      PROVE  PlanInv'
  BY <1>1, <1>2, <1>3, PublishPlanStep, PublishSavedStep, OverwriteLocalStep, PublishMyChangesStep,
     ForkStep DEF OnDevice, Decide
<1>4. CASE UNCHANGED all
  <2>1. UNCHANGED <<stores, pc, locals, device, edge, history>>
    BY <1>4 DEF all, vars
  <2>2. PlanTypeOK' /\ StageOK'
    BY <2>1 DEF PlanInv, PlanTypeOK, TypeOK, StageOK, StageOf, Remaining, stores, document,
         head, locals, device, edge, history
  <2>3. Catalog'
    BY <2>1, CatalogStays DEF PlanInv, edge
  <2>4. \A text : Published(text)' <=> Published(text)
    BY <2>1, CatalogStays DEF PlanInv, edge
  <2>5. ASSUME NEW q \in Requests
        PROVE  HeldOK(q)'
    BY <2>1, <2>4 DEF PlanInv, HeldOK, Safe, Calm, Device, stores, locals, device, history
  <2>6. ASSUME NEW d \in Devices
        PROVE  CopyOK(d)'
    BY <2>1, <2>4 DEF PlanInv, CopyOK, Safe, Calm, device, history
  <2>. QED
    BY <2>2, <2>3, <2>5, <2>6 DEF PlanInv
<1>. QED
  BY <1>2, <1>3, <1>4, HandleStep, EditStep, EdgeStep DEF PlanNext, PlanDone

LEMMA PlanStart == PlanInit => PlanInv
<1>. SUFFICES ASSUME PlanInit
              PROVE  PlanInv
  OBVIOUS
<1>1. PICK w \in Works : InitFrom(w.start) /\ work = w.jobs
  BY DEF PlanInit
<1>2. w.start \in Starts /\ w.jobs \in [Requests -> Job]
  BY PublishingAssumption
<1>3. InitRequests
  BY DEF PlanInit
<1>4. TypeOK /\ StageOK
  BY <1>1, <1>2, <1>3, InitType DEF Init, TypeInv
<1>. DEFINE seed == w.start.seed
            list == IF seed = Absent THEN NoVersions ELSE seed.doc.versions
<1>5. /\ seed # Absent => seed.rec \in Record /\ seed.doc \in Meta
      /\ list \in Listing
      /\ seed # Absent => Listed(list) # {}
  <2>1. seed \in Seed
    BY <1>2, CatalogAssumption DEF Start
  <2>2. seed # Absent => seed.rec \in Record /\ seed.doc \in Meta
    BY <2>1 DEF Seed
  <2>3. NoVersions \in Listing
    BY DEF NoVersions, Listing
  <2>4. seed # Absent => Listed(list) # {}
    BY PublishingAssumption
  <2>. QED
    BY <2>2, <2>3, <2>4, MetaType
<1>6. /\ index = [n \in Namespaces |-> IF seed # Absent /\ n = seed.rec.ns THEN seed.rec ELSE Absent]
      /\ meta = Holding(seed, Absent, IF seed = Absent THEN Absent ELSE seed.doc)
      /\ latest = Holding(seed, Absent, LatestEtag(list))
      /\ archive = Holding(seed, NoVersions, list)
      /\ call = w.start.calls
  BY <1>1 DEF InitFrom
<1>. HIDE DEF seed, list
<1>7. ASSUME seed # Absent
      PROVE  /\ meta[seed.rec.entry] = seed.doc /\ seed.doc.versions = list
             /\ latest[seed.rec.entry] = LatestEtag(list)
             /\ archive[seed.rec.entry] = list
             /\ seed.rec.entry \in Entries
             /\ LatestEtag(list) \in Contents /\ Published(LatestEtag(list).text)
  <2>1. seed.rec.entry \in Entries
    BY <1>5, <1>7 DEF Record
  <2>2. /\ meta[seed.rec.entry] = seed.doc /\ seed.doc.versions = list
        /\ latest[seed.rec.entry] = LatestEtag(list) /\ archive[seed.rec.entry] = list
    BY <1>6, <1>7, <2>1 DEF Holding, list
  <2>3. PICK v \in Listed(list) : LatestEtag(list) = list[v]
    BY <1>5, <1>7, GreatestFact DEF LatestEtag
  <2>4. list[v] \in Contents /\ seed.doc # Absent
    BY <1>5, <1>7, <2>3, CatalogAssumption DEF Listing, Listed
  <2>5. InCatalog(LatestEtag(list).text)
    BY <2>1, <2>2, <2>3, <2>4 DEF InCatalog
  <2>. QED
    BY <2>1, <2>2, <2>3, <2>4, <2>5 DEF Published
<1>8. ASSUME NEW e \in Entries
      PROVE  \/ seed # Absent /\ e = seed.rec.entry
             \/ meta[e] = Absent /\ latest[e] = Absent /\ archive[e] = NoVersions
  <2>1. /\ meta[e] = IF seed # Absent /\ e = seed.rec.entry
                     THEN (IF seed = Absent THEN Absent ELSE seed.doc) ELSE Absent
        /\ latest[e] = IF seed # Absent /\ e = seed.rec.entry THEN LatestEtag(list) ELSE Absent
        /\ archive[e] = IF seed # Absent /\ e = seed.rec.entry THEN list ELSE NoVersions
    BY <1>6 DEF Holding
  <2>. QED
    BY <2>1
<1>9. edgeMeta = [e \in Entries |-> LatestOf(meta[e])] /\ edgeLatest = latest
  BY DEF PlanInit
<1>10. Catalog
  <2>1. \A r \in Requests : pc[r] = "lookup_own" /\ call[r].op = "upload"
    BY <1>1, <1>3, <1>6, PublishingAssumption DEF InitRequests, UploadOps
  <2>2. \A r \in Requests : pc[r] \notin Past /\ pc[r] \notin Wrote /\ pc[r] \notin Writing
    BY <2>1 DEF Past, Wrote, Writing
  <2>3. ASSUME NEW e \in Entries
        PROVE  MetaKept(e) /\ EntryBacked(e)
    BY <1>7, <1>8, <1>9 DEF EntryBacked, MetaKept, Kept
  <2>4. ASSUME NEW e \in Entries, NEW v \in Versions
        PROVE  Origin(e, v)
    <3>1. CASE meta[e] = Absent /\ archive[e] = NoVersions
      BY <3>1 DEF Origin, NoVersions
    <3>2. CASE seed # Absent /\ e = seed.rec.entry
      <4>1. meta[e] # Absent
        BY <1>5, <1>7, <3>2, CatalogAssumption
      <4>. QED
        BY <1>7, <2>2, <3>2, <4>1 DEF Origin, Old
    <3>. QED
      BY <1>8, <3>1, <3>2
  <2>5. Flights
    BY <2>2, <2>3, <2>4 DEF Flights, SeenKept, VersionKept, NotListed, NotRead, Apart
  <2>. QED
    BY <2>1, <2>3, <2>5 DEF Catalog, UploadBacked
<1>11. PICK c \in Copy :
         /\ copy = [d \in Devices |-> c]
         /\ c.etag # Absent => Published(c.hash)
         /\ c.text = c.hash
         /\ c.etag = Absent => c.text = {}
  <2>1. CASE index[Anon] = Absent
    <3>1. [text |-> {}, etag |-> Absent, hash |-> {}] \in Copy
      BY DEF Copy, Text
    <3>2. copy = [d \in Devices |-> [text |-> {}, etag |-> Absent, hash |-> {}]]
      BY <2>1 DEF PlanInit
    <3>. QED
      BY <3>1, <3>2
  <2>2. CASE index[Anon] # Absent
    <3>. DEFINE a == LatestEtag(list)
    <3>1. seed # Absent /\ index[Anon] = seed.rec
      BY <1>6, <2>2 DEF Namespaces
    <3>2. latest[BareEntry] = a /\ a \in Contents /\ Published(a.text)
      BY <1>7, <3>1 DEF BareEntry
    <3>. HIDE DEF a
    <3>3. a.text \in Text /\ a # Absent
      BY <3>2, PublishingAssumption, CatalogAssumption
    <3>4. [text |-> a.text, etag |-> a, hash |-> a.text] \in Copy
      BY <3>2, <3>3 DEF Copy
    <3>5. copy = [d \in Devices |-> [text |-> a.text, etag |-> a, hash |-> a.text]]
      BY <2>2, <3>2 DEF PlanInit
    <3>. QED
      BY <3>2, <3>3, <3>4, <3>5
  <2>. QED
    BY <2>1, <2>2
<1>12. /\ stage \in [Requests -> {"idle", "ended"}] /\ sent = {} /\ hasty = {} /\ aside = {}
       /\ made = UNION {copy[d].text : d \in Devices}
       /\ held = [r \in Requests |-> [local |-> copy[Device(r)], etag |-> Absent, remote |-> {}]]
  BY DEF PlanInit
<1>13. \A r \in Requests : Device(r) \in Devices
  BY <1>1, <1>2 DEF Device, Job
<1>14. c.text \in Text /\ c.hash \in Text
  BY <1>11 DEF Copy
<1>15. made \subseteq c.text
  BY <1>11, <1>12
<1>16. PlanTypeOK
  <2>1. held \in [Requests -> Held]
    BY <1>11, <1>12, <1>13 DEF Held, Text
  <2>2. edgeMeta \in [Entries -> Contents \cup {Absent}]
    BY <1>4, <1>9, MetaType, LatestEtagType DEF LatestOf, TypeOK
  <2>3. edgeLatest \in [Entries -> Contents \cup {Absent}]
    BY <1>4, <1>9 DEF TypeOK
  <2>4. stage \in [Requests -> Stages]
    BY <1>12 DEF Stages
  <2>5. made \subseteq Edits
    BY <1>14, <1>15 DEF Text
  <2>. QED
    BY <1>1, <1>2, <1>4, <1>11, <1>12, <2>1, <2>2, <2>3, <2>4, <2>5 DEF PlanTypeOK
<1>17. ASSUME NEW d \in Devices
       PROVE  CopyOK(d)
  BY <1>11, <1>15 DEF CopyOK, Calm
<1>18. ASSUME NEW r \in Requests
       PROVE  HeldOK(r)
  <2>1. held[r].local = c /\ stage[r] \in {"idle", "ended"}
    BY <1>11, <1>12, <1>13
  <2>2. pc[r] = "lookup_own" /\ r \notin sent
    BY <1>1, <1>2, <1>3, <1>6, <1>12, PublishingAssumption DEF InitRequests, UploadOps
  <2>. QED
    BY <1>11, <2>1, <2>2 DEF HeldOK, Reading, Sending, Saving
<1>. QED
  BY <1>4, <1>10, <1>16, <1>17, <1>18 DEF PlanInv

-----------------------------------------------------------------------------

(* Every value stays in its type, on the devices and in the catalog they   *)
(* publish to.                                                             *)
THEOREM PlanTypeCorrect == PlanSpec => []PlanTypeOK
<1>1. PlanInv => PlanTypeOK
  BY DEF PlanInv
<1>. QED
  BY PlanStart, PlanStep, <1>1, PTL DEF PlanSpec

(* No edit is lost silently by publishing and refreshing, with any number  *)
(* of devices and requests and whatever the reads of the edge answer:      *)
(* what a plan is overwritten for is listed, or about to be, unless the    *)
(* upload that listed it was crossed by another one.                       *)
THEOREM NoEditIsLost == PlanSpec => []EditsKept
<1>1. PlanInv => EditsKept
  <2>. SUFFICES ASSUME PlanInv, NEW x \in made \ hasty
                PROVE  \/ x \in aside
                       \/ x \in copy[Author[x]].text
                       \/ \E text \in Text : x \in text /\ Published(text)
    BY DEF EditsKept
  <2>1. PICK d \in Devices : d = Author[x]
    BY PublishingAssumption DEF PlanInv, PlanTypeOK
  <2>2. CopyOK(d) /\ x \in Calm(d)
    BY <2>1 DEF PlanInv, Calm
  <2>. QED
    BY <2>1, <2>2 DEF CopyOK, Safe
<1>. QED
  BY PlanStart, PlanStep, <1>1, PTL DEF PlanSpec

(* A plan that is shown as published is in the catalog's listing, or about *)
(* to be, also when it was edited while it was published; the one way out  *)
(* of the listing is a second upload that crossed the first.               *)
THEOREM ShownIsPublished == PlanSpec => []BadgeIsTrue
<1>1. PlanInv => BadgeIsTrue
  BY DEF PlanInv, CopyOK, BadgeIsTrue
<1>. QED
  BY PlanStart, PlanStep, <1>1, PTL DEF PlanSpec
=============================================================================
