---------------------------- MODULE DrillCatalog ----------------------------
(***************************************************************************)
(* The drill catalog of netlify/functions: the slug index and the blobs of *)
(* every entry, and the requests that write them.  One slug is modelled;   *)
(* its index keys are <namespace>/<slug>, so namespaces are the keys.      *)
(*                                                                         *)
(* Each request is a process.  Its steps are the storage calls its handler *)
(* awaits, because another request may run at every await; what a handler  *)
(* computes between two awaits belongs to the step before it.  A request   *)
(* that is never scheduled again is one whose function was killed.         *)
(***************************************************************************)
EXTENDS Integers, FiniteSetsExt, CatalogPolicy

CONSTANTS
    Requests,      \* the requests of a behaviour
    Entries,       \* entry ids newEntryId() can mint
    Plans,         \* plan ids
    Contents,      \* archives, told apart by their sha256
    MaxVersion,    \* bound: the highest version number of a behaviour
    MaxWalk,       \* maxVersionRetries of the upload handler
    FailedDeletes, \* the deletes that may throw where deleteversion catches it
    Starts         \* what a behaviour may start from: a seed and the requests

Versions == 1..MaxVersion

(* A slug-index record, as findEntry returns it.  The owner of an entry is *)
(* the account whose namespace it was claimed in.                          *)
Record == [entry : Entries, ns : Namespaces, plan : Plans]
OwnerOf(rec) == rec.ns

(* meta.json: the versions with their content etags, and the fields that   *)
(* decide visibility and access.                                           *)
Listing == [Versions -> Contents \cup {Absent}]
Meta == [versions : Listing, published : BOOLEAN, plan : Plans \cup {Absent},
         policy : Policies, grantees : SUBSET Accounts]
ViewOf(m) == IF m = Absent THEN Absent
             ELSE [policy |-> m.policy, grantees |-> m.grantees]

NoVersions == [v \in Versions |-> Absent]

Listed(list) == {v \in Versions : list[v] # Absent}

(* The greatest version number of a listing, 0 when it is empty.           *)
Greatest(list) == Max(Listed(list) \cup {0})

(* latestVersionEntry(...)?.etag                                           *)
LatestEtag(list) == IF Listed(list) = {} THEN Absent ELSE list[Greatest(list)]

UploadOps == {"upload"}
ToggleOps == {"publish", "unpublish"}
DeleteOps == {"deleteversion", "deleteall"}
Ops == UploadOps \cup ToggleOps \cup DeleteOps \cup {"policy"}

(* A call: the parameters of whichever endpoint `op` is.  `ns` addresses   *)
(* an entry; an upload has none and works out its own from the caller.     *)
Params == [op : Ops, ns : Namespaces, caller : Namespaces, role : Roles,
           plan : Plans, content : Contents \cup {Absent},
           ifMatch : Contents \cup {Absent}, version : Versions \cup {Absent},
           published : BOOLEAN, policy : Policies \cup {Absent},
           grantees : SUBSET Accounts]

(* What each endpoint insists on before it touches the store.              *)
Call == {c \in Params :
            /\ c.op = "upload" => c.content # Absent
            /\ c.op = "upload" => c.policy \in {"public", "account", Absent}
            /\ c.op = "policy" => c.policy # Absent
            /\ c.op = "policy" /\ c.policy = "shared" => c.grantees # {}
            /\ c.op = "deleteversion" => c.version # Absent}

(* Where a request stands: the storage call it makes next, or its answer.  *)
UploadPcs == {"lookup_own", "lookup_anon", "read_policy", "claim", "gate",
              "put_version", "put_latest", "put_meta"}
TogglePcs == {"toggle_etag", "toggle_read", "toggle_write"}
PolicyPcs == {"policy_read", "policy_etag", "policy_write"}
RecomputePcs == {"read_bytes", "latest_etag", "promote", "meta_etag", "unlist"}
LastPcs == {"last_etag", "last_latest", "last_meta", "last_index"}
SweepPcs == {"list", "sweep"}
DeletePcs == {"delete_read", "drop_bytes"} \cup RecomputePcs \cup LastPcs
             \cup SweepPcs
Answers == {"200", "304", "400", "401", "403", "404", "409_slug",
            "409_version", "412", "500"}
Pcs == {"resolve"} \cup UploadPcs \cup TogglePcs \cup PolicyPcs
       \cup DeletePcs \cup Answers

(* The blobs under one entry's prefix.                                     *)
LatestKey == 0
MetaKey == -1
Keys == Versions \cup {LatestKey, MetaKey}

VARIABLES
    index,     \* the slug index: namespace -> Record or Absent
    meta,      \* meta.json of each entry
    metaTag,   \* how often it was written
    latest,    \* the bytes under latest.drill of each entry
    latestTag, \* how often they were written
    archive,   \* the bytes under <version>.drill of each entry
    replica,   \* what an eventually consistent read of meta.json answers
    minted,    \* the entry ids handed out (they are random, never reused)
    pc,        \* where each request stands
    call,      \* what each request is
    found,     \* the index record a request works on
    seen,      \* the meta.json a request read
    etag,      \* the ETag a request read
    buf,       \* the archive bytes a request read
    ver,       \* the version number an upload is trying to write
    keep,      \* the access policy an upload will store
    doomed     \* the listed keys a deleteall has still to delete

document == <<meta, metaTag>>
head == <<latest, latestTag>>
stores == <<index, document, head, archive, replica, minted>>
locals == <<call, found, seen, etag, buf, ver, keep, doomed>>
vars == <<stores, pc, locals>>

(* Request r makes the call `from` and goes on to `to`, or answers it.     *)
Goto(r, from, to) == pc[r] = from /\ pc' = [pc EXCEPT ![r] = to]

Entry(r) == found[r].entry

WriteMeta(e, m) ==
    meta' = [meta EXCEPT ![e] = m] /\ metaTag' = [metaTag EXCEPT ![e] = @ + 1]

WriteLatest(e, bytes) ==
    latest' = [latest EXCEPT ![e] = bytes] /\ latestTag' = [latestTag EXCEPT ![e] = @ + 1]

-----------------------------------------------------------------------------

(* What is in the catalog at the start: nothing, or one entry as a         *)
(* sequence of uploads has left it.                                        *)
Seed == [rec : Record, doc : Meta] \cup {Absent}

Start == [seed : Seed, calls : [Requests -> Call]]

ASSUME CatalogAssumption ==
    /\ MaxVersion \in Nat
    /\ MaxWalk \in Nat
    /\ FailedDeletes \subseteq {"latest", "meta", "index", "bytes"}
    /\ Anon \notin Accounts
    /\ Absent \notin Contents \cup Entries \cup Plans
    /\ Absent \notin Nat
    /\ Absent \notin Policies
    /\ Absent \notin Record
    /\ Absent \notin Meta
    /\ Absent \notin View
    /\ Starts \subseteq Start

Holding(seed, empty, filled) ==
    [e \in Entries |-> IF seed # Absent /\ e = seed.rec.entry THEN filled ELSE empty]

InitFrom(s) ==
    LET seed == s.seed
        doc == IF seed = Absent THEN Absent ELSE seed.doc
        list == IF seed = Absent THEN NoVersions ELSE seed.doc.versions
    IN  /\ index = [n \in Namespaces |->
                     IF seed # Absent /\ n = seed.rec.ns THEN seed.rec ELSE Absent]
        /\ meta = Holding(seed, Absent, doc)
        /\ metaTag = [e \in Entries |-> 0]
        /\ latest = Holding(seed, Absent, LatestEtag(list))
        /\ latestTag = [e \in Entries |-> 0]
        /\ archive = Holding(seed, NoVersions, list)
        /\ replica = Holding(seed, Absent, ViewOf(doc))
        /\ minted = IF seed = Absent THEN {} ELSE {seed.rec.entry}
        /\ call = s.calls

InitRequests ==
    /\ pc = [r \in Requests |->
              IF call[r].op \in UploadOps THEN "lookup_own" ELSE "resolve"]
    /\ found = [r \in Requests |-> Absent]
    /\ seen = [r \in Requests |-> Absent]
    /\ etag = [r \in Requests |-> Absent]
    /\ buf = [r \in Requests |-> Absent]
    /\ ver = [r \in Requests |-> 0]
    /\ keep = [r \in Requests |-> "public"]
    /\ doomed = [r \in Requests |-> {}]

Init == (\E s \in Starts : InitFrom(s)) /\ InitRequests

-----------------------------------------------------------------------------
(* drills-upload.js                                                        *)

(* findUploadTarget looks in the caller's own namespace first ...          *)
UploadLookupOwn(r) ==
    LET own == index[call[r].caller]
    IN  /\ Goto(r, "lookup_own",
                IF own # Absent THEN "read_policy"
                ELSE IF call[r].caller # Anon THEN "lookup_anon" ELSE "claim")
        /\ found' = [found EXCEPT ![r] = own]
        /\ UNCHANGED <<stores, call, seen, etag, buf, ver, keep, doomed>>

(* ... and then in anon, where the wiki plans are.                         *)
UploadLookupAnon(r) ==
    /\ Goto(r, "lookup_anon", IF index[Anon] # Absent THEN "read_policy" ELSE "claim")
    /\ found' = [found EXCEPT ![r] = index[Anon]]
    /\ UNCHANGED <<stores, call, seen, etag, buf, ver, keep, doomed>>

(* The meta.json that decides the authorisation, and the policy the upload *)
(* stores again at the end, comes from an eventually consistent read.      *)
UploadReadPolicy(r) ==
    LET view == replica[Entry(r)]
    IN  /\ Goto(r, "read_policy",
                IF authorizeCatalogWrite(call[r].caller, OwnerOf(found[r]), view)
                THEN "gate"
                ELSE IF call[r].caller = Anon THEN "401" ELSE "403")
        /\ keep' = [keep EXCEPT ![r] = readAccessPolicy(view)]
        /\ UNCHANGED <<stores, call, found, seen, etag, buf, ver, doomed>>

newEntryIds == Entries \ minted

(* Bug: the loser of a claim goes on with the record it did not write.     *)
UploadClaimUnchecked(r) ==
    LET ns == call[r].caller
    IN  \E e \in newEntryIds :
            LET rec == [entry |-> e, ns |-> ns, plan |-> call[r].plan]
            IN  /\ Goto(r, "claim", "gate")
                /\ index' = IF IfNew(index[ns]) THEN [index EXCEPT ![ns] = rec] ELSE index
                /\ minted' = minted \cup {e}
                /\ found' = [found EXCEPT ![r] = rec]
                /\ keep' = [keep EXCEPT ![r] = NewEntryPolicy(ns, call[r].policy)]
                /\ UNCHANGED <<document, head, archive, replica,
                               call, seen, etag, buf, ver, doomed>>

(* claimEntry: the index key is created only if it is missing.             *)
UploadClaim(r) ==
    LET ns == call[r].caller
    IN  \E e \in newEntryIds :
            /\ IF IfNew(index[ns])
               THEN LET rec == [entry |-> e, ns |-> ns, plan |-> call[r].plan]
                    IN  /\ Goto(r, "claim", "gate")
                        /\ index' = [index EXCEPT ![ns] = rec]
                        /\ minted' = minted \cup {e}
                        /\ found' = [found EXCEPT ![r] = rec]
                        /\ keep' = [keep EXCEPT ![r] =
                                        NewEntryPolicy(ns, call[r].policy)]
               ELSE /\ Goto(r, "claim", "409_slug")
                    /\ UNCHANGED <<index, minted, found, keep>>
            /\ UNCHANGED <<document, head, archive, replica,
                           call, seen, etag, buf, ver, doomed>>

(* The archive in the body does not validate: the claim stays behind.      *)
UploadRejectArchive(r) ==
    /\ Goto(r, "gate", "400")
    /\ UNCHANGED <<stores, locals>>

(* The meta.json of an entry that has none yet.                            *)
DefaultMeta(r) ==
    [versions |-> NoVersions, published |-> FALSE, plan |-> call[r].plan,
     policy |-> "public", grantees |-> {}]

(* Bug: the slug is taken for the plan.                                    *)
VerdictBySlug(r, current) ==
    IF call[r].ifMatch # Absent /\ call[r].ifMatch # current THEN "412"
    ELSE IF current = call[r].content THEN "304" ELSE "put_version"

(* The plan check, the If-Match gate and the no-op check.                  *)
Verdict(r, current) ==
    IF found[r].plan # call[r].plan THEN "409_slug"
    ELSE IF call[r].ifMatch # Absent /\ call[r].ifMatch # current THEN "412"
    ELSE IF current = call[r].content THEN "304" ELSE "put_version"

(* The strong read of meta.json, the checks against it, and the first      *)
(* version number to try.                                                  *)
UploadGate(r) ==
    LET m == IF meta[Entry(r)] = Absent THEN DefaultMeta(r) ELSE meta[Entry(r)]
        first == IF call[r].version # Absent THEN call[r].version
                 ELSE Greatest(m.versions) + 1
    IN  /\ Goto(r, "gate", Verdict(r, LatestEtag(m.versions)))
        /\ first <= MaxVersion
        /\ seen' = [seen EXCEPT ![r] = m]
        /\ ver' = [ver EXCEPT ![r] = first]
        /\ UNCHANGED <<stores, call, found, etag, buf, keep, doomed>>

(* The versioned blob is created only if it is missing.                    *)
UploadPutVersion(r) ==
    LET e == Entry(r)
    IN  /\ Goto(r, "put_version", "put_latest")
        /\ IfNew(archive[e][ver[r]])
        /\ archive' = [archive EXCEPT ![e][ver[r]] = call[r].content]
        /\ UNCHANGED <<index, document, head, replica, minted, locals>>

(* Bug: the result of the conditional write is not looked at.              *)
UploadVersionTakenUnread(r) ==
    /\ Goto(r, "put_version", "put_latest")
    /\ ~IfNew(archive[Entry(r)][ver[r]])
    /\ UNCHANGED <<stores, locals>>

(* Bug: the walk tries the same number again.                              *)
UploadVersionTakenStuck(r) ==
    /\ Goto(r, "put_version", IF call[r].version # Absent THEN "409_version"
                              ELSE "put_version")
    /\ ~IfNew(archive[Entry(r)][ver[r]])
    /\ UNCHANGED <<stores, locals>>

(* Taken: an explicit version is refused, an assigned one walks forward a  *)
(* bounded number of times.                                                *)
UploadVersionTaken(r) ==
    LET walked == ver[r] - (Greatest(seen[r].versions) + 1)
        refuse == call[r].version # Absent \/ walked >= MaxWalk
    IN  /\ Goto(r, "put_version", IF refuse THEN "409_version" ELSE "put_version")
        /\ ~IfNew(archive[Entry(r)][ver[r]])
        /\ refuse \/ ver[r] < MaxVersion
        /\ ver' = IF refuse THEN ver ELSE [ver EXCEPT ![r] = @ + 1]
        /\ UNCHANGED <<stores, call, found, seen, etag, buf, keep, doomed>>

(* latest.drill is overwritten unconditionally ...                         *)
UploadPutLatest(r) ==
    /\ Goto(r, "put_latest", "put_meta")
    /\ WriteLatest(Entry(r), call[r].content)
    /\ UNCHANGED <<index, document, archive, replica, minted, locals>>

(* ... and so is meta.json, from the copy read at the gate.                *)
UploadPutMeta(r) ==
    /\ Goto(r, "put_meta", "200")
    /\ WriteMeta(Entry(r), [seen[r] EXCEPT !.versions[ver[r]] = call[r].content,
                                           !.published = call[r].published,
                                           !.policy = keep[r]])
    /\ UNCHANGED <<index, head, archive, replica, minted, locals>>

Upload(r) ==
    \/ UploadLookupOwn(r) \/ UploadLookupAnon(r) \/ UploadReadPolicy(r)
    \/ UploadClaim(r) \/ UploadRejectArchive(r) \/ UploadGate(r)
    \/ UploadPutVersion(r) \/ UploadVersionTaken(r)
    \/ UploadPutLatest(r) \/ UploadPutMeta(r)

-----------------------------------------------------------------------------
(* drills-admin.js and drills-policy.js                                    *)

(* Both find the entry by its namespace and slug with a strong read.       *)
Resolve(r) ==
    LET rec == index[call[r].ns]
        first == CASE call[r].op \in ToggleOps -> "toggle_etag"
                   [] call[r].op = "policy" -> "policy_read"
                   [] call[r].op = "deleteversion" -> "delete_read"
                   [] OTHER -> "list"
    IN  /\ Goto(r, "resolve", IF rec = Absent THEN "404" ELSE first)
        /\ found' = [found EXCEPT ![r] = rec]
        /\ UNCHANGED <<stores, call, seen, etag, buf, ver, keep, doomed>>

(* publish and unpublish read the ETag, then the value it guards ...       *)
ToggleEtag(r) ==
    /\ Goto(r, "toggle_etag", "toggle_read")
    /\ etag' = [etag EXCEPT ![r] = Etag(meta[Entry(r)], metaTag[Entry(r)])]
    /\ UNCHANGED <<stores, call, found, seen, buf, ver, keep, doomed>>

ToggleRead(r) ==
    LET m == meta[Entry(r)]
    IN  /\ Goto(r, "toggle_read", IF m = Absent THEN "404" ELSE "toggle_write")
        /\ seen' = [seen EXCEPT ![r] = m]
        /\ UNCHANGED <<stores, call, found, etag, buf, ver, keep, doomed>>

(* ... and write the flag back under that ETag.                            *)
ToggleWrite(r) ==
    LET e == Entry(r)
        ok == IfMatch(meta[e], metaTag[e], etag[r])
    IN  /\ Goto(r, "toggle_write", IF ok THEN "200" ELSE "412")
        /\ IF ok THEN WriteMeta(e, [seen[r] EXCEPT !.published = (call[r].op = "publish")])
           ELSE UNCHANGED document
        /\ UNCHANGED <<index, head, archive, replica, minted, locals>>

(* A policy change reads the value first ...                               *)
PolicyRead(r) ==
    /\ Goto(r, "policy_read",
            IF authorizePolicyChange(call[r].caller, call[r].role, OwnerOf(found[r]))
            THEN "policy_etag"
            ELSE IF call[r].caller = Anon THEN "401" ELSE "403")
    /\ seen' = [seen EXCEPT ![r] = meta[Entry(r)]]
    /\ UNCHANGED <<stores, call, found, etag, buf, ver, keep, doomed>>

(* ... and its ETag after that.                                            *)
PolicyEtag(r) ==
    /\ Goto(r, "policy_etag", "policy_write")
    /\ etag' = [etag EXCEPT ![r] = Etag(meta[Entry(r)], metaTag[Entry(r)])]
    /\ UNCHANGED <<stores, call, found, seen, buf, ver, keep, doomed>>

(* The spread of a missing meta.json leaves one that has nothing but a     *)
(* policy: no plan id, no versions.                                        *)
BareMeta == [versions |-> NoVersions, published |-> FALSE, plan |-> Absent,
             policy |-> "public", grantees |-> {}]

PolicyWrite(r) ==
    LET e == Entry(r)
        base == IF seen[r] = Absent THEN BareMeta ELSE seen[r]
        ok == IfMatch(meta[e], metaTag[e], etag[r])
    IN  /\ Goto(r, "policy_write", IF ok THEN "200" ELSE "412")
        /\ IF ok
           THEN WriteMeta(e, [base EXCEPT !.policy = call[r].policy,
                                          !.grantees = IF call[r].policy = "shared"
                                                       THEN call[r].grantees ELSE {}])
           ELSE UNCHANGED document
        /\ UNCHANGED <<index, head, archive, replica, minted, locals>>

MetaOnly(r) ==
    \/ Resolve(r)
    \/ ToggleEtag(r) \/ ToggleRead(r) \/ ToggleWrite(r)
    \/ PolicyRead(r) \/ PolicyEtag(r) \/ PolicyWrite(r)

-----------------------------------------------------------------------------
(* drills-admin.js: deleteversion                                          *)

(* try { await store.delete(key) } catch {}: the handler goes on whether   *)
(* the key is gone or not.                                                 *)
TryDelete(what, gone, kept) == IF what \in FailedDeletes THEN {gone, kept} ELSE {gone}

Remaining(r) == [seen[r].versions EXCEPT ![call[r].version] = Absent]

(* Bug: latest.drill is left as it is.                                     *)
DeletePathNoRecompute(r, m) ==
    IF m = Absent \/ Listed(m.versions) = {} THEN "404"
    ELSE IF Listed(m.versions) \subseteq {call[r].version} THEN "last_etag"
    ELSE "meta_etag"

DeletePath(r, m) ==
    IF m = Absent \/ Listed(m.versions) = {} THEN "404"
    ELSE IF Listed(m.versions) \subseteq {call[r].version} THEN "last_etag"
    ELSE "read_bytes"

(* The version list to filter.                                             *)
DeleteRead(r) ==
    LET m == meta[Entry(r)]
    IN  /\ Goto(r, "delete_read", DeletePath(r, m))
        /\ seen' = [seen EXCEPT ![r] = m]
        /\ UNCHANGED <<stores, call, found, etag, buf, ver, keep, doomed>>

(* The greatest remaining version is promoted: read its bytes ...          *)
ReadNewLatest(r) ==
    LET bytes == archive[Entry(r)][Greatest(Remaining(r))]
    IN  /\ Goto(r, "read_bytes", IF bytes = Absent THEN "500" ELSE "latest_etag")
        /\ buf' = [buf EXCEPT ![r] = bytes]
        /\ UNCHANGED <<stores, call, found, seen, etag, ver, keep, doomed>>

LatestEtagRead(r) ==
    /\ Goto(r, "latest_etag", "promote")
    /\ etag' = [etag EXCEPT ![r] = Etag(latest[Entry(r)], latestTag[Entry(r)])]
    /\ UNCHANGED <<stores, call, found, seen, buf, ver, keep, doomed>>

(* ... and write them under latest.drill, guarded either way.              *)
Promote(r) ==
    LET e == Entry(r)
        ok == IF etag[r] # Absent THEN IfMatch(latest[e], latestTag[e], etag[r]) ELSE IfNew(latest[e])
    IN  /\ Goto(r, "promote", IF ok THEN "meta_etag" ELSE "412")
        /\ IF ok THEN WriteLatest(e, buf[r]) ELSE UNCHANGED head
        /\ UNCHANGED <<index, document, archive, replica, minted, locals>>

(* The ETag of the meta.json that was read four calls ago.                 *)
MetaEtagRead(r) ==
    /\ Goto(r, "meta_etag", "unlist")
    /\ etag' = [etag EXCEPT ![r] = Etag(meta[Entry(r)], metaTag[Entry(r)])]
    /\ UNCHANGED <<stores, call, found, seen, buf, ver, keep, doomed>>

Unlist(r) ==
    LET e == Entry(r)
        ok == IfMatch(meta[e], metaTag[e], etag[r])
    IN  /\ Goto(r, "unlist", IF ok THEN "drop_bytes" ELSE "412")
        /\ IF ok THEN WriteMeta(e, [seen[r] EXCEPT !.versions = Remaining(r)])
           ELSE UNCHANGED document
        /\ UNCHANGED <<index, head, archive, replica, minted, locals>>

(* The bytes go last, when nothing references the version any more.        *)
DropBytes(r) ==
    /\ Goto(r, "drop_bytes", "200")
    /\ archive' \in TryDelete("bytes",
                    [archive EXCEPT ![Entry(r)][call[r].version] = Absent], archive)
    /\ UNCHANGED <<index, document, head, replica, minted, locals>>

(* The last version: what makes the plan findable goes first.              *)
LastEtag(r) ==
    /\ Goto(r, "last_etag",
            IF Etag(latest[Entry(r)], latestTag[Entry(r)]) = Absent THEN "last_meta" ELSE "last_latest")
    /\ UNCHANGED <<stores, locals>>

LastLatest(r) ==
    /\ Goto(r, "last_latest", "last_meta")
    /\ latest' \in TryDelete("latest", [latest EXCEPT ![Entry(r)] = Absent], latest)
    /\ UNCHANGED <<latestTag, index, document, archive, replica, minted, locals>>

LastMeta(r) ==
    /\ Goto(r, "last_meta", "last_index")
    /\ meta' \in TryDelete("meta", [meta EXCEPT ![Entry(r)] = Absent], meta)
    /\ UNCHANGED <<metaTag, index, head, archive, replica, minted, locals>>

LastIndex(r) ==
    /\ Goto(r, "last_index", "drop_bytes")
    /\ index' \in TryDelete("index", [index EXCEPT ![found[r].ns] = Absent], index)
    /\ UNCHANGED <<document, head, archive, replica, minted, locals>>

DeleteVersion(r) ==
    \/ DeleteRead(r) \/ ReadNewLatest(r) \/ LatestEtagRead(r) \/ Promote(r)
    \/ MetaEtagRead(r) \/ Unlist(r) \/ DropBytes(r)
    \/ LastEtag(r) \/ LastLatest(r) \/ LastMeta(r) \/ LastIndex(r)

-----------------------------------------------------------------------------
(* drills-admin.js: deleteall                                              *)

Present(e) == Listed(archive[e])
              \cup (IF latest[e] # Absent THEN {LatestKey} ELSE {})
              \cup (IF meta[e] # Absent THEN {MetaKey} ELSE {})

(* One page of the listing holds every key of the entry.                   *)
ListKeys(r) ==
    /\ Goto(r, "list", "sweep")
    /\ doomed' = [doomed EXCEPT ![r] = Present(Entry(r))]
    /\ UNCHANGED <<stores, call, found, seen, etag, buf, ver, keep>>

(* The deletes run in parallel: they take effect in any order.             *)
SweepKey(r) ==
    LET e == Entry(r)
    IN  \E k \in doomed[r] :
            /\ Goto(r, "sweep", "sweep")
            /\ doomed' = [doomed EXCEPT ![r] = @ \ {k}]
            /\ archive' = IF k \in Versions
                          THEN [archive EXCEPT ![e][k] = Absent] ELSE archive
            /\ latest' = IF k = LatestKey THEN [latest EXCEPT ![e] = Absent] ELSE latest
            /\ meta' = IF k = MetaKey THEN [meta EXCEPT ![e] = Absent] ELSE meta
            /\ UNCHANGED <<metaTag, latestTag, index, replica, minted,
                           call, found, seen, etag, buf, ver, keep>>

SweepIndex(r) ==
    /\ Goto(r, "sweep", "200")
    /\ doomed[r] = {}
    /\ index' \in TryDelete("index", [index EXCEPT ![found[r].ns] = Absent], index)
    /\ UNCHANGED <<document, head, archive, replica, minted, locals>>

DeleteAll(r) == ListKeys(r) \/ SweepKey(r) \/ SweepIndex(r)

-----------------------------------------------------------------------------

(* The store brings its eventually consistent readers up to date.          *)
CatchUp(e) ==
    /\ replica[e] # ViewOf(meta[e])
    /\ replica' = [replica EXCEPT ![e] = ViewOf(meta[e])]
    /\ UNCHANGED <<index, document, head, archive, minted, pc, locals>>

Step(r) == Upload(r) \/ MetaOnly(r) \/ DeleteVersion(r) \/ DeleteAll(r)

(* Every request has answered.                                             *)
Done == (\A r \in Requests : pc[r] \in Answers) /\ UNCHANGED vars

Next ==
    \/ \E r \in Requests : Step(r)
    \/ \E e \in Entries : CatchUp(e)
    \/ Done

Spec == Init /\ [][Next]_vars

(* A function that is not killed resumes every call it awaits.             *)
FairSpec == Spec /\ \A r \in Requests : WF_vars(Step(r))
-----------------------------------------------------------------------------
(* Properties                                                              *)

TypeOK ==
    /\ index \in [Namespaces -> Record \cup {Absent}]
    /\ meta \in [Entries -> Meta \cup {Absent}]
    /\ metaTag \in [Entries -> Nat]
    /\ latest \in [Entries -> Contents \cup {Absent}]
    /\ latestTag \in [Entries -> Nat]
    /\ archive \in [Entries -> Listing]
    /\ replica \in [Entries -> View \cup {Absent}]
    /\ minted \in SUBSET Entries
    /\ pc \in [Requests -> Pcs]
    /\ call \in [Requests -> Call]
    /\ found \in [Requests -> Record \cup {Absent}]
    /\ seen \in [Requests -> Meta \cup {Absent}]
    /\ etag \in [Requests -> Nat \cup {Absent}]
    /\ buf \in [Requests -> Contents \cup {Absent}]
    /\ ver \in [Requests -> 0..MaxVersion]
    /\ keep \in [Requests -> Policies]
    /\ doomed \in [Requests -> SUBSET Keys]

(* What a request has in hand when it reaches a storage call.              *)
HasRecord == {"read_policy", "gate", "put_version", "put_latest", "put_meta"}
             \cup TogglePcs \cup PolicyPcs \cup DeletePcs

StageOf(r) ==
    /\ pc[r] \in UploadPcs => call[r].op = "upload"
    /\ pc[r] = "resolve" => call[r].op # "upload"
    /\ pc[r] \in TogglePcs => call[r].op \in ToggleOps
    /\ pc[r] \in PolicyPcs => call[r].op = "policy"
    /\ pc[r] \in DeletePcs \ SweepPcs => call[r].op = "deleteversion"
    /\ pc[r] \in SweepPcs => call[r].op = "deleteall"
    /\ pc[r] \in HasRecord => found[r] \in Record
    /\ pc[r] \in {"put_version", "put_latest", "put_meta"} =>
           seen[r] \in Meta /\ ver[r] \in Versions
    /\ pc[r] \in {"toggle_write"} \cup RecomputePcs => seen[r] \in Meta
    /\ pc[r] \in RecomputePcs => Listed(Remaining(r)) # {}

StageOK == \A r \in Requests : StageOf(r)

Is(r, ops) == call[r].op \in ops

(* An upload that was answered 200.                                        *)
Acknowledged(r) == Is(r, UploadOps) /\ pc[r] = "200"

Deleters == {r \in Requests : Is(r, DeleteOps)}

(* Either nothing is deleted, or one deletion runs next to publish and     *)
(* unpublish requests only.                                                *)
DeletesAlone ==
    \A d \in Deleters : \A r \in Requests \ {d} : Is(r, ToggleOps)

BeingSwept(e) == \E r \in Requests : pc[r] = "sweep" /\ Entry(r) = e

(* No dangling reference: every version a meta.json lists has its bytes in *)
(* the store, and they are the bytes of the listed etag.  The order of     *)
(* the writes has to give this at every point a handler can be killed:     *)
(* upload writes bytes before it lists them (drills-upload.js), and        *)
(* deleteversion drops references first and bytes last (drills-admin.js:   *)
(* "an interruption leaves bytes nobody references").                      *)
ListedHaveBytes ==
    DeletesAlone =>
        \A e \in Entries : meta[e] # Absent /\ ~BeingSwept(e) =>
            \A v \in Listed(meta[e].versions) : archive[e][v] = meta[e].versions[v]

(* An acknowledged upload keeps its version: no other acknowledged upload  *)
(* of the entry was given the same number, and its bytes are still there,  *)
(* however the uploads interleaved (the onlyIfNew write and the walk).     *)
AcknowledgedKept ==
    Deleters = {} =>
        \A r \in Requests : Acknowledged(r) =>
            /\ archive[Entry(r)][ver[r]] = call[r].content
            /\ \A q \in Requests \ {r} :
                   Acknowledged(q) /\ Entry(q) = Entry(r) => ver[q] # ver[r]

(* An acknowledged upload can be found again: the index still names the    *)
(* entry it went to, and the entry has a listing.                          *)
AcknowledgedFindable ==
    Deleters = {} =>
        \A r \in Requests : Acknowledged(r) =>
            /\ index[found[r].ns] = found[r]
            /\ meta[Entry(r)] # Absent

(* What an upload was told it did stays done: its version is kept, and the *)
(* entry it went to is the one the index leads to.                         *)
AcknowledgedStands == AcknowledgedKept /\ AcknowledgedFindable

(* latest.drill never holds bytes that no version holds.                   *)
LatestIsArchived ==
    DeletesAlone =>
        \A e \in Entries : latest[e] # Absent /\ ~BeingSwept(e) =>
            \E v \in Versions : archive[e][v] = latest[e]

(* An entry is one plan: uploads acknowledged for the same entry carried   *)
(* the same plan id, whichever namespace they came from.                   *)
OnePlanPerEntry ==
    \A r, q \in Requests :
        Acknowledged(r) /\ Acknowledged(q) /\ Entry(r) = Entry(q)
            => call[r].plan = call[q].plan

(* publish and unpublish change the flag of the meta.json that is there    *)
(* and nothing else, whatever was written or deleted while they ran (ETag  *)
(* before value).  There has to be an ETag: a null one is no condition.    *)
ToggleChangesFlagOnly ==
    [][\A r \in Requests :
          pc[r] = "toggle_write" /\ pc'[r] = "200" /\ etag[r] # Absent =>
          LET e == Entry(r)
          IN  /\ meta[e] # Absent
              /\ meta'[e] = [meta[e] EXCEPT !.published = (call[r].op = "publish")]]_vars

(* A deletion that was answered 200 sticks: the version is not listed, and *)
(* after deleteall nothing is left, although publish and unpublish         *)
(* requests wrote meta.json back while it ran.                             *)
DeletionSticks ==
    DeletesAlone =>
        \A r \in Deleters : pc[r] = "200" =>
            LET e == Entry(r)
            IN  IF call[r].op = "deleteall"
                THEN Present(e) = {} /\ index[found[r].ns] = Absent
                ELSE meta[e] # Absent => call[r].version \notin Listed(meta[e].versions)

(* The catalog keeps the ledger's promise under every overlap of requests, *)
(* deletions included: no index key is repointed, no entry id is claimed   *)
(* twice, no version's bytes are rewritten in place.                       *)
Ledger == INSTANCE EntryLedger WITH
    directory <- [n \in Namespaces |->
                    IF index[n] = Absent THEN Absent ELSE index[n].entry],
    claimed <- minted,
    bytes <- archive

KeepsLedger == Ledger!Spec

(* Every request is answered: the walk over taken versions ends, and no    *)
(* order of two requests leaves one without a next step.                   *)
EveryRequestAnswered == \A r \in Requests : <>(pc[r] \in Answers)
-----------------------------------------------------------------------------
(* What the comments, the tests and the documents say, and the code does   *)
(* not give.                                                               *)

(* An acknowledged upload is in the version list: reading meta.json        *)
(* strongly is meant to stop a second upload from "dropping a version from *)
(* the catalog while its blob still exists" (drills-upload.js).            *)
AcknowledgedListed ==
    Deleters = {} =>
        \A r \in Requests : Acknowledged(r) =>
            meta[Entry(r)].versions[ver[r]] = call[r].content

(* A policy change writes the policy into the meta.json that is there, and *)
(* a concurrent change is a conflict (drills-policy.js and its test).      *)
PolicyChangesPolicyOnly ==
    [][\A r \in Requests :
          pc[r] = "policy_write" /\ pc'[r] = "200" /\ etag[r] # Absent =>
          LET e == Entry(r)
          IN  meta'[e] = [meta[e] EXCEPT !.policy = meta'[e].policy,
                                         !.grantees = meta'[e].grantees]]_vars

(* A publish does not decide who may publish: a plan keeps the policy it   *)
(* has, and a new one gets the policy asked for, `account` by default.     *)
UploadKeepsPolicy ==
    [][\A r \in Requests : pc[r] = "put_meta" /\ pc'[r] = "200" =>
          LET e == Entry(r)
          IN  meta'[e].policy = IF meta[e] # Absent THEN meta[e].policy
                                ELSE NewEntryPolicy(OwnerOf(found[r]), call[r].policy)]_vars

(* Deleting the last version leaves no "catalog entry pointing at nothing" *)
(* (drills-admin.js): what the index leads to lists no version without     *)
(* its bytes, whichever of the deletes fails.                              *)
FindableHaveBytes ==
    DeletesAlone =>
        \A n \in Namespaces : index[n] # Absent /\ ~BeingSwept(index[n].entry) =>
            LET e == index[n].entry
            IN  meta[e] # Absent =>
                    \A v \in Listed(meta[e].versions) : archive[e][v] # Absent

(* A version number names one archive for good: <slug>@<v> is served as    *)
(* immutable for a year (deep-link.js, drills-head.js).                    *)
VersionNamesOneArchive ==
    \A r, q \in Requests :
        Acknowledged(r) /\ Acknowledged(q) /\ Entry(r) = Entry(q) /\ ver[r] = ver[q]
            => call[r].content = call[q].content
=============================================================================
