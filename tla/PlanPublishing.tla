--------------------------- MODULE PlanPublishing ---------------------------
(***************************************************************************)
(* Devices that hold a copy of one plan, edit it, refresh it from the      *)
(* catalog and publish it: lib/services/plan_service.dart and              *)
(* lib/data/drill_client.dart, with the uploads of DrillCatalog and the    *)
(* two endpoints that read (drills-head.js, deep-link.js).                 *)
(*                                                                         *)
(* A plan is the set of edits in it.  An edit is in the plan's own record  *)
(* (its name, description, variables) or in one nested in it (exercises,   *)
(* teams, roles), because the two are stored by different calls.           *)
(***************************************************************************)
EXTENDS DrillCatalog

CONSTANTS
    Devices,
    Edits,       \* the edits of a behaviour, each made once
    ShellEdits,  \* those in the plan's own record
    Author,      \* the device that makes each edit
    Stamps,      \* times the server may write into an archive it packs anew
    Works        \* what a behaviour may start from: a start of the catalog,
                 \* and a device and an operation for each request

Text == SUBSET Edits

Archive(text, stamp) == [text |-> text, stamp |-> stamp]

(* What a request is on its device; some behaviours have fewer requests.   *)
Job == [device : Devices, op : {"publish", "refresh", "none"}]

ASSUME PublishingAssumption ==
    /\ Contents = [text : Text, stamp : Stamps]
    /\ ShellEdits \subseteq Edits
    /\ Author \in [Edits -> Devices]
    /\ Works \subseteq [start : Starts, jobs : [Requests -> Job]]
    /\ \A w \in Works :
          /\ \A r \in Requests : w.start.calls[r].op = "upload"
          /\ w.start.seed # Absent => Listed(w.start.seed.doc.versions) # {}

(* A stored plan: its edits, and of its source the content etag and the    *)
(* contentHash of the published snapshot.  No etag: it is not in the       *)
(* catalog yet.                                                            *)
Copy == [text : Text, etag : Contents \cup {Absent}, hash : Text]

(* What a request loaded, and what the catalog answered it.                *)
Held == [local : Copy, etag : Contents \cup {Absent}, remote : Text]

Reading == {"head_find", "head_read", "get_find", "get_meta", "get_bytes"}
Sending == {"publishing", "republishing"}
Saving == {"save_nested", "add_nested"}
Stages == {"idle", "conflict", "dialog", "ended"} \cup Reading \cup Sending \cup Saving

(* Where a refresh stands once it has loaded the plan and may replace it.  *)
Refreshing == Reading \cup {"dialog"} \cup Saving

VARIABLES
    copy,       \* the plan as each device stores it
    work,       \* the device and operation of each request
    stage,      \* where each request stands on its device
    sent,       \* the requests that have an upload on the server
    held,       \* what each request holds
    edgeMeta,   \* the latest etag an eventually consistent read of meta.json finds
    edgeLatest, \* the archive an eventually consistent read of latest.drill finds
    made,       \* the edits made so far
    hasty,      \* those made where a request was about to replace the plan
    aside       \* those the user put into a fork, or discarded in the dialog

device == <<copy, work, stage, sent, held>>
edge == <<edgeMeta, edgeLatest>>
history == <<made, hasty, aside>>
all == <<vars, device, edge, history>>

Device(r) == work[r].device
Mine(r) == copy[Device(r)]

Enter(r, from, to) == stage[r] = from /\ stage' = [stage EXCEPT ![r] = to]

(* savePlanShell writes the plan's own record, with etag and hash.  The    *)
(* brief it writes next is part of that record here.                       *)
SavePlanShell(d, text, e, h) ==
    copy' = [copy EXCEPT ![d] = [text |-> (@.text \ ShellEdits) \cup (text \cap ShellEdits),
                                 etag |-> e, hash |-> h]]

(* _replaceNested writes the rest: every nested record is removed, and     *)
(* then those of the new plan are added.  What was stored in between stays *)
(* or is overwritten.                                                      *)
RemoveNested(d) == copy' = [copy EXCEPT ![d].text = @ \cap ShellEdits]
AddNested(d, text) ==
    \E left \in SUBSET (copy[d].text \ ShellEdits) :
        copy' = [copy EXCEPT ![d].text = (@ \cap ShellEdits) \cup left \cup (text \ ShellEdits)]

(* The entry a bare slug names: the client sends no namespace.             *)
BareEntry == index[Anon].entry

-----------------------------------------------------------------------------

LatestOf(m) == IF m = Absent THEN Absent ELSE LatestEtag(m.versions)

(* Every device has installed what is in the catalog, if anything is.      *)
PlanInit ==
    /\ \E w \in Works : InitFrom(w.start) /\ work = w.jobs
    /\ InitRequests
    /\ edgeMeta = [e \in Entries |-> LatestOf(meta[e])]
    /\ edgeLatest = latest
    /\ copy = [d \in Devices |->
                IF index[Anon] = Absent THEN [text |-> {}, etag |-> Absent, hash |-> {}]
                ELSE LET c == latest[BareEntry]
                     IN  [text |-> c.text, etag |-> c, hash |-> c.text]]
    /\ stage = [r \in Requests |-> IF work[r].op = "none" THEN "ended" ELSE "idle"]
    /\ sent = {}
    /\ held = [r \in Requests |->
                [local |-> copy[Device(r)], etag |-> Absent, remote |-> {}]]
    /\ made = UNION {copy[d].text : d \in Devices}
    /\ hasty = {}
    /\ aside = {}

(* The user edits the plan: it is stored at once.  Storing a nested edit   *)
(* also writes the plan's own record back, as _touchPlan reads it there    *)
(* and then: that changes nothing but its time.                            *)
Edit(x) ==
    LET d == Author[x]
        jobs == {r \in Requests : Device(r) = d}
        replaced == \E r \in jobs :
                       \/ stage[r] \in Refreshing
                       \/ x \in ShellEdits /\ stage[r] \in Sending
    IN  /\ x \notin made
        /\ made' = made \cup {x}
        /\ hasty' = IF replaced THEN hasty \cup {x} ELSE hasty
        /\ copy' = [copy EXCEPT ![d].text = @ \cup {x}]
        /\ UNCHANGED <<vars, work, stage, sent, held, edge, aside>>

-----------------------------------------------------------------------------
(* Publishing                                                              *)

(* client.upload: the server packs the text anew and handles the request.  *)
Send(r, text, ifMatch) ==
    \E t \in Stamps :
        /\ call' = [call EXCEPT ![r].content = Archive(text, t), ![r].ifMatch = ifMatch,
                                ![r].published = TRUE]
        /\ pc' = [pc EXCEPT ![r] = "lookup_own"]
        /\ sent' = sent \cup {r}
        /\ UNCHANGED <<stores, found, seen, etag, buf, ver, keep, doomed>>

(* publishPlan up to the upload: the etag of the source is the If-Match.   *)
PublishPlan(r) ==
    /\ work[r].op = "publish"
    /\ Enter(r, "idle", "publishing")
    /\ held' = [held EXCEPT ![r].local = Mine(r)]
    /\ Send(r, Mine(r).text, Mine(r).etag)
    /\ UNCHANGED <<copy, work, edge, history>>

(* Bug: the hash is that of the plan as it is now.                         *)
PublishSavedCurrent(r) ==
    /\ stage[r] \in Sending
    /\ pc[r] \in {"200", "304"}
    /\ stage' = [stage EXCEPT ![r] = "ended"]
    /\ SavePlanShell(Device(r), held[r].local.text, call[r].content, Mine(r).text)
    /\ UNCHANGED <<vars, work, sent, held, edge, history>>

(* The rest of publishPlan, or of publishMyChanges: the source gets the    *)
(* new etag and the hash of what was uploaded.                             *)
PublishSaved(r) ==
    /\ stage[r] \in Sending
    /\ pc[r] \in {"200", "304"}
    /\ stage' = [stage EXCEPT ![r] = "ended"]
    /\ SavePlanShell(Device(r), held[r].local.text, call[r].content, held[r].local.text)
    /\ UNCHANGED <<vars, work, sent, held, edge, history>>

(* Bug: what was refused is sent again as it is.                           *)
PublishRefusedResent(r) ==
    /\ stage[r] \in Sending
    /\ pc[r] \in Answers \ {"200", "304"}
    /\ IF pc[r] = "412" THEN Send(r, held[r].local.text, call[r].ifMatch) /\ UNCHANGED stage
       ELSE stage' = [stage EXCEPT ![r] = "ended"] /\ UNCHANGED <<vars, sent>>
    /\ UNCHANGED <<copy, work, held, edge, history>>

(* Bug: the status becomes the state.                                      *)
PublishRefusedStatus(r) ==
    /\ stage[r] \in Sending
    /\ pc[r] \in Answers \ {"200", "304"}
    /\ stage' = [stage EXCEPT ![r] = pc[r]]
    /\ UNCHANGED <<vars, copy, work, sent, held, edge, history>>

(* A 412 leads _runUpload into the conflict flow, unless it came from      *)
(* there; any other refusal is a message.                                  *)
PublishRefused(r) ==
    /\ stage[r] \in Sending
    /\ pc[r] \in Answers \ {"200", "304"}
    /\ stage' = [stage EXCEPT ![r] =
                    IF pc[r] = "412" /\ @ = "publishing" THEN "conflict" ELSE "ended"]
    /\ UNCHANGED <<vars, copy, work, sent, held, edge, history>>

(* The connection breaks: the device knows nothing of an upload that may   *)
(* still be handled.                                                       *)
LoseConnection(r) ==
    /\ stage[r] \in Sending \cup Reading
    /\ stage' = [stage EXCEPT ![r] = "ended"]
    /\ UNCHANGED <<vars, copy, work, sent, held, edge, history>>

-----------------------------------------------------------------------------
(* refreshCatalogItem                                                      *)

LoadForRefresh(r) ==
    /\ \/ work[r].op = "refresh" /\ stage[r] = "idle"
       \/ stage[r] = "conflict"
    /\ stage' = [stage EXCEPT ![r] = IF Mine(r).etag = Absent THEN "ended" ELSE "head_find"]
    /\ held' = [held EXCEPT ![r].local = Mine(r)]
    /\ UNCHANGED <<vars, copy, work, sent, edge, history>>

(* Bug: only what the catalog has is looked at.                            *)
NoLocalChanges(r) == FALSE

hasLocalChanges(r) == held[r].local.text # held[r].local.hash

(* drills-head.js and deep-link.js both begin with the index record.       *)
FindEntry(r, from, to) ==
    /\ Enter(r, from, IF index[Anon] = Absent THEN "ended" ELSE to)
    /\ UNCHANGED <<vars, copy, work, sent, held, edge, history>>

(* client.head: 404, 304 or the latest etag.                               *)
HeadRead(r) ==
    LET current == edgeMeta[BareEntry]
        notModified == current = held[r].local.etag
    IN  /\ Enter(r, "head_read",
                 IF current = Absent \/ (notModified /\ ~hasLocalChanges(r))
                 THEN "ended" ELSE "get_find")
        /\ UNCHANGED <<vars, copy, work, sent, held, edge, history>>

(* client.download: the etag is read from meta.json ...                    *)
GetMeta(r) ==
    /\ Enter(r, "get_meta", "get_bytes")
    /\ held' = [held EXCEPT ![r].etag = edgeMeta[BareEntry]]
    /\ UNCHANGED <<vars, copy, work, sent, edge, history>>

(* ... and the bytes from latest.drill.  A plan without changes of its own *)
(* is overwritten (_overwriteCatalogPlan); of the others the user decides. *)
GetBytes(r) ==
    LET bytes == edgeLatest[BareEntry]
        tag == IF held[r].etag = Absent THEN bytes ELSE held[r].etag
    IN  /\ Enter(r, "get_bytes", IF bytes = Absent THEN "ended"
                                 ELSE IF hasLocalChanges(r) THEN "dialog" ELSE "save_nested")
        /\ held' = IF bytes = Absent THEN held
                   ELSE [held EXCEPT ![r].remote = bytes.text, ![r].etag = tag]
        /\ IF bytes = Absent \/ hasLocalChanges(r) THEN UNCHANGED copy
           ELSE SavePlanShell(Device(r), bytes.text, tag, bytes.text)
        /\ UNCHANGED <<vars, work, sent, edge, history>>

(* The rest of the plan follows its own record.                            *)
SaveNested(r) ==
    /\ \/ Enter(r, "save_nested", "add_nested") /\ RemoveNested(Device(r))
       \/ Enter(r, "add_nested", "ended") /\ AddNested(Device(r), held[r].remote)
    /\ UNCHANGED <<vars, work, sent, held, edge, history>>

Refresh(r) ==
    \/ LoadForRefresh(r) \/ FindEntry(r, "head_find", "head_read") \/ HeadRead(r)
    \/ FindEntry(r, "get_find", "get_meta") \/ GetMeta(r) \/ GetBytes(r) \/ SaveNested(r)

-----------------------------------------------------------------------------
(* The conflict dialog                                                     *)

Cancel(r) ==
    /\ Enter(r, "dialog", "ended")
    /\ UNCHANGED <<vars, copy, work, sent, held, edge, history>>

OverwriteLocal(r) ==
    /\ Enter(r, "dialog", "save_nested")
    /\ SavePlanShell(Device(r), held[r].remote, held[r].etag, held[r].remote)
    /\ aside' = aside \cup (held[r].local.text \ held[r].remote)
    /\ UNCHANGED <<vars, work, sent, held, edge, made, hasty>>

(* The etag just downloaded is the If-Match.                               *)
PublishMyChanges(r) ==
    /\ Enter(r, "dialog", "republishing")
    /\ Send(r, held[r].local.text, held[r].etag)
    /\ UNCHANGED <<copy, work, held, edge, history>>

ForkAsLocal(r) ==
    /\ Enter(r, "dialog", "ended")
    /\ aside' = aside \cup held[r].local.text
    /\ UNCHANGED <<vars, copy, work, sent, held, edge, made, hasty>>

Decide(r) == Cancel(r) \/ OverwriteLocal(r) \/ PublishMyChanges(r) \/ ForkAsLocal(r)

-----------------------------------------------------------------------------

(* The server handles an upload it was sent.                               *)
Handle(r) == r \in sent /\ Upload(r) /\ UNCHANGED <<device, edge, history>>

(* The edge sees a write of meta.json, or of latest.drill.                 *)
EdgeCatchUp(e) ==
    /\ \/ /\ edgeMeta[e] # LatestOf(meta[e])
          /\ edgeMeta' = [edgeMeta EXCEPT ![e] = LatestOf(meta[e])]
          /\ UNCHANGED edgeLatest
       \/ /\ edgeLatest[e] # latest[e]
          /\ edgeLatest' = [edgeLatest EXCEPT ![e] = latest[e]]
          /\ UNCHANGED edgeMeta
    /\ UNCHANGED <<vars, device, history>>

OnDevice(r) == PublishPlan(r) \/ PublishSaved(r) \/ PublishRefused(r) \/ Refresh(r)
               \/ Decide(r)

PlanDone ==
    /\ \A r \in Requests : stage[r] = "ended" /\ (r \in sent => pc[r] \in Answers)
    /\ UNCHANGED all

PlanNext ==
    \/ \E r \in Requests : OnDevice(r) \/ Handle(r) \/ LoseConnection(r)
    \/ \E x \in Edits : Edit(x)
    \/ \E e \in Entries : EdgeCatchUp(e)
    \/ PlanDone

PlanSpec == PlanInit /\ [][PlanNext]_all

PlanFairSpec ==
    PlanSpec /\ \A r \in Requests : WF_all(OnDevice(r)) /\ WF_all(Handle(r))
-----------------------------------------------------------------------------
(* Properties                                                              *)

PlanTypeOK ==
    /\ TypeOK
    /\ copy \in [Devices -> Copy]
    /\ work \in [Requests -> Job]
    /\ stage \in [Requests -> Stages]
    /\ sent \in SUBSET Requests
    /\ held \in [Requests -> Held]
    /\ edgeMeta \in [Entries -> Contents \cup {Absent}]
    /\ edgeLatest \in [Entries -> Contents \cup {Absent}]
    /\ hasty \subseteq made /\ made \subseteq Edits
    /\ aside \subseteq Edits

(* A version that meta.json lists holds the text.                          *)
InCatalog(text) ==
    \E e \in Entries : /\ meta[e] # Absent
                      /\ \E v \in Listed(meta[e].versions) : meta[e].versions[v].text = text

(* Two uploads that both succeeded, each of which had read meta.json       *)
(* before the other wrote it: the second write has dropped the version the *)
(* first one listed.                                                       *)
Crossed(r, q) ==
    /\ r # q /\ pc[r] = "200" /\ pc[q] = "200" /\ Entry(r) = Entry(q)
    /\ ver[r] \notin Listed(seen[q].versions)
    /\ ver[q] \notin Listed(seen[r].versions)

(* The text is in the catalog, or latest.drill has it and meta.json is     *)
(* written next, or it went up in one of two uploads that crossed.         *)
Published(text) ==
    \/ InCatalog(text)
    \/ \E r \in Requests : /\ call[r].content.text = text
                           /\ pc[r] = "put_meta" \/ \E q \in Requests : Crossed(r, q)

(* No edit is lost silently: it is in the plan of the device that made it, *)
(* in a version the catalog lists or is about to list, in a fork, or the   *)
(* user discarded it in the dialog.  Edits made while a request was about  *)
(* to replace what they change are excluded, and so is what two uploads    *)
(* that crossed have sent.                                                 *)
EditsKept ==
    \A x \in made \ hasty :
        \/ x \in aside
        \/ x \in copy[Author[x]].text
        \/ \E text \in Text : x \in text /\ Published(text)

(* A plan that is shown as published (it differs from no snapshot) is what *)
(* a version in the catalog's listing holds, or one about to be listed,    *)
(* unless it went up in one of two uploads that crossed.                   *)
BadgeIsTrue ==
    \A d \in Devices :
        copy[d].etag # Absent /\ copy[d].text = copy[d].hash => Published(copy[d].text)

(* Every publish and refresh ends, even while an eventually consistent     *)
(* read goes on answering what the gate has already refused: the conflict  *)
(* flow is not entered from within itself.  One that has ended stays so.   *)
EveryJobEnds == <>(\A r \in Requests : stage[r] = "ended")

=============================================================================
