# RingDrill: TLA+ models and proofs

RingDrill plans and runs rotation exercises. Plans are files (`.drill`
archives) kept on devices and shared through a catalog. Nearly all the code that can go
wrong between two actors is in the Netlify functions under `src/netlify/functions`: they
keep everything in blob stores that have conditional writes on one key and no
transactions. This directory models three parts of that backend - the catalog, the
accounts with their members, invitations and handles, and sign-in with its sessions -
and three services of the Flutter client: the one that publishes and refreshes plans, composed
with the catalog's uploads; the one that holds the tokens, composed with the sessions it
refreshes; and the timer that runs an exercise.

Contents: [inventory](#inventory) · [catalog](#the-catalog-model) ·
[publishing](#the-publishing-model) · [accounts](#the-accounts-model) · [sign-in](#the-sign-in-model) · [timer](#the-timer-model) ·
[runs](#runs) · [divergences](#where-the-code-does-not-do-what-it-says) ·
[proofs](#proofs) · [limits](#what-is-not-modelled-and-why) · [plan](#plan)

To repeat a run: `tlc -config CatalogMix.cfg MCDrillCatalog` (each `.cfg` begins with what it is
for; `PROJECT.json` says which module it goes with); to check the proofs: `tlapm` on
`DrillCatalogProofs.tla`, `CatalogLedgerProofs.tla`, `CatalogDeletionProofs.tla`, `PlanPublishingProofs.tla`,
`AccountsProofs.tla`, `AuthProofs.tla`, `AuthDeviceProofs.tla` and `ExerciseTimerProofs.tla`.

## Inventory

| Component (source) | State | Operations | Hard part | What makes it correct | Here |
|---|---|---|---|---|---|
| Catalog upload (`drills-upload.js`) | slug index, `meta.json`, `latest.drill`, `<v>.drill` per entry | one `POST`: find or claim the entry, authorise, gate (`If-Match`), write version, latest, meta | several storage calls, each an await; killed functions; retries; two devices | what is listed can be downloaded; what was acknowledged stays, is found and is listed; a name stays one plan | modelled |
| Catalog administration (`drills-admin.js`) | the same | `publish`, `unpublish`, `deleteversion`, `deleteall`, `listall`, `versions`, `backfill-indexes` | order of deletes; swallowed failures; overlap with toggles | references go before bytes; a deletion sticks; a toggle changes a flag only | the four writers, and the backfill |
| Access policy (`drills-policy.js`, `lib/authorize.js`) | `policy`, `grantees` in `meta.json` | change policy; decide who writes | value read before its ETag | a policy change erases nothing; an upload does not change who may upload | modelled |
| Entries and keys (`lib/catalog.js`) | slug index | `findEntry`, `claimEntry`, `dropAccountOwnership` | claim races; deletion of an account while its plans are written | one entry per key, one key per entry | modelled, deletion not composed with uploads |
| Blob helpers (`lib/shared.js`) | – | conditional set, ETag, strong and eventual reads | a `null` ETag is no condition | – | modelled |
| Catalog reading (`deep-link.js`, `drills-head.js`, `market-feed.js`, ...) | – | read only | caches for a year what is called immutable | a version number names one archive | `head` and the download of the latest version; for the rest the promise is checked of the writers |
| Refresh sessions (`lib/auth/session.js`, `auth.js`) | session records, tombstones | issue, rotate, revoke | concurrent or repeated refresh; revocation during a refresh | a replayed token ends the session, a revoked one stays ended | modelled |
| Sign-in challenges, provider hand-off (`lib/auth/session.js`, `oauth.js`) | challenge and hand-off records | start, redeem, expire | read and delete are two calls | a code is good once, attempts are bounded | modelled but for what a provider's token must satisfy |
| Tokens and principals (`lib/auth/jwt.js`, `principal.js`) | none | pure checks of signed claims | – | – | as the account a caller acts for, and the claims of an access token |
| Identity, handles, accounts (`lib/identity.js`, `accounts.js`) | identities, users, accounts, members and their index, handles | sign up, link, rename, change role, remove, leave, delete account | first sign-in race; two owners leaving; rename in two writes; derived index | one user per identity, an organisation keeps an owner, a stale index entry is harmless | modelled but for display names |
| Invitations (`invitations.js`) | invitation records | invite, accept, withdraw, expire | accept while withdrawn or while the account goes | accepted once, role not downgraded | modelled |
| Rate limits (`lib/mcp-rate-limit.js`, `lib/auth/start-email-limit.js`) | window counters | take, refund | read-modify-write; refund in the next window | never below zero, bounded overrun | modelled as start-email uses it |
| Backfill and sweep (`lib/backfill-indexes.js`, `lib/identity.js`) | derived indexes | rebuild, expire | run next to writers | index agrees with records at rest | modelled |
| Client sign-in (`lib/services/auth_service.dart`) | tokens, in-flight refresh | refresh (single flight), sign in, sign out | answers that arrive after the state they were asked for | signed out stays signed out; one refresh at a time | modelled but for start-up and the provider's launch |
| Exercise timer (`lib/services/exercise_service.dart`) | running exercise, timer | start, tick, stop | midnight; automatic stop; restart while running | phases in order, stop at the end, one timer | modelled |
| Client publishing (`lib/services/plan_service.dart`, `lib/data/drill_client.dart`) | the stored plan with its content ETag and the hash of its published snapshot | publish with `If-Match`, refresh, conflict dialog | several devices; edits while a request is under way; reads that lag | no edit lost silently; what is shown as published is published | modelled but for first installs, publish-as and deletion |
| Rotation schedule (`lib/models/schedule.dart`) | none | rounds, phases and their times; which team meets which station | three modes, stations with times of their own | the timer is where the schedule says; every team meets every station once | rounds and their times modelled |
| Plan library (`lib/data/plan_repository.dart`) | local records of a plan | load, save, delete | a plan is saved in several writes | – | the two writes of a save |
| Source compiler, mail, MCP dispatch, notifications, PWA update, API description, views, CLI, site, edge worker | local files or none | sequential, pure or I/O | – | – | not modelled; reasons in `PROJECT.json` |

How the parts interact. An HTTP request runs one function; functions share nothing
but the blob stores, so every interaction between two requests is a read or a write of a
key. A principal (from the session's token) decides which account a request acts
for; catalog entries name that account as owner, by the namespace they were claimed in.
The client calls the functions, holds the refresh token, and carries the content
ETag of its last download into `If-Match`. Deleting an account walks the catalog.

`PROJECT.json` lists the hazards of the code at their lines. They are what the
properties are chosen for; a hazard no property covers, or covers in part, says why.

## The catalog model

| Module | Role |
|---|---|
| `BlobStore` | ETags and the two conditions of a write |
| `CatalogPolicy` | `lib/authorize.js` as operators |
| `DrillCatalog` | the stores, the requests, the properties |
| `EntryLedger` | the abstract promise: keys are not repointed, ids are claimed once, bytes of a version are written once |
| `MCDrillCatalog` | the instances TLC checks; one `.cfg` per run |
| `DrillCatalogProofs`, `CatalogLedgerProofs`, `CatalogDeletionProofs` | theorems |

**Requests are processes.** Each has a `pc`, the storage call it makes next, and the
local values its handler holds across awaits: `found` (index record), `seen` (the
`meta.json` it read), `etag`, `buf` (bytes), `ver` (version number being tried), `keep` (policy to
store), `doomed` (keys left to delete). An action is one awaited storage call with what
is computed up to the next await. That is where another function instance can run,
so the model has exactly the interleavings the platform has. The answer of a request
is its last `pc`: `"200"`, `"412"`, ... A function killed by the platform, or one whose storage call
throws outside any `try`, is a request that is not scheduled again; without fairness every
such behaviour is included. The deletes that `deleteversion` wraps in `try {} catch {}` go
on either way: `FailedDeletes` names those that may fail.

**State and code.** `index` is `slugs/<namespace>/<slug>`; one slug is modelled, so the
namespace is the key. `meta`, `latest`, `archive` are `meta.json`, `latest.drill` and
`<v>.drill` under an entry's prefix. `metaTag` and `latestTag` count writes and stand for
ETags, as in the store the tests use (`src/netlify/tests/blobs-consistency.test.mjs:100`). A store whose
ETags are hashes of the content would in addition let a value that was changed and changed
back pass. `replica` is what an eventually consistent read of `meta.json` answers; `CatchUp` brings
it up to date at any later time. An archive is its sha256.

**Handlers.** `Upload*`: look up own namespace, then `anon`; read the policy
(eventual), or claim; gate on a strong read (`Verdict`: plan id, `If-Match`, no-op);
create the version blob only if new, walking past taken numbers; overwrite
`latest.drill`, then `meta.json`. `Toggle*`: ETag, value, conditional write. `Policy*`: value, ETag,
conditional write. `deleteversion` (`DeleteRead` ... `DropBytes`, `Last*`): promote the
greatest remaining version, unlist, drop bytes; or, for the last version, drop what makes the
plan findable first. `deleteall`: list, delete in any order, drop the index key.

**Starting states.** Nothing, or one entry as a sequence of uploads leaves it, with the
replica caught up. Requests and their parameters are fixed at the start (`Starts`).

**Bounds.** `MaxVersion` = 5 and `MaxWalk` = 1 (16 in the code). Two existing versions and
three uploads assign at most version 5, so no step is disabled by `MaxVersion`;
`EveryRequestAnswered` would report a disabled step. Two rivals can be ahead of an upload: it
finds two numbers taken, walks on after the first and is refused at the second, so both ends of
the walk occur. Three contents, entries and
requests, two plans and two accounts: one content for each of two versions and a new one, an id for
each request, a right and a wrong plan, an owner and someone else. Three
requests are what a lost update needs (two writers and a third that changes what both read).
The theorems do not depend on any of these.

## The publishing model

| Module | Role |
|---|---|
| `PlanPublishing` | devices, their copies of a plan, the two endpoints they read; `EXTENDS DrillCatalog`, whose `Upload` handles what they send |
| `MCPlanPublishing` | the instances |
| `PlanPublishingProofs` | theorems |

**A plan is the set of edits in it**, since the properties ask only which edits are where. Edits of the plan's
own record (`ShellEdits`) and of what is nested in it are told apart because `savePlan` stores them one after
the other: `savePlanShell` writes the record (with ETag and hash), `_replaceNested` removes what is nested and then adds
what is new. An edit stored in between stays or is overwritten (`AddNested`). The server unpacks
an upload and packs it anew with the time of day (`zipSync` without `mtime`), so the archive, and with it the
ETag, is the text with a `Stamp`.

**Requests are processes on two sides.** `stage[r]` is where request r stands on its device, `pc[r]` where its upload
stands on the server, `sent` the requests that have one there. `PublishPlan` loads the plan and sends it; `PublishSaved` writes the
answer back; `PublishRefused` is `_runUpload`, which leads a 412 into the refresh once. A refresh
(`LoadForRefresh` ... `SaveNested`) loads the plan, asks `head`, downloads, and overwrites the plan or asks the user: `Cancel`,
`OverwriteLocal`, `PublishMyChanges`, `ForkAsLocal`. Every await of the network is a step boundary, and so is the user's
decision. Of a save three steps remain: the record with its brief, all removals, all additions. `Edit` (stored at once), the
other device, the server and the edge run in between. `LoseConnection` ends a request on its device at any moment of
the network traffic and leaves the upload to the server.

**Reads at the edge.** `edgeMeta` and `edgeLatest` are what eventually consistent reads of `meta.json` and `latest.drill` find:
each goes forward on its own, at any time or never (`EdgeCatchUp` is not fair). One edge serves all devices, and index records
are read up to date. `replica`, which the policy check of an upload reads, lags by itself.

**What is claimed.** In the catalog is what a version listed in `meta.json` holds (`InCatalog`); a blob that no listing has was
dropped. Two uploads that both read `meta.json` before the other wrote it have `Crossed`: the later write drops the version of the
first, which is the finding `catalog_two_editors`, and its device goes on showing the plan as published until a refresh replaces it. Both
properties exclude what two such uploads sent, and nothing else that was sent. An upload whose last write is still to come counts, since `latest.drill`
has it and the gate does not yet. `hasty` are the edits made after a refresh loaded the plan and before it replaced it, or to the
plan's own record during a publish: the code loses them (see below), and `EditsKept` excludes them. `aside` are those
the user put into a fork or discarded in the dialog.

**Bounds.** Two devices; one of them makes an edit of each kind, the other one nested edit; any two requests on a plan that
has one version, on one device or on two, two first publishes, and a publish and a refresh of one device next to a
publish of the other. `MaxVersion` = 4: three uploads on one version. One stamp, so that an upload may also find its own bytes
(304); the theorems hold for any set of stamps, devices, edits and requests.

## The accounts model

| Module | Role |
|---|---|
| `AccountStores` | the stores of `lib/identity.js`, the requests, the two ways members are read: an account's roster, a user's memberships through the index |
| `Handles` | create, upgrade and rename with `claimHandle` |
| `Membership` | mint, change of role, removal, invite with its sweep, accept, withdraw, backfill of the index |
| `AccountDeletion` | `DELETE /api/accounts/:id`: sole ownership, `dropAccountOwnership`, `deleteAccount`, the user |
| `Accounts` | all of it, the lapse of invitations, the properties |
| `HandleRegistry` | the abstract promise: a name leads to one account and is not given to another while something is published under it |
| `MCAccounts` | the instances |
| `AccountsProofs` | theorems |

**Requests are processes**, as in the catalog model: one awaited call on one key, or one
listing, is a step, and what was listed is then read or deleted key by key in any order. These
stores are read strongly, so what is stale here is what a handler carries in `mem` from an
earlier step; the catalog entries that a deletion walks over are not, and are modelled as up to date.
One step stands for two awaits: an invitation or a pending row that the erasure of a user looks at is judged and deleted
at once (`EraseInvite`, `ErasePending`). `call[r].after` are the requests that had been answered when r was sent, so the
same set of calls is checked both overlapping and one after another.

**State and code.** `members[a][k]` is the row `<account>/<userId>` or
`<account>/pending:<address>`; rows of users are always accepted and pending rows never, so
a row is its role. `memberIndex` and `expiryIndex` are the two derived indexes, which
every writer updates in a second call. `access` is what the last access token of a user claims: the
server decides by it (`Authorised`) until the next one is minted, as
`lib/auth/principal.js` does. `plans` are the catalog entries of an account, with as much of them as its
deletion looks at: which fields of the index record name the account (`ownerId` and `ownerAccountId`), the state of `meta.json`, and whether
`meta.ownerId` is the account. A deletion writes the record without `ownerAccountId`, then `meta.json` without owner and grantees;
it may stop between the two, and `rec.ownerId` stays (see below). `Lapse` lets fourteen days go by for an invitation at any moment.

**Starting states.** An organisation with one owner or two, its members' personal accounts, with and
without an invitation, plans, and index entries: complete, missing, or left over. In `RejoinStarts` an index key is dropped for a row
that comes back meanwhile, in `BackfillStarts` mints and a backfill build the index while members go. A
request drops what it should and stops half way in the model itself, because any request may stop for
good; such remains therefore also arise during a run.

**What is claimed under which overlap.** `KeepsRegistry`, `HandleIsOwn` and
`OwnershipDropped` are claimed for every overlap the starts contain. `RemovalTakesEffect`
and `TokenShowsMemberships` name the requests that would rewrite the row in
question and exclude them: a role change or an acceptance that read the row before a removal
puts it back, which the code does not guard against. `TokenShowsMemberships` also excludes that a request which deletes the
index key of the row, because it removed the row or found none, overlaps one that writes it (`DropsKey`): the row is back and its key is not.
It is stated for a user whom the index knew completely or not at all, since an index with any entry is taken as complete.

**Bounds.** Two users, four accounts, three names, two invitations, two plans, three
requests: an owner and another, an organisation, both personal accounts and a new one, a name for each
and one that is free, an invitation and its successor, a plan that stays and one that goes, and
two requests that overlap with a third that sees the result. The page limits of the sweep (200 by
index, 100 by reading) are not reached.

## The sign-in model

| Module | Role |
|---|---|
| `AuthStores` | the stores of `auth.js` and `lib/auth/*.js`, the devices, the requests |
| `RefreshSessions` | issue, rotate, end, list, backfill and erase sessions |
| `StartEmailLimit` | the three counters in front of the mail, with refunds |
| `SignIn` | mailed codes, provider authorizations and hand-offs, `resolveIdentity` |
| `AuthClient` | `AuthService` of the app: tokens in memory and in the secure store, one refresh in flight |
| `Auth` | all of it, expiry and the clock, the properties |
| `MCAuth` | the instances |
| `AuthProofs`, `AuthDeviceProofs` | theorems; the second about the list of devices and the tokens they hold |

**Secrets** are named by the request that drew them. A stored hash is the name of its
token, so a copy of an old token is a name that is no longer stored. `rotateSession` is one read, a
verdict and one unconditional write of what was read: the model has the window between the
two, and a token presented a second time leaves the tombstone the code writes.

**The device.** A request with a device goes on after the server's answer: `Adopt` (memory), `Persist`
(secure store), `SignOut` and `Clear` for a 401, `Settle` (`whenComplete`). `UseToken` joins a
refresh in flight. `LoseRequest` and `LoseAnswer` are the network; `Restart` closes the
app at any moment, reads the secure store and abandons what was waiting. `Age` brings the access
token to its last five minutes.

**Sign-in.** A mailed code proves its address; a provider's redirect brings an identity and an address that
it may or may not vouch for. `resolveIdentity` is followed key by key, with what a killed sign-up
leaves. `StartEmailLimit` keeps the order source, hour, day, the refund of the hour when the day
refuses, and the refund of both when the mail fails; its store may fail at any call (`Degrades`).

**Starting states.** `seed` keeps what was stored at the start, and the properties speak of it. A user with a session on the device,
indexed, not indexed or expired, or nobody; a code that was mailed, an authorization that was sent out. Codes are of three kinds,
`Challenges`, `Authorizations` and `Handoffs`: the code keeps them under different prefixes. Three assumptions say what a start is:
`FreshIds` (ids are random: nobody has drawn the id a request draws, and who presents it comes after it), `AtRest` (nothing is under way:
identities lead to users with an account, a device has the open session it holds to itself and has stored it), `CountsMail` (a counter
counts the mail that went out in its window).

**What is claimed under which overlap.** `DeviceTokenIsLive` excludes a device of which an answer was lost or
that was closed in the middle of a refresh (the code has rotated the token by then), a sign-in that overlaps other requests of its device
(a slow write to the secure store puts an older token over a newer one, and a refused refresh clears the slot of a newer one), sessions that somebody
else presents or ends, and sign-outs. It also excludes a session whose hand-off was collected twice at once (`Apart`): `TakeGet` reads the parked
tokens and deletes them in a second call, so two devices may get the same tokens, and the first of them to refresh makes the other's
a replay that ends the session. The proof needs the premise where it shows that a session has one holder (`OneHolder`). `EndedStaysEnded` excludes a refresh between its read and its
write when the session is ended. `SingleUse`, `OneUserPerAddress`
and `BudgetIsMail` are about requests one after another: the stores have no way to do two of them at once
safely, and the code does not say it does. `IdentityResolves`, `UnverifiedNeverLinks` and `DevicesListed` allow any
overlap of what they are about.

**Bounds.** Two devices (the second only next to the first, in a refresh, a restart and a collect), five sessions, four users (one and three that a sign-up may draw), two
addresses, three identities, six codes, three requests. Two wrong codes instead of five, two and three mails to an
address and three from a source instead of the code's limits: each limit is reached, and passed by one request.
An hour is one tick and a day two; `MaxClock` = 2 lets both windows roll over. At most one
session or code expires (`MaxLapsed`) and one counter store call fails (`MaxFaults`). `Lapse` and
`Tick` happen only while a request may notice.

## The timer model

| Module | Role |
|---|---|
| `ExerciseWindow` | `windowAt` of `lib/models/exercise.dart`: which occurrence a moment belongs to |
| `ExerciseSchedule` | `lib/models/schedule.dart`: rounds and phases for ring, together and split |
| `ExerciseTimer` | `ExerciseService`: start, the periodic progress, stop |
| `MCExerciseTimer` | six exercises |
| `ExerciseTimerProofs` | theorems |

The methods of the service call each other without an await, so a handler is one step, and the
service is one record that its methods pass on (`Stopped`, `Begun`, `Progress`). `live` are the
timers the event loop goes on firing and `timer` the one the service remembers: they can part,
since `start` makes its timer after a first look at the clock that may have stopped the
exercise already. `Wait` is half a minute with the app awake, in which a live timer fires at least once;
`Sleep` is the app suspended, for less than two minutes or for just a day (`Naps`).

**Bounds.** A minute is two ticks and a day eight minutes: long enough for exercises that end
today, over midnight, or take the day, and for rounds of one to four minutes. The properties compare minutes with
minutes, so a longer day only adds minutes that look alike; `WindowIsNext` and the other
theorems hold for every length. Two starts (a restart while running), one nap, starts until the
end of the first day (`StartBy` = 16), and a clock that reaches past the end of everything
started by then (`MaxNow` = 52). Days are equally long: clocks set for summer time are outside.

## Runs

| Run | Instance | Shows |
|---|---|---|
| `catalog_mix` | three requests: any two uploads (of an account, of nobody, with a stale or right `If-Match`, of another plan, with an explicit version) and a toggle, policy change or upload; a deletion with two toggles; or any pair of nine calls, deletions next to uploads and to deletions included. 799,646 states | `TypeOK`, `ListedHaveBytes`, `AcknowledgedStands`, `LatestIsArchived`, `OnePlanPerEntry`, `DeletionSticks`, `ToggleChangesFlagOnly` hold in every interleaving and at every point a request can stop; `KeepsLedger`: the catalog implements `EntryLedger`; `EveryRequestAnswered` |
| `accounts` | three requests on an organisation and its members: removals, role changes, invitations, handles, deletions, each next to mints and the backfill. 305,691 states | `TypeOK`, `RemovalTakesEffect`, `TokenShowsMemberships`, `OrganisationKeepsOwner`, `HandleIsOwn`, `OwnershipDropped`, `SweptIsGone`, `DeletedLeavesNothing`; `KeepsRegistry`; `EveryCallAnswered` |
| `auth` | three requests of one device or two, a second holder of a token, sign-ins, mail, deletion of the user. 348,582 states | `TypeOK`, `DeviceTokenIsLive`, `EndedStaysEnded`, `DevicesListed`, `AddressDecidesUser`, `IdentityResolves`, `SingleUse`, `BudgetIsMail`; `EveryCallAnswered` |
| `timer` | two runs of any of six exercises, started at any half minute of a day, stopped, slept through. 418,404 states | `TypeOK`, `OneTimer`, `StopsOnTime`, `RunsTheRightDay`, `FollowsEvenSchedule`, `GoesForward`, `EveryRunEnds` |
| `publishing` | two devices edit, publish and refresh a plan, alone and against each other, with lost connections and lagging reads. 1,521,678 states | `PlanTypeOK`, `EditsKept`, `BadgeIsTrue`; `EveryJobEnds` |
| `catalog_two_editors`, `catalog_policy_race`, `catalog_retry`, `catalog_withdraw`, `catalog_failed_delete`, `accounts_erased_owner`, `accounts_retained_plan` | one scenario each | a documented promise the code does not keep; see below |

The safety properties about listings are stated for uploads, toggles and policy changes in
any overlap, and for one deletion next to toggles (`DeletesAlone`). An upload that passed the gate
before a deletion writes its blobs after it and revives parts of the entry;
the code promises nothing about that overlap, so only the ledger is claimed there.

**Fairness.** Safety properties need none. `catalog_mix` uses `FairSpec`, weak fairness of each
request's `Step`, for `EveryRequestAnswered`. A function that is not killed resumes when its awaited call completes,
and no handler waits for another, so this is all that is needed; `CatchUp` is not fair.
The property is about requests that are not killed. `accounts` and `auth` use the same
(`EveryCallAnswered`); for a request of a device it also says that the device gets an answer or an error, and
that a restarted app lets go of what waited. Their safety properties hold without it: a behaviour
may stop anywhere. `timer` assumes that the clock goes on and that a live timer fires; deadlock is not checked
there because the clock is bounded and a stopped service has nothing to do. `publishing` assumes that a request goes on, on its
device and on the server, and that the user answers the dialog; edits, the edge and the network owe nothing.

## Where the code does not do what it says

Each is a run with a counterexample and a finding that quotes the lines.

* **Two editors** (`AcknowledgedListed`). Two uploads pass the `If-Match` gate together; the later
  unconditional write of `meta.json` drops the version of the other, which was answered 200 and whose blob stays. Its
device still shows the plan as published, and its next refresh replaces the plan without a question.
* **Policy change next to an upload** (`PolicyChangesPolicyOnly`). The handler reads the value
  before its ETag; an upload that finishes in between is erased, the case its own comment names.
* **Retry of a failed first publish** (`UploadKeepsPolicy`). The claim exists, `meta.json` does
  not; the policy of nothing reads as `public` and is stored. The eventual read at the same place
  can also restore a policy that was changed meanwhile.
* **Withdraw and publish anew** (`VersionNamesOneArchive`). The number of a deleted newest version
  is given out again, while responses for it are cached as immutable.
* **Failed deletes of the last version** (`FindableHaveBytes`). The failures are swallowed
  and the bytes dropped: a findable listing without its archive.

* **The erased owner** (`OrganisationHasLivingOwner`). Deleting a personal account deletes the user but not
  the user's rows in other organisations, and the last-owner guard counts them: the other
  owner may leave, and nobody who exists can administer the organisation.
* **The retained plan** (`RetainedIsAnonymous`). `dropAccountOwnership` clears `ownerAccountId` in the index record and leaves
  `ownerId` (`lib/catalog.js:309` and `:190`). `lib/authorize.js:105` and `:147` read `rec.ownerId` first, and nothing reads
  `ownerAccountId`: the plan, documented to behave like an anonymous one, still has the deleted account as owner. Since `meta.json` says
  `public` everybody may publish, but a change of policy is answered `not_a_member` and not `anon_plan_has_no_owner`, and a token of a former owner
  that has not expired may make it.

Seen while modelling and without a run.

*Catalog*: a `null` ETag makes a write unconditional, so a
toggle that read "no document" and then finds one overwrites without a condition
(`ToggleChangesFlagOnly` is stated for requests that hold an ETag); `deleteversion` reads the
ETag of `meta.json` several calls after the value, like the policy handler; `deleteall` lists eventually.
`dropAccountOwnership` says that its reads are strong because they decide writes (`lib/catalog.js:286`), but `accounts.js:48-50` passes the
default stores, whose reads are eventual: an entry or a `meta.json` written just before may be missed.

*Publishing*: an edit made while a refresh waits for the catalog is overwritten without a question (`plan_service.dart:804`
decides, `:836` writes; ADR-0008 promises otherwise at line 93), and a rename during a publish is undone by the write of the snapshot.
An app closed between the two writes of `savePlan` has the new ETag over the old
exercises; its next publish passes `If-Match` and takes the catalog back. A plan deleted during
its publish gets its record back. `deep-link` pairs the ETag of one lagging read with the bytes of
another: the device is then told that it is up to date, and its next publish overwrites content it never had.
The fresh time stamp makes the no-op check of an upload hardly ever hold. The client sends a bare slug, which resolves to the entry of nobody, while a signed-in
publish claims one in the account's namespace: the author's own plan is reported as removed, or another entry with that slug is downloaded.

*Accounts*: a removal deletes the row and then the index key, and a mint repairs a key without a row (`identity.js`); if
an acceptance puts row and key back in between, the row stays without a key, and a user with other memberships gets tokens without this one until somebody
runs the backfill. `membershipsOf` scans only if the index has no entry for the user, so the first membership that a backfill or an accepted
invitation indexes hides the others, and tokens are minted without them. Two owners who demote or remove each other at once leave none (`accounts.js:555`). An owner who accepts an
invitation as a member becomes one. A role change or an acceptance that overlaps a removal or a deletion
puts the row back. A withdrawn invitation is good again, with its old role, once the address is
invited anew. A rename from A to B and back leaves A, the current name, a tombstone that leads
on to B. A rename that overlaps a deletion writes the account back; a deletion
killed between handle and account and then repeated removes the name of whoever claimed it in the meantime.
A rename next to an upgrade loses the change of type. A create killed after its claim reserves the name
for good. A plan that was only shared becomes an unpublished one without an owner, and a repeated deletion
deletes it. An access token keeps its roles for up to an hour after a change.

*Sign-in*: an answer lost, a 500 after the rotation or an app closed before the new token is stored end the session at the next
refresh. A refresh in flight brings back a session that was revoked, deleted or tombstoned meanwhile,
without its index entry, so that the list of devices does not show it. The answer of a refresh in flight is adopted after a
sign-out: the device is signed in again, in memory and in the secure store. A sign-in
that links an identity to a user who is being deleted leaves an identity that answers 500 for good. Two first sign-ins for one
address at once make two users; a code redeemed twice at once succeeds twice. The end of an old
refresh frees the slot of a newer one, a late answer for another session replaces a new sign-in, and a late 401
signs the newer session out.

*Timer*: stations and groups may have times of their own, which the schedule follows; the timer divides the elapsed
time by the exercise's own three durations and announces another round or phase. A run started less than a minute before its exercise is in round one already
(`inMinutes` rounds towards zero). When the first look at the clock in `start` stops the exercise, a
timer is made all the same; it does nothing and the next start or stop cancels it.

## Proofs

The theorems hold for every set of requests, entries, accounts, plans and contents, every bound and every
start allowed by `CatalogAssumption`, the one assumption: the markers (`Absent`, `Anon`) differ from the
data, the bounds are naturals, and `Starts` are well-formed. TLC evaluates it in every run.

| Theorem | States | Argument |
|---|---|---|
| `TypeCorrect` | `TypeOK` | `TypeInv` = `TypeOK` with `StageOK`: which values a request holds at each `pc` (a request that writes a version has read a document, one that recomputes has a version left). `TypeOK` alone is not inductive: a write from `seen` would have nothing to say that `seen` is a document |
| `TogglesChangeTheFlag` | `ToggleChangesFlagOnly` | `FreshInv`: a request that holds an ETag holds a number not above the current one, and if they are equal and the document exists, the copy in `seen` is the document. It rests on ETag before value, and fails for the policy handler exactly because of its order |
| `ListingsHoldBytes` | `ListedHaveBytes`, if a failed delete of `meta.json` is not possible | `BytesInv`: without deletions archives only grow, and every document and copy is backed by them; with one deletion next to toggles, a version leaves the document and every fresh copy before its bytes go. The premise is needed: without it `catalog_failed_delete` is a counterexample |
| `EntryIsOnePlan` | `OnePlanPerEntry` | `RecordsInv`: index records and `found` records name minted ids, each id in one namespace and with one plan; with the plan check of `Verdict` |
| `CatalogKeepsLedger` | `KeepsLedger`: `DrillCatalog` implements `EntryLedger` | index steps map to `Claim`, `Release` or a stutter, archive steps to `Store`, `Discard` or a stutter, under the mapping index ↦ directory, minted ↦ claimed, archive ↦ bytes |
| `UploadsStand` | `AcknowledgedStands` | `StandsInv`: without deletions nothing in the store goes away (`NothingGoes`), so the record of every request is still in the index, and an upload past its conditional write has the slot to itself. That the slot was empty when it was written makes two numbers differ; the listing is not part of it, which is why `AcknowledgedListed` fails |
| `LatestStaysArchived` | `LatestIsArchived`, if a failed delete of `latest.drill` is not possible | `HeadInv`: uploads store the version before `latest.drill`; a deletion puts it on the greatest version left, or removes it, before the bytes go (`HeldElsewhere`) |
| `DeletionsStick` | `DeletionSticks`, if failed deletes of `meta.json` and the index key are not possible | `GoneInv` on top of `BytesInv`: what a sweep has still to delete covers what is there, and a toggle writes only over a document that is there, with the listing of that document |

The timer's theorems hold for every length of the minute and the day, every set of exercises, any number of starts and
naps, under `ClockAssumption` and `TimerAssumption` (positive lengths; start and end are times of day; rounds and
minutes are naturals; the bound `MaxNow` on the clock leaves room for a day and a nap after the last start).

| Theorem | States | Argument |
|---|---|---|
| `WindowIsNext` | `windowAt` gives an occurrence of at most a day that is not over, and whose predecessor is | by the day of the moment and the cases of `WindowAt` |
| `InductiveInvariant` | `IInv` = `Sound` /\ `Driven` | `Sound`: the fields have their types and the last event was on time; `Driven`: what runs has the one live timer, for the same exercise and run. `OneTimer` alone is not inductive: that a firing timer advances the exercise it was made for is what keeps events on time |
| `TimerIsTheOnlyOne` | `OneTimer` | from `Driven` |
| `RunStopsOnTime` | `StopsOnTime` | from `Sound`, with the arithmetic of rounds in the lemmas |
| `RunIsOfTheRightDay` | `RunsTheRightDay` | from `WindowIsNext` at the moment of the start |
| `TimerIsTyped` | `TypeOK` | `TypedInv`: an exercise that runs has a run number; what is handled at a late firing is of its type too (`HandlingTyped`) |
| `RunGoesForward` | `GoesForward` | `Told`: what runs was announced under its own number, at the minute, round and phase it was at, and what does not run as done. `GoesForward` is about one step; that the round and the phase of a later look are not smaller is division (`DivForward`, `PhaseForward`) |
| `TimerFollowsSchedule` | `FollowsEvenSchedule` | `EvenRoundStart`: the table of starts, a recursive function, is n times the length of a round, by a smallest counterexample (the induction theorems cannot be used, a well-founded minimum can) |

The accounts' theorems hold for every set of users, accounts, names, invitations and requests and every start allowed by
`AccountsAssumption`: the seed is well-formed, no account goes by a name that leads elsewhere, what accounts that are gone left in the catalog was dropped, a request carries the parameters its handler checks for (whoever withdraws names an address, whoever removes a user), and
`FreshIds`: ids are random, so that an invite draws a token nobody has, and who names a new account comes after its create.

| Theorem | States | Argument |
|---|---|---|
| `TypeCorrect` | `TypeOK` | `TypeInv` = `TypeOK` with `StageOK` (what each handler holds at each of its calls) and `GivenCalls` (requests keep the parameters of the start); one lemma per handler, and `Memory...` lemmas for what a call changes together |
| `PlansAreDropped` | `OwnershipDropped` | `OwnersInv` = `OwnershipDropped` /\ `NoDocNoOwner` /\ `Disowned`: an entry that a deletion's walk has passed is dropped, in its record once the first write is done and in both blobs after the second. `OwnershipDropped` alone says nothing while the account is still there, which is when the walk runs. An entry without `meta.json` is left after the first write and has no owner in a `meta.json` either (`NoDocNoOwner`). Nothing gives an entry an owner, and the account goes after the walk. No premise about overlaps |
| `HandlesAreOwn` | `HandleIsOwn`, if `LoneDeletions` | `HandlesInv`: the names a handler is about to write or retire lead to its account (`Names`), and a deletion that kept nothing has nothing left under the name (`Kept`); `InOrder` turns the order in which requests are sent into who is at work at once |
| `RegistryKept` | `KeepsRegistry`, if `LoneDeletions` | the same invariant; `ClaimHandle` maps to `Claim`, `DropHandle` to `Release` or a stutter, the walk over plans to `Publish`, a retired handle to a stutter, since it still leads to its account |
| `RemovedLoseAccess` | `RemovalTakesEffect` | `RemovedInv`: once the removal has deleted the row nobody writes it, so a mint that comes after it reads none; the index does not occur in it. `RowsChange` says which four calls write a row |
| `LapsedAreSwept` | `SweptIsGone` | `SweptInv`: while an invite sweeps, a lapsed invitation is gone or still in what is to be read or dropped (`Swept`), and the token of an invite names nothing before its own write (`Unborn`, from `FreshIds`). The catch-up covers what the expiry index did not list |
| `DeletionLeavesNothing` | `DeletedLeavesNothing`, if `LoneErasures` | `DeletedInv` on top of `ErasableInv`: what the deletion of an account has still to delete covers the rows that are there (`RowsGo`), and the erasure of its user covers invitations and pending rows (`UserGoes`), next to requests that came before and whose writes it sees, or after and who find nothing |
| `TokensShowMemberships` | `TokenShowsMemberships` | two invariants, one for each premise. `KnownWholly`, if the index knew the user: a row that stood has its key, or its writer is about to index it, because nobody is about to drop it (`DropInv`). `HealInv`, if it did not and nobody else writes rows: whoever indexes the first of the user's rows has all others in hand (`Covers`), so the index is empty or whole when the last mint lists it. `MintInv`: a row that stood is in what the mint has read or has still to read |

The premises name overlaps the code does not guard, and each is needed. `LoneDeletions`: no create, upgrade, rename or second deletion of an
account overlaps its deletion; a rename that read the account before writes it back, under a name that is free again. `LoneErasures`: a user
is there and has the personal account deleted by one request; a second one that finds the user gone no longer knows the address and passes
over the pending rows (`ErasableInv` carries it: no account becomes a personal one, so who erases a user was sent to do it).
The starts of `accounts` satisfy both.

The theorems about publishing hold for every set of devices, edits, requests and stamps and every start allowed by
`PublishingAssumption`: an archive is a text and a stamp, every edit has an author, the requests of a start are uploads, and an
entry of a start lists a version.

| Theorem | States | Argument |
|---|---|---|
| `PlanTypeCorrect` | `PlanTypeOK` | with `StageOK` of the catalog, from `UploadType`; part of `PlanInv` |
| `NoEditIsLost` | `EditsKept` | `PlanInv`: while a request may replace a plan, every calm edit of its device is in what the request loaded or is safe (`HeldOK`), and all are safe before the plan is replaced; nested edits need this of a refresh, those of the plan's record of a publish too. `EditsKept` alone is not inductive: nothing would connect the copy with what a request is about to write over it |
| `ShownIsPublished` | `BadgeIsTrue` | the hash of a copy with an ETag is the text of something published (`CopyOK`), because whatever the catalog hands out or answers 200 or 304 for is (`Catalog`). That a write of `meta.json` drops only what crossed is `Flights`: a version in the archive is listed, in `meta.json` and in every listing an upload holds, or was written by an upload (`Origin`); whoever writes `meta.json` from a listing without it read before that upload wrote and so has crossed it (`NotRead`, `Apart`) |

No start of `PublishingAssumption` has a deletion, so a version once listed goes away only by such a write.

The sign-in theorems hold for every set of users, addresses, identities, sessions, codes, devices and requests, every limit and length of a
window, and every start allowed by `AuthAssumption`: well-formed calls, a mail identity of its own for every address, and `FreshIds`, `AtRest` and
`CountsMail` above.

| Theorem | States | Argument |
|---|---|---|
| `TypeCorrect` | `TypeOK` | `TypeInv` = `TypeOK` with `Stage`: what a handler holds at each of its calls; a lemma per handler |
| `IdentityHasUser` | `IdentityResolves` | `PeopleInv`: who is named by an identity, by an address or by a handler about to write one is `Housed`, a user with an account, or is about to be. `IdentityResolves` alone is not inductive: an address leads the next identity to its user |
| `RedeemedOnce` | `SingleUse` | `RedeemInv`: a record that is stored was redeemed by nobody who came before, and has counted every wrong code that did; `InOrder` turns the order in which requests are sent into who is at work at once. It needs `FreshIds`: a code is parked once |
| `EndedForGood` | `EndedStaysEnded` | `EndInv`: what is ended is a tombstone or gone for everybody who has not yet read it, since a rotation writes only what it read and ids of sessions are drawn once |
| `ProofDecidesUser` | `AddressDecidesUser` | two invariants. `AddressInv`, for sign-ins one after another: once somebody signed in with an address, its index record or its mail identity leads to that user, and a sign-up that is under way (`Finishing`) leads there too. `WallInv`, for any overlap: an identity that never proved an address, the sign-ins by it and the users they drew lead to each other only |
| `BudgetCountsMail` | `BudgetIsMail` | `BudgetInv`: the counter is what went out in its window (`Tally`) and the charge of the request in flight (`Holding`); what a handler read in order to write it back is in the same relation. `LetterInv`: a mail of a request is in a box only after it was sent, so that sending adds one. The hard cases are a refund in a later window, which finds another counter and leaves it alone, and a day that refuses after the hour was charged |
| `EveryDeviceListed` | `DevicesListed` | `ListInv`: a stored session that is not indexed is `Awaited`, by a sign-in that has still to write its key or by a fill that has still to reach it, and whoever lists meanwhile scans (`Finds`). A repair deletes a key only of a session that is gone for good (`Kept`): the invariant has to say so of what every handler holds between its read and its write (`InHand`) |

| `DeviceTokenStaysLive` | `DeviceTokenIsLive` | four invariants. `HandInv`: what a hand-off gives is what was issued to the sign-in that parked it. `HoldInv`: who holds, stores or presents a token is the holder of its session, by the start or by the answer to a sign-in; with `RedeemInv`, a session has one holder (`OneHolder`). `TidyInv`: of the requests of a device at most one refreshes, from the read on the server to the new tokens in the store, and memory and store agree except between two writes. `LiveInv`: the stored secret is the device's, or after the write of the rotation that of the request that refreshes. `DeviceTokenIsLive` alone says nothing while a refresh is in flight, which is when the secret changes |

Model-checked only: everything under fairness (`EveryRequestAnswered`, `EveryCallAnswered`, `EveryRunEnds`, `EveryJobEnds`),
which is out of the prover's reach; and `OrganisationKeepsOwner`, because the check for the last owner (`accounts.js:555`) and an
acceptance (`invitations.js:149`) are not guarded against each other: a theorem would have to assume away that two owners are
lowered at once and that an owner accepts to be less, which is what goes wrong there. The run shows the check right
where owners are made and unmade one after another, next to the other requests. All
other safety and action properties of the passing runs are stated by theorems.

## What is not modelled, and why

* More than one slug: handlers of different slugs share no key.
* Timestamps, names, tags, place, geocoding, the zip container, PII stripping: no
  property depends on them. An archive that does not validate is a refused request.
* Explicit versions are numbers; the code also accepts other version strings and sorts them by its own rule.
* Callers that act for several accounts: a caller is the account it acts for.
* Lists of more than one page and lagging listings in `deleteall`: how far a listing lags is
  not something the code says.
* Account deletion is not composed with uploads: `AccountDeletion` has entries that nobody else writes, and its eventually
  consistent reads are up to date.
* `updateMe` and `updateUserNames` write a user record back whole and may bring an erased user back; names are not modelled.
* The mock and off modes of sign-in (`lib/auth/mock.js`, `off.js`), the content of mails, the checks of a provider's
  token: pure code or I/O.
* Of publishing: the first install of a plan, publishing under another name, deleting a plan, and an app
  that is closed in the middle of a request. Devices send bare slugs, as the client does.
* The MCP endpoint: it takes from the same limiter without giving back, and stores an artifact under a fresh id.
* What the app does before it has tokens: reading the store at start-up, pending sign-ins, opening the provider's page.
* `lib/mcp-compiler-bundle.js`, 26,870 lines, is generated from the Dart sources. It is most of the JavaScript here
  by length; the schedule in it is the one `ExerciseSchedule` models from `lib/models/schedule.dart`.
* Everything that only reads, and the components whose rows say so above.

## Plan

Done: catalog, accounts with handles, members and invitations, sign-in with sessions, limits and devices, timer, publishing composed
with the catalog's uploads. Left, in order of what could go wrong most:

1. **Account deletion with the catalog**: `dropAccountOwnership` composed with the uploads of `DrillCatalog`, with reads that lag.
2. The rest of publishing: first installs, publishing under another name, deletion of a plan that is being published, restarts.
3. Runs for what is described above without one: two owners at once, the revival of an ended session, sign-out during a
   refresh, a hand-off collected twice at once, the index that grows, rounds that differ.
4. Smaller parts: display names (`updateMe`), the MCP endpoint's use of the limiter, which team meets which station.
