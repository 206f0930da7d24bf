# SMSPit in TLA+

SMSPit captures the SMS messages an application under test would send, stores
them instead of delivering them, and shows them in a dashboard. This directory
holds TLA+ specifications of its services, the TLC runs that check them on
small instances, and proofs that TLAPS checks for instances of every size.
Paths below are relative to the repository.

## The system

```
 clients, SDKs ──> gateway ──────────> sms-service ──────> PostgreSQL
 dashboard  ────>  (Go)     \          (NestJS)   │ \          ^
   ^                │        \                    │  └> ai-service (FastAPI)
   │                v         └──> auth-service ──┼────────────┘   ^
   │            auth-service       (Laravel)      v                │
   └──── WebSocket /ws ◄───────── sms-service   Redis ──> worker ──┘
                                                stream     (Go)
```

| Part | State it keeps | Operations | Talks to |
|---|---|---|---|
| gateway (`gateway/`) | one fixed-window counter per tenant, in memory | check the API key, limit, proxy | auth-service, sms-service |
| sms-service messages (`sms-service/src/messages`) | `messages` table | create, list, export, find, replay, set spam, delete | PostgreSQL, ai-service, realtime, queue |
| sms-service realtime (`sms-service/src/realtime`) | map from open socket to organization, in memory | connect, disconnect, broadcast | auth-service, dashboards |
| sms-service queue (`sms-service/src/queue`) | one Redis connection | publish | Redis |
| sms-service templates, statistics, provider adapters | `templates` table; none; none | CRUD; counts; webhooks that capture | PostgreSQL |
| worker (`worker/`) | place in its loop, the batch in hand, counters | create group, read, classify, acknowledge, stop | Redis, ai-service |
| auth-service (`auth-service/`) | `api_keys`, `organizations`, `organization_user`, `teams`, `team_user` | create, validate, revoke and rotate keys; create and delete organizations; teams | PostgreSQL, Redis (metrics) |
| ai-service (`ai-service/`) | none | detect OTP, classify, detect spam, generate test data | – |
| dashboard: inbox (`dashboard/src/pages/InboxPage.tsx`, `hooks/`) | list, token of the last request, socket | list, live updates, retry | gateway, sms-service |
| dashboard: administration (`OrgContext`, pages of organizations, templates, API keys) | selection (also in `localStorage`), lists, open forms | switch, create, rename, delete; save; revoke, rotate | gateway, auth-service |
| SDKs (`sdks/`) | none | one HTTP request per call | gateway |

What makes them hard:

* **queue** – several workers on one consumer group, each of which may crash,
  be told to stop, or lose a reply, with a Redis that goes away and may come
  back empty. Correct: no entry goes to two workers or is counted twice, none
  is acknowledged before it was processed, what waits is handed out.
* **messages** – every handler is several statements without a transaction,
  across which a message, or its whole organization, may be deleted. Correct:
  a message never changes tenant, no tenant sees another's, a confirmed capture
  is kept.
* **accounts** – checks and writes are separate statements and a PHP process
  may die in between. Correct: keys, owners, teams and organizations stay
  consistent, a revoked key stays revoked, only admins change an organization.
* **live inbox** – responses and events in any order, sockets that break while
  being authenticated, pages that are left. Correct: the list shown is never
  replaced by an older one and includes every message announced.
* **capture pipeline** – one capture needs six services, the key is validated
  twice, and each service may refuse, hang, die with the request in hand or
  come back. Correct: who is refused has nothing stored, ai-service and a
  refusing Redis never make a stored capture fail, every attempt ends.
* **dashboard's lists and forms** – loads overlap, responses come in any order,
  a handler goes on after its `await` with the values of an old rendering, and
  another tab writes the stored selection. Correct: an edit and a confirmed
  deletion go where they were typed for, the selection exists, lists show what
  the database has.
* **export and statistics** – several reads of a table that changes. Correct:
  what does not touch the part already read does no harm.
* **rate limiter** – boundaries of time windows and roundings, and a tenant
  taken from headers. Correct: the quota holds, no organization spends
  another's, and `Retry-After` suffices.

`PROJECT.json` lists each hazard at its line, with the properties that cover it.

## Modules

| Module | Models |
|---|---|
| `JobQueue` | abstract specification: an at-most-once job queue |
| `WorkerQueue` | Redis stream, group and pending list; sms-service's publisher; the workers |
| `WorkerQueueProofs` | theorems about `WorkerQueue` |
| `RateLimiter`, `MCRateLimiter` | the gateway's limiter |
| `MessageStore`, `MCMessageStore` | sms-service's messages API over PostgreSQL |
| `LiveInbox`, `MCLiveInbox` | realtime gateway, socket hook, inbox page |
| `Accounts`, `MCAccounts` | auth-service's keys, organizations and teams |
| `CaptureContract` | abstract specification: what a client that sends a capture may rely on |
| `CapturePipeline` | one capture through all services and the provider adapters, with failures |
| `OrganizationsPage` | `OrgContext`, the switcher and the organizations page, over auth-service |
| `AdminPages` | the pages of templates and API keys and the template picker, over their APIs |
| `Reports` | the export and the statistics over a table that changes |
| `Ranking` | the n-th number of a finite set, for lists that are in order |
| `MCDashboard` | the pages and the reports, side by side, for TLC |
| `RateLimiterProofs`, `MessageStoreProofs`, `AccountsProofs`, `LiveInboxProofs`, `CapturePipelineProofs`, `OrganizationsPageProofs` | theorems about the module of that name |
| `DashboardProofs` | theorems about `AdminPages`, `Reports` and `MCDashboard`, and lemmas about `Ranking` |

An `MC` module only defines the sets and functions that the configuration gives
to the constants. A definition whose comment says *Variant* is not part of the
system: it is the definition that follows it with a plausible mistake in it,
and putting it in that one's place makes TLC refute the property paired with it
in `PROJECT.json`. So each property is known to tell the code from a wrong one.

### WorkerQueue

`publisher[p]` is the state of the ioredis client (`lazyConnect`,
`retryStrategy: () => null`), `pc[w]` the place in `Consumer.Run` and
`readAndProcess`, `batch[w]` the entries of the last `XREADGROUP` that are not
done. `EnsureGroup`, `Loop`, `ReadEntries` / `ReadNothing` / `ReadFails`,
`Wake`, `Process` and `Ack` are the statements of that loop in order; `Sigterm`
cancels the context, which makes `Classify` fail, `XACK` not be sent and the
loop end. `given`, `acked`, `skipped` and `lost` are history.

Redis is external. It is reachable or not, and comes back with all its data or
with none (`deployments/k8s/redis.yaml` mounts no volume). A context cancelled
while a blocking read is on its way does not recall it, so the read may still
return entries. Stopped workers are started again by the deployment. All
replicas use the consumer name `worker-1` by default; Redis then keeps one
pending list, as the model does.

### RateLimiter

A request has a key and the `X-Org-Id` it was `sent` with, if any. `XOrgId` is
what `RequireAPIKey` makes of that: the key's organization when it has one,
otherwise what was sent, which stays. `TenantKey` names the bucket from it, and
`Admit` and `Refuse` are `allow` under its mutex. The clock advances by ticks,
also between `allow`'s two readings of it. `admitted` and `promised` are
history: each request let through with its instant, the tenant whose key sent
it (`TenantOf`), the `X-Org-Id` it went on with and a number that tells it from
others like it; and the last 429. They are kept apart from the buckets, so that
a request counted in the wrong one shows.

### MessageStore

`request[c]` is the handler a client has in progress: the step it takes next
and the values it has read. Each database statement is a step. TypeORM's `save`
is two: it selects the row by its primary key alone, then inserts it or updates
the columns in which the entity differs from that row. Hence a row deleted
between `findOne` and `save` is inserted again. `DestroyOrganization` is
auth-service's `DELETE`, with what the foreign keys do. Of the message the
model keeps organization, spam verdict and `replayed_from`.

### LiveInbox

`side[t][n]` is what the replica knows of the tab's n-th socket: `validating`
(`handleConnection` waits for auth-service), `registered`, `orphan`
(disconnected while validating) and `stale` (registered after it disconnected).
`link[t]` is the browser's side of the newest socket, `token[t]` `InboxPage`'s
`retryToken`. Messages of an organization are counted and not deleted, so a
number stands for a list. When auth-service cannot be reached,
`handleConnection` rejects; Node may end the process for it, which is a `Stop`
right after `ValidateThrows`.

### Accounts

As in `MessageStore`, a request is a sequence of statements and may die between
any two. Several reads are joined in one step where the rows they read are
changed by nothing but the deletion of the organization, which the foreign keys
then turn into an error of the write. Eloquent's `save` writes the attributes
that were set and no others. `unmanaged` records the organizations whose
creation died before `attach`; the property allows just these.

### CapturePipeline

`at[c]` is the step a request has reached in whichever service holds it,
`verdict[c]` the answer of auth-service on its way back, `pending[c]` the
detectors `create` waits for, `client[c]` and `answer[c]` what the caller sees.
A service is `up`, `down` (refuses, and what it had in hand is gone) or `hung`
(accepts and does not answer). `Stop` applies what the death of a process does
to each request: its own end, those that wait for it get an error, and
sms-service does not notice that its caller is gone. `RecordMetrics` runs after
auth-service made its response and writes to Redis, so a refusing Redis turns
a valid key into a 500, which the gateway reports as a 401. `Limit` admits or
refuses at will: `RateLimiter` says when. `Detect` never fails and never waits
for ai-service, because `AiClient.post` turns errors and two seconds of silence
into `null`; the variants are the same function without its catch or timeout.
Of a body it matters whether its fields are there and whether the text or a
number is too long, which the native API and each adapter judge differently, and
the columns once more (`FitsColumns`): MessageBird's and Vonage's fields have no
limit, so a number of more than 255 characters gets as far as the `INSERT` and
ends in a 500. The `INSERT` and its reply are one step; a reply that is lost
after the commit is left out. The contract allows for it: the client would hear
of an error, which promises nothing.

`CaptureContract` is the same without the services: an attempt is open until it
is stored or comes to nothing, and its client hears of a success, a refusal, or
that nobody knows. `StateOf` and `ToldBy` map the one to the other; an attempt
counts as open as long as some process has it that is not past the insert, so
that a proxy which sends it again would be seen to break the contract.

### OrganizationsPage

`listed`, `orgsLoading` and `selected` are `OrgContext`'s state, `stored` the
entry in `localStorage`, which another tab may change. `orgCalls` holds each
request from the click to its handler: `sent`, then `ok` with what the server
answered, or `failed`. A handler knows the values of the rendering it was
clicked in (`org`, `typed`, `pin`), and whether its form is still mounted.
`Shown` says what the page displays. Forms keyed by the organization lose their
text when the selection changes, and the others keep it, as React does:
`teamText` is the organization a team's name was typed for, and may differ from
the one it is submitted for.

### AdminPages

The three pages have the same shape and are one module with three initial
states: a list that is loaded once and patched by each write's response
(templates, the picker) or loaded again after each write (API keys). `FindOne`,
`FinishUpdate` and `FinishRemove` are the two statements of sms-service's
`update` and `remove`; as in `MessageStore`, a save may insert again what was
removed. `loadRun` is the effect run that is not cancelled. The page is the only
writer in the model: the lists are not told of what another tab, another user or
an API key of the organization writes, and show it when they are loaded again.
`ListIsCurrent` and `KeysShowConfirmed` are about the page's own requests.

### Reports

A message is its place in the order of `created_at` and `id`. `ReadBatch` is
one query of the export with `skip` and `take`; it goes on until a batch is not
full. The statistics are three counts. `pulled`, `pushed` and `lost` record
whether what happened in between touched the part already read; `Foreign` are
the messages of other organizations, which no report may contain. A message that
`setSpam` inserts again (see `MessageStore`) acts here as an insertion, and the
deletion of the organization as deletions; neither is an action of its own.

`MCDashboard` puts `OrganizationsPage`, `AdminPages` and `Reports` into one
run. They share no state, so it does not interleave them: a behaviour is one of
the three, chosen at the start, while the others rest.

## Runs

| Run (configuration) | Question | Bounds |
|---|---|---|
| `worker_queue_safety` (`WorkerQueueSafety`) | no double delivery, no double count, every entry accounted for; implements `JobQueue`; what waits in a live group is handed out | 2 workers, 1 publisher, 3 captures, batches of 2, 2 faults |
| `worker_queue_group_retry`, `worker_queue_shutdown`, `worker_queue_outage` | three promises of the documentation that the code does not keep | 1 worker, 1–2 captures, 1 fault |
| `rate_limiter` (`RateLimiter`) | quota, isolation of organizations, `Retry-After` | 3 keys of 2 tenants, headers that name either of 2 organizations or none, limit 2, window of 3 ticks, seconds of 2, 8 instants, 5 requests let through |
| `rate_limiter_header` (`RateLimiterHeader`) | documentation: identity headers cannot be spoofed | the same |
| `message_store` (`MessageStore`) | tenants stay apart, nothing confirmed is lost | 3 keys, 1 organization and the ungrouped bucket, 2 messages, 2 requests at a time |
| `message_store_cascade` (`MessageStoreCascade`) | documentation: deletion cascades | the same |
| `live_inbox` (`LiveInbox`) | the inbox is current, never goes back, shows what was announced | 2 replicas, 1 tab, 2 messages, 2 sockets, 2 faults |
| `accounts` (`Accounts`) | keys, members, teams and organizations stay consistent; only admins make changes | 2 requests at a time, 2 users, 2 keys, 2 organizations, 1 team |
| `capture` (`CapturePipeline`) | which failures reach the client, what is stored when, every attempt ends; implements `CaptureContract` | 1 capture by any of 5 routes, 3 detectors, 3 faults |
| `dashboard` (`Dashboard`) | organizations page, lists with forms, reports | 3 organizations of which 2 exist, 1 team, 4 operations; 3 rows of which 2 exist, 2 texts, 4 acts; 4 messages of which 1 foreign, batches of 2 |

Why these bounds are enough for the cases that matter: three entries in batches
of two give a full and a partial batch, two workers with entries in hand, and
an entry left waiting; two faults give a crash after an outage, a lost reply
after a crash, a restart under a cancelled context. Two messages give an
original and its replay, and two requests any race of two handlers, with the
deletion of the organization as a third party. In the limiter the times reach
over two whole windows, and a second does not divide the window, so roundings
bite; five requests are one more than twice the limit. In the inbox two sockets give one that is closed while another is live,
and two faults a failed request during a reconnect. In the accounts two keys
give a rotation, and two requests a rotation against a deletion. One
capture is enough in the pipeline: captures have no state in common but the
health of the services, and three faults give a service that fails, comes back
and fails again while the request is between its checks. Three organizations
give one that is deleted, one that is created with the name of another, and a
switch between the two; four operations a switch, an edit, a deletion and a
failure. Four messages in batches of two give a full batch, a partial one, and
an insertion or deletion on either side of the boundary. Much of the safety does
not depend on the bounds: it is proved.

`MaxCaptures`, `MaxFaults`, `MaxTime`, `MaxPause`, `MaxMessages`, `MaxRequests`,
`MaxConnects`, `MaxKeys`, `MaxOrgs`, `MaxTeams`, `MaxOps` and `MaxActs` are
bounds of the models, not of the code. `Count`, `Limit`, `Window`, `Second` and
`BatchSize` are the code's 10, 300 a minute, a minute, a second, and 500.
`MessageStore` and `Accounts` use symmetry of clients, in runs without liveness.
The deadlock check is off where the system may rest: a dashboard that was left,
with all messages captured, a capture that has its answer, a page whose user is
done.

What the runs found is in `PROJECT.json` under `findings`: a worker that starts
before Redis never gets its group; a stopping worker abandons its batch; one
outage silences a publisher for good; a deleted organization's messages
become visible to ungrouped keys; an `X-Org-Id` sent with a key that has no
organization is neither overwritten nor removed, and the limiter counts the
request for whom it names.

## Fairness

`WorkerQueue`: each worker process keeps taking its steps and is restarted when
it stopped (a Kubernetes deployment or compose's restart policy), and an outage
of Redis ends. No capture and no fault has to happen. `LiveInbox`: the browser
runs the handlers of responses and events, the API answers one way or the
other, replicas are restarted; no one has to capture, press retry, or close a
page. `CapturePipeline`: services that are up take the steps they can, and the
timers of clients that have one go off; nothing has to recover, so a client
without a timeout may wait for a hanging service for ever, which
`EveryAttemptEnds` excepts (never for ai-service). The other modules state
safety only.

## Known behaviour

Besides the findings, the code does these things. The models have all of them
except those of the last item and the reconnect delay, and no property forbids
them:

* A Redis outage makes auth-service answer 500 and hence the gateway 401, for
  every request with a key (`RecordMetrics`), though `docs/troubleshooting.md:24`
  and `docs/redis.md:15` describe an outage as lost jobs only.
* A reload checks the stored selection, which another tab may have changed, and
  not the tab's own (`OrgContext.tsx:54`): a tab may keep an organization that
  is gone, and show nothing. An edit that ends after the deletion of its
  organization selects none, and the page is blank as well (`:48`).
* A team that was just created disappears when a load of the teams was under
  way, and is appended to another organization's list when the user has
  switched meanwhile (`TeamsAreOfSelection` excepts it).
* A save or a deletion that ends closes whichever template form is open
  (`TemplatesPage.tsx:101`, `:118`).
* A team's name typed under one organization stays in the form when the
  selection changes, and is created in the other (`CreateTeamForm` has no key,
  `OrganizationsPage.tsx:118`).
* A template that is removed while it is updated comes back.
* An organization whose creation dies before its admin is attached stays, and
  nobody can see or delete it (`OrganizationController.php:25`).
* Replicas of sms-service do not share broadcasts: a message is announced to the
  dashboards connected to the one that captured it (`realtime.gateway.ts:55`),
  though `docs/production-deployment.md:37` calls the service stateless.
* A socket that closes while its token is validated stays in sms-service's map
  (`realtime.gateway.ts:41`).
* A key without an organization gets a bucket of its own for every `X-Org-Id` it
  names, so the limit binds it only when it sends none. (sms-service does not
  read the header: it asks auth-service for the key again.)
* A MessageBird or Vonage request with a number longer than the column is a 500.
* The export skips rows when earlier ones are deleted, and repeats rows when
  earlier ones are inserted.
* After a lost socket nothing is fetched again (`useMessageSocket.ts:43`), and
  a key that is refused with 4001 is retried without growing delay, because
  `onopen` resets it (`:29`).
* The list orders by `created_at` alone (`messages.service.ts:71`); the stream
  is never trimmed (`queue-publisher.ts:37`); a bucket is never removed from the
  limiter (`ratelimit.go:75`).

## Proofs

Each theorem holds for all values of the constants that satisfy the named
assumptions of its module, which TLC evaluates too: any sets, finite or not, and
any bounds. The shape is the same everywhere: an invariant `Inductive` of
named parts, one lemma per action (or group of similar actions) that the step
keeps it, `Invariance`, and the properties as consequences of it.

**`WorkerQueueProofs`** – `TypeCorrect`, `SharesAreDistinct`,
`EntriesAreCountedOnce`, `NoEntryUnaccountedFor` (which joins
`AcksFollowProcessing`, `HeldEntriesArePending` and `RedisBooksBalance`), and
`QueueImplementsJobQueue`, the refinement. That two workers never share an entry
needs that everything handed out lies behind the group's cursor, or in a stream
that was lost (`GivenIsBehind`), for the cursor only moves forward while a group
lives, and numbers of captures are never reused after a loss (`MarksInOrder`).
That an entry is counted once needs that an entry in hand has not been
attempted, except the first one while its acknowledgement is due
(`AttemptsInOrder`), and that idle workers hold nothing (`IdleHoldsNothing`).
`PendingIsBehind` ties the pending list to the cursor. The refinement uses
`Inductive` as well: a step that delivers is a `Take` of entries that were
waiting, the loss of a stream a `Drop`, a crash an `Abandon`.

**`RateLimiterProofs`** – `WaitingIsEnough` rests on
`PromisesOutlastWindows`: what a refused client was told reaches to the end of
the window that refused it, which needs the second added to the whole ones.
`AtMostTwiceTheLimit` and `RefusalsAreEarned` rest on two facts about each
bucket: it counts exactly the requests that were routed to it since its window
began (`BucketsFit`), and never were more than twice the limit routed to it in a
stretch of a window's length, for that meets at most two windows
(`BucketsAreBounded`). The lemma `Routing` says whose requests those are,
whatever `X-Org-Id` was sent: those of an organization's keys are always in its
own bucket, an owner's bucket has only what his keys sent without the header,
and an organization's bucket may also have what keys without one named it in.
So the two theorems bound what a tenant's own keys get, and except, as the code
does, what keys without an organization do under a name of their choice.

**`MessageStoreProofs`** – `MessagesStayWithTheirOrg`, `ReplaysStayInTenant` and
`TenantsSeeTheirOwn`. A row may be deleted, inserted again, or lose its
organization between two statements of a handler. What survives is that the
entity a handler holds belonged to the asking organization when it was read,
and that it differs from the row only when the organization is gone; then the
foreign key refuses to insert it. `ConfirmedMessagesAreKept` adds what a message
on its way to a 201 is at each step (`KeptFits`): kept before it is announced,
announced before it is answered; that a save writes it back, or inserts it
again after a deletion, takes nothing from that.

**`AccountsProofs`** – seven properties from what each handler still knows at
its next statement: the owner a key will get was a member of its organization
and memberships only end with it (`OwnerFits`), `revoked_at` as
loaded is never newer than the row (`LoadedFits`), a rotation's source lost its
organization only with this (`SourceFits`), an authorized user is an admin as long as the organization
exists. `Evolves` says what any step may do to the rows, so that each handler
needs to be looked at once. `OrganizationsHaveAdmins` and `OnlyAdminsMakeChanges`
are proved step by step from `Inductive`.

**`CapturePipelineProofs`** – for any number of captures and of failures at the
same time: `RefusedCapturesAreNotStored`, `CapturesDoNotNeedAi`,
`RedisHalvesNoCapture`. The invariant says three things of each capture:
where it may be given what is stored and what its client knows (`Consistent`);
that an answered client has nothing left in the services as long as only
ai-service and Redis failed (`Settled`); that a valid key is judged valid as
long as only ai-service failed (`Granted`). Every failure a service shows is
among the `troubles` recorded, so that the last two are about histories and not
about the moment. `PipelineKeepsContract` is the refinement, whatever fails:
`Consistent` says which abstract action a step is. A step of one capture is the
abstract action of that one and leaves the others' states alone (`OneAttempt`,
`OthersAreSame`); a process that dies is one `Lose`, of all the requests it
had in hand and all the clients it was answering. `RefusedCapturesAreNotStored`
is no property of a run by itself, for the contract says it too (`Refuse` ends an
attempt that is not stored and never will be).

**`OrganizationsPageProofs`** – `FormsWriteToTheirOrg`,
`SelectionStaysListed` and `ShownTeamsAreOfSelection`. The edit and deletion
forms on screen belong to the selection, whatever changed it (the team form need
not, and its calls are excepted); the stored selection is the selected one unless another tab wrote
it; a response fits the request it answers, so that the last reload to come
selects something it lists. A response with teams has those of the organization
it was asked for, and only the run that is not cancelled was asked for the
selection (`TeamsFit`).

**`DashboardProofs`** –

* *Lists with forms*: `PatchedListsAreCurrent` and `AnsweredKeysAreShown`. A
  list is right about a template unless a request about it is on its way whose
  order with another matters; so the invariant speaks about pairs of requests
  (`PairsFit`: two that clash are both marked; one save at a time where the form
  is disabled; nothing is sent about a template whose creation is not answered
  yet) and about each request alone: an undisturbed write that was served is
  what the table has (`WriteFits`), the rows of a load are right about all that
  was not written meanwhile (`LoadFits`), the list is right about what has no
  served write on its way (`ListFits`), and an id that is not in use is
  nowhere (`UnusedIsUnseen`), so that a created row appears once. For the keys, what
  was answered is in the table, in the rows of the load that counts, and on
  screen (`KeysFit`).
* *Reports*: `ExportsAreFaithful` and `CountsAddUp`. The offset of the export is
  the number of rows up to the last one exported (`OffsetFits`), no
  more unless one was deleted there and no less unless one was inserted there:
  the next batch then starts right behind it. The lemmas about `Ranking`
  (`RankTaken`, `NthFits`, `NthGrows`, `NthOfRank`) turn places in a list into
  ranks in a set.
* `DashboardTypeCorrect` and `DashboardIsCorrect` carry these, and those of
  `OrganizationsPageProofs`, over to the specification that the run checks.

**`LiveInboxProofs`** – `ListsNeverGoBack`, `SettledPagesAreCurrent`,
`LeftPagesAreSilent`. The response that is not cancelled, once there is one,
was read after everything shown and everything the tab heard of
(`AnswerIsCurrent`): each event cancels what was asked before it. Events come in
the order of the messages (`ListsFit`). A tab has sent at most one request more
than it had events and faults, which types the tokens.

Only model-checked: liveness (`WaitingIsHandedOut`, `BroadcastIsShown`,
`EveryAttemptEnds`), for TLAPS does not reason about fairness and `ENABLED`
here. Every invariant and every other action property of the passing runs is the
subject of a theorem. What a recursive definition computes over data is
out of the prover's reach; the modules declare no recursive operator, and lists
in order are defined by rank (`Ranking`) for that reason.

## Not modelled

* ai-service's detectors and its generator of test data: stateless functions,
  to the other services an answer or a failure.
* Filters and the pages of a list; what an export row looks like; the
  translation of provider fields; variables in templates.
* The dashboard's `TeamCard`, `MessageDetailPage`, `StatisticsPage` and
  `ComposePage` beyond the calls they make: they load once or write and show the
  answer. Toasts, themes and layout.
* Metrics (except where they fail a request), tracing, configuration, CORS.
* Deployments, scripts and documentation, which are used as the reference for
  what restarts and what is promised.

Also abstracted: texts, names, scopes, secrets, and times except in the limiter.
`PROJECT.json` gives the reason for each component.

## Plan

Done: the job queue with its abstract specification; limiter; messages; live
inbox; accounts; capture pipeline; templates, export and statistics; the
dashboard's administration; theorems for every invariant and action property.

Left, in this order:

1. **Abstract specification of the store** – a set of messages per tenant with
   atomic operations, and how far `MessageStore` implements it.
2. **Detectors** – OTP, spam and category as operators over token sequences,
   checked against reference definitions.
3. **Composition** – the publisher of `WorkerQueue` under `CapturePipeline`'s
   failures, with several captures.
