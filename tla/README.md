# Formal models of Apolla AI Studio

TLA+ models, TLC runs and TLAPS proofs for the parts of Apolla AI Studio that are
hard to test: everything that runs in the background, that several requests,
processes or pages touch at the same time, that must survive a crash, a retry or a
late message, or that decides something at a boundary. Paths are relative to the
repository's root; `core/` stands for `packages/harness-core/src/`, `bff/` for
`apps/bff/src/`, `pg/` for `packages/adapters/db/postgres/src/`.

## 1. Inventory

| part | state it keeps | operations | what is hard | what makes it correct | status |
|---|---|---|---|---|---|
| Job runner (`core/jobs/runner.ts`, `recovery.ts`) | job record, run-log rows | `start`, `run`, `reconcileJobs` | each `await` lets other calls in; a timeout leaves a generator alive; crash anywhere | settles once, for good, with its whole run-log and one true notification | modelled, proved (in process) |
| In-process queue, web server's life cycle (`core/jobs/queue.ts`, `bff/server.ts`) | dispatched ids | enqueue, dispatch, boot, shutdown | a stop does not drain; boot reconciles before it listens | no job runs twice, none is a phantom | modelled, proved |
| Event stream (`bff/server.ts`, `/api/jobs/:id/events`) | position in the run-log | poll, reconnect | two reads, a run or a crash between them | replays a prefix, ends with the job | modelled, proved |
| Distributed queue and worker (`packages/adapters/queue/redis`, `workers/job-worker`) | BullMQ job per id, worker phases | add, deliver, retry, start-up, drain | consumer live before reconciliation; redelivery; worker death | one executor per job, no mixed run-log | modelled, proved (safety) |
| Scheduler (`core/schedule/scheduler.ts`, schedule routes) | task rows with `lastRunAt` | tick, create, toggle, delete | list, trigger and save are apart; stale saves | fires once in each matching minute | modelled, proved |
| Subscriptions (`bff/server.ts`, `core/billing/`, `packages/adapters/payment/stripe`) | subscription, processed event ids, audit | webhook, cancel, admin plan | redelivered, overlapping, reordered events; crash between mark and apply | applied at most once; paid iff entitled | partly, proved |
| Agent and confirmations (`core/agent/orchestrator.ts`, `core/safety/policy.ts`, agent routes) | loop, `confirmMailbox`, audit rows | step, ask, answer, timeout, invoke | late answers, second stream, timer races, failing tools | no write without a grant, trail is the history | modelled, proved |
| Workspace (`core/workspace/`, `pg/workspace.ts`) | versioned rows, audit rows | write, rollback, AI edit | check-then-write, equal version numbers | dense versions, bounded overshoot, honest trail | modelled, proved |
| Accounts (`bff/auth.ts`, `account.ts`, `core/auth/`, `packages/adapters/auth/oauth`, `Login.tsx`, `Settings.tsx`) | users, sessions, second factor, links, states, challenges, tokens, passkeys | five ways of signing in, enrolment, logout, deletion | read-modify-write of one record; requests under a deletion | a proof signs in once; nothing of a deleted user is live | modelled, proved |
| Research orchestrator (`core/orchestrator/`, `core/tools/search.ts`, `fetch.ts`, `core/rag/retrieve.ts`) | task, sources, snippets, claims | plan, search, fetch, extract, compare, generate, deliver | two paths to a report, fallbacks, ids from several searches | a claim cites what was read | modelled, proved |
| Research tasks (`bff/server.ts`, `Research.tsx`, `Inbox.tsx`, `core/skills/executors.ts`) | staged requests, task rows, pages | ask, open the stream, rerun, list | the row is made late; streams and answers overlap; restart | bounded quota; a page shows its own task's text | modelled, proved |
| Gate, MCP, admin console (`bff/server.ts`, `security.ts`, `mcp-tools.ts`, `admin.ts`, `core/mcp-server/`) | token buckets, audit rows | the gates of a request, MCP methods, plan change | order of limits, quota, audit and call; refill arithmetic | the bucket bounds each window; the trail is of what was admitted | modelled, proved |
| Repositories (`core/repo/memory.ts`, `pg/`) | eighteen kinds of rows, twice | create, save, delete, mark, list | two implementations, tests on one of them | the same rows in both | partly, proved |
| Lists of the web application (`apps/web/src/pages/`, `bff/ui.ts`) | rows shown | click, call, load again | answers overtake each other, some fail | the list is current when nothing is under way | partly, proved |
| Surfaces and formulas (`core/surface/`, `Surfaces.tsx`) | documents | compute, add a column, summarize, translate | memo and cycle detection; versions between read and write | cells show what their formulas mean | partly |
| Streamed answers (`packages/adapters/llm`, `mcp`, `apps/extension`, `Chat.tsx`) | buffer, events | chunk, end | frames cut anywhere, lost ends | each event once, whole, in order | partly, proved |
| Cowork (`core/cowork/`) | sub-agent results, section files | plan, fan-out, merge, synthesize | a pool on one index; files that others write too | each sub-goal once, the brief of this run's sections | modelled, proved |
| Model router (`core/router/router.ts`, `keys.ts`) | attempts | `complete`, `json` | failover after a part was streamed | the text of one attempt; each key once; metered once | modelled, proved |
| Media (`core/media/`, `pg/media.ts`) | media task, ledger | submit, poll, host, meter, save | each event stream generates again; lost answers | metered iff delivered; a refused prompt costs nothing | partly, proved |
| Live collaboration (`core/collab/`, `Collab.tsx`) | RGA, op log, cursors, text area | insert, delete, `opsSince`, edit, event | any order, duplicates, delete before insert, lost posts | replicas converge; order is stable; a live tab catches up | partly, proved |
| Chat (`core/orchestrator/chat.ts`) | conversation row | turn with compaction | turns of two windows overlap; repeated compaction | only an overlap forgets a turn | modelled, proved |
| Cron expressions, document sharing, feature gate, ranking of notes, prices, observability, prompts, configuration, conversions | little or none | conversions, views | — | — | not modelled, see section 6 |

How they interact. A request passes the gates of `bff/server.ts` and reaches a handler
that calls the harness (`harness.ts`), which wires one instance of each component over
the repositories (Postgres, or memory when no database is configured). The scheduler
and the job routes call `JobRunner.start`, which saves a record and enqueues its id;
the queue calls `JobRunner.run`, in the web server or in a worker process; `run`
resolves the job's kind to an orchestrator (research, skill, agent, cowork), appends
its events to the run-log that the event stream polls, and at the end notifies the
owner. Research tasks that a page asks for are run by their own event stream, without
a job. The agent invokes tools, `fs_write` among them, which writes to the workspace.
Billing and the admin console decide the plan that the quota gate of `start`, `run` and
the task routes reads. Pages call routes and load their lists again.

The hazards are listed one by one, each at its line, in `PROJECT.json`.

## 2. Modules

| module | models | variables and the code they stand for |
|---|---|---|
| `JobRunner` | `runner.ts`, `recovery.ts` | `status` (jobs.status), `log` (job_events), `notes` (notifications), `call` (where a `start()` stands), `exec` (where each `run()` stands, between which awaits), `late` (generators that outlived their timeout), `runs` (history: executions begun) |
| `InProcessJobs` | `queue.ts`, start and stop of the web server | `dispatched` (detached runs), `server`, `stale` (the list `reconcileJobs` works through) |
| `JobPromise` | what the API promises of one job | `phase`, `told`: abstract, implemented by `InProcessJobs` |
| `JobStream` | the SSE loop, over `InProcessJobs` | `tail` (the loop), `sent` (its counter), `got` (what the client has) |
| `DistributedJobs` | RedisJobQueue and the worker, over `JobRunner` | `bull`, `tries` (BullMQ's job and `attemptsMade`), `worker` (phase of `main()`), `pending` and `stale` (its two lists) |
| `Scheduler` | `scheduler.ts`, schedule routes, minute timer | `row`, `tick` (the copies a tick listed and has to visit), `edit` (the copy a toggle read), `started` |
| `Billing` | webhook, cancel and admin routes | `provider`, `events`, `answered` (the provider's side), `processed` (billing_events), `sub`, `request` (a handler between its awaits), `applied`, `trail` |
| `Agent` | the agent loop, the confirmation routes, the background policy | `agent` (a run between its awaits), `mailbox` (`confirmMailbox`), `shown`, `answers` (on the person's side), `invoked`, `audit` |
| `Workspace` | guard, Postgres versions, rollback, writer | `files` (workspace_files), `writer` (a request between its awaits), `trailed` |
| `Collab` | `rga.ts`, `session.ts`, its routes, the web editor and its stream | `tab` (replica, text area, cursor), `log`, `server` (the session), `posts` (requests on their way), `typed`, `named`, `faults` (history) |
| `ModelRouter` | one call of `complete()` or `json()` | `keys` (usable per candidate), `call` (where the loops stand), `chunks`, `attempts`, `metered` |
| `Chat` | `chat.ts` and the conversation's row | `thread` (the row), `turn` (a turn between its awaits), `saves` (history) |
| `Media` | `media/orchestrator.ts` and `router.ts`, the row, the ledger | `asked`, `task` (the row), `viewing` (a run between its awaits), `generating` (the providers' side), `ledger` |
| `Cowork` | `core/cowork/` | `cowork` (where `run` stands), `pool` (the workers), `begun`, `results`, `sections` (files, by who wrote each version), `told` |
| `Accounts` | the account of one address: auth routes, stores, sign-in and settings pages | `user`, `mfa`, `passkey`, `identity`, `token` (rows), `session`, `proofs` and `open` (links, states, challenges), `request` (a handler between its awaits, with its copy of the record), `screen`, `signIns` (history) |
| `Research` | one run of the orchestrator | `stage` (where the generator stands), `sources`, `snippets`, `citations` (of the task), `pageOf`, `degraded`, `row`, `hits` (history) |
| `Tasks` | the routes of tasks and skill runs, `Research.tsx`, `Inbox.tsx` | `task` (staged, running, ended), `taskRows`, `wire` (the stream), `taskPage`, `inbox`, `ahead` and `overlaps` (history) |
| `Stores` | each repository in memory and in Postgres | `repo` (which one), `mem` and `sql` (its rows in either), `moved` (history: the keys of passkeys that a second owner registered) |
| `Gateway` | the gates, MCP, speech, the console | `req` (a request between its awaits), `bucket`, `clock`, `trail`, `taskCount`, `admitted` (history) |
| `Pages` | fourteen pages that list an owner's rows, and their routes | `stored` (rows), `shown`, `clicks` (calls and loads between their awaits), `taken`, `newest` and `disturbed` (history: which list was read last, which is shown, and whether anything was lost since) |
| `Sheets`, `Cells` | the surfaces' runs and sheet operations, for any evaluator; a sheet and its cells | `docs` (versions), `edits` (runs between their awaits) |
| `Formulas` | parser and evaluator (`core/surface/formula.ts`), and what a formula means | none: recursive operators that TLC's run gives to `Sheets` as `Computed` and `TableOf` |
| `Framing` | seven readers of a stream | `frames` (to be sent), `arrived`, `unread` (buffer), `got`, `outcome` |
| `*Proofs` | — | the proofs, section 5: `ServicesProofs` of scheduler, router, chat, billing, media and the composition of `MCServices`, `WorkspaceProofs` of workspace and cowork, `AgentProofs` of agent and collaboration, `PlatformProofs` of research, the readers of streams, stores, pages, gateway, tasks, spreadsheets and the composition of `Platform`, the others of the module they are named after; `Folding` is what they know about folds |
| `MCServices`, `Platform` | — | compositions: nine services, eight parts of the platform |
| `MCDistributedJobs`, `MCScheduler`, `MCAgent`, `MCPlatform` | — | instances for TLC |

Composition. `JobRunner` has no next-state relation; `InProcessJobs` and
`DistributedJobs` each extend it with a queue and a life cycle, as the two
implementations of `JobQueue` do. `JobStream` extends `InProcessJobs`: the stream's
reads interleave with the runner, a restart and a reconciliation. `MCServices` (nine
parts) and `Platform` (eight, checked as `MCPlatform`) each put parts that share no state in
one run: the initial state chooses one of them and only that one moves. That a part is
there what it is by itself is proved (`EachServiceIsItself`, `EachPartIsItself`).

Rules that hold for all modules. An action is the code between two awaits, since Node
runs it without interruption and anything may happen at an await. Where the order of
two awaits does not matter to any other actor they are one action. Definitions marked
*Seeded fault* are wrong variants of the definition that follows them, never part of a
specification: each property is checked to fail with one of them put in its place.

### What is abstracted

* Jobs: an orchestrator is a generator that yields up to `Events` events and may fail
  before any of them; the quota gate may say yes or no each time. Storage calls of the
  runner do not fail, and the repository is the Postgres one (the in-memory one loses
  everything with the process). A notification's webhook may fail after the row was
  written, which rejects `run()`.
* BullMQ is external: a delivery, a retry after a failure while attempts are left, a
  redelivery of an active job whose worker is gone, ids kept after the last failure,
  and an `add` of a known id that does nothing. False stalls (a live worker that
  misses its lock renewal) and `maxStalledCount` are not modelled; with one crash a
  job stalls once at most. No run therefore meets an unsettled job whose id BullMQ has
  kept as failed.
* Scheduler: `Due` is the set of matching minutes; `nextRunAt` is display only and left
  out; `run-now` starts a job and changes no scheduler state. `Ticks` is the set of
  ticks in flight at the same time.
* Billing: each provider event names its owner. The stub's checkout, which activates at
  once, and past-due periods are left out. `serial` tells owners whose provider sends
  one event at a time from those with the deliveries that a provider really makes.
* Agent: what the model picks and whether a tool succeeds, fails or throws is
  nondeterministic. A person answers a prompt while it is open, and the answer may
  arrive at any later time. The streams pass no `clarify`, so a question is never
  answered. A history field `by` names the prompt that a call was let through for.
* Workspace: one owner and project; a path is valid, or refused by
  `normalizeWorkspacePath`; contents are sizes. The insert is two steps, the snapshot
  that computes `MAX(version) + 1` and the row that the primary key may reject.
* Collaboration: `Names` are the random replica names, in the order of their text; a
  keystroke types or erases one letter anywhere; the server's loop may write an event
  at any length of the log. `ops`, the operations a replica has applied, is a history.
* Model router: a candidate without an adapter has no keys. Whether a request streams,
  breaks, validates or fails is nondeterministic.
* Chat: the characters of a message count as one; a message carries the turns it stands
  for, so that a summary is the union of what it replaces. `base` is a history.
* Media: `asked` says what moderation and the route make of the task, the same for every
  run of it; a provider may take a job whose answer is lost. The row and the ledger do
  not fail, and pauses between polls have no length.
* Cowork: the `subagent-start` events are part of the plan's; a sub-agent is its ending.
  Whoever else writes to a section (a sub-agent's `fs_write`, the owner, an earlier
  attempt of the same job) is `ForeignWrite`.
* Accounts: hashes, signatures and one-time codes are whether they match. A proof is a
  link, a state, a challenge or a recovery code; expiry is that it can no longer be
  redeemed. `way` fixes, for a behaviour, which way of signing in its browsers use.
* Research: a model answers anything of the right shape, a search finds any origins, a
  page is fetched, refused or redirected; a page is two passages, a file one. Prompts
  and wording are left out, and so is the ranking of notes and snippets.
* Tasks: the n-th question is task n; a report is the set of tasks its text is of. Of what
  can be done with a finished report only the verdict is there (`SendFeedback`), whose failure
  the page shows.
* Stores: a row is an owner, a key and a value; a repository is what its calls do to a
  row of a known key (append, keep, replace, or update its value and leave its owner), which
  calls it has and how it lists. The keys of `Chosen` come with a request or from a provider
  and may be known already; those of passkeys also to another owner, since the route does not
  look. What a deletion leaves is written
  as a fold (`LeftBy`), since nothing can be proved of the library's recursive `SelectSeq`.
* Gateway: one owner and one address; a token is two units, so that a tick may bring less
  than one; an event of an orchestrator is the field that its text is in. A task that is
  asked for is staged by one request and makes its row in another (`Route`, `RunStaged`).
* Pages: a row is absent, on or off; a page is when it loads again and what it does when a
  load fails; a copy is a row that is read, changed and saved as a whole.
* Sheets: a formula is a sequence of words, a number is whole and a quotient rounded
  down, `ROUND` and negative powers included; the model's text is a constant. `MeantTable` is the reference: what a formula means
  without memo, order or cycle set.
* Framing: a frame is the units at which a chunk can separate it: a field's name, two
  halves of a character, a line break. A `stray` frame is an answer to another call.

## 3. Runs

| run | module / cfg | question | bounds and why they are enough |
|---|---|---|---|
| `web_server` | `JobStream` / `MCJobStream.cfg` | Does the default deployment run each job once, keep its log whole, tell one true ending, implement the API's promise, settle every job, and replay the log to a client whose stream ends? | two jobs and two slots (a timed-out run of one beside a run of the other), two events (one before and one after a cut), one crash, one watched job |
| `distributed_steady` | `MCDistributedJobs` / `MCDistributedSteady.cfg` | Without process deaths, with the context handed to `run()` as its contract says: does each job settle once, and fail only on its last attempt? | two workers, two jobs, two attempts, timeouts; `ForwardCtx = TRUE`. With `FALSE` every attempt is the last and the retry would not occur |
| `distributed_crash` | `MCDistributedJobs` / `MCDistributedCrash.cfg` | With workers that start, crash, drain and come back at any time: one executor, one run per log, no phantom? | two workers, one job, one crash and one extra start: the crash may fall in every phase of either worker |
| `services` | `MCServices` / `MCServices.cfg` | Nine parts, one at a time | next table |
| `platform` | `MCPlatform` / `MCPlatform.cfg` | Eight parts, one at a time | next table |

| part | property: what it says | bounds and why they are enough |
|---|---|---|
| scheduler | `FiresAsScheduled`: each matching minute fires, and once, unless a tick was cut or a toggle came in between | two tasks, one of which anybody edits, three minutes, one edit, one cut tick; ticks one at a time, as the timer of one process makes them |
| billing | `AppliedOnceAndAudited`, `EntitledAsPaid` | three provider events, redelivered and out of order, two requests at once, one cut |
| agent | `WritesAreGranted`: every write has a grant of its own; `TrailIsTheHistory`; `RunsEnd` | two streams of one task, one background run, two steps each, a tool of each risk; streams and background one at a time (`Apart`), as they share only the history of calls |
| workspace | `OvershootIsBounded`: n requests at once exceed a quota by n − 1; `WritesAreTrailed`: versions are dense and the trail names stored ones | three writes, two at once, three paths, a quota of one file and three bytes with documents of one or two |
| collab | `Converges`: same operations, same text, in an order that no two replicas see differently, and the cursor skips nothing | two tabs and the server, two replica names, three keystrokes: an insertion and a deletion that cross, and a letter that hangs from an unknown one |
| router | `AnsweredByOne` | three candidates with none to two keys, two chunks, two retries |
| chat | `TranscriptIsWhole`: only an overlap forgets a turn | four turns in any overlap, compaction beyond four messages, two recent turns kept: sequential turns compact twice, so a summary is summarised |
| media | `MeteredAsDelivered` | two runs of a task, two providers, one extra poll |
| cowork | `BriefIsOfThisRun` | four planned for three sub-agents, two at once, one foreign write per section |
| accounts | `SingleUse`: no proof signs in twice, a recovery code under overlapping saves excepted; `DeletedMeansGone` | two browsers, three sessions, two proofs, one enrolment: two redeem one proof while a third session exists |
| research | `ClaimsAreBacked`: a claim cites shown sources and quotes of pages that were read, two for a corroborated one | two subquestions of two hits over three origins, two pages (so that two origins lead to one), one file |
| tasks | `OverrunIsBounded`: as many over the quota as were admitted without a row; `ShownIsItsOwn` | two questions under a quota of one, one cut stream or restart. `ShownIsItsOwn`: a page shows the text of the task it names, from the first request that it sends with nothing of an earlier one still to come |
| stores | `SameRows`: both stores hold the same rows, owners included, and list them alike where they order alike; a passkey that a second owner registers under the same id excepted | two owners, two keys, four writes: a conflict, of one owner or of two, a deletion and a new creation |
| gateway | `NeverMoreThanTheBucket`; `TrailIsOfTheAdmitted`: one audit row for each call let through, none for one turned away | two requests over two ticks, a bucket of one token and a half that fills by half a token: one that passes, one that is refused and one that the inflow admits |
| pages | `ListIsCurrent`: at rest the page shows the server's rows, if the list that was read last was shown last (always so where one click is allowed at a time) and nothing was lost after it was read | two rows, two clicks, one request that fails |
| sheets | `ComputedAsMeant`: what a run writes is what the formulas of the version it read mean | three cells of every content (cycles, errors, ranges, rounding, operators that group), two runs over one document |
| framing | `ReadAsSent`: every reader hands on, once and whole, the events whose frames have arrived; the MCP client over HTTP the first answer to its call, or to any if none is its own | three frames of every kind, cut at every unit, ended anywhere |

Each part also keeps its types (`ServicesTypeOK`, `PlatformTypeOK`).

Runs that end in a violation, each a disagreement between the code and what the
repository says of it (`findings` quotes the line):

| run | property | what the run shows |
|---|---|---|
| `start_up_runs_twice` | `NeverDoubleRuns` | The worker's consumer is live before it reconciles (`workers/job-worker/src/index.ts:17-23`): its own running job is marked interrupted, added again and run twice, with no crash at all. |
| `first_attempt_is_last` | `FailedOnLastAttempt` | The worker's handler drops the delivery context, so a job fails for good on its first attempt although attempts are left. |
| `late_answer_approves` | `ConfirmedAsShown` | The answer to a prompt that timed out approves the next call, which nobody confirmed. |
| `typed_elsewhere` | `SameTextEverywhere` | A letter typed after another tab's, at the same place, sorts after it, because ids are numbered per replica; the tab that typed it goes on showing it where it was typed. |
| `report_is_returned` | `ReportIsReturned` | The MCP tool `apolla.research` adds up a field that no event has, and answers without the report. |
| `sources_are_the_hits` | `SourcesAreTheHits` | Hits are numbered per search, so those of the second subquestion are dropped as duplicates of the first's. |
| `purge_leaves_nothing` | `PurgeLeavesNothing` | The deletion of an account leaves its passkeys. |

`CHECK_DEADLOCK FALSE` is set everywhere: a system whose jobs, ticks, events, calls or
requests are used up rests, and the bounds make that happen.

### Fairness

* `web_server`: the event loop runs what it has started, an orchestrator ends, a server
  that died is started again, the stream's loop goes on. Clients are not fair: nobody
  has to create a job or open a stream, and crashes need not happen.
* `distributed_*`: workers are supervised, their event loops run, BullMQ delivers what
  waits and redelivers what stalled. Requests, crashes and SIGTERM are not fair.
* `services`: the agent's loop, its model calls and the 60-second timer go on by
  themselves; the person need not answer. The other parts have safety properties only,
  and no fairness.

All fairness is weak: each of these is a thing that happens when it stays possible.

## 4. What the models show beside the properties

These follow from reading and modelling the code; the properties say what holds in
spite of them, and the hazards name the lines.

* The event stream reads rows, then the status: what is appended in between is not sent,
  and the stream of a job that stays interrupted polls until it is run again. A prefix is
  all that holds, and an end for the settled jobs.
* Two processes that tick at the same time both fire a task in the same minute.
* A renewal that arrives after the cancellation reactivates the plan; `EntitledAsPaid`
  asks for a provider that sends one event at a time.
* If `JOB_ATTEMPTS` and the delivery context were both in force, the generator of a
  timed-out attempt could append to the log of the retry. `RunsAreSerial` is checked and
  proved without timeouts for that reason.
* A passkey's id comes from the browser and nobody checks whether it is known: a second user
  who proves a key of his own under it takes the record over in memory, and in Postgres
  leaves `user_id` to the first, who goes on listing and deleting it, while a sign-in goes by
  the record and finds the second (`pg/repos.ts:235`, `core/auth/passkey.ts:79-81`).
* A tool that rejects ends an agent's run without an audit row for that call.
* An event of the payment provider is marked before it is applied: a crash in between loses
  it, and of two that cross the last to arrive holds.
* The save of a tick or a toggle brings back a scheduled task that was deleted meanwhile.
* Each `GET` of a media task's stream generates, and pays, once more.
* A page that asks again while an answer is under way may show one task's text under
  another's name until it asks anew, and a list whose loads crossed stays behind until the
  next load.
* The MCP client over HTTP takes the answer to another call if its own is not in the body.
* A BullMQ job whose worker dies twice is given up there (`maxStalledCount`); its record is
  marked interrupted at the next start, and its `add` is ignored.
* A recovery code can be used twice, or come back, when two requests save the whole
  second-factor record over each other.
* Staged tasks count against no quota until their stream is opened.
* Surfaces and AI edits write their result as the latest version whatever has been
  written since they read; versions make that recoverable.
* A toggle of a schedule saves the whole row that it read. The page's connector switch
  posts to a route that the server does not have (`apps/web/src/lib/api.ts:228`).
* The audit row of an MCP call says "executed" before the call is made.
* A reader of a stream takes an early clean end for success; the MCP client over stdio
  decodes each chunk on its own and waits for ever for a process that exits.

## 5. Proofs

Every theorem holds for every value of the constants that the named assumptions of its
module allow.

| module | theorem | property |
|---|---|---|
| `InProcessJobsProofs` | `Invariance`, `TypeCorrect`, `AtMostOneExecution`, `DoneLogsAreComplete`, `OwnersAreToldTheTruth` | `IInv`, types, `RunsOnce`, `DoneMeansComplete`, `ToldTheTruth` |
| | `SettledStatusIsFinal`, `PromiseKept` | a settled status is final; `ImplementsPromise` |
| | `StreamTypeCorrect`, `ClientsReadThePrefix` | `StreamTypeOK`, `ReplayIsPrefix` |
| `DistributedJobsProofs` | `TypeCorrect`, `NeverTwoExecutors`, `RunsComeOneByOne`, `FailsOnLastAttempt` | `TypeOK`, `OneExecutor`, `RunsAreSerial` (without timeouts), `FailedOnLastAttempt` (when the attempt is known) |
| `ServicesProofs` | `FiresOnTime`, `OneAttemptAnswers`, `NothingAnsweredIsForgotten` | `FiresAsScheduled` (one tick at a time), `AnsweredByOne`, `TranscriptIsWhole` |
| | `EventsApplyOnce`, `PaidMeansEntitled`, `DeliveredIsMetered` | `AppliedOnceAndAudited`, `EntitledAsPaid`, `MeteredAsDelivered` |
| | `EachServiceIsItself`, `ServicesKeepTheirTypes`, `ServicesKeepTheirPromises` | the composition: each service's specification, `ServicesTypeOK`, all its safety properties |
| `AgentProofs` | `NoWriteWithoutGrant`, `EveryCallIsRecorded` | `WritesAreGranted`, `TrailIsTheHistory` |
| | `ReplicasConverge` | `Converges` |
| `WorkspaceProofs` | `WritesLeaveTheirTrail`, `OvershootIsByFew`, `BriefsAreOfTheirRun` | `WritesAreTrailed`, `OvershootIsBounded`, `BriefIsOfThisRun` |
| `AccountsProofs` | `AccountsTyped`, `ProofsAreUsedOnce`, `DeletionLeavesNobody` | types, `SingleUse`, `DeletedMeansGone` |
| `PlatformProofs` | `ClaimsRestOnSources`, `ReadersHandOnWhatArrived` | `ClaimsAreBacked`, `ReadAsSent` |
| | `BackendsAgree`, `PagesShowWhatIsStored` | `SameRows`, `ListIsCurrent` |
| | `BucketBoundsEveryWindow`, `TrailHasTheAdmitted` | `NeverMoreThanTheBucket`, `TrailIsOfTheAdmitted` |
| | `QuotaIsOverrunByFew`, `PagesShowTheirOwn` | `OverrunIsBounded`, `ShownIsItsOwn` |
| | `RunsAnswerForWhatTheyRead` | `ComputedAsMeant`, of an evaluator that is right about each version by itself |
| | `EachPartIsItself`, `PlatformKeepsItsTypes`, `PlatformKeepsItsPromises` | the composition: each part's specification, `PlatformTypeOK`, all its safety properties |

Four theorems have a hypothesis. `RunsComeOneByOne` asks that no generator outlives its
timeout (`~Timeouts`), because one that does appends to the log of the run after it.
`FailsOnLastAttempt` asks that the delivery context reaches `run()` or that there is one
attempt, the default of `JOB_ATTEMPTS`; without either the code fails on the first
attempt (run `first_attempt_is_last`). `FiresOnTime` asks for one tick at a time, which is
what the timer of one process makes; two processes fire a minute twice (section 4).
`RunsAnswerForWhatTheyRead` has the evaluator as a parameter and asks that it be right about
the versions that there are (`EvaluatesAsMeant`), which is what TLC checks of the real one;
the theorem is about the rest: documents that others write while a run computes. The two
theorems on the promises of a composition inherit these conditions.

The arguments.

* In process. None of the properties is inductive: a state in which two slots hold one
  queued job satisfies them all and leads to two runs. What the code relies on is that a
  job has a *token*: its `start()` call until that has enqueued, then the dispatch, then
  the slot. `OneToken` says there is one; `CallMatches`, `SlotMatches`, `LateMatches` and
  `DownMatches` say what record, log and notifications hold at each place of the token,
  what a timed-out generator may still touch (jobs already failed) and that nothing of the
  old process is left during a restart. `IInv` is their conjunction with the properties
  and the types; TLC checks it as an invariant of `web_server` too. The proof has one lemma
  per action of the runner and of the host. The refinement takes the record's status as
  the phase and the notification row as what the owner was told, and rests on `IInv`.
* Stream. With `IInv`, a log only grows while a stream may be open on it, so what was
  read stays a prefix; a stream closes only on a settled status, which is final.
* Distributed queue. BullMQ holds one job per id and hands it to one worker:
  `OneDelivery` says that a slot that executes a job has its delivery. `SerialInv` adds
  that a log is what the run that holds the job wrote since it cleared it; `AttemptInv`
  that BullMQ's count is the number of the attempt a slot is in, so that a run that ends
  a job as failed knows that it is the last one.
* Scheduler. What a task fired is compared with what it owes: `DueIsCovered` says that a
  matching minute of a task that nobody edits, once its tick has begun, has fired, is
  among what a tick has still to visit, or was cut; `RepeatsAreOwed` that each firing
  beyond the first is paid for by a cut or a toggle; `LastHasFired` that the `lastRunAt` of
  a row, and of each copy that a tick or a toggle holds, names a minute in which it fired.
* Model router. `OfThisAttempt`: the chunks a caller has are those of the attempt under
  way; `OnAKey`: it is with a key that the candidate has; `AttemptsAreBefore`: what was
  tried are all candidates and keys before it, each key once.
* Chat. `ThreadInv` gives the row its shape (system prompt, at most one summary, whole
  turns) and follows each saved turn in it from save to save: `Kept` is the property with
  the saves so far as a parameter; `TurnInv` ties the copy that a turn read to the number of
  saves it has seen. Compaction, on any such row, keeps the shape and every turn.
* Subscriptions. The id of an event is marked before it is applied and never again, so an
  event has at most one carrier (`OneCarrier`), and is applied by it alone (`Uncarried`).
  For the plan: where events come one at a time the answered ones are the first k and
  nobody handles another than the next (`InTurn`), so the row says what the last event that
  was applied says, unless one was marked and lost (`Stored`).
* Media. A run holds a generation from its submission on (`Held`) and is in the ledger
  from its metering on (`Entered`).
* Agent. `GrantInv`: each prompt is in one place only (on a screen, in a travelling
  answer, in the run that was let go on, in a call that was made), and none is there
  before its run came to it. `TrailInv` relates the position of a run to its rows.
* Workspace. `NumbersAreNext`: a number that a request computed may be taken by the time
  it inserts, and then the primary key refuses it, but it never leaves a gap. For the
  limits the property alone is not inductive: a request that is past the guard adds later.
  `RoomIsShared` counts those requests with the files; for the bytes, `BytesAreShared` says
  that the limit holds of every set of rows that the present entries may become once the
  requests past the guard have inserted, in any order and with any of them refused.
* Cowork. `PoolHandsOut`: the sub-goals that were begun are those below the common index,
  each by one worker; `SectionsAreWritten`: a section is read only after this run has
  written it, so what is read is its version or one that somebody else added later.
* Research. Evidence is kept once per id and does not change once pages are fetched; a
  fetched page remembers the one origin it was requested for (`PagesAreRequested`), so a
  quote always has a source to show, and quotes of two pages have two.
* Collaboration. `CollabInv` has these parts. Each replica's state is what the set of its
  operations says (`Reflects`), whatever order they came in and how often. The operations
  that exist anywhere, in a replica, the session or a request, hang together
  (`AllSound`): one insertion per id, and no cycle, said as "every set of places has one
  from which none of the others hangs". That stays so because a tab's next id is mentioned
  nowhere yet (`Issued`, `OwnNames`). A cursor and the session's log account for what a
  tab has (`Delivered`, `NothingLost`). The order of two places, `Precedes`, is then defined from
  the operations alone, an ancestor first and the larger sibling first; it has no two
  directions (`BeforeIsOrder`), and the walk by which a replica makes its text exists
  (`WalkExists`) and follows it (`ShownInOrder`). So replicas with the same operations
  show the same text, and no two replicas show two letters in different orders. TLC checks
  the consequence, `Converges`, and not `CollabInv`, which speaks of sets of any operations.
* Readers of streams. What a reader holds, buffer and events, depends only on how many
  units have arrived and not on where the chunks were cut: the fold over a chunk is the fold
  over its units, so `FramingInv` says that a reader is where it would be after that many
  units (`ReadTo`). Each unit is buffered, skipped, or ends a frame and hands it on (`ReadsOn`),
  so at each frame's end the events are those of the frames so far; of these the client over
  HTTP picks one at the end (`FirstAnswer`). `FramingInv` is stated with
  functions on all the naturals; TLC checks its consequence, `ReadAsSent`.
* Accounts. A proof is in one place: redeemable, in one request, or in one sign-in
  (`SpentOnce`, `CodesAreTheUsers`). What a request of a session still holds is the
  address's present user (`ActsForUser`), so a deletion that nothing overlaps takes it all.
* Platform. `StoresAgree`: two stores that hold the same rows in the same order, up to the
  keys in `moved`, go on doing so; an update that leaves the owner is a replacement because a
  row that is met has the owner of the entry (`OfAnother`), passkeys excepted, and those keys
  are set apart for good. `Refreshed`: unless something was lost
  since, the newest list that was taken is what the server has, and it is on its way, shown or
  overtaken by an older one (`Overtaken`), or a newer one is going to be read; `OneAtATime`: on
  a page of one click at a time there is one load, the newest. The bucket is an
  account: what was admitted since a request, and what is left, came from a full bucket
  or from the inflow since. `TrailInv`: a request has one row exactly if it was let
  through. `AdmittedByQuota`: the tasks that have a row or wait for theirs, those
  admitted ahead of a row excepted, are within the quota; `PageFollows` and
  `InboxFollows`: as long as no request overlapped, a page's text grows by the one stream
  that it listens to (`PageListens`), or is the one report that it waits for (`AwaitsOne`). `AnswersForIt`: a run that
  computes has read a version that stays, since a document only gets new ones, and the
  version it wrote is the evaluator's answer for that one.
* Types and compositions. The types say more than what a variable is: counters stay within
  bounds that other parts of the state imply. A page reads no more lists than it has made
  calls, since each loads once (`LoadsAreCounted`); a research run that searches has a
  subquestion left to count (`SubquestionsAreCounted`); the clock is an upper bound of what
  the bucket has seen. A composed step is a step of the part in focus and of no other
  (`NextIsOfEach`), and the initial state of each part is one of its own, so that the
  composition implies each part's specification and inherits what is proved of it; only a
  spreadsheet has its initial state just where it is in focus, which never changes
  (`FocusStays`).

Induction over data. Sums of bytes, the merge of evidence and the folds of the community
modules are recursive functions, and the induction theorems of the library take an
operator, which the provers cannot instantiate. The lemma `Smallest` (a non-empty set of
naturals has a least member) replaces them: a claim about a fold is proved from its
smallest counterexample, once a lemma has shown that the function the fold chooses exists
and that two such functions agree (`SumsExist`, `SumsAgree`, `FoldsExist`, `FoldsAgree`, and for a replica that applies a
list of operations `FoldedRuns`, `StepByStep`). For the walk of a document, which descends
a tree of any depth, the counterexample is a place in a set from which no other member hangs.

Only model-checked.

* Liveness (`EveryJobSettles`, `StreamEnds`, `NoPhantomRunning`, `RunsEnd`): fairness and
  `ENABLED` are out of the prover's reach.
* That the evaluator of formulas is right, the rest of `ComputedAsMeant`: it descends an
  expression and is recursive, as is its meaning, and `Formulas` declares both as recursive
  operators; that they agree is an induction over data.

## 6. Not modelled

* Cron expressions (`core/schedule/cron.ts`): a pure function; `Scheduler` takes its
  result as the constant `Due`.
* Document sharing (`core/collab/access.ts`) and presence: single reads and updates of a
  map.
* The feature gate (`core/router/featuregate.ts`), prompts, configuration and contracts:
  static choices.
* Prices and sums of the cost ledger; the ranking of notes and passages; chunking, export
  and archives; CSV quoting: arithmetic and conversions of text.
* Observability and metrics: they record and feed nothing back.
* The requests of the provider adapters, the bodies of the file and MCP tools: I/O. The
  cutting of their streams is in `Framing`.
* Layout and navigation of the web application and the extension.
* Restarts of a media generation and its staging routes; the checkout of the stub
  payment provider; past-due periods; storage calls of the job runner that fail.

## 7. Plan

Done, in this order: the job runner on its own queue, its promise and proofs; the
stream; the distributed queue; scheduler; billing; agent; workspace; collaboration; model
router; chat; media; cowork; accounts; research; tasks; repositories; the gates and MCP;
the pages; surfaces and formulas; the readers of streams; then the proofs, of every safety
property that a run checks, but the part of `ComputedAsMeant` that is the evaluator's, and
of the two compositions (section 5).

Left, most useful first: an atomic write as the abstract specification of `Workspace`;
storage failures in the runner; restarts of `Media`.
