# A verification of the Scrumban backend and its agent

This directory holds TLA+ models of the Scrumban backend (NestJS, Postgres through Prisma, Redis
through BullMQ) and of the agent it drives on remote machines, the TLC runs that check them on
small instances, and proofs that hold for every size. Paths are relative to the repository:
`src/...` is the backend, `agent/src/...` the agent, `docs/...` the documentation. (In
`PROJECT.json` every path is under a further `src/`, the directory the repository is kept in.)

Contents: [1 Inventory](#1-inventory) · [2 Hard behaviours](#2-what-makes-this-system-hard) ·
[3 Modules](#3-the-modules-and-the-code) · [4 Runs](#4-the-runs) · [5 Fairness](#5-fairness) ·
[6 Proofs](#6-the-proofs) · [7 Divergences found](#7-where-code-and-documents-disagree) ·
[8 What is not modelled](#8-what-is-not-modelled) · [9 Plan](#9-plan)

To check a model: `tlc -config LifecycleApproval.cfg MCExecutionLifecycle`. To check the proofs:
`tlapm ExecutionLifecycle_proofs.tla`.

## 1 Inventory

The system turns tasks of a Kanban-like board into runs of Claude Code on a customer's machine,
puts dangerous runs behind a human decision, and tells the world what happened.

| Component | State it keeps | Operations | Talks to | What makes it correct |
|---|---|---|---|---|
| **Execution pipeline** `src/executions` | a DPedido row per execution; its state is one JSON column, `dados`, beside the column `aprovado`; a BullMQ job per execution | execute, worker: preflight, RUNNING, dispatch, fail | approval, agent client, tasks, event bus | nothing runs that was not cleared; a cleared execution is handed over and ends; the row tells the truth |
| **Approval flow and sweeper** | the same row | approve, reject, expire every minute | queue, event bus | one decision, never taken back; late requests expire; events are true |
| **Engine** `src/engine` | DPedido, DEvento through DVFS classes | create the pedido, write the outcome | Prisma | a whole-row write does not undo what somebody else wrote |
| **Remote execution client** | requests under way | send, wait for an ACK up to 30 s | the agent, over an SSH tunnel with HMAC | a refusal, a loss and a timeout are told from an acceptance |
| **Agents service** `src/automation/agents` | agent rows, `dados` with token hashes, last heartbeat, port | record a result, heartbeat, revoke, status sweeper, install tokens, port allocation | pipeline, tasks | a result is recorded once; online means a recent heartbeat; an install token and a port are used once |
| **Links, provisioning, deploy keys** `src/automation/project-agent` | a DVincula row per project and agent, with `tipo` and `metaDados` | link, unlink, provision, generate and revoke keys | agent | one primary agent; a slug and a revocation are not undone; no unlink under a running execution |
| **Agent: run handler, reports** `agent/src/handlers`, `agent/src/outbound` | a mutex per project, runs, reports with retries | accept or refuse, git pull, run, report | backend | one Claude per project; a run does not depend on another |
| **Agent: lifecycle** `agent/src/lifecycle` | timers; the cost, day and pauses of the cache warmer | heartbeat, warm, shutdown | backend, Claude | the warmer keeps to its daily cap and ends after stop(); a clean end |
| **Agent: HTTP server** `agent/src/server` | nonces seen | verify, dispatch | backend | a request is accepted once |
| **Agent: tunnel** `agent/src/tunnel` | the autossh child, the times of its crashes, four timers | start, exit, reconnect, open the circuit, stop | autossh, systemd | one child, never one beside a timer that would start another; it comes back |
| **Agent: git, ssh, env** | files | clone, keygen, write env | machine | external programs decide |
| **Event bus** `src/eventos/core` | a breaker per consumer, retry timers, all in memory | emit, route, call, retry, restart | consumers | no consumer costs another its events; emitters are not held |
| **Consumers** `src/eventos/consumers`, `src/realtime` | DEvento rows, notifications, sockets | handle one event | Prisma, sockets | they either succeed or fail |
| **Webhook delivery** `src/webhooks` | a DTabela row per webhook (`dados`: `disabled`, `failureCount`, …), DEvento rows, a BullMQ job per attempt | fan-out, attempt, record, retry, auto-disable, update, redrive, delete | remote endpoints | disabled only after enough failures and not silently; attempts follow failures |
| **Tasks** `src/tasks` | DTask rows with parent, project, `idStatus` and `dados` (state, identifier, timers); a counter row per project | create, move in the tree, delete, change status and cascade, start and stop timers, detect a complete phase | projects, event bus | identifiers without duplicates or gaps, no cycle, no orphan, one open timer, no write lost, completion announced when true |
| **Projects, members, folders** `src/projects`, `src/entidades` | DProject rows in a tree, a link to a team; a mirror DEntidade per project, whose key is in the project's `dados` and in a cache, and the DVincula rows (manager, member, folder) about it | create, update, duplicate, move, delete, change the team; add a member; put into a folder, remove the folder | tasks, teams | no cycle; one team, one folder and one mirror for a project; no row about it that its readers cannot find or that outlives it; a copy has the shape of the original |
| **Backfill scripts** `prisma/scripts` | – (they write the rows of old projects) | make missing mirrors, move rows from the project's key to the mirror's, report | the same tables as the application | a row is moved to its own project's mirror (a duplicate's to its original's) or reported; running again does no harm |
| **Auth: sessions** `src/auth` | one row per account: hash and expiry of the refresh token | login, refresh, change the organization, logout | – | an ended session stays ended; nobody is refused or taken for a thief for nothing |
| **MCP keys** `src/mcp` | a DTabela row per key (-472), a payload in Redis for 30 s | generate, validate and stamp, revoke; delete as any row | guards | a revoked key is refused |
| **Organizations, teams, invites** | memberships, teams with a prefix and members, invitations | add, remove, change roles; create and delete teams and organizations; invite, accept, cancel | e-mail | an administrator remains, a member is a member once; a prefix names one team, a deletion leaves nothing; an invitation works once |
| **Pairing, Telegram channel** `src/channels` | pairing codes, links of a user and a chat, a Redis key and a DEvento per update | generate, consume; receive an update, look its user up, record it, route it | Telegram, tasks | a code pairs one chat, a chat has one link; an update is recorded once and acted on in the name it was recorded with |
| **Authorization** | – | decide from memberships | every controller | a query without state |
| **Flow metrics, forecast** `src/flow-metrics`, `src/forecast` | – (they read DTask and the DEvento rows of status changes) | the cumulative flow diagram (CFD), throughput, times, age of work, Monte Carlo | audit consumer, tasks | the diagram shows for each day the statuses the tasks had |
| **MCP tools, AI chat, GitHub, dashboards, CRUD modules, e-mail, seeds** | rows without protocol, caches with a time limit | front ends, reads, single writes | the services above | see `PROJECT.json`, `components`, for each |

How they interact, on the path the models follow:

```
manager ──execute──▶ ExecutionsService ──INSERT──▶ DPedido ◀──UPDATE── approve / reject / sweeper
                          │ LOW                        ▲  ▲                    │ approved
                          ▼                            │  │                    ▼
                     BullMQ queue ◀────────────────────┼──┼──────────── queue.add(id)
                          ▼                            │  │
              ExecutionRunProcessor ──RUNNING, FAILED──┘  │ outcome
                          │ RUN_CLAUDE_CODE               │
                          ▼ ◀── ACK                       │
                   agent: mutex, git pull, Claude ──callback, up to 5 times──▶ AgentsService
                                                          │
   every step emits ──▶ EventProducer ──breaker──▶ audit, notification, realtime, webhooks
                                                                                  │
                              BullMQ job per attempt ◀── WebhooksHookService ◀────┘
```

## 2 What makes this system hard

* **Read, wait, write back everything.** Most state sits in one JSON column. The code reads it,
  awaits something (a query, a POST, an SSH round trip) and writes all of it back, with the
  isolation READ COMMITTED and without a version. Whatever was written meanwhile is undone. This
  is the recurrent hazard: the worker's failure path, the outcome of a callback, the failure
  count of webhooks, `update` and `redrive`, the timers of a task, the stamp on an MCP key, the
  sweeper of silent agents, provisioning.
* **Two processes and an ambiguous ACK.** A worker that gave up on the ACK does not know whether
  Claude runs. A result can come after the row was failed, twice, or never.
* **At least once.** BullMQ hands a stalled job out again, and the first worker may still be alive.
* **Crashes between two writes.** The row and the job, the UPDATE and the event, the attempt and
  its retry are not written together.
* **State in memory.** Breakers and the timers of event retries die with the process.
* **Concurrent decisions.** Two managers, and the sweeper, about one execution.
* **Check, then write.** A cycle, a duplicate, the last administrator, an open timer and a pending
  invitation are looked for in one statement and written in another, mostly without a lock.
  Almost every promise of the CRUD side holds only as long as certain requests do not overlap;
  the question is which ones, and the properties answer it (section 4).
* **Promises nobody awaits.** The status cascade and the detector of complete phases run on after
  the request was answered.
* **Two names for one thing.** A project is known by its own key and by that of its mirror; rows
  are written under one and read under the other, through a pointer in JSON and a cache of five
  minutes.
* **History told by events.** The flow diagram replays the events of status changes, which are
  dated when they are recorded, maybe after one another or the next day, and cascades emit none.
* **Timers against events.** The tunnel's child, its exit event, four timers and `stop()`; ticks of
  the cache warmer that outlast the interval.

`PROJECT.json` lists each hazard at the line where it bites, with the properties that would catch
it, or the reason why there is none.

## 3 The modules and the code

Conventions. A handler is cut at its awaits: one action from one await to the next, because
JavaScript runs to completion between them. Handlers of HTTP requests, cron jobs, workers and the
agent interleave freely. A local copy the code keeps over an await is a `snap` in the handler's
state. The small operators said in their comment to be slips are plausible wrong versions of the
operator next to them; no action uses them; they serve to show that each property can fail.

### ApprovalGate

What the gate of executions promises, with no queue, process or network: an execution is queued
at once or awaits one decision, the decision is final and expires only after its deadline, and
the agent starts only what was queued or approved. It is the abstract specification of the next
module.

### ExecutionLifecycle

| Module | Code |
|---|---|
| `dados`, `aprovado` | `DPedido.dados` (`approval.status`, `statusCode`, `claude.finishedAt`, `audit.outcome`) and its column |
| `Create`, `EnqueueCreated` | `ExecutionsService.execute`: INSERT, then `enqueue` when the risk is LOW |
| `DecisionRead/Update/Emit/Enqueue` | `ApprovalFlowService.approve`, `reject`: status check, conditional UPDATE (409 on no row), event, `queue.add` |
| `SweepRead/Update/Emit` | `ApprovalFlowSweeperService`: `findMany` of 100 rows without order and the filter in memory, the UPDATE that checks again, the events for every row *read* |
| `TakeJob`, `PreflightFails`, `MarkRunning`, `Announce`, `Dispatch`, `PayloadInvalid`, `AckArrives`, `AckFails` | `ExecutionRunProcessor.process`, in the order of the code |
| `FailRead`, `FailWrite`, `EmitFailed` | `finishExecution`: reads `dados`, writes all of it back, emits |
| `Stall`, `Release` | BullMQ: lock lost, job handed out again up to `maxStalledCount`; a job completes only for the worker that still holds it |
| `AgentAccepts/Refuses`, `RunEnds`, `PullFails` | `run-claude-code.handler.ts`: the mutex per project, 409, Claude's end (mutex freed *before* the report), a failed `git pull` (mutex held *during* the report) |
| `Report`, `ReportTimesOut`, `ReportGivesUp` | `backend-client.ts`: attempts, 10 s timeout, 4xx or last attempt throws |
| `ResultRead/Write/Publish` | `AgentsService.recordExecutionResult` and `registrarOutcome`: read, whole-row write, task and event, 200 |
| `MoveTask` | `updateStatus` as both ends of a run call it; for an execution in `Unmovable` it may fail, which the callers log |
| `BackendCrashes`, `AgentCrashes` | what lives in one process is gone, the rest stays |

A dispatch is identified by the execution and how often its job had stalled when a worker took it.

### EventBus

`Emit` is `addInternalEvent` up to its first await: the router names the consumers and every
breaker is asked in the same turn. `Succeeds`, `Fails` are the two ends of a consumer's call,
`RetryFires` a timer of `IntelligentRetryService`, `Return` the end of `Promise.allSettled`.
`Admits`, `Asked`, `AfterSuccess`, `AfterFailure` are the circuit breaker, half-open for
everybody as in the code. `Rest` and `WindowSlides` are the passing of the 30 s and of the 60 s
window; time itself is not measured, so both may happen at any moment. A failed call goes back to
`backoff` every time, because each failure schedules a retry as attempt 1. `failing` is auxiliary:
no action reads it.

### WebhookDelivery

`Choose` and `EnqueueFirst` are the fan-out (the webhooks are read, then jobs added), the actions
of `ProcessorStep` are `WebhookDispatchProcessor.process`: load, POST, record in one transaction
from the copy read before the POST, schedule the next attempt under the id delivery-attempt, or
announce the auto-disable. `Read`, `Update`, `Redrive`, `Delete` are the manager's requests. A
crash fails or redelivers the active jobs. `givenUp` and `streak` are auxiliary counters that
state the properties; no action reads them. `announced` means that the event was emitted or that
its failure was logged, for the code logs and goes on when the project cannot be read.

### TaskNumbering, TaskTree, TaskDados, PhaseProgress

| Module | Code |
|---|---|
| `FindCounter`, `InsertCounter`, `UpdateCounter`, `Commit`, `RollBack` | `getNextIdentifier` inside the transaction of `TasksService.create`: a plain SELECT, an UPDATE that waits for the row lock but writes what was computed before it |
| `CreateBegin`, `MoveBegin`, `Climb`, `CheckProject`, `CreateWrite`, `MoveWrite` | `create` and `update` of a task with `idPai`: `validateNoCycle`, one SELECT per ancestor, `validateProjectConsistency`, the write |
| `DeleteBegin`, `SoftDeleteCascade`, `Unlink` | `TasksService.delete` with and without `cascade`; the recursive query of `softDeleteCascade` |
| `StatusRead`, `CascadeRead`, `StartRead`, `CloseRead`, `UpdateRead`, `WriteBack` | the five writers of one task's `dados`, each with the copy it read |
| `StatusWrite`, `CascadeFind`, `CascadeWrite` | `updateStatus` and the breadth-first `cascadeStatusToDescendants` it does not await |
| `DetectorRead/Compute/Save/Emit` | `detectPhaseCompletion`: snapshot, one counting query, save when changed, `phase.completed` at 100 |

`overlapped`, `seen`, `raced` and `wasComplete` are auxiliary: they remember what overlapped or
happened, so that a property can say under which circumstances a promise holds; no guard reads
them. Changing a task's phase through `update` with both a parent and a status is two requests
here. `Percent` is the code's `Math.round`.

`TaskDados` has both columns a status is in, `v3.state` of `dados` and `idStatus`. A subtask is
created with the column of its parent and the state INBOX, `updateStatus` keeps the old column when
the project has no row for the new status, a cascade leaves the column of a descendant alone when
the parent has none, and an edit whose `dto.dados` has `v3` or `telemetry` replaces them with
anything (`replace`): so column and JSON may differ without any race. `apart` remembers that the
last write of the state left them so, `replaced` that such an edit happened; the properties are
about everything else.

### Sessions, McpKeys, Memberships, Teams, Invites, ProjectTree

`Sessions` is the row of one account. `RefreshFinds` and `RefreshMisses` are the controller's lookup
by hash over at most a thousand rows: a token that is in no row read is refused there, and nothing is
revoked. `Validate` is the second look, in `AuthService.refresh`; only a token replaced between the
two is taken for reuse and revokes what is in the row. `Login` and `SwitchOrg` come with no refresh
token, the second behind the guard of the access token, whose own expiry is `AccessExpires`, and
`EndSession` is a logout or a new password. `Issue` and `Revoke` are the two writes of the row,
`Answer` the response that reaches the client or is lost, `Age` the passing of the expiry. The
comment of `rotate` asks for a transaction; its callers open none, so the model has none. Nothing
else writes `dados` of an account, the endpoints of the older key service all answer 410.

`McpKeys` are the rows of class -472. `CheckKey`, `FillCache` and `Touch` are `validatePlaintext`: the
row is read, then the payload cached, then the whole of `dados` written back with a new `lastUsedAt`,
not awaited; `RevokeKey`, `DisableKey`, `DeleteCache` are `revoke`. `DeleteTabela` is the generic
endpoint, which takes the row and knows nothing of the cache, `PayloadExpires` the 30 s. The older
guard of X-MCP-Key reads the same rows without a cache (`HeaderAccepts`).

`Memberships` has one action per statement of `addMember`, `updateMemberRole` and `removeMember`,
and `DeleteMe` of the auth service. `Teams` does the same for the teams of one organization:
`CreateBegin` and `ChoosePrefix` are the two reads of `TeamsService.create`, `CreateWrite` its
transaction; `Manage` the check of `requireLeadOrAdminRole` that every other request begins with;
`DeleteTeam` and `DeleteOrg` the two cascades, the second over teams read before its transaction.
All teams have one name, so that a prefix is the name or the name with a number, as `create` makes
it; a prefix that is asked for is any of these. Who is an ADMIN of the organization is left to
`Memberships`: any request may be an ADMIN's while the organization lives. `Invites` follows one
e-mail address: `AcceptFind` to `AcceptCommit` are the statements of the one transaction of
`acceptInvite`, in READ COMMITTED. `ProjectTree` has the recursive queries as the least sets closed
under the parent (`Ancestors`, `Below`), which is what PostgreSQL computes when there is no cycle.
An update that changes the parent and the team at once is modelled as two kinds of request. `told`,
`upset`, `mishaps`, `crossed` and `happened` are auxiliary as above.

### ProjectHandles, TemplateCopy

`ProjectHandles` is the project under its two names. `pointer` is `dados.entidadeRefId`, `cached`
the `forwardCache` of `ProjectRefService`, and a row of `vinculos` carries beside the `handle` it was
written under an auxiliary `of`, the project it was meant for. `EnsureRead` and `EnsureMirror` are
`ensureEntidadeRefById` and its transaction; `CopyProject` is the part of `cloneTree` that copies
`dados`; `MoveLooks`, `MoveCommits` and `DeleteLooks`, `DeleteCommits` are the two ends of a
transaction in READ COMMITTED, between which other requests commit. A legacy project begins
without a mirror and with rows about its own key. `astray` remembers, for each project, the mishap
that befell it: copied, two mirrors, a pointer written back, two moves at once, a row written for
what was being deleted.

`TemplateCopy` is `copyPhases` and `copyTasks` of `cloneTree`, each one query ordered by parent and
key with one map from originals to copies, while people work on the source list before, between
and after the two.

### Backfill

The two scripts that move the rows of old projects to their mirrors, one for DVincula and one for
DTabela; they differ in the table, in what they report, and in the two columns the first goes
through. A run keeps in `script` what the script keeps in memory: the pointers and rows read at the
start of each phase, the map from projects to mirrors, the report. Keys are numbers, because the
point is that a project and an entity may have the same: both columns are foreign keys to DEntidade
since the first migration, so a row about a project's key exists only where some entity has, or
had, that number. Beside the runs move a request that needs a mirror, finds it in the cache or
alive, or makes it, and writes any rows about the project (`AppReads`, `AppWrites`); the creation of
a project and the duplication of one (`Create`, `Duplicate`), whose copy of `dados` has the pointer of
the original, which is taken if that mirror is alive; the
two older scripts, which still write the project's key (`LegacyTabela`, `LegacyVinculo`), new
entities, and the generic endpoint that deletes an entity of any class. `of` and `source` are
auxiliary: the project a row was written for, and the one whose mirror a project began with.

### ChatPairing

`ReadCode`, `MarkCode`, `FindLink` and `Pair` are `PairingService.consume`, called by a request or
by the command `/pair`; the UPDATE that marks a code waits for another transaction that holds the
row. `ReceiveUpdate` to `RouteMessage` are `TelegramWebhookService.handleUpdate`: the Redis key (which
lets an update pass when Redis fails) and the rate limit, `findByChat`, the DEvento with the write
of `lastSeenAt` over the `metaDados` read before, and the router, which looks the user up again.
Telegram may deliver an update any number of times. `recorded`, `pairedBy` and `clashes` are
auxiliary.

### AgentStatus, AgentInstall, AgentLinks

`AgentStatus`: a heartbeat writes back the row its guard read (`BeatBegin`, `BeatWrite`,
`BeatEmit`), the sweeper the row it read in its own transaction (`SweepRead`, `SweepWrite`,
`SweepEmit`); ages replace the clock, and both may be late. `AgentInstall`: one transaction with
the two locks of the code, the row of the one-shot token (`SELECT … FOR UPDATE`) and the advisory
lock of the ports; what a transaction did is seen only when it commits. `AgentLinks`: `Locked`
requests (`linkAgent`, `unlinkAgent`) take the project's advisory lock, `attach` and `detach`
(`AgentsService.linkProject`, `unlinkProject`) do not, and `Outbound` requests (provisioning and
deploy keys) hold a copy of `metaDados` while the agent works.

### CacheWarmer, Tunnel

`CacheWarmer`: a tick awaits the warm itself and the pause between two projects, `Tick`, `Warmed`
and `Wake` are what lies between, and several ticks may be under way. `Midnight` and `StopWarmer`
fall anywhere. `spent` adds what the warms begun on a day report, `width` the most that ran at
once. `Tunnel`: the closure of `createAutosshWrapper` with its child and its timers; `ChildEnds` is
the process, `ExitEvent` the handler of its event, which may be late. Spawning works, throws or
gives a child without PID, and the machine may change its mind; `AgentRestarts` is systemd.

### FlowHistory

`CfdService.calculate` over the rows the audit consumer wrote. `column` is the task's status,
`emitted` what was written and is not recorded yet (from the write in `updateStatus` over the
emission and the event bus to `AuditLogConsumer.handle`), `journal` the DEvento rows in the order of
`criadoEm`. `CountOn` is one number of the diagram: `Replayed` are the events read, `StatusOn` the
replay up to the end of a day, `ExistedOn` the filter by the task's birth. A period is one of
Brazilian days and the diagram counts days of UTC, so a day is two parts, its first three hours and
the rest. `columnAt` and `strayed` are auxiliary: what was true at the end of each part, and the
tasks whose events were lost, overtaken, recorded on a later day, or never emitted.

### MC modules and proof modules

`MCExecutionLifecycle`, `MCWebhookDelivery` give the constants of functions for TLC.
`MCEventRetry` adds a counter of calls to `EventBus`. `MCEvents`, `MCTaskBoard` and `MCPlatform`
extend several modules that share no variable: a variable `part`, chosen at the start, says which of
them moves in a behaviour, so one run explores the instances one after the other and not their
product. Two parts of one module are two instances of it, for instance a run of one script beside
everybody else and one of both. A property of a run that ends in `Sound` is the
conjunction of the named properties at the end of its module; `TreesSound` is `TreeSound` of
`TaskTree` and `ProjectsSound` of `ProjectTree`, `AccountsSound` is `SessionsSound` and `KeysSound`.

The theorems are in `ExecutionLifecycle_proofs` and `ExecutionOutcome_proofs` (the lifecycle),
`Events_proofs` (`EventBus`, `WebhookDelivery`, and both together), `Accounts_proofs`
(`Memberships`, `Sessions`, `McpKeys`, `ChatPairing`), `Projects_proofs` (`ProjectHandles`,
`ProjectTree`, `AgentLinks`), `Board_proofs` (`TaskNumbering`, `TaskDados`, `TemplateCopy`,
`FlowHistory`, `TaskTree`, and all of `MCTaskBoard`), `Fleet_proofs` (`AgentStatus`, `AgentInstall`)
and `Platform_proofs` (`Tunnel`, `CacheWarmer`, `Invites`, `Teams`, `PhaseProgress`, `Backfill`, and
all of `MCPlatform`).

## 4 The runs

| Run | Instance | Shows |
|---|---|---|
| `lifecycle_approval` | one gated execution, two managers, sweeper, one worker, two callback attempts, one crash of either process | `DispatchGate`, `AprovadoMatches`, `EventsTruthful`, `HandedOver`, `DecisionFinal`; the pipeline implements `ApprovalGate` (`ImplementsGate`); under fairness `AwaitingResolves`, `ClearedEnds` |
| `lifecycle_redelivery` | one LOW execution, two workers, one stall: two dispatches of it at once; moves of its task fail or not | `OneClaudePerProject`, `SuccessIsReal`. Workers are symmetric: the two invariants name none |
| `lifecycle_expired` *(violated)* | one manager, the sweeper | `ExpiredTruthful` |
| `lifecycle_outcome` *(violated)* | one worker, one callback | `OutcomeKept` |
| `lifecycle_agent` *(violated)* | two projects on one agent | `RunOutlivesOthers` |
| `lifecycle_starvation` *(violated)* | two gated executions, a sweeper that reads one row, fairness | `AwaitingResolves` |
| `events` | two events, a shared and a private consumer, breaker of two failures, one restart; one webhook, two deliveries of three attempts, threshold two, one manager, one stall, one crash | `TrialUnderWay`, `RefusalsEarned`, `EmitterResumes`, `HealthyDelivers`; `DisabledSound`, `RetriesFollowFailures`, `RetriesHappen` |
| `event_retry` *(violated)* | two events, one call and one retry allowed, no time passes | `AttemptsBounded` |
| `webhook_consecutive` *(violated)* | three deliveries at the same time | `DisabledInARow` |
| `task_board` | parts `numbering` (three creations), `depth` (one request, four tasks, two projects), `races` (two requests, three tasks), `dados` (two writers, two sessions), `boards`, `teams` (three projects, two requests), `mirrors`, `removal` (two projects, two folders, two requests), `copy` (a list of three nodes), `members` (two users, two requests), `pairing` (two codes, two chats), `messages` (two messages of one chat), `tokens` (two clients, two refresh tokens, two requests), `keys` (one key, three calls), `tipos`, `metas` (two agents and their rows; two requests), `flow` (two tasks, two changes of status, two days) | `NumberingSound`, `TreesSound`, `DadosSound`, `HandlesSound`, `CopySound`, `MembersSound`, `PairingSound`, `AccountsSound`, `LinksSound`, `FlowSound` |
| `platform` | parts `invites`, `teams` (three teams of one name, two requests), `leads` (one team, two persons, two requests), `progress` (two tasks beside or below each other, two movers), `status`, `install`, `warmer` (two ticks, three projects, two days), `tunnel` (a circuit of two crashes, three changes of the machine), `backfill` (one script beside everybody else), `scripts` (both scripts) | `JoiningSound` (`InvitesSound` and `TeamsSound`), `CompletedTruthful`, `StatusSound`, `InstalledApart`, `LoopsSound` (`WarmerSound` and `TunnelSound`), `BackfillSound`; under fairness `CompletionAnnounced`, `StatusFollows`, `TunnelReturns` |
| `project_copy` *(violated)* | two projects, one request at a time | `OneToOne` |

Every passing run but the one about redelivery also checks a type invariant. What the two largest
runs show, in terms of what must overlap before a promise breaks:

* `UniqueWithoutOverlap`: two creations at once may get one identifier, and only they.
* `ForestUnlessMovesRace`, `LiveForest`: it takes two moves at once to close a cycle; a move and
  creations or deletions do not.
* `OrphansExplained`: a live task with a deleted parent comes from overlapping requests, from
  `cascade=false`, or from a subtree moved deeper than the cascade reaches.
* `ReuseExplained`: only requests that overlap are taken for reuse; no second client, lost answer or
  ended session alone is, because the lookup by hash refuses the token first. `SessionKept`: a single
  client that asks in turn, whose answers arrive and whose session was not ended, is never refused
  while its row is among those read. `RevokedStaysRevoked`: after a revocation there is no session
  until a login or a change of organization, unless a request was already cleared to issue a token;
  a refresh that had only found the row revives nothing, thanks to its second look.
* `KeysSound`: a key whose revocation returned is refused by the older guard at once, and by the MCP
  server unless a check that had read the row was to fill the cache, or the payload was not deleted,
  and then until the payload expires. A late stamp may undo `disabled`; the row stays deleted.
* `AdminRemains`: the organization loses its last administrator only through overlapping
  removals, a demotion (never checked) or a deleted account. `OneMembership`: a member twice only
  through overlapping additions.
* `CancelledStaysOut`: a cancelled invitation makes nobody a member, even when the acceptance had
  read it twice. `JoinedOnce`: only overlapping requests make a person a member twice, and never
  two accounts.
* `TeamsSound`: two teams get one prefix only when their creations overlap or the search for a suffix
  ends without a free one; a person is in a team twice only through overlapping additions; and a
  deleted team keeps a member, or a deleted organization a team, only when an addition or a creation
  overlapped with the deletion.
* `OneTeam`: a project has two teams only after two changes of its team at once.
* `HandlesSound`: a project that no mishap befell has its own mirror, its manager and members are
  found under the handle its readers resolve, it lies in one folder, and no row outlives it or its
  folder. Making the mirror at creation, the cache and its expiry, and every order of one move, one
  deletion and one addition of members are harmless; a duplication, an update that overlaps the
  making of a mirror, two makings or two moves at once, and a write for what is being deleted are
  not.
* `BackfillSound`: a run moves a row only to a mirror of the row's own project, or of the project that
  one was duplicated from, except a row left by a deleted mirror whose number a live project has.
  The exception for duplicates needs no race: `ensureEspelho` asks of a mirror only that it is alive.
  Two mirrors of a project are made only by
  somebody acting on a pointer no longer true, whichever scripts and requests run side by side or
  die. After an undisturbed run with `--apply` every row is where its project's pointer says or in
  the report, except rows that stand on another project's mirror: those of a duplicate, and those
  about a project whose number is that mirror's.
* `DadosSound`: no two sessions are open, whichever copies are written back; while the writers take
  turns no session is lost or opened again, VALIDATED is left only by a cascade, and column and state
  agree from any write of the state on that found the row of its status.
* `CopySound`: whatever is done to the source meanwhile, the copy has no cycle and points to copies
  only; it has the shape of the source unless a node was moved below a younger one.
* `PairingSound`: only overlapping pairings use a code twice or give a chat two links; only a failing
  Redis records an update twice; what a message does is done in the name it was recorded with unless
  the chat was paired anew in between.
* `WarmerSound`: the cap is passed by at most one warm per tick under way at once, wherever
  midnight falls, and after `stop()` a tick begins at most one warm more.
* `TunnelSound`, `TunnelReturns`: no second child, no timer without a purpose, and a machine that
  can start autossh again and again gets its tunnel back.
* `FlowSound`: for every period and day in it, the diagram shows the statuses the tasks had at the
  end of the day, and goes on doing so whatever happens later, if each change was the task's own
  and was recorded in order and on its day; a task that strayed spoils no other.
* `StatusSound`: OFFLINE always goes with an old `lastSeen`; `agent.online` is missed only when a
  heartbeat and a sweep overlapped or the backend stopped. `StatusFollows`: a silent agent is at
  last not ONLINE, a beating one is ONLINE again and again.
* `InstalledApart`: no overlap at all makes agents share a port or a token.
* `LinksSound`: one primary agent, with and without the lock; a slug is lost or a revoked key
  comes back only when two requests held copies of one row.

**Bounds, and why they are enough.** Executions, webhooks and consumers meet only where they share
something: executions of one project share the agent's mutex, executions of one agent its process,
the gated ones the sweeper's window, events a breaker, deliveries a row. So two of each that share
it, or one with two actors, show every conflict of two. Two attempts of the callback give a lost
answer and its repetition (five in the code); one stall is the default of BullMQ; a window of one
row with one candidate is a window that is large enough, with two it is one that is not (100 in the
code); two failures open a breaker (five), two given-up deliveries disable a webhook (ten), which
needs both deliveries to fail and lets one of them be interrupted by a redrive or a crash; three
attempts are the code's own number. One crash is enough for each window between two writes; the
properties that do not hold across a crash say so (`crashes = 0`). In `task_board` the depth is 2
(20 in the code), which four tasks exceed by one; three creations let one overlap with a committed
and a rolled-back one; one task in a second project lets a parent be foreign. In both large runs two
requests make every race of two, the third row of a kind is what the second race would insert; a
check, a touch and a revocation of one key are its three calls; three projects are one of each
class; three nodes of a list are a parent, a child and an older or younger node to move; two ports
and three installations fill the range; the sweeps, heartbeats and stops include one stop between
any two steps; two ticks of the warmer are one overlap, two days one midnight. Three keys of
DEntidade hold an old entity that shares a project's number, a mirror that shares the other's, and
one more. A last suffix of 2 and three teams let the search end without a free one. Of the flow
diagram two changes of one task show every order of their events, and two days a period with a
boundary inside.

To stay within minutes, `task_board` uses that some things differ by name only. Its two requests
are the same model values in every module and TLC takes them up to permutation (`SYMMETRY`; the
run has no liveness). Tasks other than the phase are created in the order t2, t3, t4, the first
of them in the project that is not `pb`, and rows of links (to teams, members and agents) are
taken in the order l1, l2, l3, pairing codes in the order k1, k2, and the first link to an agent
is to a1; the first handler acts before the second, and of the clients and refresh tokens the
first are used first. A behaviour of the part `tokens` ends at the third kind of mishap
(`told`), one of `dados` where an edit that replaced state or sessions meets an overlap of
writers; after an overlap, of which only the sessions are said anything, `dados` writes no state
but VALIDATED (`OneState`). A behaviour of the parts `races`, `boards`, `mirrors`, `removal`,
`members` and `metas` ends where an overlap has happened after which the properties say nothing
more; `races`, `boards`, `teams`, `mirrors`, `removal`, `pairing` and `messages` narrow which
rows or kinds of request meet, as the definitions of the same names in `MCTaskBoard` say. In
`platform` the part `teams` has requests of the creator only, `leads` no creation and no
addition of the creator, and both end at a second mishap; teams and their rows are taken in
order. The parts about the scripts end where a mirror was made on a pointer no longer true;
`backfill` has one row and at most one deleted entity, `scripts` has both scripts with `--apply`
over what was written before them. The proofs of section 6 have no such bounds.

`events`, the small webhook run, `task_board`, `platform` and `project_copy` allow deadlock: with
every event delivered, every job done, every row, token and port of the instance used, or a
behaviour ended as said above, there is nothing left to do.

## 5 Fairness

Weak fairness only, and only of what a scheduler, a timer or a timeout gives.

* *Lifecycle.* A handler that can go on does (Node's event loop), the cron fires, idle workers
  poll BullMQ, the deadline passes, Claude ends (its runner kills it after a timeout), and each
  request is answered or times out. Not fair: managers deciding, callbacks arriving, crashes,
  stalls, PREFLIGHT failures. The choice between two outcomes of one step is never fair: a tunnel
  may fail for ever.
* *Event bus.* Calls of consumers end one way or the other, timers fire, a settled emission
  returns. Consumers may fail for ever; `HealthyDelivers` assumes in its own premise that they
  stop. Neither the 30 s nor the window need pass.
* *Webhooks.* The steps of a job's processor.
* *Phases.* A promise that was started goes on, awaited or not: the write of a status, each
  cascade, each detector. Requests need not come.
* *Agents.* The cron job runs every 30 s, an agent that is up beats every 30 s (`setInterval`), a
  request that began goes on, time passes. An agent need neither start nor stop.
* *Tunnel.* The wrapper's timers fire, an exit event is delivered, systemd restarts the agent
  (`Restart=always`). In `platform` it is required in the part `tunnel` only, where alone the tunnel
  moves; the fair steps of the other modules cannot be taken where they have not begun. The
  machine need never be able to start autossh: `TunnelReturns` assumes it in
  its premise, and it holds although the child may end at any moment.

## 6 The proofs

Every safety property and every type invariant of a passing run is a theorem, for every value of
the constants. The assumptions are those the modules name; most say that a "none" is not one of
the values and that bounds are numbers. The others:

* sets the code counts are finite: the warmer's ticks, the links of an organization, the tasks of a
  phase. There are fewer than 200 of the latter in `CompletionsAreTrue`, because from there on
  `Math.round` makes 199 of 200 a 100 and the property is false;
* keys are told apart by table in `ProjectHandles` (a project is not a number, a mirror is). The
  code keeps both in one column, and what follows from a number that is both is the subject of
  `Backfill`, where they are not told apart;
* no status is called "unborn" or "deleted", and there is at least one client of a session.

Most of the properties have a premise, the mishaps that excuse a row. Their invariants have one
conjunct that holds whatever happens (what a request in flight knows of the rows it was given) and
one under that premise (while nothing crossed, the copy a request holds is still the row). Each
proof has a lemma per action.

**ExecutionLifecycle.** The invariant `IInv` joins `TypeOK` and five facts. `DispatchGate` alone
is not inductive: a worker that is about to mark RUNNING, a run under way and a callback in
progress must already know that the execution is cleared (`BeyondGate`, `CallsKnow`), and, since
three handlers write all of `dados` back, every copy they hold must carry the same approval as
the row (`CopiesAgree`): that is true because copies are taken only after the decision, which is
final. `AprovadoMatches` joins the two columns, `TriesLeft` bounds the callback's attempts.
From it follow `TypesOK`, `GateHolds`, `AprovadoAgrees` and the action property
`DecisionsAreFinal`. `FreshHolds` says that no dispatch is sent twice and no two workers hold the
same hand-out of a job, without which a resent dispatch would look like a run that was taken
back; with it, `Implements` shows that every step of the pipeline is a step of `ApprovalGate` or
a stutter.

On these rest the theorems of `ExecutionOutcome_proofs`. `ExecutionsHandedOver`: what may run has a
job, or the request that owes it one is on its way. `EventsTellTheTruth`: a decision is final and
`finishedAt` is never taken back, although two handlers write whole rows (`FinishedKept`), and the
worker about to emit `execution.failed` has written it. `SuccessesAreReal`: a run's result, once
there, stays, and the copy a failing worker writes back claims no outcome that no run had
(`ResultsReal`). `OneClaude`: who holds the mutex finds it taken and holds it alone (`MutexExact`);
after a failed `git pull` the mutex is held until the report is through, so `phase` alone does not
tell.

**EventBus.** `BusInv` is `BusTypeOK`, `TrialUnderWay` and `BreakerKnows`: what a breaker counts is at
most what happened since the last success, and it is not closed only when the whole streak
happened. `DropsAreEarned` follows: a refusal is by an open breaker. The point is the calls admitted
before the breaker opened, which answer later in any order.

**WebhookDelivery.** Every counter is written back from old copies, so `HookInv` is about
copies (`CopiesSound`): a copy is sound when its count is at most the deliveries given up so far,
and when its `disabled` is earned and, without a crash, announced. Soundness is kept because what is
known only grows: an old copy stays sound, however late it is written. `Progress` and
`RetriesEarned` tie the processor's place to the attempts recorded. `DisablesAreSound`
and `RetriesAreEarned` follow.

**AgentStatus, AgentInstall, AgentLinks.** `StatusSoundHolds` rests on what the
copies in flight say: a sweep about to write holds an old `lastSeen`, and without overlap the
announcement that is due is about to be made. `InstalledApartHolds` rests on the two locks: at
most one transaction is past each, and the number it holds is not among the committed ones.
`LinksSoundHolds` rests on the lock (at most one link or unlink between its demotion and its
write, so the primaries it will demote are all there are, and who writes without the lock never
makes a primary) and, for `metaDados`, on every single copy being equal to the row it is of.

**TaskNumbering, TaskDados, TemplateCopy.** Numbers: while no two creations were open at once there
is one counter, it is at least every number given, and what the open one has read of it is still
true (`NumberedAlone`). Dados: neither the row nor a copy has two open sessions, which no
interleaving changes (`CopiesSingle`), and while writers take turns a writer's copy is the row and
the column agrees with it unless `apart` says otherwise (`TakingTurns`). Copies: parents are older
than children unless something was moved below a younger node (`ParentsOlder`), so ordering by key
meets every parent first, and between the two reads the copies are those of the phases there still
are (`PhasesFresh`).

**TaskTree, ProjectTree.** That one move at a time closes no cycle is about what the climb has seen.
The invariant says there is a set S of tasks the move has climbed, whose parents are again in S or
the next to be read, and the task that moves is not in it (`ClimbedBy`; `Above` for projects). A
cycle that the write would close leads from the new parent through S back to the task, so without
the task in S it was there before. For orphans, each live task has a level below `MaxDepth` and
the climb's counter agrees with it (`LevelsOf`, `Counts`), so the cascade, which descends at most that
far, reaches everything (`DescendantsByLevel`). One team: while changes come one at a time, the link
a request read is the only one (`TeamsApart`).

**ProjectHandles.** A mirror is named by what is known of one project only (`MirrorsApart`); for a
project that no mishap befell, every key in flight (read, cached, held by a request) is none or the
pointer's, its rows are under that key, and a deletion about to write has all of them
(`Straight`).

**FlowHistory.** `EventsTell`: the last event of a task still on its way, else the last recorded,
else its creation, tells the status the task had at the end of each part. Replaying up to a day is
then reading that event.

**Memberships, Sessions, McpKeys, ChatPairing.** Memberships: a removal that is about to write
leaves another administrator while removals come one at a time (`AloneRemoving`), additions likewise
(`AloneAdding`). Sessions: while requests do not overlap, what a refresh found is still in the row
(`InTurns`); a single client holds the token of the row or the answer that brings it is under way
(`SingleClient`); after a revocation that was the last word the row is empty and nobody is cleared
to fill it (`StaysShut`). Keys: the row of an ended key is dead for good (`KeyCallsKnown`), and
unless it is excused no cache holds it and no check that read it is to fill one (`NothingCached`).
Chats: pairings under way have different codes and chats and their codes are unused
(`PairingsApart`), one handler records an update while Redis works (`RecordingOnce`), and who acts
in a name is still linked (`StillLinked`).

**Invites, Teams, PhaseProgress, CacheWarmer, Tunnel.** Invites: between the second look and
the mark an acceptance is alone, or `crossed` (`JoinsGuarded`); a new account is inserted by one, by
the unique index (`AccountGuarded`). Teams: `PrefixGuarded`, `AdditionGuarded` and `DeletionGuarded`
say under each mishap's absence that what a request read is still so. Progress: all tasks done
implies that it was seen complete (`CompletionSeen`), and a rounded 100 means that none is open;
`PercentRounds` shows where that ends. Warmer: what a day's warms cost plus what is being
spent is below the cap plus a warm for each that ran at once (`SpendingBounded`); only that sum is
inductive.
Tunnel: a timer belongs to its state (`TunnelAgrees`).

**Backfill.** A key that was given stays given and tells whose mirror it is or was (`KeysKnown`,
`PointersKnown`); a project's living mirror is its pointer, unless `outrun`
(`MirrorsPointed`). Whoever reads a pointer, run, request or duplication, holds what is or was a
mirror of that project or of its `source` (`WasMirror`): a project not yet born has neither, so what
a duplicate begins with is fixed once. Of a run, `RunKnown` says that of all it read,
and `AloneKnown` that, undisturbed, it still is its pointer and that every row it has passed
(`BehindIt`) is moved, reported, or of the named exceptions.

**Compositions.** A step of `MCEvents`, `MCTaskBoard` or `MCPlatform` is a step of each part or
leaves it unchanged. So `TreesSoundHolds`, `AccountsSoundHolds`, `LoopsSoundHolds`,
`JoiningSoundHolds`, `EventsTypesOK`, `BoardTypesOK` and `PlatformTypesOK` follow from the lemmas
about the parts.

**Model-checked only.** Liveness (`AwaitingResolves`, `ClearedEnds`, `EmitterResumes`,
`HealthyDelivers`, `RetriesHappen`, `CompletionAnnounced`, `StatusFollows`, `TunnelReturns`) needs
fairness and ENABLED, which are beyond the prover. The violated runs are counterexamples and have
nothing to prove.

## 7 Where code and documents disagree

1. `execution.expired` is emitted for every row the sweeper read, also for one a manager decided
   before the UPDATE (`approval-flow-sweeper.service.ts:64`; `docs/plano/03-INTEGRACOES.md:945`).
2. A worker's failure path can erase an outcome already recorded
   (`execution-run.processor.ts:411`; the idempotence claimed at `agents.service.ts:616`).
3. After a failed `git pull` a report that cannot be delivered ends the agent, with every other
   run (`run-claude-code.handler.ts:370`; "nunca propaga" at line 213).
4. The sweeper's window of 100 unordered rows fills with decided rows, and a late request may
   never be seen (`approval-flow-sweeper.service.ts:28`; `03-INTEGRACOES.md:946`).
5. Event retries have no limit (`event-producer.service.ts:134`; "Máximo 5 tentativas" at
   `intelligent-retry.service.ts:21`).
6. A webhook can be disabled by failures that are not consecutive
   (`webhook-dispatch.processor.ts:290`; `docs/webhooks-guide.md:59`).
7. The duplicate of a project shares the original's mirror, and with it its members and folder
   links (`projects.service.ts:1868`; "1:1" at `project-ref.service.ts:29`).

The traces are those of the violated runs.

The large runs state the weaker promise that holds, so the following, which documents or comments
deny, shows as a condition of a property and not as a violation:

* `tasks-identifier.service.ts:11` says "Gera identifiers únicos", and line 96 that the
  transaction makes the increment atomic: two creations at once get the same identifier
  (`UniqueWithoutOverlap` without its premise fails).
* `projects.service.ts:1403` says that the invariant of one team holds "mesmo em caso de race
  condition": two changes of the team at once leave two links (`OneTeam`).
* `create-team.dto.ts:9` says that a prefix is unique in the organization: two creations at once may
  choose the same one, and so do all creations after the hundredth with one name, in any order,
  because the search for a suffix ends with 100 whether that is free or not (`PrefixesApart`).
* `invites.service.ts:394` calls its second look "concurrent-safe contra duplo-accept": two
  acceptances of an existing user both pass it and link the user twice (`JoinedOnce`; new accounts
  are safe, by a unique index).
* `refresh-token.service.ts` asks that `rotate` be called in a transaction; its callers have none.
* `auth.controller.ts:118` says of a refresh "Reuse detectado → revoga tudo". The lookup by hash just
  below (line 136) finds no row for a token that was replaced, and throws a plain error: nothing is
  revoked, and a stolen token's successor goes on working. The branch that revokes is reached only
  when two requests overlap (`ReuseExplained`).
* `tasks-state-machine.ts:25` calls VALIDATED terminal: the cascade from a parent leaves it.
* `projects.service.ts:2282` says that ordering by parent and key puts every parent before its
  children: not when a node was moved below a younger one, whose copy then becomes a root
  (`SameShape`).
* `folders.service.ts:412` calls the move to a folder race-safe: two moves at once leave two links
  (`OneFolder`).
* `pairing.service.ts` calls a code single-use: two pairings under way at once both use it (`OneShot`).
* `pair.handler.ts` and `docs/plano/03-INTEGRACOES.md:195` let a new chat pair itself with `/pair`:
  a chat without a link is told how to pair and its command is never routed
  (`telegram-webhook.service.ts:157`).
* `autossh.wrapper.ts:350` treats a child without PID as any other crash ("mesmo fluxo"): it opens no
  circuit, and nobody listens to its `error`, so the agent ends and needs systemd after all.

* `backfill-project-ref-dtabelas.ts:34` promises that a row whose value is a project's key is moved or,
  when the number is also an entity's, reported. `classifyValue` asks for a mirror first (line 271):
  a row about project P, where P is also the key of another project's mirror, passes for canonical,
  is neither moved nor reported, and stays with the other project (the last case of `Accounted`).
  The order is right nevertheless: the other way round canonical rows would be moved
  (`KindProjectFirst`). Where the row's mirror was deleted, by the endpoint for entities of any class,
  and a live project has its number, the row moves to that project (`Forgotten`). And the rows of a
  duplicate move to the mirror of its original, whose pointer it carries (item 7 above; `source` in
  `MovedHome`).
* `backfill-priority-tabelas.ts:60` and `backfill-default-folders.ts:123` still write the project's key,
  and the first looks for existing priorities only there: run after the others, they
  add rows of the old kind, or fail at the foreign key. The runbooks the scripts name are not in `docs`.

About accounts: the lookup of a refresh reads a thousand rows in no order, so in a larger table an
account may be refused for good; a change of organization with an access token that has not expired
opens a session again after a logout. `DELETE /tabelas/:id` takes an MCP key and leaves the cached
payload, which is accepted for up to 30 s; a stamp that was delayed writes `disabled: false` into the
dead row. About tasks: a subtask appears in its parent's column with the state INBOX
(`tasks-inheritance.spec.ts:289`), which is intended and asserted, and the next status change ends it.

About teams: `addMember` takes any entity that is not deleted, whether it is a member of the
organization or a person at all, and who leaves the organization keeps the memberships of teams; a
team whose creation overlapped with the deletion of its organization can still be managed by its
LEAD. After a team is deleted its prefix is free again.
About projects: `addMember` and `moveProject` make a missing mirror on demand, which moves the
project's handle away from the rows a legacy project has; two such requests at once make two
mirrors; `update` writes back the `dados` it read and loses the pointer made meanwhile; `getStats`
reads a project's statuses under its own key (`projects.service.ts:2436`) though they are created
under the mirror. About chats and agents: the router drops the text a command answers with
(`message-router.service.ts:139`); the Redis key is set before an update is handled, so one whose
handling fails is lost; a warm that times out reports cost 0, which the daily cap does not see
(`warm-cache.handler.ts:246`); `project-agent-link.service.ts:451` counts executions whose
`approval.status` is queued, which a finished LOW execution keeps, so that its agent cannot be
unlinked.

About the metrics: a task's `idStatus` is the key of a row of its project, and the flow metrics
compare it with the keys of classes (-444, -449: `throughput.service.ts:123`,
`lead-time.service.ts:11`, `cycle-time.service.ts:12`, `wip-age.service.ts:9`), where
`phase-metrics.service.ts:35` and `projects.service.ts:849` resolve the rows first. So throughput,
lead time and cycle time count nothing, and the work in progress includes what is done. For the
same reason the flow diagram's map never matches, and every task begins in INBOX
(`cfd.service.ts:171`), which is what its comment at line 49 promises and not what the one at line
168 says; the mutant of `InitialStatus` shows that line 168 would be wrong. Its series has one
day more than the period (`generateDays` counts the days of UTC that a Brazilian period touches);
a deleted task vanishes from the days on which it existed; `applyDateFilters` depends on the time
zone of the server (`.env.example` sets `TZ`). Weeks in which nothing was completed are missing from
the history of the forecast, which then promises too much.

Further observations: `Math.round` makes a phase 100 % with one of 200 tasks open, and announces
it; a phase may be moved below a task and a project below a project of the wrong class, which
creation forbids; a move below a deleted project is allowed, and through it a cycle of a live
and a deleted project needs no race; the recursive queries use UNION ALL without a limit of depth,
so on a cycle they do not end; the sweeper writes back an old `lastSeen` over a newer one;
`unlinkProject`, without the lock, may delete the row `linkAgent` makes primary; provisioning
writes a revoked deploy key back; UNPROVISION is not awaited and may reach the agent after a new
link.

## 8 What is not modelled

In the lifecycle: the in-memory queue of `REDIS_ENABLED=false`, which only logs; tasks moved by hand
meanwhile; `updateStatus` is one step; one task per execution and one agent; two ticks of the cron
at once; a callback answered with 403 or 404 is one kind of the 4xx that throws; Redis and Postgres
failing inside a handler. In the event bus: what consumers do, and measured time. In webhooks: a job
that stalls while its worker lives, a failing Redis, SSRF checks, signatures and addresses, which no
property tells apart. HMAC, encryption, prompt text, and the parsing of Claude's output are data. In
tasks: assignees, labels, bulk requests, history. In accounts: what is in an access token, rate
limits, e-mail, resent invitations, who may link a team, and a team's name and looks; in `Invites`
and `Teams` also the generic `DELETE /entidades/:id`, which deletes a team or an organization
without its cascade. Of MCP keys: scopes, and edits through `PUT /tabelas/:id`. In the flow diagram:
phases, whose status never changes, the filter by a phase, events recorded at the same instant, and
`criadoEm` of a task moved between projects. In the scripts: projects and rows deleted during a run,
that a duplication copies a subtree in one transaction (it is one project here), and that both
scripts write all of a project's `dados` back. In agents: rotation of the command secret,
environment files, the lengths of backoffs, the log of the warmer's failures. In chats: what
commands other than `/pair` and the intents do, voice transcription, sending, and a crash while an
update is handled. Every table is one project, one organization, one account or one agent, because
the code never relates two of them in one of the operations modelled. Components with no module are
listed in `PROJECT.json` with the reason.

## 9 Plan

Done, in the order in which a mistake costs most: `ApprovalGate` and `ExecutionLifecycle`,
`EventBus`, `WebhookDelivery`; then the modules of the board (`TaskNumbering`, `TaskTree`,
`TaskDados`, `PhaseProgress`), of accounts and projects (`Sessions`, `McpKeys`, `Memberships`,
`Teams`, `Invites`, `ProjectTree`, `ProjectHandles`, `Backfill`, `TemplateCopy`, `ChatPairing`,
`FlowHistory`) and of the agents (`AgentStatus`, `AgentInstall`, `AgentLinks`, `CacheWarmer`,
`Tunnel`).

Proved: every safety property and type invariant of a passing run, and that the pipeline
implements `ApprovalGate` (section 6).

Left:

1. The composition of `AgentLinks` with `ExecutionLifecycle` through the query for active
   executions; provisioning on the agent's side.
2. The rest of the flow metrics is single queries; percentiles and the Monte-Carlo forecast are
   floating point and random, and only their index arithmetic could be checked.
