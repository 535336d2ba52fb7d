# Agent Job: a TLA+ model of its pipeline and its CRM

This directory holds TLA+ models of the program in `src/`: what its concurrent
parts do, which properties of them TLC has checked on small instances, and
which of these are proved with TLAPS for every instance.

The repository contains two programs:

* an **agent pipeline**: cron jobs, all of them `scripts/cron/pipeline.py`
  under different step names, that talk to each other through files, and
  GitHub workflows that talk to each other through labels and comments;
* a **multi-tenant CRM**: a FastAPI back end over PostgreSQL, one database
  transaction per request, and scheduled jobs.

Paths below are relative to the repository; `PROJECT.json` maps every
definition to the lines it models.

## Contents

| file | what it is |
|---|---|
| `PidLock.tla` | the lock file of a cron job (`class _Lock`) |
| `AgentLock.tla` | the abstract lock that PidLock implements until the first takeover |
| `StageGates.tla` | the gating chain test, code-review, qc, deploy and the orchestrator |
| `TaskQueue.tla` | research, planner and implementer around the task files |
| `TaskLife.tla` | the life of a task, which TaskQueue implements |
| `SharedMemory.tla` | the git repository that carries results between hosts |
| `LeadPool.tla` | leads, reassignment and the recycling job of the CRM |
| `LeadRouting.tla` | which owner a new lead gets |
| `Sessions.tla` | users, refresh tokens, rotation and logout |
| `Passkeys.tla` | WebAuthn challenges, credentials and devices (extends Sessions) |
| `AccessControl.tla` | roles, permissions, and the roles of users |
| `TicketDesk.tla` | tickets, their assignment, replies and SLA |
| `Recommendations.tla` | the cache in front of recommendations |
| `Automation.tla` | automation rules, triggers and logs |
| `ChurnRisk.tla` | the two churn scores of a customer |
| `DataModel.tla` | the tables and foreign keys the models declare |
| `Deletions.tla` | rows, and what the deletions of the services do to them |
| `Migrations.tla` | the Alembic revisions, upgrade and downgrade |
| `PidLockProofs.tla`, `StageGatesProofs.tla`, `TaskQueueProofs.tla`, `LeadPoolProofs.tla` | theorems about the module each is named after |
| `AccountsProofs.tla` | theorems about Sessions and Passkeys |
| `AssignmentProofs.tla` | theorems about TicketDesk and LeadRouting |
| `ServicesProofs.tla` | theorems about AccessControl, Automation, Recommendations and ChurnRisk, and about all the services together |
| `UpkeepProofs.tla` | theorems about Deletions (over the keys of DataModel), SharedMemory and Migrations, and about the three together |
| `MC*.tla`, `MC*_*.cfg` | instances for TLC, one `.cfg` per run |
| `PROJECT.json` | components, runs, map, mutants, findings, hazards, theorems |

`tlc -config MCPidLock_cron.cfg MCPidLock` runs one check, `tlapm
PidLockProofs.tla` checks one module's proofs.

# Part 1. The system

## The agent pipeline

State shared by its parts, all of it in files and on GitHub:

| state | written by | read by |
|---|---|---|
| lock files `LOCK_DIR/<name>.lock`, one name per job | every run on entry and exit | every run of the same job |
| result envelopes `results/<agent>-result.json` | each step when it ends | the step gated on it, the orchestrator, the manager, the cooldown |
| task files `tasks/NNN-*.json` | research, step_task, step_implement | step_task, step_implement, manager |
| task results `results/<task>.json` | step_task | step_implement |
| worktrees, branches, pull requests | step_implement, workflows | `_gh_open_pr`, reviewers |
| the shared-memory clone itself | pull and push around every run | all |

**Cron job lock** (`_Lock`, `_pid_alive`, pipeline.py:221-264). Operations:
enter by exclusive create, or by taking over a file whose pid is dead; skip;
exit by unlink. Hard: a crash between any two system calls, reuse of pids, two
runs that examine the same file. Correct when at most one run of a job is
inside, a dead run does not block its job for good, and nothing is left behind
by runs that end normally.

**Stage gates and orchestrator** (`_write_envelope`, `_is_green_today`,
`step_test`, `step_code_review`, `step_qc`, `step_deploy`,
`step_orchestrator`). Each step reads the envelope of the stage before it when
it starts, works for minutes and overwrites its own. The orchestrator calls
the first three steps in a row under its own lock only, so cron runs of the
same steps interleave with it and share their envelopes. Hard: expiry while a
step works, exceptions in the loop, killed runs. Correct when a green result
rests on a recent enough green result of the tests, and a verdict is about the
pass it belongs to.

**Task queue and implementer** (`step_research`, `step_task`,
`_find_implementable_task`, `_implement_cooldown_active`, `step_implement`,
`_gh_open_pr`). A task file goes from open to claimed to planned, then gets one
of three marks: branch, failed, obsolete. The planner and the implementer hold
different locks and write the same files, each by writing back an object parsed
earlier. Hard: lost updates, killed runs, torn files, a lost answer of GitHub,
the cooldown that every skipped run starts again. Correct when no update is
lost, no task is attempted twice, and every task gets on unless runs by hand
keep the cooldown going.

**Shared-memory git sync** (`_sync_shared_memory_pull`, `_push`). Pull with
rebase before a run, add/commit/push after it, outside every lock, with
failures ignored; a directory that is no repository is moved away, cloned anew
and merged back. Hard: several runs in one working copy, a rebase that stops,
rejected pushes. Correct when nothing that is published is rolled back.

**Manager heartbeat and stats**, the **ask_agent bridge**
(`docs/agents/_llm.py`), **GitHub workflows** (a label and comment state
machine over issues and pull requests), **CI helper scripts**, **coordinator
and deploy scripts**, **agent definitions**: see the table in Part 4.

## The CRM

Every request gets one SQLAlchemy session from `get_db`
(`src/db/connection.py`), commits at its end or rolls back on an exception, and
runs at PostgreSQL's READ COMMITTED. No query says `SELECT ... FOR
UPDATE`: a service reads a row, computes and updates it by id. All hard
behaviour comes from two such transactions overlapping, from scheduled jobs
over many rows, and from state kept in process memory.

| component | state | operations | correct when |
|---|---|---|---|
| leads | owner, assigned_at, recycle_count, recycle_history, status | create with auto-assignment, assign, edit, reassign, bulk recycle, the recycling job | history and count agree and lose nothing; only stale leads are recycled, up to a cap; owners are told |
| lead routing | rules with conditions and priorities, users, open leads | create, edit, switch, delete rules; route a lead | the first matching rule decides; the least loaded user is chosen |
| tickets and SLA | status, assignee, deadline, first_response_at, resolved_at | create, update, bulk update, reply, change status, auto-assign, summary | the round robin is even; the first response settles; the summary adds up; breaches are unresolved |
| users and refresh tokens | token rows with revoked flag and expiry | login, rotate, logout, logout everywhere, delete the user | a login has one usable token, and none after logout |
| WebAuthn, devices | challenges, credentials with sign counters, trusted devices | register, authenticate, disable, distrust | an answer, and a challenge, is used once |
| roles and permissions | roles of tenants and of the system, two tables of pairs | seed, create, delete, replace permissions, replace or add roles of a user | tenants do not change system roles; what is set is what is there |
| recommendation cache | LRU map with time limit, per process | get, put, expire, restart | no answer is older than the limit and the database's answer took, one entry per opportunity, never over its size |
| automation | rules, logs | save, toggle, delete a rule; trigger an event | effects and logs agree; failures are logged |
| churn scores | none of its own: activities, opportunities, tickets, time | score, score a batch | better business never means more risk |
| schema | revisions, tables, keys | upgrade, downgrade, stamp | the schema is that of its revisions; a database at the last one is as the models declare |
| stored rows | every table | delete a user, a workflow, a rule, a customer, ... | a user can be deleted, and takes no record of the business along |

and the agent registry, workflows, campaigns, notifications, import and export,
tenants, tasks, enrichment, lead scoring, reports, chat, events: see Part 4.

The services meet in the database only. Sessions and Passkeys share users and
tokens, so Passkeys extends Sessions; a lead's owner is what LeadRouting leaves
to LeadPool; tickets, activities and opportunities are what ChurnRisk counts,
at a coarser grain than TicketDesk has them. DataModel is shared by Deletions,
which follows its keys, and Migrations, whose stamped schema has its tables.

## What is hard to test here

`PROJECT.json` lists the hazards at the line where each bites. The main groups:

1. files that stand for a lock, a queue or a result, written without atomic
   replacement or ownership (`pipeline.py:231, 252, 256, 913, 955`);
2. gates that look at an envelope's age when a run starts, and not again
   (`218, 568, 572`);
3. skipped runs that leave a trace others act on (`1265`), attempts cut short
   between a side effect and its record (`1503`);
4. read, compute, update by id at READ COMMITTED (`customer_service.py:157`,
   `lead_routing_service.py:284`, `ticket_service.py:78, 247, 452`,
   `token_service.py:224`, `webauthn_service.py:137`), several statements that
   are meant as one look at the database (`sla_service.py:91`,
   `lead_routing_service.py:199`), and sets replaced by delete and insert
   (`rbac_service.py:341`);
5. failures swallowed inside a transaction (`lead_routing_service.py:434`,
   `automation_service.py:323`);
6. many steps that must undo each other, or go together, without a test that
   runs them in another order: downgrades (`alembic/versions`), deletions
   through foreign keys (`user_service.py:229`);
7. formulas with windows, defaults and inversions (`churn_prediction.py:163`).

# Part 2. The models

Conventions. One action per step that another actor can observe: one system
call, one file read or written, one statement that takes effect. Whatever a
language model, GitHub, pytest or ruff answers is a choice between the outcomes
the code tells apart. Time is an integer where ages matter and a choice
elsewhere. A variable or field marked *history* in its comment is not state of
the program; the properties need it. A definition that begins "a mutated form
of" is not part of a model: it shows which mistake in the code a property would
catch.

## PidLock

State: `lock` and `tmp` are the two files of the job, with the pid they hold;
`openBy` and `tmpOpenBy` are the runs whose descriptors are open on the file now
at that path (a rename takes the descriptors along; a write through one whose
file was renamed over or unlinked goes nowhere); `pc` and `holder` are the position and the local variable of each run
of `__enter__`. `foreign` are the pids the system has given to other processes.
Actions follow `__enter__` line by line: `CreateLock` and `WritePid` (231-234),
`FindExisting`, `ReadHolder`, `SkipRun`, `JudgeStale` (235-249), `OpenTmp`,
which empties the file, and `WriteTmp` (250-251), `RenameTmp`, `RenameFails`
(252-253), `Release` (`__exit__`). `Crash` may come
anywhere. A process identifier can be used again by a later run of the same
job and by unrelated processes.

Properties: `ExclusiveUntilReclaim` (exclusive create by itself is sound; every
double entry needs the takeover path), `NothingLeftBehind` (a leftover file is
the trace of a killed run), `LockNeverStuck` (once no more runs are killed and
the pid in the file is not handed out again, some run gets in again and again).
`ImplementsLock` is the refinement: AgentLock is a lock that is free or held by
one run, may be lost with a killed run, and promises nothing after a takeover;
its `taken` is "there is a lock file", its `inside` the runs inside.
`OneHolder` is what the comment at 227 promises, and fails: a run that reads
the file between its creation and the write of the pid takes pid 0 for dead
(`pidlock_owner`).

## StageGates

State: `env` is the envelope of each agent (status and time; only the time of a
pass is kept, since nothing asks for another), `phase`, `since` and `sub` where
the run of each job is, `begun`, `broke` and `summary` the locals of
`step_orchestrator`. `basis` and `rests` are history: the time of the test pass
a result rests on. A run of `code-review`, `qc` or `deploy` is `PassGate`, then
`FinishPass` or `FinishRed`; or `SkipStep`. `test` has no gate. The
orchestrator makes the same steps through `StepOf`, then `ReadSummary` and
`WriteVerdict`; `BreakLoop` is the `except` clause at 569-572.

Properties: `PassesAreBacked` bounds how old the tests behind any pass can be:
the 24-hour window plus a run's duration for each stage between them, and no
less (crontab.example:10-11 and 17 speak of results of the same day where lines 15-16
speak of the last 24 hours; the code looks at 24 hours of age at every gate). `CompletePassIsFresh`: an orchestrator whose
loop was not cut short judges only results written since it began, although
cron runs of the same steps overwrite them. "Not cut short" is needed: after an
exception the summary reads envelopes of any age, and a cron run can repair the
one that failed.

## TaskQueue

State: `file` is the directory, a state and a mark per task; `planner` and
`impl` are the runs in progress, with the parsed object (`copy`) they will
write back; `prs` are the open pull requests; `fit` says which tasks pass the
priority, target and plan gates of `_find_implementable_task`; `testGreen`,
`cool`, `tick` and `due` are the test gate, the cooldown and cron's schedule.
`broken` is history. The planner is `PickUnclaimed`, `ClaimTask`, `DraftPlan`,
`PointToResult`; the implementer `CronTakesTask` or `ManualTakesTask`, then
`Reject`, `NothingToDo`, or `OpenPR` and `MarkBranch`, then `Report`; `GiveUp`
is every early return that leaves the task as it was. A run that a gate turns
away writes an envelope and so begins the cooldown anew: `SkipImplement` for
cron's runs, `SkipManual` for those by hand, which come at any time, with or
without `--force`. Runs die between any two
steps, and in the middle of a write, which tears the file.

`Planners` is the set of planners the lock lets in together. PidLock shows that
there can be two, and then two may claim the same task, since the scan and the
claim are two steps; `queue_cron` has one, as it is as long as no lock is taken
over (`ExclusiveUntilReclaim`). The implementer is always one.

Properties: `CopiesAreCurrent` (what is written back is never out of date,
which is why two jobs with different locks can share the files),
`LostOnlyByDeath`, `MarksAreFinal`, `OpenPRsAreRecorded`, and the two liveness
properties `EveryTaskIsPlanned` and `EligibleTaskIsSettled`. The second has a premise on
runs by hand, that those turned away inside the cooldown come to an end
(`CooldownProlonged`): unforced runs more frequent than the cooldown keep the
job from starting for ever. Cron's own skipped runs need no premise.
`ImplementsLife` is the refinement: TaskLife lets a task appear, be claimed, planned and settled,
each once, or be lost while its file is written, and a state of TaskQueue maps
to it by the state and the mark of each file. Whatever copies the runs hold, no
step of the queue moves a task otherwise.

## LeadPool

State: `lead` are the committed rows; `request` is the transaction each worker
has open, with the row it read; `job` is the recycling job with the rows of its
scan; `told` and `overtaken` are history. A request is `ReadRow` and then one of `AssignOwner`,
`EditCustomer`, `ReassignLead`, `BulkRecycle`, which commits, or `RollBack`.
The ORM writes only columns whose value differs from the one it read
(`Column`). The job is `JobScans` (the WHERE clause of `recycle_stale_leads`),
`JobUpdates` and `JobCommits`; `JobAborts` rolls it back. From its update to its commit it holds the row
locks (`Locked`). It updates all its rows in one step: requests touch one lead
each (`BulkRecycle` stands for one of its rows) and unlocked reads see committed
rows, so a row-by-row update shows no more behaviours. Of the row it read a
request keeps the columns it will use (`Used`).

Properties: `HistoryMatchesCount`: recycle_count is the length of
recycle_history, for both are read and written together and so are lost
together. `bulk_recycle` takes its count from before its update and its history
from after it (repositories/customer.py:337-345), so the two part when another
transaction has written the history in between; the property says that this is
the only way (`overtaken` are those leads). `HistoryIsKept`: an entry may be
overwritten by a transaction that read the row before the entry was there
(`Pending`), and is safe from all later ones. `JobKeepsToCap`,
`StaleLeadsMoveOn`. `OnlyStaleAreRecycled` is the docstring's word and fails
(`leads_taken`), because the job writes by id what it scanned earlier;
`RecycledOwnersAreTold` fails in every case (`leads_told`): the notification
type is none the service accepts.

## SharedMemory

State: `remote` is the published branch, a sequence of patches, each a function
from files to versions; `copies` is the directory `shared-memory/` of each host
(absent, without a repository, or a clone with the commits it has of its own, its
files, and whether a rebase stopped in it), `backups` the directory it is moved
to, `syncs` how far each run has got. Versions are numbered in the order in
which they are written. `PullMemory`, `CloneMemory`, `FindPlain`,
`BackUpMemory`, `CloneBeside`, `MergeBackup` are the branches of
`_sync_shared_memory_pull`; `CommitResults`, `NothingToCommit` and `PushMemory`
those of `_push`. Every git command may fail, and the code goes on. What git
does (a pull refused by a changed file, a rebase that stops at a conflict and
leaves markers, a push that is no fast-forward) is modelled from git and marked
external.

Property: `PublishedNeverGoesBack`. The merge of a backup into a fresh clone
only fills in what is missing; a clone that is behind cannot push.

## LeadRouting

State: `ruleRows`, `activeUsers`, `leads` are the rows; `routing` is each
request that creates a lead, at the statement it has reached. `Holds` is
`evaluate_conditions` for one condition with Python's treatment of None, lists
and texts that are no numerals; `MatchingRule` the rule of highest priority
(any one of several), `Freest` `_get_load_balanced_assignee`, `Least` the round
robin. `Committed` marks the requests overtaken by a commit (history).
Imports, edits, recycling and rule changes run in between.

Property: `LeadsGoToTheFreest` compares the owner a lead gets through the
statements with what one look at the database would give (`RoutedAsAWhole`),
for requests nothing overtook.

## Sessions and Passkeys

State of Sessions: `accounts`, `tokens` (with the login each descends from,
which the table does not keep), `rotating`: a rotation has read a token and
computed what is left of its life, and commits later. `overtaken` and `ended`
are history. Passkeys adds `challenges`, `credentials`, `trust`, and requests in flight:
`FindChallenge`, then `FinishRegistration`, or `CheckCredential` (the row of the
challenge is locked from its update on, `RowIsFree`) and `VerifyAssertion`, or
`Refuse`, which rolls everything back. `VerifyAssertion` is `StartSession` of
Sessions. A challenge for a registration names no credential, and none names a
counter: both come with the answer, and are chosen freely there. `answers` and
`repeats` of a challenge are history: what it was used with, and what it was
used with again.

Properties: `SessionsStaySingle` (one usable token per login, none after
logout, except where a rotation had already read the token that was revoked:
that one commits all the same). `AnswerIsUsedOnce`: one answer, submitted
twice, is accepted once. The row lock and the counter exclude a second use
together, and the unique credential id does for a registration, with two
exceptions, which the property names: a counter that stays 0, and credentials in
the history variable `setBack`. Two assertions of one authenticator, each with
its own challenge, can both have passed the counter check, and when the higher
one commits first, the other writes the stored counter back, after which an
answer with the higher counter is accepted again; three requests take part in
it. `ChallengeIsNotReused` says that a challenge is not used a second time by
any answer, as the comments have it, and fails (`passkeys_reuse`): registrations
with two credentials, or assertions with counters n and n + 1, both use it.

## AccessControl

State: `roles`, `system`, `powers` and `grants` are `roles`, its column
`is_system`, `role_permissions` and `user_roles`. Tenant 0 owns the system roles,
and users who register themselves belong to it (users.py:254-269), so requests
act for it as for any other (`AllTenants`): they may create roles that every
tenant sees and that are no system roles, and replace what the system roles may
do. A replacement of a set is `BeginChange`, which fixes the rows its
DELETE will remove, and `FinishChange`, which removes those and inserts the new
ones or is refused by a unique index. `ordered` and `mixed` are history: the
rows had the requests run one after the other, and who had overlapping ones;
`replaced` are the roles of tenant 0 that a request of tenant 0 has changed.

Properties: `SystemRolesKeepTheirPowers`: what a system role may do changes with
a request of tenant 0 or not at all, across two interfaces of which one compares
the tenant and the other the flag; `SetsReplace`: two overlapping replacements may leave the union of
both sets, nothing else may go wrong.

## TicketDesk

State: `tickets`, and in `deskWork` each request between its statements.
`CreateCount`/`CreateCommit`, `AutoAssignRead`/`Count`/`Commit`,
`ReplyRead`/`ReplyClock`/`ReplyCommit` and the three counts of the summary are the points at
which others run. `Assign` and `BulkStatus` are `update_ticket`, alone and in
bulk, `ChangeStatus` the only way `resolved_at` is set. `disturbed` is history:
somebody assigned by hand, or a count was out of date when used.

Properties: `RoundRobinIsEven` while undisturbed; `FirstResponseSettles`: of the
replies that overlap with the first one the last to commit says when the first
response was, which need not be the earliest, and once they have all ended no
later reply changes it; `SlaSummaryAddsUp`: `on_track` is computed from three
statements and is never negative. `BreachesAreUnresolved` is a docstring's word,
and fails (`tickets_breaches`).

## Recommendations

State: `cache` is the LRU list in process memory, `asking` the requests that
missed and wait for the database, `customerOf` the opportunities; `held` is
history. Entries are read, refreshed in order, dropped when too old, evicted;
`RestartApp` empties the cache. Time passes while a request waits, so an entry
is stamped later than the database was read: `waited` is how much later
(history). Property: `AnswersAreFresh`: an answer from the cache was right less
than the time limit and `waited` ago, whoever asked, read and stored meanwhile;
and the size in the type invariant.

## Automation

State: `rules`, `logs`, `effects` (what actions have done, committed), and each
trigger request: the rules left, the one at work, its entries, and what it has
written and not yet committed. An action returns a status and never raises: none for a notification sent,
"created" for a task, "assigned" or "updated" for tickets, to which nothing is
done, "skipped", "error" or unknown. A
statement the database refuses dooms the transaction. `ToggleRead` and
`ToggleWrite` are separate. Properties: `EffectsHaveLogs`, an equivalence between
committed notifications and tasks (`Effective`) and committed logs, for rules
that exist; `FailuresAreLogged`
is what a test's comment says, and fails (`automation_failures`).

## ChurnRisk

State: the ages and kinds of a customer's activities, opportunities and tickets.
`ChurnScore` is `churn_prediction.py` and `Risk` `churn_prediction_service.py`,
in exact integer arithmetic over a common denominator, `BatchRisk` the batch
version of the second. Property: `BetterBusinessLessRisk`. It names one
exception: an opportunity is dated by its creation, so winning one that is older
than 90 days raises the second score.

## DataModel, Deletions, Migrations

DataModel has one definition per ORM class: its table and its foreign keys with
their ON DELETE. Deletions has rows that refer to one another, inserted at will
where the keys allow, and a deletion follows CASCADE, SET NULL and refusal
through them (`Goes`, `Refused`, `Cleared`). `OnlyRulesHoldUsers` names the one
thing that keeps a user from being deleted: `automation_rules.created_by` is NOT
NULL and ON DELETE SET NULL. `UserDeletionKeepsRecords`: no record of the
business goes with its author.

Migrations has one definition per revision: what its upgrade and downgrade
create, drop, need and refuse. `Upgrade(g)` and `Downgrade(g)` run the missing
revisions below a target, or those above it, in the order of the graph and in one
transaction (env.py); a command that fails changes nothing. `StampSchema` is
`create_schema.py`. Which revisions come below a target (`Ancestors`) and what a
command does (`RunUp`, `RunDown`) are recursive functions along the chain.
`Raises` is a step that always fails:
the downgrade of e7f6a5b3c12d reads columns it has just dropped (91-97,
117-136), both directions of c4d5e6f70819 have `:table::regclass` in a statement,
which is no bound parameter (61, 64), the upgrade of 9aad50c58f54 names sa.JSONB,
and the downgrade of 3d9f46ff44b8 drops constraints without a name.

`SchemaFollowsRevisions` is about single commands: one that starts with the
schema of a new database upgraded to the same revisions also ends with such a
one, or is one of five ways of taking revisions back that do not undo them
(`LeavesTraces`), or the stamp. `HeadIsAsDeclared`: what records 9aad50c58f54 or
anything built on it, up to the last revision, was made by `create_schema.py`,
and stays at the last revision and at the schema the models declare, since
commands that would change it fail.

# Part 3. What is checked and proved

## Runs

| run | instance | what it shows |
|---|---|---|
| `pidlock_cron` | 3 pids | until a takeover the files implement an abstract lock, and only a takeover lets two runs in; runs that unwind leave no file; the job always gets in again |
| `pidlock_owner` | 3 pids | *violation of* `OneHolder` |
| `gates_cron` | test, deploy and the orchestrator, which runs the steps between them; clock to 4, window 0, runs up to 1 | the age bound holds through all four stages, and complete passes are judged fresh |
| `queue_cron` | 2 tasks, 1 planner, cooldown 2, period 2, runs up to 1, with deaths | each task lives one life; no lost update, no second attempt, every task gets on, though skipped runs begin the cooldown anew |
| `leads_overlap` | 1 lead, 1 owner, 2 requests of every kind and the job overlapping, cap 1 | when columns part, what of a history can be lost, the job keeps to its cap, stale leads move on |
| `leads_taken` | 1 lead, 2 owners, 1 request and the job | *violation of* `OnlyStaleAreRecycled` |
| `leads_told` | 1 lead, 2 owners, the job | *violation of* `RecycledOwnersAreTold` |
| `services` | one of the services in each behaviour, 2 requests of each kind, 3 with passkeys | sessions, passkeys, roles, tickets, cache, automation, routing and scores under overlap |
| `upkeep` | 18 target revisions; 10 tables, up to 4 rows; 2 hosts, 3 runs, 2 files | commands leave the schema of the revisions, a database at the head stays as declared, users can be deleted and take no records along, published results never go back |
| `tickets_breaches` | as `services` | *violation of* `BreachesAreUnresolved` |
| `automation_failures` | as `services` | *violation of* `FailuresAreLogged` |
| `passkeys_reuse` | as `services` | *violation of* `ChallengeIsNotReused` |

Bounds and why they are enough.

* Three pids: a holder, a run that takes over, and a third that meets both. The
  pids are reused, so any number of runs occurs.
* `MaxTime` is the only bound on the clock. In `gates_cron` one stage is worth
  one unit, so a deployment three units younger than its tests occurs within
  four. `MaxAge = 0` there means "a pass of this instant"; the theorems have
  every window, duration and clock.
* Two tasks are a head of the queue and one behind it. `Cooldown = Period = 2`
  is the tightest ratio the assumption `CronSlowerThanCooldown` allows; the
  real one is 60 to 120 minutes (openclaw_cron_setup.sh:89-92).
* Rows of different leads share nothing but the job's transaction, and each
  request touches one, so one lead suffices. `MaxCount` bounds reassignments by
  requests; the job is bounded by its own cap.
* `services` and `upkeep` choose one part at the start and leave the others
  alone: the parts share no rows, so their product would show nothing new. Two
  requests in flight are what every hazard of these modules takes; the slots
  are interchangeable, hence the symmetry.
  * Sessions: three tokens are a login, its rotation and a second one, or two
    logins; a token lives 3 ticks and a second is 2, so that a rest of less than
    a second, which is rounded up, occurs; the clock goes one past the expiry.
  * Passkeys: two authenticators, answers with the counters 0 and 1, three
    challenges: a registration and two assertions. Three requests, since it
    takes three to accept an answer with a counter twice; the clock goes to 1
    (`PasskeyClock`), past the life of a challenge.
  * AccessControl: tenant 0 and one more, one user, the same role name for
    both, two permissions: two replacements that overlap can differ. What tenant
    0 does to roles and what is done to users' roles are separate behaviours
    (`OfTenantZero`).
  * TicketDesk: two agents and two tickets, deadlines of now and two hours, an
    at-risk window of one: each side of both comparisons occurs. Assignment,
    first responses and the summary share only the tickets, and are separate
    behaviours.
  * Recommendations: a cache of one entry for two opportunities, one of which
    changes hands, so that entries are evicted and grow wrong; a time limit of 2
    and a clock to 3, so that an answer can arrive a tick late and still expire.
  * Automation: two rules, of two actions and of one, one event, two toggles.
  * LeadRouting: two leads, two users; a rule for one user, one for a team, one
    for nobody in particular, with conditions of the kinds that read columns;
    a load limit of 1, which both sides of it meet.
  * ChurnRisk: two activities, two opportunities, one ticket; steps of 45 days
    up to 105, which fall into each of the windows (30, 60, 90).
  * Migrations: the targets are on every branch, with the joins, the copy of
    eight revisions 52b19ee00eaf, db67d696b6ab, which needs tables it is not
    built on, and the three ends of the graph: 3d9f46ff44b8, 7770543dc37d and the
    last revision, c4d5e6f70819. No new database gets to the last one (see
    below); the stamp does.
  * Deletions: the tables between users and what must outlive them; four rows
    are a user, a workflow or rule, its run or log, and one more.
  * SharedMemory: two runs of one host and one of another, two files, two
    versions.

Fairness, and why the code justifies it.

* PidLock: cron keeps firing, and a run that is not killed goes on. Weak
  fairness of each; an unrelated process that got an old pid ends some day.
  Nothing is asked of crashes; `LockNeverStuck` speaks of what happens once
  they stop (`quiet`).
* TaskQueue: weak fairness of each run's steps, which have timeouts, and of the
  clock that makes cron fire. Nothing of research, the tests, manual runs or
  GitHub. The premises are stated in the properties: runs die finitely often,
  the tests stay green, attempts are cut short finitely often, runs by hand are
  turned away inside the cooldown finitely often.
* LeadPool: the scheduler runs the job again and again (weak fairness), and a
  job that repeatedly gets as far as its updates, or its commit, is not aborted
  each time (strong fairness of those two). Nothing is asked of requests. The
  lock a request holds is released at its end, within the same step.
* StageGates has no liveness property: a gate may stay closed for ever. The
  services have none either: what a request does is up to its client, and each
  ends by commit or rollback.

`CHECK_DEADLOCK` is off in the runs of MCServices and MCUpkeep only, where a
behaviour stops once its bounded rows, ticks and tokens are used up.

## Theorems

TLAPS proves the following for every value of the constants. The proof modules
of the pipeline's parts and of LeadPool first list the cases of a step
(`StepCases`), prove type correctness, and then an inductive invariant with one
step per action. The proofs about a service have one lemma per action and an
invariant that holds the types they need; their theorems are about the
service's own specification (`SessionSpec`, `PasskeySpec`, `DeskSpec`,
`RoutingSpec`, `AccessSpec`, `AutomationSpec`, `AdviceSpec`, `ChurnSpec`,
`DeletionsSpec`, `MemorySpec`, `MigrationSpec`). `ServicesKeepTheirPromises`,
`ServicesKeepTheirTypes`, `StoredDataKeepsItsPromises` and
`StoredDataKeepsItsTypes` take them to the composed specifications that TLC runs,
`ServicesSpec` and `UpkeepSpec`, of which every step is a step of each part or
leaves it alone (`EachTakesItsSteps`, `PartsOfUpkeep`).

| module | theorem | assumption beyond the module's | inductive invariant and why it is needed |
|---|---|---|---|
| PidLockProofs | `TypeCorrect` | | `TypeOK` is inductive |
| | `ExclusiveCreate` | | `OwnsFile`: until a takeover the file says who is inside. Exclusion alone does not exclude two creators that have not written yet |
| | `LockIsImplemented` | | `OwnsFile` again: it makes every step a step of AgentLock or a stutter |
| | `CleanShutdown` | | `SomeoneCleansUp`: while nobody was killed, a file at either path has a run that will still unlink or rename it |
| StageGatesProofs | `TypeCorrect` | | `TypeOK` |
| | `ChainIsBacked` | | envelopes and runs each carry their own share of the bound, with the age of the run added |
| | `CompletePassJudgesFresh` | | results of the stages already passed are no older than the loop, as long as it did not break |
| TaskQueueProofs | `TypeCorrect` | | `TypeOK` |
| | `ClaimsAreNotLost` | none on the number of planners | the property itself, with: the implementer writes back planned files only |
| | `NoLostUpdate` | at most one planner | copies agree with files and each phase of a run fixes its file's state, which keeps planner and implementer on different tasks |
| | `SettledOnce` | at most one planner | from the same invariant: nobody writes a marked file |
| | `QueueImplementsLife` | at most one planner | the same invariant, and the state of each copy, so that what is written back is the next state of that task |
| | `PullRequestsAreRecorded` | at most one planner | the same invariant, and a task in hand has no mark |
| LeadPoolProofs | `TypeCorrect` | | `TypeOK` |
| | `CountIsPaired` | | the pairing holds of the rows, of every row a request has read and of every row the job has scanned, save those of leads in `overtaken` |
| | `RecyclingIsCapped` | | the counts in the job's scan are below the cap |
| | `LoggedEntriesAreKept` | | `TypeOK`, which is inductive; then of one step, with a case per commit: what it writes begins with a history in `Pending`, or with the one that is there (`HistoryStep`) |
| AccountsProofs | `SessionsAlwaysSingle` | | `SInv`: the token a rotation has read is not revoked unless its login was overtaken (`Current`), and the one live token of a login is unique. Without the first, a commit could add a second one |
| | `AnswersAreUsedOnce` | | `PInv`: at most one request is past a challenge's row lock, and its answer is new to the challenge as far as the counter tells (`Checked`); an answer that was accepted has left its count in the credential (`Marked`) |
| | `PasskeySessionsStaySingle` | | `PInv` contains `SInv`; a verified assertion starts a session as a login does |
| | `SessionsKeepTheirTypes` | | `SBounds` beside `SInv`: hours and ids stay in their ranges |
| | `PasskeysKeepTheirTypes` | `Devices # {}` (a client names one) | `PBounds` beside `PInv`: challenges are numbered from 1, and what a request holds is a challenge that was created |
| AssignmentProofs | `FirstResponseAlwaysSettles` | | a ticket has a first response exactly if one of its replies is committed (`AnswersAreMarked`), and a reply under way has found its ticket answered, or has a time of its own that is not past now (`ReplyInOrder`): so the last of the first replies has written when it ends, and those to come write no time |
| | `SlaSummaryAlwaysAddsUp` | | what a summary has counted is bounded by the tickets late at its hour, then by all tickets: deadlines do not change and tickets do not go away. The two sets it counts are disjoint |
| | `RoundRobinStaysEven` | | `Even`: while undisturbed, agent number i has k tickets, or k + 1 if it comes before the number of assigned tickets modulo the pool. That two agents differ by one at most says too little of who is next |
| | `LeadsAlwaysGoToTheFreest` | | `LInv`: what a request nobody has overtaken has read so far is what it would read now, at each of its statements (`UpToDate`) |
| | `RoutingKeepsItsTypes` | | `LInv`, and `TextsSaved`: a rule row is empty or says what may be saved of that rule |
| ServicesProofs | `SystemRolesAlwaysKeepTheirPowers` | | a request in flight that writes rows of a system role is of tenant 0, and the role counts as replaced once it commits |
| | `AccessKeepsItsTypes` | | the invariant of the other two, and `MixedTyped`: which owners had overlapping requests |
| | `SetsAlwaysReplace` | | a request alone on its owner deletes all the rows there are (`Alone`), so that what it inserts is the set |
| | `EffectsAlwaysHaveLogs` | | what a request has done agrees with what it has logged or noted for the log of its current rule (`Pending`), and it runs each rule once. The property speaks of committed rows alone, and would not survive a commit |
| | `AutomationKeepsItsTypes` | | the invariant of `EffectsAlwaysHaveLogs`, and `StoreTyped` of what is committed |
| | `AnswersAreAlwaysFresh` | | `CInv`: an entry's opportunity had that customer at the entry's time or later less the time it waited (`Sound`), and a request that has read has read what held at that moment; one entry per opportunity, though entries move and are evicted |
| | `BetterBusinessNeverMoreRisk` | | the types of the rows (`ChurnTyped`), and of a step: what was there stays as old, what is new is of today (`BetterRows`). So of the six numbers `Score` is a function of, each moves one way at most, and the month before does not move at all: its sizes are the denominators (`ScoreFalls`). Revenue is a fold over a set; it is the number of pairs of a deal and a number up to its amount (`FoldCountsUnits`), so that more deals sum to more |
| | `ScoresArePercentages` | | the same types; each of four factors is at most its whole (`ScoreRange`, `WellnessGrows`) |
| | `ServicesKeepTheirPromises` | | `TogetherInv`: users and tokens are those of Sessions or of Passkeys, whichever runs; nothing else is shared |
| | `ServicesKeepTheirTypes` | | `TogetherTyped`: that of `TogetherInv` for Sessions and Passkeys, with their bounds; the others from their own theorems |
| UpkeepProofs | `KeysAlwaysFindTheirRows` | | `RowsInv`: the type of the rows, with exactly the references their table's keys have. What goes with a row is the union of the waves of CASCADE; after as many waves as there are rows nothing is left to go (`GoesIsClosed`) |
| | `OnlyRulesEverHoldUsers` | | `RowsInv`, and `AllKeysOK`: of the keys of all 71 models, those to what goes with a user cascade within the user's own tables or set null what may be null, with one exception |
| | `UsersLeaveTheRecords` | | the same: what goes with a user is in the tables of `UsersOwn`, and records of the business are not |
| | `MemoryKeepsItsTypes` | | `MemoryTyped`, where versions are those written so far |
| | `PublishedResultsNeverGoBack` | | `MemoryInv`: a clone's commits do not take back what they are based on, its files are not older than what is checked out unless a rebase stopped in it, and only files the remote has carry markers (`CopySound`); what `MergeBackup` would put together keeps this (`MergeSound`). TLC has checked it too |
| | `CommandsFollowTheGraph` | `Goals \subseteq Revisions` | `MigrationTypeOK` is inductive, once `Ancestors` is known to be the least set with a revision that is closed under the edges (`AncestorsAreClosed`, `AncestorsAreLeast`): so an upgrade leaves a closed set, and what a downgrade leaves applied is not built on what it took back |
| | `TheHeadIsAlwaysAsDeclared` | `Goals \subseteq Revisions` | `HeadInv`: what records 9aad50c58f54 records every revision but perhaps two that change nothing (`Loose`), and has the declared schema. The last revision is built on all but four (`AllButFourUnder`); so a downgrade of a stamped database comes to its downgrade, or to that of 3d9f46ff44b8, which both raise, unless it takes back the loose ones alone (`UnderOneOfTwo`), and the upgrade of 9aad50c58f54 raises |
| | `SchemaFollowsPlainRevisions` | `Goals \subseteq Revisions` | no invariant of the schema: `MigrationTypeOK` and, of one step, that the applied revisions are among the 37 of `Neat`, that no two of them make the same object (`Orderly`), and that the schema is all they make, but for the columns e7f6a5b3c12d replaces (`Made`). A database upgraded from nothing is so (`FollowsIsMade`, `MadeFollows`), an upgrade adds to it (`UpgradeKeepsSchema`), a downgrade that does not raise takes away its own part (`DowngradeKeepsSchema`) |
| | `StoredDataKeepsItsTypes` | | the type invariants side by side |
| | `StoredDataKeepsItsPromises` | as before | the invariants side by side; of the schema, `HeadIsAsDeclared` and what `SchemaFollowsPlainRevisions` says |

What rests on TLC alone:

* the liveness properties (`LockNeverStuck`, `EveryTaskIsPlanned`,
  `EligibleTaskIsSettled`, `StaleLeadsMoveOn`), because fairness needs ENABLED,
  which the prover does not treat;
* `SchemaFollowsRevisions` for databases with 52b19ee00eaf, db67d696b6ab or one of
  the 18 revisions built on them. Of the five exceptions it names (`LeavesTraces`)
  all are there: 52b19ee00eaf with a52e1317da90, merge_nt_662,
  merge_heads_63274_addcp001, e646948c549a under db67d696b6ab, and 63274a8b98b3c
  under a940f167ad16. The theorem is of the 37 other revisions and needs none;
* `OnlyStaleAreRecycled`, `ChallengeIsNotReused` and the other violations.

No module proved about has a RECURSIVE operator. The prover cannot instantiate
the library's induction theorems; where a proof needs induction over the
naturals (the waves of CASCADE, the last patch of a branch that touches a
file, the revisions of a command), UpkeepProofs derives it for sets
(`LeastNat`, `NatInd`) from the well-foundedness of <; over the elements of a fold, ServicesProofs takes a least
set of the strict subset ordering at which fold and count would differ. A lemma
cannot take a step as a parameter either: the three recursive functions of
Migrations are unrolled by one operator that has the steps of all
(`Advance`, `UnrollsExist`). `RemoveEntry` and `Positions` in Recommendations
are written with SubSeq and CHOOSE instead of a filter for the same reason.

## Where code and documentation disagree

| run | the documentation | the code |
|---|---|---|
| `pidlock_owner` | "Try atomic exclusive create first. If that succeeds we own the lock." (pipeline.py:227) | the pid is written after the create; a reader in between takes the lock over |
| `leads_taken` | "Recycle leads with no response within the stale window." (lead_routing_service.py:253) | the update is by id, and a lead reassigned, edited or converted since the scan loses its owner |
| `leads_told` | "triggers notifications for each recycled lead" (lead_routing_service.py:397-398) | the type is refused, the refusal logged |
| `tickets_breaches` | "Return all unresolved tickets whose response deadline has passed" (ticket_service.py:411) | only change_status sets resolved_at; tickets resolved by an update are listed |
| `automation_failures` | "the unknown action will fail, producing a "failed" log" (test_automation_rules_ui_integration.py:264) | actions return a status, the list of errors stays empty, the log says success |
| `passkeys_reuse` | "Consume challenge from DB (validates existence, TTL, not reused)" (webauthn_service.py:252; 126 too) | a second transaction that has selected the challenge marks it again by id and uses it: nothing stops a second registration, and only the counter a second assertion |

Seen while reading, not checked by a run: a run that is given the pid left in
the lock file takes itself for the holder and skips (244); the orchestrator
follows the model's recommendation even when not every stage is green (595);
a target file that is not UTF-8 raises after the claim, and the task is never
picked again; a push refused by `--force-with-lease` keeps its task at the head
of the queue; `get_leads_by_owner` is called with its arguments in another
order (customers.py:417); `bulk_recycle` logs previous owner 0, since it
refreshes the row after the update; a lead created with an owner has no
assigned_at and is never stale.

* Pipeline: "Claim the task so a concurrent cron fire doesn't re-pick it."
  (pipeline.py:911) does not hold for two runs the lock lets in together; "a
  daily 'do the whole pipeline in one serial pass' safety net"
  (crontab.example:19-20) does not hold of a pass cut short by an exception;
  "Reassign a lead with reason logged to recycle_history." (customers.py:507)
  does not hold of overlapping transactions, beyond what `HistoryIsKept` says.
* SharedMemory: a rebase that stopped ends all exchange of its host until
  someone repairs it; "nothing to commit" returns without pushing earlier
  commits that were rejected; a timeout at import ends the run; the lock files
  are committed too.
* LeadRouting: max_load_per_rep changes no choice, since the least loaded user
  below a threshold is the least loaded user; PUT /settings/routing/priority is
  shadowed by PUT /settings/routing/{rule_id} and GET /customers/leads by
  GET /customers/{customer_id}; a rule for a team compares the name of a role
  with a number, and creating the lead fails; conditions on region, industry,
  employee_count and source read columns that do not exist.
* Sessions: "never extends the original session" (token_service.py:231) is not
  so for the last second, which is rounded up; a rotation that has read its
  token survives a logout; the roles in an access token come from the column of
  the user and not from user_roles.
* TicketDesk: /sla/status awaits functions that are not coroutines; a bulk
  update reports tickets as updated that a rollback may undo.
* Automation: deleting a rule deletes its logs; the presets of
  automation_rules.py are not used. Recommendations: nothing calls
  invalidate_cache.
* ChurnRisk: an opportunity counts from its creation, not from being won; a
  stored prediction would be served whatever its age, but nothing stores one.
* Migrations: a new database cannot be upgraded to the last revision
  ("upgrade head" in the Makefile, and merge_nt_662.py:11-12): revisions create
  what others have created, one names sa.JSONB, and CREATE INDEX CONCURRENTLY
  is refused inside the one transaction env.py opens. create_schema.py goes
  round it. The tables organizations, departments, workflow_definitions and
  workflow_instances are in no revision. The downgrade of 52b19ee00eaf
  drops the tables of eight other revisions also when its upgrade has passed
  them over, and db67d696b6ab needs tables of revisions it is not built on.
  The downgrade of e7f6a5b3c12d reads the columns it has dropped and always
  fails, and so do c4d5e6f70819's upgrade and downgrade.
* Deletions: automation_rules.created_by is NOT NULL with ON DELETE SET NULL,
  so a user who wrote a rule cannot be deleted; ids without a foreign key
  (customers.owner_id, tickets.assigned_to, user_roles.user_id) keep the id of
  what is gone.

# Part 4. What is not modelled, and the plan

StageGates, TaskQueue and PidLock assume one host: a file is seen by every run
as soon as it is written; SharedMemory has the hosts. The CRM modules speak of
one tenant, except AccessControl.

| component | status | why |
|---|---|---|
| sales pipelines, marketing, workflows, notifications, tasks, users, tenants | partly | what other components share with them (a user's life, an opportunity's customer and outcome, deletions) is modelled; the rest is single-row create, read, update. pipeline_service and marketing's record_event are reached by no endpoint |
| ask_agent bridge, database sessions | partly | outcomes, and commit or rollback, appear in the modules that use them |
| GitHub workflows | no | run by GitHub from YAML and shell; the repository has no code for the events between them |
| import and export, ticket categorization, enrichment, lead scoring | no | one request, one transaction over its own rows |
| agent registry and dispatch, events and websockets | no | tables in memory, filled at start; no state survives a call |
| manager and stats, CI helpers, coordinator and deploy scripts | no | sequential programs; nothing waits for what they write |
| reports, chat, HTTP layer, front end, tests, docs | no | reading, formatting, input and output |

Left for later, in this order:

1. **LockedQueue**: PidLock composed with TaskQueue, so that the double claim
   follows from the lock's own steps and not from an assumption.
2. **IssueLabels**: the labels and comments of the GitHub workflows, if their
   events can be modelled from the scripts alone.
