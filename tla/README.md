# A TLA+ model of the GitLab emulator

The emulator is one FastAPI process over one SQLite file. It stores projects,
pipelines and jobs, serves git, and answers the official `gitlab-runner` as a
GitLab instance would. This directory holds TLA+ modules for its CI coordinator,
for the creation of pipelines, for what pushes, commits and imports do to a
repository, and for the rows and lists behind its three APIs; TLC
configurations that check them on small instances; and TLAPS proofs about them
for all instances.

    tlc -config serial.cfg MCJobCoordinator       # check a model
    tlapm AttemptProofs.tla                       # check a proof

Source abbreviations: `runner.py`, `pipelines.py`, `issues.py` are in
`app/api/`; `delayed_jobs.py`, `pipeline_schedules.py`, `ci_redaction.py`,
`ci_yaml.py`, `import_service.py`, `project_cleanup.py` in `app/services/`;
`smart_http.py`, `ssh_server.py` in `app/git/`; `ci.py` in `app/models/`.

## 1. The system

| Component | State | Operations | Talks to |
|---|---|---|---|
| Job coordinator | `pipelines`, `pipeline_jobs` | poll, report, play, cancel, retry, requeue, pipeline cancel and retry, creation, promotion of delayed jobs | runners (HTTP), users, the schedule worker; all through the rows |
| Job scheduling rules | none: functions of the rows | what a job waits for, which jobs are skipped, automatic retry, resource groups, the derived pipeline status | called by the coordinator's handlers |
| Job trace upload | `job_traces`, `pipeline_jobs.trace_size` | `PATCH /jobs/:id/trace`, the final report, retry and requeue (which empty the trace), erasure | the runner's own offsets |
| Pipeline schedules | `pipeline_schedules` | worker round: read due schedules, advance `next_run_at`, create a pipeline | pipeline creation; the same loop promotes delayed jobs |
| Pipeline creation, bridges | `pipelines.iid`, jobs, parent and child links | validate, allocate iid, insert, trigger children, cancel superseded pipelines | parser, coordinator |
| Artifacts, cache | files on disk and their rows | upload, download, expire, erase; cache put and get | runners, erasure |
| Configuration parser | none | include, merge, extend, decide rules, check needs | pipeline creation |
| Variables and secrets | rows at three scopes | create, change, delete through REST and two web surfaces | job payload |
| Runner registration, matching | `runners` | register, verify, pause, delete, match by tags | poll |
| Git transport | bare repositories, their hooks, `branches` | push over HTTP and SSH, fetch | protected branches, push pipelines |
| Git storage | bare repositories | files, contents, commits, branches and refs through the APIs and the web pages | rows of branches |
| Issues, merge and pull requests | `issues`, `pull_requests`, two counters of the project | create, change, close, merge through REST (two shapes), GraphQL, web | git |
| Labels, milestones, comments, releases, members, stars, teams | rows | CRUD through the same surfaces | their project |
| Projects, groups, users, tokens, keys, hooks, snippets, gists | rows, directories | create, delete with what they own | every component |
| Project import | `import_jobs`, directories | single and bulk import as background tasks | a remote GitLab, git |
| Lists and searches | none | pages, links and cursors over all of the above | clients |
| Middleware, pages, JSON shapes | none | headers, rendering | |

What is hard here. Requests are coroutines of one process, but each has its own
database session and SQLite connection:

- **Reads take no lock.** A handler `SELECT`s in autocommit mode and gets the
  write lock only when its first `INSERT` or `UPDATE` is flushed, usually at
  the end. What it decided on may have been changed by then, and at flush it
  writes the columns whose value it changed, not the whole row.
- **Pipeline status is redundant.** It is derived from the jobs by whoever
  commits, from the rows that session has seen.
- **Runners outlive decisions.** A canceled job's runner keeps reporting; an
  answer may be lost after the commit; a report is repeated until answered.
  The only fence is the job token, which a retry or requeue replaces.
- **Git and the rows are two stores.** A push, a merge, a commit or an import
  changes one and then the other, and other requests act in between.
- **Foreign keys are not enforced**, and SQLite gives the id of the last deleted
  row to the next one.
- **A process or a request may stop** between any two statements. No background
  task is taken up again. After a failed flush a session refuses what the
  `except` clause then asks of it.

What makes each part correct:

- *Coordinator*: one token is executed once; a result belongs to the attempt
  whose token is current and is final for it; a running job is authorised to
  report; automatic retries are bounded; a resource group is serialized; stages
  and needs are respected; a passed pipeline has nothing failed in it;
  `finished_at` agrees with the status; every pipeline ends if nobody
  interferes.
- *Trace upload*: each stored byte is at the runner's offset; what was
  acknowledged stays; an upload always gets on; attempts do not mix.
- *Schedules*: a due schedule creates at most one pipeline for each time it
  becomes due, and none waits for ever.
- *Creation*: iids are dense and unique, a pipeline is committed whole or not at
  all, both ends of a bridge agree, a creation ends.
- *Configuration*: what is accepted cannot wait for itself but in one known
  way; a key comes from the nearest place that sets it.
- *Artifacts, cache*: a row has its file; a download is a whole archive.
- *Git*: protected branches are kept; branch rows follow the disk again once a
  push is alone; each pushed commit has a pipeline; no accepted change is lost.
- *Rows*: numbers are used once, counts are true, what is merged is in the base,
  a key has one row, and nobody inherits the rows of a deleted owner.
- *Imports*: rows, directories and counts agree when the tasks are over.
- *Lists*: a walk through the pages shows what is there, once.

PROJECT.json lists every hazard at its source line with the properties that
cover it, and says of the others why none does yet.

## 2. Modules

    AttemptLedger <-(INSTANCE)- JobCoordinator
    CiJobs  <- JobCoordinator <- MCJobCoordinator             (+ 6 .cfg)
                     ^--- JobCoordinatorProofs <- AttemptProofs <- OrderProofs
    ResumableLog <-(INSTANCE)- TraceUpload <- MCTraceUpload   (+ 3 .cfg)
                                    ^--- TraceProofs
    PipelineCreation, PipelineSchedules,
        CiConfig, ProjectImport  <- MCPipelines               (creation.cfg)
        MCPipelines <- PipelineProofs
    IssueTracker, GitPush        <- MCChanges                 (changes.cfg)
    GitPush, BranchCommits,
        ProjectCache, JobArtifacts, KeyedRows,
        OwnedRows, Listings      <- MCRepository              (repository.cfg)
        IssueTracker, KeyedRows, OwnedRows <- RowProofs
        Listings <- ListingProofs
        MCRepository, RowProofs, ListingProofs <- RepositoryProofs

**CiJobs** has the rules and the effects of the handlers as operators on a
state of the rows: `Unblocked` (`_job_stage_is_unblocked`), `GroupIsFree`,
`SkipJobsAfterFailedStage`, `SkipOnFailureJobs`, `ShouldAutoRetry`,
`DerivedVerdict` (`_derive_pipeline_status`), `ResetForRetry`, `Reported`
(`update_job`), `Promoted`, `Canceled` and others. A job's configuration is a
constant record `Def[j]`: pipeline, stage, when, needs, allow_failure, retry,
resource group, interruptible. A failure reason or exit code is a member of a
small set.

**JobCoordinator** is the state machine. `db` holds the committed rows: per job
`status`, `token`, `retries`, `exit`, `due`; per pipeline `verdict` (the
`status` column) and `finished` (whether `finished_at` is set). A token is a
number; `issued[j]` counts those generated. `held` and `told` are the runners:
attempts they were given, final reports they have to deliver. `handed` and
`autos` are history. Each handler is one action: `PlayJob`, `CancelJob`,
`RetryJob`, `RequeueJob`, `CancelPipeline` (the API and CI Lab assign
`canceled`), `CancelPipelineInUi` (the web UI derives), `RetryPipeline`,
`UpdateJob`, `PromoteDelayed`, `RequestJob`, `CreatePipeline`. `Finish` and
`Elapse` are the environment.

The constant `Split` names the handlers that take two steps: `Read(c, q)`
stores the committed rows as the snapshot of request `q`, and the handler's
action later works on it. Its flush writes the changed columns only
(`Written`, `Flushed`). A handler outside `Split` reads and writes in one step,
which is the behaviour when requests do not overlap. `Drop` ends a request
without a commit: a crash, a client that leaves, a lock timeout. Creation and
the poll write (an `INSERT`, the runner's contact) before they read the jobs
they change, so they are always one step. `_derive_pipeline_status` refreshes
the pipeline's jobs after a flush; whether a job the session still holds shows
its stored or its loaded columns is left open in `CommitDerived`.

**AttemptLedger** is the abstract specification of the attempts of a job. Its
entry has the phase of the job (`waiting`, `running`, `off`, a result), the current
attempt, the attempts that were given out and the results that were reported. An
attempt is given out once and reported on once; its result is the one reported;
a withdrawn one runs again only while its runner goes on with it; otherwise
only a new, greater attempt reopens the job. `FollowsLedger` says JobCoordinator
implements it, with the token as the attempt (`Entry`): `Execute` is the poll,
`Decide` and `Resume` a report, `Withdraw` a cancel or a skip, `Renew` a retry, a
requeue or an automatic retry. A play and a promotion leave the phase alone.

**TraceUpload** is `PATCH /jobs/:id/trace` and the runner at the other end. A
log is a sequence of bytes fixed per attempt (`Output`), one masked value
(`Secret`) may occur in it. `row` is the job and its trace, `runner[a]` what
attempt `a` wrote (`made`) and was told is stored (`sent`), `call` the PATCH
requests in flight. `Mask` is `mask_trace_bytes`, `Spliced` the chunk placed at
its offset, `Refuse` the 416 with the stored size, `Accept` the 202. With
`Split` the handler loads its rows (`Load`), waits for the body, then writes.
`_create_pipeline` inserts a job's trace row with the job, so a PATCH finds it
and holds no lock while it waits: any two PATCHes overlap freely. `Cancel`, `Retry`, `Requeue`,
`ReportFailure` (automatic retry), `Erase` and `Report` are the other writers.
`Timeout` is the runner giving up on an answer, `Drop` a request that fails.

**ResumableLog** is the abstract specification of an upload: the number of
stored bytes of the current attempt only grows, until it is erased or another
attempt begins. `GrowsOnly` says TraceUpload implements it, with `stored` the
length of `row.raw`.

**PipelineCreation** is `_create_pipeline`. A call is a stack of frames, since a
bridge job makes the function call itself for another project in the same
session; `draft` is what the session flushed and has not committed. The two
commits (the parent with its jobs, then the bridge's result), a downstream
failure caught by the parent, a crash, and a runner that polls the bridge job
in between are actions.

**PipelineSchedules** is the worker's round, in the order of its statements:
select what is due, commit `next_run_at`, create the pipeline, record it. Users
create, change, delete and play schedules meanwhile, a creation may fail, and
`Restart` stops the process. A cron expression is any next time within
`MaxWait`.

**CiConfig** goes from the files of a commit to the jobs of a pipeline
(`ci_yaml.py`, `_read_gitlab_ci_with_includes`, `_validate_job_needs`). It is an
evaluation, not a protocol: `Documents` are the inputs, `created` the result.
Stages are looked up as the code does: a stage that is listed twice is at its last
place, one that is not listed comes after all of them.
`InheritedIsNearest` compares it with a reference definition that looks for the
nearest place instead of merging.

**ProjectImport** is a task per import, with each commit, the clone into the
path's directory, the duplicate check, the parent's count as the session loaded
it, and the three ways a task ends: its own `except` clause (`Raises`), a
session that refuses to go on (`DatabaseRefuses`), a restart.

**IssueTracker** has the two counters of a project and its issues and merge
requests. A request is a record of what it has loaded and will write; REST loads
the project first, GraphQL the item. Git merges before the commit (`GitMerge`).
The state of an item is `open`, `closed` or `other`: GitHub's `PATCH` stores
whatever string it is given (`UpdateIssue`, `UpdatePull`), while the other
surfaces know two. `Recount` is the count a handler writes, `Miscounts` the
changes it does not follow.

**GitPush** is a push from the check of protected branches through the hook
file, git, the branch rows and the push pipelines, over HTTP and SSH. A branch
row has the rule it is protected by, if any: the least level that may push and
`allow_force_push`. A hook holds the level of its user and a case for each
branch that was protected when it was written (`Hook`), and git runs whichever
hook is in place (`Declined`). `ProtectBranch` and `UnprotectBranch` are the
API, which inserts the row of a branch that has none.
**BranchCommits** has the handlers that commit without a checkout: which git
commands they run in which order, and whether `update-ref` compares.

**ProjectCache** and **JobArtifacts** are the files of `runner.py` with the
requests that write, read and remove them.

**KeyedRows** has every handler that finds rows by a key, a line each: what they
do is one of a few shapes (look and insert, insert, rename, remove; by key or by
the id a page showed), and whether SQLite can enforce the table's constraint
decides the rest. A `NULL` in a `UNIQUE` constraint is why some tables are
`Unconstrained`.

**OwnedRows** has, in the same way, every handler that adds, changes or removes a
row of an owner, and the ways to delete a project, a group, a user, an issue or a
release. `OfProject` and `OfOther` say what a deletion does with each kind of
row; `NextId` is how SQLite numbers.

**Listings** has every list handler by how it orders, counts and cuts its rows, a
client that follows the pages or cursors to the end, and rows that come, go and
move between two requests.

The MC modules only hold small pipelines, logs and documents; each `.cfg` picks
one. MCPipelines, MCChanges and MCRepository check modules that share no variable: `part`
says which one moves, as the product of independent parts has no behaviour that
the parts do not have.

## 3. Runs

| Run | Instance | Properties | States |
|---|---|---|---|
| `serial` | two pipelines of one ref, three jobs (retried, delayed, manual), every request, one at a time | `TypeOK ResultsAreEarned SuccessIsEarned FinishedIsStamped FollowsLedger` | 65 k |
| `groups` | two jobs of one resource group, stale retries of a job and of the pipeline, two in flight, requeues, lost poll answers | `PendingIsFresh RunningIsHanded AutoRetryBudget GroupIsSerialized` | 517 k |
| `ends` | six jobs: retry, allowed failure, delayed with needs, always, two on_failure in a row; two runners; no user | `RanInOrder WaitingHasAReason OnFailureIsSettled PipelineEnds` | 613 |
| `upload` | two attempts, one PATCH at a time, three faults | `AckedIsStored GrowsOnly` | 30 k |
| `upload_overlap` | one attempt, two PATCHes, read and write apart, three faults | `OffsetsAreKept UploadEnds` | 64 k |
| `creation` | two projects with bridges and two calls; a cycle of bridges; two schedules; a family of CI files; two imports and a bulk import of two | `TypeOK IidsAreDense CommittedIsWhole BridgesAgree DeadlockIsInOneStage InheritedIsNearest ImportsAreAccounted CreationEnds OneRunPerDueTime DueIsServed` | 280 k |
| `changes` | two requests over two issues or merge requests, through every surface; two pushes to one branch, two levels, every rule | `NumbersAreFresh CountIsOpen AcceptedIsInBase ProtectedIsKept` | 3.1 M |
| `repository` | two requests, pushes or uploads at a time against two branches, files, formats, keys or owners; every kind of row and every list | `TypeOK ServedIsWhole ArtifactsAreThere RowsAreRepaired PushHasPipeline ChangesAreKept KeysAreUnique NothingInherited WalkIsExact` | 1.4 M |

What the last three show is often a promise with an exception, and the exception
is as much a result as the promise:

- `BridgesAgree`: a bridge job that succeeded has its whole downstream pipeline
  unless a runner took the job; a crash between the commits leaves it unlinked.
- `CommittedIsWhole`: a downstream pipeline that failed is committed without
  jobs by the parent that caught the error.
- `DeadlockIsInOneStage`: only needs that form a cycle within a stage are
  accepted and wait for ever.
- `CreationEnds`: a cycle of bridges does not end; nothing but a bridge to the
  project itself is refused.
- `DueIsServed`: a schedule whose creation fails ends the round (the handler
  reads an expired row after the rollback), and those behind it wait a round.
- `ImportsAreAccounted`: two imports of one path remove each other's directory;
  a failure after the repository row leaves the row without one; a bulk import
  whose imports overlap keeps `running`, since each adds one to the count it
  loaded before its clone; a locked database or a restart leaves an import as
  it was.
- `CountIsOpen`: overlapping requests, GraphQL's `updateIssue`, and a GitHub
  `PATCH` with a state other than open and closed make the count drift, the last
  two without any overlap, and it is never recounted. (The comment at
  `models/issue.py:30` knows the two states only.) The property is claimed until
  one of these has happened (`drifted`).
- `ProtectedIsKept`: a branch may be pushed to by users of the level it asks for,
  and forced where `allow_force_push` is set; a push whose hook another push
  replaced is checked by the other's hook. Over HTTP the level and the deletion
  were checked before; a forced update is looked at by the hook alone.
- `ChangesAreKept`: handlers that do not compare overwrite a commit that lands
  while they read.
- `KeysAreUnique`: two requests may make a member or a star twice, and every
  later look-up of the key then raises.
- `NothingInherited`: webhooks, deploy keys, snippets, statuses, check runs and
  actions rows are left when their project is deleted, as are a user's keys and
  gists and a group's hooks, and go to the next owner with that id (an issue's
  labels go with the issue, as they are a many-to-many relationship); a user with
  tokens or projects, a group with members and a release with links are refused
  with an IntegrityError on most surfaces.
- `WalkIsExact`: rows that go let a client miss others, rows that come let it see
  some twice; with cursors as with pages, since a cursor is a position.

Where the code loses a race, a history variable records that it happened
(`overtaken`, `overlap`, `shared`, `crossed`, `drifted`, `exposed`, `met`), and
the property is claimed of everything else: it bounds what the race can damage,
it does not say that there is no damage. In the same way `groups`
splits the retries (`Split`) and leaves the other handlers in one step: requests
that read and write apart are proved about for more handlers than a run splits
(section 4), and no property covers a promotion, an operator's requeue or a
report whose own check is overtaken. PROJECT.json's notes on these hazards say
so.

The passing runs together take every action. Runs in which the code disagrees
with the repository's own text:

| Run | What happens |
|---|---|
| `double_play` | Two play requests read `manual`; one commits, a runner polls the job, then the other puts it back to `pending` with the same token. The test suite says a job that is not manual is not playable. |
| `cleanup_skew` | The last two reports before an on_failure job overlap; each sees the other job running, so neither skips it, and it waits for ever. |
| `group_of_project` | The group is looked for in the candidate's own pipeline; the plan says it is serialized in the project. |
| `stale_append` | A PATCH waits for its body while the job is requeued, then writes the old attempt's log into the new attempt. The runbook says a requeue clears the offsets so that the job can safely be picked up again. |

Each of the four is a counterexample of at most ten steps. `groups` splits no play
because of the first; `GroupIsSerialized` is per pipeline
because of the third; `upload_overlap` has one attempt because of the fourth.

### Bounds

- `MaxToken = 2` attempts of a job: enough for a stale token, a stale report
  and a used retry budget; `retry:max` is 1 or 0. A third attempt meets the
  same two kinds of token, the current one and an old one.
- `Slot = {1, 2}`: two handlers in flight. Interference here is a pair, a read
  and the write that invalidates it; polls, creation and unsplit requests
  interleave with both besides.
- Jobs: one to six, so that one is before, one beside and one after the job of
  interest; two pipelines where superseding matters.
- Logs of three and four bytes, a secret of two, so that it can be cut in the
  middle; `MaxFaults = 3`: a timeout, a lost request and one more.
- `creation`: `MaxRequested = 2` calls, each with a bridge, make four pipelines
  of two projects; a longer chain repeats the same two frames. In a cycle one
  call goes up to `MaxPipelines`. Two schedules make one that is ahead of the
  other, `Limit = 2` takes both in a round, and `MaxWait = 2` makes a run longer
  or shorter than the other's. The CI files have two jobs and a template, or three
  files that include one another, with every key that is inherited set or not.
  Two imports overlap, or are the two of the bulk import (`MaxImport`,
  `MaxFound`).
- `changes`, `repository`: races are of pairs, so two requests,
  pushes or uploads; two numbers, branches, files, formats or keys are enough for one to be about
  another. `MaxBirth = 2` owners use one id after the other. A list of at most
  four rows, pages of one or two and two changes cut it before, at and after the
  place that changes. Uploads to the cache have one and two blocks. `MaxCommit = 3`
  leaves each of two pushes one commit of its own after the first. `changes`
  has one branch and pushes of one command, so that every rule over two levels,
  below and at the least level, with forced updates or without, fits; in
  `repository` two branches are pushed to at once and the one rule is the API's
  default (maintainers, no forced updates), for the rows and pipelines. `MaxCount = 2` lets the count of two
  items drift by as much as there are items.
- `CHECK_DEADLOCK FALSE` in every run: a finished job or pipeline is the end of
  the story, and `MaxToken`, `MaxFaults` stop the rest.
- Symmetry only in `changes` and `repository`: the requests are alike, and so are
  paths, formats and keys; branches and ids are ordered, and uploads to the cache differ
  in length. Its temporal properties are action properties.

### Fairness

`PipelineEnds` (run `ends`) assumes what never stops in the deployment: each
runner polls again and again, the worker wakes up every few seconds, delays
elapse, the script of an attempt ends, and a final report is repeated until it
is answered. Nothing is assumed of users. It is weak fairness: each of these
loops retries while it has something to do.

`UploadEnds` assumes the runner writes, sends what is unsent and reports, and
that a PATCH that arrived ends. Faults are finitely many (`MaxFaults`); an
upload whose every answer is lost cannot end. Fairness of `Timeout` and `Drop`
is not assumed.

`CreationEnds` assumes that each call takes its next step: `_create_pipeline` is
one coroutine that waits for nothing but the database. `DueIsServed` assumes the
worker polls for as long as the server runs, and only speaks of behaviours in
which restarts and users' changes come to an end. Imports, pushes and rows have
no fairness: what must have happened in the end is stated of the states in which
nothing is in flight.

## 4. Proofs

All for arbitrary jobs, pipelines, configurations, runners, numbers of requests,
bounds and logs. What a theorem assumes besides the modules' own `ASSUME`s:

| Theorem | Assumes | Shows |
|---|---|---|
| `TypeCorrect` | nothing | `TypeOK`, for every `Split` |
| `AttemptsAreFenced` | play and promote not split | `PendingIsFresh`: a waiting job never has a token that was handed out |
| `ResultsBelongToAttempts`, `RunningJobsAreHeld` | update and requeue not split | `ResultsAreEarned`, `RunningIsHanded` |
| `RetriesAreBounded` | update not split | `AutoRetryBudget` |
| `ResultsAreFinal` | only the retries split | `ResultIsFinal` |
| `AttemptsFollowLedger` | the same | JobCoordinator implements `AttemptLedger` (`FollowsLedger`) |
| `GroupsAreSerialized` | only the retries split; nothing canceled | `GroupIsSerialized` |
| `VerdictsAreSound`, `FinishesAreStamped` | nothing split | `SuccessIsEarned`, `FinishedIsStamped` |
| `JobsRunInOrder`, `CleanupIsSettled` | nothing split; no user | `RanInOrder`, `OnFailureIsSettled` |
| `NothingWaitsInVain` | the same; `WellPlaced` | `WaitingHasAReason` |
| `OffsetsHold` | PATCH in one step, any number in flight | `OffsetsAreKept` |
| `AckedHolds` | PATCH in one step, one in flight | `AckedIsStored` |
| `UploadRefinesLog` | the same | TraceUpload implements `ResumableLog` (`GrowsOnly`) |
| `CreationHasType`, `IidsStayDense`, `CommitsAreWhole`, `BridgesMatch` | nothing | `CreationTypeOK`, `IidsAreDense`, `CommittedIsWhole`, `BridgesAgree` |
| `OneRunEachTime` | nothing | `OneRunPerDueTime` |
| `ImportsHaveType`, `ImportsAddUp` | nothing | `ImportTypeOK`, `ImportsAreAccounted` |
| `ArtifactsKeepFiles`, `DownloadsAreWhole` | nothing | `ArtifactsAreThere`, `ServedIsWhole` |
| `BranchKeepsChanges` | nothing | `ChangesAreKept` |
| `ProtectedBranchesKeep`, `PushesHavePipelines`, `RowsFollowGit` | nothing | `ProtectedIsKept`, `PushHasPipeline`, `RowsAreRepaired` |
| `TrackerHasType`, `NumbersStayFresh`, `CountStaysOpen`, `MergesAreInBase` | nothing | `TrackerTypeOK`, `NumbersAreFresh`, `CountIsOpen`, `AcceptedIsInBase` |
| `KeysStayUnique`, `NoRowIsInherited` | nothing | `KeysAreUnique`, `NothingInherited` |
| `WaitingIsInOneStage` | nothing | `DeadlockIsInOneStage` |
| `WalksAreExact` | nothing | `WalkIsExact`, and the type invariant of Listings |
| `RepositoryHasType`, `PipelinesHaveType` | nothing | `TypeOK` of MCRepository and of MCPipelines, with the types of their modules |

The assumptions are where the code needs them:

- `double_play` is what happens when play is split, `cleanup_skew` when two
  reports are, `stale_append` when a PATCH is.
- `update_job` accepts the keepalive of a canceled job and makes it running again.
  Meanwhile the poll has given its resource group to the next job, so
  `GroupsAreSerialized` needs that nothing is canceled.
- A user's retry or requeue reopens a job that later ones have already seen over:
  order is claimed of pipelines that users leave alone.
- `WellPlaced` lists the configurations that hang. No runner admits a job; needs
  within a stage; an on_failure job that names its needs, comes first or after
  manual jobs only, waits for a job with `allow_failure:exit_codes`, or stands
  before an on_failure job it waits for. In each of these the rules of
  `update_job`, which skip, and those of the poll, which hand out, disagree on
  what is over. Everywhere else they agree: this is absence of deadlock.

The arguments:

- *TypeCorrect*. One lemma per effect operator (`ResetForRetry`, `Reported`,
  ...: a typed state gives a typed effect), one that a flush of two typed
  states is typed, one step per action. `NewToken` in an effect is replaced by
  `issued[j] + 1` at the flush, so the token stays in `1 .. issued[j]`.
- *AttemptsAreFenced*. `FreshInv` adds that every token handed out is at most
  `issued`, and that the pipeline of a handed job exists. Then a new token was
  never handed out (`QueuesFresh`: an effect that makes a job wait gives it a
  new token), and creation cannot reuse one.
- *ResultsBelongToAttempts, RunningJobsAreHeld*. `EarnedInv` adds that what
  runners report was handed out. A split handler may write `status` from a stale
  snapshot, but never makes a job running or gives it a result
  (`NeverActivates`); only the poll and a report do.
- *RetriesAreBounded*. `BudgetInv`: the history count equals `retry_attempt`,
  and that column is at most `retry:max`. Split handlers do not write it.
- *ResultsAreFinal*. `FinalInv` joins the two invariants above with what `told`
  holds: an attempt is reported once, with one result. A stale retry that
  overwrites a result brings a new token with it. No run lists `ResultIsFinal`:
  `FollowsLedger` says more.
- *AttemptsFollowLedger*. `LedgerInv` adds to `FinalInv` that no job is there before
  its pipeline, and that a request in flight has read no job that is not there.
  The effect of a handler on a job begins an attempt or moves its phase as
  `Allowed` says (`EffectsFollow`, `ReportFollows`), which is a step of the ledger
  after the flush (`FollowingCommit`, `EntryMoves`). A report on the current attempt
  finds the job running, withdrawn or with that result, since a waiting job's token
  was never handed out.
- *GroupsAreSerialized*. `ActiveInv`: the job of an attempt that was handed out runs or
  has its result until it gets a new token, so a report never makes a job run that
  did not. Only the poll starts one, and it looks for a free group in the same
  step.
- *JobsRunInOrder, CleanupIsSettled*. `OrderInv`: a failure is settled when no
  automatic retry is left; a job that runs finds its upstream over, an on_failure
  job finds the failure that caused it, and what is over stays so without users.
- *NothingWaitsInVain*. `ReasonInv` adds that no job of the normal flow waits for a
  failure that lasts, and no on_failure job for an upstream that has passed. Among
  the jobs that wait there is one of the least stage (well-foundedness of `<`);
  nothing before it waits, so it is unblocked, and a runner admits it unless its
  group is busy, that is, another one runs.
- *VerdictsAreSound, FinishesAreStamped*. `VerdictInv` says of the stored rows what
  a derivation establishes (`Sound`); it is stronger than the two properties
  because the poll and the promotion change a status without deriving.
- *OffsetsHold*. Masking keeps lengths and offsets (`MaskKeepsOffsets`), an
  accepted chunk starts within the stored bytes and is cut from what the runner
  wrote (`ChunksAreCut`), so every byte is the log's or a mask
  (`SplicedBytes`).
- *AckedHolds, UploadRefinesLog*. `ResumeInv` adds that a chunk of the current
  attempt reaches at least as far as the stored bytes, and that future attempts
  were told nothing. An accepted chunk then never shortens the log, and each
  step is a `Grow`, an `Erase`, a `NextAttempt` or a stutter of ResumableLog.
- *Creation*. SQLite's write lock lets one session have a draft, and its row is the
  next id (`DraftsFit`), so the iid it took is still free when it commits. Frames
  refer to rows that are committed or drafted (`FramesFit`); a downstream pipeline
  is held by exactly one frame or bridge (`FramesApart`, `LinksFit`) until its
  creator links it or dies. This is by induction over steps for stacks of any
  depth; that a creation ends is a matter of liveness.
- *OneRunEachTime*. `BatchIsOwed`: what the worker has selected is owed a run, each
  schedule once. `next_run_at` is committed before the pipeline is created, so a
  restart in between forgets a run but cannot repeat one.
- *Imports*. `StagesFit` ties the stage of a task to the status of its row,
  `PathsFit` the directories to the tasks that own them, and `BulkFits` and
  `CountIsExact` the parent's count to the number of imports that have ended, as
  long as no two of them had loaded it at one time.
- *ArtifactsKeepFiles*. `ArtifactInv`: an upload that is about to insert its row has
  its file, and an erase knows a prefix of the rows, so only what was added
  behind it can lose its file.
- *BranchKeepsChanges*. `CommitInv`: a request that compares has read the tree of
  the base it will compare with; one that does not compare and was not overtaken
  has the tree of the branch.
- *DownloadsAreWhole*. `CacheInv`: unless uploads of a key met or one was dropped,
  an upload in flight has truncated its archive and is alone on it.
- *Pushes*. `PushInv`: what a push has to respect is in its hook or was checked;
  landed commits are numbered in order (`made`), so that what was piped later is
  newer; what a push that is alone has read is what there is, but for rows the
  protected-branch API has brought in line with git meanwhile (`UpToDate`,
  `Agrees`). A branch that gets another rule, or none, is no longer guarded by the
  old one (`StillGuarded`).
  `SyncedIs` says what the committed table is, row by row.
- *NumbersStayFresh, CountStaysOpen, MergesAreInBase*. `TrackerInv`: the numbers
  in use are `1 .. next - 1`, what a request has loaded of the project is not
  ahead of it, an item it has chosen exists, and a merge that waits for its commit
  has git's. A creation with a number that was taken meanwhile is refused as a
  whole. A change that is not counted sets `drifted` in the step that makes it
  (`Miscounts`), so the count follows all others. It needs the cardinality
  lemmas: one item joins or leaves `Open`.
- *KeysStayUnique*. `RowsInv` adds that a request that looked and found nothing
  will find nothing when it commits, unless another one is giving the key a row,
  which `overlap` records when the later of the two arrives.
- *NoRowIsInherited*. `OwnedInv` adds that a deletion in flight has seen every row
  of its owner but those written since (`SeenBy`). So what it deletes, or counts
  when it is refused, is all there is.
- *WaitingIsInOneStage*. What `Evaluated` returns has passed the check of its needs,
  whatever was merged on the way (`EvaluatedIsChecked`). Among jobs that wait for
  one another take one of the least stage (`HasLeast`): what it waits for is not in
  a later stage, so it is in the same one.
- *WalksAreExact*. `ListInv`: the rows of a list are there once; where the walk
  stands, by offset or by cursor, cuts the list in rows that are behind it and rows
  ahead (`Ahead`); a row that was there throughout is behind the walk only when it
  was seen (`NoneIsLost`), and what was seen is not ahead (`NoneIsTwice`). Each is
  claimed as long as no row went, or came, before the place of the walk, by the
  kind of the list.
- *RepositoryHasType, PipelinesHaveType*. `PartInv` is the conjunction of the
  invariants above, one for each part; a step of MCRepository or MCPipelines is a
  step of one part and leaves the others alone. For the schedules it adds
  `OverdueFits`: the order in which they fell due names each one that is overdue,
  and names it once, whoever changes its time (`SetFits`, `TickFits`).
- `KeysStayUnique` and `NoRowIsInherited` need that a new id is not in use
  (`NewIdIsNew`): `Max` of the community modules chooses the greatest element if
  there is one, and that there is one in a bounded set of numbers (`Greatest`)
  follows from the well-foundedness of `<`, without induction over the set.

Proved only: `TrackerTypeOK` (`TrackerHasType`), and `PendingIsFresh` for handlers
other than the retries that read and write apart (`AttemptsAreFenced`).

Model-checked only:

- the liveness properties `PipelineEnds`, `UploadEnds`, `CreationEnds` and
  `DueIsServed`: the prover used here does not reach liveness under fairness or
  `ENABLED`;
- `InheritedIsNearest`: what the recursive merging of documents gives for every
  input needs induction over data, which is out of its reach as well.

No module has a `RECURSIVE` operator. `Mask` uses a recursive function, of whose
values only the facts above are needed. Lists that the code sorts (due schedules,
branch names) are the sequences with the order's properties instead of a sorting
operator, of which the prover knows nothing.

## 5. Abstractions, and what is left out

- JobCoordinator: bridge (trigger) jobs (in PipelineCreation), deletion of
  pipelines (in OwnedRows), environments, `runner_name`, time stamps other than
  whether `finished_at` is set.
- The reads of one request are one snapshot. The limit of 100 promotions in a
  round is not reached.
- Tags, projects and pausing are the constant `Eligible`.
- Traces: display text, coverage, checksums, rows older than the `raw` column;
  several masked values. A retry and the poll that follows are one step.
- One runner sends one PATCH at a time; a second one is in flight only after it
  gave up on the first. Served late, such a PATCH may shorten what was
  acknowledged since: `AckedIsStored` and `GrowsOnly` are claimed for one in
  flight only.
- A canceled job leaves the jobs after it pending; `WaitingHasAReason` is
  checked, and proved for configurations that respect `WellPlaced`, without users.
- Creation: variables and security settings; a call that fails before it begins.
- CiConfig: `workflow`, `parallel`, inputs of includes, what a key's value means.
  Whether a rule matches is given with the document.
- Creation: every project has one ref. The code refuses a bridge to its own project
  and ref (`Invalid`); one to another ref of its own project is left out.
- GitPush: fetches and tags; a push that changes several refs changes them in one
  step, as git does. A user's level is the same throughout a push. Protecting a
  branch is one step: git is asked, then the rows are written in one commit. The
  handlers that write refs without a push (BranchCommits) do not act here:
  `RowsAreRepaired` counts pushes as company, and `ProtectedIsKept` is about git
  pushes. BranchCommits: one branch; a file is changed or not.
- KeyedRows, OwnedRows: columns outside the key, who may call. One table or kind
  at a time; the rows of one kind do not depend on those of another, but for
  issues and pull requests that go with their project (`DeleteWithProject`).
- Listings: a search, a filter or a permission is a row that comes or goes.
- ProjectImport: URLs and the remote's answers; a clone whose directory another
  import removed is taken to fail.

Not modelled, and why:

- *Middleware* (rate limit, ETag, headers): nothing reads what it keeps.
- *Rendering and JSON*: the pages' templates, `_*_json` helpers and the GraphQL
  types that shape one row; single-row reads and look-ups without a write.
- *Access rules and authentication look-ups*: one read that decides on one
  request, without state of its own; `Eligible` and the guards of the handlers
  stand for them.
- *The search index*: rewritten from a git tree; text processing.
- *Services no code calls*: `label_service`, `comment_service`, `review_service`,
  `webhook_service`, `event_service`.
- *Runner registration*: rows without a protocol; deleting a runner is not in
  OwnedRows, as its jobs keep its name only.

## 6. Plan

What remains to be modelled: rebase and the pipelines of merge requests;
registration and pausing of runners instead of the constant `Eligible`.
PROJECT.json's component notes say what of each part is left.
