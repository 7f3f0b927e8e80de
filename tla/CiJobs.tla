-------------------------------- MODULE CiJobs --------------------------------
(***************************************************************************)
(* The scheduling rules of the CI coordinator as pure operators.           *)
(*                                                                         *)
(* A value s of DbState stands for the columns of the tables pipelines and *)
(* pipeline_jobs that the rules read and write.  The first half is the     *)
(* rules of app/api/runner.py (which job may run, which jobs a report      *)
(* skips, what a pipeline's status is); the second half is the in-memory   *)
(* effect of each handler on the rows it loaded.  JobCoordinator turns the *)
(* effects into transactions.                                              *)
(***************************************************************************)
EXTENDS Integers

CONSTANTS
    Job,        \* pipeline_jobs.id: a set of numbers, polled in this order
    Pipeline,   \* pipelines.id: a set of numbers, created in this order
    Ref,        \* [Pipeline -> ref name]
    Def,        \* [Job -> what .gitlab-ci.yml says of the job], see JobDef
    ExitCode,   \* the exit codes runners report
    NoExit,     \* exit_code IS NULL
    ByStage     \* needs IS NULL: the job waits for the earlier stages

\* What a report gives as failure_reason; "none" for a report without one.
FailureReason ==
    { "script_failure", "runner_system_failure", "job_execution_timeout",
      "image_pull_failure", "unknown_failure", "runner_configuration_error",
      "runner_external_dependency_failure", "runner_interrupted", "none" }

WhenValue == {"on_success", "always", "on_failure", "manual", "delayed"}

\* What the parser stored of a job.  needs lists the same-pipeline jobs only:
\* external needs and optional needs on absent jobs never block anything.
JobDef ==
    [ pipe: Pipeline, stage: Nat, when: WhenValue,
      needs: {ByStage} \cup SUBSET Job,
      allow: BOOLEAN, allowCodes: SUBSET ExitCode, retryMax: Nat,
      retryReasons: SUBSET (FailureReason \cup {"always"}), retryCodes: SUBSET ExitCode,
      group: STRING, interruptible: BOOLEAN ]

ASSUME IdsAreNumbers == Job \subseteq Nat /\ Pipeline \subseteq Nat

ASSUME ConfigurationIsTyped ==
    /\ NoExit \notin ExitCode
    /\ \A N \in SUBSET Job : N # ByStage
    /\ Def \in [Job -> JobDef]
    /\ \A j \in Job : Def[j].needs # ByStage =>
          \A n \in Def[j].needs : Def[n].pipe = Def[j].pipe /\ n # j

Status ==
    { "absent",     \* the pipeline of the job is not created yet
      "manual", "scheduled", "pending", "running",
      "success", "failed", "canceled", "skipped" }

Verdict == {"absent", "pending", "running", "success", "failed", "canceled"}

NewToken == 0     \* a token the handler generated and has not stored yet

DbState ==
    [ status: [Job -> Status],            \* pipeline_jobs.status
      token: [Job -> Nat],                \* .job_token, numbered per job
      retries: [Job -> Nat],              \* .retry_attempt
      exit: [Job -> ExitCode \cup {NoExit}],  \* .exit_code
      due: [Job -> BOOLEAN],              \* .scheduled_at is NULL or past
      verdict: [Pipeline -> Verdict],     \* pipelines.status
      finished: [Pipeline -> BOOLEAN] ]   \* .finished_at IS NOT NULL

-----------------------------------------------------------------------------
(* The rules.                                                              *)

Pipe(j) == Def[j].pipe
JobsOf(p) == {j \in Job : Pipe(j) = p}

\* The jobs j waits for: its needs, or every job of an earlier stage.
Upstream(j) ==
    IF Def[j].needs = ByStage
    THEN {u \in JobsOf(Pipe(j)) : Def[u].stage < Def[j].stage}
    ELSE Def[j].needs

RunsAfterFailure(j) == Def[j].when \in {"always", "on_failure"}

FailedAllowed(s, j) ==
    /\ s.status[j] = "failed"
    /\ Def[j].allow \/ s.exit[j] \in Def[j].allowCodes

FailedRequired(s, j) == s.status[j] = "failed" /\ ~FailedAllowed(s, j)

RequiredFailure(s, j) == \E u \in Upstream(j) : FailedRequired(s, u)

\* Skipped: jobs the same pass skipped; it sees those of a smaller id.
DependenciesTerminal(s, j, Skipped) ==
    \A u \in Upstream(j) :
        \/ s.status[u] \in {"success", "skipped", "manual", "failed", "canceled"}
        \/ u \in Skipped /\ u < j

\* Mutation: only a waiting job blocks, so a running one does not.
UnblockedByRunning(s, j) ==
    /\ Def[j].when = "on_failure" => RequiredFailure(s, j)
    /\ \A u \in Upstream(j) : s.status[u] # "pending"

Unblocked(s, j) ==
    /\ Def[j].when = "on_failure" => RequiredFailure(s, j)
    /\ \A u \in Upstream(j) :
          \/ s.status[u] \in {"success", "skipped", "manual"}
          \/ FailedAllowed(s, u)
          \/ s.status[u] = "failed" /\ RunsAfterFailure(j)

\* Mutation: the group is compared with the jobs of the same stage only.
GroupIsFreeInStage(s, j) ==
    Def[j].group # "" =>
        \A k \in JobsOf(Pipe(j)) \ {j} :
            ~(/\ Def[k].group = Def[j].group /\ Def[k].stage = Def[j].stage
              /\ s.status[k] = "running")

\* The resource group is looked for among the jobs of the same pipeline.
GroupIsFree(s, j) ==
    Def[j].group # "" =>
        \A k \in JobsOf(Pipe(j)) \ {j} :
            ~(Def[k].group = Def[j].group /\ s.status[k] = "running")

\* The order of the queue: stage first, then id.
Before(j, k) ==
    \/ Def[j].stage < Def[k].stage
    \/ Def[j].stage = Def[k].stage /\ j < k

\* Mutation: off by one.
ShouldAutoRetryOnceMore(s, j, reason, exit) == s.retries[j] <= Def[j].retryMax

ShouldAutoRetry(s, j, reason, exit) ==
    /\ s.retries[j] < Def[j].retryMax
    /\ LET why == IF reason = "none" THEN "script_failure" ELSE reason
       IN  Def[j].retryReasons # {} => Def[j].retryReasons \cap {"always", why} # {}
    /\ Def[j].retryCodes # {} => exit \in Def[j].retryCodes

\* Mutation: a skipped job is not accepted in a pipeline that passed.
DerivedVerdictWithoutSkipped(s, p) ==
    LET Seen == {s.status[j] : j \in {i \in JobsOf(p) : ~FailedAllowed(s, i)}}
    IN  CASE "running" \in Seen -> "running"
          [] "running" \notin Seen /\ "failed" \in Seen -> "failed"
          [] Seen \subseteq {"success", "manual"} -> "success"
          [] OTHER -> "pending"

\* _derive_pipeline_status.  The chain of elifs, as disjoint cases.
DerivedVerdict(s, p) ==
    LET Seen == {s.status[j] : j \in {i \in JobsOf(p) : ~FailedAllowed(s, i)}}
        Waiting == Seen \cap {"pending", "scheduled"}
    IN  CASE JobsOf(p) = {} -> "pending"
          [] "running" \in Seen -> "running"
          [] "running" \notin Seen /\ Waiting # {} -> "pending"
          [] "canceled" \in Seen /\ "running" \notin Seen /\ Waiting = {} -> "canceled"
          [] "failed" \in Seen /\ Seen \cap {"running", "canceled"} = {}
                               /\ Waiting = {} -> "failed"
          [] JobsOf(p) # {} /\ Seen \subseteq {"success", "skipped", "manual"} -> "success"
          [] OTHER -> "pending"

Ended(verdict) == verdict \in {"success", "failed", "canceled"}

-----------------------------------------------------------------------------
(* The effect of each handler on the rows it loaded.                       *)

WithStatus(s, J, new) ==
    [s EXCEPT !.status = [j \in Job |-> IF j \in J THEN new ELSE s.status[j]]]

\* One pass over the jobs in the order of their ids, on which a job skipped
\* early in the pass counts later in it.  What it skips is the largest set
\* each of whose members is skipped for what the others before it are.
SkipOnFailureJobs(s, p) ==
    LET Asking == {j \in JobsOf(p) : /\ s.status[j] \in {"pending", "scheduled"}
                                     /\ Def[j].when = "on_failure"
                                     /\ ~RequiredFailure(s, j)}
    IN  WithStatus(s, UNION {S \in SUBSET Asking :
                                \A j \in S : DependenciesTerminal(s, j, S)}, "skipped")

\* Mutation: a job whose delay has not passed is not skipped.
SkipPendingJobsAfterFailedStage(s, p) ==
    LET Failed == {f \in JobsOf(p) : FailedRequired(s, f)}
    IN  WithStatus(s, {j \in JobsOf(p) :
                          /\ s.status[j] = "pending"
                          /\ ~RunsAfterFailure(j)
                          /\ \E f \in Failed : Def[f].stage < Def[j].stage}, "skipped")

\* "Later" is later than the earliest failed stage, whatever the job needs.
SkipJobsAfterFailedStage(s, p) ==
    LET Failed == {f \in JobsOf(p) : FailedRequired(s, f)}
        Needs(j) == IF Def[j].needs = ByStage THEN {} ELSE Def[j].needs
    IN  WithStatus(s, {j \in JobsOf(p) :
                          /\ s.status[j] \in {"pending", "scheduled"}
                          /\ ~RunsAfterFailure(j)
                          /\ \/ \E f \in Failed : Def[f].stage < Def[j].stage
                             \/ Needs(j) \cap Failed # {}}, "skipped")

\* Mutation: the token of the previous attempt stays valid.
ResetForRetryKeepingToken(s, J) ==
    [s EXCEPT !.status = [j \in Job |-> IF j \in J THEN "pending" ELSE s.status[j]],
              !.exit = [j \in Job |-> IF j \in J THEN NoExit ELSE s.exit[j]]]

\* A new attempt of the same rows: new tokens, the result columns cleared.
ResetForRetry(s, J) ==
    [s EXCEPT
        !.status = [j \in Job |-> IF j \notin J THEN s.status[j]
                                  ELSE IF Def[j].when = "delayed" THEN "scheduled"
                                  ELSE "pending"],
        !.token = [j \in Job |-> IF j \in J THEN NewToken ELSE s.token[j]],
        !.exit = [j \in Job |-> IF j \in J THEN NoExit ELSE s.exit[j]],
        !.due = [j \in Job |-> j \in J \/ s.due[j]]]

Requeued(s, j) == WithStatus(ResetForRetry(s, {j}), {j}, "pending")

AutoRetried(s, j) ==
    [ResetForRetry(s, {j}) EXCEPT
        !.retries = [s.retries EXCEPT ![j] = s.retries[j] + 1]]

Played(s, j) ==
    [WithStatus(s, {j}, "pending") EXCEPT !.exit = [s.exit EXCEPT ![j] = NoExit]]

\* Mutation: a failed job can be canceled too.
CancelableOrFailed(s) ==
    {j \in Job : s.status[j] \notin {"absent", "success", "canceled", "skipped"}}

Cancelable(s) == {j \in Job : s.status[j] \in {"pending", "running", "manual", "scheduled"}}

Retryable(s) == {j \in Job : s.status[j] \in {"failed", "canceled", "skipped", "success"}}

Canceled(s, J) == WithStatus(s, J \cap Cancelable(s), "canceled")

\* Mutation: the on_failure jobs are looked at before the status is stored.
ReportedTooLate(s, m) ==
    LET p == Pipe(m.job)
        Stored == WithStatus(SkipOnFailureJobs(s, p), {m.job}, m.state)
    IN  IF m.state = "failed" THEN SkipJobsAfterFailedStage(Stored, p) ELSE Stored

\* update_job: the exit code is stored after the on_failure jobs were looked
\* at, and a failure either starts the next attempt or skips what follows.
Reported(s, m) ==
    LET p == Pipe(m.job)
        Skipped == SkipOnFailureJobs(WithStatus(s, {m.job}, m.state), p)
        Stored == [Skipped EXCEPT !.exit = [Skipped.exit EXCEPT ![m.job] = m.exit]]
    IN  IF m.state # "failed" THEN Stored
        ELSE IF ShouldAutoRetry(s, m.job, m.reason, m.exit)
             THEN AutoRetried(Stored, m.job)
             ELSE SkipJobsAfterFailedStage(Stored, p)

\* promote_due_delayed_jobs.
Promoted(s) ==
    LET Due == {j \in Job : s.status[j] = "scheduled" /\ s.due[j]}
        Woken == {Pipe(j) : j \in {i \in Due : s.verdict[Pipe(i)] \notin {"running", "pending"}}}
    IN  [WithStatus(s, Due, "pending") EXCEPT
            !.verdict = [p \in Pipeline |-> IF p \in Woken THEN "pending" ELSE s.verdict[p]],
            !.finished = [p \in Pipeline |-> s.finished[p] /\ p \notin Woken]]

Concluded(s, P) ==
    [s EXCEPT
        !.verdict = [p \in Pipeline |-> IF p \in P THEN DerivedVerdict(s, p) ELSE s.verdict[p]],
        !.finished = [p \in Pipeline |-> IF p \in P THEN Ended(DerivedVerdict(s, p))
                                         ELSE s.finished[p]]]
=============================================================================
