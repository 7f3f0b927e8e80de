---------------------------- MODULE JobCoordinator ----------------------------
(***************************************************************************)
(* Pipelines, their jobs, the runners that execute them and the requests   *)
(* that change them, over one SQLite database.                             *)
(*                                                                         *)
(* POST /jobs/request and pipeline creation write before they read the     *)
(* jobs they change, so they hold the write lock from their first read to  *)
(* their commit: one step each.  Every other handler reads without a lock, *)
(* works on the rows in its session and writes back, at the end, the       *)
(* columns whose value it changed.  A handler in Split takes two steps, so *)
(* that other requests commit in between; a handler outside Split takes    *)
(* one, as when the requests arrive one at a time.                         *)
(***************************************************************************)
EXTENDS CiJobs

CONSTANTS
    Runner,      \* the registered runners
    Eligible,    \* [Runner -> the jobs its tags and run_untagged admit]
    Ending,      \* the ways an execution ends: [state, exit, reason]
    Ops,         \* the requests that arrive in this instance
    Split,       \* the requests whose read and write are separate steps
    Slot,        \* the requests in flight at one time
    Idle,        \* an unused slot
    Lossy,       \* TRUE: the answer to a poll may be lost after its commit
    MaxToken     \* bound: attempts of one job

JobOps == {"play", "cancel", "retry", "requeue"}
PipelineOps == {"cancel_pipeline", "cancel_in_ui", "retry_pipeline"}
AllOps == JobOps \cup PipelineOps \cup {"update", "promote"}

ASSUME RequestsAreKnown == Split \subseteq AllOps /\ Ops \subseteq AllOps
ASSUME EndingsAreTyped ==
    Ending \subseteq [state: {"success", "failed"}, exit: ExitCode \cup {NoExit},
                      reason: FailureReason]
ASSUME EligibleIsTyped == Eligible \in [Runner -> SUBSET Job]
ASSUME BoundsAreNumbers == MaxToken \in Nat \ {0} /\ Lossy \in BOOLEAN

VARIABLES
    db,       \* the committed rows
    issued,   \* the tokens generated for a job so far are 1 .. issued[j]
    call,     \* the requests between their read and their write
    handed,   \* history: <<job, token>> committed to the answer of a poll
    held,     \* the <<job, token>> pairs that reached a runner
    told,     \* the final reports the runners have to deliver
    autos     \* history: the attempts update_job started by itself

vars == <<db, issued, call, handed, held, told, autos>>
runnerVars == <<handed, held, told>>

Attempt == Job \X (Nat \ {0})
Report ==
    [ job: Job, token: Nat \ {0}, state: {"running", "success", "failed"},
      exit: ExitCode \cup {NoExit}, reason: FailureReason ]
Request ==
    (JobOps \X Job) \cup (PipelineOps \X Pipeline) \cup ({"update"} \X Report)
        \cup {<<"promote", "due">>}

TypeOK ==
    /\ db \in DbState
    /\ issued \in [Job -> Nat \ {0}]
    /\ \A j \in Job : db.token[j] \in 1 .. issued[j]
    /\ call \in [Slot -> [req: Request, snap: DbState] \cup {Idle}]
    /\ handed \subseteq Attempt
    /\ held \subseteq handed
    /\ told \subseteq Report
    /\ autos \in [Job -> Nat]

Init ==
    /\ db = [ status |-> [j \in Job |-> "absent"], token |-> [j \in Job |-> 1],
              retries |-> [j \in Job |-> 0], exit |-> [j \in Job |-> NoExit],
              due |-> [j \in Job |-> FALSE],
              verdict |-> [p \in Pipeline |-> "absent"],
              finished |-> [p \in Pipeline |-> FALSE] ]
    /\ issued = [j \in Job |-> 1]
    /\ call = [c \in Slot |-> Idle]
    /\ handed = {} /\ held = {} /\ told = {}
    /\ autos = [j \in Job |-> 0]

-----------------------------------------------------------------------------
(* Transactions.                                                           *)

\* The columns the handler changed (read: old, in memory: new) over current.
Written(old, new, current) ==
    [i \in DOMAIN current |-> IF new[i] # old[i] THEN new[i] ELSE current[i]]

\* The rows after the flush of a handler that read s and made it v.
Flushed(s, v) ==
    [ status |-> Written(s.status, v.status, db.status),
      token |-> [j \in Job |-> IF v.token[j] = NewToken THEN issued[j] + 1
                               ELSE db.token[j]],
      retries |-> Written(s.retries, v.retries, db.retries),
      exit |-> Written(s.exit, v.exit, db.exit),
      due |-> Written(s.due, v.due, db.due),
      verdict |-> Written(s.verdict, v.verdict, db.verdict),
      finished |-> Written(s.finished, v.finished, db.finished) ]

\* Mutation: two attempts may get the same token.
IssueTokensTwice(v) == UNCHANGED issued

IssueTokens(v) ==
    /\ \A j \in Job : v.token[j] = NewToken => issued[j] < MaxToken
    /\ issued' = [j \in Job |-> IF v.token[j] = NewToken THEN issued[j] + 1
                                ELSE issued[j]]

Commit(s, v) == IssueTokens(v) /\ db' = Flushed(s, v)

\* Flush, _derive_pipeline_status of p, commit.  The refresh inside reads the
\* jobs again; whether a job the session still holds shows its stored or its
\* loaded columns is left open.  The pipeline row is not read again.
CommitDerived(s, v, p) ==
    /\ IssueTokens(v)
    /\ \E peers \in {Flushed(s, v), v} :
          LET seen == Concluded([peers EXCEPT !.verdict = v.verdict,
                                              !.finished = v.finished], {p})
          IN  db' = [Flushed(s, v) EXCEPT
                        !.verdict = Written(s.verdict, seen.verdict, db.verdict),
                        !.finished = Written(s.finished, seen.finished, db.finished)]

\* What a handler of q may have read, and the end of its call.
Snapshots(q) ==
    IF q[1] \in Split
    THEN {call[c].snap : c \in {i \in Slot : call[i] # Idle /\ call[i].req = q}}
    ELSE {db}

Answer(q, s) ==
    IF q[1] \in Split
    THEN \E c \in Slot : /\ call[c] # Idle
                         /\ call[c] = [req |-> q, snap |-> s]
                         /\ call' = [call EXCEPT ![c] = Idle]
    ELSE UNCHANGED call

\* Mutation: a report is accepted with any token the job ever had.
AcceptsAnyToken(s, q) ==
    \/ q[1] = "play" /\ s.status[q[2]] = "manual"
    \/ q[1] \in {"cancel", "retry"} /\ s.status[q[2]] # "absent"
    \/ q[1] = "requeue" /\ s.status[q[2]] \in {"pending", "running", "scheduled"}
    \/ q[1] \in PipelineOps /\ s.verdict[q[2]] # "absent"
    \/ q[1] = "update"
    \/ q[1] = "promote" /\ Promoted(s) # s

\* The early returns of the handlers, on the rows they read.
Accepts(s, q) ==
    \/ q[1] = "play" /\ s.status[q[2]] = "manual"
    \/ q[1] \in {"cancel", "retry"} /\ s.status[q[2]] # "absent"
    \/ q[1] = "requeue" /\ s.status[q[2]] \in {"pending", "running", "scheduled"}
    \/ q[1] \in PipelineOps /\ s.verdict[q[2]] # "absent"
    \/ q[1] = "update" /\ s.token[q[2].job] = q[2].token
    \/ q[1] = "promote" /\ Promoted(s) # s

\* A keepalive is sent while the script runs; a final report is sent again
\* until it is answered, hence possibly after it was processed.
Keepalive(a) == [job |-> a[1], token |-> a[2], state |-> "running",
                 exit |-> NoExit, reason |-> "none"]
Working(a) == ~\E m \in told : m.job = a[1] /\ m.token = a[2]
Sendable == told \cup {Keepalive(a) : a \in {b \in held : Working(b)}}

\* The reports the server has read and not yet answered.
BeingServed == {call[c].req[2] : c \in {i \in Slot : call[i] # Idle /\ call[i].req[1] = "update"}}

Arriving ==
    (JobOps \X Job) \cup (PipelineOps \X Pipeline) \cup ({"update"} \X Sendable)
        \cup {<<"promote", "due">>}

\* A request of Split authenticates and loads its rows.
Read(c, q) ==
    /\ call[c] = Idle
    /\ q[1] \in Ops \cap Split
    /\ Accepts(db, q)
    /\ call' = [call EXCEPT ![c] = [req |-> q, snap |-> db]]
    /\ UNCHANGED <<db, issued, runnerVars, autos>>

\* The server stops, the client goes away or the lock times out: no commit.
Drop(c) ==
    /\ call[c] # Idle
    /\ call' = [call EXCEPT ![c] = Idle]
    /\ UNCHANGED <<db, issued, runnerVars, autos>>

-----------------------------------------------------------------------------
(* Handlers.                                                               *)

Serve(q, s) == q[1] \in Ops /\ Accepts(s, q) /\ Answer(q, s) /\ UNCHANGED runnerVars

PlayJob(j) ==
    LET q == <<"play", j>> IN
    \E s \in Snapshots(q) :
        /\ Serve(q, s)
        /\ CommitDerived(s, Played(s, j), Pipe(j))
        /\ UNCHANGED autos

CancelJob(j) ==
    LET q == <<"cancel", j>> IN
    \E s \in Snapshots(q) :
        /\ Serve(q, s)
        /\ CommitDerived(s, Canceled(s, {j}), Pipe(j))
        /\ UNCHANGED autos

\* Mutation: the pipeline is not derived again.
RetryJobOnly(j) ==
    LET q == <<"retry", j>> IN
    \E s \in Snapshots(q) :
        /\ Serve(q, s)
        /\ Commit(s, ResetForRetry(s, {j} \cap Retryable(s)))
        /\ UNCHANGED autos

RetryJob(j) ==
    LET q == <<"retry", j>> IN
    \E s \in Snapshots(q) :
        /\ Serve(q, s)
        /\ CommitDerived(s, ResetForRetry(s, {j} \cap Retryable(s)), Pipe(j))
        /\ UNCHANGED autos

RequeueJob(j) ==
    LET q == <<"requeue", j>> IN
    \E s \in Snapshots(q) :
        /\ Serve(q, s)
        /\ CommitDerived(s, Requeued(s, j), Pipe(j))
        /\ UNCHANGED autos

\* Mutation: finished_at is left alone.
CancelPipelineUnstamped(p) ==
    LET q == <<"cancel_pipeline", p>> IN
    \E s \in Snapshots(q) :
        /\ Serve(q, s)
        /\ Commit(s, [Canceled(s, JobsOf(p)) EXCEPT
                          !.verdict = [s.verdict EXCEPT ![p] = "canceled"]])
        /\ UNCHANGED autos

\* The verdict is assigned, not derived, even if no job could be canceled.
CancelPipeline(p) ==
    LET q == <<"cancel_pipeline", p>> IN
    \E s \in Snapshots(q) :
        /\ Serve(q, s)
        /\ Commit(s, [Canceled(s, JobsOf(p)) EXCEPT
                          !.verdict = [s.verdict EXCEPT ![p] = "canceled"],
                          !.finished = [s.finished EXCEPT ![p] = TRUE]])
        /\ UNCHANGED autos

\* The web UI cancels the same jobs and derives the verdict.
CancelPipelineInUi(p) ==
    LET q == <<"cancel_in_ui", p>> IN
    \E s \in Snapshots(q) :
        /\ Serve(q, s)
        /\ CommitDerived(s, Canceled(s, JobsOf(p)), p)
        /\ UNCHANGED autos

RetryPipeline(p) ==
    LET q == <<"retry_pipeline", p>> IN
    \E s \in Snapshots(q) :
        /\ Serve(q, s)
        /\ CommitDerived(s, ResetForRetry(s, {j \in JobsOf(p) \cap Retryable(s) :
                                              s.status[j] # "success"}), p)
        /\ UNCHANGED autos

UpdateJob(m) ==
    LET q == <<"update", m>> IN
    \E s \in Snapshots(q) :
        /\ "update" \notin Split => m \in Sendable
        /\ Serve(q, s)
        /\ CommitDerived(s, Reported(s, m), Pipe(m.job))
        /\ autos' = [autos EXCEPT ![m.job] =
                        IF Reported(s, m).token[m.job] = NewToken THEN @ + 1 ELSE @]

\* The schedule worker promotes the delayed jobs whose time has come.
PromoteDelayed ==
    LET q == <<"promote", "due">> IN
    \E s \in Snapshots(q) :
        /\ Serve(q, s)
        /\ Commit(s, Promoted(s))
        /\ UNCHANGED autos

\* request_job: promote, then hand the first runnable job of the queue to r.
Runnable(s, r) ==
    {j \in Eligible[r] : s.status[j] = "pending" /\ Unblocked(s, j) /\ GroupIsFree(s, j)}

RequestJob(r) ==
    LET s == Promoted(db) IN
    /\ \/ \E j \in Runnable(s, r) :
            LET a == <<j, s.token[j]>> IN
            /\ \A k \in Runnable(s, r) : ~Before(k, j)
            /\ db' = [WithStatus(s, {j}, "running") EXCEPT
                         !.verdict = [s.verdict EXCEPT ![Pipe(j)] = "running"]]
            /\ handed' = handed \cup {a}
            /\ \/ held' = held \cup {a}
               \/ Lossy /\ held' = held
       \/ /\ Runnable(s, r) = {}
          /\ s # db
          /\ db' = s
          /\ UNCHANGED <<handed, held>>
    /\ UNCHANGED <<issued, call, told, autos>>

\* _create_pipeline: the jobs, then the jobs of older pipelines of the same
\* ref that are interruptible are canceled, in one transaction.
CreatePipeline(p) ==
    LET Old == {o \in Pipeline : Ref[o] = Ref[p] /\ db.verdict[o] # "absent"}
        Victims == {j \in Cancelable(db) : Pipe(j) \in Old /\ Def[j].interruptible}
        Interrupted == Concluded(Canceled(db, Victims), {Pipe(j) : j \in Victims})
        First(j) == CASE Def[j].when = "manual" -> "manual"
                      [] Def[j].when = "delayed" -> "scheduled"
                      [] OTHER -> "pending"
    IN  /\ db.verdict[p] = "absent"
        /\ \A o \in Pipeline : o < p => db.verdict[o] # "absent"
        /\ db' = [Interrupted EXCEPT
                     !.status = [j \in Job |-> IF j \in JobsOf(p) THEN First(j)
                                               ELSE Interrupted.status[j]],
                     !.verdict = [Interrupted.verdict EXCEPT ![p] = "pending"]]
        /\ UNCHANGED <<issued, call, runnerVars, autos>>

-----------------------------------------------------------------------------
(* The environment.                                                        *)

\* The script of an attempt a runner holds ends.
Finish(a, e) ==
    /\ a \in held
    /\ Working(a)
    /\ told' = told \cup {[job |-> a[1], token |-> a[2], state |-> e.state,
                           exit |-> e.exit, reason |-> e.reason]}
    /\ UNCHANGED <<db, issued, call, handed, held, autos>>

\* The start_in time of a delayed job passes.
Elapse(j) ==
    /\ db.status[j] = "scheduled"
    /\ ~db.due[j]
    /\ db' = [db EXCEPT !.due = [db.due EXCEPT ![j] = TRUE]]
    /\ UNCHANGED <<issued, call, runnerVars, autos>>

Handle ==
    \/ \E j \in Job : PlayJob(j) \/ CancelJob(j) \/ RetryJob(j) \/ RequeueJob(j)
    \/ \E p \in Pipeline : CancelPipeline(p) \/ CancelPipelineInUi(p) \/ RetryPipeline(p)
    \/ \E m \in Sendable \cup BeingServed : UpdateJob(m)
    \/ PromoteDelayed

Next ==
    \/ Handle
    \/ \E c \in Slot, q \in Arriving : Read(c, q)
    \/ \E c \in Slot : Drop(c)
    \/ \E r \in Runner : RequestJob(r)
    \/ \E p \in Pipeline : CreatePipeline(p)
    \/ \E a \in held, e \in Ending : Finish(a, e)
    \/ \E j \in Job : Elapse(j)

Spec == Init /\ [][Next]_vars

\* The loops that never stop: each runner's poll, the delayed-job worker, the
\* clock, the script of an attempt a runner holds and the delivery of its
\* final report, which the runner repeats until it is answered.
Fairness ==
    /\ \A r \in Runner : WF_vars(RequestJob(r))
    /\ \A j \in Job : WF_vars(Elapse(j))
    /\ WF_vars(PromoteDelayed)
    /\ \A a \in Job \X (1..MaxToken) : WF_vars(\E e \in Ending : Finish(a, e))
    /\ WF_vars(\E m \in told : UpdateJob(m))

FairSpec == Spec /\ Fairness

-----------------------------------------------------------------------------
(* What the coordinator is for.                                            *)

\* An attempt is executed once: a job that waits to be polled carries a token
\* that no answer of POST /jobs/request has carried yet.
PendingIsFresh ==
    \A j \in Job : db.status[j] \in {"manual", "scheduled", "pending"} =>
        <<j, db.token[j]>> \notin handed

\* A running job is being run: its current token went out with a poll, so
\* some runner is authorised to report on it.
RunningIsHanded ==
    \A j \in Job : db.status[j] = "running" => <<j, db.token[j]>> \in handed

\* A result is the result of the current attempt, reported by the runner that
\* held its token, never the late report of an attempt a retry replaced.
ResultsAreEarned ==
    \A j \in Job : db.status[j] \in {"success", "failed"} =>
        \E m \in told : /\ m.job = j
                        /\ m.token = db.token[j]
                        /\ m.state = db.status[j]

\* retry:max bounds the attempts update_job starts by itself, whatever
\* reports are repeated and however often users retry the job.
AutoRetryBudget == \A j \in Job : autos[j] <= Def[j].retryMax

\* A pipeline shown as passed has no job that failed, waits, runs or was
\* canceled, except failures its configuration allows.
SuccessIsEarned ==
    \A j \in Job : db.verdict[Pipe(j)] = "success" =>
        \/ db.status[j] \in {"success", "skipped", "manual"}
        \/ FailedAllowed(db, j)

\* finished_at is set exactly while the pipeline has a final status, although
\* the poll and the promotion change the status without deriving it.
FinishedIsStamped ==
    \A p \in Pipeline : db.finished[p] <=> Ended(db.verdict[p])

\* A stored result is final for its attempt: only a new attempt replaces it.
ResultIsFinal ==
    [][\A j \in Job : db.status[j] \in {"success", "failed"} =>
          \/ db'.status[j] = db.status[j]
          \/ db'.token[j] # db.token[j]]_db

\* What the ledger of attempts shows of job j: its phase, its current token,
\* the tokens that polls were given and the results that runners reported.
Phase(status) ==
    CASE status = "absent" -> "none"
      [] status \in {"manual", "scheduled", "pending"} -> "waiting"
      [] status \in {"canceled", "skipped"} -> "off"
      [] OTHER -> status

Entry(j) ==
    [ phase |-> Phase(db.status[j]), attempt |-> db.token[j],
      given |-> {a[2] : a \in {h \in handed : h[1] = j}},
      outcome |-> {<<m.token, m.state>> : m \in {n \in told : n.job = j}} ]

\* The attempts of a job keep to AttemptLedger: a token is given out once,
\* decided by the runner's report on it, and only a new one reopens the job.
Ledger == INSTANCE AttemptLedger WITH ledger <- [j \in Job |-> Entry(j)]
FollowsLedger == Ledger!Spec

\* The jobs of a resource group run one at a time, in one pipeline.
GroupIsSerialized ==
    \A j, k \in Job :
        /\ j # k
        /\ Pipe(j) = Pipe(k)
        /\ Def[j].group = Def[k].group /\ Def[j].group # ""
        => ~(db.status[j] = "running" /\ db.status[k] = "running")

\* What docs/plans/ci-pipeline-implementation.md:147 promises: in a project.
GroupIsSerializedInProject ==
    \A j, k \in Job :
        /\ j # k
        /\ Def[j].group = Def[k].group /\ Def[j].group # ""
        => ~(db.status[j] = "running" /\ db.status[k] = "running")

\* A job that ran as part of the normal flow ran after what it waits for.
RanInOrder ==
    \A j \in Job :
        /\ db.status[j] \in {"running", "success", "failed"}
        /\ ~RunsAfterFailure(j)
        => \A u \in Upstream(j) :
              \/ db.status[u] \in {"success", "skipped", "manual"}
              \/ FailedAllowed(db, u)

Quiet == \A c \in Slot : call[c] = Idle

\* An on_failure job does not outlive its question: when all it waits for is
\* over without a required failure and no request is in progress, it is
\* skipped, so that it does not keep its pipeline pending for ever.
OnFailureIsSettled ==
    \A j \in Job :
        ~ /\ Quiet
          /\ Def[j].when = "on_failure"
          /\ db.status[j] = "pending"
          /\ Upstream(j) # {}
          /\ \A u \in Upstream(j) : db.status[u] = "success"

\* Waiting has a reason: while a job is pending, one of its pipeline runs or
\* is scheduled, or one of its pipeline can be handed to some runner.
WaitingHasAReason ==
    \A j \in Job : Quiet /\ db.status[j] = "pending" =>
        \E k \in JobsOf(Pipe(j)) :
            \/ db.status[k] \in {"running", "scheduled"}
            \/ \E r \in Runner : k \in Runnable(db, r)

\* A pipeline that is created ends, if its runners do their work.
PipelineEnds ==
    \A p \in Pipeline : db.verdict[p] # "absent" ~> Ended(db.verdict[p])
=============================================================================
