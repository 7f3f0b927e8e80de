------------------------- MODULE JobCoordinatorProofs -------------------------
(***************************************************************************)
(* Proofs about JobCoordinator for every configuration of pipelines, every *)
(* number of jobs, runners and requests in flight: that it keeps its       *)
(* types, and what the status of a pipeline says of its jobs when requests *)
(* are served one at a time.                                               *)
(***************************************************************************)
EXTENDS JobCoordinator, TLAPS

-----------------------------------------------------------------------------
(* Type correctness of the effects of CiJobs.                              *)

\* Assigning one status to some jobs keeps the rows typed.
LEMMA WithStatusType ==
    ASSUME NEW s \in DbState, NEW J, NEW new \in Status
    PROVE  WithStatus(s, J, new) \in DbState
  BY DEF WithStatus, DbState

\* The two skip rules of update_job keep the rows typed.
LEMMA SkipType ==
    ASSUME NEW s \in DbState, NEW p
    PROVE  /\ SkipOnFailureJobs(s, p) \in DbState
           /\ SkipJobsAfterFailedStage(s, p) \in DbState
  BY WithStatusType DEF SkipOnFailureJobs, SkipJobsAfterFailedStage, Status

\* _reset_job_for_retry keeps the rows typed; NewToken counts as a number.
LEMMA ResetType ==
    ASSUME NEW s \in DbState, NEW J
    PROVE  ResetForRetry(s, J) \in DbState
  BY DEF ResetForRetry, DbState, Status, NewToken

\* So do the effects of play, cancel, requeue and the automatic retry.
LEMMA EffectTypes ==
    ASSUME NEW s \in DbState, NEW j \in Job, NEW J
    PROVE  /\ Played(s, j) \in DbState
           /\ Canceled(s, J) \in DbState
           /\ Requeued(s, j) \in DbState
           /\ AutoRetried(s, j) \in DbState
  <1>1. Played(s, j) \in DbState
    <2>1. WithStatus(s, {j}, "pending") \in DbState
      BY WithStatusType DEF Status
    <2> QED BY <2>1 DEF Played, DbState
  <1>2. Canceled(s, J) \in DbState
    BY WithStatusType DEF Canceled, Status
  <1>3. Requeued(s, j) \in DbState
    BY ResetType, WithStatusType DEF Requeued, Status
  <1>4. AutoRetried(s, j) \in DbState
    <2>1. ResetForRetry(s, {j}) \in DbState
      BY ResetType
    <2>2. [s.retries EXCEPT ![j] = s.retries[j] + 1] \in [Job -> Nat]
      BY DEF DbState
    <2> QED BY <2>1, <2>2 DEF AutoRetried, DbState
  <1> QED BY <1>1, <1>2, <1>3, <1>4

\* Promoting the due delayed jobs keeps the rows typed.
LEMMA PromotedType ==
    ASSUME NEW s \in DbState
    PROVE  Promoted(s) \in DbState
  <1> DEFINE Due == {i \in Job : s.status[i] = "scheduled" /\ s.due[i]}
  <1>1. WithStatus(s, Due, "pending") \in DbState
    BY WithStatusType DEF Status
  <1> QED BY <1>1 DEF Promoted, DbState, Verdict

\* update_job's effect keeps the rows typed, whichever branch it takes.
LEMMA ReportedType ==
    ASSUME NEW s \in DbState, NEW m \in Report
    PROVE  Reported(s, m) \in DbState
  <1> DEFINE p == Pipe(m.job)
             Skipped == SkipOnFailureJobs(WithStatus(s, {m.job}, m.state), p)
             Stored == [Skipped EXCEPT !.exit = [Skipped.exit EXCEPT ![m.job] = m.exit]]
  <1>1. Skipped \in DbState
    BY WithStatusType, SkipType DEF Report, Status
  <1>2. Stored \in DbState
    BY <1>1 DEF DbState, Report
  <1>3. /\ AutoRetried(Stored, m.job) \in DbState
        /\ SkipJobsAfterFailedStage(Stored, p) \in DbState
    BY <1>2, EffectTypes, SkipType DEF Report
  <1> QED BY <1>2, <1>3 DEF Reported

\* _derive_pipeline_status assigns one of the known statuses.
LEMMA ConcludedType ==
    ASSUME NEW s \in DbState, NEW P
    PROVE  Concluded(s, P) \in DbState
  <1>1. \A p \in Pipeline : DerivedVerdict(s, p) \in Verdict
    BY DEF DerivedVerdict, Verdict
  <1>2. \A p \in Pipeline : Ended(DerivedVerdict(s, p)) \in BOOLEAN
    BY DEF Ended
  <1> QED BY <1>1, <1>2 DEF Concluded, DbState
-----------------------------------------------------------------------------
(* What a transaction leaves in the database.                              *)

\* Both kinds of commit store the changed job columns and number the tokens.
StoresJobs(s, v) ==
    /\ db'.status = Written(s.status, v.status, db.status)
    /\ db'.token = Flushed(s, v).token
    /\ db'.retries = Written(s.retries, v.retries, db.retries)
    /\ db'.exit = Written(s.exit, v.exit, db.exit)
    /\ IssueTokens(v)

\* A flush of typed rows into typed rows leaves typed rows.
LEMMA FlushedType ==
    ASSUME TypeOK, NEW s \in DbState, NEW v \in DbState
    PROVE  Flushed(s, v) \in DbState
  BY DEF TypeOK, Flushed, Written, DbState

\* Both ways a handler commits leave typed rows and store the job columns.
LEMMA CommitType ==
    ASSUME TypeOK, NEW s \in DbState, NEW v \in DbState, NEW p,
           Commit(s, v) \/ CommitDerived(s, v, p)
    PROVE  db' \in DbState /\ StoresJobs(s, v)
  <1>1. CASE Commit(s, v)
    BY <1>1, FlushedType DEF Commit, StoresJobs, Flushed
  <1>2. CASE CommitDerived(s, v, p)
    <2>1. PICK peers \in {Flushed(s, v), v} :
            LET seen == Concluded([peers EXCEPT !.verdict = v.verdict,
                                                !.finished = v.finished], {p})
            IN  db' = [Flushed(s, v) EXCEPT
                          !.verdict = Written(s.verdict, seen.verdict, db.verdict),
                          !.finished = Written(s.finished, seen.finished, db.finished)]
      BY <1>2 DEF CommitDerived
    <2> DEFINE seen == Concluded([peers EXCEPT !.verdict = v.verdict,
                                               !.finished = v.finished], {p})
    <2>2. peers \in DbState
      BY FlushedType
    <2>3. [peers EXCEPT !.verdict = v.verdict, !.finished = v.finished] \in DbState
      BY <2>2 DEF DbState
    <2>4. seen \in DbState
      BY <2>3, ConcludedType
    <2> HIDE DEF seen
    <2>5. db' = [Flushed(s, v) EXCEPT
                    !.verdict = Written(s.verdict, seen.verdict, db.verdict),
                    !.finished = Written(s.finished, seen.finished, db.finished)]
      BY <2>1 DEF seen
    <2>6. /\ Written(s.verdict, seen.verdict, db.verdict) \in [Pipeline -> Verdict]
          /\ Written(s.finished, seen.finished, db.finished) \in [Pipeline -> BOOLEAN]
      BY <2>4 DEF Written, DbState, TypeOK
    <2>7. Flushed(s, v) \in DbState
      BY FlushedType
    <2>8. db' \in DbState
      BY <2>5, <2>6, <2>7 DEF DbState
    <2>9. StoresJobs(s, v)
      BY <1>2, <2>5, <2>7 DEF StoresJobs, CommitDerived, Flushed, DbState
    <2> QED BY <2>8, <2>9
  <1> QED BY <1>1, <1>2

\* A commit leaves each job with a token that was generated for it.
LEMMA TokensStayIssued ==
    ASSUME TypeOK, NEW s \in DbState, NEW v \in DbState, StoresJobs(s, v)
    PROVE  /\ issued' \in [Job -> Nat \ {0}]
           /\ \A j \in Job : db'.token[j] \in 1 .. issued'[j]
  BY DEF TypeOK, StoresJobs, Flushed, IssueTokens

\* What a handler read in an earlier step was typed rows.
LEMMA SnapshotType ==
    ASSUME TypeOK, NEW q, NEW s \in Snapshots(q)
    PROVE  s \in DbState
  BY DEF TypeOK, Snapshots

\* Answering a request leaves the requests in flight typed.
LEMMA AnswerType ==
    ASSUME TypeOK, NEW q, NEW s, Answer(q, s)
    PROVE  call' \in [Slot -> [req: Request, snap: DbState] \cup {Idle}]
  BY DEF TypeOK, Answer

\* What a runner sends is a report.
LEMMA SendableType ==
    ASSUME TypeOK
    PROVE  Sendable \cup BeingServed \subseteq Report
  <1>1. Sendable \subseteq Report
    <2>1. ASSUME NEW b \in held
          PROVE  Keepalive(b) \in Report
      <3>1. b[1] \in Job /\ b[2] \in Nat \ {0}
        BY <2>1 DEF TypeOK, Attempt
      <3> QED BY <3>1 DEF Keepalive, Report, FailureReason
    <2> QED BY <2>1 DEF TypeOK, Sendable
  <1>2. BeingServed \subseteq Report
    <2>1. ASSUME NEW i \in Slot, call[i] # Idle, call[i].req[1] = "update"
          PROVE  call[i].req[2] \in Report
      <3>1. call[i].req \in Request
        BY <2>1 DEF TypeOK
      <3>2. ASSUME NEW q \in Request, q[1] = "update"
            PROVE  q[2] \in Report
        BY <3>2 DEF Request, JobOps, PipelineOps
      <3> QED BY <2>1, <3>1, <3>2
    <2> QED BY <2>1 DEF BeingServed
  <1> QED BY <1>1, <1>2
-----------------------------------------------------------------------------
(* Type correctness.                                                       *)

\* What the handlers have in common: q was read from s and made it v.
Handled(q, s, v, p) ==
    /\ s \in Snapshots(q)
    /\ Serve(q, s)
    /\ Commit(s, v) \/ CommitDerived(s, v, p)

\* A step of a handler with a typed effect preserves the type invariant.
LEMMA HandledType ==
    ASSUME TypeOK, NEW q, NEW s, NEW v \in DbState, NEW p, Handled(q, s, v, p),
           autos' \in [Job -> Nat]
    PROVE  TypeOK'
  <1>1. s \in DbState
    BY SnapshotType DEF Handled
  <1>2. db' \in DbState /\ StoresJobs(s, v)
    BY <1>1, CommitType DEF Handled
  <1>3. /\ issued' \in [Job -> Nat \ {0}]
        /\ \A j \in Job : db'.token[j] \in 1 .. issued'[j]
    BY <1>1, <1>2, TokensStayIssued
  <1>4. call' \in [Slot -> [req: Request, snap: DbState] \cup {Idle}]
    BY AnswerType DEF Handled, Serve
  <1>5. UNCHANGED runnerVars
    BY DEF Handled, Serve
  <1> QED BY <1>2, <1>3, <1>4, <1>5 DEF TypeOK, runnerVars

\* Every handler is Handled with an effect of the right type.
LEMMA HandleType ==
    ASSUME TypeOK, Handle
    PROVE  TypeOK'
  <1>1. ASSUME NEW j \in Job, PlayJob(j)
        PROVE  TypeOK'
    <2>1. PICK s \in Snapshots(<<"play", j>>) :
            Handled(<<"play", j>>, s, Played(s, j), Pipe(j)) /\ UNCHANGED autos
      BY <1>1 DEF PlayJob, Handled
    <2> QED BY <2>1, SnapshotType, EffectTypes, HandledType DEF TypeOK
  <1>2. ASSUME NEW j \in Job, CancelJob(j)
        PROVE  TypeOK'
    <2>1. PICK s \in Snapshots(<<"cancel", j>>) :
            Handled(<<"cancel", j>>, s, Canceled(s, {j}), Pipe(j)) /\ UNCHANGED autos
      BY <1>2 DEF CancelJob, Handled
    <2> QED BY <2>1, SnapshotType, EffectTypes, HandledType DEF TypeOK
  <1>3. ASSUME NEW j \in Job, RetryJob(j)
        PROVE  TypeOK'
    <2>1. PICK s \in Snapshots(<<"retry", j>>) :
            /\ Handled(<<"retry", j>>, s, ResetForRetry(s, {j} \cap Retryable(s)), Pipe(j))
            /\ UNCHANGED autos
      BY <1>3 DEF RetryJob, Handled
    <2> QED BY <2>1, SnapshotType, ResetType, HandledType DEF TypeOK
  <1>4. ASSUME NEW j \in Job, RequeueJob(j)
        PROVE  TypeOK'
    <2>1. PICK s \in Snapshots(<<"requeue", j>>) :
            Handled(<<"requeue", j>>, s, Requeued(s, j), Pipe(j)) /\ UNCHANGED autos
      BY <1>4 DEF RequeueJob, Handled
    <2> QED BY <2>1, SnapshotType, EffectTypes, HandledType DEF TypeOK
  <1>5. ASSUME NEW p \in Pipeline, CancelPipeline(p)
        PROVE  TypeOK'
    <2> DEFINE Effect(s) == [Canceled(s, JobsOf(p)) EXCEPT
                                !.verdict = [s.verdict EXCEPT ![p] = "canceled"],
                                !.finished = [s.finished EXCEPT ![p] = TRUE]]
    <2>1. PICK s \in Snapshots(<<"cancel_pipeline", p>>) :
            Handled(<<"cancel_pipeline", p>>, s, Effect(s), p) /\ UNCHANGED autos
      BY <1>5 DEF CancelPipeline, Handled
    <2>2. s \in DbState
      BY SnapshotType
    <2>3. Canceled(s, JobsOf(p)) \in DbState
      BY <2>2, WithStatusType DEF Canceled, Status
    <2>4. Effect(s) \in DbState
      BY <2>2, <2>3 DEF DbState, Verdict
    <2> QED BY <2>1, <2>4, HandledType DEF TypeOK
  <1>6. ASSUME NEW p \in Pipeline, RetryPipeline(p)
        PROVE  TypeOK'
    <2> DEFINE J(s) == {j \in JobsOf(p) \cap Retryable(s) : s.status[j] # "success"}
    <2>1. PICK s \in Snapshots(<<"retry_pipeline", p>>) :
            Handled(<<"retry_pipeline", p>>, s, ResetForRetry(s, J(s)), p) /\ UNCHANGED autos
      BY <1>6 DEF RetryPipeline, Handled
    <2> QED BY <2>1, SnapshotType, ResetType, HandledType DEF TypeOK
  <1>7. ASSUME NEW m \in Sendable \cup BeingServed, UpdateJob(m)
        PROVE  TypeOK'
    <2>1. m \in Report
      BY SendableType
    <2>2. PICK s \in Snapshots(<<"update", m>>) :
            Handled(<<"update", m>>, s, Reported(s, m), Pipe(m.job))
      BY <1>7 DEF UpdateJob, Handled
    <2>3. autos' \in [Job -> Nat]
      BY <1>7, <2>1 DEF UpdateJob, TypeOK, Report
    <2> QED BY <2>1, <2>2, <2>3, SnapshotType, ReportedType, HandledType
  <1>8. CASE PromoteDelayed
    <2>1. PICK s \in Snapshots(<<"promote", "due">>) :
            Handled(<<"promote", "due">>, s, Promoted(s), {}) /\ UNCHANGED autos
      BY <1>8 DEF PromoteDelayed, Handled
    <2>2. Promoted(s) \in DbState
      BY SnapshotType, PromotedType
    <2> QED BY <2>1, <2>2, HandledType DEF TypeOK
  <1>9. ASSUME NEW p \in Pipeline, CancelPipelineInUi(p)
        PROVE  TypeOK'
    <2>1. PICK s \in Snapshots(<<"cancel_in_ui", p>>) :
            Handled(<<"cancel_in_ui", p>>, s, Canceled(s, JobsOf(p)), p) /\ UNCHANGED autos
      BY <1>9 DEF CancelPipelineInUi, Handled
    <2>2. Canceled(s, JobsOf(p)) \in DbState
      BY <2>1, SnapshotType, WithStatusType DEF Canceled, Status
    <2> QED BY <2>1, <2>2, HandledType DEF TypeOK
  <1> QED BY <1>1, <1>2, <1>3, <1>4, <1>5, <1>6, <1>7, <1>8, <1>9 DEF Handle

\* The poll preserves the type invariant: it assigns known statuses only.
LEMMA RequestJobType ==
    ASSUME TypeOK, NEW r \in Runner, RequestJob(r)
    PROVE  TypeOK'
  <1> DEFINE s == Promoted(db)
  <1>0. UNCHANGED <<issued, call, told, autos>>
    BY DEF RequestJob
  <1>1. s \in DbState /\ s.token = db.token
    <2>1. s.token = db.token
      BY DEF Promoted, WithStatus, TypeOK, DbState
    <2> QED BY <2>1, PromotedType DEF TypeOK
  <1> HIDE DEF s
  <1>2. ASSUME NEW j \in Runnable(s, r), NEW a, a = <<j, s.token[j]>>,
               db' = [WithStatus(s, {j}, "running") EXCEPT
                         !.verdict = [s.verdict EXCEPT ![Pipe(j)] = "running"]],
               handed' = handed \cup {a},
               held' \in {held, held \cup {a}}
        PROVE  TypeOK'
    <2>1. j \in Job
      BY EligibleIsTyped DEF Runnable
    <2>2. WithStatus(s, {j}, "running") \in DbState
      BY <1>1, WithStatusType DEF Status
    <2>3. db' \in DbState /\ db'.token = db.token
      BY <1>1, <1>2, <2>2 DEF DbState, Verdict, WithStatus
    <2>4. a \in Attempt
      BY <1>1, <1>2, <2>1 DEF TypeOK, DbState, Attempt
    <2> QED BY <1>2, <2>3, <2>4, <1>0 DEF TypeOK
  <1>3. CASE db' = s /\ UNCHANGED <<handed, held>>
    BY <1>1, <1>3, <1>0 DEF TypeOK
  <1> QED BY <1>2, <1>3 DEF RequestJob, s

\* CreatePipeline writes statuses and verdicts only.
LEMMA CreatePipelineType ==
    ASSUME TypeOK, NEW p \in Pipeline, CreatePipeline(p)
    PROVE  TypeOK'
  <1> DEFINE Old == {o \in Pipeline : Ref[o] = Ref[p] /\ db.verdict[o] # "absent"}
             Victims == {j \in Cancelable(db) : Pipe(j) \in Old /\ Def[j].interruptible}
             Interrupted == Concluded(Canceled(db, Victims), {Pipe(j) : j \in Victims})
             First(j) == CASE Def[j].when = "manual" -> "manual"
                           [] Def[j].when = "delayed" -> "scheduled"
                           [] OTHER -> "pending"
  <1>1. Interrupted \in DbState
    BY WithStatusType, ConcludedType DEF Canceled, Status, TypeOK
  <1>2. Interrupted.token = db.token
    BY DEF Concluded, Canceled, WithStatus, TypeOK, DbState
  <1>3. \A j \in Job : First(j) \in Status
    BY DEF Status
  <1> DEFINE I == Interrupted
             F(j) == First(j)
  <1>4. db' = [I EXCEPT !.status = [j \in Job |-> IF j \in JobsOf(p) THEN F(j)
                                                  ELSE I.status[j]],
                        !.verdict = [I.verdict EXCEPT ![p] = "pending"]]
    BY DEF CreatePipeline
  <1>5. I \in DbState /\ I.token = db.token /\ \A j \in Job : F(j) \in Status
    BY <1>1, <1>2, <1>3
  <1>6. UNCHANGED <<issued, call, runnerVars, autos>>
    BY DEF CreatePipeline
  <1> HIDE DEF I, F
  <1>7. db' \in DbState /\ db'.token = db.token
    BY <1>4, <1>5 DEF DbState, Verdict
  <1> QED BY <1>6, <1>7 DEF TypeOK, runnerVars

\* Loading the rows of a request preserves the type invariant.
LEMMA ReadType ==
    ASSUME TypeOK, NEW c \in Slot, NEW q \in Arriving, Read(c, q)
    PROVE  TypeOK'
  <1>1. q \in Request
    BY SendableType DEF Arriving, Request
  <1>2. [req |-> q, snap |-> db] \in [req: Request, snap: DbState]
    BY <1>1 DEF TypeOK
  <1> QED BY <1>2 DEF Read, TypeOK, runnerVars

\* The end of a script adds a report of the right type.
LEMMA FinishType ==
    ASSUME TypeOK, NEW a \in held, NEW e \in Ending, Finish(a, e)
    PROVE  TypeOK'
  <1>1. a[1] \in Job /\ a[2] \in Nat \ {0}
    BY DEF TypeOK, Attempt
  <1>2. [job |-> a[1], token |-> a[2], state |-> e.state,
         exit |-> e.exit, reason |-> e.reason] \in Report
    BY <1>1, EndingsAreTyped DEF Report
  <1> QED BY <1>2 DEF Finish, TypeOK

\* The tables are typed before the first pipeline.
LEMMA InitType == Init => TypeOK
  BY DEF Init, TypeOK, DbState, Status, Verdict, Attempt

\* Every step preserves the type invariant.
LEMMA NextType == TypeOK /\ [Next]_vars => TypeOK'
  <1> SUFFICES ASSUME TypeOK, [Next]_vars
               PROVE  TypeOK'
    OBVIOUS
  <1>1. CASE Handle
    BY <1>1, HandleType
  <1>2. ASSUME NEW c \in Slot, NEW q \in Arriving, Read(c, q)
        PROVE  TypeOK'
    BY <1>2, ReadType
  <1>3. ASSUME NEW c \in Slot, Drop(c)
        PROVE  TypeOK'
    BY <1>3 DEF Drop, TypeOK, runnerVars
  <1>4. ASSUME NEW r \in Runner, RequestJob(r)
        PROVE  TypeOK'
    BY <1>4, RequestJobType
  <1>5. ASSUME NEW p \in Pipeline, CreatePipeline(p)
        PROVE  TypeOK'
    BY <1>5, CreatePipelineType
  <1>6. ASSUME NEW a \in held, NEW e \in Ending, Finish(a, e)
        PROVE  TypeOK'
    BY <1>6, FinishType
  <1>7. ASSUME NEW j \in Job, Elapse(j)
        PROVE  TypeOK'
    BY <1>7 DEF Elapse, TypeOK, DbState, runnerVars
  <1>8. CASE UNCHANGED vars
    BY <1>8 DEF vars, TypeOK
  <1> QED BY <1>1, <1>2, <1>3, <1>4, <1>5, <1>6, <1>7, <1>8 DEF Next

\* In every reachable state the rows, the snapshots in flight, the tokens and
\* the reports have their types, and a job's token is one that was generated
\* for it (app/models/ci.py and the handlers of app/api).
THEOREM TypeCorrect == Spec => []TypeOK
  BY InitType, NextType, PTL DEF Spec
-----------------------------------------------------------------------------
(* What a pipeline's status says of its jobs.                              *)

Live == {"pending", "scheduled", "running"}
Accepted(s, j) == s.status[j] \in {"success", "skipped", "manual"} \/ FailedAllowed(s, j)

\* The verdict v and the flag f of pipeline p agree with its jobs in s.
Agrees(s, p, v, f) ==
    /\ f <=> Ended(v)
    /\ Ended(v) => \A j \in JobsOf(p) : s.status[j] \notin Live
    /\ v = "success" => \A j \in JobsOf(p) : Accepted(s, j)

\* The strengthening: a final verdict has no live job.  Without it a poll or a
\* promotion could make a job of a finished pipeline run.
Sound(s) == \A p \in Pipeline : Agrees(s, p, s.verdict[p], s.finished[p])
VerdictInv == TypeOK /\ Sound(db)

\* Every job is one of the jobs of its pipeline.
LEMMA PipeType == \A j \in Job : Pipe(j) \in Pipeline /\ j \in JobsOf(Pipe(j))
  BY ConfigurationIsTyped DEF Pipe, JobDef, JobsOf

\* A derived status agrees with the jobs it was derived from.
LEMMA DerivedAgrees ==
    ASSUME NEW s \in DbState, NEW p \in Pipeline
    PROVE  Agrees(s, p, DerivedVerdict(s, p), Ended(DerivedVerdict(s, p)))
  <1> DEFINE Seen == {s.status[j] : j \in {i \in JobsOf(p) : ~FailedAllowed(s, i)}}
             Waiting == Seen \cap {"pending", "scheduled"}
             d == DerivedVerdict(s, p)
  <1>1. \A j \in JobsOf(p) : s.status[j] \in Seen \/ FailedAllowed(s, j)
    OBVIOUS
  <1>2. \A j \in JobsOf(p) : s.status[j] \in Live => s.status[j] \in Seen
    BY <1>1 DEF FailedAllowed, Live
  <1>3. /\ d = "success" => Seen \subseteq {"success", "skipped", "manual"}
        /\ Ended(d) => "running" \notin Seen /\ Waiting = {}
    <2> HIDE DEF Seen
    <2> QED BY DEF DerivedVerdict, Ended, Seen
  <1> HIDE DEF d, Seen
  <1>4. Ended(d) => \A j \in JobsOf(p) : s.status[j] \notin Live
    BY <1>2, <1>3 DEF Live
  <1>5. d = "success" => \A j \in JobsOf(p) : Accepted(s, j)
    BY <1>1, <1>3 DEF Accepted
  <1> QED BY <1>4, <1>5 DEF Agrees, d

\* Agreement depends on the jobs of the pipeline only.
LEMMA AgreesWithSameJobs ==
    ASSUME NEW s, NEW t, NEW p, NEW v, NEW f, Agrees(s, p, v, f),
           \A j \in JobsOf(p) : t.status[j] = s.status[j] /\ t.exit[j] = s.exit[j]
    PROVE  Agrees(t, p, v, f)
  BY DEF Agrees, Accepted, FailedAllowed

\* The effect v of a handler of pipeline p changes rows of p's jobs only.
OnlyTouches(s, v, p) ==
    /\ \A j \in Job \ JobsOf(p) : v.status[j] = s.status[j] /\ v.exit[j] = s.exit[j]
    /\ v.verdict = s.verdict
    /\ v.finished = s.finished

\* The handlers that derive the status leave it in agreement.
LEMMA DerivingIsSound ==
    ASSUME VerdictInv, NEW v \in DbState, NEW p \in Pipeline,
           CommitDerived(db, v, p), OnlyTouches(db, v, p)
    PROVE  Sound(db')
  <1>0. TypeOK /\ db \in DbState
    BY DEF VerdictInv, TypeOK
  <1>1. PICK peers \in {Flushed(db, v), v} :
          LET seen == Concluded([peers EXCEPT !.verdict = v.verdict,
                                              !.finished = v.finished], {p})
          IN  db' = [Flushed(db, v) EXCEPT
                        !.verdict = Written(db.verdict, seen.verdict, db.verdict),
                        !.finished = Written(db.finished, seen.finished, db.finished)]
    BY DEF CommitDerived
  <1> DEFINE rows == [peers EXCEPT !.verdict = v.verdict, !.finished = v.finished]
             seen == Concluded(rows, {p})
  <1>2. /\ Flushed(db, v).status = v.status
        /\ Flushed(db, v).exit = v.exit
    BY <1>0 DEF Flushed, Written, DbState
  <1>3. /\ rows \in DbState /\ rows.status = v.status /\ rows.exit = v.exit
        /\ rows.verdict = v.verdict /\ rows.finished = v.finished
    <2>1. peers \in DbState /\ peers.status = v.status /\ peers.exit = v.exit
      BY <1>0, <1>2, FlushedType
    <2> QED BY <2>1 DEF DbState
  <1> HIDE DEF rows
  <1>4. /\ \A o \in Pipeline \ {p} : seen.verdict[o] = db.verdict[o]
                                     /\ seen.finished[o] = db.finished[o]
        /\ seen.verdict[p] = DerivedVerdict(rows, p)
        /\ seen.finished[p] = Ended(DerivedVerdict(rows, p))
        /\ seen.finished \in [Pipeline -> BOOLEAN] /\ seen.verdict \in [Pipeline -> Verdict]
    <2>1. seen \in DbState
      BY <1>3, ConcludedType
    <2> QED BY <2>1, <1>3 DEF Concluded, OnlyTouches, DbState
  <1> HIDE DEF seen
  <1>5. /\ db'.status = v.status /\ db'.exit = v.exit
        /\ db'.verdict = seen.verdict /\ db'.finished = seen.finished
    <2>1. /\ db'.verdict = Written(db.verdict, seen.verdict, db.verdict)
          /\ db'.finished = Written(db.finished, seen.finished, db.finished)
          /\ db'.status = Flushed(db, v).status /\ db'.exit = Flushed(db, v).exit
      BY <1>1 DEF seen, rows, Flushed
    <2>2. /\ Written(db.verdict, seen.verdict, db.verdict) = seen.verdict
          /\ Written(db.finished, seen.finished, db.finished) = seen.finished
      BY <1>0, <1>4 DEF Written, DbState
    <2> QED BY <1>2, <2>1, <2>2
  <1>6. Agrees(db', p, db'.verdict[p], db'.finished[p])
    <2>1. Agrees(rows, p, DerivedVerdict(rows, p), Ended(DerivedVerdict(rows, p)))
      BY <1>3, DerivedAgrees
    <2>2. Agrees(rows, p, db'.verdict[p], db'.finished[p])
      BY <2>1, <1>4, <1>5
    <2> QED BY <2>2, <1>3, <1>5, AgreesWithSameJobs
  <1>7. ASSUME NEW o \in Pipeline \ {p}
        PROVE  Agrees(db', o, db'.verdict[o], db'.finished[o])
    <2>1. Agrees(db, o, db'.verdict[o], db'.finished[o])
      BY <1>4, <1>5 DEF VerdictInv, Sound
    <2>2. \A j \in JobsOf(o) : db'.status[j] = db.status[j] /\ db'.exit[j] = db.exit[j]
      BY <1>5 DEF OnlyTouches, JobsOf
    <2> QED BY <2>1, <2>2, AgreesWithSameJobs
  <1> QED BY <1>6, <1>7 DEF Sound

\* Which rows the effects touch.
LEMMA EffectsTouch ==
    ASSUME NEW s \in DbState, NEW j \in Job, NEW p \in Pipeline
    PROVE  /\ OnlyTouches(s, Played(s, j), Pipe(j))
           /\ OnlyTouches(s, Canceled(s, {j}), Pipe(j))
           /\ OnlyTouches(s, Canceled(s, JobsOf(p)), p)
           /\ OnlyTouches(s, ResetForRetry(s, {j} \cap Retryable(s)), Pipe(j))
           /\ OnlyTouches(s, Requeued(s, j), Pipe(j))
  <1>0. j \in JobsOf(Pipe(j))
    BY PipeType
  <1>1. OnlyTouches(s, Played(s, j), Pipe(j))
    BY <1>0 DEF Played, WithStatus, OnlyTouches, DbState
  <1>2. OnlyTouches(s, Canceled(s, {j}), Pipe(j))
    BY <1>0 DEF Canceled, WithStatus, OnlyTouches, DbState
  <1>3. OnlyTouches(s, Canceled(s, JobsOf(p)), p)
    BY DEF Canceled, WithStatus, OnlyTouches, DbState
  <1>4. OnlyTouches(s, ResetForRetry(s, {j} \cap Retryable(s)), Pipe(j))
    BY <1>0 DEF ResetForRetry, OnlyTouches, DbState
  <1>5. OnlyTouches(s, Requeued(s, j), Pipe(j))
    BY <1>0 DEF Requeued, WithStatus, ResetForRetry, OnlyTouches, DbState
  <1> QED BY <1>1, <1>2, <1>3, <1>4, <1>5

\* A report changes jobs of its own pipeline only, and no verdict.
LEMMA ReportedTouches ==
    ASSUME NEW s \in DbState, NEW m \in Report
    PROVE  OnlyTouches(s, Reported(s, m), Pipe(m.job))
  <1> DEFINE p == Pipe(m.job)
             Skipped == SkipOnFailureJobs(WithStatus(s, {m.job}, m.state), p)
             Stored == [Skipped EXCEPT !.exit = [Skipped.exit EXCEPT ![m.job] = m.exit]]
  <1>1. m.job \in Job /\ m.state \in Status /\ m.job \in JobsOf(p)
    BY PipeType DEF Report, Status
  <1>2. Stored \in DbState /\ OnlyTouches(s, Stored, p)
    <2>1. WithStatus(s, {m.job}, m.state) \in DbState
      BY <1>1, WithStatusType
    <2>2. Skipped \in DbState
      BY <2>1, SkipType
    <2>3. Stored \in DbState
      BY <2>2 DEF DbState, Report
    <2>4. OnlyTouches(s, Skipped, p)
      BY <1>1 DEF SkipOnFailureJobs, WithStatus, OnlyTouches, DbState
    <2> HIDE DEF Skipped
    <2> QED BY <1>1, <2>2, <2>3, <2>4 DEF DbState, OnlyTouches
  <1> HIDE DEF Stored
  <1>3. OnlyTouches(s, SkipJobsAfterFailedStage(Stored, p), p)
    BY <1>2 DEF SkipJobsAfterFailedStage, WithStatus, OnlyTouches, DbState
  <1>4. OnlyTouches(s, AutoRetried(Stored, m.job), p)
    BY <1>1, <1>2 DEF AutoRetried, ResetForRetry, OnlyTouches, DbState
  <1> QED BY <1>2, <1>3, <1>4 DEF Reported, Stored

\* A promotion reopens the pipelines of the jobs it makes pending.
LEMMA PromotedSound ==
    ASSUME NEW s \in DbState, Sound(s)
    PROVE  Sound(Promoted(s))
  <1> DEFINE Due == {j \in Job : s.status[j] = "scheduled" /\ s.due[j]}
             t == Promoted(s)
  <1>1. /\ \A j \in Job : t.status[j] = (IF j \in Due THEN "pending" ELSE s.status[j])
        /\ t.exit = s.exit
        /\ \A p \in Pipeline :
              \/ t.verdict[p] = s.verdict[p] /\ t.finished[p] = s.finished[p]
              \/ t.verdict[p] = "pending" /\ t.finished[p] = FALSE
    BY DEF Promoted, WithStatus, DbState
  <1> HIDE DEF t
  <1>2. ASSUME NEW p \in Pipeline
        PROVE  Agrees(t, p, t.verdict[p], t.finished[p])
    <2>1. CASE t.verdict[p] = "pending" /\ t.finished[p] = FALSE
      BY <2>1 DEF Agrees, Ended
    <2>2. CASE t.verdict[p] = s.verdict[p] /\ t.finished[p] = s.finished[p]
      <3>1. Agrees(s, p, t.verdict[p], t.finished[p])
        BY <2>2 DEF Sound
      <3>2. CASE \A j \in JobsOf(p) : j \notin Due
        BY <1>1, <3>1, <3>2, AgreesWithSameJobs DEF JobsOf
      <3>3. CASE \E j \in JobsOf(p) : j \in Due
        <4>1. ~Ended(t.verdict[p])
          BY <3>1, <3>3 DEF Agrees, Live
        <4> QED BY <4>1, <3>1 DEF Agrees, Ended
      <3> QED BY <3>2, <3>3
    <2> QED BY <1>1, <2>1, <2>2
  <1> QED BY <1>2 DEF Sound, t

\* Assigning the verdict canceled is right: no job is left that could run.
LEMMA CancelPipelineSound ==
    ASSUME VerdictInv, NEW p \in Pipeline, CancelPipeline(p), Split = {}
    PROVE  Sound(db')
  <1> DEFINE v == [Canceled(db, JobsOf(p)) EXCEPT
                      !.verdict = [db.verdict EXCEPT ![p] = "canceled"],
                      !.finished = [db.finished EXCEPT ![p] = TRUE]]
  <1>0. TypeOK /\ db \in DbState
    BY DEF VerdictInv, TypeOK
  <1>1. db' = Flushed(db, v)
    BY DEF CancelPipeline, Snapshots, Commit
  <1>2. /\ v \in DbState /\ v.exit = db.exit
        /\ \A j \in JobsOf(p) : v.status[j] \notin Live
        /\ \A j \in Job \ JobsOf(p) : v.status[j] = db.status[j]
        /\ \A o \in Pipeline : v.verdict[o] = (IF o = p THEN "canceled" ELSE db.verdict[o])
        /\ \A o \in Pipeline : v.finished[o] = (IF o = p THEN TRUE ELSE db.finished[o])
    <2>1. Canceled(db, JobsOf(p)) \in DbState
      BY <1>0, WithStatusType DEF Canceled, Status
    <2>2. v \in DbState
      BY <2>1, <1>0 DEF DbState, Verdict
    <2>3. /\ \A j \in JobsOf(p) : v.status[j] \notin Live
          /\ \A j \in Job \ JobsOf(p) : v.status[j] = db.status[j]
          /\ v.exit = db.exit
      BY <1>0 DEF Canceled, Cancelable, WithStatus, JobsOf, Live, DbState
    <2>4. /\ \A o \in Pipeline : v.verdict[o] = (IF o = p THEN "canceled" ELSE db.verdict[o])
          /\ \A o \in Pipeline : v.finished[o] = (IF o = p THEN TRUE ELSE db.finished[o])
      BY <1>0, <2>1 DEF DbState
    <2> QED BY <2>2, <2>3, <2>4
  <1> HIDE DEF v
  <1>3. /\ db'.status = v.status /\ db'.exit = v.exit
        /\ db'.verdict = v.verdict /\ db'.finished = v.finished
    BY <1>0, <1>1, <1>2 DEF Flushed, Written, DbState
  <1>4. Agrees(db', p, db'.verdict[p], db'.finished[p])
    BY <1>2, <1>3 DEF Agrees, Ended
  <1>5. ASSUME NEW o \in Pipeline \ {p}
        PROVE  Agrees(db', o, db'.verdict[o], db'.finished[o])
    <2>1. Agrees(db, o, db'.verdict[o], db'.finished[o])
      BY <1>2, <1>3 DEF VerdictInv, Sound
    <2>2. \A j \in JobsOf(o) : db'.status[j] = db.status[j] /\ db'.exit[j] = db.exit[j]
      BY <1>2, <1>3 DEF JobsOf
    <2> QED BY <2>1, <2>2, AgreesWithSameJobs
  <1> QED BY <1>4, <1>5 DEF Sound

\* Every handler leaves each pipeline in agreement with its jobs.
LEMMA SoundHandle ==
    ASSUME VerdictInv, Handle, Split = {}
    PROVE  Sound(db')
  <1>0. TypeOK /\ db \in DbState
    BY DEF VerdictInv, TypeOK
  <1>s. \A q : Snapshots(q) = {db}
    BY DEF Snapshots
  <1>1. ASSUME NEW j \in Job, PlayJob(j)
        PROVE  Sound(db')
    <2>1. CommitDerived(db, Played(db, j), Pipe(j))
      BY <1>1, <1>s DEF PlayJob
    <2> QED BY <2>1, <1>0, PipeType, EffectTypes, EffectsTouch, DerivingIsSound
  <1>2. ASSUME NEW j \in Job, CancelJob(j)
        PROVE  Sound(db')
    <2>1. CommitDerived(db, Canceled(db, {j}), Pipe(j))
      BY <1>2, <1>s DEF CancelJob
    <2> QED BY <2>1, <1>0, PipeType, EffectTypes, EffectsTouch, DerivingIsSound
  <1>3. ASSUME NEW j \in Job, RetryJob(j)
        PROVE  Sound(db')
    <2>1. CommitDerived(db, ResetForRetry(db, {j} \cap Retryable(db)), Pipe(j))
      BY <1>3, <1>s DEF RetryJob
    <2>2. OnlyTouches(db, ResetForRetry(db, {j} \cap Retryable(db)), Pipe(j))
      BY <1>0, PipeType, EffectsTouch
    <2> QED BY <2>1, <2>2, <1>0, PipeType, ResetType, DerivingIsSound
  <1>4. ASSUME NEW j \in Job, RequeueJob(j)
        PROVE  Sound(db')
    <2>1. CommitDerived(db, Requeued(db, j), Pipe(j))
      BY <1>4, <1>s DEF RequeueJob
    <2> QED BY <2>1, <1>0, PipeType, EffectTypes, EffectsTouch, DerivingIsSound
  <1>5. ASSUME NEW p \in Pipeline, CancelPipeline(p)
        PROVE  Sound(db')
    BY <1>5, CancelPipelineSound
  <1>6. ASSUME NEW p \in Pipeline, RetryPipeline(p)
        PROVE  Sound(db')
    <2> DEFINE J == {j \in JobsOf(p) \cap Retryable(db) : db.status[j] # "success"}
    <2>1. CommitDerived(db, ResetForRetry(db, J), p)
      BY <1>6, <1>s DEF RetryPipeline
    <2>2. J \subseteq JobsOf(p)
      OBVIOUS
    <2> HIDE DEF J
    <2>3. OnlyTouches(db, ResetForRetry(db, J), p)
      BY <1>0, <2>2 DEF ResetForRetry, OnlyTouches, DbState
    <2> QED BY <2>1, <2>3, <1>0, ResetType, DerivingIsSound
  <1>7. ASSUME NEW m \in Sendable \cup BeingServed, UpdateJob(m)
        PROVE  Sound(db')
    <2>1. m \in Report /\ Pipe(m.job) \in Pipeline
      BY <1>0, SendableType, PipeType DEF Report
    <2>2. CommitDerived(db, Reported(db, m), Pipe(m.job))
      BY <1>7, <1>s DEF UpdateJob
    <2> QED BY <2>1, <2>2, <1>0, ReportedType, ReportedTouches, DerivingIsSound
  <1>8. CASE PromoteDelayed
    <2>1. Commit(db, Promoted(db))
      BY <1>8, <1>s DEF PromoteDelayed
    <2> DEFINE t == Promoted(db)
    <2>2. t \in DbState /\ Sound(t)
      BY <1>0, PromotedType, PromotedSound DEF VerdictInv
    <2> HIDE DEF t
    <2>3. db' = Flushed(db, t)
      BY <2>1 DEF Commit, t
    <2>4. /\ db'.status = t.status /\ db'.exit = t.exit
          /\ db'.verdict = t.verdict /\ db'.finished = t.finished
      BY <1>0, <2>2, <2>3 DEF Flushed, Written, DbState
    <2> QED BY <2>2, <2>4, AgreesWithSameJobs DEF Sound
  <1>9. ASSUME NEW p \in Pipeline, CancelPipelineInUi(p)
        PROVE  Sound(db')
    <2>1. CommitDerived(db, Canceled(db, JobsOf(p)), p)
      BY <1>9, <1>s DEF CancelPipelineInUi
    <2>2. Canceled(db, JobsOf(p)) \in DbState
      BY <1>0, WithStatusType DEF Canceled, Status
    <2>3. OnlyTouches(db, Canceled(db, JobsOf(p)), p)
      BY <1>0 DEF Canceled, WithStatus, OnlyTouches, DbState
    <2> QED BY <2>1, <2>2, <2>3, DerivingIsSound
  <1> QED BY <1>1, <1>2, <1>3, <1>4, <1>5, <1>6, <1>7, <1>8, <1>9 DEF Handle

\* The poll makes the pipeline of the job it hands out run; the job was
\* pending, so the pipeline had no final status and no finished_at.
LEMMA SoundRequestJob ==
    ASSUME VerdictInv, NEW r \in Runner, RequestJob(r)
    PROVE  Sound(db')
  <1> DEFINE s == Promoted(db)
  <1>1. s \in DbState /\ Sound(s)
    BY PromotedType, PromotedSound DEF VerdictInv, TypeOK
  <1> HIDE DEF s
  <1>2. ASSUME NEW j \in Runnable(s, r),
               db' = [WithStatus(s, {j}, "running") EXCEPT
                         !.verdict = [s.verdict EXCEPT ![Pipe(j)] = "running"]]
        PROVE  Sound(db')
    <2>1. j \in Job /\ s.status[j] = "pending"
      BY EligibleIsTyped DEF Runnable
    <2>2. /\ \A k \in Job : db'.status[k] = IF k = j THEN "running" ELSE s.status[k]
          /\ db'.exit = s.exit
          /\ \A p \in Pipeline : db'.verdict[p] = IF p = Pipe(j) THEN "running" ELSE s.verdict[p]
          /\ db'.finished = s.finished
      BY <1>1, <1>2, <2>1 DEF WithStatus, DbState
    <2>3. ~s.finished[Pipe(j)]
      BY <1>1, <2>1, PipeType DEF Sound, Agrees, Live
    <2>4. Agrees(db', Pipe(j), "running", s.finished[Pipe(j)])
      BY <2>3 DEF Agrees, Ended
    <2>5. ASSUME NEW p \in Pipeline, p # Pipe(j)
          PROVE  Agrees(db', p, s.verdict[p], s.finished[p])
      <3>1. Agrees(s, p, s.verdict[p], s.finished[p])
        BY <1>1 DEF Sound
      <3>2. \A k \in JobsOf(p) : k # j /\ k \in Job
        BY <2>5 DEF JobsOf
      <3> QED BY <3>1, <3>2, <2>2, AgreesWithSameJobs
    <2> QED BY <2>2, <2>4, <2>5 DEF Sound
  <1>3. CASE db' = s
    BY <1>1, <1>3
  <1> QED BY <1>2, <1>3 DEF RequestJob, s

\* The pipelines that lost an interruptible job are derived again, the others
\* are left alone and the new one is pending.
LEMMA SoundCreatePipeline ==
    ASSUME VerdictInv, NEW p \in Pipeline, CreatePipeline(p)
    PROVE  Sound(db')
  <1> DEFINE Old == {o \in Pipeline : Ref[o] = Ref[p] /\ db.verdict[o] # "absent"}
             Victims == {j \in Cancelable(db) : Pipe(j) \in Old /\ Def[j].interruptible}
             C == Canceled(db, Victims)
             P == {Pipe(j) : j \in Victims}
             I == Concluded(C, P)
             F(j) == CASE Def[j].when = "manual" -> "manual"
                       [] Def[j].when = "delayed" -> "scheduled"
                       [] OTHER -> "pending"
  <1>0. TypeOK /\ db \in DbState /\ db.verdict[p] = "absent" /\ ~db.finished[p]
    BY DEF VerdictInv, TypeOK, CreatePipeline, Sound, Agrees, Ended
  <1>1. C \in DbState
    BY <1>0, WithStatusType DEF Canceled, Status
  <1>2. p \notin P
    BY <1>0
  <1>3. /\ I.status = C.status /\ I.exit = C.exit
        /\ \A o \in P : /\ I.verdict[o] = DerivedVerdict(C, o)
                        /\ I.finished[o] = Ended(DerivedVerdict(C, o))
        /\ \A o \in Pipeline \ P : I.verdict[o] = db.verdict[o] /\ I.finished[o] = db.finished[o]
    <2>1. C.verdict = db.verdict /\ C.finished = db.finished
      BY <1>0 DEF Canceled, WithStatus, DbState
    <2>2. \A j \in Victims : Pipe(j) \in Pipeline
      BY PipeType DEF Cancelable
    <2> HIDE DEF C
    <2> QED BY <1>1, <2>1, <2>2 DEF Concluded, DbState
  <1>4. I \in DbState
    BY <1>1, ConcludedType
  <1>5. \A o \in Pipeline \ P : \A j \in JobsOf(o) : C.status[j] = db.status[j] /\ C.exit[j] = db.exit[j]
    BY <1>0 DEF Canceled, WithStatus, DbState, JobsOf
  <1>6. db' = [I EXCEPT !.status = [j \in Job |-> IF j \in JobsOf(p) THEN F(j)
                                                  ELSE I.status[j]],
                        !.verdict = [I.verdict EXCEPT ![p] = "pending"]]
    BY DEF CreatePipeline
  <1> HIDE DEF I, F, C, P
  <1>7. /\ \A j \in Job \ JobsOf(p) : db'.status[j] = C.status[j]
        /\ db'.exit = C.exit
        /\ \A o \in Pipeline : db'.verdict[o] = IF o = p THEN "pending" ELSE I.verdict[o]
        /\ db'.finished = I.finished
    BY <1>3, <1>4, <1>6 DEF DbState
  <1>8. Agrees(db', p, db'.verdict[p], db'.finished[p])
    BY <1>0, <1>2, <1>3, <1>7 DEF Agrees, Ended
  <1>9. ASSUME NEW o \in Pipeline, o # p
        PROVE  Agrees(db', o, db'.verdict[o], db'.finished[o])
    <2>1. Agrees(C, o, I.verdict[o], I.finished[o])
      <3>1. CASE o \in P
        BY <1>1, <1>3, <3>1, DerivedAgrees
      <3>2. CASE o \notin P
        <4>1. Agrees(db, o, I.verdict[o], I.finished[o])
          BY <1>3, <3>2 DEF VerdictInv, Sound
        <4> QED BY <4>1, <3>2, <1>5, AgreesWithSameJobs
      <3> QED BY <3>1, <3>2
    <2>2. \A j \in JobsOf(o) : db'.status[j] = C.status[j] /\ db'.exit[j] = C.exit[j]
      BY <1>7, <1>9 DEF JobsOf
    <2> QED BY <2>1, <2>2, <1>7, <1>9, AgreesWithSameJobs
  <1> QED BY <1>8, <1>9 DEF Sound

\* No pipeline has a final status before the first one is created.
LEMMA VerdictInit == Init => VerdictInv
  BY InitType DEF Init, VerdictInv, Sound, Agrees, Ended

\* Every step leaves each pipeline in agreement with its jobs.
LEMMA VerdictNext ==
    ASSUME Split = {}, VerdictInv, [Next]_vars
    PROVE  VerdictInv'
  <1>0. TypeOK' /\ TypeOK
    BY NextType DEF VerdictInv
  <1>1. ASSUME Handle
        PROVE  Sound(db')
    BY <1>0, <1>1, SoundHandle DEF VerdictInv
  <1>2. ASSUME NEW r \in Runner, RequestJob(r)
        PROVE  Sound(db')
    BY <1>2, SoundRequestJob
  <1>3. ASSUME NEW p \in Pipeline, CreatePipeline(p)
        PROVE  Sound(db')
    BY <1>3, SoundCreatePipeline
  <1>4. ASSUME NEW j \in Job, Elapse(j)
        PROVE  Sound(db')
    <2>1. /\ db'.status = db.status /\ db'.exit = db.exit
          /\ db'.verdict = db.verdict /\ db'.finished = db.finished
      BY <1>0, <1>4 DEF Elapse, TypeOK, DbState
    <2> QED BY <2>1, AgreesWithSameJobs DEF VerdictInv, Sound
  <1>5. ASSUME UNCHANGED db
        PROVE  Sound(db')
    BY <1>5 DEF VerdictInv
  <1>6. Sound(db')
    BY <1>1, <1>2, <1>3, <1>4, <1>5 DEF Next, vars, Read, Drop, Finish
  <1> QED BY <1>0, <1>6 DEF VerdictInv

\* The invariant holds while requests are served one at a time.
LEMMA VerdictInvHolds == Split = {} => (Spec => []VerdictInv)
  <1> SUFFICES ASSUME Split = {} PROVE Spec => []VerdictInv
    OBVIOUS
  <1>1. VerdictInv /\ [Next]_vars => VerdictInv'
    BY VerdictNext
  <1> QED BY <1>1, VerdictInit, PTL DEF Spec

\* When requests are served one at a time, a pipeline shown as passed has only
\* jobs that passed, were skipped, wait for a user or may fail, although the poll,
\* the promotion and cancel_pipeline write the status without deriving it.
THEOREM VerdictsAreSound ==
    ASSUME Split = {}
    PROVE  Spec => []SuccessIsEarned
  <1>1. VerdictInv => SuccessIsEarned
    BY PipeType DEF VerdictInv, Sound, Agrees, Accepted, SuccessIsEarned
  <1> QED BY <1>1, VerdictInvHolds, PTL

\* And finished_at is set exactly while the status is final, through every retry,
\* replay and promotion that takes a final status back.
THEOREM FinishesAreStamped ==
    ASSUME Split = {}
    PROVE  Spec => []FinishedIsStamped
  <1>1. VerdictInv => FinishedIsStamped
    BY PipeType DEF VerdictInv, Sound, Agrees, Accepted, FinishedIsStamped
  <1> QED BY <1>1, VerdictInvHolds, PTL
=============================================================================
