------------------------------ MODULE AttemptProofs ------------------------------
(***************************************************************************)
(* The attempts of a job, for every configuration.  The job token is the   *)
(* fence between them: an attempt is executed once, a result belongs to    *)
(* the attempt whose token is current and is final for it, and automatic   *)
(* retries keep to their budget; so the coordinator implements the ledger  *)
(* of attempts.  Each theorem names the handlers that must not be          *)
(* interrupted between their read and their write for it.                  *)
(***************************************************************************)
EXTENDS JobCoordinatorProofs
-----------------------------------------------------------------------------
(* An attempt is executed once.                                            *)

Unstarted == {"absent", "manual", "scheduled", "pending"}

\* The inductive strengthening of PendingIsFresh: tokens in hand were issued,
\* and no job of a pipeline that does not exist yet was ever handed out.
FreshInv ==
    /\ TypeOK
    /\ \A j \in Job : db.status[j] \in Unstarted => <<j, db.token[j]>> \notin handed
    /\ \A a \in handed : a[2] <= issued[a[1]] /\ db.verdict[Pipe(a[1])] # "absent"

\* The effect v of a handler that read s puts a job back into the queue only
\* with a new token, unless it read the row under the lock it writes with.
QueuesFresh(s, v) ==
    \A j \in Job :
        \/ v.token[j] = NewToken
        \/ v.status[j] = s.status[j]
        \/ v.status[j] \notin Unstarted
        \/ s = db /\ s.status[j] \in Unstarted

\* No handler makes the pipeline of a job disappear.
KeepsPipelines(s, v) ==
    \A p \in Pipeline : v.verdict[p] = s.verdict[p] \/ v.verdict[p] # "absent"

\* A commit never deletes a pipeline.
LEMMA PipelinesStay ==
    ASSUME TypeOK, NEW s \in DbState, NEW v \in DbState, NEW x,
           KeepsPipelines(s, v), Commit(s, v) \/ CommitDerived(s, v, x)
    PROVE  \A p \in Pipeline : db.verdict[p] # "absent" => db'.verdict[p] # "absent"
  <1>1. CASE Commit(s, v)
    <2>1. db'.verdict = Written(s.verdict, v.verdict, db.verdict)
      BY <1>1 DEF Commit, Flushed
    <2> QED BY <2>1 DEF Written, KeepsPipelines, TypeOK, DbState
  <1>2. CASE CommitDerived(s, v, x)
    <2>1. PICK peers \in {Flushed(s, v), v} :
            LET seen == Concluded([peers EXCEPT !.verdict = v.verdict,
                                                !.finished = v.finished], {x})
            IN  db' = [Flushed(s, v) EXCEPT
                          !.verdict = Written(s.verdict, seen.verdict, db.verdict),
                          !.finished = Written(s.finished, seen.finished, db.finished)]
      BY <1>2 DEF CommitDerived
    <2> DEFINE rows == [peers EXCEPT !.verdict = v.verdict, !.finished = v.finished]
               seen == Concluded(rows, {x})
    <2>2. peers \in DbState
      BY FlushedType
    <2>3. rows.verdict = v.verdict
      BY <2>2 DEF DbState
    <2>4. \A p \in Pipeline : DerivedVerdict(rows, p) # "absent"
      BY DEF DerivedVerdict
    <2> HIDE DEF rows
    <2>5. \A p \in Pipeline : seen.verdict[p] = v.verdict[p] \/ seen.verdict[p] # "absent"
      BY <2>3, <2>4 DEF Concluded
    <2> HIDE DEF seen
    <2>6. db'.verdict = Written(s.verdict, seen.verdict, db.verdict)
      BY <2>1 DEF seen, rows, Flushed
    <2> QED BY <2>5, <2>6 DEF Written, KeepsPipelines, TypeOK, DbState
  <1> QED BY <1>1, <1>2

\* A handler that queues jobs with new tokens only keeps FreshInv.
LEMMA HandledFresh ==
    ASSUME FreshInv, NEW q, NEW s, NEW v \in DbState, NEW x, Handled(q, s, v, x),
           QueuesFresh(s, v), KeepsPipelines(s, v), TypeOK'
    PROVE  FreshInv'
  <1>1. s \in DbState
    BY SnapshotType DEF Handled, FreshInv
  <1>2. StoresJobs(s, v)
    BY <1>1, CommitType DEF Handled, FreshInv
  <1>3. handed' = handed
    BY DEF Handled, Serve, runnerVars
  <1>4. \A p \in Pipeline : db.verdict[p] # "absent" => db'.verdict[p] # "absent"
    BY <1>1, PipelinesStay DEF Handled, FreshInv
  <1>5. ASSUME NEW a \in handed'
        PROVE  a[2] <= issued'[a[1]] /\ db'.verdict[Pipe(a[1])] # "absent"
    <2>1. a[1] \in Job /\ a[2] \in Nat \ {0} /\ Pipe(a[1]) \in Pipeline
      BY <1>3, PipeType DEF FreshInv, TypeOK, Attempt
    <2>2. a[2] <= issued[a[1]] /\ db.verdict[Pipe(a[1])] # "absent"
      BY <1>3 DEF FreshInv
    <2>3. issued[a[1]] \in Nat /\ issued'[a[1]] \in {issued[a[1]], issued[a[1]] + 1}
      BY <1>2, <2>1 DEF StoresJobs, IssueTokens, FreshInv, TypeOK
    <2>4. a[2] <= issued'[a[1]]
      BY <2>1, <2>2, <2>3
    <2> QED BY <2>1, <2>2, <2>4, <1>4
  <1>6. ASSUME NEW j \in Job, db'.status[j] \in Unstarted
        PROVE  <<j, db'.token[j]>> \notin handed'
    <2>1. CASE v.token[j] = NewToken
      <3>1. db'.token[j] = issued[j] + 1
        BY <1>2, <2>1 DEF StoresJobs, Flushed
      <3>2. \A a \in handed : a[1] = j => a[2] # issued[j] + 1
        <4>1. \A a \in handed : a[2] \in Nat /\ a[2] <= issued[a[1]]
          BY DEF FreshInv, TypeOK, Attempt
        <4>2. issued[j] \in Nat
          BY DEF FreshInv, TypeOK
        <4> QED BY <4>1, <4>2
      <3> QED BY <3>1, <3>2, <1>3
    <2>2. CASE v.token[j] # NewToken
      <3>1. db'.token[j] = db.token[j]
        BY <1>2, <2>2 DEF StoresJobs, Flushed
      <3>2. db'.status[j] = IF v.status[j] # s.status[j] THEN v.status[j] ELSE db.status[j]
        BY <1>2 DEF StoresJobs, Written, FreshInv, TypeOK, DbState
      <3>3. db.status[j] \in Unstarted
        BY <3>2, <1>6, <2>2 DEF QueuesFresh
      <3> QED BY <3>1, <3>3, <1>3 DEF FreshInv
    <2> QED BY <2>1, <2>2
  <1> QED BY <1>5, <1>6 DEF FreshInv
-----------------------------------------------------------------------------
(* The effects queue jobs only with new tokens.                            *)

\* A retry and a requeue queue a job with a new token.
LEMMA ResetQueuesFresh ==
    ASSUME NEW s \in DbState, NEW J, NEW j \in Job
    PROVE  /\ QueuesFresh(s, ResetForRetry(s, J)) /\ KeepsPipelines(s, ResetForRetry(s, J))
           /\ QueuesFresh(s, Requeued(s, j)) /\ KeepsPipelines(s, Requeued(s, j))
  <1>1. QueuesFresh(s, ResetForRetry(s, J)) /\ KeepsPipelines(s, ResetForRetry(s, J))
    BY DEF ResetForRetry, QueuesFresh, KeepsPipelines, DbState, NewToken
  <1>2. QueuesFresh(s, Requeued(s, j)) /\ KeepsPipelines(s, Requeued(s, j))
    BY DEF Requeued, WithStatus, ResetForRetry, QueuesFresh, KeepsPipelines, DbState, NewToken
  <1> QED BY <1>1, <1>2

\* Canceling queues nothing.
LEMMA CanceledQueuesFresh ==
    ASSUME NEW s \in DbState, NEW J
    PROVE  QueuesFresh(s, Canceled(s, J)) /\ KeepsPipelines(s, Canceled(s, J))
  BY DEF Canceled, WithStatus, QueuesFresh, KeepsPipelines, Unstarted, DbState

\* A report queues a job only as an automatic retry, with a new token.
LEMMA ReportedQueuesFresh ==
    ASSUME NEW s \in DbState, NEW m \in Report
    PROVE  QueuesFresh(s, Reported(s, m)) /\ KeepsPipelines(s, Reported(s, m))
  <1> DEFINE p == Pipe(m.job)
             Skipped == SkipOnFailureJobs(WithStatus(s, {m.job}, m.state), p)
             Stored == [Skipped EXCEPT !.exit = [Skipped.exit EXCEPT ![m.job] = m.exit]]
  <1>1. m.job \in Job /\ m.state \notin Unstarted /\ m.state \in Status
    BY DEF Report, Unstarted, Status
  <1>2. /\ Skipped \in DbState /\ Stored \in DbState
        /\ Stored.token = s.token /\ Stored.verdict = s.verdict
        /\ \A j \in Job : Stored.status[j] = s.status[j] \/ Stored.status[j] \notin Unstarted
    <2>1. WithStatus(s, {m.job}, m.state) \in DbState
      BY <1>1, WithStatusType
    <2>2. Skipped \in DbState
      BY <2>1, SkipType
    <2>3. Stored \in DbState
      BY <2>2 DEF DbState, Report
    <2>4. /\ Skipped.token = s.token /\ Skipped.verdict = s.verdict
          /\ \A j \in Job : Skipped.status[j] = s.status[j] \/ Skipped.status[j] \notin Unstarted
      BY <1>1 DEF SkipOnFailureJobs, WithStatus, DbState, Unstarted
    <2> HIDE DEF Skipped
    <2> QED BY <2>2, <2>3, <2>4 DEF DbState
  <1> HIDE DEF Stored
  <1>3. /\ QueuesFresh(s, Stored) /\ KeepsPipelines(s, Stored)
    BY <1>2 DEF QueuesFresh, KeepsPipelines
  <1>4. QueuesFresh(s, AutoRetried(Stored, m.job)) /\ KeepsPipelines(s, AutoRetried(Stored, m.job))
    BY <1>1, <1>2 DEF AutoRetried, ResetForRetry, QueuesFresh, KeepsPipelines, DbState, NewToken
  <1>5. /\ QueuesFresh(s, SkipJobsAfterFailedStage(Stored, p))
        /\ KeepsPipelines(s, SkipJobsAfterFailedStage(Stored, p))
    BY <1>2 DEF SkipJobsAfterFailedStage, WithStatus, QueuesFresh, KeepsPipelines, DbState, Unstarted
  <1> QED BY <1>3, <1>4, <1>5 DEF Reported, Stored

\* A promotion queues scheduled jobs, whose tokens no poll handed out.
LEMMA PromotedQueuesFresh ==
    ASSUME NEW s \in DbState, s = db
    PROVE  QueuesFresh(s, Promoted(s)) /\ KeepsPipelines(s, Promoted(s))
  BY DEF Promoted, WithStatus, QueuesFresh, KeepsPipelines, DbState, Unstarted

\* Every handler keeps FreshInv if play and promote are not interrupted.
LEMMA FreshHandle ==
    ASSUME FreshInv, Handle, {"play", "promote"} \cap Split = {}
    PROVE  FreshInv'
  <1>0. TypeOK'
    BY HandleType DEF FreshInv
  <1>t. TypeOK
    BY DEF FreshInv
  <1>1. ASSUME NEW j \in Job, PlayJob(j)
        PROVE  FreshInv'
    <2>1. PICK s \in Snapshots(<<"play", j>>) :
            Handled(<<"play", j>>, s, Played(s, j), Pipe(j))
      BY <1>1 DEF PlayJob, Handled
    <2>2. s = db /\ s.status[j] = "manual" /\ s \in DbState
      BY <2>1, <1>t DEF Snapshots, Handled, Serve, Accepts, JobOps, PipelineOps, TypeOK
    <2>3. QueuesFresh(s, Played(s, j)) /\ KeepsPipelines(s, Played(s, j))
      BY <2>2 DEF Played, WithStatus, QueuesFresh, KeepsPipelines, DbState, Unstarted
    <2> QED BY <2>1, <2>2, <2>3, <1>0, EffectTypes, HandledFresh
  <1>2. ASSUME NEW j \in Job, CancelJob(j)
        PROVE  FreshInv'
    <2>1. PICK s \in Snapshots(<<"cancel", j>>) :
            Handled(<<"cancel", j>>, s, Canceled(s, {j}), Pipe(j))
      BY <1>2 DEF CancelJob, Handled
    <2> QED BY <2>1, <1>0, <1>t, SnapshotType, EffectTypes, CanceledQueuesFresh, HandledFresh
  <1>3. ASSUME NEW j \in Job, RetryJob(j)
        PROVE  FreshInv'
    <2>1. PICK s \in Snapshots(<<"retry", j>>) :
            Handled(<<"retry", j>>, s, ResetForRetry(s, {j} \cap Retryable(s)), Pipe(j))
      BY <1>3 DEF RetryJob, Handled
    <2> QED BY <2>1, <1>0, <1>t, SnapshotType, ResetType, ResetQueuesFresh, HandledFresh
  <1>4. ASSUME NEW j \in Job, RequeueJob(j)
        PROVE  FreshInv'
    <2>1. PICK s \in Snapshots(<<"requeue", j>>) :
            Handled(<<"requeue", j>>, s, Requeued(s, j), Pipe(j))
      BY <1>4 DEF RequeueJob, Handled
    <2> QED BY <2>1, <1>0, <1>t, SnapshotType, EffectTypes, ResetQueuesFresh, HandledFresh
  <1>5. ASSUME NEW p \in Pipeline, CancelPipeline(p)
        PROVE  FreshInv'
    <2> DEFINE Effect(s) == [Canceled(s, JobsOf(p)) EXCEPT
                                !.verdict = [s.verdict EXCEPT ![p] = "canceled"],
                                !.finished = [s.finished EXCEPT ![p] = TRUE]]
    <2>1. PICK s \in Snapshots(<<"cancel_pipeline", p>>) :
            Handled(<<"cancel_pipeline", p>>, s, Effect(s), p)
      BY <1>5 DEF CancelPipeline, Handled
    <2>2. s \in DbState
      BY SnapshotType, <1>t
    <2>3. Canceled(s, JobsOf(p)) \in DbState
      BY <2>2, WithStatusType DEF Canceled, Status
    <2>4. Effect(s) \in DbState
      BY <2>2, <2>3 DEF DbState, Verdict
    <2>5. QueuesFresh(s, Effect(s)) /\ KeepsPipelines(s, Effect(s))
      BY <2>2, <2>3, CanceledQueuesFresh DEF QueuesFresh, KeepsPipelines, DbState
    <2> HIDE DEF Effect
    <2> QED BY <2>1, <2>4, <2>5, <1>0, HandledFresh
  <1>6. ASSUME NEW p \in Pipeline, RetryPipeline(p)
        PROVE  FreshInv'
    <2> DEFINE J(s) == {j \in JobsOf(p) \cap Retryable(s) : s.status[j] # "success"}
    <2>1. PICK s \in Snapshots(<<"retry_pipeline", p>>) :
            Handled(<<"retry_pipeline", p>>, s, ResetForRetry(s, J(s)), p)
      BY <1>6 DEF RetryPipeline, Handled
    <2>2. s \in DbState
      BY SnapshotType, <1>t
    <2>3. QueuesFresh(s, ResetForRetry(s, J(s))) /\ KeepsPipelines(s, ResetForRetry(s, J(s)))
      BY <2>2 DEF ResetForRetry, QueuesFresh, KeepsPipelines, DbState, NewToken
    <2>4. ResetForRetry(s, J(s)) \in DbState
      BY <2>2, ResetType
    <2> HIDE DEF J
    <2> QED BY <2>1, <2>3, <2>4, <1>0, HandledFresh
  <1>7. ASSUME NEW m \in Sendable \cup BeingServed, UpdateJob(m)
        PROVE  FreshInv'
    <2>1. m \in Report
      BY SendableType, <1>t
    <2>2. PICK s \in Snapshots(<<"update", m>>) :
            Handled(<<"update", m>>, s, Reported(s, m), Pipe(m.job))
      BY <1>7 DEF UpdateJob, Handled
    <2> QED BY <2>1, <2>2, <1>0, <1>t, SnapshotType, ReportedType, ReportedQueuesFresh, HandledFresh
  <1>8. CASE PromoteDelayed
    <2>1. PICK s \in Snapshots(<<"promote", "due">>) :
            Handled(<<"promote", "due">>, s, Promoted(s), {})
      BY <1>8 DEF PromoteDelayed, Handled
    <2>2. s = db /\ s \in DbState
      BY <1>t DEF Snapshots, TypeOK
    <2> QED BY <2>1, <2>2, <1>0, PromotedType, PromotedQueuesFresh, HandledFresh
  <1>9. ASSUME NEW p \in Pipeline, CancelPipelineInUi(p)
        PROVE  FreshInv'
    <2>1. PICK s \in Snapshots(<<"cancel_in_ui", p>>) :
            Handled(<<"cancel_in_ui", p>>, s, Canceled(s, JobsOf(p)), p)
      BY <1>9 DEF CancelPipelineInUi, Handled
    <2>2. s \in DbState
      BY SnapshotType, <1>t
    <2>3. Canceled(s, JobsOf(p)) \in DbState
      BY <2>2, WithStatusType DEF Canceled, Status
    <2> QED BY <2>1, <2>2, <2>3, <1>0, CanceledQueuesFresh, HandledFresh
  <1> QED BY <1>1, <1>2, <1>3, <1>4, <1>5, <1>6, <1>7, <1>8, <1>9 DEF Handle

\* The poll hands out the token of a pending job and makes it running.
LEMMA FreshRequestJob ==
    ASSUME FreshInv, NEW r \in Runner, RequestJob(r)
    PROVE  FreshInv'
  <1> DEFINE s == Promoted(db)
  <1>0. TypeOK /\ TypeOK' /\ UNCHANGED issued
    BY RequestJobType DEF FreshInv, RequestJob
  <1>1. /\ s \in DbState /\ s.token = db.token
        /\ \A j \in Job : s.status[j] \in Unstarted => db.status[j] \in Unstarted
        /\ \A p \in Pipeline : s.verdict[p] = "absent" => db.verdict[p] = "absent"
    <2>1. /\ s.token = db.token
          /\ \A j \in Job : s.status[j] \in Unstarted => db.status[j] \in Unstarted
          /\ \A p \in Pipeline : s.verdict[p] = "absent" => db.verdict[p] = "absent"
      BY <1>0 DEF Promoted, WithStatus, TypeOK, DbState, Unstarted
    <2> QED BY <2>1, <1>0, PromotedType DEF TypeOK
  <1> HIDE DEF s
  <1>2. ASSUME NEW j \in Runnable(s, r),
               db' = [WithStatus(s, {j}, "running") EXCEPT
                         !.verdict = [s.verdict EXCEPT ![Pipe(j)] = "running"]],
               handed' = handed \cup {<<j, s.token[j]>>}
        PROVE  FreshInv'
    <2>1. j \in Job /\ Pipe(j) \in Pipeline
      BY EligibleIsTyped, PipeType DEF Runnable
    <2>2. /\ db'.token = db.token
          /\ \A k \in Job : db'.status[k] = IF k = j THEN "running" ELSE s.status[k]
          /\ \A p \in Pipeline : db'.verdict[p] = IF p = Pipe(j) THEN "running" ELSE s.verdict[p]
      BY <1>1, <1>2, <2>1 DEF WithStatus, DbState
    <2>3. ASSUME NEW k \in Job, db'.status[k] \in Unstarted
          PROVE  <<k, db'.token[k]>> \notin handed'
      <3>1. k # j
        BY <2>2, <2>3 DEF Unstarted
      <3>2. <<k, db.token[k]>> \notin handed
        BY <1>1, <2>2, <2>3, <3>1 DEF FreshInv
      <3> QED BY <1>2, <2>2, <3>1, <3>2
    <2>4. ASSUME NEW a \in handed'
          PROVE  a[2] <= issued'[a[1]] /\ db'.verdict[Pipe(a[1])] # "absent"
      <3>1. CASE a \in handed
        <4>1. a[1] \in Job /\ Pipe(a[1]) \in Pipeline
          BY <3>1, PipeType, <1>0 DEF TypeOK, Attempt
        <4> QED BY <3>1, <4>1, <1>0, <1>1, <2>2 DEF FreshInv
      <3>2. CASE a = <<j, db.token[j]>>
        <4>1. db.token[j] \in 1 .. issued[j] /\ issued[j] \in Nat
          BY <2>1, <1>0 DEF TypeOK
        <4> QED BY <3>2, <4>1, <2>1, <2>2, <1>0
      <3> QED BY <2>4, <3>1, <3>2, <1>1, <1>2
    <2> QED BY <1>0, <2>3, <2>4 DEF FreshInv
  <1>3. CASE db' = s /\ UNCHANGED handed
    <2>1. ASSUME NEW a \in handed
          PROVE  db'.verdict[Pipe(a[1])] # "absent"
      <3>1. a[1] \in Job /\ Pipe(a[1]) \in Pipeline
        BY PipeType, <1>0 DEF TypeOK, Attempt
      <3> QED BY <3>1, <1>1, <1>3 DEF FreshInv
    <2> QED BY <2>1, <1>0, <1>1, <1>3 DEF FreshInv
  <1> QED BY <1>2, <1>3 DEF RequestJob, s

\* The jobs of a new pipeline were never handed out.
LEMMA FreshCreatePipeline ==
    ASSUME FreshInv, NEW p \in Pipeline, CreatePipeline(p)
    PROVE  FreshInv'
  <1> DEFINE Old == {o \in Pipeline : Ref[o] = Ref[p] /\ db.verdict[o] # "absent"}
             Victims == {j \in Cancelable(db) : Pipe(j) \in Old /\ Def[j].interruptible}
             I == Concluded(Canceled(db, Victims), {Pipe(j) : j \in Victims})
             F(j) == CASE Def[j].when = "manual" -> "manual"
                       [] Def[j].when = "delayed" -> "scheduled"
                       [] OTHER -> "pending"
  <1>0. TypeOK /\ TypeOK' /\ UNCHANGED <<issued, handed>> /\ db.verdict[p] = "absent"
    BY CreatePipelineType DEF FreshInv, CreatePipeline, runnerVars
  <1>1. /\ I \in DbState
        /\ I.token = db.token
        /\ \A j \in Job : I.status[j] = db.status[j] \/ I.status[j] = "canceled"
        /\ \A o \in Pipeline : I.verdict[o] = "absent" => db.verdict[o] = "absent"
    <2>1. I \in DbState
      BY <1>0, WithStatusType, ConcludedType DEF Canceled, Status, TypeOK
    <2>2. \A o \in Pipeline : DerivedVerdict(Canceled(db, Victims), o) # "absent"
      BY DEF DerivedVerdict
    <2>3. \A o \in Pipeline : I.verdict[o] = "absent" => db.verdict[o] = "absent"
      BY <2>2, <1>0 DEF Concluded, Canceled, WithStatus, TypeOK, DbState
    <2>4. /\ I.token = db.token
          /\ \A j \in Job : I.status[j] = db.status[j] \/ I.status[j] = "canceled"
      BY <1>0 DEF Concluded, Canceled, WithStatus, TypeOK, DbState
    <2> QED BY <2>1, <2>3, <2>4
  <1>2. db' = [I EXCEPT !.status = [j \in Job |-> IF j \in JobsOf(p) THEN F(j)
                                                  ELSE I.status[j]],
                        !.verdict = [I.verdict EXCEPT ![p] = "pending"]]
    BY DEF CreatePipeline
  <1> HIDE DEF I, F
  <1>3. /\ db'.token = db.token
        /\ \A j \in Job \ JobsOf(p) : db'.status[j] = I.status[j]
        /\ \A o \in Pipeline : db'.verdict[o] = IF o = p THEN "pending" ELSE I.verdict[o]
    BY <1>1, <1>2 DEF DbState
  <1>4. ASSUME NEW j \in Job, db'.status[j] \in Unstarted
        PROVE  <<j, db'.token[j]>> \notin handed
    <2>1. CASE j \in JobsOf(p)
      BY <2>1, <1>0 DEF JobsOf, FreshInv
    <2>2. CASE j \notin JobsOf(p)
      BY <2>2, <1>1, <1>3, <1>4 DEF FreshInv, Unstarted
    <2> QED BY <2>1, <2>2
  <1>5. ASSUME NEW a \in handed
        PROVE  db'.verdict[Pipe(a[1])] # "absent"
    <2>1. Pipe(a[1]) \in Pipeline
      BY PipeType, <1>0 DEF TypeOK, Attempt
    <2> QED BY <2>1, <1>1, <1>3 DEF FreshInv
  <1>6. \A a \in handed : a[2] <= issued'[a[1]]
    BY <1>0 DEF FreshInv
  <1> QED BY <1>0, <1>4, <1>5, <1>6 DEF FreshInv

\* No token was handed out before the first pipeline.
LEMMA FreshInit == Init => FreshInv
  BY InitType DEF Init, FreshInv

\* Every step keeps FreshInv if play and promote are not interrupted.
LEMMA FreshNext ==
    ASSUME {"play", "promote"} \cap Split = {}, FreshInv, [Next]_vars
    PROVE  FreshInv'
  <1>0. TypeOK'
    BY NextType DEF FreshInv
  <1>1. CASE Handle
    BY <1>1, FreshHandle
  <1>2. ASSUME NEW r \in Runner, RequestJob(r)
        PROVE  FreshInv'
    BY <1>2, FreshRequestJob
  <1>3. ASSUME NEW p \in Pipeline, CreatePipeline(p)
        PROVE  FreshInv'
    BY <1>3, FreshCreatePipeline
  <1>4. ASSUME NEW j \in Job, Elapse(j)
        PROVE  FreshInv'
    BY <1>0, <1>4 DEF Elapse, FreshInv, TypeOK, DbState, runnerVars
  <1>5. CASE UNCHANGED <<db, issued, handed>>
    BY <1>0, <1>5 DEF FreshInv
  <1> QED BY <1>1, <1>2, <1>3, <1>4, <1>5 DEF Next, vars, Read, Drop, Finish, runnerVars

\* An attempt is executed once: if the handlers that queue a job under its old
\* token (play_project_job and the schedule worker's promotion) are not
\* interrupted between their read and their write, then no poll hands out a
\* token twice, however all other handlers interleave and whatever answers,
\* reports and requests are lost or repeated.
THEOREM AttemptsAreFenced ==
    ASSUME {"play", "promote"} \cap Split = {}
    PROVE  Spec => []PendingIsFresh
  <1>1. FreshInv => PendingIsFresh
    BY DEF FreshInv, PendingIsFresh, Unstarted
  <1>2. FreshInv /\ [Next]_vars => FreshInv'
    BY FreshNext
  <1> QED BY <1>1, <1>2, FreshInit, PTL DEF Spec
-----------------------------------------------------------------------------
(* Running jobs are held by their token and results are reported under it. *)

Active == {"running", "success", "failed"}

\* Inductive: what is told was held, and what is held was handed out.
EarnedInv ==
    /\ TypeOK
    /\ RunningIsHanded
    /\ ResultsAreEarned
    /\ \A m \in told : <<m.job, m.token>> \in handed

\* The effect v of a handler that read s makes no job active and, where it
\* gives a new token, takes the job out of the active statuses for certain.
NeverActivates(s, v) ==
    \A j \in Job :
        /\ v.status[j] = s.status[j] \/ v.status[j] \notin Active
        /\ v.token[j] = NewToken =>
              v.status[j] \notin Active /\ (v.status[j] # s.status[j] \/ s = db)

\* A handler that makes no job active leaves the evidence as it is.
LEMMA HandledEarned ==
    ASSUME EarnedInv, NEW q, NEW s, NEW v \in DbState, NEW x, Handled(q, s, v, x),
           NeverActivates(s, v), TypeOK'
    PROVE  EarnedInv'
  <1>1. s \in DbState
    BY SnapshotType DEF Handled, EarnedInv
  <1>2. StoresJobs(s, v)
    BY <1>1, CommitType DEF Handled, EarnedInv
  <1>3. handed' = handed /\ told' = told
    BY DEF Handled, Serve, runnerVars
  <1>4. ASSUME NEW j \in Job, db'.status[j] \in Active
        PROVE  db'.status[j] = db.status[j] /\ db'.token[j] = db.token[j]
    <2>1. db'.status[j] = IF v.status[j] # s.status[j] THEN v.status[j] ELSE db.status[j]
      BY <1>2 DEF StoresJobs, Written, EarnedInv, TypeOK, DbState
    <2>2. v.status[j] = s.status[j] /\ db'.status[j] = db.status[j]
      BY <2>1, <1>4 DEF NeverActivates
    <2>3. v.token[j] # NewToken
      BY <2>2, <1>4 DEF NeverActivates
    <2>4. db'.token[j] = db.token[j]
      BY <1>2, <2>3 DEF StoresJobs, Flushed
    <2> QED BY <2>2, <2>4
  <1>5. RunningIsHanded'
    BY <1>3, <1>4 DEF EarnedInv, RunningIsHanded, Active
  <1>6. ResultsAreEarned'
    BY <1>3, <1>4 DEF EarnedInv, ResultsAreEarned, Active
  <1> QED BY <1>3, <1>5, <1>6 DEF EarnedInv

\* A report makes at most its own job active, in the state it reports.
LEMMA ReportActivates ==
    ASSUME NEW s \in DbState, NEW m \in Report, NEW j \in Job,
           Reported(s, m).status[j] \in Active, s.token[j] # NewToken
    PROVE  /\ Reported(s, m).token[j] # NewToken
           /\ \/ Reported(s, m).status[j] = s.status[j] /\ j # m.job
              \/ Reported(s, m).status[j] = m.state /\ j = m.job
  <1> DEFINE p == Pipe(m.job)
             Skipped == SkipOnFailureJobs(WithStatus(s, {m.job}, m.state), p)
             Stored == [Skipped EXCEPT !.exit = [Skipped.exit EXCEPT ![m.job] = m.exit]]
             Mine(v) == /\ v.token[j] # NewToken
                        /\ v.status[j] \in Active =>
                              v.status[j] = IF j = m.job THEN m.state ELSE s.status[j]
  <1>1. m.job \in Job /\ m.state \in Status
    BY DEF Report, Status
  <1>2. Stored \in DbState /\ Mine(Stored)
    <2>1. WithStatus(s, {m.job}, m.state) \in DbState
      BY <1>1, WithStatusType
    <2>2. Skipped \in DbState
      BY <2>1, SkipType
    <2>3. Stored \in DbState
      BY <2>2 DEF DbState, Report
    <2>4. Mine(Skipped)
      BY DEF SkipOnFailureJobs, WithStatus, DbState, Active
    <2> HIDE DEF Skipped
    <2> QED BY <2>2, <2>3, <2>4 DEF DbState
  <1> HIDE DEF Stored
  <1>3. Mine(SkipJobsAfterFailedStage(Stored, p))
    BY <1>2 DEF SkipJobsAfterFailedStage, WithStatus, DbState, Active
  <1>4. AutoRetried(Stored, m.job).status[j] \in Active => Mine(AutoRetried(Stored, m.job))
    BY <1>1, <1>2 DEF AutoRetried, ResetForRetry, DbState, NewToken, Active
  <1>5. Mine(Reported(s, m))
    BY <1>2, <1>3, <1>4 DEF Reported, Stored
  <1> QED BY <1>5

\* A report read and stored in one step is the evidence for what it stores.
LEMMA UpdateEarned ==
    ASSUME EarnedInv, NEW m \in Sendable \cup BeingServed, UpdateJob(m),
           "update" \notin Split, TypeOK'
    PROVE  EarnedInv'
  <1> DEFINE v == Reported(db, m)
  <1>1. TypeOK /\ db \in DbState /\ m \in Report
    BY SendableType DEF EarnedInv, TypeOK
  <1>2. /\ m \in Sendable
        /\ Accepts(db, <<"update", m>>)
        /\ Serve(<<"update", m>>, db)
        /\ CommitDerived(db, v, Pipe(m.job))
    BY DEF UpdateJob, Snapshots, Serve
  <1>3. v \in DbState /\ StoresJobs(db, v)
    BY <1>1, <1>2, ReportedType, CommitType
  <1>4. db.token[m.job] = m.token /\ m.job \in Job
    BY <1>1, <1>2 DEF Accepts, JobOps, PipelineOps, Report
  <1>5. handed' = handed /\ told' = told
    BY <1>2 DEF Serve, runnerVars
  <1>6. <<m.job, m.token>> \in handed /\ (m \in told \/ m.state = "running")
    <2>1. CASE m \in told
      BY <2>1 DEF EarnedInv
    <2>2. ASSUME NEW b \in held, m = Keepalive(b)
          PROVE  <<m.job, m.token>> \in handed /\ m.state = "running"
      BY <2>2, <1>1 DEF Keepalive, TypeOK, Attempt
    <2> QED BY <1>2, <2>1, <2>2 DEF Sendable
  <1> HIDE DEF v
  <1>7. ASSUME NEW j \in Job, db'.status[j] \in Active
        PROVE  /\ db'.token[j] = db.token[j]
               /\ \/ db'.status[j] = db.status[j] /\ j # m.job
                  \/ db'.status[j] = m.state /\ j = m.job
    <2>1. db'.status[j] = v.status[j]
      BY <1>1, <1>3 DEF StoresJobs, Written, DbState
    <2>2. db.token[j] # NewToken
      BY <1>1 DEF TypeOK, NewToken
    <2>3. /\ v.token[j] # NewToken
          /\ \/ v.status[j] = db.status[j] /\ j # m.job
             \/ v.status[j] = m.state /\ j = m.job
      BY <1>1, <1>7, <2>1, <2>2, ReportActivates DEF v
    <2>4. db'.token[j] = db.token[j]
      BY <1>3, <2>3 DEF StoresJobs, Flushed
    <2> QED BY <2>1, <2>3, <2>4
  <1>8. RunningIsHanded'
    BY <1>4, <1>5, <1>6, <1>7 DEF EarnedInv, RunningIsHanded, Active
  <1>9. ASSUME NEW j \in Job, db'.status[j] \in {"success", "failed"}
        PROVE  \E n \in told' : /\ n.job = j
                                /\ n.token = db'.token[j]
                                /\ n.state = db'.status[j]
    <2>1. db'.token[j] = db.token[j] /\ db'.status[j] \in Active
      BY <1>7, <1>9 DEF Active
    <2>2. CASE j # m.job
      BY <1>5, <1>7, <1>9, <2>1, <2>2 DEF EarnedInv, ResultsAreEarned
    <2>3. CASE j = m.job
      <3>1. db'.status[j] = m.state
        BY <1>7, <2>1, <2>3
      <3>2. m \in told
        BY <1>6, <1>9, <3>1
      <3> QED BY <1>4, <1>5, <2>1, <2>3, <3>1, <3>2
    <2> QED BY <2>2, <2>3
  <1> QED BY <1>5, <1>8, <1>9 DEF EarnedInv, ResultsAreEarned

\* The effects of the handlers that report nothing.
LEMMA EffectsNeverActivate ==
    ASSUME NEW s \in DbState, \A i \in Job : s.token[i] # NewToken, NEW j \in Job, NEW J
    PROVE  /\ NeverActivates(s, Played(s, j))
           /\ NeverActivates(s, Canceled(s, J))
           /\ NeverActivates(s, ResetForRetry(s, J \cap Retryable(s)))
           /\ s = db => NeverActivates(s, Requeued(s, j))
           /\ NeverActivates(s, Promoted(s))
  <1>1. NeverActivates(s, Played(s, j))
    BY DEF Played, WithStatus, NeverActivates, Active, DbState
  <1>2. NeverActivates(s, Canceled(s, J))
    BY DEF Canceled, WithStatus, NeverActivates, Active, DbState
  <1>3. NeverActivates(s, ResetForRetry(s, J \cap Retryable(s)))
    BY DEF ResetForRetry, Retryable, NeverActivates, Active, DbState
  <1>4. s = db => NeverActivates(s, Requeued(s, j))
    BY DEF Requeued, WithStatus, ResetForRetry, NeverActivates, Active, DbState
  <1>5. NeverActivates(s, Promoted(s))
    BY DEF Promoted, WithStatus, NeverActivates, Active, DbState
  <1> QED BY <1>1, <1>2, <1>3, <1>4, <1>5

\* The rows of a snapshot carry stored tokens.
SnapshotsAreStored ==
    \A c \in Slot : call[c] # Idle => \A j \in Job : call[c].snap.token[j] # NewToken

\* Every handler keeps the evidence if update and requeue are not interrupted.
LEMMA EarnedHandle ==
    ASSUME EarnedInv, SnapshotsAreStored, Handle, {"update", "requeue"} \cap Split = {}
    PROVE  EarnedInv'
  <1>0. TypeOK /\ TypeOK'
    BY HandleType DEF EarnedInv
  <1>s. ASSUME NEW q, NEW s \in Snapshots(q)
        PROVE  s \in DbState /\ \A i \in Job : s.token[i] # NewToken
    BY <1>0, SnapshotType DEF Snapshots, SnapshotsAreStored, TypeOK, NewToken
  <1>1. ASSUME NEW j \in Job, PlayJob(j)
        PROVE  EarnedInv'
    <2>1. PICK s \in Snapshots(<<"play", j>>) :
            Handled(<<"play", j>>, s, Played(s, j), Pipe(j))
      BY <1>1 DEF PlayJob, Handled
    <2> QED BY <2>1, <1>0, <1>s, EffectTypes, EffectsNeverActivate, HandledEarned
  <1>2. ASSUME NEW j \in Job, CancelJob(j)
        PROVE  EarnedInv'
    <2>1. PICK s \in Snapshots(<<"cancel", j>>) :
            Handled(<<"cancel", j>>, s, Canceled(s, {j}), Pipe(j))
      BY <1>2 DEF CancelJob, Handled
    <2> QED BY <2>1, <1>0, <1>s, EffectTypes, EffectsNeverActivate, HandledEarned
  <1>3. ASSUME NEW j \in Job, RetryJob(j)
        PROVE  EarnedInv'
    <2>1. PICK s \in Snapshots(<<"retry", j>>) :
            Handled(<<"retry", j>>, s, ResetForRetry(s, {j} \cap Retryable(s)), Pipe(j))
      BY <1>3 DEF RetryJob, Handled
    <2> QED BY <2>1, <1>0, <1>s, ResetType, EffectsNeverActivate, HandledEarned
  <1>4. ASSUME NEW j \in Job, RequeueJob(j)
        PROVE  EarnedInv'
    <2>1. PICK s \in Snapshots(<<"requeue", j>>) :
            Handled(<<"requeue", j>>, s, Requeued(s, j), Pipe(j))
      BY <1>4 DEF RequeueJob, Handled
    <2>2. s = db
      BY DEF Snapshots
    <2> QED BY <2>1, <2>2, <1>0, <1>s, EffectTypes, EffectsNeverActivate, HandledEarned
  <1>5. ASSUME NEW p \in Pipeline, CancelPipeline(p)
        PROVE  EarnedInv'
    <2> DEFINE Effect(s) == [Canceled(s, JobsOf(p)) EXCEPT
                                !.verdict = [s.verdict EXCEPT ![p] = "canceled"],
                                !.finished = [s.finished EXCEPT ![p] = TRUE]]
    <2>1. PICK s \in Snapshots(<<"cancel_pipeline", p>>) :
            Handled(<<"cancel_pipeline", p>>, s, Effect(s), p)
      BY <1>5 DEF CancelPipeline, Handled
    <2>2. s \in DbState /\ \A i \in Job : s.token[i] # NewToken
      BY <1>s
    <2>3. Canceled(s, JobsOf(p)) \in DbState
      BY <2>2, WithStatusType DEF Canceled, Status
    <2>4. Effect(s) \in DbState
      BY <2>2, <2>3 DEF DbState, Verdict
    <2>5. NeverActivates(s, Effect(s))
      BY <2>2 DEF Canceled, WithStatus, NeverActivates, Active, DbState
    <2> HIDE DEF Effect
    <2> QED BY <2>1, <2>4, <2>5, <1>0, HandledEarned
  <1>6. ASSUME NEW p \in Pipeline, RetryPipeline(p)
        PROVE  EarnedInv'
    <2> DEFINE J(s) == {j \in JobsOf(p) \cap Retryable(s) : s.status[j] # "success"}
    <2>1. PICK s \in Snapshots(<<"retry_pipeline", p>>) :
            Handled(<<"retry_pipeline", p>>, s, ResetForRetry(s, J(s)), p)
      BY <1>6 DEF RetryPipeline, Handled
    <2>2. s \in DbState /\ \A i \in Job : s.token[i] # NewToken
      BY <1>s
    <2>3. NeverActivates(s, ResetForRetry(s, J(s)))
      BY <2>2 DEF ResetForRetry, Retryable, NeverActivates, Active, DbState
    <2>4. ResetForRetry(s, J(s)) \in DbState
      BY <2>2, ResetType
    <2> HIDE DEF J
    <2> QED BY <2>1, <2>3, <2>4, <1>0, HandledEarned
  <1>7. ASSUME NEW m \in Sendable \cup BeingServed, UpdateJob(m)
        PROVE  EarnedInv'
    BY <1>0, <1>7, UpdateEarned
  <1>8. CASE PromoteDelayed
    <2>1. PICK s \in Snapshots(<<"promote", "due">>) :
            Handled(<<"promote", "due">>, s, Promoted(s), {})
      BY <1>8 DEF PromoteDelayed, Handled
    <2>2. s \in DbState /\ \A i \in Job : s.token[i] # NewToken
      BY <1>s
    <2>3. NeverActivates(s, Promoted(s))
      BY <2>2 DEF Promoted, WithStatus, NeverActivates, Active, DbState
    <2> QED BY <2>1, <2>2, <2>3, <1>0, PromotedType, HandledEarned
  <1>9. ASSUME NEW p \in Pipeline, CancelPipelineInUi(p)
        PROVE  EarnedInv'
    <2>1. PICK s \in Snapshots(<<"cancel_in_ui", p>>) :
            Handled(<<"cancel_in_ui", p>>, s, Canceled(s, JobsOf(p)), p)
      BY <1>9 DEF CancelPipelineInUi, Handled
    <2>2. s \in DbState /\ \A i \in Job : s.token[i] # NewToken
      BY <1>s
    <2>3. Canceled(s, JobsOf(p)) \in DbState
      BY <2>2, WithStatusType DEF Canceled, Status
    <2>4. NeverActivates(s, Canceled(s, JobsOf(p)))
      BY <2>2 DEF Canceled, WithStatus, NeverActivates, Active, DbState
    <2> QED BY <2>1, <2>3, <2>4, <1>0, HandledEarned
  <1> QED BY <1>1, <1>2, <1>3, <1>4, <1>5, <1>6, <1>7, <1>8, <1>9 DEF Handle

\* A request in flight was there before the step, or has just read the rows.
LEMMA CallsHaveRead ==
    ASSUME TypeOK, [Next]_vars, NEW c \in Slot, call'[c] # Idle
    PROVE  call'[c] = call[c] \/ call'[c].snap = db
  <1>1. CASE Handle
    <2>1. PICK q, s : Answer(q, s)
      BY <1>1 DEF Handle, PlayJob, CancelJob, RetryJob, RequeueJob, CancelPipeline,
                  CancelPipelineInUi, RetryPipeline, UpdateJob, PromoteDelayed, Serve
    <2> QED BY <2>1 DEF Answer, TypeOK
  <1>2. ASSUME NEW d \in Slot, NEW q, Read(d, q)
        PROVE  call'[c] = call[c] \/ call'[c].snap = db
    BY <1>2 DEF Read, TypeOK
  <1>3. ASSUME NEW d \in Slot, Drop(d)
        PROVE  call'[c] = call[c]
    BY <1>3 DEF Drop, TypeOK
  <1> QED BY <1>1, <1>2, <1>3 DEF Next, vars, RequestJob, CreatePipeline, Finish, Elapse

\* No request in flight has read a token that is not stored.
LEMMA SnapshotsStayStored ==
    ASSUME TypeOK, SnapshotsAreStored, [Next]_vars
    PROVE  SnapshotsAreStored'
  <1>1. \A c \in Slot : call'[c] # Idle => call'[c] = call[c] \/ call'[c].snap = db
    BY CallsHaveRead
  <1>2. \A j \in Job : db.token[j] # NewToken
    BY DEF TypeOK, NewToken
  <1> QED BY <1>1, <1>2 DEF SnapshotsAreStored

\* The poll makes a job running and records that its token went out.
LEMMA EarnedRequestJob ==
    ASSUME EarnedInv, NEW r \in Runner, RequestJob(r)
    PROVE  EarnedInv'
  <1> DEFINE s == Promoted(db)
  <1>0. TypeOK /\ TypeOK' /\ told' = told
    BY RequestJobType DEF EarnedInv, RequestJob
  <1>1. /\ s \in DbState /\ s.token = db.token
        /\ \A j \in Job : s.status[j] \in Active => s.status[j] = db.status[j]
    BY <1>0, PromotedType DEF Promoted, WithStatus, TypeOK, DbState, Active
  <1> HIDE DEF s
  <1>2. ASSUME NEW j \in Runnable(s, r),
               db' = [WithStatus(s, {j}, "running") EXCEPT
                         !.verdict = [s.verdict EXCEPT ![Pipe(j)] = "running"]],
               handed' = handed \cup {<<j, s.token[j]>>}
        PROVE  EarnedInv'
    <2>1. /\ db'.token = db.token
          /\ \A k \in Job : db'.status[k] = IF k = j THEN "running" ELSE s.status[k]
      BY <1>1, <1>2 DEF WithStatus, DbState
    <2>2. RunningIsHanded'
      <3>1. ASSUME NEW k \in Job, db'.status[k] = "running", k # j
            PROVE  <<k, db.token[k]>> \in handed
        BY <2>1, <3>1, <1>1 DEF EarnedInv, RunningIsHanded, Active
      <3> QED BY <3>1, <1>1, <1>2, <2>1 DEF RunningIsHanded
    <2>3. ResultsAreEarned'
      BY <1>0, <1>1, <2>1 DEF EarnedInv, ResultsAreEarned, Active
    <2> QED BY <1>0, <1>2, <2>2, <2>3 DEF EarnedInv
  <1>3. CASE db' = s /\ UNCHANGED handed
    BY <1>0, <1>1, <1>3 DEF EarnedInv, RunningIsHanded, ResultsAreEarned, Active
  <1> QED BY <1>2, <1>3 DEF RequestJob, s

\* A new pipeline makes no job active.
LEMMA EarnedCreatePipeline ==
    ASSUME EarnedInv, NEW p \in Pipeline, CreatePipeline(p)
    PROVE  EarnedInv'
  <1> DEFINE Old == {o \in Pipeline : Ref[o] = Ref[p] /\ db.verdict[o] # "absent"}
             Victims == {j \in Cancelable(db) : Pipe(j) \in Old /\ Def[j].interruptible}
             I == Concluded(Canceled(db, Victims), {Pipe(j) : j \in Victims})
             F(j) == CASE Def[j].when = "manual" -> "manual"
                       [] Def[j].when = "delayed" -> "scheduled"
                       [] OTHER -> "pending"
  <1>0. TypeOK /\ TypeOK' /\ UNCHANGED <<handed, told>>
    BY CreatePipelineType DEF EarnedInv, CreatePipeline, runnerVars
  <1>1. /\ I \in DbState
        /\ I.token = db.token
        /\ \A j \in Job : I.status[j] = db.status[j] \/ I.status[j] = "canceled"
        /\ \A j \in Job : F(j) \notin Active
    <2>1. I \in DbState
      BY <1>0, WithStatusType, ConcludedType DEF Canceled, Status, TypeOK
    <2>2. /\ I.token = db.token
          /\ \A j \in Job : I.status[j] = db.status[j] \/ I.status[j] = "canceled"
      BY <1>0 DEF Concluded, Canceled, WithStatus, TypeOK, DbState
    <2>3. \A j \in Job : F(j) \notin Active
      BY DEF Active
    <2> QED BY <2>1, <2>2, <2>3
  <1>2. db' = [I EXCEPT !.status = [j \in Job |-> IF j \in JobsOf(p) THEN F(j)
                                                  ELSE I.status[j]],
                        !.verdict = [I.verdict EXCEPT ![p] = "pending"]]
    BY DEF CreatePipeline
  <1> HIDE DEF I, F
  <1>3. /\ db'.token = db.token
        /\ \A j \in Job : db'.status[j] \in Active => db'.status[j] = db.status[j]
    BY <1>1, <1>2 DEF DbState, Active
  <1> QED BY <1>0, <1>3 DEF EarnedInv, RunningIsHanded, ResultsAreEarned, Active

\* A runner reports on an attempt it holds.
LEMMA EarnedFinish ==
    ASSUME EarnedInv, NEW a \in held, NEW e \in Ending, Finish(a, e)
    PROVE  EarnedInv'
  <1>1. TypeOK' /\ TypeOK /\ a \in handed /\ a = <<a[1], a[2]>>
    BY FinishType DEF EarnedInv, TypeOK, Attempt
  <1>2. ASSUME NEW m \in told'
        PROVE  <<m.job, m.token>> \in handed
    BY <1>1, <1>2 DEF Finish, EarnedInv
  <1> QED BY <1>1, <1>2 DEF Finish, EarnedInv, RunningIsHanded, ResultsAreEarned

\* No job is active before the first pipeline.
LEMMA EarnedInit == Init => EarnedInv /\ SnapshotsAreStored
  BY InitType DEF Init, EarnedInv, RunningIsHanded, ResultsAreEarned, SnapshotsAreStored

\* Every step keeps the evidence if update and requeue are not interrupted.
LEMMA EarnedNext ==
    ASSUME {"update", "requeue"} \cap Split = {}, EarnedInv, SnapshotsAreStored, [Next]_vars
    PROVE  EarnedInv' /\ SnapshotsAreStored'
  <1>0. TypeOK' /\ SnapshotsAreStored'
    BY NextType, SnapshotsStayStored DEF EarnedInv
  <1>1. CASE Handle
    BY <1>0, <1>1, EarnedHandle
  <1>2. ASSUME NEW r \in Runner, RequestJob(r)
        PROVE  EarnedInv'
    BY <1>2, EarnedRequestJob
  <1>3. ASSUME NEW p \in Pipeline, CreatePipeline(p)
        PROVE  EarnedInv'
    BY <1>3, EarnedCreatePipeline
  <1>4. ASSUME NEW a \in held, NEW e \in Ending, Finish(a, e)
        PROVE  EarnedInv'
    BY <1>4, EarnedFinish
  <1>5. ASSUME NEW j \in Job, Elapse(j)
        PROVE  EarnedInv'
    <2>1. db'.status = db.status /\ db'.token = db.token /\ UNCHANGED <<handed, told>>
      BY <1>5 DEF Elapse, EarnedInv, TypeOK, DbState, runnerVars
    <2> QED BY <1>0, <2>1 DEF EarnedInv, RunningIsHanded, ResultsAreEarned
  <1>6. CASE UNCHANGED <<db, handed, told>>
    BY <1>0, <1>6 DEF EarnedInv, RunningIsHanded, ResultsAreEarned
  <1> QED BY <1>0, <1>1, <1>2, <1>3, <1>4, <1>5, <1>6 DEF Next, vars, Read, Drop, runnerVars

\* Every reachable state has the evidence.
LEMMA EvidenceIsKept ==
    ASSUME {"update", "requeue"} \cap Split = {}
    PROVE  Spec => [](EarnedInv /\ SnapshotsAreStored)
  <1>1. EarnedInv /\ SnapshotsAreStored /\ [Next]_vars => EarnedInv' /\ SnapshotsAreStored'
    BY EarnedNext
  <1> QED BY <1>1, EarnedInit, PTL DEF Spec

\* If a report and an operator requeue are each stored in the step that read
\* the row, a stored result was reported under the job's current token,
\* whatever the other handlers interleave.
THEOREM ResultsBelongToAttempts ==
    ASSUME {"update", "requeue"} \cap Split = {}
    PROVE  Spec => []ResultsAreEarned
  <1>1. EarnedInv => ResultsAreEarned
    BY DEF EarnedInv
  <1> QED BY <1>1, EvidenceIsKept, PTL

\* Under the same condition a running job went out with a poll under its
\* current token, so that some runner can report on it.
THEOREM RunningJobsAreHeld ==
    ASSUME {"update", "requeue"} \cap Split = {}
    PROVE  Spec => []RunningIsHanded
  <1>1. EarnedInv => RunningIsHanded
    BY DEF EarnedInv
  <1> QED BY <1>1, EvidenceIsKept, PTL
-----------------------------------------------------------------------------
(* Automatic retries keep to their budget.                                 *)

\* Inductive: retry_attempt counts the automatic attempts, up to retry:max.
BudgetInv ==
    /\ TypeOK
    /\ \A j \in Job : autos[j] = db.retries[j] /\ db.retries[j] <= Def[j].retryMax

\* retry:max is a number.
LEMMA RetryMaxType == \A j \in Job : Def[j].retryMax \in Nat
  BY ConfigurationIsTyped DEF JobDef

\* A handler that leaves retry_attempt alone leaves it alone in the database.
LEMMA HandledKeepsRetries ==
    ASSUME TypeOK, NEW q, NEW s, NEW v \in DbState, NEW x, Handled(q, s, v, x),
           v.retries = s.retries
    PROVE  db'.retries = db.retries
  <1>1. s \in DbState
    BY SnapshotType DEF Handled
  <1>2. StoresJobs(s, v)
    BY <1>1, CommitType DEF Handled
  <1> QED BY <1>1, <1>2 DEF StoresJobs, Written, TypeOK, DbState

\* No handler but update_job changes retry_attempt.
LEMMA EffectsKeepRetries ==
    ASSUME NEW s \in DbState, NEW j \in Job, NEW J
    PROVE  /\ Played(s, j).retries = s.retries
           /\ Canceled(s, J).retries = s.retries
           /\ ResetForRetry(s, J).retries = s.retries
           /\ Requeued(s, j).retries = s.retries
           /\ Promoted(s).retries = s.retries
  BY DEF Played, Canceled, ResetForRetry, Requeued, Promoted, WithStatus, DbState

\* A report starts an attempt only within the budget, and counts it.
LEMMA ReportSpends ==
    ASSUME NEW s \in DbState, NEW m \in Report, s.token[m.job] # NewToken,
           \A j \in Job : s.retries[j] <= Def[j].retryMax
    PROVE  LET v == Reported(s, m)
           IN  /\ \A j \in Job : v.retries[j] <= Def[j].retryMax
               /\ v.retries = [s.retries EXCEPT ![m.job] =
                                  IF v.token[m.job] = NewToken THEN s.retries[m.job] + 1
                                  ELSE s.retries[m.job]]
  <1> DEFINE p == Pipe(m.job)
             Skipped == SkipOnFailureJobs(WithStatus(s, {m.job}, m.state), p)
             Stored == [Skipped EXCEPT !.exit = [Skipped.exit EXCEPT ![m.job] = m.exit]]
             Unspent(v) == v.retries = s.retries /\ v.token = s.token
  <1>1. m.job \in Job /\ m.state \in Status /\ s.retries \in [Job -> Nat]
    BY DEF Report, Status, DbState
  <1>2. Stored \in DbState /\ Unspent(Stored)
    <2>1. WithStatus(s, {m.job}, m.state) \in DbState
      BY <1>1, WithStatusType
    <2>2. Skipped \in DbState
      BY <2>1, SkipType
    <2>3. Stored \in DbState
      BY <2>2 DEF DbState, Report
    <2>4. Unspent(Skipped)
      BY DEF SkipOnFailureJobs, WithStatus, DbState
    <2> HIDE DEF Skipped
    <2> QED BY <2>2, <2>3, <2>4 DEF DbState
  <1> HIDE DEF Stored
  <1>3. Unspent(SkipJobsAfterFailedStage(Stored, p))
    BY <1>2 DEF SkipJobsAfterFailedStage, WithStatus, DbState
  <1>4. ASSUME ShouldAutoRetry(s, m.job, m.reason, m.exit)
        PROVE  /\ AutoRetried(Stored, m.job).retries =
                      [s.retries EXCEPT ![m.job] = s.retries[m.job] + 1]
               /\ AutoRetried(Stored, m.job).token[m.job] = NewToken
               /\ s.retries[m.job] + 1 <= Def[m.job].retryMax
    BY <1>1, <1>2, <1>4, RetryMaxType DEF AutoRetried, ResetForRetry, ShouldAutoRetry, DbState
  <1>5. ASSUME NEW v, Unspent(v)
        PROVE  /\ \A j \in Job : v.retries[j] <= Def[j].retryMax
               /\ v.retries = [s.retries EXCEPT ![m.job] = s.retries[m.job]]
               /\ v.token[m.job] # NewToken
    BY <1>1, <1>5
  <1>6. \/ Unspent(Reported(s, m))
        \/ /\ ShouldAutoRetry(s, m.job, m.reason, m.exit)
           /\ Reported(s, m) = AutoRetried(Stored, m.job)
    BY <1>2, <1>3 DEF Reported, Stored
  <1>7. CASE Unspent(Reported(s, m))
    BY <1>5, <1>7
  <1>8. CASE /\ ShouldAutoRetry(s, m.job, m.reason, m.exit)
             /\ Reported(s, m) = AutoRetried(Stored, m.job)
    BY <1>1, <1>4, <1>8
  <1> QED BY <1>6, <1>7, <1>8

\* A report stored in the step that read the row keeps the budget.
LEMMA BudgetUpdate ==
    ASSUME BudgetInv, NEW m \in Sendable \cup BeingServed, UpdateJob(m), "update" \notin Split
    PROVE  \A j \in Job : autos'[j] = db'.retries[j] /\ db'.retries[j] <= Def[j].retryMax
  <1> DEFINE v == Reported(db, m)
  <1>1. TypeOK /\ db \in DbState /\ m \in Report
    BY SendableType DEF BudgetInv, TypeOK
  <1>2. /\ CommitDerived(db, v, Pipe(m.job))
        /\ autos' = [autos EXCEPT ![m.job] = IF v.token[m.job] = NewToken THEN autos[m.job] + 1
                                             ELSE autos[m.job]]
    BY DEF UpdateJob, Snapshots
  <1>3. v \in DbState /\ StoresJobs(db, v)
    BY <1>1, <1>2, ReportedType, CommitType
  <1>4. m.job \in Job /\ db.token[m.job] # NewToken
    BY <1>1 DEF Report, TypeOK, NewToken
  <1>5. /\ \A j \in Job : v.retries[j] <= Def[j].retryMax
        /\ v.retries = [db.retries EXCEPT ![m.job] =
                           IF v.token[m.job] = NewToken THEN db.retries[m.job] + 1
                           ELSE db.retries[m.job]]
    BY <1>1, <1>4, ReportSpends DEF BudgetInv
  <1> HIDE DEF v
  <1>6. db'.retries = v.retries
    BY <1>1, <1>3 DEF StoresJobs, Written, DbState
  <1>7. autos \in [Job -> Nat] /\ db.retries \in [Job -> Nat]
    BY <1>1 DEF TypeOK, DbState
  <1> QED BY <1>2, <1>4, <1>5, <1>6, <1>7 DEF BudgetInv

\* Every handler keeps the budget if update is not interrupted.
LEMMA BudgetHandle ==
    ASSUME BudgetInv, Handle, "update" \notin Split
    PROVE  \A j \in Job : autos'[j] = db'.retries[j] /\ db'.retries[j] <= Def[j].retryMax
  <1>0. TypeOK
    BY DEF BudgetInv
  <1> DEFINE Kept == db'.retries = db.retries /\ autos' = autos
  <1>1. ASSUME NEW j \in Job, PlayJob(j)
        PROVE  Kept
    <2>1. PICK s \in Snapshots(<<"play", j>>) :
            Handled(<<"play", j>>, s, Played(s, j), Pipe(j)) /\ UNCHANGED autos
      BY <1>1 DEF PlayJob, Handled
    <2> QED BY <2>1, <1>0, SnapshotType, EffectTypes, EffectsKeepRetries, HandledKeepsRetries
  <1>2. ASSUME NEW j \in Job, CancelJob(j)
        PROVE  Kept
    <2>1. PICK s \in Snapshots(<<"cancel", j>>) :
            Handled(<<"cancel", j>>, s, Canceled(s, {j}), Pipe(j)) /\ UNCHANGED autos
      BY <1>2 DEF CancelJob, Handled
    <2> QED BY <2>1, <1>0, SnapshotType, EffectTypes, EffectsKeepRetries, HandledKeepsRetries
  <1>3. ASSUME NEW j \in Job, RetryJob(j)
        PROVE  Kept
    <2>1. PICK s \in Snapshots(<<"retry", j>>) :
            /\ Handled(<<"retry", j>>, s, ResetForRetry(s, {j} \cap Retryable(s)), Pipe(j))
            /\ UNCHANGED autos
      BY <1>3 DEF RetryJob, Handled
    <2> QED BY <2>1, <1>0, SnapshotType, ResetType, EffectsKeepRetries, HandledKeepsRetries
  <1>4. ASSUME NEW j \in Job, RequeueJob(j)
        PROVE  Kept
    <2>1. PICK s \in Snapshots(<<"requeue", j>>) :
            Handled(<<"requeue", j>>, s, Requeued(s, j), Pipe(j)) /\ UNCHANGED autos
      BY <1>4 DEF RequeueJob, Handled
    <2> QED BY <2>1, <1>0, SnapshotType, EffectTypes, EffectsKeepRetries, HandledKeepsRetries
  <1>5. ASSUME NEW p \in Pipeline, CancelPipeline(p)
        PROVE  Kept
    <2> DEFINE Effect(s) == [Canceled(s, JobsOf(p)) EXCEPT
                                !.verdict = [s.verdict EXCEPT ![p] = "canceled"],
                                !.finished = [s.finished EXCEPT ![p] = TRUE]]
    <2>1. PICK s \in Snapshots(<<"cancel_pipeline", p>>) :
            Handled(<<"cancel_pipeline", p>>, s, Effect(s), p) /\ UNCHANGED autos
      BY <1>5 DEF CancelPipeline, Handled
    <2>2. s \in DbState
      BY <1>0, SnapshotType
    <2>3. Canceled(s, JobsOf(p)) \in DbState
      BY <2>2, WithStatusType DEF Canceled, Status
    <2>4. Effect(s) \in DbState /\ Effect(s).retries = s.retries
      BY <2>2, <2>3 DEF DbState, Verdict, Canceled, WithStatus
    <2> HIDE DEF Effect
    <2> QED BY <2>1, <2>4, <1>0, HandledKeepsRetries
  <1>6. ASSUME NEW p \in Pipeline, RetryPipeline(p)
        PROVE  Kept
    <2> DEFINE J(s) == {j \in JobsOf(p) \cap Retryable(s) : s.status[j] # "success"}
    <2>1. PICK s \in Snapshots(<<"retry_pipeline", p>>) :
            Handled(<<"retry_pipeline", p>>, s, ResetForRetry(s, J(s)), p) /\ UNCHANGED autos
      BY <1>6 DEF RetryPipeline, Handled
    <2>2. s \in DbState
      BY <1>0, SnapshotType
    <2>3. ResetForRetry(s, J(s)) \in DbState
      BY <2>2, ResetType
    <2>4. ResetForRetry(s, J(s)).retries = s.retries
      BY <2>2 DEF ResetForRetry, DbState
    <2> HIDE DEF J
    <2> QED BY <2>1, <2>3, <2>4, <1>0, HandledKeepsRetries
  <1>7. ASSUME NEW m \in Sendable \cup BeingServed, UpdateJob(m)
        PROVE  \A j \in Job : autos'[j] = db'.retries[j] /\ db'.retries[j] <= Def[j].retryMax
    BY <1>7, BudgetUpdate
  <1>8. CASE PromoteDelayed
    <2>1. PICK s \in Snapshots(<<"promote", "due">>) :
            Handled(<<"promote", "due">>, s, Promoted(s), {}) /\ UNCHANGED autos
      BY <1>8 DEF PromoteDelayed, Handled
    <2>2. s \in DbState
      BY <1>0, SnapshotType
    <2>3. Promoted(s) \in DbState /\ Promoted(s).retries = s.retries
      BY <2>2, PromotedType DEF Promoted, WithStatus, DbState
    <2>4. Kept
      BY <2>1, <2>3, <1>0, HandledKeepsRetries
    <2> QED BY <2>4 DEF BudgetInv
  <1>9. ASSUME NEW p \in Pipeline, CancelPipelineInUi(p)
        PROVE  Kept
    <2>1. PICK s \in Snapshots(<<"cancel_in_ui", p>>) :
            Handled(<<"cancel_in_ui", p>>, s, Canceled(s, JobsOf(p)), p) /\ UNCHANGED autos
      BY <1>9 DEF CancelPipelineInUi, Handled
    <2>2. s \in DbState
      BY <1>0, SnapshotType
    <2>3. Canceled(s, JobsOf(p)) \in DbState /\ Canceled(s, JobsOf(p)).retries = s.retries
      BY <2>2, WithStatusType DEF Canceled, Status, WithStatus, DbState
    <2> QED BY <2>1, <2>3, <1>0, HandledKeepsRetries
  <1>10. Kept => \A j \in Job : autos'[j] = db'.retries[j] /\ db'.retries[j] <= Def[j].retryMax
    BY DEF BudgetInv
  <1> QED BY <1>1, <1>2, <1>3, <1>4, <1>5, <1>6, <1>7, <1>8, <1>9, <1>10 DEF Handle

\* No attempt is counted before the first pipeline.
LEMMA BudgetInit == Init => BudgetInv
  BY InitType, RetryMaxType DEF Init, BudgetInv

\* Every step keeps the budget if update is not interrupted.
LEMMA BudgetNext ==
    ASSUME "update" \notin Split, BudgetInv, [Next]_vars
    PROVE  BudgetInv'
  <1>0. TypeOK' /\ TypeOK
    BY NextType DEF BudgetInv
  <1>1. CASE Handle
    BY <1>0, <1>1, BudgetHandle DEF BudgetInv
  <1>2. ASSUME db'.retries = db.retries, autos' = autos
        PROVE  BudgetInv'
    BY <1>0, <1>2 DEF BudgetInv
  <1>3. ASSUME NEW r \in Runner, RequestJob(r)
        PROVE  db'.retries = db.retries /\ autos' = autos
    BY <1>0, <1>3 DEF RequestJob, Promoted, WithStatus, TypeOK, DbState
  <1>4. ASSUME NEW p \in Pipeline, CreatePipeline(p)
        PROVE  db'.retries = db.retries /\ autos' = autos
    BY <1>0, <1>4 DEF CreatePipeline, Concluded, Canceled, WithStatus, TypeOK, DbState
  <1>5. ASSUME NEW j \in Job, Elapse(j)
        PROVE  db'.retries = db.retries /\ autos' = autos
    BY <1>0, <1>5 DEF Elapse, TypeOK, DbState
  <1> QED BY <1>1, <1>2, <1>3, <1>4, <1>5 DEF Next, vars, Read, Drop, Finish

\* If a report is stored in the step that read the row, the automatic attempts
\* of a job never exceed its retry:max, however reports are repeated and
\* however user retries, requeues and cancellations interleave.
THEOREM RetriesAreBounded ==
    ASSUME "update" \notin Split
    PROVE  Spec => []AutoRetryBudget
  <1>1. BudgetInv => AutoRetryBudget
    BY DEF BudgetInv, AutoRetryBudget
  <1>2. BudgetInv /\ [Next]_vars => BudgetInv'
    BY BudgetNext
  <1> QED BY <1>1, <1>2, BudgetInit, PTL DEF Spec
-----------------------------------------------------------------------------
(* A stored result is final for its attempt.                               *)

\* What the handler of q makes of the rows s it read.
Effect(q, s, v) ==
    \/ \E j \in Job :
        \/ q = <<"play", j>> /\ v = Played(s, j)
        \/ q = <<"cancel", j>> /\ v = Canceled(s, {j})
        \/ q = <<"retry", j>> /\ v = ResetForRetry(s, {j} \cap Retryable(s))
        \/ q = <<"requeue", j>> /\ v = Requeued(s, j)
    \/ \E p \in Pipeline :
        \/ /\ q = <<"cancel_pipeline", p>>
           /\ v = [Canceled(s, JobsOf(p)) EXCEPT
                      !.verdict = [s.verdict EXCEPT ![p] = "canceled"],
                      !.finished = [s.finished EXCEPT ![p] = TRUE]]
        \/ q = <<"cancel_in_ui", p>> /\ v = Canceled(s, JobsOf(p))
        \/ /\ q = <<"retry_pipeline", p>>
           /\ v = ResetForRetry(s, {j \in JobsOf(p) \cap Retryable(s) : s.status[j] # "success"})
    \/ \E m \in Sendable \cup BeingServed :
        q = <<"update", m>> /\ v = Reported(s, m) /\ ("update" \notin Split => m \in Sendable)
    \/ q = <<"promote", "due">> /\ v = Promoted(s)

\* A handler's step is one request with its effect.
LEMMA HandlersHaveEffects ==
    ASSUME Handle
    PROVE  \E q, s, v, x : Handled(q, s, v, x) /\ Effect(q, s, v)
  <1> DEFINE Has(q, s, v, x) == Handled(q, s, v, x) /\ Effect(q, s, v)
             J(s, p) == {j \in JobsOf(p) \cap Retryable(s) : s.status[j] # "success"}
             Assigned(s, p) == [Canceled(s, JobsOf(p)) EXCEPT
                                  !.verdict = [s.verdict EXCEPT ![p] = "canceled"],
                                  !.finished = [s.finished EXCEPT ![p] = TRUE]]
  <1>1. ASSUME NEW j \in Job, PlayJob(j) \/ CancelJob(j) \/ RetryJob(j) \/ RequeueJob(j)
        PROVE  \E q, s, v, x : Has(q, s, v, x)
    <2>1. CASE PlayJob(j)
      <3>1. PICK s : Handled(<<"play", j>>, s, Played(s, j), Pipe(j))
        BY <2>1 DEF PlayJob, Handled
      <3>2. Effect(<<"play", j>>, s, Played(s, j))
        BY DEF Effect
      <3> QED BY <3>1, <3>2
    <2>2. CASE CancelJob(j)
      <3>1. PICK s : Handled(<<"cancel", j>>, s, Canceled(s, {j}), Pipe(j))
        BY <2>2 DEF CancelJob, Handled
      <3>2. Effect(<<"cancel", j>>, s, Canceled(s, {j}))
        BY DEF Effect
      <3> QED BY <3>1, <3>2
    <2>3. CASE RetryJob(j)
      <3>1. PICK s : Handled(<<"retry", j>>, s, ResetForRetry(s, {j} \cap Retryable(s)), Pipe(j))
        BY <2>3 DEF RetryJob, Handled
      <3>2. Effect(<<"retry", j>>, s, ResetForRetry(s, {j} \cap Retryable(s)))
        BY DEF Effect
      <3> QED BY <3>1, <3>2
    <2>4. CASE RequeueJob(j)
      <3>1. PICK s : Handled(<<"requeue", j>>, s, Requeued(s, j), Pipe(j))
        BY <2>4 DEF RequeueJob, Handled
      <3>2. Effect(<<"requeue", j>>, s, Requeued(s, j))
        BY DEF Effect
      <3> QED BY <3>1, <3>2
    <2> QED BY <1>1, <2>1, <2>2, <2>3, <2>4
  <1>2. ASSUME NEW p \in Pipeline,
               CancelPipeline(p) \/ CancelPipelineInUi(p) \/ RetryPipeline(p)
        PROVE  \E q, s, v, x : Has(q, s, v, x)
    <2>1. CASE CancelPipeline(p)
      <3>1. PICK s : Handled(<<"cancel_pipeline", p>>, s, Assigned(s, p), p)
        BY <2>1 DEF CancelPipeline, Handled
      <3>2. Effect(<<"cancel_pipeline", p>>, s, Assigned(s, p))
        BY DEF Effect
      <3> HIDE DEF Assigned
      <3> QED BY <3>1, <3>2
    <2>2. CASE CancelPipelineInUi(p)
      <3>1. PICK s : Handled(<<"cancel_in_ui", p>>, s, Canceled(s, JobsOf(p)), p)
        BY <2>2 DEF CancelPipelineInUi, Handled
      <3>2. Effect(<<"cancel_in_ui", p>>, s, Canceled(s, JobsOf(p)))
        BY DEF Effect
      <3> QED BY <3>1, <3>2
    <2>3. CASE RetryPipeline(p)
      <3>1. PICK s : Handled(<<"retry_pipeline", p>>, s, ResetForRetry(s, J(s, p)), p)
        BY <2>3 DEF RetryPipeline, Handled
      <3>2. Effect(<<"retry_pipeline", p>>, s, ResetForRetry(s, J(s, p)))
        BY DEF Effect
      <3> HIDE DEF J
      <3> QED BY <3>1, <3>2
    <2> QED BY <1>2, <2>1, <2>2, <2>3
  <1>3. ASSUME NEW m \in Sendable \cup BeingServed, UpdateJob(m)
        PROVE  \E q, s, v, x : Handled(q, s, v, x) /\ Effect(q, s, v)
    <2>1. PICK s \in Snapshots(<<"update", m>>) :
            /\ "update" \notin Split => m \in Sendable
            /\ Handled(<<"update", m>>, s, Reported(s, m), Pipe(m.job))
      BY <1>3 DEF UpdateJob, Handled
    <2>2. Effect(<<"update", m>>, s, Reported(s, m))
      BY <2>1 DEF Effect
    <2> QED BY <2>1, <2>2
  <1>4. CASE PromoteDelayed
    BY <1>4 DEF PromoteDelayed, Handled, Effect
  <1> QED BY <1>1, <1>2, <1>3, <1>4 DEF Handle

\* The effect of every handler on typed rows is typed.
LEMMA EffectType ==
    ASSUME TypeOK, NEW q, NEW s \in DbState, NEW v, Effect(q, s, v)
    PROVE  v \in DbState
  <1>1. \A J : Canceled(s, J) \in DbState
    BY WithStatusType DEF Canceled, Status
  <1>2. \A p \in Pipeline :
            [Canceled(s, JobsOf(p)) EXCEPT !.verdict = [s.verdict EXCEPT ![p] = "canceled"],
                                           !.finished = [s.finished EXCEPT ![p] = TRUE]] \in DbState
    BY <1>1 DEF DbState, Verdict
  <1>3. \A m \in Sendable \cup BeingServed : Reported(s, m) \in DbState
    BY SendableType, ReportedType
  <1>4. \A j \in Job : Played(s, j) \in DbState /\ Requeued(s, j) \in DbState
    BY EffectTypes
  <1>5. \A J : ResetForRetry(s, J) \in DbState
    BY ResetType
  <1> QED BY <1>1, <1>2, <1>3, <1>4, <1>5, PromotedType DEF Effect

\* An attempt is reported on once: the same report may be sent again, but a
\* runner does not change its mind.
ToldOnce == \A m, n \in told : m.job = n.job /\ m.token = n.token => m = n

\* No step adds a second report on an attempt.
LEMMA ToldOnceNext ==
    ASSUME TypeOK, ToldOnce, [Next]_vars
    PROVE  ToldOnce'
  <1>1. ASSUME NEW a \in held, NEW e \in Ending, Finish(a, e)
        PROVE  ToldOnce'
    BY <1>1 DEF Finish, Working, ToldOnce
  <1>2. CASE Handle
    <2>1. told' = told
      BY <1>2, HandlersHaveEffects DEF Handled, Serve, runnerVars
    <2> QED BY <2>1 DEF ToldOnce
  <1>3. CASE UNCHANGED told
    BY <1>3 DEF ToldOnce
  <1> QED BY <1>1, <1>2, <1>3 DEF Next, vars, Read, Drop, RequestJob, CreatePipeline, Elapse, runnerVars

Result == {"success", "failed"}

\* Inductive: results are earned, each by the only report on its attempt, and
\* belong to jobs of pipelines that exist.
FinalInv == FreshInv /\ EarnedInv /\ SnapshotsAreStored /\ ToldOnce

\* What ResultIsFinal asks of a step.
KeepsResults ==
    \A j \in Job : db.status[j] \in Result =>
        db'.status[j] = db.status[j] \/ db'.token[j] # db.token[j]

\* The effect v of a handler that read s replaces a result by a new attempt only.
Respects(s, v) ==
    \A j \in Job :
        \/ v.token[j] = NewToken
        \/ v.status[j] = s.status[j]
        \/ s = db /\ db.status[j] \notin Result

\* A commit of such an effect keeps the results there are by then.
LEMMA RespectfulCommit ==
    ASSUME TypeOK, NEW q, NEW s \in DbState, NEW v \in DbState, NEW x, Handled(q, s, v, x),
           Respects(s, v)
    PROVE  KeepsResults
  <1>1. StoresJobs(s, v)
    BY CommitType DEF Handled
  <1>2. ASSUME NEW j \in Job, db.status[j] \in Result
        PROVE  db'.status[j] = db.status[j] \/ db'.token[j] # db.token[j]
    <2>1. CASE v.token[j] = NewToken
      <3>1. db'.token[j] = issued[j] + 1 /\ db.token[j] \in 1 .. issued[j] /\ issued[j] \in Nat
        BY <1>1, <2>1 DEF StoresJobs, Flushed, TypeOK
      <3> QED BY <3>1
    <2>2. CASE v.status[j] = s.status[j]
      BY <1>1, <2>2 DEF StoresJobs, Written, TypeOK, DbState
    <2> QED BY <1>2, <2>1, <2>2 DEF Respects
  <1> QED BY <1>2 DEF KeepsResults

\* A report repeats the result it earned, or is the first on its attempt.
LEMMA ReportRespects ==
    ASSUME FinalInv, NEW m \in Sendable, db.token[m.job] = m.token
    PROVE  Respects(db, Reported(db, m))
  <1> DEFINE p == Pipe(m.job)
             Skipped == SkipOnFailureJobs(WithStatus(db, {m.job}, m.state), p)
             Stored == [Skipped EXCEPT !.exit = [Skipped.exit EXCEPT ![m.job] = m.exit]]
             Kept(v) == \A j \in Job : v.token[j] = NewToken
                                       \/ (db.status[j] \in Result => v.status[j] = db.status[j])
  <1>0. TypeOK /\ db \in DbState /\ m \in Report
    BY SendableType DEF FinalInv, FreshInv, TypeOK
  <1>1. m.job \in Job /\ m.state \in Status
    BY <1>0 DEF Report, Status
  <1>2. db.status[m.job] \in Result => m.state = db.status[m.job]
    <2>1. SUFFICES ASSUME db.status[m.job] \in Result
                   PROVE  m.state = db.status[m.job]
      OBVIOUS
    <2>2. PICK n \in told : /\ n.job = m.job
                            /\ n.token = db.token[m.job]
                            /\ n.state = db.status[m.job]
      BY <1>1, <2>1 DEF FinalInv, EarnedInv, ResultsAreEarned, Result
    <2>3. m \in told
      BY <2>2 DEF Sendable, Working, Keepalive
    <2> QED BY <2>2, <2>3 DEF FinalInv, ToldOnce
  <1>3. Stored \in DbState /\ Kept(Stored)
    <2>1. WithStatus(db, {m.job}, m.state) \in DbState
      BY <1>0, <1>1, WithStatusType
    <2>2. Skipped \in DbState
      BY <2>1, SkipType
    <2>3. Kept(Skipped)
      BY <1>0, <1>2 DEF SkipOnFailureJobs, WithStatus, DbState, Result
    <2> HIDE DEF Skipped
    <2>4. Stored \in DbState /\ Stored.status = Skipped.status /\ Stored.token = Skipped.token
      BY <1>0, <2>2 DEF DbState, Report
    <2> QED BY <2>3, <2>4
  <1> HIDE DEF Stored
  <1>4. Kept(SkipJobsAfterFailedStage(Stored, p))
    BY <1>3 DEF SkipJobsAfterFailedStage, WithStatus, DbState, Result
  <1>5. Kept(AutoRetried(Stored, m.job))
    BY <1>1, <1>3 DEF AutoRetried, ResetForRetry, DbState, NewToken
  <1>6. Kept(Reported(db, m))
    BY <1>3, <1>4, <1>5 DEF Reported, Stored
  <1> QED BY <1>6 DEF Respects

\* The other effects replace no result, or begin a new attempt.
LEMMA EffectsRespect ==
    ASSUME NEW s \in DbState, NEW j \in Job, NEW J
    PROVE  /\ s = db /\ db.status[j] = "manual" => Respects(s, Played(s, j))
           /\ s = db => Respects(s, Canceled(s, J))
           /\ Respects(s, ResetForRetry(s, J))
           /\ Respects(s, Requeued(s, j))
           /\ s = db => Respects(s, Promoted(s))
  <1>1. s = db /\ db.status[j] = "manual" => Respects(s, Played(s, j))
    BY DEF Played, WithStatus, Respects, DbState, Result
  <1>2. s = db => Respects(s, Canceled(s, J))
    BY DEF Canceled, Cancelable, WithStatus, Respects, DbState, Result
  <1>3. Respects(s, ResetForRetry(s, J))
    BY DEF ResetForRetry, Respects, DbState
  <1>4. Respects(s, Requeued(s, j))
    BY DEF Requeued, WithStatus, ResetForRetry, Respects, DbState
  <1>5. s = db => Respects(s, Promoted(s))
    BY DEF Promoted, WithStatus, Respects, DbState, Result
  <1> QED BY <1>1, <1>2, <1>3, <1>4, <1>5

\* Every handler keeps the results if only retries are interrupted.
LEMMA HandleKeepsResults ==
    ASSUME FinalInv, Split \subseteq {"retry", "retry_pipeline"}, Handle
    PROVE  KeepsResults
  <1>0. TypeOK
    BY DEF FinalInv, FreshInv
  <1>1. PICK q, s, v, x : Handled(q, s, v, x) /\ Effect(q, s, v)
    BY HandlersHaveEffects
  <1>2. s \in DbState /\ v \in DbState
    BY <1>0, <1>1, SnapshotType, EffectType DEF Handled
  <1>3. q[1] \notin {"retry", "retry_pipeline"} => s = db
    BY <1>1 DEF Handled, Snapshots
  <1>4. Accepts(s, q)
    BY <1>1 DEF Handled, Serve
  <1>5. ASSUME NEW j \in Job, q = <<"play", j>>, v = Played(s, j)
        PROVE  Respects(s, v)
    <2>1. s = db /\ db.status[j] = "manual"
      BY <1>3, <1>4, <1>5 DEF Accepts, JobOps, PipelineOps
    <2> QED BY <1>2, <1>5, <2>1, EffectsRespect
  <1>6. ASSUME NEW j \in Job, q = <<"cancel", j>>, v = Canceled(s, {j})
        PROVE  Respects(s, v)
    BY <1>2, <1>3, <1>6, EffectsRespect
  <1>7. ASSUME NEW j \in Job, v = ResetForRetry(s, {j} \cap Retryable(s)) \/ v = Requeued(s, j)
        PROVE  Respects(s, v)
    BY <1>2, <1>7, EffectsRespect
  <1>8. ASSUME NEW p \in Pipeline, q = <<"cancel_pipeline", p>>,
               v = [Canceled(s, JobsOf(p)) EXCEPT
                      !.verdict = [s.verdict EXCEPT ![p] = "canceled"],
                      !.finished = [s.finished EXCEPT ![p] = TRUE]]
        PROVE  Respects(s, v)
    <2> DEFINE w == Canceled(s, JobsOf(p))
    <2>1. s = db
      BY <1>3, <1>8
    <2>2. w \in DbState
      BY <1>2, WithStatusType DEF Canceled, Status
    <2>3. Respects(s, w)
      BY <1>2, <2>1 DEF Canceled, Cancelable, WithStatus, Respects, DbState, Result
    <2>4. v.status = w.status /\ v.token = w.token
      BY <1>8, <2>2 DEF DbState
    <2> QED BY <2>3, <2>4 DEF Respects
  <1>9. ASSUME NEW p \in Pipeline, q = <<"cancel_in_ui", p>>, v = Canceled(s, JobsOf(p))
        PROVE  Respects(s, v)
    BY <1>2, <1>3, <1>9 DEF Canceled, Cancelable, WithStatus, Respects, DbState, Result
  <1>10. ASSUME NEW J, v = ResetForRetry(s, J)
         PROVE  Respects(s, v)
    BY <1>2, <1>10 DEF ResetForRetry, Respects, DbState
  <1>11. ASSUME NEW m \in Sendable, q = <<"update", m>>, v = Reported(s, m)
         PROVE  Respects(s, v)
    <2>1. s = db /\ db.token[m.job] = m.token
      BY <1>3, <1>4, <1>11 DEF Accepts, JobOps, PipelineOps
    <2> QED BY <1>11, <2>1, ReportRespects
  <1>12. ASSUME q = <<"promote", "due">>, v = Promoted(s)
         PROVE  Respects(s, v)
    BY <1>2, <1>3, <1>12 DEF Promoted, WithStatus, Respects, DbState, Result
  <1>13. Respects(s, v)
    BY <1>1, <1>5, <1>6, <1>7, <1>8, <1>9, <1>10, <1>11, <1>12 DEF Effect
  <1> QED BY <1>0, <1>1, <1>2, <1>13, RespectfulCommit

\* The poll starts waiting jobs only, and a new pipeline has new jobs.
LEMMA StepKeepsResults ==
    ASSUME FinalInv, Split \subseteq {"retry", "retry_pipeline"}, [Next]_vars
    PROVE  KeepsResults
  <1>0. TypeOK /\ db \in DbState
    BY DEF FinalInv, FreshInv, TypeOK
  <1>1. CASE Handle
    BY <1>1, HandleKeepsResults
  <1>2. ASSUME NEW r \in Runner, RequestJob(r)
        PROVE  KeepsResults
    <2> DEFINE s == Promoted(db)
    <2>1. s \in DbState /\ \A j \in Job : db.status[j] \in Result => s.status[j] = db.status[j]
      BY <1>0, PromotedType DEF Promoted, WithStatus, DbState, Result
    <2> HIDE DEF s
    <2>2. ASSUME NEW j \in Runnable(s, r),
                 db' = [WithStatus(s, {j}, "running") EXCEPT
                           !.verdict = [s.verdict EXCEPT ![Pipe(j)] = "running"]]
          PROVE  KeepsResults
      BY <2>1, <2>2 DEF Runnable, WithStatus, KeepsResults, DbState, Result
    <2> QED BY <1>2, <2>1, <2>2 DEF RequestJob, s, KeepsResults
  <1>3. ASSUME NEW p \in Pipeline, CreatePipeline(p)
        PROVE  KeepsResults
    <2>1. ASSUME NEW j \in Job, db.status[j] \in Result
          PROVE  db.verdict[Pipe(j)] # "absent"
      <3>1. PICK m \in told : m.job = j
        BY <2>1 DEF FinalInv, EarnedInv, ResultsAreEarned, Result
      <3>2. <<j, m.token>> \in handed
        BY <3>1 DEF FinalInv, EarnedInv
      <3> QED BY <3>2 DEF FinalInv, FreshInv
    <2>2. ASSUME NEW j \in Job, db.status[j] \in Result
          PROVE  j \notin JobsOf(p) /\ db'.status[j] = db.status[j]
      <3>1. j \notin JobsOf(p)
        BY <2>1, <2>2, <1>3 DEF CreatePipeline, JobsOf
      <3>2. j \notin Cancelable(db)
        BY <2>2 DEF Cancelable, Result
      <3> QED BY <1>0, <1>3, <3>1, <3>2 DEF CreatePipeline, Concluded, Canceled, WithStatus, DbState
    <2> QED BY <2>2 DEF KeepsResults
  <1>4. ASSUME NEW j \in Job, Elapse(j)
        PROVE  KeepsResults
    BY <1>0, <1>4 DEF Elapse, KeepsResults, DbState
  <1>5. CASE UNCHANGED db
    BY <1>5 DEF KeepsResults
  <1> QED BY <1>1, <1>2, <1>3, <1>4, <1>5 DEF Next, vars, Read, Drop, Finish

\* No result is stored and nothing was told before the first pipeline.
LEMMA FinalInit == Init => FinalInv
  BY FreshInit, EarnedInit DEF FinalInv, ToldOnce, Init

\* Every step keeps FinalInv if only retries are interrupted.
LEMMA FinalNext ==
    ASSUME FinalInv, Split \subseteq {"retry", "retry_pipeline"}, [Next]_vars
    PROVE  FinalInv'
  <1>1. {"play", "promote"} \cap Split = {} /\ {"update", "requeue"} \cap Split = {}
    OBVIOUS
  <1>2. TypeOK
    BY DEF FinalInv, FreshInv
  <1> QED BY <1>1, <1>2, FreshNext, EarnedNext, ToldOnceNext DEF FinalInv

\* If no handler but a retry is interrupted between its read and its write, a
\* stored result is replaced only by a new attempt with a new token: neither a
\* late or repeated report nor a keepalive, a cancellation, a promotion or a
\* newer pipeline changes it.
THEOREM ResultsAreFinal ==
    ASSUME Split \subseteq {"retry", "retry_pipeline"}
    PROVE  Spec => ResultIsFinal
  <1>1. FinalInv /\ [Next]_vars => FinalInv'
    BY FinalNext
  <1>2. FinalInv /\ [Next]_vars =>
            [\A j \in Job : db.status[j] \in {"success", "failed"} =>
                \/ db'.status[j] = db.status[j]
                \/ db'.token[j] # db.token[j]]_db
    BY StepKeepsResults DEF KeepsResults, Result
  <1> QED BY <1>1, <1>2, FinalInit, PTL DEF Spec, ResultIsFinal
-----------------------------------------------------------------------------
(* The attempts keep to the ledger.                                        *)

Unhanded == {"manual", "scheduled", "pending"}

\* Every job's entry stays as it is or changes as the ledger allows.
LedgerStep == \A j \in Job : Entry(j)' = Entry(j) \/ Ledger!Changes(Entry(j), Entry(j)')

\* How the status of j may become new while its attempt stays.
Allowed(j, new) ==
    LET now == Phase(db.status[j]) IN
    \/ Phase(new) = now
    \/ /\ now \in {"running", "off"} /\ new \in Result
       /\ \E m \in told : m.job = j /\ m.token = db.token[j] /\ m.state = new
    \/ now \in {"waiting", "running"} /\ Phase(new) = "off"
    \/ /\ now = "off" /\ Phase(new) = "running" /\ <<j, db.token[j]>> \in handed
       /\ ~\E m \in told : m.job = j /\ m.token = db.token[j]

\* The effect v of a handler that read s begins attempts, or moves those there are.
Follows(s, v) ==
    \A j \in Job :
        \/ /\ v.token[j] = NewToken /\ v.status[j] \in Unhanded
           /\ v.status[j] # s.status[j] \/ s = db
           /\ s.status[j] # "absent"
        \/ /\ v.token[j] # NewToken
           /\ v.status[j] = s.status[j] \/ (s = db /\ Allowed(j, v.status[j]))

\* Inductive: runners report results, and there is no job before its pipeline is
\* there, nor did any request in flight read more jobs than there are.
PipelinesHaveJobs == \A j \in Job : db.verdict[Pipe(j)] = "absent" => db.status[j] = "absent"
LedgerInv ==
    /\ FinalInv
    /\ \A m \in told : m.state \in Result
    /\ PipelinesHaveJobs
    /\ \A c \in Slot : call[c] # Idle =>
            \A j \in Job : db.status[j] = "absent" => call[c].snap.status[j] = "absent"

\* The phase of a status.
LEMMA PhaseOf ==
    ASSUME NEW new \in Status
    PROVE  /\ Phase(new) = "none" <=> new = "absent"
           /\ Phase(new) = "waiting" <=> new \in Unhanded
           /\ Phase(new) = "off" <=> new \in {"canceled", "skipped"}
           /\ Phase(new) = "running" <=> new = "running"
           /\ Phase(new) \in Result <=> new \in Result
           /\ new \in Result => Phase(new) = new
  BY DEF Phase, Status, Unhanded, Result

\* What the entry of a job says of what was handed out and told.
LEMMA EntryOf ==
    ASSUME TypeOK, NEW j \in Job
    PROVE  /\ Entry(j).phase = Phase(db.status[j]) /\ Entry(j).attempt = db.token[j]
           /\ \A n : n \in Entry(j).given <=> <<j, n>> \in handed
           /\ \A n, r : <<n, r>> \in Entry(j).outcome <=>
                            \E m \in told : m.job = j /\ m.token = n /\ m.state = r
  <1>1. \A n : n \in Entry(j).given <=> <<j, n>> \in handed
    <2>1. \A a \in handed : a = <<a[1], a[2]>>
      BY DEF TypeOK, Attempt
    <2> QED BY <2>1 DEF Entry
  <1>2. \A n, r : <<n, r>> \in Entry(j).outcome <=>
                    \E m \in told : m.job = j /\ m.token = n /\ m.state = r
    BY DEF Entry
  <1> QED BY <1>1, <1>2 DEF Entry

\* The entries before and after an attempt is given out or renewed.
LEMMA EntriesChange ==
    ASSUME NEW p, NEW a \in Nat, NEW b \in Nat, NEW g, NEW o
    PROVE  /\ p # "none" /\ b > a =>
                Ledger!Renew([phase |-> p, attempt |-> a, given |-> g, outcome |-> o],
                             [phase |-> "waiting", attempt |-> b, given |-> g, outcome |-> o])
           /\ a \notin g =>
                Ledger!Execute([phase |-> "waiting", attempt |-> a, given |-> g, outcome |-> o],
                               [phase |-> "running", attempt |-> a, given |-> g \cup {a},
                                outcome |-> o])
  <1> DEFINE E(q, n, h) == [phase |-> q, attempt |-> n, given |-> h, outcome |-> o]
  <1>1. [E(p, a, g) EXCEPT !.phase = "waiting", !.attempt = b] = E("waiting", b, g)
    <2>1. \A e : [e EXCEPT !.phase = "waiting", !.attempt = b]
                    = [[e EXCEPT !.phase = "waiting"] EXCEPT !.attempt = b]
      OBVIOUS
    <2>2. [E(p, a, g) EXCEPT !.phase = "waiting"] = E("waiting", a, g)
      OBVIOUS
    <2>3. [E("waiting", a, g) EXCEPT !.attempt = b] = E("waiting", b, g)
      OBVIOUS
    <2> HIDE DEF E
    <2> QED BY <2>1, <2>2, <2>3, Zenon
  <1>2. [E("waiting", a, g) EXCEPT !.phase = "running", !.given = g \cup {a}]
            = E("running", a, g \cup {a})
    <2>1. \A e : [e EXCEPT !.phase = "running", !.given = g \cup {a}]
                    = [[e EXCEPT !.phase = "running"] EXCEPT !.given = g \cup {a}]
      OBVIOUS
    <2>2. [E("waiting", a, g) EXCEPT !.phase = "running"] = E("running", a, g)
      OBVIOUS
    <2>3. [E("running", a, g) EXCEPT !.given = g \cup {a}] = E("running", a, g \cup {a})
      OBVIOUS
    <2> HIDE DEF E
    <2> QED BY <2>1, <2>2, <2>3, Zenon
  <1>3. \A q, n, h : E(q, n, h).phase = q /\ E(q, n, h).attempt = n /\ E(q, n, h).given = h
    OBVIOUS
  <1> HIDE DEF E
  <1>4. ASSUME NEW From, NEW To, From.phase # "none", To.attempt = b, From.attempt = a, b > a,
               To = [From EXCEPT !.phase = "waiting", !.attempt = b]
        PROVE  Ledger!Renew(From, To)
    BY <1>4 DEF Ledger!Renew
  <1>5. ASSUME NEW From, NEW To, From.phase = "waiting", From.attempt = a, From.given = g, a \notin g,
               To = [From EXCEPT !.phase = "running", !.given = g \cup {a}]
        PROVE  Ledger!Execute(From, To)
    BY <1>5 DEF Ledger!Execute
  <1>6. p # "none" /\ b > a => Ledger!Renew(E(p, a, g), E("waiting", b, g))
    <2> DEFINE From == E(p, a, g)
               To == E("waiting", b, g)
    <2>1. From.phase = p /\ From.attempt = a /\ To.attempt = b
      BY <1>3
    <2>2. To = [From EXCEPT !.phase = "waiting", !.attempt = b]
      BY <1>1
    <2> HIDE DEF From, To
    <2>3. p # "none" /\ b > a => Ledger!Renew(From, To)
      BY <1>4, <2>1, <2>2
    <2> QED BY <2>3 DEF From, To
  <1>7. a \notin g => Ledger!Execute(E("waiting", a, g), E("running", a, g \cup {a}))
    <2> DEFINE From == E("waiting", a, g)
               To == E("running", a, g \cup {a})
    <2>1. From.phase = "waiting" /\ From.attempt = a /\ From.given = g
      BY <1>3
    <2>2. To = [From EXCEPT !.phase = "running", !.given = g \cup {a}]
      BY <1>2
    <2> HIDE DEF From, To
    <2>3. a \notin g => Ledger!Execute(From, To)
      BY <1>5, <2>1, <2>2
    <2> QED BY <2>3 DEF From, To
  <1> QED BY <1>6, <1>7 DEF E

\* A step that hands out and tells nothing moves an attempt as allowed, or renews it.
LEMMA EntryMoves ==
    ASSUME TypeOK, TypeOK', UNCHANGED <<handed, told>>, NEW j \in Job,
           \/ db'.token[j] = db.token[j] /\ Allowed(j, db'.status[j])
           \/ db'.token[j] > db.token[j] /\ db.status[j] # "absent" /\ db'.status[j] \in Unhanded
    PROVE  Entry(j)' = Entry(j) \/ Ledger!Changes(Entry(j), Entry(j)')
  <1> DEFINE E == Entry(j)
             F == [phase |-> Phase(db'.status[j]), attempt |-> db'.token[j],
                   given |-> E.given, outcome |-> E.outcome]
  <1>1. Entry(j)' = F
    BY DEF Entry
  <1>2. E = [phase |-> Phase(db.status[j]), attempt |-> db.token[j],
             given |-> E.given, outcome |-> E.outcome]
    BY DEF Entry
  <1>3. /\ db.status[j] \in Status /\ db'.status[j] \in Status
        /\ db.token[j] \in Nat /\ db'.token[j] \in Nat
    BY DEF TypeOK, DbState
  <1>4. /\ \A n : n \in E.given <=> <<j, n>> \in handed
        /\ \A n, r : <<n, r>> \in E.outcome <=>
                        \E m \in told : m.job = j /\ m.token = n /\ m.state = r
    BY EntryOf
  <1> HIDE DEF E
  <1>5. F = [phase |-> Phase(db'.status[j]), attempt |-> db'.token[j],
             given |-> E.given, outcome |-> E.outcome]
    OBVIOUS
  <1> HIDE DEF F
  <1>6. CASE db'.token[j] > db.token[j] /\ db.status[j] # "absent" /\ db'.status[j] \in Unhanded
    <2>1. Phase(db.status[j]) # "none" /\ Phase(db'.status[j]) = "waiting"
      BY <1>3, <1>6, PhaseOf
    <2>2. F = [phase |-> "waiting", attempt |-> db'.token[j], given |-> E.given,
               outcome |-> E.outcome]
      BY <1>5, <2>1
    <2>3. Ledger!Renew(E, F)
      BY <1>2, <1>3, <1>6, <2>1, <2>2, EntriesChange
    <2> QED BY <1>1, <2>3 DEF Ledger!Changes, E
  <1>7. CASE db'.token[j] = db.token[j] /\ Allowed(j, db'.status[j])
    <2>1. CASE Phase(db'.status[j]) = Phase(db.status[j])
      BY <1>1, <1>2, <1>5, <1>7, <2>1 DEF E
    <2>2. CASE /\ Phase(db.status[j]) \in {"running", "off"} /\ db'.status[j] \in Result
               /\ \E m \in told : m.job = j /\ m.token = db.token[j] /\ m.state = db'.status[j]
      <3>1. Phase(db'.status[j]) = db'.status[j]
        BY <1>3, <2>2, PhaseOf
      <3>2. <<db.token[j], db'.status[j]>> \in E.outcome
        BY <1>4, <2>2
      <3>3. Ledger!Decide(E, F)
        BY <1>2, <1>5, <1>7, <2>2, <3>1, <3>2 DEF Ledger!Decide, Ledger!Result, Result
      <3> QED BY <1>1, <3>3 DEF Ledger!Changes, E
    <2>3. CASE Phase(db.status[j]) \in {"waiting", "running"} /\ Phase(db'.status[j]) = "off"
      <3>1. Ledger!Withdraw(E, F)
        BY <1>2, <1>5, <1>7, <2>3 DEF Ledger!Withdraw
      <3> QED BY <1>1, <3>1 DEF Ledger!Changes, E
    <2>4. CASE /\ Phase(db.status[j]) = "off" /\ Phase(db'.status[j]) = "running"
               /\ <<j, db.token[j]>> \in handed
               /\ ~\E m \in told : m.job = j /\ m.token = db.token[j]
      <3>1. db.token[j] \in E.given /\ \A r : <<db.token[j], r>> \notin E.outcome
        BY <1>4, <2>4
      <3>2. Ledger!Resume(E, F)
        BY <1>2, <1>5, <1>7, <2>4, <3>1 DEF Ledger!Resume, Ledger!Undecided
      <3> QED BY <1>1, <3>2 DEF Ledger!Changes, E
    <2> QED BY <1>7, <2>1, <2>2, <2>3, <2>4 DEF Allowed
  <1> QED BY <1>6, <1>7

\* A commit of an effect that follows the ledger.
LEMMA FollowingCommit ==
    ASSUME TypeOK, TypeOK', NEW q, NEW s \in DbState, NEW v \in DbState, NEW x,
           Handled(q, s, v, x), Follows(s, v),
           \A j \in Job : db.status[j] = "absent" => s.status[j] = "absent"
    PROVE  /\ LedgerStep
           /\ \A j \in Job : db.status[j] = "absent" => db'.status[j] = "absent"
  <1>1. StoresJobs(s, v) /\ UNCHANGED <<handed, told>>
    BY CommitType DEF Handled, Serve, runnerVars
  <1>2. ASSUME NEW j \in Job
        PROVE  /\ \/ db'.token[j] = db.token[j] /\ Allowed(j, db'.status[j])
                  \/ /\ db'.token[j] > db.token[j] /\ db.status[j] # "absent"
                     /\ db'.status[j] \in Unhanded
               /\ db.status[j] = "absent" => db'.status[j] = "absent"
    <2>1. db'.status[j] = IF v.status[j] # s.status[j] THEN v.status[j] ELSE db.status[j]
      BY <1>1 DEF StoresJobs, Written, TypeOK, DbState
    <2>2. CASE /\ v.token[j] = NewToken /\ v.status[j] \in Unhanded
               /\ v.status[j] # s.status[j] \/ s = db
               /\ s.status[j] # "absent"
      <3>1. db'.token[j] = issued[j] + 1 /\ db.token[j] \in 1 .. issued[j] /\ issued[j] \in Nat
        BY <1>1, <2>2 DEF StoresJobs, Flushed, TypeOK
      <3>2. db'.token[j] > db.token[j]
        BY <3>1
      <3>3. db.status[j] # "absent" /\ db'.status[j] \in Unhanded
        BY <2>1, <2>2
      <3> QED BY <3>2, <3>3
    <2>3. CASE /\ v.token[j] # NewToken
               /\ v.status[j] = s.status[j] \/ (s = db /\ Allowed(j, v.status[j]))
      <3>1. db'.token[j] = db.token[j]
        BY <1>1, <2>3 DEF StoresJobs, Flushed
      <3>2. Allowed(j, db'.status[j])
        <4>1. Allowed(j, db.status[j])
          BY DEF Allowed
        <4> QED BY <4>1, <2>1, <2>3
      <3>3. db.status[j] = "absent" => db'.status[j] = "absent"
        <4>1. db.status[j] \in Status /\ db'.status[j] \in Status
          BY DEF TypeOK, DbState
        <4>2. Phase(db.status[j]) = "none" => Phase(db'.status[j]) = "none"
          BY <3>2 DEF Allowed
        <4> QED BY <4>1, <4>2, PhaseOf
      <3> QED BY <3>1, <3>2, <3>3
    <2> QED BY <2>2, <2>3 DEF Follows
  <1> QED BY <1>1, <1>2, EntryMoves DEF LedgerStep

\* The effects of the handlers that report nothing.
LEMMA EffectsFollow ==
    ASSUME TypeOK, NEW s \in DbState, \A i \in Job : s.token[i] # NewToken, NEW j \in Job, NEW J
    PROVE  /\ s = db /\ db.status[j] = "manual" => Follows(s, Played(s, j))
           /\ s = db => Follows(s, Canceled(s, J))
           /\ Follows(s, ResetForRetry(s, J \cap Retryable(s)))
           /\ s = db /\ db.status[j] # "absent" => Follows(s, Requeued(s, j))
           /\ s = db => Follows(s, Promoted(s))
  <1>1. ASSUME s = db, db.status[j] = "manual"
        PROVE  Follows(s, Played(s, j))
    BY <1>1 DEF Played, WithStatus, Follows, Allowed, Phase, DbState
  <1>2. ASSUME s = db
        PROVE  Follows(s, Canceled(s, J))
    <2>1. ASSUME NEW i \in Job
          PROVE  /\ Canceled(s, J).token[i] # NewToken
                 /\ \/ Canceled(s, J).status[i] = s.status[i]
                    \/ i \in Cancelable(s) /\ Canceled(s, J).status[i] = "canceled"
      BY DEF Canceled, WithStatus, DbState
    <2>2. ASSUME NEW i \in Cancelable(s)
          PROVE  Allowed(i, "canceled")
      BY <1>2, <2>2 DEF Cancelable, Allowed, Phase
    <2> QED BY <1>2, <2>1, <2>2 DEF Follows
  <1>3. Follows(s, ResetForRetry(s, J \cap Retryable(s)))
    BY DEF ResetForRetry, Retryable, Follows, Unhanded, DbState
  <1>4. ASSUME s = db, db.status[j] # "absent"
        PROVE  Follows(s, Requeued(s, j))
    BY <1>4 DEF Requeued, WithStatus, ResetForRetry, Follows, Unhanded, DbState
  <1>5. ASSUME s = db
        PROVE  Follows(s, Promoted(s))
    <2>1. ASSUME NEW i \in Job
          PROVE  /\ Promoted(s).token[i] # NewToken
                 /\ \/ Promoted(s).status[i] = s.status[i]
                    \/ s.status[i] = "scheduled" /\ Promoted(s).status[i] = "pending"
      BY DEF Promoted, WithStatus, DbState
    <2>2. ASSUME NEW i \in Job, db.status[i] = "scheduled"
          PROVE  Allowed(i, "pending")
      BY <2>2 DEF Allowed, Phase
    <2> QED BY <1>5, <2>1, <2>2 DEF Follows
  <1> QED BY <1>1, <1>2, <1>3, <1>4, <1>5

\* A report resumes or decides its own attempt, skips jobs that wait, or begins
\* the next attempt of its job.
LEMMA ReportFollows ==
    ASSUME LedgerInv, NEW m \in Sendable, db.token[m.job] = m.token
    PROVE  Follows(db, Reported(db, m))
  <1> DEFINE p == Pipe(m.job)
             Skipped == SkipOnFailureJobs(WithStatus(db, {m.job}, m.state), p)
             Stored == [Skipped EXCEPT !.exit = [Skipped.exit EXCEPT ![m.job] = m.exit]]
             Mine(v, j) == /\ v.token[j] # NewToken
                           /\ IF j = m.job THEN v.status[j] = m.state
                              ELSE \/ v.status[j] = db.status[j]
                                   \/ /\ db.status[j] \in {"pending", "scheduled"}
                                      /\ v.status[j] = "skipped"
  <1>0. TypeOK /\ FreshInv /\ EarnedInv /\ db \in DbState /\ m \in Report
    BY SendableType DEF LedgerInv, FinalInv, FreshInv, TypeOK
  <1>1. /\ m.job \in Job /\ m.state \in Status /\ m.state \in {"running", "success", "failed"}
        /\ \A j \in Job : db.token[j] # NewToken
    BY <1>0 DEF Report, Status, TypeOK, NewToken
  <1>2. /\ <<m.job, db.token[m.job]>> \in handed
        /\ \/ m \in told /\ m.state \in Result
           \/ /\ m.state = "running"
              /\ ~\E n \in told : n.job = m.job /\ n.token = db.token[m.job]
    <2>1. CASE m \in told
      BY <1>0, <2>1 DEF EarnedInv, LedgerInv
    <2>2. ASSUME NEW b \in held, Working(b), m = Keepalive(b)
          PROVE  /\ <<m.job, db.token[m.job]>> \in handed /\ m.state = "running"
                 /\ ~\E n \in told : n.job = m.job /\ n.token = db.token[m.job]
      BY <1>0, <2>2 DEF Keepalive, Working, TypeOK, Attempt
    <2> QED BY <2>1, <2>2 DEF Sendable
  <1>3. db.status[m.job] \notin Unstarted /\ db.status[m.job] \in Status
    BY <1>0, <1>1, <1>2 DEF FreshInv, DbState
  <1>4. Allowed(m.job, m.state)
    <2>1. CASE db.status[m.job] \in Result
      <3>1. PICK n \in told : /\ n.job = m.job
                              /\ n.token = db.token[m.job]
                              /\ n.state = db.status[m.job]
        BY <1>0, <1>1, <2>1 DEF EarnedInv, ResultsAreEarned, Result
      <3>2. m \in told
        BY <1>2, <3>1
      <3>3. m = n
        BY <3>1, <3>2 DEF LedgerInv, FinalInv, ToldOnce
      <3> QED BY <3>1, <3>3 DEF Allowed
    <2>2. CASE db.status[m.job] \notin Result
      <3>1. Phase(db.status[m.job]) \in {"running", "off"} /\ Phase("running") = "running"
        BY <1>3, <2>2 DEF Phase, Unstarted, Status, Result
      <3>2. CASE m \in told /\ m.state \in Result
        BY <3>1, <3>2 DEF Allowed
      <3>3. CASE m.state = "running" /\ ~\E n \in told : n.job = m.job /\ n.token = db.token[m.job]
        BY <1>2, <3>1, <3>3 DEF Allowed
      <3> QED BY <1>2, <3>2, <3>3
    <2> QED BY <2>1, <2>2
  <1>5. Stored \in DbState /\ \A j \in Job : Mine(Stored, j)
    <2>1. WithStatus(db, {m.job}, m.state) \in DbState
      BY <1>0, <1>1, WithStatusType
    <2>2. Skipped \in DbState
      BY <2>1, SkipType
    <2>3. Stored \in DbState
      BY <1>0, <2>2 DEF DbState, Report
    <2>4. \A j \in Job : Mine(Skipped, j)
      BY <1>0, <1>1 DEF SkipOnFailureJobs, WithStatus, DbState
    <2> HIDE DEF Skipped
    <2> QED BY <2>2, <2>3, <2>4 DEF DbState
  <1> HIDE DEF Stored
  <1>6. \A j \in Job : Mine(SkipJobsAfterFailedStage(Stored, p), j)
    BY <1>1, <1>5 DEF SkipJobsAfterFailedStage, WithStatus, DbState
  <1>7. ASSUME NEW v, \A j \in Job : Mine(v, j)
        PROVE  Follows(db, v)
    <2>1. \A j \in Job : db.status[j] \in {"pending", "scheduled"} => Allowed(j, "skipped")
      BY DEF Allowed, Phase
    <2> QED BY <1>4, <1>7, <2>1 DEF Follows
  <1>8. Follows(db, AutoRetried(Stored, m.job))
    <2> DEFINE v == AutoRetried(Stored, m.job)
    <2>1. /\ v.token[m.job] = NewToken /\ v.status[m.job] \in Unhanded
          /\ \A j \in Job : j # m.job => Mine(v, j)
      BY <1>1, <1>5 DEF AutoRetried, ResetForRetry, DbState, Unhanded
    <2> HIDE DEF v
    <2>2. db.status[m.job] # "absent"
      BY <1>3 DEF Unstarted
    <2>3. \A j \in Job : db.status[j] \in {"pending", "scheduled"} => Allowed(j, "skipped")
      BY DEF Allowed, Phase
    <2> QED BY <2>1, <2>2, <2>3 DEF Follows, v
  <1> QED BY <1>5, <1>6, <1>7, <1>8 DEF Reported, Stored

\* No handler takes a pipeline away.
LEMMA EffectsKeepPipelines ==
    ASSUME TypeOK, NEW q, NEW s \in DbState, NEW v, Effect(q, s, v)
    PROVE  KeepsPipelines(s, v)
  <1>1. \A j \in Job : KeepsPipelines(s, Played(s, j)) /\ KeepsPipelines(s, Requeued(s, j))
    BY DEF Played, Requeued, ResetForRetry, WithStatus, KeepsPipelines, DbState
  <1>2. ASSUME NEW p \in Pipeline
        PROVE  KeepsPipelines(s, [Canceled(s, JobsOf(p)) EXCEPT
                                    !.verdict = [s.verdict EXCEPT ![p] = "canceled"],
                                    !.finished = [s.finished EXCEPT ![p] = TRUE]])
    BY DEF Canceled, WithStatus, KeepsPipelines, DbState
  <1>3. \A J : KeepsPipelines(s, ResetForRetry(s, J)) /\ KeepsPipelines(s, Canceled(s, J))
    BY DEF ResetForRetry, Canceled, WithStatus, KeepsPipelines, DbState
  <1>4. KeepsPipelines(s, Promoted(s))
    BY DEF Promoted, WithStatus, KeepsPipelines, DbState
  <1>5. \A m \in Sendable \cup BeingServed : KeepsPipelines(s, Reported(s, m))
    BY SendableType, ReportedQueuesFresh
  <1> QED BY <1>1, <1>2, <1>3, <1>4, <1>5 DEF Effect

\* Every handler follows the ledger if only retries are interrupted.
LEMMA HandleFollows ==
    ASSUME LedgerInv, Split \subseteq {"retry", "retry_pipeline"}, Handle
    PROVE  LedgerStep /\ PipelinesHaveJobs'
  <1>0. TypeOK /\ TypeOK'
    BY HandleType DEF LedgerInv, FinalInv, FreshInv
  <1>1. PICK q, s, v, x : Handled(q, s, v, x) /\ Effect(q, s, v)
    BY HandlersHaveEffects
  <1>2. s \in DbState /\ v \in DbState
    BY <1>0, <1>1, SnapshotType, EffectType DEF Handled
  <1>3. /\ q[1] \notin {"retry", "retry_pipeline"} => s = db
        /\ Accepts(s, q)
    BY <1>1 DEF Handled, Snapshots, Serve
  <1>4. /\ \A i \in Job : s.token[i] # NewToken
        /\ \A i \in Job : db.status[i] = "absent" => s.status[i] = "absent"
    BY <1>0, <1>1 DEF Handled, Snapshots, SnapshotsAreStored, LedgerInv, FinalInv, TypeOK, NewToken
  <1>5. ASSUME NEW j \in Job, q = <<"play", j>>, v = Played(s, j)
        PROVE  Follows(s, v)
    <2>1. s = db /\ db.status[j] = "manual"
      BY <1>3, <1>5 DEF Accepts, JobOps, PipelineOps
    <2> QED BY <1>0, <1>2, <1>4, <1>5, <2>1, EffectsFollow
  <1>6. ASSUME NEW j \in Job, q = <<"requeue", j>>, v = Requeued(s, j)
        PROVE  Follows(s, v)
    <2>1. s = db /\ db.status[j] # "absent"
      BY <1>3, <1>6 DEF Accepts, JobOps, PipelineOps
    <2> QED BY <1>0, <1>2, <1>4, <1>6, <2>1, EffectsFollow
  <1>7. ASSUME NEW j \in Job, NEW J, q[1] \in {"cancel", "cancel_in_ui"}, v = Canceled(s, J)
        PROVE  Follows(s, v)
    BY <1>0, <1>2, <1>3, <1>4, <1>7, EffectsFollow
  <1>8. ASSUME NEW j \in Job, NEW J, v = ResetForRetry(s, J \cap Retryable(s))
        PROVE  Follows(s, v)
    BY <1>0, <1>2, <1>4, <1>8, EffectsFollow
  <1>9. ASSUME NEW j \in Job, NEW p \in Pipeline, q = <<"cancel_pipeline", p>>,
               v = [Canceled(s, JobsOf(p)) EXCEPT
                      !.verdict = [s.verdict EXCEPT ![p] = "canceled"],
                      !.finished = [s.finished EXCEPT ![p] = TRUE]]
        PROVE  Follows(s, v)
    <2> DEFINE w == Canceled(s, JobsOf(p))
    <2>1. s = db
      BY <1>3, <1>9
    <2>2. w \in DbState
      BY <1>2, WithStatusType DEF Canceled, Status
    <2>3. Follows(s, w)
      BY <1>0, <1>2, <1>4, <2>1, EffectsFollow
    <2>4. v.status = w.status /\ v.token = w.token
      BY <1>9, <2>2 DEF DbState
    <2> QED BY <2>3, <2>4 DEF Follows
  <1>10. ASSUME NEW m \in Sendable, q = <<"update", m>>, v = Reported(s, m)
         PROVE  Follows(s, v)
    <2>1. s = db /\ db.token[m.job] = m.token
      BY <1>3, <1>10 DEF Accepts, JobOps, PipelineOps
    <2> QED BY <1>10, <2>1, ReportFollows
  <1>11. ASSUME NEW j \in Job, q = <<"promote", "due">>, v = Promoted(s)
         PROVE  Follows(s, v)
    <2>1. s = db
      BY <1>3, <1>11
    <2> QED BY <1>0, <1>2, <1>4, <1>11, <2>1, EffectsFollow
  <1>12. Follows(s, v)
    <2>1. SUFFICES ASSUME NEW j \in Job
                   PROVE  Follows(s, v)
      BY DEF Follows
    <2>2. \A p : {i \in JobsOf(p) \cap Retryable(s) : s.status[i] # "success"}
                    = {i \in JobsOf(p) : s.status[i] # "success"} \cap Retryable(s)
      OBVIOUS
    <2>3. ASSUME NEW i \in Job,
                 \/ q = <<"play", i>> /\ v = Played(s, i)
                 \/ q = <<"cancel", i>> /\ v = Canceled(s, {i})
                 \/ q = <<"retry", i>> /\ v = ResetForRetry(s, {i} \cap Retryable(s))
                 \/ q = <<"requeue", i>> /\ v = Requeued(s, i)
          PROVE  Follows(s, v)
      BY <1>5, <1>6, <1>7, <1>8, <2>3
    <2>4. ASSUME NEW p \in Pipeline, q = <<"cancel_in_ui", p>>, v = Canceled(s, JobsOf(p))
          PROVE  Follows(s, v)
      BY <1>7, <2>1, <2>4
    <2>5. ASSUME NEW p \in Pipeline,
                 v = ResetForRetry(s, {i \in JobsOf(p) \cap Retryable(s) : s.status[i] # "success"})
          PROVE  Follows(s, v)
      BY <1>8, <2>1, <2>2, <2>5
    <2>6. ASSUME NEW m \in Sendable \cup BeingServed,
                 q = <<"update", m>> /\ v = Reported(s, m) /\ ("update" \notin Split => m \in Sendable)
          PROVE  Follows(s, v)
      BY <1>10, <2>6
    <2> QED BY <1>1, <1>9, <1>11, <2>1, <2>3, <2>4, <2>5, <2>6 DEF Effect
  <1>13. LedgerStep /\ \A j \in Job : db.status[j] = "absent" => db'.status[j] = "absent"
    BY <1>0, <1>1, <1>2, <1>4, <1>12, FollowingCommit
  <1>14. \A p \in Pipeline : db.verdict[p] # "absent" => db'.verdict[p] # "absent"
    BY <1>0, <1>1, <1>2, PipelinesStay, EffectsKeepPipelines DEF Handled
  <1> QED BY <1>13, <1>14, PipeType DEF PipelinesHaveJobs, LedgerInv

\* The poll gives out the current attempt of a job that waits.
LEMMA RequestFollows ==
    ASSUME LedgerInv, NEW r \in Runner, RequestJob(r)
    PROVE  LedgerStep /\ PipelinesHaveJobs'
  <1> DEFINE s == Promoted(db)
  <1>0. TypeOK /\ TypeOK' /\ FreshInv /\ told' = told
    BY RequestJobType DEF LedgerInv, FinalInv, FreshInv, RequestJob
  <1>1. /\ s \in DbState /\ s.token = db.token
        /\ \A k \in Job : \/ s.status[k] = db.status[k]
                          \/ db.status[k] = "scheduled" /\ s.status[k] = "pending"
        /\ \A p \in Pipeline : s.verdict[p] = "absent" => db.verdict[p] = "absent"
    BY <1>0, PromotedType DEF Promoted, WithStatus, TypeOK, DbState
  <1> HIDE DEF s
  <1>2. ASSUME NEW k \in Job, db'.token[k] = db.token[k],
               {h \in handed' : h[1] = k} = {h \in handed : h[1] = k},
               \/ db'.status[k] = db.status[k]
               \/ db.status[k] = "scheduled" /\ db'.status[k] = "pending"
        PROVE  Entry(k)' = Entry(k)
    <2>1. Phase(db'.status[k]) = Phase(db.status[k])
      BY <1>2 DEF Phase
    <2> QED BY <1>0, <1>2, <2>1 DEF Entry
  <1>3. ASSUME NEW j \in Runnable(s, r),
               db' = [WithStatus(s, {j}, "running") EXCEPT
                         !.verdict = [s.verdict EXCEPT ![Pipe(j)] = "running"]],
               handed' = handed \cup {<<j, s.token[j]>>}
        PROVE  LedgerStep /\ PipelinesHaveJobs'
    <2>1. j \in Job /\ Pipe(j) \in Pipeline /\ s.status[j] = "pending"
      BY EligibleIsTyped, PipeType DEF Runnable
    <2>2. /\ db'.token = db.token
          /\ \A k \in Job : db'.status[k] = IF k = j THEN "running" ELSE s.status[k]
          /\ \A p \in Pipeline : db'.verdict[p] = IF p = Pipe(j) THEN "running" ELSE s.verdict[p]
      BY <1>1, <1>3, <2>1 DEF WithStatus, DbState
    <2>3. ASSUME NEW k \in Job, k # j
          PROVE  Entry(k)' = Entry(k)
      <3>1. {h \in handed' : h[1] = k} = {h \in handed : h[1] = k}
        BY <1>3, <2>3
      <3> QED BY <1>1, <1>2, <2>2, <2>3, <3>1
    <2>4. Ledger!Execute(Entry(j), Entry(j)')
      <3>1. db.status[j] \in {"scheduled", "pending"}
        BY <1>1, <2>1
      <3>2. Phase(db.status[j]) = "waiting" /\ Phase(db'.status[j]) = "running"
        BY <2>1, <2>2, <3>1 DEF Phase
      <3>3. db.token[j] \notin Entry(j).given
        BY <1>0, <2>1, <3>1, EntryOf DEF FreshInv, Unstarted
      <3>4. {h \in handed' : h[1] = j} = {h \in handed : h[1] = j} \cup {<<j, db.token[j]>>}
        BY <1>1, <1>3
      <3>5. {a[2] : a \in {h \in handed' : h[1] = j}} =
                {a[2] : a \in {h \in handed : h[1] = j}} \cup {db.token[j]}
        <4> DEFINE G == {h \in handed : h[1] = j}
        <4>1. {h \in handed' : h[1] = j} = G \cup {<<j, db.token[j]>>}
          BY <3>4
        <4> HIDE DEF G
        <4>2. <<j, db.token[j]>>[2] = db.token[j]
          OBVIOUS
        <4>3. {a[2] : a \in G \cup {<<j, db.token[j]>>}} = {a[2] : a \in G} \cup {db.token[j]}
          BY <4>2, Zenon
        <4> QED BY <4>1, <4>3 DEF G
      <3>6. /\ Entry(j) = [phase |-> "waiting", attempt |-> db.token[j], given |-> Entry(j).given,
                           outcome |-> Entry(j).outcome]
            /\ Entry(j)' = [phase |-> "running", attempt |-> db.token[j],
                            given |-> Entry(j).given \cup {db.token[j]},
                            outcome |-> Entry(j).outcome]
        BY <1>0, <2>2, <3>2, <3>5 DEF Entry
      <3>7. db.token[j] \in Nat
        BY <1>0, <2>1 DEF TypeOK, DbState
      <3> QED BY <3>3, <3>6, <3>7, EntriesChange
    <2>5. PipelinesHaveJobs'
      <3>1. ASSUME NEW k \in Job, db'.verdict[Pipe(k)] = "absent"
            PROVE  db'.status[k] = "absent"
        <4>1. Pipe(k) \in Pipeline /\ Pipe(k) # Pipe(j)
          BY <2>1, <2>2, <3>1, PipeType
        <4>2. db.status[k] = "absent"
          BY <1>1, <2>2, <3>1, <4>1 DEF LedgerInv, PipelinesHaveJobs
        <4> QED BY <1>1, <2>2, <4>1, <4>2
      <3> QED BY <3>1 DEF PipelinesHaveJobs
    <2> QED BY <2>3, <2>4, <2>5 DEF LedgerStep, Ledger!Changes
  <1>4. CASE db' = s /\ UNCHANGED handed
    <2>1. LedgerStep
      BY <1>1, <1>2, <1>4 DEF LedgerStep
    <2>2. PipelinesHaveJobs'
      BY <1>1, <1>4, PipeType DEF LedgerInv, PipelinesHaveJobs
    <2> QED BY <2>1, <2>2
  <1> QED BY <1>3, <1>4 DEF RequestJob, s

\* A new pipeline creates its jobs and withdraws those it makes redundant.
LEMMA CreationFollows ==
    ASSUME LedgerInv, NEW p \in Pipeline, CreatePipeline(p)
    PROVE  LedgerStep /\ PipelinesHaveJobs'
  <1> DEFINE Old == {o \in Pipeline : Ref[o] = Ref[p] /\ db.verdict[o] # "absent"}
             Victims == {j \in Cancelable(db) : Pipe(j) \in Old /\ Def[j].interruptible}
             I == Concluded(Canceled(db, Victims), {Pipe(j) : j \in Victims})
             F(j) == CASE Def[j].when = "manual" -> "manual"
                       [] Def[j].when = "delayed" -> "scheduled"
                       [] OTHER -> "pending"
  <1>0. TypeOK /\ TypeOK' /\ UNCHANGED <<handed, told>> /\ db.verdict[p] = "absent"
    BY CreatePipelineType DEF LedgerInv, FinalInv, FreshInv, CreatePipeline, runnerVars
  <1>1. /\ I \in DbState
        /\ I.token = db.token
        /\ \A j \in Job : \/ I.status[j] = db.status[j]
                          \/ j \in Cancelable(db) /\ I.status[j] = "canceled"
        /\ \A o \in Pipeline : I.verdict[o] = "absent" => db.verdict[o] = "absent"
    <2>1. I \in DbState
      BY <1>0, WithStatusType, ConcludedType DEF Canceled, Status, TypeOK
    <2>2. \A o \in Pipeline : DerivedVerdict(Canceled(db, Victims), o) # "absent"
      BY DEF DerivedVerdict
    <2>3. \A o \in Pipeline : I.verdict[o] = "absent" => db.verdict[o] = "absent"
      BY <2>2, <1>0 DEF Concluded, Canceled, WithStatus, TypeOK, DbState
    <2>4. /\ I.token = db.token
          /\ \A j \in Job : \/ I.status[j] = db.status[j]
                            \/ j \in Cancelable(db) /\ I.status[j] = "canceled"
      BY <1>0 DEF Concluded, Canceled, WithStatus, TypeOK, DbState
    <2> QED BY <2>1, <2>3, <2>4
  <1>2. db' = [I EXCEPT !.status = [j \in Job |-> IF j \in JobsOf(p) THEN F(j)
                                                  ELSE I.status[j]],
                        !.verdict = [I.verdict EXCEPT ![p] = "pending"]]
    BY DEF CreatePipeline
  <1>3. \A j \in Job : F(j) \in Unhanded
    BY DEF Unhanded
  <1> HIDE DEF I, F
  <1>4. /\ db'.token = db.token
        /\ \A j \in Job : db'.status[j] = IF j \in JobsOf(p) THEN F(j) ELSE I.status[j]
        /\ \A o \in Pipeline : db'.verdict[o] = IF o = p THEN "pending" ELSE I.verdict[o]
    BY <1>1, <1>2 DEF DbState
  <1>5. ASSUME NEW j \in Job
        PROVE  Entry(j)' = Entry(j) \/ Ledger!Changes(Entry(j), Entry(j)')
    <2>1. CASE j \in JobsOf(p)
      <3>1. db.status[j] = "absent"
        BY <1>0, <2>1 DEF JobsOf, LedgerInv, PipelinesHaveJobs
      <3>2. Phase(db.status[j]) = "none" /\ Phase(db'.status[j]) = "waiting"
        BY <1>3, <1>4, <2>1, <3>1 DEF Phase, Unhanded
      <3>3. /\ Entry(j) = [phase |-> "none", attempt |-> db.token[j], given |-> Entry(j).given,
                           outcome |-> Entry(j).outcome]
            /\ Entry(j)' = [phase |-> "waiting", attempt |-> db.token[j], given |-> Entry(j).given,
                            outcome |-> Entry(j).outcome]
        BY <1>0, <1>4, <3>2 DEF Entry
      <3>4. Ledger!Create(Entry(j), Entry(j)')
        BY <3>3 DEF Ledger!Create
      <3> QED BY <3>4 DEF Ledger!Changes
    <2>2. CASE j \notin JobsOf(p)
      <3>1. Allowed(j, db'.status[j])
        <4>1. j \in Cancelable(db) => Allowed(j, "canceled")
          BY DEF Cancelable, Allowed, Phase
        <4>2. Allowed(j, db.status[j])
          BY DEF Allowed
        <4> QED BY <1>1, <1>4, <2>2, <4>1, <4>2
      <3> QED BY <1>0, <1>4, <3>1, EntryMoves
    <2> QED BY <2>1, <2>2
  <1>6. ASSUME NEW j \in Job, db'.verdict[Pipe(j)] = "absent"
        PROVE  db'.status[j] = "absent"
    <2>1. Pipe(j) \in Pipeline /\ Pipe(j) # p /\ j \notin JobsOf(p)
      BY <1>4, <1>6, PipeType DEF JobsOf
    <2>2. db.status[j] = "absent"
      BY <1>1, <1>4, <1>6, <2>1 DEF LedgerInv, PipelinesHaveJobs
    <2>3. j \notin Cancelable(db)
      BY <2>2 DEF Cancelable
    <2> QED BY <1>1, <1>4, <2>1, <2>2, <2>3
  <1> QED BY <1>5, <1>6 DEF LedgerStep, PipelinesHaveJobs

\* A runner reports once on an attempt it was given.
LEMMA FinishFollows ==
    ASSUME LedgerInv, NEW a \in held, NEW e \in Ending, Finish(a, e)
    PROVE  LedgerStep /\ \A m \in told' : m.state \in Result
  <1> DEFINE m == [job |-> a[1], token |-> a[2], state |-> e.state,
                   exit |-> e.exit, reason |-> e.reason]
             Of(T, j) == {<<n.token, n.state>> : n \in {k \in T : k.job = j}}
  <1>0. TypeOK /\ a \in handed /\ a = <<a[1], a[2]>> /\ a[1] \in Job
    BY DEF LedgerInv, FinalInv, FreshInv, TypeOK, Attempt
  <1>1. /\ told' = told \cup {m} /\ UNCHANGED <<db, handed>>
        /\ ~\E n \in told : n.job = a[1] /\ n.token = a[2]
        /\ e.state \in Result
    BY EndingsAreTyped DEF Finish, Working, Result
  <1>2. /\ \A j \in Job : j # a[1] => Of(told', j) = Of(told, j)
        /\ Of(told', a[1]) = Of(told, a[1]) \cup {<<a[2], e.state>>}
    <2>1. m.job = a[1] /\ m.token = a[2] /\ m.state = e.state
      OBVIOUS
    <2> HIDE DEF m
    <2>2. ASSUME NEW j \in Job, j # a[1]
          PROVE  Of(told', j) = Of(told, j)
      <3>1. {k \in told' : k.job = j} = {k \in told : k.job = j}
        BY <1>1, <2>1, <2>2
      <3> QED BY <3>1
    <2>3. Of(told', a[1]) = Of(told, a[1]) \cup {<<a[2], e.state>>}
      <3> DEFINE T == {k \in told : k.job = a[1]}
      <3>1. {k \in told' : k.job = a[1]} = T \cup {m}
        BY <1>1, <2>1
      <3> HIDE DEF T
      <3>2. {<<n.token, n.state>> : n \in T \cup {m}} =
                {<<n.token, n.state>> : n \in T} \cup {<<m.token, m.state>>}
        BY Zenon
      <3> QED BY <2>1, <3>1, <3>2 DEF T
    <2> QED BY <2>2, <2>3
  <1>3. \A j \in Job : Entry(j)' = [phase |-> Phase(db.status[j]), attempt |-> db.token[j],
                                    given |-> Entry(j).given, outcome |-> Of(told', j)]
    BY <1>1 DEF Entry
  <1>4. \A j \in Job : Entry(j) = [phase |-> Phase(db.status[j]), attempt |-> db.token[j],
                                   given |-> Entry(j).given, outcome |-> Of(told, j)]
    BY DEF Entry
  <1>5. a[2] \in Entry(a[1]).given /\ \A r : <<a[2], r>> \notin Entry(a[1]).outcome
    BY <1>0, <1>1, EntryOf
  <1> HIDE DEF Of
  <1>6. Entry(a[1])' = [Entry(a[1]) EXCEPT !.outcome = @ \cup {<<a[2], e.state>>}]
    BY <1>0, <1>2, <1>3, <1>4
  <1>7. Ledger!Report(Entry(a[1]), Entry(a[1])')
    BY <1>1, <1>5, <1>6 DEF Ledger!Report, Ledger!Result, Result
  <1>8. \A j \in Job : j # a[1] => Entry(j)' = Entry(j)
    BY <1>2, <1>3, <1>4
  <1>9. LedgerStep
    BY <1>7, <1>8 DEF LedgerStep, Ledger!Changes
  <1> QED BY <1>1, <1>9 DEF LedgerInv

\* Every step follows the ledger if only retries are interrupted.
LEMMA StepFollows ==
    ASSUME LedgerInv, Split \subseteq {"retry", "retry_pipeline"}, [Next]_vars
    PROVE  /\ LedgerStep /\ PipelinesHaveJobs'
           /\ \A m \in told' : m.state \in Result
  <1>0. TypeOK /\ db \in DbState
    BY DEF LedgerInv, FinalInv, FreshInv, TypeOK
  <1>1. CASE Handle
    <2>1. told' = told
      BY <1>1, HandlersHaveEffects DEF Handled, Serve, runnerVars
    <2> QED BY <1>1, <2>1, HandleFollows DEF LedgerInv
  <1>2. ASSUME NEW r \in Runner, RequestJob(r)
        PROVE  LedgerStep /\ PipelinesHaveJobs' /\ told' = told
    BY <1>2, RequestFollows DEF RequestJob
  <1>3. ASSUME NEW p \in Pipeline, CreatePipeline(p)
        PROVE  LedgerStep /\ PipelinesHaveJobs' /\ told' = told
    BY <1>3, CreationFollows DEF CreatePipeline, runnerVars
  <1>4. ASSUME NEW a \in held, NEW e \in Ending, Finish(a, e)
        PROVE  LedgerStep /\ PipelinesHaveJobs' /\ \A m \in told' : m.state \in Result
    BY <1>4, FinishFollows DEF Finish, LedgerInv, PipelinesHaveJobs
  <1>5. CASE /\ UNCHANGED <<handed, told>> /\ db'.token = db.token
             /\ db'.status = db.status /\ db'.verdict = db.verdict
    <2>1. LedgerStep
      BY <1>5 DEF LedgerStep, Entry
    <2> QED BY <1>5, <2>1 DEF PipelinesHaveJobs, LedgerInv
  <1>6. ASSUME NEW j \in Job, Elapse(j)
        PROVE  /\ UNCHANGED <<handed, told>> /\ db'.token = db.token
               /\ db'.status = db.status /\ db'.verdict = db.verdict
    BY <1>0, <1>6 DEF Elapse, runnerVars, DbState
  <1> QED BY <1>1, <1>2, <1>3, <1>4, <1>5, <1>6 DEF Next, vars, Read, Drop, runnerVars, LedgerInv

\* A job that is there stays there.
LEMMA JobsStay ==
    ASSUME TypeOK, TypeOK', LedgerStep, NEW j \in Job, db'.status[j] = "absent"
    PROVE  db.status[j] = "absent"
  <1>1. Entry(j).phase = Phase(db.status[j]) /\ Entry(j)'.phase = "none"
    BY DEF Entry, Phase
  <1>2. Entry(j) = [phase |-> Entry(j).phase, attempt |-> Entry(j).attempt,
                    given |-> Entry(j).given, outcome |-> Entry(j).outcome]
    BY DEF Entry
  <1>3. Ledger!Changes(Entry(j), Entry(j)') => Entry(j).phase = "none"
    BY <1>1, <1>2 DEF Ledger!Changes, Ledger!Create, Ledger!Execute, Ledger!Report, Ledger!Decide,
                      Ledger!Withdraw, Ledger!Resume, Ledger!Renew, Ledger!Result
  <1>4. Phase(db.status[j]) = "none" /\ db.status[j] \in Status
    BY <1>1, <1>3 DEF LedgerStep, TypeOK, DbState
  <1> QED BY <1>4, PhaseOf

\* Every step keeps LedgerInv if only retries are interrupted.
LEMMA LedgerNext ==
    ASSUME LedgerInv, Split \subseteq {"retry", "retry_pipeline"}, [Next]_vars
    PROVE  LedgerInv'
  <1>1. TypeOK /\ FinalInv' /\ TypeOK'
    BY FinalNext, NextType DEF LedgerInv, FinalInv, FreshInv
  <1>2. /\ LedgerStep /\ PipelinesHaveJobs'
        /\ \A m \in told' : m.state \in Result
    BY StepFollows
  <1>3. ASSUME NEW c \in Slot, call'[c] # Idle, NEW j \in Job, db'.status[j] = "absent"
        PROVE  call'[c].snap.status[j] = "absent"
    <2>1. db.status[j] = "absent"
      BY <1>1, <1>2, <1>3, JobsStay
    <2>2. call'[c] = call[c] \/ call'[c].snap = db
      BY <1>1, <1>3, CallsHaveRead
    <2> QED BY <1>3, <2>1, <2>2 DEF LedgerInv
  <1> QED BY <1>1, <1>2, <1>3 DEF LedgerInv

\* JobCoordinator implements AttemptLedger: if no handler but a retry is
\* interrupted between its read and its write, then an attempt is given out at
\* most once, a result is that of the runner's one report on it, a job comes
\* back from a cancellation only for a runner that goes on with the attempt,
\* and everything else that reopens a job begins an attempt with a new token.
THEOREM AttemptsFollowLedger ==
    ASSUME Split \subseteq {"retry", "retry_pipeline"}
    PROVE  Spec => FollowsLedger
  <1>1. Init => LedgerInv
    BY FinalInit DEF Init, LedgerInv, PipelinesHaveJobs
  <1>2. LedgerInv /\ [Next]_vars => LedgerInv'
    BY LedgerNext
  <1>3. Init => Ledger!Init
    <2>1. ASSUME Init, NEW j \in Job
          PROVE  Entry(j) = Ledger!New
      BY <2>1 DEF Init, Entry, Phase, Ledger!New
    <2> QED BY <2>1 DEF Ledger!Init
  <1>4. LedgerInv /\ [Next]_vars => [Ledger!Next]_([j \in Job |-> Entry(j)])
    BY StepFollows DEF LedgerStep, Ledger!Next
  <1> QED BY <1>1, <1>2, <1>3, <1>4, PTL DEF Spec, FollowsLedger, Ledger!Spec
=============================================================================
