----------------------------- MODULE OrderProofs -----------------------------
(***************************************************************************)
(* What runs at one time and in which order, for every configuration.      *)
(* Mutual exclusion inside a resource group needs that no job leaves and   *)
(* re-enters the state "running" within one attempt; the order of stages   *)
(* and needs holds as long as no user reopens what a job waited for.       *)
(***************************************************************************)
EXTENDS AttemptProofs, WellFoundedInduction
-----------------------------------------------------------------------------
(* An attempt that was handed out stays active until it is replaced.       *)

Cancels == {"cancel", "cancel_pipeline", "cancel_in_ui"}

\* A report in told is about the end of a script.
ToldEnds == \A m \in told : m.state \in Result

\* The attempt whose token a poll handed out runs or has a result.
HandedIsActive ==
    \A j \in Job : <<j, db.token[j]>> \in handed => db.status[j] \in Active

\* Inductive as long as nothing is canceled: an attempt is waiting, then
\* active, then replaced.
ActiveInv == FinalInv /\ ToldEnds /\ HandedIsActive

\* The effect v of a handler that read s takes no active attempt back.
EndsNoAttempt(s, v) ==
    \A j \in Job :
        \/ v.token[j] = NewToken
        \/ v.status[j] = s.status[j]
        \/ v.status[j] \in Active
        \/ s = db /\ db.status[j] \in Unstarted

\* Nothing that did not run before the step runs after it.
StartsNothing ==
    \A j \in Job : db'.status[j] = "running" => db.status[j] = "running"

\* What a report changes: its own job, and waiting jobs that are skipped.  The
\* reported job is either retried with a new token or shows the report.
LEMMA ReportRows ==
    ASSUME NEW s \in DbState, NEW m \in Report
    PROVE  LET v == Reported(s, m)
               retried == m.state = "failed" /\ ShouldAutoRetry(s, m.job, m.reason, m.exit)
           IN  /\ \A u \in Job \ {m.job} :
                     /\ v.token[u] = s.token[u]
                     /\ v.exit[u] = s.exit[u]
                     /\ v.retries[u] = s.retries[u]
                     /\ \/ v.status[u] = s.status[u]
                        \/ s.status[u] \in {"pending", "scheduled"} /\ v.status[u] = "skipped"
               /\ retried => /\ v.token[m.job] = NewToken
                             /\ v.status[m.job] \in {"pending", "scheduled"}
               /\ ~retried => /\ v.token[m.job] = s.token[m.job]
                              /\ v.status[m.job] = m.state
                              /\ v.exit[m.job] = m.exit
                              /\ v.retries[m.job] = s.retries[m.job]
  <1> DEFINE p == Pipe(m.job)
             Skipped == SkipOnFailureJobs(WithStatus(s, {m.job}, m.state), p)
             Stored == [Skipped EXCEPT !.exit = [Skipped.exit EXCEPT ![m.job] = m.exit]]
             Others(v) == \A u \in Job \ {m.job} :
                             /\ v.token[u] = s.token[u]
                             /\ v.exit[u] = s.exit[u]
                             /\ v.retries[u] = s.retries[u]
                             /\ \/ v.status[u] = s.status[u]
                                \/ s.status[u] \in {"pending", "scheduled"} /\ v.status[u] = "skipped"
             Shows(v) == /\ v.token[m.job] = s.token[m.job]
                         /\ v.status[m.job] = m.state
                         /\ v.exit[m.job] = m.exit
                         /\ v.retries[m.job] = s.retries[m.job]
  <1>1. m.job \in Job /\ m.state \in Active /\ m.exit \in ExitCode \cup {NoExit}
    BY DEF Report, Active
  <1>2. Skipped \in DbState
    BY <1>1, WithStatusType, SkipType DEF Active, Status
  <1>3. /\ Skipped.token = s.token /\ Skipped.exit = s.exit /\ Skipped.retries = s.retries
        /\ Skipped.status[m.job] = m.state
        /\ \A u \in Job \ {m.job} :
              \/ Skipped.status[u] = s.status[u]
              \/ s.status[u] \in {"pending", "scheduled"} /\ Skipped.status[u] = "skipped"
    BY <1>1 DEF SkipOnFailureJobs, WithStatus, DbState, Active
  <1> HIDE DEF Skipped
  <1>4. Stored \in DbState /\ Others(Stored) /\ Shows(Stored)
    BY <1>1, <1>2, <1>3 DEF DbState
  <1>5. Stored.retries = s.retries
    BY <1>2, <1>3 DEF DbState
  <1>6. ShouldAutoRetry(Stored, m.job, m.reason, m.exit)
            <=> ShouldAutoRetry(s, m.job, m.reason, m.exit)
    BY <1>5 DEF ShouldAutoRetry
  <1> HIDE DEF Stored
  <1>7. LET v == AutoRetried(Stored, m.job)
        IN  Others(v) /\ v.token[m.job] = NewToken /\ v.status[m.job] \in {"pending", "scheduled"}
    BY <1>1, <1>4 DEF AutoRetried, ResetForRetry, DbState
  <1>8. LET v == SkipJobsAfterFailedStage(Stored, p)
        IN  Others(v) /\ Shows(v)
    BY <1>1, <1>4 DEF SkipJobsAfterFailedStage, WithStatus, DbState, Active
  <1>9. CASE m.state # "failed"
    BY <1>9, <1>4 DEF Reported, Stored, Skipped
  <1>10. CASE m.state = "failed" /\ ShouldAutoRetry(s, m.job, m.reason, m.exit)
    <2>1. Reported(s, m) = AutoRetried(Stored, m.job)
      BY <1>6, <1>10 DEF Reported, Stored, Skipped
    <2> QED BY <1>7, <1>10, <2>1
  <1>11. CASE m.state = "failed" /\ ~ShouldAutoRetry(s, m.job, m.reason, m.exit)
    <2>1. Reported(s, m) = SkipJobsAfterFailedStage(Stored, p)
      BY <1>6, <1>11 DEF Reported, Stored, Skipped
    <2> QED BY <1>8, <1>11, <2>1
  <1> QED BY <1>9, <1>10, <1>11

\* A report that is accepted is about an active attempt: a keepalive about a
\* running one, a final report repeats the result there is, if there is one.
LEMMA ReportOnActive ==
    ASSUME ActiveInv, NEW m \in Sendable, db.token[m.job] = m.token
    PROVE  /\ m \in Report
           /\ db.status[m.job] \in Active
           /\ m.state = "running" => db.status[m.job] = "running"
           /\ db.status[m.job] \in Result => m \in told /\ m.state = db.status[m.job]
  <1>1. TypeOK /\ m \in Report /\ m.job \in Job
    BY SendableType DEF ActiveInv, FinalInv, FreshInv, Report
  <1>2. <<m.job, m.token>> \in handed
    <2>1. CASE m \in told
      BY <2>1 DEF ActiveInv, FinalInv, EarnedInv
    <2>2. ASSUME NEW b \in held, m = Keepalive(b)
          PROVE  <<m.job, m.token>> \in handed
      BY <2>2, <1>1 DEF Keepalive, TypeOK, Attempt
    <2> QED BY <2>1, <2>2 DEF Sendable
  <1>3. db.status[m.job] \in Active
    BY <1>1, <1>2 DEF ActiveInv, HandedIsActive
  <1>4. ASSUME db.status[m.job] \in Result
        PROVE  m \in told /\ m.state = db.status[m.job]
    <2>1. PICK n \in told : /\ n.job = m.job
                            /\ n.token = db.token[m.job]
                            /\ n.state = db.status[m.job]
      BY <1>1, <1>4 DEF ActiveInv, FinalInv, EarnedInv, ResultsAreEarned, Result
    <2>2. m \in told
      BY <2>1 DEF Sendable, Working, Keepalive
    <2> QED BY <2>1, <2>2 DEF ActiveInv, FinalInv, ToldOnce
  <1> QED BY <1>1, <1>3, <1>4 DEF Active, Result

\* A commit of an effect that ends no attempt keeps the handed attempts active.
LEMMA CommitKeepsActive ==
    ASSUME ActiveInv, NEW q, NEW s \in DbState, NEW v \in DbState, NEW x, Handled(q, s, v, x),
           EndsNoAttempt(s, v)
    PROVE  HandedIsActive'
  <1>1. TypeOK
    BY DEF ActiveInv, FinalInv, FreshInv
  <1>2. StoresJobs(s, v) /\ handed' = handed
    BY <1>1, CommitType DEF Handled, Serve, runnerVars
  <1>3. ASSUME NEW j \in Job, <<j, db'.token[j]>> \in handed
        PROVE  db'.status[j] \in Active
    <2>1. v.token[j] # NewToken
      <3>1. SUFFICES ASSUME v.token[j] = NewToken
                     PROVE  FALSE
        OBVIOUS
      <3>2. db'.token[j] = issued[j] + 1 /\ issued[j] \in Nat
        BY <1>1, <1>2, <3>1 DEF StoresJobs, Flushed, TypeOK
      <3>3. db'.token[j] <= issued[j]
        BY <1>3 DEF ActiveInv, FinalInv, FreshInv
      <3> QED BY <3>2, <3>3
    <2>2. db'.token[j] = db.token[j] /\ db.status[j] \in Active /\ db.status[j] \notin Unstarted
      <3>1. db'.token[j] = db.token[j]
        BY <1>2, <2>1 DEF StoresJobs, Flushed
      <3> QED BY <3>1, <1>3 DEF ActiveInv, HandedIsActive, Active, Unstarted
    <2>3. db'.status[j] = IF v.status[j] # s.status[j] THEN v.status[j] ELSE db.status[j]
      BY <1>1, <1>2 DEF StoresJobs, Written, TypeOK, DbState
    <2> QED BY <2>1, <2>2, <2>3 DEF EndsNoAttempt
  <1> QED BY <1>2, <1>3 DEF HandedIsActive

\* Without cancellations every handler ends an attempt only by a new token, and
\* none makes a job running that was not.
LEMMA EffectsEndNoAttempt ==
    ASSUME ActiveInv, Split \subseteq {"retry", "retry_pipeline"}, Ops \cap Cancels = {},
           NEW q, NEW s, NEW v, NEW x, Handled(q, s, v, x), Effect(q, s, v)
    PROVE  /\ EndsNoAttempt(s, v)
           /\ \A j \in Job : v.status[j] = "running" =>
                 v.status[j] = s.status[j] \/ (s = db /\ db.status[j] = "running")
  <1> DEFINE Starts == \A j \in Job : v.status[j] = "running" =>
                          v.status[j] = s.status[j] \/ (s = db /\ db.status[j] = "running")
  <1>0. TypeOK /\ s \in DbState
    BY SnapshotType DEF Handled, ActiveInv, FinalInv, FreshInv
  <1>1. q[1] \in Ops /\ Accepts(s, q) /\ (q[1] \notin {"retry", "retry_pipeline"} => s = db)
    BY DEF Handled, Serve, Snapshots
  <1>2. ASSUME NEW j \in Job, q = <<"play", j>>, v = Played(s, j)
        PROVE  EndsNoAttempt(s, v) /\ Starts
    <2>1. s = db /\ db.status[j] = "manual"
      BY <1>1, <1>2 DEF Accepts, JobOps, PipelineOps
    <2> QED BY <1>0, <1>2, <2>1 DEF Played, WithStatus, EndsNoAttempt, Unstarted, DbState
  <1>3. ASSUME NEW J, v = ResetForRetry(s, J)
        PROVE  EndsNoAttempt(s, v) /\ Starts
    BY <1>0, <1>3 DEF ResetForRetry, EndsNoAttempt, DbState
  <1>4. ASSUME NEW j \in Job, v = Requeued(s, j)
        PROVE  EndsNoAttempt(s, v) /\ Starts
    BY <1>0, <1>4 DEF Requeued, WithStatus, ResetForRetry, EndsNoAttempt, DbState
  <1>5. ASSUME NEW m \in Sendable, q = <<"update", m>>, v = Reported(s, m)
        PROVE  EndsNoAttempt(s, v) /\ Starts
    <2>1. s = db /\ db.token[m.job] = m.token
      BY <1>1, <1>5 DEF Accepts, JobOps, PipelineOps
    <2>2. m \in Report /\ m.job \in Job /\ (m.state = "running" => db.status[m.job] = "running")
      BY <2>1, ReportOnActive DEF Report
    <2>3. m.state \in Active
      BY <2>2 DEF Report, Active
    <2> QED BY <1>0, <1>5, <2>1, <2>2, <2>3, ReportRows DEF EndsNoAttempt, Unstarted
  <1>6. ASSUME q = <<"promote", "due">>, v = Promoted(s)
        PROVE  EndsNoAttempt(s, v) /\ Starts
    <2>1. s = db
      BY <1>1, <1>6
    <2> QED BY <1>0, <1>6, <2>1 DEF Promoted, WithStatus, EndsNoAttempt, Unstarted, DbState
  <1>7. q[1] \notin Cancels
    BY <1>1
  <1>8. ASSUME NEW j \in Job, q = <<"cancel", j>>
        PROVE  EndsNoAttempt(s, v) /\ Starts
    BY <1>7, <1>8 DEF Cancels
  <1>9. ASSUME NEW p \in Pipeline, q = <<"cancel_pipeline", p>> \/ q = <<"cancel_in_ui", p>>
        PROVE  EndsNoAttempt(s, v) /\ Starts
    BY <1>7, <1>9 DEF Cancels
  <1> HIDE DEF Starts
  <1>10. EndsNoAttempt(s, v) /\ Starts
    BY <1>2, <1>3, <1>4, <1>5, <1>6, <1>8, <1>9 DEF Effect
  <1> QED BY <1>10 DEF Starts

\* A handler keeps the handed attempts active and starts nothing.
LEMMA ActiveHandle ==
    ASSUME ActiveInv, Split \subseteq {"retry", "retry_pipeline"}, Ops \cap Cancels = {}, Handle
    PROVE  HandedIsActive' /\ StartsNothing
  <1>1. PICK q, s, v, x : Handled(q, s, v, x) /\ Effect(q, s, v)
    BY HandlersHaveEffects
  <1>2. TypeOK
    BY DEF ActiveInv, FinalInv, FreshInv
  <1>3. s \in DbState /\ v \in DbState
    BY <1>1, <1>2, SnapshotType, EffectType DEF Handled
  <1>4. /\ EndsNoAttempt(s, v)
        /\ \A j \in Job : v.status[j] = "running" =>
              v.status[j] = s.status[j] \/ (s = db /\ db.status[j] = "running")
    BY <1>1, EffectsEndNoAttempt
  <1>5. StoresJobs(s, v)
    BY <1>1, <1>2, <1>3, CommitType DEF Handled
  <1>6. StartsNothing
    BY <1>2, <1>4, <1>5 DEF StartsNothing, StoresJobs, Written, TypeOK, DbState
  <1> QED BY <1>1, <1>3, <1>4, <1>6, CommitKeepsActive

\* The rows a new pipeline leaves, if nothing is interruptible: its own jobs
\* appear, and nothing else changes.
LEMMA CreateRows ==
    ASSUME TypeOK, \A j \in Job : ~Def[j].interruptible, NEW p \in Pipeline, CreatePipeline(p)
    PROVE  /\ db' \in DbState
           /\ db'.token = db.token /\ db'.exit = db.exit /\ db'.retries = db.retries
           /\ \A j \in Job : j \notin JobsOf(p) => db'.status[j] = db.status[j]
           /\ \A j \in JobsOf(p) : /\ db.verdict[Pipe(j)] = "absent"
                                   /\ db'.status[j] \in {"manual", "scheduled", "pending"}
           /\ UNCHANGED <<issued, call, runnerVars, autos>>
  <1> DEFINE Old == {o \in Pipeline : Ref[o] = Ref[p] /\ db.verdict[o] # "absent"}
             Victims == {j \in Cancelable(db) : Pipe(j) \in Old /\ Def[j].interruptible}
             I == Concluded(Canceled(db, Victims), {Pipe(j) : j \in Victims})
             F(j) == CASE Def[j].when = "manual" -> "manual"
                       [] Def[j].when = "delayed" -> "scheduled"
                       [] OTHER -> "pending"
  <1>0. TypeOK' /\ db \in DbState
    BY CreatePipelineType DEF TypeOK
  <1>1. Victims = {}
    BY DEF Cancelable
  <1>2. Canceled(db, Victims).status = db.status
    BY <1>0, <1>1 DEF Canceled, WithStatus, DbState
  <1>3. /\ I.status = db.status /\ I.token = db.token /\ I.exit = db.exit /\ I.retries = db.retries
    BY <1>0, <1>2 DEF Concluded, Canceled, WithStatus, DbState
  <1>4. I \in DbState
    BY <1>0, WithStatusType, ConcludedType DEF Canceled, Status
  <1>5. \A j \in Job : F(j) \in {"manual", "scheduled", "pending"}
    OBVIOUS
  <1>6. db' = [I EXCEPT !.status = [j \in Job |-> IF j \in JobsOf(p) THEN F(j)
                                                  ELSE I.status[j]],
                        !.verdict = [I.verdict EXCEPT ![p] = "pending"]]
    BY DEF CreatePipeline
  <1>7. UNCHANGED <<issued, call, runnerVars, autos>> /\ db.verdict[p] = "absent"
    BY DEF CreatePipeline
  <1> HIDE DEF I, F
  <1> QED BY <1>0, <1>3, <1>4, <1>5, <1>6, <1>7 DEF TypeOK, JobsOf, DbState

\* What a poll leaves: the delayed jobs whose time has come are pending, and
\* at most one runnable job, whose token goes out, runs.
LEMMA PollRows ==
    ASSUME TypeOK, NEW r \in Runner, RequestJob(r)
    PROVE  LET s == Promoted(db)
           IN  /\ s \in DbState
               /\ db'.token = db.token /\ db'.exit = db.exit /\ db'.retries = db.retries
               /\ s.exit = db.exit
               /\ \A j \in Job : \/ s.status[j] = db.status[j]
                                 \/ db.status[j] = "scheduled" /\ s.status[j] = "pending"
               /\ UNCHANGED <<issued, call, told, autos>>
               /\ \/ /\ db'.status = s.status
                     /\ handed' = handed
                  \/ \E j \in Runnable(s, r) :
                        /\ j \in Job /\ handed' = handed \cup {<<j, db.token[j]>>}
                        /\ db'.status = [s.status EXCEPT ![j] = "running"]
  <1> DEFINE s == Promoted(db)
  <1>1. /\ s \in DbState /\ s.token = db.token /\ s.exit = db.exit /\ s.retries = db.retries
        /\ \A j \in Job : \/ s.status[j] = db.status[j]
                          \/ db.status[j] = "scheduled" /\ s.status[j] = "pending"
    <2>1. db \in DbState
      BY DEF TypeOK
    <2> QED BY <2>1, PromotedType DEF Promoted, WithStatus, DbState
  <1>2. UNCHANGED <<issued, call, told, autos>>
    BY DEF RequestJob
  <1> HIDE DEF s
  <1>3. ASSUME NEW j \in Runnable(s, r),
               db' = [WithStatus(s, {j}, "running") EXCEPT
                         !.verdict = [s.verdict EXCEPT ![Pipe(j)] = "running"]],
               handed' = handed \cup {<<j, s.token[j]>>}
        PROVE  /\ j \in Job /\ handed' = handed \cup {<<j, db.token[j]>>}
               /\ db'.status = [s.status EXCEPT ![j] = "running"]
               /\ db'.token = db.token /\ db'.exit = db.exit /\ db'.retries = db.retries
    <2>1. j \in Job
      BY EligibleIsTyped DEF Runnable
    <2> QED BY <1>1, <1>3, <2>1 DEF WithStatus, DbState
  <1>4. CASE db' = s /\ UNCHANGED <<handed, held>>
    BY <1>1, <1>2, <1>4 DEF s
  <1>5. ASSUME NEW j \in Runnable(s, r),
               db' = [WithStatus(s, {j}, "running") EXCEPT
                         !.verdict = [s.verdict EXCEPT ![Pipe(j)] = "running"]],
               handed' = handed \cup {<<j, s.token[j]>>}
        PROVE  \E i \in Runnable(s, r) :
                  /\ i \in Job /\ handed' = handed \cup {<<i, db.token[i]>>}
                  /\ db'.status = [s.status EXCEPT ![i] = "running"]
    BY <1>3, <1>5
  <1> QED BY <1>1, <1>2, <1>3, <1>4, <1>5 DEF RequestJob, s

\* A poll keeps the handed attempts active: what it starts was waiting.
LEMMA ActiveRequestJob ==
    ASSUME ActiveInv, NEW r \in Runner, RequestJob(r)
    PROVE  HandedIsActive'
  <1> DEFINE s == Promoted(db)
  <1>1. TypeOK
    BY DEF ActiveInv, FinalInv, FreshInv
  <1>2. /\ s \in DbState /\ db'.token = db.token
        /\ \A j \in Job : \/ s.status[j] = db.status[j]
                          \/ db.status[j] = "scheduled" /\ s.status[j] = "pending"
        /\ \/ db'.status = s.status /\ handed' = handed
           \/ \E j \in Runnable(s, r) :
                 /\ j \in Job /\ handed' = handed \cup {<<j, db.token[j]>>}
                 /\ db'.status = [s.status EXCEPT ![j] = "running"]
    BY <1>1, PollRows
  <1>3. \A j \in Job : <<j, db.token[j]>> \in handed => s.status[j] \in Active
    BY <1>2 DEF ActiveInv, HandedIsActive, Active
  <1> HIDE DEF s
  <1>4. CASE db'.status = s.status /\ handed' = handed
    BY <1>2, <1>3, <1>4 DEF HandedIsActive
  <1>5. ASSUME NEW j \in Job, handed' = handed \cup {<<j, db.token[j]>>},
               db'.status = [s.status EXCEPT ![j] = "running"]
        PROVE  HandedIsActive'
    <2>1. \A k \in Job : db'.status[k] = IF k = j THEN "running" ELSE s.status[k]
      BY <1>2, <1>5 DEF DbState
    <2>2. \A k \in Job : k # j /\ <<k, db'.token[k]>> \in handed' => <<k, db.token[k]>> \in handed
      BY <1>2, <1>5
    <2> QED BY <1>3, <2>1, <2>2 DEF HandedIsActive, Active
  <1> QED BY <1>2, <1>4, <1>5

\* A new pipeline hands nothing out and leaves the other jobs alone.
LEMMA ActiveCreatePipeline ==
    ASSUME ActiveInv, \A j \in Job : ~Def[j].interruptible, NEW p \in Pipeline, CreatePipeline(p)
    PROVE  HandedIsActive'
  <1>1. TypeOK
    BY DEF ActiveInv, FinalInv, FreshInv
  <1>2. ASSUME NEW j \in Job, <<j, db'.token[j]>> \in handed'
        PROVE  db'.status[j] \in Active
    <2>1. <<j, db.token[j]>> \in handed
      BY <1>1, <1>2, CreateRows DEF runnerVars
    <2>2. db.verdict[Pipe(j)] # "absent"
      BY <2>1 DEF ActiveInv, FinalInv, FreshInv
    <2>3. db'.status[j] = db.status[j]
      BY <1>1, <2>2, CreateRows
    <2> QED BY <2>1, <2>3 DEF ActiveInv, HandedIsActive
  <1> QED BY <1>2 DEF HandedIsActive

\* Every step keeps the handed attempts active, as long as nothing is canceled.
LEMMA ActiveNext ==
    ASSUME ActiveInv, Split \subseteq {"retry", "retry_pipeline"}, Ops \cap Cancels = {},
           \A j \in Job : ~Def[j].interruptible, [Next]_vars
    PROVE  ActiveInv'
  <1>1. FinalInv'
    BY FinalNext DEF ActiveInv
  <1>2. ToldEnds'
    <2>1. ASSUME NEW a \in held, NEW e \in Ending, Finish(a, e)
          PROVE  ToldEnds'
      BY <2>1, EndingsAreTyped DEF Finish, ToldEnds, ActiveInv, Result
    <2>2. CASE Handle
      <3>1. told' = told
        BY <2>2, HandlersHaveEffects DEF Handled, Serve, runnerVars
      <3> QED BY <3>1 DEF ToldEnds, ActiveInv
    <2>3. CASE UNCHANGED told
      BY <2>3 DEF ToldEnds, ActiveInv
    <2> QED BY <2>1, <2>2, <2>3
         DEF Next, vars, Read, Drop, RequestJob, CreatePipeline, Elapse, runnerVars
  <1>3. HandedIsActive'
    <2>1. CASE Handle
      BY <2>1, ActiveHandle
    <2>2. ASSUME NEW r \in Runner, RequestJob(r)
          PROVE  HandedIsActive'
      BY <2>2, ActiveRequestJob
    <2>3. ASSUME NEW p \in Pipeline, CreatePipeline(p)
          PROVE  HandedIsActive'
      BY <2>3, ActiveCreatePipeline
    <2>4. ASSUME NEW j \in Job, Elapse(j)
          PROVE  HandedIsActive'
      <3>1. db \in DbState
        BY DEF ActiveInv, FinalInv, FreshInv, TypeOK
      <3> QED BY <2>4, <3>1 DEF Elapse, runnerVars, HandedIsActive, ActiveInv, DbState
    <2>5. CASE UNCHANGED <<db, handed>>
      BY <2>5 DEF HandedIsActive, ActiveInv
    <2> QED BY <2>1, <2>2, <2>3, <2>4, <2>5 DEF Next, vars, Read, Drop, Finish, runnerVars
  <1> QED BY <1>1, <1>2, <1>3 DEF ActiveInv

\* Nothing is handed out before the first pipeline.
LEMMA ActiveInit == Init => ActiveInv
  BY FinalInit DEF ActiveInv, ToldEnds, HandedIsActive, Init
-----------------------------------------------------------------------------
(* Resource groups.                                                        *)

\* A poll starts a job only if no other job of its group runs.
LEMMA GroupRequestJob ==
    ASSUME TypeOK, GroupIsSerialized, NEW r \in Runner, RequestJob(r)
    PROVE  GroupIsSerialized'
  <1> DEFINE s == Promoted(db)
  <1>1. /\ s \in DbState
        /\ \A j \in Job : s.status[j] = "running" => db.status[j] = "running"
        /\ \/ db'.status = s.status
           \/ \E j \in Runnable(s, r) :
                 j \in Job /\ db'.status = [s.status EXCEPT ![j] = "running"]
    BY PollRows
  <1> HIDE DEF s
  <1>2. CASE db'.status = s.status
    BY <1>1, <1>2 DEF GroupIsSerialized
  <1>3. ASSUME NEW j \in Runnable(s, r), j \in Job,
               db'.status = [s.status EXCEPT ![j] = "running"]
        PROVE  GroupIsSerialized'
    <2>1. \A k \in Job : db'.status[k] = IF k = j THEN "running" ELSE s.status[k]
      BY <1>1, <1>3 DEF DbState
    <2>2. \A k \in Job : k # j /\ Pipe(k) = Pipe(j) /\ Def[k].group = Def[j].group
                         /\ Def[k].group # "" => s.status[k] # "running"
      BY <1>3 DEF Runnable, GroupIsFree, JobsOf
    <2>3. ASSUME NEW i \in Job, NEW k \in Job, i # k, Pipe(i) = Pipe(k),
                 Def[i].group = Def[k].group, Def[i].group # "",
                 db'.status[i] = "running", db'.status[k] = "running"
          PROVE  FALSE
      <3>1. CASE i # j /\ k # j
        BY <1>1, <2>1, <2>3, <3>1 DEF GroupIsSerialized
      <3>2. CASE i = j
        BY <2>1, <2>2, <2>3, <3>2
      <3>3. CASE k = j
        BY <2>1, <2>2, <2>3, <3>3
      <3> QED BY <3>1, <3>2, <3>3
    <2> QED BY <2>3 DEF GroupIsSerialized
  <1> QED BY <1>1, <1>2, <1>3

\* Two jobs of one resource group and one pipeline never run at one time, in
\* every configuration, with retries interrupted anywhere, as long as nothing
\* is canceled: update_job accepts the keepalive of a canceled job and makes it
\* running again, after request_job has given its group to the next job.
THEOREM GroupsAreSerialized ==
    ASSUME Split \subseteq {"retry", "retry_pipeline"}, Ops \cap Cancels = {},
           \A j \in Job : ~Def[j].interruptible
    PROVE  Spec => []GroupIsSerialized
  <1> DEFINE Inv == ActiveInv /\ GroupIsSerialized
  <1>1. Init => Inv
    BY ActiveInit DEF Init, GroupIsSerialized
  <1>2. Inv /\ [Next]_vars => Inv'
    <2> SUFFICES ASSUME Inv, [Next]_vars
                 PROVE  Inv'
      OBVIOUS
    <2>1. ActiveInv'
      BY ActiveNext
    <2>2. TypeOK /\ db \in DbState
      BY DEF ActiveInv, FinalInv, FreshInv, TypeOK
    <2>3. StartsNothing => GroupIsSerialized'
      BY DEF StartsNothing, GroupIsSerialized
    <2>4. ASSUME Handle
          PROVE  StartsNothing
      BY <2>4, ActiveHandle
    <2>5. ASSUME NEW r \in Runner, RequestJob(r)
          PROVE  GroupIsSerialized'
      BY <2>2, <2>5, GroupRequestJob
    <2>6. ASSUME NEW p \in Pipeline, CreatePipeline(p)
          PROVE  StartsNothing
      BY <2>2, <2>6, CreateRows DEF StartsNothing
    <2>7. ASSUME NEW j \in Job, Elapse(j)
          PROVE  StartsNothing
      BY <2>2, <2>7 DEF Elapse, StartsNothing, DbState
    <2>8. UNCHANGED db => StartsNothing
      BY DEF StartsNothing
    <2>9. GroupIsSerialized'
      BY <2>3, <2>4, <2>5, <2>6, <2>7, <2>8 DEF Next, vars, Read, Drop, Finish
    <2> QED BY <2>1, <2>9
  <1> QED BY <1>1, <1>2, PTL DEF Spec
-----------------------------------------------------------------------------
(* The order of stages and needs.                                          *)

\* What a failed job shows is its report, and it is not to be retried again.
FailedIsSettled ==
    \A m \in told : db.status[m.job] = "failed" /\ db.token[m.job] = m.token =>
        db.exit[m.job] = m.exit /\ ~ShouldAutoRetry(db, m.job, m.reason, m.exit)

\* An on_failure job runs because a job it waits for failed.
CleanupHasCause ==
    \A j \in Job : Def[j].when = "on_failure" /\ db.status[j] \in Active => RequiredFailure(db, j)

\* An on_failure job waits only until everything it waits for has passed.
CleanupIsAsked ==
    \A j \in Job : Def[j].when = "on_failure" /\ db.status[j] \in {"pending", "scheduled"}
                   /\ Upstream(j) # {} => \E u \in Upstream(j) : db.status[u] # "success"

\* Inductive as long as only runners, the clock and pipeline creation act.
OrderInv ==
    /\ ActiveInv
    /\ FailedIsSettled
    /\ RanInOrder
    /\ CleanupHasCause
    /\ CleanupIsAsked

\* The statuses that satisfy a job that waits, whatever happens to other jobs.
Settled == Result \cup {"skipped", "manual"}

\* A job waits for other jobs of its own pipeline.
LEMMA UpstreamType ==
    \A j \in Job : /\ Upstream(j) \subseteq Job
                   /\ j \notin Upstream(j)
                   /\ \A u \in Upstream(j) : Pipe(u) = Pipe(j)
  <1> SUFFICES ASSUME NEW j \in Job
               PROVE  /\ Upstream(j) \subseteq Job
                      /\ j \notin Upstream(j)
                      /\ \A u \in Upstream(j) : Pipe(u) = Pipe(j)
    OBVIOUS
  <1>1. CASE Def[j].needs = ByStage
    <2>1. Def[j].stage \in Nat
      BY ConfigurationIsTyped DEF JobDef
    <2> QED BY <1>1, <2>1 DEF Upstream, JobsOf, Pipe
  <1>2. CASE Def[j].needs # ByStage
    <2>1. Def[j].needs \in SUBSET Job
      BY <1>2, ConfigurationIsTyped DEF JobDef
    <2>2. \A n \in Def[j].needs : Def[n].pipe = Def[j].pipe /\ n # j
      BY <1>2, ConfigurationIsTyped
    <2> QED BY <1>2, <2>1, <2>2 DEF Upstream, Pipe
  <1> QED BY <1>1, <1>2

\* A step that leaves settled jobs, activates nothing and lets nothing wait
\* that did not wait keeps the order.
Undisturbed ==
    /\ \A j \in Job : db'.status[j] \in Active => db.status[j] \in Active
    /\ \A u \in Job : db.status[u] \in Settled =>
          /\ db'.status[u] = db.status[u]
          /\ db'.status[u] = "failed" => db'.exit[u] = db.exit[u]

\* What a job waited for stays what it was.
LEMMA OrderIsKept ==
    ASSUME RanInOrder, CleanupHasCause, Undisturbed
    PROVE  RanInOrder' /\ CleanupHasCause'
  <1>1. ASSUME NEW u \in Job
        PROVE  /\ FailedAllowed(db, u) => FailedAllowed(db, u)'
               /\ FailedRequired(db, u) => FailedRequired(db, u)'
    BY DEF Undisturbed, FailedAllowed, FailedRequired, Settled, Result
  <1>2. ASSUME NEW j \in Job, db'.status[j] \in {"running", "success", "failed"},
               ~RunsAfterFailure(j), NEW u \in Upstream(j)
        PROVE  db'.status[u] \in {"success", "skipped", "manual"} \/ FailedAllowed(db, u)'
    <2>1. u \in Job /\ db.status[j] \in {"running", "success", "failed"}
      BY <1>2, UpstreamType DEF Undisturbed, Active
    <2>2. db.status[u] \in {"success", "skipped", "manual"} \/ FailedAllowed(db, u)
      BY <1>2, <2>1 DEF RanInOrder
    <2> QED BY <1>1, <2>1, <2>2 DEF Undisturbed, Settled, Result
  <1>3. ASSUME NEW j \in Job, Def[j].when = "on_failure", db'.status[j] \in Active
        PROVE  RequiredFailure(db, j)'
    <2>1. PICK u \in Upstream(j) : FailedRequired(db, u)
      BY <1>3 DEF Undisturbed, CleanupHasCause, RequiredFailure
    <2>2. u \in Job
      BY UpstreamType
    <2> QED BY <1>1, <2>1, <2>2 DEF RequiredFailure
  <1>4. RanInOrder'
    BY <1>2 DEF RanInOrder
  <1>5. CleanupHasCause'
    BY <1>3 DEF CleanupHasCause
  <1> QED BY <1>4, <1>5

\* A report leaves the settled jobs alone, the reported one included: it only
\* repeats what is stored.
LEMMA ReportIsUndisturbing ==
    ASSUME OrderInv, NEW m \in Sendable, UpdateJob(m), Split = {}
    PROVE  /\ db.token[m.job] = m.token
           /\ StoresJobs(db, Reported(db, m))
           /\ Reported(db, m) \in DbState
           /\ Undisturbed
  <1> DEFINE v == Reported(db, m)
  <1>1. TypeOK /\ db \in DbState /\ m \in Report /\ m.job \in Job
    BY SendableType DEF OrderInv, ActiveInv, FinalInv, FreshInv, TypeOK, Report
  <1>2. Serve(<<"update", m>>, db) /\ CommitDerived(db, v, Pipe(m.job))
    BY DEF UpdateJob, Snapshots
  <1>3. db.token[m.job] = m.token
    BY <1>2 DEF Serve, Accepts, JobOps, PipelineOps
  <1>4. v \in DbState /\ StoresJobs(db, v)
    BY <1>1, <1>2, ReportedType, CommitType
  <1>5. db'.status = v.status /\ db'.exit = v.exit
    BY <1>1, <1>4 DEF StoresJobs, Written, DbState
  <1>6. /\ db.status[m.job] \in Active
        /\ db.status[m.job] \in Result => m \in told /\ m.state = db.status[m.job]
    BY <1>3, ReportOnActive DEF OrderInv
  <1>7. ASSUME NEW u \in Job, u # m.job
        PROVE  /\ v.exit[u] = db.exit[u]
               /\ \/ v.status[u] = db.status[u]
                  \/ db.status[u] \in {"pending", "scheduled"} /\ v.status[u] = "skipped"
    BY <1>1, <1>7, ReportRows
  <1>8. ASSUME db.status[m.job] \in Result
        PROVE  v.status[m.job] = db.status[m.job]
               /\ (v.status[m.job] = "failed" => v.exit[m.job] = db.exit[m.job])
    <2>1. m \in told /\ m.state = db.status[m.job]
      BY <1>6, <1>8
    <2>2. m.state = "failed" => /\ db.exit[m.job] = m.exit
                                /\ ~ShouldAutoRetry(db, m.job, m.reason, m.exit)
      BY <1>3, <2>1 DEF OrderInv, FailedIsSettled
    <2>3. v.status[m.job] = m.state /\ v.exit[m.job] = m.exit
      BY <1>1, <2>2, ReportRows
    <2> QED BY <2>1, <2>2, <2>3
  <1> HIDE DEF v
  <1>9. Undisturbed
    BY <1>1, <1>5, <1>6, <1>7, <1>8 DEF Undisturbed, Settled, Result, Active
  <1> QED BY <1>3, <1>4, <1>9 DEF v

\* A failed job stays settled when any report is stored.
LEMMA ReportSettles ==
    ASSUME OrderInv, NEW m \in Sendable, UpdateJob(m), Split = {}
    PROVE  FailedIsSettled'
  <1> DEFINE v == Reported(db, m)
  <1>1. /\ TypeOK /\ db \in DbState /\ m \in Report /\ m.job \in Job
    BY SendableType DEF OrderInv, ActiveInv, FinalInv, FreshInv, TypeOK, Report
  <1>2. db.token[m.job] = m.token /\ StoresJobs(db, v) /\ v \in DbState
    BY ReportIsUndisturbing
  <1>3. db'.status = v.status /\ db'.exit = v.exit /\ db'.retries = v.retries /\ told' = told
    BY <1>1, <1>2 DEF StoresJobs, Written, DbState, UpdateJob, Serve, runnerVars
  <1>4. ASSUME NEW n \in told, db'.status[n.job] = "failed", db'.token[n.job] = n.token
        PROVE  db'.exit[n.job] = n.exit /\ ~ShouldAutoRetry(db, n.job, n.reason, n.exit)'
    <2>1. n \in Report /\ n.job \in Job /\ <<n.job, n.token>> \in handed
      BY <1>1 DEF TypeOK, OrderInv, ActiveInv, FinalInv, EarnedInv, Report
    <2>2. v.token[n.job] # NewToken /\ db'.token[n.job] = db.token[n.job]
      <3>1. n.token <= issued[n.job] /\ issued[n.job] \in Nat
        BY <1>1, <2>1 DEF OrderInv, ActiveInv, FinalInv, FreshInv, TypeOK
      <3>2. v.token[n.job] = NewToken => db'.token[n.job] = issued[n.job] + 1
        BY <1>2, <2>1 DEF StoresJobs, Flushed
      <3>3. v.token[n.job] # NewToken => db'.token[n.job] = db.token[n.job]
        BY <1>2, <2>1 DEF StoresJobs, Flushed
      <3> QED BY <1>4, <3>1, <3>2, <3>3
    <2>3. CASE n.job # m.job
      <3>1. v.exit[n.job] = db.exit[n.job] /\ v.retries[n.job] = db.retries[n.job]
            /\ db.status[n.job] = "failed"
        BY <1>1, <1>3, <1>4, <2>1, <2>3, ReportRows
      <3>2. db.exit[n.job] = n.exit /\ ~ShouldAutoRetry(db, n.job, n.reason, n.exit)
        BY <1>4, <2>2, <3>1 DEF OrderInv, FailedIsSettled
      <3> QED BY <1>3, <3>1, <3>2 DEF ShouldAutoRetry
    <2>4. CASE n.job = m.job
      <3>1. ~(m.state = "failed" /\ ShouldAutoRetry(db, m.job, m.reason, m.exit))
        BY <1>1, <2>2, <2>4, ReportRows
      <3>2. v.status[m.job] = m.state /\ v.exit[m.job] = m.exit /\ v.retries[m.job] = db.retries[m.job]
        BY <1>1, <3>1, ReportRows
      <3>3. m.state = "failed" /\ m.token = n.token
        BY <1>2, <1>3, <1>4, <2>2, <2>4, <3>2
      <3>4. m \in told
        BY <3>3 DEF Sendable, Keepalive
      <3>5. m = n
        BY <2>4, <3>3, <3>4 DEF OrderInv, ActiveInv, FinalInv, ToldOnce
      <3> QED BY <1>3, <3>1, <3>2, <3>3, <3>5 DEF ShouldAutoRetry
    <2> QED BY <2>3, <2>4
  <1> QED BY <1>3, <1>4 DEF FailedIsSettled

\* What one pass over the on_failure jobs skips, as a set.
Asking(s, p) ==
    {j \in JobsOf(p) : /\ s.status[j] \in {"pending", "scheduled"}
                       /\ Def[j].when = "on_failure"
                       /\ ~RequiredFailure(s, j)}

SkippedAt(s, p) ==
    UNION {S \in SUBSET Asking(s, p) : \A j \in S : DependenciesTerminal(s, j, S)}

\* The pass skips every job that has nothing to wait for but what it skips.
LEMMA PassSkips ==
    ASSUME NEW s, NEW p, NEW j \in Asking(s, p), DependenciesTerminal(s, j, SkippedAt(s, p))
    PROVE  j \in SkippedAt(s, p)
  <1> DEFINE Closed(S) == \A k \in S : DependenciesTerminal(s, k, S)
             T == SkippedAt(s, p) \cup {j}
  <1>1. T \in SUBSET Asking(s, p)
    BY DEF SkippedAt
  <1>2. ASSUME NEW k \in T
        PROVE  DependenciesTerminal(s, k, T)
    <2>1. CASE k = j
      BY <2>1 DEF DependenciesTerminal
    <2>2. CASE k \in SkippedAt(s, p)
      <3>1. PICK S \in SUBSET Asking(s, p) : k \in S /\ Closed(S)
        BY <2>2 DEF SkippedAt
      <3>2. S \subseteq T
        BY <3>1 DEF SkippedAt
      <3> QED BY <3>1, <3>2 DEF DependenciesTerminal
    <2> QED BY <2>1, <2>2
  <1> HIDE DEF T
  <1>3. T \subseteq SkippedAt(s, p)
    BY <1>1, <1>2 DEF SkippedAt
  <1> QED BY <1>3 DEF T

\* The pass, in terms of that set.
LEMMA PassRows ==
    ASSUME NEW s, NEW p
    PROVE  SkipOnFailureJobs(s, p) = WithStatus(s, SkippedAt(s, p), "skipped")
  BY DEF SkipOnFailureJobs, SkippedAt, Asking

\* A report of success skips the on_failure jobs that have nothing to wait for.
LEMMA SuccessSkips ==
    ASSUME NEW s \in DbState, NEW m \in Report, m.state = "success",
           NEW j \in Job, j # m.job, Def[j].when = "on_failure",
           s.status[j] \in {"pending", "scheduled"}, Pipe(j) = Pipe(m.job),
           \A u \in Upstream(j) : u = m.job \/ s.status[u] = "success"
    PROVE  Reported(s, m).status[j] = "skipped"
  <1> DEFINE rows == WithStatus(s, {m.job}, m.state)
             p == Pipe(m.job)
  <1>1. m.job \in Job /\ rows \in DbState
    BY WithStatusType DEF Report, Status
  <1>2. /\ rows.status[j] \in {"pending", "scheduled"}
        /\ \A u \in Upstream(j) : rows.status[u] = "success"
    BY <1>1, UpstreamType DEF WithStatus, DbState
  <1> HIDE DEF rows
  <1>3. DependenciesTerminal(rows, j, SkippedAt(rows, p)) /\ j \in Asking(rows, p)
    BY <1>2 DEF DependenciesTerminal, RequiredFailure, FailedRequired, Asking, JobsOf
  <1>4. SkipOnFailureJobs(rows, p).status[j] = "skipped"
    BY <1>1, <1>3, PassSkips, PassRows DEF WithStatus, DbState
  <1>5. SkipOnFailureJobs(rows, p) \in DbState
    BY <1>1, SkipType
  <1> QED BY <1>4, <1>5 DEF Reported, rows, DbState

\* After a report an on_failure job still waits for something.
LEMMA ReportAsks ==
    ASSUME OrderInv, NEW m \in Sendable, UpdateJob(m), Split = {}
    PROVE  CleanupIsAsked'
  <1> DEFINE v == Reported(db, m)
  <1>1. /\ TypeOK /\ db \in DbState /\ m \in Report /\ m.job \in Job
    BY SendableType DEF OrderInv, ActiveInv, FinalInv, FreshInv, TypeOK, Report
  <1>2. db.token[m.job] = m.token /\ StoresJobs(db, v) /\ v \in DbState /\ Undisturbed
    BY ReportIsUndisturbing
  <1>3. db'.status = v.status
    BY <1>1, <1>2 DEF StoresJobs, Written, DbState
  <1>4. ASSUME NEW j \in Job, Def[j].when = "on_failure",
               db'.status[j] \in {"pending", "scheduled"},
               \A u \in Upstream(j) : db'.status[u] = "success", Upstream(j) # {}
        PROVE  FALSE
    <2>0. Upstream(j) \subseteq Job /\ j \notin Upstream(j)
      BY UpstreamType
    <2>1. CASE j = m.job
      <3>1. db.status[j] \in Active
        BY <1>2, <2>1, ReportOnActive DEF OrderInv
      <3>2. PICK u \in Upstream(j) : FailedRequired(db, u)
        BY <1>4, <3>1 DEF OrderInv, CleanupHasCause, RequiredFailure
      <3>3. db'.status[u] = "failed"
        BY <1>2, <2>0, <3>2 DEF FailedRequired, Undisturbed, Settled, Result
      <3> QED BY <1>4, <3>2, <3>3
    <2>2. CASE j # m.job
      <3>1. db.status[j] = db'.status[j]
        BY <1>1, <1>3, <1>4, <2>2, ReportRows
      <3>2. PICK u \in Upstream(j) : db.status[u] # "success"
        BY <1>4, <3>1 DEF OrderInv, CleanupIsAsked
      <3>3. \A k \in Upstream(j) : k = m.job \/ db.status[k] = "success"
        BY <1>1, <1>3, <1>4, <2>0, ReportRows
      <3>4. u = m.job /\ v.status[m.job] = "success"
        BY <1>3, <1>4, <3>2, <3>3
      <3>5. m.state = "success"
        BY <1>1, <3>4, ReportRows
      <3>6. Pipe(j) = Pipe(m.job)
        BY <3>2, <3>4, UpstreamType
      <3>7. v.status[j] = "skipped"
        BY <1>1, <1>4, <2>2, <3>1, <3>3, <3>5, <3>6, SuccessSkips
      <3> QED BY <1>3, <1>4, <3>7
    <2> QED BY <2>1, <2>2
  <1> QED BY <1>4 DEF CleanupIsAsked

\* A poll starts a job whose upstream lets it run, and disturbs no other.
LEMMA OrderRequestJob ==
    ASSUME OrderInv, NEW r \in Runner, RequestJob(r)
    PROVE  FailedIsSettled' /\ RanInOrder' /\ CleanupHasCause' /\ CleanupIsAsked'
  <1> DEFINE s == Promoted(db)
  <1>1. TypeOK /\ db \in DbState
    BY DEF OrderInv, ActiveInv, FinalInv, FreshInv, TypeOK
  <1>2. /\ s \in DbState
        /\ db'.token = db.token /\ db'.exit = db.exit /\ db'.retries = db.retries
        /\ s.exit = db.exit
        /\ \A j \in Job : \/ s.status[j] = db.status[j]
                          \/ db.status[j] = "scheduled" /\ s.status[j] = "pending"
        /\ told' = told
        /\ \/ db'.status = s.status
           \/ \E j \in Runnable(s, r) :
                 j \in Job /\ db'.status = [s.status EXCEPT ![j] = "running"]
    BY <1>1, PollRows
  <1> HIDE DEF s
  <1>3. CASE db'.status = s.status
    <2>1. Undisturbed
      BY <1>2, <1>3 DEF Undisturbed, Active, Settled, Result
    <2>2. RanInOrder' /\ CleanupHasCause'
      BY <2>1, OrderIsKept DEF OrderInv
    <2>3. FailedIsSettled'
      BY <1>1, <1>2, <1>3 DEF OrderInv, FailedIsSettled, ShouldAutoRetry, TypeOK, Report
    <2>4. CleanupIsAsked'
      BY <1>2, <1>3, UpstreamType DEF OrderInv, CleanupIsAsked
    <2> QED BY <2>2, <2>3, <2>4
  <1>4. ASSUME NEW j \in Runnable(s, r), j \in Job,
               db'.status = [s.status EXCEPT ![j] = "running"]
        PROVE  FailedIsSettled' /\ RanInOrder' /\ CleanupHasCause' /\ CleanupIsAsked'
    <2>1. /\ db'.status[j] = "running"
          /\ db.status[j] \in {"scheduled", "pending"}
          /\ \A u \in Job : u # j => \/ db'.status[u] = db.status[u]
                                     \/ /\ db.status[u] = "scheduled"
                                        /\ db'.status[u] = "pending"
          /\ \A u \in Job : db.status[u] \in Settled =>
                s.status[u] = db.status[u] /\ db'.status[u] = db.status[u]
          /\ \A u \in Job : s.status[u] \in Settled => db.status[u] \in Settled
      BY <1>2, <1>4 DEF Runnable, DbState, Settled, Result
    <2>2. Unblocked(s, j)
      BY DEF Runnable
    <2>3. ASSUME NEW u \in Job
          PROVE  /\ FailedAllowed(s, u) => FailedAllowed(db, u)'
                 /\ FailedRequired(s, u) => FailedRequired(db, u)'
                 /\ FailedAllowed(db, u) => FailedAllowed(db, u)'
                 /\ FailedRequired(db, u) => FailedRequired(db, u)'
                 /\ s.status[u] \in Settled => db'.status[u] = s.status[u]
      BY <1>2, <2>1 DEF FailedAllowed, FailedRequired, Settled, Result
    <2>4. ASSUME NEW k \in Job, db'.status[k] \in {"running", "success", "failed"},
                 ~RunsAfterFailure(k), NEW u \in Upstream(k)
          PROVE  db'.status[u] \in {"success", "skipped", "manual"} \/ FailedAllowed(db, u)'
      <3>1. u \in Job
        BY UpstreamType
      <3>2. CASE k = j
        <4>1. s.status[u] \in {"success", "skipped", "manual"} \/ FailedAllowed(s, u)
          BY <2>2, <2>4, <3>2 DEF Unblocked
        <4> QED BY <2>3, <3>1, <4>1 DEF Settled, Result
      <3>3. CASE k # j
        <4>1. db.status[k] \in {"running", "success", "failed"}
          BY <2>1, <2>4, <3>3
        <4>2. db.status[u] \in {"success", "skipped", "manual"} \/ FailedAllowed(db, u)
          BY <2>4, <4>1 DEF OrderInv, RanInOrder
        <4> QED BY <2>1, <2>3, <3>1, <4>2 DEF Settled, Result
      <3> QED BY <3>2, <3>3
    <2>5. ASSUME NEW k \in Job, Def[k].when = "on_failure", db'.status[k] \in Active
          PROVE  RequiredFailure(db, k)'
      <3>1. CASE k = j
        <4>1. PICK u \in Upstream(k) : FailedRequired(s, u)
          BY <2>2, <2>5, <3>1 DEF Unblocked, RequiredFailure
        <4> QED BY <2>3, <4>1, UpstreamType DEF RequiredFailure
      <3>2. CASE k # j
        <4>1. db.status[k] \in Active
          BY <2>1, <2>5, <3>2 DEF Active
        <4>2. PICK u \in Upstream(k) : FailedRequired(db, u)
          BY <2>5, <4>1 DEF OrderInv, CleanupHasCause, RequiredFailure
        <4> QED BY <2>3, <4>2, UpstreamType DEF RequiredFailure
      <3> QED BY <3>1, <3>2
    <2>6. ASSUME NEW k \in Job, Def[k].when = "on_failure",
                 db'.status[k] \in {"pending", "scheduled"}, Upstream(k) # {}
          PROVE  \E u \in Upstream(k) : db'.status[u] # "success"
      <3>1. db.status[k] \in {"pending", "scheduled"}
        BY <2>1, <2>6
      <3>2. PICK u \in Upstream(k) : db.status[u] # "success"
        BY <2>6, <3>1 DEF OrderInv, CleanupIsAsked
      <3>3. db'.status[u] # "success"
        BY <2>1, <3>2, UpstreamType
      <3> QED BY <3>3
    <2>7. FailedIsSettled'
      <3>1. \A k \in Job : db'.status[k] = "failed" => db.status[k] = "failed"
        BY <2>1
      <3> QED BY <1>1, <1>2, <3>1 DEF OrderInv, FailedIsSettled, ShouldAutoRetry, TypeOK, Report
    <2>8. RanInOrder'
      BY <2>4 DEF RanInOrder
    <2>9. CleanupHasCause'
      BY <2>5 DEF CleanupHasCause
    <2>10. CleanupIsAsked'
      BY <2>6 DEF CleanupIsAsked
    <2> QED BY <2>7, <2>8, <2>9, <2>10
  <1> QED BY <1>2, <1>3, <1>4

\* A promotion makes due delayed jobs pending: an undisturbing step.
LEMMA OrderPromote ==
    ASSUME OrderInv, PromoteDelayed, Split = {}
    PROVE  FailedIsSettled' /\ RanInOrder' /\ CleanupHasCause' /\ CleanupIsAsked'
  <1> DEFINE v == Promoted(db)
  <1>1. TypeOK /\ db \in DbState
    BY DEF OrderInv, ActiveInv, FinalInv, FreshInv, TypeOK
  <1>2. Commit(db, v) /\ told' = told
    BY DEF PromoteDelayed, Snapshots, Serve, runnerVars
  <1>3. v \in DbState /\ StoresJobs(db, v)
    BY <1>1, <1>2, PromotedType, CommitType
  <1>4. /\ v.token = db.token /\ v.exit = db.exit /\ v.retries = db.retries
        /\ \A j \in Job : \/ v.status[j] = db.status[j]
                          \/ db.status[j] = "scheduled" /\ v.status[j] = "pending"
    BY <1>1 DEF Promoted, WithStatus, DbState
  <1> HIDE DEF v
  <1>5. /\ db'.status = v.status /\ db'.exit = db.exit /\ db'.retries = db.retries
        /\ \A j \in Job : db'.token[j] = db.token[j]
    <2>0. ASSUME NEW j \in Job PROVE db.token[j] # NewToken
      <3>1. db.token[j] \in 1 .. issued[j] /\ issued[j] \in Nat
        BY <1>1 DEF TypeOK
      <3> QED BY <3>1 DEF NewToken
    <2>1. \A j \in Job : v.token[j] # NewToken
      BY <1>4, <2>0
    <2> QED BY <1>1, <1>3, <1>4, <2>1 DEF StoresJobs, Flushed, Written, DbState
  <1>6. Undisturbed
    BY <1>4, <1>5 DEF Undisturbed, Active, Settled, Result
  <1>7. RanInOrder' /\ CleanupHasCause'
    BY <1>6, OrderIsKept DEF OrderInv
  <1>8. FailedIsSettled'
    BY <1>1, <1>2, <1>4, <1>5 DEF OrderInv, FailedIsSettled, ShouldAutoRetry, TypeOK, Report
  <1>9. CleanupIsAsked'
    BY <1>4, <1>5, UpstreamType DEF OrderInv, CleanupIsAsked
  <1> QED BY <1>7, <1>8, <1>9

\* A new pipeline adds waiting jobs only, and its jobs wait for each other only.
LEMMA OrderCreatePipeline ==
    ASSUME OrderInv, \A j \in Job : ~Def[j].interruptible, NEW p \in Pipeline, CreatePipeline(p)
    PROVE  FailedIsSettled' /\ RanInOrder' /\ CleanupHasCause' /\ CleanupIsAsked'
  <1>1. TypeOK
    BY DEF OrderInv, ActiveInv, FinalInv, FreshInv
  <1>2. /\ db'.token = db.token /\ db'.exit = db.exit /\ db'.retries = db.retries
        /\ \A j \in Job : j \notin JobsOf(p) => db'.status[j] = db.status[j]
        /\ \A j \in JobsOf(p) : /\ db.verdict[Pipe(j)] = "absent"
                                /\ db'.status[j] \in {"manual", "scheduled", "pending"}
        /\ told' = told
    BY <1>1, CreateRows DEF runnerVars
  <1>3. ASSUME NEW j \in Job, db'.status[j] \in Active
        PROVE  j \notin JobsOf(p) /\ db.status[j] = db'.status[j] /\ Upstream(j) \cap JobsOf(p) = {}
    <2>1. j \notin JobsOf(p)
      BY <1>2, <1>3 DEF Active
    <2>2. Upstream(j) \cap JobsOf(p) = {}
      BY <2>1, UpstreamType DEF JobsOf
    <2> QED BY <1>2, <2>1, <2>2
  <1>4. ASSUME NEW u \in Job, u \notin JobsOf(p)
        PROVE  /\ FailedAllowed(db, u)' <=> FailedAllowed(db, u)
               /\ FailedRequired(db, u)' <=> FailedRequired(db, u)
    BY <1>2, <1>4 DEF FailedAllowed, FailedRequired
  <1>5. ASSUME NEW j \in Job, db'.status[j] \in {"running", "success", "failed"},
               ~RunsAfterFailure(j), NEW u \in Upstream(j)
        PROVE  db'.status[u] \in {"success", "skipped", "manual"} \/ FailedAllowed(db, u)'
    <2>1. u \in Job /\ u \notin JobsOf(p) /\ db.status[j] \in {"running", "success", "failed"}
      BY <1>3, <1>5, UpstreamType DEF Active
    <2>2. db.status[u] \in {"success", "skipped", "manual"} \/ FailedAllowed(db, u)
      BY <1>5, <2>1 DEF OrderInv, RanInOrder
    <2> QED BY <1>2, <1>4, <2>1, <2>2
  <1>6. ASSUME NEW j \in Job, Def[j].when = "on_failure", db'.status[j] \in Active
        PROVE  RequiredFailure(db, j)'
    <2>1. PICK u \in Upstream(j) : FailedRequired(db, u)
      BY <1>3, <1>6 DEF OrderInv, CleanupHasCause, RequiredFailure
    <2>2. u \in Job /\ u \notin JobsOf(p)
      BY <1>3, <1>6, <2>1, UpstreamType
    <2> QED BY <1>4, <2>1, <2>2 DEF RequiredFailure
  <1>7. ASSUME NEW j \in Job, Def[j].when = "on_failure", Upstream(j) # {},
               db'.status[j] \in {"pending", "scheduled"}
        PROVE  \E u \in Upstream(j) : db'.status[u] # "success"
    <2>1. CASE j \in JobsOf(p)
      <3>1. PICK u \in Upstream(j) : TRUE
        BY <1>7
      <3>2. u \in JobsOf(p)
        BY <2>1, <3>1, UpstreamType DEF JobsOf
      <3> QED BY <1>2, <3>1, <3>2
    <2>2. CASE j \notin JobsOf(p)
      <3>1. PICK u \in Upstream(j) : db.status[u] # "success"
        BY <1>2, <1>7, <2>2 DEF OrderInv, CleanupIsAsked
      <3>2. u \in Job /\ u \notin JobsOf(p)
        BY <2>2, <3>1, UpstreamType DEF JobsOf
      <3> QED BY <1>2, <3>1, <3>2
    <2> QED BY <2>1, <2>2
  <1>8. FailedIsSettled'
    <2>1. \A k \in Job : db'.status[k] = "failed" => db.status[k] = "failed"
      BY <1>2
    <2>2. /\ told' = told /\ \A m \in told : m.job \in Job
          /\ db'.token = db.token /\ db'.exit = db.exit /\ db'.retries = db.retries
      BY <1>1, <1>2 DEF TypeOK, Report
    <2> QED BY <2>1, <2>2 DEF OrderInv, FailedIsSettled, ShouldAutoRetry
  <1>9. RanInOrder'
    BY <1>5 DEF RanInOrder
  <1>10. CleanupHasCause'
    BY <1>6 DEF CleanupHasCause
  <1>11. CleanupIsAsked'
    BY <1>7 DEF CleanupIsAsked
  <1> QED BY <1>8, <1>9, <1>10, <1>11

\* The first report on an attempt is about a job that shows no result yet.
LEMMA OrderFinish ==
    ASSUME OrderInv, NEW a \in held, NEW e \in Ending, Finish(a, e)
    PROVE  FailedIsSettled' /\ RanInOrder' /\ CleanupHasCause' /\ CleanupIsAsked'
  <1> DEFINE m == [job |-> a[1], token |-> a[2], state |-> e.state,
                   exit |-> e.exit, reason |-> e.reason]
  <1>1. db' = db /\ told' = told \cup {m} /\ Working(a) /\ a[1] \in Job
    BY DEF Finish, OrderInv, ActiveInv, FinalInv, FreshInv, TypeOK, Attempt
  <1>2. ~(db.status[a[1]] = "failed" /\ db.token[a[1]] = a[2])
    BY <1>1 DEF Working, OrderInv, ActiveInv, FinalInv, EarnedInv, ResultsAreEarned
  <1>3. FailedIsSettled'
    BY <1>1, <1>2 DEF OrderInv, FailedIsSettled
  <1>4. RanInOrder'
    BY <1>1 DEF OrderInv, RanInOrder
  <1>5. CleanupHasCause'
    BY <1>1 DEF OrderInv, CleanupHasCause
  <1>6. CleanupIsAsked'
    BY <1>1 DEF OrderInv, CleanupIsAsked
  <1> QED BY <1>3, <1>4, <1>5, <1>6

\* A step that leaves the job columns and the reports alone changes no order.
LEMMA OrderIdle ==
    ASSUME OrderInv, told' = told, db'.status = db.status, db'.token = db.token,
           db'.exit = db.exit, db'.retries = db.retries
    PROVE  FailedIsSettled' /\ RanInOrder' /\ CleanupHasCause' /\ CleanupIsAsked'
  <1>1. FailedIsSettled'
    BY DEF OrderInv, FailedIsSettled, ShouldAutoRetry
  <1>2. RanInOrder' /\ CleanupHasCause'
    BY OrderIsKept DEF OrderInv, Undisturbed
  <1>3. CleanupIsAsked'
    BY DEF OrderInv, CleanupIsAsked
  <1> QED BY <1>1, <1>2, <1>3

\* Reports and promotions are the only handlers, each in one step.
LEMMA OrderHandle ==
    ASSUME OrderInv, Split = {}, Ops \subseteq {"update", "promote"}, Handle
    PROVE  FailedIsSettled' /\ RanInOrder' /\ CleanupHasCause' /\ CleanupIsAsked'
  <1>1. ASSUME NEW m \in Sendable \cup BeingServed, UpdateJob(m)
        PROVE  FailedIsSettled' /\ RanInOrder' /\ CleanupHasCause' /\ CleanupIsAsked'
    <2>1. m \in Sendable
      BY <1>1 DEF UpdateJob
    <2>2. RanInOrder' /\ CleanupHasCause'
      BY <1>1, <2>1, ReportIsUndisturbing, OrderIsKept DEF OrderInv
    <2> QED BY <1>1, <2>1, <2>2, ReportSettles, ReportAsks
  <1>2. \A j \in Job : ~PlayJob(j) /\ ~CancelJob(j) /\ ~RetryJob(j) /\ ~RequeueJob(j)
    BY DEF PlayJob, CancelJob, RetryJob, RequeueJob, Serve
  <1>3. \A p \in Pipeline : ~CancelPipeline(p) /\ ~CancelPipelineInUi(p) /\ ~RetryPipeline(p)
    BY DEF CancelPipeline, CancelPipelineInUi, RetryPipeline, Serve
  <1> QED BY <1>1, <1>2, <1>3, OrderPromote DEF Handle

\* No job exists before the first pipeline.
LEMMA OrderInit == Init => OrderInv
  BY ActiveInit DEF Init, OrderInv, FailedIsSettled, RanInOrder, CleanupHasCause, CleanupIsAsked,
                    Active

\* Every step keeps the order, as long as no user request reopens a job.
LEMMA OrderNext ==
    ASSUME OrderInv, Split = {}, Ops \subseteq {"update", "promote"},
           \A j \in Job : ~Def[j].interruptible, [Next]_vars
    PROVE  OrderInv'
  <1>1. ActiveInv'
    BY ActiveNext DEF OrderInv, Cancels
  <1> DEFINE Ordered == FailedIsSettled' /\ RanInOrder' /\ CleanupHasCause' /\ CleanupIsAsked'
  <1>2. ASSUME Handle PROVE Ordered
    BY <1>2, OrderHandle
  <1>3. ASSUME NEW r \in Runner, RequestJob(r) PROVE Ordered
    BY <1>3, OrderRequestJob
  <1>4. ASSUME NEW p \in Pipeline, CreatePipeline(p) PROVE Ordered
    BY <1>4, OrderCreatePipeline
  <1>5. ASSUME NEW a \in held, NEW e \in Ending, Finish(a, e) PROVE Ordered
    BY <1>5, OrderFinish
  <1>6. ASSUME NEW j \in Job, Elapse(j) PROVE Ordered
    <2>1. db \in DbState
      BY DEF OrderInv, ActiveInv, FinalInv, FreshInv, TypeOK
    <2> QED BY <1>6, <2>1, OrderIdle DEF Elapse, runnerVars, DbState
  <1>7. ASSUME UNCHANGED <<db, told>> PROVE Ordered
    BY <1>7, OrderIdle
  <1>8. Ordered
    <2> HIDE DEF Ordered
    <2> QED BY <1>2, <1>3, <1>4, <1>5, <1>6, <1>7 DEF Next, vars, Read, Drop, runnerVars
  <1> QED BY <1>1, <1>8 DEF OrderInv

\* The order invariant, for both theorems about it.
LEMMA OrderIsInvariant ==
    ASSUME Split = {}, Ops \subseteq {"update", "promote"}, \A j \in Job : ~Def[j].interruptible
    PROVE  Spec => []OrderInv
  <1>1. OrderInv /\ [Next]_vars => OrderInv'
    BY OrderNext
  <1> QED BY <1>1, OrderInit, PTL DEF Spec

\* A job that runs in the normal flow runs after the stages or the needs it
\* waits for, and what they showed then they show for ever: repeated reports
\* and keepalives, polls, promotions and new pipelines do not reopen them.
\* The users' own requests are left out, because they do reopen them.
THEOREM JobsRunInOrder ==
    ASSUME Split = {}, Ops \subseteq {"update", "promote"}, \A j \in Job : ~Def[j].interruptible
    PROVE  Spec => []RanInOrder
  <1>1. OrderInv => RanInOrder
    BY DEF OrderInv
  <1> QED BY <1>1, OrderIsInvariant, PTL

\* No on_failure job is left waiting when everything before it has passed: the
\* report that completes its upstream skips it in the same transaction.  It
\* needs that the two reports are not interleaved, which the run cleanup_skew
\* shows to be necessary.
THEOREM CleanupIsSettled ==
    ASSUME Split = {}, Ops \subseteq {"update", "promote"}, \A j \in Job : ~Def[j].interruptible
    PROVE  Spec => []OnFailureIsSettled
  <1>1. OrderInv => OnFailureIsSettled
    BY DEF OrderInv, CleanupIsAsked, OnFailureIsSettled
  <1> QED BY <1>1, OrderIsInvariant, PTL
-----------------------------------------------------------------------------
(* No job waits without a reason.                                          *)

\* What the configuration must respect for that.  Each part is one way to hang
\* a pipeline: a job no runner admits, needs within a stage, and on_failure
\* jobs that name their needs, come first or after manual jobs only, wait for a
\* job with allow_failure:exit_codes, or precede in the file an on_failure job
\* they wait for.
WellPlaced ==
    /\ \A j \in Job : \E r \in Runner : j \in Eligible[r]
    /\ \A j \in Job : \A u \in Upstream(j) : Def[u].stage < Def[j].stage
    /\ \A j \in Job : Def[j].when = "on_failure" =>
          /\ Def[j].needs = ByStage
          /\ \E u \in Upstream(j) : Def[u].when # "manual"
          /\ \A u \in Upstream(j) : /\ Def[u].allowCodes = {}
                                    /\ Def[u].when = "on_failure" => u < j

Waiting == {"pending", "scheduled"}

\* The jobs of a pipeline appear together.
Together ==
    \A j, k \in Job : Pipe(j) = Pipe(k) /\ db.status[j] # "absent" => db.status[k] # "absent"

NothingCanceled == \A j \in Job : db.status[j] # "canceled"

\* No job of the normal flow waits for one that failed for good.
NoVainWait ==
    \A j \in Job : db.status[j] \in Waiting /\ ~RunsAfterFailure(j) => ~RequiredFailure(db, j)

\* An on_failure job still waits only for the end of a job or, when all it
\* waits for are over, for a runner.
CleanupIsSkipped ==
    \A j \in Job : Def[j].when = "on_failure" /\ db.status[j] \in Waiting
                   /\ DependenciesTerminal(db, j, {}) => RequiredFailure(db, j)

\* Inductive together with OrderInv.
ReasonInv == Together /\ NothingCanceled /\ NoVainWait /\ CleanupIsSkipped

\* Which waiting jobs a report skips: what the pass over the on_failure jobs
\* skips and, after a failure that is not retried, what follows it.
LEMMA ReportSkips ==
    ASSUME NEW s \in DbState, NEW m \in Report, NEW u \in Job, u # m.job
    PROVE  LET v == Reported(s, m)
               p == Pipe(m.job)
               pass == SkippedAt(WithStatus(s, {m.job}, m.state), p)
               After(f) == \/ Def[f].stage < Def[u].stage
                           \/ Def[u].needs # ByStage /\ f \in Def[u].needs
           IN  /\ u \in pass => v.status[u] = "skipped"
               /\ u \notin pass /\ v.status[u] # s.status[u] =>
                     /\ Pipe(u) = p
                     /\ \E f \in JobsOf(p) : FailedRequired(v, f) /\ After(f)
               /\ /\ m.state = "failed" /\ ~ShouldAutoRetry(s, m.job, m.reason, m.exit)
                  /\ s.status[u] \in Waiting /\ ~RunsAfterFailure(u) /\ Pipe(u) = p
                  /\ FailedRequired(v, m.job) /\ After(m.job)
                  => v.status[u] = "skipped"
  <1> DEFINE v == Reported(s, m)
             p == Pipe(m.job)
             rows == WithStatus(s, {m.job}, m.state)
             Skipped == SkipOnFailureJobs(rows, p)
             Stored == [Skipped EXCEPT !.exit = [Skipped.exit EXCEPT ![m.job] = m.exit]]
             Last == SkipJobsAfterFailedStage(Stored, p)
             After(f) == \/ Def[f].stage < Def[u].stage
                         \/ Def[u].needs # ByStage /\ f \in Def[u].needs
  <1>1. m.job \in Job /\ rows \in DbState /\ rows.status[u] = s.status[u]
        /\ rows.retries = s.retries
    <2>1. m.job \in Job /\ m.state \in Status
      BY DEF Report, Status
    <2>2. rows \in DbState
      BY <2>1, WithStatusType
    <2> QED BY <2>1, <2>2 DEF WithStatus, DbState
  <1>2. /\ Skipped \in DbState
        /\ Skipped.status[u] = IF u \in SkippedAt(rows, p) THEN "skipped" ELSE s.status[u]
        /\ u \in SkippedAt(rows, p) => s.status[u] \in Waiting
        /\ Skipped.retries = s.retries
    <2>1. Skipped \in DbState
      BY <1>1, SkipType
    <2>2. u \in SkippedAt(rows, p) => s.status[u] \in Waiting
      BY <1>1 DEF SkippedAt, Asking, Waiting
    <2> HIDE DEF rows
    <2> QED BY <1>1, <2>1, <2>2, PassRows DEF WithStatus, DbState
  <1> HIDE DEF Skipped, rows
  <1>3. /\ Stored \in DbState /\ Stored.retries = s.retries /\ Stored.status = Skipped.status
    BY <1>1, <1>2 DEF DbState, Report
  <1>4. ShouldAutoRetry(Stored, m.job, m.reason, m.exit)
            <=> ShouldAutoRetry(s, m.job, m.reason, m.exit)
    BY <1>3 DEF ShouldAutoRetry
  <1>5. v = IF m.state # "failed" THEN Stored
            ELSE IF ShouldAutoRetry(s, m.job, m.reason, m.exit) THEN AutoRetried(Stored, m.job)
            ELSE Last
    BY <1>4 DEF Reported, Stored, Skipped, rows
  <1> HIDE DEF Stored
  <1>6. AutoRetried(Stored, m.job).status[u] = Stored.status[u]
    BY <1>1, <1>3 DEF AutoRetried, ResetForRetry, DbState
  <1>7. /\ \A f \in JobsOf(p) : FailedRequired(Stored, f) <=> FailedRequired(Last, f)
        /\ Last.status[u] # Stored.status[u] => Pipe(u) = p /\ Last.status[u] = "skipped"
        /\ (Last.status[u] # Stored.status[u]) =>
              \E f \in JobsOf(p) : FailedRequired(Stored, f) /\ After(f)
        /\ (/\ Stored.status[u] \in Waiting /\ ~RunsAfterFailure(u) /\ Pipe(u) = p
            /\ \E f \in JobsOf(p) : FailedRequired(Stored, f) /\ After(f))
           => Last.status[u] = "skipped"
    <2> DEFINE J == {j \in JobsOf(p) :
                        /\ Stored.status[j] \in {"pending", "scheduled"}
                        /\ ~RunsAfterFailure(j)
                        /\ \/ \E f \in {i \in JobsOf(p) : FailedRequired(Stored, i)} :
                                 Def[f].stage < Def[j].stage
                           \/ (IF Def[j].needs = ByStage THEN {} ELSE Def[j].needs)
                                 \cap {i \in JobsOf(p) : FailedRequired(Stored, i)} # {}}
    <2>1. Last = WithStatus(Stored, J, "skipped")
      BY DEF SkipJobsAfterFailedStage
    <2>2. /\ \A j \in Job : Last.status[j] = IF j \in J THEN "skipped" ELSE Stored.status[j]
          /\ Last.exit = Stored.exit
      BY <1>3, <2>1 DEF WithStatus, DbState
    <2>3. \A j \in J : j \in Job /\ Stored.status[j] \in Waiting
      BY DEF JobsOf, Waiting
    <2>4. \A f \in JobsOf(p) : FailedRequired(Stored, f) <=> FailedRequired(Last, f)
      <3> HIDE DEF J, Last
      <3> QED BY <2>2, <2>3 DEF FailedRequired, FailedAllowed, JobsOf, Waiting
    <2>5. u \in J <=> /\ Stored.status[u] \in Waiting /\ ~RunsAfterFailure(u) /\ Pipe(u) = p
                      /\ \E f \in JobsOf(p) : FailedRequired(Stored, f) /\ After(f)
      BY DEF JobsOf, Waiting
    <2> HIDE DEF J, Last, After
    <2> QED BY <2>2, <2>4, <2>5
  <1>8. u \in SkippedAt(rows, p) => v.status[u] = "skipped"
    BY <1>2, <1>3, <1>5, <1>6, <1>7
  <1>9. ASSUME u \notin SkippedAt(rows, p), v.status[u] # s.status[u]
        PROVE  Pipe(u) = p /\ \E f \in JobsOf(p) : FailedRequired(v, f) /\ After(f)
    <2>1. v = Last /\ Last.status[u] # Stored.status[u]
      BY <1>2, <1>3, <1>5, <1>6, <1>9
    <2> HIDE DEF v, Last, After
    <2> QED BY <2>1, <1>7
  <1>10. ASSUME m.state = "failed", ~ShouldAutoRetry(s, m.job, m.reason, m.exit),
                s.status[u] \in Waiting, ~RunsAfterFailure(u), Pipe(u) = p,
                FailedRequired(v, m.job), After(m.job)
         PROVE  v.status[u] = "skipped"
    <2>1. v = Last /\ m.job \in JobsOf(p)
      BY <1>1, <1>5, <1>10 DEF JobsOf
    <2>2. FailedRequired(Stored, m.job)
      BY <1>7, <1>10, <2>1
    <2>3. Stored.status[u] = "skipped" \/ Stored.status[u] \in Waiting
      BY <1>2, <1>3, <1>10
    <2> HIDE DEF v, Last, After
    <2> QED BY <1>7, <1>10, <2>1, <2>2, <2>3
  <1> QED BY <1>8, <1>9, <1>10 DEF rows

\* If a report ends the last job an on_failure job waits for, either there is
\* a required failure to clean up after or the same report skips it.
LEMMA ReportCleans ==
    ASSUME WellPlaced, NEW s \in DbState, NEW m \in Report, NEW j \in Job, j # m.job,
           Def[j].when = "on_failure", s.status[j] \in Waiting, Pipe(j) = Pipe(m.job),
           Reported(s, m).status[j] # "skipped",
           DependenciesTerminal(Reported(s, m), j, {})
    PROVE  RequiredFailure(Reported(s, m), j)
  <1> DEFINE v == Reported(s, m)
             p == Pipe(m.job)
             rows == WithStatus(s, {m.job}, m.state)
             Terminal == {"success", "skipped", "manual", "failed", "canceled"}
  <1>1. /\ m.job \in Job
        /\ rows.status[m.job] = m.state
        /\ \A u \in Job : u # m.job => rows.status[u] = s.status[u]
        /\ rows.exit = s.exit
    BY DEF Report, WithStatus, DbState
  <1> HIDE DEF rows
  <1>2. \A u \in Job : u # m.job =>
            /\ v.exit[u] = s.exit[u]
            /\ \/ v.status[u] = s.status[u]
               \/ s.status[u] \in Waiting /\ v.status[u] = "skipped"
    BY ReportRows DEF Waiting
  <1>3. ~(m.state = "failed" /\ ShouldAutoRetry(s, m.job, m.reason, m.exit)) =>
            v.status[m.job] = m.state
    BY ReportRows
  <1>4. (m.state = "failed" /\ ShouldAutoRetry(s, m.job, m.reason, m.exit)) =>
            v.status[m.job] \in Waiting
    BY ReportRows DEF Waiting
  <1>5. \A u \in Upstream(j) : /\ u \in Job /\ Pipe(u) = p /\ Def[u].stage < Def[j].stage
                               /\ v.status[u] \in Terminal
                               /\ Def[u].allowCodes = {}
                               /\ Def[u].when = "on_failure" => u < j
    BY UpstreamType DEF WellPlaced, DependenciesTerminal
  <1> SUFFICES ASSUME ~RequiredFailure(v, j)
               PROVE  FALSE
    OBVIOUS
  <1> HIDE DEF v
  <1>6. m.job \in Upstream(j) => v.status[m.job] = m.state
    BY <1>3, <1>4, <1>5 DEF Waiting
  <1>7. ~RequiredFailure(rows, j)
    <2>1. SUFFICES ASSUME NEW u \in Upstream(j), FailedRequired(rows, u)
                   PROVE  FailedRequired(v, u)
      BY DEF RequiredFailure
    <2>2. rows.status[u] = "failed" /\ v.status[u] = "failed"
      BY <1>1, <1>2, <1>5, <1>6, <2>1 DEF FailedRequired, Waiting
    <2> QED BY <1>5, <2>1, <2>2 DEF FailedRequired, FailedAllowed
  <1>8. j \in Asking(rows, p)
    BY <1>1, <1>7 DEF Asking, JobsOf, Waiting
  <1>9. j \notin SkippedAt(rows, p)
    BY ReportSkips DEF v, rows
  <1>10. PICK u \in Upstream(j) : /\ rows.status[u] \notin Terminal
                                  /\ ~(u \in SkippedAt(rows, p) /\ u < j)
    BY <1>8, <1>9, PassSkips DEF DependenciesTerminal
  <1>11. u # m.job /\ s.status[u] \in Waiting /\ v.status[u] = "skipped"
    BY <1>1, <1>2, <1>5, <1>6, <1>10
  <1>12. u \notin SkippedAt(rows, p)
    <2>1. u \in SkippedAt(rows, p) => Def[u].when = "on_failure"
      BY DEF SkippedAt, Asking
    <2> QED BY <1>5, <1>10, <2>1
  <1>13. PICK f \in JobsOf(p) :
             /\ FailedRequired(v, f)
             /\ \/ Def[f].stage < Def[u].stage
                \/ Def[u].needs # ByStage /\ f \in Def[u].needs
    <2>1. u \in Job /\ v.status[u] # s.status[u]
      BY <1>5, <1>11 DEF Waiting
    <2> QED BY <1>11, <1>12, <2>1, ReportSkips DEF v, rows
  <1>14. Def[f].stage < Def[u].stage
    <2>1. CASE Def[u].needs # ByStage /\ f \in Def[u].needs
      <3>1. f \in Upstream(u)
        BY <2>1 DEF Upstream
      <3> QED BY <1>5, <3>1 DEF WellPlaced
    <2> QED BY <1>13, <2>1
  <1>15. f \in Upstream(j)
    <2>1. /\ Def[f].stage \in Nat /\ Def[u].stage \in Nat /\ Def[j].stage \in Nat
          /\ f \in Job /\ u \in Job
      BY <1>5, ConfigurationIsTyped DEF JobDef, JobsOf
    <2>2. Def[f].stage < Def[j].stage
      BY <1>5, <1>14, <2>1
    <2>3. Def[j].needs = ByStage
      BY DEF WellPlaced
    <2> QED BY <2>1, <2>2, <2>3 DEF Upstream, JobsOf
  <1> QED BY <1>13, <1>15 DEF RequiredFailure

\* A report keeps the reasons to wait.
LEMMA ReasonUpdate ==
    ASSUME OrderInv, ReasonInv, WellPlaced, NEW m \in Sendable, UpdateJob(m), Split = {}
    PROVE  ReasonInv'
  <1> DEFINE v == Reported(db, m)
             retried == m.state = "failed" /\ ShouldAutoRetry(db, m.job, m.reason, m.exit)
  <1>1. /\ TypeOK /\ db \in DbState /\ m \in Report /\ m.job \in Job /\ m.state \in Active
    BY SendableType DEF OrderInv, ActiveInv, FinalInv, FreshInv, TypeOK, Report, Active
  <1>2. db.token[m.job] = m.token /\ StoresJobs(db, v) /\ v \in DbState /\ Undisturbed
    BY ReportIsUndisturbing
  <1>3. db'.status = v.status /\ db'.exit = v.exit
    BY <1>1, <1>2 DEF StoresJobs, Written, DbState
  <1>4. /\ \A u \in Job : u # m.job =>
              /\ v.exit[u] = db.exit[u]
              /\ \/ v.status[u] = db.status[u]
                 \/ db.status[u] \in Waiting /\ v.status[u] = "skipped"
        /\ retried => v.status[m.job] \in Waiting
        /\ ~retried => v.status[m.job] = m.state
    BY <1>1, ReportRows DEF Waiting
  <1>5. db.status[m.job] \in Active
    BY <1>2, ReportOnActive DEF OrderInv
  <1>6. RanInOrder' /\ CleanupHasCause'
    BY <1>2, OrderIsKept DEF OrderInv
  <1>7. Together' /\ NothingCanceled'
    <2> HIDE DEF v, retried
    <2>1. \A u \in Job : /\ v.status[u] # "canceled"
                         /\ v.status[u] = "absent" <=> db.status[u] = "absent"
      BY <1>1, <1>4, <1>5 DEF ReasonInv, NothingCanceled, Waiting, Active
    <2> QED BY <1>3, <2>1 DEF ReasonInv, NothingCanceled, Together
  <1>8. ASSUME NEW u \in Job
        PROVE  FailedRequired(v, u) <=> FailedRequired(db, u)'
    BY <1>3 DEF FailedRequired, FailedAllowed
  <1>9. ASSUME NEW j \in Job, db'.status[j] \in Waiting, ~RunsAfterFailure(j),
               NEW u \in Upstream(j), FailedRequired(v, u)
        PROVE  FALSE
    <2>1. u \in Job /\ Pipe(u) = Pipe(j) /\ u # j
      BY <1>9, UpstreamType
    <2>2. CASE j = m.job
      <3>1. db.status[u] \in {"success", "skipped", "manual"} \/ FailedAllowed(db, u)
        BY <1>5, <1>9, <2>2 DEF OrderInv, RanInOrder, Active
      <3>2. u # m.job /\ v.status[u] = "failed" /\ db.status[u] = "failed"
        BY <1>4, <1>9, <2>1, <2>2 DEF FailedRequired
      <3>3. FailedAllowed(db, u) /\ v.exit[u] = db.exit[u]
        BY <1>4, <2>1, <3>1, <3>2
      <3> QED BY <1>9, <3>2, <3>3 DEF FailedRequired, FailedAllowed
    <2>3. CASE j # m.job
      <3>1. db.status[j] \in Waiting
        BY <1>3, <1>4, <1>9, <2>3 DEF Waiting
      <3>2. ~FailedRequired(db, u)
        BY <1>9, <3>1 DEF ReasonInv, NoVainWait, RequiredFailure
      <3>3. u = m.job
        BY <1>4, <1>9, <2>1, <3>2 DEF FailedRequired, FailedAllowed
      <3>4. m.state = "failed" /\ ~ShouldAutoRetry(db, m.job, m.reason, m.exit)
        BY <1>4, <1>9, <3>3 DEF FailedRequired, Waiting
      <3>5. \/ Def[m.job].stage < Def[j].stage
            \/ Def[j].needs # ByStage /\ m.job \in Def[j].needs
        BY <1>9, <3>3 DEF Upstream
      <3>6. v.status[j] = "skipped"
        BY <1>1, <1>9, <2>1, <2>3, <3>1, <3>3, <3>4, <3>5, ReportSkips
      <3> QED BY <1>3, <1>9, <3>6 DEF Waiting
    <2> QED BY <2>2, <2>3
  <1>10. NoVainWait'
    BY <1>8, <1>9, UpstreamType DEF NoVainWait, RequiredFailure
  <1>11. ASSUME NEW j \in Job, Def[j].when = "on_failure", db'.status[j] \in Waiting,
                DependenciesTerminal(v, j, {})
         PROVE  RequiredFailure(v, j)
    <2>1. ASSUME RequiredFailure(db, j)
          PROVE  RequiredFailure(v, j)
      <3>1. PICK u \in Upstream(j) : FailedRequired(db, u)
        BY <2>1 DEF RequiredFailure
      <3>2. u \in Job
        BY UpstreamType
      <3>3. FailedRequired(v, u)
        BY <1>2, <1>3, <3>1, <3>2
           DEF Undisturbed, FailedRequired, FailedAllowed, Settled, Result
      <3> QED BY <3>3 DEF RequiredFailure
    <2>2. CASE j = m.job
      BY <1>5, <1>11, <2>1, <2>2 DEF OrderInv, CleanupHasCause
    <2>3. CASE j # m.job /\ Pipe(j) = Pipe(m.job)
      <3>1. db.status[j] \in Waiting
        BY <1>3, <1>4, <1>11, <2>3 DEF Waiting
      <3>2. v.status[j] # "skipped"
        BY <1>3, <1>11 DEF Waiting
      <3> QED BY <1>1, <1>11, <2>3, <3>1, <3>2, ReportCleans
    <2>4. CASE Pipe(j) # Pipe(m.job)
      <3>1. db.status[j] \in Waiting
        BY <1>3, <1>4, <1>11, <2>4 DEF Waiting
      <3>2. ASSUME NEW u \in Upstream(j)
            PROVE  db.status[u] = v.status[u]
        <4>1. u \in Job /\ u # m.job /\ Pipe(u) # Pipe(m.job)
          BY <2>4, UpstreamType
        <4>2. u \notin SkippedAt(WithStatus(db, {m.job}, m.state), Pipe(m.job))
          BY <4>1 DEF SkippedAt, Asking, JobsOf
        <4> QED BY <1>1, <4>1, <4>2, ReportSkips
      <3>3. DependenciesTerminal(db, j, {})
        BY <1>11, <3>2 DEF DependenciesTerminal
      <3> QED BY <1>11, <2>1, <3>1, <3>3 DEF ReasonInv, CleanupIsSkipped
    <2> QED BY <2>2, <2>3, <2>4
  <1>12. CleanupIsSkipped'
    <2>1. ASSUME NEW j \in Job
          PROVE  /\ DependenciesTerminal(db, j, {})' => DependenciesTerminal(v, j, {})
                 /\ RequiredFailure(v, j) => RequiredFailure(db, j)'
      <3> HIDE DEF v
      <3> QED BY <1>3, <1>8, UpstreamType DEF DependenciesTerminal, RequiredFailure
    <2> QED BY <1>11, <2>1 DEF CleanupIsSkipped
  <1> QED BY <1>7, <1>10, <1>12 DEF ReasonInv

\* A step after which waiting jobs may be pending or running, and no other job
\* shows anything else, keeps the reasons to wait.
LEMMA ReasonIsKept ==
    ASSUME ReasonInv, db'.exit = db.exit,
           \A u \in Job : \/ db'.status[u] = db.status[u]
                          \/ db.status[u] \in Waiting /\ db'.status[u] \in {"pending", "running"}
    PROVE  ReasonInv'
  <1>1. Together' /\ NothingCanceled'
    BY DEF ReasonInv, Together, NothingCanceled, Waiting
  <1>2. ASSUME NEW j \in Job
        PROVE  /\ RequiredFailure(db, j)' <=> RequiredFailure(db, j)
               /\ DependenciesTerminal(db, j, {})' => DependenciesTerminal(db, j, {})
               /\ db'.status[j] \in Waiting => db.status[j] \in Waiting
    <2>1. \A u \in Job : FailedRequired(db, u)' <=> FailedRequired(db, u)
      BY DEF FailedRequired, FailedAllowed, Waiting
    <2>2. RequiredFailure(db, j)' <=> RequiredFailure(db, j)
      BY <2>1, UpstreamType DEF RequiredFailure
    <2>3. DependenciesTerminal(db, j, {})' => DependenciesTerminal(db, j, {})
      BY UpstreamType DEF DependenciesTerminal, Waiting
    <2> QED BY <2>2, <2>3 DEF Waiting
  <1>3. NoVainWait'
    BY <1>2 DEF ReasonInv, NoVainWait
  <1>4. CleanupIsSkipped'
    BY <1>2 DEF ReasonInv, CleanupIsSkipped
  <1> QED BY <1>1, <1>3, <1>4 DEF ReasonInv

\* The poll and the promotion are such steps.
LEMMA ReasonPoll ==
    ASSUME OrderInv, ReasonInv, (\E r \in Runner : RequestJob(r)) \/ (PromoteDelayed /\ Split = {})
    PROVE  ReasonInv'
  <1>1. TypeOK /\ db \in DbState
    BY DEF OrderInv, ActiveInv, FinalInv, FreshInv, TypeOK
  <1>2. ASSUME NEW r \in Runner, RequestJob(r)
        PROVE  ReasonInv'
    <2> DEFINE s == Promoted(db)
    <2>1. /\ s \in DbState /\ db'.exit = db.exit
          /\ \A j \in Job : \/ s.status[j] = db.status[j]
                            \/ db.status[j] = "scheduled" /\ s.status[j] = "pending"
          /\ \/ db'.status = s.status
             \/ \E j \in Runnable(s, r) :
                   j \in Job /\ db'.status = [s.status EXCEPT ![j] = "running"]
      BY <1>1, <1>2, PollRows
    <2> HIDE DEF s
    <2>2. \A j \in Runnable(s, r) : s.status[j] = "pending"
      BY DEF Runnable
    <2>3. \A u \in Job : \/ db'.status[u] = db.status[u]
                         \/ db.status[u] \in Waiting /\ db'.status[u] \in {"pending", "running"}
      BY <2>1, <2>2 DEF Waiting, DbState
    <2> QED BY <2>1, <2>3, ReasonIsKept
  <1>3. ASSUME PromoteDelayed, Split = {}
        PROVE  ReasonInv'
    <2>1. Commit(db, Promoted(db))
      BY <1>3 DEF PromoteDelayed, Snapshots
    <2>2. StoresJobs(db, Promoted(db))
      BY <1>1, <2>1, PromotedType, CommitType
    <2>3. /\ Promoted(db).exit = db.exit
          /\ \A j \in Job : \/ Promoted(db).status[j] = db.status[j]
                            \/ /\ db.status[j] \in Waiting
                               /\ Promoted(db).status[j] = "pending"
      BY <1>1 DEF Promoted, WithStatus, DbState, Waiting
    <2>4. /\ db'.exit = db.exit
          /\ \A j \in Job : db'.status[j] = Promoted(db).status[j]
      BY <1>1, <2>2, <2>3 DEF StoresJobs, Written, DbState
    <2> QED BY <2>3, <2>4, ReasonIsKept
  <1> QED BY <1>2, <1>3

\* In a new pipeline every on_failure job has a job to wait for.
LEMMA ReasonCreatePipeline ==
    ASSUME OrderInv, ReasonInv, WellPlaced, \A j \in Job : ~Def[j].interruptible,
           NEW p \in Pipeline, CreatePipeline(p)
    PROVE  ReasonInv'
  <1>1. TypeOK
    BY DEF OrderInv, ActiveInv, FinalInv, FreshInv
  <1>2. /\ db'.exit = db.exit
        /\ \A j \in Job : j \notin JobsOf(p) => db'.status[j] = db.status[j]
        /\ \A j \in JobsOf(p) : db'.status[j] \in {"manual", "scheduled", "pending"}
    BY <1>1, CreateRows
  <1>3. \A j \in JobsOf(p) : Def[j].when # "manual" => db'.status[j] \in Waiting
    <2> DEFINE Old == {o \in Pipeline : Ref[o] = Ref[p] /\ db.verdict[o] # "absent"}
               Victims == {j \in Cancelable(db) : Pipe(j) \in Old /\ Def[j].interruptible}
               I == Concluded(Canceled(db, Victims), {Pipe(j) : j \in Victims})
               First(j) == CASE Def[j].when = "manual" -> "manual"
                             [] Def[j].when = "delayed" -> "scheduled"
                             [] OTHER -> "pending"
    <2>1. db' = [I EXCEPT !.status = [j \in Job |-> IF j \in JobsOf(p) THEN First(j)
                                                    ELSE I.status[j]],
                          !.verdict = [I.verdict EXCEPT ![p] = "pending"]]
      BY DEF CreatePipeline
    <2>2. I \in DbState
      BY <1>1, WithStatusType, ConcludedType DEF Canceled, Status, TypeOK
    <2>3. \A j \in JobsOf(p) : Def[j].when # "manual" => First(j) \in Waiting
      BY DEF Waiting
    <2> HIDE DEF I, First
    <2>4. \A j \in JobsOf(p) : db'.status[j] = First(j)
      BY <2>1, <2>2 DEF DbState, JobsOf
    <2> QED BY <2>3, <2>4
  <1>4. Together' /\ NothingCanceled'
    BY <1>2 DEF ReasonInv, Together, NothingCanceled, JobsOf
  <1>5. ASSUME NEW j \in Job, j \notin JobsOf(p)
        PROVE  /\ RequiredFailure(db, j)' <=> RequiredFailure(db, j)
               /\ DependenciesTerminal(db, j, {})' <=> DependenciesTerminal(db, j, {})
               /\ db'.status[j] = db.status[j]
    <2>1. \A u \in Upstream(j) : u \in Job /\ db'.status[u] = db.status[u]
      BY <1>2, <1>5, UpstreamType DEF JobsOf
    <2>2. \A u \in Upstream(j) : FailedRequired(db, u)' <=> FailedRequired(db, u)
      BY <1>2, <2>1 DEF FailedRequired, FailedAllowed
    <2> QED BY <1>2, <1>5, <2>1, <2>2 DEF RequiredFailure, DependenciesTerminal
  <1>6. ASSUME NEW j \in JobsOf(p)
        PROVE  /\ ~RequiredFailure(db, j)'
               /\ Def[j].when = "on_failure" => ~DependenciesTerminal(db, j, {})'
    <2>1. \A u \in Upstream(j) : u \in JobsOf(p)
      BY <1>6, UpstreamType DEF JobsOf
    <2>2. ~RequiredFailure(db, j)'
      BY <1>2, <2>1 DEF RequiredFailure, FailedRequired
    <2>3. ASSUME Def[j].when = "on_failure"
          PROVE  ~DependenciesTerminal(db, j, {})'
      <3>1. PICK u \in Upstream(j) : Def[u].when # "manual"
        BY <1>6, <2>3 DEF WellPlaced, JobsOf
      <3>2. db'.status[u] \in Waiting
        BY <1>3, <2>1, <3>1
      <3> QED BY <3>1, <3>2 DEF DependenciesTerminal, Waiting
    <2> QED BY <2>2, <2>3
  <1>7. NoVainWait'
    BY <1>5, <1>6 DEF ReasonInv, NoVainWait
  <1>8. CleanupIsSkipped'
    BY <1>5, <1>6 DEF ReasonInv, CleanupIsSkipped
  <1> QED BY <1>4, <1>7, <1>8 DEF ReasonInv

\* Nothing waits before the first pipeline.
LEMMA ReasonInit == Init => ReasonInv
  BY DEF Init, ReasonInv, Together, NothingCanceled, NoVainWait, CleanupIsSkipped, Waiting

\* Every step keeps the reasons to wait.
LEMMA ReasonNext ==
    ASSUME OrderInv, ReasonInv, WellPlaced, Split = {}, Ops \subseteq {"update", "promote"},
           \A j \in Job : ~Def[j].interruptible, [Next]_vars
    PROVE  ReasonInv'
  <1>1. ASSUME NEW m \in Sendable \cup BeingServed, UpdateJob(m)
        PROVE  ReasonInv'
    <2>1. m \in Sendable
      BY <1>1 DEF UpdateJob
    <2> QED BY <1>1, <2>1, ReasonUpdate
  <1>2. \A j \in Job : ~PlayJob(j) /\ ~CancelJob(j) /\ ~RetryJob(j) /\ ~RequeueJob(j)
    BY DEF PlayJob, CancelJob, RetryJob, RequeueJob, Serve
  <1>3. \A q \in Pipeline : ~CancelPipeline(q) /\ ~CancelPipelineInUi(q) /\ ~RetryPipeline(q)
    BY DEF CancelPipeline, CancelPipelineInUi, RetryPipeline, Serve
  <1>4. ASSUME Handle
        PROVE  ReasonInv'
    BY <1>1, <1>2, <1>3, <1>4, ReasonPoll DEF Handle
  <1>5. ASSUME NEW p \in Pipeline, CreatePipeline(p)
        PROVE  ReasonInv'
    BY <1>5, ReasonCreatePipeline
  <1>6. ASSUME NEW j \in Job, Elapse(j)
        PROVE  ReasonInv'
    <2>1. db \in DbState
      BY DEF OrderInv, ActiveInv, FinalInv, FreshInv, TypeOK
    <2> QED BY <1>6, <2>1, ReasonIsKept DEF Elapse, DbState
  <1>7. ASSUME UNCHANGED db
        PROVE  ReasonInv'
    BY <1>7, ReasonIsKept
  <1> QED BY <1>4, <1>5, <1>6, <1>7, ReasonPoll DEF Next, vars, Read, Drop, Finish

\* Among jobs there is one of the earliest stage.
LEMMA EarliestJob ==
    ASSUME NEW W \in SUBSET Job, W # {}
    PROVE  \E k \in W : \A u \in W : ~(Def[u].stage < Def[k].stage)
  <1> DEFINE Less(a, b) == a < b
             T == {Def[k].stage : k \in W}
  <1>1. IsWellFoundedOn(OpToRel(Less, Nat), Nat)
    BY NatLessThanWellFounded
  <1>2. T \subseteq Nat /\ T # {}
    BY ConfigurationIsTyped DEF JobDef
  <1>3. PICK t \in T : \A x \in T : ~ (<<x, t>> \in OpToRel(Less, Nat))
    <2> HIDE DEF T
    <2> QED BY <1>1, <1>2, WFMin
  <1>4. \A x \in T : ~(x < t)
    BY <1>2, <1>3 DEF OpToRel
  <1> QED BY <1>4

\* While a job is pending, the earliest pending job of its pipeline can be
\* handed to a runner, unless a job of the pipeline runs or is scheduled.
LEMMA EarliestIsRunnable ==
    ASSUME TypeOK, ReasonInv, WellPlaced, NEW j \in Job, db.status[j] = "pending",
           \A k \in JobsOf(Pipe(j)) : db.status[k] \notin {"running", "scheduled"}
    PROVE  \E k \in JobsOf(Pipe(j)), r \in Runner : k \in Runnable(db, r)
  <1> DEFINE W == {k \in JobsOf(Pipe(j)) : db.status[k] = "pending"}
  <1>1. PICK k \in W : \A u \in W : ~(Def[u].stage < Def[k].stage)
    <2>1. W \in SUBSET Job /\ W # {}
      BY DEF JobsOf
    <2> QED BY <2>1, EarliestJob
  <1>2. k \in Job /\ Pipe(k) = Pipe(j) /\ db.status[k] = "pending"
    BY DEF JobsOf
  <1>3. ASSUME NEW u \in Upstream(k)
        PROVE  db.status[u] \in {"success", "skipped", "manual", "failed"}
    <2>1. u \in JobsOf(Pipe(j)) /\ Def[u].stage < Def[k].stage
      BY <1>2, UpstreamType DEF WellPlaced, JobsOf
    <2>2. db.status[u] \notin {"pending", "running", "scheduled"}
      BY <1>1, <2>1
    <2>3. db.status[u] \notin {"absent", "canceled"}
      BY <1>2, <2>1 DEF ReasonInv, Together, NothingCanceled, JobsOf
    <2> QED BY <2>1, <2>2, <2>3 DEF TypeOK, DbState, Status, JobsOf
  <1>4. Def[k].when = "on_failure" => RequiredFailure(db, k)
    BY <1>2, <1>3 DEF ReasonInv, CleanupIsSkipped, DependenciesTerminal, Waiting
  <1>5. \A u \in Upstream(k) : FailedRequired(db, u) => RunsAfterFailure(k)
    BY <1>2 DEF ReasonInv, NoVainWait, RequiredFailure, Waiting
  <1>6. Unblocked(db, k)
    BY <1>3, <1>4, <1>5 DEF Unblocked, FailedRequired
  <1>7. GroupIsFree(db, k)
    BY <1>2 DEF GroupIsFree
  <1>8. PICK r \in Runner : k \in Eligible[r]
    BY <1>2 DEF WellPlaced
  <1> QED BY <1>2, <1>6, <1>7, <1>8 DEF Runnable

\* Absence of deadlock, for every configuration that respects WellPlaced: in
\* every reachable state in which a job is pending, one of its pipeline runs,
\* waits for its time, or would be handed out by the next poll of some runner.
\* Whatever failed, was retried, allowed or skipped, the rules of update_job
\* and those of the poll agree on what is over.
THEOREM NothingWaitsInVain ==
    ASSUME WellPlaced, Split = {}, Ops \subseteq {"update", "promote"},
           \A j \in Job : ~Def[j].interruptible
    PROVE  Spec => []WaitingHasAReason
  <1>1. OrderInv /\ ReasonInv /\ [Next]_vars => ReasonInv'
    BY ReasonNext
  <1>2. OrderInv /\ ReasonInv => WaitingHasAReason
    <2>1. OrderInv => TypeOK
      BY DEF OrderInv, ActiveInv, FinalInv, FreshInv
    <2> QED BY <2>1, EarliestIsRunnable DEF WaitingHasAReason
  <1> QED BY <1>1, <1>2, ReasonInit, OrderIsInvariant, PTL DEF Spec
=============================================================================
