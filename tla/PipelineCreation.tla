---------------------------- MODULE PipelineCreation ----------------------------
(***************************************************************************)
(* _create_pipeline: a request, a trigger, a push or a schedule creates a  *)
(* pipeline from the project's .gitlab-ci.yml.  A bridge job creates a     *)
(* pipeline of another project: the function calls itself in the same      *)
(* database session, after the parent is committed.                        *)
(*                                                                         *)
(* A call is a stack of frames.  What the session inserted and has not     *)
(* committed is its draft; the first insert takes SQLite's write lock, so  *)
(* at most one call has a draft.                                           *)
(*                                                                         *)
(* Every project has one ref here.  A bridge to the project itself on      *)
(* another ref, which the code accepts, is left out: it does what one to   *)
(* another project does, in the iids of its own project.                   *)
(***************************************************************************)
EXTENDS Integers, Sequences, SequencesExt, FiniteSets

CONSTANTS
    CiProject,     \* the projects
    Creator,       \* the calls in flight at one time
    Interruptible, \* the bridge jobs are interruptible
    MaxRequested,  \* bound: pipelines of requests, and the calls that make one
    MaxPipelines   \* bound: pipelines, which only a cycle of bridges reaches

ASSUME CreationBounds ==
    /\ MaxRequested \in Nat /\ MaxPipelines \in Nat
    /\ MaxPipelines >= MaxRequested * Cardinality(CiProject)
    /\ Interruptible \in BOOLEAN
    /\ {"missing", "plain", "bad_secret"} \cap CiProject = {}

VARIABLES
    ci,         \* the projects' CI files at the ref
    pipeline,   \* [id -> committed pipeline with its bridge job]
    draft,      \* [creator -> [id -> pipeline]] flushed, not committed
    stack,      \* [creator -> frames]
    taken,      \* history: bridge jobs a runner was given
    lost        \* history: pipelines whose creator died before it could link them

creationVars == <<ci, pipeline, draft, stack, taken, lost>>

\* A file that is absent or does not pass the checks, one without bridges, one
\* with a secret that cannot be resolved, or one with a bridge to a project.
Ci == [CiProject -> {"missing", "plain", "bad_secret"} \cup CiProject]

BridgeStatus == {"none", "pending", "running", "success", "failed", "canceled"}
Pipe == [project : CiProject, iid : Nat, source : {"api", "parent_pipeline"}, whole : BOOLEAN,
         bridge : BridgeStatus, down : Nat]
\* id is 0 until the pipeline is inserted; down is what the bridge got, 0 for
\* an error.
Frame == [project : CiProject, at : {"validate", "insert", "jobs", "bridge", "finish"},
          iid : Nat, id : Nat, down : Nat]

CreationTypeOK ==
    /\ ci \in Ci
    /\ \A i \in DOMAIN pipeline : i \in 1 .. MaxPipelines /\ pipeline[i] \in Pipe
    /\ \A c \in Creator : \A i \in DOMAIN draft[c] : draft[c][i] \in Pipe
    /\ stack \in [Creator -> Seq(Frame)]
    /\ taken \subseteq DOMAIN pipeline /\ lost \subseteq DOMAIN pipeline

NoPipes == [i \in {} |-> 0]

CreationInit ==
    /\ ci \in Ci
    /\ pipeline = NoPipes
    /\ draft = [c \in Creator |-> NoPipes]
    /\ stack = [c \in Creator |-> <<>>]
    /\ taken = {}
    /\ lost = {}

-----------------------------------------------------------------------------
Merged(new, old) == [i \in DOMAIN new \cup DOMAIN old |-> IF i \in DOMAIN new THEN new[i] ELSE old[i]]

Top(c) == Last(stack[c])
WithTop(c, f) == [stack EXCEPT ![c] = Append(Front(@), f)]
At(c, where) == stack[c] # <<>> /\ Top(c).at = where
CanWrite(c) == \A d \in Creator \ {c} : draft[d] = NoPipes

NewFrame(p) == [project |-> p, at |-> "validate", iid |-> 0, id |-> 0, down |-> 0]

\* The frame returns pipeline d, or 0 for the HTTPException a parent catches.
Return(c, d) ==
    stack' = [stack EXCEPT ![c] =
        IF Len(@) = 1 THEN <<>>
        ELSE Append(Front(Front(@)), [Last(Front(@)) EXCEPT !.at = "finish", !.down = d])]

\* An HTTPException: the caller at the bottom closes the session, a parent goes
\* on with it, flushed rows and all.
Raise(c) ==
    /\ Return(c, 0)
    /\ draft' = IF Len(stack[c]) = 1 THEN [draft EXCEPT ![c] = NoPipes] ELSE draft
    /\ UNCHANGED <<ci, pipeline, taken, lost>>

\* Any other exception, or the end of the process.
Dies(c) ==
    /\ stack' = [stack EXCEPT ![c] = <<>>]
    /\ draft' = [draft EXCEPT ![c] = NoPipes]
    /\ lost' = lost \cup (DOMAIN pipeline \cap UNION {{f.id, f.down} : f \in Range(stack[c])})
    /\ UNCHANGED <<ci, pipeline, taken>>

-----------------------------------------------------------------------------
Requested == Cardinality({i \in DOMAIN pipeline : pipeline[i].source = "api"})

CreatePipeline(c, p) ==
    /\ stack[c] = <<>>
    /\ Requested + Cardinality({d \in Creator : stack[d] # <<>>}) < MaxRequested
    /\ stack' = [stack EXCEPT ![c] = <<NewFrame(p)>>]
    /\ UNCHANGED <<ci, pipeline, draft, taken, lost>>

\* Mutation: a bridge to the project itself is accepted.
InvalidIfMissing(p) == ci[p] = "missing"

\* A bridge to the project itself on the same ref, the only one there is, is refused.
Invalid(p) == ci[p] \in {"missing", p}

Iids(p) == {pipeline[i].iid : i \in {j \in DOMAIN pipeline : pipeline[j].project = p}}
NextIid(p) == Max(Iids(p) \cup {0}) + 1

\* The file is read and checked, the bridge's target looked up, max(iid) read.
Validate(c) ==
    /\ At(c, "validate") /\ ~Invalid(Top(c).project)
    /\ stack' = WithTop(c, [Top(c) EXCEPT !.at = "insert", !.iid = NextIid(Top(c).project)])
    /\ UNCHANGED <<ci, pipeline, draft, taken, lost>>

ValidateFails(c) == At(c, "validate") /\ Invalid(Top(c).project) /\ Raise(c)

\* Mutation: no constraint.
TakesAnyIid(f) == TRUE

\* UNIQUE (project_id, iid)
TakesIid(f) == f.iid \notin Iids(f.project)

Insert(c) ==
    LET f == Top(c)
        i == 1 + Cardinality(DOMAIN pipeline) IN
    /\ At(c, "insert") /\ CanWrite(c) /\ TakesIid(f) /\ i <= MaxPipelines
    /\ draft' = [draft EXCEPT ![c] = Merged(
           [k \in {i} |-> [project |-> f.project, iid |-> f.iid, whole |-> FALSE, bridge |-> "none", down |-> 0,
                           source |-> IF Len(stack[c]) = 1 THEN "api" ELSE "parent_pipeline"]], @)]
    /\ stack' = WithTop(c, [f EXCEPT !.at = "jobs", !.id = i])
    /\ UNCHANGED <<ci, pipeline, taken, lost>>

InsertFails(c) == At(c, "insert") /\ CanWrite(c) /\ ~TakesIid(Top(c)) /\ Dies(c)

\* Mutation: the pipeline is returned as it is.
SecretFailsQuietly(c) ==
    /\ At(c, "jobs") /\ ci[Top(c).project] = "bad_secret"
    /\ Return(c, Top(c).id)
    /\ UNCHANGED <<ci, pipeline, draft, taken, lost>>

\* A job's secret cannot be resolved, after the pipeline was flushed.
SecretFails(c) == At(c, "jobs") /\ ci[Top(c).project] = "bad_secret" /\ Raise(c)

\* _cancel_interruptible_jobs_for_new_pipeline, for the bridge jobs.
Superseded(row, p) ==
    IF Interruptible /\ row.project = p /\ row.bridge \in {"pending", "running"}
    THEN [row EXCEPT !.bridge = "canceled"] ELSE row

\* The jobs are inserted, older pipelines' jobs canceled, and all is committed.
CommitPipeline(c) ==
    LET f == Top(c)
        row == [draft[c][f.id] EXCEPT
                   !.whole = TRUE, !.bridge = IF ci[f.project] \in CiProject THEN "pending" ELSE "none"] IN
    /\ At(c, "jobs") /\ ci[f.project] # "bad_secret"
    /\ pipeline' = Merged([draft[c] EXCEPT ![f.id] = row],
                          [i \in DOMAIN pipeline |-> Superseded(pipeline[i], f.project)])
    /\ draft' = [draft EXCEPT ![c] = NoPipes]
    /\ IF row.bridge = "pending" THEN stack' = WithTop(c, [f EXCEPT !.at = "bridge"]) ELSE Return(c, f.id)
    /\ UNCHANGED <<ci, taken, lost>>

\* The parent calls _create_pipeline for the bridge's project.
Bridge(c) ==
    /\ At(c, "bridge")
    /\ stack' = [stack EXCEPT ![c] = Append(@, NewFrame(ci[Top(c).project]))]
    /\ UNCHANGED <<ci, pipeline, draft, taken, lost>>

\* Mutation: success whatever the bridge got.
FinishAsSuccess(c) ==
    LET f == Top(c) IN
    /\ At(c, "finish") /\ CanWrite(c)
    /\ pipeline' = [Merged(draft[c], pipeline) EXCEPT ![f.id].bridge = "success", ![f.id].down = f.down]
    /\ draft' = [draft EXCEPT ![c] = NoPipes]
    /\ Return(c, f.id)
    /\ UNCHANGED <<ci, taken, lost>>

\* The bridge gets its result, from the job as it was loaded after the first
\* commit, and everything in the session is committed.
Finish(c) ==
    LET f == Top(c) IN
    /\ At(c, "finish") /\ CanWrite(c)
    /\ pipeline' = [Merged(draft[c], pipeline) EXCEPT
           ![f.id].bridge = IF f.down = 0 THEN "failed" ELSE "success",
           ![f.id].down = f.down]
    /\ draft' = [draft EXCEPT ![c] = NoPipes]
    /\ Return(c, f.id)
    /\ UNCHANGED <<ci, taken, lost>>

\* The lock is not released within SQLite's timeout: "database is locked".
Locked(c) == (At(c, "insert") \/ At(c, "finish")) /\ ~CanWrite(c) /\ Dies(c)

Crash(c) == stack[c] # <<>> /\ Dies(c)

\* Meanwhile the committed bridge job is an ordinary pending job: POST
\* /jobs/request may give it to a runner, which reports a result.
TakeBridge(i) ==
    /\ pipeline[i].bridge = "pending"
    /\ pipeline' = [pipeline EXCEPT ![i].bridge = "running"]
    /\ taken' = taken \cup {i}
    /\ UNCHANGED <<ci, draft, stack, lost>>

EndBridge(i, result) ==
    /\ pipeline[i].bridge = "running"
    /\ pipeline' = [pipeline EXCEPT ![i].bridge = result]
    /\ UNCHANGED <<ci, draft, stack, taken, lost>>

CallStep(c) ==
    \/ Validate(c) \/ ValidateFails(c) \/ Insert(c) \/ InsertFails(c)
    \/ SecretFails(c) \/ CommitPipeline(c) \/ Bridge(c) \/ Finish(c) \/ Locked(c)

CreationNext ==
    \/ \E c \in Creator : \/ \E p \in CiProject : CreatePipeline(c, p)
                          \/ CallStep(c) \/ Crash(c)
    \/ \E i \in DOMAIN pipeline : TakeBridge(i) \/ \E result \in {"success", "failed"} : EndBridge(i, result)

\* A handler that can go on goes on, or its wait for the lock ends.
CreationFairness == \A c \in Creator : WF_creationVars(CallStep(c))

CreationSpec == CreationInit /\ [][CreationNext]_creationVars /\ CreationFairness

-----------------------------------------------------------------------------
\* Two creations of a project read max(iid) before either inserts, and still no
\* iid is given twice and none is left out.
IidsAreDense == \A p \in CiProject :
    /\ Iids(p) = 1 .. Cardinality(Iids(p))
    /\ \A i, j \in DOMAIN pipeline :
        i # j /\ pipeline[i].project = p /\ pipeline[j].project = p => pipeline[i].iid # pipeline[j].iid

\* A pipeline is committed with all its jobs or not at all, but for one: a
\* downstream pipeline that failed after its first flush is committed by the
\* parent that catches the error, and its bridge job is failed.
CommittedIsWhole == \A i \in DOMAIN pipeline :
    pipeline[i].whole \/ (pipeline[i].source = "parent_pipeline" /\ \A j \in DOMAIN pipeline : pipeline[j].down # i)

\* A bridge job that succeeded without a runner has a downstream pipeline with
\* all its jobs, and no other bridge has the same one.
SuccessHasDownstream == \A i \in DOMAIN pipeline :
    pipeline[i].bridge = "success" /\ i \notin taken =>
        /\ pipeline[i].down \in DOMAIN pipeline /\ pipeline[pipeline[i].down].whole
        /\ \A j \in DOMAIN pipeline \ {i} : pipeline[j].down # pipeline[i].down

\* A whole downstream pipeline is linked by a bridge, unless its creator died
\* between the two commits or is still between them.
DownstreamIsLinked == \A d \in DOMAIN pipeline \ lost :
    pipeline[d].source = "parent_pipeline" /\ pipeline[d].whole =>
        \/ \E i \in DOMAIN pipeline : pipeline[i].down = d
        \/ \E c \in Creator : \E k \in DOMAIN stack[c] : d \in {stack[c][k].id, stack[c][k].down}

\* The two sides of a bridge agree, although two commits set them.
BridgesAgree == SuccessHasDownstream /\ DownstreamIsLinked

\* Following the bridges from project to project comes to an end.
TriggersEnd == \E rank \in [CiProject -> 1 .. Cardinality(CiProject)] :
    \A p \in CiProject : ci[p] \in CiProject \ {p} => rank[p] < rank[ci[p]]

\* A creation ends if the chain of bridges does: the code only refuses a bridge
\* to the project itself, and a longer cycle calls _create_pipeline for ever.
CreationEnds ==
    \A c \in Creator : (stack[c] # <<>> /\ TriggersEnd) ~> stack[c] = <<>>
=============================================================================
