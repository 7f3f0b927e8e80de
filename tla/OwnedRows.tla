-------------------------------- MODULE OwnedRows --------------------------------
(***************************************************************************)
(* Rows that name their owner by its id: webhooks, keys, snippets, tokens, *)
(* comments, triggers and more.  SQLite does not enforce foreign keys here *)
(* and gives the id of the last row that was deleted to the next one, so a *)
(* row that outlives its owner belongs to the next owner with that id.     *)
(* What happens to the rows is for the handler that deletes the owner.     *)
(*                                                                         *)
(* One kind of row, with the owners it has, is modelled at a time.         *)
(***************************************************************************)
EXTENDS Integers, FiniteSets, FiniteSetsExt

CONSTANTS
    OwnerCall,  \* the requests in flight at one time
    NoRequest,
    MaxOwner,   \* bound: owners at one time
    MaxBirth,   \* bound: owners there ever are
    MaxOwned    \* bound: rows at one time

ASSUME OwnedBounds == {MaxOwner, MaxBirth, MaxOwned} \subseteq Nat

VARIABLES
    kind,    \* the kind of row
    owners,  \* [id -> which of all the owners]
    births,
    owned,   \* [id -> row]
    request

ownedVars == <<kind, owners, births, owned, request>>

-----------------------------------------------------------------------------
\* Mutation: the schedules are left.
OfProjectButSchedules(k) ==
    CASE k \in {"trigger", "ci"} -> "all"
      [] k \in {"pipeline", "part"} -> "loaded"
      [] k \in {"schedule", "hook", "deploy_key", "snippet", "status", "check", "actions"} -> "nothing"
      [] OTHER -> "other"

\* What the deletion of a project does with its rows: statements delete those
\* there are, or the session those it has loaded; or nothing does.
OfProject(k) ==
    CASE k \in {"trigger", "schedule", "ci"} -> "all"
      [] k \in {"pipeline", "part"} -> "loaded"
      [] k \in {"hook", "deploy_key", "snippet", "status", "check", "actions"} -> "none"
      [] OTHER -> "other"

\* That of other owners.  Without a cascade the session sets the owner of the
\* rows it has loaded to NULL, which NOT NULL refuses; it deletes those of a
\* many-to-many relationship (an issue's labels).
OfOther(k) ==
    CASE k \in {"token", "project", "membership"} -> "refused"
      [] k \in {"link", "issue_label"} -> "loaded"
      [] OTHER -> "none"

DeletesRows(k) == IF OfProject(k) = "other" THEN OfOther(k) ELSE OfProject(k)

Kinds == {"trigger", "schedule", "ci", "pipeline", "part", "hook", "deploy_key", "snippet",
          "status", "check", "actions", "group_hook", "membership", "token", "project", "key",
          "gist", "personal_snippet", "comment", "reaction", "review", "review_comment",
          "issue_label", "link"}

\* born: which owner the row was made for.  late: history, its owner was being
\* deleted, or gone, when the row was committed.
Owned == [of : 1 .. MaxOwner, born : 1 .. MaxBirth, late : BOOLEAN]
OwnerRequest == [op : {"add", "change", "remove", "delete", "delete_alone"}, id : Nat, born : 0 .. MaxBirth,
            loaded : SUBSET (1 .. MaxOwned)]

OwnedTypeOK ==
    /\ kind \in Kinds /\ births \in 0 .. MaxBirth
    /\ DOMAIN owners \subseteq 1 .. MaxOwner /\ \A o \in DOMAIN owners : owners[o] \in 1 .. births
    /\ DOMAIN owned \subseteq 1 .. MaxOwned /\ \A i \in DOMAIN owned : owned[i] \in Owned
    /\ request \in [OwnerCall -> OwnerRequest \cup {NoRequest}]

OwnedInit ==
    /\ kind \in Kinds
    /\ owners = [o \in {} |-> 0] /\ births = 0
    /\ owned = [i \in {} |-> 0]
    /\ request = [c \in OwnerCall |-> NoRequest]

-----------------------------------------------------------------------------
(* The shapes of the handlers, up to the write. *)

RowsOf(o) == {i \in DOMAIN owned : owned[i].of = o}

Begins(k, c, r) ==
    /\ kind = k /\ request[c] = NoRequest
    /\ request' = [request EXCEPT ![c] = r]
    /\ UNCHANGED <<kind, owners, births, owned>>

AddTo(k, c, o) ==
    Begins(k, c, [op |-> "add", id |-> o, born |-> owners[o], loaded |-> {}])
ChangeRow(k, c, i) == Begins(k, c, [op |-> "change", id |-> i, born |-> 0, loaded |-> {}])
RemoveRow(k, c, i) == Begins(k, c, [op |-> "remove", id |-> i, born |-> 0, loaded |-> {}])
DeleteOwner(k, c, o, op) ==
    Begins(k, c, [op |-> op, id |-> o, born |-> 0, loaded |-> RowsOf(o)])

-----------------------------------------------------------------------------
(* The handlers. *)

CreateProjectHook(c, o) == AddTo("hook", c, o)
CreateHook(c, o) == AddTo("hook", c, o)
RepoWebhookCreate(c, o) == AddTo("hook", c, o)
UpdateProjectHook(c, i) == ChangeRow("hook", c, i)
UpdateHook(c, i) == ChangeRow("hook", c, i)
RepoWebhookUpdate(c, i) == ChangeRow("hook", c, i)
DeleteProjectHook(c, i) == RemoveRow("hook", c, i)
DeleteHook(c, i) == RemoveRow("hook", c, i)
RepoWebhookDelete(c, i) == RemoveRow("hook", c, i)
CreateGroupHook(c, o) == AddTo("group_hook", c, o)
UpdateGroupHook(c, i) == ChangeRow("group_hook", c, i)
DeleteGroupHook(c, i) == RemoveRow("group_hook", c, i)

CreateProjectDeployKey(c, o) == AddTo("deploy_key", c, o)
CreateDeployKey(c, o) == AddTo("deploy_key", c, o)
RepoDeployKeyCreate(c, o) == AddTo("deploy_key", c, o)
DeleteProjectDeployKey(c, i) == RemoveRow("deploy_key", c, i)
DeleteDeployKey(c, i) == RemoveRow("deploy_key", c, i)
RepoDeployKeyDelete(c, i) == RemoveRow("deploy_key", c, i)

CreateProjectSnippet(c, o) == AddTo("snippet", c, o)
RepoSnippetCreate(c, o) == AddTo("snippet", c, o)
RepoSnippetDelete(c, i) == RemoveRow("snippet", c, i)
CreatePersonalSnippet(c, o) == AddTo("personal_snippet", c, o)
DeletePersonalSnippet(c, i) == RemoveRow("personal_snippet", c, i)

CreateStatus(c, o) == AddTo("status", c, o)
CreateProjectCommitStatus(c, o) == AddTo("status", c, o)
CreateCheckSuite(c, o) == AddTo("check", c, o)
CreateCheckRun(c, o) == AddTo("check", c, o)
UpdateCheckRun(c, i) == ChangeRow("check", c, i)
AddActionsRow(c, o) == AddTo("actions", c, o)

CreatePipelineTrigger(c, o) == AddTo("trigger", c, o)
TriggerPipeline(c, i) == ChangeRow("trigger", c, i)
DeletePipelineTrigger(c, i) == RemoveRow("trigger", c, i)
AddSchedule(c, o) == AddTo("schedule", c, o)
UpsertScheduleVariable(c, i) == ChangeRow("schedule", c, i)
DeleteScheduleVariable(c, i) == ChangeRow("schedule", c, i)
RemoveSchedule(c, i) == RemoveRow("schedule", c, i)
AddCiRow(c, o) == AddTo("ci", c, o)
AddPipeline(c, o) == AddTo("pipeline", c, o)
KeepProjectJobArtifacts(c, i) == ChangeRow("pipeline", c, i)
StopProjectEnvironment(c, i) == ChangeRow("pipeline", c, i)
DeletePipeline(c, i) == RemoveRow("pipeline", c, i)
DeleteProjectPipelinesEndpoint(c, i) == RemoveRow("pipeline", c, i)
DeleteRepoPipelines(c, i) == RemoveRow("pipeline", c, i)

\* Branches, labels, milestones, members, stars and issues.
AddPart(c, o) == AddTo("part", c, o)
UpdateProjectMilestone(c, i) == ChangeRow("part", c, i)
UpdateMilestone(c, i) == ChangeRow("part", c, i)
RemovePart(c, i) == RemoveRow("part", c, i)

CreateComment(c, o) == AddTo("comment", c, o)
GraphqlAddComment(c, o) == AddTo("comment", c, o)
UpdateComment(c, i) == ChangeRow("comment", c, i)
DeleteComment(c, i) == RemoveRow("comment", c, i)
GraphqlAddReaction(c, o) == AddTo("reaction", c, o)
CreateReview(c, o) == AddTo("review", c, o)
SubmitReview(c, i) == ChangeRow("review", c, i)
DismissReview(c, i) == ChangeRow("review", c, i)
CreateReviewComment(c, o) == AddTo("review_comment", c, o)
UpdateReviewComment(c, i) == ChangeRow("review_comment", c, i)
DeleteReviewComment(c, i) == RemoveRow("review_comment", c, i)
AddIssueLabels(c, o) == AddTo("issue_label", c, o)
SetIssueLabels(c, o) == AddTo("issue_label", c, o)
RemoveIssueLabel(c, i) == RemoveRow("issue_label", c, i)

CreateProjectReleaseAssetLink(c, o) == AddTo("link", c, o)
UpdateProjectReleaseAssetLink(c, i) == ChangeRow("link", c, i)
DeleteProjectReleaseAssetLink(c, i) == RemoveRow("link", c, i)

AddMembership(c, o) == AddTo("membership", c, o)
AddProject(c, o) == AddTo("project", c, o)
CreateToken(c, o) == AddTo("token", c, o)
AdminCreateToken(c, o) == AddTo("token", c, o)
AccessToken(c, o) == AddTo("token", c, o)
ValidateToken(c, i) == ChangeRow("token", c, i)
RevokeToken(c, i) == RemoveRow("token", c, i)
CreateKey(c, o) == AddTo("key", c, o)
CreateGpgKey(c, o) == AddTo("key", c, o)
DeleteKey(c, i) == RemoveRow("key", c, i)
DeleteGpgKey(c, i) == RemoveRow("key", c, i)
CreateGist(c, o) == AddTo("gist", c, o)
UpdateGist(c, i) == ChangeRow("gist", c, i)
DeleteGist(c, i) == RemoveRow("gist", c, i)

\* The owners.  The four ways to delete a project share their clean-up; an issue
\* and a pull request go with their project.
ProjectKinds == {k \in Kinds : OfProject(k) # "other"}
DeleteProject(c, o) == \E k \in ProjectKinds : DeleteOwner(k, c, o, "delete")
DeleteRepo(c, o) == \E k \in ProjectKinds : DeleteOwner(k, c, o, "delete")
RepoDeleteSubmit(c, o) == \E k \in ProjectKinds : DeleteOwner(k, c, o, "delete")
AdminDeleteRepo(c, o) == \E k \in ProjectKinds : DeleteOwner(k, c, o, "delete")
DeleteOrg(c, o) == \E k \in {"membership", "group_hook"} : DeleteOwner(k, c, o, "delete")
DeleteUser(c, o) ==
    \E k \in {"token", "project", "key", "gist", "personal_snippet"} : DeleteOwner(k, c, o, "delete")
DeleteWithProject(c, o) ==
    \E k \in {"comment", "reaction", "review", "review_comment", "issue_label"} :
        DeleteOwner(k, c, o, "delete")
\* A release with links is deleted by one of its three surfaces.
DeleteReleaseAndLinks(c, o) == DeleteOwner("link", c, o, "delete")
DeleteReleaseAlone(c, o) == DeleteOwner("link", c, o, "delete_alone")
RepoReleaseDeleteAlone(c, o) == DeleteOwner("link", c, o, "delete_alone")

-----------------------------------------------------------------------------
(* The writes. *)

Writes(c, op) == request[c] # NoRequest /\ request[c].op = op
Answered(c) == request' = [request EXCEPT ![c] = NoRequest] /\ UNCHANGED kind

NextId(rows) == Max(DOMAIN rows \cup {0}) + 1

CreateOwner ==
    LET o == NextId(owners) IN
    /\ o <= MaxOwner /\ births < MaxBirth
    /\ births' = births + 1
    /\ owners' = [p \in DOMAIN owners \cup {o} |-> IF p = o THEN births' ELSE owners[p]]
    /\ UNCHANGED <<kind, owned, request>>

BeingDeleted(o) == \E d \in OwnerCall : request[d] # NoRequest
                       /\ request[d].op \in {"delete", "delete_alone"} /\ request[d].id = o

WriteRow(c) ==
    LET i == NextId(owned)
        o == request[c].id
        there == o \in DOMAIN owners /\ owners[o] = request[c].born IN
    /\ Writes(c, "add") /\ i <= MaxOwned
    /\ owned' = [j \in DOMAIN owned \cup {i} |->
           IF j = i THEN [of |-> o, born |-> request[c].born, late |-> ~there \/ BeingDeleted(o)]
           ELSE owned[j]]
    /\ Answered(c) /\ UNCHANGED <<owners, births>>

\* Only columns change that are not modelled; the row must be there.
WriteChange(c) ==
    /\ Writes(c, "change") /\ request[c].id \in DOMAIN owned
    /\ Answered(c) /\ UNCHANGED <<owners, births, owned>>

WriteRemove(c) ==
    /\ Writes(c, "remove")
    /\ owned' = [j \in DOMAIN owned \ {request[c].id} |-> owned[j]]
    /\ Answered(c) /\ UNCHANGED <<owners, births>>

Left(c, how) ==
    CASE how = "all" -> DOMAIN owned \ RowsOf(request[c].id)
      [] how = "loaded" -> DOMAIN owned \ request[c].loaded
      [] OTHER -> DOMAIN owned

WriteDelete(c) ==
    LET how == IF request[c].op = "delete_alone" THEN "refused" ELSE DeletesRows(kind) IN
    /\ Writes(c, "delete") \/ Writes(c, "delete_alone")
    /\ how = "refused" => request[c].loaded = {}
    /\ owners' = [o \in DOMAIN owners \ {request[c].id} |-> owners[o]]
    /\ owned' = [i \in Left(c, how) |-> owned[i]]
    /\ Answered(c) /\ UNCHANGED births

\* IntegrityError, StaleDataError, a client that is gone, a locked database.
NoWrite(c) == request[c] # NoRequest /\ Answered(c) /\ UNCHANGED <<owners, births, owned>>

AddOwned(c, o) ==
    \/ CreateProjectHook(c, o) \/ CreateHook(c, o) \/ RepoWebhookCreate(c, o) \/ CreateGroupHook(c, o)
    \/ CreateProjectDeployKey(c, o) \/ CreateDeployKey(c, o) \/ RepoDeployKeyCreate(c, o)
    \/ CreateProjectSnippet(c, o) \/ RepoSnippetCreate(c, o) \/ CreatePersonalSnippet(c, o)
    \/ CreateStatus(c, o) \/ CreateProjectCommitStatus(c, o)
    \/ CreateCheckSuite(c, o) \/ CreateCheckRun(c, o) \/ AddActionsRow(c, o)
    \/ CreatePipelineTrigger(c, o) \/ AddSchedule(c, o) \/ AddCiRow(c, o) \/ AddPipeline(c, o)
    \/ AddPart(c, o) \/ CreateComment(c, o) \/ GraphqlAddComment(c, o) \/ GraphqlAddReaction(c, o)
    \/ CreateReview(c, o) \/ CreateReviewComment(c, o) \/ AddIssueLabels(c, o) \/ SetIssueLabels(c, o)
    \/ CreateProjectReleaseAssetLink(c, o) \/ AddMembership(c, o) \/ AddProject(c, o)
    \/ CreateToken(c, o) \/ AdminCreateToken(c, o) \/ AccessToken(c, o)
    \/ CreateKey(c, o) \/ CreateGpgKey(c, o) \/ CreateGist(c, o)

ChangeOwned(c, i) ==
    \/ UpdateProjectHook(c, i) \/ UpdateHook(c, i) \/ RepoWebhookUpdate(c, i) \/ UpdateGroupHook(c, i)
    \/ UpdateCheckRun(c, i) \/ TriggerPipeline(c, i)
    \/ UpsertScheduleVariable(c, i) \/ DeleteScheduleVariable(c, i)
    \/ KeepProjectJobArtifacts(c, i) \/ StopProjectEnvironment(c, i)
    \/ UpdateProjectMilestone(c, i) \/ UpdateMilestone(c, i) \/ UpdateComment(c, i)
    \/ SubmitReview(c, i) \/ DismissReview(c, i) \/ UpdateReviewComment(c, i)
    \/ UpdateProjectReleaseAssetLink(c, i) \/ ValidateToken(c, i) \/ UpdateGist(c, i)

RemoveOwned(c, i) ==
    \/ DeleteProjectHook(c, i) \/ DeleteHook(c, i) \/ RepoWebhookDelete(c, i) \/ DeleteGroupHook(c, i)
    \/ DeleteProjectDeployKey(c, i) \/ DeleteDeployKey(c, i) \/ RepoDeployKeyDelete(c, i)
    \/ RepoSnippetDelete(c, i) \/ DeletePersonalSnippet(c, i)
    \/ DeletePipelineTrigger(c, i) \/ RemoveSchedule(c, i)
    \/ DeletePipeline(c, i) \/ DeleteProjectPipelinesEndpoint(c, i) \/ DeleteRepoPipelines(c, i)
    \/ RemovePart(c, i) \/ DeleteComment(c, i) \/ DeleteReviewComment(c, i) \/ RemoveIssueLabel(c, i)
    \/ DeleteProjectReleaseAssetLink(c, i) \/ RevokeToken(c, i)
    \/ DeleteKey(c, i) \/ DeleteGpgKey(c, i) \/ DeleteGist(c, i)

DeleteOwners(c, o) ==
    \/ DeleteProject(c, o) \/ DeleteRepo(c, o) \/ RepoDeleteSubmit(c, o) \/ AdminDeleteRepo(c, o)
    \/ DeleteOrg(c, o) \/ DeleteUser(c, o) \/ DeleteWithProject(c, o)
    \/ DeleteReleaseAndLinks(c, o) \/ DeleteReleaseAlone(c, o) \/ RepoReleaseDeleteAlone(c, o)

OwnedNext ==
    \/ CreateOwner
    \/ \E c \in OwnerCall :
        \/ \E o \in DOMAIN owners : AddOwned(c, o) \/ DeleteOwners(c, o)
        \/ \E i \in DOMAIN owned : ChangeOwned(c, i) \/ RemoveOwned(c, i)
        \/ WriteRow(c) \/ WriteChange(c) \/ WriteRemove(c) \/ WriteDelete(c) \/ NoWrite(c)

OwnedSpec == OwnedInit /\ [][OwnedNext]_ownedVars

-----------------------------------------------------------------------------
\* No owner is given the rows of an earlier one with its id, and no row is left
\* without its owner: for every kind whose rows the deletion of the owner deletes
\* or refuses to leave, unless the row was written while its owner was deleted.
NothingInherited ==
    DeletesRows(kind) # "none" =>
        \A i \in DOMAIN owned :
            \/ owned[i].late
            \/ owned[i].of \in DOMAIN owners /\ owners[owned[i].of] = owned[i].born
=============================================================================
