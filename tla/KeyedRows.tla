------------------------------- MODULE KeyedRows -------------------------------
(***************************************************************************)
(* Rows found by a key: labels, CI variables and secrets, members, stars,  *)
(* releases and more.  Their handlers have a few shapes in common: load    *)
(* the project, look for the row, then insert, change or delete one and    *)
(* commit.  Whether two rows may share a key depends on whether the        *)
(* table's UNIQUE constraint is one SQLite can enforce, and on whether the *)
(* handler looks before it inserts.                                        *)
(*                                                                         *)
(* One table is modelled at a time.  A change of columns outside the key   *)
(* is not modelled.                                                        *)
(***************************************************************************)
EXTENDS Integers, FiniteSets, FiniteSetsExt

CONSTANTS
    RowCall,  \* the requests in flight at one time
    Idle,
    MaxKey,   \* bound: keys; that of a milestone is its number
    MaxRows   \* bound: rows of the table

ASSUME RowBounds == MaxKey \in Nat /\ MaxRows \in Nat

VARIABLES
    table,    \* the table
    rows,     \* [id -> key]
    pending,  \* the requests in flight
    overlap   \* history: keys two requests were giving a row at one time

rowVars == <<table, rows, pending, overlap>>

Key == 1 .. MaxKey

\* labels, ci_variables and ci_secrets of a project or group, secrets and
\* variables of the GitHub surface, reactions, groups, milestones
Constrained == {"label", "ci", "actions", "reaction", "group", "milestone"}

\* instance ci_variables are in the constraint with a NULL, which equals nothing
Unconstrained == {"member", "star", "release", "team", "instance"}

\* add: look for the key, insert unless it is there.  insert: insert.
Pending == [op : {"add", "insert", "remove", "rename"}, key : Key, id : Nat, to : Key,
            at : {"look", "commit"}]

RowsTypeOK ==
    /\ table \in Constrained \cup Unconstrained
    /\ DOMAIN rows \subseteq Nat /\ \A i \in DOMAIN rows : rows[i] \in Key
    /\ pending \in [RowCall -> Pending \cup {Idle}]
    /\ overlap \subseteq Key

RowsInit ==
    /\ table \in Constrained \cup Unconstrained
    /\ rows = [i \in {} |-> 1]
    /\ pending = [c \in RowCall |-> Idle]
    /\ overlap = {}

-----------------------------------------------------------------------------
(* The shapes of the handlers, up to the project they load. *)

Keeps(p) == p.op # "remove"

Arrives(t, c, p) ==
    /\ table = t /\ pending[c] = Idle
    /\ pending' = [pending EXCEPT ![c] = p]
    /\ LET others == {pending[d] : d \in RowCall} \ {Idle} IN
       overlap' = overlap \cup {p.to : q \in {o \in others : Keeps(o) /\ Keeps(p) /\ o.to = p.to}}
    /\ UNCHANGED <<table, rows>>

ByKey(t, c, op, k, to) ==
    Arrives(t, c, [op |-> op, key |-> k, id |-> 0, to |-> to,
                    at |-> IF op = "insert" THEN "commit" ELSE "look"])

\* The web forms and some of the routes name a row by the id they were shown.
ById(t, c, op, i, to) ==
    Arrives(t, c, [op |-> op, key |-> rows[i], id |-> i, to |-> to, at |-> "look"])

Add(t, c, k) == ByKey(t, c, "add", k, k)
Insert(t, c, k) == ByKey(t, c, "insert", k, k)
Delete(t, c, k) == ByKey(t, c, "remove", k, k)
Rename(t, c, k, to) == ByKey(t, c, "rename", k, to)
RemoveShown(t, c, i) == ById(t, c, "remove", i, rows[i])
RenameShown(t, c, i, to) == ById(t, c, "rename", i, to)

-----------------------------------------------------------------------------
(* The handlers. *)

CreateProjectLabel(c, k) == Add("label", c, k)
CreateLabel(c, k) == Add("label", c, k)
RepoLabelCreate(c, k) == Insert("label", c, k)
UpdateProjectLabel(c, k, to) == Rename("label", c, k, to)
UpdateLabel(c, k, to) == Rename("label", c, k, to)
RepoLabelUpdate(c, i, to) == RenameShown("label", c, i, to)
DeleteProjectLabel(c, k) == Delete("label", c, k)
DeleteLabel(c, k) == Delete("label", c, k)
RepoLabelDelete(c, i) == RemoveShown("label", c, i)

\* The key of a CI variable or secret includes its scopes, which an update may
\* change.
CreateProjectVariable(c, k) == Insert("ci", c, k)
CreateProjectSecret(c, k) == Insert("ci", c, k)
CreateGroupVariable(c, k) == Insert("ci", c, k)
CreateGroupSecret(c, k) == Insert("ci", c, k)
RepoVariableCreate(c, k) == Insert("ci", c, k)
RepoSecretCreate(c, k) == Insert("ci", c, k)
AdminGroupVariableCreate(c, k) == Insert("ci", c, k)
AdminGroupSecretCreate(c, k) == Insert("ci", c, k)
UpdateProjectVariable(c, k, to) == Rename("ci", c, k, to)
UpdateProjectSecret(c, k, to) == Rename("ci", c, k, to)
UpdateGroupVariable(c, k, to) == Rename("ci", c, k, to)
UpdateGroupSecret(c, k, to) == Rename("ci", c, k, to)
RepoVariableUpdate(c, i, to) == RenameShown("ci", c, i, to)
RepoSecretUpdate(c, i, to) == RenameShown("ci", c, i, to)
AdminGroupVariableUpdate(c, i, to) == RenameShown("ci", c, i, to)
AdminGroupSecretUpdate(c, i, to) == RenameShown("ci", c, i, to)
DeleteProjectVariable(c, k) == Delete("ci", c, k)
DeleteProjectSecret(c, k) == Delete("ci", c, k)
DeleteGroupVariable(c, k) == Delete("ci", c, k)
DeleteGroupSecret(c, k) == Delete("ci", c, k)
RepoVariableDelete(c, i) == RemoveShown("ci", c, i)
RepoSecretDelete(c, i) == RemoveShown("ci", c, i)
AdminGroupVariableDelete(c, i) == RemoveShown("ci", c, i)
AdminGroupSecretDelete(c, i) == RemoveShown("ci", c, i)

CreateOrUpdateSecret(c, k) == Add("actions", c, k)
CreateVariable(c, k) == Insert("actions", c, k)
UpdateVariable(c, k, to) == Rename("actions", c, k, to)
DeleteSecret(c, k) == Delete("actions", c, k)
DeleteVariable(c, k) == Delete("actions", c, k)

CreateIssueReaction(c, k) == Add("reaction", c, k)
CreateCommentReaction(c, k) == Add("reaction", c, k)
DeleteIssueReaction(c, i) == RemoveShown("reaction", c, i)
DeleteCommentReaction(c, i) == RemoveShown("reaction", c, i)

CreateGroup(c, k) == Add("group", c, k)
CreateOrg(c, k) == Add("group", c, k)
AdminCreateOrg(c, k) == Add("group", c, k)

\* A milestone's key is its number, max(number) + 1 when the handler looked.
NextNumber == Max({rows[i] : i \in DOMAIN rows} \cup {0}) + 1
CreateProjectMilestone(c) == NextNumber \in Key /\ Insert("milestone", c, NextNumber)
CreateMilestone(c) == NextNumber \in Key /\ Insert("milestone", c, NextNumber)
RepoMilestoneCreate(c) == NextNumber \in Key /\ Insert("milestone", c, NextNumber)
DeleteProjectMilestone(c, i) == RemoveShown("milestone", c, i)
DeleteMilestone(c, k) == Delete("milestone", c, k)
RepoMilestoneDelete(c, i) == RemoveShown("milestone", c, i)

AddProjectMember(c, k) == Add("member", c, k)
AddCollaborator(c, k) == Add("member", c, k)
RepoMemberCreate(c, k) == Add("member", c, k)
AddGroupMember(c, k) == Add("member", c, k)
DeleteProjectMember(c, k) == Delete("member", c, k)
RemoveCollaborator(c, k) == Delete("member", c, k)
RepoMemberDelete(c, k) == Delete("member", c, k)
DeleteGroupMember(c, k) == Delete("member", c, k)

StarRepo(c, k) == Add("star", c, k)
UnstarRepo(c, k) == Delete("star", c, k)

CreateProjectRelease(c, k) == Add("release", c, k)
RepoReleaseCreate(c, k) == Add("release", c, k)
CreateRelease(c, k) == Insert("release", c, k)
UpdateRelease(c, i, to) == RenameShown("release", c, i, to)
DeleteProjectRelease(c, k) == Delete("release", c, k)
DeleteRelease(c, i) == RemoveShown("release", c, i)
RepoReleaseDelete(c, i) == RemoveShown("release", c, i)

CreateTeam(c, k) == Insert("team", c, k)
UpdateTeam(c, i, to) == RenameShown("team", c, i, to)
DeleteTeam(c, i) == RemoveShown("team", c, i)

\* The admin page relies on the constraint; the API looks first, and again
\* before an update changes the scope.
CreateInstanceVariable(c, k) == Add("instance", c, k)
CreateInstanceCiVariable(c, k) == Insert("instance", c, k)
UpdateInstanceVariable(c, k, to) ==
    (\A i \in DOMAIN rows : rows[i] # to) /\ Rename("instance", c, k, to)
UpdateInstanceCiVariable(c, i, to) == RenameShown("instance", c, i, to)
DeleteInstanceVariable(c, k) == Delete("instance", c, k)
DeleteInstanceCiVariable(c, i) == RemoveShown("instance", c, i)

-----------------------------------------------------------------------------
With(k) == {i \in DOMAIN rows : rows[i] = k}

\* The look-up.  scalar_one_or_none() raises for two rows; a row that is found
\* ends an addition, which answers or updates it, and one that is not ends the
\* others.
Look(c) ==
    LET p == pending[c]
        found == IF p.id # 0 THEN {p.id} \cap DOMAIN rows ELSE With(p.key) IN
    /\ p # Idle /\ p.at = "look"
    /\ pending' = [pending EXCEPT ![c] =
           IF p.op = "add" /\ found = {} THEN [p EXCEPT !.at = "commit"]
           ELSE IF p.op # "add" /\ Cardinality(found) = 1
                THEN [p EXCEPT !.at = "commit", !.id = CHOOSE i \in found : TRUE]
                ELSE Idle]
    /\ UNCHANGED <<table, rows, overlap>>

\* Mutation: no constraint.
AdmitsAll(i, k) == TRUE

\* The constraint is not in the way of key k for row i.
Admits(i, k) == table \in Constrained => With(k) \subseteq {i}

Committing(c, ops) == pending[c] # Idle /\ pending[c].at = "commit" /\ pending[c].op \in ops
Done(c) == pending' = [pending EXCEPT ![c] = Idle] /\ UNCHANGED <<table, overlap>>

\* SQLite gives a new row the largest id in use, and one.
LandRow(c) ==
    LET i == Max(DOMAIN rows \cup {0}) + 1 IN
    /\ Committing(c, {"add", "insert"}) /\ Admits(0, pending[c].to)
    /\ i <= MaxRows
    /\ rows' = [j \in DOMAIN rows \cup {i} |-> IF j = i THEN pending[c].to ELSE rows[j]]
    /\ Done(c)

LandRename(c) ==
    /\ Committing(c, {"rename"}) /\ pending[c].id \in DOMAIN rows /\ Admits(pending[c].id, pending[c].to)
    /\ rows' = [rows EXCEPT ![pending[c].id] = pending[c].to]
    /\ Done(c)

LandRemove(c) ==
    /\ Committing(c, {"remove"})
    /\ rows' = [j \in DOMAIN rows \ {pending[c].id} |-> rows[j]]
    /\ Done(c)

\* IntegrityError, StaleDataError, a client that is gone, a database that is
\* locked.
GiveUpRow(c) == pending[c] # Idle /\ Done(c) /\ UNCHANGED rows

AddStep(c, k) ==
    \/ CreateProjectLabel(c, k) \/ CreateLabel(c, k) \/ RepoLabelCreate(c, k)
    \/ CreateProjectVariable(c, k) \/ CreateProjectSecret(c, k) \/ CreateGroupVariable(c, k)
    \/ CreateGroupSecret(c, k) \/ RepoVariableCreate(c, k) \/ RepoSecretCreate(c, k)
    \/ AdminGroupVariableCreate(c, k) \/ AdminGroupSecretCreate(c, k)
    \/ CreateOrUpdateSecret(c, k) \/ CreateVariable(c, k)
    \/ CreateIssueReaction(c, k) \/ CreateCommentReaction(c, k)
    \/ CreateGroup(c, k) \/ CreateOrg(c, k) \/ AdminCreateOrg(c, k)
    \/ AddProjectMember(c, k) \/ AddCollaborator(c, k) \/ RepoMemberCreate(c, k) \/ AddGroupMember(c, k)
    \/ StarRepo(c, k) \/ CreateProjectRelease(c, k) \/ RepoReleaseCreate(c, k) \/ CreateRelease(c, k)
    \/ CreateTeam(c, k) \/ CreateInstanceVariable(c, k) \/ CreateInstanceCiVariable(c, k)

RemoveStep(c, k) ==
    \/ DeleteProjectLabel(c, k) \/ DeleteLabel(c, k)
    \/ DeleteProjectVariable(c, k) \/ DeleteProjectSecret(c, k)
    \/ DeleteGroupVariable(c, k) \/ DeleteGroupSecret(c, k)
    \/ DeleteSecret(c, k) \/ DeleteVariable(c, k) \/ DeleteMilestone(c, k)
    \/ DeleteProjectMember(c, k) \/ RemoveCollaborator(c, k) \/ RepoMemberDelete(c, k) \/ DeleteGroupMember(c, k)
    \/ UnstarRepo(c, k) \/ DeleteProjectRelease(c, k) \/ DeleteInstanceVariable(c, k)

RenameStep(c, k, to) ==
    \/ UpdateProjectLabel(c, k, to) \/ UpdateLabel(c, k, to)
    \/ UpdateProjectVariable(c, k, to) \/ UpdateProjectSecret(c, k, to)
    \/ UpdateGroupVariable(c, k, to) \/ UpdateGroupSecret(c, k, to)
    \/ UpdateVariable(c, k, to) \/ UpdateInstanceVariable(c, k, to)

ShownStep(c, i) ==
    \/ RepoLabelDelete(c, i) \/ RepoVariableDelete(c, i) \/ RepoSecretDelete(c, i)
    \/ AdminGroupVariableDelete(c, i) \/ AdminGroupSecretDelete(c, i)
    \/ DeleteIssueReaction(c, i) \/ DeleteCommentReaction(c, i)
    \/ DeleteProjectMilestone(c, i) \/ RepoMilestoneDelete(c, i)
    \/ DeleteRelease(c, i) \/ RepoReleaseDelete(c, i) \/ DeleteTeam(c, i) \/ DeleteInstanceCiVariable(c, i)
    \/ \E to \in Key :
        \/ RepoLabelUpdate(c, i, to) \/ RepoVariableUpdate(c, i, to) \/ RepoSecretUpdate(c, i, to)
        \/ AdminGroupVariableUpdate(c, i, to) \/ AdminGroupSecretUpdate(c, i, to)
        \/ UpdateRelease(c, i, to) \/ UpdateTeam(c, i, to) \/ UpdateInstanceCiVariable(c, i, to)

RowsNext ==
    \E c \in RowCall :
        \/ \E k \in Key : AddStep(c, k) \/ RemoveStep(c, k) \/ \E to \in Key : RenameStep(c, k, to)
        \/ \E i \in DOMAIN rows : ShownStep(c, i)
        \/ CreateProjectMilestone(c) \/ CreateMilestone(c) \/ RepoMilestoneCreate(c)
        \/ Look(c) \/ LandRow(c) \/ LandRename(c) \/ LandRemove(c) \/ GiveUpRow(c)

RowsSpec == RowsInit /\ [][RowsNext]_rowVars

-----------------------------------------------------------------------------
\* Each of the dozen surfaces keeps a key to one row: where SQLite enforces the
\* constraint always, for members, stars and memberships unless two requests
\* gave the key a row at one time.  Releases, teams and instance variables have
\* a surface that does not look, and are left out.
KeysAreUnique ==
    table \in Constrained \cup {"member", "star"} =>
        \A i, j \in DOMAIN rows : i # j /\ rows[i] = rows[j] =>
            table \notin Constrained /\ rows[i] \in overlap
=============================================================================
