------------------------------ MODULE ProjectImport ------------------------------
(***************************************************************************)
(* The import of repositories from a remote GitLab: single imports, and a  *)
(* bulk import, which finds repositories and starts an import of each.     *)
(* Every import is a background task that goes through commits, git and    *)
(* the directory of the repository; nothing but import_jobs tells how it   *)
(* went.                                                                   *)
(*                                                                         *)
(* A path is the owner's login and the name of the repository: imports of  *)
(* one path share a directory.                                             *)
(***************************************************************************)
EXTENDS Integers, Sequences, FiniteSets

CONSTANTS
    Path,
    NoUrl,      \* a repository the remote lists without a clone_url
    NoDir, NoImport,
    MaxImport,  \* bound: single imports, those of the bulk import among them
    MaxFound    \* bound: repositories the remote lists

ASSUME ImportBounds == MaxImport \in Nat /\ MaxFound \in Nat

VARIABLES
    import,     \* [id -> row of a single import]
    task,       \* [id -> where its task is, and the parent's count it has loaded]
    bulk,       \* the row of the bulk import, and where its task is
    stored,     \* the paths with a repositories row
    disk,       \* [path -> its directory]
    shared,     \* history: paths two imports were about to clone at one time
    spoilt,     \* history: paths whose import failed after it stored the row
    crossed,    \* history: two imports of the bulk import had loaded its row
    broken      \* history: imports whose task a restart or the database ended,
                \* 0 for the bulk import

importVars == <<import, task, bulk, stored, disk, shared, spoilt, crossed, broken>>

Id == 1 .. MaxImport
Found == UNION {[1 .. n -> Path \cup {NoUrl}] : n \in 0 .. MaxFound}
Status == {"pending", "running", "completed", "failed"}
Ended == {"completed", "failed"}
Stage == {"over", "begin", "check", "clone", "cloning", "insert", "sync", "complete", "fail", "count"}

ImportTypeOK ==
    /\ import \in [Id -> [path : Path, child : BOOLEAN, status : Status] \cup {NoImport}]
    /\ task \in [Id -> [at : Stage, seen : Nat]]
    /\ bulk \in [at : {"none", "discover", "spawn", "over"}, status : Status, repos : Nat, count : Nat, left : Found]
    /\ stored \subseteq Path /\ disk \in [Path -> [by : Id, whole : BOOLEAN] \cup {NoDir}]
    /\ shared \subseteq Path /\ spoilt \subseteq Path /\ crossed \in BOOLEAN /\ broken \subseteq 0 .. MaxImport

ASSUME ImportNulls ==
    /\ NoImport \notin [path : Path, child : BOOLEAN, status : Status]
    /\ NoDir \notin [by : Id, whole : BOOLEAN] /\ NoUrl \notin Path

ImportInit ==
    /\ import = [j \in Id |-> NoImport] /\ task = [j \in Id |-> [at |-> "over", seen |-> 0]]
    /\ bulk = [at |-> "none", status |-> "running", repos |-> 0, count |-> 0, left |-> <<>>]
    /\ stored = {} /\ disk = [p \in Path |-> NoDir]
    /\ shared = {} /\ spoilt = {} /\ crossed = FALSE /\ broken = {}

-----------------------------------------------------------------------------
(* import_handler starts an import; a bulk import starts many.             *)

NewImport(p, child) ==
    \E j \in Id :
        /\ import[j] = NoImport /\ \A i \in 1 .. j - 1 : import[i] # NoImport
        /\ import' = [import EXCEPT ![j] = [path |-> p, child |-> child, status |-> "pending"]]
        /\ task' = [task EXCEPT ![j] = [at |-> "begin", seen |-> 0]]

StartSingleImport(p) ==
    NewImport(p, FALSE) /\ UNCHANGED <<bulk, stored, disk, shared, spoilt, crossed, broken>>

BulkGoes(b) == bulk' = b /\ UNCHANGED <<stored, disk, shared, spoilt, crossed, broken>>

StartBulkImport ==
    /\ bulk.at = "none"
    /\ BulkGoes([bulk EXCEPT !.at = "discover"]) /\ UNCHANGED <<import, task>>

\* The pages of the remote's list, or an error of one of them.
Discover ==
    /\ bulk.at = "discover"
    /\ \/ \E found \in Found : BulkGoes(
            IF found = <<>> THEN [bulk EXCEPT !.at = "over", !.status = "completed"]
            ELSE [bulk EXCEPT !.at = "spawn", !.repos = Len(found), !.left = found])
       \/ BulkGoes([bulk EXCEPT !.at = "over", !.status = "failed"])
    /\ UNCHANGED <<import, task>>

Spawn ==
    /\ bulk.at = "spawn"
    /\ \/ bulk.left = <<>> /\ BulkGoes([bulk EXCEPT !.at = "over"]) /\ UNCHANGED <<import, task>>
       \/ /\ bulk.left # <<>> /\ BulkGoes([bulk EXCEPT !.left = Tail(@)])
          /\ IF Head(bulk.left) = NoUrl THEN UNCHANGED <<import, task>> ELSE NewImport(Head(bulk.left), TRUE)

-----------------------------------------------------------------------------
(* One import.                                                             *)

InStage(j, stage) == task[j].at = stage
PathOf(j) == import[j].path
Goes(j, stage) == task' = [task EXCEPT ![j].at = stage]
Marks(j, status) == import' = [import EXCEPT ![j].status = status]
Removes(j, yes) == disk' = IF yes THEN [disk EXCEPT ![PathOf(j)] = NoDir] ELSE disk

\* The relationship parent_job loads the parent with the row, and the session
\* keeps what it has loaded.
Begin(j) ==
    /\ InStage(j, "begin") /\ Marks(j, "running")
    /\ task' = [task EXCEPT ![j] = [at |-> "check", seen |-> bulk.count]]
    /\ crossed' = (crossed \/ (import[j].child /\ \E k \in Id \ {j} :
                        import[k] # NoImport /\ import[k].child /\ task[k].at \notin {"begin", "over"}))
    /\ UNCHANGED <<bulk, stored, disk, shared, spoilt, broken>>

\* Mutation: an import of what is there goes on.
CheckNothing(j) ==
    /\ InStage(j, "check") /\ Goes(j, "clone")
    /\ shared' = shared \cup {PathOf(k) : k \in {i \in Id \ {j} :
                    task[i].at \in {"clone", "cloning", "insert"} /\ PathOf(i) = PathOf(j)}}
    /\ UNCHANGED <<import, bulk, stored, disk, spoilt, crossed, broken>>

CheckDuplicate(j) ==
    /\ InStage(j, "check") /\ Goes(j, IF PathOf(j) \in stored THEN "fail" ELSE "clone")
    /\ shared' = shared \cup {PathOf(k) : k \in {i \in Id \ {j} : PathOf(j) \notin stored /\
                    task[i].at \in {"clone", "cloning", "insert"} /\ PathOf(i) = PathOf(j)}}
    /\ UNCHANGED <<import, bulk, stored, disk, spoilt, crossed, broken>>

\* git clone creates the directory.  It refuses one that is there, and then the
\* handler removes that one.
CloneBegins(j) ==
    /\ InStage(j, "clone")
    /\ IF disk[PathOf(j)] = NoDir
       THEN disk' = [disk EXCEPT ![PathOf(j)] = [by |-> j, whole |-> FALSE]] /\ Goes(j, "cloning")
       ELSE Removes(j, TRUE) /\ Goes(j, "fail")
    /\ UNCHANGED <<import, bulk, stored, shared, spoilt, crossed, broken>>

\* A clone whose directory another import removed does not succeed.
CloneEnds(j) ==
    /\ InStage(j, "cloning")
    /\ \/ /\ disk[PathOf(j)] = [by |-> j, whole |-> FALSE]
          /\ disk' = [disk EXCEPT ![PathOf(j)].whole = TRUE] /\ Goes(j, "insert")
       \/ Removes(j, TRUE) /\ Goes(j, "fail")
    /\ UNCHANGED <<import, bulk, stored, shared, spoilt, crossed, broken>>

\* full_name is UNIQUE.
InsertRepository(j) ==
    /\ InStage(j, "insert") /\ PathOf(j) \notin stored
    /\ stored' = stored \cup {PathOf(j)} /\ Goes(j, "sync")
    /\ UNCHANGED <<import, bulk, disk, shared, spoilt, crossed, broken>>

\* The branch rows, the size and pushed_at, which no one else reads yet.
SyncBranches(j) ==
    /\ InStage(j, "sync") /\ Goes(j, "complete")
    /\ UNCHANGED <<import, bulk, stored, disk, shared, spoilt, crossed, broken>>

Complete(j) ==
    /\ InStage(j, "complete") /\ Marks(j, "completed") /\ Goes(j, "count")
    /\ UNCHANGED <<bulk, stored, disk, shared, spoilt, crossed, broken>>

Fail(j) ==
    /\ InStage(j, "fail") /\ Marks(j, "failed") /\ Goes(j, "count")
    /\ UNCHANGED <<bulk, stored, disk, shared, spoilt, crossed, broken>>

\* _maybe_complete_parent.
Count(j) ==
    /\ InStage(j, "count") /\ Goes(j, "over")
    /\ bulk' = IF ~import[j].child THEN bulk
               ELSE [bulk EXCEPT !.count = task[j].seen + 1,
                                 !.status = IF task[j].seen + 1 >= bulk.repos THEN "completed" ELSE @]
    /\ UNCHANGED <<import, stored, disk, shared, spoilt, crossed, broken>>

-----------------------------------------------------------------------------
(* What goes wrong.                                                        *)

\* disk_path is set, and not given up: the directory goes, whoever made it.
RemovesOnError(j) ==
    task[j].at \in {"clone", "insert", "sync", "complete"} \/ (InStage(j, "count") /\ import[j].status = "completed")

\* The row is stored, and its directory goes.
Spoils(j) == RemovesOnError(j) /\ task[j].at \notin {"clone", "insert"}

\* The URL is no GitLab project, the owner is gone, git cannot be run, ...
Raises(j) ==
    /\ task[j].at \in {"check", "clone", "insert", "sync"} /\ Goes(j, "fail")
    /\ Removes(j, RemovesOnError(j))
    /\ spoilt' = IF Spoils(j) THEN spoilt \cup {PathOf(j)} ELSE spoilt
    /\ UNCHANGED <<import, bulk, stored, shared, crossed, broken>>

\* A flush fails: the database is locked, or full_name is taken.  The session
\* then refuses the statements of the except clause, and the task is over.
DatabaseRefuses(j) ==
    /\ task[j].at \notin {"over", "check", "clone", "cloning"} /\ Goes(j, "over")
    /\ Removes(j, RemovesOnError(j))
    /\ spoilt' = IF Spoils(j) THEN spoilt \cup {PathOf(j)} ELSE spoilt
    /\ broken' = broken \cup {j}
    /\ UNCHANGED <<import, bulk, stored, shared, crossed>>

DatabaseRefusesBulk ==
    /\ bulk.at \in {"discover", "spawn"}
    /\ bulk' = [bulk EXCEPT !.at = "over"] /\ broken' = broken \cup {0}
    /\ UNCHANGED <<import, task, stored, disk, shared, spoilt, crossed>>

\* Nothing takes a task up again.
RestartServer ==
    /\ task' = [j \in Id |-> [task[j] EXCEPT !.at = "over"]]
    /\ bulk' = IF bulk.at = "none" THEN bulk ELSE [bulk EXCEPT !.at = "over"]
    /\ broken' = broken \cup {j \in Id : ~InStage(j, "over")}
                        \cup (IF bulk.at \in {"discover", "spawn"} THEN {0} ELSE {})
    /\ UNCHANGED <<import, stored, disk, shared, spoilt, crossed>>

ImportNext ==
    \/ \E p \in Path : StartSingleImport(p)
    \/ StartBulkImport \/ Discover \/ Spawn \/ DatabaseRefusesBulk \/ RestartServer
    \/ \E j \in Id :
        \/ Begin(j) \/ CheckDuplicate(j) \/ CloneBegins(j) \/ CloneEnds(j) \/ InsertRepository(j)
        \/ SyncBranches(j) \/ Complete(j) \/ Fail(j) \/ Count(j) \/ Raises(j) \/ DatabaseRefuses(j)

ImportSpec == ImportInit /\ [][ImportNext]_importVars

-----------------------------------------------------------------------------
Imports == {j \in Id : import[j] # NoImport}
Children == {j \in Imports : import[j].child}

\* An import whose task is over has told how it went, and a completed one has
\* its repository.
ImportsTell == \A j \in Imports :
    /\ InStage(j, "over") /\ j \notin broken => import[j].status \in Ended
    /\ import[j].status = "completed" => PathOf(j) \in stored

\* A repository has its directory, unless two imports of it overlapped or its
\* import failed after the row was stored.
RepositoriesAreThere == \A p \in stored \ (shared \cup spoilt) : disk[p] # NoDir /\ disk[p].whole

\* A bulk import is completed only when all of its imports have ended; and it
\* ends, unless two of them overlapped, one has no URL or something broke.
BulkIsAccounted ==
    /\ bulk.status = "completed" => bulk.left = <<>> /\ \A j \in Children : import[j].status \in Ended
    /\ bulk.at = "over" /\ ~crossed /\ bulk.repos = Cardinality(Children)
       /\ (\A j \in Children : InStage(j, "over")) /\ broken \cap (Children \cup {0}) = {} =>
            bulk.status \in Ended

\* Whatever fails, overlaps or restarts: rows, directories and counts agree but
\* for what the background tasks cannot repair.
ImportsAreAccounted == ImportsTell /\ RepositoriesAreThere /\ BulkIsAccounted
=============================================================================
