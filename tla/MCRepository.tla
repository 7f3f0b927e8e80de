------------------------------ MODULE MCRepository ------------------------------
(***************************************************************************)
(* Small instances of what is kept with a project: branches and pushes,    *)
(* commits, artifacts, the cache, the rows found by a key, those found by  *)
(* their owner, and lists read page by page.  They share no variable, so   *)
(* one run checks one after the other: part says which one moves, while    *)
(* the others stay in a state they start in.                               *)
(***************************************************************************)
EXTENDS ProjectCache, JobArtifacts, GitPush, BranchCommits, KeyedRows, OwnedRows,
        Listings, TLC

CONSTANTS c1, c2, u1, u2, k1, k2

VARIABLE part

vars == <<part, cacheVars, artifactVars, pushVars, commitVars, rowVars,
          ownedVars, listVars>>

\* A short body and a longer one.
TwoLengths == u1 :> 1 @@ u2 :> 2

\* Two branches at once: either push may force or delete one and move the other.
SomePushes == {<<"ff", "force">>, <<"delete", "ff">>}

\* Maintainers alone may push to a protected branch, and must keep its history.
OneRule == {[min |-> 40, force |-> FALSE]}

\* The requests are alike, but for the bodies of two uploads to the cache.
Symmetry == Permutations({c1, c2}) \cup Permutations({k1, k2})

Init ==
    /\ part \in {"cache", "artifacts", "push", "commits", "rows", "owned", "lists"}
    /\ CacheInit /\ ArtifactInit
    /\ PushInit /\ (part # "push" => branch \in {Rows(names, {}) : names \in Listed(Branch)})
    /\ CommitInit /\ (part # "commits" => commit[1][k1] = 1)
    /\ RowsInit /\ (part # "rows" => table = "label")
    /\ OwnedInit /\ (part # "owned" => kind = "hook")
    /\ ListInit /\ (part # "lists" =>
           listing = [order |-> "oldest", ends |-> "bare"] /\ perPage = 1 /\ lastId = 0)

Next ==
    /\ UNCHANGED part
    /\ \/ part = "cache" /\ CacheNext
          /\ UNCHANGED <<artifactVars, pushVars, commitVars,
                       rowVars, ownedVars, listVars>>
       \/ part = "artifacts" /\ ArtifactNext
          /\ UNCHANGED <<cacheVars, pushVars, commitVars,
                       rowVars, ownedVars, listVars>>
       \/ part = "push" /\ PushNext
          /\ UNCHANGED <<cacheVars, artifactVars, commitVars,
                       rowVars, ownedVars, listVars>>
       \/ part = "commits" /\ CommitNext
          /\ UNCHANGED <<cacheVars, artifactVars, pushVars,
                       rowVars, ownedVars, listVars>>
       \/ part = "rows" /\ RowsNext
          /\ UNCHANGED <<cacheVars, artifactVars, pushVars,
                       commitVars, ownedVars, listVars>>
       \/ part = "owned" /\ OwnedNext
          /\ UNCHANGED <<cacheVars, artifactVars, pushVars,
                       commitVars, rowVars, listVars>>
       \/ part = "lists" /\ ListNext
          /\ UNCHANGED <<cacheVars, artifactVars, pushVars,
                       commitVars, rowVars, ownedVars>>

Spec == Init /\ [][Next]_vars

\* Every variable keeps its type, those that do not move because they started in it.
TypeOK ==
    CASE part = "cache" -> CacheTypeOK
      [] part = "artifacts" -> ArtifactTypeOK
      [] part = "push" -> PushTypeOK
      [] part = "commits" -> CommitTypeOK
      [] part = "rows" -> RowsTypeOK
      [] part = "owned" -> OwnedTypeOK
      [] part = "lists" -> ListTypeOK
=============================================================================
