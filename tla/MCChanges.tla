-------------------------------- MODULE MCChanges --------------------------------
(***************************************************************************)
(* Two overlapping requests about the items of a project, or two pushes to *)
(* a branch that may be protected in every way, by users of two levels.    *)
(* They share no variable: part says which of the two moves.               *)
(***************************************************************************)
EXTENDS IssueTracker, GitPush, TLC

CONSTANTS c1, c2

VARIABLE part

\* A push asks for one of the three things git knows.
OneCommand == [Branch -> Command \ {"none"}]

\* A branch is protected for one of the levels, with forced updates or without.
AnyRule == [min : Level, force : BOOLEAN]

\* The requests are alike.
Symmetry == Permutations({c1, c2})

Init ==
    /\ part \in {"tracker", "push"}
    /\ TrackerInit
    /\ PushInit /\ (part # "push" => branch \in {Rows(names, {}) : names \in Listed(Branch)})

Next ==
    /\ UNCHANGED part
    /\ \/ part = "tracker" /\ TrackerNext /\ UNCHANGED pushVars
       \/ part = "push" /\ PushNext /\ UNCHANGED trackerVars

Spec == Init /\ [][Next]_<<part, trackerVars, pushVars>>
=============================================================================
