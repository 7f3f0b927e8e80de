--------------------------- MODULE MCJobCoordinator ---------------------------
(***************************************************************************)
(* Small pipelines for JobCoordinator.  A .cfg picks one of the shapes as  *)
(* Def and says which requests arrive and which of them interleave.        *)
(***************************************************************************)
EXTENDS JobCoordinator

CONSTANT ByStageNeeds, NoExitCode    \* model values

\* A plain job of pipeline p and stage s: on_success, no retry, no group.
Plain(p, s) ==
    [ pipe |-> p, stage |-> s, when |-> "on_success", needs |-> ByStageNeeds,
      allow |-> FALSE, allowCodes |-> {}, retryMax |-> 0, retryReasons |-> {},
      retryCodes |-> {}, group |-> "", interruptible |-> FALSE ]

When(d, w) == [d EXCEPT !.when = w]

\* build (retried once) and lint (may fail) share a resource group, a delayed
\* test needs only build, then a cleanup job and a job that always runs, and a
\* second cleanup job that waits for all of them.
Release == <<
    [Plain(1, 0) EXCEPT !.retryMax = 1, !.group = "prod"],
    [Plain(1, 0) EXCEPT !.allow = TRUE, !.group = "prod"],
    [When(Plain(1, 1), "delayed") EXCEPT !.needs = {1}],
    When(Plain(1, 2), "on_failure"),
    When(Plain(1, 2), "always"),
    When(Plain(1, 3), "on_failure") >>

\* Two jobs of one stage and the cleanup job after them.
TwoThenCleanup == << Plain(1, 0), Plain(1, 0), When(Plain(1, 1), "on_failure") >>

\* A deployment per pipeline, both of one resource group and interruptible.
Deploys == << [Plain(1, 0) EXCEPT !.group = "prod", !.interruptible = TRUE],
              [Plain(1, 0) EXCEPT !.group = "prod"],
              [Plain(2, 0) EXCEPT !.group = "prod", !.interruptible = TRUE] >>

\* A manual job that is retried once by itself.
Single == << [When(Plain(1, 0), "manual") EXCEPT !.retryMax = 1] >>

\* A second pipeline of the ref cancels what is left of the first.
Superseded == <<
    [Plain(1, 0) EXCEPT !.retryMax = 1, !.interruptible = TRUE],
    [When(Plain(1, 1), "delayed") EXCEPT !.interruptible = TRUE],
    When(Plain(2, 0), "manual") >>

\* Two jobs of one group in different stages; the second waits for nothing.
TwoOfOneGroup == << [Plain(1, 0) EXCEPT !.group = "prod", !.retryMax = 1],
                    [Plain(1, 1) EXCEPT !.group = "prod", !.needs = {}] >>

OneManual == << When(Plain(1, 0), "manual"), Plain(1, 1) >>

SameRef == [p \in Pipeline |-> "main"]
AnyJob == [r \in Runner |-> Job]

\* Runner 1 admits every job, runner 2 only the odd ones.
ByTag == [r \in Runner |-> {j \in Job : r = 1 \/ j % 2 = 1}]

Passes == [state |-> "success", exit |-> NoExitCode, reason |-> "none"]
Fails(code) == [state |-> "failed", exit |-> code, reason |-> "script_failure"]
PassOrFail == {Passes, Fails(1)}
=============================================================================
