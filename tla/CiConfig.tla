-------------------------------- MODULE CiConfig --------------------------------
(***************************************************************************)
(* From the files of a commit to the jobs of a pipeline: includes are      *)
(* merged, extends and default resolved, rules decided, and the needs and  *)
(* dependencies checked.  What is accepted here is what the scheduling     *)
(* rules of CiJobs work on.                                                *)
(*                                                                         *)
(* A document gives for each rule, only and except whether it matches,     *)
(* which depends on the ref, the variables and the paths of the commit.    *)
(***************************************************************************)
EXTENDS Integers, Sequences, SequencesExt, FiniteSets, FiniteSetsExt

CONSTANTS
    CiFile,     \* the files; "main" stands for .gitlab-ci.yml
    Name,       \* the top-level names of jobs and templates
    Hidden,     \* those that start with a dot
    Unset,      \* a key that is absent
    Rejected,   \* ValueError or HTTPException: no pipeline
    IncludeLimit, ExtendsLimit,
    Documents   \* the documents to evaluate

ASSUME FilesAreNamed ==
    /\ "main" \in CiFile /\ Hidden \subseteq Name
    /\ \A d \in Documents : DOMAIN d = CiFile

VARIABLES
    document,   \* [file -> its includes, and its top-level keys]
    created     \* [name -> job] of the pipeline, Rejected, or Unset

configVars == <<document, created>>

ConfigTypeOK ==
    /\ DOMAIN document = CiFile
    /\ created \in {Unset, Rejected} \/ DOMAIN created \subseteq Name \ Hidden

ConfigInit == document \in Documents /\ created = Unset

-----------------------------------------------------------------------------
\* Mutation: what is there stays.
Under(a, b) ==
    IF a = Rejected \/ b = Rejected THEN Rejected
    ELSE [k \in DOMAIN b |-> IF a[k] # Unset THEN a[k] ELSE b[k]]

\* b's keys over a's.  _merge_ci_config replaces a whole top-level key, and
\* _deep_merge a whole key of a job (artifacts, cache and variables excepted).
Over(a, b) ==
    IF a = Rejected \/ b = Rejected THEN Rejected
    ELSE [k \in DOMAIN b |-> IF b[k] # Unset THEN b[k] ELSE a[k]]

\* Includes and extends are resolved alike: the parents in order, each over the
\* ones before it, and the node's own keys over them all.  seen holds the nodes
\* on the way, so a cycle is an error and the depth its size.
Resolve(keys, parents, own, limit) ==
    LET r[n \in DOMAIN own, seen \in SUBSET DOMAIN own] ==
        IF n \in seen \/ Cardinality(seen) > limit \/ own[n] = Unset THEN Rejected
        ELSE Over(FoldLeft(LAMBDA acc, p : Over(acc, r[p, seen \cup {n}]), [k \in keys |-> Unset], parents[n]),
                  own[n])
    IN [n \in DOMAIN own |-> r[n, {}]]

TopKey == Name \cup {"stages", "default", "image"}
JobKey == {"script", "inherit", "stage", "when", "rules", "only", "except", "needs", "dependencies", "image"}

\* include:rules leave out the items that do not match.
ReadGitlabCiWithIncludes ==
    Resolve(TopKey,
            [f \in CiFile |-> [i \in DOMAIN document[f].include |-> document[f].include[i].file]],
            [f \in CiFile |-> document[f].own], IncludeLimit)["main"]

\* The jobs of the merged file, with extends resolved.
JobConfigs(ci) ==
    Resolve(JobKey,
            [n \in Name |-> IF ci[n] = Unset THEN <<>> ELSE ci[n].extends],
            [n \in Name |-> IF ci[n] = Unset THEN Unset ELSE ci[n].own], ExtendsLimit)

\* default: fills in what the job does not have, unless inherit: says no.
ApplyDefaultConfig(config, default) ==
    IF default # Unset /\ config.image = Unset /\ config.inherit # FALSE
    THEN [config EXCEPT !.image = default] ELSE config

Or(value, otherwise) == IF value = Unset THEN otherwise ELSE value

\* The first rule that matches decides, with its own when; without one the job
\* is left out.  only and except count where there are no rules.
JobRuleDecision(config) ==
    IF config.rules # Unset
    THEN LET hits == {i \in DOMAIN config.rules : config.rules[i].matches} IN
         IF hits = {} THEN [when |-> "never", needs |-> Unset]
         ELSE [when |-> Or(config.rules[Min(hits)].when, "on_success"),
               needs |-> Or(config.rules[Min(hits)].needs, config.needs)]
    ELSE [when |-> IF config.only = FALSE \/ config.except = TRUE THEN "never" ELSE Or(config.when, "on_success"),
          needs |-> config.needs]

\* What is not a list stands for a list of one.
StringList(value) ==
    IF value = Unset THEN <<>> ELSE IF value \in Seq(STRING) THEN value ELSE <<value>>

Stages(ci) ==
    LET stages == StringList(ci["stages"]) IN IF stages = <<>> THEN <<"test">> ELSE stages

\* A stage that is listed twice is where it is listed last; one that is not
\* listed counts as behind as many as there are.
StageIndex(stages, stage) ==
    LET at == {i \in DOMAIN stages : stages[i] = stage} IN
    IF at = {} THEN Cardinality(Range(stages)) + 1 ELSE Max(at)

ParsedJob(ci, config) ==
    LET stages == Stages(ci) IN
    [stage |-> StageIndex(stages, Or(config.stage, Head(stages))),
     when |-> JobRuleDecision(config).when,
     needs |-> JobRuleDecision(config).needs,
     dependencies |-> config.dependencies,
     image |-> Or(config.image, Or(ci["image"], "alpine"))]

\* Templates are not jobs, and neither is an entry without a script.
ParseGitlabCi(ci) ==
    LET names == {n \in Name \ Hidden : ci[n] # Unset}
        resolved == JobConfigs(ci)
        config == [n \in names |-> ApplyDefaultConfig(resolved[n], ci["default"])]
        jobs == {n \in names : config[n].script # Unset /\ JobRuleDecision(config[n]).when # "never"} IN
    IF (\E n \in names : resolved[n] = Rejected) \/ jobs = {} THEN Rejected
    ELSE [n \in jobs |-> ParsedJob(ci, config[n])]

\* Mutation: the stages are not looked at.
NeedsPassInAnyStage(jobs) ==
    \A n \in DOMAIN jobs : jobs[n].needs # Unset =>
        \A need \in jobs[n].needs : need.job # n /\ (need.job \in DOMAIN jobs \/ need.optional)

\* _validate_job_needs
NeedsPass(jobs) ==
    \A n \in DOMAIN jobs : jobs[n].needs # Unset =>
        \A need \in jobs[n].needs :
            /\ need.job # n
            /\ need.job \in DOMAIN jobs \/ need.optional
            /\ need.job \in DOMAIN jobs => jobs[need.job].stage <= jobs[n].stage

\* _validate_job_dependencies
DependenciesPass(jobs) ==
    \A n \in DOMAIN jobs : jobs[n].dependencies # Unset =>
        \A d \in jobs[n].dependencies : d \in DOMAIN jobs /\ jobs[d].stage < jobs[n].stage

Evaluated ==
    LET ci == ReadGitlabCiWithIncludes
        jobs == IF ci = Rejected THEN Rejected ELSE ParseGitlabCi(ci) IN
    IF jobs = Rejected THEN Rejected
    ELSE IF NeedsPass(jobs) /\ DependenciesPass(jobs) THEN jobs ELSE Rejected

Evaluate ==
    /\ created = Unset
    /\ created' = Evaluated
    /\ UNCHANGED document

ConfigNext == Evaluate

ConfigSpec == ConfigInit /\ [][ConfigNext]_configVars

-----------------------------------------------------------------------------
Accepted == created \notin {Unset, Rejected}

\* What n waits for: its needs that are in the pipeline, or the earlier stages.
WaitsFor(n) ==
    IF created[n].needs = Unset THEN {m \in DOMAIN created : created[m].stage < created[n].stage}
    ELSE {need.job : need \in created[n].needs} \cap DOMAIN created

Deadlocked(jobs) == jobs # {} /\ \A n \in jobs : WaitsFor(n) \cap jobs # {}

\* Whatever rules leave out, extends bring in and stages are not declared, jobs
\* of an accepted pipeline wait for one another for ever only where the needs of
\* one stage form a cycle, which nothing refuses.
DeadlockIsInOneStage ==
    Accepted => \A jobs \in SUBSET DOMAIN created : Deadlocked(jobs) =>
        \E n \in jobs : Deadlocked({m \in jobs : created[m].stage = created[n].stage /\ created[m].needs # Unset})

\* The nodes n inherits from, the one that prevails first.
Ancestors(parents) ==
    LET r[n \in DOMAIN parents, d \in 0 .. Cardinality(DOMAIN parents)] ==
        IF d = 0 THEN <<>> ELSE <<n>> \o FoldLeft(LAMBDA acc, p : r[p, d - 1] \o acc, <<>>, parents[n])
    IN [n \in DOMAIN parents |-> r[n, Cardinality(DOMAIN parents)]]

FirstSet(values) ==
    LET set == {i \in DOMAIN values : values[i] # Unset} IN IF set = {} THEN Unset ELSE values[Min(set)]

TopValue(key) ==
    LET files == Ancestors([f \in CiFile |->
            [i \in DOMAIN document[f].include |-> document[f].include[i].file]])["main"] IN
    FirstSet([i \in DOMAIN files |-> document[files[i]].own[key]])

JobValue(name, key) ==
    LET entry == [n \in Name |-> TopValue(n)]
        from == Ancestors([n \in Name |-> IF entry[n] = Unset THEN <<>> ELSE entry[n].extends])[name] IN
    FirstSet([i \in DOMAIN from |-> entry[from[i]].own[key]])

\* A key comes from the job, the nearest template that has it, default unless
\* inherit forbids it, the top level: in that order, through every chain of
\* includes and extends that is accepted.
InheritedIsNearest ==
    Accepted => \A n \in DOMAIN created : created[n].image =
        FirstSet(<<JobValue(n, "image"), IF JobValue(n, "inherit") = FALSE THEN Unset ELSE TopValue("default"),
                   TopValue("image"), "alpine">>)
=============================================================================
