------------------------------ MODULE MCPipelines ------------------------------
(***************************************************************************)
(* Small instances of what leads to a pipeline: the import of a            *)
(* repository, the CI configuration, the creation, and the schedules.  The *)
(* four share no variable, so one run checks one after the other: part     *)
(* says which one moves, while the others stay in a state they start in.   *)
(***************************************************************************)
EXTENDS PipelineCreation, PipelineSchedules, CiConfig, ProjectImport, TLC

CONSTANTS A, B

VARIABLE part

vars == <<part, creationVars, scheduleVars, configVars, importVars>>

-----------------------------------------------------------------------------
(* The documents for CiConfig. *)

NoKeys == [k \in JobKey |-> Unset]
NoTop == [k \in TopKey |-> Unset]
Entry(extends, own) == [extends |-> extends, own |-> own @@ NoKeys]
Script(own) == Entry(<<>>, ("script" :> "run") @@ own)
File(include, own) == [include |-> include, own |-> own @@ NoTop]
Item(file) == [file |-> file]
Rule(matches, when, needs) == [matches |-> matches, when |-> when, needs |-> needs]
Need(job, optional) == [job |-> job, optional |-> optional]

Empty == [f \in CiFile |-> File(<<>>, <<>>)]

\* Two jobs and a template: every way they extend, need and exclude one another.
BuildEntries ==
    {Entry(e, ("script" :> "run") @@ ("stage" :> s) @@ ("rules" :> r) @@ ("needs" :> n)) :
        e \in {<<>>, <<".base">>, <<"test", ".base">>}, s \in {Unset, "b"},
        r \in {Unset, <<Rule(FALSE, Unset, Unset)>>,
               <<Rule(FALSE, Unset, Unset), Rule(TRUE, "manual", {Need("test", FALSE)})>>},
        n \in {Unset, {Need("build", FALSE)}, {Need("test", TRUE)}, {Need("test", FALSE)}}}

TestEntries ==
    {Entry(e, ("script" :> "run") @@ ("stage" :> s) @@ ("needs" :> n) @@ ("dependencies" :> d)) :
        e \in {<<>>, <<".base">>, <<"build">>}, s \in {Unset, "undeclared"},
        n \in {Unset, {Need("build", FALSE)}}, d \in {Unset, {"build"}}}

BaseEntries == {Entry(e, k) : e \in {<<>>, <<"build">>}, k \in {"image" :> "base", "only" :> FALSE}}

\* Two stages, and one of them listed again: behind a stage that is not listed.
StageLists == {<<"a", "b">>, <<"b", "a", "b">>}

JobDocuments ==
    {[Empty EXCEPT !["main"] =
        File(<<>>, ("build" :> b) @@ ("test" :> t) @@ (".base" :> base) @@ ("stages" :> stages))] :
            b \in BuildEntries, t \in TestEntries, base \in BaseEntries, stages \in StageLists}

\* Three files that include one another and set the same keys.
IncludeDocuments ==
    {[f \in CiFile |-> CASE f = "main" -> File(m, ("build" :> b) @@ k)
                         [] f = "x" -> File(x, kx) [] OTHER -> File(y, ky)] :
       m \in {<<>>, <<Item("x")>>, <<Item("y"), Item("x")>>, <<Item("x"), Item("y")>>, <<Item("main")>>},
       x \in {<<>>, <<Item("y")>>}, y \in {<<>>, <<Item("x")>>},
       b \in {Unset, Script("inherit" :> FALSE), Script("image" :> "own")},
       k \in {<<>>, "image" :> "m"},
       kx \in {<<>>, "image" :> "i", "default" :> "d", "build" :> Script(<<>>)},
       ky \in {<<>>, "image" :> "j", "default" :> "e", "build" :> Script(("image" :> "p") @@ ("inherit" :> FALSE))}}

MCDocuments == JobDocuments \cup IncludeDocuments

-----------------------------------------------------------------------------
\* A has a bridge to B, and B any file: exchanging the two adds nothing.
CiFiles ==
    CASE part = "creation" -> {files \in Ci : files[A] = B /\ files[B] # A}
      [] part = "cycle" -> {files \in Ci : files[A] = B /\ files[B] = A}
      [] OTHER -> {[p \in CiProject |-> "plain"]}

\* Bridges that form a cycle create pipelines up to the bound: one call at a time.
OneCall == Cardinality({c \in Creator : stack[c] # <<>>}) <= 1

Init ==
    /\ part \in {"creation", "cycle", "schedules", "config", "import"}
    /\ CreationInit /\ ci \in CiFiles
    /\ ImportInit
    /\ ScheduleInit /\ (part # "schedules" => schedule = [s \in Schedule |-> Nothing])
    /\ \/ part = "config" /\ ConfigInit
       \/ part # "config" /\ document = [f \in CiFile |-> Unset] /\ created = Unset

Next ==
    /\ UNCHANGED part
    /\ \/ part = "creation" /\ CreationNext /\ UNCHANGED <<scheduleVars, configVars, importVars>>
       \/ part = "cycle" /\ CreationNext /\ OneCall' /\ UNCHANGED <<scheduleVars, configVars, importVars>>
       \/ part = "schedules" /\ ScheduleNext /\ UNCHANGED <<creationVars, configVars, importVars>>
       \/ part = "config" /\ ConfigNext /\ UNCHANGED <<creationVars, scheduleVars, importVars>>
       \/ part = "import" /\ ImportNext /\ UNCHANGED <<creationVars, scheduleVars, configVars>>

Spec == Init /\ [][Next]_vars /\ CreationFairness /\ ScheduleFairness

\* Every variable keeps its type.
TypeOK == CreationTypeOK /\ ScheduleTypeOK /\ ConfigTypeOK /\ ImportTypeOK
=============================================================================
