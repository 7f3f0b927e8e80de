--------------------------- MODULE PipelineSchedules ---------------------------
(***************************************************************************)
(* Pipeline schedules: the worker polls the due ones in order, and for     *)
(* each commits the next run and then creates a pipeline; users create,    *)
(* change, delete and play schedules meanwhile.  That a creation fails or  *)
(* the process stops is part of the model, what a creation does is in      *)
(* PipelineCreation.                                                       *)
(***************************************************************************)
EXTENDS Integers, Sequences, SequencesExt, FiniteSets

CONSTANTS
    Schedule,     \* ids, ordered
    Limit,        \* schedules the worker takes in a round
    MaxWait,      \* bound: minutes between two runs of a cron expression
    Nothing

ASSUME ScheduleBounds == Schedule \subseteq Nat /\ IsFiniteSet(Schedule) /\ Limit \in Nat \ {0} /\ MaxWait \in Nat \ {0}

VARIABLES
    schedule,   \* [id -> row], see Row
    overdue,    \* the ids whose next_run_at has passed, in its order
    worker,     \* the worker's round
    player,     \* a manual play
    owed        \* history: schedules that became due since the worker last ran them

scheduleVars == <<schedule, overdue, worker, player, owed>>

\* next: minutes to next_run_at, 0 when it has passed, -1 when it is NULL.
NULL == -1
Row == [active : BOOLEAN, next : NULL .. MaxWait]
NoWork == [batch |-> <<>>, at |-> "idle"]

ASSUME NothingIsNoRow == Nothing \notin Row

ScheduleTypeOK ==
    /\ schedule \in [Schedule -> Row \cup {Nothing}]
    /\ overdue \in Seq(Schedule)
    /\ ToSet(overdue) = {s \in Schedule : schedule[s] # Nothing /\ schedule[s].next = 0}
    /\ worker.batch \in Seq(Schedule) /\ worker.at \in {"idle", "advance", "create", "record"}
    /\ player \in [id : Schedule, row : Row, at : {"advance", "create", "record"}] \cup {Nothing}
    /\ owed \subseteq Schedule

\* Rows of an older database have no next_run_at yet.
ScheduleInit ==
    /\ schedule \in [Schedule -> {Nothing, [active |-> TRUE, next |-> NULL]}]
    /\ overdue = <<>>
    /\ worker = NoWork
    /\ player = Nothing
    /\ owed = {s \in Schedule : schedule[s] # Nothing}

-----------------------------------------------------------------------------
IsDue(s) == schedule[s] # Nothing /\ schedule[s].active /\ schedule[s].next \in {0, NULL}
Owe == owed' = owed \cup {s \in Schedule : IsDue(s)' /\ ~IsDue(s)}

\* Mutation: the current minute counts.
NextRunOrNow(active) == IF active THEN 0 .. MaxWait ELSE {NULL}

\* set_schedule_next_run: strictly later than now, or NULL.
NextRun(active) == IF active THEN 1 .. MaxWait ELSE {NULL}

\* The ids whose time has come together, in their order, ...
Arrivals(due) == {q \in [1 .. Cardinality(due) -> due] :
    ToSet(q) = due /\ \A i, j \in DOMAIN q : i < j => q[i] < q[j]}

\* ... and one whose time is changed.
Unqueued(s) ==
    LET at == {i \in DOMAIN overdue : overdue[i] = s} IN
    IF at = {} THEN overdue ELSE RemoveAt(overdue, CHOOSE i \in at : TRUE)

Set(s, row) ==
    /\ schedule' = [schedule EXCEPT ![s] = row]
    /\ overdue' = Unqueued(s)

\* A minute passes.
Tick ==
    LET due == {s \in Schedule : schedule[s] # Nothing /\ schedule[s].next = 1} IN
    /\ \E s \in Schedule : schedule[s] # Nothing /\ schedule[s].next \in 1 .. MaxWait
    /\ schedule' = [s \in Schedule |->
           IF schedule[s] # Nothing /\ schedule[s].next \in 1 .. MaxWait
           THEN [schedule[s] EXCEPT !.next = @ - 1] ELSE schedule[s]]
    /\ \E q \in Arrivals(due) : overdue' = overdue \o q
    /\ Owe
    /\ UNCHANGED <<worker, player>>

-----------------------------------------------------------------------------
(* The worker. *)

\* Active, and due or without a next_run_at.
Due == {s \in Schedule : IsDue(s)}
\* Mutation: in the order of their ids.
PrecedesById(s, t) == s < t

\* Those without a next_run_at come first.
Precedes(s, t) ==
    \/ schedule[s].next = NULL /\ (schedule[t].next = 0 \/ s < t)
    \/ \E i, j \in DOMAIN overdue : i < j /\ overdue[i] = s /\ overdue[j] = t

DueInOrder == {q \in [1 .. Cardinality(Due) -> Due] :
    \A i, j \in DOMAIN q : i < j => q[i] # q[j] /\ Precedes(q[i], q[j])}

SelectDue ==
    /\ worker.at = "idle" /\ Due # {}
    /\ \E due \in DueInOrder : worker' = [batch |-> SubSeq(due, 1, IF Len(due) < Limit THEN Len(due) ELSE Limit),
                                        at |-> "advance"]
    /\ UNCHANGED <<schedule, overdue, player, owed>>

Current == Head(worker.batch)

\* What follows an error: the rollback expires the schedule's row, reading its
\* id for the log raises in turn, and that ends the round.
EndRound == worker' = NoWork

\* Mutation: the next run is set after the creation.
SetNextRunLater(s) == UNCHANGED <<schedule, overdue>>

\* The schedule is the row SelectDue loaded: it was active then.
SetNextRun(s) == \E next \in NextRun(TRUE) : Set(s, [schedule[s] EXCEPT !.next = next])

Advance ==
    /\ worker.at = "advance"
    /\ IF schedule[Current] = Nothing
       THEN EndRound /\ UNCHANGED <<schedule, overdue, owed>>
       ELSE /\ SetNextRun(Current)
            /\ worker' = [worker EXCEPT !.at = "create"]
            /\ owed' = owed \ {Current}
    /\ UNCHANGED player

WorkerCreates ==
    /\ worker.at = "create"
    /\ worker' = [worker EXCEPT !.at = "record"]
    /\ UNCHANGED <<schedule, overdue, player, owed>>

WorkerCannotCreate ==
    /\ worker.at = "create"
    /\ EndRound
    /\ UNCHANGED <<schedule, overdue, player, owed>>

\* last_pipeline_id; the row may be gone.
Record ==
    /\ worker.at = "record"
    /\ worker' = IF schedule[Current] = Nothing \/ Len(worker.batch) = 1 THEN NoWork
                 ELSE [batch |-> Tail(worker.batch), at |-> "advance"]
    /\ UNCHANGED <<schedule, overdue, player, owed>>

Restart ==
    /\ worker' = NoWork /\ player' = Nothing
    /\ <<worker, player>> # <<NoWork, Nothing>>
    /\ UNCHANGED <<schedule, overdue, owed>>

-----------------------------------------------------------------------------
(* The users. *)

CreateSchedule(s, active) ==
    /\ schedule[s] = Nothing
    /\ \E next \in NextRun(active) : Set(s, [active |-> active, next |-> next])
    /\ Owe
    /\ UNCHANGED <<worker, player>>

UpdateSchedule(s, active) ==
    /\ schedule[s] # Nothing
    /\ \E next \in NextRun(active) : Set(s, [active |-> active, next |-> next])
    /\ Owe
    /\ UNCHANGED <<worker, player>>

DeleteSchedule(s) ==
    /\ schedule[s] # Nothing
    /\ Set(s, Nothing)
    /\ Owe
    /\ UNCHANGED <<worker, player>>

\* A play loads the row, ...
Play(s) ==
    /\ player = Nothing /\ schedule[s] # Nothing
    /\ player' = [id |-> s, row |-> schedule[s], at |-> "advance"]
    /\ UNCHANGED <<schedule, overdue, worker, owed>>

\* ... commits the next run, from the row as loaded (no write if it stays NULL) ...
PlaySets(at) ==
    LET p == player IN
    /\ p # Nothing /\ p.at = at
    /\ IF schedule[p.id] = Nothing
       THEN player' = Nothing /\ UNCHANGED <<schedule, overdue>>
       ELSE \E next \in NextRun(p.row.active) :
            /\ IF next = p.row.next THEN UNCHANGED <<schedule, overdue>>
               ELSE Set(p.id, [schedule[p.id] EXCEPT !.next = next])
            /\ player' = IF at = "record" THEN Nothing ELSE [p EXCEPT !.row.next = next, !.at = "create"]
    /\ Owe
    /\ UNCHANGED worker

PlayAdvances == PlaySets("advance")

\* ... creates the pipeline, and sets the next run again with last_pipeline_id.
PlayCreates ==
    /\ player # Nothing /\ player.at = "create"
    /\ player' \in {[player EXCEPT !.at = "record"], Nothing}
    /\ UNCHANGED <<schedule, overdue, worker, owed>>

PlayRecords == PlaySets("record")

-----------------------------------------------------------------------------
WorkerStep == SelectDue \/ Advance \/ WorkerCreates \/ WorkerCannotCreate \/ Record

UserStep ==
    \/ \E s \in Schedule :
        \/ \E active \in BOOLEAN : CreateSchedule(s, active) \/ UpdateSchedule(s, active)
        \/ DeleteSchedule(s) \/ Play(s)
    \/ PlayAdvances \/ PlayCreates \/ PlayRecords

ScheduleNext == Tick \/ WorkerStep \/ UserStep \/ Restart

\* The worker polls for as long as the server runs, and a round goes on.
ScheduleFairness == WF_scheduleVars(WorkerStep)

ScheduleSpec == ScheduleInit /\ [][ScheduleNext]_scheduleVars /\ ScheduleFairness

-----------------------------------------------------------------------------
\* The worker creates a pipeline for a schedule at most once for each time it
\* becomes due, whatever fails, restarts, is changed or played in between.
OneRunPerDueTime ==
    [][\A s \in Schedule : worker.at = "advance" /\ worker'.at = "create" /\ s = Current => s \in owed]_scheduleVars

\* Once the server runs and nobody touches the schedules, each due one is served
\* in the end: one that fails ends the round for those behind it, but its next
\* run puts it behind them.
DueIsServed ==
    <>[][~(Restart \/ UserStep)]_scheduleVars => \A s \in Schedule : IsDue(s) ~> ~IsDue(s)
=============================================================================
