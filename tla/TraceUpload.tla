------------------------------ MODULE TraceUpload ------------------------------
(***************************************************************************)
(* PATCH /api/v4/jobs/:id/trace: a runner uploads the log of its attempt   *)
(* in chunks, resumes after a lost answer from the last offset it knows to *)
(* be stored, and the server masks a secret in what it stores.             *)
(*                                                                         *)
(* The handler reads the job and the trace, waits for the body and writes. *)
(* With Split it does so in two steps and other requests commit in         *)
(* between; without it, it takes one.                                      *)
(***************************************************************************)
EXTENDS Integers, Sequences

CONSTANTS
    Output,     \* [attempt -> the bytes its runner writes]
    Secret,     \* the value of the job's masked variable
    NUL,        \* the byte that masks a byte of it
    Byte,
    Slot,       \* the PATCH requests in flight at one time
    Idle,       \* an unused slot
    Unread,     \* the handler has not loaded its rows
    Split,      \* the handler's read and write are separate steps
    MaxFaults   \* bound: requests that fail or whose answer comes too late

ASSUME LogsAreBytes ==
    /\ Output \in Seq(Seq(Byte)) /\ Output # <<>>
    /\ Secret \in Seq(Byte) /\ Secret # <<>>
    /\ NUL \in Byte
ASSUME BoundsAreTyped == Split \in BOOLEAN /\ MaxFaults \in Nat

VARIABLES
    row,        \* the job and its trace, as committed
    runner,     \* what the runner of each attempt wrote and knows to be stored
    call,       \* the PATCH requests
    wiped,      \* history: the trace was erased during this attempt
    faults      \* how many requests failed

vars == <<row, runner, call, wiped, faults>>

Attempt == DOMAIN Output

\* attempt stands for job_token, over for a status that can be retried and
\* erased, raw for the bytes of the job's trace, size for
\* pipeline_jobs.trace_size.  A job is created with its trace, which no handler
\* deletes.
Row == [attempt: Attempt, over: BOOLEAN, raw: Seq(Byte), size: Nat]
Seen == [raw: Seq(Byte), size: Nat]
Chunk == [attempt: Attempt, start: Nat, end: Nat, live: BOOLEAN, old: Seen \cup {Unread}]

TypeOK ==
    /\ row \in Row
    /\ runner \in [Attempt -> [made: Nat, sent: Nat, done: BOOLEAN]]
    /\ call \in [Slot -> Chunk \cup {Idle}]
    /\ wiped \in BOOLEAN
    /\ faults \in 0 .. MaxFaults

Init ==
    /\ row = [attempt |-> 1, over |-> FALSE, raw |-> <<>>, size |-> 0]
    /\ runner = [a \in Attempt |-> [made |-> 0, sent |-> 0, done |-> FALSE]]
    /\ call = [c \in Slot |-> Idle]
    /\ wiped = FALSE
    /\ faults = 0

-----------------------------------------------------------------------------
(* Masking.                                                                *)

\* bytes.replace(Secret, NUL * len): occurrences from the left, not
\* overlapping.  left[i] is how much of one is left from byte i on.
Mask(raw) ==
    LET n == Len(Secret)
        Match(i) == i + n - 1 <= Len(raw) /\ SubSeq(raw, i, i + n - 1) = Secret
        left[i \in 0 .. Len(raw)] ==
            IF i = 0 THEN 0
            ELSE IF left[i - 1] > 1 THEN left[i - 1] - 1
            ELSE IF Match(i) THEN n ELSE 0
    IN  [i \in 1 .. Len(raw) |-> IF left[i] > 0 THEN NUL ELSE raw[i]]

\* Mutation: the chunk is appended whatever its start.
Appended(raw, q) == Mask(raw \o SubSeq(Output[q.attempt], q.start + 1, q.end))

\* Mutation: off by one, the byte before the chunk is lost.
SplicedShort(raw, q) ==
    Mask(SubSeq(raw, 1, q.start - 1) \o SubSeq(Output[q.attempt], q.start + 1, q.end))

\* The chunk replaces what is stored from its start on.
Spliced(raw, q) ==
    Mask(SubSeq(raw, 1, q.start) \o SubSeq(Output[q.attempt], q.start + 1, q.end))

\* Mutation: a chunk that starts where the stored bytes end is refused.
TooFarByOne(raw, q) == q.start >= Len(raw)

TooFar(raw, q) == q.start > Len(raw)

\* The number after the dash of the Range header.
ResumeAt(raw) == Len(raw)

-----------------------------------------------------------------------------
(* A new attempt: _reset_job_for_retry, and the poll that hands it out.    *)

\* Mutation: the trace of the previous attempt stays.
RestartedKeepingTrace == [row EXCEPT !.attempt = @ + 1, !.over = FALSE, !.size = 0]

Restarted == [row EXCEPT !.attempt = @ + 1, !.over = FALSE, !.raw = <<>>, !.size = 0]

Restart ==
    /\ row.attempt + 1 \in Attempt
    /\ row' = Restarted
    /\ wiped' = FALSE

-----------------------------------------------------------------------------
(* The runner of attempt a.                                                *)

Waiting(a) == \E c \in Slot : call[c] # Idle /\ call[c].attempt = a /\ call[c].live
Started(a) == a <= row.attempt /\ ~runner[a].done
Told(a, offset) == [runner EXCEPT ![a].sent = offset]

Write(a) ==
    /\ Started(a) /\ runner[a].made < Len(Output[a])
    /\ runner' = [runner EXCEPT ![a].made = @ + 1]
    /\ UNCHANGED <<row, call, wiped, faults>>

Patch(c, a) ==
    /\ Started(a) /\ ~Waiting(a)
    /\ runner[a].sent < runner[a].made
    /\ call[c] = Idle
    /\ call' = [call EXCEPT ![c] =
                   [attempt |-> a, start |-> runner[a].sent, end |-> runner[a].made,
                    live |-> TRUE, old |-> Unread]]
    /\ UNCHANGED <<row, runner, wiped, faults>>

\* The runner stops waiting for the answer; the request may still be served.
Timeout(c) ==
    /\ faults < MaxFaults /\ faults' = faults + 1
    /\ call[c] # Idle /\ call[c].live
    /\ call' = [call EXCEPT ![c].live = FALSE]
    /\ UNCHANGED <<row, runner, wiped>>

\* Its log is known to be stored: it can send the final PUT /jobs/:id.
Ending(a) ==
    /\ Started(a) /\ ~Waiting(a)
    /\ runner[a].made = Len(Output[a]) /\ runner[a].sent = runner[a].made

\* update_job stores the size the runner gives, if that is not 0.
Report(a) ==
    /\ Ending(a)
    /\ runner' = [runner EXCEPT ![a].done = TRUE]
    /\ row' = IF row.attempt # a THEN row
              ELSE [row EXCEPT !.over = TRUE,
                               !.size = IF runner[a].made = 0 THEN @ ELSE runner[a].made]
    /\ UNCHANGED <<call, wiped, faults>>

\* A failure that is retried automatically (_prepare_auto_retry).
ReportFailure(a) ==
    /\ Ending(a) /\ row.attempt = a
    /\ Restart
    /\ runner' = [runner EXCEPT ![a].done = TRUE]
    /\ UNCHANGED <<call, faults>>

-----------------------------------------------------------------------------
(* The server.                                                             *)

Authentic(q) == q.attempt = row.attempt
Stored == [raw |-> row.raw, size |-> row.size]

\* patch_job_trace loads the rows and waits for the body.
Load(c) ==
    /\ Split
    /\ call[c] # Idle /\ call[c].old = Unread
    /\ Authentic(call[c])
    /\ call' = [call EXCEPT ![c].old = Stored]
    /\ UNCHANGED <<row, runner, wiped, faults>>

\* A token that is not the job's is refused, and the runner gives up.
Forbid(c) ==
    /\ call[c] # Idle /\ call[c].old = Unread
    /\ ~Authentic(call[c])
    /\ call' = [call EXCEPT ![c] = Idle]
    /\ runner' = IF call[c].live THEN [runner EXCEPT ![call[c].attempt].done = TRUE] ELSE runner
    /\ UNCHANGED <<row, wiped, faults>>

\* What the handler of c works on.
Loaded(c) ==
    IF Split THEN {call[c].old} \ {Unread}
    ELSE IF Authentic(call[c]) THEN {Stored} ELSE {}

\* 416: nothing is stored and the runner is told where to go on.
Refuse(c) ==
    /\ call[c] # Idle
    /\ \E old \in Loaded(c) :
          /\ TooFar(old.raw, call[c])
          /\ runner' = IF call[c].live THEN Told(call[c].attempt, ResumeAt(old.raw)) ELSE runner
    /\ call' = [call EXCEPT ![c] = Idle]
    /\ UNCHANGED <<row, wiped, faults>>

\* 202: the columns whose value changed are written and committed.
Accept(c) ==
    /\ call[c] # Idle
    /\ \E old \in Loaded(c) :
          LET new == Spliced(old.raw, call[c]) IN
          /\ ~TooFar(old.raw, call[c])
          /\ row' = [row EXCEPT !.raw = IF new # old.raw THEN new ELSE row.raw,
                                !.size = IF Len(new) # old.size THEN Len(new) ELSE row.size]
    /\ runner' = IF call[c].live THEN Told(call[c].attempt, call[c].end) ELSE runner
    /\ call' = [call EXCEPT ![c] = Idle]
    /\ UNCHANGED <<wiped, faults>>

\* The server restarts, or its commit meets a locked database.
Drop(c) ==
    /\ faults < MaxFaults /\ faults' = faults + 1
    /\ call[c] # Idle
    /\ call' = [call EXCEPT ![c] = Idle]
    /\ UNCHANGED <<row, runner, wiped>>

\* A user cancels the job; its runner is not stopped at once.
Cancel ==
    /\ ~row.over
    /\ row' = [row EXCEPT !.over = TRUE]
    /\ UNCHANGED <<runner, call, wiped, faults>>

\* A user retries the job that is over.
Retry ==
    /\ row.over
    /\ Restart
    /\ UNCHANGED <<runner, call, faults>>

\* An operator requeues the job that its runner may have lost.
Requeue ==
    /\ ~row.over
    /\ Restart
    /\ UNCHANGED <<runner, call, faults>>

Erase ==
    /\ row.over
    /\ row' = [row EXCEPT !.raw = <<>>, !.size = 0]
    /\ wiped' = TRUE
    /\ UNCHANGED <<runner, call, faults>>

Serve(c) == Load(c) \/ Forbid(c) \/ Refuse(c) \/ Accept(c)

Next ==
    \/ \E a \in Attempt : Write(a) \/ Report(a) \/ ReportFailure(a)
    \/ \E c \in Slot, a \in Attempt : Patch(c, a)
    \/ \E c \in Slot : Serve(c) \/ Timeout(c) \/ Drop(c)
    \/ Cancel \/ Retry \/ Requeue \/ Erase

Spec == Init /\ [][Next]_vars

\* The script runs, the runner sends what it has, and requests end.
Fairness ==
    /\ \A a \in Attempt : /\ WF_vars(Write(a))
                          /\ WF_vars(Report(a))
                          /\ WF_vars(\E c \in Slot : Patch(c, a))
    /\ \A c \in Slot : WF_vars(Serve(c))

FairSpec == Spec /\ Fairness

-----------------------------------------------------------------------------
(* What the upload promises.                                               *)

Log == Output[row.attempt]

\* However chunks are cut, lost, repeated or late, each stored byte is the
\* byte the current attempt wrote at that offset, or masks it.
OffsetsAreKept ==
    /\ Len(row.raw) <= Len(Log)
    /\ \A i \in 1 .. Len(row.raw) : row.raw[i] \in {Log[i], NUL}

\* What the runner was told is stored stays stored, unless a user erased it:
\* a runner that reports its result has left its whole log behind.
AckedIsStored == ~wiped => runner[row.attempt].sent <= Len(row.raw)

\* The stored log of an attempt grows only (ResumableLog).
AppendOnly == INSTANCE ResumableLog WITH
    Size <- [a \in Attempt |-> Len(Output[a])],
    attempt <- row.attempt, stored <- Len(row.raw)
GrowsOnly == AppendOnly!Spec

\* Resumption does not loop: a job whose requests sometimes get through ends.
UploadEnds == \A a \in Attempt : row.attempt = a ~> row.attempt # a \/ row.over
=============================================================================
