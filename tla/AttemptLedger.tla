---------------------------- MODULE AttemptLedger ----------------------------
(***************************************************************************)
(* What the coordinator promises about the attempts of a job: each is      *)
(* given out at most once, reported on at most once, decided by the report *)
(* on it and by nothing else, and never taken up again after a newer one.  *)
(***************************************************************************)
EXTENDS Naturals

CONSTANT Job

\* [job -> phase; attempt: the current one; given: the attempts given out;
\* outcome: the results reported, <<attempt, result>>]
VARIABLE ledger

Result == {"success", "failed"}

New == [phase |-> "none", attempt |-> 1, given |-> {}, outcome |-> {}]

Init == ledger = [j \in Job |-> New]

\* From is the entry of a job before the step, To the one after it.
Undecided(From) == \A r \in Result : <<From.attempt, r>> \notin From.outcome

Create(From, To) ==
    /\ From.phase = "none"
    /\ To = [From EXCEPT !.phase = "waiting"]

Execute(From, To) ==
    /\ From.phase = "waiting" /\ From.attempt \notin From.given
    /\ To = [From EXCEPT !.phase = "running", !.given = @ \cup {From.attempt}]

\* A runner ends any attempt it was given, also one that was replaced.
Report(From, To) ==
    \E n \in From.given, r \in Result :
        /\ \A q \in Result : <<n, q>> \notin From.outcome
        /\ To = [From EXCEPT !.outcome = @ \cup {<<n, r>>}]

Decide(From, To) ==
    /\ From.phase \in {"running", "off"}
    /\ To.phase \in Result /\ <<From.attempt, To.phase>> \in From.outcome
    /\ To = [From EXCEPT !.phase = To.phase]

Withdraw(From, To) ==
    /\ From.phase \in {"waiting", "running"}
    /\ To = [From EXCEPT !.phase = "off"]

\* Its runner has not heard of the withdrawal and goes on.
Resume(From, To) ==
    /\ From.phase = "off" /\ From.attempt \in From.given /\ Undecided(From)
    /\ To = [From EXCEPT !.phase = "running"]

Renew(From, To) ==
    /\ From.phase # "none"
    /\ To.attempt \in Nat /\ To.attempt > From.attempt
    /\ To = [From EXCEPT !.phase = "waiting", !.attempt = To.attempt]

Changes(From, To) ==
    \/ Create(From, To) \/ Execute(From, To) \/ Report(From, To) \/ Decide(From, To)
    \/ Withdraw(From, To) \/ Resume(From, To) \/ Renew(From, To)

\* One transaction may change several jobs.
Next ==
    /\ DOMAIN ledger' = Job
    /\ \A j \in Job : ledger'[j] = ledger[j] \/ Changes(ledger[j], ledger'[j])

Spec == Init /\ [][Next]_ledger
=============================================================================
