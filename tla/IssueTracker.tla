------------------------------ MODULE IssueTracker ------------------------------
(***************************************************************************)
(* Issues and merge requests of one project, and the two counters kept in  *)
(* its row: next_issue_number and open_issues_count.  GitLab REST, GitHub  *)
(* REST, GraphQL and the web pages all write them.                         *)
(*                                                                         *)
(* A request loads rows, goes on, and commits what it computed from them;  *)
(* REST loads the project before the item, GraphQL the item first.  Only   *)
(* columns that differ from the loaded row are written.                    *)
(***************************************************************************)
EXTENDS Integers, FiniteSets

CONSTANTS
    TrackerCall,  \* the requests in flight at one time
    NoRow,        \* a row that is not loaded, a slot that is not used
    MaxNumber,    \* bound: items created
    MaxCount      \* bound: open_issues_count, which repeated drift lets grow

ASSUME TrackerBounds == MaxNumber \in Nat /\ MaxCount \in Nat

VARIABLES
    counters,   \* the project row: next_issue_number, open_issues_count
    item,       \* [number -> the issues row with its pull_requests row]
    inBase,     \* numbers whose source branch git merged into the target
    query,      \* what each request has loaded and is about to do
    drifted     \* history: a request committed over rows that had changed since
                \* it loaded them, or changed a state in a way that is not counted

trackerVars == <<counters, item, inBase, query, drifted>>

\* GitHub's PATCH stores whatever state it is given; other is any such string.
State == {"open", "closed", "other"}
Item == [mr : BOOLEAN, state : State, merged : BOOLEAN]
Counters == [next : Nat, open : Nat]

\* op tells apart what the checks and the commit of the handlers tell apart.
\* at: what the handler does next.  n is 0 until an item is chosen, open the
\* project's open_issues_count as loaded, was and to the states the item is loaded
\* with and given.
Op == {"create", "create_mr", "update", "update_mr", "set", "merge_mr", "merge_pull"}
Query == [op : Op, at : {"item", "project", "git", "commit"}, n : Nat, open : Nat \cup {NoRow},
          was : State \cup {NoRow}, to : State]

TrackerTypeOK ==
    /\ counters \in Counters
    /\ DOMAIN item \subseteq Nat /\ \A n \in DOMAIN item : item[n] \in Item
    /\ inBase \subseteq Nat
    /\ query \in [TrackerCall -> Query \cup {NoRow}]
    /\ drifted \in BOOLEAN

TrackerInit ==
    /\ counters = [next |-> 1, open |-> 0]
    /\ item = [n \in {} |-> NoRow]
    /\ inBase = {}
    /\ query = [c \in TrackerCall |-> NoRow]
    /\ drifted = FALSE

-----------------------------------------------------------------------------
(* The first read of each handler. *)

FirstRead(c, q) ==
    /\ query[c] = NoRow
    /\ query' = [query EXCEPT ![c] = q]
    /\ UNCHANGED <<counters, item, inBase, drifted>>

Create(c, mr) ==
    /\ counters.next <= MaxNumber /\ counters.open < MaxCount
    /\ FirstRead(c, [op |-> IF mr THEN "create_mr" ELSE "create", at |-> "commit", n |-> counters.next,
                     open |-> counters.open, was |-> NoRow, to |-> "open"])

CreateProjectIssue(c) == Create(c, FALSE)
CreateIssue(c) == Create(c, FALSE)
WebCreateIssue(c) == Create(c, FALSE)
GraphqlCreateIssue(c) == Create(c, FALSE)
CreateMergeRequest(c) == Create(c, TRUE)
CreatePull(c) == Create(c, TRUE)
WebCreatePull(c) == Create(c, TRUE)
GraphqlCreatePullRequest(c) == Create(c, TRUE)

\* REST loads the project first.
Rest(c, op, to) ==
    FirstRead(c, [op |-> op, at |-> "item", n |-> 0, open |-> counters.open, was |-> NoRow, to |-> to])

UpdateProjectIssue(c, to) == Rest(c, "update", to)
UpdateIssue(c, to) == Rest(c, "update", to)
UpdatePull(c, to) == Rest(c, "update", to)
UpdateMergeRequest(c, to) == Rest(c, "update_mr", to)
MergeMergeRequest(c) == Rest(c, "merge_mr", "closed")
MergePull(c) == Rest(c, "merge_pull", "closed")

\* GraphQL loads the item first.
Graphql(c, op, n, to) ==
    FirstRead(c, [op |-> op, at |-> "project", n |-> n, open |-> NoRow, was |-> item[n].state, to |-> to])

GraphqlUpdateIssue(c, n, to) == item[n].state # to /\ Graphql(c, "set", n, to)
GraphqlCloseIssue(c, n) == item[n].state = "open" /\ Graphql(c, "update", n, "closed")
GraphqlReopenIssue(c, n) == item[n].state = "closed" /\ Graphql(c, "update", n, "open")
GraphqlClosePullRequest(c, n) == item[n].mr /\ GraphqlCloseIssue(c, n)
GraphqlReopenPullRequest(c, n) ==
    item[n].mr /\ ~item[n].merged /\ item[n].state = "closed" /\ Graphql(c, "update", n, "open")
GraphqlMergePullRequest(c, n) ==
    /\ item[n].mr /\ ~item[n].merged
    /\ Graphql(c, "merge_pull", n, IF item[n].state = "open" THEN "closed" ELSE item[n].state)

-----------------------------------------------------------------------------
(* The second read, and git. *)

\* The checks of the REST handlers on the item they found.
Passes(q, row) ==
    CASE q.op = "update" -> row.state # q.to
      [] q.op = "update_mr" -> row.mr /\ row.state # q.to /\ (q.to = "open" => ~row.merged)
      [] OTHER -> row.mr /\ ~row.merged /\ row.state # "closed"

LoadItem(c) ==
    /\ query[c] # NoRow /\ query[c].at = "item"
    /\ \E n \in DOMAIN item :
        /\ Passes(query[c], item[n])
        /\ query' = [query EXCEPT
               ![c].n = n, ![c].was = item[n].state,
               ![c].op = IF @ = "update_mr" THEN "update" ELSE @,
               ![c].at = IF query[c].op = "update_mr" \/ query[c].op = "update" THEN "commit" ELSE "git"]
    /\ UNCHANGED <<counters, item, inBase, drifted>>

LoadProject(c) ==
    /\ query[c] # NoRow /\ query[c].at = "project"
    /\ query' = [query EXCEPT ![c].open = counters.open, ![c].at = "commit"]
    /\ UNCHANGED <<counters, item, inBase, drifted>>

\* _perform_git_merge pushed the merge to the target branch.
GitMerge(c) ==
    /\ query[c] # NoRow /\ query[c].at = "git"
    /\ inBase' = inBase \cup {query[c].n}
    /\ query' = [query EXCEPT ![c].at = "commit"]
    /\ UNCHANGED <<counters, item, drifted>>

\* Mutation: neither cares whether git could.
GitMergeIsIgnored(c) ==
    /\ query[c] # NoRow /\ query[c].at = "git"
    /\ query' = [query EXCEPT ![c].at = "commit"]
    /\ UNCHANGED <<counters, item, inBase, drifted>>

\* It could not: GitHub's merge goes on without git, GitLab's answers 405.
GitMergeFails(c) ==
    /\ query[c] # NoRow /\ query[c].at = "git"
    /\ query' = [query EXCEPT ![c] = IF @.op = "merge_pull" THEN [@ EXCEPT !.at = "commit"] ELSE NoRow]
    /\ UNCHANGED <<counters, item, inBase, drifted>>

-----------------------------------------------------------------------------
(* The commit. *)

ItemIsReady(c) == query[c] # NoRow /\ query[c].at = "commit"

Creates(q) == q.op \in {"create", "create_mr"}
Merges(q) == q.op \in {"merge_mr", "merge_pull"}

\* Mutation: no constraint.
NumberIsAnything(q) == TRUE

\* UNIQUE (repo_id, number) makes a number that was taken meanwhile an error.
NumberIsFree(q) == q.n \notin DOMAIN item

AddItem(c) ==
    LET q == query[c] IN
    /\ ItemIsReady(c) /\ Creates(q)
    /\ NumberIsFree(q)
    /\ counters' = [next |-> q.n + 1, open |-> q.open + 1]
    /\ item' = [n \in DOMAIN item \cup {q.n} |->
           IF n = q.n THEN [mr |-> q.op = "create_mr", state |-> "open", merged |-> FALSE] ELSE item[n]]
    /\ drifted' = (drifted \/ q.open # counters.open)
    /\ query' = [query EXCEPT ![c] = NoRow]
    /\ UNCHANGED inBase

\* Mutation: the state the item had is not looked at.
RecountAnyway(q) ==
    IF q.op = "set" THEN counters.open
    ELSE IF q.to = "open" THEN q.open + 1
    ELSE IF q.to = "closed" /\ q.open > 0 THEN q.open - 1
    ELSE counters.open

\* open_issues_count after the request: updateIssue leaves it alone, and so do a
\* state that is neither open nor closed and a GraphQL merge of an item that is
\* not open.
Recount(q) ==
    IF q.op = "set" THEN counters.open
    ELSE IF q.to = "open" /\ q.was # "open" THEN q.open + 1
    ELSE IF q.to = "closed" /\ q.was # "closed" /\ q.open > 0 THEN q.open - 1
    ELSE counters.open

\* The changes that Recount does not follow: updateIssue's, an open item that is
\* given another state, and an item in such a state that is closed.
Miscounts(q) ==
    \/ q.op = "set"
    \/ q.was = "open" /\ q.to = "other"
    \/ q.was = "other" /\ q.to = "closed"

SaveItem(c) ==
    LET q == query[c] IN
    /\ ItemIsReady(c) /\ ~Creates(q) /\ Recount(q) <= MaxCount
    /\ item' = [item EXCEPT ![q.n].state = IF q.was = q.to THEN @ ELSE q.to,
                            ![q.n].merged = @ \/ Merges(q)]
    /\ counters' = [counters EXCEPT !.open = Recount(q)]
    /\ drifted' = (drifted \/ q.open # counters.open \/ q.was # item[q.n].state \/ Miscounts(q))
    /\ query' = [query EXCEPT ![c] = NoRow]
    /\ UNCHANGED inBase

\* An early return, an error before the commit, or a process that dies: the
\* session is closed and nothing is written.
GiveUp(c) ==
    /\ query[c] # NoRow
    /\ query' = [query EXCEPT ![c] = NoRow]
    /\ UNCHANGED <<counters, item, inBase, drifted>>

RestStep(c) ==
    \/ CreateProjectIssue(c) \/ CreateIssue(c) \/ WebCreateIssue(c)
    \/ CreateMergeRequest(c) \/ CreatePull(c) \/ WebCreatePull(c)
    \/ \E to \in {"open", "closed"} : UpdateProjectIssue(c, to) \/ UpdateMergeRequest(c, to)
    \/ \E to \in State : UpdateIssue(c, to) \/ UpdatePull(c, to)
    \/ MergeMergeRequest(c) \/ MergePull(c)

GraphqlStep(c) ==
    \/ GraphqlCreateIssue(c) \/ GraphqlCreatePullRequest(c)
    \/ \E n \in DOMAIN item :
        \/ \E to \in {"open", "closed"} : GraphqlUpdateIssue(c, n, to)
        \/ GraphqlCloseIssue(c, n) \/ GraphqlReopenIssue(c, n)
        \/ GraphqlClosePullRequest(c, n) \/ GraphqlReopenPullRequest(c, n) \/ GraphqlMergePullRequest(c, n)

TrackerNext ==
    \E c \in TrackerCall :
        \/ RestStep(c) \/ GraphqlStep(c)
        \/ LoadItem(c) \/ LoadProject(c) \/ GitMerge(c) \/ GitMergeFails(c)
        \/ AddItem(c) \/ SaveItem(c) \/ GiveUp(c)

TrackerSpec == TrackerInit /\ [][TrackerNext]_trackerVars

-----------------------------------------------------------------------------
\* Numbers are handed out without a gap and never twice, whatever creations
\* overlap: the counter read before the insert may be old, and then the insert
\* fails and takes the counter's update with it.
NumbersAreFresh == DOMAIN item = 1 .. counters.next - 1

Open == {n \in DOMAIN item : item[n].state = "open"}

\* Every surface keeps the count of open items, with its own order of reads and
\* its own early returns.  It is off only once a request has committed over rows
\* another one changed, or has made a change that is not counted (Miscounts):
\* GraphQL's updateIssue, and GitHub's PATCH with a state it does not know.
CountIsOpen == ~drifted => counters.open = Cardinality(Open)

\* What PUT .../merge records as merged is in the target branch by then, although
\* git pushes before the row is committed and either may fail; a GitHub merge may
\* be recorded without.
AcceptedIsInBase ==
    [][\A n \in DOMAIN item : ~item[n].merged /\ item'[n].merged =>
        n \in inBase \/ \E c \in TrackerCall :
            query'[c] = NoRow /\ query[c] # NoRow /\ query[c].op = "merge_pull"]_trackerVars
=============================================================================
