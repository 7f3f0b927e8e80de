-------------------------------- MODULE GitPush --------------------------------
(***************************************************************************)
(* Pushes to one repository, over HTTP and SSH: the checks on protected    *)
(* branches, the pre-receive hook written for the request, git itself, and *)
(* then the branches table and the push pipelines, which follow what is on *)
(* disk by then.                                                           *)
(***************************************************************************)
EXTENDS Integers, Sequences, FiniteSets

CONSTANTS
    Branch,     \* names, ordered
    Level,      \* the access levels of those who push
    Rule,       \* what a branch is protected by: the least level that may push to it,
                \* and whether a forced update is allowed (allow_force_push)
    Pusher,     \* the pushes in flight at one time
    Commands,   \* what a push asks for: for each branch nothing, an update, a forced one, or its deletion
    MaxPush,    \* bound: pushes begun
    MaxCommit,  \* bound: commits; they are numbered as they are made, 0 is none
    MaxRow,     \* bound: ids of branch rows
    NoPush

Command == {"none", "ff", "force", "delete"}

ASSUME PushBounds ==
    /\ Commands \subseteq [Branch -> Command]
    /\ Level \subseteq Nat /\ Rule \subseteq [min : Nat, force : BOOLEAN]
    /\ Branch \subseteq Nat /\ IsFiniteSet(Branch) /\ Branch # {} /\ MaxPush \in Nat /\ MaxCommit \in Nat \ {0}
    /\ MaxRow \in Nat /\ Cardinality(Branch) < MaxRow

VARIABLES
    tip,        \* [branch -> its commit on disk]
    hook,       \* the repository's pre-receive hooks, one or none
    branch,     \* [id -> row] the branches table
    push,       \* [pusher -> what it is doing]
    piped,      \* [branch -> the newest commit a push created a pipeline for]
    begun,      \* how many pushes there were
    made        \* how many commits there are

pushVars == <<tip, hook, branch, push, piped, begun, made>>

Refs == [Branch -> 0 .. MaxCommit]
NoRefs == [b \in Branch |-> 0]
\* rules: none for a branch that is not protected, else the one it is protected by.
BranchRow == [name : Branch, sha : 1 .. MaxCommit, rules : SUBSET Rule]
Table == UNION {[ids -> BranchRow] : ids \in SUBSET (1 .. MaxRow)}

\* A hook knows the level of its user, and the branches that were protected with
\* their rules: its script has a case for each.
Case == [name : Branch, rule : Rule]
Hook == [level : Nat, cases : SUBSET Case]

\* old: the refs as the client saw them.  disk: the refs it last read.  saved:
\* what its own hook replaced.  moved: the commits that landed.  History:
\* guarded is how branches were protected ever since it began; alone: no other push
\* was in flight since; exposed: another push put its hook in place of this one's.
Stages == {"check", "snapshot", "install", "git", "restore", "disk", "rows", "sync", "after", "create"}
Push == [at : Stages, via : {"http", "ssh"}, level : Nat, cmd : [Branch -> Command],
         old : Refs, disk : Refs, moved : Refs, before : Refs, rows : Table, saved : SUBSET SUBSET Hook,
         guarded : SUBSET Case, alone : BOOLEAN, exposed : BOOLEAN]

PushTypeOK ==
    /\ tip \in Refs /\ piped \in Refs /\ hook \subseteq Hook /\ branch \in Table
    /\ push \in [Pusher -> Push \cup {NoPush}]
    /\ begun \in 0 .. MaxPush /\ made \in 1 .. MaxCommit

\* The names of some branches, each once and in order.
Listed(names) == {q \in [1 .. Cardinality(names) -> names] :
    /\ \A b \in names : \E i \in DOMAIN q : q[i] = b
    /\ \A i, j \in DOMAIN q : i < j => q[i] < q[j]}
NoRows == [i \in {} |-> 0]
Rows(names, rules) == [i \in DOMAIN names |-> [name |-> names[i], sha |-> 1, rules |-> rules]]

\* Two syncs that overlapped may have inserted a branch twice.
PushInit ==
    /\ tip = [b \in Branch |-> 1]
    /\ hook = {}
    /\ \E names \in Listed(Branch) :
          \/ branch \in {Rows(names, {}), Rows(Append(names, Head(names)), {})}
          \/ \E rule \in Rule : branch = Rows(names, {rule})
    /\ push = [p \in Pusher |-> NoPush]
    /\ piped = NoRefs
    /\ begun = 0
    /\ made = 1

-----------------------------------------------------------------------------
InPush(p, stage) == push[p] # NoPush /\ push[p].at = stage
Goes(p, stage) == push' = [push EXCEPT ![p].at = stage]
Others(p) == {q \in Pusher \ {p} : push[q] # NoPush}
Ids(rows, b) == {i \in DOMAIN rows : rows[i].name = b}
TopId(ids) == IF ids = {} THEN 0 ELSE CHOOSE i \in ids : \A j \in ids : j <= i
Protections(rows) ==
    UNION {{[name |-> rows[i].name, rule |-> rule] : rule \in rows[i].rules} : i \in DOMAIN rows}

\* The hook is replaced: the pushes between their install and git are exposed.
SetHook(p, h, record) ==
    /\ hook' = h
    /\ push' = [q \in Pusher |->
           IF q = p THEN record
           ELSE IF q \in Others(p) /\ push[q].saved # {} /\ push[q].at \in {"snapshot", "git"}
                THEN [push[q] EXCEPT !.exposed = TRUE] ELSE push[q]]

Begin(p, via, level, cmd) ==
    /\ push[p] = NoPush /\ begun < MaxPush
    /\ begun' = begun + 1
    /\ \A b \in Branch : cmd[b] \in {"force", "delete"} => tip[b] # 0
    /\ push' = [q \in Pusher |->
           IF q = p
           THEN [at |-> IF via = "http" THEN "check" ELSE "install", via |-> via, level |-> level, cmd |-> cmd,
                 old |-> tip, disk |-> NoRefs, moved |-> NoRefs, before |-> NoRefs, saved |-> {}, rows |-> NoRows,
                 guarded |-> Protections(branch), alone |-> Others(p) = {}, exposed |-> FALSE]
           ELSE IF q \in Others(p) THEN [push[q] EXCEPT !.alone = FALSE] ELSE NoPush]
    /\ UNCHANGED <<tip, hook, branch, piped, made>>

\* _check_protected_branch_updates: over HTTP only, and not for forced updates.
Rejected(p) ==
    \E g \in Protections(branch) :
        /\ push[p].cmd[g.name] # "none"
        /\ push[p].level < g.rule.min \/ push[p].cmd[g.name] = "delete"

Check(p) ==
    /\ InPush(p, "check")
    /\ IF Rejected(p) THEN push' = [push EXCEPT ![p] = NoPush] ELSE Goes(p, "snapshot")
    /\ UNCHANGED <<tip, hook, branch, piped, begun, made>>

\* _push_ref_snapshot: before the hook over HTTP, after it over SSH.
Snapshot(p) ==
    /\ InPush(p, "snapshot")
    /\ push' = [push EXCEPT ![p].before = tip, ![p].at = IF push[p].via = "http" THEN "install" ELSE "git"]
    /\ UNCHANGED <<tip, hook, branch, piped, begun, made>>

\* _install_request_pre_receive_hook: none without a protected branch.
Install(p) ==
    LET next == [push[p] EXCEPT !.at = IF push[p].via = "http" THEN "git" ELSE "snapshot"] IN
    /\ InPush(p, "install")
    /\ IF Protections(branch) = {}
       THEN push' = [push EXCEPT ![p] = next] /\ UNCHANGED hook
       ELSE SetHook(p, {[level |-> push[p].level, cases |-> Protections(branch)]},
                    [next EXCEPT !.saved = {hook}])
    /\ UNCHANGED <<tip, branch, piped, begun, made>>

-----------------------------------------------------------------------------
\* Mutation: who may force needs no level.
DeclinedUnlessForced(p) == \E h \in hook : \E g \in h.cases :
    /\ push[p].cmd[g.name] # "none"
    /\ \/ h.level < g.rule.min /\ ~g.rule.force
       \/ push[p].cmd[g.name] = "delete"
       \/ ~g.rule.force /\ push[p].cmd[g.name] = "force" /\ push[p].old[g.name] # 0

\* _protected_branch_hook_script, as git runs it on the commands it was sent.
Declined(p) == \E h \in hook : \E g \in h.cases :
    /\ push[p].cmd[g.name] # "none"
    /\ \/ h.level < g.rule.min
       \/ push[p].cmd[g.name] = "delete"
       \/ ~g.rule.force /\ push[p].cmd[g.name] = "force" /\ push[p].old[g.name] # 0

\* What only matters up to git's end.
Forget(q) == [q EXCEPT !.at = "restore", !.via = "http", !.level = 0, !.cmd = [b \in Branch |-> "none"],
                       !.old = NoRefs, !.guarded = {}, !.exposed = FALSE]

\* git-receive-pack takes each command whose old value is still current.  It
\* exits with 0 even if the hook declined.
ReceivePack(p) ==
    LET lands == {b \in Branch : push[p].cmd[b] # "none" /\ push[p].old[b] = tip[b] /\ ~Declined(p)} IN
    /\ InPush(p, "git")
    /\ IF \A b \in lands : push[p].cmd[b] = "delete" THEN UNCHANGED made ELSE made < MaxCommit /\ made' = made + 1
    /\ tip' = [b \in Branch |->
           IF b \notin lands THEN tip[b] ELSE IF push[p].cmd[b] = "delete" THEN 0 ELSE made']
    /\ push' = [push EXCEPT ![p] = [Forget(@) EXCEPT !.moved = [b \in Branch |-> IF b \in lands THEN tip'[b] ELSE 0]]]
    /\ UNCHANGED <<hook, branch, piped, begun>>

\* _restore_pre_receive_hook
Restore(p) ==
    /\ InPush(p, "restore")
    /\ IF push[p].saved = {} THEN Goes(p, "disk") /\ UNCHANGED hook
       ELSE \E h \in push[p].saved : SetHook(p, h, [push[p] EXCEPT !.at = "disk", !.saved = {}])
    /\ UNCHANGED <<tip, branch, piped, begun, made>>

-----------------------------------------------------------------------------
\* _sync_branches_to_db reads the disk, ...
ReadDisk(p) ==
    /\ InPush(p, "disk")
    /\ push' = [push EXCEPT ![p].disk = tip, ![p].at = "rows"]
    /\ UNCHANGED <<tip, hook, branch, piped, begun, made>>

\* ... then the rows, ...
ReadRows(p) ==
    /\ InPush(p, "rows")
    /\ push' = [push EXCEPT ![p].rows = branch, ![p].at = "sync"]
    /\ UNCHANGED <<tip, hook, branch, piped, begun, made>>

\* ... and commits the difference.  Of several rows of a name it sees the last.
LastId(rows, b) == CHOOSE i \in Ids(rows, b) : \A j \in Ids(rows, b) : j <= i

\* Mutation: the rows of deleted branches stay.
SyncedInPlace(rows, disk, new) ==
    [i \in DOMAIN branch |->
        IF i \in DOMAIN rows /\ i = LastId(rows, rows[i].name) /\ disk[rows[i].name] # 0
        THEN [branch[i] EXCEPT !.sha = disk[rows[i].name]] ELSE branch[i]]

\* Mutation: a deleted branch gets no commit, and keeps its row.
SyncedToNothing(rows, disk, new) ==
    [i \in DOMAIN branch |->
        IF i \in DOMAIN rows /\ i = LastId(rows, rows[i].name)
        THEN [branch[i] EXCEPT !.sha = disk[rows[i].name]] ELSE branch[i]]

\* new lists the branches without a row.
Synced(rows, disk, new) ==
    LET gone == {LastId(rows, b) : b \in {c \in Branch : disk[c] = 0 /\ Ids(rows, c) # {}}}
        set == {i \in DOMAIN branch : \E b \in Branch : disk[b] # 0 /\ Ids(rows, b) # {} /\ i = LastId(rows, b)
                                                     /\ rows[i].sha # disk[b]}
        left == DOMAIN branch \ gone
        max == TopId(left) IN
    [i \in left \cup (max + 1 .. max + Len(new)) |->
        IF i > max THEN [name |-> new[i - max], sha |-> disk[new[i - max]], rules |-> {}]
        ELSE IF i \in set THEN [branch[i] EXCEPT !.sha = disk[rows[i].name]] ELSE branch[i]]

\* A row to change that is gone makes the commit fail.
Stale(rows, disk) == \E b \in Branch :
    disk[b] # 0 /\ Ids(rows, b) # {} /\ rows[LastId(rows, b)].sha # disk[b] /\ LastId(rows, b) \notin DOMAIN branch

\* What is not protected any more is not guarded.
StillGuarded(q) == IF push[q] = NoPush THEN NoPush
                   ELSE [push[q] EXCEPT !.guarded = @ \cap Protections(branch')]

SyncBranches(p) ==
    LET q == push[p] IN
    /\ InPush(p, "sync") /\ ~Stale(q.rows, q.disk)
    /\ \E new \in Listed({b \in Branch : q.disk[b] # 0 /\ Ids(q.rows, b) = {}}) :
          branch' = Synced(q.rows, q.disk, new)
    /\ \A i \in DOMAIN branch' : i <= MaxRow
    /\ push' = [r \in Pusher |-> IF r = p
                               THEN [StillGuarded(p) EXCEPT !.at = "after", !.rows = NoRows, !.alone = FALSE]
                               ELSE StillGuarded(r)]
    /\ UNCHANGED <<tip, hook, piped, begun, made>>

\* _create_push_pipelines reads the disk once more, ...
ReadAfter(p) ==
    /\ InPush(p, "after")
    /\ push' = [push EXCEPT ![p].disk = tip, ![p].at = "create"]
    /\ UNCHANGED <<tip, hook, branch, piped, begun, made>>

\* Mutation: only the new branches.
ChangedIfNew(p) == {b \in Branch : push[p].disk[b] # 0 /\ push[p].before[b] = 0}

\* ... and goes through the branches that changed, in the order of their names;
\* one that is done is made to look unchanged.
Changed(p) == {b \in Branch : push[p].disk[b] \notin {0, push[p].before[b]}}

CreatePushPipeline(p) ==
    LET b == CHOOSE c \in Changed(p) : \A d \in Changed(p) : c <= d
        sha == push[p].disk[b] IN
    /\ InPush(p, "create") /\ Changed(p) # {}
    /\ piped' = [piped EXCEPT ![b] = IF sha > @ THEN sha ELSE @]
    /\ push' = [push EXCEPT ![p].before[b] = sha]
    /\ UNCHANGED <<tip, hook, branch, begun, made>>

EndPush(p) ==
    /\ InPush(p, "create") /\ Changed(p) = {}
    /\ push' = [push EXCEPT ![p] = NoPush]
    /\ UNCHANGED <<tip, hook, branch, piped, begun, made>>

\* A commit or a creation fails.  The rollback expires the repository's row, and
\* whatever follows, pipelines of the other branches included, fails in turn.
PushFails(p) ==
    /\ push[p] # NoPush /\ push[p].at \in {"disk", "sync", "create"}
    /\ push' = [push EXCEPT ![p] = NoPush]
    /\ UNCHANGED <<tip, hook, branch, piped, begun, made>>

\* The server stops: a hook that is in place stays there.
StopServer ==
    /\ \E p \in Pusher : push[p] # NoPush
    /\ push' = [p \in Pusher |-> NoPush]
    /\ UNCHANGED <<tip, hook, branch, piped, begun, made>>

\* The protected-branch API looks the row up with scalar_one_or_none, so a name
\* with two rows can be neither protected nor unprotected.  Protecting asks git for
\* the branch, and inserts its row or changes the one there is; a branch that is
\* protected gets the new rule.
ProtectBranch(b, rule) ==
    LET i == IF Ids(branch, b) = {} THEN TopId(DOMAIN branch) + 1 ELSE LastId(branch, b) IN
    /\ tip[b] # 0 /\ Cardinality(Ids(branch, b)) <= 1 /\ i <= MaxRow
    /\ branch' = [j \in DOMAIN branch \cup {i} |->
                     IF j = i THEN [name |-> b, sha |-> tip[b], rules |-> {rule}] ELSE branch[j]]
    /\ push' = [r \in Pusher |-> StillGuarded(r)]
    /\ UNCHANGED <<tip, hook, piped, begun, made>>

UnprotectBranch(b) ==
    /\ Cardinality(Ids(branch, b)) = 1
    /\ \E i \in Ids(branch, b) : branch[i].rules # {} /\ branch' = [branch EXCEPT ![i].rules = {}]
    /\ push' = [r \in Pusher |-> StillGuarded(r)]
    /\ UNCHANGED <<tip, hook, piped, begun, made>>

PushNext ==
    \/ \E p \in Pusher :
        \/ \E via \in {"http", "ssh"}, level \in Level, cmd \in Commands : Begin(p, via, level, cmd)
        \/ Check(p) \/ Snapshot(p) \/ Install(p) \/ ReceivePack(p) \/ Restore(p)
        \/ ReadDisk(p) \/ ReadRows(p) \/ SyncBranches(p)
        \/ ReadAfter(p) \/ CreatePushPipeline(p) \/ EndPush(p) \/ PushFails(p)
    \/ StopServer
    \/ \E b \in Branch : UnprotectBranch(b) \/ \E rule \in Rule : ProtectBranch(b, rule)

PushSpec == PushInit /\ [][PushNext]_pushVars

-----------------------------------------------------------------------------
\* What push q, which moves a branch that g protects, is: sent by a user of the
\* level g asks for, and an update forwards unless g allows a forced one.  If
\* another push replaced its hook, the check over HTTP has still seen the level,
\* and that nothing is deleted.
Respects(q, g) ==
    /\ \/ q.exposed
       \/ /\ q.level >= g.rule.min
          /\ q.cmd[g.name] = "ff" \/ (q.cmd[g.name] = "force" /\ g.rule.force)
    /\ q.via = "http" => q.level >= g.rule.min /\ q.cmd[g.name] # "delete"

\* A push moves a protected branch only as its protection allows, whatever pushes
\* overlap and however the protection of branches changes; only a push whose hook
\* another push replaced gets past the checks that are in the hook alone.
ProtectedIsKept ==
    [][\A p \in Pusher : InPush(p, "git") /\ InPush(p, "restore")' =>
        \A g \in push[p].guarded : tip'[g.name] # tip[g.name] => Respects(push[p], g)]_pushVars

\* A push that no other push overlapped leaves the last row of every branch in
\* line with git, whatever earlier pushes that overlapped or failed left, and
\* whatever branches are protected meanwhile.
RowsAreRepaired ==
    [][\A p \in Pusher : InPush(p, "sync") /\ InPush(p, "after")' /\ push[p].alone =>
        \A b \in Branch :
            IF tip[b] = 0 THEN Ids(branch, b) = {} \/ Cardinality(Ids(branch', b)) < Cardinality(Ids(branch, b))
            ELSE branch'[LastId(branch', b)].sha = tip[b]]_pushVars

\* When a push ends without an error, each commit it landed has a pipeline, or a
\* newer one of the branch has, or the branch is gone by then.
PushHasPipeline ==
    [][\A p \in Pusher : InPush(p, "create") /\ push'[p] = NoPush /\ Changed(p) = {} =>
        \A b \in Branch : push[p].moved[b] <= piped[b] \/ push[p].disk[b] = 0]_pushVars
=============================================================================
