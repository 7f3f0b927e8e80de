----------------------------- MODULE BranchCommits -----------------------------
(***************************************************************************)
(* One branch of a bare repository, and the requests that commit to it     *)
(* without a checkout: each runs a series of git commands, reading the     *)
(* branch's commit and tree one after the other, and ends in update-ref.   *)
(* Only the commits API and an unforced PATCH of the ref give update-ref   *)
(* the old value to compare.                                               *)
(***************************************************************************)
EXTENDS Integers, Sequences, SequencesExt, FiniteSets

CONSTANTS
    Path,       \* files
    Caller,     \* the requests in flight at one time
    MaxCommits, \* bound: commits made
    NoCall

ASSUME CommitBounds == MaxCommits \in Nat \ {0}

VARIABLES
    commit,     \* the trees of the commits there are, in the order they were made
    head,       \* the branch: a commit, 0 if it does not exist
    call,       \* what each request has read and will do
    expected    \* history: the tree the changes that were accepted add up to

commitVars == <<commit, head, call, expected>>

\* The version of a file is the commit that changed it last, 0 if it is absent.
Tree == [Path -> 0 .. MaxCommits]
NoFiles == [f \in Path |-> 0]
TreeOf(c) == IF c = 0 THEN NoFiles ELSE commit[c]

\* compare: update-ref gets the old value.  from: what a missing branch starts
\* from, 0 if the request names nothing.  strict: the file is looked for in the
\* tree that is changed.  todo: the git commands to run, base and tree what they
\* read.  overtaken: history, the branch moved and the request will not notice.
Read == {"file", "base", "parent", "tree", "both", "own"}
Call == [op : {"create", "update", "delete", "write", "set"}, path : Path \cup {NoCall}, compare : BOOLEAN,
    strict : BOOLEAN,
         from : 0 .. MaxCommits, todo : Seq(Read), base : 0 .. MaxCommits, tree : Tree, overtaken : BOOLEAN]

CommitTypeOK ==
    /\ commit \in Seq(Tree) /\ Len(commit) <= MaxCommits
    /\ head \in 0 .. Len(commit)
    /\ call \in [Caller -> Call \cup {NoCall}]
    /\ expected \in Tree

\* The first commit has a file; the branch is made from it.
CommitInit ==
    /\ commit \in {<<[NoFiles EXCEPT ![f] = 1]>> : f \in Path}
    /\ head = 0
    /\ call = [c \in Caller |-> NoCall]
    /\ expected = NoFiles

-----------------------------------------------------------------------------
(* The git commands before the commit. *)

\* Is the file as the request needs it?
Suits(op, tree, f) ==
    /\ op = "create" => tree[f] = 0
    /\ op \in {"update", "delete"} => tree[f] # 0

Source(q) == IF head # 0 THEN head ELSE q.from

\* "parent" is "base" and "own" is "both" where a missing branch is an error.
Succeeds(q) ==
    /\ Head(q.todo) \in {"parent", "own"} => head # 0
    /\ Head(q.todo) = "file" => Suits(q.op, TreeOf(Source(q)), q.path)

\* Without an old value there is nothing to compare.  What is not needed any more
\* is forgotten.
AfterRead(q) ==
    LET what == Head(q.todo) IN
    [q EXCEPT !.todo = Tail(@),
              !.base = IF q.compare THEN head ELSE 0,
              !.from = IF q.op = "set" \/ Len(q.todo) > 1 THEN @ ELSE 0,
              !.compare = @ /\ (what \in {"base", "both"} => head # 0),
              !.tree = CASE what = "tree" -> TreeOf(head) [] what \in {"both", "own"} -> TreeOf(Source(q))
                           [] OTHER -> @]

ReadNext(c) ==
    /\ call[c] # NoCall /\ call[c].todo # <<>> /\ Succeeds(call[c])
    /\ call' = [call EXCEPT ![c] = AfterRead(@)]
    /\ UNCHANGED <<commit, head, expected>>

-----------------------------------------------------------------------------
(* The requests: what they read, in which order, and how they end. *)

\* A request starts with its first command.
Request(c, op, f, options, from, todo) ==
    LET q == [op |-> op, path |-> f, compare |-> "compare" \in options, strict |-> "strict" \in options, from |-> from,
              todo |-> todo, base |-> 0, tree |-> NoFiles, overtaken |-> FALSE] IN
    /\ call[c] = NoCall
    /\ IF todo = <<>> THEN call' = [call EXCEPT ![c] = q]
       ELSE Succeeds(q) /\ call' = [call EXCEPT ![c] = AfterRead(q)]
    /\ UNCHANGED <<commit, head, expected>>

\* The first commit, or nothing.
StartPoints == {0, 1}

\* _create_multi_action_commit reads the commit's id, and the tree by that id.
CreateRepositoryCommit(c, op, f, force) ==
    \E from \in StartPoints :
        Request(c, op, f, IF force THEN {"strict"} ELSE {"strict", "compare"}, from, <<"both">>)

\* The files API looks at the file before _commit_file_change reads the commit.
CreateRepositoryFile(c, f) == \E from \in StartPoints : Request(c, "create", f, {}, from, <<"file", "both">>)
UpdateRepositoryFile(c, f) == \E from \in StartPoints : Request(c, "update", f, {}, from, <<"file", "both">>)
DeleteRepositoryFile(c, f) == \E from \in StartPoints : Request(c, "delete", f, {"strict"}, from, <<"file", "own">>)

\* The contents API reads the commit and then, by the branch's name, the tree.
PutContents(c, f) == Request(c, "write", f, {}, 0, <<"base", "tree">>)
DeleteContents(c, f) == Request(c, "delete", f, {}, 0, <<"file", "parent", "tree">>)

\* The web pages read the tree and then the commit.
WriteFile(c, f) == Request(c, "write", f, {}, 0, <<"tree", "parent">>)
NewFileSubmit(c, f) == WriteFile(c, f)
EditFileSubmit(c, f) == WriteFile(c, f)
PipelineEditorSubmit(c, f) == WriteFile(c, f)
DeleteFile(c, f) == Request(c, "delete", f, {"strict"}, 0, <<"tree", "parent">>)
DeleteFileSubmit(c, f) == DeleteFile(c, f)

\* The ref itself is set to commit k.
SetRef(c, k, options, todo) == Request(c, "set", NoCall, options, k, todo)
UpdateRef(c, k, force) == IF force THEN SetRef(c, k, {}, <<>>) ELSE SetRef(c, k, {"compare"}, <<"base">>)
CreateRef(c, k) == SetRef(c, k, {}, <<>>)
CreateProjectBranch(c, k) == head = 0 /\ SetRef(c, k, {}, <<>>)

-----------------------------------------------------------------------------
(* update-ref, and what the caller is told. *)

\* Mutation: update-ref is not given the old value.
UpdateRefIsForced(c) == call[c] # NoCall /\ call[c].todo = <<>>

UpdateRefAccepts(c) == call[c] # NoCall /\ call[c].todo = <<>> /\ (call[c].compare => head = call[c].base)

\* The branch moves under the others; those that compare will notice, and those
\* that set the ref mean to.
Overtake(calls) == [d \in Caller |->
    IF calls[d] = NoCall \/ calls[d].compare \/ calls[d].op = "set" THEN calls[d]
    ELSE [calls[d] EXCEPT !.overtaken = TRUE]]
Overtaking(c) == Overtake([call EXCEPT ![c] = NoCall])

ChangedTree(q, tree) == [tree EXCEPT ![q.path] = IF q.op = "delete" THEN 0 ELSE Len(commit) + 1]

LandCommit(c) ==
    LET q == call[c] IN
    /\ UpdateRefAccepts(c) /\ q.op # "set" /\ (q.strict => Suits(q.op, q.tree, q.path))
    /\ Len(commit) < MaxCommits
    /\ commit' = Append(commit, ChangedTree(q, q.tree))
    /\ head' = Len(commit')
    /\ expected' = IF head = 0 \/ q.overtaken THEN ChangedTree(q, q.tree) ELSE ChangedTree(q, expected)
    /\ call' = Overtaking(c)

LandRef(c) ==
    LET q == call[c] IN
    /\ UpdateRefAccepts(c) /\ q.op = "set"
    /\ head' = q.from
    /\ expected' = TreeOf(q.from)
    /\ call' = Overtaking(c)
    /\ UNCHANGED commit

\* delete_ref, delete_project_branch
DeleteBranch ==
    /\ head # 0
    /\ head' = 0
    /\ expected' = NoFiles
    /\ call' = Overtake(call)
    /\ UNCHANGED commit

\* A check fails, git refuses, or the process stops.
Fail(c) ==
    /\ call[c] # NoCall
    /\ call' = [call EXCEPT ![c] = NoCall]
    /\ UNCHANGED <<commit, head, expected>>

CommitNext ==
    \/ \E c \in Caller, f \in Path :
        \/ \E op \in {"create", "update", "delete"}, force \in BOOLEAN : CreateRepositoryCommit(c, op, f, force)
        \/ CreateRepositoryFile(c, f) \/ UpdateRepositoryFile(c, f) \/ DeleteRepositoryFile(c, f)
        \/ PutContents(c, f) \/ DeleteContents(c, f)
        \/ NewFileSubmit(c, f) \/ EditFileSubmit(c, f) \/ PipelineEditorSubmit(c, f) \/ DeleteFileSubmit(c, f)
    \/ \E c \in Caller :
        \/ \E k \in DOMAIN commit : (\E force \in BOOLEAN : UpdateRef(c, k, force)) \/ CreateRef(c, k)
           \/ CreateProjectBranch(c, k)
        \/ ReadNext(c) \/ LandCommit(c) \/ LandRef(c) \/ Fail(c)
    \/ DeleteBranch

CommitSpec == CommitInit /\ [][CommitNext]_commitVars

-----------------------------------------------------------------------------
\* The branch holds every change that was accepted and nothing else.  A request
\* that was overtaken by another changes only its own file if it compares; else
\* what it makes of the branch is taken for what was meant.
ChangesAreKept == head # 0 => TreeOf(head) = expected
=============================================================================
