---------------------------- MODULE RepositoryProofs ----------------------------
(***************************************************************************)
(* What is kept with a repository, for any number of requests in flight:   *)
(* artifacts and their files, the cache's archives, the branch the web     *)
(* commits to, and pushes with their hooks, rows and pipelines.            *)
(***************************************************************************)
EXTENDS MCRepository, RowProofs, ListingProofs, FiniteSetTheorems, SequenceTheorems,
        WellFoundedInduction, TLAPS

-----------------------------------------------------------------------------
(* Artifacts. *)

\* A row's format still has a file, or lost it for good.
HasFile(f) == file[f] # NoFile \/ f \in bereft
Erasing(i) == erase # NoFile /\ erase.at = "commit" /\ i <= erase.count

\* Inductive: an upload that is about to insert its row has written the file, and
\* an erase knows the oldest rows only.
ArtifactInv ==
    /\ ArtifactTypeOK /\ Len(row) <= MaxArtifacts
    /\ \A i \in DOMAIN row : HasFile(row[i].format) \/ Erasing(i)
    /\ \A u \in Uploader : upload[u] # NoFile /\ upload[u].at = "insert" => HasFile(upload[u].format)
    /\ erase # NoFile => erase.count <= Len(row)

\* The rows are of the formats there are.
LEMMA RowFormats ==
    ASSUME NEW q \in Seq(ArtifactRow), NEW i \in DOMAIN q
    PROVE  q[i].format \in Format
  <1>1. q[i] \in ArtifactRow
    OBVIOUS
  <1> QED BY <1>1 DEF ArtifactRow

\* A step that changes no row and no erase, and takes no file away.
LEMMA FilesStay ==
    ASSUME ArtifactInv, ArtifactTypeOK', UNCHANGED <<row, erase>>, \A f \in Format : HasFile(f) => HasFile(f)',
           \A u \in Uploader : upload'[u] # NoFile /\ upload'[u].at = "insert" =>
                upload'[u].format \in Format /\ \A f \in Format : f = upload'[u].format => HasFile(f)'
    PROVE  ArtifactInv'
  <1>1. row \in Seq(ArtifactRow)
    BY DEF ArtifactInv, ArtifactTypeOK
  <1>2. \A i \in DOMAIN row : row[i].format \in Format
    BY <1>1, RowFormats
  <1> QED BY <1>2 DEF ArtifactInv, Erasing

\* Artifacts keep their files, whatever step is taken.
LEMMA ArtifactsStep ==
    ArtifactInv /\ [ArtifactNext]_artifactVars => ArtifactInv'
  <1> SUFFICES ASSUME ArtifactInv, [ArtifactNext]_artifactVars
               PROVE  ArtifactInv'
    OBVIOUS
  <1>0. /\ job \in [attempt : Attempt, running : BOOLEAN] /\ file \in [Format -> Attempt \cup {NoFile}]
        /\ row \in Seq(ArtifactRow) /\ Len(row) \in Nat /\ Len(row) <= MaxArtifacts /\ MaxArtifacts \in Nat
        /\ upload \in [Uploader -> [at : {"body", "insert"}, format : Format, attempt : Attempt] \cup {NoFile}]
        /\ erase \in [at : {"files", "commit"}, count : 0 .. MaxArtifacts] \cup {NoFile} /\ bereft \subseteq Format
    BY ArtifactBounds DEF ArtifactInv, ArtifactTypeOK
  <1>1. \A u \in Uploader : upload[u] # NoFile => upload[u].format \in Format /\ upload[u].attempt \in Attempt
    BY <1>0
  <1>2. \A u \in Uploader : upload[u] # NoFile /\ upload[u].at = "insert" => HasFile(upload[u].format)
    BY DEF ArtifactInv
  <1>3. \A i \in DOMAIN row : row[i].format \in Format /\ (HasFile(row[i].format) \/ Erasing(i))
    BY <1>0, RowFormats DEF ArtifactInv
  <1>4. erase # NoFile => erase.count \in Nat /\ erase.count <= Len(row) /\ erase.at \in {"files", "commit"}
    BY <1>0 DEF ArtifactInv
  <1>5. CASE EndJob \/ RetryJob \/ UNCHANGED artifactVars
    <2>1. job' \in [attempt : Attempt, running : BOOLEAN] /\ UNCHANGED <<file, row, upload, erase, bereft>>
      <3>1. CASE EndJob \/ UNCHANGED artifactVars
        BY <1>0, <3>1 DEF EndJob, artifactVars
      <3>2. CASE RetryJob
        <4>1. job.attempt + 1 \in Attempt
          BY <1>0, <3>2, ArtifactBounds DEF RetryJob, Attempt
        <4> QED BY <3>2, <4>1 DEF RetryJob
      <3> QED BY <1>5, <3>1, <3>2
    <2>2. ArtifactTypeOK'
      BY <2>1 DEF ArtifactInv, ArtifactTypeOK
    <2> QED BY <1>1, <1>2, <2>1, <2>2, FilesStay DEF HasFile
  <1>6. ASSUME NEW u \in Uploader, NEW f \in Format, NEW a \in Attempt, UploadStarts(u, f, a)
        PROVE  ArtifactInv'
    <2>1. /\ upload' = [upload EXCEPT ![u] = [at |-> "body", format |-> f, attempt |-> a]]
          /\ UNCHANGED <<job, file, row, erase, bereft>>
      BY <1>6 DEF UploadStarts
    <2>2. ArtifactTypeOK'
      BY <1>0, <2>1 DEF ArtifactTypeOK
    <2> QED BY <1>0, <1>1, <1>2, <2>1, <2>2, FilesStay DEF HasFile
  <1>7. ASSUME NEW u \in Uploader, UploadWrites(u)
        PROVE  ArtifactInv'
    <2>1. /\ upload[u] # NoFile /\ file' = [file EXCEPT ![upload[u].format] = upload[u].attempt]
          /\ upload' = [upload EXCEPT ![u].at = "insert"] /\ UNCHANGED <<job, row, erase, bereft>>
      BY <1>7 DEF UploadWrites
    <2>2. PICK up \in [at : {"body", "insert"}, format : Format, attempt : Attempt] : upload[u] = up
      BY <1>0, <2>1
    <2>3. [up EXCEPT !.at = "insert"] \in [at : {"body", "insert"}, format : Format, attempt : Attempt]
      OBVIOUS
    <2>4. PICK next \in [at : {"body", "insert"}, format : Format, attempt : Attempt] :
            next = [up EXCEPT !.at = "insert"] /\ next.format = up.format
      BY <2>3
    <2>5. upload' = [upload EXCEPT ![u] = next] /\ file' = [file EXCEPT ![up.format] = up.attempt]
      BY <2>1, <2>2, <2>4
    <2>6. ArtifactTypeOK'
      BY <1>0, <2>1, <2>5 DEF ArtifactTypeOK
    <2>7. \A f \in Format : file'[f] = file[f] \/ file'[f] # NoFile
      BY <1>0, <2>5, ArtifactNulls
    <2>8. file'[up.format] # NoFile /\ \A f \in Format : HasFile(f) => HasFile(f)'
      BY <1>0, <2>1, <2>5, <2>7, ArtifactNulls DEF HasFile
    <2> QED BY <1>0, <1>1, <1>2, <2>1, <2>4, <2>5, <2>6, <2>8, FilesStay DEF HasFile
  <1>8. ASSUME NEW u \in Uploader, UploadCommits(u)
        PROVE  ArtifactInv'
    <2>1. /\ upload[u] # NoFile /\ upload[u].at = "insert" /\ Len(row) < MaxArtifacts
          /\ row' = Append(row, [format |-> upload[u].format, attempt |-> upload[u].attempt])
          /\ upload' = [upload EXCEPT ![u] = NoFile] /\ UNCHANGED <<job, file, erase, bereft>>
      BY <1>8 DEF UploadCommits
    <2>2. PICK r \in ArtifactRow : r = [format |-> upload[u].format, attempt |-> upload[u].attempt]
              /\ r.format = upload[u].format
      BY <1>1, <2>1 DEF ArtifactRow
    <2>3. /\ row' \in Seq(ArtifactRow) /\ Len(row') = Len(row) + 1 /\ row'[Len(row) + 1] = r
          /\ \A i \in DOMAIN row : row'[i] = row[i]
      BY <1>0, <2>1, <2>2
    <2>4. ArtifactTypeOK'
      BY <1>0, <2>1, <2>3 DEF ArtifactTypeOK
    <2>5. \A i \in DOMAIN row' : (\A f \in Format : f = row'[i].format => HasFile(f)') \/ Erasing(i)'
      <3>1. ASSUME NEW i \in DOMAIN row', i \notin DOMAIN row
            PROVE  i = Len(row) + 1
        BY <1>0, <2>3, <3>1
      <3> QED BY <1>2, <1>3, <2>1, <2>2, <2>3, <3>1 DEF HasFile, Erasing
    <2>6. \A i \in DOMAIN row' : row'[i].format \in Format
      BY <2>3, RowFormats
    <2>7. \A v \in Uploader : upload'[v] # NoFile => v # u /\ upload'[v] = upload[v]
      BY <1>0, <2>1
    <2>8. \A i \in DOMAIN row' : (HasFile(row[i].format) \/ Erasing(i))'
      BY <2>5, <2>6 DEF HasFile, Erasing
    <2>9. \A v \in Uploader : (upload[v] # NoFile /\ upload[v].at = "insert" => HasFile(upload[v].format))'
      BY <1>2, <2>1, <2>7 DEF HasFile
    <2>10. (erase # NoFile => erase.count <= Len(row))' /\ Len(row') <= MaxArtifacts
      BY <1>0, <1>4, <2>1, <2>3
    <2> QED BY <2>4, <2>8, <2>9, <2>10 DEF ArtifactInv
  <1>9. ASSUME NEW u \in Uploader, UploadFails(u)
        PROVE  ArtifactInv'
    <2>1. upload' = [upload EXCEPT ![u] = NoFile] /\ UNCHANGED <<job, file, row, erase, bereft>>
      BY <1>9 DEF UploadFails
    <2>2. ArtifactTypeOK'
      BY <1>0, <2>1 DEF ArtifactTypeOK
    <2> QED BY <1>0, <1>1, <1>2, <2>1, <2>2, FilesStay DEF HasFile
  <1>10. CASE EraseStarts
    <2>1. erase = NoFile /\ erase' = [at |-> "files", count |-> Len(row)]
              /\ UNCHANGED <<job, file, row, upload, bereft>>
      BY <1>10 DEF EraseStarts
    <2>2. erase' \in [at : {"files", "commit"}, count : 0 .. MaxArtifacts] /\ erase'.count = Len(row)
      BY <1>0, <2>1
    <2>3. ArtifactTypeOK'
      BY <1>0, <2>1, <2>2 DEF ArtifactTypeOK
    <2>4. \A i \in DOMAIN row : HasFile(row[i].format)
      BY <1>3, <2>1 DEF Erasing
    <2> QED BY <1>0, <1>2, <2>1, <2>2, <2>3, <2>4 DEF ArtifactInv, HasFile
  <1>11. CASE EraseRemoves
    <2> DEFINE gone == Formats(1, erase.count)
    <2>1. /\ erase # NoFile /\ erase' = [erase EXCEPT !.at = "commit"] /\ UNCHANGED <<job, row, upload>>
          /\ file' = [f \in Format |-> IF f \in gone THEN NoFile ELSE file[f]]
          /\ bereft' = bereft \cup (gone \cap (Formats(erase.count + 1, Len(row)) \cup Writing))
      BY <1>11 DEF EraseRemoves
    <2>2. /\ erase' \in [at : {"files", "commit"}, count : 0 .. MaxArtifacts] /\ erase'.at = "commit"
          /\ erase'.count = erase.count /\ erase' # NoFile
      BY <1>0, <2>1, ArtifactNulls
    <2>3. gone \subseteq Format
      BY <1>0, <1>3, <1>4, <2>1 DEF Formats
    <2>4. ArtifactTypeOK'
      BY <1>0, <2>1, <2>2, <2>3 DEF ArtifactTypeOK
    <2>5. \A f \in Format : f \notin gone => (HasFile(f) => HasFile(f)')
      BY <2>1 DEF HasFile
    <2>6. ASSUME NEW i \in DOMAIN row
          PROVE  (\A f \in Format : f = row[i].format => HasFile(f)') \/ Erasing(i)'
      <3>1. CASE i <= erase.count
        BY <2>1, <2>2, <3>1 DEF Erasing
      <3>2. CASE ~(i <= erase.count)
        <4>1. HasFile(row[i].format) /\ row[i].format \in Format
          BY <1>3, <3>2 DEF Erasing
        <4>2. row[i].format \in Formats(erase.count + 1, Len(row))
          BY <1>0, <1>4, <2>1, <3>2 DEF Formats
        <4>3. row[i].format \in gone => row[i].format \in bereft'
          BY <2>1, <4>2
        <4> QED BY <2>1, <2>5, <4>1, <4>3 DEF HasFile
      <3> QED BY <3>1, <3>2
    <2>7. ASSUME NEW u \in Uploader, upload[u] # NoFile, upload[u].at = "insert"
          PROVE  \A f \in Format : f = upload[u].format => HasFile(f)'
      <3>1. upload[u].format \in gone => upload[u].format \in bereft'
        BY <2>1, <2>7 DEF Writing
      <3> QED BY <1>1, <1>2, <2>1, <2>5, <2>7, <3>1 DEF HasFile
    <2> QED BY <1>0, <1>1, <1>3, <1>4, <2>1, <2>2, <2>4, <2>6, <2>7 DEF ArtifactInv
  <1>12. CASE EraseCommits
    <2>1. /\ erase # NoFile /\ erase' = NoFile /\ row' = SubSeq(row, erase.count + 1, Len(row))
          /\ UNCHANGED <<job, file, upload, bereft>>
      BY <1>12 DEF EraseCommits
    <2> DEFINE n == erase.count
    <2>2. n \in Nat /\ n <= Len(row)
      BY <1>4, <2>1
    <2>3. /\ row' \in Seq(ArtifactRow) /\ Len(row') = Len(row) - n
          /\ \A i \in 1 .. Len(row) - n : row'[i] = row[i + n]
      <3> HIDE DEF n
      <3>1. \A i \in n + 1 .. Len(row) : row[i] \in ArtifactRow
        BY <1>0, <2>2
      <3>2. row' = SubSeq(row, n + 1, Len(row))
        BY <2>1 DEF n
      <3> QED BY <1>0, <2>2, <3>1, <3>2, SubSeqProperties
    <2>4. ArtifactTypeOK' /\ Len(row') <= MaxArtifacts
      BY <1>0, <2>1, <2>2, <2>3 DEF ArtifactTypeOK
    <2>5. ASSUME NEW i \in DOMAIN row'
          PROVE  \A f \in Format : f = row'[i].format => HasFile(f)'
      <3>1. i \in 1 .. Len(row) - n /\ i + n \in DOMAIN row /\ ~(i + n <= n)
        BY <1>0, <2>2, <2>3
      <3>2. HasFile(row[i + n].format)
        BY <1>3, <3>1 DEF Erasing
      <3> QED BY <2>1, <2>3, <3>1, <3>2 DEF HasFile
    <2> QED BY <1>1, <1>2, <2>1, <2>3, <2>4, <2>5, RowFormats DEF ArtifactInv, HasFile
  <1>13. CASE EraseFails
    <2>1. /\ erase # NoFile /\ erase' = NoFile /\ UNCHANGED <<job, file, row, upload>>
          /\ bereft' = IF erase.at = "commit" THEN bereft \cup Formats(1, erase.count) ELSE bereft
      BY <1>13 DEF EraseFails
    <2>2. Formats(1, erase.count) \subseteq Format
      BY <1>0, <1>3, <1>4, <2>1 DEF Formats
    <2>3. ArtifactTypeOK' /\ bereft \subseteq bereft'
      BY <1>0, <2>1, <2>2 DEF ArtifactTypeOK
    <2>4. ASSUME NEW i \in DOMAIN row
          PROVE  \A f \in Format : f = row[i].format => HasFile(f)'
      <3>1. CASE Erasing(i)
        BY <1>0, <1>4, <2>1, <3>1 DEF Erasing, Formats, HasFile
      <3> QED BY <1>3, <2>1, <2>3, <3>1 DEF HasFile
    <2> QED BY <1>0, <1>1, <1>2, <2>1, <2>3, <2>4, RowFormats DEF ArtifactInv, HasFile
  <1> QED BY <1>5, <1>6, <1>7, <1>8, <1>9, <1>10, <1>11, <1>12, <1>13 DEF ArtifactNext

\* The invariant holds where there is no file.
LEMMA ArtifactsStart == ArtifactInit => ArtifactInv
  <1> SUFFICES ASSUME ArtifactInit PROVE ArtifactInv
    OBVIOUS
  <1>1. row \in Seq(ArtifactRow) /\ Len(row) = 0
    BY DEF ArtifactInit
  <1>2. 1 \in Attempt
    BY ArtifactBounds DEF Attempt
  <1> QED BY <1>1, <1>2, ArtifactBounds DEF ArtifactInit, ArtifactInv, ArtifactTypeOK

\* A row of job_artifacts has its file, whatever uploads, retries and erases
\* overlap, for any number of uploads and attempts: unless an erase removed the
\* file of an upload it had not seen, or failed half way.
THEOREM ArtifactsKeepFiles == ArtifactSpec => []ArtifactsAreThere
  <1>1. ArtifactInv => ArtifactsAreThere
    BY DEF ArtifactInv, ArtifactsAreThere, HasFile, Erasing
  <1> QED BY ArtifactsStart, <1>1, ArtifactsStep, PTL DEF ArtifactSpec

-----------------------------------------------------------------------------
(* Commits to a branch without a checkout. *)

\* What requests still have to read: at most the tree, and the commit before it.
TreeIsRead(q) == q.todo \in {<<>>, <<"parent">>}
StillToRead == {<<>>, <<"parent">>, <<"tree">>, <<"both">>, <<"own">>, <<"parent", "tree">>}

\* What a request has read: one that compares has the tree of its base; one that
\* does not and has not been overtaken has the tree of the branch.
CallFits(q) ==
    /\ q \in Call /\ q.from \in 0 .. Len(commit) /\ q.todo \in StillToRead
    /\ q.op = "set" => q.todo = <<>>
    /\ q.op # "set" /\ q.compare => q.todo = <<>> /\ q.base \in DOMAIN commit /\ q.tree = commit[q.base]
    /\ q.op # "set" /\ ~q.compare /\ ~q.overtaken /\ TreeIsRead(q) /\ head # 0 => q.tree = commit[head]

CommitInv ==
    /\ commit \in Seq(Tree) /\ Len(commit) \in 1 .. MaxCommits
    /\ head \in 0 .. Len(commit)
    /\ DOMAIN call = Caller /\ expected \in Tree
    /\ \A c \in Caller : call[c] # NoCall => CallFits(call[c])
    /\ head # 0 => commit[head] = expected

\* The todo lists of the requests, and what is left of each after its first command.
Todo == {<<"both">>, <<"file", "both">>, <<"file", "own">>, <<"base", "tree">>, <<"file", "parent", "tree">>,
         <<"tree", "parent">>}

\* What the commands of a request leave to read.
LEMMA TodoLists ==
    /\ \A todo \in Todo : todo \in Seq(Read) /\ todo # <<>> /\ Tail(todo) \in StillToRead
    /\ \A todo \in StillToRead : todo \in Seq(Read) /\ (todo # <<>> => Tail(todo) \in StillToRead)
    /\ \A todo \in Todo \cup StillToRead : todo # <<>> =>
          /\ Head(todo) \in Read /\ Len(todo) \in Nat /\ Tail(todo) \in Seq(Read)
          /\ Tail(todo) \in {<<>>, <<"parent">>} =>
                Head(todo) \in {"tree", "both", "own"} \/ todo = <<"parent">>
    /\ Head(<<"both">>) = "both" /\ Tail(<<"both">>) = <<>> /\ Len(<<"both">>) = 1
    /\ Tail(<<"parent">>) = <<>> /\ Head(<<"parent">>) = "parent"
  BY DEF Todo, StillToRead, Read

\* The trees a request may see.
LEMMA TreesSeen ==
    ASSUME CommitInv, NEW k \in 0 .. Len(commit)
    PROVE  TreeOf(k) \in Tree /\ (k # 0 => k \in DOMAIN commit /\ TreeOf(k) = commit[k])
  BY CommitBounds DEF CommitInv, TreeOf, Tree, NoFiles

\* What a command does to a request.
LEMMA ReadIs ==
    ASSUME CommitInv, NEW q \in Call, q.from \in 0 .. Len(commit), q.todo \in Todo \cup StillToRead, q.todo # <<>>
    PROVE  LET r == AfterRead(q) IN
           /\ r \in Call /\ r.op = q.op /\ r.todo = Tail(q.todo) /\ r.overtaken = q.overtaken
              /\ r.from \in 0 .. Len(commit)
           /\ r.base = IF q.compare THEN head ELSE 0
           /\ r.compare = (q.compare /\ (Head(q.todo) \in {"base", "both"} => head # 0))
           /\ r.tree = CASE Head(q.todo) = "tree" -> TreeOf(head)
                         [] Head(q.todo) \in {"both", "own"} -> TreeOf(Source(q)) [] OTHER -> q.tree
  <1>1. head \in 0 .. MaxCommits /\ 0 \in 0 .. MaxCommits /\ head \in 0 .. Len(commit) /\ Len(commit) \in Nat
    BY CommitBounds DEF CommitInv
  <1>2. Tail(q.todo) \in Seq(Read) /\ Len(q.todo) \in Nat
    BY TodoLists
  <1>3. Source(q) \in 0 .. Len(commit)
    BY <1>1 DEF Source
  <1> DEFINE base == IF q.compare THEN head ELSE 0
             from == IF q.op = "set" \/ Len(q.todo) > 1 THEN q.from ELSE 0
             compare == q.compare /\ (Head(q.todo) \in {"base", "both"} => head # 0)
             tree == CASE Head(q.todo) = "tree" -> TreeOf(head)
                       [] Head(q.todo) \in {"both", "own"} -> TreeOf(Source(q)) [] OTHER -> q.tree
  <1>4. /\ base \in 0 .. MaxCommits /\ from \in 0 .. MaxCommits /\ from \in 0 .. Len(commit)
        /\ compare \in BOOLEAN /\ tree \in Tree
    BY <1>1, <1>3, TreesSeen DEF Call
  <1>5. AfterRead(q) = [q EXCEPT !.todo = Tail(q.todo), !.base = base, !.from = from, !.compare = compare,
            !.tree = tree]
    BY DEF AfterRead
  <1> HIDE DEF base, from, compare, tree
  <1>6. PICK given \in BOOLEAN : given = compare
    BY <1>4
  <1>7. AfterRead(q) = [q EXCEPT !.todo = Tail(q.todo), !.base = base, !.from = from, !.compare = given, !.tree = tree]
    BY <1>5, <1>6
  <1>8. ASSUME NEW r, r = AfterRead(q)
        PROVE  /\ r \in Call /\ r.op = q.op /\ r.overtaken = q.overtaken
               /\ r.todo = Tail(q.todo) /\ r.base = base /\ r.from = from /\ r.compare = given /\ r.tree = tree
    <2>1. PICK t \in Seq(Read), b \in 0 .. MaxCommits, f \in 0 .. MaxCommits, e \in Tree :
            t = Tail(q.todo) /\ b = base /\ f = from /\ e = tree
      BY <1>2, <1>4
    <2>2. r = [q EXCEPT !.todo = t, !.base = b, !.from = f, !.compare = given, !.tree = e]
      BY <1>7, <1>8, <2>1
    <2>3. r \in Call
      BY <2>2 DEF Call
    <2>4. /\ r.op = q.op /\ r.overtaken = q.overtaken /\ r.todo = t /\ r.base = b /\ r.from = f
          /\ r.compare = given /\ r.tree = e
      BY <2>2 DEF Call
    <2> QED BY <2>1, <2>3, <2>4
  <1> QED BY <1>4, <1>6, <1>8 DEF base, compare, tree

\* A request that has read nothing, or only part of what it needs.
Fresh(q) ==
    /\ q \in Call /\ q.from \in 0 .. Len(commit) /\ q.op # "set"
    /\ q.compare => q.todo = <<"both">>

\* One git command more keeps a request consistent with the branch it reads.
LEMMA ReadFits ==
    ASSUME CommitInv, NEW q, Fresh(q), q.todo \in Todo \/ (q.todo \in StillToRead /\ CallFits(q)), q.todo # <<>>
    PROVE  CallFits(AfterRead(q))
  <1> DEFINE r == AfterRead(q)
             what == Head(q.todo)
  <1>1. /\ r \in Call /\ r.op = q.op /\ r.todo = Tail(q.todo) /\ r.overtaken = q.overtaken
           /\ r.from \in 0 .. Len(commit)
        /\ r.base = IF q.compare THEN head ELSE 0
        /\ r.compare = (q.compare /\ (what \in {"base", "both"} => head # 0))
        /\ r.tree = CASE what = "tree" -> TreeOf(head)
                      [] what \in {"both", "own"} -> TreeOf(Source(q)) [] OTHER -> q.tree
    BY ReadIs DEF Fresh
  <1>2. r.todo \in StillToRead /\ (TreeIsRead(r) => what \in {"tree", "both", "own"} \/ q.todo = <<"parent">>)
    BY <1>1, TodoLists DEF TreeIsRead
  <1>3. head \in 0 .. Len(commit) /\ (head # 0 => head \in DOMAIN commit /\ TreeOf(head) = commit[head]
            /\ Source(q) = head)
    BY TreesSeen DEF CommitInv, Source
  <1> HIDE DEF r, what
  <1>4. r.compare => r.todo = <<>> /\ r.base \in DOMAIN commit /\ r.tree = commit[r.base]
    <2>1. SUFFICES ASSUME r.compare PROVE r.todo = <<>> /\ r.base \in DOMAIN commit /\ r.tree = commit[r.base]
      OBVIOUS
    <2>2. q.compare /\ q.todo = <<"both">> /\ what = "both" /\ r.todo = <<>>
      BY <1>1, <2>1, TodoLists DEF Fresh, what, Call
    <2> QED BY <1>1, <1>3, <2>1, <2>2
  <1>5. ASSUME ~r.compare, ~r.overtaken, TreeIsRead(r), head # 0
        PROVE  r.tree = commit[head]
    <2>1. CASE what \in {"tree", "both", "own"}
      BY <1>1, <1>3, <1>5, <2>1
    <2>2. CASE what \notin {"tree", "both", "own"}
      <3>1. q.todo = <<"parent">> /\ what = "parent"
        BY <1>2, <1>5, <2>2, TodoLists DEF what
      <3>2. q.todo \notin Todo /\ q.todo # <<"both">>
        BY <3>1 DEF Todo
      <3>3. CallFits(q) /\ TreeIsRead(q) /\ ~q.compare /\ ~q.overtaken
        BY <1>1, <1>5, <3>1, <3>2 DEF TreeIsRead, Fresh
      <3> QED BY <1>1, <1>3, <1>5, <2>2, <3>3 DEF CallFits, Fresh
    <2> QED BY <2>1, <2>2
  <1>6. r \in Call /\ r.from \in 0 .. Len(commit) /\ r.op # "set"
    BY <1>1 DEF Fresh
  <1>7. CallFits(r)
    BY <1>2, <1>4, <1>5, <1>6 DEF CallFits
  <1> QED BY <1>7 DEF r

\* A step that changes one request.
LEMMA OneCall ==
    ASSUME CommitInv, UNCHANGED <<commit, head, expected>>, NEW c \in Caller, NEW r, r # NoCall => CallFits(r),
           call' = [call EXCEPT ![c] = r]
    PROVE  CommitInv'
  <1>1. \A d \in Caller : call'[d] # NoCall => CallFits(call'[d])
    BY DEF CommitInv
  <1>2. \A d \in Caller : (call[d] # NoCall => CallFits(call[d]))'
    BY <1>1 DEF CallFits
  <1> QED BY <1>2 DEF CommitInv

\* A request starts with its first command.
LEMMA RequestStarts ==
    ASSUME CommitInv, NEW c \in Caller, NEW op \in {"create", "update", "delete", "write"}, NEW f \in Path,
           NEW options \in SUBSET {"compare", "strict"}, NEW from \in {0, 1}, NEW todo \in Todo,
           "compare" \in options => todo = <<"both">>, Request(c, op, f, options, from, todo)
    PROVE  CommitInv'
  <1> DEFINE q == [op |-> op, path |-> f, compare |-> "compare" \in options, strict |-> "strict" \in options,
      from |-> from,
                   todo |-> todo, base |-> 0, tree |-> NoFiles, overtaken |-> FALSE]
  <1>1. from \in 0 .. MaxCommits /\ from \in 0 .. Len(commit) /\ 0 \in 0 .. MaxCommits
    BY CommitBounds DEF CommitInv
  <1>2. NoFiles \in Tree
    BY CommitBounds DEF NoFiles, Tree
  <1>3. PICK compare \in BOOLEAN, strict \in BOOLEAN : compare = ("compare" \in options)
            /\ strict = ("strict" \in options)
    <2>1. ("compare" \in options) \in BOOLEAN /\ ("strict" \in options) \in BOOLEAN
      OBVIOUS
    <2> QED BY <2>1
  <1>4. todo \in Seq(Read) /\ todo # <<>>
    BY TodoLists
  <1>5. q = [op |-> op, path |-> f, compare |-> compare, strict |-> strict, from |-> from,
             todo |-> todo, base |-> 0, tree |-> NoFiles, overtaken |-> FALSE]
    BY <1>3
  <1>6. q \in Call
    <2> HIDE DEF q
    <2> QED BY <1>1, <1>2, <1>4, <1>5 DEF Call
  <1>7. Fresh(q) /\ q.todo = todo
    BY <1>1, <1>6 DEF Fresh
  <1>8. call' = [call EXCEPT ![c] = AfterRead(q)] /\ UNCHANGED <<commit, head, expected>>
    BY <1>4 DEF Request
  <1> HIDE DEF q
  <1>9. CallFits(AfterRead(q))
    BY <1>4, <1>7, ReadFits
  <1> QED BY <1>8, <1>9, OneCall

\* The ref itself is set: what is to compare is read at once.
LEMMA SetStarts ==
    ASSUME CommitInv, NEW c \in Caller, NEW k \in DOMAIN commit, NEW options \in {{}, {"compare"}},
           NEW todo \in {<<>>, <<"base">>}, SetRef(c, k, options, todo)
    PROVE  CommitInv'
  <1> DEFINE q == [op |-> "set", path |-> NoCall, compare |-> "compare" \in options, strict |-> "strict" \in options,
                   from |-> k, todo |-> todo, base |-> 0, tree |-> NoFiles, overtaken |-> FALSE]
             what == Head(todo)
  <1>1. k \in 0 .. MaxCommits /\ k \in 0 .. Len(commit) /\ 0 \in 0 .. MaxCommits /\ head \in 0 .. MaxCommits
    BY CommitBounds DEF CommitInv
  <1>2. NoFiles \in Tree
    BY CommitBounds DEF NoFiles, Tree
  <1>3. PICK compare \in BOOLEAN, strict \in BOOLEAN : compare = ("compare" \in options)
            /\ strict = ("strict" \in options)
    <2>1. ("compare" \in options) \in BOOLEAN /\ ("strict" \in options) \in BOOLEAN
      OBVIOUS
    <2> QED BY <2>1
  <1>4. todo \in Seq(Read) /\ (todo # <<>> => what = "base" /\ Tail(todo) = <<>>) /\ <<>> \in Seq(Read)
    <2>1. <<>> \in Seq(Read) /\ <<"base">> \in Seq(Read) /\ Head(<<"base">>) = "base" /\ Tail(<<"base">>) = <<>>
      BY DEF Read
    <2> QED BY <2>1
  <1>5. q = [op |-> "set", path |-> NoCall, compare |-> compare, strict |-> strict, from |-> k,
             todo |-> todo, base |-> 0, tree |-> NoFiles, overtaken |-> FALSE]
    BY <1>3
  <1>6. q \in Call /\ q.op = "set" /\ q.from = k /\ q.todo = todo /\ q.tree = NoFiles
    <2> HIDE DEF q, what
    <2> QED BY <1>1, <1>2, <1>4, <1>5 DEF Call
  <1>7. UNCHANGED <<commit, head, expected>> /\ call' = [call EXCEPT ![c] = IF todo = <<>> THEN q ELSE AfterRead(q)]
    BY DEF SetRef, Request
  <1> HIDE DEF q, what
  <1>8. CASE todo = <<>>
    BY <1>1, <1>6, <1>7, <1>8, OneCall DEF CallFits, StillToRead
  <1>9. CASE todo # <<>>
    <2> DEFINE base == IF q.compare THEN head ELSE 0
               given == q.compare /\ (what \in {"base", "both"} => head # 0)
    <2>1. base \in 0 .. MaxCommits /\ given \in BOOLEAN
      BY <1>1, <1>6 DEF Call
    <2>2. AfterRead(q) = [q EXCEPT !.todo = <<>>, !.base = base, !.from = q.from, !.compare = given, !.tree = q.tree]
      BY <1>4, <1>6, <1>9 DEF AfterRead, what
    <2> HIDE DEF base, given
    <2>3. PICK b \in 0 .. MaxCommits, g \in BOOLEAN : b = base /\ g = given
      BY <2>1
    <2>4. PICK r : r = AfterRead(q) /\ r = [q EXCEPT !.todo = <<>>, !.base = b, !.from = q.from, !.compare = g,
              !.tree = q.tree]
      BY <2>2, <2>3
    <2>5. r \in Call /\ r.op = "set" /\ r.from = k /\ r.todo = <<>>
      BY <1>4, <1>6, <2>4 DEF Call
    <2> QED BY <1>1, <1>7, <1>9, <2>4, <2>5, OneCall DEF CallFits, StillToRead
  <1> QED BY <1>8, <1>9

\* The branch moves: what the others have read stays true, or they have been overtaken.
LEMMA OthersFit ==
    ASSUME CommitInv, NEW calls, \A d \in Caller : calls[d] = NoCall \/ calls[d] = call[d], call' = Overtake(calls),
           commit' \in Seq(Tree), Len(commit) <= Len(commit'), \A i \in DOMAIN commit : commit'[i] = commit[i]
    PROVE  DOMAIN call' = Caller /\ \A d \in Caller : (call[d] # NoCall => CallFits(call[d]))'
  <1>1. DOMAIN call' = Caller
    BY DEF Overtake
  <1>2. ASSUME NEW d \in Caller, NEW r, r = call'[d], r # NoCall
        PROVE  CallFits(r)'
    <2>1. PICK q \in Call : q = call[d] /\ q = calls[d] /\ q # NoCall /\ CallFits(q)
      BY <1>2 DEF Overtake, CommitInv, CallFits
    <2>2. r = IF q.compare \/ q.op = "set" THEN q ELSE [q EXCEPT !.overtaken = TRUE]
      BY <1>2, <2>1 DEF Overtake
    <2>3. /\ r \in Call /\ r.op = q.op /\ r.from = q.from /\ r.todo = q.todo /\ r.compare = q.compare /\ r.base = q.base
          /\ r.tree = q.tree /\ (r.overtaken \/ q.compare \/ q.op = "set")
      BY <2>1, <2>2 DEF Call
    <2>4. DOMAIN commit \subseteq DOMAIN commit' /\ 0 .. Len(commit) \subseteq 0 .. Len(commit')
      BY DEF CommitInv
    <2> QED BY <2>1, <2>3, <2>4 DEF CallFits
  <1>3. \A d \in Caller : (call[d] # NoCall => CallFits(call[d]))'
    BY <1>2 DEF CallFits
  <1> QED BY <1>1, <1>3

\* What the branch is made of after a commit is what was meant.
LEMMA LandsAsMeant ==
    ASSUME CommitInv, NEW c \in Caller, UpdateRefAccepts(c), call[c].op # "set", head # 0, ~call[c].overtaken
    PROVE  call[c].tree = expected
  BY DEF CommitInv, CallFits, UpdateRefAccepts, TreeIsRead

\* The branch and the requests fit, whatever step is taken.
LEMMA CommitsStep ==
    CommitInv /\ [CommitNext]_commitVars => CommitInv'
  <1> SUFFICES ASSUME CommitInv, [CommitNext]_commitVars
               PROVE  CommitInv'
    OBVIOUS
  <1>0. /\ commit \in Seq(Tree) /\ Len(commit) \in 1 .. MaxCommits /\ head \in 0 .. Len(commit)
        /\ DOMAIN call = Caller /\ expected \in Tree /\ (head # 0 => commit[head] = expected)
        /\ MaxCommits \in Nat
    BY CommitBounds DEF CommitInv
  <1>1. StartPoints = {0, 1} /\ 0 \in {0, 1}
    BY DEF StartPoints
  <1>2. /\ {} \in SUBSET {"compare", "strict"} /\ {"strict"} \in SUBSET {"compare", "strict"}
        /\ {"strict", "compare"} \in SUBSET {"compare", "strict"}
        /\ "compare" \notin {} /\ "compare" \notin {"strict"}
    OBVIOUS
  <1>3. ASSUME NEW c \in Caller, NEW f \in Path, NEW op \in {"create", "update", "delete"}, NEW force \in BOOLEAN,
               CreateRepositoryCommit(c, op, f, force)
        PROVE  CommitInv'
    <2>1. PICK from \in {0, 1} :
            Request(c, op, f, IF force THEN {"strict"} ELSE {"strict", "compare"}, from, <<"both">>)
      BY <1>1, <1>3 DEF CreateRepositoryCommit
    <2>2. PICK options \in SUBSET {"compare", "strict"} : options = IF force THEN {"strict"} ELSE {"strict", "compare"}
      BY <1>2
    <2> QED BY <2>1, <2>2, RequestStarts DEF Todo
  <1>4. ASSUME NEW c \in Caller, NEW f \in Path,
               \/ CreateRepositoryFile(c, f) \/ UpdateRepositoryFile(c, f) \/ DeleteRepositoryFile(c, f)
               \/ PutContents(c, f) \/ DeleteContents(c, f)
               \/ WriteFile(c, f) \/ DeleteFile(c, f)
        PROVE  CommitInv'
    <2>1. PICK op \in {"create", "update", "delete", "write"}, options \in {{}, {"strict"}}, from \in {0, 1},
              todo \in Todo :
            Request(c, op, f, options, from, todo)
      <3>1. /\ <<"file", "both">> \in Todo /\ <<"file", "own">> \in Todo /\ <<"base", "tree">> \in Todo
            /\ <<"file", "parent", "tree">> \in Todo /\ <<"tree", "parent">> \in Todo
        BY DEF Todo
      <3>2. CASE CreateRepositoryFile(c, f)
        BY <1>1, <3>1, <3>2 DEF CreateRepositoryFile
      <3>3. CASE UpdateRepositoryFile(c, f)
        BY <1>1, <3>1, <3>3 DEF UpdateRepositoryFile
      <3>4. CASE DeleteRepositoryFile(c, f)
        BY <1>1, <3>1, <3>4 DEF DeleteRepositoryFile
      <3>5. CASE PutContents(c, f)
        BY <3>1, <3>5 DEF PutContents
      <3>6. CASE DeleteContents(c, f)
        BY <3>1, <3>6 DEF DeleteContents
      <3>7. CASE WriteFile(c, f)
        BY <3>1, <3>7 DEF WriteFile
      <3>8. CASE DeleteFile(c, f)
        BY <3>1, <3>8 DEF DeleteFile
      <3> QED BY <1>4, <3>2, <3>3, <3>4, <3>5, <3>6, <3>7, <3>8
    <2>2. options \in SUBSET {"compare", "strict"} /\ "compare" \notin options
      BY <1>2
    <2> QED BY <2>1, <2>2, RequestStarts
  <1>5. ASSUME NEW c \in Caller, NEW k \in DOMAIN commit,
               (\E force \in BOOLEAN : UpdateRef(c, k, force)) \/ CreateRef(c, k) \/ CreateProjectBranch(c, k)
        PROVE  CommitInv'
    <2>1. SetRef(c, k, {}, <<>>) \/ SetRef(c, k, {"compare"}, <<"base">>)
      BY <1>5 DEF UpdateRef, CreateRef, CreateProjectBranch
    <2>2. CASE SetRef(c, k, {}, <<>>)
      BY <2>2, SetStarts
    <2>3. CASE SetRef(c, k, {"compare"}, <<"base">>)
      BY <2>3, SetStarts
    <2> QED BY <2>1, <2>2, <2>3
  <1>6. ASSUME NEW c \in Caller, ReadNext(c)
        PROVE  CommitInv'
    <2>1. PICK q \in Call : q = call[c] /\ q # NoCall /\ CallFits(q)
      BY <1>6 DEF ReadNext, CommitInv, CallFits
    <2>2. /\ q.todo # <<>> /\ call' = [call EXCEPT ![c] = AfterRead(q)] /\ UNCHANGED <<commit, head, expected>>
      BY <1>6, <2>1 DEF ReadNext
    <2>3. Fresh(q) /\ q.todo \in StillToRead
      BY <2>1, <2>2 DEF CallFits, Fresh
    <2>4. CallFits(AfterRead(q))
      BY <2>1, <2>2, <2>3, ReadFits
    <2> QED BY <2>2, <2>4, OneCall
  <1>7. ASSUME NEW c \in Caller, Fail(c)
        PROVE  CommitInv'
    BY <1>7, OneCall DEF Fail
  <1>8. ASSUME NEW c \in Caller, call' = Overtaking(c), commit' \in Seq(Tree), Len(commit) <= Len(commit'),
               \A i \in DOMAIN commit : commit'[i] = commit[i]
        PROVE  DOMAIN call' = Caller /\ \A d \in Caller : (call[d] # NoCall => CallFits(call[d]))'
    <2>1. PICK calls : calls = [call EXCEPT ![c] = NoCall] /\ call' = Overtake(calls)
      BY <1>8 DEF Overtaking
    <2>2. \A d \in Caller : calls[d] = NoCall \/ calls[d] = call[d]
      BY <1>0, <2>1
    <2> QED BY <1>8, <2>1, <2>2, OthersFit
  <1>9. ASSUME NEW c \in Caller, LandCommit(c)
        PROVE  CommitInv'
    <2>1. PICK q \in Call : q = call[c] /\ q # NoCall /\ CallFits(q)
      BY <1>9 DEF LandCommit, UpdateRefAccepts, CommitInv, CallFits
    <2> DEFINE new == ChangedTree(q, q.tree)
    <2>2. /\ UpdateRefAccepts(c) /\ q.op # "set" /\ Len(commit) < MaxCommits /\ commit' = Append(commit, new)
          /\ head' = Len(commit') /\ call' = Overtaking(c)
          /\ expected' = IF head = 0 \/ q.overtaken THEN new ELSE ChangedTree(q, expected)
      BY <1>9, <2>1 DEF LandCommit
    <2>3. new \in Tree
      <3>1. (IF q.op = "delete" THEN 0 ELSE Len(commit) + 1) \in 0 .. MaxCommits
        BY <1>0, <2>2
      <3>2. q.tree \in [Path -> 0 .. MaxCommits]
        BY <2>1 DEF Call, Tree
      <3> QED BY <3>1, <3>2 DEF ChangedTree, Tree
    <2>4. expected' = new
      BY <2>1, <2>2, LandsAsMeant
    <2> HIDE DEF new
    <2>5. /\ commit' \in Seq(Tree) /\ Len(commit') = Len(commit) + 1 /\ commit'[Len(commit) + 1] = new
          /\ \A i \in DOMAIN commit : commit'[i] = commit[i]
      BY <1>0, <2>2, <2>3
    <2>6. Len(commit') \in 1 .. MaxCommits /\ head' \in 0 .. Len(commit') /\ Len(commit) <= Len(commit')
      BY <1>0, <2>2, <2>5
    <2>7. DOMAIN call' = Caller /\ \A d \in Caller : (call[d] # NoCall => CallFits(call[d]))'
      BY <1>8, <2>2, <2>5, <2>6
    <2> QED BY <2>2, <2>3, <2>4, <2>5, <2>6, <2>7 DEF CommitInv
  <1>10. ASSUME NEW c \in Caller, LandRef(c)
         PROVE  CommitInv'
    <2>1. call[c].from \in 0 .. Len(commit) /\ commit' = commit /\ head' = call[c].from /\ expected' = TreeOf(head')
          /\ call' = Overtaking(c)
      BY <1>10 DEF LandRef, UpdateRefAccepts, CommitInv, CallFits
    <2>2. expected' \in Tree /\ (head' # 0 => commit[head'] = expected')
      BY <2>1, TreesSeen
    <2>3. DOMAIN call' = Caller /\ \A d \in Caller : (call[d] # NoCall => CallFits(call[d]))'
      BY <1>0, <1>8, <2>1
    <2> QED BY <1>0, <2>1, <2>2, <2>3 DEF CommitInv
  <1>11. CASE DeleteBranch
    <2>1. commit' = commit /\ head' = 0 /\ expected' = NoFiles /\ call' = Overtake(call)
      BY <1>11 DEF DeleteBranch
    <2>2. NoFiles \in Tree
      BY <1>0 DEF NoFiles, Tree
    <2>3. DOMAIN call' = Caller /\ \A d \in Caller : (call[d] # NoCall => CallFits(call[d]))'
      BY <1>0, <2>1, OthersFit
    <2> QED BY <1>0, <2>1, <2>2, <2>3 DEF CommitInv
  <1>12. CASE UNCHANGED commitVars
    <2>1. \A d \in Caller : (call[d] # NoCall => CallFits(call[d]))'
      BY <1>12 DEF commitVars, CommitInv, CallFits
    <2> QED BY <1>0, <1>12, <2>1 DEF commitVars, CommitInv
  <1> QED BY <1>3, <1>4, <1>5, <1>6, <1>7, <1>9, <1>10, <1>11, <1>12
       DEF CommitNext, NewFileSubmit, EditFileSubmit, PipelineEditorSubmit, DeleteFileSubmit

\* The invariant holds of the first commit.
LEMMA CommitsStart == CommitInit => CommitInv
  <1> SUFFICES ASSUME CommitInit PROVE CommitInv
    OBVIOUS
  <1>1. PICK f \in Path : commit = <<[NoFiles EXCEPT ![f] = 1]>>
    BY DEF CommitInit
  <1>2. [NoFiles EXCEPT ![f] = 1] \in Tree /\ NoFiles \in Tree
    BY CommitBounds DEF NoFiles, Tree
  <1>3. commit \in Seq(Tree) /\ Len(commit) = 1
    BY <1>1, <1>2
  <1> QED BY <1>2, <1>3, CommitBounds DEF CommitInit, CommitInv

\* The branch holds every change that was accepted and nothing else, for any
\* number of requests that read, commit and set the ref in any order; but one
\* that does not compare and is overtaken drops what overtook it.
THEOREM BranchKeepsChanges == CommitSpec => []ChangesAreKept
  <1>1. CommitInv => ChangesAreKept
    BY DEF CommitInv, ChangesAreKept, TreeOf
  <1> QED BY CommitsStart, <1>1, CommitsStep, PTL DEF CommitSpec

-----------------------------------------------------------------------------
(* The cache. *)

\* Inductive: of a key whose uploads did not meet and were not dropped, the one
\* upload in flight has truncated the archive, and without one it is whole.
CacheInv ==
    /\ archive \in [CacheKey -> Seq(Putter) \cup {NoPut}]
    /\ put \in [Putter -> CacheKey \cup {NoPut}]
    /\ torn \subseteq CacheKey
    /\ \A u \in Putter : put[u] # NoPut => archive[put[u]] \in Seq(Putter)
    /\ \A k \in CacheKey \ torn :
        /\ \A u \in Putter : put[u] = k => archive[k] = <<>> /\ \A v \in Putter : put[v] = k => v = u
        /\ archive[k] # NoPut /\ ~Busy(k) => \E u \in Putter : archive[k] = Body(u)

\* A body written over nothing is the body.
LEMMA BodyOverNothing ==
    ASSUME NEW u \in Putter
    PROVE  Body(u) \in Seq(Putter) /\ Over(Body(u), <<>>) = Body(u)
  <1>1. Length[u] \in Nat
    BY BodiesAreNotEmpty
  <1>2. Body(u) \in Seq(Putter) /\ Len(Body(u)) = Length[u]
    BY <1>1 DEF Body
  <1>3. SubSeq(<<>>, Len(Body(u)) + 1, Len(<<>>)) = <<>>
    BY <1>1, <1>2
  <1> QED BY <1>2, <1>3 DEF Over

\* A body written over an archive is a sequence of blocks.
LEMMA OverIsBlocks ==
    ASSUME NEW u \in Putter, NEW old \in Seq(Putter)
    PROVE  Over(Body(u), old) \in Seq(Putter)
  <1>1. Body(u) \in Seq(Putter) /\ Len(Body(u)) \in Nat /\ Len(old) \in Nat
    BY BodyOverNothing
  <1>2. SubSeq(old, Len(Body(u)) + 1, Len(old)) \in Seq(Putter)
    BY <1>1
  <1> QED BY <1>1, <1>2 DEF Over

\* Every step of an upload or a download keeps the invariant.
LEMMA CacheStep ==
    ASSUME CacheInv, [CacheNext]_cacheVars
    PROVE  CacheInv'
  <1> USE NoPutIsNoKey
  <1>1. ASSUME NEW u \in Putter, NEW k \in CacheKey, PutOpens(u, k) PROVE CacheInv'
    <2>1. /\ archive' \in [CacheKey -> Seq(Putter) \cup {NoPut}] /\ put' \in [Putter -> CacheKey \cup {NoPut}]
          /\ torn' \subseteq CacheKey
          /\ \A v \in Putter : put'[v] # NoPut => archive'[put'[v]] \in Seq(Putter)
      BY <1>1 DEF CacheInv, PutOpens
    <2>2. ASSUME NEW c \in CacheKey \ torn'
          PROVE  /\ \A v \in Putter : put'[v] = c => archive'[c] = <<>> /\ \A w \in Putter : put'[w] = c => w = v
                 /\ archive'[c] # NoPut /\ ~(\E v \in Putter : put'[v] = c) =>
                        \E v \in Putter : archive'[c] = Body(v)
      <3>1. c \notin torn
        BY <1>1, <2>2 DEF PutOpens
      <3>2. CASE c = k
        <4>1. ~ \E v \in Putter : put[v] = k
          BY <1>1, <2>2, <3>2 DEF PutOpens
        <4>2. \A v \in Putter : put'[v] = k => v = u
          BY <1>1, <4>1 DEF PutOpens, CacheInv
        <4>3. archive'[k] = <<>> /\ put'[u] = k
          BY <1>1 DEF PutOpens, CacheInv
        <4> QED BY <3>2, <4>2, <4>3
      <3>3. CASE c # k
        <4>1. archive'[c] = archive[c] /\ \A v \in Putter : (put'[v] = c) <=> (put[v] = c)
          BY <1>1, <3>3 DEF PutOpens, CacheInv
        <4> QED BY <3>1, <4>1 DEF CacheInv, Busy
      <3> QED BY <3>2, <3>3
    <2> QED BY <2>1, <2>2 DEF CacheInv, Busy
  <1>2. ASSUME NEW u \in Putter, PutWrites(u) PROVE CacheInv'
    <2>1. put[u] \in CacheKey
      BY <1>2 DEF CacheInv, PutWrites
    <2>2. PICK k \in CacheKey : k = put[u]
      BY <2>1
    <2>3. archive[k] \in Seq(Putter)
      BY <2>2 DEF CacheInv
    <2>4. Over(Body(u), archive[k]) \in Seq(Putter)
      BY <2>3, OverIsBlocks
    <2>5. archive' = [archive EXCEPT ![k] = Over(Body(u), archive[k])] /\ put' = [put EXCEPT ![u] = NoPut]
              /\ torn' = torn
      BY <1>2, <2>2 DEF PutWrites
    <2>6. /\ archive' \in [CacheKey -> Seq(Putter) \cup {NoPut}] /\ put' \in [Putter -> CacheKey \cup {NoPut}]
          /\ torn' \subseteq CacheKey
          /\ \A v \in Putter : put'[v] # NoPut => archive'[put'[v]] \in Seq(Putter)
      BY <2>4, <2>5 DEF CacheInv
    <2>7. ASSUME NEW c \in CacheKey \ torn'
          PROVE  /\ \A v \in Putter : put'[v] = c => archive'[c] = <<>> /\ \A w \in Putter : put'[w] = c => w = v
                 /\ archive'[c] # NoPut /\ ~(\E v \in Putter : put'[v] = c) =>
                        \E v \in Putter : archive'[c] = Body(v)
      <3>1. CASE c = k
        <4>1. archive[k] = <<>> /\ \A w \in Putter : put[w] = k => w = u
          BY <2>2, <2>5, <2>7, <3>1 DEF CacheInv
        <4>2. archive'[k] = Body(u)
          BY <2>5, <4>1, BodyOverNothing DEF CacheInv
        <4>3. \A w \in Putter : put'[w] # k
          BY <2>5, <4>1 DEF CacheInv
        <4> QED BY <3>1, <4>2, <4>3
      <3>2. CASE c # k
        <4>1. archive'[c] = archive[c] /\ \A v \in Putter : (put'[v] = c) <=> (put[v] = c)
          BY <2>2, <2>5, <3>2 DEF CacheInv
        <4> QED BY <2>5, <2>7, <4>1 DEF CacheInv, Busy
      <3> QED BY <3>1, <3>2
    <2> QED BY <2>6, <2>7 DEF CacheInv, Busy
  <1>3. ASSUME NEW u \in Putter, PutDropped(u) PROVE CacheInv'
    <2>1. PICK k \in CacheKey : k = put[u]
      BY <1>3 DEF CacheInv, PutDropped
    <2>2. archive' = archive /\ put' = [put EXCEPT ![u] = NoPut] /\ torn' = torn \cup {k}
      BY <1>3, <2>1 DEF PutDropped
    <2>3. \A c \in CacheKey \ torn' : c \notin torn /\ \A v \in Putter : (put'[v] = c) <=> (put[v] = c)
      BY <2>1, <2>2 DEF CacheInv
    <2>4. put' \in [Putter -> CacheKey \cup {NoPut}] /\ torn' \subseteq CacheKey
          /\ \A v \in Putter : put'[v] # NoPut => archive'[put'[v]] \in Seq(Putter)
      BY <2>2 DEF CacheInv
    <2> QED BY <2>2, <2>3, <2>4 DEF CacheInv, Busy
  <1>4. ASSUME NEW key \in CacheKey, NEW other \in CacheKey, Get(key, <<other>>) PROVE CacheInv'
    BY <1>4 DEF Get, CacheInv, Busy
  <1>5. ASSUME UNCHANGED cacheVars PROVE CacheInv'
    BY <1>5 DEF cacheVars, CacheInv, Busy
  <1> QED BY <1>1, <1>2, <1>3, <1>4, <1>5 DEF CacheNext

\* What a download answers with, and why it is whole.
LEMMA GetIsWhole ==
    ASSUME CacheInv, NEW key \in CacheKey, NEW other \in CacheKey, Get(key, <<other>>)
    PROVE  /\ seen'.key \in torn \/ Busy(seen'.key) \/ \E u \in Putter : seen'.body = Body(u)
           /\ archive[Head(seen'.asked)] # NoPut => seen'.key = Head(seen'.asked)
  <1>1. Candidates(key, <<other>>) = <<key, other>>
    <2> DEFINE both == <<key>> \o <<other>>
    <2>1. both \in Seq(CacheKey) /\ Len(both) = 2 /\ both[1] = key /\ both[2] = other
      OBVIOUS
    <2>2. <<key, other>> \in Seq(CacheKey) /\ Len(<<key, other>>) = 2
      OBVIOUS
    <2> HIDE DEF both
    <2>3. both = <<key, other>>
      BY <2>1, <2>2, SeqEqual
    <2> QED BY <2>3 DEF both, Candidates
  <1>2. PICK i \in {1, 2} : /\ Finds(<<key, other>>, i)
                            /\ seen' = [key |-> <<key, other>>[i], asked |-> <<key, other>>,
                                        body |-> archive[<<key, other>>[i]]]
    BY <1>1 DEF Get
  <1>3. Head(<<key, other>>) = key /\ <<key, other>>[1] = key /\ <<key, other>>[2] = other
    OBVIOUS
  <1>4. PICK k \in CacheKey : k = <<key, other>>[i] /\ archive[k] # NoPut /\ (i = 2 => archive[key] = NoPut)
    BY <1>2, <1>3 DEF Finds
  <1>5. seen'.key = k /\ seen'.body = archive[k] /\ Head(seen'.asked) = key
    BY <1>2, <1>3, <1>4
  <1>6. k \in torn \/ Busy(k) \/ \E u \in Putter : archive[k] = Body(u)
    BY <1>4 DEF CacheInv
  <1>7. archive[key] # NoPut => k = key
    BY <1>3, <1>4
  <1> QED BY <1>5, <1>6, <1>7

\* A download returns a whole archive, and the one of the key itself if there is
\* one: an upload truncates the file before it waits for its body, so that only
\* uploads of one key that meet, or one that is dropped, leave a mixture or a
\* part of an archive behind.
THEOREM DownloadsAreWhole == CacheSpec => ServedIsWhole
  <1>1. CacheInit => CacheInv
    BY NoPutIsNoKey DEF CacheInit, CacheInv
  <1>2. CacheInv /\ [CacheNext]_cacheVars => CacheInv'
    BY CacheStep
  <1>3. CacheInv /\ [CacheNext]_cacheVars =>
            [seen' # seen =>
                /\ seen'.key \in torn \/ Busy(seen'.key) \/ \E u \in Putter : seen'.body = Body(u)
                /\ archive[Head(seen'.asked)] # NoPut => seen'.key = Head(seen'.asked)]_cacheVars
    <2> SUFFICES ASSUME CacheInv, CacheNext, seen' # seen
                 PROVE  /\ seen'.key \in torn \/ Busy(seen'.key) \/ \E u \in Putter : seen'.body = Body(u)
                        /\ archive[Head(seen'.asked)] # NoPut => seen'.key = Head(seen'.asked)
      BY DEF cacheVars
    <2>1. PICK key, other \in CacheKey : Get(key, <<other>>)
      BY DEF CacheNext, PutOpens, PutWrites, PutDropped
    <2> QED BY <2>1, GetIsWhole
  <1> QED BY <1>1, <1>2, <1>3, PTL DEF CacheSpec, ServedIsWhole

-----------------------------------------------------------------------------
(* Pushes. *)

\* What a push knows to be protected is, while git has not run: in the hook, if
\* no other push has replaced it, and over HTTP in the check before.
Guarded(q) ==
    /\ q.guarded \subseteq Protections(branch)
    /\ q.at = "check" => q.via = "http"
    /\ (q.at = "git" \/ (q.at = "snapshot" /\ q.via = "ssh")) /\ ~q.exposed /\ q.guarded # {} =>
        q.saved # {} /\ \E h \in hook : h.level = q.level /\ q.guarded \subseteq h.cases
    /\ q.via = "http" /\ q.at \in {"snapshot", "install", "git"} =>
        \A g \in q.guarded : q.cmd[g.name] # "none" => ~(q.level < g.rule.min) /\ q.cmd[g.name] # "delete"
    /\ \A b \in Branch : q.cmd[b] = "force" => q.old[b] # 0

\* A commit a push landed is on disk, or a newer one is, or the branch is gone; and
\* the push still sees a change of the branch, unless a pipeline was created.
Landed(q) ==
    /\ \A b \in Branch : q.before[b] <= made /\ q.disk[b] <= made
    /\ \A b \in Branch : q.moved[b] # 0 =>
        /\ q.moved[b] <= made
        /\ tip[b] = 0 \/ q.moved[b] <= tip[b]
        /\ q.before[b] < q.moved[b] \/ q.moved[b] <= piped[b]
        /\ q.at = "create" => q.disk[b] = 0 \/ q.moved[b] <= q.disk[b]
        /\ q.at \notin {"check", "snapshot", "install", "git"}

\* The rows that are there by now are those a push has read, but for what the
\* protected-branch API brought in line with disk since: a row it changed, or one it
\* inserted for a branch without any.
Agrees(asRead, disk) ==
    /\ \A i \in DOMAIN asRead : i \in DOMAIN branch /\ branch[i].name = asRead[i].name
    /\ \A i \in DOMAIN branch :
        \/ i \in DOMAIN asRead /\ branch[i].sha = asRead[i].sha
        \/ /\ disk[branch[i].name] # 0 /\ branch[i].sha = disk[branch[i].name]
           /\ i \in DOMAIN asRead \/ Ids(asRead, branch[i].name) = {}

\* While a push is alone, what it has read is what there is.
UpToDate(q) ==
    /\ q.at \in {"rows", "sync"} => q.disk = tip
    /\ q.at = "sync" => Agrees(q.rows, tip)

Fits(q) == q \in Push /\ Guarded(q) /\ Landed(q) /\ (q.alone => UpToDate(q))

PushInv ==
    /\ tip \in Refs /\ piped \in Refs /\ hook \subseteq Hook /\ branch \in Table
    /\ made \in 1 .. MaxCommit /\ begun \in 0 .. MaxPush
    /\ \A b \in Branch : tip[b] <= made
    /\ DOMAIN push = Pusher
    /\ \A p \in Pusher : push[p] # NoPush =>
        Fits(push[p]) /\ (push[p].alone => \A q \in Pusher \ {p} : push[q] = NoPush)

\* The steps of a push that change nothing else.
LEMMA PushMoves ==
    ASSUME PushInv, NEW p \in Pusher, push[p] # NoPush, NEW r, push' = [push EXCEPT ![p] = r],
           UNCHANGED <<tip, hook, branch, piped, begun, made>>,
           r # NoPush => Fits(r) /\ (r.alone => push[p].alone)
    PROVE  PushInv'
  <1>1. r # NoPush => Fits(r)'
    BY DEF Fits, Guarded, Landed, UpToDate, Agrees, Protections
  <1>2. \A q \in Pusher : push'[q] = IF q = p THEN r ELSE push[q]
    BY DEF PushInv
  <1>3. \A q \in Pusher : push[q] # NoPush => Fits(push[q])
    BY DEF PushInv
  <1>4. \A f : Fits(f) => Fits(f)'
    BY DEF Fits, Guarded, Landed, UpToDate, Agrees, Protections
  <1>5. ASSUME NEW q \in Pusher, push'[q] # NoPush
        PROVE  Fits(push[q])' /\ (push'[q].alone => \A o \in Pusher \ {q} : push'[o] = NoPush)
    <2>1. PICK f : f = push'[q]
      OBVIOUS
    <2>2. Fits(f)'
      BY <1>1, <1>2, <1>3, <1>4, <1>5, <2>1
    <2>3. f.alone => \A o \in Pusher \ {q} : push'[o] = NoPush
      BY <1>2, <1>5, <2>1 DEF PushInv
    <2> QED BY <2>1, <2>2, <2>3
  <1>6. DOMAIN push' = Pusher
    BY DEF PushInv
  <1> QED BY <1>5, <1>6 DEF PushInv

\* A table of rows.
LEMMA TableIs ==
    ASSUME NEW t \in Table
    PROVE  /\ DOMAIN t \subseteq 1 .. MaxRow /\ t \in [DOMAIN t -> BranchRow]
           /\ \A i \in DOMAIN t : t[i].name \in Branch /\ t[i].sha \in 1 .. MaxCommit /\ t[i].rules \in SUBSET Rule
  <1>1. PICK ids \in SUBSET (1 .. MaxRow) : t \in [ids -> BranchRow]
    BY DEF Table
  <1>2. \A i \in ids : t[i] \in BranchRow
    BY <1>1
  <1> QED BY <1>1, <1>2 DEF BranchRow

\* What protects the branches of a table.
LEMMA ProtectionsAreCases ==
    ASSUME NEW t \in Table
    PROVE  Protections(t) \in SUBSET Case
  <1>1. \A i \in DOMAIN t : t[i].name \in Branch /\ t[i].rules \in SUBSET Rule
    BY TableIs
  <1>2. ASSUME NEW g \in Protections(t) PROVE g \in Case
    <2>1. PICK i \in DOMAIN t : \E rule \in t[i].rules : g = [name |-> t[i].name, rule |-> rule]
      BY <1>2 DEF Protections
    <2> QED BY <1>1, <2>1 DEF Case
  <1> QED BY <1>2

\* An empty result is a table of branch rows.
LEMMA NoRowsIsTable == NoRows \in Table
  <1>1. NoRows \in [{} -> BranchRow] /\ {} \in SUBSET (1 .. MaxRow)
    BY DEF NoRows
  <1> QED BY <1>1 DEF Table

\* An empty repository has refs, all of them zero.
LEMMA NoRefsAreRefs == NoRefs \in Refs /\ \A b \in Branch : NoRefs[b] = 0
  BY PushBounds DEF NoRefs, Refs

\* Over HTTP the commands are checked against the protected branches.
LEMMA CheckStep ==
    ASSUME PushInv, NEW p \in Pusher, Check(p)
    PROVE  PushInv'
  <1>1. Fits(push[p]) /\ push[p].at = "check"
    BY DEF PushInv, Check, InPush
  <1>2. CASE Rejected(p)
    <2>1. push' = [push EXCEPT ![p] = NoPush]
      BY <1>2 DEF Check
    <2> QED BY <2>1, PushMoves DEF Check, InPush
  <1>3. CASE ~Rejected(p)
    <2>1. PICK r : r = [push[p] EXCEPT !.at = "snapshot"]
      OBVIOUS
    <2>2. r \in Push /\ r.at = "snapshot" /\ r.via = push[p].via /\ r.level = push[p].level /\ r.cmd = push[p].cmd
          /\ r.old = push[p].old /\ r.disk = push[p].disk /\ r.moved = push[p].moved /\ r.before = push[p].before
          /\ r.guarded = push[p].guarded /\ r.alone = push[p].alone /\ r.exposed = push[p].exposed
      BY <1>1, <2>1 DEF Fits, Push, Stages
    <2>3. Guarded(r)
      <3>2. \A g \in Protections(branch) : r.cmd[g.name] # "none" =>
                ~(r.level < g.rule.min) /\ r.cmd[g.name] # "delete"
        BY <1>3, <2>2 DEF Rejected
      <3>3. r.guarded \subseteq Protections(branch) /\ r.via = "http" /\ \A b \in Branch : r.cmd[b] = "force"
                => r.old[b] # 0
        BY <1>1, <2>2 DEF Fits, Guarded
      <3> QED BY <2>2, <3>2, <3>3 DEF Guarded
    <2>4. Landed(r) /\ UpToDate(r)
      BY <1>1, <2>2 DEF Fits, Landed, UpToDate
    <2>5. push' = [push EXCEPT ![p] = r]
      BY <1>3, <2>1 DEF Check, Goes
    <2> QED BY <2>2, <2>3, <2>4, <2>5, PushMoves DEF Check, InPush, Fits
  <1> QED BY <1>2, <1>3

\* The refs before the push.
LEMMA SnapshotStep ==
    ASSUME PushInv, NEW p \in Pusher, Snapshot(p)
    PROVE  PushInv'
  <1>1. Fits(push[p]) /\ push[p].at = "snapshot" /\ tip \in Refs /\ \A b \in Branch : tip[b] <= made
    BY DEF PushInv, Snapshot, InPush
  <1>2. PICK a \in {"install", "git"} : a = IF push[p].via = "http" THEN "install" ELSE "git"
    OBVIOUS
  <1>3. PICK r : r = [push[p] EXCEPT !.before = tip, !.at = a]
    OBVIOUS
  <1>4. r \in Push /\ r.at = a /\ r.via = push[p].via /\ r.level = push[p].level /\ r.cmd = push[p].cmd
        /\ r.old = push[p].old /\ r.disk = push[p].disk /\ r.moved = push[p].moved /\ r.saved = push[p].saved
        /\ r.before = tip /\ r.guarded = push[p].guarded /\ r.alone = push[p].alone /\ r.exposed = push[p].exposed
    BY <1>1, <1>3 DEF Fits, Push, Stages
  <1>5. push[p].via \in {"http", "ssh"}
    BY <1>1 DEF Fits, Push
  <1>6. Guarded(r)
    BY <1>1, <1>2, <1>4, <1>5 DEF Fits, Guarded
  <1>7. Landed(r) /\ UpToDate(r)
    BY <1>1, <1>4 DEF Fits, Landed, UpToDate
  <1>8. push' = [push EXCEPT ![p] = r]
    BY <1>2, <1>3 DEF Snapshot
  <1> QED BY <1>4, <1>6, <1>7, <1>8, PushMoves DEF Snapshot, InPush, Fits

\* After git: the disk and the rows are read.
LEMMA ReadDiskStep ==
    ASSUME PushInv, NEW p \in Pusher, ReadDisk(p)
    PROVE  PushInv'
  <1>1. Fits(push[p]) /\ push[p].at = "disk" /\ tip \in Refs /\ \A b \in Branch : tip[b] <= made
    BY DEF PushInv, ReadDisk, InPush
  <1>2. PICK r : r = [push[p] EXCEPT !.disk = tip, !.at = "rows"]
    OBVIOUS
  <1>3. r \in Push /\ r.at = "rows" /\ r.via = push[p].via /\ r.cmd = push[p].cmd /\ r.disk = tip
        /\ r.old = push[p].old /\ r.moved = push[p].moved /\ r.before = push[p].before
        /\ r.guarded = push[p].guarded /\ r.alone = push[p].alone
    BY <1>1, <1>2 DEF Fits, Push, Stages
  <1>4. Guarded(r) /\ Landed(r) /\ UpToDate(r)
    BY <1>1, <1>3 DEF Fits, Guarded, Landed, UpToDate
  <1>5. push' = [push EXCEPT ![p] = r]
    BY <1>2 DEF ReadDisk
  <1> QED BY <1>3, <1>4, <1>5, PushMoves DEF ReadDisk, InPush, Fits

\* The rows a push loads are a table.
LEMMA ReadRowsStep ==
    ASSUME PushInv, NEW p \in Pusher, ReadRows(p)
    PROVE  PushInv'
  <1>1. Fits(push[p]) /\ push[p].at = "rows" /\ branch \in Table
    BY DEF PushInv, ReadRows, InPush
  <1>2. PICK r : r = [push[p] EXCEPT !.rows = branch, !.at = "sync"]
    OBVIOUS
  <1>3. r \in Push /\ r.at = "sync" /\ r.via = push[p].via /\ r.cmd = push[p].cmd /\ r.disk = push[p].disk
        /\ r.old = push[p].old /\ r.moved = push[p].moved /\ r.before = push[p].before /\ r.rows = branch
        /\ r.guarded = push[p].guarded /\ r.alone = push[p].alone
    BY <1>1, <1>2 DEF Fits, Push, Stages
  <1>4. Guarded(r) /\ Landed(r) /\ (r.alone => UpToDate(r))
    BY <1>1, <1>3 DEF Fits, Guarded, Landed, UpToDate, Agrees
  <1>5. push' = [push EXCEPT ![p] = r]
    BY <1>2 DEF ReadRows
  <1> QED BY <1>3, <1>4, <1>5, PushMoves DEF ReadRows, InPush, Fits

\* The disk once more: what the push landed is still there, or newer.
LEMMA ReadAfterStep ==
    ASSUME PushInv, NEW p \in Pusher, ReadAfter(p)
    PROVE  PushInv'
  <1>1. Fits(push[p]) /\ push[p].at = "after" /\ tip \in Refs /\ \A b \in Branch : tip[b] <= made
    BY DEF PushInv, ReadAfter, InPush
  <1>2. PICK r : r = [push[p] EXCEPT !.disk = tip, !.at = "create"]
    OBVIOUS
  <1>3. r \in Push /\ r.at = "create" /\ r.via = push[p].via /\ r.cmd = push[p].cmd /\ r.disk = tip
        /\ r.old = push[p].old /\ r.moved = push[p].moved /\ r.before = push[p].before
        /\ r.guarded = push[p].guarded /\ r.alone = push[p].alone
    BY <1>1, <1>2 DEF Fits, Push, Stages
  <1>4. Guarded(r) /\ Landed(r) /\ UpToDate(r)
    BY <1>1, <1>3 DEF Fits, Guarded, Landed, UpToDate
  <1>5. push' = [push EXCEPT ![p] = r]
    BY <1>2 DEF ReadAfter
  <1> QED BY <1>3, <1>4, <1>5, PushMoves DEF ReadAfter, InPush, Fits

\* A push ends, fails, or all of them stop with the server.
LEMMA EndsStep ==
    ASSUME PushInv, NEW p \in Pusher, EndPush(p) \/ PushFails(p)
    PROVE  PushInv'
  <1>1. push' = [push EXCEPT ![p] = NoPush] /\ UNCHANGED <<tip, hook, branch, piped, begun, made>> /\ push[p] # NoPush
    BY DEF EndPush, PushFails, InPush
  <1> QED BY <1>1, PushMoves

\* A restart forgets the pushes and keeps git, its hook and the rows.
LEMMA StopServerStep ==
    ASSUME PushInv, StopServer
    PROVE  PushInv'
  BY DEF PushInv, StopServer

\* Replacing the hook exposes the pushes that rely on their own.
LEMMA SetHookKeeps ==
    ASSUME PushInv, NEW p \in Pusher, push[p] # NoPush, NEW h \in SUBSET Hook, NEW r, SetHook(p, h, r),
           UNCHANGED <<tip, branch, piped, begun, made>>,
           r # NoPush => r \in Push /\ Guarded(r)' /\ Landed(r) /\ (r.alone => UpToDate(r) /\ push[p].alone)
    PROVE  PushInv'
  <1>1. \A f : (Landed(f) => Landed(f)') /\ (UpToDate(f) => UpToDate(f)')
    BY DEF Landed, UpToDate, Agrees, Ids
  <1>2. DOMAIN push' = Pusher /\ push'[p] = r /\ hook' = h
    BY DEF SetHook
  <1>3. ASSUME NEW q \in Pusher \ {p}, push[q] # NoPush
        PROVE  \E f : f = push'[q] /\ Fits(f)' /\ f.alone = push[q].alone
    <2>1. Fits(push[q]) /\ q \in Others(p)
      BY <1>3 DEF PushInv, Others
    <2>2. CASE push[q].saved # {} /\ push[q].at \in {"snapshot", "git"}
      <3>1. PICK f : f = [push[q] EXCEPT !.exposed = TRUE]
        OBVIOUS
      <3>2. f = push'[q]
        BY <2>1, <2>2, <3>1 DEF SetHook
      <3>3. f \in Push /\ f.at = push[q].at /\ f.via = push[q].via /\ f.level = push[q].level /\ f.cmd = push[q].cmd
            /\ f.old = push[q].old /\ f.moved = push[q].moved /\ f.before = push[q].before /\ f.disk = push[q].disk
            /\ f.rows = push[q].rows /\ f.guarded = push[q].guarded /\ f.alone = push[q].alone /\ f.exposed = TRUE
        BY <2>1, <3>1 DEF Fits, Push
      <3>4. Guarded(f)'
        BY <2>1, <3>3 DEF Fits, Guarded, Protections
      <3>5. Landed(f) /\ (f.alone => UpToDate(f))
        BY <2>1, <3>3 DEF Fits, Landed, UpToDate
      <3> QED BY <1>1, <3>2, <3>3, <3>4, <3>5 DEF Fits
    <2>3. CASE ~(push[q].saved # {} /\ push[q].at \in {"snapshot", "git"})
      <3>1. PICK f : f = push[q]
        OBVIOUS
      <3>2. f = push'[q]
        BY <2>1, <2>3, <3>1 DEF SetHook
      <3>3. Guarded(f)'
        BY <2>1, <2>3, <3>1 DEF Fits, Guarded, Protections
      <3> QED BY <1>1, <2>1, <3>1, <3>2, <3>3 DEF Fits
    <2> QED BY <2>2, <2>3
  <1>4. \A q \in Pusher \ {p} : push[q] = NoPush => push'[q] = NoPush
    BY DEF SetHook, Others
  <1>5. ASSUME NEW q \in Pusher, push'[q] # NoPush
        PROVE  Fits(push[q])' /\ (push'[q].alone => \A o \in Pusher \ {q} : push'[o] = NoPush)
    <2>1. CASE q = p
      <3>1. Fits(r)'
        BY <1>1, <1>2, <1>5, <2>1 DEF Fits
      <3>2. r.alone => \A o \in Pusher \ {p} : push'[o] = NoPush
        BY <1>2, <1>4, <1>5, <2>1 DEF PushInv
      <3> QED BY <1>2, <2>1, <3>1, <3>2
    <2>2. CASE q # p
      <3>1. push[q] # NoPush
        BY <1>4, <1>5, <2>2
      <3>2. PICK f : f = push'[q] /\ Fits(f)' /\ f.alone = push[q].alone
        BY <1>3, <2>2, <3>1
      <3>3. ~push[q].alone
        BY <2>2, <3>1 DEF PushInv
      <3> QED BY <3>2, <3>3
    <2> QED BY <2>1, <2>2
  <1> QED BY <1>2, <1>5 DEF PushInv

\* A hook is installed for the protected branches there are.
LEMMA InstallStep ==
    ASSUME PushInv, NEW p \in Pusher, Install(p)
    PROVE  PushInv'
  <1>1. Fits(push[p]) /\ push[p].at = "install" /\ push[p] # NoPush
    BY DEF PushInv, Install, InPush
  <1>2. PICK a \in {"git", "snapshot"} : a = IF push[p].via = "http" THEN "git" ELSE "snapshot"
    OBVIOUS
  <1>3. push[p].via \in {"http", "ssh"}
    BY <1>1 DEF Fits, Push
  <1>4. CASE Protections(branch) = {}
    <2>1. PICK r : r = [push[p] EXCEPT !.at = a]
      OBVIOUS
    <2>2. r \in Push /\ r.at = a /\ r.via = push[p].via /\ r.level = push[p].level /\ r.cmd = push[p].cmd
          /\ r.old = push[p].old /\ r.disk = push[p].disk /\ r.moved = push[p].moved /\ r.saved = push[p].saved
             /\ r.before = push[p].before
          /\ r.guarded = push[p].guarded /\ r.alone = push[p].alone /\ r.exposed = push[p].exposed
      BY <1>1, <2>1 DEF Fits, Push, Stages
    <2>3. Guarded(r) /\ Landed(r) /\ UpToDate(r)
      BY <1>1, <1>2, <1>3, <1>4, <2>2 DEF Fits, Guarded, Landed, UpToDate
    <2>4. push' = [push EXCEPT ![p] = r] /\ UNCHANGED hook
      BY <1>2, <1>4, <2>1 DEF Install
    <2> QED BY <1>1, <2>2, <2>3, <2>4, PushMoves DEF Install, Fits
  <1>5. CASE Protections(branch) # {}
    <2>1. PICK h : h = [level |-> push[p].level, cases |-> Protections(branch)]
      OBVIOUS
    <2>2. Protections(branch) \in SUBSET Case
      BY ProtectionsAreCases DEF PushInv
    <2>3. h \in Hook /\ h.level = push[p].level /\ h.cases = Protections(branch)
      BY <1>1, <2>1, <2>2 DEF Hook, Fits, Push
    <2>4. PICK s \in SUBSET SUBSET Hook : s = {hook}
      BY DEF PushInv
    <2>5. PICK r : r = [push[p] EXCEPT !.at = a, !.saved = s]
      OBVIOUS
    <2>6. r \in Push /\ r.at = a /\ r.via = push[p].via /\ r.level = push[p].level /\ r.cmd = push[p].cmd
          /\ r.old = push[p].old /\ r.disk = push[p].disk /\ r.moved = push[p].moved /\ r.saved = s
             /\ r.before = push[p].before
          /\ r.guarded = push[p].guarded /\ r.alone = push[p].alone /\ r.exposed = push[p].exposed
      BY <1>1, <2>5 DEF Fits, Push, Stages
    <2>7. SetHook(p, {h}, r)
      BY <1>2, <1>5, <2>1, <2>4, <2>5 DEF Install
    <2>8. Landed(r) /\ UpToDate(r)
      BY <1>1, <1>2, <2>6 DEF Fits, Landed, UpToDate
    <2>9. hook' = {h} /\ branch' = branch
      BY <2>7 DEF SetHook, Install
    <2>10. Guarded(r)'
      BY <1>1, <1>2, <1>3, <2>3, <2>4, <2>6, <2>9 DEF Fits, Guarded, Protections
    <2> QED BY <1>1, <2>3, <2>6, <2>7, <2>8, <2>10, SetHookKeeps DEF Install
  <1> QED BY <1>4, <1>5

\* What was there before comes back, be it the hook of another push.
LEMMA RestoreStep ==
    ASSUME PushInv, NEW p \in Pusher, Restore(p)
    PROVE  PushInv'
  <1>1. Fits(push[p]) /\ push[p].at = "restore" /\ push[p] # NoPush
    BY DEF PushInv, Restore, InPush
  <1>2. CASE push[p].saved = {}
    <2>1. PICK r : r = [push[p] EXCEPT !.at = "disk"]
      OBVIOUS
    <2>2. r \in Push /\ r.at = "disk" /\ r.via = push[p].via /\ r.level = push[p].level /\ r.cmd = push[p].cmd
          /\ r.old = push[p].old /\ r.disk = push[p].disk /\ r.moved = push[p].moved /\ r.saved = push[p].saved
             /\ r.before = push[p].before
          /\ r.guarded = push[p].guarded /\ r.alone = push[p].alone
      BY <1>1, <2>1 DEF Fits, Push, Stages
    <2>3. Guarded(r) /\ Landed(r) /\ UpToDate(r)
      BY <1>1, <1>2, <2>2 DEF Fits, Guarded, Landed, UpToDate
    <2>4. push' = [push EXCEPT ![p] = r] /\ UNCHANGED hook
      BY <1>2, <2>1 DEF Restore, Goes
    <2> QED BY <1>1, <2>2, <2>3, <2>4, PushMoves DEF Restore, Fits
  <1>3. CASE push[p].saved # {}
    <2>1. PICK h \in push[p].saved : SetHook(p, h, [push[p] EXCEPT !.at = "disk", !.saved = {}])
      BY <1>3 DEF Restore
    <2>2. h \in SUBSET Hook
      BY <1>1 DEF Fits, Push
    <2>3. PICK r : r = [push[p] EXCEPT !.at = "disk", !.saved = {}]
      OBVIOUS
    <2>4. r \in Push /\ r.at = "disk" /\ r.via = push[p].via /\ r.level = push[p].level /\ r.cmd = push[p].cmd
          /\ r.old = push[p].old /\ r.disk = push[p].disk /\ r.moved = push[p].moved /\ r.before = push[p].before
          /\ r.guarded = push[p].guarded /\ r.alone = push[p].alone
      BY <1>1, <2>3 DEF Fits, Push, Stages
    <2>5. Guarded(r)' /\ Landed(r) /\ UpToDate(r)
      BY <1>1, <2>4 DEF Fits, Guarded, Landed, UpToDate, Restore, Protections
    <2> QED BY <1>1, <2>1, <2>2, <2>3, <2>4, <2>5, SetHookKeeps DEF Restore
  <1> QED BY <1>2, <1>3

\* A push begins; it is alone until another one begins.
LEMMA BeginStep ==
    ASSUME PushInv, NEW p \in Pusher, NEW via \in {"http", "ssh"}, NEW level \in Level, NEW cmd \in Commands,
           Begin(p, via, level, cmd)
    PROVE  PushInv'
  <1>1. UNCHANGED <<tip, hook, branch, piped, made>> /\ begun' = begun + 1 /\ begun < MaxPush
    BY DEF Begin
  <1>2. DOMAIN push' = Pusher
    BY DEF Begin
  <1>3. \A f : (Fits(f) => Fits(f)')
    BY <1>1 DEF Fits, Guarded, Landed, UpToDate, Agrees, Protections
  <1>4. PICK r : r = push'[p]
    OBVIOUS
  <1>5. PICK g \in SUBSET Case : g = Protections(branch)
    BY ProtectionsAreCases DEF PushInv
  <1>6. PICK alone \in BOOLEAN : alone <=> (Others(p) = {})
    OBVIOUS
  <1>7. PICK a \in {"check", "install"} : a = IF via = "http" THEN "check" ELSE "install"
    OBVIOUS
  <1>8. cmd \in [Branch -> Command] /\ NoRefs \in Refs /\ NoRows \in Table /\ tip \in Refs
    BY PushBounds, NoRefsAreRefs, NoRowsIsTable DEF PushInv
  <1>9. r = [at |-> a, via |-> via, level |-> level, cmd |-> cmd,
             old |-> tip, disk |-> NoRefs, moved |-> NoRefs, before |-> NoRefs, saved |-> {}, rows |-> NoRows,
             guarded |-> g, alone |-> alone, exposed |-> FALSE]
    BY <1>4, <1>5, <1>6, <1>7 DEF Begin
  <1>10. r \in Push /\ r.at = a /\ r.via = via /\ r.cmd = cmd /\ r.old = tip /\ r.moved = NoRefs
         /\ r.before = NoRefs /\ r.disk = NoRefs /\ r.guarded = g /\ r.alone = alone
    BY <1>8, <1>9, PushBounds DEF Push, Stages
  <1>11. Guarded(r)
    BY <1>5, <1>7, <1>10 DEF Guarded, Begin
  <1>12. Landed(r) /\ UpToDate(r)
    <2>1. made \in 1 .. MaxCommit /\ \A b \in Branch : NoRefs[b] = 0
      BY NoRefsAreRefs DEF PushInv
    <2>2. \A b \in Branch : r.before[b] = 0 /\ r.disk[b] = 0 /\ r.moved[b] = 0
      BY <1>10, <2>1
    <2>3. 0 <= made
      BY <2>1, PushBounds
    <2>4. Landed(r)
      BY <2>2, <2>3 DEF Landed
    <2>5. UpToDate(r)
      BY <1>7, <1>10 DEF UpToDate
    <2> QED BY <2>4, <2>5
  <1>13. Fits(r)'
    BY <1>3, <1>10, <1>11, <1>12 DEF Fits
  <1>14. ASSUME NEW q \in Pusher \ {p}, push[q] # NoPush
         PROVE  \E f : f = push'[q] /\ Fits(f)' /\ ~f.alone
    <2>1. Fits(push[q]) /\ q \in Others(p)
      BY <1>14 DEF PushInv, Others
    <2>2. PICK f : f = [push[q] EXCEPT !.alone = FALSE]
      OBVIOUS
    <2>3. f = push'[q]
      BY <2>1, <2>2 DEF Begin
    <2>4. f \in Push /\ f.at = push[q].at /\ f.via = push[q].via /\ f.level = push[q].level /\ f.cmd = push[q].cmd
          /\ f.old = push[q].old /\ f.moved = push[q].moved /\ f.before = push[q].before /\ f.disk = push[q].disk
          /\ f.saved = push[q].saved /\ f.guarded = push[q].guarded /\ f.alone = FALSE /\ f.exposed = push[q].exposed
      BY <2>1, <2>2 DEF Fits, Push
    <2>5. Guarded(f) /\ Landed(f)
      BY <2>1, <2>4 DEF Fits, Guarded, Landed
    <2> QED BY <1>3, <2>3, <2>4, <2>5 DEF Fits
  <1>15. \A q \in Pusher \ {p} : push[q] = NoPush => push'[q] = NoPush
    BY DEF Begin, Others
  <1>16. ASSUME NEW q \in Pusher, push'[q] # NoPush
         PROVE  Fits(push[q])' /\ (push'[q].alone => \A o \in Pusher \ {q} : push'[o] = NoPush)
    <2>1. CASE q = p
      <3>1. r.alone => \A o \in Pusher \ {p} : push'[o] = NoPush
        BY <1>6, <1>10, <1>15 DEF Others
      <3> QED BY <1>4, <1>13, <2>1, <3>1
    <2>2. CASE q # p
      <3>1. push[q] # NoPush
        BY <1>15, <1>16, <2>2
      <3> QED BY <1>14, <2>2, <3>1
    <2> QED BY <2>1, <2>2
  <1>17. begun' \in 0 .. MaxPush
    BY <1>1, PushBounds DEF PushInv
  <1> QED BY <1>1, <1>2, <1>16, <1>17 DEF PushInv

\* The steps of a push that move refs or create pipelines: both only grow, but
\* for refs that go.
LEMMA PushGrows ==
    ASSUME PushInv, NEW p \in Pusher, push[p] # NoPush, NEW r, push' = [push EXCEPT ![p] = r],
           UNCHANGED <<hook, branch, begun>>, tip' \in Refs, piped' \in Refs, made' \in made .. MaxCommit,
           \A b \in Branch : tip'[b] # tip[b] => tip'[b] = 0 \/ tip'[b] = made',
           \A b \in Branch : piped[b] <= piped'[b],
           tip' # tip => ~push[p].alone \/ push[p].at = "git",
           r \in Push, Guarded(r), Landed(r)', ~(r.at \in {"rows", "sync"}), r.alone => push[p].alone
    PROVE  PushInv'
  <1>1. made \in Nat /\ made' \in Nat /\ made <= made' /\ made' \in 1 .. MaxCommit
    BY PushBounds DEF PushInv
  <1>2. \A b \in Branch : tip[b] \in Nat /\ tip'[b] \in Nat /\ piped[b] \in Nat /\ piped'[b] \in Nat
    BY PushBounds DEF PushInv, Refs
  <1>3. \A b \in Branch : tip'[b] <= made'
    BY <1>1, <1>2 DEF PushInv
  <1>4. \A f : Guarded(f) => Guarded(f)'
    BY DEF Guarded, Protections
  <1>5. ASSUME NEW f \in Push, Landed(f)
        PROVE  Landed(f)'
    <2>1. f.moved \in Refs /\ f.before \in Refs /\ f.disk \in Refs
      BY DEF Push
    <2>2. \A b \in Branch : f.moved[b] \in Nat /\ f.before[b] \in Nat /\ f.disk[b] \in Nat
      BY <2>1, PushBounds DEF Refs
    <2> QED BY <1>1, <1>2, <1>5, <2>2 DEF Landed
  <1>6. ASSUME NEW q \in Pusher, push'[q] # NoPush
        PROVE  Fits(push[q])' /\ (push'[q].alone => \A o \in Pusher \ {q} : push'[o] = NoPush)
    <2>1. CASE q = p
      <3>1. push'[q] = r
        BY <2>1 DEF PushInv
      <3>2. Fits(r)'
        BY <1>4 DEF Fits, UpToDate
      <3>3. r.alone => \A o \in Pusher \ {p} : push'[o] = NoPush
        BY DEF PushInv
      <3> QED BY <2>1, <3>1, <3>2, <3>3
    <2>2. CASE q # p
      <3>1. push'[q] = push[q] /\ push[q] # NoPush
        BY <1>6, <2>2 DEF PushInv
      <3>2. PICK f : f = push[q]
        OBVIOUS
      <3>3. Fits(f) /\ ~f.alone
        BY <2>2, <3>1, <3>2 DEF PushInv
      <3>4. Fits(f)'
        BY <1>4, <1>5, <3>3 DEF Fits
      <3> QED BY <3>1, <3>2, <3>3, <3>4
    <2> QED BY <2>1, <2>2
  <1>7. DOMAIN push' = Pusher
    BY DEF PushInv
  <1> QED BY <1>1, <1>3, <1>6, <1>7 DEF PushInv

\* git takes the commands whose old values are current.
LEMMA ReceivePackStep ==
    ASSUME PushInv, NEW p \in Pusher, ReceivePack(p)
    PROVE  PushInv'
  <1>1. Fits(push[p]) /\ push[p].at = "git" /\ push[p] # NoPush
    BY DEF PushInv, ReceivePack, InPush
  <1>2. PICK lands \in SUBSET Branch :
            lands = {b \in Branch : push[p].cmd[b] # "none" /\ push[p].old[b] = tip[b] /\ ~Declined(p)}
    OBVIOUS
  <1>3. made \in 1 .. MaxCommit /\ made' \in made .. MaxCommit
        /\ ((\E b \in lands : push[p].cmd[b] # "delete") => made' = made + 1)
    BY <1>2, PushBounds DEF PushInv, ReceivePack
  <1>4. tip' = [b \in Branch |-> IF b \notin lands THEN tip[b] ELSE IF push[p].cmd[b] = "delete" THEN 0 ELSE made']
    BY <1>2 DEF ReceivePack
  <1>5. tip \in Refs /\ tip' \in Refs
    BY <1>3, <1>4, PushBounds DEF PushInv, Refs
  <1>6. PICK moved \in Refs : moved = [b \in Branch |-> IF b \in lands THEN tip'[b] ELSE 0]
    <2>1. \A b \in Branch : tip'[b] \in 0 .. MaxCommit
      BY <1>5 DEF Refs
    <2>2. [b \in Branch |-> IF b \in lands THEN tip'[b] ELSE 0] \in Refs
      BY <2>1, PushBounds DEF Refs
    <2> QED BY <2>2
  <1>7. PICK none : none = [b \in Branch |-> "none"]
    OBVIOUS
  <1>8. none \in [Branch -> Command] /\ NoRefs \in Refs
    BY <1>7, NoRefsAreRefs DEF Command
  <1>9. PICK r : r = [Forget(push[p]) EXCEPT !.moved = moved]
    OBVIOUS
  <1>10. push' = [push EXCEPT ![p] = r]
    BY <1>2, <1>6, <1>9 DEF ReceivePack
  <1>11. r \in Push /\ r.at = "restore" /\ r.cmd = none /\ r.moved = moved /\ r.before = push[p].before
         /\ r.disk = push[p].disk /\ r.guarded = {} /\ r.alone = push[p].alone
    BY <1>1, <1>7, <1>8, <1>9 DEF Fits, Forget, Push, Stages
  <1>12. Guarded(r)
    BY <1>7, <1>11 DEF Guarded
  <1>13. \A b \in Branch : push[p].before[b] \in 0 .. MaxCommit
    BY <1>1 DEF Fits, Push, Refs
  <1>14. ASSUME NEW b \in Branch, moved[b] # 0
         PROVE  moved[b] = made' /\ tip'[b] = made' /\ made' = made + 1
    BY <1>2, <1>3, <1>4, <1>6, <1>14
  <1>15. \A b \in Branch : r.before[b] <= made' /\ r.disk[b] <= made'
    <2>1. \A b \in Branch : push[p].before[b] <= made /\ push[p].disk[b] <= made /\ push[p].disk[b] \in 0 .. MaxCommit
      BY <1>1 DEF Fits, Landed, Push, Refs
    <2> QED BY <1>3, <1>11, <1>13, <2>1
  <1>16. \A b \in Branch : r.moved[b] # 0 => r.before[b] < r.moved[b] /\ r.moved[b] = made' /\ tip'[b] = made'
    <2>1. \A b \in Branch : push[p].before[b] <= made
      BY <1>1 DEF Fits, Landed
    <2> QED BY <1>3, <1>11, <1>13, <1>14, <2>1
  <1>17. Landed(r)'
    BY <1>3, <1>11, <1>15, <1>16 DEF Landed
  <1>18. \A b \in Branch : tip'[b] # tip[b] => tip'[b] = 0 \/ tip'[b] = made'
    BY <1>4
  <1>19. piped' = piped /\ \A b \in Branch : piped[b] <= piped'[b]
    BY PushBounds DEF PushInv, Refs, ReceivePack
  <1> QED BY <1>1, <1>3, <1>5, <1>10, <1>11, <1>12, <1>17, <1>18, <1>19, PushGrows DEF ReceivePack, PushInv

\* The least branch that changed.
LEMMA ChangedHasLeast ==
    ASSUME NEW S \in SUBSET Branch, S # {}
    PROVE  (CHOOSE c \in S : \A d \in S : c <= d) \in S
  <1>1. IsWellFoundedOn(Below, Nat)
    BY NatLessThanWellFounded DEF Below
  <1>2. S \subseteq Nat
    BY PushBounds
  <1>3. PICK t \in S : \A u \in S : ~ (<<u, t>> \in Below)
    BY <1>1, <1>2, WFMin
  <1>4. \A u \in S : ~(u < t)
    BY <1>2, <1>3 DEF OpToRel, Below
  <1>5. \A u \in S : t <= u
    BY <1>2, <1>4
  <1> QED BY <1>5

\* A pipeline for one of the branches that changed.
LEMMA CreatePushPipelineStep ==
    ASSUME PushInv, NEW p \in Pusher, CreatePushPipeline(p)
    PROVE  PushInv'
  <1>1. Fits(push[p]) /\ push[p].at = "create" /\ push[p] # NoPush
    BY DEF PushInv, CreatePushPipeline, InPush
  <1>2. PICK b \in Changed(p) : b = CHOOSE c \in Changed(p) : \A d \in Changed(p) : c <= d
    BY ChangedHasLeast DEF CreatePushPipeline, Changed
  <1>3. b \in Branch /\ push[p].disk[b] # 0
    BY <1>2 DEF Changed
  <1>4. push[p].before \in Refs /\ push[p].disk \in Refs /\ push[p].moved \in Refs /\ piped \in Refs
    BY <1>1 DEF Fits, Push, PushInv
  <1>5. PICK sha \in 0 .. MaxCommit : sha = push[p].disk[b]
    BY <1>3, <1>4 DEF Refs
  <1>6. /\ piped' = [piped EXCEPT ![b] = IF sha > @ THEN sha ELSE @]
        /\ push' = [push EXCEPT ![p].before[b] = sha]
        /\ UNCHANGED <<tip, hook, branch, begun, made>>
    BY <1>2, <1>5 DEF CreatePushPipeline
  <1>7. PICK before \in Refs : before = [push[p].before EXCEPT ![b] = sha]
    BY <1>4 DEF Refs
  <1>8. PICK r : r = [push[p] EXCEPT !.before = before]
    OBVIOUS
  <1>9. push' = [push EXCEPT ![p] = r]
    BY <1>1, <1>6, <1>7, <1>8 DEF Fits, Push
  <1>10. r \in Push /\ r.at = "create" /\ r.via = push[p].via /\ r.cmd = push[p].cmd /\ r.old = push[p].old
         /\ r.moved = push[p].moved /\ r.before = before /\ r.disk = push[p].disk
         /\ r.guarded = push[p].guarded /\ r.alone = push[p].alone
    BY <1>1, <1>8 DEF Fits, Push
  <1>11. Guarded(r)
    BY <1>1, <1>10 DEF Fits, Guarded
  <1>12. \A c \in Branch : piped'[c] \in 0 .. MaxCommit /\ piped[c] \in 0 .. MaxCommit /\ piped[c] <= piped'[c]
    BY <1>3, <1>4, <1>6, PushBounds DEF Refs
  <1>13. sha <= piped'[b] /\ before[b] = sha /\ \A c \in Branch \ {b} : before[c] = push[p].before[c]
    BY <1>3, <1>4, <1>5, <1>6, <1>7, PushBounds DEF Refs
  <1>14. Landed(r)'
    <2>1. ASSUME NEW c \in Branch
          PROVE  /\ r.before[c] <= made /\ r.disk[c] <= made
                 /\ r.moved[c] # 0 =>
                        /\ r.moved[c] <= made
                        /\ tip[c] = 0 \/ r.moved[c] <= tip[c]
                        /\ r.before[c] < r.moved[c] \/ r.moved[c] <= piped'[c]
                        /\ r.disk[c] = 0 \/ r.moved[c] <= r.disk[c]
      <3>1. r.moved[c] \in 0 .. MaxCommit /\ made \in Nat
        BY <1>4, <1>10, PushBounds DEF PushInv, Refs
      <3>2. Landed(push[p])
        BY <1>1 DEF Fits
      <3>3. CASE c = b
        BY <1>1, <1>3, <1>5, <1>10, <1>12, <1>13, <3>1, <3>2, <3>3, PushBounds DEF Landed
      <3>4. CASE c # b
        BY <1>1, <1>10, <1>12, <1>13, <3>1, <3>2, <3>4, PushBounds DEF Landed
      <3> QED BY <3>3, <3>4
    <2> QED BY <1>6, <1>10, <2>1 DEF Landed
  <1>15. piped' \in Refs
    BY <1>4, <1>6, <1>12 DEF Refs
  <1>16. tip' = tip /\ made' \in made .. MaxCommit /\ tip' \in Refs
    BY <1>6, PushBounds DEF PushInv
  <1> QED BY <1>1, <1>6, <1>9, <1>10, <1>11, <1>12, <1>14, <1>15, <1>16, PushGrows

\* The greatest of some ids.
LEMMA GreatestRow ==
    ASSUME NEW S \in SUBSET (1 .. MaxRow), S # {}
    PROVE  /\ (CHOOSE i \in S : \A j \in S : j <= i) \in S
           /\ \A j \in S : j <= (CHOOSE i \in S : \A k \in S : k <= i)
  <1> DEFINE T == {MaxRow - s : s \in S}
  <1>1. IsWellFoundedOn(Below, Nat)
    BY NatLessThanWellFounded DEF Below
  <1>2. T \subseteq Nat /\ T # {}
    <2>1. \A s \in S : MaxRow - s \in Nat
      BY PushBounds
    <2> QED BY <2>1
  <1>3. PICK t \in T : \A u \in T : ~ (<<u, t>> \in Below)
    <2> HIDE DEF T
    <2> QED BY <1>1, <1>2, WFMin
  <1>4. \A u \in T : ~(u < t)
    BY <1>2, <1>3 DEF OpToRel, Below
  <1>5. PICK x \in S : t = MaxRow - x
    OBVIOUS
  <1>6. ASSUME NEW j \in S PROVE j <= x
    <2>1. ~(MaxRow - j < MaxRow - x)
      BY <1>4, <1>5
    <2>2. MaxRow \in Nat /\ j \in Nat /\ x \in Nat
      BY PushBounds
    <2> QED BY <2>1, <2>2
  <1> HIDE DEF T
  <1> QED BY <1>6

\* Or 0 if there are none.
LEMMA TopIdIs ==
    ASSUME NEW S \in SUBSET (1 .. MaxRow)
    PROVE  TopId(S) \in 0 .. MaxRow /\ \A j \in S : j <= TopId(S)
  <1>1. CASE S = {}
    BY <1>1, PushBounds DEF TopId
  <1>2. CASE S # {}
    <2> DEFINE m == CHOOSE i \in S : \A j \in S : j <= i
    <2>1. m \in S /\ \A j \in S : j <= m
      BY <1>2, GreatestRow
    <2>2. TopId(S) = m
      BY <1>2 DEF TopId
    <2> HIDE DEF m
    <2>3. m \in 0 .. MaxRow
      BY <2>1, PushBounds
    <2> QED BY <2>1, <2>2, <2>3
  <1> QED BY <1>1, <1>2

\* The last row of a branch.
LEMMA LastIdIs ==
    ASSUME NEW t \in Table, NEW b, Ids(t, b) # {}
    PROVE  LastId(t, b) \in DOMAIN t /\ t[LastId(t, b)].name = b /\ \A j \in Ids(t, b) : j <= LastId(t, b)
  <1>1. Ids(t, b) \in SUBSET (1 .. MaxRow)
    BY TableIs DEF Ids
  <1> DEFINE i == LastId(t, b)
  <1>2. i \in Ids(t, b) /\ \A j \in Ids(t, b) : j <= i
    BY <1>1, GreatestRow DEF LastId
  <1> HIDE DEF i
  <1>3. i \in DOMAIN t /\ t[i].name = b
    BY <1>2 DEF Ids
  <1> QED BY <1>2, <1>3 DEF i

\* The branches without a row, and the rows a sync removes.
Missing(known, disk) == {b \in Branch : disk[b] # 0 /\ Ids(known, b) = {}}
Gone(known, disk) == {LastId(known, b) : b \in {c \in Branch : disk[c] = 0 /\ Ids(known, c) # {}}}
Wrong(known, disk) ==
    {i \in DOMAIN branch : \E b \in Branch : disk[b] # 0 /\ Ids(known, b) # {} /\ i = LastId(known, b)
        /\ known[i].sha # disk[b]}

\* What a sync makes of the table.
IsSynced(t, known, disk, new, max) ==
    /\ DOMAIN t = (DOMAIN branch \ Gone(known, disk)) \cup (max + 1 .. max + Len(new))
    /\ \A i \in DOMAIN branch \ Gone(known, disk) :
        /\ i <= max /\ t[i].name = branch[i].name /\ t[i] \in BranchRow
        /\ t[i].sha = IF i \in Wrong(known, disk) THEN disk[known[i].name] ELSE branch[i].sha
    /\ \A i \in max + 1 .. max + Len(new) :
        t[i] \in BranchRow /\ t[i].name = new[i - max] /\ t[i].sha = disk[new[i - max]]

\* A list of names has each of them once, in order.
LEMMA ListedIs ==
    ASSUME NEW names \in SUBSET Branch, NEW q \in Listed(names)
    PROVE  q \in Seq(names) /\ Len(q) \in Nat /\ DOMAIN q = 1 .. Len(q)
           /\ (\A i \in 1 .. Len(q) : q[i] \in names) /\ (\A b \in names : \E i \in 1 .. Len(q) : q[i] = b)
           /\ \A i, j \in 1 .. Len(q) : i < j => q[i] < q[j]
  <1>1. Cardinality(names) \in Nat
    BY PushBounds, FS_Subset, FS_CardinalityType
  <1>2. q \in [1 .. Cardinality(names) -> names]
    BY DEF Listed
  <1>3. q \in Seq(names) /\ Len(q) = Cardinality(names)
    BY <1>1, <1>2
  <1> QED BY <1>1, <1>2, <1>3 DEF Listed

\* What the synchronisation commits is as IsSynced says.
LEMMA SyncedIs ==
    ASSUME branch \in Table, NEW known \in Table, NEW disk \in Refs, NEW new \in Listed(Missing(known, disk))
    PROVE  \E max \in 0 .. MaxRow : IsSynced(Synced(known, disk, new), known, disk, new, max)
  <1> DEFINE left == DOMAIN branch \ Gone(known, disk)
  <1>1. left \in SUBSET (1 .. MaxRow)
    BY TableIs
  <1>2. PICK max \in 0 .. MaxRow : max = TopId(left) /\ \A j \in left : j <= max
    <2> HIDE DEF left
    <2> QED BY <1>1, TopIdIs
  <1>3. PICK t : t = Synced(known, disk, new)
    OBVIOUS
  <1>4. t = [i \in left \cup (max + 1 .. max + Len(new)) |->
        IF i > max THEN [name |-> new[i - max], sha |-> disk[new[i - max]], rules |-> {}]
        ELSE IF i \in Wrong(known, disk) THEN [branch[i] EXCEPT !.sha = disk[known[i].name]] ELSE branch[i]]
    BY <1>2, <1>3 DEF Synced, Wrong, Gone
  <1>5. Missing(known, disk) \in SUBSET Branch
    BY DEF Missing
  <1>6. Len(new) \in Nat /\ \A i \in 1 .. Len(new) : new[i] \in Missing(known, disk)
    BY <1>5, ListedIs
  <1>7. \A i \in left : i <= max /\ i \in 1 .. MaxRow
    BY <1>1, <1>2
  <1>8. ASSUME NEW i \in left
        PROVE  /\ t[i].name = branch[i].name /\ t[i] \in BranchRow
               /\ t[i].sha = IF i \in Wrong(known, disk) THEN disk[known[i].name] ELSE branch[i].sha
    <2>1. branch[i] \in BranchRow /\ ~(i > max)
      <3>1. branch[i] \in BranchRow
        BY TableIs
      <3>2. i \in Nat /\ i <= max
        BY <1>7
      <3>3. ~(i > max)
        BY <1>2, <3>2, PushBounds
      <3> QED BY <3>1, <3>3
    <2>2. CASE i \in Wrong(known, disk)
      <3>1. PICK b \in Branch : disk[b] # 0 /\ Ids(known, b) # {} /\ i = LastId(known, b)
        BY <2>2 DEF Wrong
      <3>2. known[i].name = b
        BY <3>1, LastIdIs
      <3>3. PICK sha \in 1 .. MaxCommit : sha = disk[known[i].name]
        BY <3>1, <3>2, PushBounds DEF Refs
      <3>4. t[i] = [branch[i] EXCEPT !.sha = sha]
        BY <1>4, <2>1, <2>2, <3>3
      <3> QED BY <2>1, <2>2, <3>3, <3>4 DEF BranchRow
    <2>3. CASE i \notin Wrong(known, disk)
      <3>1. t[i] = branch[i]
        BY <1>4, <2>1, <2>3
      <3> QED BY <2>1, <2>3, <3>1
    <2> QED BY <2>2, <2>3
  <1>9. ASSUME NEW i \in max + 1 .. max + Len(new)
        PROVE  t[i] \in BranchRow /\ t[i].name = new[i - max] /\ t[i].sha = disk[new[i - max]]
    <2>1. i - max \in 1 .. Len(new) /\ i > max
      BY <1>6
    <2>2. PICK b \in Missing(known, disk) : b = new[i - max]
      BY <1>6, <2>1
    <2>3. b \in Branch /\ disk[b] \in 1 .. MaxCommit
      BY <2>2, PushBounds DEF Missing, Refs
    <2>4. t[i] = [name |-> b, sha |-> disk[b], rules |-> {}]
      BY <1>4, <2>1, <2>2
    <2> QED BY <2>2, <2>3, <2>4 DEF BranchRow
  <1>10. DOMAIN t = left \cup (max + 1 .. max + Len(new))
    BY <1>4
  <1> QED BY <1>2, <1>3, <1>7, <1>8, <1>9, <1>10 DEF IsSynced

\* So that it is a table again.
LEMMA SyncedIsTable ==
    ASSUME branch \in Table, NEW known \in Table, NEW disk \in Refs, NEW new \in Listed(Missing(known, disk)),
           NEW t, t = Synced(known, disk, new), \A i \in DOMAIN t : i <= MaxRow
    PROVE  t \in Table
  <1>1. PICK max \in 0 .. MaxRow : IsSynced(t, known, disk, new, max)
    BY SyncedIs
  <1>2. Len(new) \in Nat
    BY ListedIs DEF Missing
  <1>3. DOMAIN branch \subseteq 1 .. MaxRow
    BY TableIs
  <1>4. DOMAIN t \in SUBSET (1 .. MaxRow)
    BY <1>1, <1>2, <1>3, PushBounds DEF IsSynced
  <1>5. \A i \in DOMAIN t : t[i] \in BranchRow
    BY <1>1 DEF IsSynced
  <1>6. t = [i \in DOMAIN t |-> t[i]]
    BY DEF Synced
  <1>7. t \in [DOMAIN t -> BranchRow]
    BY <1>5, <1>6
  <1> QED BY <1>4, <1>7 DEF Table

\* What a push still guards when the table changes.
LEMMA StillFits ==
    ASSUME PushInv, branch' \in Table, UNCHANGED <<tip, hook, piped, made>>, NEW p \in Pusher, push[p] # NoPush
    PROVE  \E f \in Push : /\ f = StillGuarded(p) /\ Guarded(f)' /\ Landed(f)'
                           /\ f.alone = push[p].alone /\ f.at = push[p].at /\ f.disk = push[p].disk
                              /\ f.rows = push[p].rows
  <1>1. Fits(push[p])
    BY DEF PushInv
  <1>2. PICK g \in SUBSET Case : g = push[p].guarded \cap Protections(branch')
    BY <1>1 DEF Fits, Push
  <1>3. PICK f : f = [push[p] EXCEPT !.guarded = g]
    OBVIOUS
  <1>4. f \in Push /\ f.at = push[p].at /\ f.via = push[p].via /\ f.level = push[p].level /\ f.cmd = push[p].cmd
        /\ f.old = push[p].old /\ f.moved = push[p].moved /\ f.before = push[p].before /\ f.disk = push[p].disk
        /\ f.rows = push[p].rows /\ f.saved = push[p].saved /\ f.guarded = g /\ f.alone = push[p].alone
        /\ f.exposed = push[p].exposed
    BY <1>1, <1>3 DEF Fits, Push
  <1>5. f = StillGuarded(p)
    BY <1>1, <1>2, <1>3 DEF StillGuarded, Fits, Push
  <1>6. g \subseteq Protections(branch)' /\ g \subseteq push[p].guarded
    BY <1>2 DEF Protections
  <1>7. Guarded(f)'
    BY <1>1, <1>4, <1>6 DEF Fits, Guarded
  <1>8. Landed(f)'
    BY <1>1, <1>4 DEF Fits, Landed
  <1> QED BY <1>4, <1>5, <1>7, <1>8

\* The protected-branch API changes the table and nothing else; what a push that is
\* alone has read still agrees with it.
LEMMA ApiStep ==
    ASSUME PushInv, branch' \in Table, UNCHANGED <<tip, hook, piped, begun, made>>,
           push' = [r \in Pusher |-> StillGuarded(r)],
           \A asRead \in Table : Agrees(asRead, tip) => Agrees(asRead, tip)'
    PROVE  PushInv'
  <1>1. DOMAIN push' = Pusher /\ \A q \in Pusher : push'[q] = StillGuarded(q)
    OBVIOUS
  <1>2. \A q \in Pusher : push[q] = NoPush => push'[q] = NoPush
    BY <1>1 DEF StillGuarded
  <1>3. ASSUME NEW q \in Pusher, push'[q] # NoPush
        PROVE  Fits(push[q])' /\ (push'[q].alone => \A o \in Pusher \ {q} : push'[o] = NoPush)
    <2>1. push[q] # NoPush
      BY <1>2, <1>3
    <2>2. PICK f \in Push : /\ f = push'[q] /\ Guarded(f)' /\ Landed(f)'
                            /\ f.alone = push[q].alone /\ f.at = push[q].at /\ f.disk = push[q].disk
                               /\ f.rows = push[q].rows
      BY <1>1, <2>1, StillFits
    <2>3. f.alone => UpToDate(push[q]) /\ \A o \in Pusher \ {q} : push'[o] = NoPush
      BY <1>2, <2>1, <2>2 DEF PushInv, Fits
    <2>4. f.rows \in Table
      BY <2>2 DEF Push
    <2>5. f.alone => UpToDate(f)'
      BY <2>2, <2>3, <2>4 DEF UpToDate
    <2> QED BY <2>2, <2>3, <2>5 DEF Fits
  <1> QED BY <1>1, <1>3 DEF PushInv

\* A branch is protected, and its row inserted if it has none.
LEMMA ProtectBranchStep ==
    ASSUME PushInv, NEW b \in Branch, NEW rule \in Rule, ProtectBranch(b, rule)
    PROVE  PushInv'
  <1>1. branch \in Table /\ tip \in Refs /\ UNCHANGED <<tip, hook, piped, begun, made>>
    BY DEF ProtectBranch, PushInv
  <1>2. PICK i : i = IF Ids(branch, b) = {} THEN TopId(DOMAIN branch) + 1 ELSE LastId(branch, b)
    OBVIOUS
  <1>3. /\ tip[b] # 0 /\ i <= MaxRow /\ push' = [r \in Pusher |-> StillGuarded(r)]
        /\ branch' = [j \in DOMAIN branch \cup {i} |->
               IF j = i THEN [name |-> b, sha |-> tip[b], rules |-> {rule}] ELSE branch[j]]
    BY <1>2 DEF ProtectBranch
  <1>4. i \in 1 .. MaxRow /\ (i \in DOMAIN branch => branch[i].name = b)
        /\ (i \notin DOMAIN branch => Ids(branch, b) = {})
    <2>1. CASE Ids(branch, b) = {}
      <3>1. PICK top \in 0 .. MaxRow : top = TopId(DOMAIN branch) /\ \A j \in DOMAIN branch : j <= top
        BY <1>1, TableIs, TopIdIs
      <3>2. DOMAIN branch \subseteq 1 .. MaxRow
        BY <1>1, TableIs
      <3>3. i = top + 1 /\ i \in 1 .. MaxRow
        BY <1>2, <1>3, <2>1, <3>1, PushBounds
      <3>4. i \notin DOMAIN branch
        BY <3>1, <3>2, <3>3
      <3> QED BY <2>1, <3>3, <3>4
    <2>2. CASE Ids(branch, b) # {}
      <3>1. i \in DOMAIN branch /\ branch[i].name = b
        BY <1>1, <1>2, <2>2, LastIdIs
      <3> QED BY <1>1, <3>1, TableIs
    <2> QED BY <2>1, <2>2
  <1>5. PICK entry \in BranchRow : entry = [name |-> b, sha |-> tip[b], rules |-> {rule}]
                                 /\ entry.name = b /\ entry.sha = tip[b]
    <2>1. tip[b] \in 1 .. MaxCommit
      BY <1>1, <1>3, PushBounds DEF Refs
    <2>2. PICK entry : entry = [name |-> b, sha |-> tip[b], rules |-> {rule}]
      OBVIOUS
    <2>3. entry.name = b /\ entry.sha = tip[b] /\ {rule} \in SUBSET Rule
      BY <2>2
    <2>4. entry \in BranchRow
      BY <2>1, <2>2, <2>3 DEF BranchRow
    <2> QED BY <2>2, <2>3, <2>4
  <1>6. /\ DOMAIN branch' = DOMAIN branch \cup {i} /\ branch'[i] = entry
        /\ \A j \in DOMAIN branch \ {i} : branch'[j] = branch[j]
    BY <1>3, <1>5
  <1>7. branch' \in Table
    <2>1. DOMAIN branch \cup {i} \in SUBSET (1 .. MaxRow)
      BY <1>1, <1>4, TableIs
    <2>2. \A j \in DOMAIN branch : branch[j] \in BranchRow
      BY <1>1, TableIs
    <2>3. branch' \in [DOMAIN branch \cup {i} -> BranchRow]
      BY <1>3, <1>5, <2>2
    <2> QED BY <2>1, <2>3 DEF Table
  <1>8. ASSUME NEW asRead \in Table, Agrees(asRead, tip)
        PROVE  Agrees(asRead, tip)'
    <2>1. \A j \in DOMAIN asRead : j \in DOMAIN branch' /\ branch'[j].name = asRead[j].name
      BY <1>4, <1>5, <1>6, <1>8 DEF Agrees
    <2>2. i \in DOMAIN asRead \/ Ids(asRead, b) = {}
      BY <1>4, <1>8 DEF Agrees, Ids
    <2>3. tip' = tip /\ \A c : Ids(asRead, c)' = Ids(asRead, c)
      BY <1>1 DEF Ids
    <2>4. \A j \in DOMAIN branch' \ {i} : j \in DOMAIN branch /\ branch'[j] = branch[j]
      BY <1>6
    <2>5. ASSUME NEW j \in DOMAIN branch'
          PROVE  \/ j \in DOMAIN asRead /\ branch'[j].sha = asRead[j].sha
                 \/ /\ tip[branch'[j].name] # 0 /\ branch'[j].sha = tip[branch'[j].name]
                    /\ j \in DOMAIN asRead \/ Ids(asRead, branch'[j].name) = {}
      <3>1. CASE j = i
        BY <1>3, <1>5, <1>6, <2>2, <3>1
      <3>2. CASE j # i
        BY <1>8, <2>4, <3>2 DEF Agrees
      <3> QED BY <3>1, <3>2
    <2> QED BY <2>1, <2>3, <2>5 DEF Agrees
  <1> QED BY <1>1, <1>3, <1>7, <1>8, ApiStep

\* A branch is no longer protected.
LEMMA UnprotectBranchStep ==
    ASSUME PushInv, NEW b \in Branch, UnprotectBranch(b)
    PROVE  PushInv'
  <1>1. PICK i \in Ids(branch, b) : branch' = [branch EXCEPT ![i].rules = {}]
    BY DEF UnprotectBranch
  <1>2. branch \in Table /\ UNCHANGED <<tip, hook, piped, begun, made>>
    BY DEF UnprotectBranch, PushInv
  <1>3. PICK entry \in BranchRow : entry = [branch[i] EXCEPT !.rules = {}]
                                 /\ entry.name = branch[i].name /\ entry.sha = branch[i].sha
    <2>1. PICK old \in BranchRow : old = branch[i]
      BY <1>2, TableIs DEF Ids
    <2>2. PICK entry : entry = [old EXCEPT !.rules = {}]
      OBVIOUS
    <2>3. entry \in BranchRow /\ entry.name = old.name /\ entry.sha = old.sha
      BY <2>1, <2>2 DEF BranchRow
    <2> QED BY <2>1, <2>2, <2>3
  <1>4. branch' = [branch EXCEPT ![i] = entry] /\ i \in DOMAIN branch
    BY <1>1, <1>2, <1>3, TableIs DEF Ids
  <1>5. /\ DOMAIN branch' = DOMAIN branch /\ branch' \in [DOMAIN branch -> BranchRow]
        /\ \A j \in DOMAIN branch : branch'[j].name = branch[j].name /\ branch'[j].sha = branch[j].sha
    BY <1>2, <1>3, <1>4, TableIs
  <1>6. branch' \in Table
    BY <1>2, <1>5, TableIs DEF Table
  <1>7. ASSUME NEW asRead \in Table, Agrees(asRead, tip)
        PROVE  Agrees(asRead, tip)'
    BY <1>2, <1>5, <1>7 DEF Agrees, Ids
  <1>8. push' = [r \in Pusher |-> StillGuarded(r)]
    BY DEF UnprotectBranch
  <1> QED BY <1>2, <1>6, <1>7, <1>8, ApiStep

\* The table follows the disk.
LEMMA SyncBranchesStep ==
    ASSUME PushInv, NEW p \in Pusher, SyncBranches(p)
    PROVE  PushInv'
  <1>1. Fits(push[p]) /\ push[p].at = "sync" /\ push[p] # NoPush
    BY DEF PushInv, SyncBranches, InPush
  <1>2. branch \in Table /\ UNCHANGED <<tip, hook, piped, begun, made>>
    BY DEF SyncBranches, PushInv
  <1>3. PICK known \in Table : known = push[p].rows
    BY <1>1 DEF Fits, Push
  <1>4. PICK disk \in Refs : disk = push[p].disk
    BY <1>1 DEF Fits, Push
  <1>5. PICK new \in Listed(Missing(known, disk)) : branch' = Synced(known, disk, new)
    BY <1>3, <1>4 DEF SyncBranches, Missing
  <1>6. branch' \in Table
    <2>1. PICK t : t = branch'
      OBVIOUS
    <2>2. \A i \in DOMAIN t : i <= MaxRow
      BY <2>1 DEF SyncBranches
    <2>3. t \in Table
      BY <1>2, <1>5, <2>1, <2>2, SyncedIsTable
    <2> QED BY <2>1, <2>3
  <1>7. PICK g \in Push : /\ g = StillGuarded(p) /\ Guarded(g)' /\ Landed(g)'
                          /\ g.at = "sync" /\ g.disk = disk
    BY <1>1, <1>2, <1>4, <1>6, StillFits
  <1>8. PICK r : r = [g EXCEPT !.at = "after", !.rows = NoRows, !.alone = FALSE]
    OBVIOUS
  <1>9. push'[p] = r /\ DOMAIN push' = Pusher /\ \A q \in Pusher \ {p} : push'[q] = StillGuarded(q)
    BY <1>7, <1>8 DEF SyncBranches
  <1>10. r \in Push /\ r.at = "after" /\ r.via = g.via /\ r.level = g.level /\ r.cmd = g.cmd
         /\ r.old = g.old /\ r.moved = g.moved /\ r.before = g.before /\ r.disk = g.disk
         /\ r.guarded = g.guarded /\ r.alone = FALSE
    BY <1>8, NoRowsIsTable DEF Push, Stages
  <1>11. Guarded(r)'
    BY <1>7, <1>10 DEF Guarded
  <1>12. Landed(r)'
    BY <1>7, <1>10 DEF Landed
  <1>13. ASSUME NEW q \in Pusher, push'[q] # NoPush
         PROVE  Fits(push[q])' /\ (push'[q].alone => \A o \in Pusher \ {q} : push'[o] = NoPush)
    <2>1. CASE q = p
      BY <1>9, <1>10, <1>11, <1>12, <2>1 DEF Fits
    <2>2. CASE q # p
      <3>1. push[q] # NoPush
        BY <1>9, <1>13, <2>2 DEF StillGuarded
      <3>2. PICK f \in Push : f = push'[q] /\ Guarded(f)' /\ Landed(f)' /\ f.alone = push[q].alone
        BY <1>2, <1>6, <1>9, <2>2, <3>1, StillFits
      <3>3. ~push[q].alone
        BY <1>1, <2>2, <3>1 DEF PushInv
      <3> QED BY <3>2, <3>3 DEF Fits
    <2> QED BY <2>1, <2>2
  <1> QED BY <1>2, <1>6, <1>9, <1>13 DEF PushInv

\* Every step of a push, the server or the protected-branch API.
LEMMA PushStep ==
    ASSUME PushInv, [PushNext]_pushVars
    PROVE  PushInv'
  <1>1. CASE PushNext
    <2>1. ASSUME NEW p \in Pusher, \E via \in {"http", "ssh"}, level \in Level,
              cmd \in Commands : Begin(p, via, level, cmd)
          PROVE  PushInv'
      BY <2>1, BeginStep
    <2>2. ASSUME NEW p \in Pusher,
                 \/ Check(p) \/ Snapshot(p) \/ Install(p) \/ ReceivePack(p) \/ Restore(p)
                 \/ ReadDisk(p) \/ ReadRows(p) \/ SyncBranches(p)
                 \/ ReadAfter(p) \/ CreatePushPipeline(p) \/ EndPush(p) \/ PushFails(p)
          PROVE  PushInv'
      BY <2>2, CheckStep, SnapshotStep, InstallStep, ReceivePackStep, RestoreStep, ReadDiskStep, ReadRowsStep,
         SyncBranchesStep, ReadAfterStep, CreatePushPipelineStep, EndsStep
    <2> QED BY <1>1, <2>1, <2>2, StopServerStep, ProtectBranchStep, UnprotectBranchStep DEF PushNext
  <1>2. CASE UNCHANGED pushVars
    <2>1. \A f : Fits(f) => Fits(f)'
      BY <1>2 DEF Fits, Guarded, Landed, UpToDate, Agrees, Protections, pushVars
    <2> QED BY <1>2, <2>1 DEF PushInv, pushVars
  <1> QED BY <1>1, <1>2

\* The first table.
LEMMA PushStart == PushInit => PushInv
  <1> SUFFICES ASSUME PushInit PROVE PushInv
    OBVIOUS
  <1>1. branch \in Table
    <2>1. PICK names \in Listed(Branch) :
              \/ branch \in {Rows(names, {}), Rows(Append(names, Head(names)), {})}
              \/ \E rule \in Rule : branch = Rows(names, {rule})
      BY DEF PushInit
    <2>2. PICK n \in Nat : n = Cardinality(Branch)
      BY PushBounds, FS_CardinalityType
    <2>3. names \in Seq(Branch) /\ Len(names) = n /\ n + 1 <= MaxRow
      <3>1. names \in [1 .. n -> Branch]
        BY <2>2 DEF Listed
      <3> QED BY <2>2, <3>1, PushBounds
    <2>4. Len(names) # 0
      <3>1. PICK b : b \in Branch
        BY PushBounds
      <3>2. \E i \in 1 .. Len(names) : names[i] = b
        BY <3>1, ListedIs
      <3> QED BY <2>3, <3>2
    <2>5. ASSUME NEW q \in Seq(Branch), Len(q) <= MaxRow, NEW rules \in SUBSET Rule
          PROVE  Rows(q, rules) \in Table
      <3>1. Len(q) \in Nat /\ 1 .. Len(q) \in SUBSET (1 .. MaxRow) /\ 1 \in 1 .. MaxCommit
        BY <2>5, PushBounds
      <3>2. \A i \in 1 .. Len(q) : [name |-> q[i], sha |-> 1, rules |-> rules] \in BranchRow
        BY <3>1 DEF BranchRow
      <3>3. Rows(q, rules) \in [1 .. Len(q) -> BranchRow]
        BY <3>1, <3>2 DEF Rows
      <3> QED BY <3>1, <3>3 DEF Table
    <2>6. names \in Seq(Branch) /\ Len(names) <= MaxRow
      BY <2>2, <2>3, PushBounds
    <2>7. Append(names, Head(names)) \in Seq(Branch) /\ Len(Append(names, Head(names))) <= MaxRow
      BY <2>2, <2>3, <2>4, PushBounds
    <2> QED BY <2>1, <2>5, <2>6, <2>7
  <1>2. tip \in Refs /\ piped \in Refs /\ hook \subseteq Hook
    BY NoRefsAreRefs, PushBounds DEF PushInit, Refs
  <1> QED BY <1>1, <1>2, PushBounds DEF PushInit, PushInv

-----------------------------------------------------------------------------
\* The invariant holds of every behaviour.
LEMMA PushInvHolds == PushSpec => []PushInv
  BY PushStart, PushStep, PTL DEF PushSpec

\* A push goes from stage to stage by its own steps.
LEMMA OwnStep ==
    ASSUME PushInv, PushNext, NEW p \in Pusher, push[p] # NoPush, push'[p] # NoPush, push'[p].at # push[p].at
    PROVE  \/ Check(p) \/ Snapshot(p) \/ Install(p) \/ ReceivePack(p) \/ Restore(p)
           \/ ReadDisk(p) \/ ReadRows(p) \/ SyncBranches(p) \/ ReadAfter(p) \/ CreatePushPipeline(p)
  <1>1. push[p] \in Push
    BY DEF PushInv, Fits
  <1>2. ~ StopServer
    BY DEF StopServer
  <1>3. ASSUME NEW b \in Branch, UnprotectBranch(b) \/ \E rule \in Rule : ProtectBranch(b, rule)
        PROVE  FALSE
    <2>1. push'[p] = StillGuarded(p)
      BY <1>3 DEF UnprotectBranch, ProtectBranch
    <2>2. push'[p].at = push[p].at
      BY <1>1, <2>1 DEF StillGuarded, Push
    <2> QED BY <2>2
  <1>4. PICK q \in Pusher :
        \/ \E via \in {"http", "ssh"}, level \in Level, cmd \in Commands : Begin(q, via, level, cmd)
        \/ Check(q) \/ Snapshot(q) \/ Install(q) \/ ReceivePack(q) \/ Restore(q)
        \/ ReadDisk(q) \/ ReadRows(q) \/ SyncBranches(q)
        \/ ReadAfter(q) \/ CreatePushPipeline(q) \/ EndPush(q) \/ PushFails(q)
    BY <1>2, <1>3 DEF PushNext
  <1>5. CASE q = p
    BY <1>4, <1>5 DEF Begin, EndPush, PushFails, PushInv
  <1>6. CASE q # p
    <2>1. ASSUME NEW h, NEW r, SetHook(q, h, r) PROVE FALSE
      <3>1. push'[p].at = push[p].at
        BY <1>1, <1>6, <2>1 DEF SetHook, Others, Push
      <3> QED BY <3>1
    <2>2. ASSUME NEW via \in {"http", "ssh"}, NEW level \in Level, NEW cmd \in Commands, Begin(q, via, level, cmd)
          PROVE FALSE
      <3>1. push'[p].at = push[p].at
        BY <1>1, <1>6, <2>2 DEF Begin, Others, Push
      <3> QED BY <3>1
    <2>3. ASSUME SyncBranches(q) PROVE FALSE
      <3>1. push'[p] = StillGuarded(p)
        BY <1>6, <2>3 DEF SyncBranches
      <3>2. push'[p].at = push[p].at
        BY <1>1, <3>1 DEF StillGuarded, Push
      <3> QED BY <3>2
    <2>4. ~ CreatePushPipeline(q)
      BY <1>6 DEF CreatePushPipeline, PushInv
    <2>5. ~ (Check(q) \/ Snapshot(q) \/ ReceivePack(q) \/ ReadDisk(q) \/ ReadRows(q) \/ ReadAfter(q) \/ EndPush(q)
              \/ PushFails(q))
      BY <1>6 DEF Check, Goes, Snapshot, ReceivePack, ReadDisk, ReadRows, ReadAfter, EndPush, PushFails, PushInv
    <2>6. ~ Install(q) /\ ~ Restore(q)
      BY <1>6, <2>1 DEF Install, Restore, Goes, PushInv
    <2> QED BY <1>4, <2>2, <2>3, <2>4, <2>5, <2>6
  <1> QED BY <1>5, <1>6

\* Only git's end, and only a sync's, take a push there.
LEMMA GitEnds ==
    ASSUME PushInv, PushNext, NEW p \in Pusher, InPush(p, "git"), InPush(p, "restore")'
    PROVE  ReceivePack(p)
  BY OwnStep DEF InPush, Check, Snapshot, Install, Restore, ReadDisk, ReadRows, SyncBranches, ReadAfter,
      CreatePushPipeline

\* Only the commit of the rows leads from the synchronisation to what follows it.
LEMMA SyncEnds ==
    ASSUME PushInv, PushNext, NEW p \in Pusher, InPush(p, "sync"), InPush(p, "after")'
    PROVE  SyncBranches(p)
  BY OwnStep DEF InPush, Check, Snapshot, Install, Restore, ReadDisk, ReadRows, ReceivePack, ReadAfter,
      CreatePushPipeline

\* A protected branch moves only as its protection allows: by a user of the level it
\* asks for, forwards unless it allows a forced update, and it is not deleted,
\* however the hooks of overlapping pushes replace one another; a push whose hook
\* another replaced gets past the checks that are in the hook alone, and over HTTP
\* the check before it still holds.
THEOREM ProtectedBranchesKeep == PushSpec => ProtectedIsKept
  <1>1. ASSUME PushInv, NEW p \in Pusher, ReceivePack(p), NEW g \in push[p].guarded, tip'[g.name] # tip[g.name]
        PROVE  Respects(push[p], g)
    <2>1. Fits(push[p]) /\ push[p].at = "git" /\ push[p] \in Push
      BY <1>1 DEF PushInv, ReceivePack, InPush, Fits
    <2>2. g \in Case /\ push[p].level \in Nat /\ push[p].cmd \in [Branch -> Command]
          /\ push[p].exposed \in BOOLEAN
      BY <2>1 DEF Push
    <2>3. g.name \in Branch /\ push[p].cmd[g.name] \in Command /\ g.rule.min \in Nat /\ g.rule.force \in BOOLEAN
      <3>1. g.name \in Branch /\ g.rule \in [min : Nat, force : BOOLEAN]
        BY <2>2, PushBounds DEF Case
      <3> QED BY <2>2, <3>1
    <2>4. push[p].cmd[g.name] # "none" /\ ~Declined(p)
      BY <1>1, <2>3 DEF ReceivePack
    <2>5. push[p].via = "http" => push[p].level >= g.rule.min /\ push[p].cmd[g.name] # "delete"
      <3>1. push[p].via = "http" => ~(push[p].level < g.rule.min) /\ push[p].cmd[g.name] # "delete"
        BY <1>1, <2>1, <2>4 DEF Fits, Guarded
      <3> QED BY <2>2, <2>3, <3>1
    <2>6. CASE ~push[p].exposed
      <3>1. PICK h \in hook : h.level = push[p].level /\ push[p].guarded \subseteq h.cases
        BY <1>1, <2>1, <2>6 DEF Fits, Guarded
      <3>2. /\ ~(push[p].level < g.rule.min) /\ push[p].cmd[g.name] # "delete"
            /\ ~(~g.rule.force /\ push[p].cmd[g.name] = "force" /\ push[p].old[g.name] # 0)
        BY <1>1, <2>4, <3>1 DEF Declined
      <3>3. push[p].cmd[g.name] = "force" => push[p].old[g.name] # 0
        BY <2>1, <2>3 DEF Fits, Guarded
      <3>4. push[p].level >= g.rule.min
        BY <2>2, <2>3, <3>2
      <3>5. push[p].cmd[g.name] = "ff" \/ (push[p].cmd[g.name] = "force" /\ g.rule.force)
        BY <2>3, <2>4, <3>2, <3>3 DEF Command
      <3> QED BY <2>5, <3>4, <3>5 DEF Respects
    <2> QED BY <2>5, <2>6 DEF Respects
  <1>2. PushInv /\ [PushNext]_pushVars =>
            [\A p \in Pusher : InPush(p, "git") /\ InPush(p, "restore")' =>
                \A g \in push[p].guarded : tip'[g.name] # tip[g.name] => Respects(push[p], g)]_pushVars
    BY <1>1, GitEnds
  <1> QED BY <1>2, PushInvHolds, PTL DEF PushSpec, ProtectedIsKept

\* When a push ends without an error, each commit it landed has a pipeline, or a
\* newer one of the branch has, or the branch is gone: what it sees of the disk in
\* the end is never older than what it landed.
THEOREM PushesHavePipelines == PushSpec => PushHasPipeline
  <1>1. ASSUME PushInv, NEW p \in Pusher, InPush(p, "create"), Changed(p) = {}, NEW b \in Branch
        PROVE  push[p].moved[b] <= piped[b] \/ push[p].disk[b] = 0
    <2>1. Fits(push[p]) /\ push[p].at = "create" /\ push[p] \in Push
      BY <1>1 DEF PushInv, InPush, Fits
    <2>2. push[p].moved[b] \in Nat /\ push[p].before[b] \in Nat /\ push[p].disk[b] \in Nat /\ piped[b] \in Nat
      BY <1>1, <2>1, PushBounds DEF Push, Refs, PushInv
    <2>3. push[p].disk[b] = 0 \/ push[p].disk[b] = push[p].before[b]
      BY <1>1 DEF Changed
    <2> QED BY <2>1, <2>2, <2>3 DEF Fits, Landed
  <1>2. PushInv /\ [PushNext]_pushVars =>
            [\A p \in Pusher : InPush(p, "create") /\ push'[p] = NoPush /\ Changed(p) = {} =>
                \A b \in Branch : push[p].moved[b] <= piped[b] \/ push[p].disk[b] = 0]_pushVars
    BY <1>1
  <1> QED BY <1>2, PushInvHolds, PTL DEF PushSpec, PushHasPipeline

\* A sync that read the table as it is, but for rows brought in line since: a branch that is gone loses its last row,
\* and the last row of any other branch is in line.
LEMMA SyncRepairs ==
    ASSUME branch \in Table, NEW known \in Table, NEW disk \in Refs, NEW new \in Listed(Missing(known, disk)),
           Agrees(known, disk),
           NEW t \in Table, NEW max \in 0 .. MaxRow, IsSynced(t, known, disk, new, max), NEW b \in Branch
    PROVE  IF disk[b] = 0 THEN Ids(branch, b) = {} \/ Cardinality(Ids(t, b)) < Cardinality(Ids(branch, b))
           ELSE t[LastId(t, b)].sha = disk[b]
  <1>1. disk[b] = 0 \/ Ids(known, b) # {} => Ids(known, b) = Ids(branch, b)
    <2>1. Ids(known, b) \subseteq Ids(branch, b)
      BY DEF Agrees, Ids
    <2>2. ASSUME disk[b] = 0 \/ Ids(known, b) # {}, NEW i \in Ids(branch, b)
          PROVE  i \in Ids(known, b)
      <3>1. i \in DOMAIN branch /\ branch[i].name = b
        BY <2>2 DEF Ids
      <3>2. i \in DOMAIN known
        BY <2>2, <3>1 DEF Agrees
      <3> QED BY <3>1, <3>2 DEF Agrees, Ids
    <2> QED BY <2>1, <2>2
  <1>2. Missing(known, disk) \in SUBSET Branch
    BY DEF Missing
  <1>3. /\ Len(new) \in Nat
        /\ \A i \in 1 .. Len(new) : new[i] \in Missing(known, disk)
        /\ \A c \in Missing(known, disk) : \E i \in 1 .. Len(new) : new[i] = c
        /\ \A i, j \in 1 .. Len(new) : i < j => new[i] < new[j]
    BY <1>2, ListedIs
  <1>4. DOMAIN branch \subseteq 1 .. MaxRow /\ max \in Nat
    BY TableIs, PushBounds
  <1>5. \A i \in max + 1 .. max + Len(new) : i - max \in 1 .. Len(new)
    BY <1>3, <1>4
  <1>6. ASSUME disk[b] = 0 \/ Ids(known, b) # {}
        PROVE  Ids(t, b) = Ids(branch, b) \ Gone(known, disk)
    <2>1. b \notin Missing(known, disk)
      BY <1>6 DEF Missing
    <2>2. \A i \in max + 1 .. max + Len(new) : t[i].name # b
      BY <1>3, <1>5, <2>1 DEF IsSynced
    <2>3. \A i \in DOMAIN branch \ Gone(known, disk) : i \in DOMAIN t /\ t[i].name = branch[i].name
      BY DEF IsSynced
    <2> QED BY <2>2, <2>3 DEF Ids, IsSynced
  <1>7. CASE disk[b] = 0 /\ Ids(branch, b) # {}
    <2>1. LastId(known, b) \in Ids(branch, b)
      BY <1>1, <1>7, LastIdIs DEF Ids
    <2>2. LastId(known, b) \in Gone(known, disk)
      BY <1>1, <1>7 DEF Gone
    <2>3. Ids(t, b) \subseteq Ids(branch, b) \ {LastId(known, b)}
      BY <1>6, <1>7, <2>2
    <2>4. IsFiniteSet(Ids(branch, b))
      <3>1. IsFiniteSet(1 .. MaxRow)
        BY FS_Interval, PushBounds
      <3>2. Ids(branch, b) \subseteq 1 .. MaxRow
        BY <1>4 DEF Ids
      <3> QED BY <3>1, <3>2, FS_Subset
    <2>5. /\ IsFiniteSet(Ids(branch, b) \ {LastId(known, b)})
          /\ Cardinality(Ids(branch, b) \ {LastId(known, b)}) = Cardinality(Ids(branch, b)) - 1
      BY <2>1, <2>4, FS_RemoveElement
    <2>6. Cardinality(Ids(t, b)) <= Cardinality(Ids(branch, b) \ {LastId(known, b)})
      BY <2>3, <2>5, FS_Subset
    <2>7. Cardinality(Ids(branch, b)) \in Nat /\ Cardinality(Ids(t, b)) \in Nat
      BY <2>3, <2>4, <2>5, FS_CardinalityType, FS_Subset
    <2> QED BY <1>7, <2>5, <2>6, <2>7
  <1>8. CASE disk[b] # 0 /\ Ids(known, b) # {}
    <2>1. PICK i \in DOMAIN known : i = LastId(known, b) /\ known[i].name = b
      BY <1>8, LastIdIs
    <2>2. \A c \in Branch : Ids(known, c) # {} => known[LastId(known, c)].name = c
      BY LastIdIs
    <2>3. Ids(known, b) \cap Gone(known, disk) = {}
      BY <1>8, <2>2 DEF Gone, Ids
    <2>4. Ids(t, b) = Ids(known, b)
      BY <1>1, <1>6, <1>8, <2>3
    <2>5. LastId(t, b) = i
      BY <2>1, <2>4 DEF LastId
    <2>6. i \in DOMAIN branch \ Gone(known, disk) /\ branch[i].name = b
      BY <2>1, <2>3 DEF Ids, Agrees
    <2>7. t[i].sha = IF i \in Wrong(known, disk) THEN disk[b] ELSE branch[i].sha
      BY <2>1, <2>6 DEF IsSynced
    <2>8. i \notin Wrong(known, disk) => branch[i].sha = disk[b]
      <3>1. i \notin Wrong(known, disk) => known[i].sha = disk[b]
        BY <1>8, <2>1, <2>6 DEF Wrong
      <3> QED BY <2>6, <3>1 DEF Agrees
    <2> QED BY <1>8, <2>5, <2>7, <2>8
  <1>9. CASE disk[b] # 0 /\ Ids(known, b) = {}
    <2>1. b \in Missing(known, disk)
      BY <1>9 DEF Missing
    <2>2. PICK k \in 1 .. Len(new) : new[k] = b
      BY <1>3, <2>1
    <2>3. max + k \in max + 1 .. max + Len(new) /\ max + k - max = k
      BY <1>3, <1>4
    <2>4. t[max + k].name = b /\ t[max + k].sha = disk[b] /\ max + k \in DOMAIN t
      BY <2>2, <2>3 DEF IsSynced
    <2>5. Ids(t, b) # {}
      BY <2>4 DEF Ids
    <2>6. LastId(t, b) \in DOMAIN t /\ t[LastId(t, b)].name = b
      BY <2>5, LastIdIs
    <2>7. ASSUME NEW i \in DOMAIN t, t[i].name = b
          PROVE  t[i].sha = disk[b]
      <3>1. CASE i \in DOMAIN branch \ Gone(known, disk)
        <4>1. branch[i].name = b
          BY <2>7, <3>1 DEF IsSynced
        <4>2. i \notin DOMAIN known
          BY <1>9, <4>1 DEF Agrees, Ids
        <4>3. \A c \in Branch : Ids(known, c) # {} => LastId(known, c) \in DOMAIN known
          BY LastIdIs
        <4>4. i \notin Wrong(known, disk)
          BY <4>2, <4>3 DEF Wrong
        <4>5. t[i].sha = branch[i].sha
          BY <3>1, <4>4 DEF IsSynced
        <4> QED BY <3>1, <4>1, <4>2, <4>5 DEF Agrees
      <3>2. CASE i \in max + 1 .. max + Len(new)
        BY <2>7, <3>2 DEF IsSynced
      <3> QED BY <3>1, <3>2 DEF IsSynced
    <2> QED BY <1>9, <2>6, <2>7
  <1> QED BY <1>7, <1>8, <1>9

\* A push that was alone leaves the last row of every branch in line with git,
\* whatever earlier pushes that overlapped or failed left: rows that are there twice,
\* rows of branches that are gone, rows with an old commit.
THEOREM RowsFollowGit == PushSpec => RowsAreRepaired
  <1>1. ASSUME PushInv, NEW p \in Pusher, SyncBranches(p), push[p].alone, NEW b \in Branch
        PROVE  IF tip[b] = 0 THEN Ids(branch, b) = {} \/ Cardinality(Ids(branch', b)) < Cardinality(Ids(branch, b))
               ELSE branch'[LastId(branch', b)].sha = tip[b]
    <2>1. Fits(push[p]) /\ push[p].at = "sync" /\ branch \in Table
      BY <1>1 DEF PushInv, SyncBranches, InPush
    <2>2. PICK known \in Table : known = push[p].rows
      BY <2>1 DEF Fits, Push
    <2>3. tip \in Refs /\ push[p].disk = tip
      BY <1>1, <2>1 DEF PushInv, Fits, UpToDate
    <2>4. PICK new \in Listed(Missing(known, tip)) : branch' = Synced(known, tip, new)
      BY <1>1, <2>2, <2>3 DEF SyncBranches, Missing
    <2>5. PICK t : t = branch'
      OBVIOUS
    <2>6. t \in Table
      BY <1>1, <2>1, <2>3, <2>4, <2>5, SyncedIsTable DEF SyncBranches
    <2>7. PICK max \in 0 .. MaxRow : IsSynced(t, known, tip, new, max)
      BY <2>1, <2>3, <2>4, <2>5, SyncedIs
    <2>8. Agrees(known, tip)
      BY <1>1, <2>1, <2>2 DEF Fits, UpToDate
    <2>9. IF tip[b] = 0 THEN Ids(branch, b) = {} \/ Cardinality(Ids(t, b)) < Cardinality(Ids(branch, b))
          ELSE t[LastId(t, b)].sha = tip[b]
      BY <2>1, <2>3, <2>6, <2>7, <2>8, SyncRepairs
    <2> QED BY <2>5, <2>9
  <1>2. PushInv /\ [PushNext]_pushVars =>
            [\A p \in Pusher : InPush(p, "sync") /\ InPush(p, "after")' /\ push[p].alone =>
                \A b \in Branch :
                    IF tip[b] = 0 THEN Ids(branch, b) = {} \/ Cardinality(Ids(branch', b)) < Cardinality(Ids(branch, b))
                    ELSE branch'[LastId(branch', b)].sha = tip[b]]_pushVars
    BY <1>1, SyncEnds
  <1> QED BY <1>2, PushInvHolds, PTL DEF PushSpec, RowsAreRepaired

-----------------------------------------------------------------------------
(* The types, and the parts side by side. *)

IsOn(f, S) == f = [x \in S |-> f[x]]

\* A function that is changed in places stays one.
LEMMA ChangedIsOn ==
    ASSUME NEW f, NEW S, IsOn(f, S), NEW x, NEW v
    PROVE  IsOn([f EXCEPT ![x] = v], S)
  BY DEF IsOn

\* The pushes in flight remain one for each pusher.
LEMMA PushesAreOn ==
    ASSUME IsOn(push, Pusher), [PushNext]_pushVars
    PROVE  IsOn(push, Pusher)'
  <1>1. ASSUME NEW p \in Pusher, NEW via, NEW level, NEW cmd, Begin(p, via, level, cmd)
        PROVE  IsOn(push', Pusher)
    BY <1>1 DEF Begin, IsOn
  <1>2. ASSUME NEW p \in Pusher, NEW stage, Goes(p, stage) PROVE IsOn(push', Pusher)
    BY <1>2 DEF Goes, IsOn
  <1>3. ASSUME NEW p \in Pusher, NEW h, NEW r, SetHook(p, h, r) PROVE IsOn(push', Pusher)
    BY <1>3 DEF SetHook, IsOn
  <1>4. ASSUME NEW p \in Pusher, NEW r, push' = [push EXCEPT ![p] = r] PROVE IsOn(push', Pusher)
    BY <1>4, ChangedIsOn
  <1>5. ASSUME NEW p \in Pusher, Check(p) PROVE IsOn(push', Pusher)
    BY <1>2, <1>4, <1>5 DEF Check
  <1>6. ASSUME NEW p \in Pusher, Snapshot(p) PROVE IsOn(push', Pusher)
    BY <1>6 DEF Snapshot, IsOn
  <1>7. ASSUME NEW p \in Pusher, Install(p) PROVE IsOn(push', Pusher)
    BY <1>3, <1>4, <1>7 DEF Install
  <1>8. ASSUME NEW p \in Pusher, ReceivePack(p) PROVE IsOn(push', Pusher)
    <2>1. \E r : push' = [push EXCEPT ![p] = r]
      BY <1>8 DEF ReceivePack
    <2> QED BY <1>4, <2>1
  <1>9. ASSUME NEW p \in Pusher, Restore(p) PROVE IsOn(push', Pusher)
    BY <1>2, <1>3, <1>9 DEF Restore
  <1>10. ASSUME NEW p \in Pusher, ReadDisk(p) \/ ReadRows(p) \/ ReadAfter(p) PROVE IsOn(push', Pusher)
    BY <1>10 DEF ReadDisk, ReadRows, ReadAfter, IsOn
  <1>11. ASSUME NEW p \in Pusher, SyncBranches(p) PROVE IsOn(push', Pusher)
    BY <1>11 DEF SyncBranches, IsOn
  <1>12. ASSUME NEW p \in Pusher, CreatePushPipeline(p) PROVE IsOn(push', Pusher)
    <2>1. \E r : push' = [push EXCEPT ![p] = r]
      BY <1>12 DEF CreatePushPipeline
    <2> QED BY <1>4, <2>1
  <1>13. ASSUME NEW p \in Pusher, EndPush(p) \/ PushFails(p) PROVE IsOn(push', Pusher)
    BY <1>4, <1>13 DEF EndPush, PushFails
  <1>14. CASE StopServer \/ \E b \in Branch : UnprotectBranch(b) \/ \E rule \in Rule : ProtectBranch(b, rule)
    BY <1>14 DEF StopServer, UnprotectBranch, ProtectBranch, IsOn
  <1>15. CASE UNCHANGED pushVars
    BY <1>15 DEF pushVars, IsOn
  <1> QED BY <1>1, <1>5, <1>6, <1>7, <1>8, <1>9, <1>10, <1>11, <1>12, <1>13, <1>14, <1>15 DEF PushNext

\* And the requests that commit, one for each caller.
LEMMA CallsAreOn ==
    ASSUME IsOn(call, Caller), [CommitNext]_commitVars
    PROVE  IsOn(call, Caller)'
  <1>1. ASSUME NEW c, NEW r, call' = [call EXCEPT ![c] = r] PROVE IsOn(call', Caller)
    BY <1>1, ChangedIsOn
  <1>2. ASSUME NEW c, NEW op, NEW f, NEW options, NEW from, NEW todo, Request(c, op, f, options, from, todo)
        PROVE  IsOn(call', Caller)
    <2>1. \E r : call' = [call EXCEPT ![c] = r]
      BY <1>2 DEF Request
    <2> QED BY <1>1, <2>1
  <1>3. ASSUME NEW c \in Caller, NEW f \in Path,
               \/ \E op \in {"create", "update", "delete"}, force \in BOOLEAN : CreateRepositoryCommit(c, op, f, force)
               \/ CreateRepositoryFile(c, f) \/ UpdateRepositoryFile(c, f) \/ DeleteRepositoryFile(c, f)
               \/ PutContents(c, f) \/ DeleteContents(c, f)
               \/ NewFileSubmit(c, f) \/ EditFileSubmit(c, f) \/ PipelineEditorSubmit(c, f) \/ DeleteFileSubmit(c, f)
        PROVE  IsOn(call', Caller)
    BY <1>2, <1>3 DEF CreateRepositoryCommit, CreateRepositoryFile, UpdateRepositoryFile, DeleteRepositoryFile,
       PutContents, DeleteContents, NewFileSubmit, EditFileSubmit, PipelineEditorSubmit, DeleteFileSubmit,
       WriteFile, DeleteFile
  <1>4. ASSUME NEW c \in Caller, NEW k,
               (\E force \in BOOLEAN : UpdateRef(c, k, force)) \/ CreateRef(c, k) \/ CreateProjectBranch(c, k)
        PROVE  IsOn(call', Caller)
    BY <1>2, <1>4 DEF UpdateRef, CreateRef, CreateProjectBranch, SetRef
  <1>5. ASSUME NEW c \in Caller, ReadNext(c) \/ Fail(c) PROVE IsOn(call', Caller)
    <2>1. \E r : call' = [call EXCEPT ![c] = r]
      BY <1>5 DEF ReadNext, Fail
    <2> QED BY <1>1, <2>1
  <1>6. ASSUME NEW calls, call' = Overtake(calls) PROVE IsOn(call', Caller)
    BY <1>6 DEF Overtake, IsOn
  <1>7. ASSUME NEW c \in Caller, LandCommit(c) \/ LandRef(c) PROVE IsOn(call', Caller)
    BY <1>6, <1>7 DEF LandCommit, LandRef, Overtaking
  <1>8. CASE DeleteBranch
    BY <1>6, <1>8 DEF DeleteBranch
  <1>9. CASE UNCHANGED commitVars
    BY <1>9 DEF commitVars, IsOn
  <1> QED BY <1>3, <1>4, <1>5, <1>7, <1>8, <1>9 DEF CommitNext

\* What a download has seen is an archive of a key it asked for.
SeenTypeOK == seen \in [key : CacheKey, asked : Seq(CacheKey), body : Seq(Putter)] \cup {NoPut}

\* A download reads an archive.
LEMMA SeenIsTyped ==
    ASSUME CacheInv, SeenTypeOK, [CacheNext]_cacheVars
    PROVE  SeenTypeOK'
  <1>1. ASSUME NEW key \in CacheKey, NEW other \in CacheKey, Get(key, <<other>>)
        PROVE  SeenTypeOK'
    <2> DEFINE both == <<key>> \o <<other>>
    <2>1. both \in Seq(CacheKey)
      OBVIOUS
    <2>2. PICK i \in DOMAIN both : /\ archive[both[i]] # NoPut
                                   /\ seen' = [key |-> both[i], asked |-> both, body |-> archive[both[i]]]
      BY <1>1 DEF Get, Candidates, Finds
    <2> HIDE DEF both
    <2>3. both[i] \in CacheKey
      BY <2>1, <2>2
    <2>4. archive[both[i]] \in Seq(Putter)
      BY <2>2, <2>3 DEF CacheInv
    <2> QED BY <2>1, <2>2, <2>3, <2>4 DEF SeenTypeOK
  <1>2. CASE UNCHANGED seen
    BY <1>2 DEF SeenTypeOK
  <1> QED BY <1>1, <1>2 DEF CacheNext, PutOpens, PutWrites, PutDropped, cacheVars

\* The invariants of the parts, which are what keeps their types.
PartInv ==
    /\ part \in {"cache", "artifacts", "push", "commits", "rows", "owned", "lists"}
    /\ CacheInv /\ SeenTypeOK /\ ArtifactInv
    /\ PushInv /\ IsOn(push, Pusher) /\ CommitInv /\ IsOn(call, Caller)
    /\ RowsInv /\ OwnedTypeInv /\ ListInv

\* Each part starts as it does alone.
LEMMA PartsStart == Init => PartInv
  <1> SUFFICES ASSUME Init PROVE PartInv
    OBVIOUS
  <1>1. CacheInv /\ SeenTypeOK
    BY NoPutIsNoKey DEF Init, CacheInit, CacheInv, SeenTypeOK
  <1>2. IsOn(push, Pusher) /\ IsOn(call, Caller)
    BY DEF Init, PushInit, CommitInit, IsOn
  <1> QED BY <1>1, <1>2, ArtifactsStart, PushStart, CommitsStart, RowsStart, OwnedTypesStart,
             ListStarts DEF Init, PartInv

\* A step is a step of one part, and the others stand still.
LEMMA PartsStep == PartInv /\ [Next]_vars => PartInv'
  <1> SUFFICES ASSUME PartInv, [Next]_vars PROVE PartInv'
    OBVIOUS
  <1>1. /\ UNCHANGED part /\ [CacheNext]_cacheVars /\ [ArtifactNext]_artifactVars
        /\ [PushNext]_pushVars /\ [CommitNext]_commitVars /\ [RowsNext]_rowVars /\ [OwnedNext]_ownedVars
        /\ [ListNext]_listVars
    BY DEF Next, vars
  <1>2. CacheInv' /\ SeenTypeOK' /\ ArtifactInv'
    BY <1>1, CacheStep, SeenIsTyped, ArtifactsStep DEF PartInv
  <1>3. PushInv' /\ IsOn(push, Pusher)' /\ CommitInv' /\ IsOn(call, Caller)'
    BY <1>1, PushStep, PushesAreOn, CommitsStep, CallsAreOn DEF PartInv
  <1>4. RowsInv' /\ OwnedTypeInv' /\ ListInv'
    BY <1>1, RowsSteps, OwnedTypes, ListSteps DEF PartInv
  <1> QED BY <1>1, <1>2, <1>3, <1>4 DEF PartInv

\* The types of the parts follow from their invariants.
LEMMA PartsTyped == PartInv => TypeOK
  <1> SUFFICES ASSUME PartInv PROVE TypeOK
    OBVIOUS
  <1>2. CacheTypeOK
    BY DEF PartInv, CacheInv, SeenTypeOK, CacheTypeOK
  <1>3. ArtifactTypeOK
    BY DEF PartInv, ArtifactInv
  <1>4. PushTypeOK
    <2>1. \A p \in Pusher : push[p] \in Push \cup {NoPush}
      BY DEF PartInv, PushInv, Fits
    <2>2. push \in [Pusher -> Push \cup {NoPush}]
      BY <2>1 DEF PartInv, IsOn
    <2> QED BY <2>2 DEF PartInv, PushInv, PushTypeOK
  <1>5. CommitTypeOK
    <2>1. \A c \in Caller : call[c] \in Call \cup {NoCall}
      BY DEF PartInv, CommitInv, CallFits
    <2>2. call \in [Caller -> Call \cup {NoCall}]
      BY <2>1 DEF PartInv, IsOn
    <2>3. Len(commit) <= MaxCommits
      BY CommitBounds DEF PartInv, CommitInv
    <2> QED BY <2>2, <2>3 DEF PartInv, CommitInv, CommitTypeOK
  <1>6. RowsTypeOK
    BY RowBounds DEF PartInv, RowsInv, RowsTypeOK
  <1>7. OwnedTypeOK /\ ListTypeOK
    BY DEF PartInv, OwnedTypeInv, ListInv
  <1> QED BY <1>2, <1>3, <1>4, <1>5, <1>6, <1>7 DEF PartInv, TypeOK

\* Every variable of what is kept with a project keeps its type, for any number
\* of requests, keys, branches, owners and rows, whichever part moves.
THEOREM RepositoryHasType == Spec => []TypeOK
  BY PartsStart, PartsStep, PartsTyped, PTL DEF Spec
=============================================================================
