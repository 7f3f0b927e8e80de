----------------------------- MODULE PipelineProofs -----------------------------
(***************************************************************************)
(* What leads to a pipeline, proved for every number of calls, projects,   *)
(* imports and schedules and every set of documents: pipelines and their   *)
(* bridges, imports, the worker of the schedules, and the jobs that a CI   *)
(* configuration makes.                                                    *)
(***************************************************************************)
EXTENDS MCPipelines, FiniteSetTheorems, SequenceTheorems, TLAPS

-----------------------------------------------------------------------------
(* The creation of pipelines: the stack of calls. *)

Depth(c) == Len(stack[c])
StackType == stack \in [Creator -> Seq(Frame)]

\* The frame a call works in.
LEMMA TopIsFrame ==
    ASSUME StackType, NEW c \in Creator, stack[c] # <<>>
    PROVE  /\ Depth(c) \in Nat \ {0} /\ Top(c) = stack[c][Depth(c)] /\ Top(c) \in Frame
           /\ Front(stack[c]) \in Seq(Frame) /\ Len(Front(stack[c])) = Depth(c) - 1
           /\ \A k \in 1 .. Depth(c) - 1 : Front(stack[c])[k] = stack[c][k]
  <1>1. stack[c] \in Seq(Frame) /\ Depth(c) \in Nat \ {0}
    BY DEF StackType, Depth
  <1>2. Top(c) = stack[c][Depth(c)] /\ Top(c) \in Frame
    BY <1>1 DEF Top, Last, Depth
  <1> DEFINE n == Depth(c) - 1
             s == stack[c]
  <1>3. 1 \in Int /\ n \in Int /\ \A i \in 1 .. n : s[i] \in Frame
    BY <1>1 DEF Depth
  <1>4. Front(s) = SubSeq(s, 1, n)
    BY DEF Front, Depth
  <1>5. /\ Front(s) \in Seq(Frame) /\ Len(Front(s)) = IF 1 <= n THEN n - 1 + 1 ELSE 0
        /\ \A i \in 1 .. n - 1 + 1 : Front(s)[i] = s[1 + i - 1]
    <2> HIDE DEF n, s
    <2> QED BY <1>3, <1>4, SubSeqProperties
  <1>6. Len(Front(s)) = n
    BY <1>1, <1>5
  <1>7. \A i \in 1 .. n : Front(s)[i] = s[i]
    <2> TAKE i \in 1 .. n
    <2>1. i \in 1 .. n - 1 + 1 /\ 1 + i - 1 = i
      BY <1>1
    <2> HIDE DEF n, s
    <2> QED BY <2>1, <1>5
  <1> QED BY <1>1, <1>2, <1>5, <1>6, <1>7

\* What WithTop changes is the top frame.
LEMMA WithTopChangesTop ==
    ASSUME StackType, NEW c \in Creator, stack[c] # <<>>, NEW f \in Frame
    PROVE  /\ WithTop(c, f) \in [Creator -> Seq(Frame)]
           /\ \A d \in Creator \ {c} : WithTop(c, f)[d] = stack[d]
           /\ WithTop(c, f)[c] # <<>> /\ Len(WithTop(c, f)[c]) = Depth(c)
           /\ \A k \in 1 .. Depth(c) : WithTop(c, f)[c][k] = IF k = Depth(c) THEN f ELSE stack[c][k]
  <1> DEFINE s == Front(stack[c])
             t == Append(s, f)
  <1>1. /\ Depth(c) \in Nat \ {0} /\ s \in Seq(Frame) /\ Len(s) = Depth(c) - 1
        /\ \A k \in 1 .. Depth(c) - 1 : s[k] = stack[c][k]
    BY TopIsFrame
  <1>2. WithTop(c, f) = [stack EXCEPT ![c] = t]
    BY DEF WithTop
  <1> HIDE DEF s
  <1>3. t \in Seq(Frame) /\ t # <<>> /\ Len(t) = Depth(c)
        /\ \A k \in 1 .. Depth(c) : t[k] = IF k = Depth(c) THEN f ELSE stack[c][k]
    BY <1>1
  <1> HIDE DEF t
  <1> QED BY <1>2, <1>3 DEF StackType

\* A call of _create_pipeline by itself pushes a frame.
LEMMA CallPushes ==
    ASSUME StackType, NEW c \in Creator, NEW f \in Frame
    PROVE  /\ Append(stack[c], f) \in Seq(Frame) /\ Len(Append(stack[c], f)) = Depth(c) + 1
           /\ \A k \in 1 .. Depth(c) + 1 : Append(stack[c], f)[k] = IF k = Depth(c) + 1 THEN f ELSE stack[c][k]
  BY DEF StackType, Depth

\* A return takes the top frame away and tells the one below.
LEMMA ReturnPops ==
    ASSUME StackType, NEW c \in Creator, stack[c] # <<>>, NEW d \in Nat, Return(c, d)
    PROVE  /\ stack' \in [Creator -> Seq(Frame)]
           /\ \A e \in Creator \ {c} : stack'[e] = stack[e]
           /\ Len(stack'[c]) = Depth(c) - 1
           /\ \A k \in 1 .. Depth(c) - 1 : stack'[c][k] =
                 IF k = Depth(c) - 1 THEN [stack[c][k] EXCEPT !.at = "finish", !.down = d] ELSE stack[c][k]
  <1> DEFINE s == Front(stack[c])
             u == Front(s)
             t == Append(u, [Last(s) EXCEPT !.at = "finish", !.down = d])
  <1>1. /\ Depth(c) \in Nat \ {0} /\ s \in Seq(Frame) /\ Len(s) = Depth(c) - 1
        /\ \A k \in 1 .. Depth(c) - 1 : s[k] = stack[c][k]
    BY TopIsFrame
  <1>2. stack' = [stack EXCEPT ![c] = IF Depth(c) = 1 THEN <<>> ELSE t]
    BY DEF Return, Depth
  <1>3. CASE Depth(c) = 1
    BY <1>1, <1>2, <1>3 DEF StackType
  <1>4. CASE Depth(c) # 1
    <2>1. s # <<>> /\ Len(s) \in Nat \ {0}
      BY <1>1, <1>4
    <2>2. /\ u \in Seq(Frame) /\ Len(u) = Depth(c) - 2
          /\ \A k \in 1 .. Depth(c) - 2 : u[k] = stack[c][k]
      <3> DEFINE n == Len(s) - 1
      <3>1. n \in Int /\ 1 \in Int /\ \A i \in 1 .. n : s[i] \in Frame
        BY <1>1, <2>1
      <3>2. u = SubSeq(s, 1, n)
        BY DEF Front
      <3>3. /\ u \in Seq(Frame) /\ Len(u) = IF 1 <= n THEN n - 1 + 1 ELSE 0
            /\ \A i \in 1 .. n - 1 + 1 : u[i] = s[1 + i - 1]
        <4> HIDE DEF n, s, u
        <4> QED BY <3>1, <3>2, SubSeqProperties
      <3>4. Len(u) = Depth(c) - 2
        <4> HIDE DEF s, u
        <4> QED BY <1>1, <2>1, <3>3
      <3>5. \A i \in 1 .. Depth(c) - 2 : u[i] = stack[c][i]
        <4> TAKE i \in 1 .. Depth(c) - 2
        <4>1. i \in 1 .. n - 1 + 1 /\ 1 + i - 1 = i /\ i \in 1 .. Depth(c) - 1
          <5> HIDE DEF s
          <5> QED BY <1>1, <2>1
        <4>2. u[i] = s[1 + i - 1]
          <5> HIDE DEF n, s, u
          <5> QED BY <4>1, <3>3
        <4> HIDE DEF n, s, u
        <4> QED BY <4>1, <4>2, <1>1
      <3> QED BY <3>3, <3>4, <3>5
    <2>3. Last(s) = stack[c][Depth(c) - 1] /\ Last(s) \in Frame
      <3> HIDE DEF s
      <3> QED BY <1>1, <2>1 DEF Last
    <2>4. [Last(s) EXCEPT !.at = "finish", !.down = d] \in Frame
      <3> HIDE DEF s
      <3> QED BY <2>3 DEF Frame
    <2>5. /\ t \in Seq(Frame) /\ Len(t) = Depth(c) - 1
          /\ \A k \in 1 .. Depth(c) - 1 : t[k] =
                IF k = Depth(c) - 1 THEN [Last(s) EXCEPT !.at = "finish", !.down = d] ELSE stack[c][k]
      <3> HIDE DEF s, u
      <3> QED BY <1>1, <1>4, <2>2, <2>4
    <2>6. stack' = [stack EXCEPT ![c] = t]
      BY <1>2, <1>4
    <2> HIDE DEF t, s
    <2> QED BY <2>3, <2>5, <2>6 DEF StackType
  <1> QED BY <1>3, <1>4

-----------------------------------------------------------------------------
(* The rows: committed ones, and the one a session has flushed. *)

Committed == Cardinality(DOMAIN pipeline)
NextId == Committed + 1
SourceAt(k) == IF k = 1 THEN "api" ELSE "parent_pipeline"

RowsType ==
    /\ ci \in Ci
    /\ Committed \in Nat /\ Committed <= MaxPipelines /\ pipeline \in [1 .. Committed -> Pipe]
    /\ taken \subseteq 1 .. Committed /\ lost \subseteq 1 .. Committed

\* Committed ids are counted without a gap.
LEMMA CountOfRows ==
    ASSUME NEW n \in Nat, DOMAIN pipeline = 1 .. n
    PROVE  Committed = n
  BY FS_Interval DEF Committed

\* The same of a later state.
LEMMA CountOfRowsThen ==
    ASSUME NEW n \in Nat, DOMAIN pipeline' = 1 .. n
    PROVE  Committed' = n
  BY FS_Interval DEF Committed

\* A draft with a row is no empty draft.
LEMMA DraftIsSomething ==
    ASSUME NEW i, NEW row \in [{i} -> Pipe]
    PROVE  row # NoPipes
  BY DEF NoPipes

\* The commit of a draft adds its row ...
LEMMA MergedRow ==
    ASSUME NEW n \in Nat, NEW old \in [1 .. n -> Pipe], NEW row \in [{n + 1} -> Pipe]
    PROVE  /\ Merged(row, old) \in [1 .. n + 1 -> Pipe]
           /\ Merged(row, old)[n + 1] = row[n + 1]
           /\ \A i \in 1 .. n : Merged(row, old)[i] = old[i]
  <1>1. DOMAIN row \cup DOMAIN old = 1 .. n + 1
    OBVIOUS
  <1>2. Merged(row, old) = [i \in 1 .. n + 1 |-> IF i \in {n + 1} THEN row[i] ELSE old[i]]
    BY <1>1 DEF Merged
  <1> QED BY <1>2

\* ... and that of an empty one changes nothing.
LEMMA MergedNothing ==
    ASSUME NEW n \in Nat, NEW old \in [1 .. n -> Pipe]
    PROVE  Merged(NoPipes, old) = old
  <1>1. DOMAIN NoPipes = {}
    BY DEF NoPipes
  <1>2. Merged(NoPipes, old) = [i \in 1 .. n |-> old[i]]
    BY <1>1 DEF Merged
  <1> QED BY <1>2

\* The iids of a project, counted without a gap, and the one that is next.
LEMMA IidsOfProject ==
    ASSUME RowsType, IidsAreDense, NEW p \in CiProject
    PROVE  \E n \in Nat : Iids(p) = 1 .. n /\ NextIid(p) = n + 1
  <1> DEFINE rows == {j \in DOMAIN pipeline : pipeline[j].project = p}
             f == [j \in rows |-> pipeline[j].iid]
             n == Cardinality(Iids(p))
  <1>1. IsFiniteSet(rows)
    <2>1. IsFiniteSet(1 .. Committed) /\ rows \in SUBSET (1 .. Committed)
      BY FS_Interval DEF RowsType
    <2> QED BY <2>1, FS_Subset
  <1>2. f \in Surjection(rows, Iids(p))
    BY DEF Surjection, Iids
  <1>3. IsFiniteSet(Iids(p))
    <2> HIDE DEF f, rows
    <2> QED BY <1>1, <1>2, FS_Surjection
  <1>4. n \in Nat /\ Iids(p) = 1 .. n
    BY <1>3, FS_CardinalityType DEF IidsAreDense
  <1> HIDE DEF n
  <1>5. NextIid(p) = n + 1
    <2>1. n \in Iids(p) \cup {0} /\ \A y \in Iids(p) \cup {0} : n >= y
      BY <1>4
    <2>2. \A x \in Iids(p) \cup {0} : (\A y \in Iids(p) \cup {0} : x >= y) => x = n
      BY <2>1, <1>4
    <2>3. Max(Iids(p) \cup {0}) = n
      BY <2>1, <2>2 DEF Max
    <2> QED BY <2>3 DEF NextIid
  <1> QED BY <1>4, <1>5

\* The same before and after a step.
LEMMA NextIidIsNat ==
    RowsType /\ IidsAreDense => \A p \in CiProject : \E n \in Nat : NextIid(p) = n + 1
  BY IidsOfProject

\* The same of the state after a step.
LEMMA NextIidIsNatThen ==
    (RowsType /\ IidsAreDense)' => (\A p \in CiProject : \E n \in Nat : NextIid(p) = n + 1)'
  BY NextIidIsNat, PTL

\* Whatever a step does to the rows, it keeps their project and iid.
RowsKept == \A i \in 1 .. Committed :
    /\ pipeline'[i].project = pipeline[i].project /\ pipeline'[i].iid = pipeline[i].iid
    /\ pipeline'[i].source = pipeline[i].source /\ pipeline'[i].whole = pipeline[i].whole

\* A step that adds no row keeps the iids ...
LEMMA IidsStay ==
    ASSUME RowsType, IidsAreDense, RowsKept, pipeline' \in [1 .. Committed -> Pipe]
    PROVE  IidsAreDense' /\ \A p \in CiProject : NextIid(p)' = NextIid(p)
  <1>1. \A p \in CiProject : Iids(p)' = Iids(p)
    BY DEF RowsType, RowsKept, Iids
  <1>2. IidsAreDense'
    BY <1>1 DEF IidsAreDense, RowsType, RowsKept
  <1> QED BY <1>1, <1>2 DEF NextIid

\* ... and one that adds a row with the next iid extends them.
LEMMA IidsGrow ==
    ASSUME RowsType, IidsAreDense, RowsKept, pipeline' \in [1 .. Committed + 1 -> Pipe],
           pipeline'[NextId].iid = NextIid(pipeline'[NextId].project)
    PROVE  IidsAreDense' /\ \A p \in CiProject : NextIid(p)' >= NextIid(p)
  <1>q. PICK q \in CiProject : pipeline'[NextId].project = q
    BY DEF RowsType, NextId, Pipe
  <1>0. Committed \in Nat /\ NextId = Committed + 1 /\ NextId \in 1 .. Committed + 1
    BY DEF RowsType, NextId
  <1>1. ASSUME NEW p \in CiProject \ {q}
        PROVE  Iids(p)' = Iids(p)
    <2>1. \A i \in 1 .. Committed + 1 : i = NextId \/ i \in 1 .. Committed
      BY <1>0
    <2>2. \A i \in 1 .. Committed + 1 : pipeline'[i].project = p => i \in 1 .. Committed /\ pipeline[i].project = p
      BY <1>q, <2>1 DEF RowsKept
    <2> QED BY <1>0, <2>2 DEF RowsType, RowsKept, Iids
  <1>2. PICK n \in Nat : Iids(q) = 1 .. n /\ NextIid(q) = n + 1
    BY IidsOfProject
  <1>3. Iids(q)' = 1 .. n + 1
    <2>1. ASSUME NEW k \in 1 .. n + 1
          PROVE  \E i \in 1 .. Committed + 1 : pipeline'[i].project = q /\ pipeline'[i].iid = k
      <3>1. CASE k = n + 1
        BY <1>0, <1>2, <1>q, <3>1
      <3>2. CASE k # n + 1
        <4>1. k \in Iids(q)
          BY <1>2, <3>2
        <4>2. PICK i \in 1 .. Committed : pipeline[i].project = q /\ pipeline[i].iid = k
          BY <4>1 DEF Iids, RowsType
        <4> QED BY <1>0, <4>2 DEF RowsKept
      <3> QED BY <3>1, <3>2
    <2>2. ASSUME NEW i \in 1 .. Committed + 1, pipeline'[i].project = q
          PROVE  pipeline'[i].iid \in 1 .. n + 1
      <3>1. CASE i = NextId
        BY <1>2, <1>q, <3>1
      <3>2. CASE i # NextId
        <4>1. i \in 1 .. Committed /\ pipeline[i].project = q /\ pipeline'[i].iid = pipeline[i].iid
          BY <1>0, <2>2, <3>2 DEF RowsKept
        <4>2. pipeline[i].iid \in Iids(q)
          BY <4>1 DEF Iids, RowsType
        <4> QED BY <1>2, <4>1, <4>2
      <3> QED BY <3>1, <3>2
    <2>3. DOMAIN pipeline' = 1 .. Committed + 1
      OBVIOUS
    <2> QED BY <2>1, <2>2, <2>3 DEF Iids
  <1>4. NextIid(q)' >= NextIid(q)
    <2>0. NextIid(q)' = Max((1 .. n + 1) \cup {0}) + 1
      BY <1>3 DEF NextIid
    <2>1. \A x \in (1 .. n + 1) \cup {0} : (\A y \in (1 .. n + 1) \cup {0} : x >= y) => x = n + 1
      OBVIOUS
    <2>2. n + 1 \in (1 .. n + 1) \cup {0} /\ \A y \in (1 .. n + 1) \cup {0} : n + 1 >= y
      OBVIOUS
    <2>3. Max((1 .. n + 1) \cup {0}) = n + 1
      BY <2>1, <2>2 DEF Max
    <2> QED BY <1>2, <2>0, <2>3
  <1>5. \A p \in CiProject : NextIid(p)' >= NextIid(p)
    <2> TAKE p \in CiProject
    <2>1. PICK k \in Nat : NextIid(p) = k + 1
      BY IidsOfProject
    <2>2. CASE p # q
      <3>1. Iids(p)' = Iids(p)
        BY <1>1, <2>2
      <3>2. NextIid(p)' = NextIid(p)
        BY <3>1 DEF NextIid
      <3> QED BY <2>1, <3>2
    <2> QED BY <1>4, <2>2
  <1>6. IidsAreDense'
    <2>1. ASSUME NEW p \in CiProject
          PROVE  Iids(p)' = 1 .. Cardinality(Iids(p)')
      <3>1. CASE p = q
        <4>1. Cardinality(1 .. n + 1) = n + 1
          BY FS_Interval
        <4> QED BY <1>3, <3>1, <4>1, Zenon
      <3>2. CASE p # q
        BY <1>1, <3>2 DEF IidsAreDense
      <3> QED BY <3>1, <3>2
    <2>2. ASSUME NEW i \in 1 .. Committed + 1, NEW j \in 1 .. Committed + 1, i # j,
                 pipeline'[i].project = pipeline'[j].project
          PROVE  pipeline'[i].iid # pipeline'[j].iid
      <3>1. ASSUME NEW k \in 1 .. Committed, pipeline[k].project = q
            PROVE  pipeline[k].iid # n + 1
        <4>1. pipeline[k].iid \in Iids(q)
          BY <3>1 DEF Iids, RowsType
        <4> QED BY <1>2, <4>1
      <3>2. pipeline'[NextId].iid = n + 1 /\ pipeline'[NextId].project = q
        BY <1>2, <1>q
      <3>3. CASE i \in 1 .. Committed /\ j \in 1 .. Committed
        BY <2>2, <3>3 DEF IidsAreDense, RowsKept, RowsType, Pipe
      <3>4. CASE i = NextId /\ j \in 1 .. Committed
        BY <2>2, <3>1, <3>2, <3>4 DEF RowsKept
      <3>5. CASE j = NextId /\ i \in 1 .. Committed
        BY <2>2, <3>1, <3>2, <3>5 DEF RowsKept
      <3> QED BY <1>0, <2>2, <3>3, <3>4, <3>5
    <2> QED BY <2>1, <2>2 DEF IidsAreDense
  <1> QED BY <1>5, <1>6

-----------------------------------------------------------------------------
(* The inductive invariant of the creation. *)

\* A committed downstream pipeline with all its jobs.
IsChild(d) == d \in 1 .. Committed /\ pipeline[d].whole /\ pipeline[d].source = "parent_pipeline"

\* What the k-th of n frames of a call knows is so.
FrameFits(f, k, n) ==
    /\ k < n => f.at = "bridge"
    /\ f.at \in {"validate", "insert"} => f.id = 0
    /\ f.at = "insert" => f.iid \in 1 .. NextIid(f.project)
    /\ f.at = "bridge" => ci[f.project] \in CiProject
    /\ f.at \in {"bridge", "finish"} =>
          /\ f.id \in 1 .. Committed /\ pipeline[f.id].whole
          /\ pipeline[f.id].down = 0 /\ pipeline[f.id].source = SourceAt(k)
    /\ f.at # "finish" => f.down = 0
    /\ f.down # 0 => IsChild(f.down) /\ f.id # f.down

FramesFit == \A c \in Creator : \A k \in 1 .. Depth(c) : FrameFits(stack[c][k], k, Depth(c))

\* A call with a draft holds the write lock: its row is the next one, made by
\* the frame at the top, or by one above it that failed.
DraftFits(c) ==
    /\ At(c, "jobs") => draft[c] # NoPipes
    /\ draft[c] # NoPipes =>
          /\ CanWrite(c) /\ stack[c] # <<>>
          /\ NextId <= MaxPipelines /\ draft[c] \in [{NextId} -> Pipe]
          /\ draft[c][NextId].iid = NextIid(draft[c][NextId].project)
          /\ ~draft[c][NextId].whole /\ draft[c][NextId].down = 0 /\ draft[c][NextId].bridge = "none"
          /\ \/ /\ Top(c).at = "jobs" /\ Top(c).id = NextId
                /\ draft[c][NextId].source = SourceAt(Depth(c))
             \/ /\ Top(c).at = "finish" /\ Top(c).down = 0
                /\ draft[c][NextId].source = "parent_pipeline"

DraftsFit == DOMAIN draft = Creator /\ draft = [c \in Creator |-> draft[c]]
             /\ \A c \in Creator : DraftFits(c)

\* No two frames, and no frame and bridge, hold one pipeline.
Refs(f) == {f.id, f.down} \ {0}

FramesApart == \A c, d \in Creator : \A k \in 1 .. Depth(c), l \in 1 .. Depth(d) :
    Refs(stack[c][k]) \cap Refs(stack[d][l]) # {} => c = d /\ k = l

LinkFits(i) == pipeline[i].down # 0 =>
    /\ IsChild(pipeline[i].down)
    /\ \A j \in 1 .. Committed : pipeline[j].down = pipeline[i].down => j = i
    /\ \A c \in Creator : \A k \in 1 .. Depth(c) : pipeline[i].down \notin Refs(stack[c][k])

LinksFit == \A i \in 1 .. Committed : LinkFits(i)

\* A bridge that runs was taken, one that succeeded was taken or is linked, and
\* only a downstream pipeline is committed without its jobs.
RowTells(i) ==
    /\ pipeline[i].bridge = "running" => i \in taken
    /\ pipeline[i].bridge = "success" => i \in taken \/ pipeline[i].down # 0
    /\ pipeline[i].whole \/ pipeline[i].source = "parent_pipeline"

RowsTell == \A i \in 1 .. Committed : RowTells(i)

CreationInv ==
    /\ RowsType /\ StackType /\ IidsAreDense
    /\ DraftsFit /\ FramesFit /\ FramesApart /\ LinksFit /\ RowsTell /\ DownstreamIsLinked

\* Nothing is there at first.
LEMMA CreationStarts == CreationInit => CreationInv
  <1> SUFFICES ASSUME CreationInit
               PROVE  CreationInv
    OBVIOUS
  <1>1. DOMAIN pipeline = 1 .. 0
    BY DEF CreationInit, NoPipes
  <1>2. Committed = 0
    BY <1>1, CountOfRows
  <1>3. pipeline \in [1 .. Committed -> Pipe]
    <2>1. pipeline = [i \in 1 .. Committed |-> pipeline[i]] /\ 1 .. Committed = {}
      BY <1>1, <1>2 DEF CreationInit, NoPipes
    <2> QED BY <2>1
  <1>4. RowsType /\ StackType
    BY <1>2, <1>3, CreationBounds DEF CreationInit, RowsType, StackType
  <1>5. \A c \in Creator : stack[c] = <<>> /\ draft[c] = NoPipes
    BY DEF CreationInit
  <1>6. \A c \in Creator : 1 .. Depth(c) = {}
    BY <1>5 DEF Depth
  <1>7. DraftsFit
    BY <1>5 DEF DraftsFit, DraftFits, At, CreationInit
  <1>8. FramesFit /\ FramesApart /\ LinksFit /\ RowsTell
    BY <1>2, <1>6 DEF FramesFit, FramesApart, LinksFit, RowsTell
  <1>9. IidsAreDense
    <2>1. \A p \in CiProject : Iids(p) = {}
      BY <1>1 DEF Iids
    <2>2. \A p \in CiProject : Iids(p) = 1 .. Cardinality(Iids(p))
      BY <2>1, FS_EmptySet
    <2> QED BY <1>1, <2>2 DEF IidsAreDense
  <1>10. DownstreamIsLinked
    BY <1>1 DEF DownstreamIsLinked
  <1> QED BY <1>4, <1>7, <1>8, <1>9, <1>10 DEF CreationInv

\* A step that changes no row and only the stack of one call, whose frames go
\* on knowing what is so and hold the pipelines they held.
LEMMA StackStep ==
    ASSUME CreationInv, NEW c \in Creator, UNCHANGED <<ci, pipeline, taken, lost>>,
           stack' \in [Creator -> Seq(Frame)],
           \A d \in Creator \ {c} : stack'[d] = stack[d],
           \A k \in 1 .. Len(stack'[c]) :
               /\ FrameFits(stack'[c][k], k, Len(stack'[c]))
               /\ Refs(stack'[c][k]) # {} => k \in 1 .. Depth(c) /\ Refs(stack'[c][k]) \subseteq Refs(stack[c][k]),
           \A k \in 1 .. Depth(c) : \A r \in Refs(stack[c][k]) :
               r \in 1 .. Committed => k \in 1 .. Len(stack'[c]) /\ r \in Refs(stack'[c][k])
    PROVE  /\ RowsType' /\ StackType' /\ IidsAreDense' /\ FramesFit' /\ FramesApart'
           /\ LinksFit' /\ RowsTell' /\ DownstreamIsLinked'
  <1> USE DEF CreationInv
  <1>0. Committed' = Committed /\ pipeline' = pipeline /\ ci' = ci /\ taken' = taken /\ lost' = lost
    BY DEF Committed
  <1>1. RowsType' /\ StackType'
    BY <1>0 DEF RowsType, StackType
  <1>2. IidsAreDense' /\ \A p : NextIid(p)' = NextIid(p)
    BY <1>0 DEF IidsAreDense, NextIid, Iids
  <1>3. \A f, k, n : FrameFits(f, k, n)' <=> FrameFits(f, k, n)
    BY <1>0, <1>2 DEF FrameFits, IsChild
  <1>4. \A d \in Creator : \A k \in 1 .. Depth(d)' : FrameFits(stack'[d][k], k, Depth(d)')
    BY DEF FramesFit, Depth
  <1>5. FramesFit'
    BY <1>3, <1>4 DEF FramesFit
  <1>6. \A d \in Creator : \A k \in 1 .. Depth(d)' : Refs(stack'[d][k]) # {} =>
           k \in 1 .. Depth(d) /\ Refs(stack'[d][k]) \subseteq Refs(stack[d][k])
    BY DEF Depth
  <1>7. FramesApart'
    <2> SUFFICES ASSUME NEW d \in Creator, NEW e \in Creator,
                        NEW k \in 1 .. Depth(d)', NEW l \in 1 .. Depth(e)',
                        Refs(stack'[d][k]) \cap Refs(stack'[e][l]) # {}
                 PROVE  d = e /\ k = l
      BY DEF FramesApart, Refs
    <2>1. k \in 1 .. Depth(d) /\ l \in 1 .. Depth(e) /\ Refs(stack[d][k]) \cap Refs(stack[e][l]) # {}
      BY <1>6
    <2> QED BY <2>1 DEF FramesApart
  <1>8. LinksFit'
    <2> SUFFICES ASSUME NEW i \in 1 .. Committed, pipeline[i].down # 0
                 PROVE  LinkFits(i)'
      BY <1>0 DEF LinksFit, LinkFits
    <2>1. LinkFits(i)
      BY DEF LinksFit
    <2>2. \A d \in Creator : \A k \in 1 .. Depth(d)' : pipeline[i].down \notin Refs(stack'[d][k])
      BY <1>6, <2>1 DEF LinkFits
    <2> QED BY <1>0, <2>1, <2>2 DEF LinkFits, IsChild, Refs
  <1>9. RowsTell'
    BY <1>0 DEF RowsTell, RowTells
  <1>10. DownstreamIsLinked'
    <2> SUFFICES ASSUME NEW d \in (DOMAIN pipeline) \ lost,
                        pipeline[d].source = "parent_pipeline", pipeline[d].whole,
                        ~\E i \in DOMAIN pipeline : pipeline[i].down = d
                 PROVE  \E e \in Creator : \E k \in DOMAIN stack'[e] : d \in {stack'[e][k].id, stack'[e][k].down}
      BY <1>0 DEF DownstreamIsLinked
    <2>1. PICK e \in Creator : \E k \in DOMAIN stack[e] : d \in {stack[e][k].id, stack[e][k].down}
      BY DEF DownstreamIsLinked
    <2>2. PICK k \in 1 .. Depth(e) : d \in {stack[e][k].id, stack[e][k].down}
      BY <2>1 DEF StackType, Depth
    <2>3. d \in 1 .. Committed /\ d \in Refs(stack[e][k])
      BY <2>2 DEF RowsType, Refs
    <2>4. k \in 1 .. Len(stack'[e]) /\ d \in Refs(stack'[e][k])
      BY <2>3 DEF Depth
    <2> QED BY <2>4 DEF Refs
  <1> QED BY <1>1, <1>2, <1>5, <1>7, <1>8, <1>9, <1>10

\* A new frame holds nothing.
LEMMA NewFrameFits ==
    ASSUME NEW p \in CiProject, NEW n \in Nat \ {0}
    PROVE  /\ NewFrame(p) \in Frame /\ Refs(NewFrame(p)) = {}
           /\ FrameFits(NewFrame(p), n, n)
  BY DEF NewFrame, Frame, Refs, FrameFits

\* What is known of the frame a call works in.
LEMMA TopFits ==
    ASSUME CreationInv, NEW c \in Creator, stack[c] # <<>>
    PROVE  /\ Depth(c) \in Nat \ {0} /\ Top(c) = stack[c][Depth(c)] /\ Top(c) \in Frame
           /\ FrameFits(Top(c), Depth(c), Depth(c)) /\ DraftFits(c)
  BY TopIsFrame DEF CreationInv, FramesFit, DraftsFit

\* Drafts of calls that a step leaves alone.
LEMMA OtherDrafts ==
    ASSUME CreationInv, NEW c \in Creator, UNCHANGED <<ci, pipeline>>,
           \A d \in Creator \ {c} : stack'[d] = stack[d] /\ draft'[d] = draft[d],
           draft'[c] = NoPipes \/ draft'[c] = draft[c] \/ CanWrite(c)
    PROVE  \A d \in Creator \ {c} : DraftFits(d)'
  <1> TAKE d \in Creator \ {c}
  <1>1. DraftFits(d)
    BY DEF CreationInv, DraftsFit
  <1>2. NextId' = NextId /\ \A p : NextIid(p)' = NextIid(p)
    BY DEF NextId, Committed, NextIid, Iids
  <1>3. /\ draft'[d] = draft[d] /\ stack'[d] = stack[d] /\ Depth(d)' = Depth(d)
        /\ Top(d)' = Top(d) /\ \A where : At(d, where)' <=> At(d, where)
    BY DEF Depth, Top, At
  <1>4. draft[d] # NoPipes => CanWrite(d)'
    BY <1>1 DEF DraftFits, CanWrite
  <1> QED BY <1>1, <1>2, <1>3, <1>4 DEF DraftFits

\* The start of a call.
LEMMA CreatePipelineKeeps ==
    ASSUME CreationInv, NEW c \in Creator, NEW p \in CiProject, CreatePipeline(c, p)
    PROVE  CreationInv'
  <1>1. /\ stack[c] = <<>> /\ Depth(c) = 0 /\ draft[c] = NoPipes
        /\ UNCHANGED <<ci, pipeline, draft, taken, lost>>
    BY DEF CreatePipeline, CreationInv, DraftsFit, DraftFits, Depth
  <1>2. /\ stack' \in [Creator -> Seq(Frame)] /\ \A d \in Creator \ {c} : stack'[d] = stack[d]
        /\ stack'[c] = <<NewFrame(p)>>
    <2>1. NewFrame(p) \in Frame
      BY NewFrameFits
    <2> QED BY <2>1 DEF CreatePipeline, CreationInv, StackType
  <1>3. Len(stack'[c]) = 1 /\ stack'[c][1] = NewFrame(p)
    BY <1>2
  <1>4. \A k \in 1 .. Len(stack'[c]) :
            FrameFits(stack'[c][k], k, Len(stack'[c])) /\ Refs(stack'[c][k]) = {}
    <2>1. FrameFits(NewFrame(p), 1, 1) /\ Refs(NewFrame(p)) = {}
      BY NewFrameFits
    <2> QED BY <1>3, <2>1
  <1>5. /\ RowsType' /\ StackType' /\ IidsAreDense' /\ FramesFit' /\ FramesApart'
        /\ LinksFit' /\ RowsTell' /\ DownstreamIsLinked'
    <2>1. \A k \in 1 .. Len(stack'[c]) :
              /\ FrameFits(stack'[c][k], k, Len(stack'[c]))
              /\ Refs(stack'[c][k]) # {} => k \in 1 .. Depth(c) /\ Refs(stack'[c][k]) \subseteq Refs(stack[c][k])
      BY <1>4
    <2>2. 1 .. Depth(c) = {}
      BY <1>1
    <2> QED BY <1>1, <1>2, <2>1, <2>2, StackStep
  <1>6. DraftsFit'
    <2>1. \A d \in Creator \ {c} : DraftFits(d)'
      BY <1>1, <1>2, OtherDrafts
    <2>2. DraftFits(c)'
      <3>1. Top(c)' = NewFrame(p)
        BY <1>3 DEF Top, Last
      <3> QED BY <1>1, <3>1 DEF DraftFits, At, NewFrame
    <2> QED BY <1>1, <2>1, <2>2 DEF CreationInv, DraftsFit
  <1> QED BY <1>5, <1>6 DEF CreationInv

\* The checks of the file.
LEMMA ValidateKeeps ==
    ASSUME CreationInv, NEW c \in Creator, Validate(c)
    PROVE  CreationInv'
  <1> DEFINE f == [Top(c) EXCEPT !.at = "insert", !.iid = NextIid(Top(c).project)]
  <1>1. /\ stack[c] # <<>> /\ Top(c).at = "validate" /\ stack' = WithTop(c, f)
        /\ UNCHANGED <<ci, pipeline, draft, taken, lost>>
    BY DEF Validate, At
  <1>2. /\ Depth(c) \in Nat \ {0} /\ Top(c) = stack[c][Depth(c)] /\ Top(c) \in Frame
        /\ FrameFits(Top(c), Depth(c), Depth(c)) /\ DraftFits(c)
    BY <1>1, TopFits
  <1>3. PICK n \in Nat : NextIid(Top(c).project) = n + 1
    BY <1>2, IidsOfProject DEF CreationInv, Frame
  <1>4. /\ f \in Frame /\ f.at = "insert" /\ f.iid = n + 1 /\ f.project = Top(c).project
        /\ f.id = Top(c).id /\ f.down = Top(c).down
    <2> DEFINE t == Top(c)
               i == NextIid(t.project)
    <2>1. t \in Frame /\ i = n + 1 /\ i \in Nat
      BY <1>2, <1>3
    <2>2. f = [t EXCEPT !.at = "insert", !.iid = i]
      OBVIOUS
    <2> HIDE DEF f, t, i
    <2>3. /\ f \in Frame /\ f.at = "insert" /\ f.iid = i /\ f.project = t.project
          /\ f.id = t.id /\ f.down = t.down
      BY <2>1, <2>2 DEF Frame
    <2> QED BY <2>1, <2>3 DEF t
  <1> HIDE DEF f
  <1>5. /\ FrameFits(f, Depth(c), Depth(c)) /\ Refs(f) = Refs(Top(c))
    BY <1>1, <1>2, <1>3, <1>4 DEF FrameFits, Refs
  <1>6. /\ stack' \in [Creator -> Seq(Frame)] /\ \A d \in Creator \ {c} : stack'[d] = stack[d]
        /\ stack'[c] # <<>> /\ Len(stack'[c]) = Depth(c)
        /\ \A k \in 1 .. Depth(c) : stack'[c][k] = IF k = Depth(c) THEN f ELSE stack[c][k]
    BY <1>1, <1>4, WithTopChangesTop DEF CreationInv
  <1>7. /\ RowsType' /\ StackType' /\ IidsAreDense' /\ FramesFit' /\ FramesApart'
        /\ LinksFit' /\ RowsTell' /\ DownstreamIsLinked'
    <2>1. \A k \in 1 .. Len(stack'[c]) :
              FrameFits(stack'[c][k], k, Len(stack'[c])) /\ Refs(stack'[c][k]) = Refs(stack[c][k])
      BY <1>2, <1>5, <1>6 DEF CreationInv, FramesFit
    <2> QED BY <1>1, <1>6, <2>1, StackStep
  <1>8. DraftsFit'
    <2>1. \A d \in Creator \ {c} : DraftFits(d)'
      BY <1>1, <1>6, OtherDrafts
    <2>2. Top(c)' = f
      BY <1>2, <1>6 DEF Top, Last
    <2>3. draft[c] = NoPipes
      BY <1>1, <1>2 DEF DraftFits
    <2>4. DraftFits(c)'
      BY <1>1, <1>4, <2>2, <2>3 DEF DraftFits, At
    <2> QED BY <1>1, <2>1, <2>4 DEF CreationInv, DraftsFit
  <1> QED BY <1>7, <1>8 DEF CreationInv

\* The call for the bridge's project.
LEMMA BridgeKeeps ==
    ASSUME CreationInv, NEW c \in Creator, Bridge(c)
    PROVE  CreationInv'
  <1> DEFINE f == NewFrame(ci[Top(c).project])
             n == Depth(c) + 1
  <1>1. /\ stack[c] # <<>> /\ Top(c).at = "bridge" /\ stack' = [stack EXCEPT ![c] = Append(stack[c], f)]
        /\ UNCHANGED <<ci, pipeline, draft, taken, lost>>
    BY DEF Bridge, At, CreationInv, StackType
  <1>2. /\ Depth(c) \in Nat \ {0} /\ Top(c) = stack[c][Depth(c)] /\ Top(c) \in Frame
        /\ FrameFits(Top(c), Depth(c), Depth(c)) /\ DraftFits(c)
    BY <1>1, TopFits
  <1>3. f \in Frame /\ Refs(f) = {} /\ FrameFits(f, n, n) /\ f.at = "validate"
    <2>1. ci[Top(c).project] \in CiProject /\ n \in Nat \ {0}
      BY <1>1, <1>2 DEF FrameFits
    <2> QED BY <2>1, NewFrameFits DEF NewFrame
  <1> HIDE DEF f
  <1>4. /\ stack' \in [Creator -> Seq(Frame)] /\ \A d \in Creator \ {c} : stack'[d] = stack[d]
        /\ Len(stack'[c]) = n
        /\ \A k \in 1 .. n : stack'[c][k] = IF k = n THEN f ELSE stack[c][k]
    BY <1>1, <1>3, CallPushes DEF CreationInv, StackType
  <1>5. \A k \in 1 .. Depth(c) : FrameFits(stack[c][k], k, n)
    <2>1. \A k \in 1 .. Depth(c) : stack[c][k].at = "bridge" /\ FrameFits(stack[c][k], k, Depth(c))
      BY <1>1, <1>2 DEF CreationInv, FramesFit, FrameFits
    <2> QED BY <2>1 DEF FrameFits
  <1>6. /\ RowsType' /\ StackType' /\ IidsAreDense' /\ FramesFit' /\ FramesApart'
        /\ LinksFit' /\ RowsTell' /\ DownstreamIsLinked'
    <2>1. \A k \in 1 .. n : k = n \/ k \in 1 .. Depth(c)
      BY <1>2
    <2>2. \A k \in 1 .. Len(stack'[c]) :
              /\ FrameFits(stack'[c][k], k, Len(stack'[c]))
              /\ Refs(stack'[c][k]) # {} => k \in 1 .. Depth(c) /\ Refs(stack'[c][k]) \subseteq Refs(stack[c][k])
      BY <1>3, <1>4, <1>5, <2>1
    <2>3. \A k \in 1 .. Depth(c) : k \in 1 .. Len(stack'[c]) /\ stack'[c][k] = stack[c][k]
      BY <1>2, <1>4
    <2> QED BY <1>1, <1>4, <2>2, <2>3, StackStep
  <1>7. DraftsFit'
    <2>1. \A d \in Creator \ {c} : DraftFits(d)'
      BY <1>1, <1>4, OtherDrafts
    <2>2. Top(c)' = f
      BY <1>2, <1>4 DEF Top, Last
    <2>3. draft[c] = NoPipes
      BY <1>1, <1>2 DEF DraftFits
    <2>4. DraftFits(c)'
      BY <1>1, <1>3, <2>2, <2>3 DEF DraftFits, At
    <2> QED BY <1>1, <2>1, <2>4 DEF CreationInv, DraftsFit
  <1> QED BY <1>6, <1>7 DEF CreationInv

\* The caller's frame, once the one above it returns d.
Told(f, d) == [f EXCEPT !.at = "finish", !.down = d]

\* A caller fits its place once it is told which downstream pipeline it has got.
LEMMA ToldFits ==
    ASSUME CreationInv, NEW c \in Creator, NEW k \in 1 .. Depth(c) - 1, NEW d \in Nat,
           d # 0 => IsChild(d) /\ d \notin Refs(stack[c][k])
    PROVE  /\ stack[c][k] \in Frame /\ stack[c][k].at = "bridge"
           /\ stack[c][k].id \in 1 .. Committed /\ stack[c][k].down = 0
           /\ Told(stack[c][k], d) \in Frame
           /\ FrameFits(Told(stack[c][k], d), k, k)
           /\ FrameFits(stack[c][k], k, Depth(c) - 1)
           /\ Refs(Told(stack[c][k], d)) = Refs(stack[c][k]) \cup ({d} \ {0})
  <1> DEFINE f == stack[c][k]
             g == Told(f, d)
  <1>1. Depth(c) \in Nat /\ k \in 1 .. Depth(c) /\ k < Depth(c) /\ f \in Frame
    BY DEF CreationInv, StackType, Depth
  <1>2. FrameFits(f, k, Depth(c))
    BY <1>1 DEF CreationInv, FramesFit
  <1>3. f.at = "bridge" /\ f.down = 0 /\ f.id \in 1 .. Committed /\ f.id # 0
    BY <1>1, <1>2 DEF FrameFits
  <1> HIDE DEF f
  <1>4. g \in Frame /\ g.at = "finish" /\ g.id = f.id /\ g.down = d
    BY <1>1 DEF Told, Frame
  <1>5. Refs(f) = {f.id}
    BY <1>3 DEF Refs
  <1> HIDE DEF g
  <1>6. Refs(g) = Refs(f) \cup ({d} \ {0})
    BY <1>3, <1>4, <1>5 DEF Refs
  <1>7. FrameFits(g, k, k)
    BY <1>2, <1>3, <1>4, <1>5 DEF FrameFits, f
  <1>8. FrameFits(f, k, Depth(c) - 1)
    BY <1>2, <1>3 DEF FrameFits
  <1> QED BY <1>1, <1>3, <1>4, <1>6, <1>7, <1>8 DEF f, g

\* What a return leaves of the frames.
LEMMA ReturnTells ==
    ASSUME StackType, NEW c \in Creator, stack[c] # <<>>, NEW d \in Nat, Return(c, d)
    PROVE  /\ Depth(c) \in Nat \ {0}
           /\ stack' \in [Creator -> Seq(Frame)] /\ \A e \in Creator \ {c} : stack'[e] = stack[e]
           /\ Len(stack'[c]) = Depth(c) - 1
           /\ \A k \in 1 .. Depth(c) - 1 :
                 stack'[c][k] = IF k = Depth(c) - 1 THEN Told(stack[c][k], d) ELSE stack[c][k]
  BY TopIsFrame, ReturnPops DEF Told

\* An error that the caller of _create_pipeline sees.
LEMMA RaiseKeeps ==
    ASSUME CreationInv, NEW c \in Creator, Raise(c), At(c, "validate") \/ At(c, "jobs")
    PROVE  CreationInv'
  <1> DEFINE n == Depth(c)
  <1>1. /\ stack[c] # <<>> /\ Top(c).at \in {"validate", "jobs"} /\ Return(c, 0)
        /\ draft' = IF n = 1 THEN [draft EXCEPT ![c] = NoPipes] ELSE draft
        /\ UNCHANGED <<ci, pipeline, taken, lost>>
    BY DEF Raise, At, Depth
  <1>2. /\ n \in Nat \ {0} /\ Top(c) = stack[c][n] /\ Top(c) \in Frame
        /\ FrameFits(Top(c), n, n) /\ DraftFits(c)
    BY <1>1, TopFits
  <1>3. /\ stack' \in [Creator -> Seq(Frame)] /\ \A e \in Creator \ {c} : stack'[e] = stack[e]
        /\ Len(stack'[c]) = n - 1
        /\ \A k \in 1 .. n - 1 :
              stack'[c][k] = IF k = n - 1 THEN Told(stack[c][k], 0) ELSE stack[c][k]
    BY <1>1, ReturnTells DEF CreationInv
  <1>4. \A k \in 1 .. n - 1 : /\ FrameFits(Told(stack[c][k], 0), k, k)
                              /\ FrameFits(stack[c][k], k, n - 1)
                              /\ Refs(Told(stack[c][k], 0)) = Refs(stack[c][k])
    <2> TAKE k \in 1 .. n - 1
    <2>1. /\ FrameFits(Told(stack[c][k], 0), k, k) /\ FrameFits(stack[c][k], k, n - 1)
          /\ Refs(Told(stack[c][k], 0)) = Refs(stack[c][k]) \cup ({0} \ {0})
      BY ToldFits
    <2>2. Refs(stack[c][k]) \cup ({0} \ {0}) = Refs(stack[c][k])
      OBVIOUS
    <2> QED BY <2>1, <2>2
  <1>5. \A r \in Refs(Top(c)) : r \notin 1 .. Committed
    <2>1. Top(c).at = "jobs" => Top(c).id = NextId
      BY <1>1, <1>2 DEF DraftFits, At
    <2>2. Top(c).down = 0 /\ Top(c).id \in {0, NextId}
      BY <1>1, <1>2, <2>1 DEF FrameFits
    <2> QED BY <2>2 DEF Refs, NextId, CreationInv, RowsType
  <1>6. /\ RowsType' /\ StackType' /\ IidsAreDense' /\ FramesFit' /\ FramesApart'
        /\ LinksFit' /\ RowsTell' /\ DownstreamIsLinked'
    <2>1. \A k \in 1 .. Len(stack'[c]) : /\ k \in 1 .. Depth(c)
                                         /\ FrameFits(stack'[c][k], k, Len(stack'[c]))
                                         /\ Refs(stack'[c][k]) = Refs(stack[c][k])
      BY <1>2, <1>3, <1>4
    <2>2. \A k \in 1 .. Depth(c) : \A r \in Refs(stack[c][k]) :
              r \in 1 .. Committed => k \in 1 .. Len(stack'[c]) /\ r \in Refs(stack'[c][k])
      BY <1>2, <1>3, <1>4, <1>5
    <2> QED BY <1>1, <1>3, <2>1, <2>2, StackStep
  <1>7. DraftsFit'
    <2>1. \A d \in Creator \ {c} : DraftFits(d)'
      <3>1. \A d \in Creator \ {c} : draft'[d] = draft[d]
        BY <1>1 DEF CreationInv, DraftsFit
      <3>2. draft'[c] = NoPipes \/ draft'[c] = draft[c]
        BY <1>1 DEF CreationInv, DraftsFit
      <3> QED BY <1>1, <1>3, <3>1, <3>2, OtherDrafts
    <2>2. CASE n = 1
      <3>1. stack'[c] = <<>> /\ draft'[c] = NoPipes
        BY <1>1, <1>3, <2>2 DEF CreationInv, DraftsFit
      <3>2. DraftFits(c)'
        BY <3>1 DEF DraftFits, At
      <3> QED BY <1>1, <2>1, <2>2, <3>2 DEF CreationInv, DraftsFit
    <2>3. CASE n # 1
      <3>1. /\ stack'[c] # <<>> /\ Top(c)' = Told(stack[c][n - 1], 0) /\ draft' = draft
        BY <1>1, <1>2, <1>3, <2>3 DEF Top, Last
      <3>2. Top(c)'.at = "finish" /\ Top(c)'.down = 0
        <4>1. n - 1 \in 1 .. n - 1
          BY <1>2, <2>3
        <4>2. stack[c][n - 1] \in Frame
          BY <4>1, ToldFits
        <4> QED BY <3>1, <4>2 DEF Told, Frame
      <3>3. NextId' = NextId /\ \A p : NextIid(p)' = NextIid(p)
        BY <1>1 DEF NextId, Committed, NextIid, Iids
      <3>4. draft[c] # NoPipes => CanWrite(c)'
        BY <1>2, <3>1 DEF DraftFits, CanWrite
      <3>5. draft[c] # NoPipes => draft[c][NextId].source = "parent_pipeline"
        BY <1>1, <1>2, <2>3 DEF DraftFits, SourceAt
      <3>6. DraftFits(c)'
        BY <1>2, <3>1, <3>2, <3>3, <3>4, <3>5 DEF DraftFits, At
      <3> QED BY <2>1, <3>1, <3>6 DEF CreationInv, DraftsFit
    <2> QED BY <2>2, <2>3
  <1> QED BY <1>6, <1>7 DEF CreationInv

\* The first insert, which takes the write lock.
LEMMA InsertKeeps ==
    ASSUME CreationInv, NEW c \in Creator, Insert(c)
    PROVE  CreationInv'
  <1> DEFINE t == Top(c)
             n == Depth(c)
             f == [t EXCEPT !.at = "jobs", !.id = NextId]
             row == [project |-> t.project, iid |-> t.iid, whole |-> FALSE, bridge |-> "none", down |-> 0,
                     source |-> SourceAt(n)]
             new == [k \in {NextId} |-> row]
  <1>1. /\ stack[c] # <<>> /\ t.at = "insert" /\ CanWrite(c) /\ t.iid \notin Iids(t.project)
        /\ NextId <= MaxPipelines /\ stack' = WithTop(c, f)
        /\ UNCHANGED <<ci, pipeline, taken, lost>>
    <2>1. 1 + Cardinality(DOMAIN pipeline) = NextId
      BY DEF NextId, Committed, CreationInv, RowsType
    <2> QED BY <2>1 DEF Insert, At, TakesIid
  <1>2. /\ n \in Nat \ {0} /\ t = stack[c][n] /\ t \in Frame
        /\ FrameFits(t, n, n) /\ DraftFits(c)
    BY <1>1, TopFits
  <1>3. draft[c] = NoPipes
    BY <1>1, <1>2 DEF DraftFits
  <1>4. draft' = [draft EXCEPT ![c] = new] /\ new \in [{NextId} -> Pipe] /\ new[NextId] = row /\ new # NoPipes
    <2>1. 1 + Cardinality(DOMAIN pipeline) = NextId
      BY DEF NextId, Committed, CreationInv, RowsType
    <2>2. draft' = [draft EXCEPT ![c] = Merged(new, NoPipes)]
      <3>1. draft' = [draft EXCEPT ![c] = Merged(
               [k \in {NextId} |-> [project |-> t.project, iid |-> t.iid, whole |-> FALSE, bridge |-> "none",
                   down |-> 0,
                               source |-> IF Len(stack[c]) = 1 THEN "api" ELSE "parent_pipeline"]], draft[c])]
        BY <2>1 DEF Insert, CreationInv, DraftsFit
      <3> QED BY <1>3, <3>1 DEF SourceAt, Depth
    <2>3. Merged(new, NoPipes) = new
      <3>1. DOMAIN NoPipes = {}
        BY DEF NoPipes
      <3> QED BY <3>1 DEF Merged
    <2>4. row \in Pipe
      BY <1>2 DEF Pipe, Frame, SourceAt, BridgeStatus
    <2>5. new \in [{NextId} -> Pipe]
      BY <2>4
    <2> QED BY <2>2, <2>3, <2>5, DraftIsSomething
  <1>5. t.iid = NextIid(t.project)
    <2>1. PICK m \in Nat : Iids(t.project) = 1 .. m /\ NextIid(t.project) = m + 1
      BY <1>2, IidsOfProject DEF CreationInv, Frame
    <2> QED BY <1>1, <1>2, <2>1 DEF FrameFits
  <1>6. /\ f \in Frame /\ f.at = "jobs" /\ f.id = NextId /\ f.down = t.down /\ f.project = t.project
    <2>1. NextId \in Nat
      BY DEF NextId, CreationInv, RowsType
    <2> HIDE DEF t
    <2> QED BY <1>2, <2>1 DEF Frame
  <1>7. t.id = 0 /\ t.down = 0 /\ Refs(t) = {} /\ Refs(f) = {NextId} /\ FrameFits(f, n, n)
    BY <1>1, <1>2, <1>6 DEF FrameFits, Refs, NextId, CreationInv, RowsType
  <1> HIDE DEF f
  <1>8. /\ stack' \in [Creator -> Seq(Frame)] /\ \A d \in Creator \ {c} : stack'[d] = stack[d]
        /\ stack'[c] # <<>> /\ Len(stack'[c]) = n
        /\ \A k \in 1 .. n : stack'[c][k] = IF k = n THEN f ELSE stack[c][k]
    BY <1>1, <1>6, WithTopChangesTop DEF CreationInv
  <1>9. Top(c)' = f
    BY <1>2, <1>8 DEF Top, Last
  <1>10. /\ Committed' = Committed /\ pipeline' = pipeline /\ ci' = ci /\ NextId' = NextId
         /\ \A p : NextIid(p)' = NextIid(p)
    BY <1>1 DEF Committed, NextId, NextIid, Iids
  <1>11. RowsType' /\ StackType' /\ IidsAreDense' /\ RowsTell'
    <2>1. RowsType' /\ StackType'
      BY <1>1, <1>8, <1>10 DEF CreationInv, RowsType, StackType
    <2>2. IidsAreDense'
      BY <1>1 DEF CreationInv, IidsAreDense, Iids
    <2>3. RowsTell'
      BY <1>1, <1>10 DEF CreationInv, RowsTell, RowTells
    <2> QED BY <2>1, <2>2, <2>3
  <1>12. \A g, k, m : FrameFits(g, k, m)' <=> FrameFits(g, k, m)
    BY <1>10 DEF FrameFits, IsChild
  <1>13. FramesFit'
    <2>1. \A d \in Creator : \A k \in 1 .. Depth(d)' : FrameFits(stack'[d][k], k, Depth(d)')
      BY <1>2, <1>7, <1>8 DEF CreationInv, FramesFit, Depth
    <2> QED BY <1>12, <2>1 DEF FramesFit
  <1>14. \A d \in Creator : \A k \in 1 .. Depth(d) : NextId \notin Refs(stack[d][k])
    <2> TAKE d \in Creator
    <2> TAKE k \in 1 .. Depth(d)
    <2>1. FrameFits(stack[d][k], k, Depth(d)) /\ stack[d][k] \in Frame
      BY DEF CreationInv, FramesFit, StackType, Depth
    <2>2. stack[d][k].at # "jobs"
      <3>1. CASE k < Depth(d)
        BY <2>1, <3>1 DEF FrameFits
      <3>2. CASE ~(k < Depth(d))
        <4>1. stack[d] # <<>> /\ Top(d) = stack[d][k]
          BY <3>2 DEF CreationInv, StackType, Depth, Top, Last
        <4>2. DraftFits(d) /\ draft[d] = NoPipes
          BY <1>1, <1>3 DEF CanWrite, CreationInv, DraftsFit
        <4> QED BY <4>1, <4>2 DEF DraftFits, At
      <3> QED BY <3>1, <3>2
    <2>3. stack[d][k].id \in 0 .. Committed /\ stack[d][k].down \in 0 .. Committed
      BY <2>1, <2>2 DEF FrameFits, IsChild, Frame, CreationInv, RowsType
    <2> QED BY <2>3 DEF Refs, NextId, CreationInv, RowsType
  <1>15. \A d \in Creator : \A k \in 1 .. Depth(d)' :
            /\ k \in 1 .. Depth(d)
            /\ Refs(stack'[d][k]) = IF d = c /\ k = n THEN {NextId} ELSE Refs(stack[d][k])
    BY <1>7, <1>8 DEF Depth
  <1>16. FramesApart'
    <2> SUFFICES ASSUME NEW d \in Creator, NEW e \in Creator,
                        NEW k \in 1 .. Depth(d)', NEW l \in 1 .. Depth(e)',
                        Refs(stack'[d][k]) \cap Refs(stack'[e][l]) # {}
                 PROVE  d = e /\ k = l
      BY DEF FramesApart, Refs
    <2>1. k \in 1 .. Depth(d) /\ l \in 1 .. Depth(e)
      BY <1>15
    <2>2. CASE (d = c /\ k = n) \/ (e = c /\ l = n)
      BY <1>14, <1>15, <2>1, <2>2
    <2>3. CASE ~((d = c /\ k = n) \/ (e = c /\ l = n))
      BY <1>15, <2>1, <2>3 DEF CreationInv, FramesApart
    <2> QED BY <2>2, <2>3
  <1>17. LinksFit'
    <2> SUFFICES ASSUME NEW i \in 1 .. Committed, pipeline[i].down # 0
                 PROVE  LinkFits(i)'
      BY <1>10 DEF LinksFit, LinkFits
    <2>1. LinkFits(i)
      BY DEF CreationInv, LinksFit
    <2>2. pipeline[i].down # NextId
      BY <2>1 DEF LinkFits, IsChild, NextId, CreationInv, RowsType
    <2>3. \A d \in Creator : \A k \in 1 .. Depth(d)' : pipeline[i].down \notin Refs(stack'[d][k])
      BY <1>15, <2>1, <2>2 DEF LinkFits
    <2> QED BY <1>10, <2>1, <2>3 DEF LinkFits, IsChild, Refs
  <1>18. DownstreamIsLinked'
    <2> SUFFICES ASSUME NEW d \in (DOMAIN pipeline) \ lost,
                        pipeline[d].source = "parent_pipeline", pipeline[d].whole,
                        ~\E i \in DOMAIN pipeline : pipeline[i].down = d
                 PROVE  \E e \in Creator : \E k \in DOMAIN stack'[e] : d \in {stack'[e][k].id, stack'[e][k].down}
      BY <1>1 DEF DownstreamIsLinked
    <2>1. PICK e \in Creator : \E k \in DOMAIN stack[e] : d \in {stack[e][k].id, stack[e][k].down}
      BY DEF DownstreamIsLinked, CreationInv
    <2>2. PICK k \in 1 .. Depth(e) : d \in {stack[e][k].id, stack[e][k].down}
      BY <2>1 DEF StackType, Depth, CreationInv
    <2>3. d \in Refs(stack[e][k])
      BY <2>2 DEF RowsType, Refs, CreationInv
    <2>4. ~(e = c /\ k = n)
      BY <1>2, <1>7, <2>3
    <2>5. k \in 1 .. Len(stack'[e]) /\ stack'[e][k] = stack[e][k]
      BY <1>8, <2>4 DEF Depth
    <2>6. k \in DOMAIN stack'[e]
      BY <1>8, <2>5
    <2> QED BY <2>3, <2>5, <2>6 DEF Refs
  <1>19. DraftsFit'
    <2>0. draft' = [d \in Creator |-> IF d = c THEN new ELSE draft[d]]
      BY <1>4 DEF CreationInv, DraftsFit
    <2>1. \A d \in Creator \ {c} : DraftFits(d)'
      BY <1>1, <1>8, <2>0, OtherDrafts
    <2>2. draft'[c] = new /\ CanWrite(c)'
      BY <1>1, <2>0 DEF CanWrite
    <2>3. DraftFits(c)'
      <3>1. Depth(c)' = n /\ row.source = SourceAt(n) /\ row.iid = NextIid(row.project)
        BY <1>5, <1>8 DEF Depth
      <3>2. /\ new[NextId].iid = NextIid(new[NextId].project) /\ ~new[NextId].whole
            /\ new[NextId].down = 0 /\ new[NextId].bridge = "none" /\ new[NextId].source = SourceAt(n)
        BY <1>5
      <3> HIDE DEF new, row
      <3> QED BY <1>1, <1>4, <1>6, <1>8, <1>9, <1>10, <2>2, <3>1, <3>2 DEF DraftFits, At
    <2>4. DOMAIN draft' = Creator /\ draft' = [d \in Creator |-> draft'[d]]
      BY <2>0
    <2> QED BY <2>1, <2>3, <2>4 DEF DraftsFit
  <1> QED BY <1>11, <1>13, <1>16, <1>17, <1>18, <1>19 DEF CreationInv

\* The end of a call by an exception or a crash.
LEMMA DiesKeeps ==
    ASSUME CreationInv, NEW c \in Creator, Dies(c)
    PROVE  CreationInv'
  <1> USE DEF CreationInv
  <1>1. /\ UNCHANGED <<ci, pipeline, taken>>
        /\ stack' = [d \in Creator |-> IF d = c THEN <<>> ELSE stack[d]]
        /\ draft' = [d \in Creator |-> IF d = c THEN NoPipes ELSE draft[d]]
        /\ lost' = lost \cup (DOMAIN pipeline \cap UNION {{f.id, f.down} : f \in Range(stack[c])})
    BY DEF Dies, StackType, DraftsFit
  <1>2. /\ Committed' = Committed /\ pipeline' = pipeline /\ ci' = ci /\ NextId' = NextId
        /\ \A p : NextIid(p)' = NextIid(p)
    BY <1>1 DEF Committed, NextId, NextIid, Iids
  <1>3. RowsType' /\ StackType' /\ IidsAreDense' /\ RowsTell'
    <2>1. RowsType' /\ StackType'
      <3>1. DOMAIN pipeline = 1 .. Committed
        BY DEF RowsType
      <3>2. lost' \subseteq 1 .. Committed
        BY <1>1, <3>1 DEF RowsType
      <3>3. RowsType'
        BY <1>1, <1>2, <3>2 DEF RowsType
      <3>4. \A d \in Creator : (IF d = c THEN <<>> ELSE stack[d]) \in Seq(Frame)
        BY DEF StackType
      <3>5. StackType'
        BY <1>1, <3>4 DEF StackType
      <3> QED BY <3>3, <3>5
    <2>2. IidsAreDense'
      BY <1>1 DEF IidsAreDense, Iids
    <2>3. RowsTell'
      BY <1>1, <1>2 DEF RowsTell, RowTells
    <2> QED BY <2>1, <2>2, <2>3
  <1>4. \A d \in Creator : \A k \in 1 .. Depth(d)' : d # c /\ stack'[d] = stack[d] /\ k \in 1 .. Depth(d)
    BY <1>1 DEF Depth
  <1>5. FramesFit'
    <2>1. \A g, k, m : FrameFits(g, k, m)' <=> FrameFits(g, k, m)
      BY <1>2 DEF FrameFits, IsChild
    <2>2. \A d \in Creator : \A k \in 1 .. Depth(d)' : FrameFits(stack'[d][k], k, Depth(d)')
      BY <1>4 DEF FramesFit, Depth
    <2> QED BY <2>1, <2>2 DEF FramesFit
  <1>6. FramesApart'
    BY <1>4 DEF FramesApart, Refs
  <1>7. LinksFit'
    <2> SUFFICES ASSUME NEW i \in 1 .. Committed, pipeline[i].down # 0
                 PROVE  LinkFits(i)'
      BY <1>2 DEF LinksFit, LinkFits
    <2>1. LinkFits(i)
      BY DEF LinksFit
    <2>2. \A d \in Creator : \A k \in 1 .. Depth(d)' : pipeline[i].down \notin Refs(stack'[d][k])
      BY <1>4, <2>1 DEF LinkFits
    <2> QED BY <1>2, <2>1, <2>2 DEF LinkFits, IsChild, Refs
  <1>8. DownstreamIsLinked'
    <2> SUFFICES ASSUME NEW d \in (DOMAIN pipeline) \ lost',
                        pipeline[d].source = "parent_pipeline", pipeline[d].whole,
                        ~\E i \in DOMAIN pipeline : pipeline[i].down = d
                 PROVE  \E e \in Creator : \E k \in DOMAIN stack'[e] : d \in {stack'[e][k].id, stack'[e][k].down}
      BY <1>1 DEF DownstreamIsLinked
    <2>1. d \notin lost
      BY <1>1
    <2>2. PICK e \in Creator : \E k \in DOMAIN stack[e] : d \in {stack[e][k].id, stack[e][k].down}
      BY <2>1 DEF DownstreamIsLinked
    <2>3. PICK k \in DOMAIN stack[e] : d \in {stack[e][k].id, stack[e][k].down}
      BY <2>2
    <2>4. CASE e = c
      <3>1. stack[c][k] \in Range(stack[c])
        BY <2>4 DEF Range
      <3>2. d \in UNION {{f.id, f.down} : f \in Range(stack[c])}
        BY <2>3, <2>4, <3>1
      <3> QED BY <1>1, <3>2
    <2>5. CASE e # c
      BY <1>1, <2>3, <2>5
    <2> QED BY <2>4, <2>5
  <1>9. DraftsFit'
    <2>1. \A d \in Creator \ {c} : DraftFits(d)'
      <3>1. \A d \in Creator \ {c} : draft'[d] = draft[d] /\ stack'[d] = stack[d]
        BY <1>1
      <3>2. draft'[c] = NoPipes
        BY <1>1
      <3> QED BY <1>1, <3>1, <3>2, OtherDrafts
    <2>2. DraftFits(c)'
      <3>1. stack'[c] = <<>> /\ draft'[c] = NoPipes
        BY <1>1
      <3> QED BY <3>1 DEF DraftFits, At
    <2>3. DOMAIN draft' = Creator /\ draft' = [d \in Creator |-> draft'[d]]
      BY <1>1
    <2> QED BY <2>1, <2>2, <2>3 DEF DraftsFit
  <1> QED BY <1>3, <1>5, <1>6, <1>7, <1>8, <1>9

\* A return hands what the frame holds to the one below it.
LEMMA ReturnHands ==
    ASSUME CreationInv, NEW c \in Creator, stack[c] # <<>>, NEW x \in Nat \ {0}, Return(c, x),
           x \in Refs(Top(c))
    PROVE  /\ Depth(c) \in Nat \ {0} /\ StackType'
           /\ \A e \in Creator \ {c} : stack'[e] = stack[e]
           /\ Depth(c)' = Depth(c) - 1
           /\ \A k \in 1 .. Depth(c) - 1 :
                 stack'[c][k] = IF k = Depth(c) - 1 THEN Told(stack[c][k], x) ELSE stack[c][k]
           /\ \A d \in Creator : \A k \in 1 .. Depth(d)' :
                 /\ k \in 1 .. Depth(d) /\ ~(d = c /\ k = Depth(c))
                 /\ Refs(stack'[d][k]) = IF d = c /\ k = Depth(c) - 1 THEN Refs(stack[d][k]) \cup {x}
                                         ELSE Refs(stack[d][k])
           /\ FramesApart'
  <1> DEFINE n == Depth(c)
  <1>1. /\ n \in Nat \ {0} /\ stack' \in [Creator -> Seq(Frame)]
        /\ \A e \in Creator \ {c} : stack'[e] = stack[e] /\ Depth(e)' = Depth(e)
        /\ Depth(c)' = n - 1
        /\ \A k \in 1 .. n - 1 : stack'[c][k] = IF k = n - 1 THEN Told(stack[c][k], x) ELSE stack[c][k]
    BY ReturnTells DEF CreationInv, Depth
  <1>2. \A k \in 1 .. n - 1 : Refs(Told(stack[c][k], x)) = Refs(stack[c][k]) \cup {x}
    <2> TAKE k \in 1 .. n - 1
    <2>1. /\ stack[c][k] \in Frame /\ stack[c][k].down = 0
      <3>1. FrameFits(stack[c][k], k, n) /\ k < n
        BY <1>1 DEF CreationInv, FramesFit
      <3> QED BY <1>1, <3>1 DEF FrameFits, CreationInv, StackType, Depth
    <2>2. Told(stack[c][k], x).id = stack[c][k].id /\ Told(stack[c][k], x).down = x
      BY <2>1 DEF Told, Frame
    <2> QED BY <2>1, <2>2 DEF Refs
  <1>3. \A d \in Creator : \A k \in 1 .. Depth(d)' :
                 /\ k \in 1 .. Depth(d) /\ ~(d = c /\ k = n)
                 /\ Refs(stack'[d][k]) = IF d = c /\ k = n - 1 THEN Refs(stack[d][k]) \cup {x}
                                         ELSE Refs(stack[d][k])
    <2> TAKE d \in Creator
    <2> TAKE k \in 1 .. Depth(d)'
    <2>1. CASE d = c
      <3>1. k \in 1 .. n - 1 /\ k \in 1 .. n /\ k # n
        BY <1>1, <2>1
      <3>2. stack'[c][k] = IF k = n - 1 THEN Told(stack[c][k], x) ELSE stack[c][k]
        BY <1>1, <3>1
      <3> QED BY <1>2, <2>1, <3>1, <3>2
    <2>2. CASE d # c
      BY <1>1, <2>2
    <2> QED BY <2>1, <2>2
  <1>4. Top(c) = stack[c][n] /\ n \in 1 .. Depth(c)
    BY TopFits
  <1>5. \A d \in Creator : \A k \in 1 .. Depth(d) : x \in Refs(stack[d][k]) => d = c /\ k = n
    BY <1>4 DEF CreationInv, FramesApart
  <1>6. FramesApart'
    <2> SUFFICES ASSUME NEW d \in Creator, NEW e \in Creator,
                        NEW k \in 1 .. Depth(d)', NEW l \in 1 .. Depth(e)',
                        Refs(stack'[d][k]) \cap Refs(stack'[e][l]) # {}
                 PROVE  d = e /\ k = l
      BY DEF FramesApart, Refs
    <2>1. k \in 1 .. Depth(d) /\ l \in 1 .. Depth(e) /\ ~(d = c /\ k = n) /\ ~(e = c /\ l = n)
      BY <1>3
    <2>2. x \notin Refs(stack[d][k]) /\ x \notin Refs(stack[e][l])
      BY <1>5, <2>1
    <2>3. CASE Refs(stack[d][k]) \cap Refs(stack[e][l]) # {}
      BY <2>1, <2>3 DEF CreationInv, FramesApart
    <2>4. CASE Refs(stack[d][k]) \cap Refs(stack[e][l]) = {}
      <3>1. PICK r \in Refs(stack'[d][k]) : r \in Refs(stack'[e][l])
        OBVIOUS
      <3>2. x \in Refs(stack'[d][k]) /\ x \in Refs(stack'[e][l])
        BY <1>3, <2>2, <2>4, <3>1
      <3>3. d = c /\ k = n - 1
        BY <1>3, <2>2, <3>2
      <3>4. e = c /\ l = n - 1
        BY <1>3, <2>2, <3>2
      <3> QED BY <3>3, <3>4
    <2> QED BY <2>3, <2>4
  <1> QED BY <1>1, <1>3, <1>6 DEF StackType

\* A commit: the rows keep what they are, and at most the draft's is added.
LEMMA RowsStep ==
    ASSUME CreationInv, NEW c \in Creator, UNCHANGED <<ci, taken, lost>>, CanWrite(c),
           \A d \in Creator \ {c} : stack'[d] = stack[d], ~At(c, "jobs")',
           draft' = [draft EXCEPT ![c] = NoPipes],
           NEW m \in {Committed, Committed + 1}, m <= MaxPipelines, pipeline' \in [1 .. m -> Pipe], RowsKept,
           m = Committed + 1 => pipeline'[NextId].iid = NextIid(pipeline'[NextId].project)
    PROVE  /\ Committed' = m /\ RowsType' /\ IidsAreDense' /\ DraftsFit'
           /\ \A d : IsChild(d) => IsChild(d)'
           /\ \A f \in Frame : \A k, n : FrameFits(f, k, n)
              /\ (f.at \in {"bridge", "finish"} => pipeline'[f.id].down = 0)
                                           => FrameFits(f, k, n)'
  <1> USE DEF CreationInv
  <1>1. Committed \in Nat /\ m \in Nat
    BY DEF RowsType
  <1>2. Committed' = m
    BY <1>1, CountOfRowsThen
  <1>3. RowsType'
    BY <1>1, <1>2 DEF RowsType
  <1>4. IidsAreDense' /\ \A p \in CiProject : NextIid(p)' >= NextIid(p)
    <2>1. CASE m = Committed
      <3>1. IidsAreDense' /\ \A p \in CiProject : NextIid(p)' = NextIid(p)
        BY <2>1, IidsStay
      <3>2. \A p \in CiProject : NextIid(p) \in Nat
        <4> TAKE p \in CiProject
        <4> QED BY IidsOfProject
      <3> QED BY <3>1, <3>2
    <2>2. CASE m = Committed + 1
      BY <2>2, IidsGrow
    <2> QED BY <2>1, <2>2
  <1>5. \A d : IsChild(d) => IsChild(d)'
    BY <1>1, <1>2 DEF IsChild, RowsKept
  <1>6. ASSUME NEW f \in Frame, NEW k, NEW n, FrameFits(f, k, n),
               f.at \in {"bridge", "finish"} => pipeline'[f.id].down = 0
        PROVE  FrameFits(f, k, n)'
    <2>1. f.at = "insert" => f.iid \in 1 .. NextIid(f.project)'
      <3>1. f.project \in CiProject
        BY DEF Frame
      <3>2. PICK j \in Nat : NextIid(f.project) = j + 1
        BY <3>1, IidsOfProject
      <3>3. PICK l \in Nat : NextIid(f.project)' = l + 1
        BY <1>3, <1>4, <3>1, NextIidIsNatThen
      <3> QED BY <1>4, <1>6, <3>1, <3>2, <3>3 DEF FrameFits
    <2>2. f.at \in {"bridge", "finish"} => f.id \in 1 .. Committed'
                 /\ pipeline'[f.id].whole /\ pipeline'[f.id].source = SourceAt(k)
      BY <1>1, <1>2, <1>6 DEF FrameFits, RowsKept
    <2> QED BY <1>5, <1>6, <2>1, <2>2 DEF FrameFits, SourceAt
  <1>7. DraftsFit'
    <2>0. draft' = [d \in Creator |-> IF d = c THEN NoPipes ELSE draft[d]]
      BY DEF DraftsFit
    <2>1. ASSUME NEW d \in Creator \ {c}
          PROVE  DraftFits(d)'
      <3>1. draft[d] = NoPipes /\ DraftFits(d)
        BY DEF CanWrite, DraftsFit
      <3>2. draft'[d] = NoPipes /\ ~At(d, "jobs")'
        BY <2>0, <3>1 DEF DraftFits, At, Top
      <3> QED BY <3>2 DEF DraftFits
    <2>2. draft'[c] = NoPipes
      BY <2>0
    <2>3. DraftFits(c)'
      BY <2>2 DEF DraftFits
    <2>4. DOMAIN draft' = Creator /\ draft' = [d \in Creator |-> draft'[d]]
      BY <2>0
    <2> QED BY <2>1, <2>3, <2>4 DEF DraftsFit
  <1> QED BY <1>2, <1>3, <1>4, <1>5, <1>6, <1>7

\* Canceling a superseded bridge leaves the rest of its row.
LEMMA SupersededRow ==
    ASSUME NEW r \in Pipe, NEW p
    PROVE  /\ Superseded(r, p) \in Pipe /\ Superseded(r, p).bridge \in {r.bridge, "canceled"}
           /\ Superseded(r, p).project = r.project /\ Superseded(r, p).iid = r.iid
           /\ Superseded(r, p).source = r.source /\ Superseded(r, p).whole = r.whole
           /\ Superseded(r, p).down = r.down
  BY DEF Superseded, Pipe, BridgeStatus

\* The row and the rest, once a pipeline is committed with its jobs.
LEMMA CommittedRows ==
    ASSUME CreationInv, NEW c \in Creator, CommitPipeline(c)
    PROVE  /\ CanWrite(c) /\ NextId <= MaxPipelines /\ Top(c).id = NextId /\ Top(c).down = 0
           /\ pipeline' \in [1 .. Committed + 1 -> Pipe]
           /\ pipeline'[NextId].iid = NextIid(pipeline'[NextId].project)
           /\ pipeline'[NextId].whole /\ pipeline'[NextId].down = 0
           /\ pipeline'[NextId].source = SourceAt(Depth(c))
           /\ pipeline'[NextId].bridge = IF ci[Top(c).project] \in CiProject THEN "pending" ELSE "none"
           /\ RowsKept
           /\ \A i \in 1 .. Committed : /\ pipeline'[i].down = pipeline[i].down
                                    /\ pipeline'[i].bridge \in {pipeline[i].bridge, "canceled"}
  <1> DEFINE f == Top(c)
             b == IF ci[f.project] \in CiProject THEN "pending" ELSE "none"
             row == [draft[c][f.id] EXCEPT !.whole = TRUE, !.bridge = b]
             new == [draft[c] EXCEPT ![f.id] = row]
             old == [i \in DOMAIN pipeline |-> Superseded(pipeline[i], f.project)]
             r == draft[c][NextId]
  <1>1. stack[c] # <<>> /\ f.at = "jobs" /\ pipeline' = Merged(new, old)
    BY DEF CommitPipeline, At
  <1>2. /\ CanWrite(c) /\ NextId <= MaxPipelines /\ draft[c] \in [{NextId} -> Pipe]
        /\ r.iid = NextIid(r.project) /\ r.down = 0 /\ f.id = NextId /\ f.down = 0 /\ r.source = SourceAt(Depth(c))
    BY <1>1, TopFits DEF DraftFits, At, FrameFits
  <1>3. r \in Pipe
    BY <1>2
  <1>4. new = [draft[c] EXCEPT ![NextId] = [r EXCEPT !.whole = TRUE, !.bridge = b]]
    BY <1>2
  <1>5. /\ [r EXCEPT !.whole = TRUE, !.bridge = b] \in Pipe
        /\ [r EXCEPT !.whole = TRUE, !.bridge = b].iid = r.iid
        /\ [r EXCEPT !.whole = TRUE, !.bridge = b].project = r.project
        /\ [r EXCEPT !.whole = TRUE, !.bridge = b].source = r.source
        /\ [r EXCEPT !.whole = TRUE, !.bridge = b].down = r.down
        /\ [r EXCEPT !.whole = TRUE, !.bridge = b].whole
        /\ [r EXCEPT !.whole = TRUE, !.bridge = b].bridge = b
    <2>1. b \in BridgeStatus
      BY DEF BridgeStatus
    <2> HIDE DEF r, b
    <2> QED BY <1>3, <2>1 DEF Pipe
  <1>6. new \in [{NextId} -> Pipe] /\ new[NextId] = [r EXCEPT !.whole = TRUE, !.bridge = b]
    <2> HIDE DEF r, b, new
    <2> QED BY <1>2, <1>4, <1>5
  <1>7. /\ DOMAIN pipeline = 1 .. Committed /\ Committed \in Nat /\ NextId = Committed + 1
        /\ \A i \in 1 .. Committed : pipeline[i] \in Pipe
    BY DEF CreationInv, RowsType, NextId
  <1>8. old \in [1 .. Committed -> Pipe] /\ \A i \in 1 .. Committed : old[i] = Superseded(pipeline[i], f.project)
    <2>1. \A i \in 1 .. Committed : Superseded(pipeline[i], f.project) \in Pipe
      BY <1>7, SupersededRow
    <2> HIDE DEF f
    <2> QED BY <1>7, <2>1
  <1> HIDE DEF f, row, new, old, r, b
  <1>9. /\ pipeline' \in [1 .. Committed + 1 -> Pipe] /\ pipeline'[NextId] = new[NextId]
        /\ \A i \in 1 .. Committed : pipeline'[i] = old[i]
    <2>1. new \in [{Committed + 1} -> Pipe]
      BY <1>6, <1>7
    <2>2. /\ Merged(new, old) \in [1 .. Committed + 1 -> Pipe] /\ Merged(new, old)[Committed + 1] = new[Committed + 1]
          /\ \A i \in 1 .. Committed : Merged(new, old)[i] = old[i]
      BY <1>7, <1>8, <2>1, MergedRow
    <2> QED BY <1>1, <1>7, <2>2
  <1>10. \A i \in 1 .. Committed : /\ pipeline'[i].down = pipeline[i].down
                               /\ pipeline'[i].bridge \in {pipeline[i].bridge, "canceled"}
                               /\ pipeline'[i].project = pipeline[i].project /\ pipeline'[i].iid = pipeline[i].iid
                               /\ pipeline'[i].source = pipeline[i].source /\ pipeline'[i].whole = pipeline[i].whole
    <2> TAKE i \in 1 .. Committed
    <2>1. pipeline'[i] = Superseded(pipeline[i], f.project) /\ pipeline[i] \in Pipe
      BY <1>7, <1>8, <1>9
    <2> QED BY <2>1, SupersededRow
  <1>11. RowsKept
    BY <1>10 DEF RowsKept
  <1>12. /\ pipeline'[NextId].iid = r.iid /\ pipeline'[NextId].project = r.project /\ pipeline'[NextId].whole
         /\ pipeline'[NextId].down = 0 /\ pipeline'[NextId].source = SourceAt(Depth(c)) /\ pipeline'[NextId].bridge = b
    BY <1>2, <1>5, <1>6, <1>9
  <1> QED BY <1>2, <1>9, <1>10, <1>11, <1>12 DEF f, b

\* A return never leaves a call in the middle of its inserts.
LEMMA ReturnIsNoJob ==
    ASSUME CreationInv, NEW c \in Creator, stack[c] # <<>>, NEW d \in Nat, Return(c, d)
    PROVE  ~At(c, "jobs")'
  <1>1. /\ Depth(c) \in Nat \ {0} /\ Len(stack'[c]) = Depth(c) - 1
        /\ stack' \in [Creator -> Seq(Frame)]
        /\ \A k \in 1 .. Depth(c) - 1 :
              stack'[c][k] = IF k = Depth(c) - 1 THEN Told(stack[c][k], d) ELSE stack[c][k]
    BY ReturnTells DEF CreationInv
  <1>2. CASE Depth(c) = 1
    <2>1. stack'[c] = <<>>
      BY <1>1, <1>2
    <2> QED BY <2>1 DEF At
  <1>3. CASE Depth(c) # 1
    <2>1. Depth(c) - 1 \in 1 .. Depth(c) - 1
      BY <1>1, <1>3
    <2>2. Top(c)' = Told(stack[c][Depth(c) - 1], d) /\ stack[c][Depth(c) - 1] \in Frame
      BY <1>1, <2>1 DEF Top, Last, CreationInv, StackType, Depth
    <2>3. Top(c)'.at = "finish"
      BY <2>2 DEF Told, Frame
    <2> QED BY <2>3 DEF At
  <1> QED BY <1>2, <1>3

\* The caller's frame after a commit: what it is told is a downstream pipeline.
LEMMA ToldKnows ==
    \A h \in Frame : \A k, n, d \in Nat :
        FrameFits(h, k, n) /\ k < n /\ IsChild(d) /\ d # h.id => Told(h, d) \in Frame /\ FrameFits(Told(h, d), k, k)
  <1> SUFFICES ASSUME NEW h \in Frame, NEW k \in Nat, NEW n \in Nat, NEW d \in Nat,
                      FrameFits(h, k, n), k < n, IsChild(d), d # h.id
               PROVE  Told(h, d) \in Frame /\ FrameFits(Told(h, d), k, k)
    OBVIOUS
  <1>1. /\ Told(h, d) \in Frame /\ Told(h, d).at = "finish" /\ Told(h, d).id = h.id /\ Told(h, d).down = d
    BY DEF Told, Frame
  <1>2. h.at = "bridge"
    BY DEF FrameFits
  <1> QED BY <1>1, <1>2 DEF FrameFits

\* The same of the state after a step.
LEMMA ToldKnowsThen ==
    (\A h \in Frame : \A k, n, d \in Nat :
        FrameFits(h, k, n) /\ k < n /\ IsChild(d) /\ d # h.id => Told(h, d) \in Frame /\ FrameFits(Told(h, d), k, k))'
  BY ToldKnows, PTL

\* The first commit of a pipeline.
LEMMA CommitKeeps ==
    ASSUME CreationInv, NEW c \in Creator, CommitPipeline(c)
    PROVE  CreationInv'
  <1> DEFINE f == Top(c)
  <1>n. PICK n \in Nat : n = Depth(c)
    BY DEF CreationInv, StackType, Depth
  <1>1. /\ stack[c] # <<>> /\ f.at = "jobs" /\ draft' = [draft EXCEPT ![c] = NoPipes]
        /\ UNCHANGED <<ci, taken, lost>>
    BY DEF CommitPipeline, At
  <1>2. /\ n \in Nat \ {0} /\ f = stack[c][n] /\ f \in Frame /\ FrameFits(f, n, n)
    BY <1>1, <1>n, TopFits
  <1>3. /\ CanWrite(c) /\ NextId <= MaxPipelines /\ f.id = NextId /\ f.down = 0
        /\ pipeline' \in [1 .. Committed + 1 -> Pipe]
        /\ pipeline'[NextId].iid = NextIid(pipeline'[NextId].project)
        /\ pipeline'[NextId].whole /\ pipeline'[NextId].down = 0
        /\ pipeline'[NextId].source = SourceAt(n)
        /\ pipeline'[NextId].bridge = IF ci[f.project] \in CiProject THEN "pending" ELSE "none"
        /\ RowsKept
        /\ \A i \in 1 .. Committed : /\ pipeline'[i].down = pipeline[i].down
                                 /\ pipeline'[i].bridge \in {pipeline[i].bridge, "canceled"}
    BY <1>n, CommittedRows
  <1>4. Committed \in Nat /\ NextId = Committed + 1 /\ NextId \in 1 .. Committed + 1
    BY DEF CreationInv, RowsType, NextId
  <1>5. Refs(f) = {NextId}
    BY <1>3, <1>4 DEF Refs
  <1>6. /\ ci[f.project] \in CiProject => stack' = WithTop(c, [f EXCEPT !.at = "bridge"])
        /\ ci[f.project] \notin CiProject => Return(c, NextId)
    <2>1. IF [draft[c][f.id] EXCEPT !.whole = TRUE,
                 !.bridge = IF ci[f.project] \in CiProject THEN "pending" ELSE "none"].bridge = "pending"
          THEN stack' = WithTop(c, [f EXCEPT !.at = "bridge"]) ELSE Return(c, f.id)
      BY DEF CommitPipeline
    <2>2. draft[c][f.id] \in Pipe
      BY <1>1, <1>3, TopFits DEF DraftFits, At
    <2>3. [draft[c][f.id] EXCEPT !.whole = TRUE,
                 !.bridge = IF ci[f.project] \in CiProject THEN "pending" ELSE "none"].bridge
             = IF ci[f.project] \in CiProject THEN "pending" ELSE "none"
      <3> HIDE DEF f
      <3> QED BY <2>2 DEF Pipe
    <2> QED BY <1>3, <2>1, <2>3
  <1>7. PICK g \in Frame : /\ g = [f EXCEPT !.at = "bridge"] /\ g.at = "bridge" /\ g.id = NextId
                            /\ g.down = 0 /\ g.project = f.project /\ Refs(g) = {NextId}
    <2> DEFINE g == [f EXCEPT !.at = "bridge"]
    <2>1. g \in Frame /\ g.at = "bridge" /\ g.id = f.id /\ g.down = f.down /\ g.project = f.project
      <3> HIDE DEF f
      <3> QED BY <1>2 DEF Frame
    <2>2. Refs(g) = {NextId}
      <3> HIDE DEF g, f
      <3> QED BY <1>3, <1>4, <2>1 DEF Refs
    <2> QED BY <1>3, <2>1, <2>2
  <1>a. ci[f.project] \in CiProject =>
          /\ StackType' /\ \A d \in Creator \ {c} : stack'[d] = stack[d]
          /\ Depth(c)' = n /\ ~At(c, "jobs")'
          /\ \A k \in 1 .. n : stack'[c][k] = IF k = n THEN g ELSE stack[c][k]
    <2> SUFFICES ASSUME ci[f.project] \in CiProject
                 PROVE  /\ StackType' /\ \A d \in Creator \ {c} : stack'[d] = stack[d]
                        /\ Depth(c)' = n /\ ~At(c, "jobs")'
                        /\ \A k \in 1 .. n : stack'[c][k] = IF k = n THEN g ELSE stack[c][k]
      OBVIOUS
    <2>1. StackType /\ stack' = WithTop(c, g)
      BY <1>6, <1>7 DEF CreationInv
    <2>2. /\ WithTop(c, g) \in [Creator -> Seq(Frame)]
          /\ \A d \in Creator \ {c} : WithTop(c, g)[d] = stack[d]
          /\ WithTop(c, g)[c] # <<>> /\ Len(WithTop(c, g)[c]) = Depth(c)
          /\ \A k \in 1 .. Depth(c) : WithTop(c, g)[c][k] = IF k = Depth(c) THEN g ELSE stack[c][k]
      BY <1>1, <2>1, WithTopChangesTop
    <2>3. Depth(c)' = n /\ Top(c)' = g
      BY <1>2, <1>n, <2>1, <2>2 DEF Depth, Top, Last
    <2> QED BY <1>7, <1>n, <2>1, <2>2, <2>3 DEF StackType, At
  <1>b. ci[f.project] \notin CiProject =>
          /\ StackType' /\ \A d \in Creator \ {c} : stack'[d] = stack[d]
          /\ Depth(c)' = n - 1 /\ ~At(c, "jobs")' /\ FramesApart'
          /\ \A k \in 1 .. n - 1 : stack'[c][k] = IF k = n - 1 THEN Told(stack[c][k], NextId) ELSE stack[c][k]
          /\ \A d \in Creator : \A k \in 1 .. Depth(d)' :
               /\ k \in 1 .. Depth(d) /\ ~(d = c /\ k = n)
               /\ Refs(stack'[d][k]) = IF d = c /\ k = n - 1 THEN Refs(stack[d][k]) \cup {NextId}
                                       ELSE Refs(stack[d][k])
    <2> SUFFICES ASSUME ci[f.project] \notin CiProject
                 PROVE  /\ StackType' /\ \A d \in Creator \ {c} : stack'[d] = stack[d]
                        /\ Depth(c)' = n - 1 /\ ~At(c, "jobs")' /\ FramesApart'
                        /\ \A k \in 1 .. n - 1 : stack'[c][k] = IF k = n - 1
                                                         THEN Told(stack[c][k], NextId) ELSE stack[c][k]
                        /\ \A d \in Creator : \A k \in 1 .. Depth(d)' :
                             /\ k \in 1 .. Depth(d) /\ ~(d = c /\ k = n)
                             /\ Refs(stack'[d][k]) = IF d = c /\ k = n - 1 THEN Refs(stack[d][k]) \cup {NextId}
                                                     ELSE Refs(stack[d][k])
      OBVIOUS
    <2>1. NextId \in Nat \ {0} /\ NextId \in Refs(Top(c)) /\ Return(c, NextId)
      BY <1>4, <1>5, <1>6
    <2>2. ~At(c, "jobs")'
      BY <1>1, <2>1, ReturnIsNoJob
    <2>3. /\ StackType' /\ FramesApart' /\ \A d \in Creator \ {c} : stack'[d] = stack[d]
          /\ Depth(c)' = Depth(c) - 1
          /\ \A k \in 1 .. Depth(c) - 1 :
                stack'[c][k] = IF k = Depth(c) - 1 THEN Told(stack[c][k], NextId) ELSE stack[c][k]
          /\ \A d \in Creator : \A k \in 1 .. Depth(d)' :
               /\ k \in 1 .. Depth(d) /\ ~(d = c /\ k = Depth(c))
               /\ Refs(stack'[d][k]) = IF d = c /\ k = Depth(c) - 1 THEN Refs(stack[d][k]) \cup {NextId}
                                       ELSE Refs(stack[d][k])
      <3> HIDE DEF f
      <3> QED BY <1>1, <2>1, ReturnHands
    <2> QED BY <1>n, <2>2, <2>3
  <1>c. ci[f.project] \in CiProject => \A d \in Creator : \A k \in 1 .. Depth(d)' :
          k \in 1 .. Depth(d) /\ Refs(stack'[d][k]) = Refs(stack[d][k])
    <2> SUFFICES ASSUME ci[f.project] \in CiProject, NEW d \in Creator, NEW k \in 1 .. Depth(d)'
                 PROVE  k \in 1 .. Depth(d) /\ Refs(stack'[d][k]) = Refs(stack[d][k])
      OBVIOUS
    <2>1. CASE d = c
      <3>1. k \in 1 .. n /\ stack'[c][k] = IF k = n THEN g ELSE stack[c][k]
        BY <1>a, <2>1
      <3>2. Refs(stack[c][n]) = Refs(g)
        BY <1>2, <1>5, <1>7
      <3> QED BY <1>n, <2>1, <3>1, <3>2
    <2>2. CASE d # c
      BY <1>a, <2>2 DEF Depth
    <2> QED BY <2>1, <2>2
  <1>8. /\ StackType' /\ FramesApart' /\ ~At(c, "jobs")'
        /\ \A d \in Creator \ {c} : stack'[d] = stack[d] /\ Depth(d)' = Depth(d)
        /\ \A d \in Creator : \A k \in 1 .. Depth(d)' :
              /\ k \in 1 .. Depth(d)
              /\ Refs(stack'[d][k]) \subseteq Refs(stack[d][k]) \cup {NextId}
              /\ Refs(stack[d][k]) \subseteq Refs(stack'[d][k])
    <2>1. CASE ci[f.project] \in CiProject
      <3>1. FramesApart'
        BY <1>c, <2>1 DEF CreationInv, FramesApart, Refs
      <3>2. \A d \in Creator \ {c} : Depth(d)' = Depth(d)
        BY <1>a, <2>1 DEF Depth
      <3> QED BY <1>a, <1>c, <2>1, <3>1, <3>2
    <2>2. CASE ci[f.project] \notin CiProject
      <3>1. \A d \in Creator \ {c} : Depth(d)' = Depth(d)
        BY <1>b, <2>2 DEF Depth
      <3>2. \A d \in Creator : \A k \in 1 .. Depth(d)' :
              /\ k \in 1 .. Depth(d)
              /\ Refs(stack'[d][k]) \subseteq Refs(stack[d][k]) \cup {NextId}
              /\ Refs(stack[d][k]) \subseteq Refs(stack'[d][k])
        BY <1>b, <2>2
      <3> QED BY <1>b, <2>2, <3>1, <3>2
    <2> QED BY <2>1, <2>2
  <1> HIDE DEF f
  <1>9. /\ Committed' = Committed + 1 /\ RowsType' /\ IidsAreDense' /\ DraftsFit'
        /\ \A d : IsChild(d) => IsChild(d)'
        /\ \A h \in Frame : \A k, l : FrameFits(h, k, l) /\ (h.at \in {"bridge", "finish"} => pipeline'[h.id].down = 0)
                                        => FrameFits(h, k, l)'
    <2>1. Committed + 1 \in {Committed, Committed + 1} /\ Committed + 1 <= MaxPipelines
      BY <1>3, <1>4
    <2>2. \A d \in Creator \ {c} : stack'[d] = stack[d]
      BY <1>8
    <2> QED BY <1>1, <1>3, <1>8, <2>1, <2>2, RowsStep
  <1>10. \A h \in Frame : \A k, l : FrameFits(h, k, l) => FrameFits(h, k, l)'
    BY <1>3, <1>9 DEF FrameFits
  <1>11. \A d \in Creator : \A k \in 1 .. Depth(d)' : \A h, l :
             h = stack'[d][k] /\ l = Depth(d)' => FrameFits(h, k, l)'
    <2> SUFFICES ASSUME NEW d \in Creator, NEW k \in 1 .. Depth(d)', NEW h, NEW l,
                        h = stack'[d][k], l = Depth(d)'
                 PROVE  FrameFits(h, k, l)'
      OBVIOUS
    <2>1. CASE d # c
      <3>1. h = stack[d][k] /\ l = Depth(d) /\ k \in 1 .. Depth(d) /\ h \in Frame
        BY <1>8, <2>1 DEF CreationInv, StackType, Depth
      <3>2. FrameFits(h, k, l)
        BY <3>1 DEF CreationInv, FramesFit
      <3> QED BY <1>10, <3>1, <3>2
    <2>2. CASE d = c /\ ci[f.project] \in CiProject
      <3>1. l = n /\ h = IF k = n THEN g ELSE stack[c][k]
        BY <1>a, <2>2
      <3>2. CASE k = n
        <4>1. FrameFits(g, n, n)'
          BY <1>1, <1>3, <1>4, <1>7, <1>9, <2>2 DEF FrameFits
        <4> QED BY <3>1, <3>2, <4>1
      <3>3. CASE k # n
        <4>1. h = stack[c][k] /\ k \in 1 .. Depth(c) /\ h \in Frame
          BY <1>n, <2>2, <3>1, <3>3 DEF CreationInv, StackType, Depth
        <4>2. FrameFits(h, k, n)
          BY <1>n, <4>1 DEF CreationInv, FramesFit
        <4> QED BY <1>10, <3>1, <4>1, <4>2
      <3> QED BY <3>2, <3>3
    <2>3. CASE d = c /\ ci[f.project] \notin CiProject
      <3>1. NextId \in Nat \ {0} /\ NextId \in Refs(f) /\ Return(c, NextId)
        BY <1>4, <1>5, <1>6, <2>3
      <3>2. /\ l = n - 1 /\ k \in 1 .. n - 1
            /\ h = IF k = n - 1 THEN Told(stack[c][k], NextId) ELSE stack[c][k]
        BY <1>b, <2>3
      <3>3. PICK e \in Frame : e = stack[c][k]
        BY <1>n, <3>2 DEF CreationInv, StackType, Depth
      <3>4. FrameFits(e, k, n) /\ k < n /\ k \in Nat /\ n \in Nat
        BY <1>n, <3>2, <3>3 DEF CreationInv, FramesFit
      <3>5. e.id \in 1 .. Committed
        BY <3>4 DEF FrameFits
      <3>6. FrameFits(e, k, n)'
        BY <1>10, <3>4
      <3>7. CASE k = n - 1
        <4>1. PICK x \in Nat : x = NextId
          BY <3>1
        <4>2. IsChild(x)' /\ x # e.id
          <5>1. SourceAt(n) = "parent_pipeline"
            BY <3>2, <3>7 DEF SourceAt
          <5> QED BY <1>3, <1>4, <1>9, <3>5, <4>1, <5>1 DEF IsChild
        <4>3. FrameFits(Told(e, x), k, k)'
          BY <3>4, <3>6, <4>2, ToldKnowsThen
        <4> QED BY <3>2, <3>3, <3>7, <4>1, <4>3
      <3>8. CASE k # n - 1
        <4>1. h = e
          BY <3>2, <3>3, <3>8
        <4>2. FrameFits(e, k, n - 1)'
          <5>1. FrameFits(e, k, n - 1)
            BY <3>2, <3>4 DEF FrameFits
          <5> QED BY <1>10, <5>1
        <4> QED BY <3>2, <4>1, <4>2
      <3> QED BY <3>7, <3>8
    <2> QED BY <2>1, <2>2, <2>3
  <1>12. FramesFit'
    BY <1>11 DEF FramesFit
  <1>13. \A i \in 1 .. Committed : LinkFits(i) /\ pipeline[i].down # NextId
    BY <1>4 DEF CreationInv, LinksFit, LinkFits, IsChild
  <1>14. LinksFit'
    <2> SUFFICES ASSUME NEW i \in 1 .. Committed + 1, pipeline'[i].down # 0
                 PROVE  LinkFits(i)'
      BY <1>9 DEF LinksFit, LinkFits
    <2>1. i \in 1 .. Committed /\ pipeline'[i].down = pipeline[i].down /\ pipeline[i].down # NextId
      BY <1>3, <1>4, <1>13
    <2>2. /\ pipeline'[i].down \in 1 .. Committed' /\ pipeline'[pipeline'[i].down].whole
          /\ pipeline'[pipeline'[i].down].source = "parent_pipeline"
      <3>1. PICK x : x = pipeline[i].down
        OBVIOUS
      <3>2. IsChild(x)
        BY <1>13, <2>1, <3>1 DEF LinkFits
      <3>3. IsChild(x)'
        BY <1>9, <3>2
      <3>4. x = pipeline'[i].down
        BY <2>1, <3>1
      <3> QED BY <3>3, <3>4 DEF IsChild
    <2>3. \A j \in 1 .. Committed + 1 : pipeline'[j].down = pipeline'[i].down => j = i
      <3> TAKE j \in 1 .. Committed + 1
      <3>1. j = NextId \/ j \in 1 .. Committed
        BY <1>4
      <3> QED BY <1>3, <1>13, <2>1, <3>1 DEF LinkFits
    <2>4. \A d \in Creator : \A k \in 1 .. Depth(d)' : pipeline'[i].down \notin Refs(stack'[d][k])
      BY <1>8, <1>13, <2>1 DEF LinkFits
    <2>5. Committed' = Committed + 1
      BY <1>9
    <2> QED BY <2>2, <2>3, <2>4, <2>5 DEF LinkFits, IsChild
  <1>15. RowsTell'
    <2> SUFFICES ASSUME NEW i \in 1 .. Committed + 1
                 PROVE  RowTells(i)'
      BY <1>9 DEF RowsTell
    <2>1. CASE i = NextId
      BY <1>3, <2>1 DEF RowTells
    <2>2. CASE i # NextId
      <3>1. i \in 1 .. Committed
        BY <1>4, <2>2
      <3>2. RowTells(i)
        BY <3>1 DEF CreationInv, RowsTell
      <3> QED BY <1>1, <1>3, <3>1, <3>2 DEF RowTells, RowsKept
    <2> QED BY <2>1, <2>2
  <1>16. DownstreamIsLinked'
    <2> SUFFICES ASSUME NEW d \in 1 .. Committed + 1, d \notin lost,
                        pipeline'[d].source = "parent_pipeline", pipeline'[d].whole,
                        ~\E i \in 1 .. Committed + 1 : pipeline'[i].down = d
                 PROVE  \E e \in Creator : \E k \in DOMAIN stack'[e] : d \in {stack'[e][k].id, stack'[e][k].down}
      BY <1>1, <1>3 DEF DownstreamIsLinked
    <2>1. CASE d = NextId
      <3>1. SourceAt(n) = "parent_pipeline" /\ n # 1
        BY <1>3, <2>1 DEF SourceAt
      <3>2. CASE ci[f.project] \in CiProject
        <4>1. Depth(c)' = n /\ stack'[c][n] = g
          BY <1>2, <1>a, <3>2
        <4>2. n \in DOMAIN stack'[c]
          BY <1>2, <1>8, <4>1 DEF StackType, Depth
        <4> QED BY <1>7, <2>1, <4>1, <4>2
      <3>3. CASE ci[f.project] \notin CiProject
        <4>2. Depth(c)' = n - 1 /\ stack'[c][n - 1] = Told(stack[c][n - 1], NextId)
          BY <1>2, <1>b, <3>1, <3>3
        <4>3. n - 1 \in DOMAIN stack'[c] /\ stack[c][n - 1] \in Frame
          BY <1>2, <1>8, <1>n, <3>1, <4>2 DEF StackType, Depth, CreationInv
        <4>4. stack'[c][n - 1].down = NextId
          BY <4>2, <4>3 DEF Told, Frame
        <4> QED BY <2>1, <4>3, <4>4
      <3> QED BY <3>2, <3>3
    <2>2. CASE d # NextId
      <3>1. d \in 1 .. Committed /\ pipeline[d].source = "parent_pipeline" /\ pipeline[d].whole
        BY <1>3, <1>4, <2>2 DEF RowsKept
      <3>2. ~\E i \in 1 .. Committed : pipeline[i].down = d
        BY <1>3, <1>4
      <3>3. PICK e \in Creator : \E k \in DOMAIN stack[e] : d \in {stack[e][k].id, stack[e][k].down}
        BY <3>1, <3>2 DEF CreationInv, DownstreamIsLinked, RowsType
      <3>4. PICK k \in 1 .. Depth(e) : d \in Refs(stack[e][k])
        BY <3>1, <3>3 DEF CreationInv, StackType, Depth, Refs
      <3>5. ~(e = c /\ k = n)
        BY <1>2, <1>5, <2>2, <3>4
      <3>6. k \in 1 .. Depth(e)'
        <4>1. CASE e = c
          <5>1. k \in 1 .. n - 1 /\ Depth(c)' \in {n, n - 1}
            BY <1>2, <1>a, <1>b, <1>n, <3>4, <3>5, <4>1
          <5> QED BY <1>2, <4>1, <5>1
        <4>2. CASE e # c
          BY <1>8, <3>4, <4>2
        <4> QED BY <4>1, <4>2
      <3>7. d \in Refs(stack'[e][k])
        BY <1>8, <3>4, <3>5, <3>6
      <3>8. k \in DOMAIN stack'[e]
        BY <1>8, <3>6 DEF StackType, Depth
      <3> QED BY <3>7, <3>8 DEF Refs
    <2> QED BY <2>1, <2>2
  <1> QED BY <1>8, <1>9, <1>12, <1>14, <1>15, <1>16 DEF CreationInv

\* The rows once a bridge has its result: its own, and a draft's that is left.
LEMMA FinishedRows ==
    ASSUME CreationInv, NEW c \in Creator, Finish(c)
    PROVE  /\ stack[c] # <<>> /\ Top(c).at = "finish" /\ CanWrite(c) /\ Top(c).id \in 1 .. Committed
           /\ draft' = [draft EXCEPT ![c] = NoPipes] /\ Return(c, Top(c).id)
           /\ UNCHANGED <<ci, taken, lost>>
           /\ \E m \in {Committed, Committed + 1} :
                /\ m <= MaxPipelines /\ pipeline' \in [1 .. m -> Pipe] /\ RowsKept
                /\ pipeline'[Top(c).id].down = Top(c).down
                /\ pipeline'[Top(c).id].bridge = IF Top(c).down = 0 THEN "failed" ELSE "success"
                /\ \A i \in 1 .. Committed : i # Top(c).id => pipeline'[i] = pipeline[i]
                /\ m = Committed + 1 =>
                      /\ pipeline'[NextId].iid = NextIid(pipeline'[NextId].project)
                      /\ ~pipeline'[NextId].whole /\ pipeline'[NextId].down = 0
                      /\ pipeline'[NextId].bridge = "none" /\ pipeline'[NextId].source = "parent_pipeline"
  <1> DEFINE b == IF Top(c).down = 0 THEN "failed" ELSE "success"
             all == Merged(draft[c], pipeline)
  <1>1. /\ stack[c] # <<>> /\ Top(c).at = "finish" /\ CanWrite(c)
        /\ draft' = [draft EXCEPT ![c] = NoPipes] /\ Return(c, Top(c).id)
        /\ UNCHANGED <<ci, taken, lost>>
        /\ pipeline' = [all EXCEPT ![Top(c).id].bridge = b, ![Top(c).id].down = Top(c).down]
    BY DEF Finish, At
  <1>2. FrameFits(Top(c), Depth(c), Depth(c)) /\ DraftFits(c) /\ Top(c) \in Frame
    BY <1>1, TopFits
  <1>3. PICK x \in 1 .. Committed : x = Top(c).id
    BY <1>1, <1>2 DEF FrameFits
  <1>4. PICK d \in Nat : d = Top(c).down
    BY <1>2 DEF Frame
  <1>5. Committed \in Nat /\ NextId = Committed + 1 /\ pipeline \in [1 .. Committed -> Pipe]
            /\ Committed <= MaxPipelines
    BY DEF CreationInv, RowsType, NextId
  <1>6. \E m \in {Committed, Committed + 1} :
            /\ m <= MaxPipelines /\ all \in [1 .. m -> Pipe]
            /\ \A i \in 1 .. Committed : all[i] = pipeline[i]
            /\ m = Committed + 1 =>
                  /\ all[NextId].iid = NextIid(all[NextId].project)
                  /\ ~all[NextId].whole /\ all[NextId].down = 0
                  /\ all[NextId].bridge = "none" /\ all[NextId].source = "parent_pipeline"
    <2>1. CASE draft[c] = NoPipes
      <3>1. all = pipeline
        BY <1>5, <2>1, MergedNothing
      <3> QED BY <1>5, <3>1
    <2>2. CASE draft[c] # NoPipes
      <3>1. /\ NextId <= MaxPipelines /\ draft[c] \in [{Committed + 1} -> Pipe]
            /\ draft[c][NextId].iid = NextIid(draft[c][NextId].project)
            /\ ~draft[c][NextId].whole /\ draft[c][NextId].down = 0 /\ draft[c][NextId].bridge = "none"
            /\ draft[c][NextId].source = "parent_pipeline"
        BY <1>1, <1>2, <1>5, <2>2 DEF DraftFits
      <3>2. /\ all \in [1 .. Committed + 1 -> Pipe] /\ all[Committed + 1] = draft[c][Committed + 1]
            /\ \A i \in 1 .. Committed : all[i] = pipeline[i]
        BY <1>5, <3>1, MergedRow
      <3> HIDE DEF all
      <3> QED BY <1>5, <3>1, <3>2
    <2> QED BY <2>1, <2>2
  <1>7. PICK m \in {Committed, Committed + 1} :
            /\ m <= MaxPipelines /\ all \in [1 .. m -> Pipe]
            /\ \A i \in 1 .. Committed : all[i] = pipeline[i]
            /\ m = Committed + 1 =>
                  /\ all[NextId].iid = NextIid(all[NextId].project)
                  /\ ~all[NextId].whole /\ all[NextId].down = 0
                  /\ all[NextId].bridge = "none" /\ all[NextId].source = "parent_pipeline"
    BY <1>6
  <1>8. PICK e \in {"failed", "success"} : e = b
    OBVIOUS
  <1> HIDE DEF all, b
  <1>9. x \in 1 .. m /\ all[x] = pipeline[x] /\ all[x] \in Pipe /\ x # NextId
    BY <1>3, <1>5, <1>7
  <1>10. pipeline' = [all EXCEPT ![x] = [all[x] EXCEPT !.bridge = e, !.down = d]]
    <2>1. pipeline' = [all EXCEPT ![x].bridge = e, ![x].down = d]
      BY <1>1, <1>3, <1>4, <1>8
    <2> QED BY <1>7, <1>9, <2>1
  <1>11. /\ [all[x] EXCEPT !.bridge = e, !.down = d] \in Pipe
         /\ [all[x] EXCEPT !.bridge = e, !.down = d].bridge = e /\ [all[x] EXCEPT !.bridge = e, !.down = d].down = d
         /\ [all[x] EXCEPT !.bridge = e, !.down = d].project = all[x].project
         /\ [all[x] EXCEPT !.bridge = e, !.down = d].iid = all[x].iid
         /\ [all[x] EXCEPT !.bridge = e, !.down = d].source = all[x].source
         /\ [all[x] EXCEPT !.bridge = e, !.down = d].whole = all[x].whole
    BY <1>9 DEF Pipe, BridgeStatus
  <1>12. /\ pipeline' \in [1 .. m -> Pipe] /\ pipeline'[x] = [all[x] EXCEPT !.bridge = e, !.down = d]
         /\ \A i \in 1 .. m : i # x => pipeline'[i] = all[i]
    <2>1. PICK r \in Pipe : r = [all[x] EXCEPT !.bridge = e, !.down = d]
      BY <1>11
    <2>2. pipeline' = [all EXCEPT ![x] = r]
      BY <1>10, <2>1
    <2>3. pipeline' \in [1 .. m -> Pipe] /\ pipeline'[x] = r /\ \A i \in 1 .. m : i # x => pipeline'[i] = all[i]
      BY <1>7, <1>9, <2>2
    <2> QED BY <2>1, <2>3
  <1>13. \A i \in 1 .. Committed : i \in 1 .. m /\ (i # x => pipeline'[i] = pipeline[i])
    BY <1>5, <1>7, <1>12
  <1>14. RowsKept
    BY <1>9, <1>11, <1>12, <1>13 DEF RowsKept
  <1>15. m = Committed + 1 => pipeline'[NextId] = all[NextId]
    BY <1>5, <1>9, <1>12
  <1> QED
    BY <1>1, <1>3, <1>4, <1>7, <1>8, <1>11, <1>12, <1>13, <1>14, <1>15 DEF b

\* The second commit of a pipeline with a bridge.
LEMMA FinishKeeps ==
    ASSUME CreationInv, NEW c \in Creator, Finish(c)
    PROVE  CreationInv'
  <1> DEFINE f == Top(c)
  <1>n. PICK n \in Nat : n = Depth(c)
    BY DEF CreationInv, StackType, Depth
  <1>1. /\ stack[c] # <<>> /\ f.at = "finish" /\ CanWrite(c) /\ f.id \in 1 .. Committed
        /\ draft' = [draft EXCEPT ![c] = NoPipes] /\ Return(c, f.id)
        /\ UNCHANGED <<ci, taken, lost>>
    BY FinishedRows
  <1>2. PICK m \in {Committed, Committed + 1} :
                /\ m <= MaxPipelines /\ pipeline' \in [1 .. m -> Pipe] /\ RowsKept
                /\ pipeline'[f.id].down = f.down
                /\ pipeline'[f.id].bridge = IF f.down = 0 THEN "failed" ELSE "success"
                /\ \A i \in 1 .. Committed : i # f.id => pipeline'[i] = pipeline[i]
                /\ m = Committed + 1 =>
                      /\ pipeline'[NextId].iid = NextIid(pipeline'[NextId].project)
                      /\ ~pipeline'[NextId].whole /\ pipeline'[NextId].down = 0
                      /\ pipeline'[NextId].bridge = "none" /\ pipeline'[NextId].source = "parent_pipeline"
    BY FinishedRows
  <1>3. n \in Nat \ {0} /\ f = stack[c][n] /\ f \in Frame /\ FrameFits(f, n, n)
    BY <1>1, <1>n, TopFits
  <1>4. PICK x \in 1 .. Committed : x = f.id
    BY <1>1
  <1>5. PICK d \in Nat : d = f.down
    BY <1>3 DEF Frame
  <1>6. Committed \in Nat /\ NextId = Committed + 1 /\ \A i \in 1 .. m : i \in 1 .. Committed
            \/ (i = NextId /\ m = Committed + 1)
    BY DEF CreationInv, RowsType, NextId
  <1>7. x # 0 /\ x # d /\ Refs(f) = {x, d} \ {0} /\ (d # 0 => IsChild(d))
        /\ pipeline[x].whole /\ pipeline[x].source = SourceAt(n)
    BY <1>1, <1>3, <1>4, <1>5, <1>6 DEF FrameFits, Refs
  <1> HIDE DEF f
  <1>b. /\ StackType' /\ \A e \in Creator \ {c} : stack'[e] = stack[e]
        /\ Depth(c)' = n - 1 /\ ~At(c, "jobs")' /\ FramesApart'
        /\ \A k \in 1 .. n - 1 : stack'[c][k] = IF k = n - 1 THEN Told(stack[c][k], x) ELSE stack[c][k]
        /\ \A e \in Creator : \A k \in 1 .. Depth(e)' :
               /\ k \in 1 .. Depth(e) /\ ~(e = c /\ k = n)
               /\ Refs(stack'[e][k]) = IF e = c /\ k = n - 1 THEN Refs(stack[e][k]) \cup {x}
                                       ELSE Refs(stack[e][k])
    <2>1. x \in Nat \ {0} /\ x \in Refs(Top(c)) /\ Return(c, x)
      BY <1>1, <1>4, <1>6, <1>7 DEF f
    <2>2. ~At(c, "jobs")'
      BY <1>1, <2>1, ReturnIsNoJob
    <2>3. /\ StackType' /\ FramesApart' /\ \A e \in Creator \ {c} : stack'[e] = stack[e]
          /\ Depth(c)' = Depth(c) - 1
          /\ \A k \in 1 .. Depth(c) - 1 :
                stack'[c][k] = IF k = Depth(c) - 1 THEN Told(stack[c][k], x) ELSE stack[c][k]
          /\ \A e \in Creator : \A k \in 1 .. Depth(e)' :
               /\ k \in 1 .. Depth(e) /\ ~(e = c /\ k = Depth(c))
               /\ Refs(stack'[e][k]) = IF e = c /\ k = Depth(c) - 1 THEN Refs(stack[e][k]) \cup {x}
                                       ELSE Refs(stack[e][k])
      BY <1>1, <2>1, ReturnHands
    <2> QED BY <1>n, <2>2, <2>3
  <1>8. /\ Committed' = m /\ RowsType' /\ IidsAreDense' /\ DraftsFit'
        /\ \A e : IsChild(e) => IsChild(e)'
        /\ \A h \in Frame : \A k, l : FrameFits(h, k, l) /\ (h.at \in {"bridge", "finish"} => pipeline'[h.id].down = 0)
                                        => FrameFits(h, k, l)'
    <2>1. m = Committed + 1 => pipeline'[NextId].iid = NextIid(pipeline'[NextId].project)
      BY <1>2
    <2>2. \A e \in Creator \ {c} : stack'[e] = stack[e]
      BY <1>b
    <2>3. ~At(c, "jobs")' /\ m <= MaxPipelines /\ pipeline' \in [1 .. m -> Pipe] /\ RowsKept
      BY <1>2, <1>b
    <2> QED BY <1>1, <2>1, <2>2, <2>3, RowsStep
  <1>9. \A e \in Creator : \A k \in 1 .. Depth(e) : \A r \in Refs(stack[e][k]) :
            r \in {x, d} => e = c /\ k = n
    <2> SUFFICES ASSUME NEW e \in Creator, NEW k \in 1 .. Depth(e), NEW r \in Refs(stack[e][k]), r \in {x, d}
                 PROVE  e = c /\ k = n
      OBVIOUS
    <2>1. n \in 1 .. Depth(c) /\ Refs(stack[c][n]) = {x, d} \ {0} /\ r # 0
      BY <1>3, <1>7, <1>n DEF Refs
    <2>2. Refs(stack[e][k]) \cap Refs(stack[c][n]) # {}
      BY <2>1
    <2> QED BY <2>1, <2>2 DEF CreationInv, FramesApart
  <1>10. \A e \in Creator : \A k \in 1 .. Depth(e) : \A h, l :
             ~(e = c /\ k = n) /\ h = stack[e][k] /\ FrameFits(h, k, l) => h \in Frame /\ FrameFits(h, k, l)'
    <2> SUFFICES ASSUME NEW e \in Creator, NEW k \in 1 .. Depth(e), NEW h, NEW l,
                        ~(e = c /\ k = n), h = stack[e][k], FrameFits(h, k, l)
                 PROVE  h \in Frame /\ FrameFits(h, k, l)'
      OBVIOUS
    <2>1. h \in Frame
      BY DEF CreationInv, StackType, Depth
    <2>2. h.id # x
      BY <1>7, <1>9 DEF Refs
    <2>3. h.at \in {"bridge", "finish"} => pipeline'[h.id].down = 0
      BY <1>2, <1>4, <2>2 DEF FrameFits
    <2> QED BY <1>8, <2>1, <2>3
  <1>11. \A e \in Creator : \A k \in 1 .. Depth(e)' : \A h, l :
             h = stack'[e][k] /\ l = Depth(e)' => FrameFits(h, k, l)'
    <2> SUFFICES ASSUME NEW e \in Creator, NEW k \in 1 .. Depth(e)', NEW h, NEW l,
                        h = stack'[e][k], l = Depth(e)'
                 PROVE  FrameFits(h, k, l)'
      OBVIOUS
    <2>1. CASE e # c
      <3>1. h = stack[e][k] /\ l = Depth(e) /\ k \in 1 .. Depth(e)
        BY <1>b, <2>1 DEF Depth
      <3>2. FrameFits(h, k, l)
        BY <3>1 DEF CreationInv, FramesFit
      <3> QED BY <1>10, <2>1, <3>1, <3>2
    <2>2. CASE e = c
      <3>1. /\ l = n - 1 /\ k \in 1 .. n - 1
            /\ h = IF k = n - 1 THEN Told(stack[c][k], x) ELSE stack[c][k]
        BY <1>b, <2>2
      <3>2. PICK g : g = stack[c][k]
        OBVIOUS
      <3>3. FrameFits(g, k, n) /\ k < n /\ k \in Nat /\ n \in Nat /\ k \in 1 .. Depth(c) /\ k # n
        BY <1>3, <1>n, <3>1, <3>2 DEF CreationInv, FramesFit
      <3>4. g \in Frame /\ FrameFits(g, k, n)'
        BY <1>10, <3>2, <3>3
      <3>5. CASE k = n - 1
        <4>1. IsChild(x) /\ x \in Nat
          BY <1>6, <1>7, <3>3, <3>5 DEF IsChild, SourceAt
        <4>2. IsChild(x)'
          BY <1>8, <4>1
        <4>3. x # g.id
          BY <1>7, <1>9, <3>2, <3>3 DEF Refs
        <4>4. FrameFits(Told(g, x), k, k)'
          BY <3>3, <3>4, <4>1, <4>2, <4>3, ToldKnowsThen
        <4> QED BY <3>1, <3>2, <3>5, <4>4
      <3>6. CASE k # n - 1
        <4>1. h = g /\ FrameFits(g, k, n - 1)
          BY <3>1, <3>2, <3>3, <3>6 DEF FrameFits
        <4>2. FrameFits(g, k, n - 1)'
          BY <1>10, <3>2, <3>3, <4>1
        <4> QED BY <3>1, <4>1, <4>2
      <3> QED BY <3>5, <3>6
    <2> QED BY <2>1, <2>2
  <1>12. FramesFit'
    BY <1>11 DEF FramesFit
  <1>13. \A i \in 1 .. Committed : LinkFits(i) /\ (pipeline[i].down # 0 => pipeline[i].down \notin {x, d})
    <2>1. ASSUME NEW i \in 1 .. Committed
          PROVE  LinkFits(i)
      BY DEF CreationInv, LinksFit
    <2>2. c \in Creator /\ n \in 1 .. Depth(c) /\ Refs(stack[c][n]) = {x, d} \ {0}
      BY <1>3, <1>7, <1>n
    <2> QED BY <2>1, <2>2 DEF LinkFits
  <1>14. LinksFit'
    <2> SUFFICES ASSUME NEW i \in 1 .. m, NEW y, y = pipeline'[i].down, y # 0
                 PROVE  LinkFits(i)'
      BY <1>8 DEF LinksFit, LinkFits
    <2>1. i \in 1 .. Committed /\ y = IF i = x THEN d ELSE pipeline[i].down
      BY <1>2, <1>4, <1>5, <1>6
    <2>2. IsChild(y)'
      BY <1>7, <1>8, <1>13, <2>1 DEF LinkFits
    <2>3. \A j \in 1 .. m : pipeline'[j].down = y => j = i
      <3> SUFFICES ASSUME NEW j \in 1 .. m, pipeline'[j].down = y
                   PROVE  j = i
        OBVIOUS
      <3>1. j \in 1 .. Committed /\ y = IF j = x THEN d ELSE pipeline[j].down
        BY <1>2, <1>4, <1>5, <1>6
      <3> QED BY <1>13, <2>1, <3>1 DEF LinkFits
    <2>4. \A e \in Creator : \A k \in 1 .. Depth(e)' : y \notin Refs(stack'[e][k])
      <3> SUFFICES ASSUME NEW e \in Creator, NEW k \in 1 .. Depth(e)', y \in Refs(stack'[e][k])
                   PROVE  FALSE
        OBVIOUS
      <3>1. k \in 1 .. Depth(e) /\ ~(e = c /\ k = n) /\ y \in Refs(stack[e][k]) \cup {x}
        BY <1>b
      <3>2. y # x
        BY <1>7, <1>13, <2>1
      <3>3. y \in Refs(stack[e][k])
        BY <3>1, <3>2
      <3> QED BY <1>9, <1>13, <2>1, <3>1, <3>3 DEF LinkFits
    <2>5. Committed' = m /\ y = pipeline'[i].down
      BY <1>8
    <2> QED BY <2>2, <2>3, <2>4, <2>5 DEF LinkFits, IsChild
  <1>15. RowsTell'
    <2> SUFFICES ASSUME NEW i \in 1 .. m
                 PROVE  RowTells(i)'
      BY <1>8 DEF RowsTell
    <2>1. CASE i = NextId /\ m = Committed + 1
      BY <1>2, <2>1 DEF RowTells
    <2>2. CASE i = x
      BY <1>2, <1>4, <1>5, <1>7, <2>2 DEF RowTells, RowsKept
    <2>3. CASE i \in 1 .. Committed /\ i # x
      <3>1. RowTells(i) /\ pipeline'[i] = pipeline[i]
        BY <1>2, <1>4, <2>3 DEF CreationInv, RowsTell
      <3> QED BY <1>1, <3>1 DEF RowTells
    <2> QED BY <1>6, <2>1, <2>2, <2>3
  <1>16. DownstreamIsLinked'
    <2> SUFFICES ASSUME NEW z \in 1 .. m, z \notin lost,
                        pipeline'[z].source = "parent_pipeline", pipeline'[z].whole,
                        ~\E i \in 1 .. m : pipeline'[i].down = z
                 PROVE  \E e \in Creator : \E k \in DOMAIN stack'[e] : z \in {stack'[e][k].id, stack'[e][k].down}
      BY <1>1, <1>2 DEF DownstreamIsLinked
    <2>1. z \in 1 .. Committed /\ pipeline[z].source = "parent_pipeline" /\ pipeline[z].whole
      BY <1>2, <1>6 DEF RowsKept
    <2>2. z # d
      BY <1>2, <1>4, <1>5, <1>6
    <2>3. CASE z = x
      <3>1. n - 1 \in 1 .. n - 1
        BY <1>3, <1>7, <2>1, <2>3 DEF SourceAt
      <3>2. stack'[c][n - 1] = Told(stack[c][n - 1], x) /\ stack[c][n - 1] \in Frame
        BY <1>3, <1>b, <1>n, <3>1 DEF CreationInv, StackType, Depth
      <3>3. stack'[c][n - 1].down = x
        BY <3>2 DEF Told, Frame
      <3>4. n - 1 \in DOMAIN stack'[c]
        BY <1>b, <3>1 DEF StackType, Depth
      <3> QED BY <2>3, <3>3, <3>4
    <2>4. CASE z # x
      <3>1. ~\E i \in 1 .. Committed : pipeline[i].down = z
        <4> SUFFICES ASSUME NEW i \in 1 .. Committed, pipeline[i].down = z
                     PROVE  FALSE
          OBVIOUS
        <4>1. i # x
          <5>1. pipeline[x].down = 0
            BY <1>1, <1>3, <1>4 DEF FrameFits
          <5> QED BY <2>1, <5>1
        <4> QED BY <1>2, <1>4, <1>6, <4>1
      <3>2. PICK e \in Creator : \E k \in DOMAIN stack[e] : z \in {stack[e][k].id, stack[e][k].down}
        BY <1>1, <2>1, <3>1 DEF CreationInv, DownstreamIsLinked, RowsType
      <3>3. PICK k \in 1 .. Depth(e) : z \in Refs(stack[e][k])
        BY <2>1, <3>2 DEF CreationInv, StackType, Depth, Refs
      <3>4. ~(e = c /\ k = n)
        BY <1>3, <1>7, <2>2, <2>4, <3>3
      <3>5. k \in 1 .. Depth(e)'
        BY <1>3, <1>b, <1>n, <3>3, <3>4 DEF Depth
      <3>6. z \in Refs(stack'[e][k])
        BY <1>b, <3>3, <3>5
      <3>7. k \in DOMAIN stack'[e]
        BY <1>b, <3>5 DEF StackType, Depth
      <3> QED BY <3>6, <3>7 DEF Refs
    <2> QED BY <2>3, <2>4
  <1> QED BY <1>8, <1>b, <1>12, <1>14, <1>15, <1>16 DEF CreationInv

\* What a runner does with a bridge job leaves everything else.
LEMMA JobKeeps ==
    ASSUME CreationInv, NEW i \in 1 .. Committed, NEW b \in BridgeStatus,
           pipeline' = [pipeline EXCEPT ![i].bridge = b],
           taken' \subseteq 1 .. Committed, taken \subseteq taken', b \in {"running", "success"} => i \in taken',
           UNCHANGED <<ci, draft, stack, lost>>
    PROVE  CreationInv'
  <1>1. Committed \in Nat /\ pipeline \in [1 .. Committed -> Pipe]
    BY DEF CreationInv, RowsType
  <1>2. PICK r \in Pipe : /\ r = [pipeline[i] EXCEPT !.bridge = b] /\ r.bridge = b
                          /\ r.project = pipeline[i].project /\ r.iid = pipeline[i].iid
                          /\ r.source = pipeline[i].source /\ r.whole = pipeline[i].whole
                          /\ r.down = pipeline[i].down
    <2>1. pipeline[i] \in Pipe
      BY <1>1
    <2>2. PICK q \in Pipe : q = pipeline[i]
      BY <2>1
    <2> DEFINE r == [q EXCEPT !.bridge = b]
    <2>3. /\ r \in Pipe /\ r.bridge = b /\ r.project = q.project /\ r.iid = q.iid
          /\ r.source = q.source /\ r.whole = q.whole /\ r.down = q.down
      BY DEF Pipe
    <2> QED BY <2>2, <2>3
  <1>3. pipeline' = [pipeline EXCEPT ![i] = r]
    BY <1>1, <1>2
  <1>4. /\ pipeline' \in [1 .. Committed -> Pipe] /\ pipeline'[i].bridge = b
        /\ \A j \in 1 .. Committed : j # i => pipeline'[j] = pipeline[j]
        /\ \A j \in 1 .. Committed : pipeline'[j].down = pipeline[j].down
    BY <1>1, <1>2, <1>3
  <1>5. RowsKept
    BY <1>1, <1>2, <1>3 DEF RowsKept
  <1>6. Committed' = Committed /\ NextId' = NextId
    <2>1. Committed' = Committed
      BY <1>1, <1>4, CountOfRowsThen
    <2> QED BY <2>1 DEF NextId
  <1>7. IidsAreDense' /\ \A p \in CiProject : NextIid(p)' = NextIid(p)
    BY <1>4, <1>5, IidsStay DEF CreationInv
  <1>8. RowsType' /\ StackType'
    BY <1>4, <1>6 DEF CreationInv, RowsType, StackType
  <1>9. \A d : IsChild(d)' <=> IsChild(d)
    BY <1>5, <1>6 DEF IsChild, RowsKept
  <1>10. FramesFit'
    <2>1. \A f \in Frame : \A k, n : FrameFits(f, k, n) => FrameFits(f, k, n)'
      <3> SUFFICES ASSUME NEW f \in Frame, NEW k, NEW n, FrameFits(f, k, n)
                   PROVE  FrameFits(f, k, n)'
        OBVIOUS
      <3>1. NextIid(f.project)' = NextIid(f.project)
        BY <1>7 DEF Frame
      <3>2. f.at \in {"bridge", "finish"} =>
                f.id \in 1 .. Committed' /\ pipeline'[f.id].whole /\ pipeline'[f.id].down = 0
                /\ pipeline'[f.id].source = SourceAt(k)
        BY <1>4, <1>5, <1>6 DEF FrameFits, RowsKept
      <3> QED BY <1>9, <3>1, <3>2 DEF FrameFits, SourceAt
    <2>2. \A c \in Creator : \A k \in 1 .. Depth(c)' : \A h, l :
              h = stack'[c][k] /\ l = Depth(c)' => h \in Frame /\ FrameFits(h, k, l)
      BY DEF CreationInv, FramesFit, StackType, Depth
    <2> QED BY <2>1, <2>2 DEF FramesFit
  <1>11. FramesApart'
    <2>1. stack' = stack /\ \A c : Depth(c)' = Depth(c)
      BY DEF Depth
    <2> SUFFICES ASSUME NEW c \in Creator, NEW d \in Creator,
                        NEW k \in 1 .. Depth(c)', NEW l \in 1 .. Depth(d)',
                        Refs(stack'[c][k]) \cap Refs(stack'[d][l]) # {}
                 PROVE  c = d /\ k = l
      BY DEF FramesApart, Refs
    <2> QED BY <2>1 DEF CreationInv, FramesApart
  <1>12. LinksFit'
    <2> SUFFICES ASSUME NEW j \in 1 .. Committed, NEW y, y = pipeline'[j].down, y # 0
                 PROVE  LinkFits(j)'
      BY <1>6 DEF LinksFit, LinkFits
    <2>1. LinkFits(j) /\ y = pipeline[j].down
      BY <1>4 DEF CreationInv, LinksFit
    <2>2. IsChild(y)' /\ \A k \in 1 .. Committed : pipeline'[k].down = y => k = j
      BY <1>4, <1>9, <2>1 DEF LinkFits
    <2>3. \A c \in Creator : \A k \in 1 .. Depth(c)' : y \notin Refs(stack'[c][k])
      BY <2>1 DEF LinkFits, Depth, Refs
    <2> QED BY <1>6, <2>2, <2>3 DEF LinkFits, IsChild
  <1>13. RowsTell'
    <2> SUFFICES ASSUME NEW j \in 1 .. Committed
                 PROVE  RowTells(j)'
      BY <1>6 DEF RowsTell
    <2>1. RowTells(j)
      BY DEF CreationInv, RowsTell
    <2>2. pipeline'[j].whole = pipeline[j].whole /\ pipeline'[j].source = pipeline[j].source
      BY <1>5 DEF RowsKept
    <2>3. CASE j = i
      BY <1>4, <2>1, <2>2, <2>3 DEF RowTells
    <2>4. CASE j # i
      BY <1>4, <2>1, <2>2, <2>4 DEF RowTells
    <2> QED BY <2>3, <2>4
  <1>14. DownstreamIsLinked'
    <2>1. DOMAIN pipeline' = 1 .. Committed /\ DOMAIN pipeline = 1 .. Committed
      BY <1>1, <1>4
    <2>2. \A j \in 1 .. Committed : /\ pipeline'[j].whole = pipeline[j].whole
                                       /\ pipeline'[j].source = pipeline[j].source
                                /\ pipeline'[j].down = pipeline[j].down
      BY <1>4, <1>5 DEF RowsKept
    <2> QED BY <2>1, <2>2 DEF CreationInv, DownstreamIsLinked
  <1>15. DraftsFit'
    <2> SUFFICES ASSUME NEW c \in Creator
                 PROVE  DraftFits(c)'
      BY DEF CreationInv, DraftsFit
    <2>1. DraftFits(c)
      BY DEF CreationInv, DraftsFit
    <2>2. Depth(c)' = Depth(c) /\ Top(c)' = Top(c) /\ (CanWrite(c)' <=> CanWrite(c)) /\ \A w : At(c, w)' <=> At(c, w)
      BY DEF Depth, Top, CanWrite, At
    <2>3. draft[c] # NoPipes => NextIid(draft[c][NextId].project)' = NextIid(draft[c][NextId].project)
      <3> SUFFICES ASSUME draft[c] # NoPipes
                   PROVE  NextIid(draft[c][NextId].project)' = NextIid(draft[c][NextId].project)
        OBVIOUS
      <3>1. draft[c][NextId].project \in CiProject
        BY <2>1 DEF DraftFits, Pipe
      <3>2. draft'[c][NextId'].project = draft[c][NextId].project
        BY <1>6
      <3> QED BY <1>7, <3>1, <3>2
    <2> QED BY <1>6, <2>1, <2>2, <2>3 DEF DraftFits, SourceAt
  <1> QED BY <1>7, <1>8, <1>10, <1>11, <1>12, <1>13, <1>14, <1>15 DEF CreationInv

\* Every step of a creation, and of a runner, keeps the invariant.
LEMMA CreationStep ==
    CreationInv /\ [CreationNext]_creationVars => CreationInv'
  <1> SUFFICES ASSUME CreationInv, [CreationNext]_creationVars
               PROVE  CreationInv'
    OBVIOUS
  <1>0. DOMAIN pipeline = 1 .. Committed /\ \A j \in 1 .. Committed : pipeline[j] \in Pipe
    BY DEF CreationInv, RowsType
  <1>1. ASSUME NEW c \in Creator, NEW p \in CiProject, CreatePipeline(c, p)
        PROVE  CreationInv'
    BY <1>1, CreatePipelineKeeps
  <1>2. ASSUME NEW c \in Creator, CallStep(c) \/ Crash(c)
        PROVE  CreationInv'
    <2>1. CASE Validate(c)
      BY <2>1, ValidateKeeps
    <2>2. CASE ValidateFails(c)
      BY <2>2, RaiseKeeps DEF ValidateFails
    <2>3. CASE Insert(c)
      BY <2>3, InsertKeeps
    <2>4. CASE InsertFails(c)
      BY <2>4, DiesKeeps DEF InsertFails
    <2>5. CASE SecretFails(c)
      BY <2>5, RaiseKeeps DEF SecretFails
    <2>6. CASE CommitPipeline(c)
      BY <2>6, CommitKeeps
    <2>7. CASE Bridge(c)
      BY <2>7, BridgeKeeps
    <2>8. CASE Finish(c)
      BY <2>8, FinishKeeps
    <2>9. CASE Locked(c)
      BY <2>9, DiesKeeps DEF Locked
    <2>10. CASE Crash(c)
      BY <2>10, DiesKeeps DEF Crash
    <2> QED BY <1>2, <2>1, <2>2, <2>3, <2>4, <2>5, <2>6, <2>7, <2>8, <2>9, <2>10 DEF CallStep
  <1>3. ASSUME NEW i \in DOMAIN pipeline, TakeBridge(i)
        PROVE  CreationInv'
    <2>1. i \in 1 .. Committed /\ taken' = taken \cup {i} /\ taken \subseteq 1 .. Committed
      BY <1>0, <1>3 DEF TakeBridge, CreationInv, RowsType
    <2>2. taken' \subseteq 1 .. Committed /\ taken \subseteq taken' /\ i \in taken' /\ "running" \in BridgeStatus
      BY <2>1 DEF BridgeStatus
    <2> QED BY <1>3, <2>1, <2>2, JobKeeps DEF TakeBridge
  <1>4. ASSUME NEW i \in DOMAIN pipeline, NEW result \in {"success", "failed"}, EndBridge(i, result)
        PROVE  CreationInv'
    <2>1. i \in 1 .. Committed /\ pipeline[i].bridge = "running" /\ taken' = taken /\ result \in BridgeStatus
      BY <1>0, <1>4 DEF EndBridge, BridgeStatus
    <2>2. i \in taken' /\ taken' \subseteq 1 .. Committed /\ taken \subseteq taken'
      BY <2>1 DEF CreationInv, RowsTell, RowTells, RowsType
    <2> QED BY <1>4, <2>1, <2>2, JobKeeps DEF EndBridge
  <1>5. CASE UNCHANGED creationVars
    <2>1. UNCHANGED <<ci, pipeline, draft, stack, taken, lost>>
      BY <1>5 DEF creationVars
    <2>2. Committed' = Committed /\ NextId' = NextId /\ \A p : NextIid(p)' = NextIid(p)
      BY <2>1 DEF Committed, NextId, NextIid, Iids
    <2>3. RowsType' /\ StackType'
      BY <2>1, <2>2 DEF CreationInv, RowsType, StackType
    <2>3a. IidsAreDense'
      BY <2>1 DEF CreationInv, IidsAreDense, Iids
    <2>4. DownstreamIsLinked'
      BY <2>1 DEF CreationInv, DownstreamIsLinked
    <2>5. DraftsFit'
      <3> SUFFICES ASSUME NEW c \in Creator
                   PROVE  DraftFits(c)'
        BY <2>1 DEF CreationInv, DraftsFit
      <3>1. DraftFits(c)
        BY DEF CreationInv, DraftsFit
      <3>2. Depth(c)' = Depth(c) /\ Top(c)' = Top(c) /\ (CanWrite(c)' <=> CanWrite(c)) /\ \A w : At(c, w)' <=> At(c, w)
        BY <2>1 DEF Depth, Top, CanWrite, At
      <3> QED BY <2>1, <2>2, <3>1, <3>2 DEF DraftFits, SourceAt
    <2>6a. \A f, k, n : FrameFits(f, k, n)' <=> FrameFits(f, k, n)
      BY <2>1, <2>2 DEF FrameFits, IsChild, SourceAt
    <2>6b. FramesFit'
      <3>1. \A c \in Creator : \A k \in 1 .. Depth(c)' : \A h, l :
                h = stack'[c][k] /\ l = Depth(c)' => FrameFits(h, k, l)
        BY <2>1 DEF CreationInv, FramesFit, Depth
      <3> QED BY <2>6a, <3>1 DEF FramesFit
    <2>6. FramesApart'
      <3>1. \A c : Depth(c)' = Depth(c)
        BY <2>1 DEF Depth
      <3> SUFFICES ASSUME NEW c \in Creator, NEW d \in Creator,
                          NEW k \in 1 .. Depth(c)', NEW l \in 1 .. Depth(d)',
                          Refs(stack'[c][k]) \cap Refs(stack'[d][l]) # {}
                   PROVE  c = d /\ k = l
        BY DEF FramesApart, Refs
      <3> QED BY <2>1, <3>1 DEF CreationInv, FramesApart
    <2>7. LinksFit' /\ RowsTell'
      BY <2>1, <2>2 DEF CreationInv, LinksFit, LinkFits, RowsTell, RowTells, IsChild, Depth, Refs
    <2> QED BY <2>3, <2>3a, <2>4, <2>5, <2>6, <2>6b, <2>7 DEF CreationInv
  <1> QED BY <1>1, <1>2, <1>3, <1>4, <1>5 DEF CreationNext

\* The invariant says what the properties say.
LEMMA CreationInvSays ==
    CreationInv => CreationTypeOK /\ CommittedIsWhole /\ BridgesAgree
  <1> SUFFICES ASSUME CreationInv
               PROVE  CreationTypeOK /\ CommittedIsWhole /\ BridgesAgree
    OBVIOUS
  <1>0. /\ Committed \in Nat /\ Committed <= MaxPipelines /\ pipeline \in [1 .. Committed -> Pipe]
        /\ DOMAIN pipeline = 1 .. Committed
    BY DEF CreationInv, RowsType
  <1>1. CreationTypeOK
    <2>1. ci \in Ci /\ stack \in [Creator -> Seq(Frame)] /\ taken \subseteq DOMAIN pipeline
              /\ lost \subseteq DOMAIN pipeline
      BY <1>0 DEF CreationInv, RowsType, StackType
    <2>2. \A i \in DOMAIN pipeline : i \in 1 .. MaxPipelines /\ pipeline[i] \in Pipe
      BY <1>0, CreationBounds
    <2>3. \A c \in Creator : \A i \in DOMAIN draft[c] : draft[c][i] \in Pipe
      <3> TAKE c \in Creator
      <3>1. DraftFits(c)
        BY DEF CreationInv, DraftsFit
      <3>2. CASE draft[c] = NoPipes
        BY <3>2 DEF NoPipes
      <3>3. CASE draft[c] # NoPipes
        BY <3>1, <3>3 DEF DraftFits
      <3> QED BY <3>2, <3>3
    <2> QED BY <2>1, <2>2, <2>3 DEF CreationTypeOK
  <1>2. \A i \in 1 .. Committed : LinkFits(i) /\ RowTells(i)
    BY DEF CreationInv, LinksFit, RowsTell
  <1>3. CommittedIsWhole
    <2> SUFFICES ASSUME NEW i \in 1 .. Committed, ~pipeline[i].whole
                 PROVE  pipeline[i].source = "parent_pipeline" /\ \A j \in 1 .. Committed : pipeline[j].down # i
      BY <1>0 DEF CommittedIsWhole
    <2>1. pipeline[i].source = "parent_pipeline"
      BY <1>2 DEF RowTells
    <2>2. \A j \in 1 .. Committed : pipeline[j].down # i
      BY <1>0, <1>2 DEF LinkFits, IsChild
    <2> QED BY <2>1, <2>2
  <1>4. SuccessHasDownstream
    <2> SUFFICES ASSUME NEW i \in 1 .. Committed, pipeline[i].bridge = "success", i \notin taken
                 PROVE  /\ pipeline[i].down \in 1 .. Committed /\ pipeline[pipeline[i].down].whole
                        /\ \A j \in (1 .. Committed) \ {i} : pipeline[j].down # pipeline[i].down
      BY <1>0 DEF SuccessHasDownstream
    <2>1. pipeline[i].down # 0
      BY <1>2 DEF RowTells
    <2> QED BY <1>2, <2>1 DEF LinkFits, IsChild
  <1> QED BY <1>1, <1>3, <1>4 DEF BridgesAgree, CreationInv

\* Whatever calls, errors, crashes and runners do, the invariant holds.
LEMMA CreationIsInvariant == CreationSpec => []CreationInv
  BY CreationStarts, CreationStep, PTL DEF CreationSpec

\* The state of the calls, their drafts and the committed rows has its type.
THEOREM CreationHasType == CreationSpec => []CreationTypeOK
  BY CreationIsInvariant, CreationInvSays, PTL

\* UNIQUE (project_id, iid) and the read of max(iid) before it leave no gap and
\* no double, for any number of concurrent creations of any projects.
THEOREM IidsStayDense == CreationSpec => []IidsAreDense
  <1>1. CreationInv => IidsAreDense
    BY DEF CreationInv
  <1> QED BY <1>1, CreationIsInvariant, PTL

\* No commit of a creation, nor of a parent that catches its error, leaves a
\* pipeline without its jobs, but a downstream one that no bridge refers to.
THEOREM CommitsAreWhole == CreationSpec => []CommittedIsWhole
  BY CreationIsInvariant, CreationInvSays, PTL

\* Both sides of every bridge agree, though two commits and a runner set them:
\* a success has its own downstream pipeline, and a whole downstream pipeline
\* has its bridge, unless its creator died on the way.
THEOREM BridgesMatch == CreationSpec => []BridgesAgree
  BY CreationIsInvariant, CreationInvSays, PTL
-----------------------------------------------------------------------------
(* Imports: types. *)

Rows == [path : Path, child : BOOLEAN, status : Status]
Remote == Path \cup {NoUrl}

\* The list of what the remote has, and what is left of it.
LEMMA FoundIsSeq ==
    /\ <<>> \in Found
    /\ \A q \in Found : q \in Seq(Remote) /\ Len(q) \in 0 .. MaxFound
    /\ \A q \in Found : q # <<>> => Tail(q) \in Found /\ Len(Tail(q)) = Len(q) - 1 /\ Head(q) \in Remote
  <1>1. MaxFound \in Nat
    BY ImportBounds
  <1>2. ASSUME NEW q \in Seq(Remote), Len(q) \in 0 .. MaxFound
        PROVE  q \in Found
    <2>1. q \in [1 .. Len(q) -> Remote]
      OBVIOUS
    <2> QED BY <1>2, <2>1 DEF Found, Remote
  <1>3. ASSUME NEW q \in Found
        PROVE  q \in Seq(Remote) /\ Len(q) \in 0 .. MaxFound
    <2>1. PICK n \in 0 .. MaxFound : q \in [1 .. n -> Remote]
      BY DEF Found, Remote
    <2>2. q \in Seq(Remote) /\ Len(q) = n
      BY <1>1, <2>1
    <2> QED BY <2>2
  <1>4. <<>> \in Found
    <2>1. PICK q \in Seq(Remote) : q = <<>> /\ Len(q) = 0
      BY EmptySeq
    <2>2. Len(q) \in 0 .. MaxFound
      BY <1>1, <2>1
    <2> QED BY <1>2, <2>1, <2>2
  <1>5. ASSUME NEW q \in Found, q # <<>>
        PROVE  Tail(q) \in Found /\ Len(Tail(q)) = Len(q) - 1 /\ Head(q) \in Remote
    <2>1. q \in Seq(Remote) /\ Len(q) \in 1 .. MaxFound
      BY <1>1, <1>3, <1>5, EmptySeq
    <2>2. Tail(q) \in Seq(Remote) /\ Len(Tail(q)) = Len(q) - 1 /\ Head(q) \in Remote
      BY <1>5, <2>1
    <2>3. Len(Tail(q)) \in 0 .. MaxFound
      BY <1>1, <2>1, <2>2
    <2> QED BY <1>2, <2>2, <2>3
  <1> QED BY <1>3, <1>4, <1>5

\* What is known of an import by the stage its task is in.
StageFits(j) ==
    /\ import[j] = NoImport => InStage(j, "over")
    /\ import[j] # NoImport =>
          /\ InStage(j, "begin") => import[j].status = "pending"
          /\ task[j].at \in {"check", "clone", "cloning", "insert", "sync", "complete", "fail"} =>
                import[j].status = "running"
          /\ InStage(j, "count") => import[j].status \in Ended
          /\ InStage(j, "over") => import[j].status \in Ended \/ j \in broken
          /\ task[j].at \in {"sync", "complete"} \/ import[j].status = "completed" => PathOf(j) \in stored

StagesFit == ImportTypeOK /\ \A j \in Id : StageFits(j)

ImportStays(j) == import'[j] = import[j] /\ task'[j] = task[j]

\* The effects a step has on the task and the row of one import.
LEMMA ImportOfTask ==
    ASSUME StagesFit, NEW j \in Id, ~InStage(j, "over")
    PROVE  import[j] \in Rows /\ import[j] # NoImport /\ PathOf(j) \in Path /\ task[j] \in [at : Stage, seen : Nat]
  BY ImportNulls DEF StagesFit, StageFits, ImportTypeOK, Rows, PathOf

\* A task that goes on changes its own stage only.
LEMMA GoesOn ==
    ASSUME ImportTypeOK, NEW j \in Id, NEW stage \in Stage, Goes(j, stage)
    PROVE  /\ task' \in [Id -> [at : Stage, seen : Nat]] /\ task'[j].at = stage /\ task'[j].seen = task[j].seen
           /\ \A k \in Id \ {j} : task'[k] = task[k]
  BY DEF Goes, ImportTypeOK

\* Marking an import changes the status of its row only.
LEMMA MarksRow ==
    ASSUME ImportTypeOK, NEW j \in Id, NEW status \in Status, Marks(j, status), import[j] \in Rows
    PROVE  /\ import' \in [Id -> Rows \cup {NoImport}] /\ import'[j] \in Rows /\ import'[j].status = status
           /\ import'[j].path = import[j].path /\ import'[j].child = import[j].child
           /\ \A k \in Id \ {j} : import'[k] = import[k]
  BY DEF Marks, ImportTypeOK, Rows

\* A new import takes a row that was free and leaves the others.
LEMMA NewRow ==
    ASSUME ImportTypeOK, NEW p \in Path, NEW child \in BOOLEAN, NewImport(p, child)
    PROVE  /\ import' \in [Id -> Rows \cup {NoImport}] /\ task' \in [Id -> [at : Stage, seen : Nat]]
           /\ \E j \in Id : /\ import[j] = NoImport /\ import'[j] \in Rows /\ import'[j].path = p
                            /\ import'[j].child = child /\ import'[j].status = "pending"
                            /\ task'[j].at = "begin" /\ task'[j].seen = 0
                            /\ \A k \in Id \ {j} : ImportStays(k)
  <1>1. PICK j \in Id : /\ import[j] = NoImport
                        /\ import' = [import EXCEPT ![j] = [path |-> p, child |-> child, status |-> "pending"]]
                        /\ task' = [task EXCEPT ![j] = [at |-> "begin", seen |-> 0]]
    BY DEF NewImport
  <1>2. [path |-> p, child |-> child, status |-> "pending"] \in Rows
            /\ [at |-> "begin", seen |-> 0] \in [at : Stage, seen : Nat]
    BY DEF Rows, Status, Stage
  <1>3. /\ import' \in [Id -> Rows \cup {NoImport}] /\ task' \in [Id -> [at : Stage, seen : Nat]]
        /\ import'[j] = [path |-> p, child |-> child, status |-> "pending"]
        /\ task'[j] = [at |-> "begin", seen |-> 0]
        /\ \A k \in Id \ {j} : import'[k] = import[k] /\ task'[k] = task[k]
    BY <1>1, <1>2 DEF ImportTypeOK, Rows
  <1> QED BY <1>1, <1>2, <1>3 DEF ImportStays

\* A task removes the directory of its own path only.
LEMMA RemovesDir ==
    ASSUME StagesFit, NEW j \in Id, ~InStage(j, "over"), NEW yes \in BOOLEAN, Removes(j, yes)
    PROVE  /\ disk' \in [Path -> [by : Id, whole : BOOLEAN] \cup {NoDir}]
           /\ \A p \in Path : p # PathOf(j) \/ ~yes => disk'[p] = disk[p]
  BY ImportOfTask DEF Removes, StagesFit, ImportTypeOK

\* The state of imports has its type, and their stages tell what is so.
LEMMA StagesStep ==
    StagesFit /\ [ImportNext]_importVars => StagesFit'
  <1> SUFFICES ASSUME StagesFit, [ImportNext]_importVars
               PROVE  StagesFit'
    OBVIOUS
  <1> USE DEF ImportTypeOK
  <1>0. Id \subseteq Nat /\ Id \subseteq 0 .. MaxImport /\ StagesFit /\ ImportTypeOK
    BY ImportBounds DEF Id, StagesFit
  <1>1. ASSUME NEW k \in Id, ImportStays(k), stored \subseteq stored', broken \subseteq broken'
        PROVE  StageFits(k)'
    BY <1>1 DEF StagesFit, StageFits, ImportStays, InStage, PathOf
  <1>2. ASSUME NEW p \in Path, NEW child \in BOOLEAN, NewImport(p, child),
            UNCHANGED <<stored, disk, shared, spoilt, crossed, broken>>,
               bulk' \in [at : {"none", "discover", "spawn", "over"}, status : Status, repos : Nat, count : Nat,
                   left : Found]
        PROVE  StagesFit'
    <2>1. PICK j \in Id : /\ import[j] = NoImport /\ import'[j] \in Rows /\ import'[j].status = "pending"
                          /\ task'[j].at = "begin" /\ \A k \in Id \ {j} : ImportStays(k)
      BY <1>0, <1>2, NewRow
    <2>2. StageFits(j)'
      BY <2>1, ImportNulls DEF StageFits, InStage, Rows
    <2>3. \A k \in Id : StageFits(k)'
      BY <1>1, <1>2, <2>1, <2>2
    <2>4. ImportTypeOK'
      BY <1>0, <1>2, NewRow DEF Rows
    <2> QED BY <2>3, <2>4 DEF StagesFit
  <1>3. ASSUME UNCHANGED <<import, task>>, stored \subseteq stored', broken \subseteq broken', ImportTypeOK'
        PROVE  StagesFit'
    BY <1>1, <1>3 DEF StagesFit, ImportStays
  <1>4. CASE \E p \in Path : StartSingleImport(p)
    BY <1>0, <1>2, <1>4 DEF StartSingleImport
  <1>5. CASE StartBulkImport
    <2>1. ImportTypeOK'
      BY <1>0, <1>5 DEF StartBulkImport, BulkGoes
    <2> QED BY <1>3, <1>5, <2>1 DEF StartBulkImport, BulkGoes
  <1>6. CASE Discover
    <2>1. \A q \in Found : Len(q) \in Nat
      BY FoundIsSeq
    <2>2. ImportTypeOK'
      BY <1>0, <1>6, <2>1 DEF Discover, BulkGoes, Status
    <2> QED BY <1>3, <1>6, <2>2 DEF Discover, BulkGoes
  <1>7. CASE Spawn
    <2>1. CASE bulk.left = <<>>
      <3>1. UNCHANGED <<import, task, stored, disk, shared, spoilt, crossed, broken>>
                /\ bulk' = [bulk EXCEPT !.at = "over"]
        BY <1>7, <2>1 DEF Spawn, BulkGoes
      <3>2. ImportTypeOK'
        BY <1>0, <3>1
      <3> QED BY <1>3, <3>1, <3>2
    <2>2. CASE bulk.left # <<>>
      <3>1. Tail(bulk.left) \in Found /\ Head(bulk.left) \in Path \cup {NoUrl}
        BY <1>0, <2>2, FoundIsSeq DEF Remote
      <3>2. bulk' = [bulk EXCEPT !.left = Tail(bulk.left)]
                /\ UNCHANGED <<stored, disk, shared, spoilt, crossed, broken>>
        BY <1>7, <2>2 DEF Spawn, BulkGoes
      <3>3. bulk' \in [at : {"none", "discover", "spawn", "over"}, status : Status, repos : Nat, count : Nat,
                left : Found]
        BY <1>0, <3>1, <3>2
      <3>4. CASE Head(bulk.left) = NoUrl
        <4>1. UNCHANGED <<import, task>>
          BY <1>7, <2>2, <3>4 DEF Spawn
        <4>2. ImportTypeOK'
          BY <1>0, <3>2, <3>3, <4>1
        <4> QED BY <1>3, <3>2, <4>1, <4>2
      <3>5. CASE Head(bulk.left) # NoUrl
        BY <1>2, <1>7, <2>2, <3>1, <3>2, <3>3, <3>5 DEF Spawn
      <3> QED BY <3>4, <3>5
    <2> QED BY <2>1, <2>2
  <1>8. CASE DatabaseRefusesBulk
    <2>1. ImportTypeOK'
      BY <1>0, <1>8, ImportBounds DEF DatabaseRefusesBulk
    <2> QED BY <1>3, <1>8, <2>1 DEF DatabaseRefusesBulk
  <1>9. CASE RestartServer
    <2>1. task' \in [Id -> [at : Stage, seen : Nat]] /\ \A k \in Id : task'[k].at = "over"
      BY <1>0, <1>9 DEF RestartServer, Stage
    <2>2. broken' \subseteq 0 .. MaxImport
      BY <1>0, <1>9, ImportBounds DEF RestartServer
    <2>3. bulk' \in [at : {"none", "discover", "spawn", "over"}, status : Status, repos : Nat, count : Nat,
              left : Found]
      BY <1>0, <1>9 DEF RestartServer
    <2>4. ImportTypeOK'
      BY <1>0, <1>9, <2>1, <2>2, <2>3 DEF RestartServer
    <2>5. \A k \in Id : StageFits(k)'
      <3> TAKE k \in Id
      <3>1. import' = import /\ stored' = stored /\ broken \subseteq broken' /\ (~InStage(k, "over") => k \in broken')
        BY <1>9 DEF RestartServer
      <3>2. StageFits(k)
        BY DEF StagesFit
      <3> QED BY <2>1, <3>1, <3>2 DEF StageFits, InStage, PathOf
    <2> QED BY <2>4, <2>5 DEF StagesFit
  <1>10. ASSUME NEW j \in Id, \A k \in Id \ {j} : ImportStays(k), stored \subseteq stored', broken \subseteq broken',
                StageFits(j)', ImportTypeOK'
         PROVE  StagesFit'
    BY <1>1, <1>10 DEF StagesFit
  <1>11. ASSUME NEW j \in Id, Begin(j)
         PROVE  StagesFit'
    <2>1. import[j] \in Rows /\ import[j] # NoImport /\ task[j].at = "begin" /\ StageFits(j)
      BY <1>0, <1>11, ImportOfTask DEF Begin, InStage, StagesFit
    <2>2. /\ import' \in [Id -> Rows \cup {NoImport}] /\ import'[j] \in Rows /\ import'[j].status = "running"
          /\ \A k \in Id \ {j} : import'[k] = import[k]
      BY <1>0, <1>11, <2>1, MarksRow DEF Begin, Status
    <2>3. /\ task' \in [Id -> [at : Stage, seen : Nat]] /\ task'[j].at = "check"
             /\ \A k \in Id \ {j} : task'[k] = task[k]
      BY <1>0, <1>11 DEF Begin, Stage
    <2>4. ImportTypeOK'
      BY <1>0, <1>11, <2>2, <2>3 DEF Begin, Rows
    <2>5. StageFits(j)'
      BY <2>2, <2>3, ImportNulls DEF StageFits, InStage, Rows
    <2> QED BY <1>10, <1>11, <2>2, <2>3, <2>4, <2>5 DEF Begin, ImportStays
  <1>12. ASSUME NEW j \in Id, NEW stage \in Stage, Goes(j, stage), ~InStage(j, "over"), import' = import,
                stored \subseteq stored', stored' \subseteq Path, broken \subseteq broken',
                    broken' \subseteq 0 .. MaxImport,
                disk' \in [Path -> [by : Id, whole : BOOLEAN] \cup {NoDir}],
                bulk' \in [at : {"none", "discover", "spawn", "over"}, status : Status, repos : Nat, count : Nat,
                    left : Found],
                shared' \subseteq Path, spoilt' \subseteq Path, crossed' = crossed,
                stage \in {"check", "clone", "cloning", "insert", "sync", "complete", "fail"}
                    => import[j].status = "running",
                stage = "count" => import[j].status \in Ended,
                stage = "over" => import[j].status \in Ended \/ j \in broken',
                stage \in {"sync", "complete"} => PathOf(j) \in stored', stage # "begin"
         PROVE  StagesFit'
    <2>1. import[j] \in Rows /\ import[j] # NoImport /\ StageFits(j)
      BY <1>0, <1>12, ImportOfTask DEF StagesFit
    <2>2. /\ task' \in [Id -> [at : Stage, seen : Nat]] /\ task'[j].at = stage
          /\ \A k \in Id \ {j} : task'[k] = task[k]
      BY <1>0, <1>12, GoesOn
    <2>3. ImportTypeOK'
      BY <1>0, <1>12, <2>2
    <2>4. StageFits(j)'
      BY <1>12, <2>1, <2>2 DEF StageFits, InStage, PathOf
    <2> QED BY <1>10, <1>12, <2>2, <2>3, <2>4 DEF ImportStays
  <1>13. ASSUME NEW j \in Id, ~InStage(j, "over")
         PROVE  /\ import[j] \in Rows /\ import[j] # NoImport /\ PathOf(j) \in Path /\ StageFits(j)
                /\ stored \subseteq Path /\ spoilt \subseteq Path /\ shared \subseteq Path
                /\ (Removes(j, TRUE) \/ Removes(j, FALSE)
                   => disk' \in [Path -> [by : Id, whole : BOOLEAN] \cup {NoDir}])
    BY <1>0, <1>13, ImportOfTask, RemovesDir DEF StagesFit
  <1>14. ASSUME NEW j \in Id, CheckDuplicate(j)
         PROVE  StagesFit'
    <2>1. ~InStage(j, "over") /\ task[j].at = "check"
      BY <1>14 DEF CheckDuplicate, InStage
    <2>2. shared' \subseteq Path
      BY <1>13, <1>14, <2>1 DEF CheckDuplicate
    <2>3. PICK stage \in {"fail", "clone"} : Goes(j, stage)
      BY <1>14 DEF CheckDuplicate
    <2>4. import[j].status = "running"
      BY <1>13, <2>1 DEF StageFits
    <2> QED BY <1>0, <1>12, <1>14, <2>1, <2>2, <2>3, <2>4 DEF CheckDuplicate, Stage
  <1>15. ASSUME NEW j \in Id, CloneBegins(j)
         PROVE  StagesFit'
    <2>1. ~InStage(j, "over") /\ import[j].status = "running" /\ PathOf(j) \in Path
      BY <1>13, <1>15 DEF CloneBegins, InStage, StageFits
    <2>2. PICK stage \in {"fail", "cloning"} : Goes(j, stage)
      BY <1>15 DEF CloneBegins
    <2>3. disk' \in [Path -> [by : Id, whole : BOOLEAN] \cup {NoDir}]
      <3>1. CASE disk[PathOf(j)] = NoDir
        <4>1. [by |-> j, whole |-> FALSE] \in [by : Id, whole : BOOLEAN]
          OBVIOUS
        <4>2. PICK d \in [by : Id, whole : BOOLEAN] : d = [by |-> j, whole |-> FALSE]
          BY <4>1
        <4>3. disk' = [disk EXCEPT ![PathOf(j)] = d]
          BY <1>15, <3>1, <4>2 DEF CloneBegins
        <4> QED BY <1>0, <4>3
      <3>2. CASE disk[PathOf(j)] # NoDir
        BY <1>13, <1>15, <2>1, <3>2 DEF CloneBegins
      <3> QED BY <3>1, <3>2
    <2> QED BY <1>0, <1>12, <1>15, <2>1, <2>2, <2>3 DEF CloneBegins, Stage
  <1>16. ASSUME NEW j \in Id, CloneEnds(j)
         PROVE  StagesFit'
    <2>1. ~InStage(j, "over") /\ import[j].status = "running" /\ PathOf(j) \in Path
      BY <1>13, <1>16 DEF CloneEnds, InStage, StageFits
    <2>2. PICK stage \in {"fail", "insert"} : Goes(j, stage)
      BY <1>16 DEF CloneEnds
    <2>3. disk' \in [Path -> [by : Id, whole : BOOLEAN] \cup {NoDir}]
      <3>1. CASE disk[PathOf(j)] = [by |-> j, whole |-> FALSE] /\ disk' = [disk EXCEPT ![PathOf(j)].whole = TRUE]
        <4>1. [by |-> j, whole |-> FALSE] \in [by : Id, whole : BOOLEAN]
          OBVIOUS
        <4>2. PICK d \in [by : Id, whole : BOOLEAN] : disk[PathOf(j)] = d
          BY <3>1, <4>1
        <4>3. [d EXCEPT !.whole = TRUE] \in [by : Id, whole : BOOLEAN]
          OBVIOUS
        <4>4. disk' = [disk EXCEPT ![PathOf(j)] = [d EXCEPT !.whole = TRUE]]
          BY <3>1, <4>2
        <4> QED BY <1>0, <4>3, <4>4
      <3>2. CASE Removes(j, TRUE)
        BY <1>13, <2>1, <3>2
      <3> QED BY <1>16, <3>1, <3>2 DEF CloneEnds
    <2> QED BY <1>0, <1>12, <1>16, <2>1, <2>2, <2>3 DEF CloneEnds, Stage
  <1>17. ASSUME NEW j \in Id, InsertRepository(j)
         PROVE  StagesFit'
    <2>1. ~InStage(j, "over") /\ import[j].status = "running" /\ PathOf(j) \in Path
      BY <1>13, <1>17 DEF InsertRepository, InStage, StageFits
    <2> QED BY <1>0, <1>12, <1>17, <2>1 DEF InsertRepository, Stage
  <1>18. ASSUME NEW j \in Id, SyncBranches(j)
         PROVE  StagesFit'
    <2>1. ~InStage(j, "over") /\ import[j].status = "running" /\ PathOf(j) \in stored
      BY <1>13, <1>18 DEF SyncBranches, InStage, StageFits
    <2> QED BY <1>0, <1>12, <1>18, <2>1 DEF SyncBranches, Stage
  <1>19. ASSUME NEW j \in Id, Count(j)
         PROVE  StagesFit'
    <2>1. ~InStage(j, "over") /\ import[j].status \in Ended
      BY <1>13, <1>19 DEF Count, InStage, StageFits
    <2>2. bulk' \in [at : {"none", "discover", "spawn", "over"}, status : Status, repos : Nat, count : Nat,
              left : Found]
      <3>1. task[j].seen + 1 \in Nat
        BY <1>0
      <3> QED BY <1>0, <1>19, <3>1 DEF Count, Status
    <2> QED BY <1>0, <1>12, <1>19, <2>1, <2>2 DEF Count, Stage
  <1>20. ASSUME NEW j \in Id, Raises(j)
         PROVE  StagesFit'
    <2>1. ~InStage(j, "over") /\ import[j].status = "running" /\ PathOf(j) \in Path
      BY <1>13, <1>20 DEF Raises, InStage, StageFits
    <2>2. Removes(j, TRUE) \/ Removes(j, FALSE)
      BY <1>20 DEF Raises, Removes
    <2>3. spoilt' \subseteq Path
      BY <1>13, <1>20, <2>1 DEF Raises
    <2> QED BY <1>0, <1>12, <1>13, <1>20, <2>1, <2>2, <2>3 DEF Raises, Stage
  <1>21. ASSUME NEW j \in Id, DatabaseRefuses(j)
         PROVE  StagesFit'
    <2>1. ~InStage(j, "over") /\ PathOf(j) \in Path
      BY <1>13, <1>21 DEF DatabaseRefuses, InStage
    <2>2. Removes(j, TRUE) \/ Removes(j, FALSE)
      BY <1>21 DEF DatabaseRefuses, Removes
    <2>3. spoilt' \subseteq Path /\ broken' \subseteq 0 .. MaxImport /\ j \in broken' /\ broken \subseteq broken'
      BY <1>0, <1>13, <1>21, <2>1 DEF DatabaseRefuses
    <2> QED BY <1>0, <1>12, <1>13, <1>21, <2>1, <2>2, <2>3 DEF DatabaseRefuses, Stage
  <1>22. ASSUME NEW j \in Id, NEW status \in Ended, Marks(j, status), Goes(j, "count"), ~InStage(j, "over"),
                status = "completed" => InStage(j, "complete"),
                UNCHANGED <<bulk, stored, disk, shared, spoilt, crossed, broken>>
         PROVE  StagesFit'
    <2>1. import[j] \in Rows /\ import[j] # NoImport /\ StageFits(j)
      BY <1>13, <1>22
    <2>2. /\ import' \in [Id -> Rows \cup {NoImport}] /\ import'[j] \in Rows /\ import'[j].status = status
          /\ import'[j].path = import[j].path /\ \A k \in Id \ {j} : import'[k] = import[k]
      BY <1>0, <1>22, <2>1, MarksRow DEF Status, Ended
    <2>3. /\ task' \in [Id -> [at : Stage, seen : Nat]] /\ task'[j].at = "count"
             /\ \A k \in Id \ {j} : task'[k] = task[k]
      BY <1>0, <1>22, GoesOn DEF Stage
    <2>4. ImportTypeOK'
      BY <1>0, <1>22, <2>2, <2>3 DEF Rows
    <2>5. StageFits(j)'
      <3>1. stored' = stored /\ broken' = broken /\ import'[j] # NoImport
        BY <1>22, <2>2, ImportNulls DEF Rows
      <3>2. status = "completed" => import[j].path \in stored
        BY <1>22, <2>1 DEF StageFits, InStage, PathOf
      <3>3. status = "completed" => import'[j].path \in stored'
        BY <2>2, <3>1, <3>2
      <3> QED BY <1>22, <2>2, <2>3, <3>1, <3>3 DEF StageFits, InStage, PathOf, Ended
    <2> QED BY <1>10, <1>22, <2>2, <2>3, <2>4, <2>5 DEF ImportStays
  <1>23. ASSUME NEW j \in Id, Complete(j) \/ Fail(j)
         PROVE  StagesFit'
    BY <1>22, <1>23 DEF Complete, Fail, InStage, Ended
  <1>24. CASE UNCHANGED importVars
    BY <1>0, <1>3, <1>24 DEF importVars
  <1> QED
    BY <1>4, <1>5, <1>6, <1>7, <1>8, <1>9, <1>11, <1>14, <1>15, <1>16, <1>17, <1>18, <1>19, <1>20, <1>21, <1>23, <1>24
       DEF ImportNext

-----------------------------------------------------------------------------
(* Imports: directories. *)

Cloning(j) == task[j].at \in {"clone", "cloning", "insert"}
Whole(p) == disk[p] # NoDir /\ disk[p].whole

\* What is known of a path no two imports were about to clone at one time.
PathFits(p) ==
    /\ \A j, k \in Id : Cloning(j) /\ Cloning(k) /\ PathOf(j) = p /\ PathOf(k) = p => j = k
    /\ \A j \in Id : Cloning(j) /\ PathOf(j) = p => p \notin stored
    /\ \A j \in Id : InStage(j, "insert") /\ PathOf(j) = p => Whole(p)
    /\ p \in stored \ spoilt => Whole(p)

PathsFit == \A p \in Path \ shared : PathFits(p)

\* A step after which no more imports clone a path, and its directory is whole if it was.
LEMMA PathStays ==
    ASSUME NEW p \in Path, PathFits(p), stored' = stored, spoilt \subseteq spoilt', Whole(p) => Whole(p)',
           \A k \in Id : Cloning(k)' => Cloning(k) /\ PathOf(k)' = PathOf(k),
           \A k \in Id : InStage(k, "insert")' => InStage(k, "insert")
    PROVE  PathFits(p)'
  BY DEF PathFits, Cloning, InStage

\* An import leaves its path and removes the directory.
LEMMA PathLeft ==
    ASSUME NEW p \in Path, PathFits(p), stored' = stored, NEW j \in Id, PathOf(j) = p, ~Cloning(j)',
           \A k \in Id : Cloning(k)' => Cloning(k) /\ PathOf(k)' = PathOf(k),
           Cloning(j) \/ (p \in stored /\ p \in spoilt')
    PROVE  PathFits(p)'
  BY DEF PathFits, Cloning, InStage

\* Paths fit, whatever step the imports take.
LEMMA PathsStep ==
    StagesFit /\ PathsFit /\ [ImportNext]_importVars => PathsFit'
  <1> SUFFICES ASSUME StagesFit, PathsFit, [ImportNext]_importVars, NEW p \in Path, p \notin shared'
               PROVE  PathFits(p)'
    BY DEF PathsFit
  <1>0. ImportTypeOK /\ \A j \in Id : StageFits(j)
    BY DEF StagesFit
  <1>1. shared \subseteq shared'
    BY DEF ImportNext, importVars, StartSingleImport, StartBulkImport, Discover, Spawn, BulkGoes, DatabaseRefusesBulk,
           RestartServer, Begin, CheckDuplicate, CloneBegins, CloneEnds, InsertRepository, SyncBranches, Complete, Fail,
           Count, Raises, DatabaseRefuses
  <1>2. PathFits(p)
    BY <1>1 DEF PathsFit
  <1>3. ASSUME UNCHANGED <<import, stored, disk, spoilt>>, \A k \in Id : task'[k] = task[k] \/ task'[k].at = "over"
        PROVE  PathFits(p)'
    BY <1>2, <1>3, PathStays DEF Cloning, InStage, PathOf, Whole
  <1>4. ASSUME NEW q \in Path, NEW child \in BOOLEAN, NewImport(q, child),
            UNCHANGED <<stored, disk, shared, spoilt, crossed, broken>>
        PROVE  PathFits(p)'
    <2>1. PICK j \in Id : task'[j].at = "begin" /\ \A k \in Id \ {j} : ImportStays(k)
      BY <1>0, <1>4, NewRow
    <2> QED BY <1>2, <1>4, <2>1, PathStays DEF Cloning, InStage, PathOf, Whole, ImportStays
  <1>5. CASE \E q \in Path : StartSingleImport(q)
    BY <1>4, <1>5 DEF StartSingleImport
  <1>6. CASE StartBulkImport \/ Discover \/ DatabaseRefusesBulk \/ UNCHANGED importVars
    BY <1>3, <1>6 DEF StartBulkImport, Discover, BulkGoes, DatabaseRefusesBulk, importVars
  <1>7. CASE Spawn
    <2>1. CASE UNCHANGED <<import, task>>
      BY <1>3, <1>7, <2>1 DEF Spawn, BulkGoes
    <2>2. CASE bulk.left # <<>> /\ Head(bulk.left) # NoUrl
      <3>1. Head(bulk.left) \in Path
        BY <1>0, <2>2, FoundIsSeq DEF Remote, ImportTypeOK
      <3> QED BY <1>4, <1>7, <2>2, <3>1 DEF Spawn, BulkGoes
    <2> QED BY <1>7, <2>1, <2>2 DEF Spawn
  <1>8. CASE RestartServer
    <2>1. \A k \in Id : task'[k].at = "over"
      BY <1>0, <1>8 DEF RestartServer, ImportTypeOK
    <2> QED BY <1>3, <1>8, <2>1 DEF RestartServer
  <1>9. ASSUME NEW j \in Id, NEW stage \in Stage, Goes(j, stage)
        PROVE  /\ task'[j].at = stage
               /\ \A k \in Id \ {j} : task'[k] = task[k]
               /\ \A k \in Id \ {j} : Cloning(k)' = Cloning(k) /\ InStage(k, "insert")' = InStage(k, "insert")
    BY <1>0, <1>9, GoesOn DEF Cloning, InStage
  <1>10. ASSUME NEW j \in Id, NEW stage \in Stage \ {"clone", "cloning", "insert"}, Goes(j, stage),
                \A k \in Id : PathOf(k)' = PathOf(k), stored' = stored, spoilt \subseteq spoilt', Whole(p) => Whole(p)'
         PROVE  PathFits(p)'
    BY <1>2, <1>9, <1>10, PathStays DEF Cloning, InStage
  <1>11. ASSUME NEW j \in Id, NEW status \in Status, Marks(j, status), ~InStage(j, "over")
         PROVE  \A k \in Id : PathOf(k)' = PathOf(k)
    BY <1>0, <1>11, ImportOfTask, MarksRow DEF PathOf
  <1>12. ASSUME NEW j \in Id, disk' = [disk EXCEPT ![PathOf(j)] = NoDir], ~InStage(j, "over"),
                NEW stage \in {"fail", "over"}, Goes(j, stage), import' = import, stored' = stored,
                spoilt \subseteq spoilt', Cloning(j) \/ (PathOf(j) \in stored /\ PathOf(j) \in spoilt')
         PROVE  PathFits(p)'
    <2>1. CASE p # PathOf(j)
      <3>1. disk'[p] = disk[p]
        BY <1>0, <1>12, <2>1 DEF ImportTypeOK
      <3> QED BY <1>10, <1>12, <3>1 DEF PathOf, Stage, Whole
    <2>2. CASE p = PathOf(j)
      BY <1>2, <1>9, <1>12, <2>2, PathLeft DEF Cloning, PathOf, Stage
    <2> QED BY <2>1, <2>2
  <1>13. ASSUME NEW j \in Id, Begin(j)
         PROVE  PathFits(p)'
    <2>1. \A k \in Id : PathOf(k)' = PathOf(k)
      BY <1>11, <1>13 DEF Begin, InStage, Status
    <2>2. task'[j].at = "check" /\ \A k \in Id \ {j} : task'[k] = task[k]
      BY <1>0, <1>13 DEF Begin, ImportTypeOK
    <2> QED BY <1>2, <1>13, <2>1, <2>2, PathStays DEF Begin, Cloning, InStage, Whole
  <1>14. ASSUME NEW j \in Id, CheckDuplicate(j)
         PROVE  PathFits(p)'
    <2>1. UNCHANGED <<import, stored, disk, spoilt>>
      BY <1>14 DEF CheckDuplicate
    <2>2. CASE PathOf(j) \in stored
      BY <1>10, <1>14, <2>1, <2>2 DEF CheckDuplicate, Stage, PathOf, Whole
    <2>3. CASE PathOf(j) \notin stored
      <3>1. Goes(j, "clone")
        BY <1>14, <2>3 DEF CheckDuplicate
      <3>2. \A i \in Id \ {j} : Cloning(i) /\ PathOf(i) = PathOf(j) => PathOf(i) \in shared'
        BY <1>14, <2>3 DEF CheckDuplicate, Cloning
      <3>3. task'[j].at = "clone" /\ \A k \in Id \ {j} : Cloning(k)' = Cloning(k)
                /\ InStage(k, "insert")' = InStage(k, "insert")
        BY <1>9, <3>1 DEF Stage
      <3> QED BY <1>2, <2>1, <2>3, <3>2, <3>3 DEF PathFits, Cloning, InStage, PathOf, Whole
    <2> QED BY <2>2, <2>3
  <1>15. ASSUME NEW j \in Id, CloneBegins(j)
         PROVE  PathFits(p)'
    <2>1. Cloning(j) /\ ~InStage(j, "over") /\ UNCHANGED <<import, stored, spoilt>>
      BY <1>15 DEF CloneBegins, Cloning, InStage
    <2>2. CASE disk[PathOf(j)] = NoDir
      <3>1. Goes(j, "cloning") /\ disk' = [disk EXCEPT ![PathOf(j)] = [by |-> j, whole |-> FALSE]]
        BY <1>15, <2>2 DEF CloneBegins
      <3>2. task'[j].at = "cloning" /\ \A k \in Id \ {j} : Cloning(k)' = Cloning(k)
                /\ InStage(k, "insert")' = InStage(k, "insert")
        BY <1>9, <3>1 DEF Stage
      <3>3. Whole(p) => Whole(p)'
        BY <1>0, <2>2, <3>1 DEF Whole, ImportTypeOK
      <3> QED BY <1>2, <2>1, <3>2, <3>3, PathStays DEF Cloning, InStage, PathOf
    <2>3. CASE disk[PathOf(j)] # NoDir
      <3>1. disk' = [disk EXCEPT ![PathOf(j)] = NoDir] /\ Goes(j, "fail")
        BY <1>15, <2>3 DEF CloneBegins, Removes
      <3> QED BY <1>12, <2>1, <3>1
    <2> QED BY <2>2, <2>3
  <1>16. ASSUME NEW j \in Id, CloneEnds(j)
         PROVE  PathFits(p)'
    <2>1. Cloning(j) /\ ~InStage(j, "over") /\ UNCHANGED <<import, stored, spoilt>> /\ PathOf(j) \in Path
      BY <1>0, <1>16, ImportOfTask DEF CloneEnds, Cloning, InStage
    <2>2. CASE /\ disk[PathOf(j)] = [by |-> j, whole |-> FALSE]
               /\ disk' = [disk EXCEPT ![PathOf(j)].whole = TRUE] /\ Goes(j, "insert")
      <3>1. task'[j].at = "insert" /\ \A k \in Id \ {j} : Cloning(k)' = Cloning(k)
                /\ InStage(k, "insert")' = InStage(k, "insert")
        BY <1>9, <2>2 DEF Stage
      <3>2. [by |-> j, whole |-> FALSE] \in [by : Id, whole : BOOLEAN]
        OBVIOUS
      <3>3. PICK d \in [by : Id, whole : BOOLEAN] : disk[PathOf(j)] = d
        BY <2>2, <3>2
      <3>4. [d EXCEPT !.whole = TRUE] \in [by : Id, whole : BOOLEAN] /\ [d EXCEPT !.whole = TRUE].whole
        OBVIOUS
      <3>5. disk' = [disk EXCEPT ![PathOf(j)] = [d EXCEPT !.whole = TRUE]]
        BY <2>2, <3>3
      <3>6. p = PathOf(j) => Whole(p)'
        <4>1. SUFFICES ASSUME p = PathOf(j) PROVE Whole(p)'
          OBVIOUS
        <4>2. disk'[p] = [d EXCEPT !.whole = TRUE]
          BY <1>0, <3>5, <4>1 DEF ImportTypeOK
        <4>3. PICK e \in [by : Id, whole : BOOLEAN] : e = [d EXCEPT !.whole = TRUE] /\ e.whole
          BY <3>4
        <4> QED BY <4>2, <4>3, ImportNulls DEF Whole
      <3>7. p # PathOf(j) => disk'[p] = disk[p]
        BY <1>0, <3>5 DEF ImportTypeOK
      <3> QED BY <1>2, <2>1, <3>1, <3>6, <3>7 DEF PathFits, Cloning, InStage, PathOf, Whole
    <2>3. CASE Removes(j, TRUE) /\ Goes(j, "fail")
      <3>1. disk' = [disk EXCEPT ![PathOf(j)] = NoDir]
        BY <2>3 DEF Removes
      <3> QED BY <1>12, <2>1, <2>3, <3>1
    <2> QED BY <1>16, <2>2, <2>3 DEF CloneEnds
  <1>17. ASSUME NEW j \in Id, InsertRepository(j)
         PROVE  PathFits(p)'
    <2>1. /\ task'[j].at = "sync"
          /\ \A k \in Id \ {j} : Cloning(k)' = Cloning(k) /\ InStage(k, "insert")' = InStage(k, "insert")
      BY <1>9, <1>17 DEF InsertRepository, Stage
    <2>2. Cloning(j) /\ InStage(j, "insert") /\ UNCHANGED <<import, disk, spoilt>> /\ stored' = stored \cup {PathOf(j)}
      BY <1>17 DEF InsertRepository, Cloning, InStage
    <2> QED BY <1>2, <2>1, <2>2 DEF PathFits, Cloning, InStage, PathOf, Whole
  <1>18. ASSUME NEW j \in Id, SyncBranches(j) \/ Complete(j) \/ Fail(j) \/ Count(j)
         PROVE  PathFits(p)'
    <2>1. \A k \in Id : PathOf(k)' = PathOf(k)
      BY <1>11, <1>18 DEF SyncBranches, Complete, Fail, Count, InStage, PathOf, Status
    <2>2. UNCHANGED <<stored, spoilt, disk>>
      BY <1>18 DEF SyncBranches, Complete, Fail, Count
    <2>3. PICK stage \in {"complete", "count", "over"} : Goes(j, stage)
      BY <1>18 DEF SyncBranches, Complete, Fail, Count
    <2> QED BY <1>10, <2>1, <2>2, <2>3 DEF Stage, Whole
  <1>19. ASSUME NEW j \in Id, RemovesOnError(j)
         PROVE  Cloning(j) \/ (Spoils(j) /\ PathOf(j) \in stored)
    <2>1. import[j] # NoImport /\ StageFits(j)
      BY <1>0, <1>19, ImportOfTask DEF RemovesOnError, InStage
    <2>2. task[j].at \in {"sync", "complete"} \/ (InStage(j, "count") /\ import[j].status = "completed") =>
            PathOf(j) \in stored /\ Spoils(j)
      BY <1>19, <2>1 DEF StageFits, InStage, Spoils
    <2> QED BY <1>19, <2>2 DEF RemovesOnError, Cloning
  <1>20. ASSUME NEW j \in Id, NEW stage \in {"fail", "over"}, Raises(j) \/ DatabaseRefuses(j), Goes(j, stage)
         PROVE  PathFits(p)'
    <2>1. ~InStage(j, "over") /\ UNCHANGED <<import, stored>>
      BY <1>20 DEF Raises, DatabaseRefuses, InStage
    <2>2. spoilt \subseteq spoilt' /\ (Spoils(j) => PathOf(j) \in spoilt')
      BY <1>20 DEF Raises, DatabaseRefuses
    <2>3. CASE RemovesOnError(j)
      <3>1. disk' = [disk EXCEPT ![PathOf(j)] = NoDir]
        BY <1>20, <2>3 DEF Raises, DatabaseRefuses, Removes
      <3>2. Cloning(j) \/ (PathOf(j) \in stored /\ PathOf(j) \in spoilt')
        BY <1>19, <2>2, <2>3
      <3> QED BY <1>12, <1>20, <2>1, <2>2, <3>1, <3>2
    <2>4. CASE ~RemovesOnError(j)
      <3>1. disk' = disk
        BY <1>20, <2>4 DEF Raises, DatabaseRefuses, Removes
      <3> QED BY <1>10, <1>20, <2>1, <2>2, <3>1 DEF Stage, PathOf, Whole
    <2> QED BY <2>3, <2>4
  <1>21. ASSUME NEW j \in Id, Raises(j) \/ DatabaseRefuses(j)
         PROVE  PathFits(p)'
    BY <1>20, <1>21 DEF Raises, DatabaseRefuses
  <1> QED BY <1>5, <1>6, <1>7, <1>8, <1>13, <1>14, <1>15, <1>16, <1>17, <1>18, <1>21 DEF ImportNext

-----------------------------------------------------------------------------
(* Imports: the bulk import's count. *)

Active(j) == j \in Children /\ task[j].at \notin {"begin", "over"}
Counted == {j \in Children : InStage(j, "over") /\ import[j].status \in Ended}
Unbroken == broken \cap (Children \cup {0}) = {}

\* What the row of a bulk import tells of its imports.
BulkFits ==
    /\ bulk.at \in {"none", "discover"} =>
          bulk.repos = 0 /\ bulk.left = <<>> /\ bulk.count = 0 /\ bulk.status = "running" /\ Children = {}
    /\ bulk.at = "spawn" => bulk.repos > 0
    /\ Cardinality(Children) + Len(bulk.left) <= bulk.repos
    /\ bulk.count <= Cardinality(Counted)
    /\ \A j \in Id : Active(j) => task[j].seen <= Cardinality(Counted)
    /\ bulk.status = "completed" => bulk.left = <<>> /\ \A j \in Children : import[j].status \in Ended

\* The count is exact as long as nothing broke and no two imports had loaded the row.
CountIsExact ==
    /\ ~crossed => \A j, k \in Id : Active(j) /\ Active(k) => j = k
    /\ ~crossed /\ Unbroken =>
          bulk.count = Cardinality(Counted) /\ \A j \in Id : Active(j) => task[j].seen = bulk.count
    /\ bulk.repos > 0 /\ bulk.count >= bulk.repos => bulk.status = "completed"
    /\ bulk.at = "over" /\ bulk.repos = 0 /\ 0 \notin broken => bulk.status \in Ended

\* The imports of a bulk import are finitely many.
LEMMA ChildrenAreFinite ==
    /\ IsFiniteSet(Id) /\ Children \subseteq Id /\ Counted \subseteq Children
    /\ IsFiniteSet(Children) /\ IsFiniteSet(Counted) /\ Cardinality(Children) \in Nat /\ Cardinality(Counted) \in Nat
    /\ Cardinality(Counted) <= Cardinality(Children)
    /\ (Cardinality(Counted) = Cardinality(Children) => Counted = Children)
  <1>1. IsFiniteSet(Id)
    BY ImportBounds, FS_Interval DEF Id
  <1>2. Children \subseteq Id /\ Counted \subseteq Children
    BY DEF Children, Imports, Counted
  <1>3. IsFiniteSet(Children) /\ IsFiniteSet(Counted)
    BY <1>1, <1>2, FS_Subset
  <1> QED BY <1>1, <1>2, <1>3, FS_Subset, FS_CardinalityType

\* ... after a step, too.
LEMMA ChildrenStayFinite ==
    (/\ IsFiniteSet(Id) /\ Children \subseteq Id /\ Counted \subseteq Children
     /\ IsFiniteSet(Children) /\ IsFiniteSet(Counted) /\ Cardinality(Children) \in Nat /\ Cardinality(Counted) \in Nat
     /\ Cardinality(Counted) <= Cardinality(Children)
     /\ (Cardinality(Counted) = Cardinality(Children) => Counted = Children))'
  BY ChildrenAreFinite, PTL

\* A step that changes neither what the row of the bulk import counts nor what its imports have loaded.
LEMMA BulkStays ==
    ASSUME StagesFit, ImportTypeOK', BulkFits, CountIsExact,
           bulk'.repos = bulk.repos, bulk'.left = bulk.left, bulk'.count = bulk.count, bulk'.status = bulk.status,
           bulk'.at \in {"none", "discover"} => bulk.at \in {"none", "discover"},
           bulk'.at = "spawn" => bulk.at = "spawn",
           bulk'.at = "over" => bulk.at \in {"spawn", "over"} \/ 0 \in broken',
           Children' = Children, Counted \subseteq Counted', Unbroken' => Counted' = Counted, broken \subseteq broken',
           crossed => crossed', \A k \in Id : Active(k)' => Active(k) /\ task'[k].seen = task[k].seen,
           \A k \in Children : import[k].status \in Ended => import'[k].status \in Ended
    PROVE  BulkFits' /\ CountIsExact'
  <1>1. Unbroken' => Unbroken
    BY DEF Unbroken
  <1>2. Cardinality(Counted) <= Cardinality(Counted)'
    BY ChildrenStayFinite, FS_Subset
  <1>3. bulk.count \in Nat /\ \A k \in Id : task[k].seen \in Nat
    BY DEF StagesFit, ImportTypeOK
  <1>4. BulkFits'
    BY <1>2, <1>3, ChildrenAreFinite, ChildrenStayFinite DEF BulkFits
  <1>5. CountIsExact'
    BY <1>1 DEF CountIsExact, BulkFits
  <1> QED BY <1>4, <1>5

\* The row of a bulk import fits its imports, whatever step they take.
LEMMA BulkStep ==
    StagesFit /\ BulkFits /\ CountIsExact /\ [ImportNext]_importVars => BulkFits' /\ CountIsExact'
  <1> SUFFICES ASSUME StagesFit, BulkFits, CountIsExact, [ImportNext]_importVars
               PROVE  BulkFits' /\ CountIsExact'
    OBVIOUS
  <1>0. StagesFit' /\ ImportTypeOK /\ ImportTypeOK' /\ \A j \in Id : StageFits(j)
    BY StagesStep DEF StagesFit
  <1>1. /\ bulk.at \in {"none", "discover", "spawn", "over"} /\ bulk.status \in Status
        /\ bulk.repos \in Nat /\ bulk.count \in Nat /\ bulk.left \in Found /\ Len(bulk.left) \in Nat
        /\ \A k \in Id : task[k].seen \in Nat
    BY <1>0, FoundIsSeq DEF ImportTypeOK
  \* Steps of the bulk import's own task.
  <1>3. ASSUME UNCHANGED <<import, crossed>>, broken \subseteq broken',
               bulk'.repos = bulk.repos, bulk'.left = bulk.left, bulk'.count = bulk.count, bulk'.status = bulk.status,
               bulk'.at \in {"none", "discover"} => bulk.at \in {"none", "discover"},
               bulk'.at = "spawn" => bulk.at = "spawn",
               bulk'.at = "over" => bulk.at \in {"spawn", "over"} \/ 0 \in broken',
               \A k \in Id : task'[k] = task[k] \/ (task'[k].at = "over" /\ (InStage(k, "over") \/ k \in broken'))
        PROVE  BulkFits' /\ CountIsExact'
    <2>1. Children' = Children /\ Children \subseteq Id
      BY <1>3, ChildrenAreFinite DEF Children, Imports
    <2>2. \A k \in Children : InStage(k, "over") => InStage(k, "over")'
      BY <1>3, <2>1 DEF InStage
    <2>3. Counted \subseteq Counted'
      BY <1>3, <2>1, <2>2 DEF Counted
    <2>4. Unbroken' => Counted' = Counted
      <3>1. ASSUME Unbroken', NEW k \in Children, InStage(k, "over")'
            PROVE  InStage(k, "over")
        BY <1>3, <2>1, <3>1 DEF Unbroken, InStage
      <3> QED BY <1>3, <2>1, <2>3, <3>1 DEF Counted
    <2>5. \A k \in Id : Active(k)' => Active(k) /\ task'[k].seen = task[k].seen
      BY <1>3, <2>1 DEF Active
    <2> QED BY <1>0, <1>3, <2>1, <2>3, <2>4, <2>5, BulkStays
  \* Steps of one import that do not count.
  <1>4. ASSUME NEW j \in Id, \A k \in Id \ {j} : ImportStays(k), bulk' = bulk, broken \subseteq broken',
               crossed => crossed',
               j \in Children' <=> j \in Children, ~InStage(j, "over") \/ j \notin Children,
               j \in Children /\ InStage(j, "over")' => j \in broken',
               j \in Children /\ task'[j].at \notin {"begin", "over"} => ~InStage(j, "begin")
                   /\ task'[j].seen = task[j].seen,
               j \in Children /\ import[j].status \in Ended => import'[j].status \in Ended
        PROVE  BulkFits' /\ CountIsExact'
    <2>1. Children' = Children /\ Children \subseteq Id
      BY <1>4, ChildrenAreFinite, ChildrenStayFinite DEF Children, Imports, ImportStays
    <2>2. \A k \in Children \ {j} : k \in Counted' <=> k \in Counted
      BY <1>4, <2>1 DEF Counted, ImportStays, InStage
    <2>3. j \notin Counted
      BY <1>4 DEF Counted
    <2>4. Counted \subseteq Counted'
      BY <2>1, <2>2, <2>3, ChildrenAreFinite
    <2>5. Unbroken' => j \notin Counted'
      BY <1>4, <2>1 DEF Unbroken, Counted
    <2>6. Unbroken' => Counted' = Counted
      BY <2>1, <2>2, <2>3, <2>5, ChildrenAreFinite, ChildrenStayFinite
    <2>7. \A k \in Id : Active(k)' => Active(k) /\ task'[k].seen = task[k].seen
      BY <1>4, <2>1 DEF Active, ImportStays, InStage
    <2>8. \A k \in Children : import[k].status \in Ended => import'[k].status \in Ended
      BY <1>4, <2>1 DEF ImportStays
    <2> QED BY <1>0, <1>4, <2>1, <2>4, <2>6, <2>7, <2>8, BulkStays
  <1>5. CASE \E p \in Path : StartSingleImport(p)
    <2>1. PICK p \in Path : StartSingleImport(p)
      BY <1>5
    <2>2. PICK j \in Id : /\ import[j] = NoImport /\ import'[j] \in Rows /\ import'[j].child = FALSE
                          /\ \A k \in Id \ {j} : ImportStays(k)
      BY <1>0, <2>1, NewRow DEF StartSingleImport
    <2>3. j \notin Children /\ j \notin Children'
      BY <2>2 DEF Children, Imports
    <2> QED BY <1>4, <2>1, <2>2, <2>3 DEF StartSingleImport
  <1>6. CASE StartBulkImport \/ DatabaseRefusesBulk \/ UNCHANGED importVars
    <2>1. CASE StartBulkImport
      <3>1. bulk' = [bulk EXCEPT !.at = "discover"] /\ bulk.at = "none" /\ UNCHANGED <<import, task, crossed, broken>>
        BY <2>1 DEF StartBulkImport, BulkGoes
      <3>2. /\ bulk'.at = "discover" /\ bulk'.repos = bulk.repos /\ bulk'.left = bulk.left /\ bulk'.count = bulk.count
            /\ bulk'.status = bulk.status
        BY <1>0, <3>1 DEF ImportTypeOK
      <3> QED BY <1>3, <3>1, <3>2
    <2>2. CASE DatabaseRefusesBulk
      <3>1. bulk' = [bulk EXCEPT !.at = "over"] /\ 0 \in broken' /\ broken \subseteq broken'
                /\ UNCHANGED <<import, task, crossed>>
        BY <2>2 DEF DatabaseRefusesBulk
      <3>2. /\ bulk'.at = "over" /\ bulk'.repos = bulk.repos /\ bulk'.left = bulk.left /\ bulk'.count = bulk.count
            /\ bulk'.status = bulk.status
        BY <1>0, <3>1 DEF ImportTypeOK
      <3> QED BY <1>3, <3>1, <3>2
    <2>3. CASE UNCHANGED importVars
      BY <1>1, <1>3, <2>3 DEF importVars
    <2> QED BY <1>6, <2>1, <2>2, <2>3
  <1>7. CASE RestartServer
    <2>1. \A k \in Id : task'[k].at = "over" /\ (InStage(k, "over") \/ k \in broken')
      BY <1>0, <1>7 DEF RestartServer, ImportTypeOK
    <2>2. /\ bulk'.repos = bulk.repos /\ bulk'.left = bulk.left /\ bulk'.count = bulk.count
             /\ bulk'.status = bulk.status
          /\ (bulk'.at # "over" => bulk.at = "none" /\ bulk' = bulk)
      BY <1>0, <1>7 DEF RestartServer, ImportTypeOK
    <2>3. bulk'.at = "over" => bulk.at = "over" \/ 0 \in broken'
      BY <1>0, <1>1, <1>7 DEF RestartServer, ImportTypeOK
    <2>4. UNCHANGED <<import, crossed>> /\ broken \subseteq broken'
      BY <1>7 DEF RestartServer
    <2> QED BY <1>3, <2>1, <2>2, <2>3, <2>4
  <1>8. CASE Discover
    <2>1. /\ bulk.at = "discover" /\ bulk.repos = 0 /\ bulk.left = <<>> /\ bulk.count = 0 /\ bulk.status = "running"
             /\ Children = {}
          /\ UNCHANGED <<import, task, crossed, broken>>
      BY <1>8 DEF Discover, BulkGoes, BulkFits
    <2>2. Children' = {} /\ Counted' = {} /\ Cardinality({}) = 0 /\ Len(<<>>) = 0
      BY <2>1, FS_EmptySet, EmptySeq DEF Counted, Children, Imports
    <2>3. \A k \in Id : ~Active(k)'
      BY <2>2 DEF Active
    <2>4. CASE bulk' = [bulk EXCEPT !.at = "over", !.status = "completed"]
              \/ bulk' = [bulk EXCEPT !.at = "over", !.status = "failed"]
      <3>1. bulk'.at = "over" /\ bulk'.repos = 0 /\ bulk'.left = <<>> /\ bulk'.count = 0 /\ bulk'.status \in Ended
        BY <1>0, <2>1, <2>4 DEF ImportTypeOK, Ended
      <3>2. BulkFits'
        BY <2>2, <2>3, <3>1 DEF BulkFits
      <3>3. CountIsExact'
        BY <2>2, <2>3, <3>1 DEF CountIsExact
      <3> QED BY <3>2, <3>3
    <2>5. ASSUME NEW found \in Found, found # <<>>,
              bulk' = [bulk EXCEPT !.at = "spawn", !.repos = Len(found), !.left = found]
          PROVE  BulkFits' /\ CountIsExact'
      <3>1. Len(found) \in Nat /\ Len(found) > 0
        BY <2>5, FoundIsSeq, EmptySeq
      <3>2. bulk'.at = "spawn" /\ bulk'.repos = Len(found) /\ bulk'.left = found /\ bulk'.count = 0
                /\ bulk'.status = "running"
        BY <1>0, <2>1, <2>5 DEF ImportTypeOK
      <3>3. BulkFits'
        BY <2>2, <2>3, <3>1, <3>2 DEF BulkFits
      <3>4. CountIsExact'
        BY <2>2, <2>3, <3>1, <3>2 DEF CountIsExact
      <3> QED BY <3>3, <3>4
    <2> QED BY <1>8, <2>4, <2>5 DEF Discover, BulkGoes
  <1>9. CASE Spawn
    <2>1. CASE bulk.left = <<>>
      <3>1. bulk' = [bulk EXCEPT !.at = "over"] /\ bulk.at = "spawn" /\ UNCHANGED <<import, task, crossed, broken>>
        BY <1>9, <2>1 DEF Spawn, BulkGoes
      <3>2. /\ bulk'.at = "over" /\ bulk'.repos = bulk.repos /\ bulk'.left = bulk.left /\ bulk'.count = bulk.count
            /\ bulk'.status = bulk.status
        BY <1>0, <3>1 DEF ImportTypeOK
      <3> QED BY <1>3, <3>1, <3>2
    <2>2. CASE bulk.left # <<>>
      <3>1. bulk' = [bulk EXCEPT !.left = Tail(bulk.left)] /\ bulk.at = "spawn"
                /\ UNCHANGED <<stored, disk, shared, spoilt, crossed, broken>>
        BY <1>9, <2>2 DEF Spawn, BulkGoes
      <3>2. /\ bulk'.at = "spawn" /\ bulk'.repos = bulk.repos /\ bulk'.left = Tail(bulk.left)
               /\ bulk'.count = bulk.count
            /\ bulk'.status = bulk.status
        BY <1>0, <3>1 DEF ImportTypeOK
      <3>3. Len(Tail(bulk.left)) = Len(bulk.left) - 1 /\ Head(bulk.left) \in Remote
        BY <1>1, <2>2, FoundIsSeq
      <3>4. bulk.status # "completed"
        BY <2>2 DEF BulkFits
      <3>5. SUFFICES /\ Cardinality(Children)' <= Cardinality(Children) + 1 /\ Counted' = Counted
                        /\ Children \subseteq Children'
                     /\ \A k \in Id : Active(k)' => Active(k) /\ task'[k].seen = task[k].seen
        <4>1. Unbroken' => Unbroken
          BY <3>1, <3>5 DEF Unbroken
        <4>2. BulkFits'
          BY <1>1, <3>1, <3>2, <3>3, <3>4, <3>5, ChildrenAreFinite, ChildrenStayFinite DEF BulkFits
        <4>3. CountIsExact'
          BY <1>1, <3>1, <3>2, <3>4, <3>5, <4>1 DEF CountIsExact
        <4> QED BY <4>2, <4>3
      <3>6. CASE Head(bulk.left) = NoUrl
        <4>1. UNCHANGED <<import, task>>
          BY <1>9, <2>2, <3>6 DEF Spawn
        <4>2. Children' = Children
          BY <4>1 DEF Children, Imports
        <4> QED BY <4>1, <4>2, ChildrenAreFinite DEF Counted, Active, InStage
      <3>7. CASE Head(bulk.left) # NoUrl
        <4>1. NewImport(Head(bulk.left), TRUE) /\ Head(bulk.left) \in Path
          BY <1>9, <2>2, <3>3, <3>7 DEF Spawn, Remote
        <4>2. PICK j \in Id : /\ import[j] = NoImport /\ import'[j] \in Rows /\ task'[j].at = "begin"
                                 /\ import'[j].child = TRUE
                              /\ \A k \in Id \ {j} : ImportStays(k)
          BY <1>0, <4>1, NewRow
        <4>3. Children' = Children \cup {j} /\ j \notin Children
          BY <4>2, ImportNulls DEF Children, Imports, ImportStays, Rows
        <4>4. Cardinality(Children)' = Cardinality(Children) + 1
          BY <4>3, ChildrenAreFinite, FS_AddElement
        <4>5. Counted' = Counted
          BY <4>2, <4>3 DEF Counted, InStage, ImportStays, Children, Imports
        <4>6. \A k \in Id : Active(k)' => Active(k) /\ task'[k].seen = task[k].seen
          BY <4>2, <4>3 DEF Active, ImportStays
        <4> QED BY <4>3, <4>4, <4>5, <4>6, ChildrenAreFinite
      <3> QED BY <3>6, <3>7
    <2> QED BY <2>1, <2>2
  <1>10. ASSUME NEW j \in Id, NEW stage \in Stage \ {"begin"}, Goes(j, stage), ~InStage(j, "begin") \/ stage = "over",
                ~InStage(j, "over"), UNCHANGED <<import, bulk, crossed>>, broken \subseteq broken',
                j \in Children /\ stage = "over" => j \in broken'
         PROVE  BulkFits' /\ CountIsExact'
    <2>1. task'[j].at = stage /\ task'[j].seen = task[j].seen /\ \A k \in Id \ {j} : ImportStays(k)
      BY <1>0, <1>10, GoesOn DEF ImportStays
    <2>2. j \in Children' <=> j \in Children
      BY <1>10 DEF Children, Imports
    <2> QED BY <1>4, <1>10, <2>1, <2>2 DEF InStage
  <1>11. ASSUME NEW j \in Id, CheckDuplicate(j) \/ CloneBegins(j) \/ CloneEnds(j) \/ InsertRepository(j)
             \/ SyncBranches(j) \/ Raises(j)
         PROVE  BulkFits' /\ CountIsExact'
    <2>1. UNCHANGED <<import, bulk, crossed, broken>> /\ ~InStage(j, "begin") /\ ~InStage(j, "over")
      BY <1>11 DEF CheckDuplicate, CloneBegins, CloneEnds, InsertRepository, SyncBranches, Raises, InStage
    <2>2. PICK stage \in Stage \ {"begin", "over"} : Goes(j, stage)
      BY <1>11 DEF CheckDuplicate, CloneBegins, CloneEnds, InsertRepository, SyncBranches, Raises, Stage
    <2> QED BY <1>10, <2>1, <2>2
  <1>12. ASSUME NEW j \in Id, DatabaseRefuses(j)
         PROVE  BulkFits' /\ CountIsExact'
    <2>1. /\ UNCHANGED <<import, bulk, crossed>> /\ ~InStage(j, "over") /\ Goes(j, "over")
          /\ broken \subseteq broken' /\ j \in broken'
      BY <1>12 DEF DatabaseRefuses, InStage
    <2> QED BY <1>10, <2>1 DEF Stage
  <1>13. ASSUME NEW j \in Id, NEW status \in {"running", "completed", "failed"}, Marks(j, status), ~InStage(j, "over")
         PROVE  /\ import'[j] \in Rows /\ import'[j].status = status /\ Children' = Children
                /\ \A k \in Id \ {j} : import'[k] = import[k]
    <2>1. /\ import'[j] \in Rows /\ import'[j].status = status /\ import'[j].child = import[j].child
             /\ import[j] # NoImport
          /\ \A k \in Id \ {j} : import'[k] = import[k]
      BY <1>0, <1>13, ImportOfTask, MarksRow DEF Status
    <2>2. import'[j] # NoImport
      BY <2>1, ImportNulls DEF Rows
    <2> QED BY <2>1, <2>2 DEF Children, Imports
  <1>14. ASSUME NEW j \in Id, Complete(j) \/ Fail(j)
         PROVE  BulkFits' /\ CountIsExact'
    <2>1. PICK status \in Ended : Marks(j, status)
      BY <1>14 DEF Complete, Fail, Ended
    <2>2. ~InStage(j, "over") /\ ~InStage(j, "begin") /\ Goes(j, "count") /\ UNCHANGED <<bulk, crossed, broken>>
      BY <1>14 DEF Complete, Fail, InStage
    <2>3. /\ task'[j].at = "count" /\ task'[j].seen = task[j].seen /\ \A k \in Id \ {j} : task'[k] = task[k]
      BY <1>0, <2>2, GoesOn DEF Stage
    <2>4. import'[j].status \in Ended /\ Children' = Children /\ \A k \in Id \ {j} : import'[k] = import[k]
      BY <1>13, <2>1, <2>2 DEF Ended
    <2> QED BY <1>4, <2>2, <2>3, <2>4 DEF ImportStays, InStage
  <1>15. ASSUME NEW j \in Id, Begin(j)
         PROVE  BulkFits' /\ CountIsExact'
    <2>1. /\ Marks(j, "running") /\ InStage(j, "begin") /\ ~InStage(j, "over") /\ UNCHANGED <<bulk, broken>>
             /\ (crossed => crossed')
      BY <1>15 DEF Begin, InStage
    <2>2. import[j].status = "pending" /\ import[j] # NoImport
      BY <1>0, <2>1, ImportOfTask DEF StageFits
    <2>3. /\ import'[j].status = "running" /\ Children' = Children /\ \A k \in Id \ {j} : import'[k] = import[k]
      BY <1>13, <2>1
    <2>4. task'[j].at = "check" /\ task'[j].seen = bulk.count /\ \A k \in Id \ {j} : task'[k] = task[k]
      BY <1>0, <1>15 DEF Begin, ImportTypeOK
    <2>5. CASE j \notin Children
      BY <1>4, <2>1, <2>3, <2>4, <2>5 DEF ImportStays
    <2>6. CASE j \in Children
      <3>1. Counted' = Counted
        <4>1. \A k \in Children : (InStage(k, "over") <=> InStage(k, "over")') /\ (k # j => import'[k] = import[k])
          BY <2>1, <2>3, <2>4, ChildrenAreFinite DEF InStage
        <4> QED BY <2>1, <2>3, <4>1 DEF Counted
      <3>2. Active(j)' /\ \A k \in Id \ {j} : (Active(k)' <=> Active(k)) /\ task'[k].seen = task[k].seen
        BY <2>3, <2>4, <2>6 DEF Active
      <3>3. ~crossed' => ~crossed /\ \A k \in Id \ {j} : ~Active(k)
        BY <1>15, <2>6 DEF Begin, Active, Children, Imports
      <3>4. bulk.status # "completed"
        BY <2>2, <2>6 DEF BulkFits, Ended
      <3>5. BulkFits'
        BY <1>1, <2>1, <2>3, <2>4, <3>1, <3>2, <3>4 DEF BulkFits
      <3>6. Unbroken' = Unbroken
        BY <2>1, <2>3 DEF Unbroken
      <3>7. CountIsExact'
        BY <1>1, <2>1, <2>4, <3>1, <3>2, <3>3, <3>6 DEF CountIsExact
      <3> QED BY <3>5, <3>7
    <2> QED BY <2>5, <2>6
  <1>16. ASSUME NEW j \in Id, Count(j)
         PROVE  BulkFits' /\ CountIsExact'
    <2>1. InStage(j, "count") /\ ~InStage(j, "over") /\ Goes(j, "over") /\ UNCHANGED <<import, crossed, broken>>
      BY <1>16 DEF Count, InStage
    <2>2. CASE j \notin Children
      <3>1. bulk' = bulk
        BY <1>0, <1>16, <2>1, <2>2, ImportOfTask DEF Count, Children, Imports
      <3> QED BY <1>10, <2>1, <2>2, <3>1 DEF Stage, InStage
    <2>3. CASE j \in Children
      <3>1. import[j].child /\ import[j].status \in Ended
        BY <1>0, <2>1, <2>3 DEF StageFits, Children, Imports
      <3>2. bulk' = [bulk EXCEPT !.count = task[j].seen + 1,
                                 !.status = IF task[j].seen + 1 >= bulk.repos THEN "completed" ELSE @]
        BY <1>16, <3>1 DEF Count
      <3>3. /\ bulk'.at = bulk.at /\ bulk'.repos = bulk.repos /\ bulk'.left = bulk.left
               /\ bulk'.count = task[j].seen + 1
            /\ (task[j].seen + 1 >= bulk.repos => bulk'.status = "completed")
            /\ (task[j].seen + 1 < bulk.repos => bulk'.status = bulk.status)
        BY <1>0, <1>1, <3>2 DEF ImportTypeOK
      <3>4. task'[j].at = "over" /\ \A k \in Id \ {j} : task'[k] = task[k]
        BY <1>0, <2>1, GoesOn DEF Stage
      <3>5. Children' = Children /\ Children \subseteq Id
        BY <2>1, ChildrenAreFinite DEF Children, Imports
      <3>6. Counted' = Counted \cup {j} /\ j \notin Counted
        BY <2>1, <2>3, <3>1, <3>4, <3>5 DEF Counted, InStage
      <3>7. Cardinality(Counted)' = Cardinality(Counted) + 1
        BY <3>6, ChildrenAreFinite, FS_AddElement
      <3>8. Active(j) /\ ~Active(j)' /\ \A k \in Id \ {j} : (Active(k)' <=> Active(k)) /\ task'[k].seen = task[k].seen
        BY <2>1, <2>3, <3>4, <3>5 DEF Active, InStage
      <3>9. bulk.at \notin {"none", "discover"}
        BY <2>3 DEF BulkFits
      <3>10. task[j].seen <= Cardinality(Counted) /\ task[j].seen \in Nat
        BY <1>1, <3>8 DEF BulkFits
      <3>11. ASSUME task[j].seen + 1 >= bulk.repos
             PROVE  bulk.left = <<>> /\ Counted' = Children'
        <4>1. Cardinality(Counted)' <= Cardinality(Children)' /\ Cardinality(Children) + Len(bulk.left) <= bulk.repos
          BY ChildrenStayFinite DEF BulkFits
        <4>2. Cardinality(Children)' = Cardinality(Children)
          BY <3>5
        <4>3. Len(bulk.left) = 0 /\ Cardinality(Counted)' = Cardinality(Children)'
          BY <1>1, <3>7, <3>10, <3>11, <4>1, <4>2, ChildrenAreFinite, ChildrenStayFinite
        <4>4. bulk.left = <<>>
          BY <1>1, <4>3, FoundIsSeq, EmptySeq
        <4> QED BY <4>3, <4>4, ChildrenStayFinite
      <3>12. bulk'.status = "completed" => bulk'.left = <<>> /\ \A k \in Children' : import'[k].status \in Ended
        <4>1. CASE task[j].seen + 1 >= bulk.repos
          BY <3>3, <3>11, <4>1 DEF Counted
        <4>2. CASE task[j].seen + 1 < bulk.repos
          BY <2>1, <3>3, <3>5, <4>2 DEF BulkFits
        <4> QED BY <1>1, <3>10, <4>1, <4>2
      <3>13. BulkFits'
        <4>1. Cardinality(Children)' = Cardinality(Children)
          BY <3>5
        <4> QED BY <1>1, <3>3, <3>5, <3>7, <3>8, <3>9, <3>10, <3>12, <4>1, ChildrenAreFinite DEF BulkFits
      <3>14. Unbroken' = Unbroken
        BY <2>1, <3>5 DEF Unbroken
      <3>15. bulk'.status = bulk.status \/ bulk'.status \in Ended
        BY <1>1, <3>3, <3>10 DEF Ended
      <3>16. ~crossed => \A k \in Id : ~Active(k)'
        BY <3>8 DEF CountIsExact
      <3>17. ~crossed /\ Unbroken => bulk'.count = Cardinality(Counted)'
        BY <3>3, <3>7, <3>8 DEF CountIsExact
      <3>18. CountIsExact'
        BY <1>1, <2>1, <3>3, <3>14, <3>15, <3>16, <3>17 DEF CountIsExact
      <3> QED BY <3>13, <3>18
    <2> QED BY <2>2, <2>3
  <1> QED BY <1>5, <1>6, <1>7, <1>8, <1>9, <1>11, <1>12, <1>14, <1>15, <1>16 DEF ImportNext

-----------------------------------------------------------------------------
(* Imports: the theorems. *)

ImportInv == StagesFit /\ PathsFit /\ BulkFits /\ CountIsExact

\* The invariant of imports holds at first ...
LEMMA ImportsStart == ImportInit => ImportInv
  <1> SUFFICES ASSUME ImportInit PROVE ImportInv
    OBVIOUS
  <1>1. Children = {} /\ Counted = {} /\ Cardinality({}) = 0 /\ Len(<<>>) = 0
    BY FS_EmptySet DEF ImportInit, Children, Imports, Counted
  <1>2. \A j \in Id : import[j] = NoImport /\ task[j] = [at |-> "over", seen |-> 0]
    BY DEF ImportInit
  <1>3. ImportTypeOK
    BY FoundIsSeq DEF ImportInit, ImportTypeOK, Stage, Status
  <1>4. StagesFit
    BY <1>2, <1>3 DEF StagesFit, StageFits, InStage
  <1>5. PathsFit
    BY <1>2 DEF PathsFit, PathFits, Cloning, InStage, ImportInit
  <1>6. \A j \in Id : ~Active(j)
    BY <1>1 DEF Active
  <1>7. BulkFits
    BY <1>1, <1>6 DEF BulkFits, ImportInit
  <1>8. CountIsExact
    BY <1>1, <1>6 DEF CountIsExact, ImportInit
  <1> QED BY <1>4, <1>5, <1>7, <1>8 DEF ImportInv

\* ... and after every step ...
LEMMA ImportsStep == ImportInv /\ [ImportNext]_importVars => ImportInv'
  BY StagesStep, PathsStep, BulkStep DEF ImportInv

\* ... so always.
LEMMA ImportInvHolds == ImportSpec => []ImportInv
  BY ImportsStart, ImportsStep, PTL DEF ImportSpec

\* Whatever fails, overlaps or restarts, every import and every bulk import is
\* in a state import_handler has a status for.
THEOREM ImportsHaveType == ImportSpec => []ImportTypeOK
  <1>1. ImportInv => ImportTypeOK
    BY DEF ImportInv, StagesFit
  <1> QED BY <1>1, ImportInvHolds, PTL

\* An import that is over has told how it went, a repository that no other
\* import touched has its directory, and a bulk import is completed exactly
\* when its imports have ended, unless two of them had loaded its row.
THEOREM ImportsAddUp == ImportSpec => []ImportsAreAccounted
  <1>1. ImportInv => ImportsAreAccounted
    <2> SUFFICES ASSUME ImportInv PROVE ImportsAreAccounted
      OBVIOUS
    <2>0. StagesFit /\ PathsFit /\ BulkFits /\ CountIsExact /\ ImportTypeOK /\ \A j \in Id : StageFits(j)
      BY DEF ImportInv, StagesFit
    <2>1. ImportsTell
      BY <2>0 DEF ImportsTell, StageFits, Imports
    <2>2. RepositoriesAreThere
      BY <2>0 DEF RepositoriesAreThere, PathsFit, PathFits, Whole, ImportTypeOK
    <2>3. bulk.status = "completed" => bulk.left = <<>> /\ \A j \in Children : import[j].status \in Ended
      BY <2>0 DEF BulkFits
    <2>4. ASSUME bulk.at = "over", ~crossed, bulk.repos = Cardinality(Children), \A j \in Children : InStage(j, "over"),
                 broken \cap (Children \cup {0}) = {}
          PROVE  bulk.status \in Ended
      <3>1. Unbroken /\ 0 \notin broken /\ \A j \in Children : j \notin broken
        BY <2>4 DEF Unbroken
      <3>2. Counted = Children
        BY <2>0, <2>4, <3>1, ChildrenAreFinite DEF StageFits, Counted, Children, Imports
      <3>3. bulk.count = bulk.repos /\ bulk.repos \in Nat
        BY <2>0, <2>4, <3>1, <3>2 DEF CountIsExact, ImportTypeOK
      <3> QED BY <2>0, <2>4, <3>1, <3>3 DEF CountIsExact, Ended
    <2> QED BY <2>1, <2>2, <2>3, <2>4 DEF ImportsAreAccounted, BulkIsAccounted
  <1> QED BY <1>1, ImportInvHolds, PTL

-----------------------------------------------------------------------------
(* The schedules. *)

\* What the worker has selected is owed a run, but for the one it is running.
BatchIsOwed ==
    /\ worker.batch \in Seq(Schedule)
    /\ worker.at \in {"idle", "advance", "create", "record"}
    /\ worker.at # "idle" => worker.batch # <<>>
    /\ \A i, j \in DOMAIN worker.batch : i < j => worker.batch[i] # worker.batch[j]
    /\ \A i \in DOMAIN worker.batch : i > 1 \/ worker.at = "advance" => worker.batch[i] \in owed

\* Inductive: a schedule that is due is owed a run, and so is a selected one even
\* if it was changed since.
ScheduleInv ==
    /\ schedule \in [Schedule -> Row \cup {Nothing}]
    /\ player \in [id : Schedule, row : Row, at : {"advance", "create", "record"}] \cup {Nothing}
    /\ \A s \in Schedule : IsDue(s) => s \in owed
    /\ BatchIsOwed

\* The schedules due, in any order.
LEMMA DueAreListed ==
    ASSUME NEW due \in DueInOrder
    PROVE  /\ due \in Seq(Due) /\ Len(due) = Cardinality(Due) /\ Len(due) \in Nat
           /\ \A i, j \in 1 .. Len(due) : i < j => due[i] # due[j]
  <1>1. Cardinality(Due) \in Nat
    BY ScheduleBounds, FS_Subset, FS_CardinalityType DEF Due
  <1>2. due \in [1 .. Cardinality(Due) -> Due] /\ \A i, j \in DOMAIN due : i < j => due[i] # due[j]
    BY DEF DueInOrder
  <1> QED BY <1>1, <1>2

\* The worker's selection.
LEMMA SelectDueStep ==
    ASSUME ScheduleInv, SelectDue
    PROVE  ScheduleInv'
  <1>1. PICK due \in DueInOrder :
            worker' = [batch |-> SubSeq(due, 1, IF Len(due) < Limit THEN Len(due) ELSE Limit), at |-> "advance"]
    BY DEF SelectDue
  <1>2. PICK n \in Nat : n = IF Len(due) < Limit THEN Len(due) ELSE Limit
    BY DueAreListed, ScheduleBounds
  <1>3. Len(due) \in Nat \ {0}
    <2>1. IsFiniteSet(Due) /\ Due # {}
      BY ScheduleBounds, FS_Subset DEF Due, SelectDue
    <2>2. Cardinality(Due) # 0
      BY <2>1, FS_EmptySet
    <2> QED BY <2>2, DueAreListed
  <1>4. n \in 1 .. Len(due)
    BY <1>2, <1>3, ScheduleBounds
  <1>5. PICK batch \in Seq(Due) : batch = SubSeq(due, 1, n) /\ Len(batch) = n /\ \A i \in 1 .. n : batch[i] = due[i]
    <2>1. due \in Seq(Due) /\ n <= Len(due) /\ 1 <= n
      BY <1>3, <1>4, DueAreListed
    <2>2. PICK batch : batch = SubSeq(due, 1, n)
      OBVIOUS
    <2>3. batch \in Seq(Due) /\ Len(batch) = n /\ \A i \in 1 .. n : batch[i] = due[i]
      BY <1>3, <1>4, <2>1, <2>2
    <2> QED BY <2>2, <2>3
  <1>6. worker'.batch = batch /\ worker'.at = "advance"
    BY <1>1, <1>2, <1>5
  <1>7. UNCHANGED <<schedule, player, owed>>
    BY DEF SelectDue
  <1>8. DOMAIN batch = 1 .. n /\ batch # <<>>
    BY <1>4, <1>5
  <1>9. \A i \in 1 .. n : batch[i] \in Due /\ batch[i] \in owed
    BY <1>5, <1>8 DEF Due, ScheduleInv
  <1>10. batch \in Seq(Schedule)
    BY <1>5 DEF Due
  <1>11. \A i, j \in 1 .. n : i < j => batch[i] # batch[j]
    <2>1. \A i, j \in 1 .. Len(due) : i < j => due[i] # due[j]
      BY DueAreListed
    <2> QED BY <1>3, <1>4, <1>5, <2>1
  <1>12. BatchIsOwed'
    BY <1>6, <1>7, <1>8, <1>9, <1>10, <1>11 DEF BatchIsOwed
  <1>13. \A s \in Schedule : IsDue(s)' => s \in owed'
    BY <1>7 DEF ScheduleInv, IsDue
  <1> QED BY <1>7, <1>12, <1>13 DEF ScheduleInv

\* The first of a batch, and the rest.
LEMMA BatchHasFirst ==
    ASSUME BatchIsOwed, worker.at # "idle"
    PROVE  /\ Current \in Schedule /\ Current = worker.batch[1] /\ 1 \in DOMAIN worker.batch
           /\ Len(worker.batch) \in Nat \ {0} /\ DOMAIN worker.batch = 1 .. Len(worker.batch)
  BY DEF BatchIsOwed, Current

\* The run of the current one is settled before its pipeline is created.
LEMMA AdvanceStep ==
    ASSUME ScheduleInv, Advance
    PROVE  ScheduleInv'
  <1>1. worker.at = "advance" /\ BatchIsOwed
    BY DEF Advance, ScheduleInv
  <1>2. CASE schedule[Current] = Nothing
    <2>1. worker' = NoWork /\ UNCHANGED <<schedule, player, owed>>
      BY <1>2 DEF Advance, EndRound
    <2> QED BY <2>1 DEF NoWork, ScheduleInv, BatchIsOwed, IsDue
  <1>3. CASE schedule[Current] # Nothing
    <2>1. worker' = [worker EXCEPT !.at = "create"] /\ owed' = owed \ {Current}
      BY <1>3 DEF Advance
    <2>2. PICK s \in Schedule : s = Current
      BY <1>1, BatchHasFirst
    <2>3. PICK next \in 1 .. MaxWait : schedule' = [schedule EXCEPT ![s] = [schedule[s] EXCEPT !.next = next]]
      BY <1>3, <2>2 DEF Advance, SetNextRun, NextRun, Set
    <2>4. schedule[s] \in Row /\ schedule[s].active \in BOOLEAN
      BY <1>3, <2>2 DEF ScheduleInv, Row
    <2>5. PICK row : row = [schedule[s] EXCEPT !.next = next]
      OBVIOUS
    <2>6. row \in Row /\ row.next = next
      BY <2>4, <2>5, ScheduleBounds DEF Row, NULL
    <2>7. schedule' = [schedule EXCEPT ![s] = row]
      BY <2>3, <2>5
    <2>8. schedule' \in [Schedule -> Row \cup {Nothing}] /\ schedule'[s] = row /\ player' = player
      BY <2>6, <2>7 DEF ScheduleInv, Advance
    <2>9. ~IsDue(s)' /\ \A t \in Schedule \ {s} : IsDue(t)' => IsDue(t)
      BY <2>6, <2>7, <2>8 DEF IsDue, NULL, ScheduleInv
    <2>10. \A t \in Schedule : IsDue(t)' => t \in owed'
      BY <2>1, <2>2, <2>9 DEF ScheduleInv
    <2>11. worker'.batch = worker.batch /\ worker'.at = "create"
      <3>1. \E w : w = worker /\ worker' = [w EXCEPT !.at = "create"]
        BY <2>1
      <3> QED BY <2>1
    <2>12. \A i \in DOMAIN worker.batch : i > 1 => worker.batch[i] \in owed /\ worker.batch[i] # Current
      BY <1>1, BatchHasFirst DEF BatchIsOwed
    <2>13. BatchIsOwed'
      BY <1>1, <2>1, <2>11, <2>12 DEF BatchIsOwed
    <2> QED BY <2>8, <2>10, <2>13 DEF ScheduleInv
  <1> QED BY <1>2, <1>3

\* The worker's steps that leave the schedules alone.
LEMMA WorkerRestStep ==
    ASSUME ScheduleInv, WorkerCreates \/ WorkerCannotCreate \/ Record
    PROVE  ScheduleInv'
  <1>1. UNCHANGED <<schedule, player, owed>> /\ BatchIsOwed
    BY DEF WorkerCreates, WorkerCannotCreate, Record, ScheduleInv
  <1>2. BatchIsOwed'
    <2>1. CASE worker' = NoWork
      BY <2>1 DEF NoWork, BatchIsOwed
    <2>2. CASE WorkerCreates
      BY <1>1, <2>2 DEF WorkerCreates, BatchIsOwed
    <2>3. CASE Record /\ worker' # NoWork
      <3>1. worker.at = "record" /\ worker' = [batch |-> Tail(worker.batch), at |-> "advance"] /\ Len(worker.batch) # 1
        BY <2>3 DEF Record
      <3>2. PICK batch \in Seq(Schedule) : batch = worker.batch /\ Len(batch) \in Nat /\ Len(batch) > 1
        <4>1. worker.batch \in Seq(Schedule) /\ Len(worker.batch) \in Nat \ {0}
          BY <1>1, <3>1, BatchHasFirst DEF BatchIsOwed
        <4>2. PICK n \in Nat \ {0} : n = Len(worker.batch)
          BY <4>1
        <4>3. n # 1
          BY <3>1, <4>2
        <4>4. n > 1
          BY <4>3
        <4>5. Len(worker.batch) > 1
          BY <4>2, <4>4
        <4> QED BY <4>1, <4>5
      <3>3. PICK rest \in Seq(Schedule) : /\ rest = Tail(batch) /\ Len(rest) = Len(batch) - 1
                                          /\ \A i \in 1 .. Len(rest) : rest[i] = batch[i + 1]
        <4>1. batch # <<>>
          BY <3>2
        <4>2. PICK rest : rest = Tail(batch)
          OBVIOUS
        <4>3. rest \in Seq(Schedule) /\ Len(rest) = Len(batch) - 1 /\ \A i \in 1 .. Len(rest) : rest[i] = batch[i + 1]
          BY <4>1, <4>2, HeadTailProperties
        <4> QED BY <4>2, <4>3
      <3>4. worker'.batch = rest /\ worker'.at = "advance" /\ rest # <<>>
        <4>1. Len(rest) # 0
          BY <3>2, <3>3
        <4> QED BY <3>1, <3>2, <3>3, <4>1
      <3>5. \A i \in DOMAIN rest : i + 1 \in DOMAIN batch /\ i + 1 > 1 /\ rest[i] = batch[i + 1]
        BY <3>2, <3>3
      <3>6. \A i \in DOMAIN rest : rest[i] \in owed
        BY <1>1, <3>1, <3>2, <3>5 DEF BatchIsOwed
      <3>7. \A i, j \in DOMAIN rest : i < j => rest[i] # rest[j]
        <4>1. \A i, j \in DOMAIN batch : i < j => batch[i] # batch[j]
          BY <1>1, <3>2 DEF BatchIsOwed
        <4>2. \A i, j \in DOMAIN rest : i < j => i + 1 < j + 1
          BY <3>3
        <4> QED BY <3>5, <4>1, <4>2
      <3> QED BY <1>1, <3>3, <3>4, <3>6, <3>7 DEF BatchIsOwed
    <2> QED BY <2>1, <2>2, <2>3 DEF WorkerCannotCreate, EndRound
  <1> QED BY <1>1, <1>2 DEF ScheduleInv, IsDue

\* A user's step, or the time's: what becomes due is owed.
LEMMA OweKeeps ==
    ASSUME ScheduleInv, Owe, worker' = worker,
           schedule' \in [Schedule -> Row \cup {Nothing}],
           player' \in [id : Schedule, row : Row, at : {"advance", "create", "record"}] \cup {Nothing}
    PROVE  ScheduleInv'
  <1>1. owed \subseteq owed' /\ \A s \in Schedule : IsDue(s)' => s \in owed'
    BY DEF Owe, ScheduleInv
  <1>2. BatchIsOwed'
    BY <1>1 DEF ScheduleInv, BatchIsOwed
  <1> QED BY <1>1, <1>2 DEF ScheduleInv

\* Time passes: what was due stays due.
LEMMA TickStep ==
    ASSUME ScheduleInv, Tick
    PROVE  ScheduleInv'
  <1>1. ASSUME NEW s \in Schedule
        PROVE  schedule'[s] \in Row \cup {Nothing}
    <2>1. CASE schedule[s] # Nothing /\ schedule[s].next \in 1 .. MaxWait
      <3>1. PICK row \in Row : row = schedule[s]
        BY <2>1 DEF ScheduleInv
      <3>2. PICK n \in NULL .. MaxWait : n = row.next - 1
        BY <2>1, <3>1, ScheduleBounds DEF NULL
      <3>3. schedule'[s] = [row EXCEPT !.next = n]
        BY <2>1, <3>1, <3>2 DEF Tick
      <3> QED BY <3>3 DEF Row
    <2>2. CASE ~(schedule[s] # Nothing /\ schedule[s].next \in 1 .. MaxWait)
      BY <2>2 DEF Tick, ScheduleInv
    <2> QED BY <2>1, <2>2
  <1>2. schedule' \in [Schedule -> Row \cup {Nothing}]
    BY <1>1 DEF Tick
  <1> QED BY <1>2, OweKeeps DEF Tick, ScheduleInv

\* Users who create, change, delete or play schedules take no due run away.
LEMMA UserStepKeeps ==
    ASSUME ScheduleInv, UserStep
    PROVE  ScheduleInv'
  <1>1. \A active \in BOOLEAN : NextRun(active) \subseteq NULL .. MaxWait
    BY ScheduleBounds DEF NextRun, NULL
  <1>2. ASSUME NEW s \in Schedule, NEW active \in BOOLEAN, CreateSchedule(s, active) \/ UpdateSchedule(s, active)
        PROVE  ScheduleInv'
    <2>1. PICK next \in NextRun(active) : schedule' = [schedule EXCEPT ![s] = [active |-> active, next |-> next]]
      BY <1>2 DEF CreateSchedule, UpdateSchedule, Set
    <2>2. schedule' \in [Schedule -> Row \cup {Nothing}]
      BY <1>1, <2>1 DEF ScheduleInv, Row
    <2> QED BY <1>2, <2>2, OweKeeps DEF CreateSchedule, UpdateSchedule, ScheduleInv
  <1>3. ASSUME NEW s \in Schedule, DeleteSchedule(s) PROVE ScheduleInv'
    BY <1>3, OweKeeps DEF DeleteSchedule, Set, ScheduleInv
  <1>4. ASSUME NEW s \in Schedule, Play(s) PROVE ScheduleInv'
    <2>1. player' \in [id : Schedule, row : Row, at : {"advance", "create", "record"}]
      BY <1>4 DEF Play, ScheduleInv
    <2> QED BY <1>4, <2>1 DEF Play, ScheduleInv, BatchIsOwed, IsDue
  <1>5. ASSUME NEW at \in {"advance", "record"}, PlaySets(at) PROVE ScheduleInv'
    <2>1. PICK p \in [id : Schedule, row : Row, at : {"advance", "create", "record"}] : p = player
      BY <1>5 DEF PlaySets, ScheduleInv
    <2>2. Owe /\ worker' = worker
      BY <1>5 DEF PlaySets
    <2>3. CASE schedule[p.id] = Nothing
      BY <1>5, <2>1, <2>2, <2>3, OweKeeps DEF PlaySets, ScheduleInv
    <2>4. CASE schedule[p.id] # Nothing
      <3>1. PICK next \in NextRun(p.row.active) :
                /\ \/ next = p.row.next /\ schedule' = schedule
                   \/ schedule' = [schedule EXCEPT ![p.id] = [schedule[p.id] EXCEPT !.next = next]]
                /\ player' = IF at = "record" THEN Nothing ELSE [p EXCEPT !.row.next = next, !.at = "create"]
        BY <1>5, <2>1, <2>4 DEF PlaySets, Set
      <3>2. next \in NULL .. MaxWait
        BY <1>1, <2>1, <3>1 DEF Row
      <3>3. p.id \in Schedule /\ p.row \in Row /\ schedule[p.id] \in Row
        BY <2>1, <2>4 DEF ScheduleInv
      <3>4. PICK row \in Row : row = [p.row EXCEPT !.next = next]
        BY <3>2, <3>3 DEF Row
      <3>5. [p EXCEPT !.row = row, !.at = "create"] \in [id : Schedule, row : Row, at : {"advance", "create", "record"}]
        BY <2>1
      <3>6. player' \in [id : Schedule, row : Row, at : {"advance", "create", "record"}] \cup {Nothing}
        BY <3>1, <3>4, <3>5
      <3>7. schedule' \in [Schedule -> Row \cup {Nothing}]
        <4>1. PICK new \in Row : new = [schedule[p.id] EXCEPT !.next = next]
          BY <3>2, <3>3 DEF Row
        <4> QED BY <3>1, <3>3, <4>1 DEF ScheduleInv
      <3> QED BY <2>2, <3>6, <3>7, OweKeeps
    <2> QED BY <2>3, <2>4
  <1>6. ASSUME PlayCreates PROVE ScheduleInv'
    <2>1. player' \in [id : Schedule, row : Row, at : {"advance", "create", "record"}] \cup {Nothing}
      BY <1>6 DEF PlayCreates, ScheduleInv
    <2> QED BY <1>6, <2>1 DEF PlayCreates, ScheduleInv, BatchIsOwed, IsDue
  <1> QED BY <1>2, <1>3, <1>4, <1>5, <1>6 DEF UserStep, PlayAdvances, PlayRecords

\* Every step keeps the invariant.
LEMMA ScheduleStep == ScheduleInv /\ [ScheduleNext]_scheduleVars => ScheduleInv'
  <1> SUFFICES ASSUME ScheduleInv, [ScheduleNext]_scheduleVars PROVE ScheduleInv'
    OBVIOUS
  <1>1. CASE Restart
    BY <1>1 DEF Restart, NoWork, ScheduleInv, BatchIsOwed, IsDue
  <1>2. CASE UNCHANGED scheduleVars
    BY <1>2 DEF scheduleVars, ScheduleInv, BatchIsOwed, IsDue
  <1> QED BY <1>1, <1>2, SelectDueStep, AdvanceStep, WorkerRestStep, TickStep, UserStepKeeps DEF ScheduleNext,
      WorkerStep

\* The order of the ids whose time has come is kept one by one.
OverdueFits ==
    /\ overdue \in Seq(Schedule)
    /\ \A i, j \in DOMAIN overdue : overdue[i] = overdue[j] => i = j
    /\ ToSet(overdue) = {s \in Schedule : schedule[s] # Nothing /\ schedule[s].next = 0}
    /\ owed \subseteq Schedule

\* What is in a list.
LEMMA IsListed == \A q, x : x \in ToSet(q) <=> \E i \in DOMAIN q : q[i] = x
  BY DEF ToSet

\* Two lists of different ids.
LEMMA Together ==
    ASSUME NEW S, NEW a \in Seq(S), NEW b \in Seq(S),
           \A i, j \in DOMAIN a : a[i] = a[j] => i = j,
           \A i, j \in DOMAIN b : b[i] = b[j] => i = j,
           ToSet(a) \cap ToSet(b) = {}
    PROVE  /\ a \o b \in Seq(S) /\ ToSet(a \o b) = ToSet(a) \cup ToSet(b)
           /\ \A i, j \in DOMAIN (a \o b) : (a \o b)[i] = (a \o b)[j] => i = j
  <1>1. PICK m \in Nat, n \in Nat : m = Len(a) /\ n = Len(b)
    BY LenProperties
  <1>2. DOMAIN a = 1 .. m /\ DOMAIN b = 1 .. n
    BY <1>1, LenProperties
  <1>3. PICK c \in Seq(S) : /\ c = a \o b /\ DOMAIN c = 1 .. m + n
                            /\ \A i \in 1 .. m + n : c[i] = IF i <= m THEN a[i] ELSE b[i - m]
    <2>1. a \o b \in Seq(S) /\ Len(a \o b) = m + n /\ DOMAIN (a \o b) = 1 .. Len(a \o b)
      BY <1>1, ConcatProperties, LenProperties
    <2>2. \A i \in 1 .. Len(a) + Len(b) : (a \o b)[i] = IF i <= Len(a) THEN a[i] ELSE b[i - Len(a)]
      BY ConcatProperties
    <2>3. PICK c : c = a \o b
      OBVIOUS
    <2>4. \A i \in 1 .. m + n : c[i] = IF i <= m THEN a[i] ELSE b[i - m]
      BY <1>1, <2>2, <2>3, Zenon
    <2>5. c \in Seq(S) /\ DOMAIN c = 1 .. m + n
      BY <2>1, <2>3
    <2> QED BY <2>3, <2>4, <2>5
  <1>4. \A i \in 1 .. m : i \in DOMAIN c /\ c[i] = a[i] /\ a[i] \in ToSet(a)
    BY <1>2, <1>3, IsListed
  <1>5. \A i \in 1 .. n : i + m \in DOMAIN c /\ c[i + m] = b[i] /\ b[i] \in ToSet(b)
    <2> TAKE i \in 1 .. n
    <2>1. i + m \in 1 .. m + n /\ ~(i + m <= m) /\ (i + m) - m = i
      OBVIOUS
    <2>2. c[i + m] = b[(i + m) - m]
      BY <1>3, <2>1
    <2>3. i \in DOMAIN b /\ i + m \in DOMAIN c
      BY <1>2, <1>3, <2>1
    <2> QED BY <2>1, <2>2, <2>3, IsListed
  <1>6. \A i \in DOMAIN c : i \in 1 .. m \/ \E k \in 1 .. n : i = k + m
    <2>1. \A i \in 1 .. m + n : i <= m \/ (i - m \in 1 .. n /\ i = (i - m) + m)
      OBVIOUS
    <2> QED BY <1>3, <2>1
  <1>7. \A i, j \in DOMAIN c : c[i] = c[j] => i = j
    <2> SUFFICES ASSUME NEW i \in DOMAIN c, NEW j \in DOMAIN c, c[i] = c[j] PROVE i = j
      OBVIOUS
    <2>1. ToSet(a) \cap ToSet(b) = {}
      OBVIOUS
    <2>2. CASE i \in 1 .. m /\ j \in 1 .. m
      BY <1>2, <1>4, <2>2
    <2>3. CASE \E k \in 1 .. n, l \in 1 .. n : i = k + m /\ j = l + m
      BY <1>2, <1>5, <2>3
    <2>4. ASSUME NEW k \in 1 .. m, NEW l \in 1 .. n
          PROVE  c[k] # c[l + m]
      <3>1. c[k] \in ToSet(a)
        BY <1>4
      <3>2. c[l + m] \in ToSet(b)
        BY <1>5
      <3> QED BY <2>1, <3>1, <3>2
    <2>5. i \in 1 .. m \/ \E k \in 1 .. n : i = k + m
      BY <1>6
    <2>6. j \in 1 .. m \/ \E k \in 1 .. n : j = k + m
      BY <1>6
    <2> QED BY <2>2, <2>3, <2>4, <2>5, <2>6
  <1>8. ToSet(c) = ToSet(a) \cup ToSet(b)
    <2>1. ToSet(c) \subseteq ToSet(a) \cup ToSet(b)
      <3> SUFFICES ASSUME NEW i \in DOMAIN c PROVE c[i] \in ToSet(a) \cup ToSet(b)
        BY IsListed
      <3>1. i \in 1 .. m \/ \E k \in 1 .. n : i = k + m
        BY <1>6
      <3>2. ASSUME NEW k \in 1 .. n PROVE c[k + m] \in ToSet(b)
        BY <1>5
      <3> QED BY <1>4, <3>1, <3>2
    <2>2. \A i \in 1 .. m : a[i] \in ToSet(c)
      BY <1>4, IsListed
    <2>3. ASSUME NEW i \in 1 .. n PROVE b[i] \in ToSet(c)
      <3>1. i + m \in DOMAIN c /\ c[i + m] = b[i]
        BY <1>5
      <3> QED BY <3>1, IsListed
    <2>4. ToSet(a) \subseteq ToSet(c)
      BY <1>2, <2>2, IsListed
    <2>5. ToSet(b) \subseteq ToSet(c)
      BY <1>2, <2>3, IsListed
    <2> QED BY <2>1, <2>4, <2>5
  <1> QED BY <1>3, <1>7, <1>8

\* A changed schedule leaves the order, the others stay in it.
LEMMA UnqueuedIs ==
    ASSUME OverdueFits, NEW s \in Schedule
    PROVE  /\ Unqueued(s) \in Seq(Schedule) /\ ToSet(Unqueued(s)) = ToSet(overdue) \ {s}
           /\ \A i, j \in DOMAIN Unqueued(s) : Unqueued(s)[i] = Unqueued(s)[j] => i = j
  <1> DEFINE at == {i \in DOMAIN overdue : overdue[i] = s}
  <1>1. PICK q \in Seq(Schedule) : q = overdue /\ \A i, j \in DOMAIN q : q[i] = q[j] => i = j
    BY DEF OverdueFits
  <1>2. PICK n \in Nat : n = Len(q) /\ DOMAIN q = 1 .. n
    BY LenProperties
  <1>3. CASE at = {}
    <2>1. Unqueued(s) = q /\ s \notin ToSet(q)
      BY <1>1, <1>3 DEF Unqueued, ToSet
    <2> QED BY <1>1, <2>1
  <1>4. CASE at # {}
    <2>1. PICK p \in 1 .. n : p = (CHOOSE i \in at : TRUE) /\ q[p] = s
      BY <1>1, <1>2, <1>4
    <2>2. Unqueued(s) = SubSeq(q, 1, p - 1) \o SubSeq(q, p + 1, n)
      BY <1>1, <1>2, <1>4, <2>1 DEF Unqueued, RemoveAt
    <2>3. PICK a \in Seq(Schedule) : /\ a = SubSeq(q, 1, p - 1) /\ DOMAIN a = 1 .. p - 1
                                     /\ \A i \in 1 .. p - 1 : a[i] = q[i]
      <3>1. \A i \in 1 .. p - 1 : q[i] \in Schedule
        BY <1>2, ElementOfSeq
      <3>2. PICK a : a = SubSeq(q, 1, p - 1)
        OBVIOUS
      <3>3. a \in Seq(Schedule) /\ Len(a) = (IF 1 <= p - 1 THEN p - 1 - 1 + 1 ELSE 0)
            /\ \A i \in 1 .. p - 1 - 1 + 1 : a[i] = q[1 + i - 1]
        BY <3>1, <3>2, SubSeqProperties
      <3>4. DOMAIN a = 1 .. p - 1
        BY <3>3, LenProperties
      <3> QED BY <3>2, <3>3, <3>4
    <2>4. PICK b \in Seq(Schedule) : /\ b = SubSeq(q, p + 1, n) /\ DOMAIN b = 1 .. n - p
                                     /\ \A i \in 1 .. n - p : b[i] = q[p + i]
      <3>1. \A i \in p + 1 .. n : q[i] \in Schedule
        BY <1>2, ElementOfSeq
      <3>2. PICK b : b = SubSeq(q, p + 1, n)
        OBVIOUS
      <3>3. b \in Seq(Schedule) /\ Len(b) = (IF p + 1 <= n THEN n - (p + 1) + 1 ELSE 0)
            /\ \A i \in 1 .. n - (p + 1) + 1 : b[i] = q[p + 1 + i - 1]
        BY <3>1, <3>2, SubSeqProperties
      <3>4. DOMAIN b = 1 .. n - p
        BY <3>3, LenProperties
      <3>5. \A i \in 1 .. n - p : b[i] = q[p + i]
        BY <3>3
      <3> QED BY <3>2, <3>3, <3>4, <3>5
    <2>0. DOMAIN a = 1 .. p - 1 /\ DOMAIN b = 1 .. n - p
      BY <2>3, <2>4
    <2>5. \A i \in 1 .. p - 1 : i \in DOMAIN q /\ i # p
      BY <1>2
    <2>6. \A i \in 1 .. n - p : p + i \in DOMAIN q /\ p + i > p
      BY <1>2
    <2>7. ToSet(a) \cap ToSet(b) = {}
      <3> SUFFICES ASSUME NEW i \in 1 .. p - 1, NEW j \in 1 .. n - p, a[i] = b[j] PROVE FALSE
        <4>1. \A x \in ToSet(a) : \E i \in 1 .. p - 1 : a[i] = x
          BY <2>0, IsListed, Zenon
        <4>2. \A x \in ToSet(b) : \E j \in 1 .. n - p : b[j] = x
          BY <2>0, IsListed, Zenon
        <4> QED BY <4>1, <4>2
      <3>1. i = p + j
        BY <1>1, <2>3, <2>4, <2>5, <2>6
      <3> QED BY <3>1
    <2>8. \A i, j \in DOMAIN a : a[i] = a[j] => i = j
      BY <1>1, <2>3, <2>5
    <2>9. \A i, j \in DOMAIN b : b[i] = b[j] => i = j
      <3> SUFFICES ASSUME NEW i \in 1 .. n - p, NEW j \in 1 .. n - p, b[i] = b[j] PROVE i = j
        BY <2>4
      <3>1. p + i = p + j
        BY <1>1, <2>4, <2>6
      <3> QED BY <3>1
    <2>10. ToSet(a) \cup ToSet(b) = ToSet(q) \ {s}
      <3>1. \A i \in 1 .. p - 1 : a[i] \in ToSet(q) \ {s}
        BY <1>1, <1>2, <2>1, <2>3, <2>5, IsListed
      <3>2. \A i \in 1 .. n - p : b[i] \in ToSet(q) \ {s}
        <4> TAKE i \in 1 .. n - p
        <4>1. p + i \in DOMAIN q /\ p + i # p /\ p \in DOMAIN q
          BY <1>2, <2>6
        <4>2. q[p + i] # s
          BY <1>1, <2>1, <4>1
        <4>3. b[i] = q[p + i]
          BY <2>4
        <4> QED BY <4>1, <4>2, <4>3, IsListed
      <3>3. ASSUME NEW x \in ToSet(q) \ {s} PROVE x \in ToSet(a) \cup ToSet(b)
        <4>1. PICK k \in 1 .. n : q[k] = x
          BY <1>2, IsListed
        <4>2. k # p
          BY <2>1, <4>1
        <4>3. CASE k < p
          <5>1. k \in DOMAIN a /\ a[k] = x
            BY <2>3, <4>1, <4>3
          <5> QED BY <5>1, IsListed
        <4>4. CASE k > p
          <5>1. k - p \in 1 .. n - p /\ p + (k - p) = k
            BY <4>4
          <5>2. b[k - p] = x
            BY <2>4, <4>1, <5>1
          <5>3. k - p \in DOMAIN b
            BY <2>4, <5>1
          <5> QED BY <5>2, <5>3, IsListed
        <4> QED BY <4>2, <4>3, <4>4
      <3>4. ToSet(a) \subseteq ToSet(q) \ {s}
        BY <2>0, <3>1, IsListed, Zenon
      <3>5. ToSet(b) \subseteq ToSet(q) \ {s}
        BY <2>0, <3>2, IsListed, Zenon
      <3> QED BY <3>3, <3>4, <3>5
    <2> HIDE DEF at
    <2>11. /\ a \o b \in Seq(Schedule) /\ ToSet(a \o b) = ToSet(a) \cup ToSet(b)
           /\ \A i, j \in DOMAIN (a \o b) : (a \o b)[i] = (a \o b)[j] => i = j
      BY <2>7, <2>8, <2>9, Together
    <2>12. Unqueued(s) = a \o b
      BY <2>2, <2>3, <2>4
    <2> QED BY <1>1, <2>10, <2>11, <2>12
  <1> QED BY <1>3, <1>4

\* A write to a schedule that does not make it overdue.
LEMMA SetFits ==
    ASSUME OverdueFits, schedule \in [Schedule -> Row \cup {Nothing}],
           NEW s \in Schedule, NEW row, Set(s, row), row = Nothing \/ row.next # 0, owed' \subseteq Schedule
    PROVE  OverdueFits'
  <1>1. overdue' = Unqueued(s) /\ schedule' = [schedule EXCEPT ![s] = row]
    BY DEF Set
  <1>2. {t \in Schedule : schedule'[t] # Nothing /\ schedule'[t].next = 0}
        = {t \in Schedule : schedule[t] # Nothing /\ schedule[t].next = 0} \ {s}
    BY <1>1
  <1>3. /\ Unqueued(s) \in Seq(Schedule) /\ ToSet(Unqueued(s)) = ToSet(overdue) \ {s}
        /\ \A i, j \in DOMAIN Unqueued(s) : Unqueued(s)[i] = Unqueued(s)[j] => i = j
    BY UnqueuedIs
  <1>4. PICK q : q = Unqueued(s)
    OBVIOUS
  <1>5. q \in Seq(Schedule) /\ \A i, j \in DOMAIN q : q[i] = q[j] => i = j
    BY <1>3, <1>4
  <1>6. ToSet(q) = {t \in Schedule : schedule'[t] # Nothing /\ schedule'[t].next = 0}
    BY <1>2, <1>3, <1>4 DEF OverdueFits
  <1>7. overdue' = q
    BY <1>1, <1>4
  <1> QED BY <1>5, <1>6, <1>7 DEF OverdueFits

\* What a minute brings joins the end.
LEMMA TickFits ==
    ASSUME OverdueFits, schedule \in [Schedule -> Row \cup {Nothing}], Tick
    PROVE  OverdueFits'
  <1> DEFINE due == {s \in Schedule : schedule[s] # Nothing /\ schedule[s].next = 1}
             late == {s \in Schedule : schedule[s] # Nothing /\ schedule[s].next = 0}
  <1>1. PICK q \in Arrivals(due) : overdue' = overdue \o q
    BY DEF Tick
  <1>2. /\ q \in Seq(Schedule) /\ ToSet(q) = due
        /\ \A i, j \in DOMAIN q : q[i] = q[j] => i = j
    <2>1. due \subseteq Schedule
      OBVIOUS
    <2> HIDE DEF due
    <2>2. Cardinality(due) \in Nat
      BY <2>1, ScheduleBounds, FS_Subset, FS_CardinalityType
    <2>3. PICK n \in Nat : n = Cardinality(due)
      BY <2>2
    <2>4. q \in [1 .. n -> due] /\ ToSet(q) = due /\ \A i, j \in 1 .. n : i < j => q[i] < q[j]
      BY <2>3 DEF Arrivals
    <2>5. q \in Seq(Schedule)
      BY <2>1, <2>4
    <2>6. \A i, j \in 1 .. n : q[i] = q[j] => i = j
      <3> SUFFICES ASSUME NEW i \in 1 .. n, NEW j \in 1 .. n, q[i] = q[j] PROVE i = j
        OBVIOUS
      <3>1. q[i] \in Nat
        BY <2>1, <2>4, ScheduleBounds
      <3>2. ~(q[i] < q[j]) /\ ~(q[j] < q[i])
        BY <3>1
      <3>3. ~(i < j) /\ ~(j < i)
        BY <2>4, <3>2
      <3> QED BY <3>3
    <2> QED BY <2>4, <2>5, <2>6
  <1>3. /\ overdue \in Seq(Schedule) /\ ToSet(overdue) = late
        /\ \A i, j \in DOMAIN overdue : overdue[i] = overdue[j] => i = j
    BY DEF OverdueFits
  <1>4. late \cap due = {}
    OBVIOUS
  <1>5. {s \in Schedule : schedule'[s] # Nothing /\ schedule'[s].next = 0} = late \cup due
    <2> SUFFICES ASSUME NEW s \in Schedule
                 PROVE  schedule'[s] # Nothing /\ schedule'[s].next = 0 <=>
                            schedule[s] # Nothing /\ schedule[s].next \in {0, 1}
      OBVIOUS
    <2>1. CASE schedule[s] # Nothing /\ schedule[s].next \in 1 .. MaxWait
      <3>1. PICK row \in Row, n \in 1 .. MaxWait : row = schedule[s] /\ n = row.next
        BY <2>1
      <3>2. PICK m \in Int : m = n - 1
        OBVIOUS
      <3>3. [row EXCEPT !.next = m] \in Row /\ [row EXCEPT !.next = m].next = m
        BY <3>1, <3>2, ScheduleBounds DEF Row, NULL
      <3>4. schedule'[s] = [row EXCEPT !.next = m]
        BY <2>1, <3>1, <3>2 DEF Tick
      <3>5. m = 0 <=> n \in {0, 1}
        BY <3>2
      <3>6. schedule'[s] # Nothing
        BY <3>1, <3>3, <3>4, NothingIsNoRow
      <3> QED BY <2>1, <3>1, <3>3, <3>4, <3>5, <3>6
    <2>2. CASE ~(schedule[s] # Nothing /\ schedule[s].next \in 1 .. MaxWait)
      <3>1. schedule'[s] = schedule[s]
        BY <2>2 DEF Tick
      <3>2. 1 \in 1 .. MaxWait
        BY ScheduleBounds
      <3> QED BY <2>2, <3>1, <3>2
    <2> QED BY <2>1, <2>2
  <1>6. owed' \subseteq Schedule
    BY DEF Tick, Owe, OverdueFits
  <1> HIDE DEF due, late
  <1>7. /\ overdue \o q \in Seq(Schedule) /\ ToSet(overdue \o q) = late \cup due
        /\ \A i, j \in DOMAIN (overdue \o q) : (overdue \o q)[i] = (overdue \o q)[j] => i = j
    BY <1>2, <1>3, <1>4, Together
  <1> QED BY <1>1, <1>5, <1>6, <1>7 DEF OverdueFits

\* The order is that of the overdue schedules, whoever writes them.
LEMMA OverdueStep == ScheduleInv /\ OverdueFits /\ [ScheduleNext]_scheduleVars => OverdueFits'
  <1> SUFFICES ASSUME ScheduleInv, OverdueFits, [ScheduleNext]_scheduleVars PROVE OverdueFits'
    OBVIOUS
  <1>0. /\ schedule \in [Schedule -> Row \cup {Nothing}] /\ owed \subseteq Schedule
        /\ Owe => owed' \subseteq Schedule
        /\ \A active \in BOOLEAN : \A next \in NextRun(active) : next # 0
    <2>1. schedule \in [Schedule -> Row \cup {Nothing}] /\ owed \subseteq Schedule
      BY DEF ScheduleInv, OverdueFits
    <2>2. Owe => owed' \subseteq Schedule
      BY <2>1 DEF Owe
    <2>3. \A next \in NextRun(TRUE) : next # 0
      BY ScheduleBounds DEF NextRun
    <2>4. \A next \in NextRun(FALSE) : next # 0
      BY DEF NextRun, NULL
    <2> QED BY <2>1, <2>2, <2>3, <2>4
  <1>1. CASE UNCHANGED <<schedule, overdue, owed>>
    BY <1>1 DEF OverdueFits
  <1>2. CASE Tick
    BY <1>0, <1>2, TickFits
  <1>3. CASE Advance /\ schedule[Current] # Nothing
    <2>1. PICK s \in Schedule : s = Current
      BY <1>3, BatchHasFirst DEF Advance, ScheduleInv
    <2>2. PICK next \in NextRun(TRUE) : Set(s, [schedule[s] EXCEPT !.next = next])
      BY <1>3, <2>1 DEF Advance, SetNextRun
    <2>3. PICK row : row = [schedule[s] EXCEPT !.next = next]
      OBVIOUS
    <2>4. schedule[s] \in Row
      BY <1>0, <1>3, <2>1
    <2>5. row.next # 0
      BY <1>0, <2>2, <2>3, <2>4 DEF Row
    <2>6. owed' \subseteq Schedule
      BY <1>0, <1>3 DEF Advance
    <2> QED BY <1>0, <2>2, <2>3, <2>5, <2>6, SetFits
  <1>4. ASSUME NEW s \in Schedule, NEW active \in BOOLEAN, CreateSchedule(s, active) \/ UpdateSchedule(s, active)
        PROVE  OverdueFits'
    <2>1. PICK next \in NextRun(active) : Set(s, [active |-> active, next |-> next])
      BY <1>4 DEF CreateSchedule, UpdateSchedule
    <2>2. PICK row : row = [active |-> active, next |-> next]
      OBVIOUS
    <2>3. row.next # 0
      BY <1>0, <2>1, <2>2
    <2>4. owed' \subseteq Schedule
      BY <1>0, <1>4 DEF CreateSchedule, UpdateSchedule
    <2> QED BY <1>0, <2>1, <2>2, <2>3, <2>4, SetFits
  <1>5. ASSUME NEW s \in Schedule, DeleteSchedule(s) PROVE OverdueFits'
    <2>1. Set(s, Nothing) /\ owed' \subseteq Schedule
      BY <1>0, <1>5 DEF DeleteSchedule
    <2> QED BY <1>0, <2>1, SetFits
  <1>6. ASSUME NEW at \in {"advance", "record"}, PlaySets(at) PROVE OverdueFits'
    <2>1. PICK p \in [id : Schedule, row : Row, at : {"advance", "create", "record"}] : p = player
      BY <1>6 DEF PlaySets, ScheduleInv
    <2>2. Owe /\ owed' \subseteq Schedule
      BY <1>0, <1>6 DEF PlaySets
    <2>3. CASE UNCHANGED <<schedule, overdue>>
      BY <2>2, <2>3 DEF OverdueFits
    <2>4. CASE ~UNCHANGED <<schedule, overdue>>
      <3>1. /\ schedule[p.id] # Nothing
            /\ \E next \in NextRun(p.row.active) : Set(p.id, [schedule[p.id] EXCEPT !.next = next])
        BY <1>6, <2>1, <2>4 DEF PlaySets
      <3>2. PICK next \in NextRun(p.row.active) : Set(p.id, [schedule[p.id] EXCEPT !.next = next])
        BY <3>1
      <3>3. schedule[p.id] \in Row /\ p.id \in Schedule /\ p.row.active \in BOOLEAN
        BY <1>0, <2>1, <3>1 DEF Row
      <3>4. PICK row : row = [schedule[p.id] EXCEPT !.next = next]
        OBVIOUS
      <3>5. row.next # 0
        BY <1>0, <3>2, <3>3, <3>4 DEF Row
      <3> QED BY <1>0, <2>2, <3>2, <3>3, <3>4, <3>5, SetFits
    <2> QED BY <2>3, <2>4
  <1>7. CASE Advance /\ schedule[Current] = Nothing
    BY <1>1, <1>7 DEF Advance
  <1>8. ASSUME NEW s \in Schedule, Play(s) PROVE OverdueFits'
    BY <1>1, <1>8 DEF Play
  <1>9. ASSUME SelectDue \/ WorkerCreates \/ WorkerCannotCreate \/ Record \/ PlayCreates \/ Restart
               \/ UNCHANGED scheduleVars
        PROVE  OverdueFits'
    BY <1>1, <1>9 DEF SelectDue, WorkerCreates, WorkerCannotCreate, Record, PlayCreates, Restart, scheduleVars
  <1> QED BY <1>2, <1>3, <1>4, <1>5, <1>6, <1>7, <1>8, <1>9
          DEF ScheduleNext, WorkerStep, UserStep, PlayAdvances, PlayRecords

\* The types follow.
LEMMA SchedulesTyped == ScheduleInv /\ OverdueFits => ScheduleTypeOK
  BY DEF ScheduleInv, BatchIsOwed, OverdueFits, ScheduleTypeOK

\* At first nothing is overdue.
LEMMA SchedulesStart == ScheduleInit => ScheduleInv /\ OverdueFits
  <1> SUFFICES ASSUME ScheduleInit PROVE ScheduleInv /\ OverdueFits
    OBVIOUS
  <1>1. [active |-> TRUE, next |-> NULL] \in Row
    BY ScheduleBounds DEF Row, NULL
  <1>2. schedule \in [Schedule -> Row \cup {Nothing}]
    BY <1>1 DEF ScheduleInit
  <1>3. BatchIsOwed
    BY DEF ScheduleInit, NoWork, BatchIsOwed
  <1>4. ScheduleInv
    BY <1>2, <1>3 DEF ScheduleInit, ScheduleInv, IsDue
  <1>5. \A s \in Schedule : ~(schedule[s] # Nothing /\ schedule[s].next = 0)
    BY DEF ScheduleInit, NULL
  <1>6. overdue \in Seq(Schedule) /\ DOMAIN overdue = {} /\ owed \subseteq Schedule
    BY DEF ScheduleInit
  <1>7. ToSet(overdue) = {}
    BY <1>6 DEF ToSet
  <1> QED BY <1>4, <1>5, <1>6, <1>7 DEF OverdueFits

\* The worker creates a pipeline for a schedule at most once for each time it
\* becomes due, whatever fails, restarts, is changed or played in between: it
\* commits the next run before it creates, so what it has selected is still owed.
THEOREM OneRunEachTime == ScheduleSpec => OneRunPerDueTime
  <1>1. ScheduleInit => ScheduleInv
    BY SchedulesStart
  <1>2. ScheduleInv /\ [ScheduleNext]_scheduleVars =>
            [\A s \in Schedule : worker.at = "advance" /\ worker'.at = "create" /\ s = Current
                => s \in owed]_scheduleVars
    BY BatchHasFirst DEF ScheduleInv, BatchIsOwed
  <1> QED BY <1>1, <1>2, ScheduleStep, PTL DEF ScheduleSpec, OneRunPerDueTime

-----------------------------------------------------------------------------
(* The CI configuration. *)

\* The least of some numbers.
LEMMA HasLeast ==
    ASSUME NEW S \in SUBSET Nat, S # {}
    PROVE  \E x \in S : \A y \in S : x <= y
  <1>1. \E x \in S : \A y \in S : ~(<<y, x>> \in OpToRel(<, Nat))
    BY NatLessThanWellFounded, WFMin, Zenon
  <1>2. PICK x \in S : \A y \in S : ~(<<y, x>> \in OpToRel(<, Nat))
    BY <1>1
  <1>3. ASSUME NEW y \in S
        PROVE  x <= y
    <2>1. ~(<<y, x>> \in OpToRel(<, Nat))
      BY <1>2
    <2> QED BY <2>1 DEF OpToRel
  <1> QED BY <1>3

\* The greatest of some of the numbers up to n.
LEMMA GreatestIs ==
    ASSUME NEW n \in Nat, NEW S \in SUBSET (1 .. n), S # {}
    PROVE  Max(S) \in S
  <1> DEFINE T == {n - i : i \in S}
  <1>1. T \in SUBSET Nat /\ T # {}
    <2>1. \A i \in S : n - i \in Nat
      OBVIOUS
    <2>2. PICK i \in S : TRUE
      OBVIOUS
    <2>3. n - i \in T
      OBVIOUS
    <2> QED BY <2>1, <2>3
  <1>2. \E x \in T : \A y \in T : x <= y
    <2> HIDE DEF T
    <2> QED BY <1>1, HasLeast
  <1>3. PICK x \in S : \A y \in S : n - x <= n - y
    BY <1>2
  <1>4. \A y \in S : x >= y
    BY <1>3
  <1> QED BY <1>4 DEF Max

\* Stages count from one, listed ones and others.
LEMMA StageIsNumber ==
    ASSUME NEW S, NEW stages \in Seq(S), NEW stage
    PROVE  StageIndex(stages, stage) \in Nat
  <1> DEFINE n == Len(stages)
             at == {i \in DOMAIN stages : stages[i] = stage}
  <1>1. n \in Nat /\ DOMAIN stages = 1 .. n
    BY LenProperties
  <1>2. CASE at = {}
    <2>1. IsFiniteSet(DOMAIN stages)
      BY <1>1, FS_Interval
    <2>2. stages \in Surjection(DOMAIN stages, Range(stages))
      <3>1. stages \in [DOMAIN stages -> Range(stages)]
        BY <1>1 DEF Range
      <3> QED BY <3>1 DEF Surjection, Range
    <2>3. Cardinality(Range(stages)) \in Nat
      BY <2>1, <2>2, FS_Surjection, FS_CardinalityType
    <2> QED BY <1>2, <2>3 DEF StageIndex
  <1>3. CASE at # {}
    <2>1. at \in SUBSET (1 .. n)
      BY <1>1
    <2> HIDE DEF at, n
    <2>2. Max(at) \in at
      BY <1>1, <1>3, <2>1, GreatestIs
    <2>3. StageIndex(stages, stage) = Max(at)
      BY <1>3 DEF StageIndex, at
    <2>4. Max(at) \in 1 .. n
      BY <2>1, <2>2
    <2> QED BY <2>3, <2>4
  <1> QED BY <1>2, <1>3

\* Whatever the files give as stages is read as a list.
LEMMA StagesAreListed ==
    ASSUME NEW merged
    PROVE  \E S : Stages(merged) \in Seq(S)
  <1> DEFINE value == merged["stages"]
             S == STRING \cup {"test", value}
  <1>1. <<>> \in Seq(S) /\ <<"test">> \in Seq(S) /\ <<value>> \in Seq(S)
    <2>1. "test" \in S /\ value \in S
      <3> HIDE DEF value
      <3> QED BY Zenon
    <2> HIDE DEF S, value
    <2> QED BY <2>1
  <1>2. value \in Seq(STRING) => value \in Seq(S)
    <2> HIDE DEF value
    <2>1. ASSUME value \in Seq(STRING)
          PROVE  value \in Seq(S)
      <3>1. Len(value) \in Nat /\ DOMAIN value = 1 .. Len(value) /\ \A i \in 1 .. Len(value) : value[i] \in STRING
        BY <2>1, LenProperties, ElementOfSeq
      <3>2. value = [i \in 1 .. Len(value) |-> value[i]]
        BY <2>1, <3>1
      <3>3. [i \in 1 .. Len(value) |-> value[i]] \in Seq(S)
        BY <3>1, IsASeq
      <3> QED BY <3>2, <3>3
    <2> QED BY <2>1
  <1>3. StringList(value) \in Seq(S)
    <2> HIDE DEF S
    <2> QED BY <1>1, <1>2 DEF StringList
  <1>4. Stages(merged) \in Seq(S)
    <2> HIDE DEF S
    <2> QED BY <1>1, <1>3 DEF Stages
  <1> QED BY <1>4

\* What is accepted has passed the checks, and its stages are numbers.
CheckedJobs(jobs) ==
    /\ NeedsPass(jobs) /\ DOMAIN jobs \subseteq Name \ Hidden
    /\ \A n \in DOMAIN jobs : jobs[n].stage \in Nat

\* A pipeline is made of jobs that have passed the checks.
LEMMA EvaluatedIsChecked == Evaluated = Rejected \/ CheckedJobs(Evaluated)
  <1> DEFINE merged == ReadGitlabCiWithIncludes
             jobs == IF merged = Rejected THEN Rejected ELSE ParseGitlabCi(merged)
  <1> SUFFICES ASSUME Evaluated # Rejected
               PROVE  CheckedJobs(Evaluated)
    OBVIOUS
  <1>1. /\ merged # Rejected /\ Evaluated = ParseGitlabCi(merged) /\ ParseGitlabCi(merged) # Rejected
        /\ NeedsPass(ParseGitlabCi(merged))
    BY DEF Evaluated
  <1> HIDE DEF merged, jobs
  <1>2. \E picked \in SUBSET (Name \ Hidden) : \E config :
            ParseGitlabCi(merged) = [n \in picked |-> ParsedJob(merged, config[n])]
    <2> DEFINE names == {n \in Name \ Hidden : merged[n] # Unset}
               resolved == JobConfigs(merged)
               config == [n \in names |-> ApplyDefaultConfig(resolved[n], merged["default"])]
               picked == {n \in names : config[n].script # Unset /\ JobRuleDecision(config[n]).when # "never"}
    <2>1. ParseGitlabCi(merged) =
              IF (\E n \in names : resolved[n] = Rejected) \/ picked = {} THEN Rejected
              ELSE [n \in picked |-> ParsedJob(merged, config[n])]
      BY DEF ParseGitlabCi
    <2>2. picked \in SUBSET (Name \ Hidden)
      OBVIOUS
    <2> HIDE DEF picked, config, resolved, names
    <2> QED BY <1>1, <2>1, <2>2
  <1>3. PICK picked \in SUBSET (Name \ Hidden) : \E config :
            ParseGitlabCi(merged) = [n \in picked |-> ParsedJob(merged, config[n])]
    BY <1>2
  <1>4. PICK config : ParseGitlabCi(merged) = [n \in picked |-> ParsedJob(merged, config[n])]
    BY <1>3
  <1>5. PICK S : Stages(merged) \in Seq(S)
    BY StagesAreListed
  <1>6. ASSUME NEW n \in picked
        PROVE  ParsedJob(merged, config[n]).stage \in Nat
    <2>1. ParsedJob(merged, config[n]).stage =
              StageIndex(Stages(merged), Or(config[n].stage, Head(Stages(merged))))
      BY DEF ParsedJob
    <2> QED BY <1>5, <2>1, StageIsNumber
  <1> QED BY <1>1, <1>4, <1>6 DEF CheckedJobs

\* What the configuration reaches: nothing yet, or what it is evaluated to.
ConfigInv == ConfigTypeOK /\ (created \in {Unset, Rejected} \/ CheckedJobs(created))

\* It is reached from every document, ...
LEMMA ConfigStarts == ConfigInit => ConfigInv
  BY FilesAreNamed DEF ConfigInit, ConfigInv, ConfigTypeOK

\* ... in one step.
LEMMA ConfigStep == ConfigInv /\ [ConfigNext]_configVars => ConfigInv'
  <1> SUFFICES ASSUME ConfigInv, [ConfigNext]_configVars
               PROVE  ConfigInv'
    OBVIOUS
  <1>1. CASE Evaluate
    <2>1. created' = Evaluated /\ document' = document
      BY <1>1 DEF Evaluate
    <2>2. Evaluated = Rejected \/ CheckedJobs(Evaluated)
      BY EvaluatedIsChecked
    <2> QED BY <2>1, <2>2 DEF ConfigInv, ConfigTypeOK, CheckedJobs, NeedsPass
  <1>2. CASE UNCHANGED configVars
    BY <1>2 DEF configVars, ConfigInv, ConfigTypeOK, CheckedJobs, NeedsPass
  <1> QED BY <1>1, <1>2 DEF ConfigNext

\* So every evaluation is a checked one.
LEMMA ConfigIsInvariant == ConfigSpec => []ConfigInv
  BY ConfigStarts, ConfigStep, PTL DEF ConfigSpec

\* However rules, includes, extends and undeclared stages are combined, jobs of
\* an accepted pipeline that wait for one another for ever have needs that form
\* a cycle within one stage: _validate_job_needs lets none point to a later one.
THEOREM WaitingIsInOneStage == ConfigSpec => []DeadlockIsInOneStage
  <1>1. ASSUME CheckedJobs(created), NEW jobs \in SUBSET DOMAIN created, Deadlocked(jobs)
        PROVE  \E n \in jobs :
                  Deadlocked({m \in jobs : created[m].stage = created[n].stage /\ created[m].needs # Unset})
    <2> DEFINE S == {created[n].stage : n \in jobs}
    <2>1. S \in SUBSET Nat /\ S # {}
      BY <1>1 DEF CheckedJobs, Deadlocked
    <2>2. \E x \in S : \A y \in S : x <= y
      <3> HIDE DEF S
      <3> QED BY <2>1, HasLeast
    <2>3. PICK n \in jobs : \A m \in jobs : created[n].stage <= created[m].stage
      BY <2>2
    <2> DEFINE cycle == {m \in jobs : created[m].stage = created[n].stage /\ created[m].needs # Unset}
    <2>4. \A m \in jobs : created[m].stage \in Nat
      BY <1>1 DEF CheckedJobs
    <2>5. ASSUME NEW m \in jobs, created[m].stage = created[n].stage
          PROVE  created[m].needs # Unset
      <3>1. SUFFICES ASSUME created[m].needs = Unset
                     PROVE  FALSE
        OBVIOUS
      <3>2. PICK x \in jobs : x \in WaitsFor(m)
        BY <1>1 DEF Deadlocked
      <3>3. created[x].stage < created[m].stage
        BY <3>1, <3>2 DEF WaitsFor
      <3> QED BY <2>3, <2>4, <2>5, <3>3
    <2>6. ASSUME NEW m \in cycle
          PROVE  WaitsFor(m) \cap cycle # {}
      <3>1. PICK x \in jobs : x \in WaitsFor(m)
        BY <1>1, <2>6 DEF Deadlocked
      <3>2. created[x].stage <= created[m].stage
        BY <1>1, <2>6, <3>1 DEF WaitsFor, CheckedJobs, NeedsPass
      <3>3. created[x].stage = created[n].stage
        BY <2>3, <2>4, <2>6, <3>2
      <3> QED BY <2>5, <3>1, <3>3
    <2>7. n \in cycle
      BY <2>5
    <2> HIDE DEF cycle
    <2>8. Deadlocked(cycle)
      BY <2>6, <2>7 DEF Deadlocked
    <2> QED BY <2>8 DEF cycle
  <1>2. ConfigInv => DeadlockIsInOneStage
    BY <1>1 DEF ConfigInv, DeadlockIsInOneStage, Accepted
  <1> QED BY <1>2, ConfigIsInvariant, PTL

-----------------------------------------------------------------------------
(* The parts together. *)

\* The invariants of the parts, which are what keeps their types.
PartInv ==
    /\ part \in {"creation", "cycle", "schedules", "config", "import"}
    /\ CreationInv /\ ScheduleInv /\ OverdueFits /\ ConfigInv /\ ImportInv

\* Each part starts as it does alone; a configuration that is not looked at is empty.
LEMMA PartsStart == Init => PartInv
  <1> SUFFICES ASSUME Init PROVE PartInv
    OBVIOUS
  <1>1. CreationInv /\ ScheduleInv /\ OverdueFits /\ ImportInv
    BY CreationStarts, SchedulesStart, ImportsStart DEF Init
  <1>2. ConfigInv
    <2>1. CASE ConfigInit
      BY <2>1, ConfigStarts
    <2>2. CASE document = [f \in CiFile |-> Unset] /\ created = Unset
      BY <2>2 DEF ConfigInv, ConfigTypeOK
    <2> QED BY <2>1, <2>2 DEF Init
  <1> QED BY <1>1, <1>2 DEF Init, PartInv

\* A step is a step of one part, and the others stand still.
LEMMA PartsStep == PartInv /\ [Next]_vars => PartInv'
  <1> SUFFICES ASSUME PartInv, [Next]_vars PROVE PartInv'
    OBVIOUS
  <1>1. /\ UNCHANGED part /\ [CreationNext]_creationVars /\ [ScheduleNext]_scheduleVars
        /\ [ConfigNext]_configVars /\ [ImportNext]_importVars
    BY DEF Next, vars
  <1> QED BY <1>1, CreationStep, ScheduleStep, OverdueStep, ConfigStep, ImportsStep DEF PartInv

\* Every variable of what leads to a pipeline keeps its type, for any number of
\* calls, projects, schedules and imports and any documents, whichever part moves.
THEOREM PipelinesHaveType == Spec => []TypeOK
  <1>1. PartInv => TypeOK
    BY CreationInvSays, SchedulesTyped DEF PartInv, ConfigInv, ImportInv, StagesFit, TypeOK
  <1> QED BY <1>1, PartsStart, PartsStep, PTL DEF Spec
=============================================================================
