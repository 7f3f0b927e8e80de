------------------------------ MODULE TraceProofs ------------------------------
(***************************************************************************)
(* What TraceUpload promises for every log, secret and number of faults,   *)
(* when the handler's read and write are one step.                         *)
(***************************************************************************)
EXTENDS TraceUpload, SequenceTheorems, TLAPS

\* Masking keeps every byte at its offset and changes it to NUL at most.
LEMMA MaskKeepsOffsets ==
    ASSUME NEW raw \in Seq(Byte)
    PROVE  /\ Mask(raw) \in Seq(Byte)
           /\ Len(Mask(raw)) = Len(raw)
           /\ \A i \in 1 .. Len(raw) : Mask(raw)[i] \in {raw[i], NUL}
  <1> DEFINE n == Len(Secret)
             Match(i) == i + n - 1 <= Len(raw) /\ SubSeq(raw, i, i + n - 1) = Secret
             left[i \in 0 .. Len(raw)] ==
                IF i = 0 THEN 0
                ELSE IF left[i - 1] > 1 THEN left[i - 1] - 1
                ELSE IF Match(i) THEN n ELSE 0
             masked == [i \in 1 .. Len(raw) |-> IF left[i] > 0 THEN NUL ELSE raw[i]]
  <1>1. Mask(raw) = masked
    BY DEF Mask
  <1> HIDE DEF left
  <1>2. \A i \in 1 .. Len(raw) : masked[i] \in {raw[i], NUL}
    OBVIOUS
  <1>3. \A i \in 1 .. Len(raw) : raw[i] \in Byte /\ NUL \in Byte
    BY LogsAreBytes
  <1>4. masked \in [1 .. Len(raw) -> Byte]
    BY <1>3
  <1>5. masked \in Seq(Byte) /\ Len(masked) = Len(raw)
    BY <1>4
  <1> QED BY <1>1, <1>2, <1>5

\* The log of an attempt is a sequence of bytes.
LEMMA OutputType == \A a \in Attempt : Output[a] \in Seq(Byte)
  BY LogsAreBytes DEF Attempt

\* A chunk that starts within the stored bytes extends them to its end.
LEMMA SplicedBytes ==
    ASSUME NEW raw \in Seq(Byte), NEW q \in Chunk,
           q.start <= Len(raw), q.start <= q.end, q.end <= Len(Output[q.attempt])
    PROVE  /\ Spliced(raw, q) \in Seq(Byte)
           /\ Len(Spliced(raw, q)) = q.end
           /\ \A i \in 1 .. q.end :
                 Spliced(raw, q)[i] \in
                    {IF i <= q.start THEN raw[i] ELSE Output[q.attempt][i], NUL}
  <1> DEFINE kept == SubSeq(raw, 1, q.start)
             sent == SubSeq(Output[q.attempt], q.start + 1, q.end)
  <1>0. /\ q.attempt \in Attempt /\ q.start \in Nat /\ q.end \in Nat
        /\ Output[q.attempt] \in Seq(Byte)
    BY OutputType DEF Chunk
  <1>1. /\ kept \in Seq(Byte) /\ Len(kept) = q.start
        /\ \A i \in 1 .. q.start : kept[i] = raw[i]
    BY <1>0
  <1>2. /\ sent \in Seq(Byte) /\ Len(sent) = q.end - q.start
        /\ \A i \in 1 .. q.end - q.start : sent[i] = Output[q.attempt][i + q.start]
    <2> DEFINE m == q.start + 1
               log == Output[q.attempt]
    <2>1. m \in Int /\ q.end \in Int /\ \A i \in m .. q.end : log[i] \in Byte
      BY <1>0
    <2>2. /\ sent \in Seq(Byte) /\ Len(sent) = IF m <= q.end THEN q.end - m + 1 ELSE 0
          /\ \A i \in 1 .. q.end - m + 1 : sent[i] = log[m + i - 1]
      <3> HIDE DEF m, log
      <3> QED BY <2>1, SubSeqProperties DEF m, log
    <2>3. q.end - m + 1 = q.end - q.start
      BY <1>0
    <2>4. Len(sent) = q.end - q.start
      BY <2>2, <1>0
    <2>5. \A i \in 1 .. q.end - q.start : sent[i] = log[i + q.start]
      <3> TAKE i \in 1 .. q.end - q.start
      <3>1. i \in 1 .. q.end - m + 1 /\ m + i - 1 = i + q.start
        BY <2>3, <1>0
      <3> HIDE DEF m, log, sent
      <3> QED BY <3>1, <2>2
    <2> QED BY <2>2, <2>4, <2>5
  <1> HIDE DEF kept, sent
  <1>3. /\ kept \o sent \in Seq(Byte) /\ Len(kept \o sent) = q.end
        /\ \A i \in 1 .. q.end : (kept \o sent)[i] =
              IF i <= q.start THEN raw[i] ELSE Output[q.attempt][i]
    <2>0. /\ kept \o sent \in Seq(Byte)
          /\ Len(kept \o sent) = Len(kept) + Len(sent)
          /\ \A i \in 1 .. Len(kept) + Len(sent) : (kept \o sent)[i] =
                IF i <= Len(kept) THEN kept[i] ELSE sent[i - Len(kept)]
      <3>1. kept \in Seq(Byte) /\ sent \in Seq(Byte)
        BY <1>1, <1>2
      <3> QED BY <3>1, ConcatProperties, Zenon
    <2>1. Len(kept) + Len(sent) = q.end
      BY <1>0, <1>1, <1>2
    <2>2. ASSUME NEW i \in 1 .. q.end, i <= q.start
          PROVE  (kept \o sent)[i] = raw[i]
      BY <2>0, <2>1, <2>2, <1>0, <1>1
    <2>3. ASSUME NEW i \in 1 .. q.end, ~(i <= q.start)
          PROVE  (kept \o sent)[i] = Output[q.attempt][i]
      <3>1. i - q.start \in 1 .. q.end - q.start /\ (i - q.start) + q.start = i
        BY <2>3, <1>0
      <3>2. (kept \o sent)[i] = sent[i - q.start]
        BY <2>0, <2>1, <2>3, <1>1
      <3> QED BY <3>1, <3>2, <1>2
    <2> QED BY <2>0, <2>1, <2>2, <2>3
  <1>4. Spliced(raw, q) = Mask(kept \o sent)
    BY DEF Spliced, kept, sent
  <1> QED BY <1>3, <1>4, MaskKeepsOffsets

-----------------------------------------------------------------------------
(* Offsets.                                                                *)

\* A chunk in flight was cut from what its runner wrote.
ChunksAreCut ==
    \A c \in Slot : call[c] # Idle =>
        /\ call[c].start <= call[c].end
        /\ call[c].end <= runner[call[c].attempt].made

OffsetInv ==
    /\ TypeOK
    /\ \A a \in Attempt : runner[a].made <= Len(Output[a])
    /\ ChunksAreCut
    /\ OffsetsAreKept

\* A chunk that is accepted leaves the stored bytes at their offsets.
LEMMA AcceptKeepsOffsets ==
    ASSUME ~Split, OffsetInv, NEW c \in Slot, Accept(c)
    PROVE  /\ row' \in Row
           /\ row'.attempt = row.attempt /\ call[c].attempt = row.attempt
           /\ Len(row'.raw) = call[c].end
           /\ call[c].start <= Len(row.raw)
           /\ OffsetsAreKept'
  <1> DEFINE q == call[c]
             new == Spliced(row.raw, q)
  <1>0. /\ q \in Chunk /\ row \in Row
        /\ q.attempt = row.attempt
        /\ ~TooFar(row.raw, q)
        /\ row' = [row EXCEPT !.raw = IF new # row.raw THEN new ELSE row.raw,
                              !.size = IF Len(new) # row.size THEN Len(new) ELSE row.size]
    <2>1. q \in Chunk /\ row \in Row
      BY DEF Accept, OffsetInv, TypeOK
    <2>2. PICK old \in Loaded(c) :
             /\ ~TooFar(old.raw, q)
             /\ row' = [row EXCEPT !.raw = IF Spliced(old.raw, q) # old.raw
                                           THEN Spliced(old.raw, q) ELSE row.raw,
                                   !.size = IF Len(Spliced(old.raw, q)) # old.size
                                            THEN Len(Spliced(old.raw, q)) ELSE row.size]
      BY DEF Accept
    <2>3. Authentic(q) /\ old = [raw |-> row.raw, size |-> row.size]
      BY DEF Loaded, Stored
    <2>4. old.raw = row.raw /\ old.size = row.size
      BY <2>3
    <2> QED BY <2>1, <2>2, <2>3, <2>4 DEF Authentic
  <1>1. /\ q.start \in Nat /\ q.end \in Nat /\ q.attempt \in Attempt
        /\ row.raw \in Seq(Byte)
        /\ q.start <= Len(row.raw) /\ q.start <= q.end
        /\ q.end <= runner[q.attempt].made
        /\ runner[q.attempt].made <= Len(Output[q.attempt])
        /\ runner[q.attempt].made \in Nat
    BY <1>0 DEF TooFar, Row, Chunk, OffsetInv, TypeOK, ChunksAreCut, Accept
  <1>2. Len(Output[q.attempt]) \in Nat
    BY <1>1, OutputType
  <1>3. q.end <= Len(Output[q.attempt])
    BY <1>1, <1>2
  <1>4. /\ new \in Seq(Byte) /\ Len(new) = q.end
        /\ \A i \in 1 .. q.end :
              new[i] \in {IF i <= q.start THEN row.raw[i] ELSE Output[q.attempt][i], NUL}
    BY <1>0, <1>1, <1>3, SplicedBytes
  <1> HIDE DEF new, q
  <1>5. row' = [attempt |-> row.attempt, over |-> row.over, raw |-> new,
                size |-> Len(new)]
    BY <1>0 DEF Row
  <1>6. row' \in Row
    <2>1. Len(new) \in Nat
      BY <1>1, <1>4
    <2>2. new \in Seq(Byte) /\ row.attempt \in Attempt /\ row.over \in BOOLEAN
      BY <1>0, <1>4 DEF Row
    <2> QED BY <2>1, <2>2, <1>5, Zenon DEF Row
  <1>7. \A i \in 1 .. q.end : new[i] \in {Output[row.attempt][i], NUL}
    <2> TAKE i \in 1 .. q.end
    <2>1. CASE i <= q.start
      <3>1. i \in 1 .. Len(row.raw)
        BY <1>1, <2>1
      <3>2. row.raw[i] \in {Output[row.attempt][i], NUL}
        BY <3>1 DEF OffsetInv, OffsetsAreKept, Log
      <3> QED BY <2>1, <3>2, <1>4
    <2>2. CASE ~(i <= q.start)
      BY <2>2, <1>0, <1>4
    <2> QED BY <2>1, <2>2
  <1>8. OffsetsAreKept'
    BY <1>0, <1>3, <1>4, <1>5, <1>7 DEF OffsetsAreKept, Log
  <1> QED BY <1>0, <1>1, <1>4, <1>5, <1>6, <1>8 DEF q

\* What a step may do to runners and requests without disturbing a chunk: a
\* runner writes on, and a request ends or stays the chunk that it was.
LEMMA ChunksStayCut ==
    ASSUME TypeOK, ChunksAreCut,
           runner' \in [Attempt -> [made: Nat, sent: Nat, done: BOOLEAN]],
           \A a \in Attempt : runner[a].made <= runner'[a].made,
           \A c \in Slot : call'[c] # Idle =>
               /\ call[c] # Idle
               /\ call'[c].attempt = call[c].attempt
               /\ call'[c].start = call[c].start /\ call'[c].end = call[c].end
    PROVE  ChunksAreCut'
  <1> SUFFICES ASSUME NEW c \in Slot, call'[c] # Idle
               PROVE  /\ call'[c].start <= call'[c].end
                      /\ call'[c].end <= runner'[call'[c].attempt].made
    BY DEF ChunksAreCut
  <1> DEFINE a == call[c].attempt
  <1>1. call[c] \in Chunk
    BY DEF TypeOK
  <1>2. a \in Attempt /\ call[c].end \in Nat /\ call[c].start \in Nat
    BY <1>1 DEF Chunk
  <1>3. runner[a].made \in Nat /\ runner'[a].made \in Nat
    BY <1>2 DEF TypeOK
  <1>4. call[c].start <= call[c].end /\ call[c].end <= runner[a].made
    BY DEF ChunksAreCut
  <1>5. runner[a].made <= runner'[a].made
    BY <1>2
  <1> QED BY <1>2, <1>3, <1>4, <1>5

\* An answer changes what a runner knows, not what it wrote.
LEMMA AnswerKeepsMade ==
    ASSUME TypeOK, NEW a \in Attempt, NEW s \in Nat, NEW d \in BOOLEAN,
           runner' \in {runner, [runner EXCEPT ![a].sent = s], [runner EXCEPT ![a].done = d]}
    PROVE  /\ runner' \in [Attempt -> [made: Nat, sent: Nat, done: BOOLEAN]]
           /\ \A b \in Attempt : runner'[b].made = runner[b].made
  BY DEF TypeOK

\* A chunk in flight comes from an attempt and ends at an offset.
LEMMA ChunkType ==
    ASSUME TypeOK, NEW c \in Slot, call[c] # Idle
    PROVE  /\ call[c] \in Chunk
           /\ call[c].attempt \in Attempt
           /\ call[c].start \in Nat /\ call[c].end \in Nat
  BY DEF TypeOK, Chunk

\* No action but Accept stores bytes, and a chunk is cut from what was written.
LEMMA OffsetNext ==
    ASSUME ~Split, OffsetInv, [Next]_vars
    PROVE  OffsetInv'
  <1> DEFINE Runners == [Attempt -> [made: Nat, sent: Nat, done: BOOLEAN]]
             Written == \A a \in Attempt : runner[a].made <= Len(Output[a])
  <1>0. /\ TypeOK /\ Written /\ ChunksAreCut /\ OffsetsAreKept
        /\ row \in Row /\ call \in [Slot -> Chunk \cup {Idle}] /\ runner \in Runners
        /\ wiped \in BOOLEAN /\ faults \in 0 .. MaxFaults
        /\ row.attempt \in Attempt /\ row.raw \in Seq(Byte)
        /\ \A a \in Attempt : runner[a].made \in Nat /\ Len(Output[a]) \in Nat
    BY OutputType DEF OffsetInv, TypeOK, Row
  <1>1. ASSUME NEW a \in Attempt, Write(a)
        PROVE  OffsetInv'
    <2>1. /\ runner' = [runner EXCEPT ![a].made = runner[a].made + 1]
          /\ runner[a].made < Len(Output[a])
          /\ UNCHANGED <<row, call, wiped, faults>>
      BY <1>1 DEF Write
    <2>2. runner' \in Runners
      <3>1. [runner[a] EXCEPT !.made = runner[a].made + 1]
               \in [made: Nat, sent: Nat, done: BOOLEAN]
        <4>1. runner[a] \in [made: Nat, sent: Nat, done: BOOLEAN]
          BY <1>0
        <4>2. runner[a].made + 1 \in Nat
          BY <4>1
        <4> QED BY <4>1, <4>2
      <3>2. runner' = [runner EXCEPT ![a] = [runner[a] EXCEPT !.made = runner[a].made + 1]]
        BY <2>1
      <3> QED BY <1>0, <3>1, <3>2
    <2>3. ASSUME NEW b \in Attempt
          PROVE  runner'[b].made <= Len(Output[b]) /\ runner[b].made <= runner'[b].made
      <3>1. CASE b = a
        <4>1. runner'[b].made = runner[b].made + 1
          BY <1>0, <2>1, <3>1
        <4> QED BY <4>1, <3>1, <2>1, <1>0
      <3>2. CASE b # a
        <4>1. runner'[b] = runner[b]
          BY <1>0, <2>1, <3>2
        <4> QED BY <4>1, <1>0
      <3> QED BY <3>1, <3>2
    <2>4. ChunksAreCut'
      BY <1>0, <2>1, <2>2, <2>3, ChunksStayCut
    <2>5. OffsetsAreKept' /\ TypeOK'
      BY <1>0, <2>1, <2>2 DEF OffsetsAreKept, Log, TypeOK
    <2> QED BY <2>3, <2>4, <2>5 DEF OffsetInv
  <1>2. ASSUME NEW a \in Attempt, Report(a)
        PROVE  OffsetInv'
    <2>1. runner' = [runner EXCEPT ![a].done = TRUE] /\ UNCHANGED <<call, wiped, faults>>
      BY <1>2 DEF Report
    <2>2. runner' \in Runners /\ \A b \in Attempt : runner'[b].made = runner[b].made
      BY <1>0, <2>1
    <2>3. row'.raw = row.raw /\ row'.attempt = row.attempt /\ row' \in Row
      <3>1. CASE row.attempt # a
        BY <1>0, <1>2, <3>1 DEF Report
      <3>2. CASE row.attempt = a
        <4>1. row' = [row EXCEPT !.over = TRUE,
                                 !.size = IF runner[a].made = 0 THEN row.size ELSE runner[a].made]
          BY <1>2, <3>2 DEF Report
        <4> QED BY <4>1, <1>0 DEF Row
      <3> QED BY <3>1, <3>2
    <2>4. ChunksAreCut'
      BY <1>0, <2>1, <2>2, ChunksStayCut
    <2>5. OffsetsAreKept'
      BY <1>0, <2>3 DEF OffsetsAreKept, Log
    <2>6. TypeOK'
      BY <1>0, <2>1, <2>2, <2>3 DEF TypeOK
    <2> QED BY <1>0, <2>2, <2>4, <2>5, <2>6 DEF OffsetInv
  <1>3. ASSUME NEW c \in Slot, NEW a \in Attempt, Patch(c, a)
        PROVE  OffsetInv'
    <2> DEFINE q == [attempt |-> a, start |-> runner[a].sent, end |-> runner[a].made,
                     live |-> TRUE, old |-> Unread]
    <2>1. call' = [call EXCEPT ![c] = q] /\ runner[a].sent < runner[a].made
          /\ UNCHANGED <<row, runner, wiped, faults>>
      BY <1>3 DEF Patch
    <2>2. runner[a].sent \in Nat /\ runner[a].made \in Nat
      BY <1>0
    <2>3. q \in Chunk
      BY <2>2 DEF Chunk
    <2>4. TypeOK'
      BY <1>0, <2>1, <2>3 DEF TypeOK
    <2>5. ChunksAreCut'
      <3> SUFFICES ASSUME NEW d \in Slot, call'[d] # Idle
                   PROVE  /\ call'[d].start <= call'[d].end
                          /\ call'[d].end <= runner'[call'[d].attempt].made
        BY DEF ChunksAreCut
      <3>1. CASE d = c
        <4>1. call'[d] = q
          BY <1>0, <2>1, <3>1
        <4>2. call'[d].start = runner[a].sent /\ call'[d].end = runner[a].made
              /\ call'[d].attempt = a /\ runner' = runner
          BY <4>1, <2>1
        <4> QED BY <4>2, <2>1, <2>2
      <3>2. CASE d # c
        <4>1. call'[d] = call[d] /\ runner' = runner
          BY <1>0, <2>1, <3>2
        <4> QED BY <4>1, <1>0 DEF ChunksAreCut
      <3> QED BY <3>1, <3>2
    <2>6. OffsetsAreKept'
      BY <1>0, <2>1 DEF OffsetsAreKept, Log
    <2>7. Written'
      BY <1>0, <2>1
    <2> QED BY <2>4, <2>5, <2>6, <2>7 DEF OffsetInv
  <1>4. ASSUME NEW c \in Slot, Load(c)
        PROVE  OffsetInv'
    BY <1>4 DEF Load
  <1>5. ASSUME NEW c \in Slot, call[c] # Idle, call' = [call EXCEPT ![c] = Idle],
               runner' \in Runners,
               \A b \in Attempt : runner'[b].made = runner[b].made,
               row' \in Row, OffsetsAreKept', UNCHANGED wiped, faults' \in 0 .. MaxFaults
        PROVE  OffsetInv'
    <2>1. TypeOK'
      BY <1>0, <1>5 DEF TypeOK
    <2>2. ChunksAreCut'
      BY <1>0, <1>5, ChunksStayCut
    <2>3. Written'
      BY <1>0, <1>5
    <2> QED BY <1>5, <2>1, <2>2, <2>3 DEF OffsetInv
  <1>6. ASSUME NEW c \in Slot, Forbid(c) \/ Refuse(c) \/ Drop(c)
        PROVE  OffsetInv'
    <2>1. call[c] # Idle /\ call' = [call EXCEPT ![c] = Idle] /\ UNCHANGED <<row, wiped>>
      BY <1>6 DEF Forbid, Refuse, Drop
    <2>2. call[c].attempt \in Attempt
      BY <1>0, <2>1, ChunkType
    <2>3. \E s \in Nat : runner' \in {runner, [runner EXCEPT ![call[c].attempt].sent = s],
                                      [runner EXCEPT ![call[c].attempt].done = TRUE]}
      <3>1. CASE Forbid(c) \/ Drop(c)
        BY <3>1 DEF Forbid, Drop
      <3>2. CASE Refuse(c)
        <4>1. PICK old \in Loaded(c) :
                 runner' = IF call[c].live THEN Told(call[c].attempt, ResumeAt(old.raw))
                           ELSE runner
          BY <3>2 DEF Refuse
        <4>2. old.raw = row.raw
          BY DEF Loaded, Stored
        <4>3. Len(row.raw) \in Nat
          BY <1>0
        <4> QED BY <4>1, <4>2, <4>3 DEF Told, ResumeAt
      <3> QED BY <1>6, <3>1, <3>2
    <2>4. runner' \in Runners /\ \A b \in Attempt : runner'[b].made = runner[b].made
      BY <1>0, <2>2, <2>3, AnswerKeepsMade
    <2>5. row' \in Row /\ OffsetsAreKept'
      BY <1>0, <2>1 DEF OffsetsAreKept, Log
    <2>6. faults' \in 0 .. MaxFaults
      BY <1>0, <1>6, BoundsAreTyped DEF Forbid, Refuse, Drop
    <2> QED BY <1>5, <2>1, <2>4, <2>5, <2>6
  <1>7. ASSUME NEW c \in Slot, Accept(c)
        PROVE  OffsetInv'
    <2>1. call[c] # Idle /\ call' = [call EXCEPT ![c] = Idle] /\ UNCHANGED <<wiped, faults>>
          /\ runner' = IF call[c].live THEN Told(call[c].attempt, call[c].end) ELSE runner
      BY <1>7 DEF Accept
    <2>2. call[c].attempt \in Attempt /\ call[c].end \in Nat
      BY <1>0, <2>1, ChunkType
    <2>3. runner' \in Runners /\ \A b \in Attempt : runner'[b].made = runner[b].made
      BY <1>0, <2>1, <2>2, AnswerKeepsMade DEF Told
    <2>4. row' \in Row /\ OffsetsAreKept'
      BY <1>7, AcceptKeepsOffsets
    <2> QED BY <1>0, <1>5, <2>1, <2>3, <2>4
  <1>8. ASSUME NEW c \in Slot, Timeout(c)
        PROVE  OffsetInv'
    <2>1. call[c] # Idle /\ call' = [call EXCEPT ![c].live = FALSE]
          /\ faults < MaxFaults /\ faults' = faults + 1 /\ UNCHANGED <<row, runner, wiped>>
      BY <1>8 DEF Timeout
    <2>2. call[c] \in Chunk
      BY <1>0, <2>1, ChunkType
    <2>3. /\ call' \in [Slot -> Chunk \cup {Idle}]
          /\ \A d \in Slot : call'[d] # Idle =>
                /\ call[d] # Idle
                /\ call'[d].attempt = call[d].attempt
                /\ call'[d].start = call[d].start /\ call'[d].end = call[d].end
      <3>1. call' = [call EXCEPT ![c] = [call[c] EXCEPT !.live = FALSE]]
        BY <2>1
      <3>2. [call[c] EXCEPT !.live = FALSE] \in Chunk
        BY <2>2 DEF Chunk
      <3>3. \A d \in Slot : d # c => call'[d] = call[d]
        BY <1>0, <3>1
      <3>4. call'[c] = [call[c] EXCEPT !.live = FALSE]
        BY <1>0, <3>1
      <3>5. /\ call'[c].attempt = call[c].attempt
            /\ call'[c].start = call[c].start /\ call'[c].end = call[c].end
        BY <3>4, <2>2 DEF Chunk
      <3>6. call' \in [Slot -> Chunk \cup {Idle}]
        BY <1>0, <3>1, <3>2
      <3> QED BY <2>1, <3>3, <3>5, <3>6
    <2>4. faults' \in 0 .. MaxFaults
      BY <1>0, <2>1, BoundsAreTyped
    <2>5. TypeOK'
      BY <1>0, <2>1, <2>3, <2>4 DEF TypeOK
    <2>6. ChunksAreCut'
      <3>1. runner' \in Runners /\ \A b \in Attempt : runner[b].made <= runner'[b].made
        BY <1>0, <2>1
      <3> QED BY <1>0, <2>3, <3>1, ChunksStayCut
    <2>7. OffsetsAreKept' /\ Written'
      BY <1>0, <2>1 DEF OffsetsAreKept, Log
    <2> QED BY <2>5, <2>6, <2>7 DEF OffsetInv
  <1>9. ASSUME UNCHANGED <<call, faults>>, wiped' \in BOOLEAN,
               runner' \in Runners, \A b \in Attempt : runner'[b].made = runner[b].made,
               row' \in Row, OffsetsAreKept'
        PROVE  OffsetInv'
    <2>1. ChunksAreCut'
      BY <1>0, <1>9, ChunksStayCut
    <2> QED BY <1>0, <1>9, <2>1 DEF OffsetInv, TypeOK
  <1>10. CASE Cancel
    <2>1. row' = [row EXCEPT !.over = TRUE] /\ UNCHANGED <<runner, call, wiped, faults>>
      BY <1>10 DEF Cancel
    <2>2. row' \in Row /\ row'.raw = row.raw /\ row'.attempt = row.attempt
      BY <1>0, <2>1 DEF Row
    <2>3. OffsetsAreKept'
      BY <1>0, <2>2 DEF OffsetsAreKept, Log
    <2>4. wiped' \in BOOLEAN /\ runner' \in Runners
          /\ \A b \in Attempt : runner'[b].made = runner[b].made
      BY <1>0, <2>1
    <2> QED BY <1>9, <2>1, <2>2, <2>3, <2>4
  <1>11. ASSUME \/ Retry \/ Requeue \/ Erase
                \/ \E a \in Attempt : ReportFailure(a)
         PROVE  OffsetInv'
    <2>0. <<>> \in Seq(Byte) /\ 0 \in Nat /\ FALSE \in BOOLEAN
      OBVIOUS
    <2>1. row' \in Row /\ row'.raw = <<>> /\ wiped' \in BOOLEAN /\ UNCHANGED <<call, faults>>
      <3>1. CASE Restart /\ UNCHANGED <<call, faults>>
        <4>1. row' = [attempt |-> row.attempt + 1, over |-> FALSE,
                      raw |-> <<>>, size |-> 0]
              /\ row.attempt + 1 \in Attempt /\ wiped' = FALSE
          BY <1>0, <3>1 DEF Restart, Restarted, Row
        <4> QED BY <4>1, <3>1, <2>0, Zenon DEF Row
      <3>2. CASE Erase
        <4>1. row' = [attempt |-> row.attempt, over |-> row.over,
                      raw |-> <<>>, size |-> 0]
              /\ row.over \in BOOLEAN /\ wiped' = TRUE
              /\ UNCHANGED <<call, faults>>
          BY <1>0, <3>2 DEF Erase, Row
        <4> QED BY <4>1, <2>0, <1>0, Zenon DEF Row
      <3> QED BY <1>11, <3>1, <3>2 DEF Retry, Requeue, ReportFailure
    <2>2. OffsetsAreKept'
      <3>1. row'.attempt \in Attempt
        BY <2>1 DEF Row
      <3>2. Len(Output[row'.attempt]) \in Nat
        BY <3>1, OutputType
      <3> QED BY <2>1, <3>2 DEF OffsetsAreKept, Log
    <2>3. runner' \in Runners /\ \A b \in Attempt : runner'[b].made = runner[b].made
      <3>1. CASE UNCHANGED runner
        BY <3>1, <1>0
      <3>2. CASE \E a \in Attempt : runner' = [runner EXCEPT ![a].done = TRUE]
        BY <3>2, <1>0, AnswerKeepsMade
      <3> QED BY <1>11, <3>1, <3>2 DEF Retry, Requeue, Erase, ReportFailure
    <2> QED BY <1>9, <2>1, <2>2, <2>3
  <1>12. CASE UNCHANGED vars
    BY <1>12 DEF vars, OffsetInv, TypeOK, OffsetsAreKept, Log, ChunksAreCut
  <1> QED
    BY <1>1, <1>2, <1>3, <1>4, <1>6, <1>7, <1>8, <1>10, <1>11, <1>12 DEF Next, Serve

\* Nothing is stored before the first chunk.
LEMMA OffsetInit == ASSUME Init PROVE OffsetInv
  <1>1. 1 \in Attempt
    BY LogsAreBytes DEF Attempt
  <1>2. TypeOK
    <2>1. row \in Row
      <3>1. <<>> \in Seq(Byte) /\ 0 \in Nat
        OBVIOUS
      <3> QED BY <1>1, <3>1, Zenon DEF Init, Row
    <2>2. runner \in [Attempt -> [made: Nat, sent: Nat, done: BOOLEAN]]
      BY DEF Init
    <2>3. call \in [Slot -> Chunk \cup {Idle}]
      BY DEF Init
    <2>4. wiped \in BOOLEAN /\ faults \in 0 .. MaxFaults
      <3>1. wiped = FALSE /\ faults = 0
        BY DEF Init
      <3>2. MaxFaults \in Nat
        BY BoundsAreTyped
      <3>3. faults \in 0 .. MaxFaults
        BY <3>1, <3>2
      <3> QED BY <3>1, <3>3
    <2> QED BY <2>1, <2>2, <2>3, <2>4 DEF TypeOK
  <1>3. \A a \in Attempt : runner[a].made <= Len(Output[a])
    BY OutputType DEF Init
  <1>4. OffsetsAreKept
    <2>1. Len(Output[1]) \in Nat /\ row.raw = <<>> /\ row.attempt = 1
      BY <1>1, OutputType DEF Init
    <2> QED BY <2>1 DEF OffsetsAreKept, Log
  <1> QED BY <1>2, <1>3, <1>4 DEF OffsetInv, ChunksAreCut, Init

\* However chunks of any log are cut, lost, repeated or late, each stored byte
\* is the byte the current attempt wrote at that offset, or masks it.
THEOREM OffsetsHold == ASSUME ~Split PROVE Spec => []OffsetsAreKept
  <1>1. Init => OffsetInv
    BY OffsetInit
  <1>2. OffsetInv /\ [Next]_vars => OffsetInv'
    BY OffsetNext
  <1>3. OffsetInv => OffsetsAreKept
    BY DEF OffsetInv
  <1> QED BY <1>1, <1>2, <1>3, PTL DEF Spec

-----------------------------------------------------------------------------
(* Acknowledged bytes, with one PATCH in flight at a time.                 *)

OneAtATime == \A c, d \in Slot : c = d

\* The stored bytes were written, and a request for the current attempt, which
\* starts within them, reaches at least as far.
ResumeInv ==
    /\ OffsetInv
    /\ \A a \in Attempt : a > row.attempt => runner[a].sent = 0
    /\ Len(row.raw) <= runner[row.attempt].made
    /\ \A c \in Slot : call[c] # Idle =>
          /\ call[c].attempt <= row.attempt
          /\ call[c].attempt = row.attempt => Len(row.raw) <= call[c].end
    /\ AckedIsStored

\* What ResumeInv says of the types of its parts.
LEMMA ResumeTypes ==
    ASSUME ResumeInv
    PROVE  /\ TypeOK
           /\ row.attempt \in Attempt /\ row.raw \in Seq(Byte) /\ Len(row.raw) \in Nat
           /\ Attempt \subseteq Nat
           /\ \A a \in Attempt : runner[a].made \in Nat /\ runner[a].sent \in Nat
           /\ \A c \in Slot : call[c] # Idle =>
                 /\ call[c].attempt \in Attempt
                 /\ call[c].start \in Nat /\ call[c].end \in Nat
                 /\ call[c].start <= call[c].end
  <1>1. TypeOK /\ ChunksAreCut
    BY DEF ResumeInv, OffsetInv
  <1>2. row.attempt \in Attempt /\ row.raw \in Seq(Byte)
    BY <1>1 DEF TypeOK, Row
  <1>3. Attempt \subseteq Nat
    BY LogsAreBytes DEF Attempt
  <1>4. \A a \in Attempt : runner[a].made \in Nat /\ runner[a].sent \in Nat
    BY <1>1 DEF TypeOK
  <1>5. \A c \in Slot : call[c] # Idle =>
           /\ call[c].attempt \in Attempt /\ call[c].start \in Nat /\ call[c].end \in Nat
           /\ call[c].start <= call[c].end
    BY <1>1, ChunkType DEF ChunksAreCut
  <1> QED BY <1>1, <1>2, <1>3, <1>4, <1>5

\* An answer to a request of attempt a changes what that runner knows alone.
LEMMA AnswerTells ==
    ASSUME TypeOK, NEW a \in Attempt, NEW s \in Nat,
           runner' = [runner EXCEPT ![a].sent = s]
    PROVE  /\ runner'[a].sent = s
           /\ \A b \in Attempt : b # a => runner'[b].sent = runner[b].sent
           /\ \A b \in Attempt : runner'[b].made = runner[b].made
  BY DEF TypeOK

\* A step keeps what is stored, what was written and what was acknowledged in
\* proportion.
LEMMA ResumeNext ==
    ASSUME ~Split, OneAtATime, ResumeInv, [Next]_vars
    PROVE  ResumeInv'
  <1>0. /\ TypeOK /\ OffsetInv /\ OffsetInv' /\ TypeOK'
        /\ row.attempt \in Attempt /\ row.raw \in Seq(Byte) /\ Len(row.raw) \in Nat
        /\ Attempt \subseteq Nat
        /\ \A a \in Attempt : runner[a].made \in Nat /\ runner[a].sent \in Nat
        /\ \A c \in Slot : call[c] # Idle =>
              /\ call[c].attempt \in Attempt
              /\ call[c].start \in Nat /\ call[c].end \in Nat
              /\ call[c].start <= call[c].end
        /\ runner \in [Attempt -> [made: Nat, sent: Nat, done: BOOLEAN]]
        /\ call \in [Slot -> Chunk \cup {Idle}]
    BY ResumeTypes, OffsetNext DEF ResumeInv, OffsetInv, TypeOK
  <1>1. ASSUME row'.raw = row.raw, row'.attempt = row.attempt, UNCHANGED wiped,
               \A a \in Attempt : /\ runner[a].made <= runner'[a].made
                                  /\ runner'[a].made \in Nat
                                  /\ runner'[a].sent = runner[a].sent,
               \A c \in Slot : call'[c] # Idle =>
                   /\ call[c] # Idle
                   /\ call'[c].attempt = call[c].attempt /\ call'[c].end = call[c].end
        PROVE  ResumeInv'
    <2>1. Len(row.raw) <= runner'[row.attempt].made
      <3>1. /\ Len(row.raw) <= runner[row.attempt].made
            /\ runner[row.attempt].made <= runner'[row.attempt].made
            /\ runner[row.attempt].made \in Nat /\ runner'[row.attempt].made \in Nat
        BY <1>0, <1>1 DEF ResumeInv
      <3> QED BY <3>1, <1>0
    <2>2. \A c \in Slot : call'[c] # Idle =>
             /\ call'[c].attempt <= row.attempt
             /\ call'[c].attempt = row.attempt => Len(row.raw) <= call'[c].end
      BY <1>1 DEF ResumeInv
    <2>3. AckedIsStored'
      BY <1>0, <1>1 DEF ResumeInv, AckedIsStored
    <2>4. \A a \in Attempt : a > row.attempt => runner'[a].sent = 0
      BY <1>0, <1>1 DEF ResumeInv
    <2> QED BY <1>0, <1>1, <2>1, <2>2, <2>3, <2>4 DEF ResumeInv
  <1>2. ASSUME NEW a \in Attempt, Write(a)
        PROVE  ResumeInv'
    <2>1. /\ runner' = [runner EXCEPT ![a].made = runner[a].made + 1]
          /\ UNCHANGED <<row, call, wiped>>
      BY <1>2 DEF Write
    <2>2. ASSUME NEW b \in Attempt
          PROVE  /\ runner[b].made <= runner'[b].made /\ runner'[b].made \in Nat
                 /\ runner'[b].sent = runner[b].sent
      <3>1. CASE b = a
        <4>1. runner'[b] = [runner[a] EXCEPT !.made = runner[a].made + 1]
          BY <1>0, <2>1, <3>1
        <4>2. runner'[b].made = runner[a].made + 1 /\ runner'[b].sent = runner[a].sent
          BY <4>1, <1>0
        <4> QED BY <4>2, <3>1, <1>0
      <3>2. CASE b # a
        <4>1. runner'[b] = runner[b]
          BY <1>0, <2>1, <3>2
        <4> QED BY <4>1, <1>0
      <3> QED BY <3>1, <3>2
    <2> QED BY <1>1, <2>1, <2>2
  <1>3. ASSUME NEW a \in Attempt, Report(a)
        PROVE  ResumeInv'
    <2>1. runner' = [runner EXCEPT ![a].done = TRUE] /\ UNCHANGED <<call, wiped>>
      BY <1>3 DEF Report
    <2>2. row'.raw = row.raw /\ row'.attempt = row.attempt
      BY <1>0, <1>3 DEF Report, TypeOK, Row
    <2>3. \A b \in Attempt : runner'[b].made = runner[b].made /\ runner'[b].sent = runner[b].sent
      BY <1>0, <2>1
    <2>4. \A b \in Attempt : /\ runner[b].made <= runner'[b].made
                             /\ runner'[b].made \in Nat
                             /\ runner'[b].sent = runner[b].sent
      BY <1>0, <2>3
    <2> QED BY <1>1, <2>1, <2>2, <2>4
  <1>4. ASSUME NEW c \in Slot, NEW a \in Attempt, Patch(c, a)
        PROVE  ResumeInv'
    <2> DEFINE q == [attempt |-> a, start |-> runner[a].sent, end |-> runner[a].made,
                     live |-> TRUE, old |-> Unread]
    <2>1. call' = [call EXCEPT ![c] = q] /\ a <= row.attempt
          /\ UNCHANGED <<row, runner, wiped, faults>>
      BY <1>4 DEF Patch, Started
    <2>2. q.attempt = a /\ q.end = runner[a].made
      OBVIOUS
    <2> HIDE DEF q
    <2>3. ASSUME NEW d \in Slot, call'[d] # Idle
          PROVE  /\ call'[d].attempt <= row.attempt
                 /\ call'[d].attempt = row.attempt => Len(row.raw) <= call'[d].end
      <3>1. CASE d = c
        <4>1. call'[d] = q
          BY <1>0, <2>1, <3>1
        <4> QED BY <4>1, <2>1, <2>2 DEF ResumeInv
      <3>2. CASE d # c
        <4>1. call'[d] = call[d]
          BY <1>0, <2>1, <3>2
        <4> QED BY <4>1, <2>3 DEF ResumeInv
      <3> QED BY <3>1, <3>2
    <2>4. AckedIsStored'
      BY <2>1 DEF ResumeInv, AckedIsStored
    <2> QED BY <1>0, <2>1, <2>3, <2>4 DEF ResumeInv
  <1>5. ASSUME NEW c \in Slot, Load(c)
        PROVE  ResumeInv'
    BY <1>5 DEF Load
  <1>6. ASSUME NEW c \in Slot, Forbid(c) \/ Drop(c)
        PROVE  ResumeInv'
    <2>1. call' = [call EXCEPT ![c] = Idle] /\ call[c] # Idle /\ UNCHANGED <<row, wiped>>
          /\ runner' \in {runner, [runner EXCEPT ![call[c].attempt].done = TRUE]}
      BY <1>6 DEF Forbid, Drop
    <2>2. \A d \in Slot : call'[d] # Idle => call'[d] = call[d]
      BY <1>0, <2>1
    <2>3. \A b \in Attempt : runner'[b].made = runner[b].made /\ runner'[b].sent = runner[b].sent
      <3>1. CASE runner' = runner
        BY <3>1
      <3>2. CASE runner' = [runner EXCEPT ![call[c].attempt].done = TRUE]
        BY <3>2, <1>0
      <3> QED BY <2>1, <3>1, <3>2
    <2>4. \A b \in Attempt : /\ runner[b].made <= runner'[b].made
                             /\ runner'[b].made \in Nat
                             /\ runner'[b].sent = runner[b].sent
      BY <1>0, <2>3
    <2> QED BY <1>1, <2>1, <2>2, <2>4
  <1>7. ASSUME NEW c \in Slot, Timeout(c)
        PROVE  ResumeInv'
    <2>1. call' = [call EXCEPT ![c] = [call[c] EXCEPT !.live = FALSE]] /\ call[c] # Idle
          /\ UNCHANGED <<row, runner, wiped>>
      BY <1>7 DEF Timeout
    <2>2. call[c] \in Chunk
      BY <1>0, <2>1, ChunkType
    <2>3. ASSUME NEW d \in Slot, call'[d] # Idle
          PROVE  /\ call[d] # Idle
                 /\ call'[d].attempt = call[d].attempt /\ call'[d].end = call[d].end
      <3>1. CASE d = c
        <4>1. call'[d] = [call[c] EXCEPT !.live = FALSE]
          BY <1>0, <2>1, <3>1
        <4> QED BY <4>1, <3>1, <2>1, <2>2 DEF Chunk
      <3>2. CASE d # c
        <4>1. call'[d] = call[d]
          BY <1>0, <2>1, <3>2
        <4> QED BY <4>1, <2>3
      <3> QED BY <3>1, <3>2
    <2>4. \A b \in Attempt : /\ runner[b].made <= runner'[b].made
                             /\ runner'[b].made \in Nat
                             /\ runner'[b].sent = runner[b].sent
      BY <1>0, <2>1
    <2> QED BY <1>1, <2>1, <2>3, <2>4
  <1>8. ASSUME NEW c \in Slot, call' = [call EXCEPT ![c] = Idle], call[c] # Idle,
               call[c].attempt = row.attempt, UNCHANGED wiped,
               row'.attempt = row.attempt,
               Len(row'.raw) \in Nat, Len(row.raw) <= Len(row'.raw),
               Len(row'.raw) <= runner[row.attempt].made,
               \/ runner' = runner
               \/ \E s \in Nat : s = Len(row'.raw) /\ runner' = [runner EXCEPT ![row.attempt].sent = s]
        PROVE  ResumeInv'
    <2>1. \A d \in Slot : call'[d] = Idle
      BY <1>0, <1>8 DEF OneAtATime
    <2>2. /\ \A b \in Attempt : runner'[b].made = runner[b].made
          /\ \A b \in Attempt : b # row.attempt => runner'[b].sent = runner[b].sent
          /\ \/ runner'[row.attempt].sent = runner[row.attempt].sent
             \/ runner'[row.attempt].sent = Len(row'.raw)
      BY <1>0, <1>8, AnswerTells
    <2>3. AckedIsStored'
      <3>1. ~wiped => runner[row.attempt].sent <= Len(row.raw)
        BY DEF ResumeInv, AckedIsStored
      <3>2. ~wiped => runner'[row.attempt].sent <= Len(row'.raw)
        BY <1>0, <1>8, <2>2, <3>1
      <3> QED BY <1>8, <3>2 DEF AckedIsStored
    <2>4. \A a \in Attempt : a > row.attempt => runner'[a].sent = 0
      <3> TAKE a \in Attempt
      <3> HAVE a > row.attempt
      <3>1. a # row.attempt
        BY <1>0
      <3> QED BY <3>1, <2>2 DEF ResumeInv
    <2>5. Len(row'.raw) <= runner'[row.attempt].made
      BY <1>0, <1>8, <2>2
    <2> QED BY <1>0, <1>8, <2>1, <2>3, <2>4, <2>5 DEF ResumeInv
  <1>9. ASSUME NEW c \in Slot, Refuse(c)
        PROVE  ResumeInv'
    <2>1. call' = [call EXCEPT ![c] = Idle] /\ call[c] # Idle /\ UNCHANGED <<row, wiped>>
      BY <1>9 DEF Refuse
    <2>2. PICK old \in Loaded(c) :
             runner' = IF call[c].live THEN Told(call[c].attempt, ResumeAt(old.raw)) ELSE runner
      BY <1>9 DEF Refuse
    <2>3. old.raw = row.raw /\ call[c].attempt = row.attempt
      BY DEF Loaded, Stored, Authentic
    <2>4. runner' = runner \/ runner' = [runner EXCEPT ![row.attempt].sent = Len(row.raw)]
      BY <2>2, <2>3 DEF Told, ResumeAt
    <2>5. Len(row.raw) <= runner[row.attempt].made
      BY DEF ResumeInv
    <2>6. Len(row'.raw) \in Nat /\ Len(row.raw) <= Len(row'.raw)
          /\ Len(row'.raw) <= runner[row.attempt].made
      <3>1. row'.raw = row.raw /\ Len(row.raw) \in Nat
        BY <1>0, <2>1
      <3> QED BY <3>1, <2>5
    <2>7. \/ runner' = runner
          \/ \E s \in Nat : s = Len(row'.raw) /\ runner' = [runner EXCEPT ![row.attempt].sent = s]
      <3>1. row'.raw = row.raw /\ Len(row.raw) \in Nat
        BY <1>0, <2>1
      <3> QED BY <3>1, <2>4
    <2> QED BY <1>8, <2>1, <2>3, <2>6, <2>7
  <1>10. ASSUME NEW c \in Slot, Accept(c)
         PROVE  ResumeInv'
    <2>1. call' = [call EXCEPT ![c] = Idle] /\ call[c] # Idle /\ UNCHANGED wiped
          /\ runner' = IF call[c].live THEN Told(call[c].attempt, call[c].end) ELSE runner
      BY <1>10 DEF Accept
    <2>2. row'.attempt = row.attempt /\ call[c].attempt = row.attempt
          /\ Len(row'.raw) = call[c].end
      BY <1>0, <1>10, AcceptKeepsOffsets
    <2>3. Len(row.raw) <= call[c].end /\ call[c].end \in Nat
      BY <1>0, <2>1, <2>2 DEF ResumeInv
    <2>4. call[c].end <= runner[row.attempt].made
      BY <2>1, <2>2 DEF ResumeInv, OffsetInv, ChunksAreCut
    <2>5. runner' = runner \/ runner' = [runner EXCEPT ![row.attempt].sent = call[c].end]
      BY <2>1, <2>2 DEF Told
    <2>6. \/ runner' = runner
          \/ \E s \in Nat : s = Len(row'.raw) /\ runner' = [runner EXCEPT ![row.attempt].sent = s]
      BY <2>2, <2>3, <2>5
    <2>7. /\ Len(row'.raw) \in Nat /\ Len(row.raw) <= Len(row'.raw)
          /\ Len(row'.raw) <= runner[row.attempt].made
      BY <2>2, <2>3, <2>4
    <2> QED BY <1>8, <2>1, <2>2, <2>6, <2>7
  <1>11. CASE Cancel
    <2>1. row'.raw = row.raw /\ row'.attempt = row.attempt /\ UNCHANGED <<runner, call, wiped>>
      BY <1>0, <1>11 DEF Cancel, TypeOK, Row
    <2>2. \A b \in Attempt : /\ runner[b].made <= runner'[b].made
                             /\ runner'[b].made \in Nat
                             /\ runner'[b].sent = runner[b].sent
      BY <1>0, <2>1
    <2> QED BY <1>1, <2>1, <2>2
  <1>12. ASSUME \/ Retry \/ Requeue
                \/ \E a \in Attempt : ReportFailure(a)
         PROVE  ResumeInv'
    <2>0. Restart /\ UNCHANGED call
      BY <1>12 DEF Retry, Requeue, ReportFailure
    <2>1. row'.attempt = row.attempt + 1 /\ row'.raw = <<>> /\ row.attempt + 1 \in Attempt
          /\ UNCHANGED call
      BY <1>0, <2>0 DEF Restart, Restarted, TypeOK, Row
    <2>8. \A b \in Attempt : runner'[b].made = runner[b].made /\ runner'[b].sent = runner[b].sent
      <3>1. CASE UNCHANGED runner
        BY <3>1
      <3>2. ASSUME NEW a \in Attempt, runner' = [runner EXCEPT ![a].done = TRUE]
            PROVE  \A b \in Attempt : /\ runner'[b].made = runner[b].made
                                      /\ runner'[b].sent = runner[b].sent
        BY <3>2, <1>0
      <3> QED BY <1>12, <3>1, <3>2 DEF Retry, Requeue, ReportFailure
    <2>2. Len(row'.raw) = 0
      BY <2>1
    <2>3. runner[row.attempt + 1].sent = 0
      <3>1. row.attempt \in Nat
        BY <1>0
      <3>2. row.attempt + 1 > row.attempt
        BY <3>1
      <3> QED BY <2>1, <3>2 DEF ResumeInv
    <2>4. \A a \in Attempt : a > row.attempt + 1 => runner[a].sent = 0
      <3> TAKE a \in Attempt
      <3> HAVE a > row.attempt + 1
      <3>1. a > row.attempt
        BY <1>0
      <3> QED BY <3>1 DEF ResumeInv
    <2>5. \A c \in Slot : call[c] # Idle =>
             /\ call[c].attempt <= row.attempt + 1
             /\ call[c].attempt = row.attempt + 1 => 0 <= call[c].end
      <3> TAKE c \in Slot
      <3> HAVE call[c] # Idle
      <3>1. call[c].attempt <= row.attempt /\ call[c].attempt \in Nat /\ call[c].end \in Nat
        BY <1>0 DEF ResumeInv
      <3>2. row.attempt \in Nat
        BY <1>0
      <3> QED BY <3>1, <3>2
    <2>6. AckedIsStored'
      BY <2>1, <2>2, <2>3, <2>8 DEF AckedIsStored
    <2>7. 0 <= runner[row.attempt + 1].made
      <3>1. runner[row.attempt + 1].made \in Nat
        BY <1>0, <2>1
      <3> QED BY <3>1
    <2> QED BY <1>0, <2>1, <2>2, <2>4, <2>5, <2>6, <2>7, <2>8 DEF ResumeInv
  <1>13. CASE Erase
    <2>1. row'.attempt = row.attempt /\ row'.raw = <<>> /\ wiped' = TRUE
          /\ UNCHANGED <<runner, call>>
      BY <1>0, <1>13 DEF Erase, TypeOK, Row
    <2>2. Len(row'.raw) = 0
      BY <2>1
    <2>3. \A c \in Slot : call[c] # Idle => 0 <= call[c].end
      BY <1>0
    <2>4. 0 <= runner[row.attempt].made
      <3>1. runner[row.attempt].made \in Nat
        BY <1>0
      <3> QED BY <3>1
    <2>5. AckedIsStored'
      BY <2>1 DEF AckedIsStored
    <2> QED BY <1>0, <2>1, <2>2, <2>3, <2>4, <2>5 DEF ResumeInv
  <1>14. CASE UNCHANGED vars
    <2>1. UNCHANGED <<row, runner, call, wiped>>
      BY <1>14 DEF vars
    <2>2. \A b \in Attempt : /\ runner[b].made <= runner'[b].made
                             /\ runner'[b].made \in Nat
                             /\ runner'[b].sent = runner[b].sent
      BY <1>0, <2>1
    <2> QED BY <1>1, <2>1, <2>2
  <1> QED
    BY <1>2, <1>3, <1>4, <1>5, <1>6, <1>7, <1>9, <1>10, <1>11, <1>12, <1>13, <1>14
       DEF Next, Serve

\* Nothing is acknowledged before the first chunk.
LEMMA ResumeInit == ASSUME Init PROVE ResumeInv
  <1>1. OffsetInv
    BY OffsetInit
  <1>2. 1 \in Attempt /\ row.attempt = 1 /\ row.raw = <<>> /\ Len(row.raw) = 0
    BY LogsAreBytes DEF Init, Attempt
  <1>3. \A a \in Attempt : runner[a].made = 0 /\ runner[a].sent = 0
    BY DEF Init
  <1>4. \A c \in Slot : call[c] = Idle
    BY DEF Init
  <1>5. AckedIsStored
    BY <1>2, <1>3 DEF AckedIsStored
  <1> QED BY <1>1, <1>2, <1>3, <1>4, <1>5 DEF ResumeInv

\* What a runner was told is stored stays stored unless a user erases it, for
\* every log, secret and number of lost answers.
THEOREM AckedHolds ==
    ASSUME ~Split, OneAtATime
    PROVE  Spec => []AckedIsStored
  <1>1. Init => ResumeInv
    BY ResumeInit
  <1>2. ResumeInv /\ [Next]_vars => ResumeInv'
    BY ResumeNext
  <1>3. ResumeInv => AckedIsStored
    BY DEF ResumeInv
  <1> QED BY <1>1, <1>2, <1>3, PTL DEF Spec

-----------------------------------------------------------------------------
(* TraceUpload implements ResumableLog.                                    *)

\* Every step appends to the stored log, erases it, begins an attempt or
\* leaves it alone.
LEMMA GrowNext ==
    ASSUME ~Split, OneAtATime, ResumeInv, [Next]_vars
    PROVE  [AppendOnly!Next]_(AppendOnly!vars)
  <1> DEFINE L == Len(row.raw)
             Quiet == row'.raw = row.raw /\ row'.attempt = row.attempt
  <1>0. /\ TypeOK /\ OffsetInv
        /\ row.attempt \in Attempt /\ L \in Nat
        /\ row \in Row
    BY ResumeTypes DEF ResumeInv, TypeOK
  <1>1. ASSUME Quiet
        PROVE  UNCHANGED AppendOnly!vars
    BY <1>1 DEF AppendOnly!vars
  <1>2. ASSUME NEW c \in Slot, Accept(c)
        PROVE  AppendOnly!Next
    <2>1. /\ row'.attempt = row.attempt /\ call[c].attempt = row.attempt
          /\ Len(row'.raw) = call[c].end
          /\ call[c] # Idle
      BY <1>0, <1>2, AcceptKeepsOffsets DEF Accept
    <2>2. L <= call[c].end /\ call[c].end \in Nat
      BY <1>0, <2>1, ChunkType DEF ResumeInv
    <2>3. /\ call[c].end <= runner[row.attempt].made
          /\ runner[row.attempt].made <= Len(Output[row.attempt])
      BY <1>0, <2>1 DEF OffsetInv, ChunksAreCut
    <2>4. runner[row.attempt].made \in Nat /\ Len(Output[row.attempt]) \in Nat
      BY <1>0, OutputType DEF TypeOK
    <2>5. Len(row'.raw) \in L .. Len(Output[row.attempt])
      BY <1>0, <2>1, <2>2, <2>3, <2>4
    <2>6. [a \in Attempt |-> Len(Output[a])][row.attempt] = Len(Output[row.attempt])
      BY <1>0
    <2>7. AppendOnly!Grow
      BY <2>1, <2>5, <2>6 DEF AppendOnly!Grow
    <2> QED BY <2>7 DEF AppendOnly!Next
  <1>3. ASSUME NEW a \in Attempt, Report(a)
        PROVE  Quiet
    BY <1>0, <1>3 DEF Report, Row
  <1>4. CASE Cancel
    <2>1. Quiet
      BY <1>0, <1>4 DEF Cancel, Row
    <2> QED BY <1>1, <2>1
  <1>5. ASSUME \/ Retry \/ Requeue
               \/ \E a \in Attempt : ReportFailure(a)
        PROVE  AppendOnly!Next
    <2>0. Restart
      BY <1>5 DEF Retry, Requeue, ReportFailure
    <2>1. row'.attempt = row.attempt + 1 /\ row.attempt + 1 \in Attempt /\ row'.raw = <<>>
      BY <1>0, <2>0 DEF Restart, Restarted, Row
    <2>2. Len(row'.raw) = 0
      BY <2>1
    <2>3. AppendOnly!NextAttempt
      BY <2>1, <2>2 DEF AppendOnly!NextAttempt
    <2> QED BY <2>3 DEF AppendOnly!Next
  <1>6. CASE Erase
    <2>1. row'.attempt = row.attempt /\ row'.raw = <<>>
      BY <1>0, <1>6 DEF Erase, Row
    <2>2. Len(row'.raw) = 0
      BY <2>1
    <2>3. AppendOnly!Erase
      BY <2>1, <2>2 DEF AppendOnly!Erase
    <2> QED BY <2>3 DEF AppendOnly!Next
  <1>7. ASSUME NEW a \in Attempt, Write(a)
        PROVE  Quiet
    BY <1>7 DEF Write
  <1>8. ASSUME NEW c \in Slot, NEW a \in Attempt, Patch(c, a)
        PROVE  Quiet
    BY <1>8 DEF Patch
  <1>9. ASSUME NEW c \in Slot,
               Load(c) \/ Forbid(c) \/ Refuse(c) \/ Timeout(c) \/ Drop(c)
        PROVE  Quiet
    BY <1>9 DEF Load, Forbid, Refuse, Timeout, Drop
  <1>10. CASE UNCHANGED vars
    BY <1>10 DEF vars, AppendOnly!vars
  <1> QED
    BY <1>1, <1>2, <1>3, <1>4, <1>5, <1>6, <1>7, <1>8, <1>9, <1>10 DEF Next, Serve

\* With one PATCH in flight at a time, the stored log of an attempt only grows,
\* up to the log its runner wrote, until a user erases it or retries the job.
THEOREM UploadRefinesLog ==
    ASSUME ~Split, OneAtATime
    PROVE  Spec => GrowsOnly
  <1>1. Init => ResumeInv
    BY ResumeInit
  <1>2. ResumeInv /\ [Next]_vars => ResumeInv'
    BY ResumeNext
  <1>3. Init => AppendOnly!Init
    BY DEF Init, AppendOnly!Init
  <1>4. ResumeInv /\ [Next]_vars => [AppendOnly!Next]_(AppendOnly!vars)
    BY GrowNext
  <1> QED BY <1>1, <1>2, <1>3, <1>4, PTL DEF Spec, GrowsOnly, AppendOnly!Spec
=============================================================================
