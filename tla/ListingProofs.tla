----------------------------- MODULE ListingProofs -----------------------------
(***************************************************************************)
(* What a walk through the pages of a list shows, for every handler, every *)
(* length of the list and every number of changes during the walk.         *)
(***************************************************************************)
EXTENDS Listings, SequenceTheorems, TLAPS

-----------------------------------------------------------------------------
(* Lists that are changed and cut.                                         *)

\* The lesser and the greater of two numbers.
LEMMA OfTwo ==
    ASSUME NEW a \in Int, NEW b \in Int
    PROVE  /\ Min({a, b}) = IF a <= b THEN a ELSE b
           /\ Max({a, b}) = IF a >= b THEN a ELSE b
  <1>1. \E x \in {a, b} : \A y \in {a, b} : x <= y
    OBVIOUS
  <1>2. \E x \in {a, b} : \A y \in {a, b} : x >= y
    OBVIOUS
  <1>3. Min({a, b}) \in {a, b} /\ \A y \in {a, b} : Min({a, b}) <= y
    BY <1>1 DEF Min
  <1>4. Max({a, b}) \in {a, b} /\ \A y \in {a, b} : Max({a, b}) >= y
    BY <1>2 DEF Max
  <1> QED BY <1>3, <1>4

\* Two lists in a row, of which the lengths are known.
LEMMA Joined ==
    ASSUME NEW S, NEW s \in Seq(S), NEW t \in Seq(S), NEW m, NEW n,
           Len(s) = m, Len(t) = n
    PROVE  /\ s \o t \in Seq(S) /\ Len(s \o t) = m + n
           /\ \A i \in 1 .. m + n : (s \o t)[i] = IF i <= m THEN s[i] ELSE t[i - m]
  <1>1. /\ s \o t \in Seq(S) /\ Len(s \o t) = Len(s) + Len(t)
        /\ \A i \in 1 .. Len(s) + Len(t) : (s \o t)[i] = IF i <= Len(s) THEN s[i] ELSE t[i - Len(s)]
    BY ConcatProperties
  <1> QED BY <1>1, Zenon

\* An insertion moves what is at the place and behind it.
LEMMA Inserted ==
    ASSUME NEW S, NEW s \in Seq(S), NEW p \in 1 .. Len(s) + 1, NEW e \in S
    PROVE  /\ InsertAt(s, p, e) \in Seq(S)
           /\ Len(InsertAt(s, p, e)) = Len(s) + 1
           /\ \A i \in 1 .. Len(s) + 1 :
                 InsertAt(s, p, e)[i] = IF i < p THEN s[i] ELSE IF i = p THEN e ELSE s[i - 1]
  <1> DEFINE a == SubSeq(s, 1, p - 1)
             b == SubSeq(s, p, Len(s))
  <1>1. Len(s) \in Nat /\ \A i \in 1 .. Len(s) : s[i] \in S
    BY LenProperties, ElementOfSeq
  <1>2. a \in Seq(S) /\ Len(a) = p - 1 /\ \A i \in 1 .. p - 1 : a[i] = s[i]
    <2>1. \A i \in 1 .. p - 1 : s[i] \in S
      BY <1>1
    <2> QED BY <1>1, <2>1, SubSeqProperties
  <1>3. /\ b \in Seq(S) /\ Len(b) = Len(s) - p + 1
        /\ \A i \in 1 .. Len(s) - p + 1 : b[i] = s[p + i - 1]
    <2>1. \A i \in p .. Len(s) : s[i] \in S
      BY <1>1
    <2> QED BY <1>1, <2>1, SubSeqProperties
  <1>4. <<e>> \in Seq(S) /\ Len(<<e>>) = 1 /\ <<e>>[1] = e
    OBVIOUS
  <1> HIDE DEF a, b
  <1>5. /\ a \o <<e>> \in Seq(S) /\ Len(a \o <<e>>) = p
        /\ \A i \in 1 .. p : (a \o <<e>>)[i] = IF i < p THEN s[i] ELSE e
    BY <1>2, <1>4, ConcatProperties
  <1>6. /\ (a \o <<e>>) \o b \in Seq(S)
        /\ Len((a \o <<e>>) \o b) = Len(s) + 1
        /\ \A i \in 1 .. Len(s) + 1 : ((a \o <<e>>) \o b)[i] =
              IF i <= p THEN (a \o <<e>>)[i] ELSE b[i - p]
    <2>1. p \in Nat /\ Len(s) - p + 1 \in Nat /\ p + (Len(s) - p + 1) = Len(s) + 1
      BY <1>1
    <2> DEFINE n == Len(s) - p + 1
    <2>2. /\ (a \o <<e>>) \o b \in Seq(S)
          /\ Len((a \o <<e>>) \o b) = p + n
          /\ \A i \in 1 .. p + n : ((a \o <<e>>) \o b)[i] =
                IF i <= p THEN (a \o <<e>>)[i] ELSE b[i - p]
      <3> DEFINE c == a \o <<e>>
      <3>1. c \in Seq(S) /\ b \in Seq(S) /\ Len(c) = p /\ Len(b) = n
        BY <1>3, <1>5, <2>1
      <3> HIDE DEF n, c
      <3>2. /\ c \o b \in Seq(S) /\ Len(c \o b) = p + n
            /\ \A i \in 1 .. p + n : (c \o b)[i] = IF i <= p THEN c[i] ELSE b[i - p]
        BY <3>1, Joined
      <3> QED BY <3>2 DEF c
    <2> QED BY <2>1, <2>2
  <1>7. InsertAt(s, p, e) = (a \o <<e>>) \o b
    BY DEF InsertAt, a, b
  <1>8. \A i \in p + 1 .. Len(s) + 1 : b[i - p] = s[i - 1]
    BY <1>1, <1>3
  <1> QED BY <1>1, <1>5, <1>6, <1>7, <1>8

\* A removal moves what is behind the place.
LEMMA Removed ==
    ASSUME NEW S, NEW s \in Seq(S), NEW p \in 1 .. Len(s)
    PROVE  /\ RemoveAt(s, p) \in Seq(S)
           /\ Len(RemoveAt(s, p)) = Len(s) - 1
           /\ \A i \in 1 .. Len(s) - 1 :
                 RemoveAt(s, p)[i] = IF i < p THEN s[i] ELSE s[i + 1]
  <1> DEFINE a == SubSeq(s, 1, p - 1)
             b == SubSeq(s, p + 1, Len(s))
  <1>1. Len(s) \in Nat /\ \A i \in 1 .. Len(s) : s[i] \in S
    BY LenProperties, ElementOfSeq
  <1>2. a \in Seq(S) /\ Len(a) = p - 1 /\ \A i \in 1 .. p - 1 : a[i] = s[i]
    <2>1. \A i \in 1 .. p - 1 : s[i] \in S
      BY <1>1
    <2> QED BY <1>1, <2>1, SubSeqProperties
  <1>3. /\ b \in Seq(S) /\ Len(b) = Len(s) - p
        /\ \A i \in 1 .. Len(s) - p : b[i] = s[p + i]
    <2>1. \A i \in p + 1 .. Len(s) : s[i] \in S
      BY <1>1
    <2>2. /\ b \in Seq(S) /\ Len(b) = IF p + 1 <= Len(s) THEN Len(s) - (p + 1) + 1 ELSE 0
          /\ \A i \in 1 .. Len(s) - (p + 1) + 1 : b[i] = s[p + 1 + i - 1]
      BY <1>1, <2>1, SubSeqProperties
    <2> HIDE DEF b
    <2> QED BY <1>1, <2>2
  <1> HIDE DEF a, b
  <1>4. /\ a \o b \in Seq(S) /\ Len(a \o b) = Len(s) - 1
        /\ \A i \in 1 .. Len(s) - 1 : (a \o b)[i] = IF i <= p - 1 THEN a[i] ELSE b[i - (p - 1)]
    <2>1. p - 1 \in Nat /\ Len(s) - p \in Nat /\ (p - 1) + (Len(s) - p) = Len(s) - 1
      BY <1>1
    <2> DEFINE m == p - 1
               n == Len(s) - p
    <2>2. /\ a \o b \in Seq(S) /\ Len(a \o b) = m + n
          /\ \A i \in 1 .. m + n : (a \o b)[i] = IF i <= m THEN a[i] ELSE b[i - m]
      <3>1. m \in Nat /\ n \in Nat /\ Len(a) = m /\ Len(b) = n
        BY <1>2, <1>3, <2>1
      <3> HIDE DEF m, n
      <3>2. a \in Seq(S) /\ b \in Seq(S)
        BY <1>2, <1>3
      <3> QED BY <3>1, <3>2, Joined
    <2> QED BY <2>1, <2>2
  <1>5. RemoveAt(s, p) = a \o b
    BY DEF RemoveAt, a, b
  <1>6. \A i \in p .. Len(s) - 1 : b[i - (p - 1)] = s[i + 1]
    BY <1>1, <1>3
  <1> QED BY <1>1, <1>2, <1>4, <1>5, <1>6

\* What a request with these bounds reads.
LEMMA CutIs ==
    ASSUME NEW S, list \in Seq(S), NEW first \in Nat \ {0}, NEW last \in Nat
    PROVE  /\ Cut(first, last) \in Seq(S)
           /\ LET end == IF last <= Len(list) THEN last ELSE Len(list) IN
              /\ Len(Cut(first, last)) = IF first <= end THEN end - first + 1 ELSE 0
              /\ \A i \in 1 .. end - first + 1 : Cut(first, last)[i] = list[first + i - 1]
  <1> DEFINE end == IF last <= Len(list) THEN last ELSE Len(list)
  <1>1. Len(list) \in Nat /\ \A i \in 1 .. Len(list) : list[i] \in S
    BY LenProperties, ElementOfSeq
  <1>2. Cut(first, last) = SubSeq(list, first, end)
    <2>1. Min({last, Len(list)}) = end
      BY <1>1, OfTwo
    <2> HIDE DEF end
    <2> QED BY <2>1 DEF Cut
  <1>3. end \in Nat /\ end <= Len(list)
    BY <1>1
  <1> HIDE DEF end
  <1>4. \A i \in first .. end : list[i] \in S
    BY <1>1, <1>3
  <1>5. /\ SubSeq(list, first, end) \in Seq(S)
        /\ Len(SubSeq(list, first, end)) = IF first <= end THEN end - first + 1 ELSE 0
        /\ \A i \in 1 .. end - first + 1 : SubSeq(list, first, end)[i] = list[first + i - 1]
    BY <1>3, <1>4, SubSeqProperties
  <1> QED BY <1>2, <1>5 DEF end

-----------------------------------------------------------------------------
(* The invariant.                                                          *)

Distinct(s) == \A i, j \in DOMAIN s : s[i] = s[j] => i = j
IsIn(r, s) == \E i \in DOMAIN s : s[i] = r

Backward == listing.ends = "backward"
Cursor == listing.ends \in {"forward", "backward"}

\* The place up to which a walk has read, and the places it has still to read.
Offset == IF Cursor THEN walk.page ELSE (walk.page - 1) * perPage
Ahead(i) == IF Backward THEN i <= walk.page ELSE i > Offset

\* The movements that make a walk miss a row, and those that show one twice.
Slid == IF Backward THEN grew ELSE shrank
Doubled == IF Backward THEN shrank ELSE grew

\* A row is in the list once, and what was seen has been in it.
RowsAreOnce ==
    /\ Distinct(list)
    /\ \A i \in DOMAIN list : list[i] <= lastId
    /\ \A i \in DOMAIN walk.seen : walk.seen[i] <= lastId

\* What has been there since the walk began is still there, pages count from
\* one, and only a list with a count of its own waits for it.
WalkFits ==
    /\ \A r \in walk.there : IsIn(r, list)
    /\ ~Cursor => walk.page > 0
    /\ walk.at = "count" => TwoReads

\* A row that has not been seen is ahead, and in the pages that were counted.
NoneIsLost ==
    walk.at # "end" /\ ~raced /\ ~Slid =>
        \A r \in walk.there :
            \/ IsIn(r, walk.seen)
            \/ \E i \in DOMAIN list : /\ list[i] = r
                                      /\ Ahead(i)
                                      /\ walk.at = "page" /\ TwoReads => i <= walk.total

\* No row was seen twice, and none that was seen is ahead.
NoneIsTwice ==
    ~Doubled =>
        /\ Distinct(walk.seen)
        /\ walk.at # "end" => \A i \in DOMAIN list : Ahead(i) => ~IsIn(list[i], walk.seen)

ListInv == ListTypeOK /\ RowsAreOnce /\ WalkFits /\ NoneIsLost /\ NoneIsTwice /\ MissesNone

\* A walk starts before all rows, or behind them.
LEMMA ListStarts == ListInit => ListInv
  <1> SUFFICES ASSUME ListInit
               PROVE  ListInv
    OBVIOUS
  <1>1. lastId \in Nat /\ lastId <= MaxRowId /\ MaxRowId \in Nat /\ MaxChange \in Nat
    BY ListBounds DEF ListInit
  <1>2. /\ list \in Seq(1 .. MaxRowId) /\ DOMAIN list = 1 .. lastId
        /\ \A i \in 1 .. lastId : list[i] = i
    <2>1. list = [i \in 1 .. lastId |-> i]
      BY DEF ListInit
    <2>2. [i \in 1 .. lastId |-> i] \in Seq(1 .. MaxRowId)
      <3>1. \A i \in 1 .. lastId : i \in 1 .. MaxRowId
        BY <1>1
      <3> QED BY <1>1, <3>1, IsASeq
    <2> QED BY <2>1, <2>2
  <1>3. /\ walk.at \in {"count", "page"} /\ (walk.at = "count" <=> TwoReads)
        /\ walk.page = CASE listing.ends = "forward" -> 0
                         [] listing.ends = "backward" -> MaxRowId
                         [] OTHER -> 1
        /\ walk.total = 0 /\ walk.seen = <<>> /\ walk.there = 1 .. lastId
        /\ walk = [at |-> walk.at, page |-> walk.page, total |-> walk.total,
                   seen |-> walk.seen, there |-> walk.there]
    BY DEF ListInit
  <1>4. walk.page \in Nat /\ perPage \in {1, 2}
    BY <1>1, <1>3 DEF ListInit
  <1>5. walk \in Walk
    <2>1. walk.seen \in Seq(1 .. MaxRowId)
      BY <1>3
    <2>2. walk.there \in SUBSET (1 .. MaxRowId)
      BY <1>1, <1>3
    <2>3. walk.at \in {"count", "page", "end"} /\ walk.total \in Nat
      BY <1>3
    <2> HIDE DEF ListInit
    <2> QED BY <1>3, <1>4, <2>1, <2>2, <2>3 DEF Walk
  <1>6. ListTypeOK
    <2>1. /\ changes = 0 /\ {grew, shrank, raced} \subseteq BOOLEAN
          /\ listing \in Listings /\ perPage \in {1, 2} /\ lastId \in 0 .. MaxRowId
      BY DEF ListInit
    <2> HIDE DEF ListInit
    <2> QED BY <1>1, <1>2, <1>5, <2>1 DEF ListTypeOK
  <1>7. DOMAIN walk.seen = {}
    BY <1>3
  <1>8. RowsAreOnce /\ WalkFits /\ MissesNone
    BY <1>1, <1>2, <1>3, <1>7 DEF RowsAreOnce, Distinct, WalkFits, IsIn, Cursor, MissesNone
  <1>9. NoneIsTwice
    BY <1>7 DEF NoneIsTwice, Distinct, IsIn
  <1>10. NoneIsLost
    <2>1. ASSUME NEW r \in walk.there
          PROVE  \E i \in DOMAIN list : /\ list[i] = r
                                        /\ Ahead(i)
                                        /\ walk.at = "page" /\ TwoReads => i <= walk.total
      <3>1. r \in 1 .. lastId /\ list[r] = r
        BY <1>2, <1>3, <2>1
      <3>2. Ahead(r)
        BY <1>1, <1>3, <1>4, <3>1 DEF Ahead, Backward, Offset, Cursor
      <3>3. ~(walk.at = "page" /\ TwoReads)
        BY <1>3
      <3> QED BY <1>2, <3>1, <3>2, <3>3
    <2> QED BY <2>1 DEF NoneIsLost
  <1> QED BY <1>6, <1>8, <1>9, <1>10 DEF ListInv

-----------------------------------------------------------------------------
(* Changes of the list.                                                    *)

\* What a change leaves of a walk that is not over.
LEMMA ChangeLeaves ==
    ASSUME ListInv, NEW rest, Change(rest)
    PROVE  /\ walk.at # "end" /\ walk' \in Walk /\ changes' \in 0 .. MaxChange
           /\ UNCHANGED <<listing, perPage>>
           /\ walk'.at = walk.at /\ walk'.page = walk.page
           /\ walk'.total = walk.total /\ walk'.seen = walk.seen
           /\ walk'.there = walk.there \cap rest
  <1>1. /\ walk \in Walk /\ changes \in 0 .. MaxChange
        /\ MaxChange \in Nat
    BY ListBounds DEF ListInv, ListTypeOK
  <1>2. /\ walk.at # "end" /\ changes < MaxChange
        /\ changes' = changes + 1
        /\ walk' = [walk EXCEPT !.there = walk.there \cap rest]
        /\ UNCHANGED <<listing, perPage>>
    BY DEF Change
  <1>3. /\ walk' \in Walk
        /\ walk'.at = walk.at /\ walk'.page = walk.page
        /\ walk'.total = walk.total /\ walk'.seen = walk.seen
        /\ walk'.there = walk.there \cap rest
    BY <1>1, <1>2 DEF Walk
  <1>4. changes' \in 0 .. MaxChange
    BY <1>1, <1>2
  <1> QED BY <1>2, <1>3, <1>4

\* A row that comes in has an id of its own.  Where it does not come in last, it
\* moves those behind it away from a walk that reads forward.
LEMMA RowComesKeeps ==
    ASSUME ListInv, NEW P, P \subseteq 1 .. Len(list) + 1, RowComes(P)
    PROVE  ListInv'
  <1> DEFINE Row == 1 .. MaxRowId
             n == Len(list)
             id == lastId + 1
  <1>1. PICK place \in P :
            /\ lastId < MaxRowId /\ lastId' = lastId + 1
            /\ list' = InsertAt(list, place, lastId')
            /\ grew' = (grew \/ place # Len(list'))
            /\ raced' = (raced \/ (place # Len(list') /\ TwoReads /\ walk.at = "page"))
            /\ Change(Range(list)) /\ UNCHANGED shrank
    BY DEF RowComes
  <1>2. list \in Seq(Row) /\ n \in Nat /\ DOMAIN list = 1 .. n /\ lastId \in Nat /\ MaxRowId \in Nat
    BY ListBounds, LenProperties DEF ListInv, ListTypeOK
  <1>3. id \in Row /\ lastId' = id /\ place \in 1 .. n + 1
    BY <1>1, <1>2
  <1>4. /\ list' \in Seq(Row) /\ Len(list') = n + 1 /\ DOMAIN list' = 1 .. n + 1
        /\ \A i \in 1 .. n + 1 :
              list'[i] = IF i < place THEN list[i] ELSE IF i = place THEN id ELSE list[i - 1]
    <2>1. list' = InsertAt(list, place, id)
      BY <1>1
    <2> HIDE DEF id, Row
    <2>2. /\ list' \in Seq(Row) /\ Len(list') = n + 1
          /\ \A i \in 1 .. n + 1 :
                list'[i] = IF i < place THEN list[i] ELSE IF i = place THEN id ELSE list[i - 1]
      <3> DEFINE l == InsertAt(list, place, id)
      <3>1. list \in Seq(Row) /\ place \in 1 .. Len(list) + 1 /\ id \in Row
        BY <1>2, <1>3
      <3>2. /\ l \in Seq(Row) /\ Len(l) = Len(list) + 1
            /\ \A i \in 1 .. Len(list) + 1 :
                  l[i] = IF i < place THEN list[i] ELSE IF i = place THEN id ELSE list[i - 1]
        BY <3>1, Inserted
      <3>3. list' = l
        BY <2>1
      <3> HIDE DEF l
      <3> QED BY <3>2, <3>3, Zenon
    <2> QED BY <2>2, LenProperties
  <1>5. /\ walk.at # "end" /\ walk' \in Walk /\ changes' \in 0 .. MaxChange
        /\ UNCHANGED <<listing, perPage>>
        /\ walk'.at = walk.at /\ walk'.page = walk.page
        /\ walk'.total = walk.total /\ walk'.seen = walk.seen
        /\ walk'.there = walk.there \cap Range(list)
    BY <1>1, ChangeLeaves
  <1>6. /\ grew' = (grew \/ place # n + 1) /\ shrank' = shrank
        /\ raced' = (raced \/ (place # n + 1 /\ TwoReads /\ walk.at = "page"))
    BY <1>1, <1>4
  <1>7. ListTypeOK'
    BY <1>3, <1>4, <1>5, <1>6 DEF ListInv, ListTypeOK
  <1>8. RowsAreOnce'
    <2>1. Distinct(list')
      <3>1. \A i \in 1 .. n : list[i] # id
        BY <1>2, ElementOfSeq DEF ListInv, RowsAreOnce
      <3>2. \A i, j \in 1 .. n : list[i] = list[j] => i = j
        BY <1>2 DEF ListInv, RowsAreOnce, Distinct
      <3>3. ASSUME NEW i \in 1 .. n + 1, NEW j \in 1 .. n + 1, list'[i] = list'[j]
            PROVE  i = j
        <4> HIDE DEF id, n
        <4>1. /\ i < place => i \in 1 .. n /\ list'[i] = list[i]
              /\ i = place => list'[i] = id
              /\ i > place => i - 1 \in 1 .. n /\ list'[i] = list[i - 1]
          BY <1>2, <1>3, <1>4
        <4>2. /\ j < place => j \in 1 .. n /\ list'[j] = list[j]
              /\ j = place => list'[j] = id
              /\ j > place => j - 1 \in 1 .. n /\ list'[j] = list[j - 1]
          BY <1>2, <1>3, <1>4
        <4>3. place \in Int /\ i \in Int /\ j \in Int
          BY <1>3
        <4> QED BY <3>1, <3>2, <3>3, <4>1, <4>2, <4>3
      <3> QED BY <1>4, <3>3 DEF Distinct
    <2>2. \A i \in DOMAIN list' : list'[i] <= lastId'
      <3>1. \A i \in 1 .. n : list[i] <= lastId /\ list[i] \in Nat
        BY <1>2, ElementOfSeq DEF ListInv, RowsAreOnce
      <3>2. ASSUME NEW i \in 1 .. n + 1
            PROVE  list'[i] <= id
        <4>1. /\ i < place => i \in 1 .. n /\ list'[i] = list[i]
              /\ i = place => list'[i] = id
              /\ i > place => i - 1 \in 1 .. n /\ list'[i] = list[i - 1]
          <5> HIDE DEF id, n
          <5> QED BY <1>2, <1>3, <1>4
        <4> QED BY <1>2, <1>3, <3>1, <4>1
      <3> QED BY <1>3, <1>4, <3>2
    <2>3. \A i \in DOMAIN walk'.seen : walk'.seen[i] <= lastId'
      <3>1. \A i \in DOMAIN walk.seen : walk.seen[i] <= lastId /\ walk.seen[i] \in Nat
        <4>1. walk.seen \in Seq(Row)
          BY DEF ListInv, ListTypeOK, Walk
        <4>2. DOMAIN walk.seen = 1 .. Len(walk.seen)
          BY <4>1, LenProperties
        <4>3. \A i \in DOMAIN walk.seen : walk.seen[i] \in Row
          BY <4>1, <4>2, ElementOfSeq
        <4> QED BY <1>2, <4>3 DEF ListInv, RowsAreOnce
      <3> QED BY <1>2, <1>3, <1>5, <3>1
    <2> QED BY <2>1, <2>2, <2>3 DEF RowsAreOnce
  <1>9. ASSUME NEW i \in 1 .. n
        PROVE  /\ i < place => list'[i] = list[i]
               /\ i >= place => list'[i + 1] = list[i] /\ i + 1 \in 1 .. n + 1
    BY <1>2, <1>3, <1>4
  <1>10. WalkFits'
    <2>1. ASSUME NEW r \in walk'.there
          PROVE  IsIn(r, list')
      <3>1. PICK i \in 1 .. n : list[i] = r
        BY <1>2, <1>5, <2>1 DEF ListInv, WalkFits, IsIn
      <3>2. i \in 1 .. n + 1 /\ i + 1 \in 1 .. n + 1 /\ (i < place \/ i >= place)
        BY <1>2, <1>3
      <3> QED BY <1>4, <1>9, <3>1, <3>2 DEF IsIn
    <2> QED BY <1>5, <2>1 DEF ListInv, WalkFits, Cursor, TwoReads
  <1>11. NoneIsLost'
    <2>1. SUFFICES ASSUME ~raced', ~Slid', NEW r \in walk'.there, ~IsIn(r, walk'.seen)
                   PROVE  \E i \in DOMAIN list' : /\ list'[i] = r
                                                  /\ Ahead(i)'
                                                  /\ (walk.at = "page" /\ TwoReads => i <= walk.total)'
      BY DEF NoneIsLost
    <2>2. ~raced /\ ~Slid /\ r \in walk.there /\ ~IsIn(r, walk.seen)
      BY <1>5, <1>6, <2>1 DEF Slid, Backward, IsIn
    <2>3. PICK i \in 1 .. n : /\ list[i] = r
                              /\ Ahead(i)
                              /\ walk.at = "page" /\ TwoReads => i <= walk.total
      BY <1>2, <1>5, <2>2 DEF ListInv, NoneIsLost
    <2>4. CASE i < place
      <3>1. Ahead(i)'
        BY <1>5, <2>3 DEF Ahead, Backward, Offset, Cursor
      <3>2. i \in DOMAIN list' /\ list'[i] = r
        BY <1>2, <1>4, <1>9, <2>3, <2>4
      <3>3. (walk.at = "page" /\ TwoReads => i <= walk.total)'
        BY <1>5, <2>3 DEF TwoReads
      <3> QED BY <3>1, <3>2, <3>3
    <2>5. CASE i >= place
      <3>1. ~Backward /\ ~(TwoReads /\ walk.at = "page")
        <4>1. place # n + 1
          BY <1>2, <1>3, <2>5
        <4> HIDE DEF n
        <4> QED BY <1>5, <1>6, <2>1, <4>1 DEF Slid, Backward
      <3>2. Offset \in Int
        BY <1>5 DEF ListInv, ListTypeOK, Walk, Offset
      <3>3. Ahead(i + 1)'
        BY <1>5, <2>3, <3>1, <3>2 DEF Ahead, Backward, Offset, Cursor
      <3> QED BY <1>4, <1>5, <1>9, <2>3, <2>5, <3>1, <3>3 DEF TwoReads
    <2> QED BY <1>2, <1>3, <2>4, <2>5
  <1>12. NoneIsTwice'
    <2>1. SUFFICES ASSUME ~Doubled'
                   PROVE  /\ Distinct(walk.seen)
                          /\ \A i \in 1 .. n + 1 : Ahead(i)' => ~IsIn(list'[i], walk.seen)
      BY <1>4, <1>5 DEF NoneIsTwice
    <2>2. ~Doubled
      BY <1>5, <1>6, <2>1 DEF Doubled, Backward
    <2>3. /\ Distinct(walk.seen)
          /\ \A i \in 1 .. n : Ahead(i) => ~IsIn(list[i], walk.seen)
      BY <1>2, <1>5, <2>2 DEF ListInv, NoneIsTwice
    <2>4. ~IsIn(id, walk.seen)
      <3>1. \A i \in DOMAIN walk.seen : walk.seen[i] <= lastId
        BY DEF ListInv, RowsAreOnce
      <3> QED BY <1>2, <3>1 DEF IsIn
    <2>5. ASSUME NEW i \in 1 .. n + 1, Ahead(i)'
          PROVE  ~IsIn(list'[i], walk.seen)
      <3>1. Ahead(i)
        BY <1>5, <2>5 DEF Ahead, Backward, Offset, Cursor
      <3>2. CASE i < place
        BY <1>2, <1>3, <1>4, <2>3, <3>1, <3>2
      <3>3. CASE i = place
        BY <1>4, <2>4, <3>3
      <3>4. CASE i > place
        <4>1. Backward
          <5>1. place # n + 1
            BY <1>2, <1>3, <3>4
          <5> HIDE DEF n
          <5> QED BY <1>5, <1>6, <2>1, <5>1 DEF Doubled, Backward
        <4>2. i - 1 \in 1 .. n /\ Ahead(i - 1)
          BY <1>2, <1>3, <3>1, <3>4, <4>1 DEF Ahead, ListInv, ListTypeOK, Walk
        <4> QED BY <1>4, <2>3, <3>4, <4>2
      <3> QED BY <1>2, <1>3, <3>2, <3>3, <3>4
    <2> QED BY <2>3, <2>5
  <1>13. MissesNone'
    BY <1>5 DEF MissesNone
  <1> QED BY <1>7, <1>8, <1>10, <1>11, <1>12, <1>13 DEF ListInv

\* A row that goes moves those behind it, unless it was the last.
LEMMA RowGoesKeeps == ListInv /\ RowGoes => ListInv'
  <1> SUFFICES ASSUME ListInv, RowGoes
               PROVE  ListInv'
    OBVIOUS
  <1> DEFINE Row == 1 .. MaxRowId
             n == Len(list)
  <1>1. PICK place \in 1 .. n :
            /\ list' = RemoveAt(list, place)
            /\ shrank' = (shrank \/ place # n)
            /\ Change(Range(list) \ {list[place]}) /\ UNCHANGED <<lastId, grew, raced>>
    BY DEF RowGoes
  <1>2. list \in Seq(Row) /\ n \in Nat /\ DOMAIN list = 1 .. n
    BY LenProperties DEF ListInv, ListTypeOK
  <1>3. /\ list' \in Seq(Row) /\ Len(list') = n - 1 /\ DOMAIN list' = 1 .. n - 1
        /\ \A i \in 1 .. n - 1 : list'[i] = IF i < place THEN list[i] ELSE list[i + 1]
    <2>1. /\ list' \in Seq(Row) /\ Len(list') = n - 1
          /\ \A i \in 1 .. n - 1 : list'[i] = IF i < place THEN list[i] ELSE list[i + 1]
      <3> DEFINE l == RemoveAt(list, place)
      <3>1. /\ l \in Seq(Row) /\ Len(l) = Len(list) - 1
            /\ \A i \in 1 .. Len(list) - 1 : l[i] = IF i < place THEN list[i] ELSE list[i + 1]
        BY <1>2, Removed
      <3>2. list' = l
        BY <1>1
      <3> HIDE DEF l
      <3> QED BY <3>1, <3>2, Zenon
    <2> QED BY <2>1, LenProperties
  <1>4. /\ walk.at # "end" /\ walk' \in Walk /\ changes' \in 0 .. MaxChange
        /\ UNCHANGED <<listing, perPage>>
        /\ walk'.at = walk.at /\ walk'.page = walk.page
        /\ walk'.total = walk.total /\ walk'.seen = walk.seen
        /\ walk'.there = walk.there \cap (Range(list) \ {list[place]})
    BY <1>1, ChangeLeaves
  <1> HIDE DEF n
  <1>5. ListTypeOK'
    <2>1. shrank' \in BOOLEAN
      BY <1>1
    <2> QED BY <1>1, <1>3, <1>4, <2>1 DEF ListInv, ListTypeOK
  <1>6. ASSUME NEW i \in 1 .. n - 1
        PROVE  \E k \in 1 .. n : list'[i] = list[k] /\ k \in {i, i + 1} /\ (k = i <=> i < place)
    <2>1. i \in 1 .. n /\ i + 1 \in 1 .. n
      BY <1>2
    <2> QED BY <1>2, <1>3, <2>1
  <1>7. ASSUME NEW i \in 1 .. n, i # place
        PROVE  /\ i < place => i \in 1 .. n - 1 /\ list'[i] = list[i]
               /\ i > place => i - 1 \in 1 .. n - 1 /\ list'[i - 1] = list[i]
    <2>1. i < place => i \in 1 .. n - 1
      BY <1>2
    <2>2. i > place => i - 1 \in 1 .. n - 1 /\ ~(i - 1 < place) /\ (i - 1) + 1 = i
      BY <1>2
    <2> QED BY <1>3, <2>1, <2>2
  <1>8. RowsAreOnce'
    <2>1. Distinct(list')
      <3>1. SUFFICES ASSUME NEW i \in 1 .. n - 1, NEW j \in 1 .. n - 1, list'[i] = list'[j]
                     PROVE  i = j
        BY <1>3 DEF Distinct
      <3>2. PICK k \in 1 .. n : list'[i] = list[k] /\ k \in {i, i + 1} /\ (k = i <=> i < place)
        BY <1>6
      <3>3. PICK l \in 1 .. n : list'[j] = list[l] /\ l \in {j, j + 1} /\ (l = j <=> j < place)
        BY <1>6
      <3>4. k = l
        BY <1>2, <3>1, <3>2, <3>3 DEF ListInv, RowsAreOnce, Distinct
      <3> QED BY <1>2, <3>2, <3>3, <3>4
    <2>2. \A i \in DOMAIN list' : list'[i] <= lastId'
      BY <1>1, <1>2, <1>3, <1>6 DEF ListInv, RowsAreOnce
    <2> QED BY <1>1, <1>4, <2>1, <2>2 DEF ListInv, RowsAreOnce
  <1>9. ASSUME NEW r \in walk'.there
        PROVE  r \in walk.there /\ r # list[place]
    BY <1>4, <1>9
  <1>10. WalkFits'
    <2>1. ASSUME NEW r \in walk'.there
          PROVE  IsIn(r, list')
      <3>1. PICK i \in 1 .. n : list[i] = r
        BY <1>2, <1>9, <2>1 DEF ListInv, WalkFits, IsIn
      <3>2. i < place \/ i > place
        BY <1>2, <1>9, <2>1, <3>1
      <3> QED BY <1>3, <1>7, <3>1, <3>2 DEF IsIn
    <2> QED BY <1>4, <2>1 DEF ListInv, WalkFits, Cursor, TwoReads
  <1>11. NoneIsLost'
    <2>1. SUFFICES ASSUME ~raced', ~Slid', NEW r \in walk'.there, ~IsIn(r, walk'.seen)
                   PROVE  \E i \in DOMAIN list' : /\ list'[i] = r
                                                  /\ Ahead(i)'
                                                  /\ (walk.at = "page" /\ TwoReads => i <= walk.total)'
      BY DEF NoneIsLost
    <2>2. ~raced /\ ~Slid /\ r \in walk.there /\ ~IsIn(r, walk.seen)
      BY <1>1, <1>4, <1>9, <2>1 DEF Slid, Backward, IsIn
    <2>3. PICK i \in 1 .. n : /\ list[i] = r
                              /\ Ahead(i)
                              /\ walk.at = "page" /\ TwoReads => i <= walk.total
      BY <1>2, <1>4, <2>2 DEF ListInv, NoneIsLost
    <2>4. i # place
      BY <1>9, <2>1, <2>3
    <2>5. CASE i < place
      <3>1. Ahead(i)'
        BY <1>4, <2>3 DEF Ahead, Backward, Offset, Cursor
      <3>2. i \in DOMAIN list' /\ list'[i] = r
        BY <1>3, <1>7, <2>3, <2>4, <2>5
      <3>3. (walk.at = "page" /\ TwoReads => i <= walk.total)'
        BY <1>4, <2>3 DEF TwoReads
      <3> QED BY <3>1, <3>2, <3>3
    <2>6. CASE i > place
      <3>1. Backward
        <4>1. place # n
          BY <1>2, <2>6
        <4> QED BY <1>1, <1>4, <2>1, <4>1 DEF Slid, Backward
      <3>2. Ahead(i - 1)' /\ ~TwoReads'
        <4>1. walk.page \in Nat
          BY DEF ListInv, ListTypeOK, Walk
        <4> QED BY <1>2, <1>4, <2>3, <3>1, <4>1 DEF Ahead, Backward, TwoReads
      <3>3. i - 1 \in DOMAIN list' /\ list'[i - 1] = r
        BY <1>3, <1>7, <2>3, <2>4, <2>6
      <3> QED BY <3>2, <3>3
    <2> QED BY <1>2, <2>4, <2>5, <2>6
  <1>12. NoneIsTwice'
    <2>1. SUFFICES ASSUME ~Doubled'
                   PROVE  /\ Distinct(walk.seen)
                          /\ \A i \in 1 .. n - 1 : Ahead(i)' => ~IsIn(list'[i], walk.seen)
      BY <1>3, <1>4 DEF NoneIsTwice
    <2>2. ~Doubled
      BY <1>1, <1>4, <2>1 DEF Doubled, Backward
    <2>3. /\ Distinct(walk.seen)
          /\ \A i \in 1 .. n : Ahead(i) => ~IsIn(list[i], walk.seen)
      BY <1>2, <1>4, <2>2 DEF ListInv, NoneIsTwice
    <2>4. ASSUME NEW i \in 1 .. n - 1, Ahead(i)'
          PROVE  ~IsIn(list'[i], walk.seen)
      <3>1. Ahead(i)
        BY <1>4, <2>4 DEF Ahead, Backward, Offset, Cursor
      <3>2. PICK k \in 1 .. n : list'[i] = list[k] /\ k \in {i, i + 1} /\ (k = i <=> i < place)
        BY <1>6
      <3>3. Ahead(k)
        <4>1. CASE Backward
          <5>1. place = n
            BY <1>1, <1>4, <2>1, <4>1 DEF Doubled, Backward
          <5>2. k = i
            BY <1>2, <3>2, <5>1
          <5> QED BY <3>1, <5>2
        <4>2. CASE ~Backward
          <5>1. Offset \in Int
            BY DEF ListInv, ListTypeOK, Walk, Offset
          <5> QED BY <1>2, <3>1, <3>2, <4>2, <5>1 DEF Ahead
        <4> QED BY <4>1, <4>2
      <3> QED BY <2>3, <3>2, <3>3
    <2> QED BY <2>3, <2>4
  <1>13. MissesNone'
    BY <1>4 DEF MissesNone
  <1> QED BY <1>5, <1>8, <1>10, <1>11, <1>12, <1>13 DEF ListInv

\* Where a row goes is a place in the list or behind it.
LEMMA PlacesAre ==
    ASSUME NEW n \in Nat
    PROVE  Places(n) \subseteq 1 .. n + 1
  BY DEF Places

\* A row that moves is moved against every walk.
LEMMA RowMovesKeeps == ListInv /\ RowMoves => ListInv'
  <1> SUFFICES ASSUME ListInv, RowMoves
               PROVE  ListInv'
    OBVIOUS
  <1> DEFINE Row == 1 .. MaxRowId
             n == Len(list)
  <1>1. list \in Seq(Row) /\ n \in Nat /\ DOMAIN list = 1 .. n
    BY LenProperties DEF ListInv, ListTypeOK
  <1>2. PICK from \in 1 .. n, place \in Places(n - 1) :
            /\ list' = InsertAt(RemoveAt(list, from), place, list[from])
            /\ grew' = TRUE /\ shrank' = TRUE
            /\ Change(Range(list)) /\ UNCHANGED <<lastId, raced>>
    BY DEF RowMoves
  <1> DEFINE rest == RemoveAt(list, from)
  <1>3. /\ rest \in Seq(Row) /\ Len(rest) = n - 1
        /\ \A i \in 1 .. n - 1 : rest[i] = IF i < from THEN list[i] ELSE list[i + 1]
    BY <1>1, Removed
  <1>4. place \in 1 .. n
    <2>1. n - 1 \in Nat /\ (n - 1) + 1 = n
      BY <1>1, <1>2
    <2> QED BY <1>2, <2>1, PlacesAre
  <1>5. /\ list' \in Seq(Row) /\ Len(list') = n /\ DOMAIN list' = 1 .. n
        /\ \A i \in 1 .. n : list'[i] =
              IF i < place THEN rest[i] ELSE IF i = place THEN list[from] ELSE rest[i - 1]
    <2> DEFINE l == InsertAt(rest, place, list[from])
    <2>1. place \in 1 .. Len(rest) + 1 /\ Len(rest) + 1 = n /\ list[from] \in Row
      <3>1. list[from] \in Row
        BY <1>1, <1>2, ElementOfSeq
      <3>2. Len(rest) + 1 = n
        <4> HIDE DEF rest, n
        <4> QED BY <1>1, <1>3
      <3> HIDE DEF rest
      <3> QED BY <1>4, <3>1, <3>2
    <2> HIDE DEF rest
    <2>2. /\ l \in Seq(Row) /\ Len(l) = Len(rest) + 1
          /\ \A i \in 1 .. Len(rest) + 1 : l[i] =
                IF i < place THEN rest[i] ELSE IF i = place THEN list[from] ELSE rest[i - 1]
      <3> DEFINE e == list[from]
      <3> HIDE DEF e, Row
      <3>1. rest \in Seq(Row) /\ place \in 1 .. Len(rest) + 1 /\ e \in Row
        BY <1>3, <2>1 DEF e
      <3>2. /\ InsertAt(rest, place, e) \in Seq(Row)
            /\ Len(InsertAt(rest, place, e)) = Len(rest) + 1
            /\ \A i \in 1 .. Len(rest) + 1 : InsertAt(rest, place, e)[i] =
                  IF i < place THEN rest[i] ELSE IF i = place THEN e ELSE rest[i - 1]
        BY <3>1, Inserted
      <3> QED BY <3>2, Zenon DEF e
    <2>3. list' = l
      BY <1>2 DEF rest
    <2> HIDE DEF l, n
    <2>4. list' \in Seq(Row) /\ Len(list') = n
      BY <2>1, <2>2, <2>3
    <2>5. DOMAIN list' = 1 .. n
      BY <2>4, LenProperties
    <2> QED BY <2>1, <2>2, <2>3, <2>4, <2>5, Zenon
  <1> HIDE DEF rest
  <1>6. /\ walk.at # "end" /\ walk' \in Walk /\ changes' \in 0 .. MaxChange
        /\ UNCHANGED <<listing, perPage>>
        /\ walk'.at = walk.at /\ walk'.page = walk.page
        /\ walk'.total = walk.total /\ walk'.seen = walk.seen
        /\ walk'.there = walk.there \cap Range(list)
    BY <1>2, ChangeLeaves
  <1> HIDE DEF n
  <1>7. ListTypeOK'
    BY <1>2, <1>5, <1>6 DEF ListInv, ListTypeOK
  <1>8. \A i, j \in 1 .. n : list[i] = list[j] => i = j
    BY <1>1 DEF ListInv, RowsAreOnce, Distinct
  <1>9. ASSUME NEW i \in 1 .. n
        PROVE  \E k \in 1 .. n :
                  /\ list'[i] = list[k]
                  /\ k = IF i = place THEN from
                         ELSE LET j == IF i < place THEN i ELSE i - 1 IN
                              IF j < from THEN j ELSE j + 1
    <2>1. CASE i = place
      BY <1>2, <1>5, <2>1
    <2>2. CASE i < place
      <3>1. i \in 1 .. n - 1
        BY <1>1, <1>4, <2>2
      <3> QED BY <1>1, <1>2, <1>3, <1>5, <2>2, <3>1
    <2>3. CASE i > place
      <3>1. i - 1 \in 1 .. n - 1
        BY <1>1, <1>4, <2>3
      <3>2. list'[i] = rest[i - 1]
        BY <1>1, <1>4, <1>5, <2>3
      <3>3. rest[i - 1] = IF i - 1 < from THEN list[i - 1] ELSE list[(i - 1) + 1]
        BY <1>3, <3>1
      <3> QED BY <1>1, <1>2, <1>4, <2>3, <3>1, <3>2, <3>3
    <2> QED BY <1>1, <1>4, <2>1, <2>2, <2>3
  <1>10. RowsAreOnce'
    <2>1. ASSUME NEW i \in 1 .. n, NEW j \in 1 .. n, list'[i] = list'[j]
          PROVE  i = j
      <3>1. PICK k \in 1 .. n :
                  /\ list'[i] = list[k]
                  /\ k = IF i = place THEN from
                         ELSE LET m == IF i < place THEN i ELSE i - 1 IN
                              IF m < from THEN m ELSE m + 1
        BY <1>9
      <3>2. PICK l \in 1 .. n :
                  /\ list'[j] = list[l]
                  /\ l = IF j = place THEN from
                         ELSE LET m == IF j < place THEN j ELSE j - 1 IN
                              IF m < from THEN m ELSE m + 1
        BY <1>9
      <3>3. k = l
        BY <1>8, <2>1, <3>1, <3>2
      <3> QED BY <1>1, <1>2, <1>4, <3>1, <3>2, <3>3
    <2>2. \A i \in 1 .. n : list'[i] <= lastId
      BY <1>1, <1>9 DEF ListInv, RowsAreOnce
    <2> QED BY <1>2, <1>5, <1>6, <2>1, <2>2 DEF ListInv, RowsAreOnce, Distinct
  <1>11. ASSUME NEW k \in 1 .. n
         PROVE  \E i \in 1 .. n : list'[i] = list[k]
    <2>1. CASE k = from
      BY <1>4, <1>5, <2>1
    <2> DEFINE m == IF k < from THEN k ELSE k - 1
    <2>2. CASE k # from
      <3>1. m \in 1 .. n - 1 /\ rest[m] = list[k]
        BY <1>1, <1>2, <1>3, <2>2
      <3> HIDE DEF m
      <3>2. CASE m < place
        BY <1>1, <1>5, <3>1, <3>2
      <3>3. CASE m >= place
        <4>1. m + 1 \in 1 .. n /\ ~(m + 1 < place) /\ m + 1 # place /\ (m + 1) - 1 = m
          BY <1>1, <1>4, <3>1, <3>3
        <4> QED BY <1>5, <3>1, <4>1
      <3> QED BY <1>1, <1>4, <3>1, <3>2, <3>3
    <2> QED BY <2>1, <2>2
  <1>12. WalkFits'
    <2>1. ASSUME NEW r \in walk'.there
          PROVE  IsIn(r, list')
      <3>1. PICK k \in 1 .. n : list[k] = r
        BY <1>1, <1>6, <2>1 DEF ListInv, WalkFits, IsIn
      <3>2. PICK i \in 1 .. n : list'[i] = list[k]
        BY <1>11
      <3> QED BY <1>5, <3>1, <3>2 DEF IsIn
    <2> QED BY <1>6, <2>1 DEF ListInv, WalkFits, Cursor, TwoReads
  <1>13. Slid' /\ Doubled'
    BY <1>2 DEF Slid, Doubled
  <1>14. NoneIsLost' /\ NoneIsTwice' /\ MissesNone'
    BY <1>6, <1>13 DEF NoneIsLost, NoneIsTwice, MissesNone
  <1> QED BY <1>7, <1>10, <1>12, <1>14 DEF ListInv

-----------------------------------------------------------------------------
(* Requests of the walk.                                                   *)

\* What is in two lists in a row.
LEMMA JoinedShows ==
    ASSUME NEW S, NEW s \in Seq(S), NEW t \in Seq(S)
    PROVE  /\ s \o t \in Seq(S)
           /\ \A r : IsIn(r, s \o t) <=> IsIn(r, s) \/ IsIn(r, t)
           /\ Distinct(s) /\ Distinct(t) /\ (\A r : ~(IsIn(r, s) /\ IsIn(r, t))) => Distinct(s \o t)
  <1> DEFINE m == Len(s)
             n == Len(t)
             u == s \o t
  <1>1. m \in Nat /\ n \in Nat /\ DOMAIN s = 1 .. m /\ DOMAIN t = 1 .. n
    BY LenProperties
  <1>2. u \in Seq(S) /\ Len(u) = m + n
        /\ \A i \in 1 .. m + n : u[i] = IF i <= m THEN s[i] ELSE t[i - m]
    BY Joined
  <1>3. DOMAIN u = 1 .. m + n
    <2> HIDE DEF u
    <2> QED BY <1>2, LenProperties
  <1> HIDE DEF u, m, n
  <1>4. ASSUME NEW i \in 1 .. m + n
        PROVE  /\ i <= m => i \in 1 .. m /\ u[i] = s[i]
               /\ i > m => i - m \in 1 .. n /\ u[i] = t[i - m]
    BY <1>1, <1>2
  <1>5. ASSUME NEW j \in 1 .. n
        PROVE  j + m \in 1 .. m + n /\ u[j + m] = t[j]
    <2>1. j + m \in 1 .. m + n /\ j + m > m /\ (j + m) - m = j
      BY <1>1
    <2> QED BY <1>4, <2>1
  <1>6. ASSUME NEW r
        PROVE  IsIn(r, u) <=> IsIn(r, s) \/ IsIn(r, t)
    <2>1. ASSUME IsIn(r, u)
          PROVE  IsIn(r, s) \/ IsIn(r, t)
      <3>1. PICK i \in 1 .. m + n : u[i] = r
        BY <1>3, <2>1 DEF IsIn
      <3>2. i <= m \/ i > m
        BY <1>1
      <3>3. i <= m => IsIn(r, s)
        BY <1>1, <1>4, <3>1 DEF IsIn
      <3>4. i > m => IsIn(r, t)
        BY <1>1, <1>4, <3>1 DEF IsIn
      <3> QED BY <3>2, <3>3, <3>4
    <2>2. ASSUME IsIn(r, s)
          PROVE  IsIn(r, u)
      <3>1. PICK i \in 1 .. m : s[i] = r
        BY <1>1, <2>2 DEF IsIn
      <3>2. i \in 1 .. m + n /\ i <= m
        BY <1>1
      <3> QED BY <1>3, <1>4, <3>1, <3>2 DEF IsIn
    <2>3. ASSUME IsIn(r, t)
          PROVE  IsIn(r, u)
      BY <1>1, <1>3, <1>5, <2>3 DEF IsIn
    <2> QED BY <2>1, <2>2, <2>3
  <1>7. ASSUME Distinct(s), Distinct(t), \A r : ~(IsIn(r, s) /\ IsIn(r, t))
        PROVE  Distinct(u)
    <2>1. SUFFICES ASSUME NEW i \in 1 .. m + n, NEW j \in 1 .. m + n, u[i] = u[j]
                   PROVE  i = j
      BY <1>3 DEF Distinct
    <2>2. CASE i <= m /\ j <= m
      BY <1>1, <1>4, <1>7, <2>1, <2>2 DEF Distinct
    <2>3. CASE i > m /\ j > m
      <3>1. i - m = j - m
        BY <1>1, <1>4, <1>7, <2>1, <2>3 DEF Distinct
      <3> QED BY <1>1, <3>1
    <2>4. CASE i <= m /\ j > m
      <3>1. IsIn(u[i], s) /\ IsIn(u[i], t)
        BY <1>1, <1>4, <2>1, <2>4 DEF IsIn
      <3> QED BY <1>7, <3>1
    <2>5. CASE i > m /\ j <= m
      <3>1. IsIn(u[i], s) /\ IsIn(u[i], t)
        BY <1>1, <1>4, <2>1, <2>5 DEF IsIn
      <3> QED BY <1>7, <3>1
    <2> QED BY <1>1, <2>2, <2>3, <2>4, <2>5
  <1> QED BY <1>2, <1>6, <1>7 DEF u

\* A page shows the rows at its places, each once.
LEMMA CutShows ==
    ASSUME ListInv, NEW first \in Nat \ {0}, NEW last \in Nat
    PROVE  /\ Cut(first, last) \in Seq(1 .. MaxRowId)
           /\ \A r : IsIn(r, Cut(first, last)) <=>
                        \E i \in DOMAIN list : list[i] = r /\ first <= i /\ i <= last
           /\ Distinct(Cut(first, last))
  <1> DEFINE c == Cut(first, last)
             Row == 1 .. MaxRowId
             n == Len(list)
             end == IF last <= n THEN last ELSE n
  <1>1. list \in Seq(Row) /\ n \in Nat /\ DOMAIN list = 1 .. n
    BY LenProperties DEF ListInv, ListTypeOK
  <1>2. c \in Seq(Row) /\ DOMAIN c = 1 .. Len(c)
        /\ Len(c) = (IF first <= end THEN end - first + 1 ELSE 0)
        /\ \A i \in 1 .. end - first + 1 : c[i] = list[first + i - 1]
    <2>1. c \in Seq(Row)
          /\ Len(c) = (IF first <= end THEN end - first + 1 ELSE 0)
          /\ \A i \in 1 .. end - first + 1 : c[i] = list[first + i - 1]
      <3>1. /\ Cut(first, last) \in Seq(Row)
            /\ LET e == IF last <= Len(list) THEN last ELSE Len(list) IN
               /\ Len(Cut(first, last)) = IF first <= e THEN e - first + 1 ELSE 0
               /\ \A i \in 1 .. e - first + 1 : Cut(first, last)[i] = list[first + i - 1]
        BY <1>1, CutIs
      <3> QED BY <3>1, Zenon
    <2> HIDE DEF c, end
    <2> QED BY <2>1, LenProperties
  <1>3. end \in Nat /\ end <= n /\ \A i \in 1 .. n : i <= last <=> i <= end
    BY <1>1
  <1> HIDE DEF c, n, end
  <1>4. ASSUME NEW i \in 1 .. Len(c)
        PROVE  first + i - 1 \in 1 .. n /\ first + i - 1 <= end /\ c[i] = list[first + i - 1]
    BY <1>1, <1>2, <1>3
  <1>5. ASSUME NEW i \in 1 .. n, first <= i, i <= end
        PROVE  i - first + 1 \in 1 .. Len(c) /\ c[i - first + 1] = list[i]
    <2>1. i - first + 1 \in 1 .. Len(c) /\ first + (i - first + 1) - 1 = i
      BY <1>1, <1>2, <1>3, <1>5
    <2> QED BY <1>4, <2>1
  <1>6. ASSUME NEW r
        PROVE  IsIn(r, c) <=> \E i \in DOMAIN list : list[i] = r /\ first <= i /\ i <= last
    <2>1. ASSUME IsIn(r, c)
          PROVE  \E i \in DOMAIN list : list[i] = r /\ first <= i /\ i <= last
      <3>1. PICK i \in 1 .. Len(c) : c[i] = r
        BY <1>2, <2>1 DEF IsIn
      <3>2. first <= first + i - 1
        BY <3>1
      <3> QED BY <1>1, <1>3, <1>4, <3>1, <3>2
    <2>2. ASSUME NEW i \in DOMAIN list, list[i] = r, first <= i, i <= last
          PROVE  IsIn(r, c)
      BY <1>1, <1>2, <1>3, <1>5, <2>2 DEF IsIn
    <2> QED BY <2>1, <2>2
  <1>7. Distinct(c)
    <2>1. SUFFICES ASSUME NEW i \in 1 .. Len(c), NEW j \in 1 .. Len(c), c[i] = c[j]
                   PROVE  i = j
      BY <1>2 DEF Distinct
    <2>2. first + i - 1 = first + j - 1
      BY <1>1, <1>4, <2>1 DEF ListInv, RowsAreOnce, Distinct
    <2> QED BY <1>1, <1>3, <2>2
  <1> QED BY <1>2, <1>6, <1>7 DEF c

\* The next page of a list that is read forward, from the place the walk has
\* reached to last.
LEMMA ReadsOn ==
    ASSUME ListInv, walk.at = "page", ~Backward, Offset \in Nat,
           NEW last \in Nat, last >= Offset, NEW more \in BOOLEAN, NEW next \in Nat,
           Following(Cut(Offset + 1, last), more, next), Reads, raced' = raced,
           ~Cursor => next > 0,
           more => \A i \in DOMAIN list :
                      i > last <=> i > (IF Cursor THEN next ELSE (next - 1) * perPage),
           ~more => \A i \in DOMAIN list : (TwoReads => i <= walk.total) => i <= last
    PROVE  ListInv'
  <1> DEFINE c == Cut(Offset + 1, last)
             Row == 1 .. MaxRowId
  <1>1. /\ walk \in Walk /\ walk.seen \in Seq(Row) /\ list \in Seq(Row) /\ lastId \in Nat
        /\ DOMAIN list = 1 .. Len(list) /\ Len(list) \in Nat
    BY LenProperties DEF ListInv, ListTypeOK, Walk
  <1>2. /\ c \in Seq(Row)
        /\ \A r : IsIn(r, c) <=> \E i \in DOMAIN list : list[i] = r /\ Offset + 1 <= i /\ i <= last
        /\ Distinct(c)
    <2>1. Offset + 1 \in Nat \ {0}
      OBVIOUS
    <2> QED BY <2>1, CutShows
  <1> HIDE DEF c
  <1> DEFINE seen == walk.seen \o c
             at == IF ~more THEN "end" ELSE IF TwoReads THEN "count" ELSE "page"
             page == IF more THEN next ELSE walk.page
  <1>3. /\ seen \in Seq(Row)
        /\ \A r : IsIn(r, seen) <=> IsIn(r, walk.seen) \/ IsIn(r, c)
        /\ Distinct(walk.seen) /\ (\A r : ~(IsIn(r, walk.seen) /\ IsIn(r, c))) => Distinct(seen)
    BY <1>1, <1>2, JoinedShows
  <1>4. walk' = [walk EXCEPT !.seen = seen, !.page = page, !.at = at]
    BY DEF Following, c
  <1> HIDE DEF seen
  <1>5. /\ walk' \in Walk /\ walk'.seen = seen /\ walk'.at = at /\ walk'.page = page
        /\ walk'.there = walk.there /\ walk'.total = walk.total
    <2>1. page \in Nat /\ at \in {"count", "page", "end"}
      BY <1>1 DEF Walk
    <2> HIDE DEF page, at
    <2> QED BY <1>1, <1>3, <1>4, <2>1 DEF Walk
  <1>6. UNCHANGED <<listing, perPage, list, lastId, changes, grew, shrank, raced>>
    BY DEF Reads
  <1>7. ListTypeOK'
    BY <1>5, <1>6 DEF ListInv, ListTypeOK
  <1>8. RowsAreOnce'
    <2>1. ASSUME NEW i \in DOMAIN seen
          PROVE  seen[i] <= lastId
      <3>1. IsIn(seen[i], walk.seen) \/ IsIn(seen[i], c)
        BY <1>3 DEF IsIn
      <3>2. IsIn(seen[i], walk.seen) => seen[i] <= lastId
        BY DEF IsIn, ListInv, RowsAreOnce
      <3>3. IsIn(seen[i], c) => seen[i] <= lastId
        BY <1>2 DEF ListInv, RowsAreOnce
      <3> QED BY <3>1, <3>2, <3>3
    <2> QED BY <1>5, <1>6, <2>1 DEF ListInv, RowsAreOnce
  <1>9. WalkFits'
    <2>1. ~Cursor' => walk'.page > 0
      BY <1>5, <1>6 DEF ListInv, WalkFits, Cursor
    <2>2. walk'.at = "count" => TwoReads'
      BY <1>5, <1>6 DEF TwoReads
    <2> QED BY <1>5, <1>6, <2>1, <2>2 DEF ListInv, WalkFits
  <1>10. Slid' = Slid /\ Doubled' = Doubled /\ Backward' = Backward /\ Cursor' = Cursor /\ TwoReads' = TwoReads
    BY <1>6 DEF Slid, Doubled, Backward, Cursor, TwoReads
  <1>11. ASSUME more, NEW i \in DOMAIN list
         PROVE  Ahead(i)' <=> i > last
    <2>1. Offset' = IF Cursor THEN next ELSE (next - 1) * perPage
      BY <1>5, <1>6, <1>11 DEF Offset, Cursor
    <2> QED BY <1>10, <1>11, <2>1 DEF Ahead
  <1>12. ASSUME ~raced, ~Slid, NEW r \in walk.there, ~IsIn(r, seen)
         PROVE  \E i \in DOMAIN list : list[i] = r /\ i > last /\ (TwoReads => i <= walk.total)
    <2>1. ~IsIn(r, walk.seen) /\ ~IsIn(r, c)
      BY <1>3, <1>12
    <2>2. PICK i \in DOMAIN list : list[i] = r /\ Ahead(i) /\ (TwoReads => i <= walk.total)
      BY <1>12, <2>1 DEF ListInv, NoneIsLost
    <2>3. Offset + 1 <= i
      BY <1>1, <2>2 DEF Ahead
    <2>4. ~(i <= last)
      BY <1>2, <2>1, <2>2, <2>3
    <2> QED BY <1>1, <2>2, <2>4
  <1>13. NoneIsLost'
    <2>1. CASE more
      <3>1. SUFFICES ASSUME ~raced, ~Slid, NEW r \in walk.there, ~IsIn(r, seen)
                     PROVE  \E i \in DOMAIN list : list[i] = r /\ Ahead(i)'
        <4>1. ~(walk'.at = "page" /\ TwoReads')
          BY <1>5, <1>10, <2>1
        <4> QED BY <1>5, <1>6, <1>10, <4>1 DEF NoneIsLost
      <3> QED BY <1>11, <1>12, <2>1, <3>1
    <2>2. CASE ~more
      BY <1>5, <2>2 DEF NoneIsLost
    <2> QED BY <2>1, <2>2
  <1>14. NoneIsTwice'
    <2>1. SUFFICES ASSUME ~Doubled
                   PROVE  /\ Distinct(seen)
                          /\ more => \A i \in DOMAIN list : Ahead(i)' => ~IsIn(list[i], seen)
      BY <1>5, <1>6, <1>10 DEF NoneIsTwice
    <2>2. Distinct(walk.seen) /\ \A i \in DOMAIN list : i > Offset => ~IsIn(list[i], walk.seen)
      BY <2>1 DEF ListInv, NoneIsTwice, Ahead
    <2>3. Distinct(seen)
      <3>1. ASSUME NEW r, IsIn(r, c)
            PROVE  ~IsIn(r, walk.seen)
        <4>1. PICK i \in DOMAIN list : list[i] = r /\ Offset + 1 <= i
          BY <1>2, <3>1
        <4>2. i > Offset
          BY <1>1, <4>1
        <4> QED BY <2>2, <4>1, <4>2
      <3> QED BY <1>3, <2>2, <3>1
    <2>4. ASSUME more, NEW i \in DOMAIN list, Ahead(i)'
          PROVE  ~IsIn(list[i], seen)
      <3>1. i > last
        BY <1>11, <2>4
      <3>2. ~IsIn(list[i], c)
        <4>1. \A k \in DOMAIN list : list[k] = list[i] => k = i
          BY DEF ListInv, RowsAreOnce, Distinct
        <4> QED BY <1>1, <1>2, <3>1, <4>1
      <3>3. ~IsIn(list[i], walk.seen)
        <4>1. i > Offset
          BY <1>1, <3>1
        <4> QED BY <2>2, <4>1
      <3> QED BY <1>3, <3>2, <3>3
    <2> QED BY <2>3, <2>4
  <1>15. MissesNone'
    <2>1. SUFFICES ASSUME walk'.at = "end", ~raced, ~Slid
                   PROVE  walk.there \subseteq Range(seen)
      BY <1>5, <1>6, <1>10 DEF MissesNone, Slid, Backward
    <2>2. ~more
      BY <1>5, <2>1
    <2>3. ASSUME NEW r \in walk.there
          PROVE  IsIn(r, seen)
      BY <1>1, <1>12, <2>1, <2>2
    <2> QED BY <2>3 DEF IsIn, Range
  <1> QED BY <1>7, <1>8, <1>9, <1>13, <1>14, <1>15 DEF ListInv

\* The numbers of a walk.
LEMMA WalkNumbers ==
    ASSUME ListInv
    PROVE  /\ walk \in Walk /\ walk.page \in Nat /\ walk.total \in Nat /\ perPage \in {1, 2}
           /\ list \in Seq(1 .. MaxRowId) /\ Len(list) \in Nat /\ DOMAIN list = 1 .. Len(list)
           /\ ~Cursor => walk.page > 0
           /\ Offset \in Nat
  <1>1. /\ walk \in Walk /\ walk.page \in Nat /\ walk.total \in Nat /\ perPage \in {1, 2}
        /\ list \in Seq(1 .. MaxRowId) /\ Len(list) \in Nat /\ DOMAIN list = 1 .. Len(list)
        /\ ~Cursor => walk.page > 0
    BY LenProperties DEF ListInv, ListTypeOK, Walk, WalkFits
  <1> QED BY <1>1 DEF Offset

\* As many pages as it takes.
LEMMA PagesAre ==
    ASSUME NEW n \in Nat, NEW p \in Nat, perPage \in {1, 2}
    PROVE  p < Pages(n) <=> p * perPage < n
  <1>1. CASE perPage = 1
    BY <1>1 DEF Pages
  <1>2. CASE perPage = 2
    BY <1>2 DEF Pages
  <1> QED BY <1>1, <1>2

\* A numbered page, whose next one is decided by a count, by the length of the
\* list or by whether it is full.
LEMMA ReadPageKeeps == ListInv /\ ReadPage => ListInv'
  <1> SUFFICES ASSUME ListInv, ReadPage
               PROVE  ListInv'
    OBVIOUS
  <1> DEFINE last == walk.page * perPage
             c == Cut((walk.page - 1) * perPage + 1, last)
             more == CASE TwoReads -> PaginationHeaders(walk.total)
                       [] listing.ends = "slice" -> PaginationHeaders(Len(list))
                       [] OTHER -> Len(c) = perPage
             next == walk.page + 1
  <1>1. /\ walk.page \in Nat /\ walk.total \in Nat /\ perPage \in {1, 2} /\ Offset \in Nat
        /\ list \in Seq(1 .. MaxRowId) /\ Len(list) \in Nat /\ DOMAIN list = 1 .. Len(list)
    BY WalkNumbers
  <1>2. /\ walk.at = "page" /\ ~Cursor /\ ~Backward
        /\ Following(c, more, next) /\ Reads /\ raced' = raced
    BY DEF ReadPage, Cursor, Backward
  <1>3. walk.page > 0 /\ Offset = (walk.page - 1) * perPage
    BY <1>2, WalkNumbers DEF Offset
  <1>4. last \in Nat /\ last = Offset + perPage
    BY <1>1, <1>3
  <1>5. next \in Nat /\ next > 0 /\ (next - 1) * perPage = last
    BY <1>1
  <1>6. /\ TwoReads => more = (walk.page < Pages(walk.total))
        /\ ~TwoReads /\ listing.ends = "slice" => more = (walk.page < Pages(Len(list)))
        /\ ~TwoReads /\ listing.ends # "slice" => more = (Len(c) = perPage)
    <2>1. ASSUME TwoReads
          PROVE  more = PaginationHeaders(walk.total)
      <3>1. listing.ends # "slice"
        BY <2>1 DEF TwoReads
      <3> QED BY <2>1, <3>1, Zenon
    <2>2. ASSUME ~TwoReads, listing.ends = "slice"
          PROVE  more = PaginationHeaders(Len(list))
      BY <2>2, Zenon
    <2>3. ASSUME ~TwoReads, listing.ends # "slice"
          PROVE  more = (Len(c) = perPage)
      BY <2>3, Zenon
    <2> HIDE DEF c, more
    <2> QED BY <2>1, <2>2, <2>3 DEF PaginationHeaders
  <1>7. more \in BOOLEAN
    <2> HIDE DEF c, more
    <2>1. CASE TwoReads
      BY <1>6, <2>1
    <2>2. CASE ~TwoReads /\ listing.ends = "slice"
      BY <1>6, <2>2
    <2>3. CASE ~TwoReads /\ listing.ends # "slice"
      BY <1>6, <2>3
    <2> QED BY <2>1, <2>2, <2>3
  <1>8. ASSUME ~more, NEW i \in DOMAIN list, TwoReads => i <= walk.total
        PROVE  i <= last
    <2> HIDE DEF more
    <2>1. CASE TwoReads
      <3>1. ~(last < walk.total)
        <4>1. ~(walk.page < Pages(walk.total))
          BY <1>6, <1>8, <2>1
        <4>2. walk.total \in Nat
          BY WalkNumbers
        <4> QED BY <1>1, <4>1, <4>2, PagesAre
      <3>2. walk.total \in Nat
        BY WalkNumbers
      <3> HIDE DEF last
      <3> QED BY <1>1, <1>4, <1>8, <2>1, <3>1, <3>2
    <2>2. CASE ~TwoReads /\ listing.ends = "slice"
      <3>1. ~(last < Len(list))
        <4>1. ~(walk.page < Pages(Len(list)))
          BY <1>6, <1>8, <2>2
        <4> QED BY <1>1, <4>1, PagesAre
      <3> HIDE DEF last
      <3> QED BY <1>1, <1>4, <3>1
    <2>3. CASE ~TwoReads /\ listing.ends # "slice"
      <3>1. Len(c) # perPage
        BY <1>6, <1>8, <2>3
      <3>2. Offset + 1 \in Nat \ {0} /\ c = Cut(Offset + 1, last)
        BY <1>1, <1>3
      <3> DEFINE end == IF last <= Len(list) THEN last ELSE Len(list)
      <3> HIDE DEF c, last
      <3>3. Len(c) = IF Offset + 1 <= end THEN end - (Offset + 1) + 1 ELSE 0
        BY <1>1, <1>4, <3>2, CutIs
      <3>4. ASSUME last <= Len(list)
            PROVE  FALSE
        <4>1. end = last
          BY <3>4
        <4> HIDE DEF end
        <4>2. Len(c) = last - (Offset + 1) + 1
          BY <1>1, <1>4, <3>3, <4>1
        <4> QED BY <1>1, <1>4, <3>1, <4>2
      <3> QED BY <1>1, <1>4, <3>4
    <2> QED BY <2>1, <2>2, <2>3
  <1>9. Following(Cut(Offset + 1, last), more, next)
    BY <1>2, <1>3
  <1>10. last >= Offset
    BY <1>1, <1>4
  <1>11. \A i \in DOMAIN list : i > last <=> i > (IF Cursor THEN next ELSE (next - 1) * perPage)
    BY <1>2, <1>5
  <1> HIDE DEF last, c, more, next
  <1> QED BY <1>1, <1>2, <1>4, <1>5, <1>7, <1>8, <1>9, <1>10, <1>11, ReadsOn

\* A page behind a cursor, which is the place of the last row before.
LEMMA ReadForwardKeeps == ListInv /\ ReadForward => ListInv'
  <1> SUFFICES ASSUME ListInv, ReadForward
               PROVE  ListInv'
    OBVIOUS
  <1> DEFINE last == walk.page + perPage
             c == Cut(walk.page + 1, last)
             more == last < Len(list) /\ c # <<>>
             next == walk.page + Len(c)
             end == IF last <= Len(list) THEN last ELSE Len(list)
  <1>1. /\ walk.page \in Nat /\ perPage \in {1, 2} /\ Offset \in Nat
        /\ list \in Seq(1 .. MaxRowId) /\ Len(list) \in Nat /\ DOMAIN list = 1 .. Len(list)
    BY WalkNumbers
  <1>2. /\ walk.at = "page" /\ Cursor /\ ~Backward /\ ~TwoReads
        /\ Following(c, more, next) /\ Reads /\ raced' = raced
    BY DEF ReadForward, After, Cursor, Backward, TwoReads
  <1>3. Offset = walk.page
    BY <1>2 DEF Offset
  <1>4. last \in Nat /\ last >= Offset /\ last > walk.page
    BY <1>1, <1>3
  <1>5. /\ c \in Seq(1 .. MaxRowId)
        /\ Len(c) = IF walk.page + 1 <= end THEN end - (walk.page + 1) + 1 ELSE 0
    <2>1. walk.page + 1 \in Nat \ {0}
      BY <1>1
    <2> HIDE DEF last
    <2> QED BY <1>1, <1>4, <2>1, CutIs
  <1>6. next \in Nat /\ (c = <<>> => Len(c) = 0)
    <2>1. Len(c) \in Nat
      BY <1>5, LenProperties
    <2>2. Len(<<>>) = 0
      OBVIOUS
    <2> HIDE DEF c
    <2> QED BY <1>1, <2>1, <2>2
  <1>7. ASSUME last < Len(list)
        PROVE  next = last /\ c # <<>>
    <2>1. end = last
      BY <1>1, <1>4, <1>7
    <2> HIDE DEF end, c
    <2>2. Len(c) = perPage
      BY <1>1, <1>5, <2>1
    <2> QED BY <1>1, <1>6, <2>2
  <1>8. more \in BOOLEAN
    OBVIOUS
  <1>9. Following(Cut(Offset + 1, last), more, next)
    BY <1>2, <1>3
  <1>10. more => \A i \in DOMAIN list : i > last <=> i > (IF Cursor THEN next ELSE (next - 1) * perPage)
    BY <1>2, <1>7
  <1>11. ~more => \A i \in DOMAIN list : (TwoReads => i <= walk.total) => i <= last
    <2>1. ~more => ~(last < Len(list))
      BY <1>7
    <2> HIDE DEF last, c, more
    <2> QED BY <1>1, <1>4, <2>1
  <1> HIDE DEF last, c, more, next
  <1> QED BY <1>1, <1>2, <1>4, <1>6, <1>8, <1>9, <1>10, <1>11, ReadsOn

\* A page before a cursor, which is put in front of what was seen.
LEMMA ReadBackwardKeeps == ListInv /\ ReadBackward => ListInv'
  <1> SUFFICES ASSUME ListInv, ReadBackward
               PROVE  ListInv'
    OBVIOUS
  <1> DEFINE n == Len(list)
             end == IF walk.page <= n THEN walk.page ELSE n
             start == IF 0 >= end - perPage THEN 0 ELSE end - perPage
             c == Cut(start + 1, end)
             seen == c \o walk.seen
             at == IF start > 0 THEN "page" ELSE "end"
             Row == 1 .. MaxRowId
  <1>1. /\ walk \in Walk /\ walk.page \in Nat /\ perPage \in {1, 2}
        /\ list \in Seq(Row) /\ n \in Nat /\ DOMAIN list = 1 .. n
        /\ lastId \in Nat /\ walk.seen \in Seq(Row)
    BY WalkNumbers DEF ListInv, ListTypeOK, Walk
  <1>2. walk.at = "page" /\ Backward /\ Cursor /\ ~TwoReads /\ Reads /\ raced' = raced
    BY DEF ReadBackward, Backward, Cursor, TwoReads
  <1>3. end \in Nat /\ start \in Nat /\ start <= end /\ end <= n
        /\ \A i \in DOMAIN list : i <= walk.page <=> i <= end
    BY <1>1
  <1>4. walk' = [walk EXCEPT !.seen = seen, !.page = start, !.at = at]
    <2>1. Min({walk.page, n}) = end
      BY <1>1, OfTwo
    <2>2. Max({0, end - perPage}) = start
      <3> DEFINE b == end - perPage
      <3>1. 0 \in Int /\ b \in Int
        BY <1>1, <1>3
      <3> HIDE DEF end, b
      <3>2. Max({0, b}) = IF 0 >= b THEN 0 ELSE b
        BY <3>1, OfTwo
      <3> QED BY <3>2 DEF b
    <2> HIDE DEF start, end, n
    <2> QED BY <2>1, <2>2 DEF ReadBackward, n
  <1> HIDE DEF n, end, start
  <1>5. /\ c \in Seq(Row)
        /\ \A r : IsIn(r, c) <=> \E i \in DOMAIN list : list[i] = r /\ start + 1 <= i /\ i <= end
        /\ Distinct(c)
    <2>1. start + 1 \in Nat \ {0}
      BY <1>3
    <2> QED BY <1>3, <2>1, CutShows
  <1> HIDE DEF c
  <1>6. /\ seen \in Seq(Row)
        /\ \A r : IsIn(r, seen) <=> IsIn(r, c) \/ IsIn(r, walk.seen)
        /\ Distinct(walk.seen) /\ (\A r : ~(IsIn(r, c) /\ IsIn(r, walk.seen))) => Distinct(seen)
    BY <1>1, <1>5, JoinedShows
  <1> HIDE DEF seen
  <1>7. /\ walk' \in Walk /\ walk'.seen = seen /\ walk'.at = at /\ walk'.page = start
        /\ walk'.there = walk.there /\ walk'.total = walk.total
    <2>1. at \in {"count", "page", "end"}
      OBVIOUS
    <2> HIDE DEF at
    <2> QED BY <1>1, <1>3, <1>4, <1>6, <2>1 DEF Walk
  <1>8. UNCHANGED <<listing, perPage, list, lastId, changes, grew, shrank, raced>>
    BY <1>2 DEF Reads
  <1>9. ListTypeOK'
    BY <1>7, <1>8 DEF ListInv, ListTypeOK
  <1>10. RowsAreOnce'
    <2>1. ASSUME NEW i \in DOMAIN seen
          PROVE  seen[i] <= lastId
      <3>1. IsIn(seen[i], walk.seen) \/ IsIn(seen[i], c)
        BY <1>6 DEF IsIn
      <3>2. IsIn(seen[i], walk.seen) => seen[i] <= lastId
        BY DEF IsIn, ListInv, RowsAreOnce
      <3>3. IsIn(seen[i], c) => seen[i] <= lastId
        BY <1>5 DEF ListInv, RowsAreOnce
      <3> QED BY <3>1, <3>2, <3>3
    <2> QED BY <1>7, <1>8, <2>1 DEF ListInv, RowsAreOnce
  <1>11. Slid' = Slid /\ Doubled' = Doubled /\ Backward' /\ Cursor' /\ ~TwoReads'
    BY <1>2, <1>8 DEF Slid, Doubled, Backward, Cursor, TwoReads
  <1>12. WalkFits'
    BY <1>7, <1>8, <1>11 DEF ListInv, WalkFits
  <1>13. ASSUME NEW i \in DOMAIN list
         PROVE  Ahead(i) <=> i <= end
    BY <1>2, <1>3 DEF Ahead
  <1>14. ASSUME NEW i \in DOMAIN list
         PROVE  Ahead(i)' <=> i <= start
    BY <1>7, <1>11 DEF Ahead
  <1>15. ASSUME ~raced, ~Slid, NEW r \in walk.there, ~IsIn(r, seen)
         PROVE  \E i \in DOMAIN list : list[i] = r /\ i <= start
    <2>1. ~IsIn(r, walk.seen) /\ ~IsIn(r, c)
      BY <1>6, <1>15
    <2>2. PICK i \in DOMAIN list : list[i] = r /\ Ahead(i)
      BY <1>2, <1>15, <2>1 DEF ListInv, NoneIsLost
    <2>3. i <= end
      BY <1>13, <2>2
    <2>4. ~(start + 1 <= i)
      BY <1>5, <2>1, <2>2, <2>3
    <2> QED BY <1>1, <1>3, <2>2, <2>4
  <1>16. NoneIsLost'
    BY <1>7, <1>8, <1>11, <1>14, <1>15 DEF NoneIsLost
  <1>17. NoneIsTwice'
    <2>1. SUFFICES ASSUME ~Doubled
                   PROVE  /\ Distinct(seen)
                          /\ \A i \in DOMAIN list : Ahead(i)' => ~IsIn(list[i], seen)
      BY <1>7, <1>8, <1>11 DEF NoneIsTwice
    <2>2. Distinct(walk.seen) /\ \A i \in DOMAIN list : i <= end => ~IsIn(list[i], walk.seen)
      BY <1>2, <1>13, <2>1 DEF ListInv, NoneIsTwice
    <2>3. Distinct(seen)
      <3>1. ASSUME NEW r, IsIn(r, c)
            PROVE  ~IsIn(r, walk.seen)
        BY <1>5, <2>2, <3>1
      <3> QED BY <1>6, <2>2, <3>1
    <2>4. ASSUME NEW i \in DOMAIN list, Ahead(i)'
          PROVE  ~IsIn(list[i], seen)
      <3>1. i <= start
        BY <1>14, <2>4
      <3>2. ~IsIn(list[i], c)
        <4>1. \A k \in DOMAIN list : list[k] = list[i] => k = i
          BY DEF ListInv, RowsAreOnce, Distinct
        <4> QED BY <1>1, <1>3, <1>5, <3>1, <4>1
      <3>3. i <= end
        BY <1>1, <1>3, <3>1
      <3> QED BY <1>6, <2>2, <3>2, <3>3
    <2> QED BY <2>3, <2>4
  <1>18. MissesNone'
    <2>1. SUFFICES ASSUME walk'.at = "end", ~raced, ~Slid
                   PROVE  walk.there \subseteq Range(seen)
      BY <1>7, <1>8, <1>11 DEF MissesNone, Slid, Backward
    <2>2. ~(start > 0)
      BY <1>7, <2>1
    <2>3. ASSUME NEW r \in walk.there
          PROVE  IsIn(r, seen)
      BY <1>1, <1>3, <1>15, <2>1, <2>2
    <2> QED BY <2>3 DEF IsIn, Range
  <1> QED BY <1>9, <1>10, <1>12, <1>16, <1>17, <1>18 DEF ListInv

\* A count, before its page.
LEMMA ReadCountKeeps == ListInv /\ ReadCount => ListInv'
  <1> SUFFICES ASSUME ListInv, ReadCount
               PROVE  ListInv'
    OBVIOUS
  <1>1. /\ walk \in Walk /\ Len(list) \in Nat /\ DOMAIN list = 1 .. Len(list)
    BY WalkNumbers
  <1>2. walk.at = "count" /\ walk' = [walk EXCEPT !.total = Len(list), !.at = "page"]
    BY DEF ReadCount
  <1>3. /\ walk' \in Walk /\ walk'.seen = walk.seen /\ walk'.at = "page" /\ walk'.page = walk.page
        /\ walk'.there = walk.there /\ walk'.total = Len(list)
    BY <1>1, <1>2 DEF Walk
  <1>4. UNCHANGED <<listing, perPage, list, lastId, changes, grew, shrank, raced>>
    BY DEF ReadCount, Reads
  <1>5. /\ Slid' = Slid /\ Doubled' = Doubled /\ Backward' = Backward /\ Cursor' = Cursor
        /\ TwoReads' = TwoReads /\ \A i : Ahead(i)' <=> Ahead(i)
    BY <1>3, <1>4 DEF Slid, Doubled, Backward, Cursor, TwoReads, Ahead, Offset
  <1>6. ListTypeOK' /\ RowsAreOnce'
    BY <1>3, <1>4 DEF ListInv, ListTypeOK, RowsAreOnce
  <1>7. WalkFits' /\ MissesNone'
    BY <1>3, <1>4, <1>5 DEF ListInv, WalkFits, MissesNone
  <1>8. NoneIsTwice'
    BY <1>2, <1>3, <1>4, <1>5 DEF ListInv, NoneIsTwice
  <1>9. NoneIsLost'
    <2>1. SUFFICES ASSUME ~raced, ~Slid, NEW r \in walk.there, ~IsIn(r, walk.seen)
                   PROVE  \E i \in DOMAIN list : list[i] = r /\ Ahead(i) /\ i <= Len(list)
      BY <1>3, <1>4, <1>5 DEF NoneIsLost
    <2>2. PICK i \in DOMAIN list : list[i] = r /\ Ahead(i)
      BY <1>2, <2>1 DEF ListInv, NoneIsLost
    <2> QED BY <1>1, <2>2
  <1> QED BY <1>6, <1>7, <1>8, <1>9 DEF ListInv

\* A walk that ends on a page git could not read.
LEMMA ReadFailsKeeps == ListInv /\ ReadFails => ListInv'
  <1> SUFFICES ASSUME ListInv, ReadFails
               PROVE  ListInv'
    OBVIOUS
  <1>1. walk \in Walk /\ walk' = [walk EXCEPT !.at = "end"]
    BY WalkNumbers DEF ReadFails
  <1>2. /\ walk' \in Walk /\ walk'.seen = walk.seen /\ walk'.at = "end" /\ walk'.page = walk.page
        /\ walk'.there = walk.there /\ walk'.total = walk.total
    BY <1>1 DEF Walk
  <1>3. UNCHANGED <<listing, perPage, list, lastId, changes, grew, shrank>> /\ raced'
    BY DEF ReadFails, Reads
  <1>4. Doubled' = Doubled /\ Cursor' = Cursor
    BY <1>3 DEF Doubled, Backward, Cursor
  <1>5. ListTypeOK' /\ RowsAreOnce'
    BY <1>2, <1>3 DEF ListInv, ListTypeOK, RowsAreOnce, ReadFails
  <1>6. WalkFits' /\ MissesNone'
    BY <1>2, <1>3, <1>4 DEF ListInv, WalkFits, MissesNone
  <1>7. NoneIsTwice' /\ NoneIsLost'
    BY <1>2, <1>3, <1>4 DEF ListInv, NoneIsTwice, NoneIsLost
  <1> QED BY <1>5, <1>6, <1>7 DEF ListInv

-----------------------------------------------------------------------------
(* The specification.                                                      *)

\* Every change of the list and every request of the walk keeps the invariant.
LEMMA ListSteps == ListInv /\ [ListNext]_listVars => ListInv'
  <1> SUFFICES ASSUME ListInv, [ListNext]_listVars
               PROVE  ListInv'
    OBVIOUS
  <1>1. CASE NewRow
    <2>1. Len(list) \in Nat
      BY WalkNumbers
    <2>2. Places(Len(list)) \subseteq 1 .. Len(list) + 1
      BY <2>1, PlacesAre
    <2> QED BY <1>1, <2>2, RowComesKeeps DEF NewRow
  <1>2. CASE RowPasses
    BY <1>2, RowComesKeeps DEF RowPasses
  <1>3. CASE RowGoes
    BY <1>3, RowGoesKeeps
  <1>4. CASE RowMoves
    BY <1>4, RowMovesKeeps
  <1>5. CASE ReadCount
    BY <1>5, ReadCountKeeps
  <1>6. CASE ReadPage
    BY <1>6, ReadPageKeeps
  <1>7. CASE ReadForward
    BY <1>7, ReadForwardKeeps
  <1>8. CASE ReadBackward
    BY <1>8, ReadBackwardKeeps
  <1>9. CASE ReadFails
    BY <1>9, ReadFailsKeeps
  <1>10. CASE UNCHANGED listVars
    <2>1. /\ UNCHANGED <<listing, perPage, list, lastId, walk, changes, grew, shrank, raced>>
          /\ Slid' = Slid /\ Doubled' = Doubled /\ Backward' = Backward /\ Cursor' = Cursor
          /\ TwoReads' = TwoReads /\ \A i : Ahead(i)' <=> Ahead(i)
      BY <1>10 DEF listVars, Slid, Doubled, Backward, Cursor, TwoReads, Ahead, Offset
    <2>2. ListTypeOK' /\ RowsAreOnce'
      BY <2>1 DEF ListInv, ListTypeOK, RowsAreOnce
    <2>3. WalkFits' /\ MissesNone'
      BY <2>1 DEF ListInv, WalkFits, MissesNone
    <2>4. NoneIsTwice' /\ NoneIsLost'
      BY <2>1 DEF ListInv, NoneIsTwice, NoneIsLost
    <2> QED BY <2>2, <2>3, <2>4 DEF ListInv
  <1> QED BY <1>1, <1>2, <1>3, <1>4, <1>5, <1>6, <1>7, <1>8, <1>9, <1>10 DEF ListNext

\* A walk through the pages of a list sees every row that was in it throughout
\* and none twice, up to what the pages, counts, links and cursors let a change
\* of the list do to it: for every list handler (src/app/api/pagination.py and the
\* endpoints), every length of the list and every number of changes.
THEOREM WalksAreExact == ListSpec => [](ListTypeOK /\ WalkIsExact)
  <1>1. ListInv => ListTypeOK /\ WalkIsExact
    <2>1. ListInv => RepeatsNone
      BY DEF ListInv, NoneIsTwice, Distinct, Doubled, Backward, RepeatsNone
    <2> QED BY <2>1 DEF ListInv, WalkIsExact
  <1> QED BY <1>1, ListStarts, ListSteps, PTL DEF ListSpec
=============================================================================
