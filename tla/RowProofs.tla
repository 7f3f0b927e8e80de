------------------------------- MODULE RowProofs -------------------------------
(***************************************************************************)
(* Rows found by a key, rows found by their owner, and the issue tracker,  *)
(* for any number of requests in flight.  A key keeps to one row where     *)
(* SQLite enforces the constraint, and otherwise unless two requests gave  *)
(* it a row at one time; an owner inherits no row of an earlier one with   *)
(* its id.  A number is given once and none is left out, the count of open *)
(* items is right until requests have overtaken one another, and what      *)
(* GitLab's merge records is in the target branch.                         *)
(***************************************************************************)
EXTENDS KeyedRows, OwnedRows, IssueTracker, FiniteSetTheorems, WellFoundedInduction, TLAPS

Below == OpToRel(<, Nat)

\* The largest id in use, 0 if there is none: FiniteSetsExt's Max is defined only
\* if one exists.
LEMMA Greatest ==
    ASSUME NEW S \in SUBSET Nat, NEW n \in Nat, \A s \in S : s <= n
    PROVE  Max(S \cup {0}) \in Nat /\ \A y \in S \cup {0} : Max(S \cup {0}) >= y
  <1> DEFINE U == S \cup {0}
             T == {n - s : s \in U}
  <1>1. IsWellFoundedOn(Below, Nat)
    BY NatLessThanWellFounded DEF Below
  <1>2. T \subseteq Nat /\ T # {}
    OBVIOUS
  <1>3. PICK t \in T : \A u \in T : ~ (<<u, t>> \in Below)
    <2> HIDE DEF T
    <2> QED BY <1>1, <1>2, WFMin
  <1>4. \A u \in T : ~ (u < t)
    BY <1>2, <1>3 DEF Below, OpToRel
  <1>5. PICK x \in U : t = n - x
    OBVIOUS
  <1>6. \A y \in U : x >= y
    BY <1>4, <1>5
  <1>7. U \subseteq Nat
    OBVIOUS
  <1> HIDE DEF U
  <1>8. Max(U) \in U /\ \A y \in U : Max(U) >= y
    BY <1>6 DEF Max
  <1>9. Max(U) \in Nat /\ \A y \in U : Max(U) >= y
    BY <1>7, <1>8
  <1> QED BY <1>9 DEF U

\* So the id of a new row is not in use.
LEMMA NewIdIsNew ==
    ASSUME NEW S \in SUBSET Nat, NEW n \in Nat, \A s \in S : s <= n
    PROVE  Max(S \cup {0}) + 1 \in Nat \ {0} /\ Max(S \cup {0}) + 1 \notin S
  <1> DEFINE m == Max(S \cup {0})
  <1>1. m \in Nat /\ \A y \in S : m >= y
    BY Greatest
  <1> HIDE DEF m
  <1>2. m + 1 \in Nat \ {0} /\ m + 1 \notin S
    BY <1>1
  <1> QED BY <1>2 DEF m

-----------------------------------------------------------------------------
(* Rows found by a key. *)

\* Their tables have no constraint, and their handlers look before they add.
Looks == {"member", "star"}

\* What a request for one of those tables may be.
Looking(p) == p.op \in {"add", "remove"} /\ (p.op = "add" => p.key = p.to /\ p.id = 0)

\* Inductive: a request that found no row of a key will find none when it
\* commits, unless another one is giving the key a row.
RowsInv ==
    /\ table \in Constrained \cup Unconstrained
    /\ DOMAIN rows \subseteq 1 .. MaxRows /\ rows \in [DOMAIN rows -> Key]
    /\ pending \in [RowCall -> Pending \cup {Idle}]
    /\ overlap \subseteq Key
    /\ KeysAreUnique
    /\ table \in Looks =>
        \A c \in RowCall : pending[c] # Idle =>
            /\ Looking(pending[c])
            /\ pending[c].op = "add" /\ pending[c].to \notin overlap =>
                /\ pending[c].at = "commit" => With(pending[c].to) = {}
                /\ \A d \in RowCall \ {c} :
                    ~(pending[d] # Idle /\ pending[d].op = "add" /\ pending[d].to = pending[c].to)

\* The invariant holds of a table without rows.
LEMMA RowsStart == RowsInit => RowsInv
  <1> SUFFICES ASSUME RowsInit PROVE RowsInv
    OBVIOUS
  <1>1. DOMAIN rows = {} /\ rows \in [DOMAIN rows -> Key]
    BY DEF RowsInit
  <1>2. KeysAreUnique
    BY <1>1 DEF KeysAreUnique
  <1> QED BY <1>1, <1>2 DEF RowsInv, RowsInit

\* Every handler begins in the same way.
Begun(t, c, p) == Arrives(t, c, p) /\ p \in Pending /\ (t \in Looks => Looking(p) /\ p.at = "look")

\* Every handler begins in this way.
LEMMA HandlersBegin ==
    ASSUME RowsInv, NEW c \in RowCall,
           \/ \E k \in Key : AddStep(c, k) \/ RemoveStep(c, k) \/ \E to \in Key : RenameStep(c, k, to)
           \/ \E i \in DOMAIN rows : ShownStep(c, i)
           \/ CreateProjectMilestone(c) \/ CreateMilestone(c) \/ RepoMilestoneCreate(c)
    PROVE  \E t, p : Begun(t, c, p)
  <1> USE DEF Looks
  <1>1. ASSUME NEW t, NEW op \in {"add", "insert", "remove", "rename"}, NEW k \in Key, NEW to \in Key,
               ByKey(t, c, op, k, to), t \in Looks => op \in {"add", "remove"} /\ k = to
        PROVE  \E u, p : Begun(u, c, p)
    <2> DEFINE p == [op |-> op, key |-> k, id |-> 0, to |-> to,
                     at |-> IF op = "insert" THEN "commit" ELSE "look"]
    <2>1. p \in Pending /\ (t \in Looks => Looking(p) /\ p.at = "look")
      BY <1>1 DEF Pending, Looking
    <2>2. Arrives(t, c, p)
      BY <1>1 DEF ByKey
    <2> QED BY <2>1, <2>2 DEF Begun
  <1>2. ASSUME NEW t \in (Constrained \cup Unconstrained) \ Looks, NEW op \in {"remove", "rename"},
               NEW i \in DOMAIN rows, NEW to \in Key, ById(t, c, op, i, to)
        PROVE  \E u, p : Begun(u, c, p)
    <2> DEFINE p == [op |-> op, key |-> rows[i], id |-> i, to |-> to, at |-> "look"]
    <2>1. p \in Pending
      BY DEF RowsInv, Pending
    <2>2. Arrives(t, c, p) /\ t \notin Looks
      BY <1>2 DEF ById
    <2> QED BY <2>1, <2>2 DEF Begun
  <1>3. ASSUME NEW k \in Key, AddStep(c, k)
        PROVE  (\E t : Add(t, c, k)) \/ (\E t : t \notin Looks /\ Insert(t, c, k))
    BY <1>3 DEF AddStep, CreateProjectLabel, CreateLabel, RepoLabelCreate, CreateProjectVariable,
        CreateProjectSecret, CreateGroupVariable, CreateGroupSecret, RepoVariableCreate, RepoSecretCreate,
        AdminGroupVariableCreate, AdminGroupSecretCreate, CreateOrUpdateSecret, CreateVariable,
        CreateIssueReaction, CreateCommentReaction, CreateGroup, CreateOrg, AdminCreateOrg,
        AddProjectMember, AddCollaborator, RepoMemberCreate, AddGroupMember, StarRepo,
        CreateProjectRelease, RepoReleaseCreate, CreateRelease, CreateTeam, CreateInstanceVariable,
        CreateInstanceCiVariable
  <1>4. ASSUME NEW k \in Key, RemoveStep(c, k)
        PROVE  \E t : Delete(t, c, k)
    BY <1>4 DEF RemoveStep, DeleteProjectLabel, DeleteLabel, DeleteProjectVariable, DeleteProjectSecret,
        DeleteGroupVariable, DeleteGroupSecret, DeleteSecret, DeleteVariable, DeleteMilestone,
        DeleteProjectMember, RemoveCollaborator, RepoMemberDelete, DeleteGroupMember, UnstarRepo,
        DeleteProjectRelease, DeleteInstanceVariable
  <1>5. ASSUME NEW k \in Key, NEW to \in Key, RenameStep(c, k, to)
        PROVE  \E t : t \notin Looks /\ Rename(t, c, k, to)
    BY <1>5 DEF RenameStep, UpdateProjectLabel, UpdateLabel, UpdateProjectVariable, UpdateProjectSecret,
        UpdateGroupVariable, UpdateGroupSecret, UpdateVariable, UpdateInstanceVariable
  <1>6. ASSUME NEW i \in DOMAIN rows, ShownStep(c, i)
        PROVE  \E t \in (Constrained \cup Unconstrained) \ Looks :
                   RemoveShown(t, c, i) \/ \E to \in Key : RenameShown(t, c, i, to)
    BY <1>6 DEF ShownStep, RepoLabelDelete, RepoVariableDelete, RepoSecretDelete, AdminGroupVariableDelete,
        AdminGroupSecretDelete, DeleteIssueReaction, DeleteCommentReaction, DeleteProjectMilestone,
        RepoMilestoneDelete, DeleteRelease, RepoReleaseDelete, DeleteTeam, DeleteInstanceCiVariable,
        RepoLabelUpdate, RepoVariableUpdate, RepoSecretUpdate, AdminGroupVariableUpdate,
        AdminGroupSecretUpdate, UpdateRelease, UpdateTeam, UpdateInstanceCiVariable, Constrained, Unconstrained
  <1>7. ASSUME CreateProjectMilestone(c) \/ CreateMilestone(c) \/ RepoMilestoneCreate(c)
        PROVE  \E k \in Key : Insert("milestone", c, k)
    BY <1>7 DEF CreateProjectMilestone, CreateMilestone, RepoMilestoneCreate
  <1>8. \A i \in DOMAIN rows : rows[i] \in Key
    BY DEF RowsInv
  <1>9. ASSUME NEW k \in Key, AddStep(c, k) PROVE \E t, p : Begun(t, c, p)
    BY <1>1, <1>3, <1>9 DEF Add, Insert
  <1>10. ASSUME NEW k \in Key, RemoveStep(c, k) PROVE \E t, p : Begun(t, c, p)
    BY <1>1, <1>4, <1>10 DEF Delete
  <1>11. ASSUME NEW k \in Key, NEW to \in Key, RenameStep(c, k, to) PROVE \E t, p : Begun(t, c, p)
    BY <1>1, <1>5, <1>11 DEF Rename
  <1>12. ASSUME NEW i \in DOMAIN rows, ShownStep(c, i) PROVE \E t, p : Begun(t, c, p)
    BY <1>2, <1>6, <1>8, <1>12 DEF RemoveShown, RenameShown
  <1>13. ASSUME CreateProjectMilestone(c) \/ CreateMilestone(c) \/ RepoMilestoneCreate(c)
         PROVE  \E t, p : Begun(t, c, p)
    BY <1>1, <1>7, <1>13 DEF Insert
  <1> QED BY <1>9, <1>10, <1>11, <1>12, <1>13

\* A request arrives: two that give one key a row mark the key.
LEMMA ArrivesKeeps ==
    ASSUME RowsInv, NEW c \in RowCall, NEW t, NEW p, Begun(t, c, p)
    PROVE  RowsInv'
  <1>1. /\ table = t /\ pending[c] = Idle
        /\ pending' = [pending EXCEPT ![c] = p]
        /\ overlap' = overlap \cup
               {p.to : q \in {o \in {pending[d] : d \in RowCall} \ {Idle} : Keeps(o) /\ Keeps(p) /\ o.to = p.to}}
        /\ table' = table /\ rows' = rows /\ p \in Pending
    BY DEF Begun, Arrives
  <1>2. overlap \subseteq overlap' /\ overlap' \subseteq Key
    BY <1>1 DEF RowsInv, Pending
  <1>3. pending' \in [RowCall -> Pending \cup {Idle}]
    BY <1>1 DEF RowsInv
  <1>4. KeysAreUnique'
    BY <1>1, <1>2 DEF RowsInv, KeysAreUnique
  <1>5. ASSUME table' \in Looks, NEW d \in RowCall, pending'[d] # Idle
        PROVE  /\ Looking(pending'[d])
               /\ pending'[d].op = "add" /\ pending'[d].to \notin overlap' =>
                   /\ pending'[d].at = "commit" => With(pending'[d].to) = {}
                   /\ \A e \in RowCall \ {d} :
                       ~(pending'[e] # Idle /\ pending'[e].op = "add" /\ pending'[e].to = pending'[d].to)
    <2>0. Looking(p) /\ p.at = "look"
      BY <1>1, <1>5 DEF Begun
    <2>1. Looking(pending'[d])
      BY <1>1, <1>3, <1>5, <2>0 DEF RowsInv
    <2>2. ASSUME pending'[d].op = "add", pending'[d].to \notin overlap', pending'[d].at = "commit"
          PROVE  With(pending'[d].to) = {}
      <3>1. d # c
        BY <1>1, <2>0, <2>2 DEF RowsInv
      <3>2. pending'[d] = pending[d]
        BY <1>1, <3>1 DEF RowsInv
      <3> QED BY <1>1, <1>2, <1>5, <2>2, <3>2 DEF RowsInv
    <2>3. ASSUME pending'[d].op = "add", pending'[d].to \notin overlap', NEW e \in RowCall \ {d},
                 pending'[e] # Idle, pending'[e].op = "add", pending'[e].to = pending'[d].to
          PROVE  FALSE
      <3>1. CASE d # c /\ e # c
        <4>1. pending'[d] = pending[d] /\ pending'[e] = pending[e]
          BY <1>1, <3>1 DEF RowsInv
        <4> QED BY <1>1, <1>2, <1>5, <2>3, <4>1 DEF RowsInv
      <3>2. ASSUME NEW o \in RowCall, o # c, pending[o] # Idle, pending[o].op = "add", p.op = "add",
                   pending[o].to = p.to
            PROVE  p.to \in overlap'
        BY <1>1, <3>2 DEF Keeps
      <3>3. CASE d = c
        <4>1. pending'[d] = p /\ pending'[e] = pending[e]
          BY <1>1, <3>3 DEF RowsInv
        <4> QED BY <2>3, <3>2, <3>3, <4>1
      <3>4. CASE e = c
        <4>1. pending'[e] = p /\ pending'[d] = pending[d]
          BY <1>1, <2>3, <3>4 DEF RowsInv
        <4> QED BY <1>5, <2>3, <3>2, <3>4, <4>1
      <3> QED BY <3>1, <3>3, <3>4
    <2> QED BY <2>1, <2>2, <2>3
  <1>6. (\A k : With(k) = With(k)')
    BY <1>1 DEF With
  <1> QED BY <1>1, <1>2, <1>3, <1>4, <1>5, <1>6 DEF RowsInv

\* A request goes on or ends, and no row changes that it would look for.
LEMMA LookKeeps ==
    ASSUME RowsInv, NEW c \in RowCall, Look(c)
    PROVE  RowsInv'
  <1> DEFINE p == pending[c]
             found == IF p.id # 0 THEN {p.id} \cap DOMAIN rows ELSE With(p.key)
             r == IF p.op = "add" /\ found = {} THEN [p EXCEPT !.at = "commit"]
                  ELSE IF p.op # "add" /\ Cardinality(found) = 1
                       THEN [p EXCEPT !.at = "commit", !.id = CHOOSE i \in found : TRUE]
                       ELSE Idle
  <1>1. /\ p # Idle /\ p \in Pending /\ pending' = [pending EXCEPT ![c] = r]
        /\ table' = table /\ rows' = rows /\ overlap' = overlap
    BY DEF Look, RowsInv
  <1>2. found \subseteq DOMAIN rows /\ DOMAIN rows \subseteq Nat
    BY RowBounds DEF With, RowsInv
  <1>3. ASSUME Cardinality(found) = 1
        PROVE  (CHOOSE i \in found : TRUE) \in Nat
    <2>1. found # {}
      BY <1>3, FS_EmptySet
    <2> QED BY <1>2, <2>1
  <1>4. r \in Pending \cup {Idle}
    <2> HIDE DEF found
    <2> QED BY <1>1, <1>3 DEF Pending
  <1>5. /\ r # Idle => r.op = p.op /\ r.to = p.to
        /\ r # Idle /\ r.op = "add" => r.key = p.key /\ r.id = p.id /\ found = {}
    <2> HIDE DEF found
    <2> QED BY <1>1 DEF Pending
  <1>6. KeysAreUnique'
    BY <1>1 DEF RowsInv, KeysAreUnique
  <1>7. ASSUME table' \in Looks, NEW d \in RowCall, pending'[d] # Idle
        PROVE  /\ Looking(pending'[d])
               /\ pending'[d].op = "add" /\ pending'[d].to \notin overlap' =>
                   /\ pending'[d].at = "commit" => With(pending'[d].to) = {}
                   /\ \A e \in RowCall \ {d} :
                       ~(pending'[e] # Idle /\ pending'[e].op = "add" /\ pending'[e].to = pending'[d].to)
    <2>0. p.op = "add" => p.key = p.to /\ p.id = 0
      BY <1>1, <1>7 DEF RowsInv, Looking
    <2>1. \A e \in RowCall : pending'[e] = IF e = c THEN r ELSE pending[e]
      BY <1>1 DEF RowsInv
    <2>2. \A e \in RowCall : pending'[e] # Idle =>
              pending[e] # Idle /\ pending'[e].op = pending[e].op /\ pending'[e].to = pending[e].to
      <3> HIDE DEF r
      <3> QED BY <1>1, <1>5, <2>1
    <2>3. Looking(pending'[d])
      <3> HIDE DEF r
      <3>1. Looking(pending[d])
        BY <1>1, <1>7, <2>2 DEF RowsInv
      <3> QED BY <1>5, <1>7, <2>0, <2>1, <3>1 DEF Looking
    <2>4. ASSUME pending'[d].op = "add", pending'[d].to \notin overlap', pending'[d].at = "commit"
          PROVE  With(pending'[d].to) = {}
      <3>1. CASE d = c
        <4>1. found = {} /\ p.id = 0 /\ p.key = p.to
          <5> HIDE DEF r, found
          <5> QED BY <1>5, <1>7, <2>0, <2>1, <2>4, <3>1
        <4> QED BY <2>2, <3>1, <4>1, <1>7
      <3>2. CASE d # c
        BY <1>1, <1>7, <2>1, <2>4, <3>2 DEF RowsInv
      <3> QED BY <3>1, <3>2
    <2>5. ASSUME pending'[d].op = "add", pending'[d].to \notin overlap', NEW e \in RowCall \ {d},
                 pending'[e] # Idle, pending'[e].op = "add", pending'[e].to = pending'[d].to
          PROVE  FALSE
      <3> HIDE DEF r
      <3> QED BY <1>1, <1>7, <2>2, <2>5 DEF RowsInv
    <2> QED BY <2>3, <2>4, <2>5
  <1>8. (\A k : With(k) = With(k)')
    BY <1>1 DEF With
  <1>9. pending' \in [RowCall -> Pending \cup {Idle}]
    <2> HIDE DEF r
    <2> QED BY <1>1, <1>4 DEF RowsInv
  <1> HIDE DEF r, p, found
  <1> QED BY <1>1, <1>6, <1>7, <1>8, <1>9 DEF RowsInv

\* A request ends, and gives no other key a row.
LEMMA DoneKeeps ==
    ASSUME RowsInv, NEW c \in RowCall, Done(c),
           DOMAIN rows' \subseteq 1 .. MaxRows, rows' \in [DOMAIN rows' -> Key],
           KeysAreUnique',
           \A i \in DOMAIN rows' : table \in Looks =>
               \/ \E j \in DOMAIN rows : rows[j] = rows'[i]
               \/ pending[c] # Idle /\ pending[c].op = "add" /\ pending[c].to = rows'[i]
    PROVE  RowsInv'
  <1>1. pending' = [pending EXCEPT ![c] = Idle] /\ table' = table /\ overlap' = overlap
    BY DEF Done
  <1>2. \A d \in RowCall : pending'[d] # Idle => d # c /\ pending'[d] = pending[d]
    BY <1>1 DEF RowsInv
  <1>3. ASSUME table' \in Looks, NEW d \in RowCall, pending'[d] # Idle
        PROVE  /\ Looking(pending'[d])
               /\ pending'[d].op = "add" /\ pending'[d].to \notin overlap' =>
                   /\ pending'[d].at = "commit" => \A i \in DOMAIN rows' : rows'[i] # pending'[d].to
                   /\ \A e \in RowCall \ {d} :
                       ~(pending'[e] # Idle /\ pending'[e].op = "add" /\ pending'[e].to = pending'[d].to)
    <2>1. d # c /\ pending'[d] = pending[d] /\ table \in Looks /\ pending[d] # Idle
      BY <1>1, <1>2, <1>3
    <2>2. Looking(pending'[d])
      BY <2>1 DEF RowsInv
    <2>3. ASSUME pending[d].op = "add", pending[d].to \notin overlap, NEW e \in RowCall \ {d},
                 pending[e] # Idle, pending[e].op = "add", pending[e].to = pending[d].to
          PROVE  FALSE
      BY <2>1, <2>3 DEF RowsInv
    <2>4. ASSUME pending[d].op = "add", pending[d].to \notin overlap, pending[d].at = "commit",
                 NEW i \in DOMAIN rows', rows'[i] = pending[d].to
          PROVE  FALSE
      <3>1. \A j \in DOMAIN rows : rows[j] # pending[d].to
        BY <2>1, <2>4 DEF RowsInv, With
      <3>2. pending[c] # Idle /\ pending[c].op = "add" /\ pending[c].to = pending[d].to
        BY <2>1, <2>4, <3>1
      <3> QED BY <2>1, <2>3, <2>4, <3>2
    <2> QED BY <1>1, <1>2, <2>1, <2>2, <2>3, <2>4
  <1>4. pending' \in [RowCall -> Pending \cup {Idle}]
    BY <1>1 DEF RowsInv
  <1>5. ASSUME table' \in Looks
        PROVE  \A d \in RowCall : pending'[d] # Idle =>
                   /\ Looking(pending'[d])
                   /\ pending'[d].op = "add" /\ pending'[d].to \notin overlap' =>
                       /\ pending'[d].at = "commit" => With(pending[d].to)' = {}
                       /\ \A e \in RowCall \ {d} :
                           ~(pending'[e] # Idle /\ pending'[e].op = "add" /\ pending'[e].to = pending'[d].to)
    BY <1>3, <1>5 DEF With
  <1> QED BY <1>1, <1>4, <1>5 DEF RowsInv

\* A new row has a key that no row had, or one that two requests were giving a row.
LEMMA LandRowKeeps ==
    ASSUME RowsInv, NEW c \in RowCall, LandRow(c)
    PROVE  RowsInv'
  <1> DEFINE i == Max(DOMAIN rows \cup {0}) + 1
             k == pending[c].to
  <1>1. /\ Done(c) /\ i <= MaxRows /\ Admits(0, k)
        /\ rows' = [j \in DOMAIN rows \cup {i} |-> IF j = i THEN k ELSE rows[j]]
        /\ Committing(c, {"add", "insert"})
    BY DEF LandRow
  <1>2. i \in Nat \ {0} /\ i \notin DOMAIN rows
    <2>1. DOMAIN rows \in SUBSET Nat /\ \A s \in DOMAIN rows : s <= MaxRows
      BY RowBounds DEF RowsInv
    <2> QED BY <2>1, RowBounds, NewIdIsNew
  <1> HIDE DEF i
  <1>3. k \in Key /\ pending[c] # Idle
    BY <1>1 DEF Committing, RowsInv, Pending
  <1>4. DOMAIN rows' = DOMAIN rows \cup {i} /\ i \in 1 .. MaxRows
    BY <1>1, <1>2, RowBounds
  <1>5. rows' \in [DOMAIN rows' -> Key] /\ DOMAIN rows' \subseteq 1 .. MaxRows
    BY <1>1, <1>3, <1>4 DEF RowsInv
  <1>6. table \in Constrained \cup Looks => (With(k) = {} \/ (table \notin Constrained /\ k \in overlap))
    <2>1. CASE table \in Constrained
      BY <1>1, <2>1, RowBounds DEF Admits, With, RowsInv
    <2>2. CASE table \in Looks
      <3>1. table \notin Constrained
        BY <2>2 DEF Looks, Constrained
      <3>2. pending[c].op = "add" /\ pending[c].at = "commit"
        BY <1>1, <1>3, <2>2 DEF RowsInv, Looking, Committing
      <3> QED BY <1>3, <2>2, <3>1, <3>2 DEF RowsInv
    <2> QED BY <2>1, <2>2
  <1>7. KeysAreUnique'
    <2>1. table' = table /\ overlap' = overlap
      BY <1>1 DEF Done
    <2> SUFFICES ASSUME table \in Constrained \cup Looks, NEW m \in DOMAIN rows', NEW n \in DOMAIN rows',
                        m # n, rows'[m] = rows'[n]
                 PROVE  table \notin Constrained /\ rows'[m] \in overlap
      BY <2>1 DEF KeysAreUnique, Looks
    <2>2. CASE m # i /\ n # i
      BY <1>1, <1>4, <2>2 DEF RowsInv, KeysAreUnique, Looks
    <2>3. CASE m = i \/ n = i
      BY <1>1, <1>4, <1>6, <2>3 DEF With
    <2> QED BY <2>2, <2>3
  <1>8. \A j \in DOMAIN rows' : table \in Looks =>
               \/ \E n \in DOMAIN rows : rows[n] = rows'[j]
               \/ pending[c] # Idle /\ pending[c].op = "add" /\ k = rows'[j]
    <2>1. table \in Looks => pending[c].op = "add"
      BY <1>1, <1>3 DEF RowsInv, Looking, Committing
    <2> QED BY <1>1, <1>3, <1>4, <2>1
  <1> QED BY <1>1, <1>5, <1>7, <1>8, DoneKeeps

\* Renames exist only where the constraint is, or where nothing is promised.
LEMMA LandRenameKeeps ==
    ASSUME RowsInv, NEW c \in RowCall, LandRename(c)
    PROVE  RowsInv'
  <1> DEFINE i == pending[c].id
             k == pending[c].to
  <1>1. /\ Done(c) /\ Admits(i, k) /\ i \in DOMAIN rows
        /\ rows' = [rows EXCEPT ![i] = k]
        /\ pending[c] # Idle /\ pending[c].op = "rename"
    BY DEF LandRename, Committing
  <1>2. k \in Key /\ table \notin Looks
    BY <1>1 DEF RowsInv, Pending, Looking
  <1>3. rows' \in [DOMAIN rows' -> Key] /\ DOMAIN rows' = DOMAIN rows
    BY <1>1, <1>2 DEF RowsInv
  <1>4. KeysAreUnique'
    <2>1. table' = table
      BY <1>1 DEF Done
    <2> SUFFICES ASSUME table \in Constrained, NEW m \in DOMAIN rows', NEW n \in DOMAIN rows',
                        m # n, rows'[m] = rows'[n]
                 PROVE  FALSE
      BY <1>2, <2>1 DEF KeysAreUnique, Looks
    <2>2. \A j \in DOMAIN rows : rows[j] = k => j = i
      BY <1>1 DEF Admits, With
    <2>3. rows[m] # rows[n]
      BY <1>3 DEF RowsInv, KeysAreUnique
    <2> QED BY <1>1, <1>3, <2>2, <2>3
  <1> QED BY <1>1, <1>2, <1>3, <1>4, DoneKeeps DEF RowsInv

\* Removing a row keeps the keys unique.
LEMMA LandRemoveKeeps ==
    ASSUME RowsInv, NEW c \in RowCall, LandRemove(c)
    PROVE  RowsInv'
  <1>1. /\ Done(c)
        /\ rows' = [j \in DOMAIN rows \ {pending[c].id} |-> rows[j]]
    BY DEF LandRemove
  <1>2. KeysAreUnique'
    BY <1>1 DEF RowsInv, KeysAreUnique, Done
  <1>3. DOMAIN rows' \subseteq 1 .. MaxRows /\ rows' \in [DOMAIN rows' -> Key]
    BY <1>1 DEF RowsInv
  <1> QED BY <1>1, <1>2, <1>3, DoneKeeps

\* A request that is refused or dropped changes no row.
LEMMA GiveUpRowKeeps ==
    ASSUME RowsInv, NEW c \in RowCall, GiveUpRow(c)
    PROVE  RowsInv'
  <1>1. Done(c) /\ rows' = rows
    BY DEF GiveUpRow
  <1>2. KeysAreUnique'
    BY <1>1 DEF RowsInv, KeysAreUnique, Done
  <1> QED BY <1>1, <1>2, DoneKeeps DEF RowsInv

\* Every step keeps the invariant.
LEMMA RowsSteps == RowsInv /\ [RowsNext]_rowVars => RowsInv'
  <1> SUFFICES ASSUME RowsInv, [RowsNext]_rowVars PROVE RowsInv'
    OBVIOUS
  <1>1. ASSUME NEW c \in RowCall,
               \/ \E k \in Key : AddStep(c, k) \/ RemoveStep(c, k) \/ \E to \in Key : RenameStep(c, k, to)
               \/ \E i \in DOMAIN rows : ShownStep(c, i)
               \/ CreateProjectMilestone(c) \/ CreateMilestone(c) \/ RepoMilestoneCreate(c)
        PROVE  RowsInv'
    BY <1>1, HandlersBegin, ArrivesKeeps
  <1>2. ASSUME NEW c \in RowCall, Look(c) \/ LandRow(c) \/ LandRename(c) \/ LandRemove(c) \/ GiveUpRow(c)
        PROVE  RowsInv'
    BY <1>2, LookKeeps, LandRowKeeps, LandRenameKeeps, LandRemoveKeeps, GiveUpRowKeeps
  <1>3. CASE UNCHANGED rowVars
    BY <1>3 DEF rowVars, RowsInv, KeysAreUnique, With
  <1> QED BY <1>1, <1>2, <1>3 DEF RowsNext

\* However many requests are in flight, a key keeps to one row: where SQLite
\* enforces the constraint always, for members, stars and memberships unless two
\* requests were giving the key a row at one time.
THEOREM KeysStayUnique == RowsSpec => []KeysAreUnique
  <1>1. RowsInv => KeysAreUnique
    BY DEF RowsInv
  <1> QED BY <1>1, RowsStart, RowsSteps, PTL DEF RowsSpec

-----------------------------------------------------------------------------
(* Rows found by their owner. *)

Deleting(r) == r # NoRequest /\ r.op \in {"delete", "delete_alone"}

\* A deletion in flight has seen every row of the owner it will take with it.
SeenBy(r) == \A i \in DOMAIN owned : owned[i].of = r.id /\ ~owned[i].late => i \in r.loaded

\* Inductive: what a deletion has not seen was written while it was in flight.
OwnedInv ==
    /\ DOMAIN owners \subseteq 1 .. MaxOwner /\ DOMAIN request = OwnerCall
    /\ NothingInherited
    /\ DeletesRows(kind) # "none" => \A d \in OwnerCall : Deleting(request[d]) => SeenBy(request[d])

\* The invariant holds where nobody owns anything.
LEMMA OwnedStart == OwnedInit => OwnedInv
  <1> SUFFICES ASSUME OwnedInit PROVE OwnedInv
    OBVIOUS
  <1>1. DOMAIN owners = {} /\ DOMAIN owned = {} /\ DOMAIN request = OwnerCall
    BY DEF OwnedInit
  <1> QED BY <1>1 DEF OwnedInv, NothingInherited, SeenBy

\* The handlers take a request; a deletion loads the rows of its owner.
Starts(c, r) ==
    /\ request[c] = NoRequest /\ request' = [request EXCEPT ![c] = r]
    /\ Deleting(r) => r.loaded = RowsOf(r.id)
    /\ UNCHANGED <<kind, owners, births, owned>>

\* An owner gets a row in one way.
LEMMA AddsAre ==
    ASSUME NEW c, NEW o, AddOwned(c, o)
    PROVE  \E k : AddTo(k, c, o)
  BY DEF AddOwned, CreateProjectHook, CreateHook, RepoWebhookCreate, CreateGroupHook,
      CreateProjectDeployKey, CreateDeployKey, RepoDeployKeyCreate, CreateProjectSnippet,
      RepoSnippetCreate, CreatePersonalSnippet, CreateStatus, CreateProjectCommitStatus,
      CreateCheckSuite, CreateCheckRun, AddActionsRow, CreatePipelineTrigger, AddSchedule, AddCiRow,
      AddPipeline, AddPart, CreateComment, GraphqlAddComment, GraphqlAddReaction, CreateReview,
      CreateReviewComment, AddIssueLabels, SetIssueLabels, CreateProjectReleaseAssetLink,
      AddMembership, AddProject, CreateToken, AdminCreateToken, AccessToken, CreateKey,
      CreateGpgKey, CreateGist

\* A row is changed in one way.
LEMMA ChangesAre ==
    ASSUME NEW c, NEW i, ChangeOwned(c, i)
    PROVE  \E k : ChangeRow(k, c, i)
  BY DEF ChangeOwned, UpdateProjectHook, UpdateHook, RepoWebhookUpdate, UpdateGroupHook,
      UpdateCheckRun, TriggerPipeline, UpsertScheduleVariable, DeleteScheduleVariable,
      KeepProjectJobArtifacts, StopProjectEnvironment, UpdateProjectMilestone, UpdateMilestone,
      UpdateComment, SubmitReview, DismissReview, UpdateReviewComment,
      UpdateProjectReleaseAssetLink, ValidateToken, UpdateGist

\* A row is removed in one way.
LEMMA RemovesAre ==
    ASSUME NEW c, NEW i, RemoveOwned(c, i)
    PROVE  \E k : RemoveRow(k, c, i)
  BY DEF RemoveOwned, DeleteProjectHook, DeleteHook, RepoWebhookDelete, DeleteGroupHook,
      DeleteProjectDeployKey, DeleteDeployKey, RepoDeployKeyDelete, RepoSnippetDelete,
      DeletePersonalSnippet, DeletePipelineTrigger, RemoveSchedule, DeletePipeline,
      DeleteProjectPipelinesEndpoint, DeleteRepoPipelines, RemovePart, DeleteComment,
      DeleteReviewComment, RemoveIssueLabel, DeleteProjectReleaseAssetLink, RevokeToken,
      DeleteKey, DeleteGpgKey, DeleteGist

\* An owner is deleted with its links or alone.
LEMMA DeletionsAre ==
    ASSUME NEW c, NEW o, DeleteOwners(c, o)
    PROVE  \E k : \E op \in {"delete", "delete_alone"} : DeleteOwner(k, c, o, op)
  BY DEF DeleteOwners, DeleteProject, DeleteRepo, RepoDeleteSubmit, AdminDeleteRepo, DeleteOrg,
      DeleteUser, DeleteWithProject, DeleteReleaseAndLinks, DeleteReleaseAlone, RepoReleaseDeleteAlone

\* Every handler starts in this way.
LEMMA HandlersStart ==
    ASSUME NEW c \in OwnerCall,
           \/ \E o \in DOMAIN owners : AddOwned(c, o) \/ DeleteOwners(c, o)
           \/ \E i \in DOMAIN owned : ChangeOwned(c, i) \/ RemoveOwned(c, i)
    PROVE  \E r : Starts(c, r)
  <1>1. ASSUME NEW k, NEW o, AddTo(k, c, o) PROVE \E r : Starts(c, r)
    BY <1>1 DEF AddTo, Begins, Starts, Deleting
  <1>2. ASSUME NEW k, NEW i, ChangeRow(k, c, i) \/ RemoveRow(k, c, i) PROVE \E r : Starts(c, r)
    BY <1>2 DEF ChangeRow, RemoveRow, Begins, Starts, Deleting
  <1>3. ASSUME NEW k, NEW o, NEW op, DeleteOwner(k, c, o, op) PROVE \E r : Starts(c, r)
    BY <1>3 DEF DeleteOwner, Begins, Starts, Deleting
  <1> QED BY <1>1, <1>2, <1>3, AddsAre, ChangesAre, RemovesAre, DeletionsAre

\* A request that starts has seen the rows there are.
LEMMA StartsKeeps ==
    ASSUME OwnedInv, NEW c \in OwnerCall, NEW r, Starts(c, r)
    PROVE  OwnedInv'
  <1>1. NothingInherited'
    BY DEF OwnedInv, NothingInherited, Starts
  <1>2. ASSUME NEW d \in OwnerCall, Deleting(request'[d]), DeletesRows(kind) # "none"
        PROVE  SeenBy(request[d])'
    BY <1>2 DEF OwnedInv, SeenBy, Starts, RowsOf
  <1> QED BY <1>1, <1>2 DEF OwnedInv, Starts, Deleting

\* The id of a new owner is no row's but those that were left behind.
LEMMA CreateOwnerKeeps ==
    ASSUME OwnedInv, CreateOwner
    PROVE  OwnedInv'
  <1> DEFINE o == NextId(owners)
  <1>1. o <= MaxOwner /\ UNCHANGED <<kind, owned, request>>
        /\ owners' = [p \in DOMAIN owners \cup {o} |-> IF p = o THEN births' ELSE owners[p]]
    BY DEF CreateOwner
  <1>2. o \in Nat \ {0} /\ o \notin DOMAIN owners
    <2>1. DOMAIN owners \in SUBSET Nat /\ MaxOwner \in Nat /\ \A s \in DOMAIN owners : s <= MaxOwner
      BY OwnedBounds DEF OwnedInv
    <2> QED BY <2>1, NewIdIsNew DEF NextId
  <1> HIDE DEF o
  <1>3. DOMAIN owners' \subseteq 1 .. MaxOwner
    BY <1>1, <1>2, OwnedBounds DEF OwnedInv
  <1>4. NothingInherited'
    BY <1>1, <1>2 DEF OwnedInv, NothingInherited
  <1> QED BY <1>1, <1>3, <1>4 DEF OwnedInv, SeenBy

\* The end of a request: the others remain.
LEMMA AnsweredLeaves ==
    ASSUME OwnedInv, NEW c \in OwnerCall, Answered(c)
    PROVE  /\ kind' = kind /\ DOMAIN request' = OwnerCall
           /\ \A d \in OwnerCall : Deleting(request'[d]) => request'[d] = request[d] /\ Deleting(request[d])
  BY DEF OwnedInv, Answered, Deleting

\* A row that is not late has its owner, and no deletion of it is in flight.
LEMMA WriteRowKeeps ==
    ASSUME OwnedInv, NEW c \in OwnerCall, WriteRow(c)
    PROVE  OwnedInv'
  <1> DEFINE i == NextId(owned)
             o == request[c].id
             there == o \in DOMAIN owners /\ owners[o] = request[c].born
             new == [of |-> o, born |-> request[c].born, late |-> ~there \/ BeingDeleted(o)]
  <1>1. /\ owned' = [j \in DOMAIN owned \cup {i} |-> IF j = i THEN new ELSE owned[j]]
        /\ Answered(c) /\ UNCHANGED <<owners, births>>
    BY DEF WriteRow
  <1> HIDE DEF i
  <1>2. NothingInherited'
    BY <1>1, AnsweredLeaves DEF OwnedInv, NothingInherited
  <1>3. ASSUME NEW d \in OwnerCall, Deleting(request'[d]), DeletesRows(kind) # "none",
               NEW j \in DOMAIN owned', owned'[j].of = request'[d].id, ~owned'[j].late
        PROVE  j \in request'[d].loaded
    <2>1. request'[d] = request[d] /\ Deleting(request[d])
      BY <1>1, <1>3, AnsweredLeaves
    <2>2. j # i
      BY <1>1, <1>3, <2>1 DEF BeingDeleted, Deleting
    <2> QED BY <1>1, <1>3, <2>1, <2>2 DEF OwnedInv, SeenBy
  <1> QED BY <1>1, <1>2, <1>3, AnsweredLeaves DEF OwnedInv, SeenBy

\* Rows that stay as they are, with an owner they have.
LEMMA FewerRowsKeep ==
    ASSUME OwnedInv, NEW c \in OwnerCall, Answered(c),
           DOMAIN owners' \subseteq DOMAIN owners, \A o \in DOMAIN owners' : owners'[o] = owners[o],
           DOMAIN owned' \subseteq DOMAIN owned,
           \A i \in DOMAIN owned' : /\ owned'[i] = owned[i]
                                    /\ DeletesRows(kind) # "none" /\ owned[i].of \in DOMAIN owners =>
                                          owned[i].late \/ owned[i].of \in DOMAIN owners'
    PROVE  OwnedInv'
  <1>1. NothingInherited'
    BY AnsweredLeaves DEF OwnedInv, NothingInherited
  <1>2. ASSUME NEW d \in OwnerCall, Deleting(request'[d]), DeletesRows(kind) # "none"
        PROVE  SeenBy(request[d])'
    BY <1>2, AnsweredLeaves DEF OwnedInv, SeenBy
  <1> QED BY <1>1, <1>2, AnsweredLeaves DEF OwnedInv

\* A deletion takes with it, or is refused for, every row of its owner.
LEMMA WriteDeleteKeeps ==
    ASSUME OwnedInv, NEW c \in OwnerCall, WriteDelete(c)
    PROVE  OwnedInv'
  <1> DEFINE how == IF request[c].op = "delete_alone" THEN "refused" ELSE DeletesRows(kind)
             o == request[c].id
  <1>1. /\ Deleting(request[c]) /\ Answered(c)
        /\ how = "refused" => request[c].loaded = {}
        /\ owners' = [p \in DOMAIN owners \ {o} |-> owners[p]]
        /\ owned' = [i \in Left(c, how) |-> owned[i]]
    BY DEF WriteDelete, Writes, Deleting
  <1>2. DeletesRows(kind) # "none" => how \in {"all", "loaded", "refused"}
    BY DEF DeletesRows, OfProject, OfOther
  <1> HIDE DEF how
  <1>3. Left(c, how) \subseteq DOMAIN owned
    BY DEF Left
  <1>4. ASSUME DeletesRows(kind) # "none", NEW i \in Left(c, how), owned[i].of = o, ~owned[i].late
        PROVE  FALSE
    <2>1. i \in request[c].loaded
      BY <1>1, <1>3, <1>4 DEF OwnedInv, SeenBy
    <2> QED BY <1>1, <1>2, <1>4, <2>1 DEF Left, RowsOf
  <1> QED BY <1>1, <1>3, <1>4, FewerRowsKeep

\* Every step keeps the invariant.
LEMMA OwnedSteps == OwnedInv /\ [OwnedNext]_ownedVars => OwnedInv'
  <1> SUFFICES ASSUME OwnedInv, [OwnedNext]_ownedVars PROVE OwnedInv'
    OBVIOUS
  <1>1. ASSUME NEW c \in OwnerCall,
               \/ \E o \in DOMAIN owners : AddOwned(c, o) \/ DeleteOwners(c, o)
               \/ \E i \in DOMAIN owned : ChangeOwned(c, i) \/ RemoveOwned(c, i)
        PROVE  OwnedInv'
    BY <1>1, HandlersStart, StartsKeeps
  <1>2. ASSUME NEW c \in OwnerCall, WriteChange(c) \/ WriteRemove(c) \/ NoWrite(c)
        PROVE  OwnedInv'
    BY <1>2, FewerRowsKeep DEF WriteChange, WriteRemove, NoWrite
  <1>3. CASE UNCHANGED ownedVars
    BY <1>3 DEF ownedVars, OwnedInv, NothingInherited, SeenBy
  <1> QED BY <1>1, <1>2, <1>3, CreateOwnerKeeps, WriteRowKeeps, WriteDeleteKeeps DEF OwnedNext

\* However many requests are in flight and however ids are reused: rows that the
\* deletion of their owner deletes, or refuses to leave, are never another's.
THEOREM NoRowIsInherited == OwnedSpec => []NothingInherited
  <1>1. OwnedInv => NothingInherited
    BY DEF OwnedInv
  <1> QED BY <1>1, OwnedStart, OwnedSteps, PTL DEF OwnedSpec

\* The types of owners, rows and requests; a row to be added has an owner and
\* knows which of all the owners it is.
OwnedTypeInv ==
    /\ OwnedTypeOK
    /\ \A c \in OwnerCall : Writes(c, "add") => request[c].id \in 1 .. MaxOwner /\ request[c].born \in 1 .. MaxBirth

\* What a handler starts with is a request.
LEMMA StartsTyped ==
    ASSUME OwnedTypeInv, NEW c \in OwnerCall, NEW r \in OwnerRequest, NEW k, Begins(k, c, r),
           r.op = "add" => r.id \in 1 .. MaxOwner /\ r.born \in 1 .. MaxBirth
    PROVE  OwnedTypeInv'
  <1>1. UNCHANGED <<kind, owners, births, owned>> /\ request' = [request EXCEPT ![c] = r]
    BY DEF Begins
  <1>2. request' \in [OwnerCall -> OwnerRequest \cup {NoRequest}]
    BY <1>1 DEF OwnedTypeInv, OwnedTypeOK
  <1>3. \A d \in OwnerCall : request'[d] = IF d = c THEN r ELSE request[d]
    BY <1>1 DEF OwnedTypeInv, OwnedTypeOK
  <1>4. ASSUME NEW d \in OwnerCall, Writes(d, "add")'
        PROVE  request'[d].id \in 1 .. MaxOwner /\ request'[d].born \in 1 .. MaxBirth
    BY <1>3, <1>4 DEF OwnedTypeInv, Writes
  <1> QED BY <1>1, <1>2, <1>4 DEF OwnedTypeInv, OwnedTypeOK

\* Every handler starts with a request.
LEMMA HandlersTyped ==
    ASSUME OwnedTypeInv, NEW c \in OwnerCall,
           \/ \E o \in DOMAIN owners : AddOwned(c, o) \/ DeleteOwners(c, o)
           \/ \E i \in DOMAIN owned : ChangeOwned(c, i) \/ RemoveOwned(c, i)
    PROVE  OwnedTypeInv'
  <1>1. /\ DOMAIN owners \subseteq 1 .. MaxOwner /\ \A o \in DOMAIN owners : owners[o] \in 1 .. births
        /\ births \in 0 .. MaxBirth /\ DOMAIN owned \subseteq 1 .. MaxOwned
        /\ MaxOwner \in Nat /\ MaxBirth \in Nat /\ MaxOwned \in Nat
    BY OwnedBounds DEF OwnedTypeInv, OwnedTypeOK
  <1>2. ASSUME NEW k, NEW o \in DOMAIN owners, AddTo(k, c, o) PROVE OwnedTypeInv'
    <2>1. PICK b \in 1 .. MaxBirth : b = owners[o]
      BY <1>1
    <2>2. [op |-> "add", id |-> o, born |-> b, loaded |-> {}] \in OwnerRequest
      BY <1>1 DEF OwnerRequest
    <2> QED BY <1>1, <1>2, <2>1, <2>2, StartsTyped DEF AddTo
  <1>3. ASSUME NEW k, NEW i \in DOMAIN owned, ChangeRow(k, c, i) \/ RemoveRow(k, c, i) PROVE OwnedTypeInv'
    <2>1. ASSUME NEW op \in {"change", "remove"}
          PROVE  [op |-> op, id |-> i, born |-> 0, loaded |-> {}] \in OwnerRequest
      BY <1>1 DEF OwnerRequest
    <2> QED BY <1>3, <2>1, StartsTyped DEF ChangeRow, RemoveRow
  <1>4. ASSUME NEW k, NEW o \in DOMAIN owners, NEW op \in {"delete", "delete_alone"}, DeleteOwner(k, c, o, op)
        PROVE  OwnedTypeInv'
    <2>1. [op |-> op, id |-> o, born |-> 0, loaded |-> RowsOf(o)] \in OwnerRequest
      BY <1>1 DEF OwnerRequest, RowsOf
    <2> QED BY <1>4, <2>1, StartsTyped DEF DeleteOwner
  <1> QED BY <1>2, <1>3, <1>4, AddsAre, ChangesAre, RemovesAre, DeletionsAre

\* The end of a request leaves the others.
LEMMA AnsweredTyped ==
    ASSUME OwnedTypeInv, NEW c \in OwnerCall, Answered(c)
    PROVE  /\ kind' \in Kinds /\ request' \in [OwnerCall -> OwnerRequest \cup {NoRequest}]
           /\ \A d \in OwnerCall : Writes(d, "add")' => request'[d] = request[d] /\ Writes(d, "add")
  BY DEF OwnedTypeInv, OwnedTypeOK, Answered, Writes

\* Rows and owners that remain keep their types.
LEMMA FewerRowsTyped ==
    ASSUME OwnedTypeInv, NEW c \in OwnerCall, Answered(c), births' = births,
           DOMAIN owners' \subseteq DOMAIN owners, \A o \in DOMAIN owners' : owners'[o] = owners[o],
           DOMAIN owned' \subseteq DOMAIN owned, \A i \in DOMAIN owned' : owned'[i] = owned[i]
    PROVE  OwnedTypeInv'
  BY AnsweredTyped DEF OwnedTypeInv, OwnedTypeOK

\* Every step keeps the types.
LEMMA OwnedTypes == OwnedTypeInv /\ [OwnedNext]_ownedVars => OwnedTypeInv'
  <1> SUFFICES ASSUME OwnedTypeInv, [OwnedNext]_ownedVars PROVE OwnedTypeInv'
    OBVIOUS
  <1>1. /\ DOMAIN owners \subseteq 1 .. MaxOwner /\ \A o \in DOMAIN owners : owners[o] \in 1 .. births
        /\ births \in 0 .. MaxBirth /\ DOMAIN owned \subseteq 1 .. MaxOwned
        /\ \A i \in DOMAIN owned : owned[i] \in Owned
        /\ MaxOwner \in Nat /\ MaxBirth \in Nat /\ MaxOwned \in Nat
    BY OwnedBounds DEF OwnedTypeInv, OwnedTypeOK
  <1>2. CASE CreateOwner
    <2> DEFINE o == NextId(owners)
    <2>1. /\ o <= MaxOwner /\ births < MaxBirth /\ births' = births + 1 /\ UNCHANGED <<kind, owned, request>>
          /\ owners' = [p \in DOMAIN owners \cup {o} |-> IF p = o THEN births' ELSE owners[p]]
      BY <1>2 DEF CreateOwner
    <2>2. o \in Nat \ {0}
      <3>1. DOMAIN owners \in SUBSET Nat /\ \A s \in DOMAIN owners : s <= MaxOwner
        BY <1>1
      <3> QED BY <1>1, <3>1, NewIdIsNew DEF NextId
    <2> HIDE DEF o
    <2>3. births' \in 0 .. MaxBirth /\ births' \in 1 .. births' /\ 1 .. births \subseteq 1 .. births'
          /\ o \in 1 .. MaxOwner
      BY <1>1, <2>1, <2>2
    <2>4. DOMAIN owners' \subseteq 1 .. MaxOwner /\ \A p \in DOMAIN owners' : owners'[p] \in 1 .. births'
      BY <1>1, <2>1, <2>3
    <2> QED BY <2>1, <2>3, <2>4 DEF OwnedTypeInv, OwnedTypeOK, Writes
  <1>3. ASSUME NEW c \in OwnerCall, WriteRow(c) PROVE OwnedTypeInv'
    <2> DEFINE i == NextId(owned)
               o == request[c].id
               there == o \in DOMAIN owners /\ owners[o] = request[c].born
               new == [of |-> o, born |-> request[c].born, late |-> ~there \/ BeingDeleted(o)]
    <2>1. /\ i <= MaxOwned /\ Writes(c, "add") /\ Answered(c) /\ UNCHANGED <<owners, births>>
          /\ owned' = [j \in DOMAIN owned \cup {i} |-> IF j = i THEN new ELSE owned[j]]
      BY <1>3 DEF WriteRow
    <2>2. i \in Nat \ {0}
      <3>1. DOMAIN owned \in SUBSET Nat /\ \A s \in DOMAIN owned : s <= MaxOwned
        BY <1>1
      <3> QED BY <1>1, <3>1, NewIdIsNew DEF NextId
    <2>3. new \in Owned
      <3>1. (~there \/ BeingDeleted(o)) \in BOOLEAN
        OBVIOUS
      <3>2. o \in 1 .. MaxOwner /\ request[c].born \in 1 .. MaxBirth
        BY <2>1 DEF OwnedTypeInv
      <3> QED BY <3>1, <3>2 DEF Owned
    <2> HIDE DEF i, new
    <2>4. DOMAIN owned' \subseteq 1 .. MaxOwned /\ \A j \in DOMAIN owned' : owned'[j] \in Owned
      BY <1>1, <2>1, <2>2, <2>3
    <2> QED BY <2>1, <2>4, AnsweredTyped DEF OwnedTypeInv, OwnedTypeOK
  <1>4. ASSUME NEW c \in OwnerCall, WriteDelete(c) PROVE OwnedTypeInv'
    <2>1. \A how : Left(c, how) \subseteq DOMAIN owned
      BY DEF Left
    <2> QED BY <1>4, <2>1, FewerRowsTyped DEF WriteDelete
  <1>5. ASSUME NEW c \in OwnerCall, WriteChange(c) \/ WriteRemove(c) \/ NoWrite(c) PROVE OwnedTypeInv'
    BY <1>5, FewerRowsTyped DEF WriteChange, WriteRemove, NoWrite
  <1>6. CASE UNCHANGED ownedVars
    BY <1>6 DEF ownedVars, OwnedTypeInv, OwnedTypeOK, Writes
  <1> QED BY <1>2, <1>3, <1>4, <1>5, <1>6, HandlersTyped DEF OwnedNext

\* They hold where nobody owns anything.
LEMMA OwnedTypesStart == OwnedInit => OwnedTypeInv
  <1> SUFFICES ASSUME OwnedInit PROVE OwnedTypeInv
    OBVIOUS
  <1>1. DOMAIN owners = {} /\ DOMAIN owned = {} /\ kind \in Kinds /\ births = 0 /\ 0 \in 0 .. MaxBirth
    BY OwnedBounds DEF OwnedInit
  <1> QED BY <1>1 DEF OwnedInit, OwnedTypeInv, OwnedTypeOK, Writes

-----------------------------------------------------------------------------
(* The issue tracker. *)

\* What a request has loaded by the time it does what comes next.  A number read
\* for a creation may be taken by now, but it is never beyond the next one.
Loaded(q, next, base) ==
    /\ q \in Query
    /\ Creates(q) => q.at = "commit" /\ q.n \in 1 .. next
    /\ ~Creates(q) /\ q.at # "item" => q.n \in 1 .. next - 1 /\ q.was \in State
    /\ q.at # "project" => q.open \in Nat
    /\ q.op = "merge_mr" => q.at # "project" /\ (q.at = "commit" => q.n \in base)

RequestsLoaded == \A c \in TrackerCall : query[c] # NoRow => Loaded(query[c], counters.next, inBase)

\* Inductive: the types, with the numbers in use, what the requests have loaded,
\* and the count.
TrackerInv ==
    /\ counters \in [next : Nat \ {0}, open : Nat]
    /\ item \in [1 .. counters.next - 1 -> Item]
    /\ inBase \subseteq Nat
    /\ drifted \in BOOLEAN
    /\ query \in [TrackerCall -> Query \cup {NoRow}]
    /\ RequestsLoaded
    /\ CountIsOpen

\* No request is in flight and there is nothing to count.
LEMMA TrackerStarts == TrackerInit => TrackerInv
  <1> SUFFICES ASSUME TrackerInit PROVE TrackerInv
    OBVIOUS
  <1>1. Open = {}
    BY DEF TrackerInit, Open
  <1>2. CountIsOpen
    BY <1>1, FS_EmptySet DEF CountIsOpen, TrackerInit
  <1>3. item \in [1 .. counters.next - 1 -> Item]
    <2>1. 1 .. counters.next - 1 = {}
      BY DEF TrackerInit
    <2> QED BY <2>1 DEF TrackerInit
  <1>4. counters \in [next : Nat \ {0}, open : Nat]
    BY DEF TrackerInit
  <1> QED BY <1>2, <1>3, <1>4 DEF TrackerInv, TrackerInit, RequestsLoaded

\* What the other requests have loaded stays loaded while numbers and merges are
\* only added.
LEMMA OthersStayLoaded ==
    ASSUME TrackerInv, NEW c \in TrackerCall, NEW q,
           q = NoRow \/ Loaded(q, counters'.next, inBase'),
           query' = [query EXCEPT ![c] = q],
           counters'.next \in Nat, counters'.next >= counters.next, inBase \subseteq inBase'
    PROVE  query' \in [TrackerCall -> Query \cup {NoRow}] /\ RequestsLoaded'
  <1>1. query' \in [TrackerCall -> Query \cup {NoRow}]
    BY DEF TrackerInv, Loaded
  <1>2. counters.next \in Nat
    BY DEF TrackerInv
  <1>3. ASSUME NEW r, Loaded(r, counters.next, inBase)
        PROVE  Loaded(r, counters'.next, inBase')
    <2>1. 1 .. counters.next \subseteq 1 .. counters'.next
      BY <1>2
    <2>2. 1 .. counters.next - 1 \subseteq 1 .. counters'.next - 1
      BY <1>2
    <2> QED BY <1>3, <2>1, <2>2 DEF Loaded
  <1>4. ASSUME NEW d \in TrackerCall, query'[d] # NoRow
        PROVE  Loaded(query'[d], counters'.next, inBase')
    <2>1. CASE d = c
      BY <1>4, <2>1 DEF TrackerInv
    <2>2. CASE d # c
      <3>1. query'[d] = query[d]
        BY <2>2 DEF TrackerInv
      <3>2. Loaded(query[d], counters.next, inBase)
        BY <1>4, <3>1 DEF TrackerInv, RequestsLoaded
      <3> QED BY <1>3, <3>1, <3>2
    <2> QED BY <2>1, <2>2
  <1> QED BY <1>1, <1>4 DEF RequestsLoaded

\* A step that only changes what one request has loaded, or what is merged.
LEMMA LoadKeeps ==
    ASSUME TrackerInv, NEW c \in TrackerCall, NEW q,
           q = NoRow \/ Loaded(q, counters.next, inBase'),
           query' = [query EXCEPT ![c] = q],
           inBase \subseteq inBase', inBase' \subseteq Nat,
           UNCHANGED <<counters, item, drifted>>
    PROVE  TrackerInv'
  <1>1. counters'.next \in Nat /\ counters'.next >= counters.next
    BY DEF TrackerInv
  <1>2. query' \in [TrackerCall -> Query \cup {NoRow}] /\ RequestsLoaded'
    BY <1>1, OthersStayLoaded
  <1>3. CountIsOpen'
    BY DEF TrackerInv, CountIsOpen, Open
  <1> QED BY <1>2, <1>3 DEF TrackerInv

\* The three ways a request begins.
LEMMA CreateKeeps ==
    ASSUME TrackerInv, NEW c \in TrackerCall, NEW mr \in BOOLEAN, Create(c, mr)
    PROVE  TrackerInv'
  <1> DEFINE q == [op |-> IF mr THEN "create_mr" ELSE "create", at |-> "commit", n |-> counters.next,
                   open |-> counters.open, was |-> NoRow, to |-> "open"]
  <1>1. Loaded(q, counters.next, inBase)
    BY DEF TrackerInv, Loaded, Query, Op, Creates, State
  <1>2. FirstRead(c, q)
    BY DEF Create
  <1> QED BY <1>1, <1>2, LoadKeeps DEF FirstRead, TrackerInv

\* A REST handler starts with the counters of the project.
LEMMA RestKeeps ==
    ASSUME TrackerInv, NEW c \in TrackerCall, NEW to \in State,
           NEW op \in {"update", "update_mr", "merge_mr", "merge_pull"}, Rest(c, op, to)
    PROVE  TrackerInv'
  <1> DEFINE q == [op |-> op, at |-> "item", n |-> 0, open |-> counters.open, was |-> NoRow, to |-> to]
  <1>1. Loaded(q, counters.next, inBase)
    BY DEF TrackerInv, Loaded, Query, Op, Creates, State
  <1> QED BY <1>1, LoadKeeps DEF FirstRead, TrackerInv, Rest

\* A mutation starts with the item it names.
LEMMA GraphqlKeeps ==
    ASSUME TrackerInv, NEW c \in TrackerCall, NEW to \in State, NEW n \in DOMAIN item,
           NEW op \in {"update", "set", "merge_pull"}, Graphql(c, op, n, to)
    PROVE  TrackerInv'
  <1> DEFINE q == [op |-> op, at |-> "project", n |-> n, open |-> NoRow, was |-> item[n].state, to |-> to]
  <1>1. Loaded(q, counters.next, inBase)
    BY DEF TrackerInv, Loaded, Query, Op, Creates, State, Item
  <1> QED BY <1>1, LoadKeeps DEF FirstRead, TrackerInv, Graphql

\* Every surface begins in one of them.
LEMMA BeginKeeps ==
    ASSUME TrackerInv, NEW c \in TrackerCall, RestStep(c) \/ GraphqlStep(c)
    PROVE  TrackerInv'
  <1>1. \/ \E mr \in BOOLEAN : Create(c, mr)
        \/ \E op \in {"update", "update_mr", "merge_mr", "merge_pull"}, to \in State : Rest(c, op, to)
        \/ \E n \in DOMAIN item, op \in {"update", "set", "merge_pull"}, to \in State : Graphql(c, op, n, to)
    <2>1. CASE RestStep(c)
      BY <2>1 DEF RestStep, CreateProjectIssue, CreateIssue, WebCreateIssue, CreateMergeRequest, CreatePull,
                  WebCreatePull, UpdateProjectIssue, UpdateIssue, UpdatePull, UpdateMergeRequest,
                  MergeMergeRequest, MergePull, State
    <2>2. CASE GraphqlStep(c)
      <3>1. \A n \in DOMAIN item : item[n].state \in State
        BY DEF TrackerInv, Item
      <3>2. ASSUME NEW n \in DOMAIN item, GraphqlMergePullRequest(c, n)
            PROVE  \E to \in State : Graphql(c, "merge_pull", n, to)
        BY <3>1, <3>2 DEF GraphqlMergePullRequest, State
      <3> QED
        BY <2>2, <3>2 DEF GraphqlStep, GraphqlCreateIssue, GraphqlCreatePullRequest, GraphqlUpdateIssue,
                  GraphqlCloseIssue, GraphqlReopenIssue, GraphqlClosePullRequest, GraphqlReopenPullRequest,
                  State
    <2> QED BY <2>1, <2>2
  <1> QED BY <1>1, CreateKeeps, RestKeeps, GraphqlKeeps

\* The second read, of the item or of the project.
LEMMA LoadItemKeeps ==
    ASSUME TrackerInv, NEW c \in TrackerCall, LoadItem(c)
    PROVE  TrackerInv'
  <1>1. PICK n \in DOMAIN item :
           /\ Passes(query[c], item[n])
           /\ query' = [query EXCEPT
                  ![c].n = n, ![c].was = item[n].state,
                  ![c].op = IF @ = "update_mr" THEN "update" ELSE @,
                  ![c].at = IF query[c].op = "update_mr" \/ query[c].op = "update" THEN "commit" ELSE "git"]
    BY DEF LoadItem
  <1> DEFINE q == query[c]
             r == [q EXCEPT !.n = n, !.was = item[n].state,
                            !.op = IF q.op = "update_mr" THEN "update" ELSE q.op,
                            !.at = IF q.op = "update_mr" \/ q.op = "update" THEN "commit" ELSE "git"]
  <1>2. Loaded(q, counters.next, inBase) /\ q.at = "item" /\ q \in Query
    BY DEF LoadItem, TrackerInv, RequestsLoaded, Loaded
  <1>3. ~Creates(q) /\ q.open \in Nat
    BY <1>2 DEF Loaded
  <1>4. n \in 1 .. counters.next - 1 /\ n \in Nat /\ item[n].state \in State
    BY DEF TrackerInv, Item, State
  <1>5. /\ r \in Query /\ r.n = n /\ r.was = item[n].state /\ r.open = q.open
        /\ r.op = (IF q.op = "update_mr" THEN "update" ELSE q.op)
        /\ r.at = (IF q.op = "update_mr" \/ q.op = "update" THEN "commit" ELSE "git")
    BY <1>2, <1>4 DEF Query, Op, State
  <1>6. Loaded(r, counters.next, inBase)
    BY <1>3, <1>4, <1>5 DEF Loaded, Creates
  <1>7. query' = [query EXCEPT ![c] = r]
    BY <1>1, <1>2 DEF Query, TrackerInv
  <1> QED BY <1>6, <1>7, LoadKeeps DEF LoadItem, TrackerInv

\* A mutation loads the counters after its item.
LEMMA LoadProjectKeeps ==
    ASSUME TrackerInv, NEW c \in TrackerCall, LoadProject(c)
    PROVE  TrackerInv'
  <1> DEFINE q == query[c]
             r == [q EXCEPT !.open = counters.open, !.at = "commit"]
  <1>1. Loaded(q, counters.next, inBase) /\ q.at = "project" /\ q \in Query
    BY DEF LoadProject, TrackerInv, RequestsLoaded, Loaded
  <1>2. counters.open \in Nat
    BY DEF TrackerInv
  <1>3. /\ r \in Query /\ r.n = q.n /\ r.was = q.was /\ r.op = q.op
        /\ r.at = "commit" /\ r.open = counters.open
    BY <1>1, <1>2 DEF Query
  <1>4. Loaded(r, counters.next, inBase)
    BY <1>1, <1>2, <1>3 DEF Loaded, Creates
  <1>5. query' = [query EXCEPT ![c] = r]
    BY <1>1 DEF LoadProject, TrackerInv
  <1> QED BY <1>4, <1>5, LoadKeeps DEF LoadProject, TrackerInv

\* git pushed the merge.
LEMMA GitMergeKeeps ==
    ASSUME TrackerInv, NEW c \in TrackerCall, GitMerge(c)
    PROVE  TrackerInv'
  <1> DEFINE q == query[c]
             r == [q EXCEPT !.at = "commit"]
  <1>1. Loaded(q, counters.next, inBase) /\ q.at = "git" /\ q \in Query
    BY DEF GitMerge, TrackerInv, RequestsLoaded, Loaded
  <1>2. /\ r \in Query /\ r.n = q.n /\ r.was = q.was /\ r.op = q.op
        /\ r.at = "commit" /\ r.open = q.open
    BY <1>1 DEF Query
  <1>3. inBase' = inBase \cup {q.n} /\ q.n \in Nat
    BY <1>1 DEF GitMerge, Query
  <1>4. Loaded(r, counters.next, inBase')
    BY <1>1, <1>2, <1>3 DEF Loaded, Creates
  <1>5. query' = [query EXCEPT ![c] = r]
    BY <1>1 DEF GitMerge, TrackerInv
  <1> QED BY <1>3, <1>4, <1>5, LoadKeeps DEF GitMerge, TrackerInv

\* git could not.
LEMMA GitMergeFailsKeeps ==
    ASSUME TrackerInv, NEW c \in TrackerCall, GitMergeFails(c)
    PROVE  TrackerInv'
  <1> DEFINE q == query[c]
             r == IF q.op = "merge_pull" THEN [q EXCEPT !.at = "commit"] ELSE NoRow
  <1>1. Loaded(q, counters.next, inBase) /\ q.at = "git" /\ q \in Query
    BY DEF GitMergeFails, TrackerInv, RequestsLoaded, Loaded
  <1>2. r = NoRow \/ Loaded(r, counters.next, inBase)
    <2>1. CASE q.op = "merge_pull"
      <3>1. /\ r \in Query /\ r.n = q.n /\ r.was = q.was /\ r.op = q.op
            /\ r.at = "commit" /\ r.open = q.open
        BY <1>1, <2>1 DEF Query
      <3> QED BY <1>1, <2>1, <3>1 DEF Loaded, Creates
    <2> QED BY <2>1
  <1>3. query' = [query EXCEPT ![c] = r]
    BY <1>1 DEF GitMergeFails, TrackerInv
  <1> QED BY <1>2, <1>3, LoadKeeps DEF GitMergeFails, TrackerInv

\* The request ends and nothing is written.
LEMMA GiveUpKeeps ==
    ASSUME TrackerInv, NEW c \in TrackerCall, GiveUp(c)
    PROVE  TrackerInv'
  BY LoadKeeps DEF GiveUp, TrackerInv

\* The open issues can be counted.
LEMMA OpenIsFinite == TrackerInv => IsFiniteSet(Open)
  <1> SUFFICES ASSUME TrackerInv PROVE IsFiniteSet(Open)
    OBVIOUS
  <1>1. counters.next - 1 \in Int
    BY DEF TrackerInv
  <1>2. IsFiniteSet(1 .. counters.next - 1)
    BY <1>1, FS_Interval
  <1>3. Open \subseteq 1 .. counters.next - 1
    BY DEF Open, TrackerInv
  <1> QED BY <1>2, <1>3, FS_Subset

\* A number is free only if it is the next one.
LEMMA FreeIsNext ==
    ASSUME TrackerInv, NEW n \in 1 .. counters.next, n \notin DOMAIN item
    PROVE  n = counters.next
  BY DEF TrackerInv

\* An item joins the project with the next number.
LEMMA AddItemKeeps ==
    ASSUME TrackerInv, NEW c \in TrackerCall, AddItem(c)
    PROVE  TrackerInv'
  <1> DEFINE q == query[c]
             new == [mr |-> q.op = "create_mr", state |-> "open", merged |-> FALSE]
  <1>1. Loaded(q, counters.next, inBase) /\ Creates(q) /\ q \in Query /\ q.open \in Nat
    BY DEF AddItem, ItemIsReady, TrackerInv, RequestsLoaded, Loaded
  <1>2. q.n = counters.next /\ q.n \notin DOMAIN item
    BY <1>1, FreeIsNext DEF AddItem, NumberIsFree, Loaded
  <1>3. /\ counters' = [next |-> q.n + 1, open |-> q.open + 1]
        /\ item' = [n \in DOMAIN item \cup {q.n} |-> IF n = q.n THEN new ELSE item[n]]
        /\ drifted' = (drifted \/ q.open # counters.open)
        /\ query' = [query EXCEPT ![c] = NoRow] /\ inBase' = inBase
    BY DEF AddItem
  <1>4. counters.next \in Nat \ {0} /\ counters' \in [next : Nat \ {0}, open : Nat]
    BY <1>1, <1>2, <1>3 DEF TrackerInv
  <1>5. item' \in [1 .. counters'.next - 1 -> Item]
    <2>1. 1 .. counters'.next - 1 = (1 .. counters.next - 1) \cup {q.n}
      BY <1>2, <1>3, <1>4
    <2>2. new \in Item
      BY DEF Item, State
    <2> QED BY <1>3, <2>1, <2>2 DEF TrackerInv
  <1>6. query' \in [TrackerCall -> Query \cup {NoRow}] /\ RequestsLoaded'
    <2>1. counters'.next \in Nat /\ counters'.next >= counters.next
      BY <1>2, <1>3, <1>4
    <2>2. query' = [query EXCEPT ![c] = NoRow] /\ inBase \subseteq inBase'
      BY <1>3
    <2> QED BY <2>1, <2>2, OthersStayLoaded
  <1>7. CountIsOpen'
    <2> SUFFICES ASSUME ~drifted' PROVE counters'.open = Cardinality(Open')
      BY DEF CountIsOpen
    <2>1. q.open = counters.open /\ counters.open = Cardinality(Open)
      BY <1>3 DEF TrackerInv, CountIsOpen
    <2>2. IsFiniteSet(Open)
      BY OpenIsFinite
    <2>3. Open' = Open \cup {q.n} /\ q.n \notin Open
      BY <1>2, <1>3 DEF Open
    <2>4. Cardinality(Open') = Cardinality(Open) + 1
      BY <2>2, <2>3, FS_AddElement
    <2> QED BY <1>3, <2>1, <2>4
  <1>8. drifted' \in BOOLEAN /\ inBase' \subseteq Nat
    BY <1>3 DEF TrackerInv
  <1> QED BY <1>4, <1>5, <1>6, <1>7, <1>8 DEF TrackerInv

\* What a commit does to the count follows the item, if nobody overtook it.
LEMMA SaveItemKeeps ==
    ASSUME TrackerInv, NEW c \in TrackerCall, SaveItem(c)
    PROVE  TrackerInv'
  <1> DEFINE q == query[c]
             new == [item[q.n] EXCEPT !.state = IF q.was = q.to THEN @ ELSE q.to,
                                      !.merged = @ \/ Merges(q)]
  <1>1. /\ Loaded(q, counters.next, inBase) /\ ~Creates(q) /\ q \in Query
        /\ q.open \in Nat /\ q.n \in 1 .. counters.next - 1 /\ q.was \in State /\ q.to \in State
    BY DEF SaveItem, ItemIsReady, TrackerInv, RequestsLoaded, Loaded, Query, State
  <1>2. /\ counters' = [counters EXCEPT !.open = Recount(q)]
        /\ item' = [item EXCEPT ![q.n].state = IF q.was = q.to THEN @ ELSE q.to,
                                ![q.n].merged = @ \/ Merges(q)]
        /\ drifted' = (drifted \/ q.open # counters.open \/ q.was # item[q.n].state \/ Miscounts(q))
        /\ query' = [query EXCEPT ![c] = NoRow] /\ inBase' = inBase
    BY DEF SaveItem
  <1>3. counters.next \in Nat \ {0} /\ counters.open \in Nat /\ Recount(q) \in Nat
    BY <1>1 DEF TrackerInv, Recount
  <1>4. /\ counters' \in [next : Nat \ {0}, open : Nat]
        /\ counters'.next = counters.next /\ counters'.open = Recount(q)
    BY <1>2, <1>3 DEF TrackerInv
  <1>5. /\ item[q.n] \in Item /\ new \in Item
        /\ new.state = IF q.was = q.to THEN item[q.n].state ELSE q.to
    BY <1>1 DEF TrackerInv, Item, State, Merges
  <1>6. item' = [item EXCEPT ![q.n] = new]
    BY <1>1, <1>2, <1>5 DEF TrackerInv, Item
  <1>7. item' \in [1 .. counters'.next - 1 -> Item]
    BY <1>4, <1>5, <1>6 DEF TrackerInv
  <1>8. query' \in [TrackerCall -> Query \cup {NoRow}] /\ RequestsLoaded'
    <2>1. counters'.next \in Nat /\ counters'.next >= counters.next
      BY <1>3, <1>4
    <2>2. query' = [query EXCEPT ![c] = NoRow] /\ inBase \subseteq inBase'
      BY <1>2
    <2> QED BY <2>1, <2>2, OthersStayLoaded
  <1>9. CountIsOpen'
    <2> SUFFICES ASSUME ~drifted' PROVE counters'.open = Cardinality(Open')
      BY DEF CountIsOpen
    <2>1. /\ q.open = counters.open /\ counters.open = Cardinality(Open)
          /\ q.was = item[q.n].state /\ ~Miscounts(q)
      BY <1>2 DEF TrackerInv, CountIsOpen
    <2>2. IsFiniteSet(Open)
      BY OpenIsFinite
    <2>3. Open' = {n \in DOMAIN item : IF n = q.n THEN new.state = "open" ELSE item[n].state = "open"}
      BY <1>1, <1>6 DEF Open, TrackerInv
    <2> HIDE DEF new
    <2>4. CASE (q.was = "open") = (q.to = "open")
      <3>1. Open' = Open
        BY <1>5, <2>1, <2>3, <2>4 DEF Open
      <3>2. Recount(q) = counters.open
        BY <1>1, <2>1, <2>4 DEF Recount, Miscounts, State
      <3> QED BY <1>4, <2>1, <3>1, <3>2
    <2>5. CASE q.was # "open" /\ q.to = "open"
      <3>1. Open' = Open \cup {q.n} /\ q.n \notin Open
        BY <1>1, <1>5, <2>1, <2>3, <2>5 DEF Open, TrackerInv
      <3>2. Cardinality(Open') = Cardinality(Open) + 1
        BY <2>2, <3>1, FS_AddElement
      <3> QED BY <1>4, <2>1, <2>5, <3>2 DEF Recount, Miscounts
    <2>6. CASE q.was = "open" /\ q.to # "open"
      <3>1. q.to = "closed"
        BY <1>1, <2>1, <2>6 DEF Miscounts, State
      <3>2. Open' = Open \ {q.n} /\ q.n \in Open
        BY <1>1, <1>5, <2>1, <2>3, <2>6 DEF Open, TrackerInv
      <3>3. Cardinality(Open') = Cardinality(Open) - 1 /\ Cardinality(Open) # 0
        BY <2>2, <3>2, FS_RemoveElement, FS_EmptySet
      <3> QED BY <1>3, <1>4, <2>1, <2>6, <3>1, <3>3 DEF Recount, Miscounts
    <2> QED BY <2>4, <2>5, <2>6
  <1>10. drifted' \in BOOLEAN /\ inBase' \subseteq Nat
    BY <1>2 DEF TrackerInv
  <1> QED BY <1>4, <1>7, <1>8, <1>9, <1>10 DEF TrackerInv

\* Every step keeps the invariant.
LEMMA TrackerSteps == TrackerInv /\ [TrackerNext]_trackerVars => TrackerInv'
  <1> SUFFICES ASSUME TrackerInv, [TrackerNext]_trackerVars PROVE TrackerInv'
    OBVIOUS
  <1>1. ASSUME NEW c \in TrackerCall,
               \/ RestStep(c) \/ GraphqlStep(c)
               \/ LoadItem(c) \/ LoadProject(c) \/ GitMerge(c) \/ GitMergeFails(c)
               \/ AddItem(c) \/ SaveItem(c) \/ GiveUp(c)
        PROVE  TrackerInv'
    BY <1>1, BeginKeeps, LoadItemKeeps, LoadProjectKeeps, GitMergeKeeps, GitMergeFailsKeeps,
       AddItemKeeps, SaveItemKeeps, GiveUpKeeps
  <1>2. CASE UNCHANGED trackerVars
    BY <1>2 DEF trackerVars, TrackerInv, RequestsLoaded, CountIsOpen, Open
  <1> QED BY <1>1, <1>2 DEF TrackerNext

\* The rows of the tracker and what its requests have loaded keep their types, for
\* any number of requests and items: the count is never negative.
THEOREM TrackerHasType == TrackerSpec => []TrackerTypeOK
  <1>1. TrackerInv => TrackerTypeOK
    <2> SUFFICES ASSUME TrackerInv PROVE TrackerTypeOK
      OBVIOUS
    <2>1. counters \in Counters
      BY DEF TrackerInv, Counters
    <2>2. DOMAIN item \subseteq Nat /\ \A n \in DOMAIN item : item[n] \in Item
      BY <2>1 DEF TrackerInv, Counters
    <2> QED BY <2>1, <2>2 DEF TrackerInv, TrackerTypeOK
  <1> QED BY <1>1, TrackerStarts, TrackerSteps, PTL DEF TrackerSpec

\* Whatever surfaces create items at one time, their numbers are 1, 2, 3, ...: a
\* creation whose counter is old fails, and takes its update of the counter with
\* it.
THEOREM NumbersStayFresh == TrackerSpec => []NumbersAreFresh
  <1>1. TrackerInv => NumbersAreFresh
    BY DEF TrackerInv, NumbersAreFresh
  <1> QED BY <1>1, TrackerStarts, TrackerSteps, PTL DEF TrackerSpec

\* open_issues_count is the number of open items until a request commits over
\* rows that changed after it loaded them, or makes a change that is not counted.
THEOREM CountStaysOpen == TrackerSpec => []CountIsOpen
  <1>1. TrackerInv => CountIsOpen
    BY DEF TrackerInv
  <1> QED BY <1>1, TrackerStarts, TrackerSteps, PTL DEF TrackerSpec

\* What PUT .../merge records as merged is in the target branch, although git
\* pushes before the commit and either may fail.
THEOREM MergesAreInBase == TrackerSpec => AcceptedIsInBase
  <1> DEFINE Accepted == \A n \in DOMAIN item : ~item[n].merged /\ item'[n].merged =>
                n \in inBase \/ \E c \in TrackerCall :
                    query'[c] = NoRow /\ query[c] # NoRow /\ query[c].op = "merge_pull"
  <1>1. TrackerInv /\ [TrackerNext]_trackerVars => [Accepted]_trackerVars
    <2> SUFFICES ASSUME TrackerInv, TrackerNext,
                        NEW n \in DOMAIN item, ~item[n].merged, item'[n].merged
                 PROVE  n \in inBase \/ \E c \in TrackerCall :
                            query'[c] = NoRow /\ query[c] # NoRow /\ query[c].op = "merge_pull"
      BY Zenon
    <2>1. item' # item
      OBVIOUS
    <2>2. PICK c \in TrackerCall : AddItem(c) \/ SaveItem(c)
      BY <2>1 DEF TrackerNext, RestStep, GraphqlStep, CreateProjectIssue, CreateIssue, WebCreateIssue,
                  CreateMergeRequest, CreatePull, WebCreatePull, GraphqlCreateIssue, GraphqlCreatePullRequest,
                  Create, UpdateProjectIssue, UpdateIssue, UpdatePull, UpdateMergeRequest,
                  MergeMergeRequest, MergePull, Rest, GraphqlUpdateIssue, GraphqlCloseIssue,
                  GraphqlReopenIssue, GraphqlClosePullRequest, GraphqlReopenPullRequest,
                  GraphqlMergePullRequest, Graphql, FirstRead, LoadItem, LoadProject, GitMerge,
                  GitMergeFails, GiveUp
    <2>3. SaveItem(c)
      BY <2>2 DEF AddItem, NumberIsFree
    <2> DEFINE q == query[c]
    <2>4. /\ Loaded(q, counters.next, inBase) /\ q \in Query /\ q.at = "commit" /\ q # NoRow
          /\ query' = [query EXCEPT ![c] = NoRow]
      BY <2>3 DEF SaveItem, ItemIsReady, TrackerInv, RequestsLoaded, Loaded
    <2>5. n = q.n /\ Merges(q)
      <3>1. item' = [item EXCEPT ![q.n].state = IF q.was = q.to THEN @ ELSE q.to,
                                 ![q.n].merged = @ \/ Merges(q)]
        BY <2>3 DEF SaveItem
      <3>2. n = q.n
        BY <3>1 DEF TrackerInv
      <3>3. item[n] \in Item
        BY DEF TrackerInv
      <3> QED BY <3>1, <3>2, <3>3 DEF Item
    <2>6. CASE q.op = "merge_mr"
      BY <2>4, <2>5, <2>6 DEF Loaded
    <2>7. CASE q.op = "merge_pull"
      <3>1. query'[c] = NoRow
        BY <2>4 DEF TrackerInv
      <3> QED BY <2>4, <2>7, <3>1
    <2> QED BY <2>5, <2>6, <2>7 DEF Merges
  <1> QED BY <1>1, TrackerStarts, TrackerSteps, PTL DEF TrackerSpec, AcceptedIsInBase
=============================================================================
