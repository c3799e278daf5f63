--------------------------- MODULE MembershipProofs ---------------------------
(***************************************************************************)
(* What the operators of Membership return, for any set of VLANs: the lines *)
(* a change of membership consists of, their order, and what they do to a  *)
(* port.                                                                   *)
(*                                                                         *)
(* What is shown of every element of a sequence is shown of its least      *)
(* counterexample (LeastOf).                                               *)
(***************************************************************************)
EXTENDS Membership, FunctionTheorems, FiniteSetTheorems, WellFoundedInduction, SequenceTheorems,
        TLAPS

\* A nonempty set of naturals has a least element.
LEMMA LeastOf ==
  ASSUME NEW T \in SUBSET Nat, T # {}
  PROVE  \E m \in T : \A k \in T : m <= k
<1>1. \E m \in T : \A k \in T : <<k, m>> \notin OpToRel(<, Nat)
  BY WFMin, NatLessThanWellFounded, Zenon
<1>2. PICK m \in T : \A k \in T : <<k, m>> \notin OpToRel(<, Nat)
  BY <1>1
<1>3. \A k \in T : ~(k < m)
  BY <1>2 DEF OpToRel
<1>4. QED
  BY <1>3

-----------------------------------------------------------------------------
(* VLANs in ascending order.                                                 *)

\* No more VLANs of a set lie below one than below a greater one.
LEMMA BelowGrows ==
  ASSUME NEW S \in SUBSET Int, IsFiniteSet(S), NEW v \in S, NEW w \in S, v < w
  PROVE  Cardinality(Below(v, S)) < Cardinality(Below(w, S))
<1>1. /\ Below(v, S) \subseteq Below(w, S)
      /\ v \in Below(w, S) /\ v \notin Below(v, S)
  <2>1. \A x \in S : x < v => x < w
    OBVIOUS
  <2>2. Below(v, S) \subseteq Below(w, S)
    BY <2>1 DEF Below
  <2>3. v \in Below(w, S)
    BY Zenon DEF Below
  <2>4. v \notin Below(v, S)
    BY DEF Below
  <2>5. QED
    BY <2>2, <2>3, <2>4
<1>2. IsFiniteSet(Below(w, S))
  <2>1. Below(w, S) \subseteq S
    BY DEF Below
  <2>2. QED
    BY <2>1, FS_Subset
<1>3. QED
  BY <1>1, <1>2, FS_Subset, FS_CardinalityType

LEMMA BelowIsProper ==
  ASSUME NEW S \in SUBSET Int, IsFiniteSet(S), NEW v \in S
  PROVE  Cardinality(Below(v, S)) \in 0..(Cardinality(S) - 1)
<1>1. Below(v, S) \subseteq S /\ v \in S \ Below(v, S)
  BY DEF Below
<1>2. QED
  BY <1>1, FS_Subset, FS_CardinalityType

\* Every place of the sequence has exactly one VLAN, and every VLAN a place.
LEMMA AscendingLists ==
  ASSUME NEW S \in SUBSET Int, IsFiniteSet(S)
  PROVE  /\ Ascending(S) \in [1..Cardinality(S) -> S]
         /\ Cardinality(S) \in Nat
         /\ \A i, j \in 1..Cardinality(S) : i # j => Ascending(S)[i] # Ascending(S)[j]
         /\ \A v \in S : \E i \in 1..Cardinality(S) : Ascending(S)[i] = v
<1> DEFINE n == Cardinality(S)
           rank == [v \in S |-> Cardinality(Below(v, S))]
<1>1. n \in Nat
  BY FS_CardinalityType
<1>2. rank \in [S -> 0..(n - 1)]
  BY BelowIsProper
<1>3. \A v, w \in S : v # w => rank[v] # rank[w]
  <2>1. ASSUME NEW v \in S, NEW w \in S, v < w
        PROVE  rank[v] # rank[w]
    <3>1. rank[v] < rank[w]
      BY <2>1, BelowGrows
    <3>2. QED
      BY <3>1, <1>2, <1>1
  <2>2. QED
    BY <2>1
<1>4. rank \in Injection(S, 0..(n - 1))
  BY <1>2, <1>3 DEF Injection, IsInjective
<1>5. IsFiniteSet(0..(n - 1)) /\ Cardinality(0..(n - 1)) = n
  BY <1>1, FS_Interval
<1>6. rank \in Surjection(S, 0..(n - 1))
  BY <1>4, <1>5, FS_Injection
<1>7. \A i \in 1..n : \E v \in S : rank[v] = i - 1
  <2> TAKE i \in 1..n
  <2>1. i - 1 \in 0..(n - 1)
    BY <1>1
  <2>2. QED
    BY <2>1, <1>6 DEF Surjection
<1>8. \A i \in 1..n : Ascending(S)[i] \in S /\ rank[Ascending(S)[i]] = i - 1
  BY <1>7 DEF Ascending
<1>9. \A v \in S : rank[v] + 1 \in 1..n /\ Ascending(S)[rank[v] + 1] = v
  <2> TAKE v \in S
  <2>1. rank[v] + 1 \in 1..n /\ (rank[v] + 1) - 1 = rank[v]
    BY <1>1, <1>2
  <2>2. QED
    BY <2>1, <1>8, <1>3
<1>10. Ascending(S) \in [1..n -> S]
  BY <1>8 DEF Ascending
<1>11. \A i, j \in 1..n : i # j => Ascending(S)[i] # Ascending(S)[j]
  <2> TAKE i, j \in 1..n
  <2>1. i # j => i - 1 # j - 1
    BY <1>1
  <2>2. QED
    BY <2>1, <1>8
<1>12. QED
  BY <1>1, <1>9, <1>10, <1>11

-----------------------------------------------------------------------------
(* Lists of lines.  An operation sends its lines in the order of their kind: *)
(* a list is sorted when it repeats no line and the rank of the operations    *)
(* never falls.                                                              *)

Ranks == [Ops -> Nat]

Sorted(s, rank) ==
  \A i, j \in DOMAIN s : i < j => s[i] # s[j] /\ rank[s[i].op] <= rank[s[j].op]

LEMMA LinesAreLines ==
  ASSUME NEW op \in Ops, NEW v \in Vlans \cup {None}
  PROVE  Line(op, v) \in LineSet /\ Line(op, v).op = op /\ Line(op, v).vlan = v
BY DEF Line, LineSet

LEMMA VlansAreFinite ==
  ASSUME NEW S \in SUBSET Vlans
  PROVE  IsFiniteSet(S) /\ S \in SUBSET Int /\ S \in SUBSET Nat /\ None \notin S
<1> DEFINE n == 4094
<1>1. n \in Nat /\ Vlans \subseteq 1..n
  BY MembershipAssumption
<1> HIDE DEF n
<1>2. 1..n \subseteq Nat \ {0}
  BY <1>1
<1>3. S \in SUBSET (1..n)
  BY <1>1
<1>4. IsFiniteSet(1..n)
  BY <1>1, FS_Interval
<1>5. IsFiniteSet(S)
  BY <1>3, <1>4, FS_Subset
<1>6. QED
  BY <1>2, <1>3, <1>5 DEF None

LEMMA OneLine ==
  ASSUME NEW c \in BOOLEAN, NEW l, c => l \in LineSet, NEW rank
  PROVE  /\ When(c, l) \in Seq(LineSet) /\ Sorted(When(c, l), rank)
         /\ ToSet(When(c, l)) = IF c THEN {l} ELSE {}
<1>1. CASE c
  <2> DEFINE s == <<l>>
  <2>1. When(c, l) = s /\ s \in Seq(LineSet) /\ DOMAIN s = {1} /\ s[1] = l
    BY <1>1 DEF When
  <2> HIDE DEF s
  <2>2. Sorted(s, rank)
    BY <2>1 DEF Sorted
  <2>3. ToSet(s) = {l}
    BY <2>1 DEF ToSet
  <2>4. QED
    BY <1>1, <2>1, <2>2, <2>3
<1>2. CASE ~c
  <2>1. When(c, l) = <<>> /\ DOMAIN <<>> = {}
    BY <1>2 DEF When
  <2>2. QED
    BY <1>2, <2>1 DEF Sorted, ToSet
<1>3. QED
  BY <1>1, <1>2

LEMMA EachLine ==
  ASSUME NEW op \in Ops, NEW S \in SUBSET Vlans, NEW rank \in Ranks
  PROVE  /\ ForEach(op, S) \in Seq(LineSet) /\ Sorted(ForEach(op, S), rank)
         /\ ToSet(ForEach(op, S)) = {Line(op, v) : v \in S}
<1> DEFINE n == Cardinality(S)
           ids == Ascending(S)
<1>1. S \in SUBSET Int /\ IsFiniteSet(S)
  BY VlansAreFinite
<1>2. /\ ids \in [1..n -> S] /\ n \in Nat
      /\ \A i, j \in 1..n : i # j => ids[i] # ids[j]
      /\ \A v \in S : \E i \in 1..n : ids[i] = v
  BY <1>1, AscendingLists
<1> HIDE DEF ids
<1>3. ForEach(op, S) = [i \in 1..n |-> Line(op, ids[i])]
  BY <1>2 DEF ForEach, ids
<1>4. \A i \in 1..n : /\ Line(op, ids[i]) \in LineSet /\ Line(op, ids[i]).op = op
                      /\ Line(op, ids[i]).vlan = ids[i]
  BY <1>2, LinesAreLines
<1>5. ForEach(op, S) \in [1..n -> LineSet]
  BY <1>3, <1>4
<1>6. Sorted(ForEach(op, S), rank)
  <2> SUFFICES ASSUME NEW i \in 1..n, NEW j \in 1..n, i < j
               PROVE  /\ Line(op, ids[i]) # Line(op, ids[j])
                      /\ rank[Line(op, ids[i]).op] <= rank[Line(op, ids[j]).op]
    BY <1>3 DEF Sorted
  <2>1. i # j
    BY <1>2
  <2>2. ids[i] # ids[j]
    BY <1>2, <2>1
  <2>3. rank[op] \in Nat
    BY DEF Ranks
  <2>4. QED
    BY <1>4, <2>2, <2>3
<1>7. ToSet(ForEach(op, S)) = {Line(op, v) : v \in S}
  BY <1>2, <1>3 DEF ToSet
<1>8. QED
  BY <1>2, <1>5, <1>6, <1>7

LEMMA Joined ==
  ASSUME NEW s \in Seq(LineSet), NEW t \in Seq(LineSet), NEW rank,
         Sorted(s, rank), Sorted(t, rank),
         \A l \in ToSet(s), m \in ToSet(t) : l # m /\ rank[l.op] <= rank[m.op]
  PROVE  /\ s \o t \in Seq(LineSet) /\ Sorted(s \o t, rank)
         /\ ToSet(s \o t) = ToSet(s) \cup ToSet(t)
<1> DEFINE m == Len(s)
           n == Len(t)
<1>1. /\ m \in Nat /\ n \in Nat /\ DOMAIN s = 1..m /\ DOMAIN t = 1..n
      /\ s \o t \in Seq(LineSet) /\ DOMAIN (s \o t) = 1..(m + n)
  OBVIOUS
<1>2. \A i \in 1..(m + n) : (s \o t)[i] = IF i <= m THEN s[i] ELSE t[i - m]
  OBVIOUS
<1>3. \A i \in 1..(m + n) : IF i <= m THEN i \in 1..m ELSE i - m \in 1..n
  BY <1>1
<1>4. Sorted(s \o t, rank)
  <2> SUFFICES ASSUME NEW i \in 1..(m + n), NEW j \in 1..(m + n), i < j
               PROVE  /\ (s \o t)[i] # (s \o t)[j]
                      /\ rank[(s \o t)[i].op] <= rank[(s \o t)[j].op]
    BY <1>1 DEF Sorted
  <2>1. CASE j <= m
    <3>1. i \in 1..m /\ j \in 1..m /\ i <= m
      BY <1>1, <2>1
    <3>2. QED
      BY <1>1, <1>2, <2>1, <3>1 DEF Sorted
  <2>2. CASE i > m
    <3>1. /\ i - m \in 1..n /\ j - m \in 1..n /\ i - m < j - m /\ ~(i <= m) /\ ~(j <= m)
      BY <1>1, <2>2
    <3>2. QED
      BY <1>1, <1>2, <3>1 DEF Sorted
  <2>3. CASE i <= m /\ j > m
    <3>1. i \in 1..m /\ j - m \in 1..n /\ ~(j <= m)
      BY <1>1, <2>3
    <3>2. s[i] \in ToSet(s) /\ t[j - m] \in ToSet(t)
      BY <1>1, <3>1 DEF ToSet
    <3>3. QED
      BY <1>2, <2>3, <3>1, <3>2
  <2>4. QED
    BY <1>1, <2>1, <2>2, <2>3
<1>5. ToSet(s \o t) = ToSet(s) \cup ToSet(t)
  <2>1. ToSet(s \o t) \subseteq ToSet(s) \cup ToSet(t)
    BY <1>1, <1>2, <1>3 DEF ToSet
  <2>2. ASSUME NEW i \in 1..m
        PROVE  s[i] \in ToSet(s \o t)
    <3>1. i \in 1..(m + n) /\ i <= m
      BY <1>1
    <3>2. QED
      BY <1>1, <1>2, <3>1 DEF ToSet
  <2>3. ASSUME NEW i \in 1..n
        PROVE  t[i] \in ToSet(s \o t)
    <3>1. i + m \in 1..(m + n) /\ ~(i + m <= m) /\ (i + m) - m = i
      BY <1>1
    <3>2. QED
      BY <1>1, <1>2, <3>1 DEF ToSet
  <2>4. QED
    BY <1>1, <2>1, <2>2, <2>3 DEF ToSet
<1>6. QED
  BY <1>1, <1>4, <1>5

LEMMA HeadAndTail ==
  ASSUME NEW s \in Seq(LineSet), s # <<>>
  PROVE  /\ Head(s) \in ToSet(s) /\ Head(s) \in LineSet /\ Tail(s) \in Seq(LineSet)
         /\ ToSet(s) = ToSet(Tail(s)) \cup {Head(s)}
<1> DEFINE n == Len(s)
<1>1. /\ n \in Nat \ {0} /\ DOMAIN s = 1..n /\ 1 \in DOMAIN s /\ Head(s) = s[1] /\ s[1] \in LineSet
  OBVIOUS
<1>2. /\ Tail(s) \in Seq(LineSet) /\ DOMAIN Tail(s) = 1..(n - 1)
      /\ \A i \in 1..(n - 1) : Tail(s)[i] = s[i + 1]
  OBVIOUS
<1>3. \A i \in 1..(n - 1) : i + 1 \in 1..n
  BY <1>1
<1>4. \A i \in 1..n : i = 1 \/ (i - 1 \in 1..(n - 1) /\ (i - 1) + 1 = i)
  BY <1>1
<1>5. ToSet(Tail(s)) \cup {Head(s)} \subseteq ToSet(s)
  BY <1>1, <1>2, <1>3 DEF ToSet
<1>6. ToSet(s) \subseteq ToSet(Tail(s)) \cup {Head(s)}
  <2> SUFFICES ASSUME NEW i \in 1..n
               PROVE  s[i] \in ToSet(Tail(s)) \cup {Head(s)}
    BY <1>1 DEF ToSet
  <2>1. CASE i = 1
    BY <1>1, <2>1
  <2>2. CASE i # 1
    <3>1. i - 1 \in 1..(n - 1) /\ Tail(s)[i - 1] = s[i]
      BY <1>2, <1>4, <2>2
    <3>2. QED
      BY <1>2, <3>1 DEF ToSet
  <2>3. QED
    BY <2>1, <2>2
<1>7. QED
  BY <1>1, <1>2, <1>5, <1>6 DEF ToSet

\* Of a sorted list the head comes no later than any other line, and it is
\* not among the rest.
LEMMA HeadIsFirst ==
  ASSUME NEW s \in Seq(LineSet), s # <<>>, NEW rank \in Ranks, Sorted(s, rank)
  PROVE  /\ Head(s) \in ToSet(s) /\ Head(s) \in LineSet
         /\ Tail(s) \in Seq(LineSet) /\ Sorted(Tail(s), rank)
         /\ ToSet(Tail(s)) = ToSet(s) \ {Head(s)}
         /\ \A l \in ToSet(s) : rank[Head(s).op] <= rank[l.op]
<1> DEFINE n == Len(s)
<1>1. /\ n \in Nat \ {0} /\ DOMAIN s = 1..n /\ 1 \in DOMAIN s /\ Head(s) = s[1] /\ s[1] \in LineSet
  OBVIOUS
<1>2. /\ Tail(s) \in Seq(LineSet) /\ DOMAIN Tail(s) = 1..(n - 1)
      /\ \A i \in 1..(n - 1) : Tail(s)[i] = s[i + 1]
  OBVIOUS
<1>3. \A i \in 1..(n - 1) : i + 1 \in 1..n /\ 1 < i + 1
  BY <1>1
<1>4. \A i \in 1..n : i = 1 \/ (i - 1 \in 1..(n - 1) /\ (i - 1) + 1 = i)
  BY <1>1
<1>5. Sorted(Tail(s), rank)
  <2> SUFFICES ASSUME NEW i \in 1..(n - 1), NEW j \in 1..(n - 1), i < j
               PROVE  s[i + 1] # s[j + 1] /\ rank[s[i + 1].op] <= rank[s[j + 1].op]
    BY <1>2 DEF Sorted
  <2>1. i + 1 \in 1..n /\ j + 1 \in 1..n /\ i + 1 < j + 1
    BY <1>1
  <2>2. QED
    BY <1>1, <2>1 DEF Sorted
<1>6. ToSet(Tail(s)) = ToSet(s) \ {Head(s)}
  <2>1. \A i \in 1..(n - 1) : s[i + 1] # s[1]
    BY <1>1, <1>3 DEF Sorted
  <2>2. ToSet(Tail(s)) \subseteq ToSet(s) \ {Head(s)}
    BY <1>1, <1>2, <1>3, <2>1 DEF ToSet
  <2>3. ASSUME NEW i \in 1..n, s[i] # Head(s)
        PROVE  s[i] \in ToSet(Tail(s))
    <3>1. i - 1 \in 1..(n - 1) /\ (i - 1) + 1 = i
      BY <1>1, <1>4, <2>3
    <3>2. QED
      BY <1>2, <3>1 DEF ToSet
  <2>4. QED
    BY <1>1, <2>2, <2>3 DEF ToSet
<1>7. \A l \in ToSet(s) : rank[Head(s).op] <= rank[l.op]
  <2>1. \A i \in 1..n : s[i].op \in Ops
    <3>1. \A i \in 1..n : s[i] \in LineSet
      BY <1>1
    <3>2. QED
      BY <3>1 DEF LineSet
  <2>2. \A i \in 1..n : rank[s[i].op] \in Nat
    BY <2>1 DEF Ranks
  <2>3. \A i \in 1..n : i = 1 \/ 1 < i
    BY <1>1
  <2>4. \A i \in 1..n : rank[s[1].op] <= rank[s[i].op]
    BY <1>1, <2>2, <2>3 DEF Sorted
  <2>5. QED
    BY <1>1, <2>4 DEF ToSet
<1>8. Head(s) \in ToSet(s)
  BY <1>1 DEF ToSet
<1>9. QED
  BY <1>1, <1>2, <1>5, <1>6, <1>7, <1>8

-----------------------------------------------------------------------------
(* Lists of lists, joined: FlattenSeq's recursive function has the values    *)
(* its definition asks for.                                                  *)

LEMMA Flattened ==
  ASSUME NEW T, NEW ss \in Seq(Seq(T)), ss # <<>>
  PROVE  \E f \in [1..Len(ss) -> Seq(T)] :
           /\ \A i \in 1..Len(ss) : f[i] = IF i = 1 THEN ss[i] ELSE f[i - 1] \o ss[i]
           /\ FlattenSeq(ss) = f[Len(ss)]
<1> DEFINE n == Len(ss)
           step(f, i) == IF i = 1 THEN ss[i] ELSE f[i - 1] \o ss[i]
           good(f, k) == f = [i \in 1..k |-> step(f, i)]
           flatten == CHOOSE f : good(f, n)
<1>1. n \in Nat \ {0} /\ \A i \in 1..n : ss[i] \in Seq(T)
  OBVIOUS
<1>2. \A k \in 1..n : \E f : good(f, k)
  <2> DEFINE bad == {k \in 1..n : ~\E f : good(f, k)}
  <2>1. SUFFICES ASSUME bad # {} PROVE FALSE
    OBVIOUS
  <2>2. bad \in SUBSET Nat
    <3>1. 1..n \subseteq Nat
      BY <1>1
    <3>2. QED
      BY <3>1, Zenon
  <2>3. PICK k \in bad : \A j \in bad : k <= j
    BY <2>1, <2>2, LeastOf
  <2>4. k \in 1..n /\ ~\E f : good(f, k)
    OBVIOUS
  <2>5. CASE k = 1
    <3> DEFINE g == [i \in 1..1 |-> ss[i]]
    <3>1. good(g, 1)
      OBVIOUS
    <3>2. QED
      BY <2>4, <2>5, <3>1
  <2>6. CASE k # 1
    <3>1. k - 1 \in 1..n /\ ~(k <= k - 1)
      BY <1>1, <2>4, <2>6
    <3>2. k - 1 \notin bad
      BY <2>3, <3>1
    <3>3. PICK f : good(f, k - 1)
      BY <3>1, <3>2
    <3> DEFINE g == [i \in 1..k |-> IF i < k THEN f[i] ELSE step(f, i)]
    <3>4. \A i \in 1..(k - 1) : f[i] = step(f, i)
      BY <3>3, Zenon
    <3>5. \A i \in 1..k : i < k => i \in 1..(k - 1)
      BY <2>4
    <3>6. \A i \in 1..k : i # 1 => i - 1 \in 1..k /\ i - 1 < k
      BY <2>4
    <3>7. \A i \in 1..k : i # 1 => g[i - 1] = f[i - 1]
      BY <3>6
    <3>8. \A i \in 1..k : step(g, i) = step(f, i)
      BY <3>7
    <3>9. \A i \in 1..k : g[i] = step(f, i)
      BY <3>4, <3>5
    <3>10. good(g, k)
      BY <3>8, <3>9
    <3>11. QED
      BY <2>4, <3>10
  <2>7. QED
    BY <2>5, <2>6
<1>3. good(flatten, n)
  <2>1. n \in 1..n
    BY <1>1
  <2>2. \E f : good(f, n)
    BY <1>2, <2>1
  <2>3. QED
    BY <2>2, Zenon
<1>4. FlattenSeq(ss) = flatten[n]
  BY <1>1 DEF FlattenSeq
<1> HIDE DEF flatten
<1>5. \A i \in 1..n : flatten[i] = step(flatten, i)
  BY <1>3, Zenon
<1>6. \A i \in 1..n : flatten[i] \in Seq(T)
  <2> DEFINE bad == {k \in 1..n : flatten[k] \notin Seq(T)}
  <2>1. SUFFICES ASSUME bad # {} PROVE FALSE
    OBVIOUS
  <2>2. bad \in SUBSET Nat
    BY <1>1
  <2>3. PICK k \in bad : \A j \in bad : k <= j
    BY <2>1, <2>2, LeastOf
  <2>4. k \in 1..n /\ flatten[k] \notin Seq(T)
    OBVIOUS
  <2>5. CASE k = 1
    BY <1>1, <1>5, <2>4, <2>5
  <2>6. CASE k # 1
    <3>1. k - 1 \in 1..n /\ ~(k <= k - 1)
      BY <1>1, <2>4, <2>6
    <3>2. flatten[k - 1] \in Seq(T) /\ ss[k] \in Seq(T)
      BY <1>1, <2>3, <2>4, <3>1
    <3>3. flatten[k] = flatten[k - 1] \o ss[k]
      BY <1>5, <2>4, <2>6
    <3>4. QED
      BY <2>4, <3>2, <3>3
  <2>7. QED
    BY <2>5, <2>6
<1>7. flatten \in [1..n -> Seq(T)]
  BY <1>3, <1>6, Zenon
<1>8. QED
  BY <1>4, <1>5, <1>7, Zenon

LEMMA JoinedAll ==
  ASSUME NEW ss \in Seq(Seq(LineSet)), NEW rank,
         \A i \in 1..Len(ss) : Sorted(ss[i], rank),
         \A i, j \in 1..Len(ss) : i < j =>
           \A l \in ToSet(ss[i]), m \in ToSet(ss[j]) : l # m /\ rank[l.op] <= rank[m.op]
  PROVE  /\ FlattenSeq(ss) \in Seq(LineSet) /\ Sorted(FlattenSeq(ss), rank)
         /\ \A l : l \in ToSet(FlattenSeq(ss)) <=> \E i \in 1..Len(ss) : l \in ToSet(ss[i])
<1> DEFINE n == Len(ss)
<1>1. n \in Nat /\ \A i \in 1..n : ss[i] \in Seq(LineSet)
  OBVIOUS
<1>2. CASE ss = <<>>
  <2> DEFINE e == FlattenSeq(ss)
  <2>1. e = <<>> /\ n = 0
    BY <1>2 DEF FlattenSeq
  <2>2. e \in Seq(LineSet) /\ DOMAIN e = {} /\ 1..n = {}
    BY <2>1
  <2> HIDE DEF e
  <2>3. Sorted(e, rank) /\ ToSet(e) = {}
    BY <2>2 DEF Sorted, ToSet
  <2>4. QED
    BY <2>2, <2>3 DEF e
<1>3. CASE ss # <<>>
  <2>1. n \in Nat \ {0}
    BY <1>3
  <2>2. PICK f \in [1..n -> Seq(LineSet)] :
          /\ \A i \in 1..n : f[i] = IF i = 1 THEN ss[i] ELSE f[i - 1] \o ss[i]
          /\ FlattenSeq(ss) = f[n]
    BY <1>3, Flattened
  <2> DEFINE good(k) == /\ Sorted(f[k], rank)
                        /\ \A l : l \in ToSet(f[k]) <=> \E i \in 1..k : l \in ToSet(ss[i])
             bad == {k \in 1..n : ~good(k)}
  <2>3. bad = {}
    <3>1. SUFFICES ASSUME bad # {} PROVE FALSE
      OBVIOUS
    <3>2. bad \in SUBSET Nat
      BY <1>1
    <3>3. PICK k \in bad : \A j \in bad : k <= j
      BY <3>1, <3>2, LeastOf
    <3>4. k \in 1..n /\ ~good(k)
      OBVIOUS
    <3>5. CASE k = 1
      <4>1. f[k] = ss[k]
        BY <2>2, <3>4, <3>5
      <4>2. 1..k = {k}
        <5>1. \A i \in 1..k : i = k
          BY <3>5
        <5>2. k \in 1..k
          BY <3>5
        <5>3. QED
          BY <5>1, <5>2
      <4>3. \A l : l \in ToSet(f[k]) <=> \E i \in 1..k : l \in ToSet(ss[i])
        BY <4>1, <4>2, Zenon
      <4>4. Sorted(f[k], rank)
        BY <3>4, <4>1
      <4>5. QED
        BY <3>4, <4>3, <4>4
    <3>6. CASE k # 1
      <4>1. k - 1 \in 1..n /\ ~(k <= k - 1)
        BY <1>1, <3>4, <3>6
      <4>2. good(k - 1)
        BY <3>3, <4>1
      <4>3. f[k] = f[k - 1] \o ss[k] /\ f[k - 1] \in Seq(LineSet) /\ ss[k] \in Seq(LineSet)
        BY <1>1, <2>2, <3>4, <3>6, <4>1
      <4>4. \A i \in 1..(k - 1) : i \in 1..n /\ i < k
        BY <1>1, <3>4
      <4>5. \A l \in ToSet(f[k - 1]), m \in ToSet(ss[k]) : l # m /\ rank[l.op] <= rank[m.op]
        BY <3>4, <4>2, <4>4
      <4>6. /\ Sorted(f[k], rank)
            /\ ToSet(f[k]) = ToSet(f[k - 1]) \cup ToSet(ss[k])
        BY <3>4, <4>2, <4>3, <4>5, Joined
      <4>7. 1..k = 1..(k - 1) \cup {k}
        <5>1. k \in Nat /\ k # 0
          BY <1>1, <3>4
        <5>2. \A i \in Int : i \in 1..k <=> i \in 1..(k - 1) \/ i = k
          BY <5>1
        <5>3. 1..k \subseteq Int /\ 1..(k - 1) \subseteq Int /\ k \in Int
          BY <5>1
        <5>4. QED
          BY <5>2, <5>3
      <4>8. \A l : l \in ToSet(f[k]) <=> \E i \in 1..k : l \in ToSet(ss[i])
        BY <4>2, <4>6, <4>7
      <4>9. QED
        BY <3>4, <4>6, <4>8
    <3>7. QED
      BY <3>5, <3>6
  <2>4. n \in 1..n
    BY <2>1
  <2>5. good(n)
    BY <2>3, <2>4
  <2>6. QED
    BY <2>2, <2>4, <2>5
<1>4. QED
  BY <1>2, <1>3

-----------------------------------------------------------------------------
(* The lines of an operation.                                                *)

contextRank == [o \in Ops |-> IF o = "no_untagged" THEN 1 ELSE IF o = "no_tagged" THEN 2
                             ELSE IF o = "untagged" THEN 3 ELSE 4]
dualRank == [o \in Ops |-> IF o = "no_dual" THEN 1 ELSE IF o = "no_untagged" THEN 2
                          ELSE IF o = "tagged" THEN 3 ELSE IF o = "dual" THEN 4
                          ELSE IF o = "no_tagged" THEN 5 ELSE IF o = "untagged" THEN 6 ELSE 7]
removalRank == [o \in Ops |-> IF o = "no_dual" THEN 1 ELSE 2]

LEMMA RankTypes == contextRank \in Ranks /\ dualRank \in Ranks /\ removalRank \in Ranks
BY DEF contextRank, dualRank, removalRank, Ranks

LEMMA ContextRanks ==
  /\ contextRank["no_untagged"] = 1 /\ contextRank["no_tagged"] = 2
  /\ contextRank["untagged"] = 3 /\ contextRank["tagged"] = 4 /\ contextRank["bulk"] = 4
BY DEF contextRank, Ops

LEMMA DualRanks ==
  /\ dualRank["no_dual"] = 1 /\ dualRank["no_untagged"] = 2 /\ dualRank["tagged"] = 3
  /\ dualRank["dual"] = 4 /\ dualRank["no_tagged"] = 5 /\ dualRank["untagged"] = 6
BY DEF dualRank, Ops

LEMMA RemovalRanks ==
  /\ removalRank["no_dual"] = 1 /\ removalRank["no_tagged"] = 2
  /\ removalRank["no_untagged"] = 2 /\ removalRank["untagged"] = 2
BY DEF removalRank, Ops

LEMMA WantedTypes ==
  ASSUME NEW w \in Wanted, NEW vs \in SUBSET Vlans
  PROVE  /\ w.all \in BOOLEAN /\ w.tagged \in SUBSET Vlans /\ w.untagged \in Vlans \cup {None}
         /\ ResolveTagged(w, vs) \in SUBSET Vlans /\ IsDual(w, vs) \in BOOLEAN
         /\ ContextTagged(w, vs) \in SUBSET Vlans
         /\ ContextUntagged(w, vs) \in Vlans \cup {None}
<1>1. w.all \in BOOLEAN /\ w.tagged \in SUBSET Vlans /\ w.untagged \in Vlans \cup {None}
  BY DEF Wanted
<1>2. ResolveTagged(w, vs) \in SUBSET Vlans
  BY <1>1 DEF ResolveTagged, ExpandAll
<1>3. IsDual(w, vs) \in BOOLEAN
  BY DEF IsDual
<1>4. ContextTagged(w, vs) \in SUBSET Vlans
  BY <1>1, <1>2, <1>3 DEF ContextTagged, IsDual
<1>5. ContextUntagged(w, vs) \in Vlans \cup {None}
  BY <1>1 DEF ContextUntagged
<1>6. QED
  BY <1>1, <1>2, <1>3, <1>4, <1>5

\* On context firmware: what goes goes first, and the untagged VLAN before tags.
LEMMA ContextLines ==
  ASSUME NEW plan \in Wanted, NEW old \in Wanted, NEW vs \in SUBSET Vlans, NEW bulk \in BOOLEAN
  PROVE  LET new == ResolveTagged(plan, vs)
             was == ResolveTagged(old, vs)
             s == BuildContext(plan, old, vs, bulk) IN
         /\ s \in Seq(LineSet) /\ Sorted(s, contextRank)
         /\ ToSet(s) =
              (IF DropsUntagged(plan.untagged, old.untagged)
               THEN {Line("no_untagged", old.untagged)} ELSE {})
              \cup {Line("no_tagged", v) : v \in was \ new}
              \cup (IF AddsUntagged(plan.untagged, old.untagged)
                    THEN {Line("untagged", plan.untagged)} ELSE {})
              \cup (IF new \ was # {} /\ bulk THEN {Line("bulk", None)}
                    ELSE {Line("tagged", v) : v \in new \ was})
<1> DEFINE new == ResolveTagged(plan, vs)
           was == ResolveTagged(old, vs)
           drops == DropsUntagged(plan.untagged, old.untagged)
           adds == AddsUntagged(plan.untagged, old.untagged)
           a == When(drops, Line("no_untagged", old.untagged))
           b == ForEach("no_tagged", was \ new)
           c == When(adds, Line("untagged", plan.untagged))
           d == IF new \ was # {} /\ bulk THEN <<Line("bulk", None)>>
                ELSE ForEach("tagged", new \ was)
           A == IF drops THEN {Line("no_untagged", old.untagged)} ELSE {}
           B == {Line("no_tagged", v) : v \in was \ new}
           C == IF adds THEN {Line("untagged", plan.untagged)} ELSE {}
           D == IF new \ was # {} /\ bulk THEN {Line("bulk", None)}
                ELSE {Line("tagged", v) : v \in new \ was}
<1>1. /\ was \ new \in SUBSET Vlans /\ new \ was \in SUBSET Vlans
      /\ plan.untagged \in Vlans \cup {None} /\ old.untagged \in Vlans \cup {None}
  BY WantedTypes
<1>2. /\ {"no_untagged", "no_tagged", "untagged", "tagged", "bulk"} \subseteq Ops
      /\ drops \in BOOLEAN /\ adds \in BOOLEAN
  BY DEF Ops, DropsUntagged, AddsUntagged
<1>3. a \in Seq(LineSet) /\ Sorted(a, contextRank) /\ ToSet(a) = A
  <2>1. Line("no_untagged", old.untagged) \in LineSet
    BY <1>1, <1>2, LinesAreLines
  <2>2. QED
    BY <1>2, <2>1, OneLine
<1>4. b \in Seq(LineSet) /\ Sorted(b, contextRank) /\ ToSet(b) = B
  BY <1>1, <1>2, RankTypes, EachLine
<1>5. c \in Seq(LineSet) /\ Sorted(c, contextRank) /\ ToSet(c) = C
  <2>1. Line("untagged", plan.untagged) \in LineSet
    BY <1>1, <1>2, LinesAreLines
  <2>2. QED
    BY <1>2, <2>1, OneLine
<1>6. d \in Seq(LineSet) /\ Sorted(d, contextRank) /\ ToSet(d) = D
  <2>1. CASE new \ was # {} /\ bulk
    <3>1. Line("bulk", None) \in LineSet
      BY <1>2, LinesAreLines
    <3>2. d = When(TRUE, Line("bulk", None))
      BY <2>1 DEF When
    <3>3. D = {Line("bulk", None)}
      BY <2>1
    <3> DEFINE o == When(TRUE, Line("bulk", None))
    <3>4. o \in Seq(LineSet) /\ Sorted(o, contextRank) /\ ToSet(o) = {Line("bulk", None)}
      BY <3>1, OneLine
    <3>5. QED
      BY <3>2, <3>3, <3>4, Zenon
  <2>2. CASE ~(new \ was # {} /\ bulk)
    <3>1. d = ForEach("tagged", new \ was) /\ D = {Line("tagged", v) : v \in new \ was}
      BY <2>2
    <3> DEFINE e == ForEach("tagged", new \ was)
    <3>2. /\ e \in Seq(LineSet) /\ Sorted(e, contextRank)
          /\ ToSet(e) = {Line("tagged", v) : v \in new \ was}
      BY <1>1, <1>2, RankTypes, EachLine
    <3>3. QED
      BY <3>1, <3>2, Zenon
  <2>3. QED
    BY <2>1, <2>2
<1>7. /\ \A l \in A : l.op = "no_untagged"
      /\ \A l \in B : l.op = "no_tagged"
      /\ \A l \in C : l.op = "untagged"
      /\ \A l \in D : l.op \in {"tagged", "bulk"}
  <2>1. \A op, v : Line(op, v).op = op
    BY DEF Line
  <2>2. QED
    BY <2>1
<1>8. BuildContext(plan, old, vs, bulk) = a \o b \o c \o d
  BY DEF BuildContext
<1> HIDE DEF a, b, c, d, A, B, C, D
<1>9. /\ a \o b \in Seq(LineSet) /\ Sorted(a \o b, contextRank) /\ ToSet(a \o b) = A \cup B
  <2>1. ASSUME NEW l \in A, NEW m \in B
        PROVE  l # m /\ contextRank[l.op] <= contextRank[m.op]
    <3>1. l.op = "no_untagged" /\ m.op = "no_tagged"
      BY <1>7
    <3>2. QED
      BY <3>1, ContextRanks
  <2>2. QED
    BY <1>3, <1>4, <2>1, Joined
<1>10. /\ a \o b \o c \in Seq(LineSet) /\ Sorted(a \o b \o c, contextRank)
       /\ ToSet(a \o b \o c) = A \cup B \cup C
  <2>1. \A l \in A \cup B, m \in C : l # m /\ contextRank[l.op] <= contextRank[m.op]
    BY <1>7, ContextRanks
  <2>2. QED
    BY <1>5, <1>9, <2>1, Joined
<1>11. /\ a \o b \o c \o d \in Seq(LineSet) /\ Sorted(a \o b \o c \o d, contextRank)
       /\ ToSet(a \o b \o c \o d) = A \cup B \cup C \cup D
  <2>1. \A l \in A \cup B \cup C, m \in D : l # m /\ contextRank[l.op] <= contextRank[m.op]
    BY <1>7, ContextRanks
  <2>2. QED
    BY <1>6, <1>10, <2>1, Joined
<1>12. QED
  BY <1>8, <1>11 DEF A, B, C, D

\* On dual-mode firmware: dual-mode is left first, the port is tagged in the new
\* VLANs before dual-mode selects one of them, and tags go before an access VLAN
\* comes.
LEMMA DualLines ==
  ASSUME NEW plan \in Wanted, NEW old \in Wanted, NEW vs \in SUBSET Vlans,
         NEW dual \in Vlans \cup {None}
  PROVE  LET new == ContextTagged(plan, vs)
             was == ContextTagged(old, vs)
             u == ContextUntagged(plan, vs)
             w == ContextUntagged(old, vs)
             s == BuildDual(plan, old, vs, dual) IN
         /\ s \in Seq(LineSet) /\ Sorted(s, dualRank)
         /\ ToSet(s) =
              (IF LeavesDual(plan, vs, dual) THEN {Line("no_dual", None)} ELSE {})
              \cup (IF DropsUntagged(u, w) THEN {Line("no_untagged", w)} ELSE {})
              \cup {Line("tagged", v) : v \in new \ was}
              \cup (IF SelectsDual(plan, vs, dual) THEN {Line("dual", plan.untagged)} ELSE {})
              \cup {Line("no_tagged", v) : v \in was \ new}
              \cup (IF AddsUntagged(u, w) THEN {Line("untagged", u)} ELSE {})
<1> DEFINE new == ContextTagged(plan, vs)
           was == ContextTagged(old, vs)
           u == ContextUntagged(plan, vs)
           w == ContextUntagged(old, vs)
           leaves == LeavesDual(plan, vs, dual)
           drops == DropsUntagged(u, w)
           selects == SelectsDual(plan, vs, dual)
           adds == AddsUntagged(u, w)
           a == When(leaves, Line("no_dual", None))
           b == When(drops, Line("no_untagged", w))
           c == ForEach("tagged", new \ was)
           d == When(selects, Line("dual", plan.untagged))
           e == ForEach("no_tagged", was \ new)
           f == When(adds, Line("untagged", u))
           A == IF leaves THEN {Line("no_dual", None)} ELSE {}
           B == IF drops THEN {Line("no_untagged", w)} ELSE {}
           C == {Line("tagged", v) : v \in new \ was}
           D == IF selects THEN {Line("dual", plan.untagged)} ELSE {}
           E == {Line("no_tagged", v) : v \in was \ new}
           F == IF adds THEN {Line("untagged", u)} ELSE {}
<1>1. /\ was \ new \in SUBSET Vlans /\ new \ was \in SUBSET Vlans
      /\ plan.untagged \in Vlans \cup {None} /\ u \in Vlans \cup {None}
      /\ w \in Vlans \cup {None} /\ None \in Vlans \cup {None}
  BY WantedTypes
<1>2. {"no_dual", "no_untagged", "tagged", "dual", "no_tagged", "untagged"} \subseteq Ops
  BY DEF Ops
<1>3. leaves \in BOOLEAN /\ drops \in BOOLEAN /\ selects \in BOOLEAN /\ adds \in BOOLEAN
  BY WantedTypes DEF LeavesDual, DropsUntagged, SelectsDual, AddsUntagged
<1> HIDE DEF leaves, drops, selects, adds, u, w, new, was
<1>4. a \in Seq(LineSet) /\ Sorted(a, dualRank) /\ ToSet(a) = A
  <2>1. Line("no_dual", None) \in LineSet
    BY <1>1, <1>2, LinesAreLines
  <2>2. QED
    BY <1>3, <2>1, OneLine
<1>5. b \in Seq(LineSet) /\ Sorted(b, dualRank) /\ ToSet(b) = B
  <2>1. Line("no_untagged", w) \in LineSet
    BY <1>1, <1>2, LinesAreLines
  <2>2. QED
    BY <1>3, <2>1, OneLine
<1>6. c \in Seq(LineSet) /\ Sorted(c, dualRank) /\ ToSet(c) = C
  BY <1>1, <1>2, RankTypes, EachLine
<1>7. d \in Seq(LineSet) /\ Sorted(d, dualRank) /\ ToSet(d) = D
  <2>1. Line("dual", plan.untagged) \in LineSet
    BY <1>1, <1>2, LinesAreLines
  <2>2. QED
    BY <1>3, <2>1, OneLine
<1>8. e \in Seq(LineSet) /\ Sorted(e, dualRank) /\ ToSet(e) = E
  BY <1>1, <1>2, RankTypes, EachLine
<1>9. f \in Seq(LineSet) /\ Sorted(f, dualRank) /\ ToSet(f) = F
  <2>1. Line("untagged", u) \in LineSet
    BY <1>1, <1>2, LinesAreLines
  <2>2. QED
    BY <1>3, <2>1, OneLine
<1>10. /\ \A l \in A : l.op = "no_dual"
       /\ \A l \in B : l.op = "no_untagged"
       /\ \A l \in C : l.op = "tagged"
       /\ \A l \in D : l.op = "dual"
       /\ \A l \in E : l.op = "no_tagged"
       /\ \A l \in F : l.op = "untagged"
  <2>1. \A op, v : Line(op, v).op = op
    BY DEF Line
  <2>2. QED
    BY <2>1
<1>11. BuildDual(plan, old, vs, dual) = a \o b \o c \o d \o e \o f
  BY DEF BuildDual, leaves, drops, selects, adds, u, w, new, was
<1> HIDE DEF a, b, c, d, e, f, A, B, C, D, E, F
<1> DEFINE ab == a \o b
           abc == ab \o c
           abcd == abc \o d
           abcde == abcd \o e
           all == abcde \o f
<1>12. ab \in Seq(LineSet) /\ Sorted(ab, dualRank) /\ ToSet(ab) = A \cup B
  <2>1. \A l \in A, m \in B : l # m /\ dualRank[l.op] <= dualRank[m.op]
    BY <1>10, DualRanks
  <2>2. QED
    BY <1>4, <1>5, <2>1, Joined
<1> HIDE DEF ab
<1>13. abc \in Seq(LineSet) /\ Sorted(abc, dualRank) /\ ToSet(abc) = A \cup B \cup C
  <2>1. \A l \in A \cup B, m \in C : l # m /\ dualRank[l.op] <= dualRank[m.op]
    BY <1>10, DualRanks
  <2>2. QED
    BY <1>6, <1>12, <2>1, Joined
<1> HIDE DEF abc
<1>14. abcd \in Seq(LineSet) /\ Sorted(abcd, dualRank) /\ ToSet(abcd) = A \cup B \cup C \cup D
  <2>1. \A l \in A \cup B \cup C, m \in D : l # m /\ dualRank[l.op] <= dualRank[m.op]
    BY <1>10, DualRanks
  <2>2. QED
    BY <1>7, <1>13, <2>1, Joined
<1> HIDE DEF abcd
<1>15. /\ abcde \in Seq(LineSet) /\ Sorted(abcde, dualRank)
       /\ ToSet(abcde) = A \cup B \cup C \cup D \cup E
  <2>1. \A l \in A \cup B \cup C \cup D, m \in E : l # m /\ dualRank[l.op] <= dualRank[m.op]
    BY <1>10, DualRanks
  <2>2. QED
    BY <1>8, <1>14, <2>1, Joined
<1> HIDE DEF abcde
<1>16. /\ all \in Seq(LineSet) /\ Sorted(all, dualRank)
       /\ ToSet(all) = A \cup B \cup C \cup D \cup E \cup F
  <2>1. \A l \in A \cup B \cup C \cup D \cup E, m \in F :
          l # m /\ dualRank[l.op] <= dualRank[m.op]
    BY <1>10, DualRanks
  <2>2. QED
    BY <1>9, <1>15, <2>1, Joined
<1>17. BuildDual(plan, old, vs, dual) = all
  BY <1>11 DEF ab, abc, abcd, abcde
<1>18. QED
  BY <1>16, <1>17 DEF A, B, C, D, E, F, leaves, drops, selects, adds, u, w, new, was

\* A delete removes every membership the port shows, and dual-mode before it.
LEMMA RemovalLines ==
  ASSUME NEW p \in Port, NEW vs \in SUBSET Vlans
  PROVE  LET s == RemoveAll(p, vs) IN
         /\ s \in Seq(LineSet) /\ Sorted(s, removalRank)
         /\ ToSet(s) =
              (IF p.dual # None THEN {Line("no_dual", None)} ELSE {})
              \cup {Line("no_tagged", v) : v \in (vs \ {DefaultVlan}) \cap p.tagged}
              \cup {Line("no_untagged", v) : v \in (vs \ {DefaultVlan}) \cap {p.untagged}}
<1> DEFINE S == vs \ {DefaultVlan}
           n == Cardinality(S)
           ids == Ascending(S)
           x(v) == When(v \in p.tagged, Line("no_tagged", v))
           y(v) == When(v = p.untagged, Line("no_untagged", v))
           ss == [i \in DOMAIN ids |-> x(ids[i]) \o y(ids[i])]
           a == When(p.dual # None, Line("no_dual", None))
<1>1. /\ ids \in [1..n -> S] /\ n \in Nat
      /\ \A i, j \in 1..n : i # j => ids[i] # ids[j]
      /\ \A v \in S : \E i \in 1..n : ids[i] = v
  <2>1. S \in SUBSET Int /\ IsFiniteSet(S)
    BY VlansAreFinite
  <2>2. QED
    BY <2>1, AscendingLists
<1>2. S \subseteq Vlans /\ {"no_dual", "no_tagged", "no_untagged"} \subseteq Ops
  BY DEF Ops
<1> HIDE DEF ids, S
<1>3. \A v \in S : /\ x(v) \o y(v) \in Seq(LineSet) /\ Sorted(x(v) \o y(v), removalRank)
                   /\ \A l : l \in ToSet(x(v) \o y(v)) <=>
                        \/ l = Line("no_tagged", v) /\ v \in p.tagged
                        \/ l = Line("no_untagged", v) /\ v = p.untagged
  <2> TAKE v \in S
  <2> DEFINE r == x(v)
             t == y(v)
             R == IF v \in p.tagged THEN {Line("no_tagged", v)} ELSE {}
             T == IF v = p.untagged THEN {Line("no_untagged", v)} ELSE {}
  <2>1. /\ Line("no_tagged", v) \in LineSet /\ Line("no_untagged", v) \in LineSet
        /\ Line("no_tagged", v).op = "no_tagged" /\ Line("no_untagged", v).op = "no_untagged"
    BY <1>2, LinesAreLines
  <2>2. r \in Seq(LineSet) /\ Sorted(r, removalRank) /\ ToSet(r) = R
    <3> DEFINE c == v \in p.tagged
    <3>1. c \in BOOLEAN
      OBVIOUS
    <3> HIDE DEF c
    <3>2. r = When(c, Line("no_tagged", v)) /\ R = IF c THEN {Line("no_tagged", v)} ELSE {}
      BY DEF c
    <3> HIDE DEF r, R
    <3>3. QED
      BY <2>1, <3>1, <3>2, OneLine
  <2>3. t \in Seq(LineSet) /\ Sorted(t, removalRank) /\ ToSet(t) = T
    BY <2>1, OneLine
  <2>4. \A l \in R, m \in T : l # m /\ removalRank[l.op] <= removalRank[m.op]
    BY <2>1, RemovalRanks
  <2> HIDE DEF r, t
  <2>5. r \o t \in Seq(LineSet) /\ Sorted(r \o t, removalRank) /\ ToSet(r \o t) = R \cup T
    BY <2>2, <2>3, <2>4, Joined
  <2>6. QED
    BY <2>5 DEF r, t
<1>4. /\ ss \in Seq(Seq(LineSet)) /\ Len(ss) = n
      /\ \A i \in 1..n : ss[i] = x(ids[i]) \o y(ids[i]) /\ ids[i] \in S
  <2> DEFINE z(v) == x(v) \o y(v)
  <2>1. \A v \in S : z(v) \in Seq(LineSet)
    BY <1>3
  <2> HIDE DEF x, y
  <2>2. ss = [i \in 1..n |-> z(ids[i])]
    BY <1>1
  <2> HIDE DEF z, ss
  <2>3. ss \in [1..n -> Seq(LineSet)]
    BY <1>1, <2>1, <2>2
  <2>4. \A i \in 1..n : ss[i] = z(ids[i]) /\ ids[i] \in S
    BY <1>1, <2>2
  <2>5. QED
    BY <1>1, <2>3, <2>4 DEF z
<1> HIDE DEF x, y, ss
<1>5. \A i \in 1..n : Sorted(ss[i], removalRank)
  BY <1>3, <1>4
<1>6. \A v \in S : \A l \in ToSet(x(v) \o y(v)) :
         l.vlan = v /\ l.op \in {"no_tagged", "no_untagged"}
  <2>1. \A op, v : Line(op, v).op = op /\ Line(op, v).vlan = v
    BY DEF Line
  <2>2. QED
    BY <1>3, <2>1
<1>7. \A i, j \in 1..n : i < j =>
        \A l \in ToSet(ss[i]), m \in ToSet(ss[j]) : l # m /\ removalRank[l.op] <= removalRank[m.op]
  <2> SUFFICES ASSUME NEW i \in 1..n, NEW j \in 1..n, i < j,
                      NEW l \in ToSet(ss[i]), NEW m \in ToSet(ss[j])
               PROVE  l # m /\ removalRank[l.op] <= removalRank[m.op]
    OBVIOUS
  <2>1. ids[i] # ids[j]
    <3>1. i # j
      BY <1>1
    <3>2. QED
      BY <1>1, <3>1
  <2>2. /\ l.vlan = ids[i] /\ l.op \in {"no_tagged", "no_untagged"}
        /\ m.vlan = ids[j] /\ m.op \in {"no_tagged", "no_untagged"}
    BY <1>4, <1>6
  <2>3. l # m
    BY <2>1, <2>2
  <2>4. QED
    BY <2>2, <2>3, RemovalRanks
<1> DEFINE q == FlattenSeq(ss)
<1>8. /\ q \in Seq(LineSet) /\ Sorted(q, removalRank)
      /\ \A l : l \in ToSet(q) <=> \E i \in 1..n : l \in ToSet(ss[i])
  BY <1>4, <1>5, <1>7, JoinedAll
<1> HIDE DEF q
<1>9. \A l : l \in ToSet(q) <=> \E v \in S : \/ l = Line("no_tagged", v) /\ v \in p.tagged
                                             \/ l = Line("no_untagged", v) /\ v = p.untagged
  <2>1. \A l : l \in ToSet(q) <=> \E i \in 1..n : l \in ToSet(x(ids[i]) \o y(ids[i]))
    BY <1>4, <1>8
  <2>2. \A l : l \in ToSet(q) <=> \E v \in S : l \in ToSet(x(v) \o y(v))
    BY <1>1, <2>1
  <2>3. QED
    BY <1>3, <2>2
<1>10. /\ a \in Seq(LineSet) /\ Sorted(a, removalRank)
       /\ ToSet(a) = IF p.dual # None THEN {Line("no_dual", None)} ELSE {}
  <2>1. Line("no_dual", None) \in LineSet
    BY <1>2, LinesAreLines
  <2>2. QED
    BY <2>1, OneLine
<1> HIDE DEF a
<1>11. \A l \in ToSet(a), m \in ToSet(q) : l # m /\ removalRank[l.op] <= removalRank[m.op]
  <2>1. \A op, v : Line(op, v).op = op
    BY DEF Line
  <2>2. \A l \in ToSet(a) : l.op = "no_dual"
    BY <1>10, <2>1
  <2>3. \A l \in ToSet(q) : l.op \in {"no_tagged", "no_untagged"}
    BY <1>9, <2>1
  <2>4. QED
    BY <2>2, <2>3, RemovalRanks
<1>12. /\ a \o q \in Seq(LineSet) /\ Sorted(a \o q, removalRank)
       /\ ToSet(a \o q) = ToSet(a) \cup ToSet(q)
  BY <1>8, <1>10, <1>11, Joined
<1>13. RemoveAll(p, vs) = a \o q
  BY DEF RemoveAll, a, q, ss, x, y, ids, S
<1>14. \A l : l \in ToSet(a) <=> (l = Line("no_dual", None) /\ p.dual # None)
  BY <1>10
<1> DEFINE s == a \o q
<1>15. \A l : l \in ToSet(s) <=>
         \/ l = Line("no_dual", None) /\ p.dual # None
         \/ \E v \in S : \/ l = Line("no_tagged", v) /\ v \in p.tagged
                         \/ l = Line("no_untagged", v) /\ v = p.untagged
  BY <1>9, <1>12, <1>14, Zenon
<1>16. s \in Seq(LineSet) /\ Sorted(s, removalRank) /\ RemoveAll(p, vs) = s
  BY <1>12, <1>13
<1> HIDE DEF s
<1>17. ToSet(s) = (IF p.dual # None THEN {Line("no_dual", None)} ELSE {})
                    \cup {Line("no_tagged", v) : v \in S \cap p.tagged}
                    \cup {Line("no_untagged", v) : v \in S \cap {p.untagged}}
  BY <1>15
<1>18. QED
  BY <1>16, <1>17 DEF S


-----------------------------------------------------------------------------
(* What a line does to a port, and what the lines left of an operation say   *)
(* about it.                                                                 *)

LEMMA EffectIs ==
  ASSUME NEW p \in Port, NEW l \in LineSet
  PROVE  LET q == Effect(p, l) IN
         /\ q.tagged = IF l.op = "tagged" THEN p.tagged \cup {l.vlan}
                       ELSE IF l.op = "no_tagged" THEN p.tagged \ {l.vlan} ELSE p.tagged
         /\ q.untagged = IF l.op = "untagged" THEN l.vlan
                         ELSE IF l.op = "no_untagged" THEN None ELSE p.untagged
         /\ q.dual = IF l.op = "dual" THEN l.vlan
                     ELSE IF l.op = "no_dual" THEN None ELSE p.dual
         /\ Entered(l) \subseteq Vlans => q \in Port
<1>1. l.vlan \in Vlans \cup {None}
  BY DEF LineSet
<1>2. /\ p = [tagged |-> p.tagged, untagged |-> p.untagged, dual |-> p.dual]
      /\ p.tagged \in SUBSET Vlans /\ p.untagged \in Vlans \cup {None} /\ p.dual \in Vlans \cup {None}
  BY DEF Port
<1>3. CASE l.op = "tagged"
  <2>1. Effect(p, l) = [p EXCEPT !.tagged = @ \cup {l.vlan}]
    BY <1>3 DEF Effect
  <2>2. Entered(l) \subseteq Vlans => l.vlan \in Vlans
    BY <1>3 DEF Entered
  <2>3. QED
    BY <1>1, <1>2, <1>3, <2>1, <2>2 DEF Port
<1>4. CASE l.op = "no_tagged"
  <2>1. Effect(p, l) = [p EXCEPT !.tagged = @ \ {l.vlan}]
    BY <1>4 DEF Effect
  <2>2. QED
    BY <1>1, <1>2, <1>4, <2>1 DEF Port
<1>5. CASE l.op = "untagged"
  <2>1. Effect(p, l) = [p EXCEPT !.untagged = l.vlan]
    BY <1>5 DEF Effect
  <2>2. QED
    BY <1>1, <1>2, <1>5, <2>1 DEF Port
<1>6. CASE l.op = "no_untagged"
  <2>1. Effect(p, l) = [p EXCEPT !.untagged = None]
    BY <1>6 DEF Effect
  <2>2. QED
    BY <1>1, <1>2, <1>6, <2>1 DEF Port
<1>7. CASE l.op = "dual"
  <2>1. Effect(p, l) = [p EXCEPT !.dual = l.vlan]
    BY <1>7 DEF Effect
  <2>2. QED
    BY <1>1, <1>2, <1>7, <2>1 DEF Port
<1>8. CASE l.op = "no_dual"
  <2>1. Effect(p, l) = [p EXCEPT !.dual = None]
    BY <1>8 DEF Effect
  <2>2. QED
    BY <1>1, <1>2, <1>8, <2>1 DEF Port
<1>9. CASE l.op = "bulk"
  <2>1. Effect(p, l) = p
    BY <1>9 DEF Effect
  <2>2. QED
    BY <1>1, <1>2, <1>9, <2>1
<1>10. QED
  BY <1>3, <1>4, <1>5, <1>6, <1>7, <1>8, <1>9 DEF LineSet, Ops

\* A line the switch accepts leaves it in a state it can hold.
LEMMA EffectPossible ==
  ASSUME NEW p \in Port, NEW l \in LineSet, Entered(l) \subseteq Vlans,
         NEW firmware \in {"context", "dual"},
         Possible(firmware, p), ~Rejects(firmware, p, l)
  PROVE  Possible(firmware, Effect(p, l))
<1> DEFINE q == Effect(p, l)
<1>1. p.tagged \in SUBSET Vlans /\ q.tagged \in SUBSET Vlans /\ None \notin Vlans
  BY EffectIs, VlansAreFinite DEF Port
<1>2. /\ q.tagged = IF l.op = "tagged" THEN p.tagged \cup {l.vlan}
                    ELSE IF l.op = "no_tagged" THEN p.tagged \ {l.vlan} ELSE p.tagged
      /\ q.untagged = IF l.op = "untagged" THEN l.vlan
                      ELSE IF l.op = "no_untagged" THEN None ELSE p.untagged
      /\ q.dual = IF l.op = "dual" THEN l.vlan
                  ELSE IF l.op = "no_dual" THEN None ELSE p.dual
  BY EffectIs
<1> HIDE DEF q
<1>3. CASE firmware = "context"
  <2>1. p.dual = None /\ p.untagged \notin p.tagged
    BY <1>3 DEF Possible
  <2>2. ~(l.op = "tagged" /\ p.untagged = l.vlan) /\ ~(l.op = "untagged" /\ l.vlan \in p.tagged)
        /\ l.op # "dual" /\ l.op # "no_dual"
    BY <1>3 DEF Rejects
  <2>3. q.dual = None /\ q.untagged \notin q.tagged
    BY <1>1, <1>2, <2>1, <2>2
  <2>4. QED
    BY <1>3, <2>3 DEF Possible, q
<1>4. CASE firmware = "dual"
  <2>1. /\ p.untagged \notin {None, DefaultVlan} => p.tagged = {}
        /\ p.dual # None => \/ p.dual \in p.tagged
                            \/ p.dual = DefaultVlan /\ p.tagged # {}
    BY <1>4 DEF Possible
  <2>2. /\ l.op = "tagged" => p.untagged \in {None, DefaultVlan}
        /\ l.op = "untagged" => p.tagged = {}
        /\ l.op = "dual" => l.vlan \in p.tagged \/ (l.vlan = DefaultVlan /\ p.tagged # {})
        /\ l.op = "no_tagged" => l.vlan # p.dual /\ (p.dual = None \/ p.tagged # {l.vlan})
    BY <1>4 DEF Rejects
  <2>3. q.untagged \notin {None, DefaultVlan} => q.tagged = {}
    BY <1>1, <1>2, <2>1, <2>2
  <2>4. q.dual # None => \/ q.dual \in q.tagged
                         \/ q.dual = DefaultVlan /\ q.tagged # {}
    BY <1>1, <1>2, <2>1, <2>2
  <2>5. QED
    BY <1>4, <2>3, <2>4 DEF Possible, q
<1>5. QED
  BY <1>3, <1>4

AccessOf(p) == IF p.untagged = DefaultVlan THEN None ELSE p.untagged

\* The lines S still to be run take the port's tags to `new', VLAN 1 apart.
TagsLeft(S, p, new) ==
  /\ \A l \in S : /\ l.op = "tagged" => l.vlan \in new
                  /\ l.op = "no_tagged" => l.vlan \in p.tagged \ new
  /\ \A v \in new : v \in p.tagged \/ Line("tagged", v) \in S
  /\ \A v \in p.tagged \ new : v = DefaultVlan \/ Line("no_tagged", v) \in S

\* They take it from its untagged membership to the one in u.
UntaggedLeft(S, p, u) ==
  /\ u # DefaultVlan
  /\ \A l \in S : /\ l.op = "untagged" => l.vlan = u /\ u # None
                  /\ l.op = "no_untagged" => l.vlan = p.untagged /\ l.vlan \notin {None, u}
                  /\ l.op = "untagged" /\ AccessOf(p) # None
                       => Line("no_untagged", p.untagged) \in S
  /\ \/ AccessOf(p) = u
     \/ Line("untagged", u) \in S
     \/ u = None /\ Line("no_untagged", p.untagged) \in S

LEMMA LineIs ==
  ASSUME NEW l \in LineSet
  PROVE  l = Line(l.op, l.vlan)
BY DEF LineSet, Line

LEMMA LineFields == \A op, v : Line(op, v).op = op /\ Line(op, v).vlan = v
BY DEF Line

LEMMA TagsStep ==
  ASSUME NEW p \in Port, NEW S \in SUBSET LineSet, NEW new \in SUBSET Vlans,
         TagsLeft(S, p, new), NEW l \in S
  PROVE  TagsLeft(S \ {l}, Effect(p, l), new)
<1> DEFINE q == Effect(p, l)
<1>1. q.tagged = IF l.op = "tagged" THEN p.tagged \cup {l.vlan}
                 ELSE IF l.op = "no_tagged" THEN p.tagged \ {l.vlan} ELSE p.tagged
  BY EffectIs
<1> HIDE DEF q
<1>2. \A m \in S : m = Line(m.op, m.vlan)
  BY LineIs
<1>3. \A m \in S \ {l} : /\ m.op = "tagged" => m.vlan \in new
                         /\ m.op = "no_tagged" => m.vlan \in q.tagged \ new
  <2> TAKE m \in S \ {l}
  <2>1. m.op = l.op => m.vlan # l.vlan
    BY <1>2
  <2>2. QED
    BY <1>1, <2>1 DEF TagsLeft
<1>4. \A v \in new : v \in q.tagged \/ Line("tagged", v) \in S \ {l}
  <2> TAKE v \in new
  <2>1. CASE v \in p.tagged
    BY <1>1, <2>1 DEF TagsLeft
  <2>2. CASE Line("tagged", v) \in S
    BY <1>1, <2>2, LineFields
  <2>3. QED
    BY <2>1, <2>2 DEF TagsLeft
<1>5. \A v \in q.tagged \ new : v = DefaultVlan \/ Line("no_tagged", v) \in S \ {l}
  <2> TAKE v \in q.tagged \ new
  <2>1. v \in p.tagged
    BY <1>1 DEF TagsLeft
  <2>2. v = DefaultVlan \/ Line("no_tagged", v) \in S
    BY <2>1 DEF TagsLeft
  <2>3. Line("no_tagged", v) # l
    BY <1>1, LineFields
  <2>4. QED
    BY <2>2, <2>3
<1>6. QED
  BY <1>3, <1>4, <1>5 DEF TagsLeft, q

LEMMA UntaggedStep ==
  ASSUME NEW p \in Port, NEW S \in SUBSET LineSet, NEW u, UntaggedLeft(S, p, u), NEW l \in S,
         l.op = "untagged" => \A m \in S : m.op # "no_untagged"
  PROVE  UntaggedLeft(S \ {l}, Effect(p, l), u)
<1> DEFINE q == Effect(p, l)
<1>1. q.untagged = IF l.op = "untagged" THEN l.vlan
                   ELSE IF l.op = "no_untagged" THEN None ELSE p.untagged
  BY EffectIs
<1> HIDE DEF q
<1>2. \A m \in S : m = Line(m.op, m.vlan)
  BY LineIs
<1>3. u # DefaultVlan /\ None # DefaultVlan
  BY DEF UntaggedLeft, None, DefaultVlan
<1>4. CASE l.op = "untagged"
  <2>1. q.untagged = u /\ AccessOf(q) = u
    BY <1>1, <1>3, <1>4 DEF UntaggedLeft, AccessOf
  <2>2. \A m \in S \ {l} : m.op \notin {"untagged", "no_untagged"}
    BY <1>2, <1>4 DEF UntaggedLeft
  <2>3. QED
    BY <1>3, <2>1, <2>2 DEF UntaggedLeft, q
<1>5. CASE l.op = "no_untagged"
  <2>1. q.untagged = None /\ AccessOf(q) = None
    BY <1>1, <1>3, <1>5 DEF AccessOf
  <2>2. \A m \in S \ {l} : m.op # "no_untagged"
    BY <1>2, <1>5 DEF UntaggedLeft
  <2>3. \A m \in S \ {l} : m.op = "untagged" => m.vlan = u /\ u # None
    BY DEF UntaggedLeft
  <2>4. u = None \/ Line("untagged", u) \in S \ {l}
    <3>1. l.vlan = p.untagged /\ l.vlan \notin {None, u}
      BY <1>5 DEF UntaggedLeft
    <3>2. AccessOf(p) = u => u = None
      BY <3>1 DEF AccessOf
    <3>3. Line("untagged", u) # l
      BY <1>5, LineFields
    <3>4. QED
      BY <3>2, <3>3 DEF UntaggedLeft
  <2>5. QED
    BY <1>3, <2>1, <2>2, <2>3, <2>4 DEF UntaggedLeft, q
<1>6. CASE l.op \notin {"untagged", "no_untagged"}
  <2>1. q.untagged = p.untagged /\ AccessOf(q) = AccessOf(p)
    BY <1>1, <1>6 DEF AccessOf
  <2>2. \A v : Line("untagged", v) # l /\ Line("no_untagged", v) # l
    BY <1>6, LineFields
  <2>3. QED
    BY <1>3, <2>1, <2>2 DEF UntaggedLeft, q
<1>7. QED
  BY <1>4, <1>5, <1>6

-----------------------------------------------------------------------------
(* The lines left of a create or an update on context firmware, of one on    *)
(* dual-mode firmware, and of a delete, where r is what the trunk is tagged   *)
(* in, VLAN by VLAN, and u the VLAN it is untagged in.                       *)

ContextLeft(S, p, r, u) ==
  /\ \A l \in S : l.op \in {"no_untagged", "no_tagged", "untagged", "tagged"}
  /\ TagsLeft(S, p, r) /\ UntaggedLeft(S, p, u)
  /\ u \notin r /\ DefaultVlan \notin r

Trunk(r, u) == u # None /\ r # {}
DualTags(r, u) == r \cup (IF Trunk(r, u) /\ u # DefaultVlan THEN {u} ELSE {})
DualAccess(r, u) == IF Trunk(r, u) THEN None ELSE u

DualLeft(S, p, r, u) ==
  /\ \A l \in S : l.op # "bulk"
  /\ TagsLeft(S, p, DualTags(r, u)) /\ UntaggedLeft(S, p, DualAccess(r, u))
  /\ \A l \in S : /\ l.op = "dual" => Trunk(r, u) /\ l.vlan = u
                  /\ l.op = "no_dual" => ~Trunk(r, u)
                  /\ l.op = "tagged" /\ AccessOf(p) # None
                       => Line("no_untagged", p.untagged) \in S
  /\ Trunk(r, u) => p.dual = u \/ Line("dual", u) \in S
  /\ ~Trunk(r, u) => p.dual = None \/ Line("no_dual", None) \in S
  /\ u \notin r /\ DefaultVlan \notin r \cup p.tagged

RemovalLeft(S, p) ==
  /\ \A l \in S : \/ l.op = "no_dual" /\ p.dual # None /\ l.vlan = None
                  \/ l.op = "no_tagged" /\ l.vlan \in p.tagged
                  \/ l.op = "no_untagged" /\ l.vlan = p.untagged
  /\ p.dual # None => Line("no_dual", None) \in S
  /\ \A v \in p.tagged \ {DefaultVlan} : Line("no_tagged", v) \in S
  /\ AccessOf(p) # None => Line("no_untagged", p.untagged) \in S

IsFirst(l, S, rank) == l \in S /\ \A m \in S : rank[l.op] <= rank[m.op]

\* The switch accepts the first of the lines that are left, and the rest are
\* what is left after it.
LEMMA ContextStep ==
  ASSUME NEW p \in Port, NEW S \in SUBSET LineSet, NEW r \in SUBSET Vlans, NEW u,
         ContextLeft(S, p, r, u), NEW l, IsFirst(l, S, contextRank)
  PROVE  /\ ~MayReject("context", p, l)
         /\ ContextLeft(S \ {l}, Effect(p, l), r, u)
<1>1. /\ l \in S /\ l \in LineSet
      /\ l.op \in {"no_untagged", "no_tagged", "untagged", "tagged"}
  BY DEF IsFirst, ContextLeft
<1>2. /\ l.op = "untagged" => \A m \in S : m.op \notin {"no_untagged", "no_tagged"}
      /\ l.op = "tagged" => \A m \in S : m.op \notin {"no_untagged", "untagged"}
  BY <1>1, ContextRanks DEF IsFirst
<1>3. \A v : /\ Line("no_untagged", v) \in S => l.op \notin {"untagged", "tagged"}
             /\ Line("no_tagged", v) \in S => l.op # "untagged"
             /\ Line("untagged", v) \in S => l.op # "tagged"
  BY <1>2, LineFields
<1>4. ContextLeft(S \ {l}, Effect(p, l), r, u)
  BY <1>1, <1>2, TagsStep, UntaggedStep DEF ContextLeft
<1>5. /\ p.untagged \in Vlans \cup {None} /\ p.tagged \subseteq Vlans /\ None \notin Vlans
      /\ None # DefaultVlan /\ u # DefaultVlan
  BY VlansAreFinite DEF Port, ContextLeft, UntaggedLeft, None, DefaultVlan
<1>6. ASSUME l.op = "no_untagged" PROVE ~MayReject("context", p, l)
  BY <1>1, <1>6 DEF ContextLeft, UntaggedLeft, MayReject, Rejects
<1>7. ASSUME l.op = "no_tagged" PROVE ~MayReject("context", p, l)
  BY <1>1, <1>7 DEF ContextLeft, TagsLeft, MayReject, Rejects
<1>8. ASSUME l.op = "untagged" PROVE ~MayReject("context", p, l)
  <2>1. l.vlan = u /\ AccessOf(p) = None
    BY <1>1, <1>3, <1>8 DEF ContextLeft, UntaggedLeft
  <2>2. u \notin p.tagged
    BY <1>3, <1>5, <1>8 DEF ContextLeft, TagsLeft
  <2>3. p.untagged \in {None, DefaultVlan}
    BY <2>1 DEF AccessOf
  <2>4. QED
    BY <1>8, <2>1, <2>2, <2>3 DEF MayReject, Rejects
<1>9. ASSUME l.op = "tagged" PROVE ~MayReject("context", p, l)
  <2>1. l.vlan \in r /\ l.vlan # u /\ l.vlan # DefaultVlan /\ l.vlan # None
    BY <1>1, <1>5, <1>9 DEF ContextLeft, TagsLeft
  <2>2. AccessOf(p) = u
    BY <1>3, <1>9 DEF ContextLeft, UntaggedLeft
  <2>3. p.untagged # l.vlan
    BY <2>1, <2>2 DEF AccessOf
  <2>4. QED
    BY <1>9, <2>3 DEF MayReject, Rejects
<1>10. QED
  BY <1>1, <1>4, <1>6, <1>7, <1>8, <1>9

LEMMA ContextEnd ==
  ASSUME NEW p \in Port, NEW r, NEW u, ContextLeft({}, p, r, u), p.dual = None
  PROVE  UntaggedOf(p) = u /\ TaggedOf(p) = r
<1>1. AccessOf(p) = u /\ DefaultVlan \notin r
  BY DEF ContextLeft, UntaggedLeft
<1>2. r \subseteq p.tagged /\ p.tagged \ r \subseteq {DefaultVlan}
  BY DEF ContextLeft, TagsLeft
<1>3. None \notin p.tagged
  BY VlansAreFinite DEF Port
<1>4. QED
  BY <1>1, <1>2, <1>3 DEF UntaggedOf, TaggedOf, AccessOf

LEMMA DualStep ==
  ASSUME NEW p \in Port, NEW S \in SUBSET LineSet, NEW r \in SUBSET Vlans,
         NEW u \in Vlans \cup {None},
         DualLeft(S, p, r, u), NEW l, IsFirst(l, S, dualRank)
  PROVE  /\ ~MayReject("dual", p, l)
         /\ DualLeft(S \ {l}, Effect(p, l), r, u)
<1> DEFINE t == Trunk(r, u)
           new == DualTags(r, u)
           a == DualAccess(r, u)
           q == Effect(p, l)
<1>1. /\ l \in S /\ l \in LineSet
      /\ l.op \in {"no_dual", "no_untagged", "tagged", "dual", "no_tagged", "untagged"}
  BY DEF IsFirst, DualLeft, LineSet, Ops
<1>2. /\ l.op \in {"tagged", "dual", "no_tagged", "untagged"}
           => \A m \in S : m.op \notin {"no_dual", "no_untagged"}
      /\ l.op \in {"dual", "no_tagged", "untagged"} => \A m \in S : m.op # "tagged"
      /\ l.op \in {"no_tagged", "untagged"} => \A m \in S : m.op # "dual"
      /\ l.op = "untagged" => \A m \in S : m.op # "no_tagged"
  BY <1>1, DualRanks DEF IsFirst
<1>3. \A v : /\ Line("no_dual", v) \in S \/ Line("no_untagged", v) \in S
                  => l.op \notin {"tagged", "dual", "no_tagged", "untagged"}
             /\ Line("tagged", v) \in S => l.op \notin {"dual", "no_tagged", "untagged"}
             /\ Line("dual", v) \in S => l.op \notin {"no_tagged", "untagged"}
             /\ Line("no_tagged", v) \in S => l.op # "untagged"
  BY <1>2, LineFields
<1>4. /\ p.untagged \in Vlans \cup {None} /\ p.tagged \subseteq Vlans /\ None \notin Vlans
      /\ None # DefaultVlan /\ new \in SUBSET Vlans
  BY VlansAreFinite DEF Port, DualTags, Trunk, None, DefaultVlan
<1>5. /\ q.tagged = IF l.op = "tagged" THEN p.tagged \cup {l.vlan}
                    ELSE IF l.op = "no_tagged" THEN p.tagged \ {l.vlan} ELSE p.tagged
      /\ q.untagged = IF l.op = "untagged" THEN l.vlan
                      ELSE IF l.op = "no_untagged" THEN None ELSE p.untagged
      /\ q.dual = IF l.op = "dual" THEN l.vlan
                  ELSE IF l.op = "no_dual" THEN None ELSE p.dual
  BY <1>1, EffectIs
<1>6. TagsLeft(S \ {l}, q, new) /\ UntaggedLeft(S \ {l}, q, a)
  BY <1>1, <1>2, <1>4, TagsStep, UntaggedStep DEF DualLeft
<1>7. DefaultVlan \notin new
  BY DEF DualLeft, DualTags
<1> HIDE DEF q
<1>8. DualLeft(S \ {l}, q, r, u)
  <2>1. \A m \in S \ {l} : m.op = "tagged" /\ AccessOf(q) # None
                             => Line("no_untagged", q.untagged) \in S \ {l}
    <3> SUFFICES ASSUME NEW m \in S \ {l}, m.op = "tagged", AccessOf(q) # None
                 PROVE  Line("no_untagged", q.untagged) \in S \ {l}
      OBVIOUS
    <3>1. l.op # "untagged"
      BY <1>2
    <3>2. l.op # "no_untagged"
      BY <1>4, <1>5 DEF AccessOf
    <3>3. q.untagged = p.untagged /\ AccessOf(p) # None
      BY <1>5, <3>1, <3>2 DEF AccessOf
    <3>4. QED
      BY <3>2, <3>3, LineFields DEF DualLeft
  <2>2. t => q.dual = u \/ Line("dual", u) \in S \ {l}
    <3>1. t /\ l.op = "dual" => l.vlan = u
      BY <1>1 DEF DualLeft
    <3>2. t => l.op # "no_dual"
      BY <1>1 DEF DualLeft
    <3>3. QED
      BY <1>5, <3>1, <3>2, LineFields DEF DualLeft
  <2>3. ~t => q.dual = None \/ Line("no_dual", None) \in S \ {l}
    <3>1. ~t => l.op # "dual"
      BY <1>1 DEF DualLeft
    <3>2. QED
      BY <1>5, <3>1, LineFields DEF DualLeft
  <2>4. DefaultVlan \notin q.tagged
    <3>1. l.op = "tagged" => l.vlan # DefaultVlan
      BY <1>1, <1>7 DEF DualLeft, TagsLeft
    <3>2. QED
      BY <1>5, <3>1 DEF DualLeft
  <2>5. QED
    BY <1>6, <2>1, <2>2, <2>3, <2>4 DEF DualLeft
<1>9. ASSUME l.op = "no_untagged" PROVE ~MayReject("dual", p, l)
  BY <1>1, <1>9 DEF DualLeft, UntaggedLeft, MayReject, Rejects
<1>10. ASSUME l.op = "no_dual" PROVE ~MayReject("dual", p, l)
  BY <1>10 DEF MayReject, Rejects
<1>11. ASSUME l.op = "tagged" PROVE ~MayReject("dual", p, l)
  <2>1. AccessOf(p) = None
    BY <1>1, <1>3, <1>11 DEF DualLeft
  <2>2. QED
    BY <1>11, <2>1 DEF MayReject, Rejects, AccessOf
<1>12. ASSUME l.op = "dual" PROVE ~MayReject("dual", p, l)
  <2>1. t /\ l.vlan = u /\ new \subseteq p.tagged
    BY <1>1, <1>3, <1>12 DEF DualLeft, TagsLeft
  <2>2. u \in p.tagged \/ (u = DefaultVlan /\ p.tagged # {})
    BY <2>1 DEF DualTags, Trunk
  <2>3. QED
    BY <1>12, <2>1, <2>2 DEF MayReject, Rejects
<1>13. ASSUME l.op = "no_tagged" PROVE ~MayReject("dual", p, l)
  <2>1. l.vlan \in p.tagged /\ l.vlan \notin new /\ new \subseteq p.tagged
    BY <1>1, <1>3, <1>13 DEF DualLeft, TagsLeft
  <2>2. CASE t
    <3>1. p.dual = u
      BY <1>3, <1>13, <2>2 DEF DualLeft
    <3>2. l.vlan # u
      BY <2>1, <2>2 DEF DualTags, DualLeft
    <3>3. p.tagged # {l.vlan}
      BY <2>1, <2>2 DEF DualTags, Trunk
    <3>4. QED
      BY <1>13, <2>1, <3>1, <3>2, <3>3 DEF MayReject, Rejects
  <2>3. CASE ~t
    <3>1. p.dual = None
      BY <1>3, <1>13, <2>3 DEF DualLeft
    <3>2. l.vlan # None
      BY <1>4, <2>1
    <3>3. QED
      BY <1>13, <2>1, <3>1, <3>2 DEF MayReject, Rejects
  <2>4. QED
    BY <2>2, <2>3
<1>14. ASSUME l.op = "untagged" PROVE ~MayReject("dual", p, l)
  <2>1. l.vlan = a /\ a # None /\ AccessOf(p) = None
    BY <1>1, <1>3, <1>14 DEF DualLeft, UntaggedLeft
  <2>2. ~t /\ r = {} /\ new = {}
    BY <2>1 DEF DualAccess, DualTags, Trunk
  <2>3. p.tagged = {}
    BY <1>3, <1>14, <2>2 DEF DualLeft, TagsLeft
  <2>4. p.untagged \in {None, DefaultVlan}
    BY <2>1 DEF AccessOf
  <2>5. QED
    BY <1>14, <2>3, <2>4 DEF MayReject, Rejects
<1>15. QED
  BY <1>1, <1>8, <1>9, <1>10, <1>11, <1>12, <1>13, <1>14 DEF q

LEMMA DualEnd ==
  ASSUME NEW p \in Port, NEW r, NEW u, DualLeft({}, p, r, u)
  PROVE  UntaggedOf(p) = u /\ TaggedOf(p) = r
<1>1. /\ AccessOf(p) = DualAccess(r, u) /\ u \notin r /\ DefaultVlan \notin r \cup p.tagged
      /\ p.dual = IF Trunk(r, u) THEN u ELSE None
  BY DEF DualLeft, UntaggedLeft
<1>2. DualTags(r, u) \subseteq p.tagged /\ p.tagged \ DualTags(r, u) \subseteq {DefaultVlan}
  BY DEF DualLeft, TagsLeft
<1>3. None \notin p.tagged
  BY VlansAreFinite DEF Port
<1>4. CASE Trunk(r, u)
  <2>1. p.dual = u /\ u # None
    BY <1>1, <1>4 DEF Trunk
  <2>2. p.tagged = r \cup (IF u # DefaultVlan THEN {u} ELSE {})
    BY <1>1, <1>2, <1>4 DEF DualTags
  <2>3. QED
    BY <1>1, <2>1, <2>2 DEF UntaggedOf, TaggedOf
<1>5. CASE ~Trunk(r, u)
  <2>1. p.dual = None /\ AccessOf(p) = u /\ p.tagged = r
    BY <1>1, <1>2, <1>5 DEF DualTags, DualAccess
  <2>2. QED
    BY <1>1, <1>3, <2>1 DEF UntaggedOf, TaggedOf, AccessOf
<1>6. QED
  BY <1>4, <1>5

LEMMA RemovalStep ==
  ASSUME NEW p \in Port, NEW S \in SUBSET LineSet, NEW firmware \in {"context", "dual"},
         Possible(firmware, p), RemovalLeft(S, p), NEW l, IsFirst(l, S, removalRank)
  PROVE  /\ ~MayReject(firmware, p, l)
         /\ RemovalLeft(S \ {l}, Effect(p, l))
<1> DEFINE q == Effect(p, l)
<1>1. /\ l \in S /\ l \in LineSet
      /\ \/ l.op = "no_dual" /\ p.dual # None /\ l.vlan = None
         \/ l.op = "no_tagged" /\ l.vlan \in p.tagged
         \/ l.op = "no_untagged" /\ l.vlan = p.untagged
  BY DEF IsFirst, RemovalLeft
<1>2. l.op # "no_dual" => \A m \in S : m.op # "no_dual"
  BY <1>1, RemovalRanks DEF IsFirst
<1>3. l.op # "no_dual" => p.dual = None
  BY <1>2, LineFields DEF RemovalLeft
<1>4. None \notin Vlans /\ p.tagged \subseteq Vlans
  BY VlansAreFinite DEF Port
<1>5. ~MayReject(firmware, p, l)
  <2>1. CASE l.op = "no_dual"
    BY <1>1, <2>1 DEF MayReject, Rejects, Possible
  <2>2. CASE l.op = "no_tagged"
    <3>1. p.dual = None /\ l.vlan \in p.tagged /\ l.vlan # None
      BY <1>1, <1>3, <1>4, <2>2
    <3>2. QED
      BY <2>2, <3>1 DEF MayReject, Rejects
  <2>3. CASE l.op = "no_untagged"
    BY <1>1, <2>3 DEF MayReject, Rejects
  <2>4. QED
    BY <1>1, <2>1, <2>2, <2>3
<1>6. /\ q.tagged = IF l.op = "no_tagged" THEN p.tagged \ {l.vlan} ELSE p.tagged
      /\ q.untagged = IF l.op = "no_untagged" THEN None ELSE p.untagged
      /\ q.dual = IF l.op = "no_dual" THEN None ELSE p.dual
  BY <1>1, EffectIs
<1> HIDE DEF q
<1>7. \A m \in S : m = Line(m.op, m.vlan)
  BY LineIs
<1>8. \A m \in S \ {l} : \/ m.op = "no_dual" /\ q.dual # None /\ m.vlan = None
                         \/ m.op = "no_tagged" /\ m.vlan \in q.tagged
                         \/ m.op = "no_untagged" /\ m.vlan = q.untagged
  <2> TAKE m \in S \ {l}
  <2>1. m.op = l.op => m.vlan # l.vlan
    BY <1>1, <1>7
  <2>2. \/ m.op = "no_dual" /\ p.dual # None /\ m.vlan = None
        \/ m.op = "no_tagged" /\ m.vlan \in p.tagged
        \/ m.op = "no_untagged" /\ m.vlan = p.untagged
    BY DEF RemovalLeft
  <2>3. QED
    BY <1>1, <1>6, <2>1, <2>2
<1>9. q.dual # None => Line("no_dual", None) \in S \ {l}
  BY <1>6, LineFields DEF RemovalLeft
<1>10. \A v \in q.tagged \ {DefaultVlan} : Line("no_tagged", v) \in S \ {l}
  BY <1>6, LineFields DEF RemovalLeft
<1>11. AccessOf(q) # None => Line("no_untagged", q.untagged) \in S \ {l}
  <2>1. AccessOf(q) # None => q.untagged = p.untagged /\ l.op # "no_untagged"
    BY <1>6 DEF AccessOf, None, DefaultVlan
  <2>2. QED
    BY <2>1, LineFields DEF RemovalLeft, AccessOf
<1>12. RemovalLeft(S \ {l}, q)
  BY <1>8, <1>9, <1>10, <1>11 DEF RemovalLeft
<1>13. QED
  BY <1>5, <1>12 DEF q

LEMMA RemovalEnd ==
  ASSUME NEW p \in Port, RemovalLeft({}, p)
  PROVE  p.tagged \subseteq {DefaultVlan} /\ UntaggedOf(p) = None
BY DEF RemovalLeft, UntaggedOf, AccessOf

\* The lines a plan is turned into, one by one.
LEMMA ContextLine ==
  ASSUME NEW plan \in Wanted, NEW old \in Wanted, NEW vs \in SUBSET Vlans, NEW bulk \in BOOLEAN
  PROVE  \A l \in ToSet(BuildContext(plan, old, vs, bulk)) :
         /\ l.op \in {"no_untagged", "no_tagged", "untagged", "tagged", "bulk"}
         /\ l.op = "no_untagged" => /\ l.vlan = old.untagged
                                    /\ DropsUntagged(plan.untagged, old.untagged)
         /\ l.op = "no_tagged" => l.vlan \in ResolveTagged(old, vs) \ ResolveTagged(plan, vs)
         /\ l.op = "untagged" => /\ l.vlan = plan.untagged
                                 /\ AddsUntagged(plan.untagged, old.untagged)
         /\ l.op = "tagged" => l.vlan \in ResolveTagged(plan, vs) \ ResolveTagged(old, vs)
         /\ l.op = "bulk" => bulk
<1> DEFINE S == ToSet(BuildContext(plan, old, vs, bulk))
           new == ResolveTagged(plan, vs)
           was == ResolveTagged(old, vs)
           u == plan.untagged
           w == old.untagged
           drops == DropsUntagged(u, w)
           adds == AddsUntagged(u, w)
           many == new \ was # {} /\ bulk
<1>1. S = (IF drops THEN {Line("no_untagged", w)} ELSE {})
            \cup {Line("no_tagged", v) : v \in was \ new}
            \cup (IF adds THEN {Line("untagged", u)} ELSE {})
            \cup (IF many THEN {Line("bulk", None)} ELSE {Line("tagged", v) : v \in new \ was})
  BY ContextLines, SMTT(60)
<1>2. many => bulk
  BY DEF many
<1> HIDE DEF S, new, was, drops, adds, many, u, w
<1>3. \A l \in S : \/ drops /\ l = Line("no_untagged", w)
                   \/ \E v \in was \ new : l = Line("no_tagged", v)
                   \/ adds /\ l = Line("untagged", u)
                   \/ many /\ l = Line("bulk", None)
                   \/ \E v \in new \ was : l = Line("tagged", v)
  BY <1>1
<1>4. \A l \in S : /\ l.op \in {"no_untagged", "no_tagged", "untagged", "tagged", "bulk"}
                   /\ l.op = "no_untagged" => l.vlan = w /\ drops
                   /\ l.op = "no_tagged" => l.vlan \in was \ new
                   /\ l.op = "untagged" => l.vlan = u /\ adds
                   /\ l.op = "tagged" => l.vlan \in new \ was
                   /\ l.op = "bulk" => bulk
  BY <1>2, <1>3, LineFields
<1>5. QED
  BY <1>4 DEF S, new, was, drops, adds, u, w

LEMMA DualLine ==
  ASSUME NEW plan \in Wanted, NEW old \in Wanted, NEW vs \in SUBSET Vlans,
         NEW dual \in Vlans \cup {None}, NEW l \in ToSet(BuildDual(plan, old, vs, dual))
  PROVE  LET u == ContextUntagged(plan, vs)
             w == ContextUntagged(old, vs) IN
         /\ l.op \in {"no_dual", "no_untagged", "tagged", "dual", "no_tagged", "untagged"}
         /\ l.op = "no_dual" => LeavesDual(plan, vs, dual) /\ l.vlan = None
         /\ l.op = "no_untagged" => l.vlan = w /\ DropsUntagged(u, w)
         /\ l.op = "tagged" => l.vlan \in ContextTagged(plan, vs) \ ContextTagged(old, vs)
         /\ l.op = "dual" => l.vlan = plan.untagged /\ SelectsDual(plan, vs, dual)
         /\ l.op = "no_tagged" => l.vlan \in ContextTagged(old, vs) \ ContextTagged(plan, vs)
         /\ l.op = "untagged" => l.vlan = u /\ AddsUntagged(u, w)
<1> DEFINE new == ContextTagged(plan, vs)
           was == ContextTagged(old, vs)
           u == ContextUntagged(plan, vs)
           w == ContextUntagged(old, vs)
           leaves == LeavesDual(plan, vs, dual)
           drops == DropsUntagged(u, w)
           selects == SelectsDual(plan, vs, dual)
           adds == AddsUntagged(u, w)
<1>1. l \in (IF leaves THEN {Line("no_dual", None)} ELSE {})
              \cup (IF drops THEN {Line("no_untagged", w)} ELSE {})
              \cup {Line("tagged", v) : v \in new \ was}
              \cup (IF selects THEN {Line("dual", plan.untagged)} ELSE {})
              \cup {Line("no_tagged", v) : v \in was \ new}
              \cup (IF adds THEN {Line("untagged", u)} ELSE {})
  BY DualLines
<1> HIDE DEF new, was, u, w, leaves, drops, selects, adds
<1>2. \/ leaves /\ l = Line("no_dual", None)
      \/ drops /\ l = Line("no_untagged", w)
      \/ \E v \in new \ was : l = Line("tagged", v)
      \/ selects /\ l = Line("dual", plan.untagged)
      \/ \E v \in was \ new : l = Line("no_tagged", v)
      \/ adds /\ l = Line("untagged", u)
  BY <1>1
<1>3. QED
  BY <1>2, LineFields DEF new, was, u, w, leaves, drops, selects, adds

Proper(w) == w.untagged \notin w.tagged /\ DefaultVlan \notin w.tagged

LEMMA ProperTags ==
  ASSUME NEW w \in Wanted, Proper(w), NEW vs
  PROVE  w.untagged \notin ResolveTagged(w, vs) /\ DefaultVlan \notin ResolveTagged(w, vs)
BY DEF Proper, ResolveTagged, ExpandAll

\* A create or an update of a port that carries what its state says.
LEMMA ContextBegin ==
  ASSUME NEW plan \in Wanted, Proper(plan), plan.untagged # DefaultVlan, NEW old \in Wanted,
         NEW vs \in SUBSET Vlans, NEW p \in Port, Possible("context", p), Meets(p, old, vs),
         NEW bulk \in BOOLEAN,
         \A l \in ToSet(BuildContext(plan, old, vs, bulk)) : l.op # "bulk"
  PROVE  ContextLeft(ToSet(BuildContext(plan, old, vs, bulk)), p,
                     ResolveTagged(plan, vs), plan.untagged)
<1> DEFINE S == ToSet(BuildContext(plan, old, vs, bulk))
           new == ResolveTagged(plan, vs)
           was == ResolveTagged(old, vs)
           u == plan.untagged
           w == old.untagged
<1>1. /\ u \notin new /\ DefaultVlan \notin new
      /\ p.dual = None /\ p.tagged \subseteq Vlans /\ None \notin Vlans
  BY ProperTags, VlansAreFinite DEF Possible, Port
<1>2. was = p.tagged \ {DefaultVlan} /\ w = AccessOf(p)
  BY <1>1 DEF Meets, TaggedOf, UntaggedOf, AccessOf
<1>3. \A l \in S :
        /\ l.op \in {"no_untagged", "no_tagged", "untagged", "tagged", "bulk"}
        /\ l.op = "no_untagged" => l.vlan = w /\ DropsUntagged(u, w)
        /\ l.op = "no_tagged" => l.vlan \in was \ new
        /\ l.op = "untagged" => l.vlan = u /\ AddsUntagged(u, w)
        /\ l.op = "tagged" => l.vlan \in new \ was
  BY ContextLine
<1>4. /\ DropsUntagged(u, w) => Line("no_untagged", w) \in S
      /\ \A v \in was \ new : Line("no_tagged", v) \in S
      /\ AddsUntagged(u, w) => Line("untagged", u) \in S
      /\ \A v \in new \ was : Line("tagged", v) \in S
  <2> DEFINE drops == DropsUntagged(u, w)
             adds == AddsUntagged(u, w)
             many == new \ was # {} /\ bulk
  <2>1. S = (IF drops THEN {Line("no_untagged", w)} ELSE {})
              \cup {Line("no_tagged", v) : v \in was \ new}
              \cup (IF adds THEN {Line("untagged", u)} ELSE {})
              \cup (IF many THEN {Line("bulk", None)} ELSE {Line("tagged", v) : v \in new \ was})
    BY ContextLines, SMTT(60)
  <2>2. \A l \in S : l.op # "bulk"
    OBVIOUS
  <2> HIDE DEF S, drops, adds, many, new, was, u, w
  <2>3. ~many
    <3>1. many => Line("bulk", None) \in S
      BY <2>1
    <3>2. QED
      BY <2>2, <3>1, LineFields
  <2>4. QED
    BY <2>1, <2>3 DEF drops, adds
<1> HIDE DEF S, new, was, u, w
<1>5. TagsLeft(S, p, new)
  BY <1>1, <1>2, <1>3, <1>4 DEF TagsLeft
<1>6. UntaggedLeft(S, p, u)
  <2>1. u # DefaultVlan
    BY DEF u
  <2>2. AccessOf(p) # None => w = p.untagged
    BY <1>2 DEF AccessOf
  <2>3. \A l \in S : /\ l.op = "untagged" => l.vlan = u /\ u # None
                     /\ l.op = "no_untagged" => l.vlan = p.untagged /\ l.vlan \notin {None, u}
                     /\ l.op = "untagged" /\ AccessOf(p) # None
                          => Line("no_untagged", p.untagged) \in S
    BY <1>2, <1>3, <1>4, <2>2 DEF DropsUntagged, AddsUntagged
  <2>4. \/ AccessOf(p) = u
        \/ Line("untagged", u) \in S
        \/ u = None /\ Line("no_untagged", p.untagged) \in S
    BY <1>2, <1>4, <2>2 DEF DropsUntagged, AddsUntagged
  <2>5. QED
    BY <2>1, <2>3, <2>4 DEF UntaggedLeft
<1>7. \A l \in S : l.op \in {"no_untagged", "no_tagged", "untagged", "tagged"}
  BY <1>3 DEF S
<1>8. QED
  BY <1>1, <1>5, <1>6, <1>7 DEF ContextLeft, S, new, u

\* The bulk command, where it is allowed, is the only line.
LEMMA BulkBegin ==
  ASSUME NEW plan \in Wanted, NEW old \in Wanted, NEW vs \in SUBSET Vlans,
         NEW p \in Port, p.tagged \subseteq vs, Possible("context", p), Meets(p, old, vs),
         BulkAllowed("context", plan, p),
         NEW bulk \in BOOLEAN,
         NEW l \in ToSet(BuildContext(plan, old, vs, bulk)), l.op = "bulk"
  PROVE  ToSet(BuildContext(plan, old, vs, bulk)) = {Line("bulk", None)}
<1> DEFINE S == ToSet(BuildContext(plan, old, vs, bulk))
           new == ResolveTagged(plan, vs)
           was == ResolveTagged(old, vs)
           u == plan.untagged
           w == old.untagged
           drops == DropsUntagged(u, w)
           adds == AddsUntagged(u, w)
           many == new \ was # {} /\ bulk
<1>1. S = (IF drops THEN {Line("no_untagged", w)} ELSE {})
            \cup {Line("no_tagged", v) : v \in was \ new}
            \cup (IF adds THEN {Line("untagged", u)} ELSE {})
            \cup (IF many THEN {Line("bulk", None)} ELSE {Line("tagged", v) : v \in new \ was})
  BY ContextLines, SMTT(60)
<1>2. /\ plan.all /\ u = None /\ p.untagged = None /\ p.dual = None /\ None \notin Vlans
  BY VlansAreFinite DEF BulkAllowed, Possible
<1>3. w = None /\ was = p.tagged \ {DefaultVlan, None} /\ new = vs \ {DefaultVlan, None}
  BY <1>2 DEF Meets, UntaggedOf, TaggedOf, ResolveTagged, ExpandAll, DefaultVlan, None
<1>4. was \ new = {} /\ ~drops /\ ~adds
  BY <1>2, <1>3 DEF DropsUntagged, AddsUntagged
<1>5. l \in S /\ l.op = "bulk"
  OBVIOUS
<1> HIDE DEF S, new, was, u, w, drops, adds, many
<1>6. S = IF many THEN {Line("bulk", None)} ELSE {Line("tagged", v) : v \in new \ was}
  BY <1>1, <1>4
<1>7. many
  BY <1>5, <1>6, LineFields
<1>8. QED
  BY <1>6, <1>7 DEF S

LEMMA DualBegin ==
  ASSUME NEW plan \in Wanted, Proper(plan), NEW old \in Wanted, NEW vs \in SUBSET Vlans,
         plan.untagged = DefaultVlan => IsDual(plan, vs),
         NEW p \in Port, Possible("dual", p), Meets(p, old, vs), DefaultVlan \notin p.tagged,
         p.dual # None => ~(p.tagged \subseteq {p.dual})
  PROVE  DualLeft(ToSet(BuildDual(plan, old, vs, p.dual)), p,
                  ResolveTagged(plan, vs), plan.untagged)
<1> DEFINE S == ToSet(BuildDual(plan, old, vs, p.dual))
           r == ResolveTagged(plan, vs)
           new == ContextTagged(plan, vs)
           was == ContextTagged(old, vs)
           u == plan.untagged
           a == ContextUntagged(plan, vs)
           w == ContextUntagged(old, vs)
           t == IsDual(plan, vs)
           d == p.dual
<1>1. /\ u \notin r /\ DefaultVlan \notin r /\ p.tagged \subseteq Vlans /\ None \notin Vlans
      /\ d \in Vlans \cup {None} /\ p.untagged \in Vlans \cup {None}
      /\ u \in Vlans \cup {None} /\ r \in SUBSET Vlans
  BY ProperTags, VlansAreFinite, WantedTypes DEF Port
<1>2. t = Trunk(r, u) /\ new = DualTags(r, u) /\ a = DualAccess(r, u)
  BY DEF IsDual, Trunk, ContextTagged, DualTags, ContextUntagged, DualAccess
<1>3. was = p.tagged /\ w = AccessOf(p)
  <2>1. /\ p.untagged \notin {None, DefaultVlan} => p.tagged = {}
        /\ d # None => d \in p.tagged \/ (d = DefaultVlan /\ p.tagged # {})
    BY DEF Possible
  <2>2. ResolveTagged(old, vs) = p.tagged \ {d} /\ old.untagged = UntaggedOf(p)
    BY DEF Meets, TaggedOf
  <2>3. CASE d # None
    <3>1. old.untagged = d /\ p.tagged \ {d} # {}
      BY <2>2, <2>3 DEF UntaggedOf
    <3>2. IsDual(old, vs)
      BY <2>2, <2>3, <3>1 DEF IsDual
    <3>3. was = p.tagged
      BY <2>1, <2>2, <2>3, <3>1, <3>2 DEF ContextTagged
    <3>4. w = None /\ AccessOf(p) = None
      BY <2>1, <2>3, <3>2 DEF ContextUntagged, AccessOf
    <3>5. QED
      BY <3>3, <3>4
  <2>4. CASE d = None
    <3>1. old.untagged = AccessOf(p) /\ ResolveTagged(old, vs) = p.tagged
      BY <1>1, <2>2, <2>4 DEF UntaggedOf, AccessOf
    <3>2. ~IsDual(old, vs)
      BY <2>1, <3>1 DEF IsDual, AccessOf
    <3>3. QED
      BY <3>1, <3>2 DEF ContextTagged, ContextUntagged
  <2>5. QED
    BY <2>3, <2>4
<1>4. \A l \in S :
         /\ l.op \in {"no_dual", "no_untagged", "tagged", "dual", "no_tagged", "untagged"}
         /\ l.op = "no_dual" => d # None /\ ~t
         /\ l.op = "no_untagged" => l.vlan = w /\ DropsUntagged(a, w)
         /\ l.op = "tagged" => l.vlan \in new \ was
         /\ l.op = "dual" => l.vlan = u /\ t
         /\ l.op = "no_tagged" => l.vlan \in was \ new
         /\ l.op = "untagged" => l.vlan = a /\ AddsUntagged(a, w)
  BY <1>1, DualLine DEF LeavesDual, SelectsDual
<1>5. /\ d # None /\ ~t => Line("no_dual", None) \in S
      /\ DropsUntagged(a, w) => Line("no_untagged", w) \in S
      /\ \A v \in new \ was : Line("tagged", v) \in S
      /\ t /\ d # u => Line("dual", u) \in S
      /\ \A v \in was \ new : Line("no_tagged", v) \in S
      /\ AddsUntagged(a, w) => Line("untagged", a) \in S
  <2> DEFINE leaves == LeavesDual(plan, vs, d)
             drops == DropsUntagged(a, w)
             selects == SelectsDual(plan, vs, d)
             adds == AddsUntagged(a, w)
  <2>1. S = (IF leaves THEN {Line("no_dual", None)} ELSE {})
              \cup (IF drops THEN {Line("no_untagged", w)} ELSE {})
              \cup {Line("tagged", v) : v \in new \ was}
              \cup (IF selects THEN {Line("dual", u)} ELSE {})
              \cup {Line("no_tagged", v) : v \in was \ new}
              \cup (IF adds THEN {Line("untagged", a)} ELSE {})
    BY <1>1, DualLines
  <2>2. /\ leaves <=> d # None /\ ~t
        /\ selects <=> t /\ d # u
    BY DEF LeavesDual, SelectsDual
  <2> HIDE DEF S, leaves, drops, selects, adds, new, was, u, w, a, t, d
  <2>3. QED
    BY <2>1, <2>2 DEF drops, adds
<1>6. u = DefaultVlan => t
  OBVIOUS
<1>7. \A l \in S : l.op = "tagged" => a = None
  BY <1>2, <1>4 DEF DualTags, DualAccess, Trunk
<1> HIDE DEF S, r, new, was, u, w, a, t, d
<1>8. TagsLeft(S, p, new)
  BY <1>3, <1>4, <1>5 DEF TagsLeft
<1>9. AccessOf(p) # None => w = p.untagged
  BY <1>3 DEF AccessOf
<1>10. UntaggedLeft(S, p, a)
  <2>1. a # DefaultVlan
    BY <1>2, <1>6 DEF DualAccess, None, DefaultVlan
  <2>2. \A l \in S : /\ l.op = "untagged" => l.vlan = a /\ a # None
                     /\ l.op = "no_untagged" => l.vlan = p.untagged /\ l.vlan \notin {None, a}
                     /\ l.op = "untagged" /\ AccessOf(p) # None
                          => Line("no_untagged", p.untagged) \in S
    BY <1>3, <1>4, <1>5, <1>9 DEF DropsUntagged, AddsUntagged
  <2>3. \/ AccessOf(p) = a
        \/ Line("untagged", a) \in S
        \/ a = None /\ Line("no_untagged", p.untagged) \in S
    BY <1>3, <1>5, <1>9 DEF DropsUntagged, AddsUntagged
  <2>4. QED
    BY <2>1, <2>2, <2>3 DEF UntaggedLeft
<1>11. \A l \in S : /\ l.op # "bulk"
                    /\ l.op = "dual" => Trunk(r, u) /\ l.vlan = u
                    /\ l.op = "no_dual" => ~Trunk(r, u)
                    /\ l.op = "tagged" /\ AccessOf(p) # None
                         => Line("no_untagged", p.untagged) \in S
  BY <1>2, <1>3, <1>4, <1>5, <1>7, <1>9 DEF DropsUntagged
<1>12. /\ Trunk(r, u) => p.dual = u \/ Line("dual", u) \in S
       /\ ~Trunk(r, u) => p.dual = None \/ Line("no_dual", None) \in S
  BY <1>2, <1>5 DEF d
<1>13. DualLeft(S, p, r, u)
  BY <1>1, <1>2, <1>8, <1>10, <1>11, <1>12 DEF DualLeft
<1>14. QED
  BY <1>13 DEF S, r, u

\* A delete of any port.
LEMMA RemovalBegin ==
  ASSUME NEW p \in Port, NEW vs \in SUBSET Vlans, p.tagged \subseteq vs,
         p.untagged \in vs \cup {None}
  PROVE  RemovalLeft(ToSet(RemoveAll(p, vs)), p)
<1> DEFINE S == ToSet(RemoveAll(p, vs))
<1>1. S = (IF p.dual # None THEN {Line("no_dual", None)} ELSE {})
            \cup {Line("no_tagged", v) : v \in (vs \ {DefaultVlan}) \cap p.tagged}
            \cup {Line("no_untagged", v) : v \in (vs \ {DefaultVlan}) \cap {p.untagged}}
  BY RemovalLines
<1> HIDE DEF S
<1>2. \A l \in S : \/ l = Line("no_dual", None) /\ p.dual # None
                   \/ \E v \in p.tagged : l = Line("no_tagged", v)
                   \/ l = Line("no_untagged", p.untagged)
  BY <1>1
<1>3. \A l \in S : \/ l.op = "no_dual" /\ p.dual # None /\ l.vlan = None
                   \/ l.op = "no_tagged" /\ l.vlan \in p.tagged
                   \/ l.op = "no_untagged" /\ l.vlan = p.untagged
  BY <1>2, LineFields
<1>4. /\ p.dual # None => Line("no_dual", None) \in S
      /\ \A v \in p.tagged \ {DefaultVlan} : Line("no_tagged", v) \in S
      /\ AccessOf(p) # None => Line("no_untagged", p.untagged) \in S
  BY <1>1 DEF AccessOf
<1>5. QED
  BY <1>3, <1>4 DEF RemovalLeft, S

\* What follows the bulk command takes the default VLAN's tag and that of the
\* untagged VLAN back, and puts the latter in its place.
LEMMA CorrectionLines ==
  ASSUME NEW p \in Port, NEW vs \in SUBSET Vlans, NEW u
  PROVE  LET s == BulkCorrections(p, vs, u) IN
         /\ s \in Seq(LineSet) /\ Sorted(s, removalRank)
         /\ \A l : l \in ToSet(s) <=>
              \E v \in vs \cap {DefaultVlan, u} :
                \/ l = Line("no_tagged", v) /\ v \in p.tagged
                \/ l = Line("untagged", v) /\ v = u /\ p.untagged # v
<1> DEFINE S == vs \cap {DefaultVlan, u}
           n == Cardinality(S)
           ids == Ascending(S)
           x(v) == When(v \in p.tagged, Line("no_tagged", v))
           y(v) == When(v = u /\ p.untagged # v, Line("untagged", v))
           ss == [i \in DOMAIN ids |-> x(ids[i]) \o y(ids[i])]
<1>1. /\ ids \in [1..n -> S] /\ n \in Nat
      /\ \A i, j \in 1..n : i # j => ids[i] # ids[j]
      /\ \A v \in S : \E i \in 1..n : ids[i] = v
  <2>1. S \in SUBSET Int /\ IsFiniteSet(S)
    BY VlansAreFinite
  <2>2. QED
    BY <2>1, AscendingLists
<1>2. S \subseteq Vlans /\ {"no_tagged", "untagged"} \subseteq Ops
  BY DEF Ops
<1> HIDE DEF ids, S
<1>3. \A v \in S : /\ x(v) \o y(v) \in Seq(LineSet) /\ Sorted(x(v) \o y(v), removalRank)
                   /\ \A l : l \in ToSet(x(v) \o y(v)) <=>
                        \/ l = Line("no_tagged", v) /\ v \in p.tagged
                        \/ l = Line("untagged", v) /\ v = u /\ p.untagged # v
  <2> TAKE v \in S
  <2> DEFINE r == x(v)
             t == y(v)
             R == IF v \in p.tagged THEN {Line("no_tagged", v)} ELSE {}
             T == IF v = u /\ p.untagged # v THEN {Line("untagged", v)} ELSE {}
  <2>1. /\ Line("no_tagged", v) \in LineSet /\ Line("untagged", v) \in LineSet
        /\ Line("no_tagged", v).op = "no_tagged" /\ Line("untagged", v).op = "untagged"
    BY <1>2, LinesAreLines
  <2>2. r \in Seq(LineSet) /\ Sorted(r, removalRank) /\ ToSet(r) = R
    <3> DEFINE c == v \in p.tagged
    <3>1. c \in BOOLEAN
      OBVIOUS
    <3> HIDE DEF c
    <3>2. r = When(c, Line("no_tagged", v)) /\ R = IF c THEN {Line("no_tagged", v)} ELSE {}
      BY DEF c
    <3> HIDE DEF r, R
    <3>3. QED
      BY <2>1, <3>1, <3>2, OneLine
  <2>3. t \in Seq(LineSet) /\ Sorted(t, removalRank) /\ ToSet(t) = T
    BY <2>1, OneLine
  <2>4. \A l \in R, m \in T : l # m /\ removalRank[l.op] <= removalRank[m.op]
    BY <2>1, RemovalRanks
  <2> HIDE DEF r, t
  <2>5. r \o t \in Seq(LineSet) /\ Sorted(r \o t, removalRank) /\ ToSet(r \o t) = R \cup T
    BY <2>2, <2>3, <2>4, Joined
  <2>6. QED
    BY <2>5 DEF r, t
<1>4. /\ ss \in Seq(Seq(LineSet)) /\ Len(ss) = n
      /\ \A i \in 1..n : ss[i] = x(ids[i]) \o y(ids[i]) /\ ids[i] \in S
  <2> DEFINE z(v) == x(v) \o y(v)
  <2>1. \A v \in S : z(v) \in Seq(LineSet)
    BY <1>3
  <2> HIDE DEF x, y
  <2>2. ss = [i \in 1..n |-> z(ids[i])]
    BY <1>1
  <2> HIDE DEF z, ss
  <2>3. ss \in [1..n -> Seq(LineSet)]
    BY <1>1, <2>1, <2>2
  <2>4. \A i \in 1..n : ss[i] = z(ids[i]) /\ ids[i] \in S
    BY <1>1, <2>2
  <2>5. QED
    BY <1>1, <2>3, <2>4 DEF z
<1> HIDE DEF x, y, ss
<1>5. \A i \in 1..n : Sorted(ss[i], removalRank)
  BY <1>3, <1>4
<1>6. \A v \in S : \A l \in ToSet(x(v) \o y(v)) :
         l.vlan = v /\ l.op \in {"no_tagged", "untagged"}
  <2>1. \A op, v : Line(op, v).op = op /\ Line(op, v).vlan = v
    BY DEF Line
  <2>2. QED
    BY <1>3, <2>1
<1>7. \A i, j \in 1..n : i < j =>
        \A l \in ToSet(ss[i]), m \in ToSet(ss[j]) : l # m /\ removalRank[l.op] <= removalRank[m.op]
  <2> SUFFICES ASSUME NEW i \in 1..n, NEW j \in 1..n, i < j,
                      NEW l \in ToSet(ss[i]), NEW m \in ToSet(ss[j])
               PROVE  l # m /\ removalRank[l.op] <= removalRank[m.op]
    OBVIOUS
  <2>1. ids[i] # ids[j]
    <3>1. i # j
      BY <1>1
    <3>2. QED
      BY <1>1, <3>1
  <2>2. /\ l.vlan = ids[i] /\ l.op \in {"no_tagged", "untagged"}
        /\ m.vlan = ids[j] /\ m.op \in {"no_tagged", "untagged"}
    BY <1>4, <1>6
  <2>3. l # m
    BY <2>1, <2>2
  <2>4. QED
    BY <2>2, <2>3, RemovalRanks
<1> DEFINE q == FlattenSeq(ss)
<1>8. /\ q \in Seq(LineSet) /\ Sorted(q, removalRank)
      /\ \A l : l \in ToSet(q) <=> \E i \in 1..n : l \in ToSet(ss[i])
  BY <1>4, <1>5, <1>7, JoinedAll
<1> HIDE DEF q
<1>9. \A l : l \in ToSet(q) <=> \E v \in S : \/ l = Line("no_tagged", v) /\ v \in p.tagged
                                             \/ l = Line("untagged", v) /\ v = u /\ p.untagged # v
  <2>1. \A l : l \in ToSet(q) <=> \E i \in 1..n : l \in ToSet(x(ids[i]) \o y(ids[i]))
    BY <1>4, <1>8
  <2>2. \A l : l \in ToSet(q) <=> \E v \in S : l \in ToSet(x(v) \o y(v))
    BY <1>1, <2>1
  <2>3. QED
    BY <1>3, <2>2
<1>10. QED
  BY <1>8, <1>9 DEF BulkCorrections, q, ss, x, y, ids, S


-----------------------------------------------------------------------------
(* All lines of a create or an update.                                       *)

rankOf(firmware) == IF firmware = "dual" THEN dualRank ELSE contextRank

LEMMA BuildTypes ==
  ASSUME NEW firmware, NEW plan \in Wanted, NEW old \in Wanted, NEW vs \in SUBSET Vlans,
         NEW dual \in Vlans \cup {None}, NEW bulk \in BOOLEAN
  PROVE  /\ Build(firmware, plan, old, vs, dual, bulk) \in Seq(LineSet)
         /\ Sorted(Build(firmware, plan, old, vs, dual, bulk), rankOf(firmware))
<1>1. CASE firmware = "dual"
  <2> DEFINE s == BuildDual(plan, old, vs, dual)
  <2>1. s \in Seq(LineSet) /\ Sorted(s, dualRank)
    BY DualLines
  <2>2. QED
    BY <1>1, <2>1 DEF Build, rankOf
<1>2. CASE firmware # "dual"
  <2> DEFINE s == BuildContext(plan, old, vs, bulk)
  <2>1. s \in Seq(LineSet) /\ Sorted(s, contextRank)
    BY ContextLines, SMTT(60)
  <2>2. QED
    BY <1>2, <2>1 DEF Build, rankOf
<1>3. QED
  BY <1>1, <1>2

\* An operation enters only VLANs its two memberships are in.
LEMMA BuildEnters ==
  ASSUME NEW firmware, NEW plan \in Wanted, NEW old \in Wanted, NEW vs \in SUBSET Vlans,
         NEW dual \in Vlans \cup {None}, NEW bulk \in BOOLEAN, NEW X,
         ResolveTagged(plan, vs) \subseteq X, plan.untagged \in X \cup {None},
         ResolveTagged(old, vs) \subseteq X, old.untagged \in X \cup {None},
         NEW l \in ToSet(Build(firmware, plan, old, vs, dual, bulk))
  PROVE  Entered(l) \subseteq X
<1>1. CASE firmware = "dual"
  <2>1. /\ ContextTagged(plan, vs) \subseteq X /\ ContextTagged(old, vs) \subseteq X
        /\ ContextUntagged(plan, vs) \in X \cup {None}
        /\ ContextUntagged(old, vs) \in X \cup {None}
    BY DEF ContextTagged, ContextUntagged, IsDual
  <2>2. /\ l.op = "no_untagged" => /\ l.vlan = ContextUntagged(old, vs)
                                   /\ l.vlan # None
        /\ l.op = "tagged" => l.vlan \in ContextTagged(plan, vs)
        /\ l.op = "no_tagged" => l.vlan \in ContextTagged(old, vs)
        /\ l.op = "untagged" => l.vlan = ContextUntagged(plan, vs) /\ l.vlan # None
    <3>1. l \in ToSet(BuildDual(plan, old, vs, dual))
      BY <1>1 DEF Build
    <3>2. QED
      BY <3>1, DualLine DEF DropsUntagged, AddsUntagged
  <2>3. QED
    BY <2>1, <2>2 DEF Entered
<1>2. CASE firmware # "dual"
  <2>1. /\ l.op = "no_untagged" => l.vlan = old.untagged /\ l.vlan # None
        /\ l.op = "tagged" => l.vlan \in ResolveTagged(plan, vs)
        /\ l.op = "no_tagged" => l.vlan \in ResolveTagged(old, vs)
        /\ l.op = "untagged" => l.vlan = plan.untagged /\ l.vlan # None
    <3>1. l \in ToSet(BuildContext(plan, old, vs, bulk))
      BY <1>2 DEF Build
    <3>2. QED
      BY <3>1, ContextLine DEF DropsUntagged, AddsUntagged
  <2>2. QED
    BY <2>1 DEF Entered
<1>3. QED
  BY <1>1, <1>2

\* Entering its own untagged VLAN, or one that is there, changes nothing about
\* what a membership stands for.
LEMMA SameTags ==
  ASSUME NEW w, NEW vs, NEW ws, vs \subseteq ws, w.all => ws \subseteq vs \cup {w.untagged}
  PROVE  /\ ResolveTagged(w, ws) = ResolveTagged(w, vs)
         /\ IsDual(w, ws) = IsDual(w, vs)
<1>1. ResolveTagged(w, ws) = ResolveTagged(w, vs)
  BY DEF ResolveTagged, ExpandAll
<1>2. QED
  BY <1>1 DEF IsDual

\* Only a plan that is no dual-mode trunk leaves dual-mode, only one that is enters
\* it, and an untagged VLAN is dropped only for another one, or by a port that
\* becomes a trunk.
StraightLine(l, firmware, plan, old, vs, bulk) ==
  /\ firmware = "dual" =>
       /\ l.op # "bulk"
       /\ l.op = "no_dual" => ~IsDual(plan, vs)
       /\ l.op = "dual" => l.vlan = plan.untagged /\ IsDual(plan, vs)
       /\ l.op = "no_untagged" => ContextUntagged(old, vs) \notin {None, ContextUntagged(plan, vs)}
       /\ l.op = "untagged" => l.vlan = plan.untagged
  /\ firmware = "context" =>
       /\ l.op \notin {"dual", "no_dual"}
       /\ l.op = "no_untagged" => old.untagged \notin {None, plan.untagged}
       /\ l.op = "untagged" => l.vlan = plan.untagged
       /\ l.op = "bulk" => bulk

LEMMA BuildStraight ==
  ASSUME NEW firmware \in {"context", "dual"}, NEW plan \in Wanted, NEW old \in Wanted,
         NEW vs \in SUBSET Vlans, NEW dual \in Vlans \cup {None}, NEW bulk \in BOOLEAN
  PROVE  \A l \in ToSet(Build(firmware, plan, old, vs, dual, bulk)) :
           StraightLine(l, firmware, plan, old, vs, bulk)
<1> SUFFICES ASSUME NEW l \in ToSet(Build(firmware, plan, old, vs, dual, bulk))
             PROVE  StraightLine(l, firmware, plan, old, vs, bulk)
  OBVIOUS
<1>1. CASE firmware = "dual"
  <2>1. l \in ToSet(BuildDual(plan, old, vs, dual))
    BY <1>1 DEF Build
  <2>2. ContextUntagged(plan, vs) \in {None, plan.untagged}
    BY DEF ContextUntagged
  <2>3. QED
    BY <1>1, <2>1, <2>2, DualLine
       DEF LeavesDual, SelectsDual, DropsUntagged, AddsUntagged, StraightLine
<1>2. CASE firmware = "context"
  <2>1. l \in ToSet(BuildContext(plan, old, vs, bulk))
    BY <1>2 DEF Build
  <2>2. QED
    BY <1>2, <2>1, ContextLine DEF DropsUntagged, StraightLine
<1>3. QED
  BY <1>1, <1>2

\* A plan with every VLAN takes none off but its untagged one, if that is what
\* the port is untagged in.
LEMMA BuildAdds ==
  ASSUME NEW firmware \in {"context", "dual"}, NEW plan \in Wanted, NEW old \in Wanted,
         NEW vs \in SUBSET Vlans, NEW dual \in Vlans \cup {None}, NEW bulk \in BOOLEAN,
         plan.all, ResolveTagged(old, vs) \subseteq vs, old.untagged = plan.untagged
  PROVE  \A l \in ToSet(Build(firmware, plan, old, vs, dual, bulk)) :
           l.op = "no_tagged" => l.vlan \in {DefaultVlan, plan.untagged}
<1> SUFFICES ASSUME NEW l \in ToSet(Build(firmware, plan, old, vs, dual, bulk))
             PROVE  l.op = "no_tagged" => l.vlan \in {DefaultVlan, plan.untagged}
  OBVIOUS
<1>1. ResolveTagged(plan, vs) = vs \ {DefaultVlan, plan.untagged}
  BY DEF ResolveTagged, ExpandAll
<1>2. CASE firmware = "dual"
  <2>1. l \in ToSet(BuildDual(plan, old, vs, dual))
    BY <1>2 DEF Build
  <2>2. ContextTagged(old, vs) \subseteq vs \cup {plan.untagged}
    BY DEF ContextTagged
  <2>3. vs \ {DefaultVlan, plan.untagged} \subseteq ContextTagged(plan, vs)
    BY <1>1 DEF ContextTagged
  <2>4. l.op = "no_tagged" => l.vlan \in ContextTagged(old, vs) \ ContextTagged(plan, vs)
    BY <2>1, DualLine
  <2>5. QED
    BY <2>2, <2>3, <2>4
<1>3. CASE firmware = "context"
  <2>1. l \in ToSet(BuildContext(plan, old, vs, bulk))
    BY <1>3 DEF Build
  <2>2. l.op = "no_tagged" => l.vlan \in ResolveTagged(old, vs) \ ResolveTagged(plan, vs)
    BY <2>1, ContextLine
  <2>3. QED
    BY <1>1, <2>2
<1>4. QED
  BY <1>2, <1>3

LEMMA NothingIs ==
  /\ Nothing \in Wanted /\ \A vs : ResolveTagged(Nothing, vs) = {}
  /\ \A vs : Meets(NoMembership, Nothing, vs)
BY DEF Nothing, Wanted, ResolveTagged, Meets, NoMembership, UntaggedOf, TaggedOf, None, DefaultVlan

\* What a read records is a membership.
LEMMA ReadBackType ==
  ASSUME NEW s \in Wanted, NEW p \in Port, NEW vs \in SUBSET Vlans
  PROVE  ReadBack(s, p, vs) \in Wanted
<1> DEFINE t == (p.tagged \cap vs) \ {DefaultVlan, p.dual}
           u == IF p.dual # None THEN p.dual
                ELSE IF p.untagged = DefaultVlan THEN None ELSE p.untagged
<1>1. t \in SUBSET Vlans /\ u \in Vlans \cup {None}
  BY DEF Port
<1>2. s = [all |-> s.all, tagged |-> s.tagged, untagged |-> s.untagged]
      /\ s.all \in BOOLEAN /\ s.tagged \in SUBSET Vlans
  BY DEF Wanted
<1>3. CASE s.all /\ t = ExpandAll(vs, u)
  <2>1. ReadBack(s, p, vs) = [s EXCEPT !.untagged = u]
    BY <1>3 DEF ReadBack
  <2>2. QED
    BY <1>1, <1>2, <2>1 DEF Wanted
<1>4. CASE ~(s.all /\ t = ExpandAll(vs, u))
  <2>1. ReadBack(s, p, vs) = [all |-> FALSE, tagged |-> t, untagged |-> u]
    BY <1>4 DEF ReadBack
  <2>2. QED
    BY <1>1, <2>1 DEF Wanted
<1>5. QED
  BY <1>3, <1>4
=============================================================================
