------------------------ MODULE GlobalSettingsProofs ------------------------
(***************************************************************************)
(* What the resources of one switch promise, for every plan of any number   *)
(* of them, whatever is refused, lost or rebooted.  First the lists of      *)
(* lines each operation is made of: whose settings they name, what they     *)
(* leave alone, and what has become of the configuration when all of them   *)
(* have run.  Then the system, in five inductive invariants, each resting   *)
(* on the ones before it: SettingsInv (what each operation has still to     *)
(* call fits where it is), SavedInv (what one that ended well has changed   *)
(* is saved), MoveInv (a batch that is still to be sent has the gateway     *)
(* before the address), CarryInv (what is left of an operation completes    *)
(* what it is to record) and CalmInv (as long as nothing has failed, the    *)
(* lists that no Read sees are on the switch as they are recorded).         *)
(***************************************************************************)
EXTENDS GlobalSettings, SequenceTheorems, WellFoundedInduction, TLAPS

-----------------------------------------------------------------------------
(* Numbers.                                                                  *)

\* A nonempty set of naturals has a least element.
LEMMA LeastOf ==
  ASSUME NEW T \in SUBSET Nat, T # {}
  PROVE  \E m \in T : \A k \in T : m <= k
<1>1. \E m \in T : \A k \in T : <<k, m>> \notin OpToRel(<, Nat)
  BY WFMin, NatLessThanWellFounded, Zenon
<1>2. PICK m \in T : \A k \in T : <<k, m>> \notin OpToRel(<, Nat)
  BY <1>1
<1>3. \A k \in T : ~(k < m)
  BY <1>2 DEF OpToRel
<1>4. QED
  BY <1>3

\* A set of naturals with 0 and with the successor of each of its members, up
\* to n, has all of them.
LEMMA AllUpTo ==
  ASSUME NEW n \in Nat, NEW S, 0 \in S, \A k \in 0..(n - 1) : k \in S => k + 1 \in S
  PROVE  \A k \in 0..n : k \in S
<1> DEFINE bad == (0..n) \ S
<1>1. SUFFICES ASSUME bad # {} PROVE FALSE
  OBVIOUS
<1>2. bad \in SUBSET Nat
  OBVIOUS
<1>3. PICK k \in bad : \A j \in bad : k <= j
  BY <1>1, <1>2, LeastOf
<1>4. k \in 0..n /\ k \notin S /\ k # 0
  OBVIOUS
<1>5. k - 1 \in 0..(n - 1) /\ k - 1 \in 0..n /\ ~(k <= k - 1) /\ (k - 1) + 1 = k
  BY <1>4
<1>6. k - 1 \in S
  BY <1>3, <1>5
<1>7. QED
  BY <1>4, <1>5, <1>6

-----------------------------------------------------------------------------
(* Lists.                                                                    *)

\* Sequences, whatever they are sequences of.
LEMMA SeqIsList ==
  ASSUME NEW T, NEW s \in Seq(T)
  PROVE  IsList(s)
<1>1. Len(s) \in Nat /\ s \in [1..Len(s) -> T] /\ DOMAIN s = 1..Len(s)
  OBVIOUS
<1>2. \A i \in 1..Len(s) : s[i] \in ToSet(s)
  BY <1>1 DEF ToSet
<1>3. s \in [1..Len(s) -> ToSet(s)]
  BY <1>1, <1>2
<1>4. QED
  BY <1>1, <1>3 DEF IsList

LEMMA ListIs ==
  ASSUME NEW s, IsList(s)
  PROVE  /\ s \in Seq(ToSet(s)) /\ Len(s) \in Nat /\ DOMAIN s = 1..Len(s)
         /\ \A e : e \in ToSet(s) <=> \E i \in 1..Len(s) : s[i] = e
<1>1. s \in Seq(ToSet(s))
  BY DEF IsList
<1>2. Len(s) \in Nat /\ DOMAIN s = 1..Len(s)
  BY <1>1
<1>3. QED
  BY <1>1, <1>2 DEF ToSet

LEMMA EmptyIsList == IsList(<<>>) /\ ToSet(<<>>) = {}
<1>1. <<>> \in Seq({}) /\ DOMAIN <<>> = {}
  OBVIOUS
<1>2. QED
  BY <1>1, SeqIsList DEF ToSet

LEMMA OneIsList ==
  ASSUME NEW e
  PROVE  /\ IsList(<<e>>) /\ Len(<<e>>) = 1 /\ <<e>>[1] = e /\ ToSet(<<e>>) = {e}
         /\ <<e>> # <<>>
<1>1. <<e>> \in Seq({e}) /\ Len(<<e>>) = 1 /\ <<e>>[1] = e /\ <<e>> # <<>>
  OBVIOUS
<1>2. IsList(<<e>>)
  BY <1>1, SeqIsList
<1>3. QED
  BY <1>1, <1>2, ListIs

LEMMA JoinIsList ==
  ASSUME NEW s, IsList(s), NEW t, IsList(t)
  PROVE  /\ IsList(s \o t) /\ Len(s \o t) = Len(s) + Len(t)
         /\ \A i \in 1..(Len(s) + Len(t)) :
              (s \o t)[i] = IF i <= Len(s) THEN s[i] ELSE t[i - Len(s)]
         /\ ToSet(s \o t) = ToSet(s) \cup ToSet(t)
<1> DEFINE T == ToSet(s) \cup ToSet(t)
<1>1. /\ Len(s) \in Nat /\ Len(t) \in Nat /\ s \in Seq(T) /\ t \in Seq(T)
  <2>1. Len(s) \in Nat /\ Len(t) \in Nat
    BY ListIs
  <2>2. \A i \in 1..Len(s) : s[i] \in T
    BY ListIs
  <2>3. \A i \in 1..Len(t) : t[i] \in T
    BY ListIs
  <2>4. s \in [1..Len(s) -> ToSet(s)] /\ t \in [1..Len(t) -> ToSet(t)]
    BY ListIs
  <2> HIDE DEF T
  <2>5. s \in [1..Len(s) -> T] /\ t \in [1..Len(t) -> T]
    BY <2>2, <2>3, <2>4
  <2>6. QED
    BY <2>1, <2>5
<1> HIDE DEF T
<1>2. /\ s \o t \in Seq(T) /\ Len(s \o t) = Len(s) + Len(t)
      /\ \A i \in 1..(Len(s) + Len(t)) :
           (s \o t)[i] = IF i <= Len(s) THEN s[i] ELSE t[i - Len(s)]
  BY <1>1, ConcatProperties
<1>3. IsList(s \o t)
  BY <1>2, SeqIsList
<1>4. \A e : e \in ToSet(s \o t) <=> e \in ToSet(s) \cup ToSet(t)
  <2> TAKE e
  <2>1. e \in ToSet(s \o t) <=> \E i \in 1..(Len(s) + Len(t)) : (s \o t)[i] = e
    BY <1>2, <1>3, ListIs
  <2>2. ASSUME NEW i \in 1..(Len(s) + Len(t)), (s \o t)[i] = e PROVE e \in ToSet(s) \cup ToSet(t)
    <3>1. CASE i <= Len(s)
      <4>1. i \in 1..Len(s) /\ s[i] = e
        BY <1>1, <1>2, <2>2, <3>1
      <4>2. QED
        BY <4>1, ListIs
    <3>2. CASE ~(i <= Len(s))
      <4>1. i - Len(s) \in 1..Len(t) /\ t[i - Len(s)] = e
        BY <1>1, <1>2, <2>2, <3>2
      <4>2. QED
        BY <4>1, ListIs
    <3>3. QED
      BY <3>1, <3>2
  <2>3. ASSUME NEW i \in 1..Len(s), s[i] = e PROVE \E j \in 1..(Len(s) + Len(t)) : (s \o t)[j] = e
    <3>1. i \in 1..(Len(s) + Len(t)) /\ (s \o t)[i] = e
      BY <1>1, <1>2, <2>3
    <3>2. QED
      BY <3>1
  <2>4. ASSUME NEW i \in 1..Len(t), t[i] = e PROVE \E j \in 1..(Len(s) + Len(t)) : (s \o t)[j] = e
    <3>1. Len(s) + i \in 1..(Len(s) + Len(t)) /\ (s \o t)[Len(s) + i] = e
      BY <1>1, <1>2, <2>4
    <3>2. QED
      BY <3>1
  <2>5. e \in ToSet(s) <=> \E i \in 1..Len(s) : s[i] = e
    BY ListIs
  <2>6. e \in ToSet(t) <=> \E i \in 1..Len(t) : t[i] = e
    BY ListIs
  <2>7. QED
    BY <2>1, <2>2, <2>3, <2>4, <2>5, <2>6
<1>5. QED
  BY <1>2, <1>3, <1>4

\* Adding an entry to a list.
LEMMA AppendIsList ==
  ASSUME NEW s, IsList(s), NEW e
  PROVE  /\ IsList(Append(s, e)) /\ Len(Append(s, e)) = Len(s) + 1
         /\ ToSet(Append(s, e)) = ToSet(s) \cup {e}
         /\ Append(s, e) = s \o <<e>>
<1>1. s \in Seq(ToSet(s)) /\ Len(s) \in Nat
  BY ListIs
<1>2. Append(s, e) = s \o <<e>>
  BY <1>1
<1>3. QED
  BY <1>2, JoinIsList, OneIsList, SMTT(30)

LEMMA ForEachIs ==
  ASSUME NEW op, NEW key, NEW s, IsList(s)
  PROVE  /\ IsList(ForEach(op, key, s)) /\ Len(ForEach(op, key, s)) = Len(s)
         /\ \A i \in 1..Len(s) : ForEach(op, key, s)[i] = Line(op, key, s[i])
<1> DEFINE f == ForEach(op, key, s)
           T == {Line(op, key, e) : e \in ToSet(s)}
<1>1. Len(s) \in Nat /\ DOMAIN s = 1..Len(s) /\ \A i \in 1..Len(s) : s[i] \in ToSet(s)
  BY ListIs
<1>2. f = [i \in 1..Len(s) |-> Line(op, key, s[i])]
  BY <1>1 DEF ForEach
<1>3. \A i \in 1..Len(s) : f[i] = Line(op, key, s[i]) /\ f[i] \in T
  BY <1>1, <1>2, Zenon
<1>4. f \in [1..Len(s) -> T]
  BY <1>2, <1>3, Zenon
<1> HIDE DEF T, f
<1>5. f \in Seq(T) /\ Len(f) = Len(s)
  BY <1>1, <1>4
<1>6. IsList(f)
  BY <1>5, SeqIsList
<1>7. QED
  BY <1>3, <1>5, <1>6 DEF f

\* Joins of short lists, and lists that have the same entries.
LEMMA ShortJoins ==
  ASSUME NEW a, NEW b
  PROVE  <<>> \o <<a>> = <<a>> /\ <<a>> \o <<>> = <<a>> /\ <<a>> \o <<b>> = <<a, b>>
<1>1. <<>> \o <<a>> = <<a>>
  OBVIOUS
<1>2. <<a>> \o <<>> = <<a>>
  OBVIOUS
<1>3. <<a>> \o <<b>> = <<a, b>>
  <2> DEFINE s == <<a>> \o <<b>>
             t == <<a, b>>
  <2>1. IsList(<<a>>) /\ IsList(<<b>>) /\ Len(<<a>>) = 1 /\ Len(<<b>>) = 1 /\ <<a>>[1] = a
        /\ <<b>>[1] = b
    BY OneIsList
  <2>2. /\ IsList(s) /\ Len(s) = 1 + 1
        /\ \A i \in 1..(1 + 1) : s[i] = IF i <= 1 THEN <<a>>[i] ELSE <<b>>[i - 1]
    BY <2>1, JoinIsList
  <2>3. s \in Seq(ToSet(s)) /\ Len(s) = 2 /\ s[1] = a /\ s[2] = b
    <3> HIDE DEF s
    <3>1. s \in Seq(ToSet(s)) /\ Len(s) = 2
      BY <2>2, ListIs
    <3>2. s[1] = <<a>>[1]
      BY <2>2
    <3>3. s[2] = <<b>>[2 - 1]
      BY <2>2
    <3>4. QED
      BY <2>1, <3>1, <3>2, <3>3
  <2>4. t \in Seq({a, b}) /\ Len(t) = 2 /\ t[1] = a /\ t[2] = b
    OBVIOUS
  <2> HIDE DEF s, t
  <2>5. DOMAIN s = 1..2 /\ DOMAIN t = 1..2 /\ \A i \in 1..2 : s[i] = t[i]
    BY <2>3, <2>4
  <2>6. s = [i \in 1..2 |-> s[i]] /\ t = [i \in 1..2 |-> t[i]]
    BY <2>3, <2>4
  <2>7. s = t
    BY <2>5, <2>6
  <2>8. QED
    BY <2>7 DEF s, t
<1>4. QED
  BY <1>1, <1>2, <1>3

LEMMA SameLists ==
  ASSUME NEW s, IsList(s), NEW t, IsList(t), Len(s) = Len(t), \A i \in 1..Len(s) : s[i] = t[i]
  PROVE  s = t
<1>1. s \in Seq(ToSet(s)) /\ t \in Seq(ToSet(t))
  BY ListIs
<1>2. DOMAIN s = 1..Len(s) /\ DOMAIN t = 1..Len(s)
  BY ListIs
<1>3. s = [i \in 1..Len(s) |-> s[i]] /\ t = [i \in 1..Len(s) |-> t[i]]
  BY <1>1, <1>2
<1>4. QED
  BY <1>3

LEMMA JoinNone ==
  ASSUME NEW s, IsList(s)
  PROVE  s \o <<>> = s /\ <<>> \o s = s
<1>1. s \in Seq(ToSet(s))
  BY ListIs
<1>2. s \o <<>> = s
  BY <1>1
<1>3. <<>> \o s = s
  BY <1>1
<1>4. QED
  BY <1>2, <1>3

LEMMA ThreeJoin ==
  ASSUME NEW a, NEW b, NEW c
  PROVE  <<a, b>> \o <<c>> = <<a, b, c>>
<1> DEFINE s == <<a, b>> \o <<c>>
           t == <<a, b, c>>
<1>1. /\ <<a, b>> \in Seq({a, b}) /\ Len(<<a, b>>) = 2 /\ <<a, b>>[1] = a /\ <<a, b>>[2] = b
      /\ t \in Seq({a, b, c}) /\ Len(t) = 3 /\ t[1] = a /\ t[2] = b /\ t[3] = c
  OBVIOUS
<1>2. IsList(<<a, b>>) /\ IsList(t)
  BY <1>1, SeqIsList
<1>3. IsList(<<c>>) /\ Len(<<c>>) = 1 /\ <<c>>[1] = c
  BY OneIsList
<1>4. /\ IsList(s) /\ Len(s) = 2 + 1
      /\ \A i \in 1..(2 + 1) : s[i] = IF i <= 2 THEN <<a, b>>[i] ELSE <<c>>[i - 2]
  BY <1>1, <1>2, <1>3, JoinIsList
<1> HIDE DEF s, t
<1>5. s[1] = a /\ s[2] = b /\ s[3] = <<c>>[3 - 2]
  BY <1>1, <1>4
<1>6. \A i \in 1..Len(s) : s[i] = t[i]
  BY <1>1, <1>3, <1>4, <1>5
<1>7. s = t
  BY <1>1, <1>2, <1>4, <1>6, SameLists
<1>8. QED
  BY <1>7 DEF s, t

-----------------------------------------------------------------------------
(* What a list of lines does.                                                *)

\* The trace of After: the configuration after each line.
Trace(conf, lines, f) ==
  /\ DOMAIN f = 0..Len(lines) /\ f[0] = conf
  /\ \A n \in 1..Len(lines) : f[n] = Effect(f[n - 1], lines[n])

\* A list of lines has a trace.
LEMMA AfterIs ==
  ASSUME NEW conf, NEW lines, IsList(lines)
  PROVE  \E f : Trace(conf, lines, f) /\ After(conf, lines) = f[Len(lines)]
<1> DEFINE N == Len(lines)
           step(f, i) == IF i = 0 THEN conf ELSE Effect(f[i - 1], lines[i])
           good(f, k) == f = [i \in 0..k |-> step(f, i)]
           after == CHOOSE f : good(f, N)
<1>1. N \in Nat
  BY ListIs
<1> HIDE DEF N
<1>2. \E f : good(f, 0)
  <2> DEFINE g == [i \in 0..0 |-> conf]
  <2>1. \A i \in 0..0 : step(g, i) = conf
    OBVIOUS
  <2>2. good(g, 0)
    BY <2>1
  <2>3. QED
    BY <2>2
<1>3. ASSUME NEW k \in 0..(N - 1), NEW f, good(f, k)
      PROVE  \E g : good(g, k + 1)
  <2> DEFINE g == [i \in 0..(k + 1) |-> IF i < k + 1 THEN f[i] ELSE step(f, i)]
  <2>1. \A i \in 0..k : f[i] = step(f, i)
    BY <1>3, Zenon
  <2>2. \A i \in 0..(k + 1) : i < k + 1 => i \in 0..k
    BY <1>1
  <2>3. \A i \in 0..(k + 1) : i # 0 => i - 1 \in 0..(k + 1) /\ i - 1 < k + 1
    BY <1>1
  <2>4. \A i \in 0..(k + 1) : i # 0 => g[i - 1] = f[i - 1]
    BY <2>3
  <2> HIDE DEF g
  <2>5. \A i \in 0..(k + 1) : step(g, i) = step(f, i)
    BY <2>4
  <2>6. \A i \in 0..(k + 1) : g[i] = step(f, i)
    BY <2>1, <2>2 DEF g
  <2>7. g = [i \in 0..(k + 1) |-> g[i]]
    BY DEF g
  <2>8. \A i \in 0..(k + 1) : g[i] = step(g, i)
    BY <2>5, <2>6
  <2>9. good(g, k + 1)
    BY <2>7, <2>8, ZenonT(40)
  <2>10. QED
    BY <2>9
<1>4. good(after, N)
  <2> DEFINE S == {k \in 0..N : \E f : good(f, k)}
  <2>1. 0 \in S
    BY <1>1, <1>2
  <2>2. \A k \in 0..(N - 1) : k \in S => k + 1 \in S
    <3>1. \A k \in 0..(N - 1) : k + 1 \in 0..N
      BY <1>1
    <3>2. QED
      BY <1>3, <3>1, Zenon
  <2>3. \A k \in 0..N : k \in S
    <3> HIDE DEF S
    <3>1. QED
      BY <1>1, <2>1, <2>2, AllUpTo
  <2>4. N \in S
    BY <1>1, <2>3
  <2>5. QED
    BY <2>4, Zenon
<1>5. After(conf, lines) = after[N]
  BY DEF After, N
<1> HIDE DEF after
<1>6. DOMAIN after = 0..N /\ \A i \in 0..N : after[i] = step(after, i)
  BY <1>4, Zenon
<1>7. after[0] = conf
  BY <1>1, <1>6
<1>8. \A n \in 1..N : after[n] = Effect(after[n - 1], lines[n])
  BY <1>1, <1>6
<1>9. Trace(conf, lines, after)
  BY <1>6, <1>7, <1>8 DEF Trace, N
<1>10. QED
  BY <1>5, <1>9 DEF N

\* What is left of a list.
LEMMA WithoutIs ==
  ASSUME NEW s, IsList(s), NEW t
  PROVE  /\ IsList(Without(s, t)) /\ ToSet(Without(s, t)) = ToSet(s) \ ToSet(t)
         /\ ToSet(t) = {} => Without(s, t) = s
<1> DEFINE N == Len(s)
           step(f, i) == IF i = 0 THEN <<>>
                         ELSE IF s[i] \in ToSet(t) THEN f[i - 1] ELSE Append(f[i - 1], s[i])
           good(f, k) == f = [i \in 0..k |-> step(f, i)]
           kept == CHOOSE f : good(f, N)
<1>1. N \in Nat
  BY ListIs
<1> HIDE DEF N
<1>2. \E f : good(f, 0)
  <2> DEFINE g == [i \in 0..0 |-> <<>>]
  <2>1. \A i \in 0..0 : step(g, i) = <<>>
    OBVIOUS
  <2>2. good(g, 0)
    BY <2>1
  <2>3. QED
    BY <2>2
<1>3. ASSUME NEW k \in 0..(N - 1), NEW f, good(f, k)
      PROVE  \E g : good(g, k + 1)
  <2> DEFINE g == [i \in 0..(k + 1) |-> IF i < k + 1 THEN f[i] ELSE step(f, i)]
  <2>1. \A i \in 0..k : f[i] = step(f, i)
    BY <1>3, Zenon
  <2>2. \A i \in 0..(k + 1) : i < k + 1 => i \in 0..k
    BY <1>1
  <2>3. \A i \in 0..(k + 1) : i # 0 => i - 1 \in 0..(k + 1) /\ i - 1 < k + 1
    BY <1>1
  <2>4. \A i \in 0..(k + 1) : i # 0 => g[i - 1] = f[i - 1]
    BY <2>3
  <2> HIDE DEF g
  <2>5. \A i \in 0..(k + 1) : step(g, i) = step(f, i)
    BY <2>4
  <2>6. \A i \in 0..(k + 1) : g[i] = step(f, i)
    BY <2>1, <2>2 DEF g
  <2>7. g = [i \in 0..(k + 1) |-> g[i]]
    BY DEF g
  <2>8. \A i \in 0..(k + 1) : g[i] = step(g, i)
    BY <2>5, <2>6
  <2>9. good(g, k + 1)
    BY <2>7, <2>8, ZenonT(40)
  <2>10. QED
    BY <2>9
<1>4. good(kept, N)
  <2> DEFINE S == {k \in 0..N : \E f : good(f, k)}
  <2>1. 0 \in S
    BY <1>1, <1>2
  <2>2. \A k \in 0..(N - 1) : k \in S => k + 1 \in S
    <3>1. \A k \in 0..(N - 1) : k + 1 \in 0..N
      BY <1>1
    <3>2. QED
      BY <1>3, <3>1, Zenon
  <2>3. \A k \in 0..N : k \in S
    <3> HIDE DEF S
    <3>1. QED
      BY <1>1, <2>1, <2>2, AllUpTo
  <2>4. N \in S
    BY <1>1, <2>3
  <2>5. QED
    BY <2>4, Zenon
<1>5. Without(s, t) = kept[N]
  BY DEF Without, N
<1> HIDE DEF kept
<1>6. \A i \in 0..N : kept[i] = step(kept, i)
  BY <1>4, Zenon
<1> DEFINE Good(k) == /\ IsList(kept[k])
                      /\ ToSet(kept[k]) = {s[i] : i \in 1..k} \ ToSet(t)
                      /\ ToSet(t) = {} => Len(kept[k]) = k /\ \A i \in 1..k : kept[k][i] = s[i]
           S == {k \in 0..N : Good(k)}
<1>7. Good(0)
  <2>1. kept[0] = <<>>
    <3>1. 0 \in 0..N
      BY <1>1
    <3>2. QED
      BY <3>1, <1>6, Zenon
  <2>2. QED
    BY <2>1, EmptyIsList
<1>8. ASSUME NEW k \in 0..(N - 1), Good(k) PROVE Good(k + 1)
  <2>1. k \in 0..N /\ k + 1 \in 0..N /\ k + 1 # 0 /\ (k + 1) - 1 = k
    BY <1>1
  <2>2. kept[k + 1] = IF s[k + 1] \in ToSet(t) THEN kept[k] ELSE Append(kept[k], s[k + 1])
    BY <1>6, <2>1
  <2>3. {s[i] : i \in 1..(k + 1)} = {s[i] : i \in 1..k} \cup {s[k + 1]}
    <3>1. \A i : i \in 1..(k + 1) <=> i \in 1..k \/ i = k + 1
      BY <1>1
    <3>2. QED
      BY <3>1
  <2>4. CASE s[k + 1] \in ToSet(t)
    <3>1. ToSet(t) # {}
      BY <2>4
    <3>2. QED
      BY <1>8, <2>2, <2>3, <2>4, <3>1
  <2>5. CASE s[k + 1] \notin ToSet(t)
    <3> DEFINE longer == Append(kept[k], s[k + 1])
    <3>1. /\ IsList(longer) /\ ToSet(longer) = ToSet(kept[k]) \cup {s[k + 1]}
          /\ Len(longer) = Len(kept[k]) + 1
      BY <1>8, AppendIsList
    <3>2. ASSUME Len(kept[k]) = k, \A i \in 1..k : kept[k][i] = s[i]
          PROVE  \A i \in 1..(k + 1) : longer[i] = s[i]
      <4>1. longer = kept[k] \o <<s[k + 1]>> /\ IsList(<<s[k + 1]>>)
            /\ <<s[k + 1]>>[1] = s[k + 1] /\ Len(<<s[k + 1]>>) = 1
        BY <1>8, AppendIsList, OneIsList
      <4>2. \A i \in 1..(k + 1) : longer[i] = IF i <= k THEN kept[k][i] ELSE <<s[k + 1]>>[i - k]
        BY <1>8, <3>2, <4>1, JoinIsList
      <4> HIDE DEF longer
      <4>3. \A i \in 1..(k + 1) : \/ i <= k /\ i \in 1..k
                                  \/ ~(i <= k) /\ i = k + 1 /\ i - k = 1
        BY <1>1
      <4>4. QED
        BY <3>2, <4>1, <4>2, <4>3
    <3>3. kept[k + 1] = longer
      BY <2>2, <2>5
    <3> HIDE DEF longer
    <3>4. QED
      BY <1>8, <2>3, <2>5, <3>1, <3>2, <3>3
  <2>6. QED
    BY <2>4, <2>5
<1> HIDE DEF Good
<1>9. \A k \in 0..N : k \in S
  <2>1. 0 \in S
    BY <1>1, <1>7
  <2>2. \A k \in 0..(N - 1) : k \in S => k + 1 \in S
    <3>1. \A k \in 0..(N - 1) : k + 1 \in 0..N
      BY <1>1
    <3>2. QED
      BY <1>8, <3>1
  <2>3. QED
    <3> HIDE DEF S
    <3>1. QED
      BY <1>1, <2>1, <2>2, AllUpTo
<1>10. Good(N)
  <2>1. N \in S
    BY <1>1, <1>9
  <2>2. QED
    BY <2>1
<1>11. ToSet(s) = {s[i] : i \in 1..N}
  <2>1. DOMAIN s = 1..N
    BY ListIs DEF N
  <2>2. QED
    BY <2>1 DEF ToSet
<1>12. ToSet(t) = {} => kept[N] = s
  <2>1. IsList(kept[N]) /\ (ToSet(t) = {} => Len(kept[N]) = Len(s)
                                            /\ \A i \in 1..Len(kept[N]) : kept[N][i] = s[i])
    BY <1>10 DEF Good, N
  <2>2. QED
    BY <2>1, SameLists
<1>13. QED
  BY <1>5, <1>10, <1>11, <1>12 DEF Good

-----------------------------------------------------------------------------
(* Which resource has which settings.                                        *)

\* The settings a resource has to do with.
Keys ==
  [system        |-> {"hostname", "telnet_server", "optical_monitor"},
   management_ip |-> {"address", "gateway", "dns"},
   ntp           |-> {"timezone", "servers", "serve"},
   logging       |-> {"hosts", "facility"},
   snmp          |-> {"communities", "contact"},
   aaa           |-> {"login", "console"},
   interface_ve  |-> {"ve", "ve_address", "ve_lines"},
   vlan          |-> {"vlan", "vlan_name", "router_interface", "spanning_tree", "stp_priority",
                      "vlan_lines"},
   user          |-> Accounts,
   poe           |-> {"power"},
   raw_config    |-> {"lines"}]

Switches == {"ve", "vlan", "spanning_tree"}

\* A line a resource sends.
IsLine(r, l) ==
  /\ l.op \in {"set", "add", "remove", "enter"} /\ l.key \in Keys[r]
  /\ l.op = "set" <=> l.key \notin Lists
  /\ l.key \in Switches => l.value \in BOOLEAN
  /\ l.op = "enter" => IsList(l.value)

\* What a line may change.
Reaches(l, k) == k = l.key \/ k \in Within(l.key) \/ (l.key = "vlan_name" /\ k = "vlan")

\* The resources, and the settings of each.
LEMMA ResourceNames ==
  Resources = {"system", "management_ip", "ntp", "logging", "snmp", "aaa", "interface_ve", "vlan",
               "user", "poe", "raw_config"}
BY DEF Resources, Attributes

LEMMA Accountless == ASSUME NEW k \in Accounts PROVE k \notin Unnamed
BY SettingLinesAssumption

LEMMA KeysOfEach ==
  /\ Keys["system"] = {"hostname", "telnet_server", "optical_monitor"}
  /\ Keys["management_ip"] = {"address", "gateway", "dns"}
  /\ Keys["ntp"] = {"timezone", "servers", "serve"}
  /\ Keys["logging"] = {"hosts", "facility"}
  /\ Keys["snmp"] = {"communities", "contact"}
  /\ Keys["aaa"] = {"login", "console"}
  /\ Keys["interface_ve"] = {"ve", "ve_address", "ve_lines"}
  /\ Keys["vlan"] = {"vlan", "vlan_name", "router_interface", "spanning_tree", "stp_priority",
                      "vlan_lines"}
  /\ Keys["user"] = Accounts
  /\ Keys["poe"] = {"power"}
  /\ Keys["raw_config"] = {"lines"}
BY DEF Keys

\* The one resource a setting is of.
Owner(k) ==
  CASE k \in {"hostname", "telnet_server", "optical_monitor"} -> "system"
    [] k \in {"address", "gateway", "dns"} -> "management_ip"
    [] k \in {"timezone", "servers", "serve"} -> "ntp"
    [] k \in {"hosts", "facility"} -> "logging"
    [] k \in {"communities", "contact"} -> "snmp"
    [] k \in {"login", "console"} -> "aaa"
    [] k \in {"ve", "ve_address", "ve_lines"} -> "interface_ve"
    [] k \in {"vlan", "vlan_name", "router_interface", "spanning_tree", "stp_priority",
              "vlan_lines"} -> "vlan"
    [] k \in {"power"} -> "poe"
    [] k \in {"lines"} -> "raw_config"
    [] OTHER -> "user"

LEMMA OwnerOf ==
  ASSUME NEW r \in Resources, NEW k \in Keys[r]
  PROVE  Owner(k) = r
<1>1. CASE r = "user"
  <2>1. k \in Accounts
    BY <1>1, KeysOfEach
  <2>2. k \notin Unnamed
    BY <2>1, Accountless
  <2>3. QED
    BY <1>1, <2>2 DEF Owner, Unnamed, Lists, OnByDefault, OffByDefault, Named
<1>2. CASE r # "user"
  BY <1>2, ResourceNames, KeysOfEach DEF Owner
<1>3. QED
  BY <1>1, <1>2

LEMMA KeysApart ==
  ASSUME NEW r \in Resources, NEW s \in Resources, r # s, NEW k \in Keys[r]
  PROVE  k \notin Keys[s]
BY OwnerOf

LEMMA KeysAreSettings ==
  ASSUME NEW r \in Resources
  PROVE  Keys[r] \subseteq Settings
<1>1. CASE r = "user"
  BY <1>1, KeysOfEach DEF Settings
<1>2. CASE r # "user"
  BY <1>2, ResourceNames, KeysOfEach DEF Settings, Unnamed, Lists, OnByDefault, OffByDefault, Named
<1>3. QED
  BY <1>1, <1>2

LEMMA WithinIs ==
  /\ Within("ve") = {"ve_address", "ve_lines"}
  /\ Within("vlan")
     = {"vlan_name", "router_interface", "spanning_tree", "stp_priority", "vlan_lines"}
  /\ Within("spanning_tree") = {"stp_priority"}
  /\ \A k : k \notin Switches => Within(k) = {}
BY DEF Within, Switches

\* What a line of a resource changes is of that resource.
LEMMA ReachedIsOwn ==
  ASSUME NEW r \in Resources, NEW l, l.key \in Keys[r], NEW k, Reaches(l, k)
  PROVE  k \in Keys[r]
<1>1. Owner(l.key) = r
  BY OwnerOf
<1>2. CASE l.key \in Switches \cup {"vlan_name"}
  BY <1>1, <1>2, WithinIs, KeysOfEach DEF Reaches, Switches, Owner
<1>3. CASE l.key \notin Switches \cup {"vlan_name"}
  BY <1>3, WithinIs DEF Reaches
<1>4. QED
  BY <1>2, <1>3

LEMMA DefaultIs ==
  /\ \A k \in Lists : Default(k) = <<>>
  /\ \A k \in Switches : Default(k) = FALSE
<1>1. \A k \in Lists : Default(k) = <<>>
  BY DEF Default, Lists, OnByDefault, OffByDefault
<1>2. \A k \in Switches : k \notin Lists /\ k \notin OnByDefault /\ k \in OffByDefault
  BY DEF Switches, Lists, OnByDefault, OffByDefault
<1>3. QED
  BY <1>1, <1>2 DEF Default

\* What it is to set a setting.
LEMMA SetIs ==
  ASSUME NEW conf, ProperConf(conf), NEW r \in Resources, NEW key \in Keys[r], key \notin Lists,
         NEW value, key \in Switches => value \in BOOLEAN
  PROVE  /\ ProperConf(Set(conf, key, value))
         /\ Set(conf, key, value)[key] = value
         /\ \A k \in Settings : k # key /\ k \notin Within(key)
            /\ ~(key = "vlan_name" /\ k = "vlan")
              => Set(conf, key, value)[k] = conf[k]
<1> DEFINE to == Set(conf, key, value)
           gone == IF Within(key) # {} /\ ~value THEN Within(key) ELSE {}
<1>1. /\ DOMAIN conf = Settings /\ key \in Settings /\ Switches \subseteq Settings
      /\ \A k \in Switches : conf[k] \in BOOLEAN
      /\ Lists \subseteq Settings /\ \A k \in Lists : IsList(conf[k])
  <2>1. Switches \subseteq Settings
    BY DEF Switches, Settings, Unnamed, OffByDefault
  <2>2. Lists \subseteq Settings
    BY DEF Settings, Unnamed
  <2>3. QED
    BY <2>1, <2>2, KeysAreSettings DEF ProperConf, Switches
<1>2. gone \subseteq Within(key)
  OBVIOUS
<1>3. to = [k \in Settings |-> IF k = key THEN value
                               ELSE IF k \in gone THEN Default(k)
                               ELSE IF k = "vlan" /\ key = "vlan_name" THEN TRUE ELSE conf[k]]
  BY <1>1 DEF Set
<1> HIDE DEF gone, to
<1>4. DOMAIN to = Settings /\ to[key] = value
  BY <1>1, <1>3
<1>5. \A k \in Settings : k # key /\ k \notin Within(key) /\ ~(key = "vlan_name" /\ k = "vlan") =>
        to[k] = conf[k]
  BY <1>2, <1>3
<1>6. \A k \in Lists : IsList(to[k])
  <2>1. \A k \in Lists : to[k] \in {<<>>, conf[k]}
    BY <1>1, <1>3, DefaultIs DEF Lists
  <2>2. QED
    BY <1>1, <2>1, EmptyIsList
<1>7. \A k \in Switches : to[k] \in BOOLEAN
  <2>1. \A k \in Switches : k # key => to[k] \in {TRUE, FALSE, conf[k]}
    BY <1>1, <1>3, DefaultIs
  <2>2. QED
    BY <1>1, <1>4, <2>1
<1>8. QED
  BY <1>4, <1>5, <1>6, <1>7 DEF ProperConf, Switches, to

\* What a line that is not `set' makes of a list.
OfList(l, old, to) ==
  /\ l.op = "add" => ToSet(to) = ToSet(old) \cup {l.value}
  /\ l.op = "enter" => to = old \o Without(l.value, old)
  /\ l.op = "remove" => ToSet(to) = ToSet(old) \ {l.value}

\* What a line does.
LEMMA EffectIs ==
  ASSUME NEW conf, ProperConf(conf), NEW r \in Resources, NEW l, IsLine(r, l)
  PROVE  /\ ProperConf(Effect(conf, l))
         /\ \A k \in Settings : ~Reaches(l, k) => Effect(conf, l)[k] = conf[k]
         /\ l.op = "set" => Effect(conf, l)[l.key] = l.value
         /\ OfList(l, conf[l.key], Effect(conf, l)[l.key])
<1>1. l.op = "set" \/ l.op = "add" \/ l.op = "remove" \/ l.op = "enter"
  BY DEF IsLine
<1>2. DOMAIN conf = Settings /\ l.key \in Settings
  BY KeysAreSettings DEF ProperConf, IsLine
<1>3. CASE l.op = "set"
  <2>1. Effect(conf, l) = Set(conf, l.key, l.value)
    BY <1>3 DEF Effect
  <2>2. l.key \in Keys[r] /\ l.key \notin Lists /\ (l.key \in Switches => l.value \in BOOLEAN)
    BY <1>3 DEF IsLine
  <2>3. /\ ProperConf(Set(conf, l.key, l.value)) /\ Set(conf, l.key, l.value)[l.key] = l.value
        /\ \A k \in Settings : k # l.key /\ k \notin Within(l.key)
           /\ ~(l.key = "vlan_name" /\ k = "vlan")
              => Set(conf, l.key, l.value)[k] = conf[k]
    BY <2>2, SetIs
  <2>4. OfList(l, conf[l.key], Effect(conf, l)[l.key])
    BY <1>3 DEF OfList
  <2>5. QED
    BY <1>3, <2>1, <2>3, <2>4 DEF Reaches
<1>4. ASSUME NEW to, IsList(to), l.key \in Lists,
             Effect(conf, l) = conf \/ Effect(conf, l) = [conf EXCEPT ![l.key] = to]
      PROVE  /\ ProperConf(Effect(conf, l))
             /\ \A k \in Settings : ~Reaches(l, k) => Effect(conf, l)[k] = conf[k]
  <2>1. CASE Effect(conf, l) = conf
    BY <2>1
  <2>2. CASE Effect(conf, l) = [conf EXCEPT ![l.key] = to]
    <3> DEFINE c == [conf EXCEPT ![l.key] = to]
    <3>1. DOMAIN c = Settings /\ c[l.key] = to /\ \A k \in Settings : k # l.key => c[k] = conf[k]
      BY <1>2
    <3> HIDE DEF c
    <3>2. \A k \in Switches : k # l.key /\ k \in Settings
      BY <1>4 DEF Switches, Lists, Settings, Unnamed, OffByDefault
    <3>3. \A k \in Lists : k \in Settings
      BY DEF Settings, Unnamed
    <3>4. ProperConf(c)
      BY <1>4, <3>1, <3>2, <3>3 DEF ProperConf, Switches
    <3>5. QED
      BY <2>2, <3>1, <3>4 DEF Reaches, c
  <2>3. QED
    BY <1>4, <2>1, <2>2
<1>5. l.op # "set" => l.key \in Lists /\ IsList(conf[l.key])
  BY DEF IsLine, ProperConf
<1>6. CASE l.op = "add"
  <2>1. Effect(conf, l) = IF Contains(conf[l.key], l.value) THEN conf
                          ELSE [conf EXCEPT ![l.key] = Append(@, l.value)]
    BY <1>6 DEF Effect
  <2>2. Contains(conf[l.key], l.value) <=> l.value \in ToSet(conf[l.key])
    BY <1>5, <1>6, ListIs, SMTT(30) DEF Contains
  <2>3. /\ IsList(Append(conf[l.key], l.value))
        /\ ToSet(Append(conf[l.key], l.value)) = ToSet(conf[l.key]) \cup {l.value}
    BY <1>5, <1>6, AppendIsList
  <2>4. CASE l.value \in ToSet(conf[l.key])
    <3>1. Effect(conf, l) = conf
      BY <2>1, <2>2, <2>4
    <3>2. ToSet(conf[l.key]) = ToSet(conf[l.key]) \cup {l.value}
      BY <2>4
    <3>3. OfList(l, conf[l.key], Effect(conf, l)[l.key])
      BY <1>6, <2>4, <3>1, <3>2 DEF OfList
    <3>4. QED
      BY <1>6, <3>1, <3>3
  <2>5. CASE l.value \notin ToSet(conf[l.key])
    <3>1. Effect(conf, l) = [conf EXCEPT ![l.key] = Append(conf[l.key], l.value)]
      BY <2>1, <2>2, <2>5
    <3>2. Effect(conf, l)[l.key] = Append(conf[l.key], l.value)
      BY <1>2, <3>1
    <3>3. OfList(l, conf[l.key], Effect(conf, l)[l.key])
      BY <1>6, <2>3, <3>2 DEF OfList
    <3>4. QED
      BY <1>4, <1>5, <1>6, <2>3, <3>1, <3>3
  <2>6. QED
    BY <2>4, <2>5
<1>7. CASE l.op = "remove"
  <2>1. Effect(conf, l) = [conf EXCEPT ![l.key] = Without(conf[l.key], <<l.value>>)]
    BY <1>7 DEF Effect
  <2>2. /\ IsList(Without(conf[l.key], <<l.value>>))
        /\ ToSet(Without(conf[l.key], <<l.value>>)) = ToSet(conf[l.key]) \ {l.value}
    BY <1>5, <1>7, WithoutIs, OneIsList
  <2>3. Effect(conf, l)[l.key] = Without(conf[l.key], <<l.value>>)
    BY <1>2, <2>1
  <2>4. OfList(l, conf[l.key], Effect(conf, l)[l.key])
    BY <1>7, <2>2, <2>3 DEF OfList
  <2>5. QED
    BY <1>4, <1>5, <1>7, <2>1, <2>2, <2>4
<1>8. CASE l.op = "enter"
  <2> DEFINE to == conf[l.key] \o Without(l.value, conf[l.key])
  <2>1. Effect(conf, l) = [conf EXCEPT ![l.key] = to]
    BY <1>8 DEF Effect
  <2>2. IsList(to)
    <3>1. IsList(Without(l.value, conf[l.key]))
      BY <1>8, WithoutIs DEF IsLine
    <3>2. QED
      BY <1>5, <1>8, <3>1, JoinIsList
  <2> HIDE DEF to
  <2>3. Effect(conf, l)[l.key] = to
    BY <1>2, <2>1
  <2>4. OfList(l, conf[l.key], Effect(conf, l)[l.key])
    BY <1>8, <2>3 DEF OfList, to
  <2>5. QED
    BY <1>4, <1>5, <1>8, <2>1, <2>2, <2>4
<1>9. QED
  BY <1>1, <1>3, <1>6, <1>7, <1>8

-----------------------------------------------------------------------------
(* What lines do, and what they leave alone.                                 *)

LinesOf(r, lines) == IsList(lines) /\ \A i \in 1..Len(lines) : IsLine(r, lines[i])

\* The trace of After is made of proper configurations.
LEMMA TraceProper ==
  ASSUME NEW conf, ProperConf(conf), NEW r \in Resources, NEW lines, LinesOf(r, lines),
         NEW f, Trace(conf, lines, f)
  PROVE  \A n \in 0..Len(lines) : ProperConf(f[n])
<1> DEFINE S == {n \in 0..Len(lines) : ProperConf(f[n])}
<1>1. IsList(lines) /\ Len(lines) \in Nat /\ \A i \in 1..Len(lines) : IsLine(r, lines[i])
  BY ListIs DEF LinesOf
<1>2. f[0] = conf /\ \A n \in 1..Len(lines) : f[n] = Effect(f[n - 1], lines[n])
  BY DEF Trace
<1>3. 0 \in S
  BY <1>1, <1>2
<1>4. ASSUME NEW k \in 0..(Len(lines) - 1), k \in S PROVE k + 1 \in S
  <2>1. k + 1 \in 1..Len(lines) /\ (k + 1) - 1 = k /\ k + 1 \in 0..Len(lines)
    BY <1>1
  <2>2. f[k + 1] = Effect(f[k], lines[k + 1]) /\ IsLine(r, lines[k + 1]) /\ ProperConf(f[k])
    BY <1>1, <1>2, <1>4, <2>1
  <2>3. ProperConf(f[k + 1])
    BY <2>2, EffectIs
  <2>4. QED
    BY <2>1, <2>3
<1> HIDE DEF S
<1>5. \A k \in 0..Len(lines) : k \in S
  BY <1>1, <1>3, <1>4, AllUpTo
<1>6. QED
  BY <1>5 DEF S

\* Lines leave a proper configuration.
LEMMA AfterProper ==
  ASSUME NEW conf, ProperConf(conf), NEW r \in Resources, NEW lines, LinesOf(r, lines)
  PROVE  ProperConf(After(conf, lines))
<1>1. IsList(lines)
  BY DEF LinesOf
<1>2. PICK f : Trace(conf, lines, f) /\ After(conf, lines) = f[Len(lines)]
  BY <1>1, AfterIs
<1>3. QED
  BY <1>1, <1>2, TraceProper, ListIs

\* What no line reaches stays.
LEMMA AfterFrame ==
  ASSUME NEW conf, ProperConf(conf), NEW r \in Resources, NEW lines, LinesOf(r, lines),
         NEW k \in Settings, \A i \in 1..Len(lines) : ~Reaches(lines[i], k)
  PROVE  After(conf, lines)[k] = conf[k]
<1>1. IsList(lines) /\ Len(lines) \in Nat /\ \A i \in 1..Len(lines) : IsLine(r, lines[i])
  BY ListIs DEF LinesOf
<1>2. PICK f : Trace(conf, lines, f) /\ After(conf, lines) = f[Len(lines)]
  BY <1>1, AfterIs
<1> DEFINE S == {n \in 0..Len(lines) : f[n][k] = conf[k]}
<1>3. f[0] = conf /\ \A n \in 1..Len(lines) : f[n] = Effect(f[n - 1], lines[n])
  BY <1>2 DEF Trace
<1>4. \A n \in 0..Len(lines) : ProperConf(f[n])
  BY <1>2, TraceProper
<1>5. 0 \in S
  BY <1>1, <1>3
<1>6. ASSUME NEW n \in 0..(Len(lines) - 1), n \in S PROVE n + 1 \in S
  <2>1. n + 1 \in 1..Len(lines) /\ (n + 1) - 1 = n /\ n + 1 \in 0..Len(lines) /\ n \in 0..Len(lines)
    BY <1>1
  <2>2. f[n + 1] = Effect(f[n], lines[n + 1]) /\ IsLine(r, lines[n + 1]) /\ ProperConf(f[n])
        /\ ~Reaches(lines[n + 1], k)
    BY <1>1, <1>3, <1>4, <2>1
  <2>3. f[n + 1][k] = f[n][k]
    BY <2>2, EffectIs
  <2>4. QED
    BY <1>6, <2>1, <2>3
<1> HIDE DEF S
<1>7. \A n \in 0..Len(lines) : n \in S
  BY <1>1, <1>5, <1>6, AllUpTo
<1>8. Len(lines) \in S
  BY <1>1, <1>7
<1>9. QED
  BY <1>2, <1>8 DEF S

\* The lines of a resource leave the settings of the others alone.
LEMMA AfterApart ==
  ASSUME NEW conf, ProperConf(conf), NEW r \in Resources, NEW lines, LinesOf(r, lines),
         NEW k \in Settings, k \notin Keys[r]
  PROVE  After(conf, lines)[k] = conf[k]
<1>1. \A i \in 1..Len(lines) : ~Reaches(lines[i], k)
  BY ReachedIsOwn DEF LinesOf, IsLine
<1>2. QED
  BY <1>1, AfterFrame

LEMMA AfterNone == ASSUME NEW conf PROVE After(conf, <<>>) = conf
<1>1. IsList(<<>>) /\ Len(<<>>) = 0
  BY EmptyIsList
<1>2. QED
  BY <1>1, AfterIs DEF Trace

LEMMA AfterOne == ASSUME NEW conf, NEW l PROVE After(conf, <<l>>) = Effect(conf, l)
<1>1. IsList(<<l>>) /\ Len(<<l>>) = 1 /\ <<l>>[1] = l
  BY OneIsList
<1>2. PICK f : Trace(conf, <<l>>, f) /\ After(conf, <<l>>) = f[1]
  BY <1>1, AfterIs
<1>3. f[0] = conf /\ f[1] = Effect(f[1 - 1], <<l>>[1])
  BY <1>1, <1>2 DEF Trace
<1>4. QED
  BY <1>1, <1>2, <1>3

\* Lines that follow others.
LEMMA AfterJoin ==
  ASSUME NEW conf, NEW s, IsList(s), NEW t, IsList(t)
  PROVE  After(conf, s \o t) = After(After(conf, s), t)
<1> DEFINE both == s \o t
           mid == After(conf, s)
<1>1. /\ IsList(both) /\ Len(both) = Len(s) + Len(t) /\ Len(s) \in Nat /\ Len(t) \in Nat
      /\ \A i \in 1..(Len(s) + Len(t)) : both[i] = IF i <= Len(s) THEN s[i] ELSE t[i - Len(s)]
  BY JoinIsList, ListIs
<1> HIDE DEF both, mid
<1>2. PICK f : Trace(conf, s, f) /\ mid = f[Len(s)]
  BY AfterIs DEF mid
<1>3. PICK g : Trace(mid, t, g) /\ After(mid, t) = g[Len(t)]
  BY AfterIs
<1>4. PICK h : Trace(conf, both, h) /\ After(conf, both) = h[Len(both)]
  BY <1>1, AfterIs
<1>5. /\ f[0] = conf /\ \A n \in 1..Len(s) : f[n] = Effect(f[n - 1], s[n])
      /\ g[0] = mid /\ \A n \in 1..Len(t) : g[n] = Effect(g[n - 1], t[n])
      /\ h[0] = conf /\ \A n \in 1..Len(both) : h[n] = Effect(h[n - 1], both[n])
  BY <1>2, <1>3, <1>4 DEF Trace
<1> DEFINE S == {n \in 0..Len(s) : h[n] = f[n]}
<1>6. 0 \in S
  BY <1>1, <1>5
<1>7. ASSUME NEW n \in 0..(Len(s) - 1), n \in S PROVE n + 1 \in S
  <2>1. /\ n + 1 \in 1..Len(s) /\ (n + 1) - 1 = n /\ n + 1 \in 0..Len(s) /\ n + 1 \in 1..Len(both)
        /\ n + 1 \in 1..(Len(s) + Len(t)) /\ n + 1 <= Len(s)
    BY <1>1
  <2>2. both[n + 1] = s[n + 1]
    BY <1>1, <2>1
  <2>3. h[n + 1] = Effect(h[n], s[n + 1]) /\ f[n + 1] = Effect(f[n], s[n + 1])
    BY <1>5, <2>1, <2>2
  <2>4. QED
    BY <1>7, <2>1, <2>3
<1> HIDE DEF S
<1>8. \A n \in 0..Len(s) : n \in S
  BY <1>1, <1>6, <1>7, AllUpTo
<1>9. h[Len(s)] = mid
  <2>1. Len(s) \in S
    BY <1>1, <1>8
  <2>2. QED
    BY <1>2, <2>1 DEF S
<1> DEFINE U == {n \in 0..Len(t) : h[Len(s) + n] = g[n]}
<1>10. 0 \in U
  BY <1>1, <1>5, <1>9
<1>11. ASSUME NEW n \in 0..(Len(t) - 1), n \in U PROVE n + 1 \in U
  <2> DEFINE m == Len(s) + (n + 1)
  <2>1. /\ n + 1 \in 1..Len(t) /\ (n + 1) - 1 = n /\ n + 1 \in 0..Len(t) /\ m \in 1..Len(both)
        /\ m \in 1..(Len(s) + Len(t)) /\ ~(m <= Len(s)) /\ m - Len(s) = n + 1 /\ m - 1 = Len(s) + n
    BY <1>1
  <2>2. both[m] = t[n + 1]
    BY <1>1, <2>1
  <2>3. h[m] = Effect(h[Len(s) + n], t[n + 1]) /\ g[n + 1] = Effect(g[n], t[n + 1])
    BY <1>5, <2>1, <2>2
  <2>4. QED
    BY <1>11, <2>1, <2>3
<1> HIDE DEF U
<1>12. \A n \in 0..Len(t) : n \in U
  BY <1>1, <1>10, <1>11, AllUpTo
<1>13. Len(t) \in U
  BY <1>1, <1>12
<1>14. h[Len(s) + Len(t)] = g[Len(t)]
  BY <1>13 DEF U
<1>15. QED
  BY <1>1, <1>3, <1>4, <1>14 DEF both, mid

-----------------------------------------------------------------------------
(* The lines of the resources.                                               *)

\* Lists of lines of a resource, made of shorter ones.
LEMMA LinesNone == ASSUME NEW r PROVE LinesOf(r, <<>>)
BY EmptyIsList DEF LinesOf

LEMMA LinesOne == ASSUME NEW r, NEW l, IsLine(r, l) PROVE LinesOf(r, <<l>>)
BY OneIsList DEF LinesOf

LEMMA LinesJoin ==
  ASSUME NEW r, NEW s, LinesOf(r, s), NEW t, LinesOf(r, t)
  PROVE  LinesOf(r, s \o t)
<1>1. IsList(s) /\ IsList(t) /\ Len(s) \in Nat /\ Len(t) \in Nat
  BY ListIs DEF LinesOf
<1>2. /\ IsList(s \o t) /\ Len(s \o t) = Len(s) + Len(t)
      /\ \A i \in 1..(Len(s) + Len(t)) : (s \o t)[i] = IF i <= Len(s) THEN s[i] ELSE t[i - Len(s)]
  BY <1>1, JoinIsList
<1>3. ASSUME NEW i \in 1..(Len(s) + Len(t)) PROVE IsLine(r, (s \o t)[i])
  <2>1. CASE i <= Len(s)
    <3>1. i \in 1..Len(s) /\ (s \o t)[i] = s[i]
      BY <1>1, <1>2, <2>1
    <3>2. QED
      BY <3>1 DEF LinesOf
  <2>2. CASE ~(i <= Len(s))
    <3>1. i - Len(s) \in 1..Len(t) /\ (s \o t)[i] = t[i - Len(s)]
      BY <1>1, <1>2, <2>2
    <3>2. QED
      BY <3>1 DEF LinesOf
  <2>3. QED
    BY <2>1, <2>2
<1>4. QED
  BY <1>2, <1>3 DEF LinesOf

\* A line that sets a setting.
Sets(r, key, value) == key \in Keys[r] /\ key \notin Lists
                         /\ (key \in Switches => value \in BOOLEAN)

LEMMA LineSets ==
  ASSUME NEW r, NEW key, NEW value, Sets(r, key, value)
  PROVE  IsLine(r, Line("set", key, value)) /\ LinesOf(r, <<Line("set", key, value)>>)
<1>1. IsLine(r, Line("set", key, value))
  BY DEF Sets, IsLine, Line
<1>2. QED
  BY <1>1, LinesOne

\* What the helpers that compare a plan with what is recorded send.
LEMMA ChangeLines ==
  ASSUME NEW r, NEW key, NEW to, NEW old, Sets(r, key, to[key])
  PROVE  LinesOf(r, Change(key, to, old))
BY LineSets, LinesNone DEF Change

LEMMA SwapLines ==
  ASSUME NEW r, NEW key, NEW to, NEW old, key \in Keys[r], key \notin Lists, key \notin Switches
  PROVE  LinesOf(r, Swap(key, to, old))
<1> DEFINE first == IF old[key] = None THEN <<>> ELSE <<Line("set", key, None)>>
           second == IF to[key] = None THEN <<>> ELSE <<Line("set", key, to[key])>>
<1>1. LinesOf(r, first) /\ LinesOf(r, second)
  BY LineSets, LinesNone DEF Sets
<1>2. Swap(key, to, old) = IF to[key] = old[key] THEN <<>> ELSE first \o second
  BY DEF Swap
<1> HIDE DEF first, second
<1>3. QED
  BY <1>1, <1>2, LinesJoin, LinesNone

LEMMA ForEachLines ==
  ASSUME NEW r, NEW op \in {"add", "remove"}, NEW key \in Keys[r] \cap Lists, NEW s, IsList(s)
  PROVE  LinesOf(r, ForEach(op, key, s))
<1>1. Len(s) \in Nat /\ IsList(ForEach(op, key, s)) /\ Len(ForEach(op, key, s)) = Len(s)
      /\ \A i \in 1..Len(s) : ForEach(op, key, s)[i] = Line(op, key, s[i])
  BY ForEachIs, ListIs
<1>2. key \notin Switches
  BY DEF Lists, Switches
<1>3. \A e : IsLine(r, Line(op, key, e))
  BY <1>2 DEF IsLine, Line
<1>4. QED
  BY <1>1, <1>3 DEF LinesOf

\* The line that enters a list at once, if there is anything to enter.
Entering(key, s) == IF s = <<>> THEN <<>> ELSE <<Line("enter", key, s)>>

LEMMA EnteringLines ==
  ASSUME NEW r, NEW key \in Keys[r] \cap Lists, NEW s, IsList(s)
  PROVE  LinesOf(r, Entering(key, s))
<1>1. key \notin Switches
  BY DEF Lists, Switches
<1>2. IsLine(r, Line("enter", key, s))
  BY <1>1 DEF IsLine, Line
<1>3. QED
  BY <1>2, LinesOne, LinesNone DEF Entering

LEMMA ListLines ==
  ASSUME NEW r, NEW key \in Keys[r] \cap Lists, NEW to, NEW old, IsList(to[key]), IsList(old[key])
  PROVE  LinesOf(r, ChangeList(key, to, old)) /\ LinesOf(r, ReplaceList(key, to, old))
<1>1. IsList(Without(old[key], to[key])) /\ IsList(Without(to[key], old[key]))
  BY WithoutIs
<1>2. /\ LinesOf(r, ForEach("remove", key, Without(old[key], to[key])))
      /\ LinesOf(r, ForEach("add", key, Without(to[key], old[key])))
      /\ LinesOf(r, ForEach("remove", key, old[key]))
  BY <1>1, ForEachLines
<1>3. LinesOf(r, Entering(key, to[key]))
  BY EnteringLines
<1>4. ReplaceList(key, to, old) = IF to[key] = old[key] THEN <<>>
                                  ELSE ForEach("remove", key, old[key]) \o Entering(key, to[key])
  BY DEF ReplaceList, Entering
<1>5. QED
  BY <1>2, <1>3, <1>4, LinesJoin, LinesNone DEF ChangeList

-----------------------------------------------------------------------------
(* The calls of the resources.                                               *)

Kinds == {"config", "hostname", "risky", "save"}

\* What an operation has still to call: a hostname only first and alone, a risky
\* batch only where there is an address to move, and a save at the end.
CallsOf(r, c) ==
  /\ IsList(c) /\ Len(c) <= 3
  /\ \A i \in 1..Len(c) :
       /\ c[i].kind \in Kinds /\ LinesOf(r, c[i].lines)
       /\ c[i].kind = "hostname" => r = "system" /\ i = 1 /\ Len(c[i].lines) = 1
       /\ c[i].kind = "risky" => r = "management_ip"
  /\ c # <<>> => c[Len(c)].kind \in {"save", "risky"}

\* Lists of calls, made of lists of lines.
LEMMA CallsNone == ASSUME NEW r PROVE CallsOf(r, <<>>)
BY EmptyIsList DEF CallsOf

\* Ordinary lists of lines.
Lined(r, c) ==
  IsList(c) /\ \A i \in 1..Len(c) : c[i].kind = "config" /\ LinesOf(r, c[i].lines)

LEMMA ConfigIs ==
  ASSUME NEW r, NEW lines, LinesOf(r, lines)
  PROVE  Lined(r, Config(lines)) /\ Len(Config(lines)) <= 1
<1>1. CASE lines = <<>>
  BY <1>1, EmptyIsList DEF Config, Lined
<1>2. CASE lines # <<>>
  <2> DEFINE call == Call("config", lines)
  <2>1. call.kind = "config" /\ call.lines = lines
    BY DEF Call
  <2>2. Config(lines) = <<call>>
    BY <1>2 DEF Config
  <2> HIDE DEF call
  <2>3. QED
    BY <2>1, <2>2, OneIsList DEF Lined
<1>3. QED
  BY <1>1, <1>2

\* Lists of lines, and a call that saves.
LEMMA CallsThen ==
  ASSUME NEW r, NEW c, Lined(r, c), Len(c) <= 2, NEW last,
         last.kind = "save" \/ (last.kind = "risky" /\ r = "management_ip"), LinesOf(r, last.lines)
  PROVE  CallsOf(r, c \o <<last>>)
<1> DEFINE d == c \o <<last>>
<1>1. IsList(c) /\ Len(c) \in Nat
  BY ListIs DEF Lined
<1>2. IsList(<<last>>) /\ Len(<<last>>) = 1 /\ <<last>>[1] = last
  BY OneIsList
<1>3. /\ IsList(d) /\ Len(d) = Len(c) + 1
      /\ \A i \in 1..(Len(c) + 1) : d[i] = IF i <= Len(c) THEN c[i] ELSE <<last>>[i - Len(c)]
  BY <1>1, <1>2, JoinIsList
<1> HIDE DEF d
<1>4. \A i \in 1..Len(c) : d[i] = c[i]
  BY <1>1, <1>3
<1>5. d[Len(c) + 1] = last
  BY <1>1, <1>2, <1>3
<1>6. \A i \in 1..Len(d) : i \in 1..Len(c) \/ i = Len(c) + 1
  BY <1>1, <1>3
<1>7. CallsOf(r, d)
  BY <1>1, <1>3, <1>4, <1>5, <1>6 DEF CallsOf, Lined, Kinds
<1>8. QED
  BY <1>7 DEF d

LEMMA SavingIs == \E last : Saving = <<last>> /\ last.kind = "save" /\ last.lines = <<>>
<1>1. Saving = <<Call("save", <<>>)>>
  BY DEF Saving
<1>2. Call("save", <<>>).kind = "save" /\ Call("save", <<>>).lines = <<>>
  BY DEF Call
<1>3. QED
  BY <1>1, <1>2, Zenon

LEMMA CallsSaved ==
  ASSUME NEW r, NEW c, Lined(r, c), Len(c) <= 2
  PROVE  CallsOf(r, c \o Saving)
BY SavingIs, CallsThen, LinesNone

LEMMA ConfigAndSaveCalls ==
  ASSUME NEW r, NEW lines, LinesOf(r, lines)
  PROVE  CallsOf(r, ConfigAndSave(lines))
<1>1. Lined(r, Config(lines)) /\ Len(Config(lines)) <= 2
  <2>1. Lined(r, Config(lines)) /\ Len(Config(lines)) <= 1 /\ Len(Config(lines)) \in Nat
    BY ConfigIs, ListIs DEF Lined
  <2>2. QED
    BY <2>1
<1>2. QED
  BY <1>1, CallsSaved, CallsNone DEF ConfigAndSave

-----------------------------------------------------------------------------
(* What is known of a resource, and its operations.                          *)

\* The attributes of each resource.
LEMMA AttributesOfEach ==
  /\ Attributes["system"] = {"hostname", "telnet_server", "optical_monitor", "keep"}
  /\ Attributes["management_ip"] = {"address", "gateway", "dns", "allow", "keep"}
  /\ Attributes["ntp"] = {"timezone", "servers", "serve"}
  /\ Attributes["logging"] = {"hosts", "facility"}
  /\ Attributes["snmp"] = {"communities", "contact"}
  /\ Attributes["aaa"] = {"login", "console"}
  /\ Attributes["interface_ve"] = {"ve_address", "ve_lines"}
  /\ Attributes["vlan"]
     = {"vlan_name", "router_interface", "spanning_tree", "stp_priority", "vlan_lines"}
  /\ Attributes["user"] = {"username", "password"}
  /\ Attributes["poe"] = {"power"}
  /\ Attributes["raw_config"] = {"lines", "destroy", "expect"}
BY DEF Attributes

\* An account is not called as an attribute is.
LEMMA AccountsApart ==
  ASSUME NEW r \in Resources, NEW a \in Attributes[r], NEW k \in Accounts
  PROVE  a # k
BY SettingLinesAssumption

LEMMA ProperIsPresent ==
  ASSUME NEW r \in Resources, NEW w, Proper(r, w)
  PROVE  w # Absent
<1>1. DOMAIN w = Attributes[r]
  BY DEF Proper
<1>2. DOMAIN Absent = {"absent"}
  BY DEF Absent
<1>3. Attributes[r] # {"absent"}
  BY ResourceNames, AttributesOfEach
<1>4. QED
  BY <1>1, <1>2, <1>3

LEMMA ProperLists ==
  ASSUME NEW r \in Resources, NEW w, Proper(r, w), NEW a \in Attributes[r],
         a \in Lists \cup {"destroy"}
  PROVE  IsList(w[a])
BY DEF Proper

\* The attributes that are not settings.
LEMMA NoSettings ==
  ASSUME NEW r \in Resources, NEW a \in Attributes[r], a \notin Unnamed
  PROVE  a \notin Settings
BY AccountsApart DEF Settings

\* What Delete compares with, and what Read, and ModifyPlan, make of a state.
LEMMA DefaultsProper ==
  ASSUME NEW r \in Resources, NEW w, Proper(r, w), r \notin {"user"}
  PROVE  Proper(r, Defaults(w))
<1> DEFINE d == Defaults(w)
<1>1. DOMAIN w = Attributes[r]
  BY DEF Proper
<1>2. DOMAIN d = Attributes[r] /\ \A a \in Attributes[r] : d[a] \in {Default(a), w[a]}
  BY <1>1 DEF Defaults
<1>3. \A a \in (Lists \cup {"destroy"}) \cap Attributes[r] : IsList(d[a])
  <2> TAKE a \in (Lists \cup {"destroy"}) \cap Attributes[r]
  <2>1. IsList(w[a])
    BY ProperLists
  <2>2. CASE a \in Lists
    BY <1>2, <2>1, <2>2, DefaultIs, EmptyIsList
  <2>3. CASE a = "destroy"
    <3>1. a \notin Settings
      BY <2>3, NoSettings DEF Unnamed, Lists, OnByDefault, OffByDefault, Named
    <3>2. d[a] = w[a]
      BY <1>1, <3>1 DEF Defaults
    <3>3. QED
      BY <2>1, <3>2
  <2>4. QED
    BY <2>2, <2>3
<1>4. r = "vlan" => d.spanning_tree \in BOOLEAN
  <2>1. r = "vlan" => d["spanning_tree"] \in {FALSE, w["spanning_tree"]}
        /\ w.spanning_tree \in BOOLEAN
    BY <1>2, DefaultIs, AttributesOfEach DEF Switches, Proper
  <2>2. QED
    BY <2>1
<1>5. r = "management_ip" => d.allow \in BOOLEAN
  <2>1. SUFFICES ASSUME r = "management_ip" PROVE d.allow \in BOOLEAN
    OBVIOUS
  <2>2. "allow" \in Attributes[r] /\ w.allow \in BOOLEAN
    BY <2>1, AttributesOfEach DEF Proper
  <2>3. "allow" \notin Settings
    BY <2>2, NoSettings DEF Unnamed, Lists, OnByDefault, OffByDefault, Named
  <2>4. d["allow"] = w["allow"]
    BY <1>1, <2>2, <2>3 DEF Defaults
  <2>5. QED
    BY <2>2, <2>4
<1> HIDE DEF d
<1>6. QED
  BY <1>2, <1>3, <1>4, <1>5 DEF Proper, d

\* Records that take some of their attributes from a configuration, or from
\* another record.
LEMMA ReadAsProper ==
  ASSUME NEW r \in Resources, r # "user", NEW w, Proper(r, w), NEW conf, ProperConf(conf),
         NEW keys \in SUBSET Unnamed
  PROVE  Proper(r, ReadAs(w, keys, conf))
<1> DEFINE d == ReadAs(w, keys, conf)
<1>1. DOMAIN w = Attributes[r]
  BY DEF Proper
<1>2. DOMAIN d = Attributes[r]
      /\ \A a \in Attributes[r] : d[a] = IF a \in keys THEN conf[a] ELSE w[a]
  BY <1>1 DEF ReadAs
<1>3. \A a \in (Lists \cup {"destroy"}) \cap Attributes[r] : IsList(d[a])
  <2> TAKE a \in (Lists \cup {"destroy"}) \cap Attributes[r]
  <2>1. IsList(w[a])
    BY ProperLists
  <2>2. a \in keys => a \in Lists
    BY DEF Unnamed, OnByDefault, OffByDefault, Named
  <2>3. a \in keys => IsList(conf[a])
    BY <2>2 DEF ProperConf
  <2>4. QED
    BY <1>2, <2>1, <2>3
<1>4. r = "vlan" => d["spanning_tree"] \in BOOLEAN
  BY <1>2, AttributesOfEach DEF ProperConf, Proper
<1>5. r = "management_ip" => d["allow"] \in BOOLEAN
  <2>1. "allow" \notin Unnamed
    BY DEF Unnamed, Lists, OnByDefault, OffByDefault, Named
  <2>2. QED
    BY <1>2, <2>1, AttributesOfEach DEF Proper
<1> HIDE DEF d
<1>6. QED
  BY <1>2, <1>3, <1>4, <1>5 DEF Proper, d

LEMMA ReadBackProper ==
  ASSUME NEW r \in Resources, NEW w, Proper(r, w), NEW conf, ProperConf(conf)
  PROVE  ReadBack(r, w, conf) = Absent \/ Proper(r, ReadBack(r, w, conf))
<1> DEFINE read == {"hostname", "telnet_server", "optical_monitor", "address", "gateway", "dns",
                    "timezone", "servers", "serve", "hosts", "facility", "contact", "communities",
                    "login", "console", "ve_address", "vlan_name", "router_interface",
                    "spanning_tree", "stp_priority"}
<1>1. read \subseteq Unnamed
  BY DEF Unnamed, Lists, OnByDefault, OffByDefault, Named
<1>2. r # "user" => \A keys \in SUBSET read : Proper(r, ReadAs(w, keys, conf))
  BY <1>1, ReadAsProper
<1>3. CASE r \in {"user", "poe", "raw_config"}
  BY <1>3 DEF ReadBack, UserRead, PoERead, RawRead
<1>4. CASE r \in {"system", "management_ip", "ntp", "logging"}
  BY <1>2, <1>4 DEF ReadBack, SystemRead, ManagementRead, NTPRead, LoggingRead
<1>5. CASE r \in {"snmp", "aaa", "interface_ve", "vlan"}
  BY <1>2, <1>5 DEF ReadBack, SNMPRead, AAARead, VERead, VLANRead
<1>6. QED
  BY <1>3, <1>4, <1>5, ResourceNames

\* A plan, with what it leaves out taken from the state or the switch.
LEMMA KeepingProper ==
  ASSUME NEW r \in Resources, NEW w, ProperPlan(r, w), NEW conf, ProperConf(conf), NEW old,
         old = Absent \/ Proper(r, old)
  PROVE  Proper(r, Keeping(w, old, conf))
<1> DEFINE d == Keeping(w, old, conf)
<1>1. Proper(r, w) /\ DOMAIN w = Attributes[r]
  BY DEF ProperPlan, Proper
<1>2. CASE "keep" \notin Attributes[r]
  BY <1>1, <1>2 DEF Keeping
<1>3. CASE "keep" \in Attributes[r]
  <2>1. r \in {"system", "management_ip"}
    BY <1>3, ResourceNames, AttributesOfEach
  <2>2. /\ w.keep \subseteq {"hostname", "gateway", "dns"}
        /\ r = "system" => w.keep \subseteq {"hostname"}
    BY <2>1 DEF ProperPlan
  <2>3. DOMAIN d = Attributes[r]
        /\ \A a \in Attributes[r] :
             d[a] = IF a \notin w.keep THEN w[a] ELSE IF old = Absent THEN conf[a] ELSE old[a]
    BY <1>1, <1>3 DEF Keeping
  <2>4. \A a \in (Lists \cup {"destroy"}) \cap Attributes[r] : IsList(d[a])
    <3> TAKE a \in (Lists \cup {"destroy"}) \cap Attributes[r]
    <3>1. IsList(w[a]) /\ (old # Absent => IsList(old[a]))
      BY <1>1, ProperLists
    <3>2. a \in Lists => IsList(conf[a])
      BY DEF ProperConf
    <3>3. a = "destroy" => a \notin w.keep
      BY <2>2
    <3>4. QED
      BY <2>3, <3>1, <3>2, <3>3
  <2>5. r = "management_ip" => d["allow"] \in BOOLEAN
    <3>1. "allow" \notin w.keep
      BY <2>2
    <3>2. QED
      BY <1>1, <2>3, <3>1, AttributesOfEach DEF Proper
  <2> HIDE DEF d
  <2>6. QED
    BY <2>1, <2>3, <2>4, <2>5 DEF Proper, d
<1>4. QED
  BY <1>2, <1>3

LEMMA OnDeviceProper ==
  ASSUME NEW w, Proper("management_ip", w), NEW conf, ProperConf(conf)
  PROVE  /\ Proper("management_ip", OnDevice(w, conf))
         /\ OnDevice(w, conf).address = conf["address"]
         /\ OnDevice(w, conf).gateway = conf["gateway"] /\ OnDevice(w, conf).dns = conf["dns"]
         /\ OnDevice(w, conf).allow = w.allow
<1> DEFINE d == OnDevice(w, conf)
<1>1. DOMAIN w = {"address", "gateway", "dns", "allow", "keep"} /\ w.allow \in BOOLEAN
  BY AttributesOfEach DEF Proper
<1>2. DOMAIN d = DOMAIN w /\ d.address = conf["address"] /\ d.gateway = conf["gateway"]
      /\ d.dns = conf["dns"] /\ d.allow = w.allow
  BY <1>1 DEF OnDevice
<1>3. IsList(conf["dns"])
  BY DEF ProperConf, Lists
<1>4. \A a \in (Lists \cup {"destroy"}) \cap DOMAIN d : a = "dns"
  BY <1>1, <1>2 DEF Lists
<1> HIDE DEF d
<1>5. QED
  BY <1>1, <1>2, <1>3, <1>4, AttributesOfEach DEF Proper, d

-----------------------------------------------------------------------------
(* The calls of each operation.                                              *)

\* The lines icx_system sends, its hostname in a call of its own.
LEMMA SystemCalls ==
  ASSUME NEW to, Proper("system", to), NEW old, Proper("system", old),
         NEW name, name = <<>> \/ name = Change("hostname", to, old)
  PROVE  CallsOf("system", ApplyCommands(name, SystemLines(to, old)))
<1> DEFINE lines == SystemLines(to, old)
           first == IF name = <<>> THEN <<>> ELSE <<Call("hostname", name)>>
           rest == Config(lines) \o Saving
<1>1. \A key \in {"hostname", "telnet_server", "optical_monitor"} :
        Sets("system", key, to[key])
  BY KeysOfEach DEF Sets, Lists, Switches
<1>2. LinesOf("system", lines)
  BY <1>1, ChangeLines, LinesJoin DEF SystemLines
<1>3. Lined("system", Config(lines)) /\ Len(Config(lines)) <= 1 /\ Len(Config(lines)) \in Nat
  BY <1>2, ConfigIs, ListIs DEF Lined
<1>4. CallsOf("system", rest)
  BY <1>3, CallsSaved
<1>5. Len(rest) <= 2 /\ Len(rest) \in Nat /\ rest # <<>> /\ IsList(rest)
  <2>1. IsList(Config(lines)) /\ IsList(Saving) /\ Len(Saving) = 1
    BY <1>3, SavingIs, OneIsList DEF Lined
  <2>2. IsList(rest) /\ Len(rest) = Len(Config(lines)) + 1
    BY <2>1, JoinIsList
  <2>3. rest # <<>>
    BY <1>3, <2>2
  <2>4. QED
    BY <1>3, <2>2, <2>3
<1>6. \A i \in 1..Len(rest) : rest[i].kind # "hostname"
  <2>1. IsList(Config(lines)) /\ IsList(Saving) /\ Len(Saving) = 1 /\ Saving[1].kind = "save"
    BY <1>3, SavingIs, OneIsList DEF Lined
  <2>2. Len(rest) = Len(Config(lines)) + 1
        /\ \A i \in 1..(Len(Config(lines)) + 1) :
             rest[i] = IF i <= Len(Config(lines)) THEN Config(lines)[i]
             ELSE Saving[i - Len(Config(lines))]
    BY <2>1, JoinIsList
  <2>3. \A i \in 1..(Len(Config(lines)) + 1) : i \in 1..Len(Config(lines))
        \/ i - Len(Config(lines)) = 1
    BY <1>3
  <2>4. QED
    BY <1>3, <2>1, <2>2, <2>3 DEF Lined
<1>7. CASE name = <<>> /\ lines = <<>>
  <2>1. ApplyCommands(name, lines) = (<<>> \o <<>>) \o <<>>
    BY <1>7, OneIsList DEF ApplyCommands, Config
  <2>2. QED
    BY <2>1, CallsNone
<1>8. CASE name = <<>> /\ lines # <<>>
  <2>1. name \o lines # <<>>
    <3>1. IsList(lines) /\ name \o lines = lines
      BY <1>2, <1>8, ListIs DEF LinesOf
    <3>2. QED
      BY <1>8, <3>1
  <2>2. ApplyCommands(name, lines) = (<<>> \o Config(lines)) \o Saving
    BY <1>8, <2>1 DEF ApplyCommands
  <2>3. <<>> \o Config(lines) = Config(lines)
    BY <1>3, ListIs DEF Lined
  <2>4. QED
    BY <1>4, <2>2, <2>3
<1>9. CASE name # <<>>
  <2> DEFINE call == Call("hostname", name)
             all == <<call>> \o rest
  <2>1. LinesOf("system", name) /\ Len(name) = 1
    <3>1. name = Change("hostname", to, old)
      BY <1>9
    <3>2. name = <<Line("set", "hostname", to["hostname"])>>
      BY <1>9, <3>1 DEF Change
    <3>3. QED
      BY <1>1, <3>2, LineSets, OneIsList
  <2>2. call.kind = "hostname" /\ call.lines = name
    BY DEF Call
  <2>3. name \o lines # <<>>
    <3>1. Len(name \o lines) = 1 + Len(lines) /\ Len(lines) \in Nat
      <4>1. IsList(name) /\ IsList(lines)
        BY <1>2, <2>1 DEF LinesOf
      <4>2. Len(name \o lines) = Len(name) + Len(lines)
        BY <4>1, JoinIsList
      <4>3. Len(lines) \in Nat
        BY <4>1, ListIs
      <4>4. QED
        BY <2>1, <4>2, <4>3
    <3>2. QED
      BY <3>1
  <2>4. ApplyCommands(name, lines) = (<<call>> \o Config(lines)) \o Saving
    BY <1>9, <2>3 DEF ApplyCommands
  <2>5. (<<call>> \o Config(lines)) \o Saving = all
    <3>1. IsList(<<call>>) /\ IsList(Config(lines)) /\ IsList(Saving)
      BY <1>3, SavingIs, OneIsList DEF Lined
    <3> DEFINE T == ToSet(<<call>>) \cup ToSet(Config(lines)) \cup ToSet(Saving)
    <3>2. <<call>> \in Seq(T) /\ Config(lines) \in Seq(T) /\ Saving \in Seq(T)
      BY <3>1 DEF IsList
    <3> HIDE DEF T, call
    <3>3. QED
      BY <3>2
  <2>6. /\ IsList(all) /\ Len(all) = 1 + Len(rest)
        /\ \A i \in 1..(1 + Len(rest)) : all[i] = IF i <= 1 THEN <<call>>[i] ELSE rest[i - 1]
    BY <1>5, OneIsList, JoinIsList
  <2>7. <<call>>[1] = call
    BY OneIsList
  <2> HIDE DEF call, all, rest
  <2>8. all[1] = call
    BY <1>5, <2>6, <2>7
  <2>9. \A i \in 2..Len(all) : i - 1 \in 1..Len(rest) /\ all[i] = rest[i - 1]
    BY <1>5, <2>6
  <2>10. Len(all) \in Nat /\ Len(all) >= 2 /\ Len(all) <= 3 /\ Len(all) - 1 = Len(rest)
         /\ Len(rest) >= 1
    <3>1. Len(rest) # 0
      BY <1>5, ListIs
    <3>2. QED
      BY <1>5, <2>6, <3>1
  <2>11. \A i \in 1..Len(all) : i = 1 \/ i \in 2..Len(all)
    BY <2>10
  <2>12. all[Len(all)].kind \in {"save", "risky"}
    BY <1>4, <1>5, <2>9, <2>10 DEF CallsOf
  <2>13. \A i \in 2..Len(all) : /\ all[i].kind \in Kinds \ {"hostname"}
         /\ LinesOf("system", all[i].lines)
                                /\ all[i].kind # "risky"
    <3>1. \A j \in 1..Len(rest) : /\ rest[j].kind \in Kinds /\ LinesOf("system", rest[j].lines)
                                  /\ rest[j].kind # "risky"
      BY <1>4 DEF CallsOf
    <3>2. QED
      BY <1>6, <2>9, <3>1
  <2>14. CallsOf("system", all)
    BY <2>1, <2>2, <2>6, <2>8, <2>10, <2>11, <2>12, <2>13 DEF CallsOf, Kinds
  <2>15. QED
    BY <2>4, <2>5, <2>14
<1>10. QED
  BY <1>7, <1>8, <1>9

\* The batch of icx_management_ip, and its calls.
LEMMA RiskyLines ==
  ASSUME NEW to, NEW old
  PROVE  LinesOf("management_ip", Risky(to, old))
<1>1. \A key \in {"address", "gateway"} : Sets("management_ip", key, to[key])
  BY KeysOfEach DEF Sets, Lists, Switches
<1>2. QED
  BY <1>1, ChangeLines, LinesJoin, LinesNone DEF Risky

LEMMA ManagementCallsOf ==
  ASSUME NEW to, Proper("management_ip", to), NEW old, Proper("management_ip", old)
  PROVE  CallsOf("management_ip", ManagementCalls(to, old))
<1> DEFINE dns == ReplaceList("dns", to, old)
           risky == Risky(to, old)
           batch == Call("risky", risky)
<1>1. LinesOf("management_ip", dns)
  <2>1. IsList(to["dns"]) /\ IsList(old["dns"])
    BY ProperLists, ResourceNames, AttributesOfEach DEF Lists
  <2>2. "dns" \in Keys["management_ip"] \cap Lists
    BY KeysOfEach DEF Lists
  <2>3. QED
    BY <2>1, <2>2, ListLines
<1>2. LinesOf("management_ip", risky)
  BY RiskyLines
<1>3. batch.kind = "risky" /\ batch.lines = risky
  BY DEF Call
<1>4. Lined("management_ip", Config(dns)) /\ Len(Config(dns)) <= 2
  <2>1. Lined("management_ip", Config(dns)) /\ Len(Config(dns)) <= 1 /\ Len(Config(dns)) \in Nat
    BY <1>1, ConfigIs, ListIs DEF Lined
  <2>2. QED
    BY <2>1
<1>5. CallsOf("management_ip", ConfigAndSave(dns))
  BY <1>1, ConfigAndSaveCalls
<1>6. CallsOf("management_ip", Config(dns) \o <<batch>>)
  BY <1>2, <1>3, <1>4, CallsThen
<1>7. QED
  BY <1>5, <1>6 DEF ManagementCalls

\* The lines of the others.
LEMMA PlainLines ==
  ASSUME NEW to, NEW old
  PROVE  /\ LinesOf("aaa", Change("login", to, old)) /\ LinesOf("aaa", Change("console", to, old))
         /\ LinesOf("poe", Change("power", to, old)) /\ LinesOf("snmp", Change("contact", to, old))
         /\ LinesOf("ntp", Change("timezone", to, old)) /\ LinesOf("ntp", Change("serve", to, old))
         /\ LinesOf("logging", Change("facility", to, old))
         /\ LinesOf("vlan", Change("stp_priority", to, old))
         /\ LinesOf("vlan", Swap("router_interface", to, old))
         /\ LinesOf("interface_ve", Swap("ve_address", to, old))
<1>1. \A value : /\ Sets("aaa", "login", value) /\ Sets("aaa", "console", value)
                 /\ Sets("poe", "power", value) /\ Sets("snmp", "contact", value)
                 /\ Sets("ntp", "timezone", value) /\ Sets("ntp", "serve", value)
                 /\ Sets("logging", "facility", value) /\ Sets("vlan", "stp_priority", value)
                 /\ Sets("vlan", "router_interface", value)
                 /\ Sets("interface_ve", "ve_address", value)
  BY KeysOfEach DEF Sets, Lists, Switches
<1>2. /\ LinesOf("aaa", Change("login", to, old)) /\ LinesOf("aaa", Change("console", to, old))
      /\ LinesOf("poe", Change("power", to, old)) /\ LinesOf("snmp", Change("contact", to, old))
      /\ LinesOf("ntp", Change("timezone", to, old)) /\ LinesOf("ntp", Change("serve", to, old))
      /\ LinesOf("logging", Change("facility", to, old))
      /\ LinesOf("vlan", Change("stp_priority", to, old))
  BY <1>1, ChangeLines
<1>3. /\ "router_interface" \in Keys["vlan"] /\ "router_interface" \notin Lists \cup Switches
      /\ "ve_address" \in Keys["interface_ve"] /\ "ve_address" \notin Lists \cup Switches
  BY KeysOfEach DEF Lists, Switches
<1>4. /\ LinesOf("vlan", Swap("router_interface", to, old))
      /\ LinesOf("interface_ve", Swap("ve_address", to, old))
  BY <1>3, SwapLines
<1>5. QED
  BY <1>2, <1>4

LEMMA FlatLines ==
  ASSUME NEW r \in {"ntp", "logging", "snmp", "aaa", "interface_ve", "vlan"},
         NEW to, Proper(r, to), NEW old, Proper(r, old)
  PROVE  /\ r = "ntp" => LinesOf(r, NTPLines(to, old))
         /\ r = "logging" => LinesOf(r, LoggingLines(to, old))
         /\ r = "snmp" => /\ LinesOf(r, ChangeList("communities", to, old))
                          /\ LinesOf(r, ForEach("add", "communities", to.communities))
                          /\ LinesOf(r, ForEach("remove", "communities", old.communities))
         /\ r = "interface_ve" => LinesOf(r, VELines(to, old))
         /\ r = "vlan" => LinesOf(r, VLANLines(to, old))
<1>1. CASE r = "ntp"
  <2>1. "servers" \in Keys[r] \cap Lists /\ IsList(to["servers"]) /\ IsList(old["servers"])
    BY <1>1, KeysOfEach, ProperLists, ResourceNames, AttributesOfEach DEF Lists
  <2>2. LinesOf(r, ChangeList("servers", to, old))
    BY <2>1, ListLines
  <2>3. QED
    BY <1>1, <2>2, PlainLines, LinesJoin DEF NTPLines
<1>2. CASE r = "logging"
  <2>1. "hosts" \in Keys[r] \cap Lists /\ IsList(to["hosts"]) /\ IsList(old["hosts"])
    BY <1>2, KeysOfEach, ProperLists, ResourceNames, AttributesOfEach DEF Lists
  <2>2. LinesOf(r, ChangeList("hosts", to, old))
    BY <2>1, ListLines
  <2>3. QED
    BY <1>2, <2>2, PlainLines, LinesJoin DEF LoggingLines
<1>3. CASE r = "snmp"
  <2>1. "communities" \in Keys[r] \cap Lists /\ IsList(to["communities"])
        /\ IsList(old["communities"])
    BY <1>3, KeysOfEach, ProperLists, ResourceNames, AttributesOfEach DEF Lists
  <2>2. QED
    BY <1>3, <2>1, ListLines, ForEachLines
<1>4. CASE r = "aaa"
  BY <1>4
<1>5. CASE r = "interface_ve"
  <2>1. "ve_lines" \in Keys[r] \cap Lists /\ IsList(to["ve_lines"]) /\ IsList(old["ve_lines"])
    BY <1>5, KeysOfEach, ProperLists, ResourceNames, AttributesOfEach DEF Lists
  <2>2. LinesOf(r, ChangeList("ve_lines", to, old))
    BY <2>1, ListLines
  <2>3. Sets(r, "ve", TRUE)
    BY <1>5, KeysOfEach DEF Sets, Lists
  <2>4. LinesOf(r, <<Line("set", "ve", TRUE)>>)
    BY <2>3, LineSets
  <2>5. QED
    BY <1>5, <2>2, <2>4, PlainLines, LinesJoin DEF VELines
<1>6. CASE r = "vlan"
  <2>1. "vlan_lines" \in Keys[r] \cap Lists /\ IsList(to["vlan_lines"]) /\ IsList(old["vlan_lines"])
    BY <1>6, KeysOfEach, ProperLists, ResourceNames, AttributesOfEach DEF Lists
  <2>2. LinesOf(r, ChangeList("vlan_lines", to, old))
    BY <2>1, ListLines
  <2>3. Sets(r, "vlan", TRUE) /\ Sets(r, "vlan_name", to.vlan_name)
        /\ Sets(r, "spanning_tree", to["spanning_tree"])
    BY <1>6, KeysOfEach DEF Sets, Lists, Switches, Proper
  <2>4. LinesOf(r, <<Header(to)>>)
    BY <2>3, LineSets DEF Header
  <2>5. LinesOf(r, Change("spanning_tree", to, old))
    BY <2>3, ChangeLines
  <2>6. LinesOf(r, PriorityLines(to, old))
    BY <1>6, PlainLines, LinesNone DEF PriorityLines
  <2>7. QED
    BY <1>6, <2>2, <2>4, <2>5, <2>6, PlainLines, LinesJoin DEF VLANLines
<1>7. QED
  BY <1>1, <1>2, <1>3, <1>4, <1>5, <1>6

LEMMA UserLines ==
  ASSUME NEW k \in Accounts, NEW value
  PROVE  LinesOf("user", <<Line("set", k, value)>>)
<1>1. k \notin Unnamed
  BY Accountless
<1>2. Sets("user", k, value)
  BY <1>1, KeysOfEach DEF Sets, Unnamed, Switches, OffByDefault
<1>3. QED
  BY <1>2, LineSets

LEMMA RawLines ==
  ASSUME NEW w, Proper("raw_config", w)
  PROVE  LinesOf("raw_config", Destroying(w))
         /\ LinesOf("raw_config", ForEach("add", "lines", w.lines))
<1>1. IsList(w["lines"]) /\ IsList(w["destroy"])
  BY ProperLists, ResourceNames, AttributesOfEach DEF Lists
<1>2. "lines" \in Keys["raw_config"] \cap Lists
  BY KeysOfEach DEF Lists
<1>3. \A s : IsList(s) => /\ LinesOf("raw_config", ForEach("remove", "lines", s))
                          /\ LinesOf("raw_config", ForEach("add", "lines", s))
  BY <1>2, ForEachLines
<1>4. QED
  BY <1>1, <1>3 DEF Destroying

\* What the operations of a resource call is theirs to call.
LEMMA UpdateCalls ==
  ASSUME NEW r \in Resources, NEW to, Proper(r, to), NEW old, Proper(r, old)
  PROVE  CallsOf(r, Update(r, to, old))
<1>1. CASE r = "system"
  BY <1>1, SystemCalls DEF Update, SystemUpdate
<1>2. CASE r = "management_ip"
  BY <1>2, ManagementCallsOf DEF Update, ManagementUpdate
<1>3. CASE r \in {"ntp", "logging", "snmp"}
  <2>1. /\ Update("ntp", to, old) = ConfigAndSave(NTPLines(to, old))
        /\ Update("logging", to, old) = ConfigAndSave(LoggingLines(to, old))
        /\ Update("snmp", to, old) =
             ConfigAndSave(ChangeList("communities", to, old) \o Change("contact", to, old))
    BY DEF Update, NTPUpdate, LoggingUpdate, SNMPUpdate
  <2>2. QED
    BY <1>3, <2>1, FlatLines, PlainLines, LinesJoin, ConfigAndSaveCalls
<1>4. CASE r = "aaa"
  <2> DEFINE login == Change("login", to, old)
             console == Change("console", to, old)
             a == IF to.login = None THEN login ELSE <<>>
             b == IF to.console THEN <<>> ELSE console
             c == IF to.login = None THEN <<>> ELSE login
             d == IF to.console THEN console ELSE <<>>
  <2>1. LinesOf(r, a) /\ LinesOf(r, b) /\ LinesOf(r, c) /\ LinesOf(r, d)
    BY <1>4, PlainLines, LinesNone
  <2>2. Update(r, to, old) = ConfigAndSave(a \o b \o c \o d)
    BY <1>4 DEF Update, AAAUpdate
  <2> HIDE DEF a, b, c, d
  <2>3. QED
    BY <2>1, <2>2, LinesJoin, ConfigAndSaveCalls
<1>5. CASE r \in {"interface_ve", "vlan"}
  <2>1. /\ Update("interface_ve", to, old) = ConfigAndSave(VELines(to, old))
        /\ Update("vlan", to, old) = ConfigAndSave(VLANLines(to, old))
    BY DEF Update, VEUpdate, VLANUpdate
  <2>2. QED
    BY <1>5, <2>1, FlatLines, ConfigAndSaveCalls
<1>6. CASE r = "user"
  <2> DEFINE a == IF old.username = to.username THEN <<>> ELSE <<Line("set", old.username, None)>>
             b == <<Line("set", to.username, to.password)>>
  <2>1. to.username \in Accounts /\ old.username \in Accounts
    BY <1>6 DEF Proper
  <2>2. LinesOf(r, a) /\ LinesOf(r, b)
    BY <1>6, <2>1, UserLines, LinesNone
  <2>3. Update(r, to, old) = ConfigAndSave(a \o b)
    BY <1>6 DEF Update, UserUpdate
  <2> HIDE DEF a, b
  <2>4. QED
    BY <2>2, <2>3, LinesJoin, ConfigAndSaveCalls
<1>7. CASE r = "poe"
  <2>1. Update(r, to, old) = ConfigAndSave(Change("power", to, old))
    BY <1>7 DEF Update, PoEUpdate
  <2>2. QED
    BY <1>7, <2>1, PlainLines, ConfigAndSaveCalls
<1>8. CASE r = "raw_config"
  <2> DEFINE a == Config(Destroying(old))
             b == Config(ForEach("add", "lines", to.lines))
  <2>1. Lined(r, a) /\ Len(a) <= 1 /\ Lined(r, b) /\ Len(b) <= 1
    BY <1>8, RawLines, ConfigIs
  <2>2. Update(r, to, old) = (a \o b) \o Saving
    BY <1>8 DEF Update, RawUpdate
  <2> HIDE DEF a, b
  <2>3. /\ IsList(a) /\ IsList(b) /\ Len(a) \in Nat /\ Len(b) \in Nat
    BY <2>1, ListIs DEF Lined
  <2>4. /\ IsList(a \o b) /\ Len(a \o b) = Len(a) + Len(b)
        /\ \A i \in 1..(Len(a) + Len(b)) : (a \o b)[i] = IF i <= Len(a) THEN a[i] ELSE b[i - Len(a)]
    BY <2>3, JoinIsList
  <2>5. \A i \in 1..(Len(a) + Len(b)) :
          i \in 1..Len(a) \/ (~(i <= Len(a)) /\ i - Len(a) \in 1..Len(b))
    BY <2>3
  <2>6. Lined(r, a \o b) /\ Len(a \o b) <= 2
    <3>1. \A i \in 1..(Len(a) + Len(b)) :
            (a \o b)[i].kind = "config" /\ LinesOf(r, (a \o b)[i].lines)
      BY <2>1, <2>3, <2>4, <2>5 DEF Lined
    <3>2. QED
      BY <2>1, <2>3, <2>4, <3>1 DEF Lined
  <2>7. QED
    BY <2>2, <2>6, CallsSaved
<1>9. QED
  BY <1>1, <1>2, <1>3, <1>4, <1>5, <1>6, <1>7, <1>8, ResourceNames

LEMMA CreateCalls ==
  ASSUME NEW r \in Resources, NEW w, Proper(r, w), NEW conf, ProperConf(conf)
  PROVE  CallsOf(r, Create(r, w, conf))
<1>1. r \notin {"user"} => Proper(r, Defaults(w))
  BY DefaultsProper
<1>2. CASE r = "system"
  BY <1>1, <1>2, SystemCalls DEF Create, SystemCreate
<1>3. CASE r = "management_ip"
  BY <1>3, ManagementCallsOf, OnDeviceProper DEF Create, ManagementCreate
<1>4. CASE r \in {"ntp", "logging", "interface_ve", "vlan"}
  <2>1. /\ Create("ntp", w, conf) = ConfigAndSave(NTPLines(w, Defaults(w)))
        /\ Create("logging", w, conf) = ConfigAndSave(LoggingLines(w, Defaults(w)))
        /\ Create("interface_ve", w, conf) = ConfigAndSave(VELines(w, Defaults(w)))
        /\ Create("vlan", w, conf) = ConfigAndSave(VLANLines(w, Defaults(w)))
    BY DEF Create, NTPCreate, LoggingCreate, VECreate, VLANCreate, VLANCreateLines
  <2>2. QED
    BY <1>1, <1>4, <2>1, FlatLines, ConfigAndSaveCalls
<1>5. CASE r = "snmp"
  <2>1. Create(r, w, conf) = ConfigAndSave(ForEach("add", "communities", w.communities)
                                             \o Change("contact", w, Defaults(w)))
    BY <1>5 DEF Create, SNMPCreate
  <2>2. QED
    BY <1>1, <1>5, <2>1, FlatLines, PlainLines, LinesJoin, ConfigAndSaveCalls
<1>6. CASE r = "aaa"
  <2>1. Create(r, w, conf)
        = ConfigAndSave(Change("login", w, Defaults(w)) \o Change("console", w, Defaults(w)))
    BY <1>6 DEF Create, AAACreate, AAALines
  <2>2. QED
    BY <1>6, <2>1, PlainLines, LinesJoin, ConfigAndSaveCalls
<1>7. CASE r = "user"
  <2>1. Create(r, w, conf) = ConfigAndSave(<<Line("set", w.username, w.password)>>)
    BY <1>7 DEF Create, UserCreate
  <2>2. w.username \in Accounts
    BY <1>7 DEF Proper
  <2>3. QED
    BY <1>7, <2>1, <2>2, UserLines, ConfigAndSaveCalls
<1>8. CASE r = "poe"
  <2>1. Create(r, w, conf) = ConfigAndSave(<<Line("set", "power", w.power)>>)
    BY <1>8 DEF Create, PoECreate
  <2>2. Sets(r, "power", w.power)
    BY <1>8, KeysOfEach DEF Sets, Lists, Switches
  <2>3. QED
    BY <2>1, <2>2, LineSets, ConfigAndSaveCalls
<1>9. CASE r = "raw_config"
  <2>1. Create(r, w, conf) = ConfigAndSave(ForEach("add", "lines", w.lines))
    BY <1>9 DEF Create, RawCreate
  <2>2. QED
    BY <1>9, <2>1, RawLines, ConfigAndSaveCalls
<1>10. QED
  BY <1>2, <1>3, <1>4, <1>5, <1>6, <1>7, <1>8, <1>9, ResourceNames

LEMMA DeleteCalls ==
  ASSUME NEW r \in Resources, NEW old, Proper(r, old)
  PROVE  CallsOf(r, Delete(r, old))
<1>1. r \notin {"user"} => Proper(r, Defaults(old))
  BY DefaultsProper
<1>2. CASE r = "system"
  <2>1. \A key \in {"telnet_server", "optical_monitor"} : Sets("system", key, Defaults(old)[key])
    BY KeysOfEach DEF Sets, Lists, Switches
  <2>2. LinesOf("system", SystemLines(Defaults(old), old))
    BY <2>1, ChangeLines, LinesJoin DEF SystemLines
  <2>3. QED
    BY <1>2, <2>2, ConfigAndSaveCalls DEF Delete, SystemDelete
<1>3. CASE r = "management_ip"
  BY <1>3, CallsNone DEF Delete, ManagementDelete
<1>4. CASE r \in {"ntp", "logging", "snmp"}
  <2>1. /\ Delete("ntp", old) = ConfigAndSave(NTPLines(Defaults(old), old))
        /\ Delete("logging", old) = ConfigAndSave(LoggingLines(Defaults(old), old))
        /\ Delete("snmp", old) = ConfigAndSave(ForEach("remove", "communities", old.communities)
                                                 \o Change("contact", Defaults(old), old))
    BY DEF Delete, NTPDelete, LoggingDelete, SNMPDelete
  <2>2. QED
    BY <1>1, <1>4, <2>1, FlatLines, PlainLines, LinesJoin, ConfigAndSaveCalls
<1>5. CASE r = "aaa"
  <2>1. Delete(r, old) =
          ConfigAndSave(Change("login", Defaults(old), old)
                          \o Change("console", Defaults(old), old))
    BY <1>5 DEF Delete, AAADelete
  <2>2. QED
    BY <1>5, <2>1, PlainLines, LinesJoin, ConfigAndSaveCalls
<1>6. CASE r \in {"interface_ve", "vlan"}
  <2>1. /\ Delete("interface_ve", old) = ConfigAndSave(<<Line("set", "ve", FALSE)>>)
        /\ Delete("vlan", old) = ConfigAndSave(<<Line("set", "vlan", FALSE)>>)
    BY DEF Delete, VEDelete, VLANDelete
  <2>2. Sets("interface_ve", "ve", FALSE) /\ Sets("vlan", "vlan", FALSE)
    BY KeysOfEach DEF Sets, Lists
  <2>3. QED
    BY <1>6, <2>1, <2>2, LineSets, ConfigAndSaveCalls
<1>7. CASE r = "user"
  <2>1. Delete(r, old) = ConfigAndSave(<<Line("set", old.username, None)>>)
    BY <1>7 DEF Delete, UserDelete
  <2>2. old.username \in Accounts
    BY <1>7 DEF Proper
  <2>3. QED
    BY <1>7, <2>1, <2>2, UserLines, ConfigAndSaveCalls
<1>8. CASE r = "poe"
  <2> DEFINE lines == Change("power", Defaults(old), old)
             call == Call("config", lines)
  <2>1. call.kind = "config" /\ call.lines = lines
    BY DEF Call
  <2>2. LinesOf(r, lines)
    BY <1>8, PlainLines
  <2>3. Delete(r, old) = <<call>> \o Saving
    BY <1>8 DEF Delete, PoEDelete
  <2> HIDE DEF call, lines
  <2>4. Lined(r, <<call>>) /\ Len(<<call>>) <= 2
    BY <2>1, <2>2, OneIsList DEF Lined
  <2>5. QED
    BY <2>3, <2>4, CallsSaved
<1>9. CASE r = "raw_config"
  <2>1. Delete(r, old) = ConfigAndSave(Destroying(old))
    BY <1>9 DEF Delete, RawDelete
  <2>2. QED
    BY <1>9, <2>1, RawLines, ConfigAndSaveCalls
<1>10. QED
  BY <1>2, <1>3, <1>4, <1>5, <1>6, <1>7, <1>8, <1>9, ResourceNames

-----------------------------------------------------------------------------
(* What is run of a call.                                                    *)

\* The first lines of a list.
LEMMA FirstLines ==
  ASSUME NEW r, NEW lines, LinesOf(r, lines), NEW n \in 0..Len(lines)
  PROVE  /\ LinesOf(r, SubSeq(lines, 1, n)) /\ Len(SubSeq(lines, 1, n)) = n
         /\ \A i \in 1..n : SubSeq(lines, 1, n)[i] = lines[i]
<1> DEFINE s == SubSeq(lines, 1, n)
<1>1. lines \in Seq(ToSet(lines)) /\ Len(lines) \in Nat
  BY ListIs DEF LinesOf
<1>2. s \in Seq(ToSet(lines)) /\ Len(s) = n /\ \A i \in 1..n : s[i] = lines[i]
  BY <1>1
<1>3. IsList(s)
  BY <1>2, SeqIsList
<1> HIDE DEF s
<1>4. \A i \in 1..n : i \in 1..Len(lines)
  BY <1>1
<1>5. LinesOf(r, s)
  BY <1>2, <1>3, <1>4 DEF LinesOf
<1>6. QED
  BY <1>2, <1>5 DEF s

\* All but one of the lines of a list.
LEMMA OtherLines ==
  ASSUME NEW r, NEW lines, LinesOf(r, lines), NEW i \in 1..Len(lines)
  PROVE  LinesOf(r, RemoveAt(lines, i))
<1> DEFINE a == SubSeq(lines, 1, i - 1)
           b == SubSeq(lines, i + 1, Len(lines))
<1>1. lines \in Seq(ToSet(lines)) /\ Len(lines) \in Nat
  BY ListIs DEF LinesOf
<1>2. LinesOf(r, a)
  <2>1. i - 1 \in 0..Len(lines)
    BY <1>1
  <2>2. QED
    BY <2>1, FirstLines
<1>3. LinesOf(r, b)
  <2>1. b \in Seq(ToSet(lines)) /\ Len(b) = Len(lines) - i
        /\ \A j \in 1..(Len(lines) - i) : b[j] = lines[i + j]
    BY <1>1
  <2>2. \A j \in 1..(Len(lines) - i) : i + j \in 1..Len(lines)
    BY <1>1
  <2>3. IsList(b)
    BY <2>1, SeqIsList
  <2> HIDE DEF b
  <2>4. QED
    BY <2>1, <2>2, <2>3 DEF LinesOf
<1>4. QED
  BY <1>2, <1>3, LinesJoin DEF RemoveAt

\* The settings lines name.
LEMMA LinesTouch ==
  ASSUME NEW r \in Resources, NEW lines, LinesOf(r, lines)
  PROVE  {lines[i].key : i \in DOMAIN lines} \subseteq Keys[r]
<1>1. DOMAIN lines = 1..Len(lines)
  BY ListIs DEF LinesOf
<1>2. QED
  BY <1>1 DEF LinesOf, IsLine

\* None of these calls changes the hostname.
NoneRenames(c) == \A i \in 1..Len(c) : c[i].kind # "hostname"

\* The first of the calls that are left.
LEMMA FirstCall ==
  ASSUME NEW r, NEW c, CallsOf(r, c), c # <<>>
  PROVE  /\ Head(c) = c[1] /\ Head(c).kind \in Kinds /\ LinesOf(r, Head(c).lines)
         /\ Len(c) \in Nat /\ 1 \in 1..Len(c)
         /\ Head(c).kind = "hostname" => r = "system" /\ Len(Head(c).lines) = 1
         /\ Head(c).kind = "risky" => r = "management_ip"
         /\ CallsOf(r, Tail(c)) /\ Len(Tail(c)) = Len(c) - 1
         /\ NoneRenames(Tail(c))
         /\ Tail(c) = <<>> => Head(c).kind \in {"save", "risky"}
<1>1. c \in Seq(ToSet(c)) /\ Len(c) \in Nat
  BY ListIs DEF CallsOf
<1>2. Len(c) >= 1 /\ 1 \in 1..Len(c) /\ Head(c) = c[1]
  BY <1>1
<1> DEFINE t == Tail(c)
<1>3. /\ t \in Seq(ToSet(c)) /\ Len(t) = Len(c) - 1 /\ \A i \in 1..Len(t) : t[i] = c[i + 1]
      /\ t # <<>> => Len(t) # 0
  <2>1. t \in Seq(ToSet(c)) /\ Len(t) = Len(c) - 1
    BY <1>1, <1>2
  <2>2. \A i \in 1..Len(t) : t[i] = c[i + 1]
    BY <1>1, <1>2
  <2>3. t # <<>> => Len(t) # 0
    BY <2>1
  <2>4. QED
    BY <2>1, <2>2, <2>3
<1>4. IsList(t)
  BY <1>3, SeqIsList
<1> HIDE DEF t
<1>5. Len(t) \in Nat /\ \A i \in 1..Len(t) : i + 1 \in 1..Len(c) /\ i + 1 # 1
  BY <1>1, <1>2, <1>3
<1>6. t # <<>> => t[Len(t)] = c[Len(c)]
  BY <1>1, <1>3, <1>5
<1>7. \A i \in 1..Len(c) :
        /\ c[i].kind \in Kinds /\ LinesOf(r, c[i].lines)
        /\ c[i].kind = "hostname" => r = "system" /\ i = 1 /\ Len(c[i].lines) = 1
        /\ c[i].kind = "risky" => r = "management_ip"
  BY DEF CallsOf
<1>8. \A i \in 1..Len(t) : t[i].kind # "hostname"
  BY <1>3, <1>5, <1>7
<1>9. CallsOf(r, t)
  <2>1. Len(t) <= 3
    BY <1>1, <1>3 DEF CallsOf
  <2>2. \A i \in 1..Len(t) :
          /\ t[i].kind \in Kinds /\ LinesOf(r, t[i].lines)
          /\ t[i].kind = "risky" => r = "management_ip"
    BY <1>3, <1>5, <1>7
  <2>3. t # <<>> => t[Len(t)].kind \in {"save", "risky"}
    BY <1>6 DEF CallsOf
  <2>4. QED
    BY <1>4, <1>8, <2>1, <2>2, <2>3 DEF CallsOf
<1>10. t = <<>> => c[1].kind \in {"save", "risky"}
  <2>1. t = <<>> => Len(c) = 1
    BY <1>1, <1>3
  <2>2. QED
    BY <2>1 DEF CallsOf
<1>11. NoneRenames(t)
  BY <1>8 DEF NoneRenames
<1>12. QED
  BY <1>1, <1>2, <1>3, <1>7, <1>9, <1>10, <1>11 DEF t

-----------------------------------------------------------------------------
(* What lines come to.                                                       *)

Mentions(lines) == {lines[i].key : i \in DOMAIN lines}

\* Whatever the configuration, they leave the setting alone, or give it this value.
Leaves(lines, key) == \A conf : ProperConf(conf) => After(conf, lines)[key] = conf[key]
Settles(lines, key, value) == \A conf : ProperConf(conf) => After(conf, lines)[key] = value

\* They do one or the other, and the latter if they are about the setting.
Right(r, lines, key, value) ==
  /\ LinesOf(r, lines) /\ (Leaves(lines, key) \/ Settles(lines, key, value))
  /\ (key \in Mentions(lines) => Settles(lines, key, value))

Apart(other, key) == key # other /\ key \notin Within(other)
                     /\ ~(other = "vlan_name" /\ key = "vlan")

\* The settings that lines are about.
LEMMA MentionsIs ==
  ASSUME NEW s, IsList(s)
  PROVE  \A k : k \in Mentions(s) <=> \E i \in 1..Len(s) : s[i].key = k
<1>1. DOMAIN s = 1..Len(s)
  BY ListIs
<1>2. QED
  BY <1>1 DEF Mentions

LEMMA MentionsNone == Mentions(<<>>) = {}
<1>1. Len(<<>>) = 0 /\ IsList(<<>>)
  BY EmptyIsList
<1>2. QED
  BY <1>1, MentionsIs

LEMMA MentionsOne == ASSUME NEW l PROVE Mentions(<<l>>) = {l.key}
<1>1. Len(<<l>>) = 1 /\ IsList(<<l>>) /\ <<l>>[1] = l
  BY OneIsList
<1>2. QED
  BY <1>1, MentionsIs

LEMMA MentionsJoin ==
  ASSUME NEW s, IsList(s), NEW t, IsList(t)
  PROVE  Mentions(s \o t) = Mentions(s) \cup Mentions(t)
<1> DEFINE both == s \o t
<1>1. /\ IsList(both) /\ Len(both) = Len(s) + Len(t) /\ Len(s) \in Nat /\ Len(t) \in Nat
      /\ \A i \in 1..(Len(s) + Len(t)) : both[i] = IF i <= Len(s) THEN s[i] ELSE t[i - Len(s)]
  BY JoinIsList, ListIs
<1> HIDE DEF both
<1>2. ASSUME NEW k, k \in Mentions(both) PROVE k \in Mentions(s) \cup Mentions(t)
  <2>1. PICK i \in 1..(Len(s) + Len(t)) : both[i].key = k
    BY <1>1, <1>2, MentionsIs
  <2>2. CASE i <= Len(s)
    <3>1. i \in 1..Len(s) /\ s[i].key = k
      BY <1>1, <2>1, <2>2
    <3>2. QED
      BY <3>1, MentionsIs
  <2>3. CASE ~(i <= Len(s))
    <3>1. i - Len(s) \in 1..Len(t) /\ t[i - Len(s)].key = k
      BY <1>1, <2>1, <2>3
    <3>2. QED
      BY <3>1, MentionsIs
  <2>4. QED
    BY <2>2, <2>3
<1>3. ASSUME NEW k, k \in Mentions(s) PROVE k \in Mentions(both)
  <2>1. PICK i \in 1..Len(s) : s[i].key = k
    BY <1>3, MentionsIs
  <2>2. i \in 1..(Len(s) + Len(t)) /\ both[i].key = k
    BY <1>1, <2>1
  <2>3. QED
    BY <1>1, <2>2, MentionsIs
<1>4. ASSUME NEW k, k \in Mentions(t) PROVE k \in Mentions(both)
  <2>1. PICK i \in 1..Len(t) : t[i].key = k
    BY <1>4, MentionsIs
  <2>2. Len(s) + i \in 1..(Len(s) + Len(t)) /\ both[Len(s) + i].key = k
    BY <1>1, <2>1
  <2>3. QED
    BY <1>1, <2>2, MentionsIs
<1>5. QED
  BY <1>2, <1>3, <1>4 DEF both

\* Lines that are right about a setting, made of such lines.
LEMMA RightNone == ASSUME NEW r, NEW key, NEW value PROVE Right(r, <<>>, key, value)
BY LinesNone, MentionsNone, AfterNone DEF Right, Leaves

LEMMA RightApart ==
  ASSUME NEW r \in Resources, NEW lines, LinesOf(r, lines), NEW key \in Settings, NEW value,
         \A k \in Mentions(lines) : Apart(k, key)
  PROVE  Right(r, lines, key, value)
<1>1. IsList(lines)
  BY DEF LinesOf
<1>2. \A i \in 1..Len(lines) : lines[i].key \in Mentions(lines)
  BY <1>1, MentionsIs
<1>3. \A i \in 1..Len(lines) : ~Reaches(lines[i], key)
  BY <1>2 DEF Reaches, Apart
<1>4. Leaves(lines, key)
  BY <1>3, AfterFrame DEF Leaves
<1>5. key \notin Mentions(lines)
  BY DEF Apart
<1>6. QED
  BY <1>4, <1>5 DEF Right

LEMMA RightSets ==
  ASSUME NEW r \in Resources, NEW key, NEW value, Sets(r, key, value)
  PROVE  Right(r, <<Line("set", key, value)>>, key, value)
<1> DEFINE l == Line("set", key, value)
<1>1. l.op = "set" /\ l.key = key /\ l.value = value
  BY DEF Line
<1>2. IsLine(r, l) /\ LinesOf(r, <<l>>)
  BY LineSets
<1> HIDE DEF l
<1>3. \A conf : ProperConf(conf) => After(conf, <<l>>)[key] = value
  BY <1>1, <1>2, AfterOne, EffectIs
<1>4. QED
  BY <1>2, <1>3 DEF Right, Settles, l

LEMMA RightJoin ==
  ASSUME NEW r \in Resources, NEW key, NEW value, NEW s, Right(r, s, key, value),
         NEW t, Right(r, t, key, value)
  PROVE  Right(r, s \o t, key, value)
<1>1. LinesOf(r, s) /\ LinesOf(r, t) /\ IsList(s) /\ IsList(t)
  BY DEF Right, LinesOf
<1>2. LinesOf(r, s \o t) /\ Mentions(s \o t) = Mentions(s) \cup Mentions(t)
  BY <1>1, LinesJoin, MentionsJoin
<1>3. ASSUME NEW conf, ProperConf(conf)
      PROVE  After(conf, s \o t) = After(After(conf, s), t) /\ ProperConf(After(conf, s))
  BY <1>1, <1>3, AfterJoin, AfterProper
<1>4. Settles(t, key, value) => Settles(s \o t, key, value)
  BY <1>3 DEF Settles
<1>5. Settles(s, key, value) /\ Leaves(t, key) => Settles(s \o t, key, value)
  BY <1>3 DEF Settles, Leaves
<1>6. Leaves(s, key) /\ Leaves(t, key) => Leaves(s \o t, key)
  BY <1>3 DEF Leaves
<1>7. QED
  BY <1>2, <1>4, <1>5, <1>6 DEF Right

\* The change of a setting.
LEMMA RightChange ==
  ASSUME NEW r \in Resources, NEW k, NEW to, NEW old, Sets(r, k, to[k]), NEW key \in Settings,
         NEW value,
         IF key = k THEN value = to[k] ELSE Apart(k, key)
  PROVE  Right(r, Change(k, to, old), key, value)
<1> DEFINE l == Line("set", k, to[k])
<1>1. Right(r, <<l>>, k, to[k]) /\ LinesOf(r, <<l>>) /\ Mentions(<<l>>) = {k}
  <2>1. Right(r, <<l>>, k, to[k]) /\ LinesOf(r, <<l>>)
    BY RightSets, LineSets
  <2>2. Mentions(<<l>>) = {l.key} /\ l.key = k
    BY MentionsOne DEF Line
  <2>3. QED
    BY <2>1, <2>2
<1> HIDE DEF l
<1>2. Right(r, <<l>>, key, value)
  <2>1. CASE key = k
    BY <1>1, <2>1
  <2>2. CASE key # k
    BY <1>1, <2>2, RightApart
  <2>3. QED
    BY <2>1, <2>2
<1>3. QED
  BY <1>2, RightNone DEF Change, l

LEMMA RightSwap ==
  ASSUME NEW r \in Resources, NEW k \in Keys[r], k \notin Lists, k \notin Switches, NEW to, NEW old,
         NEW key \in Settings, NEW value, IF key = k THEN value = to[k] ELSE Apart(k, key)
  PROVE  Right(r, Swap(k, to, old), key, value)
<1> DEFINE none == <<Line("set", k, None)>>
           some == <<Line("set", k, to[k])>>
           first == IF old[k] = None THEN <<>> ELSE none
           second == IF to[k] = None THEN <<>> ELSE some
<1>1. \A v : Sets(r, k, v)
  BY DEF Sets
<1>2. /\ Right(r, none, k, None) /\ LinesOf(r, none) /\ Mentions(none) = {k}
      /\ Right(r, some, k, to[k]) /\ LinesOf(r, some) /\ Mentions(some) = {k}
  BY <1>1, RightSets, LineSets, MentionsOne DEF Line
<1>3. Swap(k, to, old) = IF to[k] = old[k] THEN <<>> ELSE first \o second
  BY DEF Swap
<1> HIDE DEF none, some
<1>4. CASE key # k
  <2>1. Right(r, none, key, value) /\ Right(r, some, key, value)
    BY <1>2, <1>4, RightApart
  <2>2. Right(r, first, key, value) /\ Right(r, second, key, value)
    BY <2>1, RightNone
  <2> HIDE DEF first, second
  <2>3. QED
    BY <1>3, <2>2, RightJoin, RightNone
<1>5. CASE key = k
  <2>1. CASE to[k] = old[k]
    BY <1>3, <2>1, RightNone
  <2>2. CASE to[k] # old[k] /\ to[k] = None
    <3>1. Right(r, none, key, value) /\ Right(r, <<>>, key, value)
      BY <1>2, <1>5, <2>2, RightNone
    <3>2. Swap(k, to, old) = none \o <<>>
      BY <1>3, <2>2
    <3>3. QED
      BY <3>1, <3>2, RightJoin
  <2>3. CASE to[k] # old[k] /\ to[k] # None
    <3>1. Right(r, some, key, value)
      BY <1>2, <1>5
    <3>2. Swap(k, to, old) = first \o some
      BY <1>3, <2>3
    <3>3. LinesOf(r, first) /\ Mentions(first) \subseteq {k}
      BY <1>2, LinesNone, MentionsNone
    <3> HIDE DEF first
    <3>4. IsList(first) /\ IsList(some) /\ LinesOf(r, first \o some)
      BY <1>2, <3>3, LinesJoin DEF LinesOf
    <3>5. Settles(some, key, value)
      BY <1>2, <1>5, <3>1 DEF Right
    <3>6. Settles(first \o some, key, value)
      BY <3>3, <3>4, <3>5, AfterJoin, AfterProper DEF Settles
    <3>7. QED
      BY <3>2, <3>4, <3>6 DEF Right
  <2>4. QED
    BY <2>1, <2>2, <2>3
<1>6. QED
  BY <1>4, <1>5

-----------------------------------------------------------------------------
(* What lines about a list come to.                                          *)

\* The trace of lines for each entry.
EntryTrace(op, key, s, conf, f) ==
  /\ f[0] = conf /\ After(conf, ForEach(op, key, s)) = f[Len(s)]
  /\ \A n \in 0..Len(s) : ProperConf(f[n]) /\ IsList(f[n][key])
  /\ \A n \in 1..Len(s) :
       /\ op = "add" => ToSet(f[n][key]) = ToSet(f[n - 1][key]) \cup {s[n]}
       /\ op = "remove" => ToSet(f[n][key]) = ToSet(f[n - 1][key]) \ {s[n]}

\* Lines that enter, or take away, the entries of a list one by one.
LEMMA ForEachTrace ==
  ASSUME NEW conf, ProperConf(conf), NEW r \in Resources, NEW key \in Keys[r] \cap Lists,
         NEW op \in {"add", "remove"}, NEW s, IsList(s)
  PROVE  \E f : EntryTrace(op, key, s, conf, f)
<1> DEFINE lines == ForEach(op, key, s)
<1>1. /\ IsList(lines) /\ Len(lines) = Len(s) /\ Len(s) \in Nat
      /\ \A i \in 1..Len(s) : lines[i] = Line(op, key, s[i])
  BY ForEachIs, ListIs, SMTT(30)
<1>2. LinesOf(r, lines)
  BY ForEachLines
<1> HIDE DEF lines
<1>3. PICK f : Trace(conf, lines, f) /\ After(conf, lines) = f[Len(lines)]
  BY <1>1, AfterIs
<1>4. \A n \in 0..Len(s) : ProperConf(f[n])
  BY <1>1, <1>2, <1>3, TraceProper
<1>5. f[0] = conf /\ \A n \in 1..Len(s) : f[n] = Effect(f[n - 1], lines[n])
  BY <1>1, <1>3 DEF Trace
<1>6. \A n \in 0..Len(s) : IsList(f[n][key])
  BY <1>4 DEF ProperConf
<1>7. ASSUME NEW n \in 1..Len(s)
      PROVE  /\ op = "add" => ToSet(f[n][key]) = ToSet(f[n - 1][key]) \cup {s[n]}
             /\ op = "remove" => ToSet(f[n][key]) = ToSet(f[n - 1][key]) \ {s[n]}
  <2> DEFINE l == lines[n]
             c == f[n - 1]
  <2>1. n - 1 \in 0..Len(s)
    BY <1>1
  <2>2. ProperConf(c) /\ IsLine(r, l) /\ l.op = op /\ l.key = key /\ l.value = s[n]
    <3>1. ProperConf(c)
      BY <1>4, <2>1
    <3>2. IsLine(r, l)
      BY <1>1, <1>2 DEF LinesOf
    <3>3. l = Line(op, key, s[n])
      BY <1>1
    <3> HIDE DEF l
    <3>4. l.op = op /\ l.key = key /\ l.value = s[n]
      BY <3>3 DEF Line
    <3>5. QED
      BY <3>1, <3>2, <3>4
  <2>3. f[n] = Effect(c, l)
    BY <1>5
  <2> HIDE DEF l, c
  <2>4. /\ l.op = "add" => ToSet(Effect(c, l)[l.key]) = ToSet(c[l.key]) \cup {l.value}
        /\ l.op = "remove" => ToSet(Effect(c, l)[l.key]) = ToSet(c[l.key]) \ {l.value}
    <3>1. OfList(l, c[l.key], Effect(c, l)[l.key])
      BY <2>2, EffectIs
    <3>2. QED
      BY <3>1 DEF OfList
  <2>5. QED
    BY <2>2, <2>3, <2>4 DEF c
<1>8. QED
  <2>1. EntryTrace(op, key, s, conf, f)
    BY <1>1, <1>3, <1>4, <1>5, <1>6, <1>7 DEF lines, EntryTrace
  <2>2. QED
    BY <2>1

LEMMA EntriesUpTo ==
  ASSUME NEW s, IsList(s)
  PROVE  /\ {s[i] : i \in 1..0} = {} /\ {s[i] : i \in 1..Len(s)} = ToSet(s)
         /\ \A n \in 0..(Len(s) - 1) : {s[i] : i \in 1..(n + 1)}
            = {s[i] : i \in 1..n} \cup {s[n + 1]}
<1>1. Len(s) \in Nat /\ DOMAIN s = 1..Len(s)
  BY ListIs
<1>2. ToSet(s) = {s[i] : i \in 1..Len(s)}
  BY <1>1 DEF ToSet
<1>3. {s[i] : i \in 1..0} = {}
  OBVIOUS
<1>4. ASSUME NEW n \in 0..(Len(s) - 1)
      PROVE  {s[i] : i \in 1..(n + 1)} = {s[i] : i \in 1..n} \cup {s[n + 1]}
  <2>1. \A i : i \in 1..(n + 1) <=> i \in 1..n \/ i = n + 1
    BY <1>1
  <2>2. QED
    BY <2>1
<1>5. QED
  BY <1>2, <1>3, <1>4

LEMMA AddsAll ==
  ASSUME NEW conf, ProperConf(conf), NEW r \in Resources, NEW key \in Keys[r] \cap Lists, NEW s,
         IsList(s)
  PROVE  ToSet(After(conf, ForEach("add", key, s))[key]) = ToSet(conf[key]) \cup ToSet(s)
<1>1. PICK f : EntryTrace("add", key, s, conf, f)
  BY ForEachTrace
<1>2. /\ f[0] = conf /\ After(conf, ForEach("add", key, s)) = f[Len(s)]
      /\ \A n \in 1..Len(s) : ToSet(f[n][key]) = ToSet(f[n - 1][key]) \cup {s[n]}
  BY <1>1 DEF EntryTrace
<1> DEFINE upTo(n) == {s[i] : i \in 1..n}
           S == {n \in 0..Len(s) : ToSet(f[n][key]) = ToSet(conf[key]) \cup upTo(n)}
<1>3. /\ Len(s) \in Nat /\ upTo(0) = {} /\ upTo(Len(s)) = ToSet(s)
      /\ \A n \in 0..(Len(s) - 1) : upTo(n + 1) = upTo(n) \cup {s[n + 1]}
  BY ListIs, EntriesUpTo, ZenonT(30)
<1> HIDE DEF upTo
<1>4. 0 \in S
  BY <1>2, <1>3
<1>5. ASSUME NEW n \in 0..(Len(s) - 1), n \in S PROVE n + 1 \in S
  <2>1. n + 1 \in 1..Len(s) /\ (n + 1) - 1 = n /\ n + 1 \in 0..Len(s)
    BY <1>3
  <2>2. ToSet(f[n + 1][key]) = ToSet(f[n][key]) \cup {s[n + 1]}
    BY <1>2, <2>1
  <2>3. QED
    BY <1>3, <1>5, <2>1, <2>2
<1> HIDE DEF S
<1>6. \A n \in 0..Len(s) : n \in S
  BY <1>3, <1>4, <1>5, AllUpTo
<1>7. Len(s) \in S
  BY <1>3, <1>6
<1>8. QED
  BY <1>2, <1>3, <1>7 DEF S

LEMMA RemovesAll ==
  ASSUME NEW conf, ProperConf(conf), NEW r \in Resources, NEW key \in Keys[r] \cap Lists, NEW s,
         IsList(s)
  PROVE  ToSet(After(conf, ForEach("remove", key, s))[key]) = ToSet(conf[key]) \ ToSet(s)
<1>1. PICK f : EntryTrace("remove", key, s, conf, f)
  BY ForEachTrace
<1>2. /\ f[0] = conf /\ After(conf, ForEach("remove", key, s)) = f[Len(s)]
      /\ \A n \in 1..Len(s) : ToSet(f[n][key]) = ToSet(f[n - 1][key]) \ {s[n]}
  BY <1>1 DEF EntryTrace
<1> DEFINE upTo(n) == {s[i] : i \in 1..n}
           S == {n \in 0..Len(s) : ToSet(f[n][key]) = ToSet(conf[key]) \ upTo(n)}
<1>3. /\ Len(s) \in Nat /\ upTo(0) = {} /\ upTo(Len(s)) = ToSet(s)
      /\ \A n \in 0..(Len(s) - 1) : upTo(n + 1) = upTo(n) \cup {s[n + 1]}
  BY ListIs, EntriesUpTo, ZenonT(30)
<1> HIDE DEF upTo
<1>4. 0 \in S
  BY <1>2, <1>3
<1>5. ASSUME NEW n \in 0..(Len(s) - 1), n \in S PROVE n + 1 \in S
  <2>1. n + 1 \in 1..Len(s) /\ (n + 1) - 1 = n /\ n + 1 \in 0..Len(s)
    BY <1>3
  <2>2. ToSet(f[n + 1][key]) = ToSet(f[n][key]) \ {s[n + 1]}
    BY <1>2, <2>1
  <2>3. QED
    BY <1>3, <1>5, <2>1, <2>2
<1> HIDE DEF S
<1>6. \A n \in 0..Len(s) : n \in S
  BY <1>3, <1>4, <1>5, AllUpTo
<1>7. Len(s) \in S
  BY <1>3, <1>6
<1>8. QED
  BY <1>2, <1>3, <1>7 DEF S

\* What a line that enters a list at once makes of an empty one.
LEMMA EntersAll ==
  ASSUME NEW conf, ProperConf(conf), NEW r \in Resources, NEW key \in Keys[r] \cap Lists, NEW s,
         IsList(s), conf[key] = <<>>
  PROVE  After(conf, Entering(key, s))[key] = s
<1>1. CASE s = <<>>
  BY <1>1, AfterNone DEF Entering
<1>2. CASE s # <<>>
  <2> DEFINE l == Line("enter", key, s)
  <2>1. l.op = "enter" /\ l.key = key /\ l.value = s
    BY DEF Line
  <2> HIDE DEF l
  <2>2. IsLine(r, l)
    <3>1. key \notin Switches
      BY DEF Lists, Switches
    <3>2. QED
      BY <2>1, <3>1 DEF IsLine
  <2>3. After(conf, <<l>>) = Effect(conf, l)
    BY <2>2, AfterOne
  <2>4. Effect(conf, l)[key] = <<>> \o Without(s, <<>>)
    <3>1. OfList(l, conf[l.key], Effect(conf, l)[l.key])
      BY <2>2, EffectIs
    <3>2. QED
      BY <2>1, <3>1 DEF OfList
  <2>5. Without(s, <<>>) = s /\ <<>> \o s = s
    BY EmptyIsList, WithoutIs, JoinNone
  <2>6. QED
    BY <1>2, <2>3, <2>4, <2>5 DEF Entering, l
<1>3. QED
  BY <1>1, <1>2

\* An update of a list brings what is new, and takes away only what is not wanted.
LEMMA ChangeCovers ==
  ASSUME NEW conf, ProperConf(conf), NEW r \in Resources, NEW key \in Keys[r] \cap Lists, NEW to,
         NEW old,
         IsList(to[key]), IsList(old[key]), ToSet(old[key]) \subseteq ToSet(conf[key])
  PROVE  ToSet(to[key]) \subseteq ToSet(After(conf, ChangeList(key, to, old))[key])
<1> DEFINE gone == Without(old[key], to[key])
           come == Without(to[key], old[key])
           a == ForEach("remove", key, gone)
           b == ForEach("add", key, come)
           mid == After(conf, a)
<1>1. /\ IsList(gone) /\ ToSet(gone) = ToSet(old[key]) \ ToSet(to[key])
      /\ IsList(come) /\ ToSet(come) = ToSet(to[key]) \ ToSet(old[key])
  BY WithoutIs
<1>2. ChangeList(key, to, old) = a \o b
  BY DEF ChangeList
<1> HIDE DEF gone, come
<1>3. LinesOf(r, a) /\ LinesOf(r, b)
  BY <1>1, ForEachLines
<1>4. ToSet(mid[key]) = ToSet(conf[key]) \ ToSet(gone)
  BY <1>1, RemovesAll
<1> HIDE DEF a
<1>5. ProperConf(mid)
  BY <1>3, AfterProper
<1> HIDE DEF mid
<1>6. ToSet(After(mid, b)[key]) = ToSet(mid[key]) \cup ToSet(come)
  BY <1>1, <1>5, AddsAll
<1> HIDE DEF b
<1>7. After(conf, a \o b) = After(mid, b)
  BY <1>3, AfterJoin DEF LinesOf, mid
<1>8. QED
  BY <1>1, <1>2, <1>4, <1>6, <1>7

\* Replacing a list that is known gives the new one, in its order.
LEMMA ReplaceExact ==
  ASSUME NEW conf, ProperConf(conf), NEW r \in Resources, NEW key \in Keys[r] \cap Lists, NEW to,
         NEW old,
         IsList(to[key]), IsList(old[key]), conf[key] = old[key]
  PROVE  After(conf, ReplaceList(key, to, old))[key] = to[key]
<1> DEFINE a == ForEach("remove", key, old[key])
           b == Entering(key, to[key])
           mid == After(conf, a)
<1>1. LinesOf(r, a) /\ LinesOf(r, b)
  BY ForEachLines, EnteringLines
<1>2. ToSet(mid[key]) = ToSet(conf[key]) \ ToSet(old[key])
  BY RemovesAll
<1> HIDE DEF a
<1>3. ProperConf(mid)
  BY <1>1, AfterProper
<1> HIDE DEF mid
<1>4. mid[key] = <<>>
  <2>1. IsList(mid[key]) /\ ToSet(mid[key]) = {}
    BY <1>2, <1>3 DEF ProperConf
  <2>2. mid[key] \in Seq({})
    BY <2>1 DEF IsList
  <2>3. QED
    BY <2>2
<1>5. After(mid, b)[key] = to[key]
  BY <1>3, <1>4, EntersAll
<1> HIDE DEF b
<1>6. After(conf, a \o b) = After(mid, b)
  BY <1>1, AfterJoin DEF LinesOf, mid
<1>7. ReplaceList(key, to, old) = IF to[key] = old[key] THEN <<>> ELSE a \o b
  BY DEF ReplaceList, Entering, a, b
<1>8. QED
  BY <1>5, <1>6, <1>7, AfterNone

-----------------------------------------------------------------------------
(* The lines of an operation, one call after the other.                      *)

LinesIn(c, i) == IF i <= Len(c) THEN c[i].lines ELSE <<>>
Flat(c) == LinesIn(c, 1) \o (LinesIn(c, 2) \o LinesIn(c, 3))

\* All the lines of the calls an operation makes.
LEMMA FlatIsLines ==
  ASSUME NEW r, NEW c, CallsOf(r, c)
  PROVE  LinesOf(r, Flat(c)) /\ IsList(Flat(c))
<1>1. Len(c) \in Nat
  BY ListIs DEF CallsOf
<1>2. \A i \in {1, 2, 3} : LinesOf(r, LinesIn(c, i))
  <2> TAKE i \in {1, 2, 3}
  <2>1. i <= Len(c) => i \in 1..Len(c)
    BY <1>1
  <2>2. QED
    BY <2>1, LinesNone DEF CallsOf, LinesIn
<1>3. LinesOf(r, LinesIn(c, 2) \o LinesIn(c, 3))
  BY <1>2, LinesJoin
<1>4. LinesOf(r, Flat(c))
  BY <1>2, <1>3, LinesJoin DEF Flat
<1>5. QED
  BY <1>4 DEF LinesOf

LEMMA FlatOf ==
  ASSUME NEW a, NEW b, NEW d
  PROVE  /\ Flat(<<>>) = <<>> \o (<<>> \o <<>>)
         /\ Flat(<<a>>) = a.lines \o (<<>> \o <<>>)
         /\ Flat(<<a, b>>) = a.lines \o (b.lines \o <<>>)
         /\ Flat(<<a, b, d>>) = a.lines \o (b.lines \o d.lines)
<1>1. /\ \A i \in {1, 2, 3} : LinesIn(<<>>, i) = <<>>
      /\ LinesIn(<<a>>, 1) = a.lines /\ LinesIn(<<a>>, 2) = <<>> /\ LinesIn(<<a>>, 3) = <<>>
      /\ LinesIn(<<a, b>>, 1) = a.lines /\ LinesIn(<<a, b>>, 2) = b.lines
      /\ LinesIn(<<a, b>>, 3) = <<>>
      /\ LinesIn(<<a, b, d>>, 1) = a.lines /\ LinesIn(<<a, b, d>>, 2) = b.lines
      /\ LinesIn(<<a, b, d>>, 3) = d.lines
  BY DEF LinesIn
<1>2. QED
  BY <1>1 DEF Flat

LEMMA FlatNone == Flat(<<>>) = <<>>
BY FlatOf, JoinNone, EmptyIsList

\* The first call, and then the others.
LEMMA FlatNext ==
  ASSUME NEW r, NEW c, CallsOf(r, c), c # <<>>
  PROVE  Flat(c) = Head(c).lines \o Flat(Tail(c))
<1> DEFINE t == Tail(c)
<1>1. c \in Seq(ToSet(c)) /\ Len(c) \in Nat /\ Len(c) <= 3
  BY ListIs DEF CallsOf
<1>2. /\ Head(c) = c[1] /\ Len(c) >= 1 /\ Len(t) = Len(c) - 1 /\ CallsOf(r, t)
  <2>1. Head(c) = c[1] /\ 1 \in 1..Len(c) /\ CallsOf(r, t) /\ Len(t) = Len(c) - 1
    BY FirstCall
  <2>2. QED
    BY <1>1, <2>1
<1>3. \A i \in 1..Len(t) : t[i] = c[i + 1]
  BY <1>1, <1>2
<1> HIDE DEF t
<1>4. LinesIn(c, 1) = Head(c).lines
  BY <1>2 DEF LinesIn
<1>5. LinesIn(t, 1) = LinesIn(c, 2) /\ LinesIn(t, 2) = LinesIn(c, 3) /\ LinesIn(t, 3) = <<>>
  <2>1. LinesIn(t, 1) = LinesIn(c, 2)
    BY <1>1, <1>2, <1>3 DEF LinesIn
  <2>2. LinesIn(t, 2) = LinesIn(c, 3)
    BY <1>1, <1>2, <1>3 DEF LinesIn
  <2>3. LinesIn(t, 3) = <<>>
    BY <1>1, <1>2 DEF LinesIn
  <2>4. QED
    BY <2>1, <2>2, <2>3
<1>6. LinesIn(c, 3) \o <<>> = LinesIn(c, 3)
  <2>1. 3 <= Len(c) => 3 \in 1..Len(c)
    BY <1>1
  <2>2. IsList(LinesIn(c, 3))
    BY <2>1, EmptyIsList DEF LinesIn, CallsOf, LinesOf
  <2>3. QED
    BY <2>2, JoinNone
<1>7. Flat(c) = Head(c).lines \o Flat(t)
  BY <1>4, <1>5, <1>6 DEF Flat
<1>8. QED
  BY <1>7 DEF t

LEMMA FlatSaved ==
  ASSUME NEW lines, IsList(lines)
  PROVE  Flat(ConfigAndSave(lines)) = lines
<1> DEFINE a == Call("config", lines)
           save == Call("save", <<>>)
<1>1. a.lines = lines /\ save.lines = <<>>
  BY DEF Call
<1>2. ConfigAndSave(lines) = IF lines = <<>> THEN <<>> ELSE <<a>> \o <<save>>
  BY DEF ConfigAndSave, Config, Saving
<1> HIDE DEF a, save
<1>3. <<a>> \o <<save>> = <<a, save>>
  BY ShortJoins, Zenon
<1>4. Flat(<<a, save>>) = lines \o (<<>> \o <<>>)
  BY <1>1, FlatOf
<1>5. <<>> \o <<>> = <<>> /\ lines \o <<>> = lines
  BY JoinNone, EmptyIsList
<1>6. QED
  BY <1>2, <1>3, <1>4, <1>5, FlatNone

LEMMA FlatApplied ==
  ASSUME NEW name, IsList(name), NEW lines, IsList(lines)
  PROVE  Flat(ApplyCommands(name, lines)) = name \o lines
<1> DEFINE h == Call("hostname", name)
           a == Call("config", lines)
           save == Call("save", <<>>)
<1>1. h.lines = name /\ a.lines = lines /\ save.lines = <<>>
  BY DEF Call
<1>2. /\ Config(lines) = IF lines = <<>> THEN <<>> ELSE <<a>>
      /\ Saving = <<save>>
  BY DEF Config, Saving
<1>3. ApplyCommands(name, lines) =
        (IF name = <<>> THEN <<>> ELSE <<h>>) \o Config(lines)
          \o (IF name \o lines = <<>> THEN <<>> ELSE Saving)
  BY DEF ApplyCommands
<1> HIDE DEF h, a, save
<1>4. /\ <<>> \o <<>> = <<>> /\ lines \o <<>> = lines /\ <<>> \o lines = lines
      /\ name \o <<>> = name
  BY JoinNone, EmptyIsList
<1>5. /\ <<>> \o <<h>> = <<h>> /\ <<h>> \o <<>> = <<h>> /\ <<>> \o <<a>> = <<a>>
      /\ <<h>> \o <<save>> = <<h, save>> /\ <<a>> \o <<save>> = <<a, save>>
      /\ <<h>> \o <<a>> = <<h, a>>
  BY ShortJoins, Zenon
<1>6. <<h, a>> \o <<save>> = <<h, a, save>>
  BY ThreeJoin, Zenon
<1>7. name # <<>> \/ lines # <<>> => name \o lines # <<>>
  <2>1. Len(name \o lines) = Len(name) + Len(lines) /\ Len(name) \in Nat /\ Len(lines) \in Nat
    BY JoinIsList, ListIs
  <2>2. (name # <<>> => Len(name) # 0) /\ (lines # <<>> => Len(lines) # 0)
    BY ListIs
  <2>3. Len(<<>>) = 0
    BY EmptyIsList
  <2>4. QED
    BY <2>1, <2>2, <2>3
<1>8. CASE name = <<>> /\ lines = <<>>
  <2>1. ApplyCommands(name, lines) = <<>>
    BY <1>2, <1>3, <1>4, <1>8
  <2>2. QED
    BY <1>4, <1>8, <2>1, FlatNone
<1>9. CASE name # <<>> /\ lines = <<>>
  <2>1. ApplyCommands(name, lines) = <<h, save>>
    BY <1>2, <1>3, <1>5, <1>7, <1>9
  <2>2. Flat(<<h, save>>) = name \o (<<>> \o <<>>)
    BY <1>1, FlatOf
  <2>3. QED
    BY <1>4, <1>9, <2>1, <2>2
<1>10. CASE name = <<>> /\ lines # <<>>
  <2>1. ApplyCommands(name, lines) = <<a, save>>
    BY <1>2, <1>3, <1>5, <1>7, <1>10
  <2>2. Flat(<<a, save>>) = lines \o (<<>> \o <<>>)
    BY <1>1, FlatOf
  <2>3. QED
    BY <1>4, <1>10, <2>1, <2>2
<1>11. CASE name # <<>> /\ lines # <<>>
  <2>1. ApplyCommands(name, lines) = <<h, a, save>>
    BY <1>2, <1>3, <1>5, <1>6, <1>7, <1>11
  <2>2. Flat(<<h, a, save>>) = name \o (lines \o <<>>)
    BY <1>1, FlatOf, ZenonT(30)
  <2>3. QED
    BY <1>4, <2>1, <2>2
<1>12. QED
  BY <1>8, <1>9, <1>10, <1>11

LEMMA FlatManaged ==
  ASSUME NEW to, NEW old, IsList(ReplaceList("dns", to, old)), IsList(Risky(to, old))
  PROVE  Flat(ManagementCalls(to, old)) = ReplaceList("dns", to, old) \o Risky(to, old)
<1> DEFINE dns == ReplaceList("dns", to, old)
           risky == Risky(to, old)
           servers == Call("config", dns)
           batch == Call("risky", risky)
<1>1. servers.lines = dns /\ batch.lines = risky
  BY DEF Call
<1>2. ManagementCalls(to, old) = IF risky = <<>> THEN ConfigAndSave(dns)
      ELSE Config(dns) \o <<batch>>
  BY DEF ManagementCalls
<1>3. Config(dns) = IF dns = <<>> THEN <<>> ELSE <<servers>>
  BY DEF Config
<1> HIDE DEF dns, risky, servers, batch
<1>4. IsList(dns) /\ IsList(risky)
  BY DEF dns, risky
<1>5. /\ <<>> \o <<>> = <<>> /\ dns \o <<>> = dns /\ risky \o <<>> = risky /\ <<>> \o risky = risky
  BY <1>4, JoinNone, EmptyIsList
<1>6. <<>> \o <<batch>> = <<batch>> /\ <<servers>> \o <<batch>> = <<servers, batch>>
  BY ShortJoins, Zenon
<1>7. Flat(<<batch>>) = risky \o (<<>> \o <<>>) /\ Flat(<<servers, batch>>) = dns \o (risky \o <<>>)
  BY <1>1, FlatOf
<1>8. Flat(ManagementCalls(to, old)) = dns \o risky
  <2>1. CASE risky = <<>>
    BY <1>2, <1>4, <1>5, <2>1, FlatSaved
  <2>2. CASE risky # <<>> /\ dns = <<>>
    BY <1>2, <1>3, <1>5, <1>6, <1>7, <2>2
  <2>3. CASE risky # <<>> /\ dns # <<>>
    BY <1>2, <1>3, <1>5, <1>6, <1>7, <2>3
  <2>4. QED
    BY <2>1, <2>2, <2>3
<1>9. QED
  BY <1>8 DEF dns, risky

LEMMA FlatRaw ==
  ASSUME NEW to, NEW old, IsList(Destroying(old)), IsList(ForEach("add", "lines", to.lines))
  PROVE  Flat(RawUpdate(to, old)) = Destroying(old) \o ForEach("add", "lines", to.lines)
<1> DEFINE gone == Destroying(old)
           come == ForEach("add", "lines", to.lines)
           h == Call("config", gone)
           a == Call("config", come)
           save == Call("save", <<>>)
<1>1. h.lines = gone /\ a.lines = come /\ save.lines = <<>>
  BY DEF Call
<1>2. /\ Config(gone) = IF gone = <<>> THEN <<>> ELSE <<h>>
      /\ Config(come) = IF come = <<>> THEN <<>> ELSE <<a>>
      /\ Saving = <<save>>
  BY DEF Config, Saving
<1>3. RawUpdate(to, old) = Config(gone) \o Config(come) \o Saving
  BY DEF RawUpdate
<1> HIDE DEF h, a, save, gone, come
<1>4. IsList(gone) /\ IsList(come)
  BY DEF gone, come
<1>5. /\ <<>> \o <<>> = <<>> /\ come \o <<>> = come /\ <<>> \o come = come /\ gone \o <<>> = gone
  BY <1>4, JoinNone, EmptyIsList
<1>6. /\ <<>> \o <<save>> = <<save>> /\ <<h>> \o <<>> = <<h>> /\ <<>> \o <<a>> = <<a>>
      /\ <<h>> \o <<save>> = <<h, save>> /\ <<a>> \o <<save>> = <<a, save>>
      /\ <<h>> \o <<a>> = <<h, a>>
  BY ShortJoins, Zenon
<1>7. <<h, a>> \o <<save>> = <<h, a, save>>
  BY ThreeJoin, Zenon
<1>8. /\ Flat(<<save>>) = <<>> \o (<<>> \o <<>>) /\ Flat(<<h, save>>) = gone \o (<<>> \o <<>>)
      /\ Flat(<<a, save>>) = come \o (<<>> \o <<>>) /\ Flat(<<h, a, save>>) = gone \o (come \o <<>>)
  BY <1>1, FlatOf
<1>9. Flat(RawUpdate(to, old)) = gone \o come
  <2>1. CASE gone = <<>> /\ come = <<>>
    BY <1>2, <1>3, <1>5, <1>6, <1>8, <2>1
  <2>2. CASE gone # <<>> /\ come = <<>>
    BY <1>2, <1>3, <1>5, <1>6, <1>8, <2>2
  <2>3. CASE gone = <<>> /\ come # <<>>
    BY <1>2, <1>3, <1>5, <1>6, <1>8, <2>3
  <2>4. CASE gone # <<>> /\ come # <<>>
    BY <1>2, <1>3, <1>5, <1>6, <1>7, <1>8, <2>4
  <2>5. QED
    BY <2>1, <2>2, <2>3, <2>4
<1>10. QED
  BY <1>9 DEF gone, come

-----------------------------------------------------------------------------
(* What lines are about, and what they leave.                                *)

\* What the helpers are about.
LEMMA MentionsChange ==
  ASSUME NEW k, NEW to, NEW old
  PROVE  Mentions(Change(k, to, old)) \subseteq {k}
<1>1. Mentions(<<Line("set", k, to[k])>>) = {k}
  BY MentionsOne DEF Line
<1>2. QED
  BY <1>1, MentionsNone DEF Change

LEMMA MentionsSwap ==
  ASSUME NEW r \in Resources, NEW k \in Keys[r], k \notin Lists, k \notin Switches, NEW to, NEW old
  PROVE  Mentions(Swap(k, to, old)) \subseteq {k}
<1> DEFINE first == IF old[k] = None THEN <<>> ELSE <<Line("set", k, None)>>
           second == IF to[k] = None THEN <<>> ELSE <<Line("set", k, to[k])>>
<1>1. \A value : Mentions(<<Line("set", k, value)>>) = {k} /\ LinesOf(r, <<Line("set", k, value)>>)
  BY MentionsOne, LineSets DEF Line, Sets
<1>2. /\ LinesOf(r, first) /\ Mentions(first) \subseteq {k}
      /\ LinesOf(r, second) /\ Mentions(second) \subseteq {k}
  BY <1>1, LinesNone, MentionsNone
<1>3. Swap(k, to, old) = IF to[k] = old[k] THEN <<>> ELSE first \o second
  BY DEF Swap
<1> HIDE DEF first, second
<1>4. Mentions(first \o second) \subseteq {k}
  BY <1>2, MentionsJoin DEF LinesOf
<1>5. QED
  BY <1>3, <1>4, MentionsNone

LEMMA MentionsForEach ==
  ASSUME NEW op, NEW k, NEW s, IsList(s)
  PROVE  Mentions(ForEach(op, k, s)) \subseteq {k}
<1> DEFINE lines == ForEach(op, k, s)
<1>1. IsList(lines) /\ Len(lines) = Len(s) /\ \A i \in 1..Len(s) : lines[i] = Line(op, k, s[i])
  BY ForEachIs
<1> HIDE DEF lines
<1>2. \A i \in 1..Len(s) : lines[i].key = k
  <2>1. \A e : Line(op, k, e).key = k
    BY DEF Line
  <2>2. QED
    BY <1>1, <2>1, Zenon
<1>3. Mentions(lines) \subseteq {k}
  BY <1>1, <1>2, MentionsIs
<1>4. QED
  BY <1>3 DEF lines

LEMMA MentionsEntering ==
  ASSUME NEW k, NEW s
  PROVE  Mentions(Entering(k, s)) \subseteq {k} /\ IsList(Entering(k, s))
<1>1. CASE s = <<>>
  BY <1>1, MentionsNone, EmptyIsList DEF Entering
<1>2. CASE s # <<>>
  <2> DEFINE l == Line("enter", k, s)
  <2>1. l.key = k
    BY DEF Line
  <2> HIDE DEF l
  <2>2. Mentions(<<l>>) = {k} /\ IsList(<<l>>)
    BY <2>1, MentionsOne, OneIsList
  <2>3. QED
    BY <1>2, <2>2 DEF Entering, l
<1>3. QED
  BY <1>1, <1>2

LEMMA MentionsLists ==
  ASSUME NEW r \in Resources, NEW k \in Keys[r] \cap Lists, NEW to, NEW old, IsList(to[k]),
         IsList(old[k])
  PROVE  /\ Mentions(ChangeList(k, to, old)) \subseteq {k}
         /\ Mentions(ReplaceList(k, to, old)) \subseteq {k}
<1>1. \A s, t : IsList(s) /\ IsList(t) =>
        Mentions(ForEach("remove", k, s) \o ForEach("add", k, t)) \subseteq {k}
  <2> TAKE s, t
  <2> HAVE IsList(s) /\ IsList(t)
  <2> DEFINE a == ForEach("remove", k, s)
             b == ForEach("add", k, t)
  <2>1. Mentions(a) \subseteq {k} /\ Mentions(b) \subseteq {k} /\ IsList(a) /\ IsList(b)
    BY MentionsForEach, ForEachIs
  <2> HIDE DEF a, b
  <2>2. Mentions(a \o b) \subseteq {k}
    BY <2>1, MentionsJoin
  <2>3. QED
    BY <2>2 DEF a, b
<1>2. IsList(Without(old[k], to[k])) /\ IsList(Without(to[k], old[k]))
  BY WithoutIs
<1>3. Mentions(ForEach("remove", k, old[k]) \o Entering(k, to[k])) \subseteq {k}
  <2> DEFINE a == ForEach("remove", k, old[k])
             b == Entering(k, to[k])
  <2>1. Mentions(a) \subseteq {k} /\ IsList(a)
    BY MentionsForEach, ForEachIs
  <2>2. Mentions(b) \subseteq {k} /\ IsList(b)
    BY MentionsEntering
  <2> HIDE DEF a, b
  <2>3. Mentions(a \o b) \subseteq {k}
    BY <2>1, <2>2, MentionsJoin
  <2>4. QED
    BY <2>3 DEF a, b
<1>4. ReplaceList(k, to, old) = IF to[k] = old[k] THEN <<>>
                                ELSE ForEach("remove", k, old[k]) \o Entering(k, to[k])
  BY DEF ReplaceList, Entering
<1>5. QED
  BY <1>1, <1>2, <1>3, <1>4, MentionsNone DEF ChangeList

\* What turning a switch on leaves.
LEMMA OnLeaves ==
  ASSUME NEW k \in Switches, NEW key \in Settings, key # k
  PROVE  Leaves(<<Line("set", k, TRUE)>>, key)
<1> DEFINE l == Line("set", k, TRUE)
<1>1. l.op = "set" /\ l.key = k /\ l.value = TRUE
  BY DEF Line
<1> HIDE DEF l
<1>2. ASSUME NEW conf, ProperConf(conf) PROVE After(conf, <<l>>)[key] = conf[key]
  <2>1. DOMAIN conf = Settings /\ k # "vlan_name"
    BY <1>2 DEF ProperConf, Switches
  <2>2. Effect(conf, l) = Set(conf, k, TRUE)
    BY <1>1 DEF Effect
  <2>3. Set(conf, k, TRUE)[key] = conf[key]
    BY <2>1 DEF Set
  <2>4. QED
    BY <2>2, <2>3, AfterOne
<1>3. QED
  BY <1>2 DEF Leaves, l

LEMMA RightOn ==
  ASSUME NEW r \in Resources, NEW k \in Switches, Sets(r, k, TRUE), NEW key \in Settings, key # k,
         NEW value
  PROVE  Right(r, <<Line("set", k, TRUE)>>, key, value)
<1> DEFINE l == Line("set", k, TRUE)
<1>1. LinesOf(r, <<l>>) /\ Mentions(<<l>>) = {l.key} /\ l.key = k
  BY LineSets, MentionsOne DEF Line
<1>2. Leaves(<<l>>, key)
  BY OnLeaves
<1> HIDE DEF l
<1>3. QED
  BY <1>1, <1>2 DEF Right, l

\* What is asked of a setting that is right.
LEMMA RightCarries ==
  ASSUME NEW r, NEW lines, NEW key, key \notin Lists, NEW value, Right(r, lines, key, value),
         key \in Mentions(lines), NEW conf, ProperConf(conf)
  PROVE  Carries(After(conf, lines), key, value)
BY DEF Right, Settles, Carries

\* What lines leave alone that are about other settings.
LEMMA ApartLeaves ==
  ASSUME NEW r \in Resources, NEW lines, LinesOf(r, lines), NEW key \in Settings,
         \A k \in Mentions(lines) : Apart(k, key)
  PROVE  Leaves(lines, key)
<1>1. IsList(lines)
  BY DEF LinesOf
<1>2. \A i \in 1..Len(lines) : ~Reaches(lines[i], key)
  BY <1>1, MentionsIs DEF Reaches, Apart
<1>3. QED
  BY <1>2, AfterFrame DEF Leaves

LEMMA LeavesJoin ==
  ASSUME NEW r \in Resources, NEW key, NEW s, LinesOf(r, s), Leaves(s, key),
         NEW t, LinesOf(r, t), Leaves(t, key)
  PROVE  Leaves(s \o t, key)
<1>1. IsList(s) /\ IsList(t)
  BY DEF LinesOf
<1>2. ASSUME NEW conf, ProperConf(conf) PROVE After(conf, s \o t)[key] = conf[key]
  <2>1. ProperConf(After(conf, s)) /\ After(conf, s \o t) = After(After(conf, s), t)
    BY <1>1, <1>2, AfterJoin, AfterProper
  <2>2. QED
    BY <1>2, <2>1 DEF Leaves
<1>3. QED
  BY <1>2 DEF Leaves

\* Lines about a list, among others that leave it alone.
LEMMA AmidLeaving ==
  ASSUME NEW r \in Resources, NEW a, LinesOf(r, a), NEW s, LinesOf(r, s), NEW b, LinesOf(r, b),
         NEW key, Leaves(a, key), Leaves(b, key), NEW conf, ProperConf(conf)
  PROVE  /\ After(conf, (a \o s) \o b)[key] = After(After(conf, a), s)[key]
         /\ ProperConf(After(conf, a)) /\ After(conf, a)[key] = conf[key]
<1>1. ProperConf(After(conf, a)) /\ ProperConf(After(After(conf, a), s))
  BY AfterProper
<1>2. IsList(a) /\ IsList(s) /\ IsList(b) /\ IsList(a \o s)
  BY LinesJoin DEF LinesOf
<1>3. After(conf, (a \o s) \o b) = After(After(After(conf, a), s), b)
  BY <1>2, AfterJoin
<1>4. QED
  BY <1>1, <1>3 DEF Leaves

LEMMA ListAmid ==
  ASSUME NEW r \in Resources, NEW a, LinesOf(r, a), NEW s, LinesOf(r, s), NEW b, LinesOf(r, b),
         NEW key \in Settings, \A k \in Mentions(a) \cup Mentions(b) : Apart(k, key),
         NEW conf, ProperConf(conf)
  PROVE  /\ After(conf, (a \o s) \o b)[key] = After(After(conf, a), s)[key]
         /\ ProperConf(After(conf, a)) /\ After(conf, a)[key] = conf[key]
<1>1. Leaves(a, key) /\ Leaves(b, key)
  BY ApartLeaves
<1>2. QED
  BY <1>1, AmidLeaving

-----------------------------------------------------------------------------
(* What an operation comes to, once all its lines have run.                  *)

\* What is asked of the settings that lines are about is there when they have run.
Carried(r, lines, to, conf) ==
  \A key \in Mentions(lines) \cap (DOMAIN Wanted(r, to) \ Piecemeal) :
    Carries(After(conf, lines), key, Wanted(r, to)[key])

\* What is known of a list is still on the switch.
Known(old, conf) ==
  /\ \A key \in {"servers", "hosts"} \cap DOMAIN old : ToSet(old[key]) \subseteq ToSet(conf[key])
  /\ "dns" \in DOMAIN old => old["dns"] = conf["dns"]

\* What a plan asks for.
LEMMA WantedIs ==
  ASSUME NEW r \in Resources, NEW to, Proper(r, to)
  PROVE  /\ r = "user" => /\ DOMAIN Wanted(r, to) = {to.username}
                          /\ Wanted(r, to)[to.username] = to.password
         /\ r # "user" => \A key \in DOMAIN Wanted(r, to) :
              /\ key \in Attributes[r] /\ key \in Unnamed /\ Wanted(r, to)[key] = to[key]
              /\ "keep" \in Attributes[r] => key \notin to.keep
<1>1. r = "user" => Wanted(r, to) = [a \in {to.username} |-> to.password]
  BY DEF Wanted
<1>2. CASE r = "user"
  BY <1>1, <1>2
<1>3. CASE r # "user"
  <2> DEFINE keep == IF "keep" \in DOMAIN to THEN to.keep ELSE {}
  <2>1. Wanted(r, to) = [a \in (DOMAIN to \cap Settings) \ keep |-> to[a]]
    BY <1>3 DEF Wanted
  <2>2. DOMAIN to = Attributes[r]
    BY DEF Proper
  <2>3. ASSUME NEW key \in DOMAIN Wanted(r, to)
        PROVE  /\ key \in Attributes[r] /\ key \in Settings /\ key \notin keep
               /\ Wanted(r, to)[key] = to[key]
    BY <2>1, <2>2, <2>3
  <2>4. \A key \in Attributes[r] \cap Settings : key \in Unnamed
    BY NoSettings
  <2>5. QED
    BY <1>3, <2>2, <2>3, <2>4
<1>4. QED
  BY <1>2, <1>3

LEMMA WantedKeys ==
  ASSUME NEW r \in Resources, r # "user", NEW to, Proper(r, to), NEW key \in DOMAIN Wanted(r, to)
  PROVE  /\ key \in Attributes[r] /\ key \in Unnamed /\ Wanted(r, to)[key] = to[key]
         /\ "keep" \in Attributes[r] => key \notin to.keep
BY WantedIs

\* Settings none of which is a list.
LEMMA RightsCarried ==
  ASSUME NEW r \in Resources, r # "user", NEW to, Proper(r, to), NEW lines,
         \A key \in DOMAIN Wanted(r, to) \ Piecemeal :
           key \in Mentions(lines) => key \notin Lists /\ Right(r, lines, key, to[key]),
         NEW conf, ProperConf(conf)
  PROVE  Carried(r, lines, to, conf)
<1>1. SUFFICES ASSUME NEW key \in Mentions(lines) \cap (DOMAIN Wanted(r, to) \ Piecemeal)
               PROVE  Carries(After(conf, lines), key, Wanted(r, to)[key])
  BY DEF Carried
<1>2. Wanted(r, to)[key] = to[key]
  BY WantedKeys
<1>3. key \notin Lists /\ Right(r, lines, key, to[key])
  OBVIOUS
<1>4. QED
  BY <1>2, <1>3, RightCarries

\* The operations of each resource leave what was asked for, as far as they are
\* about it.
LEMMA SystemCarried ==
  ASSUME NEW to, Proper("system", to), NEW old, NEW name,
         name = <<>> \/ name = Change("hostname", to, old),
         NEW conf, ProperConf(conf)
  PROVE  Carried("system", name \o SystemLines(to, old), to, conf)
<1> DEFINE r == "system"
           a == Change("telnet_server", to, old)
           b == Change("optical_monitor", to, old)
<1>1. \A k \in Keys[r] : \A v : Sets(r, k, v)
  BY KeysOfEach DEF Sets, Lists, Switches
<1>2. \A k, key \in Keys[r] : k # key => Apart(k, key)
  BY KeysOfEach, WithinIs DEF Apart, Switches
<1>3. Keys[r] \subseteq Settings /\ Keys[r] \cap Lists = {} /\ r \in Resources
  BY KeysAreSettings, ResourceNames, KeysOfEach DEF Lists
<1>4. \A k, key \in Keys[r] : Right(r, Change(k, to, old), key, to[key])
  BY <1>1, <1>2, <1>3, RightChange
<1>5. \A key \in Keys[r] : Right(r, a, key, to[key]) /\ Right(r, b, key, to[key])
      /\ Right(r, name, key, to[key])
  BY <1>4, RightNone, KeysOfEach
<1>6. SystemLines(to, old) = a \o b
  BY DEF SystemLines
<1> HIDE DEF a, b
<1>7. \A key \in Keys[r] : Right(r, name \o (a \o b), key, to[key])
  BY <1>3, <1>5, RightJoin
<1>8. \A key \in DOMAIN Wanted(r, to) : key \in Keys[r]
  <2>1. \A key \in DOMAIN Wanted(r, to) : key \in Attributes[r] /\ key \in Unnamed
    BY <1>3, WantedKeys
  <2>2. "keep" \notin Unnamed
    BY DEF Unnamed, Lists, OnByDefault, OffByDefault, Named
  <2>3. QED
    BY <2>1, <2>2, AttributesOfEach, KeysOfEach
<1>9. QED
  BY <1>3, <1>6, <1>7, <1>8, RightsCarried

LEMMA AAACarried ==
  ASSUME NEW to, Proper("aaa", to), NEW old, NEW lines,
         LET login == Change("login", to, old)
             console == Change("console", to, old)
         IN  \/ lines = login \o console
             \/ lines = (IF to.login = None THEN login ELSE <<>>)
                          \o (IF to.console THEN <<>> ELSE console)
                          \o (IF to.login = None THEN <<>> ELSE login)
                          \o (IF to.console THEN console ELSE <<>>),
         NEW conf, ProperConf(conf)
  PROVE  Carried("aaa", lines, to, conf)
<1> DEFINE r == "aaa"
           login == Change("login", to, old)
           console == Change("console", to, old)
           a == IF to.login = None THEN login ELSE <<>>
           b == IF to.console THEN <<>> ELSE console
           c == IF to.login = None THEN <<>> ELSE login
           d == IF to.console THEN console ELSE <<>>
<1>1. \A k \in Keys[r] : \A v : Sets(r, k, v)
  BY KeysOfEach DEF Sets, Lists, Switches
<1>2. \A k, key \in Keys[r] : k # key => Apart(k, key)
  BY KeysOfEach, WithinIs DEF Apart, Switches
<1>3. Keys[r] \subseteq Settings /\ Keys[r] \cap Lists = {} /\ r \in Resources
  BY KeysAreSettings, ResourceNames, KeysOfEach DEF Lists
<1>4. \A k, key \in Keys[r] : Right(r, Change(k, to, old), key, to[key])
  BY <1>1, <1>2, <1>3, RightChange
<1>5. \A key \in Keys[r] : Right(r, login, key, to[key]) /\ Right(r, console, key, to[key])
  BY <1>4, KeysOfEach
<1>6. lines = login \o console \/ lines = a \o b \o c \o d
  OBVIOUS
<1> HIDE DEF login, console
<1>7. \A key \in Keys[r] : /\ Right(r, a, key, to[key]) /\ Right(r, b, key, to[key])
                           /\ Right(r, c, key, to[key]) /\ Right(r, d, key, to[key])
  BY <1>5, RightNone
<1> HIDE DEF a, b, c, d
<1>8. \A key \in Keys[r] : Right(r, lines, key, to[key])
  <2> TAKE key \in Keys[r]
  <2>1. Right(r, login \o console, key, to[key])
    BY <1>3, <1>5, RightJoin
  <2>2. Right(r, (a \o b) \o c, key, to[key])
    BY <1>3, <1>7, RightJoin
  <2>3. Right(r, ((a \o b) \o c) \o d, key, to[key])
    BY <1>3, <1>7, <2>2, RightJoin
  <2>4. QED
    BY <1>6, <2>1, <2>3
<1>9. \A key \in DOMAIN Wanted(r, to) : key \in Keys[r]
  BY <1>3, WantedKeys, AttributesOfEach, KeysOfEach
<1>10. QED
  BY <1>3, <1>8, <1>9, RightsCarried

LEMMA SNMPCarried ==
  ASSUME NEW to, Proper("snmp", to), NEW old, NEW some, LinesOf("snmp", some),
         Mentions(some) \subseteq {"communities"}, NEW conf, ProperConf(conf)
  PROVE  Carried("snmp", some \o Change("contact", to, old), to, conf)
<1> DEFINE r == "snmp"
           a == Change("contact", to, old)
<1>1. /\ r \in Resources /\ "contact" \in Settings /\ "contact" \notin Lists
      /\ Sets(r, "contact", to["contact"])
  BY ResourceNames, KeysOfEach DEF Settings, Unnamed, Named, Lists, Sets, Switches
<1>2. Right(r, a, "contact", to["contact"])
  BY <1>1, RightChange
<1>3. \A k \in Mentions(some) : Apart(k, "contact")
  BY WithinIs DEF Apart, Switches
<1>4. Right(r, some, "contact", to["contact"])
  BY <1>1, <1>3, RightApart
<1> HIDE DEF a
<1>5. Right(r, some \o a, "contact", to["contact"])
  BY <1>1, <1>2, <1>4, RightJoin
<1>6. \A key \in DOMAIN Wanted(r, to) \ Piecemeal : key = "contact"
  BY <1>1, WantedKeys, AttributesOfEach DEF Piecemeal
<1>7. QED
  BY <1>1, <1>5, <1>6, RightsCarried DEF a

LEMMA PoECarried ==
  ASSUME NEW to, Proper("poe", to), NEW lines,
         lines = <<Line("set", "power", to["power"])>> \/ \E old : lines = Change("power", to, old),
         NEW conf, ProperConf(conf)
  PROVE  Carried("poe", lines, to, conf)
<1>1. /\ "poe" \in Resources /\ "power" \in Settings /\ "power" \notin Lists
      /\ Sets("poe", "power", to["power"])
  BY ResourceNames, KeysOfEach DEF Settings, Unnamed, OnByDefault, Lists, Sets, Switches
<1>2. Right("poe", lines, "power", to["power"])
  BY <1>1, RightSets, RightChange
<1>3. \A key \in DOMAIN Wanted("poe", to) : key = "power"
  BY <1>1, WantedKeys, AttributesOfEach
<1>4. QED
  BY <1>1, <1>2, <1>3, RightsCarried

\* The update of a list that is read, among changes of settings.
LEMMA AmidCarried ==
  ASSUME NEW r \in {"ntp", "logging"}, NEW to, Proper(r, to), NEW old, Proper(r, old),
         NEW k \in Keys[r] \cap {"servers", "hosts"},
         NEW a, LinesOf(r, a), NEW b, LinesOf(r, b), k \notin Mentions(a) \cup Mentions(b),
         \A key \in Keys[r] \ {k} : Right(r, a, key, to[key]) /\ Right(r, b, key, to[key]),
         NEW conf, ProperConf(conf), Known(old, conf)
  PROVE  Carried(r, (a \o ChangeList(k, to, old)) \o b, to, conf)
<1> DEFINE s == ChangeList(k, to, old)
           lines == (a \o s) \o b
<1>1. r \in Resources /\ r # "user" /\ Keys[r] = Attributes[r] /\ Keys[r] \subseteq Settings
  BY ResourceNames, KeysOfEach, AttributesOfEach, KeysAreSettings
<1>2. \A key \in Keys[r] \ {k} : key \notin Lists
  BY KeysOfEach DEF Lists
<1>3. k \in Keys[r] \cap Lists /\ DOMAIN old = Attributes[r]
  BY DEF Lists, Proper
<1>4. IsList(to[k]) /\ IsList(old[k]) /\ ToSet(old[k]) \subseteq ToSet(conf[k])
  BY <1>1, <1>3, ProperLists DEF Known
<1>5. LinesOf(r, s) /\ Mentions(s) \subseteq {k}
  BY <1>1, <1>3, <1>4, ListLines, MentionsLists
<1> HIDE DEF s
<1>6. \A lin : LinesOf(r, lin) => \A m \in Mentions(lin) : m \in Keys[r]
  <2> TAKE lin
  <2> HAVE LinesOf(r, lin)
  <2>1. IsList(lin)
    BY DEF LinesOf
  <2>2. QED
    BY <2>1, MentionsIs DEF LinesOf, IsLine
<1>7. \A m, key \in Keys[r] : m # key => Apart(m, key)
  BY KeysOfEach, WithinIs DEF Apart, Switches
<1>8. SUFFICES ASSUME NEW key \in Mentions(lines) \cap (DOMAIN Wanted(r, to) \ Piecemeal)
               PROVE  Carries(After(conf, lines), key, Wanted(r, to)[key])
  BY DEF Carried, s
<1>9. key \in Keys[r] /\ Wanted(r, to)[key] = to[key]
  BY <1>1, WantedKeys
<1>10. CASE key = k
  <2>1. \A m \in Mentions(a) \cup Mentions(b) : Apart(m, k)
    BY <1>6, <1>7
  <2>2. /\ After(conf, lines)[k] = After(After(conf, a), s)[k]
        /\ ProperConf(After(conf, a)) /\ After(conf, a)[k] = conf[k]
    <3>1. k \in Settings /\ r \in Resources
      BY <1>1
    <3>2. QED
      BY <1>5, <2>1, <3>1, ListAmid
  <2> DEFINE mid == After(conf, a)
  <2> HIDE DEF mid, lines
  <2>3. ProperConf(mid) /\ ToSet(old[k]) \subseteq ToSet(mid[k])
        /\ After(conf, lines)[k] = After(mid, s)[k]
    BY <1>4, <2>2 DEF mid
  <2>4. ToSet(to[k]) \subseteq ToSet(After(mid, s)[k])
    BY <1>1, <1>3, <1>4, <2>3, ChangeCovers DEF s
  <2>5. k # "dns"
    OBVIOUS
  <2>6. QED
    BY <1>3, <1>9, <1>10, <2>3, <2>4, <2>5 DEF Carries
<1>11. CASE key # k
  <2>1. Right(r, a, key, to[key]) /\ Right(r, b, key, to[key])
    BY <1>9, <1>11
  <2>2. Right(r, s, key, to[key])
    BY <1>1, <1>5, <1>7, <1>9, <1>11, RightApart
  <2>3. Right(r, lines, key, to[key])
    BY <1>1, <2>1, <2>2, RightJoin
  <2>4. QED
    BY <1>2, <1>9, <1>11, <2>3, RightCarries
<1>12. QED
  BY <1>10, <1>11

LEMMA ListsCarried ==
  ASSUME NEW r \in {"ntp", "logging"}, NEW to, Proper(r, to), NEW old, Proper(r, old),
         NEW conf, ProperConf(conf), Known(old, conf)
  PROVE  /\ r = "ntp" => Carried(r, NTPLines(to, old), to, conf)
         /\ r = "logging" => Carried(r, LoggingLines(to, old), to, conf)
<1>1. \A k \in Keys[r] \ Lists : \A v : Sets(r, k, v)
  BY KeysOfEach DEF Sets, Switches
<1>2. \A m, key \in Keys[r] : m # key => Apart(m, key)
  BY KeysOfEach, WithinIs DEF Apart, Switches
<1>3. Keys[r] \subseteq Settings /\ r \in Resources
  BY KeysAreSettings, ResourceNames
<1>4. \A k \in Keys[r] \ Lists : LinesOf(r, Change(k, to, old))
  BY <1>1, ChangeLines
<1>5. \A k, key \in Keys[r] \ Lists : Right(r, Change(k, to, old), key, to[key])
  BY <1>1, <1>2, <1>3, RightChange
<1>6. CASE r = "ntp"
  <2> DEFINE a == Change("timezone", to, old)
             b == Change("serve", to, old)
             s == ChangeList("servers", to, old)
  <2>1. {"timezone", "serve"} \subseteq Keys[r] \ Lists /\ "servers" \in Keys[r]
        /\ Keys[r] \ {"servers"} = Keys[r] \ Lists
    BY <1>6, KeysOfEach DEF Lists
  <2>2. LinesOf(r, a) /\ LinesOf(r, b) /\ Mentions(a) \subseteq {"timezone"}
        /\ Mentions(b) \subseteq {"serve"}
    BY <1>4, <2>1, MentionsChange
  <2>3. \A key \in Keys[r] \ {"servers"} : Right(r, a, key, to[key]) /\ Right(r, b, key, to[key])
    BY <1>5, <2>1
  <2> HIDE DEF a, b
  <2>4. Carried(r, (a \o s) \o b, to, conf)
    BY <2>1, <2>2, <2>3, AmidCarried
  <2>5. QED
    BY <1>6, <2>4 DEF NTPLines, a, b
<1>7. CASE r = "logging"
  <2> DEFINE b == Change("facility", to, old)
             s == ChangeList("hosts", to, old)
  <2>1. "facility" \in Keys[r] \ Lists /\ "hosts" \in Keys[r] \cap Lists
        /\ Keys[r] \ {"hosts"} = Keys[r] \ Lists
    BY <1>7, KeysOfEach DEF Lists
  <2>2. LinesOf(r, b) /\ Mentions(b) \subseteq {"facility"} /\ LinesOf(r, <<>>)
        /\ Mentions(<<>>) = {}
    BY <1>4, <2>1, MentionsChange, LinesNone, MentionsNone
  <2>3. \A key \in Keys[r] \ {"hosts"} : Right(r, <<>>, key, to[key]) /\ Right(r, b, key, to[key])
    BY <1>5, <2>1, RightNone
  <2> HIDE DEF b
  <2>4. Carried(r, (<<>> \o s) \o b, to, conf)
    BY <2>1, <2>2, <2>3, AmidCarried
  <2>5. IsList(to["hosts"]) /\ IsList(old["hosts"])
    BY <1>3, <1>7, ProperLists, AttributesOfEach DEF Lists
  <2>6. <<>> \o s = s
    BY <2>1, <2>5, ListLines, JoinNone DEF LinesOf
  <2>7. QED
    BY <1>7, <2>4, <2>6 DEF LoggingLines, b
<1>8. QED
  BY <1>6, <1>7

LEMMA VECarried ==
  ASSUME NEW to, Proper("interface_ve", to), NEW old, Proper("interface_ve", old), NEW conf,
         ProperConf(conf)
  PROVE  Carried("interface_ve", VELines(to, old), to, conf)
<1> DEFINE r == "interface_ve"
           key == "ve_address"
           a == <<Line("set", "ve", TRUE)>>
           b == Swap("ve_address", to, old)
           s == ChangeList("ve_lines", to, old)
<1>1. /\ r \in Resources /\ key \in Keys[r] /\ key \in Settings /\ key \notin Lists
      /\ key \notin Switches
      /\ "ve_lines" \in Keys[r] \cap Lists /\ Sets(r, "ve", TRUE) /\ "ve" \in Switches
  BY ResourceNames, KeysOfEach, KeysAreSettings DEF Lists, Sets, Switches
<1>2. IsList(to["ve_lines"]) /\ IsList(old["ve_lines"])
  BY <1>1, ProperLists, AttributesOfEach DEF Lists
<1>3. LinesOf(r, s) /\ Mentions(s) \subseteq {"ve_lines"}
  BY <1>1, <1>2, ListLines, MentionsLists
<1>4. Right(r, a, key, to[key])
  BY <1>1, RightOn
<1>5. Right(r, b, key, to[key])
  BY <1>1, RightSwap
<1> HIDE DEF a, b, s
<1>6. Apart("ve_lines", key)
  BY WithinIs DEF Apart, Switches
<1>7. Right(r, s, key, to[key])
  BY <1>1, <1>3, <1>6, RightApart
<1>8. Right(r, (a \o b) \o s, key, to[key])
  BY <1>1, <1>4, <1>5, <1>7, RightJoin
<1>9. VELines(to, old) = (a \o b) \o s
  BY DEF VELines, a, b, s
<1>10. \A k \in DOMAIN Wanted(r, to) \ Piecemeal : k = key
  BY <1>1, WantedKeys, AttributesOfEach DEF Piecemeal
<1>11. QED
  BY <1>1, <1>8, <1>9, <1>10, RightsCarried

LEMMA UserCarried ==
  ASSUME NEW to, Proper("user", to), NEW lines,
         \/ lines = <<Line("set", to.username, to.password)>>
         \/ \E name \in Accounts :
              lines = (IF name = to.username THEN <<>> ELSE <<Line("set", name, None)>>)
                        \o <<Line("set", to.username, to.password)>>,
         NEW conf, ProperConf(conf)
  PROVE  Carried("user", lines, to, conf)
<1> DEFINE r == "user"
           key == to.username
           b == <<Line("set", key, to.password)>>
<1>1. r \in Resources /\ key \in Accounts
  BY ResourceNames DEF Proper
<1>2. \A name \in Accounts : \A v :
        /\ name \notin Lists /\ name # "vlan_name" /\ Within(name) = {} /\ Sets(r, name, v)
        /\ name \in Settings
  <2> TAKE name \in Accounts
  <2> TAKE v
  <2>1. name \notin Unnamed
    BY Accountless
  <2>2. name \notin Switches
    BY <2>1 DEF Switches, Unnamed, OffByDefault
  <2>3. QED
    BY <2>1, <2>2, WithinIs, KeysOfEach DEF Unnamed, Named, Sets, Settings
<1>3. Right(r, b, key, to.password)
  BY <1>1, <1>2, RightSets
<1> HIDE DEF b
<1>4. ASSUME NEW name \in Accounts
      PROVE  Right(r, (IF name = key THEN <<>> ELSE <<Line("set", name, None)>>) \o b, key,
                   to.password)
  <2> DEFINE a == <<Line("set", name, None)>>
             c == IF name = key THEN <<>> ELSE a
  <2>1. name # key => Apart(name, key)
    BY <1>1, <1>2 DEF Apart
  <2>2. LinesOf(r, a) /\ Mentions(a) = {name}
    BY <1>2, LineSets, MentionsOne DEF Line
  <2> HIDE DEF a
  <2>3. name # key => Right(r, a, key, to.password)
    BY <1>1, <1>2, <2>1, <2>2, RightApart
  <2>4. Right(r, c, key, to.password)
    BY <2>3, RightNone
  <2> HIDE DEF c
  <2>5. Right(r, c \o b, key, to.password)
    BY <1>1, <1>3, <2>4, RightJoin
  <2>6. QED
    BY <2>5 DEF c, a
<1>5. Right(r, lines, key, to.password)
  BY <1>3, <1>4 DEF b
<1>6. DOMAIN Wanted(r, to) = {key} /\ Wanted(r, to)[key] = to.password
  BY <1>1, WantedIs, ZenonT(30)
<1>7. QED
  BY <1>1, <1>2, <1>5, <1>6, RightCarries DEF Carried

LEMMA RawCarried ==
  ASSUME NEW to, Proper("raw_config", to), NEW gone, LinesOf("raw_config", gone), NEW conf,
         ProperConf(conf)
  PROVE  Carried("raw_config", gone \o ForEach("add", "lines", to.lines), to, conf)
<1> DEFINE r == "raw_config"
           come == ForEach("add", "lines", to["lines"])
           mid == After(conf, gone)
<1>1. r \in Resources /\ "lines" \in Keys[r] \cap Lists
  BY ResourceNames, KeysOfEach DEF Lists
<1>2. IsList(to["lines"])
  BY <1>1, ProperLists, AttributesOfEach
<1>3. ProperConf(mid) /\ LinesOf(r, come) /\ IsList(gone) /\ IsList(come)
  BY <1>1, <1>2, RawLines, AfterProper DEF LinesOf
<1> HIDE DEF mid
<1>4. ToSet(After(mid, come)["lines"]) = ToSet(mid["lines"]) \cup ToSet(to["lines"])
  BY <1>1, <1>2, <1>3, AddsAll
<1> HIDE DEF come
<1>5. After(conf, gone \o come) = After(mid, come)
  BY <1>3, AfterJoin DEF mid
<1>6. ASSUME NEW k \in DOMAIN Wanted(r, to) PROVE k = "lines" /\ Wanted(r, to)[k] = to["lines"]
  <2>1. k \in Attributes[r] /\ k \in Unnamed /\ Wanted(r, to)[k] = to[k]
    BY <1>1, WantedKeys
  <2>2. "destroy" \notin Unnamed /\ "expect" \notin Unnamed
    BY DEF Unnamed, Lists, OnByDefault, OffByDefault, Named
  <2>3. QED
    BY <2>1, <2>2, AttributesOfEach
<1>7. Carries(After(conf, gone \o come), "lines", to["lines"])
  BY <1>1, <1>4, <1>5 DEF Carries
<1>8. QED
  BY <1>6, <1>7 DEF Carried, come

\* The line that enters a VLAN names it or leaves its name.
LEMMA HeaderRight ==
  ASSUME NEW to, NEW key \in Keys["vlan"], key # "vlan"
  PROVE  /\ LinesOf("vlan", <<Header(to)>>)
         /\ Mentions(<<Header(to)>>) \subseteq {"vlan", "vlan_name"}
         /\ Right("vlan", <<Header(to)>>, key, to[key])
<1> DEFINE r == "vlan"
<1>1. r \in Resources /\ key \in Settings /\ Sets(r, "vlan", TRUE) /\ \A v : Sets(r, "vlan_name", v)
      /\ "vlan" \in Switches
  BY ResourceNames, KeysAreSettings, KeysOfEach DEF Sets, Lists, Switches
<1>2. CASE to.vlan_name = None
  <2>1. Header(to) = Line("set", "vlan", TRUE)
    BY <1>2 DEF Header
  <2>2. Mentions(<<Header(to)>>) = {"vlan"} /\ LinesOf(r, <<Header(to)>>)
    BY <1>1, <2>1, MentionsOne, LineSets DEF Line
  <2>3. Right(r, <<Header(to)>>, key, to[key])
    BY <1>1, <2>1, RightOn
  <2>4. QED
    BY <2>2, <2>3
<1>3. CASE to.vlan_name # None
  <2>1. Header(to) = Line("set", "vlan_name", to["vlan_name"])
    BY <1>3 DEF Header
  <2>2. Mentions(<<Header(to)>>) = {"vlan_name"} /\ LinesOf(r, <<Header(to)>>)
    BY <1>1, <2>1, MentionsOne, LineSets DEF Line
  <2>3. CASE key = "vlan_name"
    BY <1>1, <2>1, <2>2, <2>3, RightSets
  <2>4. CASE key # "vlan_name"
    <3>1. Apart("vlan_name", key)
      BY <2>4, WithinIs DEF Apart, Switches
    <3>2. QED
      BY <1>1, <2>2, <3>1, RightApart
  <2>5. QED
    BY <2>2, <2>3, <2>4
<1>4. QED
  BY <1>2, <1>3

\* Spanning tree takes the priority away when it is turned off only.
LEMMA TreeRight ==
  ASSUME NEW to, Proper("vlan", to), NEW old, NEW key \in Keys["vlan"],
         key = "stp_priority" => to.spanning_tree
  PROVE  Right("vlan", Change("spanning_tree", to, old), key, to[key])
<1> DEFINE r == "vlan"
           k == "spanning_tree"
<1>1. r \in Resources /\ key \in Settings /\ Sets(r, k, to[k]) /\ k \in Switches
      /\ to[k] \in BOOLEAN
  BY ResourceNames, KeysAreSettings, KeysOfEach DEF Sets, Lists, Switches, Proper
<1>2. CASE key = k
  BY <1>1, <1>2, RightChange
<1>3. CASE key = "stp_priority"
  <2>1. to[k] = TRUE
    BY <1>1, <1>3
  <2>2. Right(r, <<Line("set", k, to[k])>>, key, to[key])
    BY <1>1, <1>3, <2>1, RightOn
  <2>3. QED
    BY <2>2, RightNone DEF Change
<1>4. CASE key \notin {k, "stp_priority"}
  <2>1. Apart(k, key)
    BY <1>4, WithinIs DEF Apart
  <2>2. QED
    BY <1>1, <1>4, <2>1, RightChange
<1>5. QED
  BY <1>2, <1>3, <1>4

LEMMA VLANCarried ==
  ASSUME NEW to, Proper("vlan", to), NEW old, Proper("vlan", old), NEW conf, ProperConf(conf)
  PROVE  Carried("vlan", VLANLines(to, old), to, conf)
<1> DEFINE r == "vlan"
           h == <<Header(to)>>
           a == Swap("router_interface", to, old)
           b == Change("spanning_tree", to, old)
           p == PriorityLines(to, old)
           s == ChangeList("vlan_lines", to, old)
           lines == h \o a \o b \o p \o s
<1>1. /\ r \in Resources /\ Keys[r] \subseteq Settings /\ "vlan_lines" \in Keys[r] \cap Lists
      /\ Keys[r] \ Lists
         = {"vlan", "vlan_name", "router_interface", "spanning_tree", "stp_priority"}
  BY ResourceNames, KeysOfEach, KeysAreSettings DEF Lists
<1>2. IsList(to["vlan_lines"]) /\ IsList(old["vlan_lines"])
  BY <1>1, ProperLists, AttributesOfEach DEF Lists
<1>3. LinesOf(r, s) /\ Mentions(s) \subseteq {"vlan_lines"}
  BY <1>1, <1>2, ListLines, MentionsLists
<1>4. "router_interface" \in Keys[r] /\ "router_interface" \notin Lists \cup Switches
  BY <1>1 DEF Switches
<1>5. Mentions(a) \subseteq {"router_interface"} /\ LinesOf(r, a)
  BY <1>1, <1>4, MentionsSwap, SwapLines
<1>6. Mentions(b) \subseteq {"spanning_tree"} /\ LinesOf(r, b)
  <2>1. Sets(r, "spanning_tree", to["spanning_tree"])
    BY <1>1 DEF Sets, Proper
  <2>2. QED
    BY <2>1, MentionsChange, ChangeLines
<1>7. /\ Mentions(p) \subseteq {"stp_priority"} /\ LinesOf(r, p)
      /\ to.spanning_tree # TRUE => p = <<>>
  <2>1. \A v : Sets(r, "stp_priority", v)
    BY <1>1 DEF Sets, Switches
  <2>2. Mentions(Change("stp_priority", to, old)) \subseteq {"stp_priority"}
        /\ LinesOf(r, Change("stp_priority", to, old))
    BY <2>1, MentionsChange, ChangeLines
  <2>3. QED
    BY <2>2, MentionsNone, LinesNone DEF PriorityLines
<1>8. Mentions(h) \subseteq {"vlan", "vlan_name"} /\ LinesOf(r, h)
  BY <1>1, HeaderRight
<1>9. lines = (((h \o a) \o b) \o p) \o s
  OBVIOUS
<1>10. VLANLines(to, old) = lines
  BY DEF VLANLines
<1>11. ASSUME NEW key \in DOMAIN Wanted(r, to) \ Piecemeal, key \in Mentions(lines)
       PROVE  key \notin Lists /\ Right(r, lines, key, to[key])
  <2>1. key \in {"vlan_name", "router_interface", "spanning_tree", "stp_priority"}
    BY <1>1, WantedKeys, AttributesOfEach DEF Piecemeal
  <2>2. key \in Settings /\ key \in Keys[r] /\ key # "vlan" /\ key \notin Lists
    BY <1>1, <2>1
  <2>3. key = "stp_priority" => to.spanning_tree
    <3>1. SUFFICES ASSUME key = "stp_priority", to.spanning_tree # TRUE PROVE FALSE
      BY DEF Proper
    <3>2. Mentions(p) = {}
      BY <1>7, <3>1, MentionsNone
    <3> HIDE DEF h, a, b, p, s
    <3>3. LinesOf(r, h \o a) /\ LinesOf(r, (h \o a) \o b) /\ LinesOf(r, ((h \o a) \o b) \o p)
      BY <1>5, <1>6, <1>7, <1>8, LinesJoin
    <3>4. /\ Mentions(h \o a) = Mentions(h) \cup Mentions(a)
          /\ Mentions((h \o a) \o b) = Mentions(h \o a) \cup Mentions(b)
          /\ Mentions(((h \o a) \o b) \o p) = Mentions((h \o a) \o b) \cup Mentions(p)
          /\ Mentions(lines) = Mentions(((h \o a) \o b) \o p) \cup Mentions(s)
      BY <1>3, <1>5, <1>6, <1>7, <1>8, <3>3, MentionsJoin DEF LinesOf
    <3>5. QED
      BY <1>3, <1>5, <1>6, <1>8, <1>11, <3>1, <3>2, <3>4
  <2>4. Right(r, h, key, to[key])
    BY <2>2, HeaderRight
  <2>5. Right(r, a, key, to[key])
    <3>1. key # "router_interface" => Apart("router_interface", key)
      BY WithinIs DEF Apart, Switches
    <3>2. QED
      BY <1>1, <1>4, <2>2, <3>1, RightSwap
  <2>6. Right(r, b, key, to[key])
    BY <2>2, <2>3, TreeRight
  <2>7. Right(r, p, key, to[key])
    <3>1. \A v : Sets(r, "stp_priority", v)
      BY <1>1 DEF Sets, Switches
    <3>2. key # "stp_priority" => Apart("stp_priority", key)
      BY WithinIs DEF Apart, Switches
    <3>3. Right(r, Change("stp_priority", to, old), key, to[key])
      BY <1>1, <2>2, <3>1, <3>2, RightChange
    <3>4. QED
      BY <3>3, RightNone DEF PriorityLines
  <2>8. Right(r, s, key, to[key])
    <3>1. Apart("vlan_lines", key)
      BY <2>1, WithinIs DEF Apart, Switches
    <3>2. QED
      BY <1>1, <1>3, <2>2, <3>1, RightApart
  <2> HIDE DEF h, a, b, p, s
  <2>9. Right(r, (h \o a) \o b, key, to[key])
    BY <1>1, <2>4, <2>5, <2>6, RightJoin
  <2>10. Right(r, (((h \o a) \o b) \o p) \o s, key, to[key])
    BY <1>1, <2>7, <2>8, <2>9, RightJoin
  <2>11. QED
    BY <2>2, <2>10
<1> HIDE DEF lines
<1>12. QED
  BY <1>1, <1>10, <1>11, RightsCarried

\* The name servers of the plan, unless they are the device's, are named once each.
LEMMA ManagementCarried ==
  ASSUME NEW to, Proper("management_ip", to),
         NEW old, Proper("management_ip", old), NEW conf, ProperConf(conf), old["dns"] = conf["dns"]
  PROVE  Carried("management_ip", ReplaceList("dns", to, old) \o Risky(to, old), to, conf)
<1> DEFINE r == "management_ip"
           s == ReplaceList("dns", to, old)
           g == IF to.gateway = None THEN <<>> ELSE Change("gateway", to, old)
           a == Change("address", to, old)
           lines == s \o Risky(to, old)
<1>1. /\ r \in Resources /\ Keys[r] \subseteq Settings /\ "dns" \in Keys[r] \cap Lists
      /\ "gateway" \in Keys[r] \ Lists /\ "address" \in Keys[r] \ Lists
      /\ \A v : Sets(r, "gateway", v) /\ Sets(r, "address", v)
  BY ResourceNames, KeysOfEach, KeysAreSettings DEF Lists, Sets, Switches
<1>2. IsList(to["dns"]) /\ IsList(old["dns"])
  BY <1>1, ProperLists, AttributesOfEach DEF Lists
<1>3. LinesOf(r, s) /\ Mentions(s) \subseteq {"dns"}
  BY <1>1, <1>2, ListLines, MentionsLists
<1>4. \A m, key \in Keys[r] : m # key => Apart(m, key)
  BY KeysOfEach, WithinIs DEF Apart, Switches
<1>5. /\ LinesOf(r, g) /\ Mentions(g) \subseteq {"gateway"}
      /\ LinesOf(r, a) /\ Mentions(a) \subseteq {"address"}
  BY <1>1, ChangeLines, MentionsChange, LinesNone, MentionsNone
<1>6. Risky(to, old) = g \o a
  BY DEF Risky
<1>7. \A key \in Keys[r] : key # "dns" => Right(r, g, key, to[key]) /\ Right(r, a, key, to[key])
  BY <1>1, <1>4, RightChange, RightNone
<1>8. SUFFICES ASSUME NEW key \in Mentions(lines) \cap (DOMAIN Wanted(r, to) \ Piecemeal)
               PROVE  Carries(After(conf, lines), key, Wanted(r, to)[key])
  BY DEF Carried
<1>9. key \in Keys[r] /\ Wanted(r, to)[key] = to[key] /\ key \notin to.keep
  <2>1. /\ key \in Attributes[r] /\ key \in Unnamed /\ Wanted(r, to)[key] = to[key]
        /\ "keep" \in Attributes[r] => key \notin to.keep
    BY <1>1, WantedKeys
  <2>2. "keep" \notin Unnamed /\ "allow" \notin Unnamed
    BY DEF Unnamed, Lists, OnByDefault, OffByDefault, Named
  <2>3. "keep" \in Attributes[r] /\ key \in {"address", "gateway", "dns"}
    BY <2>1, <2>2, AttributesOfEach
  <2>4. QED
    BY <2>1, <2>3, KeysOfEach
<1> HIDE DEF g, a
<1>10. CASE key = "dns"
  <2> DEFINE mid == After(conf, s)
             b == g \o a
  <2>2. mid["dns"] = to["dns"]
    BY <1>1, <1>2, ReplaceExact
  <2>3. LinesOf(r, b) /\ \A m \in Mentions(b) : Apart(m, "dns")
    <3>1. LinesOf(r, b) /\ Mentions(b) \subseteq {"gateway", "address"}
      BY <1>5, LinesJoin, MentionsJoin DEF LinesOf
    <3>2. QED
      BY <1>1, <1>4, <3>1
  <2> HIDE DEF s, b
  <2>4. ProperConf(mid) /\ IsList(s) /\ IsList(b)
    BY <1>1, <1>3, <2>3, AfterProper DEF LinesOf
  <2>5. After(conf, s \o b) = After(mid, b)
    BY <2>4, AfterJoin
  <2> HIDE DEF mid
  <2>6. After(mid, b)["dns"] = mid["dns"]
    <3>1. Mentions(b) = {b[i].key : i \in DOMAIN b} /\ \A i \in 1..Len(b) : b[i].key \in Mentions(b)
      BY <2>4, MentionsIs DEF Mentions
    <3>2. \A i \in 1..Len(b) : ~Reaches(b[i], "dns")
      BY <2>3, <3>1 DEF Reaches, Apart
    <3>3. QED
      BY <1>1, <2>3, <2>4, <3>2, AfterFrame
  <2>7. QED
    BY <1>6, <1>9, <1>10, <2>2, <2>5, <2>6 DEF Carries, b
<1>11. CASE key # "dns"
  <2>1. Right(r, g, key, to[key]) /\ Right(r, a, key, to[key])
    BY <1>7, <1>9, <1>11
  <2>2. Right(r, s, key, to[key])
    BY <1>1, <1>3, <1>4, <1>9, <1>11, RightApart
  <2> HIDE DEF s
  <2>3. Right(r, s \o (g \o a), key, to[key])
    BY <1>1, <2>1, <2>2, RightJoin
  <2>4. key \notin Lists
    BY <1>9, <1>11, KeysOfEach DEF Lists
  <2>5. QED
    BY <1>6, <1>9, <2>3, <2>4, RightCarries
<1>12. QED
  BY <1>10, <1>11

\* An update, all of it.
LEMMA UpdateCarried ==
  ASSUME NEW r \in Resources, NEW to, Proper(r, to), NEW old, Proper(r, old),
         NEW conf, ProperConf(conf), Known(old, conf)
  PROVE  Carried(r, Flat(Update(r, to, old)), to, conf)
<1>1. CASE r = "system"
  <2> DEFINE name == IF "hostname" \in to.keep THEN <<>> ELSE Change("hostname", to, old)
             lines == SystemLines(to, old)
  <2>1. Update(r, to, old) = ApplyCommands(name, lines)
    BY <1>1 DEF Update, SystemUpdate
  <2>2. IsList(name) /\ IsList(lines) /\ (name = <<>> \/ name = Change("hostname", to, old))
    <3>1. \A k \in Keys["system"] : \A v : Sets("system", k, v)
      BY KeysOfEach DEF Sets, Lists, Switches
    <3>2. \A k \in Keys["system"] : LinesOf("system", Change(k, to, old))
      BY <3>1, ChangeLines
    <3>3. LinesOf("system", lines)
      BY <3>2, LinesJoin, KeysOfEach DEF SystemLines
    <3>4. QED
      BY <3>2, <3>3, EmptyIsList, KeysOfEach DEF LinesOf
  <2> HIDE DEF name, lines
  <2>3. Flat(Update(r, to, old)) = name \o lines
    BY <2>1, <2>2, FlatApplied
  <2>4. Carried("system", name \o lines, to, conf)
    BY <1>1, <2>2, SystemCarried DEF lines
  <2>5. QED
    BY <1>1, <2>3, <2>4
<1>2. CASE r = "management_ip"
  <2>1. IsList(ReplaceList("dns", to, old)) /\ IsList(Risky(to, old))
    <3>1. "dns" \in Keys[r] \cap Lists /\ IsList(to["dns"]) /\ IsList(old["dns"])
      BY <1>2, KeysOfEach, ProperLists, AttributesOfEach DEF Lists
    <3>2. QED
      BY <3>1, ListLines, RiskyLines DEF LinesOf
  <2>2. Update(r, to, old) = ManagementCalls(to, old)
    BY <1>2 DEF Update, ManagementUpdate
  <2>3. old["dns"] = conf["dns"]
    BY <1>2, AttributesOfEach DEF Known, Proper
  <2>4. QED
    BY <1>2, <2>1, <2>2, <2>3, FlatManaged, ManagementCarried
<1>3. CASE r \in {"ntp", "logging"}
  <2>1. /\ Update("ntp", to, old) = ConfigAndSave(NTPLines(to, old))
        /\ Update("logging", to, old) = ConfigAndSave(LoggingLines(to, old))
    BY DEF Update, NTPUpdate, LoggingUpdate
  <2>2. /\ r = "ntp" => IsList(NTPLines(to, old))
        /\ r = "logging" => IsList(LoggingLines(to, old))
    BY <1>3, FlatLines DEF LinesOf
  <2>3. QED
    BY <1>3, <2>1, <2>2, FlatSaved, ListsCarried
<1>4. CASE r = "snmp"
  <2> DEFINE some == ChangeList("communities", to, old)
             lines == some \o Change("contact", to, old)
  <2>1. "communities" \in Keys[r] \cap Lists /\ IsList(to["communities"])
        /\ IsList(old["communities"])
    BY <1>4, KeysOfEach, ProperLists, AttributesOfEach DEF Lists
  <2>2. LinesOf(r, some) /\ Mentions(some) \subseteq {"communities"}
    BY <2>1, ListLines, MentionsLists
  <2>3. Update(r, to, old) = ConfigAndSave(lines)
    BY <1>4 DEF Update, SNMPUpdate
  <2> HIDE DEF some
  <2>4. Carried(r, lines, to, conf)
    BY <1>4, <2>2, SNMPCarried
  <2>5. IsList(lines)
    BY <1>4, <2>2, PlainLines, LinesJoin DEF LinesOf
  <2> HIDE DEF lines
  <2>6. QED
    BY <2>3, <2>4, <2>5, FlatSaved
<1>5. CASE r = "aaa"
  <2> DEFINE login == Change("login", to, old)
             console == Change("console", to, old)
             a == IF to.login = None THEN login ELSE <<>>
             b == IF to.console THEN <<>> ELSE console
             c == IF to.login = None THEN <<>> ELSE login
             d == IF to.console THEN console ELSE <<>>
             lines == a \o b \o c \o d
  <2>1. LinesOf(r, a) /\ LinesOf(r, b) /\ LinesOf(r, c) /\ LinesOf(r, d)
    BY <1>5, PlainLines, LinesNone
  <2>2. Update(r, to, old) = ConfigAndSave(lines)
    BY <1>5 DEF Update, AAAUpdate
  <2>3. Carried(r, lines, to, conf)
    BY <1>5, AAACarried
  <2> HIDE DEF a, b, c, d
  <2>4. IsList(lines)
    BY <2>1, LinesJoin DEF LinesOf
  <2> HIDE DEF lines
  <2>5. QED
    BY <2>2, <2>3, <2>4, FlatSaved
<1>6. CASE r \in {"interface_ve", "vlan"}
  <2>1. /\ Update("interface_ve", to, old) = ConfigAndSave(VELines(to, old))
        /\ Update("vlan", to, old) = ConfigAndSave(VLANLines(to, old))
    BY DEF Update, VEUpdate, VLANUpdate
  <2>2. /\ r = "interface_ve" => IsList(VELines(to, old))
        /\ r = "vlan" => IsList(VLANLines(to, old))
    BY <1>6, FlatLines DEF LinesOf
  <2>3. QED
    BY <1>6, <2>1, <2>2, FlatSaved, VECarried, VLANCarried
<1>7. CASE r = "user"
  <2> DEFINE a == IF old.username = to.username THEN <<>> ELSE <<Line("set", old.username, None)>>
             b == <<Line("set", to.username, to.password)>>
             lines == a \o b
  <2>1. to.username \in Accounts /\ old.username \in Accounts
    BY <1>7 DEF Proper
  <2>2. LinesOf(r, a) /\ LinesOf(r, b)
    BY <1>7, <2>1, UserLines, LinesNone
  <2>3. Update(r, to, old) = ConfigAndSave(lines)
    BY <1>7 DEF Update, UserUpdate
  <2>4. Carried(r, lines, to, conf)
    <3>1. \E name \in Accounts :
            lines = (IF name = to.username THEN <<>> ELSE <<Line("set", name, None)>>)
                      \o <<Line("set", to.username, to.password)>>
      BY <2>1
    <3> HIDE DEF lines
    <3>2. QED
      BY <1>7, <3>1, UserCarried
  <2> HIDE DEF a, b
  <2>5. IsList(lines)
    BY <2>2, LinesJoin DEF LinesOf
  <2> HIDE DEF lines
  <2>6. QED
    BY <2>3, <2>4, <2>5, FlatSaved
<1>8. CASE r = "poe"
  <2> DEFINE lines == Change("power", to, old)
  <2>1. Update(r, to, old) = ConfigAndSave(lines)
    BY <1>8 DEF Update, PoEUpdate
  <2>2. IsList(lines)
    BY PlainLines DEF LinesOf
  <2>3. Carried(r, lines, to, conf)
    BY <1>8, PoECarried
  <2> HIDE DEF lines
  <2>4. QED
    BY <2>1, <2>2, <2>3, FlatSaved
<1>9. CASE r = "raw_config"
  <2>1. LinesOf(r, Destroying(old)) /\ LinesOf(r, ForEach("add", "lines", to.lines))
    BY <1>9, RawLines
  <2>2. Flat(RawUpdate(to, old)) = Destroying(old) \o ForEach("add", "lines", to.lines)
    BY <2>1, FlatRaw DEF LinesOf
  <2>3. Update(r, to, old) = RawUpdate(to, old)
    BY <1>9 DEF Update
  <2>4. QED
    BY <1>9, <2>1, <2>2, <2>3, RawCarried
<1>10. QED
  BY <1>1, <1>2, <1>3, <1>4, <1>5, <1>6, <1>7, <1>8, <1>9, ResourceNames

\* A create, all of it.
LEMMA CreateCarried ==
  ASSUME NEW r \in Resources, NEW to, Proper(r, to), NEW conf, ProperConf(conf)
  PROVE  Carried(r, Flat(Create(r, to, conf)), to, conf)
<1> DEFINE old == Defaults(to)
<1>1. r # "user" => Proper(r, old)
  BY DefaultsProper
<1>2. r \in {"ntp", "logging"} => Known(old, conf)
  <2>1. SUFFICES ASSUME r \in {"ntp", "logging"} PROVE Known(old, conf)
    OBVIOUS
  <2>2. DOMAIN old = Attributes[r] /\ "dns" \notin Attributes[r]
    BY <1>1, <2>1, AttributesOfEach DEF Proper
  <2>3. ASSUME NEW key \in {"servers", "hosts"} \cap DOMAIN old PROVE ToSet(old[key]) = {}
    <3>1. key \in Lists /\ key \in Settings /\ key \in DOMAIN to
      BY DEF Lists, Settings, Unnamed, Defaults
    <3>2. old[key] = <<>>
      BY <3>1, DefaultIs DEF Defaults
    <3>3. QED
      BY <3>2, EmptyIsList
  <2> HIDE DEF old
  <2>4. QED
    BY <2>2, <2>3 DEF Known
<1> HIDE DEF old
<1>3. CASE r = "system"
  <2> DEFINE name == IF "hostname" \in to.keep THEN <<>> ELSE Change("hostname", to, old)
             lines == SystemLines(to, old)
  <2>1. Create(r, to, conf) = ApplyCommands(name, lines)
    BY <1>3 DEF Create, SystemCreate, old
  <2>2. IsList(name) /\ IsList(lines) /\ (name = <<>> \/ name = Change("hostname", to, old))
    <3>1. \A k \in Keys["system"] : \A v : Sets("system", k, v)
      BY KeysOfEach DEF Sets, Lists, Switches
    <3>2. \A k \in Keys["system"] : LinesOf("system", Change(k, to, old))
      BY <3>1, ChangeLines
    <3>3. LinesOf("system", lines)
      BY <3>2, LinesJoin, KeysOfEach DEF SystemLines
    <3>4. QED
      BY <3>2, <3>3, EmptyIsList, KeysOfEach DEF LinesOf
  <2> HIDE DEF name, lines
  <2>3. Flat(Create(r, to, conf)) = name \o lines
    BY <2>1, <2>2, FlatApplied
  <2>4. Carried("system", name \o lines, to, conf)
    BY <1>3, <2>2, SystemCarried DEF lines
  <2>5. QED
    BY <1>3, <2>3, <2>4
<1>4. CASE r = "management_ip"
  <2> DEFINE here == OnDevice(to, conf)
  <2>1. Proper(r, here) /\ here["dns"] = conf["dns"]
    BY <1>4, OnDeviceProper
  <2> HIDE DEF here
  <2>2. IsList(ReplaceList("dns", to, here)) /\ IsList(Risky(to, here))
    <3>1. "dns" \in Keys[r] \cap Lists /\ IsList(to["dns"]) /\ IsList(here["dns"])
      BY <1>4, <2>1, KeysOfEach, ProperLists, AttributesOfEach DEF Lists
    <3>2. QED
      BY <3>1, ListLines, RiskyLines DEF LinesOf
  <2>3. Create(r, to, conf) = ManagementCalls(to, here)
    BY <1>4 DEF Create, ManagementCreate, here
  <2>4. QED
    BY <1>4, <2>1, <2>2, <2>3, FlatManaged, ManagementCarried
<1>5. CASE r \in {"ntp", "logging", "interface_ve", "vlan"}
  <2>1. /\ Create("ntp", to, conf) = ConfigAndSave(NTPLines(to, old))
        /\ Create("logging", to, conf) = ConfigAndSave(LoggingLines(to, old))
        /\ Create("interface_ve", to, conf) = ConfigAndSave(VELines(to, old))
        /\ Create("vlan", to, conf) = ConfigAndSave(VLANLines(to, old))
    BY DEF Create, NTPCreate, LoggingCreate, VECreate, VLANCreate, VLANCreateLines, old
  <2>2. /\ r = "ntp" => IsList(NTPLines(to, old))
        /\ r = "logging" => IsList(LoggingLines(to, old))
        /\ r = "interface_ve" => IsList(VELines(to, old))
        /\ r = "vlan" => IsList(VLANLines(to, old))
    BY <1>1, <1>5, FlatLines DEF LinesOf
  <2>3. CASE r \in {"ntp", "logging"}
    BY <1>1, <1>2, <2>1, <2>2, <2>3, FlatSaved, ListsCarried
  <2>4. CASE r \in {"interface_ve", "vlan"}
    BY <1>1, <2>1, <2>2, <2>4, FlatSaved, VECarried, VLANCarried
  <2>5. QED
    BY <1>5, <2>3, <2>4
<1>6. CASE r = "snmp"
  <2> DEFINE some == ForEach("add", "communities", to.communities)
             lines == some \o Change("contact", to, old)
  <2>1. "communities" \in Keys[r] \cap Lists /\ IsList(to["communities"])
    BY <1>6, KeysOfEach, ProperLists, AttributesOfEach DEF Lists
  <2>2. LinesOf(r, some) /\ Mentions(some) \subseteq {"communities"}
    BY <2>1, ForEachLines, MentionsForEach
  <2>3. Create(r, to, conf) = ConfigAndSave(lines)
    BY <1>6 DEF Create, SNMPCreate, old
  <2> HIDE DEF some
  <2>4. Carried(r, lines, to, conf)
    BY <1>6, <2>2, SNMPCarried
  <2>5. IsList(lines)
    BY <1>6, <2>2, PlainLines, LinesJoin DEF LinesOf
  <2> HIDE DEF lines
  <2>6. QED
    BY <2>3, <2>4, <2>5, FlatSaved
<1>7. CASE r = "aaa"
  <2> DEFINE lines == Change("login", to, old) \o Change("console", to, old)
  <2>1. Create(r, to, conf) = ConfigAndSave(lines)
    BY <1>7 DEF Create, AAACreate, AAALines, old
  <2>2. Carried(r, lines, to, conf)
    BY <1>7, AAACarried
  <2>3. IsList(lines)
    BY PlainLines, LinesJoin DEF LinesOf
  <2> HIDE DEF lines
  <2>4. QED
    BY <2>1, <2>2, <2>3, FlatSaved
<1>8. CASE r = "user"
  <2> DEFINE lines == <<Line("set", to.username, to.password)>>
  <2>1. Create(r, to, conf) = ConfigAndSave(lines)
    BY <1>8 DEF Create, UserCreate
  <2>2. IsList(lines) /\ Carried(r, lines, to, conf)
    BY <1>8, OneIsList, UserCarried
  <2> HIDE DEF lines
  <2>3. QED
    BY <2>1, <2>2, FlatSaved
<1>9. CASE r = "poe"
  <2> DEFINE lines == <<Line("set", "power", to["power"])>>
  <2>1. Create(r, to, conf) = ConfigAndSave(lines)
    BY <1>9 DEF Create, PoECreate
  <2>2. IsList(lines) /\ Carried(r, lines, to, conf)
    BY <1>9, OneIsList, PoECarried
  <2> HIDE DEF lines
  <2>3. QED
    BY <2>1, <2>2, FlatSaved
<1>10. CASE r = "raw_config"
  <2> DEFINE lines == ForEach("add", "lines", to.lines)
  <2>1. Create(r, to, conf) = ConfigAndSave(lines)
    BY <1>10 DEF Create, RawCreate
  <2>2. LinesOf(r, lines) /\ LinesOf(r, <<>>)
    BY <1>10, RawLines, LinesNone
  <2>3. Carried(r, <<>> \o lines, to, conf)
    BY <1>10, <2>2, RawCarried
  <2> HIDE DEF lines
  <2>4. <<>> \o lines = lines /\ IsList(lines)
    BY <2>2, JoinNone DEF LinesOf
  <2>5. QED
    BY <2>1, <2>3, <2>4, FlatSaved
<1>11. QED
  BY <1>3, <1>4, <1>5, <1>6, <1>7, <1>8, <1>9, <1>10, ResourceNames

-----------------------------------------------------------------------------
(* Lines do the same wherever the settings of their resource are the same.   *)

\* What a line does to the settings of its resource depends on them alone.
LEMMA EffectAgrees ==
  ASSUME NEW one, ProperConf(one), NEW two, ProperConf(two), NEW r \in Resources, NEW l,
         IsLine(r, l),
         \A k \in Keys[r] : one[k] = two[k]
  PROVE  \A k \in Keys[r] : Effect(one, l)[k] = Effect(two, l)[k]
<1>1. /\ DOMAIN one = Settings /\ DOMAIN two = Settings /\ Keys[r] \subseteq Settings
      /\ l.key \in Keys[r] /\ l.op \in {"set", "add", "remove", "enter"}
  BY KeysAreSettings DEF ProperConf, IsLine
<1>2. CASE l.op = "set"
  <2>1. Effect(one, l) = Set(one, l.key, l.value) /\ Effect(two, l) = Set(two, l.key, l.value)
    BY <1>2 DEF Effect
  <2>2. \A k \in Keys[r] : Set(one, l.key, l.value)[k] = Set(two, l.key, l.value)[k]
    BY <1>1 DEF Set
  <2>3. QED
    BY <2>1, <2>2
<1>3. CASE l.op = "add"
  <2>1. /\ Effect(one, l) = IF Contains(one[l.key], l.value) THEN one
                            ELSE [one EXCEPT ![l.key] = Append(@, l.value)]
        /\ Effect(two, l) = IF Contains(two[l.key], l.value) THEN two
                            ELSE [two EXCEPT ![l.key] = Append(@, l.value)]
    BY <1>3 DEF Effect
  <2>2. one[l.key] = two[l.key]
    BY <1>1
  <2>3. QED
    BY <1>1, <2>1, <2>2
<1>4. CASE l.op = "remove"
  <2>1. /\ Effect(one, l) = [one EXCEPT ![l.key] = Without(@, <<l.value>>)]
        /\ Effect(two, l) = [two EXCEPT ![l.key] = Without(@, <<l.value>>)]
    BY <1>4 DEF Effect
  <2>2. one[l.key] = two[l.key]
    BY <1>1
  <2>3. QED
    BY <1>1, <2>1, <2>2
<1>5. CASE l.op = "enter"
  <2>1. /\ Effect(one, l) = [one EXCEPT ![l.key] = @ \o Without(l.value, @)]
        /\ Effect(two, l) = [two EXCEPT ![l.key] = @ \o Without(l.value, @)]
    BY <1>5 DEF Effect
  <2>2. one[l.key] = two[l.key]
    BY <1>1
  <2>3. QED
    BY <1>1, <2>1, <2>2
<1>6. QED
  BY <1>1, <1>2, <1>3, <1>4, <1>5

LEMMA AfterAgrees ==
  ASSUME NEW one, ProperConf(one), NEW two, ProperConf(two), NEW r \in Resources, NEW lines,
         LinesOf(r, lines),
         \A k \in Keys[r] : one[k] = two[k]
  PROVE  \A k \in Keys[r] : After(one, lines)[k] = After(two, lines)[k]
<1>1. IsList(lines) /\ Len(lines) \in Nat /\ \A i \in 1..Len(lines) : IsLine(r, lines[i])
  BY ListIs DEF LinesOf
<1>2. PICK f : Trace(one, lines, f) /\ After(one, lines) = f[Len(lines)]
  BY <1>1, AfterIs
<1>3. PICK g : Trace(two, lines, g) /\ After(two, lines) = g[Len(lines)]
  BY <1>1, AfterIs
<1>4. /\ f[0] = one /\ \A n \in 1..Len(lines) : f[n] = Effect(f[n - 1], lines[n])
      /\ g[0] = two /\ \A n \in 1..Len(lines) : g[n] = Effect(g[n - 1], lines[n])
  BY <1>2, <1>3 DEF Trace
<1>5. \A n \in 0..Len(lines) : ProperConf(f[n]) /\ ProperConf(g[n])
  BY <1>2, <1>3, TraceProper
<1> DEFINE S == {n \in 0..Len(lines) : \A k \in Keys[r] : f[n][k] = g[n][k]}
<1>6. 0 \in S
  BY <1>1, <1>4
<1>7. ASSUME NEW n \in 0..(Len(lines) - 1), n \in S PROVE n + 1 \in S
  <2>1. n + 1 \in 1..Len(lines) /\ (n + 1) - 1 = n /\ n + 1 \in 0..Len(lines) /\ n \in 0..Len(lines)
    BY <1>1
  <2>2. /\ f[n + 1] = Effect(f[n], lines[n + 1]) /\ g[n + 1] = Effect(g[n], lines[n + 1])
        /\ IsLine(r, lines[n + 1]) /\ ProperConf(f[n]) /\ ProperConf(g[n])
        /\ \A k \in Keys[r] : f[n][k] = g[n][k]
    BY <1>1, <1>4, <1>5, <1>7, <2>1
  <2>3. \A k \in Keys[r] : Effect(f[n], lines[n + 1])[k] = Effect(g[n], lines[n + 1])[k]
    BY <2>2, EffectAgrees
  <2>4. QED
    BY <2>1, <2>2, <2>3
<1> HIDE DEF S
<1>8. \A k \in 0..Len(lines) : k \in S
  BY <1>1, <1>6, <1>7, AllUpTo
<1>9. QED
  BY <1>1, <1>2, <1>3, <1>8 DEF S

-----------------------------------------------------------------------------
(* The invariant of an operation.                                            *)

Positions == {"idle", "begin", "calls", "rescue"}
Renames == {"no", "asked", "done"}
Results == {"none", "ok", "refused", "unsaved", "lost", "severed", "denied"}

OperationOK(r, wanted, recorded, at, left, recording, changed, renaming, ended) ==
  /\ wanted = Absent \/ wanted \in Plans[r]
  /\ recorded = Absent \/ Proper(r, recorded)
  /\ recording = Absent \/ Proper(r, recording)
  /\ at \in Positions /\ renaming \in Renames /\ ended \in Results
  /\ CallsOf(r, left) /\ (left # <<>> <=> at \in {"calls", "rescue"})
  /\ changed \subseteq Keys[r]
  /\ at = "begin" => changed = {} /\ (wanted # Absent \/ recorded # Absent)
  /\ at = "rescue" => renaming = "done"
  /\ left # <<>> /\ renaming = "asked" => left[1].kind = "hostname" /\ changed = {}
  /\ renaming # "asked" => NoneRenames(left)

Operation(r) ==
  OperationOK(r, config[r], state[r], pc[r], calls[r], new[r], touched[r], rename[r], result[r])

Domains ==
  /\ Managed \subseteq DOMAIN Plans
  /\ DOMAIN state = Managed /\ DOMAIN pc = Managed /\ DOMAIN calls = Managed
  /\ DOMAIN new = Managed /\ DOMAIN touched = Managed /\ DOMAIN rename = Managed
  /\ DOMAIN result = Managed

\* The inductive invariant: the configurations are such as the switch can have,
\* and every operation's place, calls and records fit together.
SettingsInv ==
  /\ ProperConf(running) /\ ProperConf(startup) /\ session \in {"up", "lost"}
  /\ Domains /\ \A r \in Managed : Operation(r)

LEMMA ManagedAreResources == Domains => Managed \subseteq Resources
BY GlobalSettingsAssumption DEF Domains

LEMMA PlansProper ==
  ASSUME NEW r \in DOMAIN Plans, NEW w \in Plans[r]
  PROVE  r \in Resources /\ ProperPlan(r, w) /\ Proper(r, w) /\ w # Absent
<1>1. r \in Resources /\ ProperPlan(r, w)
  BY GlobalSettingsAssumption
<1>2. QED
  BY <1>1, ProperIsPresent DEF ProperPlan

\* It holds at first.
LEMMA SettingsInvInit == Init => SettingsInv
<1> SUFFICES ASSUME Init PROVE SettingsInv
  OBVIOUS
<1>1. PICK G \in Groups :
        config \in {c \in [G -> UNION {Plans[r] : r \in G}] : \A r \in G : c[r] \in Plans[r]}
  BY DEF Init
<1>2. Managed = G /\ G \subseteq DOMAIN Plans /\ \A r \in G : config[r] \in Plans[r]
  BY <1>1, GlobalSettingsAssumption DEF Managed
<1>3. Domains
  BY <1>2 DEF Domains, Init, All
<1>4. ProperConf(Factory)
  BY GlobalSettingsAssumption
<1>5. ASSUME NEW r \in Managed PROVE Operation(r)
  <2>1. /\ state[r] = Absent /\ pc[r] = "idle" /\ calls[r] = <<>> /\ new[r] = Absent
        /\ touched[r] = {} /\ rename[r] = "no" /\ result[r] = "none"
    BY <1>5 DEF Init, All
  <2>2. CallsOf(r, <<>>) /\ Len(<<>>) = 0
    BY CallsNone
  <2>3. QED
    BY <1>2, <2>1, <2>2 DEF Operation, OperationOK, NoneRenames, Positions, Renames, Results
<1>6. QED
  BY <1>3, <1>4, <1>5 DEF SettingsInv, Init

-----------------------------------------------------------------------------
(* Steps of an operation.                                                    *)

\* Only what is of r changes.
OnlyAt(r) ==
  /\ config' = config
  /\ DOMAIN state' = Managed /\ DOMAIN pc' = Managed /\ DOMAIN calls' = Managed
  /\ DOMAIN new' = Managed /\ DOMAIN touched' = Managed /\ DOMAIN rename' = Managed
  /\ DOMAIN result' = Managed
  /\ \A s \in Managed \ {r} :
       /\ state'[s] = state[s] /\ pc'[s] = pc[s] /\ calls'[s] = calls[s] /\ new'[s] = new[s]
       /\ touched'[s] = touched[s] /\ rename'[s] = rename[s] /\ result'[s] = result[s]

\* Lines of r run, and the startup configuration is saved or not.
Ran(r, lines) ==
  /\ LinesOf(r, lines) /\ running' = After(running, lines)
  /\ startup' \in {startup, running'} /\ session' \in {"up", "lost"}
  /\ touched'[r] = touched[r] \cup {lines[i].key : i \in DOMAIN lines}

\* A step of one operation leaves the others as they are.
LEMMA OthersKept ==
  ASSUME SettingsInv, NEW r \in Managed, OnlyAt(r)
  PROVE  Domains' /\ \A s \in Managed \ {r} : Operation(s)'
<1>1. Managed' = Managed
  BY DEF OnlyAt, Managed
<1>2. Domains'
  BY <1>1 DEF OnlyAt, SettingsInv, Domains
<1>3. ASSUME NEW s \in Managed \ {r} PROVE Operation(s)'
  <2>1. Operation(s)
    BY DEF SettingsInv
  <2>2. config'[s] = config[s]
    BY DEF OnlyAt
  <2>3. /\ state'[s] = state[s] /\ pc'[s] = pc[s] /\ calls'[s] = calls[s] /\ new'[s] = new[s]
        /\ touched'[s] = touched[s] /\ rename'[s] = rename[s] /\ result'[s] = result[s]
    BY DEF OnlyAt
  <2>4. QED
    BY <2>1, <2>2, <2>3 DEF Operation
<1>4. QED
  BY <1>2, <1>3

LEMMA RanKept ==
  ASSUME SettingsInv, NEW r \in Managed, NEW lines, Ran(r, lines)
  PROVE  ProperConf(running') /\ ProperConf(startup') /\ touched'[r] \subseteq Keys[r]
<1>1. r \in Resources
  BY ManagedAreResources DEF SettingsInv
<1>2. ProperConf(running') /\ ProperConf(startup')
  <2>1. ProperConf(After(running, lines))
    BY <1>1, AfterProper DEF SettingsInv, Ran
  <2>2. running' = After(running, lines) /\ (startup' = startup \/ startup' = running')
    BY DEF Ran
  <2>3. ProperConf(running')
    BY <2>1, <2>2
  <2>4. CASE startup' = startup
    BY <2>3, <2>4 DEF SettingsInv
  <2>5. CASE startup' = running'
    BY <2>3, <2>5
  <2>6. QED
    BY <2>2, <2>3, <2>4, <2>5
<1>3. touched[r] \subseteq Keys[r]
  BY DEF SettingsInv, Operation, OperationOK
<1>4. {lines[i].key : i \in DOMAIN lines} \subseteq Keys[r]
  BY <1>1, LinesTouch DEF Ran
<1>5. QED
  BY <1>2, <1>3, <1>4 DEF Ran

LEMMA NothingRan ==
  ASSUME NEW r, running' = running, startup' \in {startup, running}, session' \in {"up", "lost"},
         touched'[r] = touched[r]
  PROVE  Ran(r, <<>>)
<1>1. {<<>>[i].key : i \in DOMAIN <<>>} = {}
  BY EmptyIsList, ListIs
<1>2. QED
  BY <1>1, LinesNone, AfterNone DEF Ran

\* An operation that ended.
LEMMA EndedOK ==
  ASSUME SettingsInv, NEW r \in Managed, OnlyAt(r), pc'[r] = "idle", calls'[r] = <<>>,
         state'[r] \in {state[r], new[r], new'[r]}, new'[r] = Absent \/ Proper(r, new'[r]),
         touched'[r] \subseteq Keys[r], rename'[r] \in Renames, result'[r] \in Results
  PROVE  Operation(r)'
<1>1. Operation(r)
  BY DEF SettingsInv
<1>2. CallsOf(r, <<>>) /\ Len(<<>>) = 0
  BY CallsNone
<1>3. config'[r] = config[r]
  BY DEF OnlyAt
<1>4. state'[r] = Absent \/ Proper(r, state'[r])
  BY <1>1 DEF Operation, OperationOK
<1>5. QED
  BY <1>1, <1>2, <1>3, <1>4 DEF Operation, OperationOK, NoneRenames, Positions

LEMMA DomainsAre ==
  ASSUME SettingsInv
  PROVE  /\ DOMAIN config = Managed /\ DOMAIN state = Managed /\ DOMAIN pc = Managed
         /\ DOMAIN calls = Managed /\ DOMAIN new = Managed /\ DOMAIN touched = Managed
         /\ DOMAIN rename = Managed /\ DOMAIN result = Managed /\ Managed \subseteq Resources
         /\ Managed \subseteq DOMAIN Plans
BY ManagedAreResources DEF SettingsInv, Domains, Managed

\* Each step of an operation, in turn.
LEMMA CallDoneKept ==
  ASSUME SettingsInv, NEW r \in Managed, CallDone(r)
  PROVE  OnlyAt(r) /\ Ran(r, Head(calls[r]).lines) /\ Operation(r)'
<1> DEFINE call == Head(calls[r])
           rest == Tail(calls[r])
<1>1. /\ pc[r] = "calls" /\ session = "up"
      /\ running' = After(running, call.lines)
      /\ touched' = [touched EXCEPT ![r] = @ \cup {call.lines[i].key : i \in DOMAIN call.lines}]
      /\ startup' = IF call.kind \in {"save", "risky"} THEN running' ELSE startup
      /\ rename' = [rename EXCEPT ![r] = IF call.kind = "hostname" THEN "done" ELSE @]
      /\ new' = new /\ session' = session /\ config' = config
      /\ calls' = [calls EXCEPT ![r] = rest]
      /\ IF rest # <<>> THEN UNCHANGED <<state, pc, result>>
         ELSE /\ pc' = [pc EXCEPT ![r] = "idle"] /\ result' = [result EXCEPT ![r] = "ok"]
              /\ state' = [state EXCEPT ![r] = new'[r]]
  BY DEF CallDone, Run, Continue
<1>2. Operation(r) /\ CallsOf(r, calls[r]) /\ calls[r] # <<>>
  BY <1>1 DEF SettingsInv, Operation, OperationOK
<1>3. /\ call = calls[r][1] /\ LinesOf(r, call.lines) /\ 1 \in 1..Len(calls[r])
      /\ CallsOf(r, rest) /\ NoneRenames(rest)
  BY <1>2, FirstCall
<1> HIDE DEF call, rest
<1>4. OnlyAt(r)
  BY <1>1, DomainsAre DEF OnlyAt
<1>5. Ran(r, call.lines)
  <2>1. touched'[r] = touched[r] \cup {call.lines[i].key : i \in DOMAIN call.lines}
    BY <1>1, DomainsAre
  <2>2. QED
    BY <1>1, <1>3, <2>1 DEF Ran, SettingsInv
<1>6. /\ calls'[r] = rest /\ rename'[r] \in {rename[r], "done"} /\ new'[r] = new[r]
      /\ config'[r] = config[r] /\ (rename[r] = "asked" => rename'[r] = "done")
  <2>1. rename[r] = "asked" => call.kind = "hostname"
    BY <1>2, <1>3 DEF Operation, OperationOK
  <2>2. QED
    BY <1>1, <2>1, DomainsAre
<1>7. touched'[r] \subseteq Keys[r]
  BY <1>5, RanKept
<1>8. new'[r] = Absent \/ Proper(r, new'[r])
  BY <1>2, <1>6 DEF Operation, OperationOK
<1>9. rename'[r] \in Renames \ {"asked"}
  <2>1. rename[r] \in Renames
    BY <1>2 DEF Operation, OperationOK
  <2>2. rename'[r] \in {rename[r], "done"} /\ (rename[r] = "asked" => rename'[r] = "done")
    BY <1>6
  <2>3. CASE rename'[r] = "done"
    BY <2>3 DEF Renames
  <2>4. CASE rename'[r] = rename[r]
    BY <2>1, <2>2, <2>4
  <2>5. QED
    BY <2>2, <2>3, <2>4
<1>10. Operation(r)'
  <2>1. CASE rest = <<>>
    <3>1. pc'[r] = "idle" /\ result'[r] = "ok" /\ state'[r] = new'[r] /\ calls'[r] = <<>>
      BY <1>1, <1>6, <2>1, DomainsAre
    <3>2. QED
      BY <1>4, <1>7, <1>8, <1>9, <3>1, EndedOK DEF Results
  <2>2. CASE rest # <<>>
    <3>1. pc'[r] = pc[r] /\ result'[r] = result[r] /\ state'[r] = state[r]
      BY <1>1, <2>2
    <3>2. QED
      BY <1>1, <1>2, <1>3, <1>6, <1>7, <1>8, <1>9, <2>2, <3>1 DEF Operation, OperationOK, Positions
  <2>3. QED
    BY <2>1, <2>2
<1>11. QED
  BY <1>4, <1>5, <1>10 DEF call

\* The ways an operation ends.
LEMMA EndIs ==
  ASSUME SettingsInv, NEW r \in Managed, NEW outcome, End(r, outcome), config' = config,
         DOMAIN state' = Managed, \A s \in Managed \ {r} : state'[s] = state[s],
         new' = new, rename' = rename,
         DOMAIN touched' = Managed, \A s \in Managed \ {r} : touched'[s] = touched[s]
  PROVE  /\ OnlyAt(r) /\ pc'[r] = "idle" /\ calls'[r] = <<>> /\ result'[r] = outcome
         /\ new'[r] = new[r] /\ rename'[r] = rename[r]
         /\ (new'[r] = Absent \/ Proper(r, new'[r])) /\ rename'[r] \in Renames
<1>1. Operation(r)
  BY DEF SettingsInv
<1>2. OnlyAt(r)
  BY DomainsAre DEF OnlyAt, End
<1>3. pc'[r] = "idle" /\ calls'[r] = <<>> /\ result'[r] = outcome
  BY DomainsAre DEF End
<1>4. QED
  BY <1>1, <1>2, <1>3 DEF Operation, OperationOK

LEMMA SomeRan ==
  ASSUME SettingsInv, NEW r \in Managed, NEW lines, LinesOf(r, lines), Run(r, lines),
         startup' \in {startup, running'}, session' \in {"up", "lost"}
  PROVE  /\ Ran(r, lines) /\ DOMAIN touched' = Managed
         /\ \A s \in Managed \ {r} : touched'[s] = touched[s]
BY DomainsAre DEF Ran, Run

LEMMA CallRefusedKept ==
  ASSUME SettingsInv, NEW r \in Managed, CallRefused(r)
  PROVE  OnlyAt(r) /\ Operation(r)' /\ \E lines : Ran(r, lines)
<1> DEFINE call == Head(calls[r])
<1>1. /\ pc[r] = "calls" /\ session' = session /\ config' = config /\ state' = state
      /\ new' = new /\ rename' = rename /\ Fail(r, call)
      /\ CASE call.kind = "save" -> UNCHANGED <<running, startup, touched>>
           [] call.kind = "risky" ->
                \/ /\ \E i \in DOMAIN call.lines : Run(r, RemoveAt(call.lines, i))
                   /\ startup' = running'
                \/ Run(r, call.lines) /\ UNCHANGED startup
           [] OTHER -> /\ \E n \in 0..(Len(call.lines) - 1) : Run(r, SubSeq(call.lines, 1, n))
                       /\ UNCHANGED startup
  BY DEF CallRefused
<1>2. Operation(r) /\ CallsOf(r, calls[r]) /\ calls[r] # <<>>
  BY <1>1 DEF SettingsInv, Operation, OperationOK
<1>3. LinesOf(r, call.lines) /\ DOMAIN call.lines = 1..Len(call.lines) /\ Len(call.lines) \in Nat
  BY <1>2, FirstCall, ListIs DEF LinesOf
<1> HIDE DEF call
<1>4. /\ DOMAIN touched' = Managed /\ \A s \in Managed \ {r} : touched'[s] = touched[s]
      /\ \E lines : Ran(r, lines)
  <2>1. session' \in {"up", "lost"}
    BY <1>1 DEF SettingsInv
  <2>2. CASE call.kind = "save"
    <3>1. running' = running /\ startup' = startup /\ touched' = touched
      BY <1>1, <2>2
    <3>2. QED
      BY <2>1, <3>1, NothingRan, DomainsAre
  <2>3. CASE call.kind = "risky"
    <3>1. CASE (\E i \in DOMAIN call.lines : Run(r, RemoveAt(call.lines, i))) /\ startup' = running'
      <4>1. PICK i \in 1..Len(call.lines) : Run(r, RemoveAt(call.lines, i))
        BY <1>3, <3>1
      <4>2. LinesOf(r, RemoveAt(call.lines, i))
        BY <1>3, OtherLines
      <4>3. QED
        BY <2>1, <3>1, <4>1, <4>2, SomeRan
    <3>2. CASE Run(r, call.lines) /\ UNCHANGED startup
      BY <1>3, <2>1, <3>2, SomeRan
    <3>3. QED
      BY <1>1, <2>3, <3>1, <3>2
  <2>4. CASE call.kind \notin {"save", "risky"}
    <3>1. PICK n \in 0..(Len(call.lines) - 1) : Run(r, SubSeq(call.lines, 1, n))
               /\ startup' = startup
      BY <1>1, <2>4
    <3>2. LinesOf(r, SubSeq(call.lines, 1, n))
      <4>1. n \in 0..Len(call.lines)
        BY <1>3
      <4>2. QED
        BY <1>3, <4>1, FirstLines
    <3>3. QED
      BY <2>1, <3>1, <3>2, SomeRan
  <2>5. QED
    BY <2>2, <2>3, <2>4
<1>5. touched'[r] \subseteq Keys[r]
  BY <1>4, RanKept
<1>6. CASE Rescues(r, call)
  <2>1. /\ pc' = [pc EXCEPT ![r] = "rescue"] /\ calls' = [calls EXCEPT ![r] = Saving]
        /\ result' = result
    BY <1>1, <1>6 DEF Fail
  <2>2. r = "system" /\ rename[r] = "done"
    BY <1>6 DEF Rescues
  <2>3. OnlyAt(r)
    BY <1>1, <1>4, <2>1, DomainsAre DEF OnlyAt
  <2>4. CallsOf(r, Saving) /\ Saving # <<>> /\ NoneRenames(Saving)
    <3>1. PICK last : Saving = <<last>> /\ last.kind = "save"
      BY SavingIs
    <3>2. Lined(r, <<>>) /\ Len(<<>>) = 0
      BY EmptyIsList DEF Lined
    <3>3. CallsOf(r, <<>> \o Saving)
      <4>1. Lined(r, <<>>) /\ Len(<<>>) <= 2
        BY <3>2
      <4>2. QED
        BY <4>1, CallsSaved, Zenon
    <3>4. <<>> \o Saving = Saving
      BY <3>1, OneIsList, ListIs
    <3>5. QED
      BY <3>1, <3>3, <3>4, OneIsList DEF NoneRenames
  <2>5. pc'[r] = "rescue" /\ calls'[r] = Saving /\ result'[r] = result[r]
    BY <2>1, DomainsAre
  <2>6. Operation(r)'
    <3>1. config'[r] = config[r] /\ state'[r] = state[r] /\ new'[r] = new[r] /\ rename'[r] = "done"
      BY <1>1, <2>2
    <3>2. QED
      BY <1>2, <1>5, <2>4, <2>5, <3>1 DEF Operation, OperationOK, Positions, Renames
  <2>7. QED
    BY <1>4, <2>3, <2>6
<1>7. CASE ~Rescues(r, call)
  <2> DEFINE outcome == IF call.kind = "save" THEN "unsaved" ELSE "refused"
  <2>1. End(r, outcome) /\ outcome \in Results
    BY <1>1, <1>7 DEF Fail, Results
  <2> HIDE DEF outcome
  <2>2. /\ OnlyAt(r) /\ pc'[r] = "idle" /\ calls'[r] = <<>> /\ result'[r] = outcome
        /\ (new'[r] = Absent \/ Proper(r, new'[r])) /\ rename'[r] \in Renames
    BY <1>1, <1>4, <2>1, EndIs, DomainsAre
  <2>3. QED
    BY <1>1, <1>4, <1>5, <2>1, <2>2, EndedOK
<1>8. QED
  BY <1>6, <1>7

LEMMA SessionLostKept ==
  ASSUME SettingsInv, NEW r \in Managed, SessionLost(r)
  PROVE  OnlyAt(r) /\ Operation(r)' /\ \E lines : Ran(r, lines)
<1> DEFINE call == Head(calls[r])
<1>1. /\ pc[r] = "calls" /\ session' = "lost" /\ config' = config /\ new' = new /\ rename' = rename
      /\ \E n \in 0..Len(call.lines) :
           /\ Run(r, SubSeq(call.lines, 1, n))
           /\ IF call.kind \in {"save", "risky"} /\ n = Len(call.lines)
              THEN startup' \in {startup, running'} ELSE UNCHANGED startup
      /\ \/ End(r, "lost") /\ state' = state
         \/ End(r, "severed") /\ state' = [state EXCEPT ![r] = new[r]]
  BY DEF SessionLost
<1>2. Operation(r) /\ CallsOf(r, calls[r]) /\ calls[r] # <<>>
  BY <1>1 DEF SettingsInv, Operation, OperationOK
<1>3. LinesOf(r, call.lines) /\ DOMAIN call.lines = 1..Len(call.lines) /\ Len(call.lines) \in Nat
  BY <1>2, FirstCall, ListIs DEF LinesOf
<1> HIDE DEF call
<1>4. /\ DOMAIN touched' = Managed /\ \A s \in Managed \ {r} : touched'[s] = touched[s]
      /\ \E lines : Ran(r, lines)
  <2>1. PICK n \in 0..Len(call.lines) :
          Run(r, SubSeq(call.lines, 1, n)) /\ startup' \in {startup, running'}
    BY <1>1
  <2>2. LinesOf(r, SubSeq(call.lines, 1, n))
    BY <1>3, FirstLines
  <2>3. QED
    BY <1>1, <2>1, <2>2, SomeRan
<1>5. touched'[r] \subseteq Keys[r]
  BY <1>4, RanKept
<1>6. PICK outcome \in {"lost", "severed"} :
        End(r, outcome) /\ (state' = state \/ state' = [state EXCEPT ![r] = new[r]])
  BY <1>1
<1>7. /\ DOMAIN state' = Managed /\ state'[r] \in {state[r], new[r]}
      /\ \A s \in Managed \ {r} : state'[s] = state[s]
  BY <1>6, DomainsAre
<1>8. /\ OnlyAt(r) /\ pc'[r] = "idle" /\ calls'[r] = <<>> /\ result'[r] = outcome
      /\ (new'[r] = Absent \/ Proper(r, new'[r])) /\ rename'[r] \in Renames
  BY <1>1, <1>4, <1>6, <1>7, EndIs
<1>9. outcome \in Results
  BY DEF Results
<1>10. Operation(r)'
  BY <1>5, <1>7, <1>8, <1>9, EndedOK
<1>11. QED
  BY <1>4, <1>8, <1>10

\* The operation ends and leaves the switch as it is, or saves it.
LEMMA EndsKept ==
  ASSUME SettingsInv, NEW r \in Managed, NEW outcome \in Results, End(r, outcome),
         config' = config, state' = state, new' = new, rename' = rename, touched' = touched,
         running' = running, startup' \in {startup, running}, session' \in {"up", "lost"}
  PROVE  OnlyAt(r) /\ Operation(r)' /\ Ran(r, <<>>)
<1>1. DOMAIN state' = Managed /\ DOMAIN touched' = Managed
  BY DomainsAre
<1>2. /\ OnlyAt(r) /\ pc'[r] = "idle" /\ calls'[r] = <<>> /\ result'[r] = outcome
      /\ (new'[r] = Absent \/ Proper(r, new'[r])) /\ rename'[r] \in Renames
  BY <1>1, EndIs
<1>3. Ran(r, <<>>)
  BY NothingRan
<1>4. touched'[r] \subseteq Keys[r]
  BY <1>3, RanKept
<1>5. Operation(r)'
  BY <1>2, <1>4, EndedOK
<1>6. QED
  BY <1>2, <1>3, <1>5

LEMMA CallDeadKept ==
  ASSUME SettingsInv, NEW r \in Managed, CallDead(r)
  PROVE  OnlyAt(r) /\ Operation(r)' /\ Ran(r, <<>>)
<1>1. session' \in {"up", "lost"} /\ "lost" \in Results
  BY DEF CallDead, switchVars, SettingsInv, Results
<1>2. /\ End(r, "lost") /\ config' = config /\ state' = state /\ new' = new /\ rename' = rename
      /\ touched' = touched /\ running' = running /\ startup' \in {startup, running}
  BY DEF CallDead, switchVars
<1>3. QED
  BY <1>1, <1>2, EndsKept

LEMMA RescueKept ==
  ASSUME SettingsInv, NEW r \in Managed, Rescue(r)
  PROVE  OnlyAt(r) /\ Operation(r)' /\ Ran(r, <<>>)
<1>1. session' \in {"up", "lost"} /\ "refused" \in Results
  BY DEF Rescue, SettingsInv, Results
<1>2. /\ End(r, "refused") /\ config' = config /\ state' = state /\ new' = new /\ rename' = rename
      /\ touched' = touched /\ running' = running /\ startup' \in {startup, running}
  BY DEF Rescue
<1>3. QED
  BY <1>1, <1>2, EndsKept

LEMMA RescueFailsKept ==
  ASSUME SettingsInv, NEW r \in Managed, RescueFails(r)
  PROVE  OnlyAt(r) /\ Operation(r)' /\ Ran(r, <<>>)
<1>1. session' \in {"up", "lost"} /\ "unsaved" \in Results
  BY DEF RescueFails, Results
<1>2. /\ End(r, "unsaved") /\ config' = config /\ state' = state /\ new' = new /\ rename' = rename
      /\ touched' = touched /\ running' = running /\ startup' \in {startup, running}
  BY DEF RescueFails
<1>3. QED
  BY <1>1, <1>2, EndsKept

\* What an operation begins with.
LEMMA BeginsWith ==
  ASSUME SettingsInv, NEW r \in Managed, pc[r] = "begin"
  PROVE  LET plan == IF config[r] = Absent THEN Absent ELSE Keeping(config[r], state[r], running)
             todo == CASE config[r] = Absent -> Delete(r, state[r])
                       [] state[r] = Absent  -> Create(r, plan, running)
                       [] OTHER              -> Update(r, plan, state[r])
         IN (plan = Absent \/ Proper(r, plan)) /\ CallsOf(r, todo)
<1> DEFINE plan == IF config[r] = Absent THEN Absent ELSE Keeping(config[r], state[r], running)
<1> DEFINE todo == CASE config[r] = Absent -> Delete(r, state[r])
                     [] state[r] = Absent  -> Create(r, plan, running)
                     [] OTHER              -> Update(r, plan, state[r])
<1>1. r \in Resources /\ r \in DOMAIN Plans
  BY DomainsAre
<1>2. /\ config[r] = Absent \/ config[r] \in Plans[r]
      /\ state[r] = Absent \/ Proper(r, state[r])
      /\ config[r] # Absent \/ state[r] # Absent
  BY DEF SettingsInv, Operation, OperationOK
<1>3. ProperConf(running)
  BY DEF SettingsInv
<1>4. ASSUME config[r] # Absent PROVE Proper(r, plan)
  <2>1. ProperPlan(r, config[r])
    BY <1>1, <1>2, <1>4, PlansProper
  <2>2. Proper(r, Keeping(config[r], state[r], running))
    BY <1>1, <1>2, <1>3, <2>1, KeepingProper
  <2>3. QED
    BY <1>4, <2>2
<1>5. config[r] = Absent => plan = Absent
  OBVIOUS
<1> HIDE DEF plan
<1>6. CallsOf(r, todo)
  <2>1. CASE config[r] = Absent
    <3>1. todo = Delete(r, state[r])
      BY <1>2, <2>1
    <3>2. QED
      BY <1>1, <1>2, <2>1, <3>1, DeleteCalls
  <2>2. CASE config[r] # Absent /\ state[r] = Absent
    <3>1. todo = Create(r, plan, running)
      BY <2>2
    <3>2. QED
      BY <1>1, <1>3, <1>4, <2>2, <3>1, CreateCalls
  <2>3. CASE config[r] # Absent /\ state[r] # Absent
    <3>1. todo = Update(r, plan, state[r])
      BY <2>3
    <3>2. QED
      BY <1>1, <1>2, <1>4, <2>3, <3>1, UpdateCalls
  <2>4. QED
    BY <2>1, <2>2, <2>3
<1> HIDE DEF todo
<1>7. QED
  BY <1>4, <1>5, <1>6 DEF plan, todo

LEMMA BeginKept ==
  ASSUME SettingsInv, NEW r \in Managed, Begin(r)
  PROVE  OnlyAt(r) /\ Operation(r)' /\ Ran(r, <<>>)
<1> DEFINE plan == IF config[r] = Absent THEN Absent ELSE Keeping(config[r], state[r], running)
<1> DEFINE todo == CASE config[r] = Absent -> Delete(r, state[r])
                     [] state[r] = Absent  -> Create(r, plan, running)
                     [] OTHER              -> Update(r, plan, state[r])
<1> DEFINE asked == IF \E i \in DOMAIN todo : todo[i].kind = "hostname" THEN "asked" ELSE "no"
<1>1. /\ pc[r] = "begin" /\ touched' = touched /\ config' = config
      /\ running' = running /\ startup' = startup /\ session' = session
      /\ rename' = [rename EXCEPT ![r] = asked] /\ new' = [new EXCEPT ![r] = plan]
      /\ \/ \E outcome \in {"lost", "denied"} : End(r, outcome) /\ state' = state
         \/ Continue(r, <<>>)
         \/ /\ todo # <<>> /\ pc' = [pc EXCEPT ![r] = "calls"]
            /\ calls' = [calls EXCEPT ![r] = todo] /\ state' = state /\ result' = result
  BY DEF Begin, switchVars
<1>2. (plan = Absent \/ Proper(r, plan)) /\ CallsOf(r, todo)
  BY <1>1, BeginsWith
<1> HIDE DEF plan, todo
<1>3. /\ DOMAIN todo = 1..Len(todo) /\ Len(todo) \in Nat
      /\ \A i \in 1..Len(todo) : todo[i].kind = "hostname" => i = 1
  BY <1>2, ListIs DEF CallsOf
<1>4. /\ asked = "asked" => todo[1].kind = "hostname"
      /\ asked # "asked" => asked = "no" /\ NoneRenames(todo)
  BY <1>3 DEF NoneRenames
<1> HIDE DEF asked
<1>5. Operation(r) /\ touched[r] = {}
  BY <1>1 DEF SettingsInv, Operation, OperationOK
<1>6. Ran(r, <<>>)
  <2>1. session' \in {"up", "lost"}
    BY <1>1 DEF SettingsInv
  <2>2. QED
    BY <1>1, <2>1, NothingRan
<1>7. touched'[r] \subseteq Keys[r] /\ touched'[r] = {}
  BY <1>1, <1>5
<1>8. new'[r] = plan /\ rename'[r] = asked /\ config'[r] = config[r]
  BY <1>1, DomainsAre
<1>9. rename'[r] \in Renames
  BY <1>4, <1>8 DEF Renames
<1>10. CASE \E outcome \in {"lost", "denied"} : End(r, outcome) /\ state' = state
  <2>1. PICK outcome \in {"lost", "denied"} : End(r, outcome) /\ state' = state
    BY <1>10
  <2>2. OnlyAt(r)
    BY <1>1, <2>1, DomainsAre DEF OnlyAt, End
  <2>3. pc'[r] = "idle" /\ calls'[r] = <<>> /\ result'[r] \in Results
    BY <2>1, DomainsAre DEF End, Results
  <2>4. QED
    BY <1>2, <1>6, <1>7, <1>8, <1>9, <2>1, <2>2, <2>3, EndedOK
<1>11. CASE Continue(r, <<>>)
  <2>1. /\ calls' = [calls EXCEPT ![r] = <<>>] /\ pc' = [pc EXCEPT ![r] = "idle"]
        /\ result' = [result EXCEPT ![r] = "ok"] /\ state' = [state EXCEPT ![r] = new'[r]]
    BY <1>11 DEF Continue
  <2>2. OnlyAt(r)
    BY <1>1, <2>1, DomainsAre DEF OnlyAt
  <2>3. pc'[r] = "idle" /\ calls'[r] = <<>> /\ result'[r] \in Results /\ state'[r] = new'[r]
    BY <2>1, DomainsAre DEF Results
  <2>4. QED
    BY <1>2, <1>6, <1>7, <1>8, <1>9, <2>2, <2>3, EndedOK
<1>12. CASE /\ todo # <<>> /\ pc' = [pc EXCEPT ![r] = "calls"]
            /\ calls' = [calls EXCEPT ![r] = todo] /\ state' = state /\ result' = result
  <2>1. OnlyAt(r)
    BY <1>1, <1>12, DomainsAre DEF OnlyAt
  <2>2. pc'[r] = "calls" /\ calls'[r] = todo /\ state'[r] = state[r] /\ result'[r] = result[r]
    BY <1>12, DomainsAre
  <2>3. QED
    BY <1>2, <1>4, <1>5, <1>6, <1>7, <1>8, <1>9, <1>12, <2>1, <2>2
      DEF Operation, OperationOK, Positions
<1>13. QED
  BY <1>1, <1>10, <1>11, <1>12

LEMMA StepKept ==
  ASSUME SettingsInv, NEW r \in Managed, Step(r)
  PROVE  OnlyAt(r) /\ Operation(r)' /\ \E lines : Ran(r, lines)
<1>1. CASE Begin(r)
  BY <1>1, BeginKept
<1>2. CASE CallDone(r)
  BY <1>2, CallDoneKept
<1>3. CASE CallRefused(r)
  BY <1>3, CallRefusedKept
<1>4. CASE SessionLost(r)
  BY <1>4, SessionLostKept
<1>5. CASE CallDead(r)
  BY <1>5, CallDeadKept
<1>6. CASE Rescue(r)
  BY <1>6, RescueKept
<1>7. CASE RescueFails(r)
  BY <1>7, RescueFailsKept
<1>8. QED
  BY <1>1, <1>2, <1>3, <1>4, <1>5, <1>6, <1>7 DEF Step

\* A refresh, and an edit.
LEMMA PlanKept ==
  ASSUME SettingsInv, Plan
  PROVE  SettingsInv'
<1>1. /\ AtRest /\ session' = "up" /\ new' = All(Absent)
      /\ state' = [r \in Managed |-> IF state[r] = Absent THEN Absent
                                     ELSE ReadBack(r, state[r], running)]
      /\ \/ /\ pc' = [r \in Managed |-> IF Differs(config[r], state'[r]) THEN "begin" ELSE "idle"]
            /\ result' = result
         \/ PlanRefused(state') /\ pc' = pc
            /\ result' = [result EXCEPT !["management_ip"] = "denied"]
      /\ touched' = [r \in Managed |-> IF pc'[r] = "begin" THEN {} ELSE touched[r]]
      /\ rename' = [r \in Managed |-> IF pc'[r] = "begin" THEN "no" ELSE rename[r]]
      /\ running' = running /\ startup' = startup /\ config' = config /\ calls' = calls
  BY DEF Plan
<1>2. Managed' = Managed
  BY <1>1 DEF Managed
<1>3. DOMAIN result = Managed /\ DOMAIN pc = Managed /\ DOMAIN calls = Managed
  BY DomainsAre
<1>4. DOMAIN pc' = Managed /\ DOMAIN result' = Managed
  BY <1>1, <1>3
<1>5. Domains'
  BY <1>1, <1>2, <1>3, <1>4 DEF Domains, SettingsInv, All
<1>6. ASSUME NEW r \in Managed PROVE Operation(r)'
  <2>1. Operation(r) /\ r \in Resources /\ pc[r] = "idle"
    BY <1>1, <1>6, DomainsAre DEF SettingsInv, AtRest
  <2>2. state'[r] = Absent \/ Proper(r, state'[r])
    <3>1. ProperConf(running)
      BY DEF SettingsInv
    <3>2. state[r] = Absent \/ Proper(r, state[r])
      BY <2>1 DEF Operation, OperationOK
    <3>3. state'[r] = IF state[r] = Absent THEN Absent ELSE ReadBack(r, state[r], running)
      BY <1>1, <1>6
    <3>4. state[r] # Absent => ReadBack(r, state[r], running) = Absent
                                 \/ Proper(r, ReadBack(r, state[r], running))
      BY <2>1, <3>1, <3>2, ReadBackProper
    <3>5. QED
      BY <3>3, <3>4
  <2>3. pc'[r] \in {"idle", "begin"}
    BY <1>1, <1>6, <2>1
  <2>4. pc'[r] = "begin" => config[r] # Absent \/ state'[r] # Absent
    <3>1. ASSUME pc'[r] = "begin" PROVE Differs(config[r], state'[r])
      BY <1>1, <1>6, <2>1, <3>1
    <3>2. Differs(Absent, Absent) = FALSE
      BY DEF Differs
    <3>3. QED
      BY <3>1, <3>2
  <2>5. calls'[r] = <<>> /\ calls[r] = <<>> /\ CallsOf(r, <<>>) /\ Len(<<>>) = 0
    BY <1>1, <2>1, CallsNone DEF Operation, OperationOK
  <2>6. /\ touched'[r] = IF pc'[r] = "begin" THEN {} ELSE touched[r]
        /\ rename'[r] = IF pc'[r] = "begin" THEN "no" ELSE rename[r]
        /\ new'[r] = Absent
    BY <1>1, <1>6 DEF All
  <2>7. result'[r] \in {result[r], "denied"}
    BY <1>1, <1>3, <1>6
  <2>8. result'[r] \in Results /\ rename'[r] \in Renames /\ touched'[r] \subseteq Keys[r]
    BY <2>1, <2>6, <2>7 DEF Operation, OperationOK, Results, Renames
  <2>9. config'[r] = Absent \/ config'[r] \in Plans[r]
    BY <1>1, <2>1 DEF Operation, OperationOK
  <2>10. QED
    BY <1>1, <2>2, <2>3, <2>4, <2>5, <2>6, <2>8, <2>9 DEF Operation, OperationOK, NoneRenames,
       Positions
<1>7. QED
  BY <1>1, <1>2, <1>5, <1>6 DEF SettingsInv

LEMMA EditKept ==
  ASSUME SettingsInv, NEW r \in Managed, Edit(r)
  PROVE  SettingsInv'
<1>1. PICK w \in Plans[r] \cup {Absent} : config' = [config EXCEPT ![r] = w]
  BY DEF Edit
<1>2. /\ AtRest /\ running' = running /\ startup' = startup /\ session' = session /\ state' = state
      /\ pc' = pc /\ calls' = calls /\ new' = new /\ touched' = touched /\ rename' = rename
      /\ result' = result
  BY DEF Edit, switchVars, opVars
<1>3. Managed' = Managed /\ DOMAIN config = Managed
  BY <1>1 DEF Managed
<1>4. Domains'
  BY <1>2, <1>3 DEF Domains, SettingsInv
<1>5. ASSUME NEW s \in Managed PROVE Operation(s)'
  <2>1. Operation(s) /\ pc[s] = "idle"
    BY <1>2, <1>5 DEF SettingsInv, AtRest
  <2>2. config'[s] = Absent \/ config'[s] \in Plans[s]
    BY <1>1, <1>3, <2>1 DEF Operation, OperationOK
  <2>3. /\ state'[s] = state[s] /\ pc'[s] = pc[s] /\ calls'[s] = calls[s] /\ new'[s] = new[s]
        /\ touched'[s] = touched[s] /\ rename'[s] = rename[s] /\ result'[s] = result[s]
    BY <1>2
  <2>4. QED
    BY <2>1, <2>2, <2>3 DEF Operation, OperationOK
<1>6. QED
  BY <1>2, <1>3, <1>4, <1>5 DEF SettingsInv

\* So every step preserves it.
LEMMA SettingsInvNext ==
  ASSUME SettingsInv, [Next]_vars
  PROVE  SettingsInv'
<1>1. CASE \E r \in Managed : Edit(r)
  BY <1>1, EditKept
<1>2. CASE \E r \in Managed : Step(r)
  <2>1. PICK r \in Managed : Step(r)
    BY <1>2
  <2>2. OnlyAt(r) /\ Operation(r)'
    BY <2>1, StepKept
  <2>3. PICK lines : Ran(r, lines)
    BY <2>1, StepKept
  <2>4. Domains' /\ \A s \in Managed \ {r} : Operation(s)'
    BY <2>2, OthersKept
  <2>5. ProperConf(running') /\ ProperConf(startup') /\ session' \in {"up", "lost"}
    BY <2>3, RanKept DEF Ran
  <2>6. Managed' = Managed
    BY <2>2 DEF OnlyAt, Managed
  <2>7. QED
    BY <2>2, <2>4, <2>5, <2>6 DEF SettingsInv
<1>3. CASE Plan
  BY <1>3, PlanKept
<1>4. CASE Reboot
  <2>1. /\ running' = startup /\ startup' = startup /\ session' = "lost" /\ config' = config
        /\ state' = state /\ pc' = pc /\ calls' = calls /\ new' = new /\ touched' = touched
        /\ rename' = rename /\ result' = result
    BY <1>4 DEF Reboot, opVars
  <2>2. Managed' = Managed
    BY <2>1 DEF Managed
  <2>3. QED
    BY <2>1, <2>2 DEF SettingsInv, Domains, Operation
<1>5. CASE UNCHANGED vars
  <2>1. /\ running' = running /\ startup' = startup /\ session' = session /\ config' = config
        /\ state' = state /\ pc' = pc /\ calls' = calls /\ new' = new /\ touched' = touched
        /\ rename' = rename /\ result' = result
    BY <1>5 DEF vars, switchVars, opVars
  <2>2. Managed' = Managed
    BY <2>1 DEF Managed
  <2>3. QED
    BY <2>1, <2>2 DEF SettingsInv, Domains, Operation
<1>6. QED
  BY <1>1, <1>2, <1>3, <1>4, <1>5 DEF Next

LEMMA SettingsInvAlways == Spec => []SettingsInv
<1>1. SettingsInv /\ [Next]_vars => SettingsInv'
  BY SettingsInvNext
<1>2. QED
  BY <1>1, SettingsInvInit, PTL DEF Spec

\* Every variable has its type in every behaviour; in particular a recorded
\* state has the attributes of the plans of its resource, and an operation has
\* calls left exactly while it is making them (each resource's Create, Read,
\* Update and Delete).
THEOREM SettingsTypes == Spec => []TypeOK
<1>1. SettingsInv => TypeOK
  <2> SUFFICES ASSUME SettingsInv PROVE TypeOK
    OBVIOUS
  <2>1. DOMAIN running = Settings /\ DOMAIN startup = Settings /\ session \in {"up", "lost"}
    BY DEF SettingsInv, ProperConf
  <2>2. ASSUME NEW r \in Managed
        PROVE  /\ pc[r] \in {"idle", "begin", "calls", "rescue"}
               /\ calls[r] # <<>> <=> pc[r] \in {"calls", "rescue"}
               /\ \A w \in Recordable(r), p \in Plans[r] : DOMAIN w = DOMAIN p
               /\ touched[r] \subseteq Settings /\ rename[r] \in {"no", "asked", "done"}
               /\ result[r] \in {"none", "ok", "refused", "unsaved", "lost", "severed", "denied"}
    <3>1. Operation(r) /\ r \in Resources /\ r \in DOMAIN Plans
      BY <2>2, DomainsAre DEF SettingsInv
    <3>2. \A p \in Plans[r] : Proper(r, p)
      BY <3>1, PlansProper
    <3>3. \A w \in Recordable(r) : Proper(r, w)
      BY <3>1, <3>2 DEF Operation, OperationOK, Recordable
    <3>4. \A w \in Recordable(r), p \in Plans[r] : DOMAIN w = DOMAIN p
      BY <3>2, <3>3 DEF Proper
    <3>5. touched[r] \subseteq Settings
      BY <3>1, KeysAreSettings DEF Operation, OperationOK
    <3>6. QED
      BY <3>1, <3>4, <3>5 DEF Operation, OperationOK, Positions, Renames, Results
  <2>3. QED
    BY <2>1, <2>2 DEF TypeOK
<1>2. QED
  BY <1>1, SettingsInvAlways, PTL

-----------------------------------------------------------------------------
(* What an operation that ended well has changed is saved.                   *)

Saved(r) == \A key \in touched[r] : startup[key] = running[key]

\* How an operation ends that leaves nothing unsaved.
EndedSaved(r, ended, renaming) ==
  ended = "ok" \/ (r = "system" /\ ended = "refused" /\ renaming # "no")

SavedInv == \A r \in Managed : (pc[r] = "idle" /\ EndedSaved(r, result[r], rename[r])) => Saved(r)

\* The lines of one operation disturb nothing that another one has saved.
LEMMA OthersSaved ==
  ASSUME SettingsInv, SavedInv, NEW r \in Managed, OnlyAt(r), NEW lines, Ran(r, lines),
         NEW s \in Managed \ {r}
  PROVE  (pc'[s] = "idle" /\ EndedSaved(s, result'[s], rename'[s])) => Saved(s)'
<1> SUFFICES ASSUME pc'[s] = "idle", EndedSaved(s, result'[s], rename'[s])
             PROVE  \A key \in touched'[s] : startup'[key] = running'[key]
  BY DEF Saved
<1>1. /\ pc[s] = "idle" /\ result'[s] = result[s] /\ rename'[s] = rename[s]
      /\ touched'[s] = touched[s]
  BY DEF OnlyAt
<1>2. Saved(s)
  BY <1>1 DEF SavedInv
<1>3. ASSUME NEW key \in touched[s] PROVE startup'[key] = running'[key]
  <2>1. r \in Resources /\ s \in Resources /\ key \in Keys[s]
    BY DomainsAre DEF SettingsInv, Operation, OperationOK
  <2>2. key \notin Keys[r] /\ key \in Settings
    BY <2>1, KeysApart, KeysAreSettings
  <2>3. running' = After(running, lines) /\ LinesOf(r, lines) /\ startup' \in {startup, running'}
    BY DEF Ran
  <2>4. After(running, lines)[key] = running[key]
    BY <2>1, <2>2, <2>3, AfterApart DEF SettingsInv
  <2>5. startup[key] = running[key]
    BY <1>2, <1>3 DEF Saved
  <2>6. QED
    BY <2>3, <2>4, <2>5
<1>4. QED
  BY <1>1, <1>3

LEMMA EndPC ==
  ASSUME SettingsInv, NEW r \in Managed, NEW outcome, End(r, outcome)
  PROVE  pc'[r] = "idle" /\ result'[r] = outcome
BY DomainsAre DEF End

\* An operation of its own, when it ends.
LEMMA OwnSaved ==
  ASSUME SettingsInv, SavedInv, NEW r \in Managed, Step(r),
         pc'[r] = "idle", EndedSaved(r, result'[r], rename'[r])
  PROVE  Saved(r)'
<1> SUFFICES \A key \in touched'[r] : startup'[key] = running'[key]
  BY DEF Saved
<1>1. Operation(r) /\ r \in Managed
  BY DEF SettingsInv
<1>2. CASE Begin(r)
  <2>1. touched' = touched /\ pc[r] = "begin"
    BY <1>2 DEF Begin
  <2>2. touched[r] = {}
    BY <1>1, <2>1 DEF Operation, OperationOK
  <2>3. QED
    BY <2>1, <2>2
<1>3. CASE CallDone(r)
  <2> DEFINE call == Head(calls[r])
             rest == Tail(calls[r])
  <2>1. /\ pc[r] = "calls"
        /\ startup' = IF call.kind \in {"save", "risky"} THEN running' ELSE startup
        /\ rest # <<>> => pc' = pc
    BY <1>3 DEF CallDone, Continue
  <2>2. CallsOf(r, calls[r]) /\ calls[r] # <<>>
    BY <1>1, <2>1 DEF Operation, OperationOK
  <2>3. rest = <<>>
    BY <2>1
  <2>4. call.kind \in {"save", "risky"}
    BY <2>2, <2>3, FirstCall
  <2>5. QED
    BY <2>1, <2>4
<1>4. CASE CallRefused(r)
  <2> DEFINE call == Head(calls[r])
  <2>1. /\ pc[r] = "calls" /\ rename' = rename /\ Fail(r, call)
        /\ CASE call.kind = "save" -> UNCHANGED <<running, startup, touched>>
             [] call.kind = "risky" ->
                  \/ /\ \E i \in DOMAIN call.lines : Run(r, RemoveAt(call.lines, i))
                     /\ startup' = running'
                  \/ Run(r, call.lines) /\ UNCHANGED startup
             [] OTHER -> /\ \E n \in 0..(Len(call.lines) - 1) : Run(r, SubSeq(call.lines, 1, n))
                         /\ UNCHANGED startup
    BY <1>4 DEF CallRefused
  <2>2. CallsOf(r, calls[r]) /\ calls[r] # <<>>
    BY <1>1, <2>1 DEF Operation, OperationOK
  <2>3. /\ call = calls[r][1] /\ call.kind \in Kinds /\ LinesOf(r, call.lines)
        /\ call.kind = "hostname" => Len(call.lines) = 1
        /\ call.kind = "risky" => r = "management_ip"
    BY <2>2, FirstCall
  <2>4. 1 \in 1..Len(calls[r])
    BY <2>2, FirstCall
  <2> HIDE DEF call
  <2>5. ~Rescues(r, call)
    <3>1. ASSUME Rescues(r, call) PROVE FALSE
      <4>1. pc' = [pc EXCEPT ![r] = "rescue"]
        BY <2>1, <3>1 DEF Fail
      <4>2. QED
        BY <4>1, DomainsAre
    <3>2. QED
      BY <3>1
  <2>6. End(r, IF call.kind = "save" THEN "unsaved" ELSE "refused")
    BY <2>1, <2>5 DEF Fail
  <2>7. result'[r] = IF call.kind = "save" THEN "unsaved" ELSE "refused"
    BY <2>6, EndPC
  <2>8. call.kind # "save" /\ r = "system" /\ rename[r] # "no"
    BY <2>1, <2>7 DEF EndedSaved
  <2>9. call.kind # "config" \/ rename[r] # "done"
    BY <2>5, <2>8 DEF Rescues
  <2>10. call.kind \in {"config", "hostname"}
    BY <2>3, <2>8 DEF Kinds
  <2>11. rename[r] \in {"asked", "done"}
    BY <1>1, <2>8 DEF Operation, OperationOK, Renames
  <2>12. rename[r] = "asked" => call.kind = "hostname" /\ touched[r] = {}
    BY <1>1, <2>2, <2>3 DEF Operation, OperationOK
  <2>13. rename[r] # "asked" => call.kind # "hostname"
    BY <1>1, <2>3, <2>4 DEF Operation, OperationOK, NoneRenames
  <2>14. rename[r] = "asked" /\ call.kind = "hostname" /\ touched[r] = {}
    BY <2>9, <2>10, <2>11, <2>12, <2>13
  <2>15. PICK n \in 0..(Len(call.lines) - 1) : Run(r, SubSeq(call.lines, 1, n))
    BY <2>1, <2>14
  <2>16. n = 0
    BY <2>3, <2>14
  <2>17. IsList(call.lines)
    BY <2>3 DEF LinesOf
  <2> DEFINE part == SubSeq(call.lines, 1, n)
  <2>18. LinesOf(r, part) /\ Len(part) = n
    <3>1. n \in 0..Len(call.lines)
      BY <2>16, <2>17, ListIs
    <3>2. QED
      BY <2>3, <3>1, FirstLines
  <2>19. touched'[r] = touched[r] \cup {part[i].key : i \in DOMAIN part}
    BY <2>15, DomainsAre DEF Run
  <2> HIDE DEF part
  <2>20. DOMAIN part = {}
    <3>1. DOMAIN part = 1..0
      BY <2>16, <2>18, ListIs DEF LinesOf
    <3>2. QED
      BY <3>1
  <2>21. QED
    BY <2>14, <2>20, <2>19
<1>5. CASE SessionLost(r)
  <2>1. End(r, "lost") \/ End(r, "severed")
    BY <1>5 DEF SessionLost
  <2>2. QED
    BY <2>1, EndPC DEF EndedSaved
<1>6. CASE CallDead(r)
  <2>1. End(r, "lost")
    BY <1>6 DEF CallDead
  <2>2. QED
    BY <2>1, EndPC DEF EndedSaved
<1>7. CASE Rescue(r)
  BY <1>7 DEF Rescue
<1>8. CASE RescueFails(r)
  <2>1. End(r, "unsaved")
    BY <1>8 DEF RescueFails
  <2>2. QED
    BY <2>1, EndPC DEF EndedSaved
<1>9. QED
  BY <1>2, <1>3, <1>4, <1>5, <1>6, <1>7, <1>8 DEF Step

\* Every step preserves what is saved: a call of one resource saves, or leaves
\* alone, what another has changed, and a reboot makes the two the same.
LEMMA SavedInvNext ==
  ASSUME SettingsInv, SavedInv, [Next]_vars
  PROVE  SavedInv'
<1>1. CASE \E r \in Managed : Step(r)
  <2>1. PICK r \in Managed : Step(r)
    BY <1>1
  <2>2. OnlyAt(r) /\ \E lines : Ran(r, lines)
    BY <2>1, StepKept
  <2>3. Managed' = Managed
    BY <2>2 DEF OnlyAt, Managed
  <2>4. ASSUME NEW s \in Managed, pc'[s] = "idle", EndedSaved(s, result'[s], rename'[s])
        PROVE  Saved(s)'
    <3>1. CASE s = r
      BY <2>1, <2>4, <3>1, OwnSaved
    <3>2. CASE s # r
      BY <2>2, <2>4, <3>2, OthersSaved
    <3>3. QED
      BY <3>1, <3>2
  <2>5. QED
    BY <2>3, <2>4 DEF SavedInv
<1>2. CASE Plan
  <2>1. /\ AtRest /\ running' = running /\ startup' = startup /\ config' = config
        /\ \/ result' = result
           \/ pc' = pc /\ result' = [result EXCEPT !["management_ip"] = "denied"]
        /\ touched' = [r \in Managed |-> IF pc'[r] = "begin" THEN {} ELSE touched[r]]
        /\ rename' = [r \in Managed |-> IF pc'[r] = "begin" THEN "no" ELSE rename[r]]
    BY <1>2 DEF Plan
  <2>2. Managed' = Managed
    BY <2>1 DEF Managed
  <2>3. ASSUME NEW s \in Managed, pc'[s] = "idle", EndedSaved(s, result'[s], rename'[s])
        PROVE  Saved(s)'
    <3>1. touched'[s] = touched[s] /\ rename'[s] = rename[s] /\ pc[s] = "idle"
      BY <2>1, <2>3 DEF AtRest
    <3>2. result'[s] \in {result[s], "denied"}
      BY <2>1, <2>3, DomainsAre
    <3>3. result'[s] = result[s]
      BY <2>3, <3>2 DEF EndedSaved
    <3>4. Saved(s)
      BY <2>3, <3>1, <3>3 DEF SavedInv
    <3>5. QED
      BY <2>1, <3>1, <3>4 DEF Saved
  <2>4. QED
    BY <2>2, <2>3 DEF SavedInv
<1>3. CASE \E r \in Managed : Edit(r)
  <2>1. PICK r \in Managed : Edit(r)
    BY <1>3
  <2>2. /\ running' = running /\ startup' = startup /\ pc' = pc /\ touched' = touched
        /\ rename' = rename /\ result' = result
        /\ \E w : config' = [config EXCEPT ![r] = w]
    BY <2>1 DEF Edit, switchVars, opVars
  <2>3. Managed' = Managed
    BY <2>2 DEF Managed
  <2>4. QED
    BY <2>2, <2>3 DEF SavedInv, Saved
<1>4. CASE Reboot
  <2>1. running' = startup /\ startup' = startup /\ config' = config
    BY <1>4 DEF Reboot
  <2>2. QED
    BY <2>1 DEF SavedInv, Saved, Managed
<1>5. CASE UNCHANGED vars
  <2>1. /\ running' = running /\ startup' = startup /\ pc' = pc /\ touched' = touched
        /\ rename' = rename /\ result' = result /\ config' = config
    BY <1>5 DEF vars, switchVars, opVars
  <2>2. Managed' = Managed
    BY <2>1 DEF Managed
  <2>3. QED
    BY <2>1, <2>2 DEF SavedInv, Saved
<1>6. QED
  BY <1>1, <1>2, <1>3, <1>4, <1>5 DEF Next

LEMMA SavedInvAlways == Spec => []SavedInv
<1>1. Init => SavedInv
  BY DEF Init, SavedInv, Saved, EndedSaved, All
<1>2. SettingsInv /\ SavedInv /\ [Next]_vars => SavedInv'
  BY SavedInvNext
<1>3. QED
  BY <1>1, <1>2, SettingsInvAlways, PTL DEF Spec

\* A rename that was refused leaves nothing of itself applied but unsaved: the
\* save of applyCommands in system.go covers every line that may be refused after
\* the hostname went live.
THEOREM RenamesStrandNothing == Spec => []RenameStrandsNothing
<1>1. SavedInv => RenameStrandsNothing
  BY DEF SavedInv, EndedSaved, Saved, RenameStrandsNothing
<1>2. QED
  BY <1>1, SavedInvAlways, PTL

-----------------------------------------------------------------------------
(* The risky batch of icx_management_ip.                                     *)

GatewayLine(to) == Line("set", "gateway", to.gateway)
AddressLine(to) == Line("set", "address", to.address)

\* The lines of a batch, for a switch that has this gateway.
Batch(lines, to, gateway) ==
  \/ lines = <<GatewayLine(to)>>
  \/ lines = <<AddressLine(to)>> /\ to.gateway \in {None, gateway}
  \/ lines = <<GatewayLine(to), AddressLine(to)>>

ServersOnly(call) ==
  call.kind # "risky" /\ \A j \in 1..Len(call.lines) : call.lines[j].key = "dns"

\* Of these calls only the last may be a batch, and one that is has leave and
\* fits the switch it is sent to.
MovesRightly(c, to, gateway, up) ==
  \A i \in 1..Len(c) :
    \/ ServersOnly(c[i])
    \/ /\ i = Len(c) /\ c[i].kind = "risky" /\ to # Absent /\ to.allow
       /\ \E known : Batch(c[i].lines, to, known) /\ (up = "up" => known = gateway)

\* The batch, in the order of its lines.
LEMMA RiskyIs ==
  ASSUME NEW to, NEW old
  PROVE  Risky(to, old) = <<>> \/ Batch(Risky(to, old), to, old.gateway)
<1> DEFINE G == GatewayLine(to)
           A == AddressLine(to)
<1>1. Change("gateway", to, old) = IF to.gateway = old.gateway THEN <<>> ELSE <<G>>
  BY DEF Change, GatewayLine
<1>2. Change("address", to, old) = IF to.address = old.address THEN <<>> ELSE <<A>>
  BY DEF Change, AddressLine
<1>3. /\ <<>> \o <<>> = <<>> /\ <<>> \o <<A>> = <<A>> /\ <<G>> \o <<>> = <<G>>
      /\ <<G>> \o <<A>> = <<G, A>>
  <2>1. <<>> \o <<>> = <<>>
    OBVIOUS
  <2>2. QED
    BY <2>1, ShortJoins, Zenon
<1> DEFINE first == IF to.gateway = None THEN <<>> ELSE Change("gateway", to, old)
<1>4. Risky(to, old) = first \o Change("address", to, old)
  BY DEF Risky
<1>5. first = <<G>> \/ (first = <<>> /\ to.gateway \in {None, old.gateway})
  BY <1>1
<1> HIDE DEF first, G, A
<1>6. Risky(to, old) = <<>> \/ Risky(to, old) = <<G>> \/ Risky(to, old) = <<G, A>>
        \/ (Risky(to, old) = <<A>> /\ to.gateway \in {None, old.gateway})
  <2>1. CASE to.address = old.address
    BY <1>2, <1>3, <1>4, <1>5, <2>1
  <2>2. CASE to.address # old.address
    BY <1>2, <1>3, <1>4, <1>5, <2>2
  <2>3. QED
    BY <2>1, <2>2
<1>7. QED
  BY <1>6 DEF Batch, G, A

LEMMA ServerLines ==
  ASSUME NEW to, NEW old, IsList(to["dns"]), IsList(old["dns"])
  PROVE  LET dns == ReplaceList("dns", to, old)
         IN IsList(dns) /\ \A j \in 1..Len(dns) : dns[j].key = "dns"
<1> DEFINE a == ForEach("remove", "dns", old["dns"])
           b == Entering("dns", to["dns"])
<1>1. /\ IsList(a) /\ IsList(b) /\ Len(a) \in Nat /\ Len(b) \in Nat
      /\ \A j \in 1..Len(a) : a[j].key = "dns"
      /\ \A j \in 1..Len(b) : b[j].key = "dns"
  <2>1. \A op, e : Line(op, "dns", e).key = "dns"
    BY DEF Line
  <2>2. /\ IsList(a) /\ Len(a) = Len(old["dns"])
        /\ \A j \in 1..Len(old["dns"]) : a[j] = Line("remove", "dns", old["dns"][j])
    BY ForEachIs
  <2>3. IsList(b) /\ \A j \in 1..Len(b) : b[j].key = "dns"
    <3>1. Mentions(b) \subseteq {"dns"} /\ IsList(b)
      BY MentionsEntering
    <3> HIDE DEF b
    <3>2. QED
      BY <3>1, MentionsIs
  <2> HIDE DEF a, b
  <2>4. Len(a) \in Nat /\ Len(b) \in Nat
    BY <2>2, <2>3, ListIs
  <2>5. QED
    BY <2>1, <2>2, <2>3, <2>4
<1>2. ReplaceList("dns", to, old) = IF to["dns"] = old["dns"] THEN <<>> ELSE a \o b
  BY DEF ReplaceList, Entering
<1> HIDE DEF a, b
<1>3. /\ IsList(a \o b) /\ Len(a \o b) = Len(a) + Len(b)
      /\ \A j \in 1..(Len(a) + Len(b)) : (a \o b)[j] = IF j <= Len(a) THEN a[j] ELSE b[j - Len(a)]
  BY <1>1, JoinIsList
<1>4. \A j \in 1..(Len(a) + Len(b)) :
        (j <= Len(a) => j \in 1..Len(a)) /\ (~(j <= Len(a)) => j - Len(a) \in 1..Len(b))
  BY <1>1
<1>5. \A j \in 1..(Len(a) + Len(b)) : (a \o b)[j].key = "dns"
  BY <1>1, <1>3, <1>4
<1>6. IsList(<<>>) /\ Len(<<>>) = 0
  BY EmptyIsList
<1> DEFINE dns == ReplaceList("dns", to, old)
<1>7. dns = <<>> \/ dns = a \o b
  BY <1>2
<1> HIDE DEF dns
<1>8. IsList(dns) /\ \A j \in 1..Len(dns) : dns[j].key = "dns"
  <2>1. CASE dns = <<>>
    BY <1>6, <2>1
  <2>2. CASE dns = a \o b
    BY <1>3, <1>5, <2>2
  <2>3. QED
    BY <1>7, <2>1, <2>2
<1>9. QED
  BY <1>8 DEF dns

\* What an operation with leave sends.
LEMMA ManagementMoves ==
  ASSUME NEW to, Proper("management_ip", to), NEW old, Proper("management_ip", old),
         to.allow \/ Risky(to, old) = <<>>, NEW gateway, NEW up, up = "up" => old.gateway = gateway
  PROVE  MovesRightly(ManagementCalls(to, old), to, gateway, up)
<1> DEFINE dns == ReplaceList("dns", to, old)
           risky == Risky(to, old)
           servers == Call("config", dns)
           batch == Call("risky", risky)
           save == Call("save", <<>>)
<1>1. IsList(to["dns"]) /\ IsList(old["dns"])
  BY ProperLists, ResourceNames, AttributesOfEach DEF Lists
<1>2. IsList(dns) /\ \A j \in 1..Len(dns) : dns[j].key = "dns"
  BY <1>1, ServerLines
<1>3. risky = <<>> \/ Batch(risky, to, old.gateway)
  BY RiskyIs
<1>4. to # Absent
  BY ProperIsPresent, ResourceNames
<1>5. /\ servers.kind = "config" /\ servers.lines = dns /\ batch.kind = "risky"
      /\ batch.lines = risky
      /\ save.kind = "save" /\ save.lines = <<>>
  BY DEF Call
<1>6. ManagementCalls(to, old) = IF risky = <<>> THEN ConfigAndSave(dns)
      ELSE Config(dns) \o <<batch>>
  BY DEF ManagementCalls
<1>7. Config(dns) = IF dns = <<>> THEN <<>> ELSE <<servers>>
  BY DEF Config
<1>8. ConfigAndSave(dns) = IF dns = <<>> THEN <<>> ELSE Config(dns) \o <<save>>
  BY DEF ConfigAndSave, Saving
<1> HIDE DEF dns, risky, servers, batch, save
<1>9. ServersOnly(servers) /\ ServersOnly(save)
  <2>1. Len(<<>>) = 0
    BY EmptyIsList
  <2>2. QED
    BY <1>2, <1>5, <2>1 DEF ServersOnly
<1>10. <<>> \o <<batch>> = <<batch>> /\ <<servers>> \o <<batch>> = <<servers, batch>>
       /\ <<servers>> \o <<save>> = <<servers, save>>
  BY ShortJoins, Zenon
<1>11. ManagementCalls(to, old) \in {<<>>, <<servers, save>>}
         \/ (risky # <<>> /\ ManagementCalls(to, old) \in {<<batch>>, <<servers, batch>>})
  BY <1>6, <1>7, <1>8, <1>10
<1> DEFINE c == ManagementCalls(to, old)
<1>12. \A i \in 1..Len(c) : ServersOnly(c[i]) \/ (i = Len(c) /\ risky # <<>> /\ c[i] = batch)
  <2>1. CASE c = <<>>
    BY <2>1
  <2>2. CASE c = <<servers, save>>
    BY <1>9, <2>2
  <2>3. CASE c = <<batch>> /\ risky # <<>>
    BY <2>3
  <2>4. CASE c = <<servers, batch>> /\ risky # <<>>
    BY <1>9, <2>4
  <2>5. QED
    BY <1>11, <2>1, <2>2, <2>3, <2>4
<1> HIDE DEF c
<1>13. risky # <<>> => /\ batch.kind = "risky" /\ to # Absent /\ to.allow
                       /\ Batch(batch.lines, to, old.gateway)
  BY <1>3, <1>4, <1>5 DEF risky
<1>14. MovesRightly(c, to, gateway, up)
  BY <1>12, <1>13 DEF MovesRightly
<1>15. QED
  BY <1>14 DEF c

\* While the session lasts, a batch that is still to be sent was made for the
\* gateway the switch has, and so is the state an operation begins with.
MoveInv ==
  LET r == "management_ip" IN
  r \in Managed =>
    /\ MovesRightly(calls[r], new[r], running["gateway"], session)
    /\ (session = "up" /\ pc[r] = "begin" /\ state[r] # Absent) =>
         state[r].gateway = running["gateway"]

LEMMA SessionsLast ==
  ASSUME NEW r \in Managed, Step(r), session' = "up"
  PROVE  session = "up"
BY DEF Step, Begin, CallDone, CallRefused, SessionLost, CallDead, Rescue, RescueFails, switchVars

LEMMA NoMoves == ASSUME NEW to, NEW gateway, NEW up PROVE MovesRightly(<<>>, to, gateway, up)
<1>1. Len(<<>>) = 0
  BY EmptyIsList
<1>2. QED
  BY <1>1 DEF MovesRightly

LEMMA GatewayIsOwn ==
  /\ "gateway" \in Keys["management_ip"] /\ "address" \in Keys["management_ip"]
  /\ "gateway" \in Settings /\ "address" \in Settings
  /\ "management_ip" \in Resources
BY KeysOfEach, ResourceNames DEF Settings, Unnamed, Named

\* The others leave the addressing alone.
LEMMA OthersStay ==
  ASSUME SettingsInv, NEW s \in Managed, s # "management_ip", NEW lines, Ran(s, lines)
  PROVE  running'["gateway"] = running["gateway"] /\ running'["address"] = running["address"]
<1>1. s \in Resources
  BY DomainsAre
<1>2. "gateway" \notin Keys[s] /\ "address" \notin Keys[s]
  BY <1>1, GatewayIsOwn, KeysApart
<1>3. QED
  BY <1>1, <1>2, GatewayIsOwn, AfterApart DEF Ran, SettingsInv

\* So do lines about name servers.
LEMMA ServersStay ==
  ASSUME NEW conf, ProperConf(conf), NEW lines, LinesOf("management_ip", lines),
         \A j \in 1..Len(lines) : lines[j].key = "dns"
  PROVE  After(conf, lines)["gateway"] = conf["gateway"]
         /\ After(conf, lines)["address"] = conf["address"]
<1>1. Within("dns") = {}
  BY WithinIs DEF Switches
<1>2. \A j \in 1..Len(lines) : ~Reaches(lines[j], "gateway") /\ ~Reaches(lines[j], "address")
  BY <1>1 DEF Reaches
<1>3. QED
  BY <1>2, GatewayIsOwn, AfterFrame

\* An operation that begins.
LEMMA BeginMoves ==
  ASSUME SettingsInv, MoveInv, "management_ip" \in Managed, Begin("management_ip")
  PROVE  MovesRightly(calls["management_ip"], new["management_ip"], running["gateway"], session)'
<1> DEFINE r == "management_ip"
<1> DEFINE plan == IF config[r] = Absent THEN Absent ELSE Keeping(config[r], state[r], running)
<1> DEFINE todo == CASE config[r] = Absent -> Delete(r, state[r])
                     [] state[r] = Absent  -> Create(r, plan, running)
                     [] OTHER              -> Update(r, plan, state[r])
<1> DEFINE old == IF state[r] = Absent THEN Fresh(r, config[r], running) ELSE state[r]
<1>1. /\ pc[r] = "begin" /\ running' = running /\ session' = session
      /\ new' = [new EXCEPT ![r] = plan]
      /\ \/ calls' = [calls EXCEPT ![r] = <<>>]
         \/ ~Denied(r, plan, old) /\ todo # <<>> /\ calls' = [calls EXCEPT ![r] = todo]
  BY DEF Begin, switchVars, End, Continue
<1>2. (plan = Absent \/ Proper(r, plan)) /\ (config[r] = Absent => plan = Absent)
  BY <1>1, BeginsWith
<1>3. /\ config[r] = Absent \/ config[r] \in Plans[r]
      /\ state[r] = Absent \/ Proper(r, state[r])
      /\ config[r] # Absent \/ state[r] # Absent
  BY <1>1 DEF SettingsInv, Operation, OperationOK
<1>4. ProperConf(running)
  BY DEF SettingsInv
<1>5. config[r] # Absent => Proper(r, config[r]) /\ Proper(r, plan)
  <2>1. ASSUME config[r] # Absent PROVE ProperPlan(r, config[r]) /\ Proper(r, config[r])
    BY <1>3, <2>1, PlansProper, DomainsAre
  <2>2. config[r] # Absent => plan = Keeping(config[r], state[r], running)
    OBVIOUS
  <2> HIDE DEF plan
  <2>3. QED
    BY <1>3, <1>4, <2>1, <2>2, KeepingProper, DomainsAre
<1>6. new'[r] = plan
  BY <1>1, DomainsAre
<1>7. CASE calls' = [calls EXCEPT ![r] = <<>>]
  <2>1. calls'[r] = <<>>
    BY <1>7, DomainsAre
  <2>2. QED
    BY <2>1, NoMoves
<1>8. CASE ~Denied(r, plan, old) /\ todo # <<>> /\ calls' = [calls EXCEPT ![r] = todo]
  <2>1. calls'[r] = todo
    BY <1>8, DomainsAre
  <2>2. config[r] # Absent
    <3>1. ASSUME config[r] = Absent PROVE FALSE
      <4>1. todo = Delete(r, state[r])
        BY <1>3, <3>1
      <4>2. Delete("management_ip", state[r]) = <<>>
        BY DEF Delete, ManagementDelete
      <4>3. QED
        BY <1>8, <4>1, <4>2
    <3>2. QED
      BY <3>1
  <2>3. Proper(r, plan) /\ plan # Absent
    BY <1>5, <2>2, ProperIsPresent, GatewayIsOwn
  <2>4. plan.allow \/ Risky(plan, old) = <<>>
    BY <1>8, <2>3 DEF Denied
  <2>5. CASE state[r] = Absent
    <3> DEFINE device == OnDevice(plan, running)
    <3>1. todo = Create(r, plan, running) /\ old = Fresh(r, config[r], running)
      BY <2>2, <2>5
    <3>2. Create("management_ip", plan, running) = ManagementCalls(plan, device)
      BY DEF Create, ManagementCreate
    <3>3. Fresh("management_ip", config[r], running) = OnDevice(config[r], running)
      BY DEF Fresh
    <3>4. /\ Proper(r, device) /\ device.address = running["address"]
          /\ device.gateway = running["gateway"]
          /\ OnDevice(config[r], running).address = running["address"]
          /\ OnDevice(config[r], running).gateway = running["gateway"]
      BY <1>4, <1>5, <2>2, OnDeviceProper
    <3> HIDE DEF device, plan, todo, old
    <3>5. Risky(plan, OnDevice(config[r], running)) = Risky(plan, device)
      BY <3>4 DEF Risky, Change
    <3>6. plan.allow \/ Risky(plan, device) = <<>>
      BY <2>4, <3>1, <3>3, <3>5
    <3>7. MovesRightly(ManagementCalls(plan, device), plan, running["gateway"], session)
      BY <2>3, <3>4, <3>6, ManagementMoves
    <3>8. QED
      BY <1>1, <1>6, <2>1, <3>1, <3>2, <3>7
  <2>6. CASE state[r] # Absent
    <3>1. todo = Update(r, plan, state[r]) /\ old = state[r]
      BY <2>2, <2>6
    <3>2. Update("management_ip", plan, state[r]) = ManagementCalls(plan, state[r])
      BY DEF Update, ManagementUpdate
    <3>3. session = "up" => state[r].gateway = running["gateway"]
      BY <1>1, <2>6 DEF MoveInv
    <3> HIDE DEF plan, todo, old
    <3>4. MovesRightly(ManagementCalls(plan, state[r]), plan, running["gateway"], session)
      BY <1>3, <2>3, <2>4, <2>6, <3>1, <3>3, ManagementMoves
    <3>5. QED
      BY <1>1, <1>6, <2>1, <3>1, <3>2, <3>4
  <2>7. QED
    BY <2>5, <2>6
<1>9. QED
  BY <1>1, <1>7, <1>8

\* What a call of icx_management_ip that is made, or made in part, leaves.
LEMMA CallMoves ==
  ASSUME SettingsInv, MoveInv, "management_ip" \in Managed, pc["management_ip"] = "calls"
  PROVE  LET r == "management_ip"
             call == Head(calls[r])
         IN /\ LinesOf(r, call.lines) /\ DOMAIN call.lines = 1..Len(call.lines)
            /\ \/ ServersOnly(call)
               \/ /\ Tail(calls[r]) = <<>> /\ call.kind = "risky" /\ new[r] # Absent /\ new[r].allow
                  /\ session = "up" => Batch(call.lines, new[r], running["gateway"])
            /\ MovesRightly(Tail(calls[r]), new[r], running["gateway"], session)
<1> DEFINE r == "management_ip"
           c == calls[r]
           call == Head(c)
           t == Tail(c)
<1>1. CallsOf(r, c) /\ c # <<>>
  BY DEF SettingsInv, Operation, OperationOK
<1>2. MovesRightly(c, new[r], running["gateway"], session)
  BY DEF MoveInv
<1> HIDE DEF c
<1>3. /\ call = c[1] /\ LinesOf(r, call.lines) /\ Len(c) \in Nat /\ 1 \in 1..Len(c)
      /\ CallsOf(r, t) /\ Len(t) = Len(c) - 1
  BY <1>1, FirstCall
<1>4. DOMAIN call.lines = 1..Len(call.lines)
  BY <1>3, ListIs DEF LinesOf
<1>5. c \in Seq(ToSet(c))
  BY <1>1, ListIs DEF CallsOf
<1>6. \A i \in 1..Len(t) : t[i] = c[i + 1] /\ i + 1 \in 1..Len(c)
  BY <1>1, <1>3, <1>5
<1> HIDE DEF t, call
<1>7. Len(c) = 1 => t = <<>>
  <2>1. t \in Seq(ToSet(t))
    BY <1>3, ListIs DEF CallsOf
  <2>2. QED
    BY <1>3, <2>1
<1>8. \/ ServersOnly(call)
      \/ /\ t = <<>> /\ call.kind = "risky" /\ new[r] # Absent /\ new[r].allow
         /\ session = "up" => Batch(call.lines, new[r], running["gateway"])
  BY <1>2, <1>3, <1>7 DEF MovesRightly
<1>9. MovesRightly(t, new[r], running["gateway"], session)
  <2>1. \A i \in 1..Len(t) : i + 1 = Len(c) => i = Len(t)
    BY <1>3
  <2>2. QED
    BY <1>2, <1>3, <1>6, <2>1 DEF MovesRightly
<1>10. QED
  BY <1>3, <1>4, <1>8, <1>9 DEF c, t, call

LEMMA EndsIdle ==
  ASSUME SettingsInv, NEW r \in Managed, r # "system", Step(r), ~Begin(r), ~CallDone(r)
  PROVE  pc'[r] = "idle" /\ calls'[r] = <<>>
<1>1. ~Rescues(r, Head(calls[r]))
  BY DEF Rescues
<1>2. \E outcome : End(r, outcome)
  BY <1>1 DEF Step, CallRefused, Fail, SessionLost, CallDead, Rescue, RescueFails
<1>3. QED
  BY <1>2, DomainsAre DEF End

\* Every step preserves the order of what is still to be sent.
LEMMA MoveInvNext ==
  ASSUME SettingsInv, MoveInv, [Next]_vars
  PROVE  MoveInv'
<1> DEFINE r == "management_ip"
<1> SUFFICES ASSUME r \in Managed'
             PROVE  /\ MovesRightly(calls[r], new[r], running["gateway"], session)'
                    /\ (session' = "up" /\ pc'[r] = "begin" /\ state'[r] # Absent) =>
                         state'[r].gateway = running'["gateway"]
  BY DEF MoveInv
<1>1. ASSUME NEW s \in Managed, Step(s)
      PROVE  /\ MovesRightly(calls[r], new[r], running["gateway"], session)'
             /\ (session' = "up" /\ pc'[r] = "begin" /\ state'[r] # Absent) =>
                  state'[r].gateway = running'["gateway"]
  <2>1. PICK lines : Ran(s, lines)
    BY <1>1, StepKept
  <2>2. OnlyAt(s) /\ (session' = "up" => session = "up")
    BY <1>1, StepKept, SessionsLast
  <2>3. r \in Managed
    BY <2>2 DEF OnlyAt, Managed
  <2>4. MovesRightly(calls[r], new[r], running["gateway"], session)
        /\ ((session = "up" /\ pc[r] = "begin" /\ state[r] # Absent) =>
              state[r].gateway = running["gateway"])
    BY <2>3 DEF MoveInv
  <2>5. CASE s # r
    <3>1. running'["gateway"] = running["gateway"]
      BY <2>1, <2>5, OthersStay
    <3>2. calls'[r] = calls[r] /\ new'[r] = new[r] /\ pc'[r] = pc[r] /\ state'[r] = state[r]
      BY <2>2, <2>3, <2>5 DEF OnlyAt
    <3>3. QED
      BY <2>2, <2>4, <3>1, <3>2 DEF MovesRightly
  <2>6. CASE s = r /\ Begin(r)
    <3>1. MovesRightly(calls[r], new[r], running["gateway"], session)'
      BY <2>3, <2>6, BeginMoves
    <3>2. pc'[r] # "begin"
      BY <2>3, <2>6, DomainsAre DEF Begin, End, Continue
    <3>3. QED
      BY <3>1, <3>2
  <2>7. CASE s = r /\ CallDone(r)
    <3> DEFINE call == Head(calls[r])
               rest == Tail(calls[r])
    <3>1. /\ pc[r] = "calls" /\ running' = After(running, call.lines) /\ new' = new
          /\ session' = session /\ calls' = [calls EXCEPT ![r] = rest]
          /\ pc' = pc \/ pc' = [pc EXCEPT ![r] = "idle"]
      BY <2>7 DEF CallDone, Run, Continue
    <3>2. /\ LinesOf(r, call.lines)
          /\ \/ ServersOnly(call)
             \/ rest = <<>>
          /\ MovesRightly(rest, new[r], running["gateway"], session)
      BY <2>3, <3>1, CallMoves
    <3> HIDE DEF call, rest
    <3>3. calls'[r] = rest /\ pc'[r] # "begin" /\ new'[r] = new[r]
      BY <2>3, <3>1, DomainsAre
    <3>4. CASE rest = <<>>
      BY <3>3, <3>4, NoMoves
    <3>5. CASE ServersOnly(call)
      <4>1. running'["gateway"] = running["gateway"]
        BY <3>1, <3>2, <3>5, ServersStay DEF ServersOnly, SettingsInv
      <4>2. QED
        BY <3>1, <3>2, <3>3, <4>1
    <3>6. QED
      BY <3>2, <3>4, <3>5
  <2>8. CASE s = r /\ ~Begin(r) /\ ~CallDone(r)
    <3>1. pc'[r] = "idle" /\ calls'[r] = <<>>
      BY <1>1, <2>3, <2>8, EndsIdle
    <3>2. QED
      BY <3>1, NoMoves
  <2>9. QED
    BY <2>5, <2>6, <2>7, <2>8
<1>2. CASE Plan
  <2>1. /\ AtRest /\ config' = config /\ calls' = calls /\ running' = running
        /\ state' = [s \in Managed |-> IF state[s] = Absent THEN Absent
                                       ELSE ReadBack(s, state[s], running)]
    BY <1>2 DEF Plan
  <2>2. r \in Managed /\ r \in Resources
    BY <2>1, GatewayIsOwn DEF Managed
  <2>3. calls'[r] = <<>>
    BY <2>1, <2>2 DEF AtRest, SettingsInv, Operation, OperationOK
  <2>4. ASSUME state'[r] # Absent PROVE state'[r].gateway = running["gateway"]
    <3>1. state[r] # Absent /\ state'[r] = ReadBack(r, state[r], running)
      BY <2>1, <2>2, <2>4
    <3>2. DOMAIN state[r] = {"address", "gateway", "dns", "allow", "keep"}
      BY <2>2, <3>1, AttributesOfEach DEF SettingsInv, Operation, OperationOK, Proper
    <3>3. ReadBack("management_ip", state[r], running)
            = ReadAs(state[r], {"address", "gateway", "dns"}, running)
      BY DEF ReadBack, ManagementRead
    <3>4. QED
      BY <3>1, <3>2, <3>3 DEF ReadAs
  <2>5. QED
    BY <2>1, <2>3, <2>4, NoMoves
<1>3. CASE \E s \in Managed : Edit(s)
  <2>1. PICK s \in Managed : Edit(s)
    BY <1>3
  <2>2. /\ AtRest /\ running' = running /\ session' = session /\ state' = state /\ pc' = pc
        /\ calls' = calls /\ new' = new /\ \E w : config' = [config EXCEPT ![s] = w]
    BY <2>1 DEF Edit, switchVars, opVars
  <2>3. r \in Managed
    BY <2>2 DEF Managed
  <2>4. QED
    BY <2>2, <2>3 DEF MoveInv
<1>4. CASE Reboot
  <2>1. session' = "lost" /\ config' = config /\ calls' = calls /\ new' = new
    BY <1>4 DEF Reboot, opVars
  <2>2. r \in Managed
    BY <2>1 DEF Managed
  <2>3. MovesRightly(calls[r], new[r], running["gateway"], session)
    BY <2>2 DEF MoveInv
  <2>4. QED
    BY <2>1, <2>3 DEF MovesRightly
<1>5. CASE UNCHANGED vars
  <2>1. /\ running' = running /\ session' = session /\ state' = state /\ pc' = pc
        /\ calls' = calls /\ new' = new /\ config' = config
    BY <1>5 DEF vars, switchVars, opVars
  <2>2. r \in Managed
    BY <2>1 DEF Managed
  <2>3. QED
    BY <2>1, <2>2 DEF MoveInv
<1>6. QED
  BY <1>1, <1>2, <1>3, <1>4, <1>5 DEF Next

LEMMA MoveInvAlways == Spec => []MoveInv
<1>1. Init => MoveInv
  BY NoMoves DEF Init, MoveInv, All
<1>2. SettingsInv /\ MoveInv /\ [Next]_vars => MoveInv'
  BY MoveInvNext
<1>3. QED
  BY <1>1, <1>2, SettingsInvAlways, PTL DEF Spec

Counted == reboots \in Nat

\* Every reboot shows in the count.
LEMMA RebootsCounted == Spec => []Counted
<1>1. Init => Counted
  BY DEF Init, Counted
<1>2. ASSUME Counted, [Next]_vars PROVE Counted'
  <2>1. ASSUME NEW r \in Managed, Step(r) PROVE reboots' = reboots
    BY <2>1 DEF Step, Begin, CallDone, CallRefused, SessionLost, CallDead, Rescue, RescueFails,
       boundVars
  <2>2. ASSUME NEW r \in Managed, Edit(r) PROVE reboots' = reboots
    BY <2>2 DEF Edit
  <2>3. Plan \/ (UNCHANGED vars) => reboots' = reboots
    BY DEF Plan, vars, boundVars
  <2>4. Reboot => reboots' = reboots + 1
    BY DEF Reboot
  <2>5. reboots' = reboots \/ reboots' = reboots + 1
    BY <1>2, <2>1, <2>2, <2>3, <2>4 DEF Next
  <2>6. QED
    BY <1>2, <2>5 DEF Counted
<1>3. QED
  BY <1>1, <1>2, PTL DEF Spec

\* Lines about the addressing.
LEMMA AddressingLines ==
  ASSUME NEW to
  PROVE  LET r == "management_ip"
         IN /\ IsLine(r, GatewayLine(to)) /\ IsLine(r, AddressLine(to))
            /\ LinesOf(r, <<GatewayLine(to)>>) /\ LinesOf(r, <<AddressLine(to)>>)
            /\ \A k : Reaches(GatewayLine(to), k) <=> k = "gateway"
            /\ \A k : Reaches(AddressLine(to), k) <=> k = "address"
<1>1. Sets("management_ip", "gateway", to.gateway) /\ Sets("management_ip", "address", to.address)
  BY GatewayIsOwn DEF Sets, Lists, Switches
<1>2. GatewayLine(to).key = "gateway" /\ AddressLine(to).key = "address"
  BY DEF GatewayLine, AddressLine, Line
<1>3. Within("gateway") = {} /\ Within("address") = {}
  BY WithinIs DEF Switches
<1>4. QED
  BY <1>1, <1>2, <1>3, LineSets DEF Reaches, GatewayLine, AddressLine

\* The whole of a list, or its beginning.
LEMMA Beginnings ==
  ASSUME NEW r, NEW lines, LinesOf(r, lines), NEW n \in 0..Len(lines)
  PROVE  LET part == SubSeq(lines, 1, n)
         IN /\ LinesOf(r, part)
            /\ (n = Len(lines) => part = lines)
            /\ (n = 0 => part = <<>>)
            /\ (n = 1 => part = <<lines[1]>>)
<1> DEFINE part == SubSeq(lines, 1, n)
<1>1. LinesOf(r, part) /\ Len(part) = n /\ \A i \in 1..n : part[i] = lines[i]
  BY FirstLines
<1> HIDE DEF part
<1>2. /\ part \in Seq(ToSet(part)) /\ lines \in Seq(ToSet(lines)) /\ Len(lines) \in Nat
  BY <1>1, ListIs DEF LinesOf
<1>3. n = Len(lines) => part = lines
  <2> SUFFICES ASSUME n = Len(lines) PROVE part = lines
    OBVIOUS
  <2>1. DOMAIN part = 1..n /\ DOMAIN lines = 1..n
    BY <1>1, <1>2
  <2>2. part = [i \in 1..n |-> part[i]] /\ lines = [i \in 1..n |-> lines[i]]
    BY <1>1, <1>2
  <2>3. QED
    BY <1>1, <2>1, <2>2
<1>4. n = 0 => part = <<>>
  BY <1>1, <1>2
<1>5. n = 1 => part = <<lines[1]>>
  <2> SUFFICES ASSUME n = 1 PROVE part = <<lines[1]>>
    OBVIOUS
  <2>1. Len(part) = 1 /\ part[1] = lines[1]
    BY <1>1
  <2>2. part = <<part[1]>>
    BY <1>2, <2>1
  <2>3. QED
    BY <2>1, <2>2
<1>6. QED
  BY <1>1, <1>3, <1>4, <1>5 DEF part

\* However much of a batch has run, an address that moved has taken its gateway along.
LEMMA BatchOrder ==
  ASSUME NEW conf, ProperConf(conf), NEW to, NEW lines, LinesOf("management_ip", lines),
         Batch(lines, to, conf["gateway"]), NEW n \in 0..Len(lines)
  PROVE  LET after == After(conf, SubSeq(lines, 1, n))
         IN after["address"] # conf["address"] => to.gateway \in {None, after["gateway"]}
<1> DEFINE part == SubSeq(lines, 1, n)
           G == GatewayLine(to)
           A == AddressLine(to)
           after == After(conf, part)
<1> SUFFICES ASSUME after["address"] # conf["address"] PROVE to.gateway \in {None, after["gateway"]}
  OBVIOUS
<1>1. /\ n = Len(lines) => part = lines
      /\ n = 0 => part = <<>>
      /\ n = 1 => part = <<lines[1]>>
  BY Beginnings
<1>2. /\ IsLine("management_ip", G) /\ IsLine("management_ip", A)
      /\ LinesOf("management_ip", <<G>>) /\ LinesOf("management_ip", <<A>>)
      /\ \A k : Reaches(G, k) <=> k = "gateway"
      /\ \A k : Reaches(A, k) <=> k = "address"
  BY AddressingLines
<1>3. G.op = "set" /\ G.key = "gateway" /\ G.value = to.gateway
  BY DEF GatewayLine, Line
<1> HIDE DEF part, G, A
<1>4. After(conf, <<>>) = conf /\ After(conf, <<G>>) = Effect(conf, G)
      /\ After(conf, <<A>>) = Effect(conf, A)
  BY AfterNone, AfterOne
<1>5. /\ ProperConf(Effect(conf, G)) /\ Effect(conf, G)["address"] = conf["address"]
      /\ Effect(conf, G)["gateway"] = to.gateway
      /\ Effect(conf, A)["gateway"] = conf["gateway"]
  BY <1>2, <1>3, EffectIs, GatewayIsOwn
<1>6. part # <<>> /\ part # <<G>>
  BY <1>4, <1>5
<1>7. CASE part = <<A>> /\ to.gateway \in {None, conf["gateway"]}
  BY <1>4, <1>5, <1>7
<1>8. CASE part = <<G, A>>
  <2>1. <<G>> \o <<A>> = <<G, A>>
    BY ShortJoins, Zenon
  <2>2. After(conf, <<G>> \o <<A>>) = After(After(conf, <<G>>), <<A>>)
    BY <1>2, AfterJoin DEF LinesOf
  <2>3. after = Effect(Effect(conf, G), A)
    BY <1>4, <1>8, <2>1, <2>2, AfterOne
  <2>4. Effect(Effect(conf, G), A)["gateway"] = Effect(conf, G)["gateway"]
    BY <1>2, <1>5, EffectIs, GatewayIsOwn
  <2>5. QED
    BY <1>5, <2>3, <2>4
<1>9. (part = <<A>> /\ to.gateway \in {None, conf["gateway"]}) \/ part = <<G, A>>
  <2>1. CASE lines = <<G>>
    <3>1. Len(lines) = 1 /\ lines[1] = G
      BY <2>1
    <3>2. n \in {0, 1}
      BY <3>1
    <3>3. QED
      BY <1>1, <1>6, <3>1, <3>2
  <2>2. CASE lines = <<A>> /\ to.gateway \in {None, conf["gateway"]}
    <3>1. Len(lines) = 1 /\ lines[1] = A
      BY <2>2
    <3>2. n \in {0, 1}
      BY <3>1
    <3>3. QED
      BY <1>1, <1>6, <2>2, <3>1, <3>2
  <2>3. CASE lines = <<G, A>>
    <3>1. Len(lines) = 2 /\ lines[1] = G
      BY <2>3
    <3>2. n \in {0, 1, 2}
      BY <3>1
    <3>3. QED
      BY <1>1, <1>6, <2>3, <3>1, <3>2
  <2>4. QED
    BY <2>1, <2>2, <2>3 DEF Batch, G, A
<1>10. QED
  BY <1>7, <1>8, <1>9

\* What a step does to the addressing.
LEMMA Moving ==
  ASSUME SettingsInv, MoveInv, Counted, [Next]_vars, "management_ip" \in Managed,
         reboots' = reboots,
         running'["address"] # running["address"] \/ running'["gateway"] # running["gateway"]
  PROVE  LET r == "management_ip"
         IN /\ new[r] # Absent /\ new[r].allow
            /\ (running'["address"] # running["address"] /\ result'[r] # "refused") =>
                 new[r].gateway \in {None, running'["gateway"]}
<1> DEFINE r == "management_ip"
           call == Head(calls[r])
<1>1. running' # running
  OBVIOUS
<1>2. ~Reboot
  <2>1. reboots + 1 # reboots
    BY DEF Counted
  <2>2. QED
    BY <2>1 DEF Reboot
<1>3. ~Plan /\ \A s \in Managed : ~Edit(s)
  BY <1>1 DEF Plan, Edit, switchVars
<1>4. PICK s \in Managed : Step(s)
  BY <1>1, <1>2, <1>3 DEF Next, vars, switchVars
<1>5. s = r
  <2>1. \E lines : Ran(s, lines)
    BY <1>4, StepKept
  <2>2. QED
    BY <2>1, OthersStay
<1>6. CallDone(r) \/ CallRefused(r) \/ SessionLost(r)
  BY <1>1, <1>4, <1>5 DEF Step, Begin, CallDead, Rescue, RescueFails, switchVars
<1>7. pc[r] = "calls" /\ session = "up"
  BY <1>6 DEF CallDone, CallRefused, SessionLost
<1>8. /\ LinesOf(r, call.lines) /\ DOMAIN call.lines = 1..Len(call.lines)
      /\ \/ ServersOnly(call)
         \/ /\ call.kind = "risky" /\ new[r] # Absent /\ new[r].allow
            /\ Batch(call.lines, new[r], running["gateway"])
  BY <1>7, CallMoves
<1>9. ProperConf(running) /\ Len(call.lines) \in Nat
  BY <1>8, ListIs DEF SettingsInv, LinesOf
<1>10. (\E n \in 0..Len(call.lines) : running' = After(running, SubSeq(call.lines, 1, n)))
         \/ (call.kind = "risky" /\ CallRefused(r))
  <2>1. CASE CallDone(r)
    <3>1. running' = After(running, call.lines)
      BY <2>1 DEF CallDone, Run
    <3>2. Len(call.lines) \in 0..Len(call.lines)
      BY <1>9
    <3>3. SubSeq(call.lines, 1, Len(call.lines)) = call.lines
      BY <1>8, <3>2, Beginnings
    <3>4. QED
      BY <3>1, <3>2, <3>3
  <2>2. CASE CallRefused(r)
    <3>1. CASE call.kind = "save"
      BY <1>1, <2>2, <3>1 DEF CallRefused
    <3>2. CASE call.kind = "risky"
      BY <2>2, <3>2
    <3>3. CASE call.kind \notin {"save", "risky"}
      <4>1. \E n \in 0..(Len(call.lines) - 1) : Run(r, SubSeq(call.lines, 1, n))
        BY <2>2, <3>3 DEF CallRefused
      <4>2. 0..(Len(call.lines) - 1) \subseteq 0..Len(call.lines)
        BY <1>9
      <4>3. QED
        BY <4>1, <4>2 DEF Run
    <3>4. QED
      BY <3>1, <3>2, <3>3
  <2>3. CASE SessionLost(r)
    BY <2>3 DEF SessionLost, Run
  <2>4. QED
    BY <1>6, <2>1, <2>2, <2>3
<1> HIDE DEF call
<1>11. CASE ServersOnly(call)
  <2>1. PICK n \in 0..Len(call.lines) : running' = After(running, SubSeq(call.lines, 1, n))
    BY <1>10, <1>11 DEF ServersOnly
  <2> DEFINE part == SubSeq(call.lines, 1, n)
  <2>2. LinesOf(r, part) /\ Len(part) = n /\ \A i \in 1..n : part[i] = call.lines[i]
    BY <1>8, FirstLines
  <2> HIDE DEF part
  <2>3. \A i \in 1..Len(part) : part[i].key = "dns"
    <3>1. \A i \in 1..n : i \in 1..Len(call.lines)
      BY <1>9
    <3>2. QED
      BY <1>11, <2>2, <3>1 DEF ServersOnly
  <2>4. After(running, part)["gateway"] = running["gateway"]
        /\ After(running, part)["address"] = running["address"]
    BY <1>9, <2>2, <2>3, ServersStay
  <2>5. QED
    BY <2>1, <2>4 DEF part
<1>12. CASE ~ServersOnly(call)
  <2>1. new[r] # Absent /\ new[r].allow /\ Batch(call.lines, new[r], running["gateway"])
    BY <1>8, <1>12
  <2>2. CASE call.kind = "risky" /\ CallRefused(r)
    <3>1. End(r, "refused")
      BY <2>2 DEF CallRefused, Fail, Rescues, call
    <3>2. result'[r] = "refused"
      BY <3>1, EndPC
    <3>3. QED
      BY <2>1, <3>2
  <2>3. CASE \E n \in 0..Len(call.lines) : running' = After(running, SubSeq(call.lines, 1, n))
    <3>1. PICK n \in 0..Len(call.lines) : running' = After(running, SubSeq(call.lines, 1, n))
      BY <2>3
    <3>2. running'["address"] # running["address"] => new[r].gateway \in {None, running'["gateway"]}
      BY <1>8, <1>9, <2>1, <3>1, BatchOrder
    <3>3. QED
      BY <2>1, <3>2
  <2>4. QED
    BY <1>10, <2>2, <2>3
<1>13. QED
  BY <1>11, <1>12

\* Only an operation that was given leave moves the address or the gateway:
\* applyChanges in management_ip.go sends both in the one risky batch, which its
\* guard refuses to an operation that has no leave, and a destroy sends neither.
THEOREM MovesHaveLeave == Spec => MovesOnlyWithLeave
<1>1. SettingsInv /\ MoveInv /\ Counted /\ [Next]_vars =>
        [(/\ "management_ip" \in Managed /\ reboots' = reboots
          /\ running'["address"] # running["address"]
             \/ running'["gateway"] # running["gateway"]) =>
           new["management_ip"] # Absent /\ new["management_ip"].allow]_vars
  BY Moving
<1>2. QED
  BY <1>1, SettingsInvAlways, MoveInvAlways, RebootsCounted, PTL DEF Spec, MovesOnlyWithLeave

\* The address never moves without the gateway it is to have, however the batch
\* is cut short: the gateway's line is sent first, and it is left out only where
\* the switch has that gateway already, which what was read still says as long
\* as the session lasts.
THEOREM AddressesTakeGateways == Spec => AddressTakesGatewayAlong
<1>1. SettingsInv /\ MoveInv /\ Counted /\ [Next]_vars =>
        [(/\ "management_ip" \in Managed /\ running'["address"] # running["address"]
          /\ reboots' = reboots /\ result'["management_ip"] # "refused") =>
           new["management_ip"].gateway \in {None, running'["gateway"]}]_vars
  BY Moving
<1>2. QED
  BY <1>1, SettingsInvAlways, MoveInvAlways, RebootsCounted, PTL DEF Spec, AddressTakesGatewayAlong

-----------------------------------------------------------------------------
(* What an operation that ended well asked for is on the switch.             *)

CarriesAll(r, conf, keys, to) ==
  \A key \in keys \cap (DOMAIN Wanted(r, to) \ Piecemeal) : Carries(conf, key, Wanted(r, to)[key])

\* Once the calls that are left are made, all that was asked for is there.
Pending(r, keys, left, to, conf) ==
  to # Absent => CarriesAll(r, After(conf, Flat(left)), keys \cup Mentions(Flat(left)), to)

\* While the session lasts, what was read of the lists still holds when an
\* operation begins, and what it has still to call completes what it wants; what
\* an operation that ended well has changed is as it was recorded.
CarryOK(r, up, at, recorded, recording, left, changed, ended, conf) ==
  /\ (up = "up" /\ at = "begin" /\ recorded # Absent) => Known(recorded, conf)
  /\ (up = "up" /\ at = "calls") => Pending(r, changed, left, recording, conf)
  /\ (at = "idle" /\ ended = "ok" /\ recorded # Absent) => CarriesAll(r, conf, changed, recorded)

CarryInv ==
  \A r \in Managed :
    CarryOK(r, session, pc[r], state[r], new[r], calls[r], touched[r], result[r], running)

\* What is left of an operation is about its own settings.
LEMMA FlatIsOwn ==
  ASSUME NEW r \in Resources, NEW c, CallsOf(r, c)
  PROVE  LinesOf(r, Flat(c)) /\ Mentions(Flat(c)) \subseteq Keys[r]
<1>1. LinesOf(r, Flat(c))
  BY FlatIsLines
<1> DEFINE lines == Flat(c)
<1> HIDE DEF lines
<1>2. LinesOf(r, lines) => Mentions(lines) \subseteq Keys[r]
  BY LinesTouch DEF Mentions
<1>3. QED
  BY <1>1, <1>2 DEF lines

\* Where the settings of the resource are the same, so is what is carried.
LEMMA CarriesAgree ==
  ASSUME NEW r, NEW to, NEW keys \in SUBSET Keys[r], NEW one, NEW two,
         \A k \in Keys[r] : one[k] = two[k], CarriesAll(r, one, keys, to)
  PROVE  CarriesAll(r, two, keys, to)
<1>1. SUFFICES ASSUME NEW key \in keys \cap (DOMAIN Wanted(r, to) \ Piecemeal)
               PROVE  Carries(two, key, Wanted(r, to)[key])
  BY DEF CarriesAll
<1>2. Carries(one, key, Wanted(r, to)[key]) /\ one[key] = two[key]
  BY DEF CarriesAll
<1>3. QED
  BY <1>2 DEF Carries

LEMMA KnownAgrees ==
  ASSUME NEW r \in Resources, NEW old, Proper(r, old), NEW one, NEW two,
         \A k \in Keys[r] : one[k] = two[k],
         Known(old, one)
  PROVE  Known(old, two)
<1>1. \A key \in {"servers", "hosts", "dns"} \cap Attributes[r] : key \in Keys[r]
  BY ResourceNames, AttributesOfEach, KeysOfEach
<1>2. \A key \in {"servers", "hosts", "dns"} \cap DOMAIN old : one[key] = two[key]
  BY <1>1 DEF Proper
<1>3. QED
  BY <1>2 DEF Known

\* So it is however little is known of the others.
LEMMA CarryAgrees ==
  ASSUME NEW r \in Resources, NEW up, NEW at, NEW recorded,
         recorded = Absent \/ Proper(r, recorded),
         NEW recording, NEW left, CallsOf(r, left), NEW changed \in SUBSET Keys[r], NEW ended,
         NEW one, ProperConf(one), NEW two, ProperConf(two), \A k \in Keys[r] : one[k] = two[k],
         CarryOK(r, up, at, recorded, recording, left, changed, ended, one)
  PROVE  CarryOK(r, up, at, recorded, recording, left, changed, ended, two)
<1> DEFINE lines == Flat(left)
<1>1. LinesOf(r, lines) /\ Mentions(lines) \subseteq Keys[r]
  BY FlatIsOwn
<1> HIDE DEF lines
<1>2. \A k \in Keys[r] : After(one, lines)[k] = After(two, lines)[k]
  BY <1>1, AfterAgrees
<1>3. Pending(r, changed, left, recording, one) => Pending(r, changed, left, recording, two)
  <2>1. changed \cup Mentions(lines) \in SUBSET Keys[r]
    BY <1>1
  <2>2. CarriesAll(r, After(one, lines), changed \cup Mentions(lines), recording)
          => CarriesAll(r, After(two, lines), changed \cup Mentions(lines), recording)
    BY <1>2, <2>1, CarriesAgree
  <2>3. QED
    BY <2>2 DEF Pending, lines
<1>4. CarriesAll(r, one, changed, recorded) => CarriesAll(r, two, changed, recorded)
  BY CarriesAgree
<1>5. recorded # Absent /\ Known(recorded, one) => Known(recorded, two)
  BY KnownAgrees
<1>6. QED
  BY <1>3, <1>4, <1>5 DEF CarryOK

\* An operation a call of which did not go through has not ended well.
LEMMA EndsBadly ==
  ASSUME SettingsInv, NEW r \in Managed, Step(r), ~Begin(r), ~CallDone(r)
  PROVE  pc'[r] = "rescue" \/ (pc'[r] = "idle" /\ result'[r] # "ok")
<1>1. CASE CallRefused(r)
  <2>1. Fail(r, Head(calls[r]))
    BY <1>1 DEF CallRefused
  <2>2. pc' = [pc EXCEPT ![r] = "rescue"] \/ End(r, "unsaved") \/ End(r, "refused")
    BY <2>1 DEF Fail
  <2>3. QED
    BY <2>2, EndPC, DomainsAre
<1>2. CASE SessionLost(r)
  <2>1. End(r, "lost") \/ End(r, "severed")
    BY <1>2 DEF SessionLost
  <2>2. QED
    BY <2>1, EndPC
<1>3. CASE CallDead(r) \/ Rescue(r) \/ RescueFails(r)
  <2>1. End(r, "lost") \/ End(r, "refused") \/ End(r, "unsaved")
    BY <1>3 DEF CallDead, Rescue, RescueFails
  <2>2. QED
    BY <2>1, EndPC
<1>4. QED
  BY <1>1, <1>2, <1>3 DEF Step

\* An operation that begins.
LEMMA BeginCarries ==
  ASSUME SettingsInv, CarryInv, NEW r \in Managed, Begin(r)
  PROVE  CarryOK(r, session', pc'[r], state'[r], new'[r], calls'[r], touched'[r], result'[r],
                 running')
<1> DEFINE plan == IF config[r] = Absent THEN Absent ELSE Keeping(config[r], state[r], running)
<1> DEFINE todo == CASE config[r] = Absent -> Delete(r, state[r])
                     [] state[r] = Absent  -> Create(r, plan, running)
                     [] OTHER              -> Update(r, plan, state[r])
<1>1. /\ pc[r] = "begin" /\ running' = running /\ session' = session /\ touched' = touched
      /\ new' = [new EXCEPT ![r] = plan]
      /\ \/ pc' = [pc EXCEPT ![r] = "idle"]
         \/ pc' = [pc EXCEPT ![r] = "calls"] /\ calls' = [calls EXCEPT ![r] = todo]
  BY DEF Begin, switchVars, End, Continue
<1>2. /\ config[r] = Absent \/ config[r] \in Plans[r]
      /\ state[r] = Absent \/ Proper(r, state[r])
      /\ config[r] # Absent \/ state[r] # Absent
      /\ touched[r] = {}
  BY <1>1 DEF SettingsInv, Operation, OperationOK
<1>3. ProperConf(running) /\ r \in Resources /\ r \in DOMAIN Plans
  BY DomainsAre DEF SettingsInv
<1>4. ASSUME config[r] # Absent PROVE Proper(r, plan)
  <2>1. ProperPlan(r, config[r])
    BY <1>2, <1>3, <1>4, PlansProper
  <2>2. plan = Keeping(config[r], state[r], running)
    BY <1>4
  <2>3. QED
    BY <1>2, <1>3, <2>1, <2>2, KeepingProper
<1>5. config[r] = Absent => plan = Absent
  OBVIOUS
<1> HIDE DEF plan
<1>6. new'[r] = plan /\ touched'[r] = {}
  BY <1>1, <1>2, DomainsAre
<1>7. CASE pc' = [pc EXCEPT ![r] = "idle"]
  <2>1. pc'[r] = "idle"
    BY <1>7, DomainsAre
  <2>2. CarriesAll(r, running', touched'[r], state'[r])
    BY <1>6 DEF CarriesAll
  <2>3. QED
    BY <2>1, <2>2 DEF CarryOK
<1>8. CASE pc' = [pc EXCEPT ![r] = "calls"] /\ calls' = [calls EXCEPT ![r] = todo]
  <2>1. pc'[r] = "calls" /\ calls'[r] = todo
    BY <1>8, DomainsAre
  <2>2. SUFFICES ASSUME session = "up", plan # Absent
                 PROVE  CarriesAll(r, After(running, Flat(todo)), Mentions(Flat(todo)), plan)
    BY <1>1, <1>6, <2>1 DEF CarryOK, Pending
  <2>3. config[r] # Absent /\ Proper(r, plan)
    BY <1>4, <1>5, <2>2
  <2>4. Carried(r, Flat(todo), plan, running)
    <3>1. CASE state[r] = Absent
      <4>1. todo = Create(r, plan, running)
        BY <2>3, <3>1
      <4>2. QED
        BY <1>3, <2>3, <4>1, CreateCarried
    <3>2. CASE state[r] # Absent
      <4>1. todo = Update(r, plan, state[r])
        BY <2>3, <3>2
      <4>2. Known(state[r], running) /\ Proper(r, state[r])
        BY <1>1, <1>2, <2>2, <3>2 DEF CarryInv, CarryOK
      <4>3. QED
        BY <1>3, <2>3, <4>1, <4>2, UpdateCarried
    <3>3. QED
      BY <3>1, <3>2
  <2>5. QED
    BY <2>4 DEF Carried, CarriesAll
<1>9. QED
  BY <1>1, <1>7, <1>8

\* A call that is made.
LEMMA DoneCarries ==
  ASSUME SettingsInv, CarryInv, NEW r \in Managed, CallDone(r)
  PROVE  CarryOK(r, session', pc'[r], state'[r], new'[r], calls'[r], touched'[r], result'[r],
                 running')
<1> DEFINE call == Head(calls[r])
           rest == Tail(calls[r])
<1>1. /\ pc[r] = "calls" /\ session = "up" /\ session' = session
      /\ running' = After(running, call.lines)
      /\ touched' = [touched EXCEPT ![r] = @ \cup {call.lines[i].key : i \in DOMAIN call.lines}]
      /\ new' = new /\ calls' = [calls EXCEPT ![r] = rest]
      /\ IF rest # <<>> THEN pc' = pc
         ELSE /\ pc' = [pc EXCEPT ![r] = "idle"] /\ state' = [state EXCEPT ![r] = new'[r]]
  BY DEF CallDone, Run, Continue
<1>2. CallsOf(r, calls[r]) /\ calls[r] # <<>> /\ r \in Resources /\ ProperConf(running)
  BY <1>1, DomainsAre DEF SettingsInv, Operation, OperationOK
<1>3. LinesOf(r, call.lines) /\ CallsOf(r, rest)
  BY <1>2, FirstCall
<1>4. Flat(calls[r]) = call.lines \o Flat(rest)
  BY <1>2, FlatNext
<1> HIDE DEF call, rest
<1>5. LinesOf(r, Flat(rest))
  BY <1>2, <1>3, FlatIsOwn
<1>6. /\ After(running, Flat(calls[r])) = After(running', Flat(rest))
      /\ Mentions(Flat(calls[r])) = Mentions(call.lines) \cup Mentions(Flat(rest))
  <2> DEFINE a == call.lines
             b == Flat(rest)
  <2>1. IsList(a) /\ IsList(b)
    BY <1>3, <1>5 DEF LinesOf
  <2> HIDE DEF a, b
  <2>2. After(running, a \o b) = After(After(running, a), b)
        /\ Mentions(a \o b) = Mentions(a) \cup Mentions(b)
    BY <2>1, AfterJoin, MentionsJoin
  <2>3. QED
    BY <1>1, <1>4, <2>2 DEF a, b
<1>7. /\ touched'[r] = touched[r] \cup Mentions(call.lines) /\ calls'[r] = rest /\ new'[r] = new[r]
      /\ rest # <<>> => pc'[r] = "calls"
      /\ rest = <<>> => pc'[r] = "idle" /\ state'[r] = new[r]
  BY <1>1, DomainsAre DEF Mentions
<1>8. Pending(r, touched[r], calls[r], new[r], running)
  BY <1>1 DEF CarryInv, CarryOK
<1>9. Pending(r, touched'[r], rest, new[r], running')
  <2>1. touched[r] \cup Mentions(Flat(calls[r])) = touched'[r] \cup Mentions(Flat(rest))
    BY <1>6, <1>7
  <2>2. QED
    BY <1>6, <1>8, <2>1 DEF Pending
<1>10. CASE rest # <<>>
  BY <1>7, <1>9, <1>10 DEF CarryOK
<1>11. CASE rest = <<>>
  <2>1. Flat(rest) = <<>> /\ Mentions(<<>>) = {} /\ After(running', <<>>) = running'
    BY <1>11, FlatNone, MentionsNone, AfterNone
  <2>2. new[r] # Absent => CarriesAll(r, running', touched'[r], new[r])
    BY <1>9, <2>1 DEF Pending
  <2>3. QED
    BY <1>7, <1>11, <2>2 DEF CarryOK
<1>12. QED
  BY <1>10, <1>11

\* What Read records is what the switch has, or what was recorded before.
LEMMA ReadsBack ==
  ASSUME NEW r \in Resources, NEW w, Proper(r, w), NEW conf, ReadBack(r, w, conf) # Absent
  PROVE  LET back == ReadBack(r, w, conf)
         IN /\ DOMAIN back = DOMAIN w /\ (r = "user" => back = w)
            /\ "keep" \in DOMAIN w => back["keep"] = w["keep"]
            /\ \A key \in DOMAIN w : back[key] \in {w[key], conf[key]}
            /\ \A key \in {"servers", "hosts", "dns"} \cap DOMAIN w : back[key] = conf[key]
<1> DEFINE back == ReadBack(r, w, conf)
           lists == {"servers", "hosts", "dns"}
<1>1. ASSUME NEW keys, "keep" \notin keys, lists \cap DOMAIN w \subseteq keys,
             back = ReadAs(w, keys, conf)
      PROVE  /\ DOMAIN back = DOMAIN w
             /\ "keep" \in DOMAIN w => back["keep"] = w["keep"]
             /\ \A key \in DOMAIN w : back[key] \in {w[key], conf[key]}
             /\ \A key \in lists \cap DOMAIN w : back[key] = conf[key]
  BY <1>1 DEF ReadAs
<1>2. DOMAIN w = Attributes[r]
  BY DEF Proper
<1>3. CASE r \in {"user", "poe", "raw_config"}
  <2>1. back = w
    BY <1>3 DEF ReadBack, UserRead, PoERead, RawRead
  <2>2. lists \cap DOMAIN w = {}
    BY <1>2, <1>3, AttributesOfEach
  <2>3. QED
    BY <2>1, <2>2
<1>4. CASE r \in {"system", "management_ip", "ntp", "logging"}
  <2>1. \E keys : /\ "keep" \notin keys /\ lists \cap DOMAIN w \subseteq keys
                  /\ back = ReadAs(w, keys, conf)
    <3>1. /\ r = "system" =>
               back = ReadAs(w, {"hostname", "telnet_server", "optical_monitor"}, conf)
          /\ r = "management_ip" => back = ReadAs(w, {"address", "gateway", "dns"}, conf)
          /\ r = "ntp" => back = ReadAs(w, {"timezone", "servers", "serve"}, conf)
          /\ r = "logging" => back = ReadAs(w, {"hosts", "facility"}, conf)
      BY DEF ReadBack, SystemRead, ManagementRead, NTPRead, LoggingRead
    <3>2. /\ r = "system" => lists \cap DOMAIN w = {}
          /\ r = "management_ip" => lists \cap DOMAIN w = {"dns"}
          /\ r = "ntp" => lists \cap DOMAIN w = {"servers"}
          /\ r = "logging" => lists \cap DOMAIN w = {"hosts"}
      BY <1>2, AttributesOfEach
    <3> HIDE DEF back, lists
    <3>3. QED
      BY <1>4, <3>1, <3>2
  <2> HIDE DEF back, lists
  <2>2. QED
    BY <1>1, <1>4, <2>1 DEF back, lists
<1>5. CASE r \in {"snmp", "aaa", "interface_ve", "vlan"}
  <2>1. lists \cap DOMAIN w = {}
    BY <1>2, <1>5, AttributesOfEach
  <2>2. \E keys : "keep" \notin keys /\ back = ReadAs(w, keys, conf)
    <3>1. /\ r = "snmp" => back = ReadAs(w, {"contact", "communities"}, conf)
                             \/ back = ReadAs(w, {"contact"}, conf)
          /\ r = "aaa" => back = ReadAs(w, {"login", "console"}, conf)
          /\ r = "interface_ve" => back = ReadAs(w, {"ve_address"}, conf)
          /\ r = "vlan" =>
               back = ReadAs(w, {"vlan_name", "router_interface", "spanning_tree", "stp_priority"},
                             conf)
      BY DEF ReadBack, SNMPRead, AAARead, VERead, VLANRead
    <3> HIDE DEF back
    <3>2. QED
      BY <1>5, <3>1
  <2> HIDE DEF back, lists
  <2>3. QED
    BY <1>1, <1>5, <2>1, <2>2 DEF back, lists
<1>6. QED
  BY <1>3, <1>4, <1>5, ResourceNames

\* A refresh leaves what was carried carried.
LEMMA ReadCarries ==
  ASSUME NEW r \in Resources, NEW w, Proper(r, w), NEW conf, ReadBack(r, w, conf) # Absent,
         NEW keys, CarriesAll(r, conf, keys, w)
  PROVE  CarriesAll(r, conf, keys, ReadBack(r, w, conf))
<1> DEFINE back == ReadBack(r, w, conf)
<1>1. /\ DOMAIN back = DOMAIN w /\ (r = "user" => back = w)
      /\ "keep" \in DOMAIN w => back["keep"] = w["keep"]
      /\ \A key \in DOMAIN w : back[key] \in {w[key], conf[key]}
  BY ReadsBack
<1> HIDE DEF back
<1>2. CASE r = "user"
  BY <1>1, <1>2 DEF back
<1>3. CASE r # "user"
  <2> DEFINE keep == IF "keep" \in DOMAIN w THEN w.keep ELSE {}
             wanted == (DOMAIN w \cap Settings) \ keep
  <2>1. Wanted(r, w) = [a \in wanted |-> w[a]]
    BY <1>3 DEF Wanted
  <2>2. Wanted(r, back) = [a \in wanted |-> back[a]]
    BY <1>1, <1>3 DEF Wanted
  <2>3. wanted \subseteq DOMAIN w
    OBVIOUS
  <2> HIDE DEF wanted
  <2>4. ASSUME NEW key \in keys \cap (wanted \ Piecemeal) PROVE Carries(conf, key, back[key])
    <3>1. Carries(conf, key, w[key])
      BY <2>1, <2>4 DEF CarriesAll
    <3>2. Carries(conf, key, conf[key])
      BY DEF Carries
    <3>3. back[key] \in {w[key], conf[key]}
      BY <1>1, <2>3, <2>4
    <3>4. QED
      BY <3>1, <3>2, <3>3
  <2>5. QED
    BY <2>2, <2>4 DEF CarriesAll, back
<1>4. QED
  BY <1>2, <1>3

\* A refresh keeps it, and so does a reboot.
LEMMA PlanCarries ==
  ASSUME SettingsInv, CarryInv, Plan
  PROVE  CarryInv'
<1>1. /\ AtRest /\ running' = running /\ config' = config
      /\ state' = [r \in Managed |-> IF state[r] = Absent THEN Absent
                                     ELSE ReadBack(r, state[r], running)]
      /\ \/ /\ pc' = [r \in Managed |-> IF Differs(config[r], state'[r]) THEN "begin" ELSE "idle"]
            /\ result' = result
         \/ pc' = pc /\ result' = [result EXCEPT !["management_ip"] = "denied"]
      /\ touched' = [r \in Managed |-> IF pc'[r] = "begin" THEN {} ELSE touched[r]]
  BY DEF Plan
<1>2. Managed' = Managed
  BY <1>1 DEF Managed
<1>3. ASSUME NEW r \in Managed
      PROVE  CarryOK(r, session', pc'[r], state'[r], new'[r], calls'[r], touched'[r], result'[r],
                     running')
  <2>1. /\ r \in Resources /\ pc[r] = "idle" /\ (state[r] = Absent \/ Proper(r, state[r]))
    BY <1>1, DomainsAre DEF AtRest, SettingsInv, Operation, OperationOK
  <2>2. state'[r] = IF state[r] = Absent THEN Absent ELSE ReadBack(r, state[r], running)
    BY <1>1
  <2>3. pc'[r] \in {"idle", "begin"}
    BY <1>1, <2>1
  <2>4. ASSUME state'[r] # Absent PROVE Known(state'[r], running')
    <3>1. state'[r] = ReadBack(r, state[r], running) /\ Proper(r, state[r])
      BY <2>1, <2>2, <2>4
    <3>2. \A key \in {"servers", "hosts", "dns"} \cap DOMAIN state'[r] :
            state'[r][key] = running[key]
      BY <2>1, <2>4, <3>1, ReadsBack
    <3>3. QED
      BY <1>1, <3>2 DEF Known
  <2>5. ASSUME pc'[r] = "idle", result'[r] = "ok", state'[r] # Absent
        PROVE  CarriesAll(r, running', touched'[r], state'[r])
    <3>1. touched'[r] = touched[r]
      BY <1>1, <2>5
    <3>2. result'[r] \in {result[r], "denied"}
      BY <1>1, DomainsAre
    <3>3. state'[r] = ReadBack(r, state[r], running) /\ Proper(r, state[r]) /\ state[r] # Absent
      BY <2>1, <2>2, <2>5
    <3>4. CarriesAll(r, running, touched[r], state[r])
      BY <2>1, <2>5, <3>2, <3>3 DEF CarryInv, CarryOK
    <3>5. CarriesAll(r, running, touched[r], ReadBack(r, state[r], running))
      BY <2>1, <2>5, <3>3, <3>4, ReadCarries
    <3>6. QED
      BY <1>1, <3>1, <3>3, <3>5
  <2>6. QED
    BY <2>3, <2>4, <2>5 DEF CarryOK
<1>4. QED
  BY <1>2, <1>3 DEF CarryInv

LEMMA RebootCarries ==
  ASSUME SettingsInv, SavedInv, CarryInv, Reboot
  PROVE  CarryInv'
<1>1. /\ running' = startup /\ session' = "lost" /\ config' = config /\ state' = state /\ pc' = pc
      /\ calls' = calls /\ new' = new /\ touched' = touched /\ result' = result
  BY DEF Reboot, opVars
<1>2. Managed' = Managed
  BY <1>1 DEF Managed
<1>3. ASSUME NEW r \in Managed, pc[r] = "idle", result[r] = "ok", state[r] # Absent
      PROVE  CarriesAll(r, startup, touched[r], state[r])
  <2>1. CarriesAll(r, running, touched[r], state[r])
    BY <1>3 DEF CarryInv, CarryOK
  <2>2. \A key \in touched[r] : startup[key] = running[key]
    BY <1>3 DEF SavedInv, Saved, EndedSaved
  <2>3. QED
    BY <2>1, <2>2 DEF CarriesAll, Carries
<1>4. QED
  BY <1>1, <1>2, <1>3 DEF CarryInv, CarryOK

\* An operation leaves alone what the others have carried.
LEMMA OthersCarried ==
  ASSUME SettingsInv, CarryInv, NEW r \in Managed, Step(r), NEW s \in Managed \ {r}
  PROVE  CarryOK(s, session', pc'[s], state'[s], new'[s], calls'[s], touched'[s], result'[s],
                 running')
<1>1. PICK lines : Ran(r, lines)
  BY StepKept
<1>2. OnlyAt(r)
  BY StepKept
<1>3. ProperConf(running) /\ ProperConf(running')
  BY <1>1, RanKept DEF SettingsInv
<1>4. r \in Resources /\ s \in Resources
  BY DomainsAre
<1>5. \A k \in Keys[s] : running[k] = running'[k]
  <2> SUFFICES ASSUME NEW k \in Keys[s] PROVE running[k] = running'[k]
    OBVIOUS
  <2>1. k \notin Keys[r] /\ k \in Settings
    BY <1>4, KeysApart, KeysAreSettings
  <2>2. QED
    BY <1>1, <1>3, <1>4, <2>1, AfterApart DEF Ran
<1>6. /\ pc'[s] = pc[s] /\ state'[s] = state[s] /\ new'[s] = new[s] /\ calls'[s] = calls[s]
      /\ touched'[s] = touched[s] /\ result'[s] = result[s]
  BY <1>2 DEF OnlyAt
<1>7. /\ state[s] = Absent \/ Proper(s, state[s])
      /\ CallsOf(s, calls[s]) /\ touched[s] \subseteq Keys[s]
  BY DEF SettingsInv, Operation, OperationOK
<1>8. CarryOK(s, session', pc[s], state[s], new[s], calls[s], touched[s], result[s], running)
  <2>1. session' = "up" => session = "up"
    BY SessionsLast
  <2>2. QED
    BY <2>1 DEF CarryInv, CarryOK
<1>9. CarryOK(s, session', pc[s], state[s], new[s], calls[s], touched[s], result[s], running')
  BY <1>3, <1>4, <1>5, <1>7, <1>8, CarryAgrees
<1>10. QED
  BY <1>6, <1>9

\* Every step preserves it.
LEMMA CarryInvNext ==
  ASSUME SettingsInv, SavedInv, CarryInv, [Next]_vars
  PROVE  CarryInv'
<1>1. CASE \E r \in Managed : Step(r)
  <2>1. PICK r \in Managed : Step(r)
    BY <1>1
  <2>2. Managed' = Managed
    BY <2>1, StepKept DEF OnlyAt, Managed
  <2>3. CarryOK(r, session', pc'[r], state'[r], new'[r], calls'[r], touched'[r], result'[r],
                running')
    <3>1. CASE Begin(r)
      BY <3>1, BeginCarries
    <3>2. CASE CallDone(r)
      BY <3>2, DoneCarries
    <3>3. CASE ~Begin(r) /\ ~CallDone(r)
      <4>1. pc'[r] = "rescue" \/ (pc'[r] = "idle" /\ result'[r] # "ok")
        BY <2>1, <3>3, EndsBadly
      <4>2. QED
        BY <4>1 DEF CarryOK
    <3>4. QED
      BY <3>1, <3>2, <3>3
  <2>4. QED
    BY <2>1, <2>2, <2>3, OthersCarried DEF CarryInv
<1>2. CASE Plan
  BY <1>2, PlanCarries
<1>3. CASE \E r \in Managed : Edit(r)
  <2>1. /\ running' = running /\ session' = session /\ state' = state /\ pc' = pc
        /\ touched' = touched /\ result' = result /\ new' = new /\ calls' = calls
        /\ \E r, w : config' = [config EXCEPT ![r] = w]
    BY <1>3 DEF Edit, switchVars, opVars
  <2>2. Managed' = Managed
    BY <2>1 DEF Managed
  <2>3. QED
    BY <2>1, <2>2 DEF CarryInv
<1>4. CASE Reboot
  BY <1>4, RebootCarries
<1>5. CASE UNCHANGED vars
  <2>1. /\ running' = running /\ session' = session /\ state' = state /\ pc' = pc
        /\ touched' = touched /\ result' = result /\ new' = new /\ calls' = calls
        /\ config' = config
    BY <1>5 DEF vars, switchVars, opVars
  <2>2. Managed' = Managed
    BY <2>1 DEF Managed
  <2>3. QED
    BY <2>1, <2>2 DEF CarryInv
<1>6. QED
  BY <1>1, <1>2, <1>3, <1>4, <1>5 DEF Next

LEMMA CarryInvAlways == Spec => []CarryInv
<1>1. Init => CarryInv
  <2> SUFFICES ASSUME Init PROVE CarryInv
    OBVIOUS
  <2>1. \A r \in Managed : pc[r] = "idle" /\ result[r] = "none"
    BY DEF Init, All
  <2>2. QED
    BY <2>1 DEF CarryInv, CarryOK
<1>2. SettingsInv /\ SavedInv /\ CarryInv /\ [Next]_vars => CarryInv'
  BY CarryInvNext
<1>3. QED
  BY <1>1, <1>2, SettingsInvAlways, SavedInvAlways, PTL DEF Spec

-----------------------------------------------------------------------------
(* The lists that no Read sees, as long as nothing has failed.               *)

\* What is recorded of them is on the switch.
Listed(w, conf) ==
  w # Absent => \A key \in Piecemeal \cap DOMAIN w : ToSet(w[key]) \subseteq ToSet(conf[key])

\* Nothing has failed, and nothing was taken back.
Calm == failures = 0 /\ reboots = 0

\* Until then the session lasts, what is recorded of these lists is on the
\* switch, and will be when the calls that are left are made.
CalmInv ==
  Calm =>
    /\ session = "up"
    /\ \A r \in Managed :
         /\ pc[r] # "rescue"
         /\ pc[r] \in {"idle", "begin"} => Listed(state[r], running)
         /\ pc[r] = "calls" => Listed(new[r], After(running, Flat(calls[r])))

\* The change of a list, among lines that leave it alone.
LEMMA ChangeAmid ==
  ASSUME NEW r \in Resources, NEW key \in Keys[r] \cap Lists, NEW to, IsList(to[key]),
         NEW old, IsList(old[key]), NEW conf, ProperConf(conf),
         ToSet(old[key]) \subseteq ToSet(conf[key]),
         NEW a, LinesOf(r, a), Leaves(a, key), NEW b, LinesOf(r, b), Leaves(b, key)
  PROVE  LET lines == (a \o ChangeList(key, to, old)) \o b
         IN  LinesOf(r, lines) /\ ToSet(to[key]) \subseteq ToSet(After(conf, lines)[key])
<1> DEFINE s == ChangeList(key, to, old)
           mid == After(conf, a)
<1>1. LinesOf(r, s)
  BY ListLines
<1> HIDE DEF s
<1>2. /\ After(conf, (a \o s) \o b)[key] = After(mid, s)[key]
      /\ ProperConf(mid) /\ mid[key] = conf[key]
  BY <1>1, AmidLeaving
<1>3. LinesOf(r, (a \o s) \o b)
  BY <1>1, LinesJoin
<1> HIDE DEF mid
<1>4. ToSet(to[key]) \subseteq ToSet(After(mid, s)[key])
  BY <1>2, ChangeCovers DEF s
<1>5. QED
  BY <1>2, <1>3, <1>4 DEF s

\* The addition of a list, among lines that leave it alone.
LEMMA AddsAmid ==
  ASSUME NEW r \in Resources, NEW key \in Keys[r] \cap Lists, NEW list, IsList(list),
         NEW conf, ProperConf(conf),
         NEW a, LinesOf(r, a), Leaves(a, key), NEW b, LinesOf(r, b), Leaves(b, key)
  PROVE  ToSet(list) \subseteq ToSet(After(conf, (a \o ForEach("add", key, list)) \o b)[key])
<1> DEFINE s == ForEach("add", key, list)
           mid == After(conf, a)
<1>1. LinesOf(r, s)
  BY ForEachLines
<1> HIDE DEF s
<1>2. /\ After(conf, (a \o s) \o b)[key] = After(mid, s)[key]
      /\ ProperConf(mid)
  BY <1>1, AmidLeaving
<1> HIDE DEF mid
<1>3. ToSet(list) \subseteq ToSet(After(mid, s)[key])
  BY <1>2, AddsAll DEF s
<1>4. QED
  BY <1>2, <1>3 DEF s

LEMMA SNMPListed ==
  ASSUME NEW to, Proper("snmp", to), NEW old, Proper("snmp", old), NEW conf, ProperConf(conf),
         NEW other
  PROVE  LET lines == ChangeList("communities", to, old) \o Change("contact", to, old)
             adding == ForEach("add", "communities", to.communities) \o Change("contact", to, other)
         IN /\ LinesOf("snmp", lines) /\ LinesOf("snmp", adding)
            /\ ToSet(old["communities"]) \subseteq ToSet(conf["communities"]) =>
                 ToSet(to["communities"]) \subseteq ToSet(After(conf, lines)["communities"])
            /\ ToSet(to["communities"]) \subseteq ToSet(After(conf, adding)["communities"])
<1> DEFINE r == "snmp"
           key == "communities"
           s == ChangeList("communities", to, old)
           b == Change("contact", to, old)
           c == Change("contact", to, other)
           added == ForEach("add", "communities", to["communities"])
<1>1. /\ r \in Resources /\ key \in Keys[r] \cap Lists /\ key \in Settings
      /\ IsList(to[key]) /\ IsList(old[key])
  BY ResourceNames, KeysOfEach, KeysAreSettings, ProperLists, AttributesOfEach DEF Lists
<1>2. \A w : LinesOf(r, Change("contact", to, w)) /\ Leaves(Change("contact", to, w), key)
  <2> TAKE w
  <2>1. /\ LinesOf(r, Change("contact", to, w))
        /\ Mentions(Change("contact", to, w)) \subseteq {"contact"}
    BY PlainLines, MentionsChange
  <2>2. Apart("contact", key)
    BY WithinIs DEF Apart, Switches
  <2>3. QED
    BY <1>1, <2>1, <2>2, ApartLeaves
<1>3. LinesOf(r, <<>>) /\ Leaves(<<>>, key)
  BY LinesNone, AfterNone DEF Leaves
<1>4. LinesOf(r, s) /\ <<>> \o s = s
  BY <1>1, ListLines, JoinNone DEF LinesOf
<1>5. LinesOf(r, added) /\ <<>> \o added = added
  BY <1>1, ForEachLines, JoinNone DEF LinesOf
<1>6. LinesOf(r, s \o b) /\ LinesOf(r, added \o c)
  BY <1>2, <1>4, <1>5, LinesJoin
<1>7. ASSUME ToSet(old[key]) \subseteq ToSet(conf[key])
      PROVE  ToSet(to[key]) \subseteq ToSet(After(conf, s \o b)[key])
  <2> DEFINE a == <<>>
  <2>1. LinesOf(r, a) /\ Leaves(a, key) /\ a \o s = s
    BY <1>3, <1>4
  <2>2. LinesOf(r, b) /\ Leaves(b, key)
    BY <1>2
  <2> HIDE DEF a, b
  <2>3. ToSet(to[key]) \subseteq ToSet(After(conf, (a \o s) \o b)[key])
    BY <1>1, <1>7, <2>1, <2>2, ChangeAmid
  <2>4. QED
    BY <2>1, <2>3
<1>8. ToSet(to[key]) \subseteq ToSet(After(conf, added \o c)[key])
  <2> DEFINE a == <<>>
  <2>1. LinesOf(r, a) /\ Leaves(a, key) /\ a \o added = added
    BY <1>3, <1>5
  <2>2. LinesOf(r, c) /\ Leaves(c, key)
    BY <1>2
  <2> HIDE DEF a, c
  <2>3. ToSet(to[key]) \subseteq ToSet(After(conf, (a \o added) \o c)[key])
    BY <1>1, <2>1, <2>2, AddsAmid
  <2>4. QED
    BY <2>1, <2>3
<1>9. QED
  BY <1>6, <1>7, <1>8

LEMMA VEListed ==
  ASSUME NEW to, Proper("interface_ve", to), NEW old, Proper("interface_ve", old), NEW conf,
         ProperConf(conf), ToSet(old["ve_lines"]) \subseteq ToSet(conf["ve_lines"])
  PROVE  ToSet(to["ve_lines"]) \subseteq ToSet(After(conf, VELines(to, old))["ve_lines"])
<1> DEFINE r == "interface_ve"
           key == "ve_lines"
           a == <<Line("set", "ve", TRUE)>>
           b == Swap("ve_address", to, old)
           s == ChangeList("ve_lines", to, old)
           none == <<>>
<1>1. /\ r \in Resources /\ key \in Keys[r] \cap Lists /\ key \in Settings
      /\ IsList(to[key]) /\ IsList(old[key])
      /\ "ve_address" \in Keys[r] /\ "ve_address" \notin Lists \cup Switches
      /\ Sets(r, "ve", TRUE) /\ "ve" \in Switches
  BY ResourceNames, KeysOfEach, KeysAreSettings, ProperLists, AttributesOfEach
     DEF Lists, Sets, Switches
<1>2. LinesOf(r, a) /\ Leaves(a, key)
  BY <1>1, LineSets, OnLeaves
<1>3. LinesOf(r, b) /\ Leaves(b, key)
  <2>1. LinesOf(r, b) /\ Mentions(b) \subseteq {"ve_address"}
    BY <1>1, SwapLines, MentionsSwap
  <2>2. Apart("ve_address", key)
    BY WithinIs DEF Apart, Switches
  <2> HIDE DEF b
  <2>3. QED
    BY <1>1, <2>1, <2>2, ApartLeaves
<1>4. LinesOf(r, none) /\ Leaves(none, key)
  BY LinesNone, AfterNone DEF Leaves
<1>5. VELines(to, old) = (a \o b) \o s
  BY DEF VELines
<1> HIDE DEF a, b
<1>6. LinesOf(r, a \o b) /\ Leaves(a \o b, key)
  BY <1>1, <1>2, <1>3, LinesJoin, LeavesJoin
<1> DEFINE ab == a \o b
<1>7. LinesOf(r, ab) /\ Leaves(ab, key)
  BY <1>6
<1> HIDE DEF ab, none
<1>8. /\ LinesOf(r, (ab \o s) \o none)
      /\ ToSet(to[key]) \subseteq ToSet(After(conf, (ab \o s) \o none)[key])
  BY <1>1, <1>4, <1>7, ChangeAmid
<1>9. LinesOf(r, ab \o s)
  BY <1>1, <1>7, ListLines, LinesJoin
<1> HIDE DEF s
<1>10. (ab \o s) \o none = ab \o s
  BY <1>9, JoinNone DEF LinesOf, none
<1>11. QED
  BY <1>5, <1>8, <1>10 DEF ab

LEMMA VLANListed ==
  ASSUME NEW to, Proper("vlan", to), NEW old, Proper("vlan", old), NEW conf, ProperConf(conf),
         ToSet(old["vlan_lines"]) \subseteq ToSet(conf["vlan_lines"])
  PROVE  ToSet(to["vlan_lines"]) \subseteq ToSet(After(conf, VLANLines(to, old))["vlan_lines"])
<1> DEFINE r == "vlan"
           key == "vlan_lines"
           h == <<Header(to)>>
           a == Swap("router_interface", to, old)
           b == Change("spanning_tree", to, old)
           p == PriorityLines(to, old)
           s == ChangeList("vlan_lines", to, old)
           none == <<>>
<1>1. /\ r \in Resources /\ key \in Keys[r] \cap Lists /\ key \in Settings
      /\ IsList(to[key]) /\ IsList(old[key])
      /\ "router_interface" \in Keys[r] /\ "router_interface" \notin Lists \cup Switches
      /\ Sets(r, "spanning_tree", to["spanning_tree"]) /\ \A v : Sets(r, "stp_priority", v)
  BY ResourceNames, KeysOfEach, KeysAreSettings, ProperLists, AttributesOfEach
     DEF Lists, Sets, Switches, Proper
<1>2. \A k \in {"vlan_name", "router_interface", "spanning_tree", "stp_priority"} : Apart(k, key)
  BY WithinIs DEF Apart, Switches
<1>3. LinesOf(r, h) /\ Leaves(h, key)
  <2>1. LinesOf(r, h)
    BY <1>1, HeaderRight
  <2>2. CASE to.vlan_name = None
    <3>1. "vlan" \in Switches /\ key # "vlan"
      BY DEF Switches
    <3>2. Header(to) = Line("set", "vlan", TRUE)
      BY <2>2 DEF Header
    <3>3. QED
      BY <1>1, <2>1, <3>1, <3>2, OnLeaves
  <2>3. CASE to.vlan_name # None
    <3>1. Header(to).key = "vlan_name"
      BY <2>3 DEF Header, Line
    <3>2. Mentions(h) = {"vlan_name"}
      BY <3>1, MentionsOne
    <3> HIDE DEF h
    <3>3. QED
      BY <1>1, <1>2, <2>1, <3>2, ApartLeaves
  <2>4. QED
    BY <2>2, <2>3
<1>4. /\ LinesOf(r, a) /\ Mentions(a) \subseteq {"router_interface"}
      /\ LinesOf(r, b) /\ Mentions(b) \subseteq {"spanning_tree"}
  BY <1>1, SwapLines, MentionsSwap, ChangeLines, MentionsChange
<1>5. LinesOf(r, p) /\ Mentions(p) \subseteq {"stp_priority"}
  <2>1. /\ LinesOf(r, Change("stp_priority", to, old))
        /\ Mentions(Change("stp_priority", to, old)) \subseteq {"stp_priority"}
    BY <1>1, ChangeLines, MentionsChange
  <2>2. QED
    BY <2>1, LinesNone, MentionsNone DEF PriorityLines
<1>6. VLANLines(to, old) = (((h \o a) \o b) \o p) \o s
  BY DEF VLANLines
<1> HIDE DEF h, a, b, p
<1>7. Leaves(a, key) /\ Leaves(b, key) /\ Leaves(p, key)
  BY <1>1, <1>2, <1>4, <1>5, ApartLeaves
<1>8. LinesOf(r, h \o a) /\ Leaves(h \o a, key)
  BY <1>1, <1>3, <1>4, <1>7, LinesJoin, LeavesJoin
<1>9. LinesOf(r, (h \o a) \o b) /\ Leaves((h \o a) \o b, key)
  BY <1>1, <1>4, <1>7, <1>8, LinesJoin, LeavesJoin
<1> DEFINE entry == ((h \o a) \o b) \o p
<1>10. LinesOf(r, entry) /\ Leaves(entry, key)
  BY <1>1, <1>5, <1>7, <1>9, LinesJoin, LeavesJoin
<1> HIDE DEF entry
<1>11. LinesOf(r, none) /\ Leaves(none, key)
  BY LinesNone, AfterNone DEF Leaves
<1> HIDE DEF none
<1>12. ToSet(to[key]) \subseteq ToSet(After(conf, (entry \o s) \o none)[key])
  BY <1>1, <1>10, <1>11, ChangeAmid
<1>13. LinesOf(r, entry \o s)
  BY <1>1, <1>10, ListLines, LinesJoin
<1> HIDE DEF s
<1>14. (entry \o s) \o none = entry \o s
  BY <1>13, JoinNone DEF LinesOf, none
<1>15. QED
  BY <1>6, <1>12, <1>14 DEF entry

\* An operation, all of it: what it is to record of these lists is there.
LEMMA OperationListed ==
  ASSUME NEW r \in Resources, NEW to, Proper(r, to), NEW conf, ProperConf(conf)
  PROVE  /\ Listed(to, After(conf, Flat(Create(r, to, conf))))
         /\ \A old : (Proper(r, old) /\ Listed(old, conf) /\ old # Absent) =>
                       Listed(to, After(conf, Flat(Update(r, to, old))))
<1>1. DOMAIN to = Attributes[r]
  BY DEF Proper
<1>2. CASE r \notin {"snmp", "interface_ve", "vlan"}
  <2>1. Piecemeal \cap Attributes[r] = {}
    BY <1>2, ResourceNames, AttributesOfEach DEF Piecemeal
  <2>2. QED
    BY <1>1, <2>1 DEF Listed
<1>3. CASE r = "snmp"
  <2> DEFINE key == "communities"
             adding == ForEach("add", "communities", to.communities)
                         \o Change("contact", to, Defaults(to))
  <2>1. Piecemeal \cap Attributes[r] = {key}
    BY <1>3, AttributesOfEach DEF Piecemeal
  <2>2. Create(r, to, conf) = ConfigAndSave(adding)
    BY <1>3 DEF Create, SNMPCreate
  <2>3. LinesOf(r, adding) /\ ToSet(to[key]) \subseteq ToSet(After(conf, adding)[key])
    BY <1>3, SNMPListed
  <2> HIDE DEF adding
  <2>4. Listed(to, After(conf, Flat(Create(r, to, conf))))
    BY <1>1, <2>1, <2>2, <2>3, FlatSaved DEF LinesOf, Listed
  <2>5. ASSUME NEW old, Proper(r, old), Listed(old, conf), old # Absent
        PROVE  Listed(to, After(conf, Flat(Update(r, to, old))))
    <3> DEFINE lines == ChangeList("communities", to, old) \o Change("contact", to, old)
    <3>1. Update(r, to, old) = ConfigAndSave(lines)
      BY <1>3 DEF Update, SNMPUpdate
    <3>2. ToSet(old[key]) \subseteq ToSet(conf[key])
      BY <2>1, <2>5 DEF Listed, Proper
    <3>3. LinesOf(r, lines) /\ ToSet(to[key]) \subseteq ToSet(After(conf, lines)[key])
      BY <1>3, <2>5, <3>2, SNMPListed
    <3> HIDE DEF lines
    <3>4. QED
      BY <1>1, <2>1, <3>1, <3>3, FlatSaved DEF LinesOf, Listed
  <2>6. QED
    BY <2>4, <2>5
<1>4. CASE r \in {"interface_ve", "vlan"}
  <2> DEFINE key == IF r = "vlan" THEN "vlan_lines" ELSE "ve_lines"
             Lines(old) == IF r = "vlan" THEN VLANLines(to, old) ELSE VELines(to, old)
             here == Defaults(to)
  <2>1. Piecemeal \cap Attributes[r] = {key}
    BY <1>4, AttributesOfEach DEF Piecemeal
  <2>2. /\ Create(r, to, conf) = ConfigAndSave(Lines(here))
        /\ \A old : Update(r, to, old) = ConfigAndSave(Lines(old))
    BY <1>4 DEF Create, VECreate, VLANCreate, VLANCreateLines, Update, VEUpdate, VLANUpdate
  <2>3. ASSUME NEW old, Proper(r, old), ToSet(old[key]) \subseteq ToSet(conf[key])
        PROVE  /\ IsList(Lines(old))
               /\ ToSet(to[key]) \subseteq ToSet(After(conf, Lines(old))[key])
    <3>1. IsList(Lines(old))
      BY <1>4, <2>3, FlatLines DEF LinesOf
    <3>2. CASE r = "vlan"
      BY <2>3, <3>1, <3>2, VLANListed
    <3>3. CASE r = "interface_ve"
      BY <2>3, <3>1, <3>3, VEListed
    <3>4. QED
      BY <1>4, <3>2, <3>3
  <2>4. Proper(r, here) /\ ToSet(here[key]) = {}
    <3>1. key \in Lists /\ key \in Settings /\ key \in DOMAIN to
      BY <1>1, <2>1 DEF Lists, Settings, Unnamed
    <3>2. here[key] = <<>>
      BY <3>1, DefaultIs DEF Defaults
    <3>3. QED
      BY <1>4, <3>2, EmptyIsList, DefaultsProper
  <2> HIDE DEF key, Lines, here
  <2>5. Listed(to, After(conf, Flat(Create(r, to, conf))))
    <3>1. IsList(Lines(here)) /\ ToSet(to[key]) \subseteq ToSet(After(conf, Lines(here))[key])
      BY <2>3, <2>4
    <3>2. Flat(Create(r, to, conf)) = Lines(here)
      BY <2>2, <3>1, FlatSaved
    <3>3. QED
      BY <1>1, <2>1, <3>1, <3>2 DEF Listed
  <2>6. ASSUME NEW old, Proper(r, old), Listed(old, conf), old # Absent
        PROVE  Listed(to, After(conf, Flat(Update(r, to, old))))
    <3>1. ToSet(old[key]) \subseteq ToSet(conf[key])
      BY <2>1, <2>6 DEF Listed, Proper
    <3>2. IsList(Lines(old)) /\ ToSet(to[key]) \subseteq ToSet(After(conf, Lines(old))[key])
      BY <2>3, <2>6, <3>1
    <3>3. Flat(Update(r, to, old)) = Lines(old)
      BY <2>2, <3>2, FlatSaved
    <3>4. QED
      BY <1>1, <2>1, <3>2, <3>3 DEF Listed
  <2>7. QED
    BY <2>5, <2>6
<1>5. QED
  BY <1>2, <1>3, <1>4

LEMMA ListedAgrees ==
  ASSUME NEW r \in Resources, NEW w, w = Absent \/ Proper(r, w), NEW one, NEW two,
         \A k \in Keys[r] : one[k] = two[k], Listed(w, one)
  PROVE  Listed(w, two)
<1>1. \A key \in Piecemeal \cap Attributes[r] : key \in Keys[r]
  BY ResourceNames, AttributesOfEach, KeysOfEach DEF Piecemeal
<1>2. QED
  BY <1>1 DEF Listed, Proper

\* An operation that begins.
LEMMA BeginListed ==
  ASSUME SettingsInv, NEW r \in Managed, Begin(r), Listed(state[r], running)
  PROVE  /\ pc'[r] = "idle" => Listed(state'[r], running')
         /\ pc'[r] = "calls" => Listed(new'[r], After(running', Flat(calls'[r])))
         /\ pc'[r] \in {"idle", "calls"}
<1> DEFINE plan == IF config[r] = Absent THEN Absent ELSE Keeping(config[r], state[r], running)
<1> DEFINE todo == CASE config[r] = Absent -> Delete(r, state[r])
                     [] state[r] = Absent  -> Create(r, plan, running)
                     [] OTHER              -> Update(r, plan, state[r])
<1>1. /\ pc[r] = "begin" /\ running' = running
      /\ new' = [new EXCEPT ![r] = plan]
      /\ \/ pc' = [pc EXCEPT ![r] = "idle"] /\ state' = state
         \/ /\ pc' = [pc EXCEPT ![r] = "idle"] /\ state' = [state EXCEPT ![r] = new'[r]]
            /\ todo = <<>>
         \/ pc' = [pc EXCEPT ![r] = "calls"] /\ calls' = [calls EXCEPT ![r] = todo]
  BY DEF Begin, switchVars, End, Continue
<1>2. /\ config[r] = Absent \/ config[r] \in Plans[r]
      /\ state[r] = Absent \/ Proper(r, state[r])
  BY DEF SettingsInv, Operation, OperationOK
<1>3. ProperConf(running) /\ r \in Resources /\ r \in DOMAIN Plans
  BY DomainsAre DEF SettingsInv
<1>4. config[r] = Absent => plan = Absent
  OBVIOUS
<1>5. ASSUME config[r] # Absent PROVE Proper(r, plan)
  BY <1>2, <1>3, <1>5, PlansProper, KeepingProper
<1> HIDE DEF plan
<1>6. Listed(plan, After(running, Flat(todo)))
  <2>1. CASE config[r] = Absent
    BY <1>4, <2>1 DEF Listed
  <2>2. CASE config[r] # Absent /\ state[r] = Absent
    <3>1. todo = Create(r, plan, running)
      BY <2>2
    <3>2. QED
      BY <1>3, <1>5, <2>2, <3>1, OperationListed
  <2>3. CASE config[r] # Absent /\ state[r] # Absent
    <3>1. todo = Update(r, plan, state[r])
      BY <2>3
    <3>2. QED
      BY <1>2, <1>3, <1>5, <2>3, <3>1, OperationListed
  <2>4. QED
    BY <2>1, <2>2, <2>3
<1> HIDE DEF todo
<1>7. todo = <<>> => After(running, Flat(todo)) = running
  BY FlatNone, AfterNone
<1>8. /\ new'[r] = plan /\ pc'[r] \in {"idle", "calls"}
      /\ pc'[r] = "idle" => state'[r] = state[r] \/ (state'[r] = plan /\ todo = <<>>)
      /\ pc'[r] = "calls" => calls'[r] = todo
  BY <1>1, DomainsAre
<1>9. QED
  BY <1>1, <1>6, <1>7, <1>8

\* A call that is made.
LEMMA DoneListed ==
  ASSUME SettingsInv, NEW r \in Managed, CallDone(r),
         Listed(new[r], After(running, Flat(calls[r])))
  PROVE  /\ pc'[r] = "idle" => Listed(state'[r], running')
         /\ pc'[r] = "calls" => Listed(new'[r], After(running', Flat(calls'[r])))
         /\ pc'[r] \in {"idle", "calls"}
<1> DEFINE call == Head(calls[r])
           rest == Tail(calls[r])
<1>1. /\ pc[r] = "calls" /\ running' = After(running, call.lines)
      /\ new' = new /\ calls' = [calls EXCEPT ![r] = rest]
      /\ IF rest # <<>> THEN pc' = pc
         ELSE /\ pc' = [pc EXCEPT ![r] = "idle"] /\ state' = [state EXCEPT ![r] = new'[r]]
  BY DEF CallDone, Run, Continue
<1>2. CallsOf(r, calls[r]) /\ calls[r] # <<>> /\ r \in Resources
  BY <1>1, DomainsAre DEF SettingsInv, Operation, OperationOK
<1>3. LinesOf(r, call.lines) /\ CallsOf(r, rest)
  BY <1>2, FirstCall
<1>4. Flat(calls[r]) = call.lines \o Flat(rest)
  BY <1>2, FlatNext
<1> HIDE DEF call, rest
<1>5. After(running, Flat(calls[r])) = After(running', Flat(rest))
  <2> DEFINE a == call.lines
             b == Flat(rest)
  <2>1. IsList(a) /\ IsList(b)
    BY <1>2, <1>3, FlatIsOwn DEF LinesOf
  <2> HIDE DEF a, b
  <2>2. After(running, a \o b) = After(After(running, a), b)
    BY <2>1, AfterJoin
  <2>3. QED
    BY <1>1, <1>4, <2>2 DEF a, b
<1>6. rest = <<>> => After(running', Flat(rest)) = running'
  BY FlatNone, AfterNone
<1>7. /\ calls'[r] = rest /\ new'[r] = new[r]
      /\ rest # <<>> => pc'[r] = "calls"
      /\ rest = <<>> => pc'[r] = "idle" /\ state'[r] = new[r]
  BY <1>1, DomainsAre
<1>8. QED
  BY <1>5, <1>6, <1>7

\* Every step preserves it.
LEMMA CalmInvNext ==
  ASSUME SettingsInv, CalmInv, failures \in Nat, reboots \in Nat, [Next]_vars
  PROVE  CalmInv'
<1>1. Calm' => Calm /\ session = "up"
  <2>1. ASSUME NEW r \in Managed, Step(r)
        PROVE  reboots' = reboots /\ failures' \in {failures, failures + 1}
    BY <2>1 DEF Step, Begin, CallDone, CallRefused, SessionLost, CallDead, Rescue, RescueFails,
       boundVars
  <2>2. ASSUME NEW r \in Managed, Edit(r) PROVE reboots' = reboots /\ failures' = failures
    BY <2>2 DEF Edit
  <2>3. Plan \/ (UNCHANGED vars) => reboots' = reboots /\ failures' = failures
    BY DEF Plan, vars, boundVars
  <2>4. Reboot => reboots' = reboots + 1 /\ failures' = failures
    BY DEF Reboot
  <2>5. /\ reboots' \in {reboots, reboots + 1} /\ failures' \in {failures, failures + 1}
    BY <2>1, <2>2, <2>3, <2>4 DEF Next
  <2>6. Calm' => Calm
    BY <2>5 DEF Calm
  <2>7. QED
    BY <2>6 DEF CalmInv
<1> SUFFICES ASSUME Calm' PROVE CalmInv'
  BY DEF CalmInv
<1>2. /\ Calm /\ session = "up"
      /\ \A r \in Managed :
           /\ pc[r] # "rescue"
           /\ pc[r] \in {"idle", "begin"} => Listed(state[r], running)
           /\ pc[r] = "calls" => Listed(new[r], After(running, Flat(calls[r])))
  BY <1>1 DEF CalmInv
<1>3. CASE \E r \in Managed : Step(r)
  <2>1. PICK r \in Managed : Step(r)
    BY <1>3
  <2>2. ~CallRefused(r) /\ ~SessionLost(r) /\ ~RescueFails(r) /\ ~CallDead(r) /\ ~Rescue(r)
    <3>1. CallRefused(r) \/ SessionLost(r) \/ RescueFails(r) => failures' = failures + 1
      BY DEF CallRefused, SessionLost, RescueFails
    <3>2. CallDead(r) \/ Rescue(r) => session = "lost" \/ pc[r] = "rescue"
      BY DEF CallDead, Rescue
    <3>3. failures = 0 /\ failures' = 0
      BY <1>2 DEF Calm
    <3>4. QED
      BY <1>2, <3>1, <3>2, <3>3
  <2>3. /\ session' = "up"
        /\ pc'[r] = "idle" => Listed(state'[r], running')
        /\ pc'[r] = "calls" => Listed(new'[r], After(running', Flat(calls'[r])))
        /\ pc'[r] \in {"idle", "calls"}
    <3>1. CASE Begin(r)
      <4>1. pc[r] = "begin" /\ session' = session
        BY <3>1 DEF Begin, switchVars
      <4>2. Listed(state[r], running)
        BY <1>2, <4>1
      <4>3. QED
        BY <1>2, <3>1, <4>1, <4>2, BeginListed
    <3>2. CASE CallDone(r)
      <4>1. pc[r] = "calls" /\ session' = session
        BY <3>2 DEF CallDone
      <4>2. Listed(new[r], After(running, Flat(calls[r])))
        BY <1>2, <4>1
      <4>3. QED
        BY <1>2, <3>2, <4>1, <4>2, DoneListed
    <3>3. QED
      BY <2>1, <2>2, <3>1, <3>2 DEF Step
  <2>4. OnlyAt(r) /\ \E lines : Ran(r, lines)
    BY <2>1, StepKept
  <2>5. ASSUME NEW s \in Managed \ {r}
        PROVE  /\ pc'[s] # "rescue"
               /\ pc'[s] \in {"idle", "begin"} => Listed(state'[s], running')
               /\ pc'[s] = "calls" => Listed(new'[s], After(running', Flat(calls'[s])))
    <3>1. PICK lines : Ran(r, lines)
      BY <2>4
    <3>2. ProperConf(running) /\ ProperConf(running') /\ r \in Resources /\ s \in Resources
      BY <3>1, RanKept, DomainsAre DEF SettingsInv
    <3>3. \A k \in Keys[s] : running[k] = running'[k]
      <4> SUFFICES ASSUME NEW k \in Keys[s] PROVE running[k] = running'[k]
        OBVIOUS
      <4>1. k \notin Keys[r] /\ k \in Settings
        BY <3>2, KeysApart, KeysAreSettings
      <4>2. QED
        BY <3>1, <3>2, <4>1, AfterApart DEF Ran
    <3>4. pc'[s] = pc[s] /\ state'[s] = state[s] /\ new'[s] = new[s] /\ calls'[s] = calls[s]
      BY <2>4 DEF OnlyAt
    <3>5. /\ state[s] = Absent \/ Proper(s, state[s])
          /\ new[s] = Absent \/ Proper(s, new[s])
          /\ CallsOf(s, calls[s])
      BY DEF SettingsInv, Operation, OperationOK
    <3>6. \A k \in Keys[s] : After(running, Flat(calls[s]))[k] = After(running', Flat(calls[s]))[k]
      BY <3>2, <3>3, <3>5, FlatIsOwn, AfterAgrees
    <3>7. Listed(state[s], running) => Listed(state[s], running')
      BY <3>2, <3>3, <3>5, ListedAgrees
    <3>8. Listed(new[s], After(running, Flat(calls[s])))
            => Listed(new[s], After(running', Flat(calls[s])))
      BY <3>2, <3>5, <3>6, ListedAgrees
    <3>9. QED
      BY <1>2, <3>4, <3>7, <3>8
  <2>6. Managed' = Managed
    BY <2>4 DEF OnlyAt, Managed
  <2>7. QED
    BY <2>3, <2>5, <2>6 DEF CalmInv
<1>4. CASE Plan
  <2>1. /\ AtRest /\ running' = running /\ config' = config /\ session' = "up"
        /\ state' = [r \in Managed |-> IF state[r] = Absent THEN Absent
                                       ELSE ReadBack(r, state[r], running)]
        /\ \/ pc' = [r \in Managed |-> IF Differs(config[r], state'[r]) THEN "begin" ELSE "idle"]
           \/ pc' = pc
    BY <1>4 DEF Plan
  <2>2. Managed' = Managed
    BY <2>1 DEF Managed
  <2>3. ASSUME NEW r \in Managed
        PROVE  pc'[r] \in {"idle", "begin"} /\ Listed(state'[r], running')
    <3>1. pc[r] = "idle" /\ r \in Resources /\ (state[r] = Absent \/ Proper(r, state[r]))
      BY <2>1, DomainsAre DEF AtRest, SettingsInv, Operation, OperationOK
    <3>2. Listed(state[r], running)
      BY <1>2, <3>1
    <3>3. state'[r] = IF state[r] = Absent THEN Absent ELSE ReadBack(r, state[r], running)
      BY <2>1
    <3>4. ASSUME state'[r] # Absent PROVE Listed(state'[r], running)
      <4> DEFINE back == ReadBack(r, state[r], running)
      <4>1. state[r] # Absent /\ state'[r] = back /\ Proper(r, state[r]) /\ back # Absent
        BY <3>1, <3>3, <3>4
      <4>2. DOMAIN back = DOMAIN state[r]
            /\ \A key \in DOMAIN state[r] : back[key] \in {state[r][key], running[key]}
        BY <3>1, <4>1, ReadsBack
      <4> HIDE DEF back
      <4>3. QED
        BY <3>2, <4>1, <4>2 DEF Listed
    <3>5. Listed(state'[r], running')
      BY <2>1, <3>4 DEF Listed
    <3>6. QED
      BY <2>1, <3>1, <3>5
  <2>4. QED
    BY <2>1, <2>2, <2>3 DEF CalmInv
<1>5. CASE \E r \in Managed : Edit(r)
  <2>1. /\ running' = running /\ session' = session /\ state' = state /\ pc' = pc
        /\ new' = new /\ calls' = calls
        /\ \E r, w : config' = [config EXCEPT ![r] = w]
    BY <1>5 DEF Edit, switchVars, opVars
  <2>2. Managed' = Managed
    BY <2>1 DEF Managed
  <2>3. QED
    BY <1>2, <2>1, <2>2 DEF CalmInv
<1>6. CASE Reboot
  <2>1. reboots' = reboots + 1 /\ reboots = 0 /\ reboots' = 0
    BY <1>2, <1>6 DEF Reboot, Calm
  <2>2. QED
    BY <2>1
<1>7. CASE UNCHANGED vars
  <2>1. /\ running' = running /\ session' = session /\ state' = state /\ pc' = pc
        /\ new' = new /\ calls' = calls /\ config' = config
    BY <1>7 DEF vars, switchVars, opVars
  <2>2. Managed' = Managed
    BY <2>1 DEF Managed
  <2>3. QED
    BY <1>2, <2>1, <2>2 DEF CalmInv
<1>8. QED
  BY <1>3, <1>4, <1>5, <1>6, <1>7 DEF Next

LEMMA FailuresCounted == Spec => [](failures \in Nat)
<1>1. Init => failures \in Nat
  BY DEF Init
<1>2. ASSUME failures \in Nat, [Next]_vars PROVE (failures \in Nat)'
  <2>1. ASSUME NEW r \in Managed, Step(r) PROVE failures' \in {failures, failures + 1}
    BY <2>1 DEF Step, Begin, CallDone, CallRefused, SessionLost, CallDead, Rescue, RescueFails,
       boundVars
  <2>2. ASSUME NEW r \in Managed, Edit(r) PROVE failures' = failures
    BY <2>2 DEF Edit
  <2>3. Plan \/ Reboot \/ (UNCHANGED vars) => failures' = failures
    BY DEF Plan, Reboot, vars, boundVars
  <2>4. QED
    BY <1>2, <2>1, <2>2, <2>3 DEF Next
<1>3. QED
  BY <1>1, <1>2, PTL DEF Spec

LEMMA CalmInvAlways == Spec => []CalmInv
<1>1. Init => CalmInv
  <2> SUFFICES ASSUME Init PROVE CalmInv
    OBVIOUS
  <2>1. session = "up" /\ \A r \in Managed : pc[r] = "idle" /\ state[r] = Absent
    BY DEF Init, All
  <2>2. QED
    BY <2>1 DEF CalmInv, Listed
<1>2. SettingsInv /\ failures \in Nat /\ Counted /\ CalmInv /\ [Next]_vars => CalmInv'
  BY CalmInvNext DEF Counted
<1>3. QED
  BY <1>1, <1>2, SettingsInvAlways, FailuresCounted, RebootsCounted, PTL DEF Spec

\* An operation that ended well is on the saved configuration, as it was
\* recorded, and no reboot takes it back: every list of lines ends with
\* WriteMemory, and no other resource's line touches its settings.
THEOREM SuccessesSurviveReboots == Spec => []SuccessSurvivesReboot
<1>1. SettingsInv /\ SavedInv /\ CarryInv /\ CalmInv => SuccessSurvivesReboot
  <2> SUFFICES ASSUME SettingsInv, SavedInv, CarryInv, CalmInv,
                      NEW r \in Managed, pc[r] = "idle", result[r] = "ok", NEW key \in touched[r]
               PROVE  /\ startup[key] = running[key]
                      /\ (state[r] # Absent /\ key \in DOMAIN Wanted(r, state[r]) \ Unverified) =>
                           Carries(startup, key, Wanted(r, state[r])[key])
    BY DEF SuccessSurvivesReboot
  <2>1. startup[key] = running[key]
    BY DEF SavedInv, Saved, EndedSaved
  <2>2. SUFFICES ASSUME state[r] # Absent, key \in DOMAIN Wanted(r, state[r]) \ Unverified
                 PROVE  Carries(running, key, Wanted(r, state[r])[key])
    BY <2>1 DEF Carries
  <2>3. CASE key \notin Piecemeal
    <3>1. CarriesAll(r, running, touched[r], state[r])
      BY <2>2 DEF CarryInv, CarryOK
    <3>2. QED
      BY <2>2, <2>3, <3>1 DEF CarriesAll
  <2>4. CASE key \in Piecemeal
    <3>1. Calm
      BY <2>2, <2>4 DEF Unverified, Calm
    <3>2. Listed(state[r], running)
      BY <3>1 DEF CalmInv
    <3>3. r \in Resources /\ Proper(r, state[r])
      BY <2>2, DomainsAre DEF SettingsInv, Operation, OperationOK
    <3>4. r # "user"
      <4>1. touched[r] \subseteq Keys[r]
        BY DEF SettingsInv, Operation, OperationOK
      <4>2. Piecemeal \subseteq Unnamed
        BY DEF Piecemeal, Unnamed, Lists
      <4>3. QED
        BY <2>4, <4>1, <4>2, KeysOfEach, Accountless
    <3>5. key \in Attributes[r] /\ Wanted(r, state[r])[key] = state[r][key]
      BY <2>2, <3>3, <3>4, WantedKeys
    <3>6. key \in Lists \ {"dns"}
      BY <2>4 DEF Piecemeal, Lists
    <3>7. ToSet(state[r][key]) \subseteq ToSet(running[key])
      BY <2>2, <2>4, <3>2, <3>3, <3>5 DEF Listed, Proper
    <3>8. QED
      BY <3>5, <3>6, <3>7 DEF Carries
  <2>5. QED
    BY <2>3, <2>4
<1>2. QED
  BY <1>1, SettingsInvAlways, SavedInvAlways, CarryInvAlways, CalmInvAlways, PTL

=============================================================================
