----------------------------- MODULE TrunksProofs -----------------------------
(***************************************************************************)
(* Proofs about Trunks, for any ports, VLANs, plans, firmware and bounds.   *)
(***************************************************************************)
EXTENDS Trunks, MembershipProofs

\* What the switch holds of a port, as far as that outlives the deletion of a
\* VLAN: the dual-mode VLAN, but for the default one, is one the port is tagged in.
Coherent(port) ==
  IF firmware = "dual"
  THEN /\ port.untagged \notin {None, DefaultVlan} => port.tagged = {}
       /\ port.dual \notin {None, DefaultVlan} => port.dual \in port.tagged
  ELSE port.dual = None /\ port.untagged \notin port.tagged

LinesOK ==
  /\ lines \in [Ports -> Seq(LineSet)]
  /\ \A p \in Ports : \A l \in ToSet(lines[p]) : Entered(l) \subseteq Vlans

Typed == TypeOK /\ LinesOK /\ \A p \in Ports : Coherent(member[p])

\* An apply that runs no port operation, from complete trunks: they are complete
\* now, and stay visible as trunks; a VLAN about to be created reaches each of
\* them, and none is deleted that is declared.
Apply ==
  undisturbed =>
    /\ \A p \in Ports :
         /\ op[p] = "none"
         /\ config[p].all => /\ Complete(p)
                             /\ AtRest \/ Enough(TaggedOf(member[p]) \cap declared)
    /\ \A v \in Managed :
         /\ op[v] = "delete" => v \notin declared
         /\ op[v] = "write" =>
              \A p \in Ports : config[p].all => v \in vlans \/ p \in trunks[v]

-----------------------------------------------------------------------------
LEMMA Kinds ==
  /\ firmware \in Firmwares => firmware \in {"context", "dual"}
  /\ \A p \in Ports : p \in Resources /\ p \notin Managed
  /\ \A v \in Managed : v \in Resources /\ v \notin Ports /\ v \in Vlans /\ v # DefaultVlan
                        /\ v # None
  /\ None \notin Vlans
  /\ Resources = Ports \cup Managed
<1>1. None \notin Vlans
  BY VlansAreFinite
<1>2. QED
  BY <1>1, TrunksAssumption DEF Resources, Managed

\* The recursive function has the values its definition asks for.
LEMMA AfterIs ==
  ASSUME NEW p, lines[p] \in Seq(LineSet)
  PROVE  /\ After(p)[0] = member[p]
         /\ \A n \in 1..Len(lines[p]) : After(p)[n] = Effect(After(p)[n - 1], lines[p][n])
<1> DEFINE n == Len(lines[p])
           step(f, i) == IF i = 0 THEN member[p] ELSE Effect(f[i - 1], lines[p][i])
           good(f, k) == f = [i \in 0..k |-> step(f, i)]
           after == CHOOSE f : good(f, n)
<1>1. n \in Nat
  OBVIOUS
<1>2. \A k \in 0..n : \E f : good(f, k)
  <2> DEFINE bad == {k \in 0..n : ~\E f : good(f, k)}
  <2>1. SUFFICES ASSUME bad # {} PROVE FALSE
    OBVIOUS
  <2>2. bad \in SUBSET Nat
    <3>1. 0..n \subseteq Nat
      BY <1>1
    <3>2. QED
      BY <3>1, Zenon
  <2>3. PICK k \in bad : \A j \in bad : k <= j
    BY <2>1, <2>2, LeastOf
  <2>4. k \in 0..n /\ ~\E f : good(f, k)
    OBVIOUS
  <2>5. CASE k = 0
    <3> DEFINE g == [i \in 0..0 |-> member[p]]
    <3>1. good(g, 0)
      OBVIOUS
    <3>2. QED
      BY <2>4, <2>5, <3>1
  <2>6. CASE k # 0
    <3>1. k - 1 \in 0..n /\ ~(k <= k - 1)
      BY <1>1, <2>4, <2>6
    <3>2. k - 1 \notin bad
      BY <2>3, <3>1
    <3>3. PICK f : good(f, k - 1)
      BY <3>1, <3>2
    <3> DEFINE g == [i \in 0..k |-> IF i < k THEN f[i] ELSE step(f, i)]
    <3>4. \A i \in 0..(k - 1) : f[i] = step(f, i)
      BY <3>3, Zenon
    <3>5. \A i \in 0..k : i < k => i \in 0..(k - 1)
      BY <2>4
    <3>6. \A i \in 0..k : i # 0 => i - 1 \in 0..k /\ i - 1 < k
      BY <2>4
    <3>7. \A i \in 0..k : i # 0 => g[i - 1] = f[i - 1]
      BY <3>6
    <3>8. \A i \in 0..k : step(g, i) = step(f, i)
      BY <3>7
    <3>9. \A i \in 0..k : g[i] = step(f, i)
      BY <3>4, <3>5
    <3>10. good(g, k)
      BY <3>8, <3>9
    <3>11. QED
      BY <2>4, <3>10
  <2>7. QED
    BY <2>5, <2>6
<1>3. good(after, n)
  <2>1. n \in 0..n
    BY <1>1
  <2>2. \E f : good(f, n)
    BY <1>2, <2>1
  <2>3. QED
    BY <2>2, Zenon
<1>4. After(p) = after
  BY DEF After
<1> HIDE DEF after
<1>5. \A i \in 0..n : after[i] = step(after, i)
  BY <1>3, Zenon
<1>6. 0 \in 0..n /\ \A i \in 1..n : i \in 0..n /\ i # 0
  BY <1>1
<1>7. QED
  BY <1>4, <1>5, <1>6

\* A line the switch accepts.
LEMMA EffectCoherent ==
  ASSUME firmware \in {"context", "dual"}, NEW q \in Port, Coherent(q), NEW l \in LineSet,
         Entered(l) \subseteq Vlans, ~Rejects(firmware, q, l)
  PROVE  Effect(q, l) \in Port /\ Coherent(Effect(q, l))
<1> DEFINE e == Effect(q, l)
<1>1. /\ e \in Port
      /\ e.tagged = IF l.op = "tagged" THEN q.tagged \cup {l.vlan}
                    ELSE IF l.op = "no_tagged" THEN q.tagged \ {l.vlan} ELSE q.tagged
      /\ e.untagged = IF l.op = "untagged" THEN l.vlan
                      ELSE IF l.op = "no_untagged" THEN None ELSE q.untagged
      /\ e.dual = IF l.op = "dual" THEN l.vlan
                  ELSE IF l.op = "no_dual" THEN None ELSE q.dual
  BY EffectIs
<1>2. None \notin q.tagged
  BY VlansAreFinite DEF Port
<1>3. (l.op \in {"tagged", "no_tagged", "untagged", "no_untagged"}) => l.vlan \in Vlans
  BY DEF Entered
<1>4. None \notin Vlans
  BY VlansAreFinite
<1> HIDE DEF e
<1>5. ASSUME firmware = "dual"
      PROVE  Coherent(e)
  BY <1>1, <1>2, <1>5 DEF Coherent, Rejects
<1>6. ASSUME firmware = "context"
      PROVE  Coherent(e)
  BY <1>1, <1>2, <1>3, <1>4, <1>6 DEF Coherent, Rejects
<1>7. QED
  BY <1>1, <1>5, <1>6 DEF e

\* The lines of a port, run one by one.
LEMMA RunsKeep ==
  ASSUME Typed, NEW p \in Ports, NEW n \in 0..Len(lines[p]), Runs(p, n)
  PROVE  /\ member' \in [Ports -> Port] /\ vlans' \subseteq Vlans /\ DefaultVlan \in vlans'
         /\ \A r \in Ports : Coherent(member'[r])
<1>1. /\ lines[p] \in Seq(LineSet) /\ firmware \in {"context", "dual"}
      /\ \A i \in 1..Len(lines[p]) : lines[p][i] \in LineSet /\ Entered(lines[p][i]) \subseteq Vlans
      /\ member \in [Ports -> Port] /\ \A r \in Ports : Coherent(member[r])
      /\ vlans \subseteq Vlans /\ DefaultVlan \in vlans
  BY Kinds DEF Typed, TypeOK, LinesOK, ToSet
<1>2. n \in Nat /\ \A i \in 1..n : i \in 1..Len(lines[p])
  BY <1>1
<1>3. /\ \A i \in 1..n : ~Rejects(firmware, After(p)[i - 1], lines[p][i])
      /\ member' = [member EXCEPT ![p] = After(p)[n]]
      /\ vlans' = vlans \cup UNION {Entered(lines[p][i]) : i \in 1..n}
  BY DEF Runs
<1>4. /\ After(p)[0] = member[p]
      /\ \A i \in 1..n : After(p)[i] = Effect(After(p)[i - 1], lines[p][i])
  BY <1>1, <1>2, AfterIs
<1> DEFINE fine(q) == q \in Port /\ Coherent(q)
           bad == {i \in 0..n : ~fine(After(p)[i])}
<1>5. bad = {}
  <2>1. SUFFICES ASSUME bad # {} PROVE FALSE
    OBVIOUS
  <2>2. bad \in SUBSET Nat
    <3>1. 0..n \subseteq Nat
      BY <1>2
    <3>2. QED
      BY <3>1, Zenon
  <2>3. PICK k \in bad : \A j \in bad : k <= j
    BY <2>1, <2>2, LeastOf
  <2>4. k \in 0..n /\ ~fine(After(p)[k])
    BY Zenon
  <2>5. fine(After(p)[0])
    BY <1>1, <1>4
  <2>6. k # 0
    BY <2>4, <2>5
  <2>7. k \in 1..n /\ k - 1 \in 0..n /\ ~(k <= k - 1)
    BY <1>2, <2>4, <2>6
  <2>8. fine(After(p)[k - 1])
    BY <2>3, <2>7
  <2>9. /\ After(p)[k] = Effect(After(p)[k - 1], lines[p][k])
        /\ ~Rejects(firmware, After(p)[k - 1], lines[p][k])
        /\ lines[p][k] \in LineSet /\ Entered(lines[p][k]) \subseteq Vlans
    BY <1>1, <1>2, <1>3, <1>4, <2>7
  <2>10. fine(After(p)[k])
    BY <1>1, <2>8, <2>9, EffectCoherent
  <2>11. QED
    BY <2>4, <2>10
<1>6. After(p)[n] \in Port /\ Coherent(After(p)[n])
  <2>1. n \in 0..n
    BY <1>2
  <2>2. QED
    BY <1>5, <2>1
<1>7. vlans' \subseteq Vlans
  BY <1>1, <1>2, <1>3
<1>8. QED
  BY <1>1, <1>3, <1>6, <1>7

LEMMA NoLines == <<>> \in Seq(LineSet) /\ ToSet(<<>>) = {}
<1> DEFINE e == <<>>
<1>1. e \in Seq(LineSet) /\ DOMAIN e = {}
  OBVIOUS
<1> HIDE DEF e
<1>2. ToSet(e) = {}
  BY <1>1 DEF ToSet
<1>3. QED
  BY <1>1, <1>2 DEF e

\* The VLAN is tagged onto ports that accept it.
LEMMA TagKeeps ==
  ASSUME Typed, NEW v \in Managed, NEW S \in SUBSET Ports, TagOnto(v, S)
  PROVE  /\ member' \in [Ports -> Port] /\ vlans' \subseteq Vlans /\ DefaultVlan \in vlans'
         /\ \A r \in Ports : Coherent(member'[r])
<1> DEFINE l == Line("tagged", v)
<1>1. /\ \A p \in S : ~Rejects(firmware, member[p], l)
      /\ member' = [p \in Ports |-> IF p \in S THEN Effect(member[p], l) ELSE member[p]]
      /\ vlans' = vlans \cup {v}
  BY DEF TagOnto
<1>2. l \in LineSet /\ l.op = "tagged" /\ l.vlan = v
  BY LineFields DEF Line, LineSet, Ops, Managed
<1>3. v \in Vlans /\ firmware \in {"context", "dual"} /\ member \in [Ports -> Port]
      /\ vlans \subseteq Vlans /\ DefaultVlan \in vlans /\ \A r \in Ports : Coherent(member[r])
  BY Kinds DEF Typed, TypeOK
<1>4. Entered(l) \subseteq Vlans
  BY <1>2, <1>3 DEF Entered
<1> HIDE DEF l
<1>5. \A p \in S : Effect(member[p], l) \in Port /\ Coherent(Effect(member[p], l))
  BY <1>1, <1>2, <1>3, <1>4, EffectCoherent
<1>6. QED
  BY <1>1, <1>3, <1>5

\* The VLAN goes.
LEMMA WithoutKeeps ==
  ASSUME Typed, NEW v \in Managed, vlans' = vlans \ {v},
         member' = [p \in Ports |-> Without(member[p], v)]
  PROVE  /\ member' \in [Ports -> Port] /\ vlans' \subseteq Vlans /\ DefaultVlan \in vlans'
         /\ \A r \in Ports : Coherent(member'[r])
<1>1. /\ v # DefaultVlan /\ v # None /\ member \in [Ports -> Port]
      /\ vlans \subseteq Vlans /\ DefaultVlan \in vlans /\ \A r \in Ports : Coherent(member[r])
  BY Kinds DEF Typed, TypeOK
<1>2. ASSUME NEW p \in Ports
      PROVE  Without(member[p], v) \in Port /\ Coherent(Without(member[p], v))
  <2> DEFINE m == member[p]
             w == Without(m, v)
  <2>1. m \in Port /\ Coherent(m)
    BY <1>1
  <2>2. /\ w.tagged = m.tagged \ {v} /\ w.untagged = (IF m.untagged = v THEN None ELSE m.untagged)
        /\ w.dual = IF m.dual = v THEN None ELSE m.dual
    BY DEF Without
  <2>3. w \in Port
    BY <2>1 DEF Without, Port
  <2>4. None \notin m.tagged
    BY <2>1, VlansAreFinite DEF Port
  <2> HIDE DEF w, m
  <2>5. Coherent(w)
    BY <1>1, <2>1, <2>2, <2>4 DEF Coherent
  <2>6. QED
    BY <2>3, <2>5 DEF w, m
<1>3. QED
  BY <1>1, <1>2

-----------------------------------------------------------------------------
LEMMA TypedInit == Init => Typed
<1> SUFFICES ASSUME Init PROVE Typed
  OBVIOUS
<1>1. NoMembership \in Port /\ Coherent(NoMembership)
  BY DEF NoMembership, Port, Coherent, None
<1>2. /\ lines \in [Ports -> Seq(LineSet)]
      /\ \A p \in Ports : \A l \in ToSet(lines[p]) : Entered(l) \subseteq Vlans
  BY NoLines DEF Init
<1>3. TypeOK
  <2>1. 0 \in 0..MaxEdits /\ 0 \in 0..MaxFailures
    BY TrunksAssumption
  <2>2. firmware \in Firmwares /\ vlans \subseteq Vlans /\ DefaultVlan \in vlans /\ config \in Plans
          /\ member \in [Ports -> Port]
    BY <1>1, TrunksAssumption DEF Init
  <2>3. declared \subseteq Managed /\ vlanState \subseteq Managed
    BY TrunksAssumption DEF Init, Managed
  <2>4. QED
    BY <2>1, <2>2, <2>3 DEF Init, TypeOK
<1>4. \A p \in Ports : Coherent(member[p])
  BY <1>1 DEF Init
<1>5. QED
  BY <1>2, <1>3, <1>4 DEF Typed, LinesOK

LEMMA TypedStays ==
  ASSUME Typed, UNCHANGED firmware, LinesOK' \/ UNCHANGED lines,
         member' \in [Ports -> Port] /\ vlans' \subseteq Vlans /\ DefaultVlan \in vlans'
           /\ \A r \in Ports : Coherent(member'[r]),
         op' \in [Resources -> {"none", "read", "write", "delete"}],
         config' = config, declared' \subseteq Managed,
         portState' \in [Ports -> Wanted \cup {Absent}], vlanState' \subseteq Managed,
         trunks' \in [Managed -> SUBSET Ports], outcome' \in {"none", "ok", "failed"},
         undisturbed' \in BOOLEAN, edits' \in 0..MaxEdits, failures' \in 0..MaxFailures
  PROVE  Typed'
<1>1. TypeOK'
  BY DEF Typed, TypeOK
<1>2. LinesOK'
  BY DEF Typed, LinesOK
<1>3. \A r \in Ports : Coherent(member[r])'
  BY DEF Coherent
<1>4. QED
  BY <1>1, <1>2, <1>3 DEF Typed

\* What a port's operation is about to send.
LEMMA LinesRead ==
  ASSUME Typed, NEW p \in Ports, ReadPort(p)
  PROVE  LinesOK'
<1> DEFINE old == IF portState[p] = Absent THEN Nothing ELSE portState[p]
           s == Build(firmware, config[p], old, vlans, member[p].dual, FALSE)
<1>1. /\ config[p] \in Wanted /\ old \in Wanted /\ vlans \in SUBSET Vlans
      /\ member[p].dual \in Vlans \cup {None}
  BY TrunksAssumption, NothingIs DEF Typed, TypeOK, Port
<1>2. lines' = [lines EXCEPT ![p] = s]
  BY DEF ReadPort
<1>3. s \in Seq(LineSet)
  BY <1>1, BuildTypes
<1>4. \A l \in ToSet(s) : Entered(l) \subseteq Vlans
  BY <1>1, BuildEnters, WantedTypes
<1> HIDE DEF s
<1>5. lines \in [Ports -> Seq(LineSet)] /\ \A r \in Ports : \A l \in ToSet(lines[r]) : Entered(l) \subseteq Vlans
  BY DEF Typed, LinesOK
<1>6. lines' \in [Ports -> Seq(LineSet)]
  BY <1>2, <1>3, <1>5
<1>7. \A r \in Ports : lines'[r] = IF r = p THEN s ELSE lines[r]
  BY <1>2, <1>5
<1>8. QED
  BY <1>4, <1>5, <1>6, <1>7 DEF LinesOK

LEMMA LinesEnd ==
  ASSUME Typed, NEW p \in Ports, EndPort(p)
  PROVE  LinesOK' /\ op' \in [Resources -> {"none", "read", "write", "delete"}]
<1>1. lines \in [Ports -> Seq(LineSet)] /\ \A r \in Ports : \A l \in ToSet(lines[r]) : Entered(l) \subseteq Vlans
  BY DEF Typed, LinesOK
<1> DEFINE e == <<>>
<1>2. lines' = [lines EXCEPT ![p] = e] /\ op' = [op EXCEPT ![p] = "none"]
  BY DEF EndPort
<1>3. e \in Seq(LineSet) /\ ToSet(e) = {}
  BY NoLines
<1> HIDE DEF e
<1>4. lines' \in [Ports -> Seq(LineSet)]
  BY <1>1, <1>2, <1>3
<1>5. \A r \in Ports : lines'[r] = IF r = p THEN e ELSE lines[r]
  BY <1>1, <1>2
<1>6. LinesOK'
  BY <1>1, <1>3, <1>4, <1>5 DEF LinesOK
<1>7. op' \in [Resources -> {"none", "read", "write", "delete"}]
  BY <1>2 DEF Typed, TypeOK
<1>8. QED
  BY <1>6, <1>7

LEMMA TypedNext == Typed /\ [Next]_vars => Typed'
<1> SUFFICES ASSUME Typed, [Next]_vars PROVE Typed'
  OBVIOUS
<1> DEFINE Calls == {"none", "read", "write", "delete"}
<1>0. /\ firmware \in Firmwares /\ member \in [Ports -> Port] /\ vlans \subseteq Vlans
      /\ DefaultVlan \in vlans /\ config \in Plans /\ declared \subseteq Managed
      /\ portState \in [Ports -> Wanted \cup {Absent}] /\ vlanState \subseteq Managed
      /\ op \in [Resources -> Calls] /\ trunks \in [Managed -> SUBSET Ports]
      /\ outcome \in {"none", "ok", "failed"} /\ undisturbed \in BOOLEAN
      /\ edits \in 0..MaxEdits /\ failures \in 0..MaxFailures
      /\ \A p \in Ports : Coherent(member[p])
  BY DEF Typed, TypeOK
<1>1. UNCHANGED <<vlans, member>> =>
        /\ member' \in [Ports -> Port] /\ vlans' \subseteq Vlans /\ DefaultVlan \in vlans'
        /\ \A r \in Ports : Coherent(member'[r])
  BY <1>0
<1>2. failures < MaxFailures => failures + 1 \in 0..MaxFailures
  BY <1>0, TrunksAssumption
<1>3. ASSUME NEW v \in Managed, Edit(v)
      PROVE  Typed'
  <2>1. edits' \in 0..MaxEdits
    BY <1>0, <1>3, TrunksAssumption DEF Edit
  <2>2. declared' \subseteq Managed
    BY <1>0, <1>3 DEF Edit
  <2>3. QED
    BY <1>0, <1>1, <1>3, <2>1, <2>2, TypedStays DEF Edit, switchVars, stateVars
<1>4. CASE Plan
  <2>1. portState' \in [Ports -> Wanted \cup {Absent}]
    <3>1. \A p \in Ports : portState[p] # Absent =>
                            ReadBack(portState[p], member[p], vlans) \in Wanted
      BY <1>0, ReadBackType
    <3>2. portState' = [p \in Ports |-> IF portState[p] = Absent THEN Absent
                                        ELSE ReadBack(portState[p], member[p], vlans)]
      BY <1>4 DEF Plan
    <3>3. QED
      BY <3>1, <3>2
  <2>2. op' \in [Resources -> Calls]
    <3>1. \A r \in Resources : (IF r \in Ports THEN IF portState'[r] = config[r] THEN "none" ELSE "read"
              ELSE CASE r \in declared \ vlanState' -> "read"
                     [] r \in vlanState' \ declared -> "delete"
                     [] OTHER -> "none") \in Calls
      OBVIOUS
    <3>2. QED
      BY <1>4, <3>1 DEF Plan
  <2>3. vlanState' \subseteq Managed /\ undisturbed' \in BOOLEAN /\ outcome' = "ok"
    BY <1>0, <1>4 DEF Plan
  <2>4. UNCHANGED <<firmware, vlans, member, config, declared, lines, trunks, edits, failures>>
    BY <1>4 DEF Plan, switchVars
  <2>5. QED
    BY <1>0, <1>1, <2>1, <2>2, <2>3, <2>4, TypedStays
<1>5. ASSUME NEW p \in Ports, ReadPort(p)
      PROVE  Typed'
  <2>1. op' \in [Resources -> Calls]
    BY <1>0, <1>5 DEF ReadPort
  <2>2. QED
    BY <1>0, <1>1, <1>5, <2>1, LinesRead, TypedStays DEF ReadPort, switchVars, stateVars
<1>6. ASSUME NEW p \in Ports, WritePort(p)
      PROVE  Typed'
  <2>1. Len(lines[p]) \in 0..Len(lines[p])
    <3>1. lines[p] \in Seq(LineSet)
      BY DEF Typed, LinesOK
    <3>2. QED
      BY <3>1
  <2>2. Runs(p, Len(lines[p]))
    BY <1>6 DEF WritePort
  <2>3. portState' \in [Ports -> Wanted \cup {Absent}]
    BY <1>0, <1>6, TrunksAssumption DEF WritePort
  <2>4. LinesOK' /\ op' \in [Resources -> Calls]
    BY <1>6, LinesEnd DEF WritePort
  <2>5. /\ member' \in [Ports -> Port] /\ vlans' \subseteq Vlans /\ DefaultVlan \in vlans'
        /\ \A r \in Ports : Coherent(member'[r])
    BY <2>1, <2>2, RunsKeep
  <2>6. QED
    BY <1>0, <1>6, <2>3, <2>4, <2>5, TypedStays DEF WritePort
<1>7. ASSUME NEW p \in Ports, WritePortFails(p)
      PROVE  Typed'
  <2>1. PICK n \in 0..Len(lines[p]) :
          /\ Runs(p, n)
          /\ \/ UNCHANGED failures
             \/ failures < MaxFailures /\ failures' = failures + 1
    BY <1>7 DEF WritePortFails
  <2>2. LinesOK' /\ op' \in [Resources -> Calls]
    BY <1>7, LinesEnd DEF WritePortFails
  <2>3. /\ member' \in [Ports -> Port] /\ vlans' \subseteq Vlans /\ DefaultVlan \in vlans'
        /\ \A r \in Ports : Coherent(member'[r])
    BY <2>1, RunsKeep
  <2>4. failures' \in 0..MaxFailures
    BY <1>0, <1>2, <2>1
  <2>5. QED
    BY <1>0, <1>7, <2>2, <2>3, <2>4, TypedStays DEF WritePortFails, stateVars
<1>8. ASSUME NEW v \in Managed, ReadVlan(v)
      PROVE  Typed'
  <2>1. op' \in [Resources -> Calls] /\ trunks' \in [Managed -> SUBSET Ports]
    BY <1>0, <1>8 DEF ReadVlan
  <2>2. QED
    BY <1>0, <1>1, <1>8, <2>1, TypedStays DEF ReadVlan, switchVars, stateVars
<1>9. ASSUME NEW v \in Managed, WriteVlan(v)
      PROVE  Typed'
  <2>1. op' \in [Resources -> Calls] /\ trunks' \in [Managed -> SUBSET Ports]
    BY <1>0, <1>9 DEF WriteVlan, EndVlan
  <2>2. trunks[v] \in SUBSET Ports
    BY <1>0
  <2>3. /\ member' \in [Ports -> Port] /\ vlans' \subseteq Vlans /\ DefaultVlan \in vlans'
        /\ \A r \in Ports : Coherent(member'[r])
    BY <1>9, <2>2, TagKeeps DEF WriteVlan
  <2>4. vlanState' \subseteq Managed
    BY <1>0, <1>9 DEF WriteVlan
  <2>5. QED
    BY <1>0, <1>9, <2>1, <2>3, <2>4, TypedStays DEF WriteVlan
<1>10. ASSUME NEW v \in Managed, WriteVlanFails(v)
       PROVE  Typed'
  <2>1. op' \in [Resources -> Calls] /\ trunks' \in [Managed -> SUBSET Ports]
    BY <1>0, <1>10 DEF WriteVlanFails, EndVlan
  <2>2. trunks[v] \in SUBSET Ports
    BY <1>0
  <2>3. UNCHANGED <<vlans, member>> \/ \E S \in SUBSET trunks[v] : TagOnto(v, S)
    BY <1>10 DEF WriteVlanFails
  <2>4. /\ member' \in [Ports -> Port] /\ vlans' \subseteq Vlans /\ DefaultVlan \in vlans'
        /\ \A r \in Ports : Coherent(member'[r])
    <3>1. ASSUME NEW S \in SUBSET trunks[v], TagOnto(v, S)
          PROVE  /\ member' \in [Ports -> Port] /\ vlans' \subseteq Vlans /\ DefaultVlan \in vlans'
                 /\ \A r \in Ports : Coherent(member'[r])
      <4>1. S \in SUBSET Ports
        BY <2>2
      <4>2. QED
        BY <3>1, <4>1, TagKeeps
    <3>2. QED
      BY <1>1, <2>3, <3>1
  <2>5. failures' \in 0..MaxFailures
    BY <1>0, <1>2, <1>10 DEF WriteVlanFails
  <2>6. QED
    BY <1>0, <1>10, <2>1, <2>4, <2>5, TypedStays DEF WriteVlanFails, stateVars
<1>11. ASSUME NEW v \in Managed, DeleteVlan(v)
       PROVE  Typed'
  <2>1. op' \in [Resources -> Calls] /\ vlanState' \subseteq Managed
    BY <1>0, <1>11 DEF DeleteVlan
  <2>2. /\ member' \in [Ports -> Port] /\ vlans' \subseteq Vlans /\ DefaultVlan \in vlans'
        /\ \A r \in Ports : Coherent(member'[r])
    BY <1>11, WithoutKeeps DEF DeleteVlan
  <2>3. QED
    BY <1>0, <1>11, <2>1, <2>2, TypedStays DEF DeleteVlan
<1>12. ASSUME NEW v \in Managed, DeleteVlanFails(v)
       PROVE  Typed'
  <2>1. op' \in [Resources -> Calls] /\ failures' \in 0..MaxFailures
    BY <1>0, <1>2, <1>12 DEF DeleteVlanFails
  <2>2. \/ UNCHANGED <<vlans, member>>
        \/ vlans' = vlans \ {v} /\ member' = [p \in Ports |-> Without(member[p], v)]
    BY <1>12 DEF DeleteVlanFails
  <2>3. /\ member' \in [Ports -> Port] /\ vlans' \subseteq Vlans /\ DefaultVlan \in vlans'
        /\ \A r \in Ports : Coherent(member'[r])
    BY <1>1, <2>2, WithoutKeeps
  <2>4. QED
    BY <1>0, <1>12, <2>1, <2>3, TypedStays DEF DeleteVlanFails, stateVars
<1>13. CASE UNCHANGED vars
  BY <1>0, <1>1, <1>13, TypedStays DEF vars, switchVars, stateVars
<1>14. QED
  BY <1>3, <1>4, <1>5, <1>6, <1>7, <1>8, <1>9, <1>10, <1>11, <1>12, <1>13
     DEF Next, PortStep, VlanStep

\* Every variable has its type, whatever interleaves and whatever fails; a
\* recorded membership is one a configuration could ask for.
THEOREM TrunkTypes == Spec => []TypeOK
<1>1. Typed => TypeOK
  BY DEF Typed
<1>2. QED
  BY <1>1, TypedInit, TypedNext, PTL DEF Spec

-----------------------------------------------------------------------------
(* Complete trunks stay complete.                                            *)

LEMMA EnoughGrows ==
  ASSUME NEW T \in SUBSET Vlans, NEW S \in SUBSET T, Enough(S)
  PROVE  Enough(T)
<1>1. IsFiniteSet(T)
  BY VlansAreFinite
<1>2. IsFiniteSet(S) /\ Cardinality(S) <= Cardinality(T)
  BY <1>1, FS_Subset
<1>3. Cardinality(S) \in Nat /\ Cardinality(T) \in Nat
  BY <1>1, <1>2, FS_CardinalityType
<1>4. QED
  BY <1>2, <1>3 DEF Enough, trunkAllMinVLANs

\* A VLAN that is created and tagged onto a complete trunk.
LEMMA CompleteTagged ==
  ASSUME Typed, NEW p \in Ports, NEW v \in Managed, Complete(p),
         ~Rejects(firmware, member[p], Line("tagged", v)),
         member'[p] = Effect(member[p], Line("tagged", v)), vlans' = vlans \cup {v}
  PROVE  Complete(p)' /\ TaggedOf(member[p]) \subseteq TaggedOf(member'[p])
<1> DEFINE m == member[p]
           l == Line("tagged", v)
           e == Effect(m, l)
<1>1. m \in Port /\ firmware \in {"context", "dual"} /\ Coherent(m)
  BY Kinds DEF Typed, TypeOK
<1>2. l \in LineSet /\ l.op = "tagged" /\ l.vlan = v
  BY LineFields DEF Line, LineSet, Ops, Managed
<1>3. e.tagged = m.tagged \cup {v} /\ e.untagged = m.untagged /\ e.dual = m.dual
  BY <1>1, <1>2, EffectIs
<1>4. /\ firmware = "dual" => m.untagged \in {None, DefaultVlan}
      /\ firmware = "context" => m.untagged # v
  BY <1>2 DEF Rejects
<1>5. v # None /\ v # DefaultVlan
  BY Kinds
<1> HIDE DEF l
<1>6. UntaggedOf(e) = UntaggedOf(m)
  BY <1>3 DEF UntaggedOf
<1>7. m.dual = v \/ v # UntaggedOf(m)
  BY <1>1, <1>4, <1>5 DEF UntaggedOf
<1>8. m.dual = v => UntaggedOf(m) = v
  BY <1>5 DEF UntaggedOf
<1>9. TaggedOf(m) = ExpandAll(vlans, UntaggedOf(m))
  BY DEF Complete
<1> HIDE DEF e, m
<1>10. TaggedOf(e) = ExpandAll(vlans \cup {v}, UntaggedOf(e)) /\ TaggedOf(m) \subseteq TaggedOf(e)
  BY <1>3, <1>5, <1>6, <1>7, <1>8, <1>9 DEF TaggedOf, ExpandAll
<1>11. QED
  BY <1>10 DEF Complete, e, m, l

\* A VLAN that goes from a complete trunk.
LEMMA CompleteWithout ==
  ASSUME Typed, NEW p \in Ports, NEW v \in Managed, Complete(p),
         member'[p] = Without(member[p], v), vlans' = vlans \ {v}
  PROVE  Complete(p)' /\ TaggedOf(member[p]) \ {v} \subseteq TaggedOf(member'[p])
<1> DEFINE m == member[p]
           w == Without(m, v)
<1>1. /\ m \in Port /\ firmware \in {"context", "dual"} /\ Coherent(m) /\ None \notin m.tagged
      /\ None \notin vlans
  BY Kinds, VlansAreFinite DEF Typed, TypeOK, Port
<1>2. /\ w.tagged = m.tagged \ {v} /\ w.untagged = (IF m.untagged = v THEN None ELSE m.untagged)
      /\ w.dual = IF m.dual = v THEN None ELSE m.dual
  BY DEF Without
<1>3. v # None /\ v # DefaultVlan
  BY Kinds
<1>4. TaggedOf(m) = ExpandAll(vlans, UntaggedOf(m))
  BY DEF Complete
<1>5. m.dual # None => firmware = "dual"
  BY <1>1 DEF Coherent
<1>6. m.dual = v => m.untagged \in {None, DefaultVlan}
  BY <1>1, <1>3, <1>5 DEF Coherent
<1> HIDE DEF w, m
<1>7. CASE m.dual = v
  <2>1. UntaggedOf(m) = v /\ UntaggedOf(w) = None
    BY <1>2, <1>3, <1>6, <1>7 DEF UntaggedOf
  <2>2. TaggedOf(w) = ExpandAll(vlans \ {v}, UntaggedOf(w)) /\ TaggedOf(m) \ {v} \subseteq TaggedOf(w)
    BY <1>1, <1>2, <1>3, <1>4, <1>7, <2>1 DEF TaggedOf, ExpandAll
  <2>3. QED
    BY <2>2 DEF Complete, w, m
<1>8. CASE m.dual # v
  <2>1. UntaggedOf(w) = UntaggedOf(m) \/ (UntaggedOf(m) = v /\ UntaggedOf(w) = None)
    BY <1>2, <1>3, <1>8 DEF UntaggedOf
  <2>2. TaggedOf(w) = ExpandAll(vlans \ {v}, UntaggedOf(w)) /\ TaggedOf(m) \ {v} \subseteq TaggedOf(w)
    BY <1>1, <1>2, <1>3, <1>4, <1>8, <2>1 DEF TaggedOf, ExpandAll
  <2>3. QED
    BY <2>2 DEF Complete, w, m
<1>9. QED
  BY <1>7, <1>8

\* findTrunkAllPorts sees a complete trunk with enough VLANs.
LEMMA SeenAsTrunk ==
  ASSUME Typed, NEW p \in Ports, NEW v, v \notin vlans, Complete(p),
         Enough(TaggedOf(member[p]) \cap declared)
  PROVE  TrunkIn(p, vlans \ {DefaultVlan, v})
<1> DEFINE m == member[p]
           existing == vlans \ {DefaultVlan, v}
<1>1. m \in Port /\ Coherent(m) /\ vlans \in SUBSET Vlans
  BY DEF Typed, TypeOK
<1>2. TaggedOf(m) = vlans \ {DefaultVlan, UntaggedOf(m)}
  BY DEF Complete, ExpandAll
<1>3. existing \subseteq m.tagged \cup {m.untagged}
  <2>1. vlans \ {DefaultVlan, UntaggedOf(m)} \subseteq m.tagged
    BY <1>2 DEF TaggedOf
  <2>2. UntaggedOf(m) \in {None, DefaultVlan, m.untagged} \/ UntaggedOf(m) \in m.tagged
    <3> HIDE DEF m
    <3>1. m.dual \in {None, DefaultVlan} \/ m.dual \in m.tagged
      BY <1>1 DEF Coherent
    <3>2. QED
      BY <3>1 DEF UntaggedOf
  <2>3. None \notin vlans
    BY <1>1, VlansAreFinite
  <2>4. QED
    BY <2>1, <2>2, <2>3
<1>4. TaggedOf(m) \cap declared \subseteq existing \cap m.tagged
  BY <1>2 DEF TaggedOf
<1>5. existing \cap m.tagged \in SUBSET Vlans
  BY <1>1
<1>6. Enough(existing \cap m.tagged)
  BY <1>4, <1>5, EnoughGrows
<1>7. QED
  BY <1>3, <1>6 DEF TrunkIn

\* What an apply of VLANs alone is about to do.
Calls ==
  /\ \A p \in Ports : op[p] = "none"
  /\ \A v \in Managed :
       /\ op[v] = "delete" => v \notin declared
       /\ op[v] = "write" =>
            \A p \in Ports : config[p].all => v \in vlans \/ p \in trunks[v]
Healthy ==
  \A p \in Ports : config[p].all =>
    Complete(p) /\ (AtRest \/ Enough(TaggedOf(member[p]) \cap declared))

LEMMA ApplyPlan ==
  ASSUME Typed, Plan
  PROVE  Apply'
<1> SUFFICES ASSUME undisturbed' PROVE Calls' /\ Healthy'
  BY DEF Apply, Calls, Healthy
<1>1. /\ op' = [r \in Resources |->
              IF r \in Ports THEN IF portState'[r] = config[r] THEN "none" ELSE "read"
              ELSE CASE r \in declared \ vlanState' -> "read"
                     [] r \in vlanState' \ declared -> "delete"
                     [] OTHER -> "none"]
      /\ \A p \in Ports :
           /\ op'[p] = "none"
           /\ config[p].all => Complete(p) /\ Enough(TaggedOf(member[p]) \cap declared)
      /\ UNCHANGED <<firmware, vlans, member, config, declared>>
  BY DEF Plan, switchVars
<1>2. \A v \in Managed : op'[v] = CASE v \in declared \ vlanState' -> "read"
                                    [] v \in vlanState' \ declared -> "delete"
                                    [] OTHER -> "none"
  BY <1>1, Kinds
<1>3. \A v \in Managed : op'[v] # "write" /\ (op'[v] = "delete" => v \notin declared)
  BY <1>2
<1>4. Calls'
  BY <1>1, <1>3 DEF Calls
<1>5. Healthy'
  BY <1>1 DEF Healthy, Complete
<1>6. QED
  BY <1>4, <1>5

\* The operation of one VLAN goes on or ends.
LEMMA CallsStep ==
  ASSUME Typed, Calls, NEW v \in Managed, NEW next, op' = [op EXCEPT ![v] = next],
         UNCHANGED <<config, declared>>, next # "delete",
         next = "write" => \A p \in Ports : config[p].all => v \in vlans' \/ p \in trunks'[v],
         \A w \in Managed \ {v} : trunks'[w] = trunks[w] /\ (w \in vlans <=> w \in vlans')
  PROVE  Calls'
<1>1. op \in [Resources -> {"none", "read", "write", "delete"}]
  BY DEF Typed, TypeOK
<1>2. \A r \in Resources : op'[r] = IF r = v THEN next ELSE op[r]
  BY <1>1
<1>3. \A p \in Ports : op'[p] = "none"
  BY <1>2, Kinds DEF Calls
<1>4. \A w \in Managed : /\ op'[w] = "delete" => w \notin declared
                         /\ op'[w] = "write" => \A p \in Ports : config[p].all => w \in vlans' \/ p \in trunks'[w]
  BY <1>2, Kinds DEF Calls
<1>5. QED
  BY <1>3, <1>4 DEF Calls

LEMMA ApplyNext == Typed /\ Apply /\ [Next]_vars => Apply'
<1> SUFFICES ASSUME Typed, Apply, [Next]_vars, undisturbed' PROVE Calls' /\ Healthy'
  BY DEF Apply, Calls, Healthy
<1>0. /\ op \in [Resources -> {"none", "read", "write", "delete"}] /\ trunks \in [Managed -> SUBSET Ports]
      /\ vlans \in SUBSET Vlans /\ declared \in SUBSET Managed
  BY DEF Typed, TypeOK
<1>1. undisturbed => Calls /\ Healthy
  BY DEF Apply, Calls, Healthy
<1>2. CASE Plan
  BY <1>2, ApplyPlan DEF Apply, Calls, Healthy
<1>3. ASSUME NEW v \in Managed, Edit(v)
      PROVE  Calls' /\ Healthy'
  <2>1. AtRest /\ UNCHANGED <<firmware, vlans, member, config, op, trunks, undisturbed>>
    BY <1>3 DEF Edit, switchVars
  <2>2. \A r \in Resources : op[r] = "none"
    BY <2>1 DEF AtRest
  <2>3. Calls'
    BY <1>1, <2>1, <2>2, Kinds DEF Calls
  <2>4. Healthy'
    BY <1>1, <2>1 DEF Healthy, Complete, AtRest
  <2>5. QED
    BY <2>3, <2>4
<1>4. ASSUME NEW p \in Ports, PortStep(p)
      PROVE  FALSE
  <2>1. undisturbed /\ op[p] # "none"
    BY <1>4 DEF PortStep, ReadPort, WritePort, WritePortFails
  <2>2. QED
    BY <1>1, <2>1 DEF Calls
<1>5. ASSUME NEW v \in Managed, ReadVlan(v)
      PROVE  Calls' /\ Healthy'
  <2>1. /\ op[v] = "read" /\ op' = [op EXCEPT ![v] = "write"]
        /\ trunks' = [trunks EXCEPT ![v] = {p \in Ports : TrunkIn(p, vlans \ {DefaultVlan, v})}]
        /\ UNCHANGED <<firmware, vlans, member, config, declared, undisturbed>>
    BY <1>5 DEF ReadVlan, switchVars
  <2>2. Calls /\ Healthy /\ ~AtRest
    BY <1>1, <2>1, Kinds DEF AtRest
  <2>3. \A p \in Ports : config[p].all => v \in vlans' \/ p \in trunks'[v]
    <3>1. \A p \in Ports : config[p].all /\ v \notin vlans => TrunkIn(p, vlans \ {DefaultVlan, v})
      BY <2>2, SeenAsTrunk DEF Healthy
    <3>2. trunks'[v] = {p \in Ports : TrunkIn(p, vlans \ {DefaultVlan, v})}
      BY <1>0, <2>1
    <3>3. QED
      BY <2>1, <3>1, <3>2
  <2>4. \A w \in Managed \ {v} : trunks'[w] = trunks[w] /\ (w \in vlans <=> w \in vlans')
    BY <1>0, <2>1
  <2>5. Calls'
    BY <2>1, <2>2, <2>3, <2>4, CallsStep
  <2>6. Healthy'
    BY <2>1, <2>2 DEF Healthy, Complete
  <2>7. QED
    BY <2>5, <2>6
<1>6. ASSUME NEW v \in Managed, WriteVlan(v)
      PROVE  Calls' /\ Healthy'
  <2>1. /\ op[v] = "write" /\ op' = [op EXCEPT ![v] = "none"]
        /\ trunks' = [trunks EXCEPT ![v] = {}]
        /\ \A p \in trunks[v] : ~Rejects(firmware, member[p], Line("tagged", v))
        /\ member' = [p \in Ports |-> IF p \in trunks[v] THEN Effect(member[p], Line("tagged", v))
                                     ELSE member[p]]
        /\ vlans' = vlans \cup {v}
        /\ UNCHANGED <<firmware, config, declared, undisturbed>>
    BY <1>6 DEF WriteVlan, TagOnto, EndVlan
  <2>2. Calls /\ Healthy /\ ~AtRest
    BY <1>1, <2>1, Kinds DEF AtRest
  <2>3. \A w \in Managed \ {v} : trunks'[w] = trunks[w] /\ (w \in vlans <=> w \in vlans')
    BY <1>0, <2>1
  <2>4. Calls'
    BY <2>1, <2>2, <2>3, CallsStep
  <2>5. ASSUME NEW p \in Ports, config[p].all
        PROVE  Complete(p)' /\ Enough(TaggedOf(member'[p]) \cap declared)
    <3>1. Complete(p) /\ Enough(TaggedOf(member[p]) \cap declared)
      BY <2>2, <2>5 DEF Healthy
    <3>2. Complete(p)' /\ TaggedOf(member[p]) \subseteq TaggedOf(member'[p])
      <4>1. CASE p \in trunks[v]
        BY <2>1, <3>1, <4>1, CompleteTagged
      <4>2. CASE p \notin trunks[v]
        <5>1. v \in vlans
          BY <2>1, <2>2, <2>5, <4>2 DEF Calls
        <5>2. vlans' = vlans /\ member'[p] = member[p]
          BY <2>1, <4>2, <5>1
        <5>3. QED
          BY <3>1, <5>2 DEF Complete
      <4>3. QED
        BY <4>1, <4>2
    <3>3. TaggedOf(member'[p]) \cap declared \in SUBSET Vlans
      BY <1>0 DEF Managed
    <3>4. QED
      BY <3>1, <3>2, <3>3, EnoughGrows
  <2>6. Healthy'
    BY <2>1, <2>5 DEF Healthy
  <2>7. QED
    BY <2>4, <2>6
<1>7. ASSUME NEW v \in Managed, DeleteVlan(v)
      PROVE  Calls' /\ Healthy'
  <2>1. /\ op[v] = "delete" /\ op' = [op EXCEPT ![v] = "none"]
        /\ vlans' = vlans \ {v} /\ member' = [p \in Ports |-> Without(member[p], v)]
        /\ UNCHANGED <<firmware, config, declared, trunks, undisturbed>>
    BY <1>7 DEF DeleteVlan
  <2>2. Calls /\ Healthy /\ ~AtRest /\ v \notin declared
    BY <1>1, <2>1, Kinds DEF AtRest, Calls
  <2>3. \A w \in Managed \ {v} : trunks'[w] = trunks[w] /\ (w \in vlans <=> w \in vlans')
    BY <1>0, <2>1
  <2>4. Calls'
    BY <2>1, <2>2, <2>3, CallsStep
  <2>5. ASSUME NEW p \in Ports, config[p].all
        PROVE  Complete(p)' /\ Enough(TaggedOf(member'[p]) \cap declared)
    <3>1. Complete(p) /\ Enough(TaggedOf(member[p]) \cap declared)
      BY <2>2, <2>5 DEF Healthy
    <3>2. Complete(p)' /\ TaggedOf(member[p]) \ {v} \subseteq TaggedOf(member'[p])
      BY <2>1, <3>1, CompleteWithout
    <3>3. TaggedOf(member'[p]) \cap declared \in SUBSET Vlans
      BY <1>0 DEF Managed
    <3>4. TaggedOf(member[p]) \cap declared \in SUBSET (TaggedOf(member'[p]) \cap declared)
      BY <2>2, <3>2
    <3>5. QED
      BY <3>1, <3>2, <3>3, <3>4, EnoughGrows
  <2>6. Healthy'
    BY <2>1, <2>5 DEF Healthy
  <2>7. QED
    BY <2>4, <2>6
<1>8. ASSUME NEW v \in Managed, WriteVlanFails(v) \/ DeleteVlanFails(v)
      PROVE  FALSE
  BY <1>8 DEF WriteVlanFails, DeleteVlanFails
<1>9. CASE UNCHANGED vars
  BY <1>1, <1>9 DEF vars, switchVars, Calls, Healthy, Complete, AtRest
<1>10. QED
  BY <1>2, <1>3, <1>4, <1>5, <1>6, <1>7, <1>8, <1>9 DEF Next, VlanStep

\* An apply that creates and deletes VLANs, in any order and all at once, and
\* runs no port operation, leaves every complete tag_all_vlans port tagged in
\* every VLAN (icx_vlan Create, findTrunkAllPorts).
THEOREM TrunksComplete == Spec => []TrunksStayComplete
<1>1. Init => Apply
  BY DEF Init, Apply
<1>2. Apply => TrunksStayComplete
  BY DEF Apply, TrunksStayComplete
<1>3. QED
  BY <1>1, <1>2, TypedInit, TypedNext, ApplyNext, PTL DEF Spec
====
