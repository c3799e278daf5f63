--------------------------- MODULE PortWalkProofs ---------------------------
(***************************************************************************)
(* Proofs about PortWalk, for any resources, ports, values, fleets, hidden *)
(* fields, networks, lines typed by hand and bounds.                       *)
(***************************************************************************)
EXTENDS PortWalk, TLAPS

Lines == [field : Fields, value : Values]
States == [Resources -> Resource \cup {Absent}]

\* Where a walk can be with a resource.
Places ==
  /\ walk = "none" => pc = All("out") /\ action = All("none") /\ wrote = {}
  /\ walk = "plan" => wrote = {} /\ \A r \in Resources : pc[r] \in {"plan", "out"}
  /\ walk = "apply" => \A r \in Resources : pc[r] # "plan"
  /\ \A r \in Resources :
       /\ pc[r] = "replan" => action[r] \in {"create", "update"}
       /\ pc[r] \in {"begin", "send", "save"} => action[r] # "none"

\* What a planned action relies on lasts until it is carried out.
Planned ==
  \A r \in Resources :
    /\ action[r] \in {"create", "update"} => config[r] # Absent
    /\ action[r] = "update" => state[r] # Absent
    /\ action[r] = "delete" /\ (walk = "plan" \/ pc[r] # "out") => state[r] # Absent
    /\ pc[r] \in {"send", "save"} => (record[r] = Absent <=> action[r] = "delete")


\* The registry is what the accepted claims know between them.
RegistryExact ==
  /\ \A c \in accepted, a \in Fields : c.attrs[a] # Unknown => registry[c.port][a] = c.attrs[a]
  /\ \A p \in PortIds, a \in Fields :
       registry[p][a] # Unknown => \E c \in accepted : c.port = p /\ c.attrs[a] = registry[p][a]
  /\ \A c \in rejected : \E d \in accepted : Contradict(c, d)

\* A resource writes only after its configuration, all of it known, was accepted.
FullClaim(r) == [by |-> r, port |-> config[r].port, attrs |-> config[r].attrs]
WritesAreClaimed ==
  \A r \in Resources :
    /\ pc[r] \in {"begin", "send", "save"} /\ action[r] # "delete" => FullClaim(r) \in accepted
    /\ r \in wrote => config[r] # Absent /\ FullClaim(r) \in accepted

\* Lines that disable a port were built by a look that found no path through it.
Disabling(r) == \E i \in DOMAIN lines[r] : lines[r][i] = Line("enabled", "off")
Looks ==
  \A r \in Resources :
    pc[r] = "send" /\ Disabling(r) =>
      record[r] # Absent /\ (r \in unaware \/ record[r].port \notin PathPorts)

IInv == TypeOK /\ Places /\ Planned /\ RegistryExact /\ WritesAreClaimed /\ Looks

-----------------------------------------------------------------------------
(* Lemmas about the operators.                                               *)

LEMMA AbsentIsNone == Absent \notin Resource
BY DEF Absent, Resource

LEMMA UnknownIsNoValue == Unknown \notin Values
BY PortWalkAssumption

LEMMA FieldNames == "name" \in Fields /\ "enabled" \in Fields
BY DEF Fields

LEMMA ValueNames == {"null", "on", "off"} \subseteq Values
BY DEF Values

\* A resource that is not absent has a port and attributes.
LEMMA Present ==
  ASSUME NEW s \in States, NEW r \in Resources, s[r] # Absent
  PROVE  s[r] \in Resource /\ s[r].port \in PortIds /\ s[r].attrs \in [Fields -> Values]
BY DEF States, Resource

LEMMA RegistryTypes ==
  /\ NewRegistry \in [PortIds -> Knowledge]
  /\ \A reg \in [PortIds -> Knowledge], p \in PortIds, k \in Knowledge :
       Claimed(reg, p, k) \in [PortIds -> Knowledge]
<1>1. NewRegistry \in [PortIds -> Knowledge]
  BY DEF NewRegistry, Knowledge
<1>2. ASSUME NEW reg \in [PortIds -> Knowledge], NEW p \in PortIds, NEW k \in Knowledge
      PROVE  Claimed(reg, p, k) \in [PortIds -> Knowledge]
  <2>1. Merge(reg[p], k) \in Knowledge
    BY DEF Merge, Knowledge
  <2>2. QED
    BY <2>1 DEF Claimed
<1>3. QED
  BY <1>1, <1>2

LEMMA SeenType ==
  ASSUME config \in States, NEW r \in Resources, config[r] # Absent, NEW unknown
  PROVE  Seen(r, unknown) \in Knowledge
BY Present DEF Seen, Knowledge

\* The lines of an operation are lines.
LEMMA LineTypes ==
  ASSUME NEW plan \in [Fields -> Values], NEW old \in [Fields -> Values], NEW isDown \in BOOLEAN
  PROVE  {CreateLines(plan, isDown), UpdateLines(plan, old), DeleteLines(old)} \subseteq Seq(Lines)
<1>1. ASSUME NEW f \in Fields, NEW v \in Values, NEW c
      PROVE  When(c, Line(f, v)) \in Seq(Lines)
  <2>1. <<Line(f, v)>> \in Seq(Lines) /\ <<>> \in Seq(Lines)
    BY DEF Line, Lines
  <2>2. QED
    BY <2>1, Zenon DEF When
<1>2. \A s, t \in Seq(Lines) : s \o t \in Seq(Lines)
  OBVIOUS
<1>3. CreateLines(plan, isDown) \in Seq(Lines)
  <2> DEFINE c == plan["name"] # "null"
             d == plan["enabled"] = "off" \/ (plan["enabled"] = "on" /\ isDown)
  <2>1. plan["name"] \in Values /\ plan["enabled"] \in Values
    BY FieldNames
  <2>2. When(c, Line("name", plan["name"])) \in Seq(Lines)
    BY <1>1, <2>1, FieldNames
  <2>3. When(d, Line("enabled", plan["enabled"])) \in Seq(Lines)
    BY <1>1, <2>1, FieldNames
  <2>4. QED
    BY <1>2, <2>2, <2>3 DEF CreateLines
<1>4. UpdateLines(plan, old) \in Seq(Lines)
  <2> DEFINE c == plan["name"] # old["name"]
             d == plan["enabled"] \notin {"null", old["enabled"]}
  <2>1. plan["name"] \in Values /\ plan["enabled"] \in Values
    BY FieldNames
  <2>2. When(c, Line("name", plan["name"])) \in Seq(Lines)
    BY <1>1, <2>1, FieldNames
  <2>3. When(d, Line("enabled", plan["enabled"])) \in Seq(Lines)
    BY <1>1, <2>1, FieldNames
  <2>4. QED
    BY <1>2, <2>2, <2>3 DEF UpdateLines
<1>5. DeleteLines(old) \in Seq(Lines)
  <2> DEFINE c == old["name"] # "null"
             d == old["enabled"] = "off"
  <2>2. When(c, Line("name", "null")) \in Seq(Lines)
    BY <1>1, FieldNames, ValueNames
  <2>3. When(d, Line("enabled", "on")) \in Seq(Lines)
    BY <1>1, FieldNames, ValueNames
  <2>4. QED
    BY <1>2, <2>2, <2>3 DEF DeleteLines
<1>6. QED
  BY <1>3, <1>4, <1>5

LEMMA FilledType ==
  ASSUME NEW plan \in [Fields -> Values], NEW enabled \in Values
  PROVE  Filled(plan, enabled) \in [Fields -> Values]
BY DEF Filled

LEMMA AnswersType ==
  ASSUME failures \in Nat, NEW answered \in BOOLEAN, NEW plan, NEW old, Answers(answered, plan, old)
  PROVE  failures' \in Nat
BY DEF Answers

\* The claims after a step that claims a port, or does not.
LEMMA ClaimPortTypes ==
  ASSUME TypeOK, NEW r \in Resources, config[r] # Absent, NEW unknown, ClaimPort(r, unknown)
  PROVE  ClaimTypes'
<1>1. Seen(r, unknown) \in Knowledge /\ config[r].port \in PortIds
  BY SeenType, Present DEF TypeOK, PlanTypes, States
<1>2. CASE "port" \in unknown
  BY <1>2 DEF TypeOK, ClaimTypes, ClaimPort, claimVars
<1>3. CASE "port" \notin unknown
  <2> DEFINE claim == [by |-> r, port |-> config[r].port, attrs |-> Seen(r, unknown)]
  <2>1. claim \in Claims
    BY <1>1 DEF Claims
  <2>2. registry' \in [PortIds -> Knowledge]
    BY <1>1, <1>3, RegistryTypes DEF TypeOK, ClaimTypes, ClaimPort
  <2>3. accepted' \in {accepted, accepted \cup {claim}} /\ rejected' \in {rejected, rejected \cup {claim}}
    BY <1>3 DEF ClaimPort
  <2>4. QED
    BY <2>1, <2>2, <2>3 DEF TypeOK, ClaimTypes
<1>4. QED
  BY <1>2, <1>3

\* What a walk starts with.
LEMMA WalkTypes ==
  ASSUME NEW kind \in {"none", "plan", "apply"},
         NEW places \in [Resources -> {"out", "plan", "replan", "begin", "send", "save"}],
         Walk(kind, places)
  PROVE  /\ ClaimTypes'
         /\ walk' = kind /\ pc' = places
         /\ record' \in States
         /\ lines' \in [Resources -> Seq(Lines)]
         /\ wrote' = {} /\ unaware' = {}
BY RegistryTypes DEF Walk, ClaimTypes, States, Lines

\* What the lines of an operation make of the switch.
LEMMA SendsTypes ==
  ASSUME TypeOK, NEW r \in Resources, NEW k \in 0..Len(lines[r]), Sends(r, k)
  PROVE  /\ device' \in [PortIds -> [Fields -> Values]]
         /\ cut' \in BOOLEAN
         /\ wrote' \in SUBSET Resources
<1> DEFINE ran == {lines[r][i] : i \in 1..k}
<1>1. ran \subseteq Lines
  <2>1. lines[r] \in Seq(Lines)
    BY DEF TypeOK, OpTypes, Lines
  <2>2. QED
    BY <2>1
<1> DEFINE after == [f \in Fields |-> IF \E l \in ran : l.field = f
                                      THEN (CHOOSE l \in ran : l.field = f).value
                                      ELSE device[Target(r)][f]]
<1>2. Target(r) \in PortIds => after \in [Fields -> Values]
  <2>1. ASSUME NEW f \in Fields
        PROVE  Target(r) \in PortIds => after[f] \in Values
    <3>1. CASE \E l \in ran : l.field = f
      <4>1. (CHOOSE l \in ran : l.field = f) \in ran
        BY <3>1
      <4>2. (CHOOSE l \in ran : l.field = f).value \in Values
        BY <1>1, <4>1 DEF Lines
      <4>3. QED
        BY <3>1, <4>2
    <3>2. CASE ~\E l \in ran : l.field = f
      BY <3>2 DEF TypeOK, SwitchTypes
    <3>3. QED
      BY <3>1, <3>2
  <2>2. QED
    BY <2>1
<1>3. device' = [device EXCEPT ![Target(r)] = after]
  BY DEF Sends, TypeOK, SwitchTypes
<1>4. QED
  BY <1>2, <1>3 DEF TypeOK, SwitchTypes, OpTypes, Sends

-----------------------------------------------------------------------------
(* Every action keeps the types.                                             *)

LEMMA EditTypes ==
  ASSUME TypeOK, NEW fleet \in Fleets, Edit(fleet)
  PROVE  TypeOK'
<1>1. config' \in States /\ edits' \in Nat
  BY PortWalkAssumption DEF Edit, States, TypeOK, OpTypes
<1>2. SwitchTypes' /\ ClaimTypes'
  BY DEF Edit, TypeOK, SwitchTypes, ClaimTypes, switchVars, claimVars
<1>3. PlanTypes' /\ OpTypes'
  BY <1>1 DEF Edit, TypeOK, PlanTypes, OpTypes, opVars, States
<1>4. QED
  BY <1>2, <1>3 DEF TypeOK

LEMMA EndRunTypes ==
  ASSUME TypeOK, EndRun, UNCHANGED <<switchVars, config, state, boundVars>>
  PROVE  TypeOK'
<1>1. /\ ClaimTypes' /\ record' \in States /\ lines' \in [Resources -> Seq(Lines)]
      /\ walk' = "none" /\ pc' = All("out") /\ wrote' = {} /\ unaware' = {}
  BY WalkTypes DEF EndRun, All
<1>2. SwitchTypes'
  BY DEF TypeOK, SwitchTypes, switchVars
<1>3. PlanTypes'
  BY <1>1 DEF TypeOK, PlanTypes, EndRun, All, States
<1>4. OpTypes'
  BY <1>1 DEF TypeOK, OpTypes, boundVars, Lines
<1>5. QED
  BY <1>1, <1>2, <1>3, <1>4 DEF TypeOK

LEMMA RunTypes ==
  ASSUME TypeOK, Run
  PROVE  TypeOK'
<1>1. /\ ClaimTypes' /\ record' \in States /\ lines' \in [Resources -> Seq(Lines)]
      /\ walk' = "plan" /\ pc' = All("plan") /\ wrote' = {} /\ unaware' = {}
  BY WalkTypes DEF Run, All
<1>2. SwitchTypes'
  BY DEF Run, TypeOK, SwitchTypes, switchVars
<1>3. PlanTypes'
  BY <1>1, PortWalkAssumption DEF Run, TypeOK, PlanTypes, All, States
<1>4. OpTypes'
  BY <1>1 DEF Run, TypeOK, OpTypes, boundVars, Lines
<1>5. QED
  BY <1>1, <1>2, <1>3, <1>4 DEF TypeOK

LEMMA EndPlanTypes ==
  ASSUME TypeOK, EndPlan
  PROVE  TypeOK'
<1>1. CASE refused
  BY <1>1, EndRunTypes DEF EndPlan
<1>2. CASE ~refused
  <2> DEFINE places == [r \in Resources |-> CASE action[r] = "none"   -> "out"
                                               [] action[r] = "delete" -> "begin"
                                               [] OTHER                -> "replan"]
  <2>1. places \in [Resources -> {"out", "plan", "replan", "begin", "send", "save"}]
    OBVIOUS
  <2>2. Walk("apply", places) /\ UNCHANGED <<hidden, action, refused, switchVars, config, state, boundVars>>
    BY <1>2 DEF EndPlan
  <2>3. /\ ClaimTypes' /\ record' \in States /\ lines' \in [Resources -> Seq(Lines)]
        /\ walk' = "apply" /\ pc' = places /\ wrote' = {} /\ unaware' = {}
    BY <2>1, <2>2, WalkTypes
  <2>4. SwitchTypes'
    BY <2>2 DEF TypeOK, SwitchTypes, switchVars
  <2>5. PlanTypes'
    BY <2>1, <2>2, <2>3 DEF TypeOK, PlanTypes, States
  <2>6. OpTypes'
    BY <2>2, <2>3 DEF TypeOK, OpTypes, boundVars, Lines
  <2>7. QED
    BY <2>3, <2>4, <2>5, <2>6 DEF TypeOK
<1>3. QED
  BY <1>1, <1>2

LEMMA PlanResourceTypes ==
  ASSUME TypeOK, NEW r \in Resources, NEW answered \in BOOLEAN, PlanResource(r, answered)
  PROVE  TypeOK'
<1>1. Refreshed(r) \in Resource \cup {Absent}
  <2>1. CASE state[r] = Absent
    BY <2>1 DEF Refreshed
  <2>2. CASE state[r] # Absent
    <3>1. state[r] \in Resource /\ device[state[r].port] \in [Fields -> Values]
      BY <2>2, Present DEF TypeOK, PlanTypes, SwitchTypes, States
    <3>2. QED
      BY <2>2, <3>1 DEF Refreshed, Resource
  <2>3. QED
    BY <2>1, <2>2
<1>2. PlanTypes'
  <2>1. pc' \in [Resources -> {"out", "plan", "replan", "begin", "send", "save"}]
    BY DEF PlanResource, TypeOK, PlanTypes
  <2>2. state' \in States
    BY <1>1 DEF PlanResource, TypeOK, PlanTypes, States
  <2>3. action' \in [Resources -> {"none", "create", "update", "delete"}]
    BY DEF PlanResource, TypeOK, PlanTypes
  <2>4. refused' \in BOOLEAN
    <3>1. CASE config[r] = Absent
      BY <3>1 DEF PlanResource, TypeOK, PlanTypes
    <3>2. CASE config[r] # Absent
      <4>1. refused' = (refused \/ PlanRefused(r, hidden[r], state'[r], answered))
        BY <3>2 DEF PlanResource
      <4>2. QED
        BY <4>1, Zenon DEF TypeOK, PlanTypes
    <3>3. QED
      BY <3>1, <3>2
  <2>5. QED
    BY <2>1, <2>2, <2>3, <2>4 DEF PlanResource, TypeOK, PlanTypes, States, opVars
<1>3. ClaimTypes' /\ failures' \in Nat
  <2>1. CASE config[r] = Absent
    BY <2>1 DEF PlanResource, TypeOK, ClaimTypes, OpTypes, claimVars
  <2>2. CASE config[r] # Absent
    BY <2>2, ClaimPortTypes, AnswersType DEF PlanResource, TypeOK, OpTypes
  <2>3. QED
    BY <2>1, <2>2
<1>4. SwitchTypes' /\ OpTypes'
  BY <1>3 DEF PlanResource, TypeOK, SwitchTypes, OpTypes, switchVars, opVars
<1>5. QED
  BY <1>2, <1>3, <1>4 DEF TypeOK

LEMMA ReplanTypes ==
  ASSUME TypeOK, NEW r \in Resources, config[r] # Absent, NEW answered \in BOOLEAN, Replan(r, answered)
  PROVE  TypeOK'
<1>1. ClaimTypes' /\ failures' \in Nat
  BY ClaimPortTypes, AnswersType DEF Replan, TypeOK, OpTypes
<1>2. pc' \in [Resources -> {"out", "plan", "replan", "begin", "send", "save"}]
  BY DEF Replan, TypeOK, PlanTypes
<1>3. PlanTypes'
  BY <1>2 DEF Replan, TypeOK, PlanTypes, opVars
<1>4. SwitchTypes' /\ OpTypes'
  BY <1>1 DEF Replan, TypeOK, SwitchTypes, OpTypes, switchVars, opVars
<1>5. QED
  BY <1>1, <1>3, <1>4 DEF TypeOK

LEMMA StartsTypes ==
  ASSUME TypeOK, NEW r \in Resources, NEW sent \in Seq(Lines), NEW recorded \in Resource \cup {Absent},
         Starts(r, sent, recorded), failures' \in Nat, unaware' \in SUBSET Resources
  PROVE  TypeOK'
<1>1. SwitchTypes' /\ ClaimTypes'
  BY DEF Starts, TypeOK, SwitchTypes, ClaimTypes, switchVars, claimVars
<1>2. PlanTypes'
  BY DEF Starts, TypeOK, PlanTypes
<1>3. OpTypes'
  <2>1. lines' \in [Resources -> Seq(Lines)]
    BY DEF Starts, TypeOK, OpTypes, Lines
  <2>2. QED
    BY <2>1 DEF Starts, TypeOK, OpTypes, Lines
<1>4. QED
  BY <1>1, <1>2, <1>3 DEF TypeOK

LEMMA RefusedAtApplyTypes ==
  ASSUME TypeOK, NEW r \in Resources, RefusedAtApply(r), failures' \in Nat, unaware' \in SUBSET Resources
  PROVE  TypeOK'
<1>1. SwitchTypes' /\ ClaimTypes'
  BY DEF RefusedAtApply, TypeOK, SwitchTypes, ClaimTypes, switchVars, claimVars
<1>2. PlanTypes' /\ OpTypes'
  BY DEF RefusedAtApply, TypeOK, PlanTypes, OpTypes
<1>3. QED
  BY <1>1, <1>2 DEF TypeOK

LEMMA LookedType ==
  ASSUME TypeOK, NEW r \in Resources, NEW answered \in BOOLEAN, Looked(r, answered)
  PROVE  unaware' \in SUBSET Resources
BY DEF Looked, TypeOK, OpTypes

\* What an operation that succeeds records.
LEMMA RecordTypes ==
  ASSUME NEW wanted \in Resource, NEW enabled \in Values
  PROVE  [wanted EXCEPT !.attrs = Filled(wanted.attrs, enabled)] \in Resource
BY FilledType DEF Resource

LEMMA BeginCreateTypes ==
  ASSUME TypeOK, NEW r \in Resources, config[r] # Absent, NEW answered \in BOOLEAN, BeginCreate(r, answered)
  PROVE  TypeOK'
<1> DEFINE now == device[config[r].port]
           isDown == now["enabled"] = "off"
<1>1. config[r] \in Resource /\ config[r].attrs \in [Fields -> Values] /\ now \in [Fields -> Values]
  BY Present DEF TypeOK, PlanTypes, SwitchTypes, States
<1>2. failures' \in Nat /\ unaware' \in SUBSET Resources
  BY AnswersType, LookedType DEF BeginCreate, TypeOK, OpTypes
<1>3. CASE RefusedAtApply(r)
  BY <1>2, <1>3, RefusedAtApplyTypes
<1>4. CASE Starts(r, CreateLines(config[r].attrs, isDown), [config[r] EXCEPT !.attrs = Filled(config[r].attrs, now["enabled"])])
  <2>1. CreateLines(config[r].attrs, isDown) \in Seq(Lines)
    BY <1>1, LineTypes
  <2>2. [config[r] EXCEPT !.attrs = Filled(config[r].attrs, now["enabled"])] \in Resource
    BY <1>1, RecordTypes, FieldNames
  <2>3. QED
    BY <1>2, <1>4, <2>1, <2>2, StartsTypes
<1>5. QED
  BY <1>3, <1>4 DEF BeginCreate

LEMMA BeginUpdateTypes ==
  ASSUME TypeOK, NEW r \in Resources, config[r] # Absent, state[r] # Absent, NEW answered \in BOOLEAN,
         BeginUpdate(r, answered)
  PROVE  TypeOK'
<1>1. /\ config[r] \in Resource /\ config[r].attrs \in [Fields -> Values]
      /\ state[r].attrs \in [Fields -> Values]
  BY Present DEF TypeOK, PlanTypes, States
<1>2. failures' \in Nat /\ unaware' \in SUBSET Resources
  BY AnswersType, LookedType DEF BeginUpdate, TypeOK, OpTypes
<1>3. CASE RefusedAtApply(r)
  BY <1>2, <1>3, RefusedAtApplyTypes
<1>4. CASE Starts(r, UpdateLines(config[r].attrs, state[r].attrs),
                  [config[r] EXCEPT !.attrs = Filled(config[r].attrs, state[r].attrs["enabled"])])
  <2>1. UpdateLines(config[r].attrs, state[r].attrs) \in Seq(Lines)
    BY <1>1, LineTypes
  <2>2. [config[r] EXCEPT !.attrs = Filled(config[r].attrs, state[r].attrs["enabled"])] \in Resource
    BY <1>1, RecordTypes, FieldNames
  <2>3. QED
    BY <1>2, <1>4, <2>1, <2>2, StartsTypes
<1>5. QED
  BY <1>3, <1>4 DEF BeginUpdate

LEMMA BeginDeleteTypes ==
  ASSUME TypeOK, NEW r \in Resources, state[r] # Absent, BeginDelete(r)
  PROVE  TypeOK'
<1>1. DeleteLines(state[r].attrs) \in Seq(Lines)
  BY Present, LineTypes DEF TypeOK, PlanTypes, States
<1>2. QED
  BY <1>1, StartsTypes DEF BeginDelete, TypeOK, OpTypes

\* A step that only moves a resource on, and what else the steps below change.
LEMMA SendTypes ==
  ASSUME TypeOK, NEW r \in Resources, Send(r) \/ SendFails(r)
  PROVE  TypeOK'
<1>1. lines[r] \in Seq(Lines)
  BY DEF TypeOK, OpTypes, Lines
<1>2. PICK k \in 0..Len(lines[r]) : Sends(r, k)
  BY <1>1 DEF Send, SendFails
<1>3. /\ device' \in [PortIds -> [Fields -> Values]] /\ cut' \in BOOLEAN
      /\ wrote' \in SUBSET Resources
  BY <1>2, SendsTypes
<1>4. SwitchTypes' /\ ClaimTypes'
  BY <1>3 DEF Send, SendFails, TypeOK, SwitchTypes, ClaimTypes, claimVars
<1>5. pc' \in [Resources -> {"out", "plan", "replan", "begin", "send", "save"}]
  BY DEF Send, SendFails, TypeOK, PlanTypes
<1>6. PlanTypes'
  BY <1>5 DEF Send, SendFails, TypeOK, PlanTypes
<1>7. OpTypes'
  <2>1. failures' \in Nat
    BY DEF Send, SendFails, boundVars, TypeOK, OpTypes
  <2>2. QED
    BY <1>3, <2>1 DEF Send, SendFails, TypeOK, OpTypes, boundVars
<1>8. QED
  BY <1>4, <1>6, <1>7 DEF TypeOK

LEMMA OutTypes ==
  ASSUME TypeOK, NEW r \in Resources, Save(r) \/ SaveFails(r) \/ FailsWithoutSession(r)
  PROVE  TypeOK'
<1>1. SwitchTypes' /\ ClaimTypes'
  BY DEF Save, SaveFails, FailsWithoutSession, TypeOK, SwitchTypes, ClaimTypes, switchVars, claimVars
<1>2. pc' \in [Resources -> {"out", "plan", "replan", "begin", "send", "save"}]
  BY DEF Save, SaveFails, FailsWithoutSession, TypeOK, PlanTypes
<1>3. state' \in States
  BY DEF Save, SaveFails, FailsWithoutSession, TypeOK, PlanTypes, States
<1>4. PlanTypes'
  BY <1>2, <1>3 DEF Save, SaveFails, FailsWithoutSession, TypeOK, PlanTypes, opVars, States
<1>5. OpTypes'
  <2>1. UNCHANGED opVars /\ edits' = edits /\ moves' = moves /\ byHand' = byHand
    BY DEF Save, SaveFails, FailsWithoutSession, boundVars
  <2>2. failures' \in Nat
    BY DEF Save, SaveFails, FailsWithoutSession, boundVars, TypeOK, OpTypes
  <2>3. QED
    BY <2>1, <2>2 DEF TypeOK, OpTypes, opVars
<1>6. QED
  BY <1>1, <1>4, <1>5 DEF TypeOK

LEMMA PathMovesTypes ==
  ASSUME TypeOK, PathMoves
  PROVE  TypeOK'
<1>1. SwitchTypes' /\ ClaimTypes'
  BY DEF PathMoves, TypeOK, SwitchTypes, ClaimTypes, claimVars
<1>2. PlanTypes'
  BY DEF PathMoves, TypeOK, PlanTypes
<1>3. OpTypes'
  <2>1. moves' \in Nat
    BY DEF PathMoves, TypeOK, OpTypes
  <2>2. QED
    BY <2>1 DEF PathMoves, TypeOK, OpTypes
<1>4. QED
  BY <1>1, <1>2, <1>3 DEF TypeOK

LEMMA ByHandTypes ==
  ASSUME TypeOK, ByHand
  PROVE  TypeOK'
<1>1. PICK p \in PortIds, l \in HandLines : device' = [device EXCEPT ![p][l.field] = l.value]
  BY DEF ByHand
<1>2. l.field \in Fields /\ l.value \in Values
  BY PortWalkAssumption
<1>3. device' \in [PortIds -> [Fields -> Values]]
  BY <1>1, <1>2 DEF TypeOK, SwitchTypes
<1>4. SwitchTypes' /\ ClaimTypes'
  BY <1>3 DEF ByHand, TypeOK, SwitchTypes, ClaimTypes, claimVars
<1>5. PlanTypes'
  BY DEF ByHand, TypeOK, PlanTypes, opVars
<1>6. OpTypes'
  <2>1. byHand' \in Nat
    BY DEF ByHand, TypeOK, OpTypes
  <2>2. QED
    BY <2>1 DEF ByHand, TypeOK, OpTypes, opVars
<1>7. QED
  BY <1>4, <1>5, <1>6 DEF TypeOK

LEMMA ConsoleTypes ==
  ASSUME TypeOK, Console
  PROVE  TypeOK'
<1>1. device' \in [PortIds -> [Fields -> Values]]
  BY ValueNames DEF Console, TypeOK, SwitchTypes
<1>2. SwitchTypes' /\ ClaimTypes'
  BY <1>1 DEF Console, TypeOK, SwitchTypes, ClaimTypes, claimVars
<1>3. PlanTypes'
  BY DEF Console, TypeOK, PlanTypes, opVars
<1>4. OpTypes'
  BY DEF Console, TypeOK, OpTypes, opVars, boundVars
<1>5. QED
  BY <1>2, <1>3, <1>4 DEF TypeOK

LEMMA TypeInit == Init => TypeOK
<1> SUFFICES ASSUME Init PROVE TypeOK
  OBVIOUS
<1>1. SwitchTypes
  BY PortWalkAssumption DEF Init, SwitchTypes
<1>2. PlanTypes
  BY DEF Init, PlanTypes
<1>3. ClaimTypes
  BY RegistryTypes DEF Init, ClaimTypes
<1>4. OpTypes
  BY DEF Init, OpTypes
<1>5. QED
  BY <1>1, <1>2, <1>3, <1>4 DEF TypeOK

\* The actions one by one.
LEMMA NextActions ==
  ASSUME Next
  PROVE  \/ Run \/ EndPlan \/ EndApply \/ PathMoves \/ ByHand \/ Console
         \/ \E f \in Fleets : Edit(f)
         \/ \E r \in Resources : \/ Send(r) \/ SendFails(r) \/ Save(r) \/ SaveFails(r)
                                 \/ FailsWithoutSession(r) \/ BeginDelete(r)
         \/ \E r \in Resources, answered \in BOOLEAN :
              \/ PlanResource(r, answered) \/ Replan(r, answered)
              \/ BeginCreate(r, answered) \/ BeginUpdate(r, answered)
BY Zenon DEF Next, Terraform, Others, Operation

LEMMA TypeStep ==
  ASSUME TypeOK, Places, Planned, Next
  PROVE  TypeOK'
<1>1. CASE Run \/ EndPlan \/ EndApply
  BY <1>1, RunTypes, EndPlanTypes, EndRunTypes DEF EndApply
<1>2. CASE PathMoves \/ ByHand \/ Console
  BY <1>2, PathMovesTypes, ByHandTypes, ConsoleTypes
<1>3. CASE \E f \in Fleets : Edit(f)
  BY <1>3, EditTypes
<1>4. ASSUME NEW r \in Resources,
             Send(r) \/ SendFails(r) \/ Save(r) \/ SaveFails(r) \/ FailsWithoutSession(r)
      PROVE  TypeOK'
  BY <1>4, SendTypes, OutTypes
<1>5. ASSUME NEW r \in Resources, BeginDelete(r)
      PROVE  TypeOK'
  <2>1. state[r] # Absent
    BY <1>5 DEF BeginDelete, Planned
  <2>2. QED
    BY <1>5, <2>1, BeginDeleteTypes
<1>6. ASSUME NEW r \in Resources, NEW answered \in BOOLEAN, PlanResource(r, answered)
      PROVE  TypeOK'
  BY <1>6, PlanResourceTypes
<1>7. ASSUME NEW r \in Resources, NEW answered \in BOOLEAN, Replan(r, answered)
      PROVE  TypeOK'
  <2>1. config[r] # Absent
    BY <1>7 DEF Replan, Places, Planned
  <2>2. QED
    BY <1>7, <2>1, ReplanTypes
<1>8. ASSUME NEW r \in Resources, NEW answered \in BOOLEAN, BeginCreate(r, answered)
      PROVE  TypeOK'
  <2>1. config[r] # Absent
    BY <1>8 DEF BeginCreate, Planned
  <2>2. QED
    BY <1>8, <2>1, BeginCreateTypes
<1>9. ASSUME NEW r \in Resources, NEW answered \in BOOLEAN, BeginUpdate(r, answered)
      PROVE  TypeOK'
  <2>1. config[r] # Absent /\ state[r] # Absent
    BY <1>9 DEF BeginUpdate, Planned
  <2>2. QED
    BY <1>9, <2>1, BeginUpdateTypes
<1>10. QED
  BY <1>1, <1>2, <1>3, <1>4, <1>5, <1>6, <1>7, <1>8, <1>9, NextActions

-----------------------------------------------------------------------------
(* Where the walk is, and what was planned.                                  *)

LEMMA PlacesStep ==
  ASSUME TypeOK, Places, Next
  PROVE  Places'
<1> USE DEF TypeOK, PlanTypes
<1>1. CASE Run
  BY <1>1 DEF Run, Walk, All, Places
<1>2. CASE EndPlan
  BY <1>2 DEF EndPlan, EndRun, Walk, All, Places
<1>3. CASE EndApply
  BY <1>3 DEF EndApply, EndRun, Walk, All, Places
<1>4. CASE PathMoves
  BY <1>4 DEF PathMoves, Places
<1>5. CASE ByHand \/ Console
  BY <1>5 DEF ByHand, Console, Places, opVars
<1>6. CASE \E f \in Fleets : Edit(f)
  BY <1>6 DEF Edit, Places, opVars
<1>7. ASSUME NEW r \in Resources, Send(r) \/ SendFails(r)
      PROVE  Places'
  BY <1>7 DEF Send, SendFails, Places, All
<1>8. ASSUME NEW r \in Resources, Save(r) \/ SaveFails(r) \/ FailsWithoutSession(r)
      PROVE  Places'
  BY <1>8 DEF Save, SaveFails, FailsWithoutSession, Places, All, opVars
<1>9. ASSUME NEW r \in Resources, NEW answered \in BOOLEAN,
             BeginDelete(r) \/ BeginCreate(r, answered) \/ BeginUpdate(r, answered)
      PROVE  Places'
  BY <1>9 DEF BeginDelete, BeginCreate, BeginUpdate, Starts, RefusedAtApply, Places, All
<1>10. ASSUME NEW r \in Resources, NEW answered \in BOOLEAN, PlanResource(r, answered)
       PROVE  Places'
  BY <1>10 DEF PlanResource, Places, All, opVars
<1>11. ASSUME NEW r \in Resources, NEW answered \in BOOLEAN, Replan(r, answered)
       PROVE  Places'
  BY <1>11 DEF Replan, Places, All, opVars
<1>12. QED
  BY <1>1, <1>2, <1>3, <1>4, <1>5, <1>6, <1>7, <1>8, <1>9, <1>10, <1>11, NextActions

LEMMA PlannedStep ==
  ASSUME TypeOK, Places, Planned, Next
  PROVE  Planned'
<1> USE DEF TypeOK, PlanTypes
<1>1. CASE Run
  BY <1>1 DEF Run, Walk, All, Places, Planned
<1>2. CASE EndPlan
  BY <1>2 DEF EndPlan, EndRun, Walk, All, Places, Planned
<1>3. CASE EndApply
  BY <1>3 DEF EndApply, EndRun, Walk, All, Places, Planned
<1>4. CASE PathMoves
  BY <1>4 DEF PathMoves, Planned
<1>5. CASE ByHand \/ Console
  BY <1>5 DEF ByHand, Console, Planned, opVars
<1>6. CASE \E f \in Fleets : Edit(f)
  BY <1>6 DEF Edit, Places, Planned, All, opVars
<1>7. ASSUME NEW r \in Resources, Send(r) \/ SendFails(r)
      PROVE  Planned'
  BY <1>7 DEF Send, SendFails, Planned
<1>8. ASSUME NEW r \in Resources, Save(r) \/ SaveFails(r) \/ FailsWithoutSession(r)
      PROVE  Planned'
  BY <1>8 DEF Save, SaveFails, FailsWithoutSession, Places, Planned, opVars
<1>9. ASSUME NEW r \in Resources, BeginDelete(r)
      PROVE  Planned'
  BY <1>9 DEF BeginDelete, Starts, Planned
<1>10. ASSUME NEW r \in Resources, NEW answered \in BOOLEAN,
              BeginCreate(r, answered) \/ BeginUpdate(r, answered)
       PROVE  Planned'
  <2>1. config[r] # Absent
    BY <1>10 DEF BeginCreate, BeginUpdate, Planned
  <2>2. config[r] \in Resource
    BY <2>1, Present DEF States
  <2>3. \A attrs : [config[r] EXCEPT !.attrs = attrs] # Absent
    BY <2>2 DEF Resource, Absent
  <2>4. QED
    BY <1>10, <2>3 DEF BeginCreate, BeginUpdate, Starts, RefusedAtApply, Planned
<1>11. ASSUME NEW r \in Resources, NEW answered \in BOOLEAN, PlanResource(r, answered)
       PROVE  Planned'
  <2>1. Refreshed(r) = Absent <=> state[r] = Absent
    <3>1. CASE state[r] = Absent
      BY <3>1 DEF Refreshed
    <3>2. CASE state[r] # Absent
      <4>1. state[r] \in Resource
        BY <3>2, Present DEF States
      <4>2. Refreshed(r) # Absent
        BY <3>2, <4>1 DEF Refreshed, Resource, Absent
      <4>3. QED
        BY <3>2, <4>2
    <3>3. QED
      BY <3>1, <3>2
  <2>2. walk = "plan" /\ walk' = "plan" /\ config' = config /\ record' = record
    BY <1>11 DEF PlanResource, opVars
  <2>3. pc' = [pc EXCEPT ![r] = "out"] /\ state' = [state EXCEPT ![r] = Refreshed(r)]
    BY <1>11 DEF PlanResource
  <2>4. /\ action'[r] \in {"create", "update"} => config[r] # Absent
        /\ action'[r] \in {"update", "delete"} => state[r] # Absent
        /\ \A q \in Resources \ {r} : action'[q] = action[q]
    BY <1>11 DEF PlanResource
  <2>5. QED
    BY <2>1, <2>2, <2>3, <2>4 DEF Places, Planned
<1>12. ASSUME NEW r \in Resources, NEW answered \in BOOLEAN, Replan(r, answered)
       PROVE  Planned'
  BY <1>12 DEF Replan, Places, Planned, opVars
<1>13. QED
  BY <1>1, <1>2, <1>3, <1>4, <1>5, <1>6, <1>7, <1>8, <1>9, <1>10, <1>11, <1>12, NextActions

-----------------------------------------------------------------------------
(* The claims.                                                               *)

LEMMA RegistryEmpty ==
  ASSUME registry = NewRegistry, accepted = {}, rejected = {}
  PROVE  RegistryExact
BY DEF RegistryExact, NewRegistry

\* A claim that agrees with the registry leaves in it all that was and is known.
LEMMA MergeKeeps ==
  ASSUME NEW old \in Knowledge, NEW k \in Knowledge, Differs(old, k) = {}, NEW a \in Fields
  PROVE  /\ Merge(old, k)[a] \in {old[a], k[a]}
         /\ old[a] # Unknown => Merge(old, k)[a] = old[a]
         /\ k[a] # Unknown => Merge(old, k)[a] = k[a]
         /\ Merge(old, k)[a] = k[a] \/ (Merge(old, k)[a] = old[a] /\ old[a] # Unknown)
BY DEF Merge, Differs, Knowledge

LEMMA ClaimPortExact ==
  ASSUME TypeOK, RegistryExact, NEW r \in Resources, config[r] # Absent, NEW unknown,
         ClaimPort(r, unknown)
  PROVE  RegistryExact'
<1> DEFINE p == config[r].port
           k == Seen(r, unknown)
           claim == [by |-> r, port |-> p, attrs |-> k]
<1>1. k \in Knowledge /\ p \in PortIds /\ registry \in [PortIds -> Knowledge]
  BY SeenType, Present DEF TypeOK, PlanTypes, ClaimTypes, States
<1>2. \A c \in accepted : c.port \in PortIds /\ c.attrs \in Knowledge
  BY DEF TypeOK, ClaimTypes, Claims
<1>3. CASE "port" \in unknown
  BY <1>3 DEF ClaimPort, claimVars, RegistryExact, Contradict
<1>4. CASE "port" \notin unknown /\ Differs(registry[p], k) # {}
  <2>1. registry' = registry /\ accepted' = accepted /\ rejected' = rejected \cup {claim}
    BY <1>4 DEF ClaimPort, Disagrees, Claimed
  <2>2. \E d \in accepted : Contradict(claim, d)
    <3>1. PICK a \in Fields : Unknown \notin {registry[p][a], k[a]} /\ registry[p][a] # k[a]
      BY <1>4 DEF Differs
    <3>2. PICK d \in accepted : d.port = p /\ d.attrs[a] = registry[p][a]
      BY <1>1, <3>1 DEF RegistryExact
    <3>3. k[a] \in Values /\ d.attrs[a] \in Values
      BY <1>1, <1>2, <3>1, <3>2 DEF Knowledge
    <3>4. claim.port = p /\ claim.attrs = k
      OBVIOUS
    <3>5. QED
      BY <3>1, <3>2, <3>3, <3>4 DEF Contradict
  <2>3. QED
    BY <2>1, <2>2 DEF RegistryExact, Contradict
<1>5. CASE "port" \notin unknown /\ Differs(registry[p], k) = {}
  <2>1. /\ registry' = [registry EXCEPT ![p] = Merge(registry[p], k)]
        /\ accepted' = accepted \cup {claim} /\ rejected' = rejected
    BY <1>1, <1>5 DEF ClaimPort, Disagrees, Claimed
  <2>2. \A a \in Fields : /\ registry[p][a] # Unknown => Merge(registry[p], k)[a] = registry[p][a]
                          /\ k[a] # Unknown => Merge(registry[p], k)[a] = k[a]
                          /\ \/ Merge(registry[p], k)[a] = k[a]
                             \/ Merge(registry[p], k)[a] = registry[p][a] /\ registry[p][a] # Unknown
    BY <1>1, <1>5, MergeKeeps
  <2>3. claim.port = p /\ claim.attrs = k
    OBVIOUS
  <2> HIDE DEF claim, k, p
  <2>4. \A c \in accepted', a \in Fields : c.attrs[a] # Unknown => registry'[c.port][a] = c.attrs[a]
    BY <1>1, <1>2, <2>1, <2>2, <2>3 DEF RegistryExact
  <2>5. \A q \in PortIds, a \in Fields :
          registry'[q][a] # Unknown => \E c \in accepted' : c.port = q /\ c.attrs[a] = registry'[q][a]
    BY <1>1, <2>1, <2>2, <2>3 DEF RegistryExact
  <2>6. \A c \in rejected' : \E d \in accepted' : Contradict(c, d)
    BY <2>1 DEF RegistryExact
  <2>7. QED
    BY <2>4, <2>5, <2>6 DEF RegistryExact, Contradict
<1>6. QED
  BY <1>3, <1>4, <1>5

LEMMA RegistryStep ==
  ASSUME TypeOK, Places, Planned, RegistryExact, Next
  PROVE  RegistryExact'
<1>1. ASSUME UNCHANGED claimVars
      PROVE  RegistryExact'
  BY <1>1 DEF claimVars, RegistryExact, Contradict
<1>2. ASSUME NEW kind, NEW places, Walk(kind, places)
      PROVE  RegistryExact'
  BY <1>2, RegistryEmpty DEF Walk, RegistryExact, NewRegistry
<1>3. CASE Run \/ EndPlan \/ EndApply
  BY <1>2, <1>3 DEF Run, EndPlan, EndApply, EndRun
<1>4. CASE PathMoves \/ ByHand \/ Console \/ \E f \in Fleets : Edit(f)
  BY <1>1, <1>4 DEF PathMoves, ByHand, Console, Edit
<1>5. ASSUME NEW r \in Resources,
             \/ Send(r) \/ SendFails(r) \/ Save(r) \/ SaveFails(r)
             \/ FailsWithoutSession(r) \/ BeginDelete(r)
      PROVE  RegistryExact'
  BY <1>1, <1>5 DEF Send, SendFails, Save, SaveFails, FailsWithoutSession, BeginDelete, Starts
<1>6. ASSUME NEW r \in Resources, NEW answered \in BOOLEAN,
             BeginCreate(r, answered) \/ BeginUpdate(r, answered)
      PROVE  RegistryExact'
  BY <1>1, <1>6 DEF BeginCreate, BeginUpdate, Starts, RefusedAtApply
<1>7. ASSUME NEW r \in Resources, NEW answered \in BOOLEAN, PlanResource(r, answered)
      PROVE  RegistryExact'
  <2>1. CASE config[r] = Absent
    BY <1>1, <1>7, <2>1 DEF PlanResource
  <2>2. CASE config[r] # Absent
    BY <1>7, <2>2, ClaimPortExact DEF PlanResource
  <2>3. QED
    BY <2>1, <2>2
<1>8. ASSUME NEW r \in Resources, NEW answered \in BOOLEAN, Replan(r, answered)
      PROVE  RegistryExact'
  <2>1. config[r] # Absent
    BY <1>8 DEF Replan, Places, Planned
  <2>2. QED
    BY <1>8, <2>1, ClaimPortExact DEF Replan
<1>9. QED
  BY <1>3, <1>4, <1>5, <1>6, <1>7, <1>8, NextActions

-----------------------------------------------------------------------------
(* Writes follow claims.                                                     *)

LEMMA ClaimPortKeeps ==
  ASSUME NEW r, NEW unknown, ClaimPort(r, unknown)
  PROVE  accepted \subseteq accepted'
BY DEF ClaimPort, claimVars

\* A plan that is not refused at apply has its full claim accepted.
LEMMA ReplanClaims ==
  ASSUME TypeOK, NEW r \in Resources, config[r] # Absent, NEW answered \in BOOLEAN,
         Replan(r, answered), ~PlanRefused(r, {}, state[r], answered)
  PROVE  FullClaim(r) \in accepted'
<1>1. Seen(r, {}) = config[r].attrs
  <2>1. config[r].attrs \in [Fields -> Values]
    BY Present DEF TypeOK, PlanTypes, States
  <2>2. QED
    BY <2>1 DEF Seen
<1>2. ~Disagrees(r, {})
  BY DEF PlanRefused
<1>3. ClaimPort(r, {})
  BY DEF Replan
<1>4. QED
  BY <1>1, <1>2, <1>3 DEF ClaimPort, FullClaim

LEMMA WritesStep ==
  ASSUME TypeOK, Places, Planned, WritesAreClaimed, Next
  PROVE  WritesAreClaimed'
<1> USE DEF TypeOK, PlanTypes
<1>1. CASE Run
  BY <1>1 DEF Run, Walk, All, WritesAreClaimed
<1>2. CASE EndPlan
  BY <1>2 DEF EndPlan, EndRun, Walk, All, WritesAreClaimed
<1>3. CASE EndApply
  BY <1>3 DEF EndApply, EndRun, Walk, All, WritesAreClaimed
<1>4. CASE PathMoves
  BY <1>4 DEF PathMoves, WritesAreClaimed, FullClaim, claimVars
<1>5. CASE ByHand \/ Console
  BY <1>5 DEF ByHand, Console, WritesAreClaimed, FullClaim, claimVars, opVars
<1>6. CASE \E f \in Fleets : Edit(f)
  BY <1>6 DEF Edit, Places, All, WritesAreClaimed, FullClaim, opVars
<1>7. ASSUME NEW r \in Resources, Send(r) \/ SendFails(r)
      PROVE  WritesAreClaimed'
  <2>1. PICK k : Sends(r, k)
    BY <1>7 DEF Send, SendFails
  <2>2. pc[r] = "send" /\ accepted' = accepted /\ config' = config /\ action' = action
    BY <1>7 DEF Send, SendFails, claimVars
  <2>3. pc' = [pc EXCEPT ![r] = "out"] \/ pc' = [pc EXCEPT ![r] = "save"]
    BY <1>7 DEF Send, SendFails
  <2>4. r \in wrote' => r \in wrote \/ action[r] # "delete"
    BY <2>1, <2>2 DEF Sends, Planned
  <2>5. wrote' \subseteq wrote \cup {r}
    BY <2>1 DEF Sends
  <2>6. pc[r] = "send" => action[r] = "delete" \/ config[r] # Absent
    BY <1>7 DEF Planned, WritesAreClaimed, Places, PlanTypes
  <2>7. QED
    BY <2>2, <2>3, <2>4, <2>5, <2>6 DEF WritesAreClaimed, FullClaim
<1>8. ASSUME NEW r \in Resources, Save(r) \/ SaveFails(r) \/ FailsWithoutSession(r)
      PROVE  WritesAreClaimed'
  BY <1>8 DEF Save, SaveFails, FailsWithoutSession, WritesAreClaimed, FullClaim, claimVars, opVars
<1>9. ASSUME NEW r \in Resources, NEW answered \in BOOLEAN,
             BeginDelete(r) \/ BeginCreate(r, answered) \/ BeginUpdate(r, answered)
      PROVE  WritesAreClaimed'
  BY <1>9 DEF BeginDelete, BeginCreate, BeginUpdate, Starts, RefusedAtApply, WritesAreClaimed,
              FullClaim, claimVars
<1>10. ASSUME NEW r \in Resources, NEW answered \in BOOLEAN, PlanResource(r, answered)
       PROVE  WritesAreClaimed'
  <2>1. walk = "plan" /\ wrote' = wrote /\ pc' = [pc EXCEPT ![r] = "out"]
    BY <1>10 DEF PlanResource, opVars
  <2>2. QED
    BY <2>1 DEF Places, WritesAreClaimed
<1>11. ASSUME NEW r \in Resources, NEW answered \in BOOLEAN, Replan(r, answered)
       PROVE  WritesAreClaimed'
  <2>1. config[r] # Absent /\ accepted \subseteq accepted'
    BY <1>11, ClaimPortKeeps DEF Replan, Places, Planned
  <2>2. wrote' = wrote /\ config' = config /\ action' = action
    BY <1>11 DEF Replan, opVars
  <2>3. CASE PlanRefused(r, {}, state[r], answered)
    BY <1>11, <2>1, <2>2, <2>3 DEF Replan, WritesAreClaimed, FullClaim
  <2>4. CASE ~PlanRefused(r, {}, state[r], answered)
    <3>1. FullClaim(r) \in accepted'
      BY <1>11, <2>1, <2>4, ReplanClaims
    <3>2. QED
      BY <1>11, <2>1, <2>2, <3>1 DEF Replan, WritesAreClaimed, FullClaim
  <2>5. QED
    BY <2>3, <2>4
<1>12. QED
  BY <1>1, <1>2, <1>3, <1>4, <1>5, <1>6, <1>7, <1>8, <1>9, <1>10, <1>11, NextActions

-----------------------------------------------------------------------------
(* Looks at the management path.                                             *)

\* The lines of an operation that disable its port are those of a plan that
\* calls for a look.
LEMMA DisablingLines ==
  ASSUME NEW plan \in [Fields -> Values], NEW old \in [Fields -> Values], NEW isDown \in BOOLEAN,
         NEW s, NEW i \in DOMAIN s, s[i] = Line("enabled", "off")
  PROVE  /\ s = CreateLines(plan, isDown) => plan["enabled"] = "off"
         /\ s = UpdateLines(plan, old) => plan["enabled"] = "off" /\ old["enabled"] # "off"
         /\ s # DeleteLines(old)
<1>1. "off" # "on" /\ "enabled" # "name"
  OBVIOUS
<1>2. ASSUME s = CreateLines(plan, isDown)
      PROVE  plan["enabled"] = "off"
  BY <1>1, <1>2 DEF CreateLines, When, Line
<1>3. ASSUME s = UpdateLines(plan, old)
      PROVE  plan["enabled"] = "off" /\ old["enabled"] # "off"
  BY <1>1, <1>3 DEF UpdateLines, When, Line
<1>4. s # DeleteLines(old)
  BY <1>1 DEF DeleteLines, When, Line
<1>5. QED
  BY <1>2, <1>3, <1>4

\* A step that leaves the path, the looks and the operation of a resource alone.
LEMMA LooksFrame ==
  ASSUME Looks, net' = net, unaware \subseteq unaware',
         \A q \in Resources :
           pc'[q] = "send" => pc[q] = "send" /\ lines'[q] = lines[q] /\ record'[q] = record[q]
  PROVE  Looks'
BY DEF Looks, Disabling, PathPorts

\* An operation starts with a look, if its lines disable the port.
LEMMA StartsLooked ==
  ASSUME TypeOK, Looks, NEW r \in Resources, NEW sent, NEW recorded, Starts(r, sent, recorded),
         unaware \ {r} \subseteq unaware',
         (\E i \in DOMAIN sent : sent[i] = Line("enabled", "off")) =>
           recorded # Absent /\ (r \in unaware' \/ recorded.port \notin PathPorts)
  PROVE  Looks'
<1>1. /\ lines' = [lines EXCEPT ![r] = sent] /\ record' = [record EXCEPT ![r] = recorded]
      /\ pc' = [pc EXCEPT ![r] = "send"] /\ net' = net
  BY DEF Starts, switchVars
<1>2. PathPorts' = PathPorts
  BY <1>1 DEF PathPorts
<1>3. ASSUME NEW q \in Resources, pc'[q] = "send", Disabling(q)'
      PROVE  record'[q] # Absent /\ (q \in unaware' \/ record'[q].port \notin PathPorts)
  <2>1. CASE q = r
    BY <1>1, <1>3, <2>1 DEF TypeOK, PlanTypes, OpTypes, Disabling
  <2>2. CASE q # r
    BY <1>1, <1>3, <2>2 DEF TypeOK, PlanTypes, OpTypes, Disabling, Looks
  <2>3. QED
    BY <2>1, <2>2
<1>4. QED
  BY <1>2, <1>3 DEF Looks

LEMMA BeginCreateLooks ==
  ASSUME TypeOK, Planned, Looks, NEW r \in Resources, NEW answered \in BOOLEAN, BeginCreate(r, answered)
  PROVE  Looks'
<1> DEFINE plan == config[r].attrs
           now == device[config[r].port]
           isDown == now["enabled"] = "off"
           sent == CreateLines(plan, isDown)
           recorded == [config[r] EXCEPT !.attrs = Filled(plan, now["enabled"])]
<1>1. config[r] # Absent /\ config[r] \in Resource /\ plan \in [Fields -> Values]
  BY Present DEF BeginCreate, Planned, TypeOK, PlanTypes, States
<1>2. unaware' = IF answered THEN unaware \ {r} ELSE unaware \cup {r}
  BY DEF BeginCreate, Looked
<1>3. CASE RefusedAtApply(r)
  <2>1. /\ pc' = [pc EXCEPT ![r] = "out"] /\ lines' = lines /\ record' = record /\ net' = net
    BY <1>3 DEF RefusedAtApply, switchVars
  <2>2. QED
    BY <1>2, <2>1 DEF Looks, Disabling, PathPorts, TypeOK, PlanTypes
<1>4. CASE ~(DisablesPort(plan, Absent) /\ Leads(config[r].port, answered)) /\ Starts(r, sent, recorded)
  <2>1. recorded # Absent /\ recorded.port = config[r].port
    BY <1>1 DEF Resource, Absent
  <2>2. ASSUME NEW i \in DOMAIN sent, sent[i] = Line("enabled", "off")
        PROVE  r \in unaware' \/ config[r].port \notin PathPorts
    <3>1. plan["enabled"] = "off"
      BY <1>1, <2>2, DisablingLines
    <3>2. ~Leads(config[r].port, answered)
      BY <1>4, <3>1 DEF DisablesPort
    <3>3. QED
      BY <1>2, <3>2 DEF Leads
  <2> HIDE DEF sent, recorded
  <2>3. QED
    BY <1>2, <1>4, <2>1, <2>2, StartsLooked
<1>5. QED
  BY <1>3, <1>4 DEF BeginCreate

LEMMA BeginUpdateLooks ==
  ASSUME TypeOK, Planned, Looks, NEW r \in Resources, NEW answered \in BOOLEAN, BeginUpdate(r, answered)
  PROVE  Looks'
<1> DEFINE plan == config[r].attrs
           old == state[r].attrs
           sent == UpdateLines(plan, old)
           recorded == [config[r] EXCEPT !.attrs = Filled(plan, old["enabled"])]
<1>1. /\ config[r] # Absent /\ config[r] \in Resource /\ plan \in [Fields -> Values]
      /\ state[r] # Absent /\ old \in [Fields -> Values]
  BY Present DEF BeginUpdate, Planned, TypeOK, PlanTypes, States
<1>2. unaware' = IF answered THEN unaware \ {r} ELSE unaware \cup {r}
  BY DEF BeginUpdate, Looked
<1>3. CASE RefusedAtApply(r)
  <2>1. /\ pc' = [pc EXCEPT ![r] = "out"] /\ lines' = lines /\ record' = record /\ net' = net
    BY <1>3 DEF RefusedAtApply, switchVars
  <2>2. QED
    BY <1>2, <2>1 DEF Looks, Disabling, PathPorts, TypeOK, PlanTypes
<1>4. CASE ~(DisablesPort(plan, state[r]) /\ Leads(config[r].port, answered)) /\ Starts(r, sent, recorded)
  <2>1. recorded # Absent /\ recorded.port = config[r].port
    BY <1>1 DEF Resource, Absent
  <2>2. ASSUME NEW i \in DOMAIN sent, sent[i] = Line("enabled", "off")
        PROVE  r \in unaware' \/ config[r].port \notin PathPorts
    <3>1. plan["enabled"] = "off" /\ old["enabled"] # "off"
      BY <1>1, <2>2, DisablingLines
    <3>2. ~Leads(config[r].port, answered)
      BY <1>4, <3>1 DEF DisablesPort
    <3>3. QED
      BY <1>2, <3>2 DEF Leads
  <2> HIDE DEF sent, recorded
  <2>3. QED
    BY <1>2, <1>4, <2>1, <2>2, StartsLooked
<1>5. QED
  BY <1>3, <1>4 DEF BeginUpdate

LEMMA LooksStep ==
  ASSUME TypeOK, Places, Planned, Looks, Next
  PROVE  Looks'
<1> USE DEF TypeOK, PlanTypes, OpTypes
<1>1. CASE Run
  BY <1>1 DEF Run, Walk, All, Looks
<1>2. CASE EndPlan
  BY <1>2 DEF EndPlan, EndRun, Walk, All, Looks
<1>3. CASE EndApply
  BY <1>3 DEF EndApply, EndRun, Walk, All, Looks
<1>4. CASE PathMoves
  BY <1>4 DEF PathMoves, Looks, Disabling
<1>5. CASE ByHand \/ Console
  BY <1>5, LooksFrame DEF ByHand, Console, opVars
<1>6. CASE \E f \in Fleets : Edit(f)
  BY <1>6, LooksFrame DEF Edit, opVars, switchVars
<1>7. ASSUME NEW r \in Resources, Send(r) \/ SendFails(r)
      PROVE  Looks'
  BY <1>7, LooksFrame DEF Send, SendFails
<1>8. ASSUME NEW r \in Resources, Save(r) \/ SaveFails(r) \/ FailsWithoutSession(r)
      PROVE  Looks'
  BY <1>8, LooksFrame DEF Save, SaveFails, FailsWithoutSession, opVars, switchVars
<1>9. ASSUME NEW r \in Resources, BeginDelete(r)
      PROVE  Looks'
  <2>1. state[r] # Absent
    BY <1>9 DEF BeginDelete, Planned
  <2>2. state[r].attrs \in [Fields -> Values]
    BY <2>1, Present DEF States
  <2>3. ~\E i \in DOMAIN DeleteLines(state[r].attrs) : DeleteLines(state[r].attrs)[i] = Line("enabled", "off")
    BY <2>2, DisablingLines
  <2>4. Starts(r, DeleteLines(state[r].attrs), Absent) /\ unaware' = unaware
    BY <1>9 DEF BeginDelete
  <2>5. QED
    BY <2>3, <2>4, StartsLooked
<1>10. ASSUME NEW r \in Resources, NEW answered \in BOOLEAN,
              BeginCreate(r, answered) \/ BeginUpdate(r, answered)
       PROVE  Looks'
  BY <1>10, BeginCreateLooks, BeginUpdateLooks
<1>11. ASSUME NEW r \in Resources, NEW answered \in BOOLEAN,
              PlanResource(r, answered) \/ Replan(r, answered)
       PROVE  Looks'
  BY <1>11, LooksFrame DEF PlanResource, Replan, opVars, switchVars
<1>12. QED
  BY <1>1, <1>2, <1>3, <1>4, <1>5, <1>6, <1>7, <1>8, <1>9, <1>10, <1>11, NextActions

-----------------------------------------------------------------------------
(* The theorems.                                                             *)

LEMMA InvInit == Init => IInv
<1> SUFFICES ASSUME Init PROVE IInv
  OBVIOUS
<1>1. TypeOK
  BY TypeInit
<1>2. Places /\ Planned
  BY DEF Init, Places, Planned, All
<1>3. RegistryExact
  BY RegistryEmpty DEF Init
<1>4. WritesAreClaimed /\ Looks
  BY DEF Init, WritesAreClaimed, Looks
<1>5. QED
  BY <1>1, <1>2, <1>3, <1>4 DEF IInv

LEMMA InvStutter == IInv /\ UNCHANGED vars => IInv'
<1> SUFFICES ASSUME IInv, UNCHANGED vars PROVE IInv'
  OBVIOUS
<1> USE DEF vars, switchVars, claimVars, opVars, boundVars
<1>1. TypeOK'
  BY DEF IInv, TypeOK, SwitchTypes, PlanTypes, ClaimTypes, OpTypes
<1>2. Places' /\ Planned'
  BY DEF IInv, Places, Planned
<1>3. RegistryExact'
  BY DEF IInv, RegistryExact, Contradict
<1>4. WritesAreClaimed' /\ Looks'
  BY DEF IInv, WritesAreClaimed, FullClaim, Looks, Disabling, PathPorts
<1>5. QED
  BY <1>1, <1>2, <1>3, <1>4 DEF IInv

LEMMA InvStep == IInv /\ [Next]_vars => IInv'
BY InvStutter, TypeStep, PlacesStep, PlannedStep, RegistryStep, WritesStep, LooksStep DEF IInv

LEMMA Invariance == Spec => []IInv
BY InvInit, InvStep, PTL DEF Spec

\* Every variable keeps its type: an operation's target is always a port, and a
\* recorded resource always has one (Create, Update, Read).
THEOREM TypeCorrect == Spec => []TypeOK
<1>1. IInv => TypeOK
  BY DEF IInv
<1>2. QED
  BY <1>1, Invariance, PTL

\* In any order of claims, with any fields unknown, the registry accepts no two
\* that differ and rejects only those that differ (PortRegistry.Claim).
THEOREM ClaimsAreExact == Spec => []ClaimsExact
<1>1. IInv => ClaimsExact
  <2> SUFFICES ASSUME IInv PROVE ClaimsExact
    OBVIOUS
  <2>1. ASSUME NEW c \in accepted, NEW d \in accepted, Contradict(c, d)
        PROVE  FALSE
    <3>1. PICK a \in Fields : c.attrs[a] # d.attrs[a] /\ {c.attrs[a], d.attrs[a]} \subseteq Values
      BY <2>1 DEF Contradict
    <3>2. c.attrs[a] # Unknown /\ d.attrs[a] # Unknown
      BY <3>1, UnknownIsNoValue
    <3>3. c.port = d.port
      BY <2>1 DEF Contradict
    <3>4. QED
      BY <3>1, <3>2, <3>3 DEF IInv, RegistryExact
  <2>2. QED
    BY <2>1 DEF IInv, RegistryExact, ClaimsExact
<1>2. QED
  BY <1>1, Invariance, PTL

\* Resources whose configurations for one port differ never both write to it in
\* one run (ModifyPlan).
THEOREM NoClashIsWritten == Spec => []ClashNeverWritten
<1>1. IInv => ClashNeverWritten
  <2> SUFFICES ASSUME IInv, NEW r \in wrote, NEW s \in wrote, config[r].port = config[s].port
               PROVE  config[r].attrs = config[s].attrs
    BY DEF ClashNeverWritten
  <2>1. r \in Resources /\ s \in Resources
    BY DEF IInv, TypeOK, OpTypes
  <2>2. config[r] # Absent /\ config[s] # Absent /\ {FullClaim(r), FullClaim(s)} \subseteq accepted
    BY <2>1 DEF IInv, WritesAreClaimed
  <2>3. /\ config[r].attrs \in [Fields -> Values] /\ config[s].attrs \in [Fields -> Values]
    BY <2>1, <2>2, Present DEF IInv, TypeOK, PlanTypes, States
  <2>4. ASSUME NEW a \in Fields
        PROVE  config[r].attrs[a] = config[s].attrs[a]
    <3>1. config[r].attrs[a] # Unknown /\ config[s].attrs[a] # Unknown
      BY <2>3, UnknownIsNoValue
    <3>2. /\ registry[config[r].port][a] = config[r].attrs[a]
          /\ registry[config[s].port][a] = config[s].attrs[a]
      BY <2>2, <3>1 DEF IInv, RegistryExact, FullClaim
    <3>3. QED
      BY <3>2
  <2>5. QED
    BY <2>3, <2>4
<1>2. QED
  BY <1>1, Invariance, PTL

\* Only a path that moved after the last look, or that could not be looked up,
\* lets an operation cut the session (checkManagementPathDisable).
THEOREM OnlyUnawareCuts == Spec => CutOnlyUnaware
<1>1. ASSUME IInv, Next, ~cut, cut'
      PROVE  \E r \in unaware : pc[r] = "send" /\ Target(r) \in PathPorts
  <2>1. PICK r \in Resources : Send(r) \/ SendFails(r)
    BY <1>1, NextActions DEF Run, EndPlan, EndApply, PathMoves, ByHand, Console, Edit, Save, SaveFails,
       FailsWithoutSession, BeginDelete, BeginCreate, BeginUpdate, Starts, RefusedAtApply,
       PlanResource, Replan, switchVars
  <2>2. PICK k \in 0..Len(lines[r]) : Sends(r, k)
    <3>1. lines[r] \in Seq(Lines)
      BY <1>1 DEF IInv, TypeOK, OpTypes, Lines
    <3>2. QED
      BY <2>1, <3>1 DEF Send, SendFails
  <2>3. pc[r] = "send"
    BY <2>1 DEF Send, SendFails
  <2>4. Target(r) \in PathPorts /\ \E i \in 1..k : lines[r][i] = Line("enabled", "off")
    BY <1>1, <2>2 DEF Sends
  <2>5. Disabling(r)
    <3>1. lines[r] \in Seq(Lines)
      BY <1>1 DEF IInv, TypeOK, OpTypes, Lines
    <3>2. QED
      BY <2>2, <2>4, <3>1 DEF Disabling
  <2>6. r \in unaware
    BY <1>1, <2>3, <2>4, <2>5 DEF IInv, Looks, Target
  <2>7. QED
    BY <2>3, <2>4, <2>6
<1>2. IInv /\ [Next]_vars =>
        [~cut /\ cut' => \E r \in unaware : pc[r] = "send" /\ Target(r) \in PathPorts]_vars
  BY <1>1
<1>3. QED
  BY <1>2, Invariance, PTL DEF Spec, CutOnlyUnaware
=============================================================================
