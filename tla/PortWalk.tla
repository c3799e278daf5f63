------------------------------ MODULE PortWalk ------------------------------
(***************************************************************************)
(* Several icx_interface_ethernet resources under `terraform apply', run   *)
(* again and again.  A run is two walks over the resources, each with a    *)
(* provider instance, and so a port registry, of its own: the plan walk    *)
(* refreshes every resource, plans it (ModifyPlan: the claim on its port,  *)
(* and the management path if the plan disables the port) and ends the run *)
(* if a plan is refused; the apply walk plans what has to change once      *)
(* more, now with every value known, and carries it out.  Nothing orders   *)
(* the resources of a walk, so their steps interleave.                     *)
(*                                                                         *)
(* The attributes are the admin state (enabled) and one that stands for    *)
(* those set by a line of their own (name).  What Create and Update do     *)
(* after the interface's lines, membership and save, succeeds or fails     *)
(* here and is the subject of EthernetPort.                                *)
(***************************************************************************)
EXTENDS Naturals, Sequences

CONSTANTS Resources,    \* the addresses of the resources
          PortIds, Names,
          Unknown,      \* a value that is only known at apply
          Fleets,       \* the configurations the operator may write
          Hidings,      \* the fields that may be unknown when a run plans
          Devices,      \* the ports before anything is managed
          HandLines,    \* the lines typed by hand
          Networks,     \* the next hops, and the ports they are learned on
          MaxEdits,     \* bound: edits of the configuration
          MaxFailures,  \* bound: calls that fail
          MaxMoves,     \* bound: moves of the management path
          MaxByHand     \* bound: changes by hand

Fields == {"name", "enabled"}
\* Null is a value: an attribute left out.
Values == Names \cup {"null", "on", "off"}
INSTANCE PortRegistry WITH Attrs <- Fields

Absent == [absent |-> TRUE]
\* A resource in the configuration, or in the state, and a port of the switch.
Resource == [port : PortIds, attrs : [Fields -> Values]]

ASSUME PortWalkAssumption ==
  /\ Unknown \notin Values
  /\ Fleets \subseteq [Resources -> Resource \cup {Absent}]
  /\ Hidings \subseteq [Resources -> SUBSET (Fields \cup {"port"})]
  /\ Devices \subseteq [PortIds -> [Fields -> Values]]
  /\ HandLines \subseteq [field : Fields, value : Values]
  /\ \A n \in Networks : n.hops \subseteq DOMAIN n.arp
  /\ {MaxEdits, MaxFailures, MaxMoves, MaxByHand} \subseteq Nat

VARIABLES
  device, net,        \* the switch's ports; its next hops and its ARP table
  cut,                \* the port the session runs through was disabled
  config, state,      \* what the operator wants; what terraform recorded
  walk,               \* "none", "plan" or "apply"
  hidden,             \* the fields this run cannot know before it applies
  pc, action,         \* where the walk is with each resource; what was planned for it
  refused,            \* a plan of this run was refused
  registry,
  lines, record,      \* an operation's lines; what it will record
  accepted, rejected, \* the claims of this walk, and those that were refused
  wrote,              \* the resources that wrote in this walk, and what
  unaware,            \* resources whose last look at the path failed, or is out of date
  edits, failures, moves, byHand

switchVars == <<device, net, cut>>
claimVars  == <<registry, accepted, rejected>>
opVars     == <<lines, record, wrote, unaware>>
boundVars  == <<edits, failures, moves, byHand>>
vars == <<switchVars, config, state, walk, hidden, pc, action, refused, claimVars,
          opVars, boundVars>>

\* The ports the switch's traffic leaves through, as managementPathPorts finds
\* them.  A next hop may be missing from the ARP table or be behind a LAG.
PathPorts == {net.arp[h] : h \in net.hops} \cap PortIds

\* A next hop is learned on a port that is up.
PathIsUp == \A p \in PathPorts : device[p]["enabled"] = "on"

Init ==
  /\ device \in Devices /\ net \in Networks /\ PathIsUp /\ cut = FALSE
  /\ config = [r \in Resources |-> Absent] /\ state = config
  /\ walk = "none" /\ hidden = [r \in Resources |-> {}]
  /\ pc = [r \in Resources |-> "out"] /\ action = [r \in Resources |-> "none"]
  /\ refused = FALSE /\ registry = NewRegistry /\ accepted = {} /\ rejected = {}
  /\ lines = [r \in Resources |-> <<>>] /\ record = config
  /\ wrote = {} /\ unaware = {}
  /\ edits = 0 /\ failures = 0 /\ moves = 0 /\ byHand = 0

\* disablesPort: the plan says off and the state does not already.
DisablesPort(plan, old) ==
  plan["enabled"] = "off" /\ ~(old # Absent /\ old.attrs["enabled"] = "off")

\* Mutated: a port is the path only if every next hop is behind it.
LeadsEveryHop(p, answered) ==
  answered /\ net.hops # {} /\ \A h \in net.hops : net.arp[h] = p

\* checkManagementPathDisable: what cannot be looked up is allowed.
Leads(p, answered) == answered /\ p \in PathPorts

\* A look at the path, if the plan calls for one, gets its answer or fails.
Answers(answered, plan, old) ==
  /\ ~answered => failures < MaxFailures /\ DisablesPort(plan, old)
  /\ failures' = IF answered THEN failures ELSE failures + 1

-----------------------------------------------------------------------------
(* The operator, and the start and end of a run.                             *)

Edit(fleet) ==
  /\ walk = "none" /\ edits < MaxEdits /\ fleet # config
  /\ config' = fleet /\ edits' = edits + 1
  /\ UNCHANGED <<switchVars, state, walk, hidden, pc, action, refused, claimVars, opVars,
                 failures, moves, byHand>>

\* Configure: every walk has a provider instance of its own, with an empty registry.
Walk(kind, places) ==
  /\ walk' = kind /\ pc' = places
  /\ registry' = NewRegistry /\ accepted' = {} /\ rejected' = {}
  /\ lines' = [r \in Resources |-> <<>>] /\ record' = [r \in Resources |-> Absent]
  /\ wrote' = {} /\ unaware' = {}

All(place) == [r \in Resources |-> place]
Visited == \A r \in Resources : pc[r] = "out"

Run ==
  /\ walk = "none" /\ ~cut /\ hidden' \in Hidings
  /\ Walk("plan", All("plan"))
  /\ UNCHANGED <<switchVars, config, state, action, refused, boundVars>>

EndRun ==
  /\ Walk("none", All("out"))
  /\ hidden' = All({}) /\ action' = All("none") /\ refused' = FALSE

\* Every resource is planned.  Nothing is applied if one of the plans was refused.
EndPlan ==
  /\ walk = "plan" /\ Visited
  /\ IF refused THEN EndRun
     ELSE /\ Walk("apply", [r \in Resources |-> CASE action[r] = "none"   -> "out"
                                                  [] action[r] = "delete" -> "begin"
                                                  [] OTHER                -> "replan"])
          /\ UNCHANGED <<hidden, action, refused>>
  /\ UNCHANGED <<switchVars, config, state, boundVars>>

EndApply ==
  /\ walk = "apply" /\ Visited /\ EndRun
  /\ UNCHANGED <<switchVars, config, state, boundVars>>

-----------------------------------------------------------------------------
(* ModifyPlan.                                                               *)

\* Mutated: a null value is taken for an unknown one.
SeenNotNull(r, unknown) ==
  [a \in Fields |-> IF a \in unknown \/ config[r].attrs[a] = "null" THEN Unknown
                    ELSE config[r].attrs[a]]

\* The attributes as far as they are known.
Seen(r, unknown) ==
  [a \in Fields |-> IF a \in unknown THEN Unknown ELSE config[r].attrs[a]]

Disagrees(r, unknown) == Differs(registry[config[r].port], Seen(r, unknown)) # {}

\* claimPort: a port that is not known yet is not claimed.
ClaimPort(r, unknown) ==
  LET claim == [by |-> r, port |-> config[r].port, attrs |-> Seen(r, unknown)]
  IN IF "port" \in unknown THEN UNCHANGED claimVars
     ELSE /\ registry' = Claimed(registry, claim.port, claim.attrs)
          /\ IF Disagrees(r, unknown)
             THEN rejected' = rejected \cup {claim} /\ UNCHANGED accepted
             ELSE accepted' = accepted \cup {claim} /\ UNCHANGED rejected

\* What the plan is refused for, `old' being the refreshed state.
PlanRefused(r, unknown, old, answered) ==
  /\ "port" \notin unknown
  /\ \/ Disagrees(r, unknown)
     \/ DisablesPort(Seen(r, unknown), old) /\ Leads(config[r].port, answered)

\* Mutated: Read keeps the admin state.
RefreshedButEnabled(r) ==
  IF state[r] = Absent THEN Absent
  ELSE [state[r] EXCEPT !.attrs["name"] = device[state[r].port]["name"]]

\* Read: the port the state names, as it is.
Refreshed(r) ==
  IF state[r] = Absent THEN Absent ELSE [state[r] EXCEPT !.attrs = device[state[r].port]]

\* Does the plan ask for anything else than what is recorded?  enabled, left
\* out, asks for nothing.
AsksMore(r, old) ==
  \/ config[r].port # old.port \/ config[r].attrs["name"] # old.attrs["name"]
  \/ config[r].attrs["enabled"] \notin {"null", old.attrs["enabled"]}

PlanResource(r, answered) ==
  /\ walk = "plan" /\ pc[r] = "plan" /\ pc' = [pc EXCEPT ![r] = "out"]
  /\ state' = [state EXCEPT ![r] = Refreshed(r)]
  /\ IF config[r] = Absent THEN answered /\ UNCHANGED <<claimVars, refused, failures>>
     ELSE /\ Answers(answered, Seen(r, hidden[r]), state'[r])
          /\ ClaimPort(r, hidden[r])
          /\ refused' = (refused \/ PlanRefused(r, hidden[r], state'[r], answered))
  /\ action' = [action EXCEPT ![r] =
       IF config[r] = Absent THEN IF state[r] = Absent THEN "none" ELSE "delete"
       ELSE IF state[r] = Absent THEN "create"
       ELSE IF hidden[r] # {} \/ AsksMore(r, state'[r]) THEN "update" ELSE "none"]
  /\ UNCHANGED <<switchVars, config, walk, hidden, opVars, edits, moves, byHand>>

\* Terraform plans a change again before it applies it, now with every value known.
Replan(r, answered) ==
  /\ walk = "apply" /\ pc[r] = "replan" /\ ~cut
  /\ Answers(answered, config[r].attrs, state[r]) /\ ClaimPort(r, {})
  /\ pc' = [pc EXCEPT ![r] = IF PlanRefused(r, {}, state[r], answered) THEN "out" ELSE "begin"]
  /\ UNCHANGED <<switchVars, config, state, walk, hidden, action, refused, opVars,
                 edits, moves, byHand>>

-----------------------------------------------------------------------------
(* Create, Update and Delete.                                                *)

Line(field, value) == [field |-> field, value |-> value]
When(cond, line) == IF cond THEN <<line>> ELSE <<>>

\* buildInterfaceCommands: `enable' only to a port that is down.
CreateLines(plan, isDown) ==
  When(plan["name"] # "null", Line("name", plan["name"]))
    \o When(plan["enabled"] = "off" \/ (plan["enabled"] = "on" /\ isDown),
            Line("enabled", plan["enabled"]))

\* buildInterfaceUpdateCommands: the plan against the state, whatever the port.
UpdateLines(plan, old) ==
  When(plan["name"] # old["name"], Line("name", plan["name"]))
    \o When(plan["enabled"] \notin {"null", old["enabled"]}, Line("enabled", plan["enabled"]))

DeleteLines(old) ==
  When(old["name"] # "null", Line("name", "null"))
    \o When(old["enabled"] = "off", Line("enabled", "on"))

\* enabled, left out: the port's own admin state, or the recorded one.
Filled(plan, enabled) == IF plan["enabled"] = "null" THEN [plan EXCEPT !["enabled"] = enabled] ELSE plan

Starts(r, sent, recorded) ==
  /\ lines' = [lines EXCEPT ![r] = sent] /\ record' = [record EXCEPT ![r] = recorded]
  /\ pc' = [pc EXCEPT ![r] = "send"]
  /\ UNCHANGED <<switchVars, config, state, walk, hidden, action, refused, claimVars, wrote,
                 edits, moves, byHand>>

RefusedAtApply(r) ==
  /\ pc' = [pc EXCEPT ![r] = "out"]
  /\ UNCHANGED <<switchVars, config, state, walk, hidden, action, refused, claimVars,
                 lines, record, wrote, edits, moves, byHand>>

Looked(r, answered) ==
  unaware' = IF answered THEN unaware \ {r} ELSE unaware \cup {r}

BeginCreate(r, answered) ==
  LET plan == config[r].attrs  now == device[config[r].port]
  IN /\ pc[r] = "begin" /\ ~cut /\ action[r] = "create"
     /\ Answers(answered, plan, Absent) /\ Looked(r, answered)
     /\ IF DisablesPort(plan, Absent) /\ Leads(config[r].port, answered) THEN RefusedAtApply(r)
        ELSE Starts(r, CreateLines(plan, now["enabled"] = "off"),
                    [config[r] EXCEPT !.attrs = Filled(plan, now["enabled"])])

BeginUpdate(r, answered) ==
  LET plan == config[r].attrs  old == state[r].attrs
  IN /\ pc[r] = "begin" /\ ~cut /\ action[r] = "update"
     /\ Answers(answered, plan, state[r]) /\ Looked(r, answered)
     /\ IF DisablesPort(plan, state[r]) /\ Leads(config[r].port, answered) THEN RefusedAtApply(r)
        ELSE Starts(r, UpdateLines(plan, old),
                    [config[r] EXCEPT !.attrs = Filled(plan, old["enabled"])])

BeginDelete(r) ==
  /\ pc[r] = "begin" /\ ~cut /\ action[r] = "delete"
  /\ Starts(r, DeleteLines(state[r].attrs), Absent) /\ UNCHANGED <<unaware, failures>>

\* The port an operation writes to.
Target(r) == IF record[r] = Absent THEN state[r].port ELSE record[r].port

\* The first k lines run; the session goes with a port it runs through.
Sends(r, k) ==
  LET ran == {lines[r][i] : i \in 1..k}  p == Target(r)
  IN /\ device' = [device EXCEPT ![p] =
           [f \in Fields |-> IF \E l \in ran : l.field = f
                             THEN (CHOOSE l \in ran : l.field = f).value ELSE @[f]]]
     /\ cut' = (cut \/ (p \in PathPorts /\ Line("enabled", "off") \in ran))
     /\ wrote' = IF record[r] = Absent THEN wrote ELSE wrote \cup {r}

\* One call: all its lines, and if the session outlives them the calls that follow.
Send(r) ==
  /\ pc[r] = "send" /\ ~cut /\ Sends(r, Len(lines[r]))
  /\ pc' = [pc EXCEPT ![r] = IF cut' THEN "out" ELSE "save"]
  /\ UNCHANGED <<net, config, state, walk, hidden, action, refused, claimVars, lines, record,
                 unaware, boundVars>>

\* A line is refused or the session is lost, after any of the lines.
SendFails(r) ==
  /\ pc[r] = "send" /\ ~cut /\ failures < MaxFailures /\ failures' = failures + 1
  /\ \E k \in 0..Len(lines[r]) : Sends(r, k)
  /\ pc' = [pc EXCEPT ![r] = "out"]
  /\ UNCHANGED <<net, config, state, walk, hidden, action, refused, claimVars, lines, record,
                 unaware, edits, moves, byHand>>

\* Membership is done and saved: the plan is recorded.
Save(r) ==
  /\ pc[r] = "save" /\ ~cut /\ pc' = [pc EXCEPT ![r] = "out"]
  /\ state' = [state EXCEPT ![r] = record[r]]
  /\ UNCHANGED <<switchVars, config, walk, hidden, action, refused, claimVars, opVars, boundVars>>

\* Membership or the save fails: nothing is recorded.
SaveFails(r) ==
  /\ pc[r] = "save" /\ ~cut /\ failures < MaxFailures /\ failures' = failures + 1
  /\ pc' = [pc EXCEPT ![r] = "out"]
  /\ UNCHANGED <<switchVars, config, state, walk, hidden, action, refused, claimVars, opVars,
                 edits, moves, byHand>>

\* Without a session every call that is left fails.
FailsWithoutSession(r) ==
  /\ cut /\ pc[r] # "out" /\ pc' = [pc EXCEPT ![r] = "out"]
  /\ UNCHANGED <<switchVars, config, state, walk, hidden, action, refused, claimVars, opVars,
                 boundVars>>

-----------------------------------------------------------------------------
(* Everybody else.                                                           *)

\* The gateway or a route changes, or its MAC address is learned elsewhere.
PathMoves ==
  /\ moves < MaxMoves /\ moves' = moves + 1
  /\ ~cut /\ net' \in Networks \ {net} /\ unaware' = Resources
  /\ UNCHANGED device /\ PathIsUp'
  /\ UNCHANGED <<cut, config, state, walk, hidden, pc, action, refused, claimVars,
                 lines, record, wrote, edits, failures, byHand>>

ByHand ==
  /\ byHand < MaxByHand /\ byHand' = byHand + 1
  /\ \E p \in PortIds, l \in HandLines :
       /\ p \in PathPorts => l # Line("enabled", "off")
       /\ device' = [device EXCEPT ![p][l.field] = l.value] /\ device' # device
  /\ UNCHANGED <<net, cut, config, state, walk, hidden, pc, action, refused, claimVars, opVars,
                 edits, failures, moves>>

\* From the console, what cut the switch off is undone.
Console ==
  /\ cut /\ walk = "none" /\ cut' = FALSE
  /\ device' = [p \in PortIds |->
       IF p \in PathPorts THEN [device[p] EXCEPT !["enabled"] = "on"] ELSE device[p]]
  /\ UNCHANGED <<net, config, state, walk, hidden, pc, action, refused, claimVars, opVars,
                 boundVars>>

Operation(r) == \/ Send(r) \/ Save(r) \/ BeginDelete(r) \/ FailsWithoutSession(r)
                \/ \E answered \in BOOLEAN :
                     \/ PlanResource(r, answered) \/ Replan(r, answered)
                     \/ BeginCreate(r, answered) \/ BeginUpdate(r, answered)
Terraform == Run \/ EndPlan \/ EndApply \/ \E r \in Resources : Operation(r)
Others == (\E f \in Fleets : Edit(f)) \/ PathMoves \/ ByHand \/ Console
            \/ \E r \in Resources : SendFails(r) \/ SaveFails(r)

Next == Terraform \/ Others
Spec == Init /\ [][Next]_vars

\* The operator runs terraform again and again, and terraform runs.
FairSpec == Spec /\ WF_vars(Terraform)

-----------------------------------------------------------------------------
Claims == [by : Resources, port : PortIds, attrs : Knowledge]

SwitchTypes == device \in [PortIds -> [Fields -> Values]] /\ net \in Networks /\ cut \in BOOLEAN
PlanTypes ==
  /\ {config, state, record} \subseteq [Resources -> Resource \cup {Absent}]
  /\ walk \in {"none", "plan", "apply"} /\ refused \in BOOLEAN
  /\ hidden \in [Resources -> SUBSET (Fields \cup {"port"})]
  /\ pc \in [Resources -> {"out", "plan", "replan", "begin", "send", "save"}]
  /\ action \in [Resources -> {"none", "create", "update", "delete"}]
ClaimTypes == registry \in [PortIds -> Knowledge] /\ {accepted, rejected} \subseteq SUBSET Claims
OpTypes ==
  /\ lines \in [Resources -> Seq([field : Fields, value : Values])]
  /\ {wrote, unaware} \subseteq SUBSET Resources /\ {edits, failures, moves, byHand} \subseteq Nat
\* Every variable has its type; a record is always that of a resource with a port.
TypeOK == SwitchTypes /\ PlanTypes /\ ClaimTypes /\ OpTypes

Contradict(c, d) ==
  c.port = d.port /\ \E a \in Fields : c.attrs[a] # d.attrs[a] /\ {c.attrs[a], d.attrs[a]} \subseteq Values

\* Whatever the order in which a walk plans its resources, and whatever is not
\* known yet: of two claims on a port that differ in something known of both
\* at most one is accepted, and a claim is rejected only if it differs from one
\* that was accepted, so never because its own resource was planned before
\* (PortRegistry.Claim).
ClaimsExact ==
  /\ \A c, d \in accepted : ~Contradict(c, d)
  /\ \A c \in rejected : \E d \in accepted : Contradict(c, d)

\* Two resources whose configurations for one port differ never both write to it
\* in one run, even when the plan could not see it because the port, or the
\* value, was only known at apply (ModifyPlan, InterfaceEthernetResource).
ClashNeverWritten ==
  \A r, s \in wrote : config[r].port = config[s].port => config[r].attrs = config[s].attrs

\* An operation cuts the provider off from the switch only if the management path
\* moved after the operation looked, or could not be looked up: not through a
\* value that became known late, a port changed in the configuration, or a state
\* that an earlier failure left behind (checkManagementPathDisable).
CutOnlyUnaware ==
  [][~cut /\ cut' => \E r \in unaware : pc[r] = "send" /\ Target(r) \in PathPorts]_vars

\* No two resources differ about a port, and none disables the management path.
Sound == /\ \A r, s \in Resources :
              (Absent \notin {config[r], config[s]} /\ config[r].port = config[s].port)
                => config[r] = config[s]
         /\ \A r \in Resources :
              config[r] # Absent /\ config[r].attrs["enabled"] = "off" => config[r].port \notin PathPorts

\* A port has its resource's settings, and the next plan will show nothing.
Settled(r) ==
  IF config[r] = Absent THEN state[r] = Absent
  ELSE state[r] # Absent /\ ~AsksMore(r, state[r]) /\ state[r].attrs = device[config[r].port]

\* Run again and again, terraform settles a sound configuration, whatever
\* failed, was changed by hand or moved to another port meanwhile, twice-declared
\* ports included (duplicates with the same configuration "converge to the same
\* device state and do not churn", PortRegistry).
WalksSettle == <>[](cut \/ ~Sound \/ \A r \in Resources : Settled(r))
=============================================================================
