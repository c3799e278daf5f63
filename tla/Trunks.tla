-------------------------------- MODULE Trunks --------------------------------
(***************************************************************************)
(* VLANs and trunks of one switch, managed together: icx_vlan resources     *)
(* that create and delete VLANs, and icx_interface_ethernet resources that  *)
(* give ports their membership.  Terraform refreshes and plans, and then    *)
(* runs the operations concurrently.  Each operation reads the running      *)
(* configuration in one session call and writes in a later one, so what it  *)
(* read may be out of date; a new VLAN reaches the trunks only because      *)
(* icx_vlan.Create looks for them (findTrunkAllPorts).                      *)
(*                                                                         *)
(* A writing call is one step, since the session's mutex is held for it.    *)
(* The save after it adds only one more place to fail.                      *)
(***************************************************************************)
EXTENDS Membership, FiniteSets

CONSTANTS Ports,        \* the managed ports
          Firmwares,    \* which of {"context", "dual"} the switch may run
          Plans,        \* what their configuration may ask for, for all of them
          FirstVlans,   \* the VLANs there are, and are declared, at first
          MaxEdits,     \* bound: VLANs declared or withdrawn
          MaxFailures   \* bound: writing calls that fail

trunkAllMinVLANs == 3
Enough(S) == Cardinality(S) >= trunkAllMinVLANs

Absent == [absent |-> TRUE]

ASSUME TrunksAssumption ==
  /\ Firmwares \subseteq {"context", "dual"} /\ Plans \subseteq [Ports -> Wanted]
  /\ Ports \cap Vlans = {} /\ IsFiniteSet(Ports)
  /\ DefaultVlan \in FirstVlans /\ FirstVlans \subseteq Vlans
  /\ MaxEdits \in Nat /\ MaxFailures \in Nat

VARIABLES
  firmware, vlans, member, \* the switch: its VLANs, and its ports
  config, declared,     \* the configuration: of the ports, and which VLANs
  portState, vlanState, \* what terraform recorded
  op,                   \* each resource: "none", or what its operation does next
  lines,                \* what a port's operation decided to send
  trunks,               \* the ports a VLAN's creation decided to tag
  outcome,              \* the last apply: "none", "ok" or "failed"
  undisturbed,          \* it found every trunk complete, leaves each VLANs enough to be
                        \* seen as a trunk, and ran no port operation
  edits, failures

switchVars == <<firmware, vlans, member>>
stateVars  == <<portState, vlanState>>
vars == <<switchVars, config, declared, stateVars, op, lines, trunks, outcome,
          undisturbed, edits, failures>>

Managed == Vlans \ {DefaultVlan}
Resources == Ports \cup Managed

Init ==
  /\ firmware \in Firmwares /\ vlans = FirstVlans /\ member = [p \in Ports |-> NoMembership]
  /\ config \in Plans /\ declared = FirstVlans \ {DefaultVlan}
  /\ portState = [p \in Ports |-> Absent] /\ vlanState = declared
  /\ op = [r \in Resources |-> "none"]
  /\ lines = [p \in Ports |-> <<>>] /\ trunks = [v \in Managed |-> {}]
  /\ outcome = "none" /\ undisturbed = FALSE /\ edits = 0 /\ failures = 0

AtRest == \A r \in Resources : op[r] = "none"

Complete(p) == TaggedOf(member[p]) = ExpandAll(vlans, UntaggedOf(member[p]))

-----------------------------------------------------------------------------
(* The operator and terraform.                                               *)

Edit(v) ==
  /\ AtRest /\ edits < MaxEdits /\ edits' = edits + 1
  /\ declared' = IF v \in declared THEN declared \ {v} ELSE declared \cup {v}
  /\ UNCHANGED <<switchVars, config, stateVars, op, lines, trunks, outcome, undisturbed,
                 failures>>

\* Refresh every state (a VLAN that is gone is forgotten), compare with the
\* configuration, and start an operation for every difference.
Plan ==
  LET read(p) == IF portState[p] = Absent THEN Absent
                 ELSE ReadBack(portState[p], member[p], vlans) IN
  /\ AtRest
  /\ portState' = [p \in Ports |-> read(p)] /\ vlanState' = vlanState \cap vlans
  /\ op' = [r \in Resources |->
              IF r \in Ports THEN IF portState'[r] = config[r] THEN "none" ELSE "read"
              ELSE CASE r \in declared \ vlanState' -> "read"
                     [] r \in vlanState' \ declared -> "delete"
                     [] OTHER -> "none"]
  /\ outcome' = "ok"
  /\ undisturbed' = \A p \in Ports :
                      /\ op'[p] = "none"
                      /\ config[p].all => Complete(p) /\ Enough(TaggedOf(member[p]) \cap declared)
  /\ UNCHANGED <<switchVars, config, declared, lines, trunks, edits, failures>>

-----------------------------------------------------------------------------
(* icx_interface_ethernet.                                                   *)

ReadPort(p) ==
  /\ op[p] = "read" /\ op' = [op EXCEPT ![p] = "write"]
  /\ lines' = [lines EXCEPT ![p] =
                 Build(firmware, config[p],
                       IF portState[p] = Absent THEN Nothing ELSE portState[p],
                       vlans, member[p].dual, FALSE)]
  /\ UNCHANGED <<switchVars, config, declared, stateVars, trunks, outcome, undisturbed,
                 edits, failures>>

\* What a port's lines make of it, one by one.
After(p) ==
  LET after[n \in 0..Len(lines[p])] ==
        IF n = 0 THEN member[p] ELSE Effect(after[n - 1], lines[p][n])
  IN after

\* The switch runs the first n lines on a port.
Runs(p, n) ==
  /\ \A i \in 1..n : ~Rejects(firmware, After(p)[i - 1], lines[p][i])
  /\ member' = [member EXCEPT ![p] = After(p)[n]]
  /\ vlans' = vlans \cup UNION {Entered(lines[p][i]) : i \in 1..n}

EndPort(p) == op' = [op EXCEPT ![p] = "none"] /\ lines' = [lines EXCEPT ![p] = <<>>]

WritePort(p) ==
  /\ op[p] = "write" /\ Runs(p, Len(lines[p])) /\ EndPort(p)
  /\ portState' = [portState EXCEPT ![p] = config[p]]
  /\ UNCHANGED <<firmware, config, declared, vlanState, trunks, outcome, undisturbed, edits,
                 failures>>

\* A line is refused, or the session fails somewhere.
WritePortFails(p) ==
  /\ op[p] = "write" /\ EndPort(p) /\ outcome' = "failed" /\ undisturbed' = FALSE
  /\ \E n \in 0..Len(lines[p]) :
       /\ Runs(p, n)
       /\ \/ n < Len(lines[p]) /\ Rejects(firmware, After(p)[n], lines[p][n + 1])
               /\ UNCHANGED failures
          \/ failures < MaxFailures /\ failures' = failures + 1
  /\ UNCHANGED <<firmware, config, declared, stateVars, trunks, edits>>

-----------------------------------------------------------------------------
(* icx_vlan.                                                                 *)

\* Mutated: a trunk must be tagged in its own untagged VLAN as well.
TrunkInTaggedOnly(p, existing) ==
  /\ existing \subseteq member[p].tagged
  /\ Enough(existing \cap member[p].tagged)

\* findTrunkAllPorts: tagged in every VLAN of these but the one it is untagged
\* in, and in enough of them.
TrunkIn(p, existing) ==
  /\ existing \subseteq member[p].tagged \cup {member[p].untagged}
  /\ Enough(existing \cap member[p].tagged)

ReadVlan(v) ==
  /\ op[v] = "read" /\ op' = [op EXCEPT ![v] = "write"]
  /\ trunks' = [trunks EXCEPT ![v] = {p \in Ports : TrunkIn(p, vlans \ {DefaultVlan, v})}]
  /\ UNCHANGED <<switchVars, config, declared, stateVars, lines, outcome, undisturbed,
                 edits, failures>>

EndVlan(v) == op' = [op EXCEPT ![v] = "none"] /\ trunks' = [trunks EXCEPT ![v] = {}]

\* The new VLAN is tagged onto these ports.
TagOnto(v, S) ==
  /\ \A p \in S : ~Rejects(firmware, member[p], Line("tagged", v))
  /\ member' = [p \in Ports |-> IF p \in S THEN Effect(member[p], Line("tagged", v))
                                ELSE member[p]]
  /\ vlans' = vlans \cup {v}

WriteVlan(v) ==
  /\ op[v] = "write" /\ TagOnto(v, trunks[v]) /\ EndVlan(v)
  /\ vlanState' = vlanState \cup {v}
  /\ UNCHANGED <<firmware, config, declared, portState, lines, outcome, undisturbed, edits,
                 failures>>

\* The call fails: before it created the VLAN, or with some trunks untagged.
WriteVlanFails(v) ==
  /\ op[v] = "write" /\ EndVlan(v) /\ outcome' = "failed" /\ undisturbed' = FALSE
  /\ UNCHANGED <<vlans, member>> \/ \E S \in SUBSET trunks[v] : TagOnto(v, S)
  /\ \/ (\E p \in trunks[v] : Rejects(firmware, member[p], Line("tagged", v)))
           /\ UNCHANGED failures
     \/ failures < MaxFailures /\ failures' = failures + 1
  /\ UNCHANGED <<firmware, config, declared, stateVars, lines, edits>>

\* A VLAN that goes takes every membership in it along.
Without(port, v) ==
  [tagged |-> port.tagged \ {v},
   untagged |-> IF port.untagged = v THEN None ELSE port.untagged,
   dual |-> IF port.dual = v THEN None ELSE port.dual]

DeleteVlan(v) ==
  /\ op[v] = "delete" /\ op' = [op EXCEPT ![v] = "none"]
  /\ vlans' = vlans \ {v} /\ member' = [p \in Ports |-> Without(member[p], v)]
  /\ vlanState' = vlanState \ {v}
  /\ UNCHANGED <<firmware, config, declared, portState, lines, trunks, outcome, undisturbed,
                 edits, failures>>

DeleteVlanFails(v) ==
  /\ op[v] = "delete" /\ op' = [op EXCEPT ![v] = "none"] /\ outcome' = "failed"
  /\ undisturbed' = FALSE /\ failures < MaxFailures /\ failures' = failures + 1
  /\ \/ UNCHANGED <<vlans, member>>
     \/ vlans' = vlans \ {v} /\ member' = [p \in Ports |-> Without(member[p], v)]
  /\ UNCHANGED <<firmware, config, declared, stateVars, lines, trunks, edits>>

-----------------------------------------------------------------------------
PortStep(p) == ReadPort(p) \/ WritePort(p) \/ WritePortFails(p)
VlanStep(v) == ReadVlan(v) \/ WriteVlan(v) \/ DeleteVlan(v) \/ WriteVlanFails(v)
                 \/ DeleteVlanFails(v)
Next == \/ \E v \in Managed : Edit(v) \/ VlanStep(v)
        \/ \E p \in Ports : PortStep(p)
        \/ Plan
Spec == Init /\ [][Next]_vars

\* Every operation that was started runs, and terraform is run again.
FairSpec ==
  /\ Spec /\ WF_vars(Plan)
  /\ \A p \in Ports : WF_vars(PortStep(p))
  /\ \A v \in Managed : WF_vars(VlanStep(v))

-----------------------------------------------------------------------------
TypeOK ==
  /\ firmware \in Firmwares /\ vlans \subseteq Vlans /\ DefaultVlan \in vlans /\ member \in [Ports -> Port]
  /\ config \in Plans /\ declared \subseteq Managed
  /\ portState \in [Ports -> Wanted \cup {Absent}] /\ vlanState \subseteq Managed
  /\ op \in [Resources -> {"none", "read", "write", "delete"}]
  /\ trunks \in [Managed -> SUBSET Ports]
  /\ outcome \in {"none", "ok", "failed"} /\ undisturbed \in BOOLEAN
  /\ edits \in 0..MaxEdits /\ failures \in 0..MaxFailures

\* Complete trunks stay complete: an apply that creates and deletes VLANs, in any
\* order and all at once, and runs no port operation, leaves every tag_all_vlans
\* port tagged in every VLAN (icx_vlan Create, findTrunkAllPorts).
TrunksStayComplete ==
  (AtRest /\ undisturbed /\ outcome = "ok" /\ vlanState = declared) =>
    \A p \in Ports : config[p].all => Complete(p)

\* Whatever interleaved or failed, terraform run again and again ends with every
\* port carrying what its configuration asks for, new VLANs included, and every
\* declared VLAN on the switch, as long as no port's untagged VLAN is withdrawn.
TrunksConverge ==
  [](\A p \in Ports : config[p].untagged \in declared \cup {None})
    => <>[](declared \subseteq vlans /\ \A p \in Ports : Meets(member[p], config[p], vlans))

\* Creating and deleting VLANs leaves the membership of a port with an explicit
\* list alone.
ListedPortsUntouched ==
  [][\A v \in Managed : VlanStep(v) =>
       \A p \in Ports : ~config[p].all => TaggedOf(member'[p]) \subseteq TaggedOf(member[p])]_vars
=============================================================================
