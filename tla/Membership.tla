----------------------------- MODULE Membership -----------------------------
(***************************************************************************)
(* VLAN membership of one ethernet port: how icx_interface_ethernet turns  *)
(* a planned and a previous membership into CLI lines, how it reads a      *)
(* membership back, and what each line does on the switch.                 *)
(*                                                                         *)
(* A line here is the three-line stanza the code emits ("vlan 10",         *)
(* "tagged ethe 1/1/1", "exit").  Two dialects exist: on "context"         *)
(* firmware (08.0.80 and later) a trunk's untagged VLAN is a VLAN-context  *)
(* membership; on "dual" firmware the port is a tagged member of it too    *)
(* and `dual-mode' under the interface selects it.                         *)
(***************************************************************************)
EXTENDS Integers, SequencesExt

CONSTANT Vlans      \* the VLAN ids in play

None == 0
DefaultVlan == 1

ASSUME MembershipAssumption == Vlans \subseteq 1..4094 /\ DefaultVlan \in Vlans

\* A membership a plan asks for, or a state records: tag_all_vlans,
\* tagged_vlans and untagged_vlan.
Wanted == [all : BOOLEAN, tagged : SUBSET Vlans, untagged : Vlans \cup {None}]
Nothing == [all |-> FALSE, tagged |-> {}, untagged |-> None]

\* A port in the running configuration: its VLAN-context memberships and the
\* VLAN of its `dual-mode' line.
Port == [tagged : SUBSET Vlans, untagged : Vlans \cup {None}, dual : Vlans \cup {None}]
NoMembership == [tagged |-> {}, untagged |-> None, dual |-> None]

Ops == {"tagged", "no_tagged", "untagged", "no_untagged", "dual", "no_dual", "bulk"}
LineSet == [op : Ops, vlan : Vlans \cup {None}]
Line(op, v) == [op |-> op, vlan |-> v]
When(wanted, line) == IF wanted THEN <<line>> ELSE <<>>

\* The VLANs of a set in ascending order.
Below(v, S) == {w \in S : w < v}
Ascending(S) ==
  [i \in 1..Cardinality(S) |-> CHOOSE v \in S : Cardinality(Below(v, S)) = i - 1]
ForEach(op, S) == LET ids == Ascending(S) IN [i \in DOMAIN ids |-> Line(op, ids[i])]

-----------------------------------------------------------------------------
(* From a wanted membership to lines.                                        *)

\* Mutated: VLAN 1 is in the expansion.
ExpandAllWithDefault(vlans, untagged) == vlans \ {untagged}

\* What tag_all_vlans stands for on a switch with these VLANs.
ExpandAll(vlans, untagged) == vlans \ {DefaultVlan, untagged}

\* Mutated: tag_all_vlans is not expanded.
ResolveTaggedUnexpanded(w, vlans) == w.tagged

ResolveTagged(w, vlans) == IF w.all THEN ExpandAll(vlans, w.untagged) ELSE w.tagged

\* Mutated: a trunk without an untagged VLAN counts.
IsDualTrunk(w, vlans) == ResolveTagged(w, vlans) # {}

IsDual(w, vlans) == w.untagged # None /\ ResolveTagged(w, vlans) # {}

\* dualModeVLANContextSets: the memberships a dual-mode switch must hold.
ContextTagged(w, vlans) ==
  ResolveTagged(w, vlans)
    \cup (IF IsDual(w, vlans) /\ w.untagged # DefaultVlan THEN {w.untagged} ELSE {})
ContextUntagged(w, vlans) == IF IsDual(w, vlans) THEN None ELSE w.untagged

DropsUntagged(new, old) == old \notin {None, new}
AddsUntagged(new, old) == new \notin {None, old}

\* buildVLANMembershipCommands on context firmware.  `old' is Nothing for a
\* create; tag_all_vlans is expanded over the VLANs of today on both sides.
BuildContext(plan, old, vlans, bulk) ==
  LET new == ResolveTagged(plan, vlans)
      was == ResolveTagged(old, vlans) IN
  When(DropsUntagged(plan.untagged, old.untagged), Line("no_untagged", old.untagged))
    \o ForEach("no_tagged", was \ new)
    \o When(AddsUntagged(plan.untagged, old.untagged), Line("untagged", plan.untagged))
    \o (IF new \ was # {} /\ bulk THEN <<Line("bulk", None)>>
        ELSE ForEach("tagged", new \ was))

\* Mutated: dual-mode is never left, or before each change.
LeavesDualNever(plan, vlans, dual) == FALSE
LeavesDualFirst(plan, vlans, dual) == dual # None /\ (~IsDual(plan, vlans) \/ dual # plan.untagged)

\* The device's own dual-mode line, not the state, decides what happens to it.
LeavesDual(plan, vlans, dual) == dual # None /\ ~IsDual(plan, vlans)
SelectsDual(plan, vlans, dual) == IsDual(plan, vlans) /\ dual # plan.untagged

\* buildDualModeMembershipCommands: six steps in this order.
BuildDual(plan, old, vlans, dual) ==
  LET new == ContextTagged(plan, vlans)
      was == ContextTagged(old, vlans)
      newUntagged == ContextUntagged(plan, vlans)
      oldUntagged == ContextUntagged(old, vlans) IN
  When(LeavesDual(plan, vlans, dual), Line("no_dual", None))
    \o When(DropsUntagged(newUntagged, oldUntagged), Line("no_untagged", oldUntagged))
    \o ForEach("tagged", new \ was)
    \o When(SelectsDual(plan, vlans, dual), Line("dual", plan.untagged))
    \o ForEach("no_tagged", was \ new)
    \o When(AddsUntagged(newUntagged, oldUntagged), Line("untagged", newUntagged))

Build(firmware, plan, old, vlans, dual, bulk) ==
  IF firmware = "dual" THEN BuildDual(plan, old, vlans, dual)
  ELSE BuildContext(plan, old, vlans, bulk)

\* buildVLANRemovalCommands: every membership the device shows, VLAN 1 apart.
RemoveAll(port, vlans) ==
  LET of(v) == When(v \in port.tagged, Line("no_tagged", v))
                 \o When(v = port.untagged, Line("no_untagged", v))
      ids == Ascending(vlans \ {DefaultVlan}) IN
  When(port.dual # None, Line("no_dual", None))
    \o FlattenSeq([i \in DOMAIN ids |-> of(ids[i])])

\* bulkTaggingAllowed, but for the provider's opt-in and the management path.
BulkAllowed(firmware, plan, port) ==
  firmware = "context" /\ plan.all /\ plan.untagged = None /\ port.untagged = None

\* Mutated: the bulk command is trusted.
NoCorrections(port, vlans, untagged) == <<>>

\* bulkTaggingCorrections.
BulkCorrections(port, vlans, untagged) ==
  LET of(v) == When(v \in port.tagged, Line("no_tagged", v))
                 \o When(v = untagged /\ port.untagged # v, Line("untagged", v))
      ids == Ascending(vlans \cap {DefaultVlan, untagged}) IN
  FlattenSeq([i \in DOMAIN ids |-> of(ids[i])])

-----------------------------------------------------------------------------
(* From the running configuration to a state.                                *)

\* Mutated: a tag_all_vlans trunk is not compared with the device.
ReadBackTrusting(state, port, vlans) ==
  IF state.all THEN state
  ELSE [all |-> FALSE, tagged |-> (port.tagged \cap vlans) \ {DefaultVlan, port.dual},
        untagged |-> IF port.dual # None THEN port.dual ELSE port.untagged]

\* readVLANMembership and reconcileTagAllVLANs: a tag_all_vlans trunk that keeps
\* its promise keeps its state, any other port gets the device's membership.
ReadBack(state, port, vlans) ==
  LET tagged == (port.tagged \cap vlans) \ {DefaultVlan, port.dual}
      untagged == IF port.dual # None THEN port.dual
                  ELSE IF port.untagged = DefaultVlan THEN None ELSE port.untagged IN
  IF state.all /\ tagged = ExpandAll(vlans, untagged)
  THEN [state EXCEPT !.untagged = untagged]
  ELSE [all |-> FALSE, tagged |-> tagged, untagged |-> untagged]

-----------------------------------------------------------------------------
(* The switch, as the comments of interface_ethernet.go describe it.         *)

\* A VLAN stanza opens with `vlan <id>', which creates a VLAN that is not there.
Entered(l) ==
  IF l.op \in {"tagged", "no_tagged", "untagged", "no_untagged"} THEN {l.vlan} ELSE {}

Effect(port, l) ==
  CASE l.op = "tagged"      -> [port EXCEPT !.tagged = @ \cup {l.vlan}]
    [] l.op = "no_tagged"   -> [port EXCEPT !.tagged = @ \ {l.vlan}]
    [] l.op = "untagged"    -> [port EXCEPT !.untagged = l.vlan]
    [] l.op = "no_untagged" -> [port EXCEPT !.untagged = None]
    [] l.op = "dual"        -> [port EXCEPT !.dual = l.vlan]
    [] l.op = "no_dual"     -> [port EXCEPT !.dual = None]
    [] OTHER -> port

\* Lines the switch is known to refuse.
Rejects(firmware, port, l) ==
  IF firmware = "dual"
  THEN \/ l.op = "tagged" /\ port.untagged \notin {None, DefaultVlan}
       \/ l.op = "untagged" /\ port.tagged # {}
       \/ l.op = "dual" /\ l.vlan \notin port.tagged
            /\ ~(l.vlan = DefaultVlan /\ port.tagged # {})
       \/ l.op = "no_tagged" /\ (l.vlan = port.dual \/ (port.dual # None /\ port.tagged = {l.vlan}))
       \/ l.op = "bulk"
  ELSE \/ l.op = "tagged" /\ port.untagged = l.vlan
       \/ l.op = "untagged" /\ l.vlan \in port.tagged
       \/ l.op \in {"dual", "no_dual"}

\* What the switch never holds it cannot be asked for: a VLAN is not tagged and
\* untagged on one port, a dual-mode port is tagged in the VLAN `dual-mode' names.
Possible(firmware, port) ==
  IF firmware = "dual"
  THEN /\ port.untagged \notin {None, DefaultVlan} => port.tagged = {}
       /\ port.dual # None => \/ port.dual \in port.tagged
                              \/ port.dual = DefaultVlan /\ port.tagged # {}
  ELSE port.dual = None /\ port.untagged \notin port.tagged

\* Lines it may refuse: those, removing what is not there, and an untagged
\* membership while the port has another than the default VLAN's.
MayReject(firmware, port, l) ==
  \/ Rejects(firmware, port, l)
  \/ l.op = "no_tagged" /\ l.vlan \notin port.tagged
  \/ l.op = "no_untagged" /\ l.vlan # port.untagged
  \/ l.op = "untagged" /\ port.untagged \notin {None, DefaultVlan, l.vlan}
  \/ l.op = "bulk"

\* What the port does with frames: which VLAN the untagged ones are in, and in
\* which others tagged ones are accepted, the default VLAN apart.  A port that is
\* untagged nowhere is untagged in the default VLAN.
UntaggedOf(port) ==
  IF port.dual # None THEN port.dual
  ELSE IF port.untagged = DefaultVlan THEN None ELSE port.untagged
TaggedOf(port) == port.tagged \ {DefaultVlan, port.dual}

Meets(port, w, vlans) ==
  UntaggedOf(port) = w.untagged /\ TaggedOf(port) = ResolveTagged(w, vlans)
=============================================================================
