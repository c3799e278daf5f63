--------------------------- MODULE MCEthernetPort ---------------------------
(* Small instances of EthernetPort: VLAN 1 and one to three others.          *)
EXTENDS EthernetPort

WantTagged(tagged, untagged) == [all |-> FALSE, tagged |-> tagged, untagged |-> untagged]
WantAll(untagged) == [all |-> TRUE, tagged |-> {}, untagged |-> untagged]
Member(tagged, untagged, dual) == [tagged |-> tagged, untagged |-> untagged, dual |-> dual]

\* Every membership a configuration may ask for on VLANs 2 and 3, each VLAN
\* tagged or untagged but not both, and tag_all_vlans.
EveryPlan ==
  {w \in {WantTagged(t, u) : t \in SUBSET {2, 3}, u \in {0, 2, 3}} : w.untagged \notin w.tagged}
    \cup {WantAll(0), WantAll(2)}

\* The same, and trunks whose untagged VLAN is the default one.
DefaultToo == EveryPlan \cup {WantTagged({2}, 1), WantAll(1)}
AllPlan == {WantAll(0)}
DefaultPlan == {WantAll(1)}

Bare == {NoMembership}
Used == {NoMembership, Member({2}, 0, 0), Member({}, 2, 0)}
Hand(ops, ids) == {Line(op, v) : op \in ops, v \in ids}
AnyHand == Hand({"tagged", "no_tagged", "untagged", "no_untagged", "dual"}, {2, 3, 4})
             \cup {Line("no_dual", None)}

NoHand == {}

OnContext == {"context"}
AnyFirmware == {"context", "dual"}
FourVlans == 1..4
ThreeVlans == 1..3
TwoVlans == 1..2
=============================================================================
