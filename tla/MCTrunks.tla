------------------------------ MODULE MCTrunks ------------------------------
(* Small instances of Trunks: two ports, VLAN 1 and up to five others.        *)
EXTENDS Trunks

CONSTANTS trunk, other

TwoPorts == {trunk, other}
WantTagged(tagged, untagged) == [all |-> FALSE, tagged |-> tagged, untagged |-> untagged]
WantAll(untagged) == [all |-> TRUE, tagged |-> {}, untagged |-> untagged]
Both(t, o) == (trunk :> t) @@ (other :> o)

\* A tag_all_vlans trunk, with or without an untagged VLAN, beside an access
\* port, a port with a list, or another trunk.
Mixed == {Both(WantAll(0), WantTagged({}, 3)), Both(WantAll(2), WantTagged({2, 3}, 0)),
          Both(WantAll(2), WantAll(0))}

\* A port that lists the VLANs there are, by hand.
Listed == {Both(WantAll(0), WantTagged({2, 3, 4}, 0))}

BothFirmwares == {"context", "dual"}
SixVlans == 1..6
FourVlans == 1..4
FiveVlans == 1..5
=============================================================================
