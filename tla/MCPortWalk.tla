----------------------------- MODULE MCPortWalk -----------------------------
(* A small instance of PortWalk: three resources and two ports.             *)
EXTENDS PortWalk, TLC

CONSTANTS r1, r2, r3, p1, p2, gateway, route, lag

On(p, name, enabled) == [port |-> p, attrs |-> [name |-> name, enabled |-> enabled]]
Fleet(a, b, c) == [r \in {r1, r2, r3} |-> CASE r = r1 -> a [] r = r2 -> b [] r = r3 -> c]
None == [absent |-> TRUE]

\* Two resources, and the same with their ports exchanged; one declared twice;
\* three on one port, one of which differs.
SomeFleets ==
  {Fleet(On(p1, "a", "null"), On(p2, "null", "off"), None),
   Fleet(On(p2, "a", "null"), On(p1, "null", "off"), None),
   Fleet(On(p1, "a", "on"), On(p1, "a", "on"), None),
   Fleet(On(p1, "a", "on"), On(p1, "null", "on"), On(p1, "a", "on"))}

Hide(a, b, c) == [r \in {r1, r2, r3} |-> CASE r = r1 -> a [] r = r2 -> b [] r = r3 -> c]
SomeHidings == {Hide({}, {}, {}), Hide({"name"}, {"enabled"}, {}), Hide({"port"}, {"port"}, {})}

Fresh == {[p \in {p1, p2} |-> [name |-> "null", enabled |-> "on"]]}
Disabling == {[field |-> "enabled", value |-> "off"]}

\* Two next hops, one of them behind a LAG; and one that is on the other port.
SomeNetworks ==
  {[hops |-> {gateway, route}, arp |-> (gateway :> p1 @@ route :> lag)],
   [hops |-> {gateway}, arp |-> (gateway :> p2)]}
=============================================================================
