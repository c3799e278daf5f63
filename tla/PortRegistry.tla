---------------------------- MODULE PortRegistry ----------------------------
(***************************************************************************)
(* The arithmetic of providerdata.PortRegistry: what is known of the       *)
(* configuration that claims a port, and what a further claim does to it.  *)
(*                                                                         *)
(* A port nobody has claimed is one of whose claimant nothing is known:    *)
(* the map's missing key and an entry of unknown values behave alike.      *)
(***************************************************************************)
CONSTANTS PortIds, Attrs, Values,
          Unknown      \* a value that is only known at apply

\* What a resource's configuration says of its attributes when it is planned.
Knowledge == [Attrs -> Values \cup {Unknown}]

NewRegistry == [p \in PortIds |-> [a \in Attrs |-> Unknown]]

\* The attributes on which two configurations definitely differ.
Differs(known, attrs) ==
  {a \in Attrs : Unknown \notin {known[a], attrs[a]} /\ known[a] # attrs[a]}

\* Mutated: the first claim is all that is remembered.
MergeFirst(known, attrs) == IF \A a \in Attrs : known[a] = Unknown THEN attrs ELSE known

\* Of each attribute the registry keeps whichever value is known.
Merge(known, attrs) == [a \in Attrs |-> IF known[a] = Unknown THEN attrs[a] ELSE known[a]]

\* Claim: a claim that differs leaves the registry as it is.
Claimed(registry, p, attrs) ==
  IF Differs(registry[p], attrs) # {} THEN registry
  ELSE [registry EXCEPT ![p] = Merge(@, attrs)]
=============================================================================
