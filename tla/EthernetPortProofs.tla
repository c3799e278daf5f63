-------------------------- MODULE EthernetPortProofs --------------------------
(***************************************************************************)
(* Proofs about EthernetPort, for any VLANs, plans, firmware, lines typed  *)
(* by hand and bounds.                                                     *)
(***************************************************************************)
EXTENDS EthernetPort, MembershipProofs

\* The records as far as the proofs need them; the VLAN ids in them are any.
WantedShape(w) ==
  /\ w = [all |-> w.all, tagged |-> w.tagged, untagged |-> w.untagged]
  /\ w.all \in BOOLEAN
PortShape(p) == p = [tagged |-> p.tagged, untagged |-> p.untagged, dual |-> p.dual]

\* The port is a member only of VLANs that are there.
TagsExist == PortShape(port) /\ port.tagged \subseteq vlans

Recordings ==
  /\ config # Absent => WantedShape(config)
  /\ state # Absent => WantedShape(state)

\* Until an operation ends it has no result.
ResultAtEnd == pc # "idle" => result = "none"

\* What a refresh recorded stays true until an operation begins or someone
\* changes the switch by hand.
RefreshedIsTrue ==
  (pc = "idle" /\ refreshed /\ calm /\ state # Absent) => Meets(port, state, vlans)

Inv == TagsExist /\ Recordings /\ ResultAtEnd /\ RefreshedIsTrue /\ BulkFailureShows

-----------------------------------------------------------------------------
LEMMA PlanShape == \A w \in Plans : WantedShape(w)
BY EthernetPortAssumption DEF Wanted, WantedShape

LEMMA NothingShape == WantedShape(Nothing) /\ Nothing.all = FALSE
BY DEF Nothing, WantedShape

\* What Read records is a membership, with tag_all_vlans only if it was there.
LEMMA ReadBackShape ==
  ASSUME NEW s, WantedShape(s), NEW p, NEW vs
  PROVE  /\ WantedShape(ReadBack(s, p, vs))
         /\ ~s.all => ReadBack(s, p, vs).all = FALSE
BY DEF ReadBack, WantedShape

\* What Read records is what the port carries (readVLANMembership,
\* reconcileTagAllVLANs).
LEMMA ReadBackMeets ==
  ASSUME NEW s, WantedShape(s), NEW p, NEW vs, p.tagged \subseteq vs
  PROVE  Meets(p, ReadBack(s, p, vs), vs)
<1> DEFINE tagged == (p.tagged \cap vs) \ {DefaultVlan, p.dual}
           untagged == UntaggedOf(p)
<1>1. TaggedOf(p) = tagged
  BY DEF TaggedOf
<1>2. CASE s.all /\ tagged = ExpandAll(vs, untagged)
  <2>1. ReadBack(s, p, vs) = [s EXCEPT !.untagged = untagged]
    BY <1>2 DEF ReadBack, UntaggedOf
  <2>2. ReadBack(s, p, vs).all /\ ReadBack(s, p, vs).untagged = untagged
    BY <1>2, <2>1 DEF WantedShape
  <2>3. QED
    BY <1>1, <1>2, <2>2 DEF Meets, ResolveTagged
<1>3. CASE ~(s.all /\ tagged = ExpandAll(vs, untagged))
  <2>1. ReadBack(s, p, vs) = [all |-> FALSE, tagged |-> tagged, untagged |-> untagged]
    BY <1>3 DEF ReadBack, UntaggedOf
  <2>2. QED
    BY <1>1, <2>1 DEF Meets, ResolveTagged
<1>4. QED
  BY <1>2, <1>3

\* A line tags the port only in the VLAN it enters.
LEMMA EffectTags ==
  ASSUME NEW p, PortShape(p), NEW l
  PROVE  /\ PortShape(Effect(p, l))
         /\ Effect(p, l).tagged \subseteq p.tagged \cup Entered(l)
<1>1. CASE l.op = "tagged"
  BY <1>1 DEF Effect, Entered, PortShape
<1>2. CASE l.op = "no_tagged"
  BY <1>2 DEF Effect, Entered, PortShape
<1>3. CASE l.op \in {"untagged", "no_untagged", "dual", "no_dual"}
  BY <1>3 DEF Effect, Entered, PortShape
<1>4. CASE l.op \notin {"tagged", "no_tagged", "untagged", "no_untagged", "dual", "no_dual"}
  BY <1>4 DEF Effect, Entered, PortShape
<1>5. QED
  BY <1>1, <1>2, <1>3, <1>4

LEMMA RunTags ==
  ASSUME TagsExist, NEW l, NEW complete, Run(l, complete),
         vlans' = vlans \cup Entered(l) \/ (l.op = "bulk" /\ vlans \subseteq vlans')
  PROVE  TagsExist'
<1>1. CASE l.op = "bulk"
  <2>1. PICK extra \in SUBSET vlans, u \in {port.untagged, None} : port' = [port EXCEPT !.tagged = @ \cup extra, !.untagged = u]
    BY <1>1 DEF Run
  <2>2. PortShape(port') /\ port'.tagged = port.tagged \cup extra
    BY <2>1 DEF TagsExist, PortShape
  <2>3. vlans \subseteq vlans'
    OBVIOUS
  <2>4. QED
    BY <2>2, <2>3 DEF TagsExist, PortShape
<1>2. CASE l.op # "bulk"
  BY <1>2, EffectTags DEF Run, TagsExist, PortShape
<1>3. QED
  BY <1>1, <1>2

\* An operation ends at rest, with nothing refreshed.
LEMMA EndIsIdle ==
  ASSUME NEW outcome, NEW newState, End(outcome, newState)
  PROVE  pc' = "idle" /\ ~refreshed' /\ result' = outcome /\ state' = newState
           /\ config' = config /\ kind' = kind
BY DEF End

LEMMA RecordedShape ==
  ASSUME Recordings
  PROVE  /\ Recorded # Absent => WantedShape(Recorded)
         /\ kind = "update" => Recorded.all = FALSE
BY ReadBackShape, NothingShape DEF Recorded, Recordings

-----------------------------------------------------------------------------
LEMMA InitInv == Init => Inv
<1> SUFFICES ASSUME Init PROVE Inv
  OBVIOUS
<1>1. TagsExist
  <2>1. PortShape(port)
    BY EthernetPortAssumption DEF Init, Port, PortShape
  <2>2. None \notin vlans
    BY MembershipAssumption, EthernetPortAssumption DEF Init, None
  <2>3. None \notin port.tagged
    BY MembershipAssumption, EthernetPortAssumption DEF Init, Port, None
  <2>4. QED
    BY <2>1, <2>2, <2>3 DEF Init, TagsExist
<1>2. Recordings /\ ResultAtEnd /\ RefreshedIsTrue /\ BulkFailureShows
  BY DEF Init, Recordings, ResultAtEnd, RefreshedIsTrue, BulkFailureShows
<1>3. QED
  BY <1>1, <1>2 DEF Inv

\* What the operator and terraform do between operations.
LEMMA IdleSteps ==
  ASSUME Inv, \/ \E w \in Plans \cup {Absent} : Edit(w)
              \/ Refresh \/ Import \/ PlanClean
              \/ BeginCreate \/ BeginUpdate \/ BeginDelete
  PROVE  Inv'
<1> USE DEF Inv
<1>1. CASE \E w \in Plans \cup {Absent} : Edit(w)
  BY <1>1, PlanShape DEF Edit, switchVars, opVars, TagsExist, Recordings, ResultAtEnd,
     RefreshedIsTrue, BulkFailureShows
<1>2. CASE Refresh
  <2>1. WantedShape(state) /\ state' = ReadBack(state, port, vlans)
    BY <1>2 DEF Refresh, Recordings
  <2>2. WantedShape(state') /\ Meets(port, state', vlans)
    BY <2>1, ReadBackShape, ReadBackMeets DEF TagsExist
  <2>3. QED
    BY <1>2, <2>2 DEF Refresh, switchVars, opVars, TagsExist, Recordings, ResultAtEnd,
       RefreshedIsTrue, BulkFailureShows
<1>3. CASE Import
  <2>1. WantedShape(state') /\ state'.all = FALSE
    BY <1>3, ReadBackShape, NothingShape DEF Import
  <2>2. QED
    BY <1>3, <2>1 DEF Import, switchVars, opVars, boundVars, TagsExist, Recordings,
       ResultAtEnd, RefreshedIsTrue, BulkFailureShows
<1>4. CASE PlanClean
  BY <1>4 DEF PlanClean, switchVars, opVars, boundVars, TagsExist, Recordings, ResultAtEnd,
     RefreshedIsTrue, BulkFailureShows
<1>5. ASSUME NEW k, NEW old, Begin(k, old)
      PROVE  Inv'
  BY <1>5 DEF Begin, switchVars, boundVars, TagsExist, Recordings, ResultAtEnd,
     RefreshedIsTrue, BulkFailureShows
<1>6. CASE BeginCreate
  BY <1>5, <1>6 DEF BeginCreate
<1>7. CASE BeginUpdate
  BY <1>5, <1>7 DEF BeginUpdate
<1>8. CASE BeginDelete
  BY <1>5, <1>8 DEF BeginDelete
<1>9. QED
  BY <1>1, <1>2, <1>3, <1>4, <1>6, <1>7, <1>8

\* A step that ends the operation without a result BulkFailureShows speaks of.
LEMMA PlainEnd ==
  ASSUME Inv, pc # "idle", NEW outcome, NEW newState, End(outcome, newState),
         outcome # "failed_saved", newState # Absent => WantedShape(newState),
         TagsExist'
  PROVE  Inv'
BY EndIsIdle DEF Inv, Recordings, ResultAtEnd, RefreshedIsTrue, BulkFailureShows

\* A step within an operation: nothing terraform records changes.
LEMMA WithinOperation ==
  ASSUME Inv, pc # "idle", pc' # "idle", TagsExist',
         UNCHANGED <<config, state, kind, result>>
  PROVE  Inv'
BY DEF Inv, Recordings, ResultAtEnd, RefreshedIsTrue, BulkFailureShows

LEMMA CallFailsInv ==
  ASSUME Inv, pc # "idle", NEW outcome, CallFails(outcome),
         outcome # "failed_saved", TagsExist'
  PROVE  Inv'
<1>1. CASE bulk
  BY <1>1, WithinOperation DEF CallFails
<1>2. CASE ~bulk
  BY <1>2, PlainEnd DEF CallFails, Inv, Recordings
<1>3. QED
  BY <1>1, <1>2

\* The calls that configure the port.
LEMMA CallSteps ==
  ASSUME Inv, \/ Interface \/ InterfaceFails \/ LineAccepted \/ LineRefused
              \/ LinesLost \/ LinesDone
  PROVE  Inv'
<1>1. CASE Interface
  BY <1>1, WithinOperation DEF Interface, boundVars, Inv, TagsExist
<1>2. CASE InterfaceFails
  <2>1. TagsExist'
    BY <1>2 DEF InterfaceFails, Inv, TagsExist
  <2>2. QED
    BY <1>2, <2>1, PlainEnd DEF InterfaceFails, Inv, Recordings
<1>3. CASE LineAccepted
  <2>1. TagsExist'
    BY <1>3, RunTags DEF LineAccepted, Inv
  <2>2. QED
    BY <1>3, <2>1, WithinOperation DEF LineAccepted, boundVars
<1>4. CASE LineRefused
  <2>1. vlans \subseteq vlans'
    BY <1>4 DEF LineRefused
  <2>2. CASE Head(todo).op = "bulk" /\ ~Rejects(firmware, port, Head(todo))
    BY <1>4, <2>1, <2>2, RunTags, CallFailsInv DEF LineRefused, Inv
  <2>3. CASE ~(Head(todo).op = "bulk" /\ ~Rejects(firmware, port, Head(todo)))
    <3>1. TagsExist'
      BY <1>4, <2>1, <2>3 DEF LineRefused, Inv, TagsExist
    <3>2. QED
      BY <1>4, <3>1, CallFailsInv DEF LineRefused
  <2>4. QED
    BY <2>2, <2>3
<1>5. CASE LinesLost
  <2>1. TagsExist'
    BY <1>5 DEF LinesLost, Inv, TagsExist
  <2>2. QED
    BY <1>5, <2>1, CallFailsInv DEF LinesLost
<1>6. CASE LinesDone
  <2>1. TagsExist' /\ pc # "idle"
    BY <1>6 DEF LinesDone, boundVars, Inv, TagsExist
  <2>2. CASE kind = "update" /\ ~touched
    BY <1>6, <2>1, <2>2, PlainEnd DEF LinesDone, Inv, Recordings
  <2>3. CASE ~(kind = "update" /\ ~touched)
    BY <1>6, <2>1, <2>3, WithinOperation DEF LinesDone
  <2>4. QED
    BY <2>2, <2>3
<1>7. QED
  BY <1>1, <1>2, <1>3, <1>4, <1>5, <1>6

\* finishBulkTagging and the save.
LEMMA FinishSteps ==
  ASSUME Inv, \/ Verify \/ VerifyFails \/ Correct \/ CorrectFails \/ Corrected
              \/ Save \/ SaveFails
  PROVE  Inv'
<1>0. pc # "idle"
  BY DEF Verify, VerifyFails, Correct, CorrectFails, Corrected, Save, SaveFails
<1>1. Recorded # Absent => WantedShape(Recorded)
  BY RecordedShape DEF Inv
<1>2. CASE Verify
  BY <1>2, WithinOperation DEF Verify, switchVars, boundVars, Inv, TagsExist
<1>3. CASE VerifyFails
  <2>1. TagsExist'
    BY <1>3 DEF VerifyFails, Inv, TagsExist
  <2>2. QED
    BY <1>0, <1>3, <2>1, PlainEnd DEF VerifyFails, Inv, Recordings
<1>4. CASE Correct
  <2>1. TagsExist'
    BY <1>4, EffectTags DEF Correct, Inv, TagsExist
  <2>2. QED
    BY <1>4, <2>1, WithinOperation DEF Correct, boundVars
<1>5. CASE CorrectFails
  <2>1. TagsExist'
    BY <1>5 DEF CorrectFails, Inv, TagsExist
  <2>2. QED
    BY <1>0, <1>1, <1>5, <2>1, PlainEnd DEF CorrectFails
<1>6. CASE Corrected
  BY <1>6, WithinOperation DEF Corrected, switchVars, boundVars, Inv, TagsExist
<1>7. CASE Save
  <2>1. TagsExist'
    BY <1>7 DEF Save, boundVars, Inv, TagsExist
  <2>2. CASE failed
    <3>1. kind = "update" => Recorded.all = FALSE
      BY RecordedShape DEF Inv
    <3>2. unsaved' = FALSE /\ End("failed_saved", Recorded)
      BY <1>7, <2>2 DEF Save
    <3>3. QED
      BY <1>1, <2>1, <3>1, <3>2, EndIsIdle
         DEF Inv, Recordings, ResultAtEnd, RefreshedIsTrue, BulkFailureShows
  <2>3. CASE ~failed
    BY <1>0, <1>7, <2>1, <2>3, PlainEnd DEF Save, Inv, Recordings
  <2>4. QED
    BY <2>2, <2>3
<1>8. CASE SaveFails
  <2>1. TagsExist'
    BY <1>8 DEF SaveFails, Inv, TagsExist
  <2>2. CASE failed
    BY <1>0, <1>1, <1>8, <2>1, <2>2, PlainEnd DEF SaveFails
  <2>3. CASE ~failed
    BY <1>0, <1>8, <2>1, <2>3, PlainEnd DEF SaveFails, Inv, Recordings
  <2>4. QED
    BY <2>2, <2>3
<1>9. QED
  BY <1>2, <1>3, <1>4, <1>5, <1>6, <1>7, <1>8

LEMMA ByHandInv ==
  ASSUME Inv, ByHand
  PROVE  Inv'
<1>1. TagsExist'
  <2>1. CASE \E l \in HandLines : /\ Entered(l) \subseteq vlans
                                  /\ port' = Effect(port, l) /\ UNCHANGED vlans
    BY <2>1, EffectTags DEF Inv, TagsExist
  <2>2. CASE vlans \subseteq vlans' /\ UNCHANGED port
    BY <2>2 DEF Inv, TagsExist
  <2>3. QED
    BY <2>1, <2>2 DEF ByHand
<1>2. QED
  BY <1>1 DEF ByHand, opVars, Inv, Recordings, ResultAtEnd, RefreshedIsTrue, BulkFailureShows

LEMMA StutterInv ==
  ASSUME Inv, UNCHANGED vars
  PROVE  Inv'
BY DEF vars, switchVars, opVars, boundVars, Inv, TagsExist, Recordings, ResultAtEnd,
   RefreshedIsTrue, BulkFailureShows

LEMMA NextInv == Inv /\ [Next]_vars => Inv'
<1> SUFFICES ASSUME Inv, [Next]_vars PROVE Inv'
  OBVIOUS
<1>1. CASE Terraform
  BY <1>1, IdleSteps, CallSteps, FinishSteps DEF Terraform
<1>2. CASE Failing
  BY <1>2, CallSteps, FinishSteps DEF Failing
<1>3. CASE Operator
  BY <1>3, IdleSteps DEF Operator
<1>4. CASE ByHand
  BY <1>4, ByHandInv
<1>5. CASE UNCHANGED vars
  BY <1>5, StutterInv
<1>6. QED
  BY <1>1, <1>2, <1>3, <1>4, <1>5 DEF Next

-----------------------------------------------------------------------------
\* After a bulk command that failed and was saved, nothing is unsaved and the
\* state of an update does not claim tag_all_vlans (finishBulkTagging, Update).
THEOREM FailureShows == Spec => []BulkFailureShows
<1>1. Inv => BulkFailureShows
  BY DEF Inv
<1>2. QED
  BY <1>1, InitInv, NextInv, PTL DEF Spec

\* A plan without differences is right: the port carries what the configuration
\* asks for (Read, readVLANMembership, reconcileTagAllVLANs).
THEOREM CleanPlanIsSound == Spec => []CleanPlanIsTrue
<1>1. Inv => CleanPlanIsTrue
  BY DEF Inv, RefreshedIsTrue, CleanPlanIsTrue
<1>2. QED
  BY <1>1, InitInv, NextInv, PTL DEF Spec

-----------------------------------------------------------------------------
(* Types, phases, and what the switch can hold.                              *)

\* The port is a member only of VLANs that are there, in a way the switch can hold.
SwitchOK ==
  /\ SwitchTypes /\ Possible(firmware, port) /\ DefaultVlan \in vlans
  /\ port.tagged \subseteq vlans /\ port.untagged \in vlans \cup {None}

\* The lines left are well-formed; a bulk command is announced.
LinesOK ==
  /\ todo \in Seq(LineSet)
  /\ \A l \in ToSet(todo) : Entered(l) \subseteq Vlans /\ (l.op = "bulk" => bulk /\ pc # "correct")
  /\ pc \in {"iface", "lines"} =>
       Sorted(todo, IF kind = "delete" THEN removalRank ELSE rankOf(firmware))

Records == config \in Plans \cup {Absent} /\ state \in Wanted \cup {Absent}

\* A delete is what an empty configuration asks for, and only a create or an
\* update on context firmware uses the bulk command.
Phases ==
  /\ pc # "idle" \/ result = "ok" =>
       /\ kind \in {"create", "update", "delete"}
       /\ kind = "delete" <=> config = Absent
  /\ pc # "idle" /\ kind = "update" => state # Absent
  /\ pc = "iface" => ~touched
  /\ pc \in {"verify", "correct"} => bulk
  /\ pc = "correct" \/ pc = "lines" \/ pc = "iface" \/ todo = <<>>
  /\ bulk => /\ pc # "idle" /\ firmware = "context"
             /\ kind # "delete" /\ config.all /\ config.untagged = None
  /\ result = "ok" => pc = "idle" /\ state = config

Typed == SwitchOK /\ OpTypes /\ Records /\ LinesOK /\ Phases

LEMMA FirmwareIs == Typed => firmware \in {"context", "dual"}
BY EthernetPortAssumption DEF Typed, SwitchOK, SwitchTypes

LEMMA AbsentIsNoPlan == Absent \notin Wanted /\ \A w \in Wanted : w # Absent
<1>1. DOMAIN Absent = {"absent"}
  BY DEF Absent
<1>2. \A w \in Wanted : DOMAIN w = {"all", "tagged", "untagged"}
  BY DEF Wanted
<1>3. QED
  BY <1>1, <1>2

LEMMA NoLines ==
  /\ <<>> \in Seq(LineSet) /\ ToSet(<<>>) = {} /\ \A rank : Sorted(<<>>, rank)
<1> DEFINE e == <<>>
<1>1. e \in Seq(LineSet) /\ DOMAIN e = {}
  OBVIOUS
<1> HIDE DEF e
<1>2. ToSet(e) = {} /\ \A rank : Sorted(e, rank)
  BY <1>1 DEF ToSet, Sorted
<1>3. QED
  BY <1>1, <1>2 DEF e

\* A line that is not refused, run on the switch.
LEMMA RunSwitch ==
  ASSUME Typed, NEW l \in LineSet, Entered(l) \subseteq Vlans, NEW complete,
         ~Rejects(firmware, port, l), Run(l, complete), vlans' = vlans \cup Entered(l),
         UNCHANGED <<firmware, after, before>>
  PROVE  SwitchOK'
<1>1. /\ firmware \in Firmwares /\ firmware \in {"context", "dual"} /\ vlans \subseteq Vlans
      /\ port \in Port /\ {after, before} \subseteq Port
      /\ Possible(firmware, port) /\ port.tagged \subseteq vlans /\ DefaultVlan \in vlans
      /\ port.untagged \in vlans \cup {None} /\ None \notin Vlans
  BY FirmwareIs, VlansAreFinite DEF Typed, SwitchOK, SwitchTypes
<1>2. vlans' \subseteq Vlans
  BY <1>1
<1>3. CASE l.op # "bulk"
  <2>1. port' = Effect(port, l)
    BY <1>3 DEF Run
  <2>2. port' \in Port /\ Possible(firmware, port')
    BY <1>1, <2>1, EffectIs, EffectPossible
  <2>3. /\ port'.tagged \subseteq vlans \cup Entered(l)
        /\ port'.untagged \in vlans \cup Entered(l) \cup {None}
    <3>1. /\ port'.tagged = IF l.op = "tagged" THEN port.tagged \cup {l.vlan}
                            ELSE IF l.op = "no_tagged" THEN port.tagged \ {l.vlan}
                            ELSE port.tagged
          /\ port'.untagged = IF l.op = "untagged" THEN l.vlan
                              ELSE IF l.op = "no_untagged" THEN None ELSE port.untagged
      BY <1>1, <2>1, EffectIs
    <3>2. QED
      BY <1>1, <3>1 DEF Entered
  <2>4. QED
    BY <1>1, <1>2, <2>2, <2>3 DEF SwitchOK, SwitchTypes
<1>4. CASE l.op = "bulk"
  <2>1. firmware = "context"
    BY <1>1, <1>4 DEF Rejects
  <2>2. PICK extra \in SUBSET vlans, u \in {port.untagged, None} :
          /\ u = port.untagged => port.untagged \notin extra
          /\ port' = [port EXCEPT !.tagged = @ \cup extra, !.untagged = u]
    BY <1>4 DEF Run
  <2>3. port'.tagged = port.tagged \cup extra /\ port'.untagged = u /\ port'.dual = port.dual
        /\ port' \in Port
    BY <1>1, <2>2 DEF Port
  <2>4. Possible(firmware, port')
    BY <1>1, <2>1, <2>2, <2>3 DEF Possible
  <2>5. QED
    BY <1>1, <1>2, <2>2, <2>3, <2>4 DEF SwitchOK, SwitchTypes
<1>5. QED
  BY <1>3, <1>4

\* The switch is as it was, but that VLANs may have been added.
LEMMA MoreVlans ==
  ASSUME Typed, vlans \subseteq vlans', vlans' \subseteq Vlans, UNCHANGED <<firmware, port>>,
         {after', before'} \subseteq {after, before, port}
  PROVE  SwitchOK'
BY DEF Typed, SwitchOK, SwitchTypes

LEMMA TypedInit == Init => Typed
<1> SUFFICES ASSUME Init PROVE Typed
  OBVIOUS
<1>1. SwitchOK
  <2>1. /\ firmware \in Firmwares /\ vlans \subseteq Vlans /\ port \in Port
        /\ after = port /\ before = port /\ Possible(firmware, port) /\ DefaultVlan \in vlans
        /\ port.tagged \cup {port.untagged} \subseteq vlans \cup {None}
    BY EthernetPortAssumption DEF Init
  <2>2. None \notin port.tagged
    BY <2>1, VlansAreFinite DEF Port
  <2>3. QED
    BY <2>1, <2>2 DEF SwitchOK, SwitchTypes
<1>2. OpTypes /\ Records
  BY DEF Init, OpTypes, Records
<1>3. LinesOK
  BY NoLines DEF Init, LinesOK
<1>4. Phases
  BY DEF Init, Phases
<1>5. QED
  BY <1>1, <1>2, <1>3, <1>4 DEF Typed

LEMMA TypedEnd ==
  ASSUME Typed, pc # "idle", NEW outcome, NEW newState, End(outcome, newState),
         SwitchOK', newState \in Wanted \cup {Absent}, outcome = "ok" => newState = config,
         outcome \in {"ok", "refused", "failed", "failed_saved", "failed_unsaved"},
         unsaved' \in BOOLEAN
  PROVE  Typed'
<1>1. OpTypes'
  BY DEF End, Typed, OpTypes
<1>2. Records'
  BY DEF End, Typed, Records
<1>3. LinesOK'
  BY NoLines DEF End, LinesOK
<1>4. Phases'
  BY DEF End, Typed, Phases
<1>5. QED
  BY <1>1, <1>2, <1>3, <1>4 DEF Typed

LEMMA RecordedType ==
  ASSUME Typed
  PROVE  Recorded \in Wanted \cup {Absent}
<1>1. after \in Port /\ vlans \in SUBSET Vlans
  BY DEF Typed, SwitchOK, SwitchTypes
<1>2. QED
  BY <1>1, ReadBackType, NothingIs DEF Recorded, Typed, Records

LEMMA TypedIdle ==
  ASSUME Typed, \/ \E w \in Plans \cup {Absent} : Edit(w)
                \/ Refresh \/ Import \/ PlanClean
  PROVE  Typed'
<1>1. pc = "idle" /\ UNCHANGED <<switchVars, opVars>>
  BY DEF Edit, Refresh, Import, PlanClean, switchVars, opVars
<1>2. SwitchOK' /\ LinesOK'
  BY <1>1 DEF switchVars, opVars, Typed, SwitchOK, SwitchTypes, LinesOK
<1>3. port \in Port /\ vlans \in SUBSET Vlans
  BY DEF Typed, SwitchOK, SwitchTypes
<1>4. CASE \E w \in Plans \cup {Absent} : Edit(w)
  BY <1>1, <1>2, <1>4, EthernetPortAssumption
     DEF Edit, switchVars, opVars, Typed, OpTypes, Records, Phases
<1>5. CASE Refresh
  <2>1. state' \in Wanted
    BY <1>3, <1>5, ReadBackType DEF Refresh, Typed, Records
  <2>2. QED
    BY <1>1, <1>2, <1>5, <2>1 DEF Refresh, switchVars, opVars, Typed, OpTypes, Records, Phases
<1>6. CASE Import
  <2>1. state' \in Wanted /\ result # "ok" /\ UNCHANGED result
    BY <1>3, <1>6, ReadBackType, NothingIs DEF Import, Typed, Phases
  <2>2. OpTypes'
    BY <1>1, <1>6 DEF Import, switchVars, opVars, Typed, OpTypes
  <2>3. Records'
    BY <1>6, <2>1 DEF Import, Typed, Records
  <2>4. Phases'
    BY <1>1, <1>6, <2>1 DEF Import, switchVars, opVars, Typed, Phases
  <2>5. QED
    BY <1>2, <2>2, <2>3, <2>4 DEF Typed
<1>7. CASE PlanClean
  <2>1. OpTypes'
    BY <1>1, <1>7 DEF PlanClean, switchVars, opVars, Typed, OpTypes
  <2>2. Records'
    BY <1>7 DEF PlanClean, Typed, Records
  <2>3. Phases'
    BY <1>1, <1>7 DEF PlanClean, switchVars, opVars, Typed, Phases
  <2>4. QED
    BY <1>2, <2>1, <2>2, <2>3 DEF Typed
<1>8. QED
  BY <1>4, <1>5, <1>6, <1>7

\* What the planned operation starts from: the state, or nothing for a create.
LEMMA TypedBegin ==
  ASSUME Typed, NEW k \in {"create", "update", "delete"}, NEW old, Begin(k, old),
         k = "delete" <=> config = Absent, k = "update" => state # Absent,
         k # "delete" => old \in Wanted
  PROVE  Typed'
<1>1. /\ port \in Port /\ vlans \in SUBSET Vlans /\ port.dual \in Vlans \cup {None}
      /\ firmware \in {"context", "dual"} /\ pc = "idle" /\ pc' = "iface" /\ kind' = k
      /\ UNCHANGED <<firmware, vlans, port, unsaved, config, state, refreshed, calm>>
      /\ before' = port /\ after' = port /\ touched' = FALSE /\ failed' = FALSE
      /\ result' = "none"
  BY FirmwareIs DEF Begin, switchVars, Typed, SwitchOK, SwitchTypes, Port
<1>2. SwitchOK'
  BY <1>1 DEF Typed, SwitchOK, SwitchTypes
<1>3. Records'
  BY <1>1 DEF Typed, Records
<1>4. CASE k = "delete"
  <2>1. todo' = RemoveAll(port, vlans) /\ bulk' = FALSE
    BY <1>4 DEF Begin
  <2> DEFINE s == RemoveAll(port, vlans)
  <2>2. s \in Seq(LineSet) /\ Sorted(s, removalRank)
    BY <1>1, RemovalLines
  <2>3. \A l \in ToSet(s) : Entered(l) \subseteq Vlans /\ l.op # "bulk"
    <3>1. \A l \in ToSet(s) : \/ l.op = "no_dual"
                              \/ l.op = "no_tagged" /\ l.vlan \in Vlans
                              \/ l.op = "no_untagged" /\ l.vlan \in Vlans
      <4> DEFINE V == vlans \ {DefaultVlan}
      <4>1. ToSet(s) = (IF port.dual # None THEN {Line("no_dual", None)} ELSE {})
                         \cup {Line("no_tagged", v) : v \in V \cap port.tagged}
                         \cup {Line("no_untagged", v) : v \in V \cap {port.untagged}}
        BY <1>1, RemovalLines
      <4>2. V \subseteq Vlans
        BY <1>1
      <4> HIDE DEF s, V
      <4>3. \A l \in ToSet(s) : \/ l = Line("no_dual", None)
                                \/ \E v \in V : l = Line("no_tagged", v)
                                \/ \E v \in V : l = Line("no_untagged", v)
        BY <4>1
      <4>4. QED
        BY <4>2, <4>3, LineFields
    <3>2. QED
      BY <3>1 DEF Entered
  <2> HIDE DEF s
  <2>4. LinesOK'
    BY <1>1, <1>4, <2>1, <2>2, <2>3 DEF LinesOK, s
  <2>5. OpTypes' /\ Phases'
    BY <1>1, <1>4, <2>1 DEF Typed, OpTypes, Phases
  <2>6. QED
    BY <1>2, <1>3, <2>4, <2>5 DEF Typed
<1>5. CASE k # "delete"
  <2>0. config \in Wanted /\ old \in Wanted
    BY <1>5, EthernetPortAssumption DEF Typed, Records
  <2>1. PICK managementPath \in BOOLEAN :
          LET native == BulkTagging /\ ~managementPath /\ BulkAllowed(firmware, config, port)
          IN /\ todo' = Build(firmware, config, old, vlans, port.dual, native)
             /\ bulk' = \E i \in DOMAIN todo' : todo'[i].op = "bulk"
    BY <1>5 DEF Begin
  <2> DEFINE native == BulkTagging /\ ~managementPath /\ BulkAllowed(firmware, config, port)
             s == Build(firmware, config, old, vlans, port.dual, native)
  <2>2. native \in BOOLEAN
    BY EthernetPortAssumption
  <2>3. todo' = s /\ bulk' = (\E i \in DOMAIN s : s[i].op = "bulk")
    BY <2>1
  <2>4. native => BulkAllowed(firmware, config, port)
    OBVIOUS
  <2> HIDE DEF native
  <2>5. s \in Seq(LineSet) /\ Sorted(s, rankOf(firmware))
    BY <1>1, <2>0, <2>2, BuildTypes
  <2>6. \A l \in ToSet(s) : Entered(l) \subseteq Vlans
    BY <1>1, <2>0, <2>2, BuildEnters, WantedTypes
  <2>7. ASSUME NEW l \in ToSet(s), l.op = "bulk"
        PROVE  native /\ firmware = "context"
    <3>1. \A m \in ToSet(s) : StraightLine(m, firmware, config, old, vlans, native)
      BY <1>1, <2>0, <2>2, BuildStraight
    <3>2. QED
      BY <1>1, <2>7, <3>1 DEF StraightLine
  <2> HIDE DEF s
  <2>8. bulk' = (\E l \in ToSet(s) : l.op = "bulk")
    BY <2>3 DEF ToSet
  <2>9. bulk' => firmware = "context" /\ config.all /\ config.untagged = None
    BY <2>4, <2>7, <2>8 DEF BulkAllowed
  <2>10. LinesOK'
    BY <1>1, <1>5, <2>3, <2>5, <2>6, <2>8 DEF LinesOK
  <2>11. OpTypes'
    BY <1>1, <2>8 DEF Typed, OpTypes
  <2>12. Phases'
    BY <1>1, <1>5, <2>9 DEF Phases
  <2>13. QED
    BY <1>2, <1>3, <2>10, <2>11, <2>12 DEF Typed
<1>6. QED
  BY <1>4, <1>5

\* The first line of those that are left, and the others.
LEMMA HeadIs ==
  ASSUME Typed, pc = "lines", todo # <<>>
  PROVE  LET rank == IF kind = "delete" THEN removalRank ELSE rankOf(firmware) IN
         /\ Head(todo) \in LineSet /\ Entered(Head(todo)) \subseteq Vlans
         /\ IsFirst(Head(todo), ToSet(todo), rank)
         /\ Tail(todo) \in Seq(LineSet) /\ Sorted(Tail(todo), rank)
         /\ ToSet(Tail(todo)) = ToSet(todo) \ {Head(todo)}
<1> DEFINE rank == IF kind = "delete" THEN removalRank ELSE rankOf(firmware)
<1>1. rank \in Ranks
  BY RankTypes DEF rankOf
<1>2. todo \in Seq(LineSet) /\ Sorted(todo, rank)
  BY DEF Typed, LinesOK
<1> HIDE DEF rank
<1>3. /\ Head(todo) \in ToSet(todo) /\ Head(todo) \in LineSet
      /\ Tail(todo) \in Seq(LineSet) /\ Sorted(Tail(todo), rank)
      /\ ToSet(Tail(todo)) = ToSet(todo) \ {Head(todo)}
      /\ \A l \in ToSet(todo) : rank[Head(todo).op] <= rank[l.op]
  BY <1>1, <1>2, HeadIsFirst
<1>4. Entered(Head(todo)) \subseteq Vlans
  BY <1>3 DEF Typed, LinesOK
<1>5. QED
  BY <1>3, <1>4 DEF IsFirst, rank

\* Within an operation, nothing terraform records changes.
LEMMA TypedWithin ==
  ASSUME Typed, pc # "idle", SwitchOK', LinesOK',
         pc' \in {"lines", "verify", "correct", "save"},
         pc' \in {"verify", "correct"} => bulk,
         pc' = "correct" \/ pc' = "lines" \/ todo' = <<>>,
         {touched', failed', unsaved'} \subseteq BOOLEAN,
         UNCHANGED <<firmware, config, state, refreshed, kind, bulk, result, calm>>
  PROVE  Typed'
<1>1. OpTypes' /\ Records'
  BY DEF Typed, OpTypes, Records
<1>2. Phases'
  BY DEF Typed, Phases
<1>3. QED
  BY <1>1, <1>2 DEF Typed

LEMMA TypedCallFails ==
  ASSUME Typed, pc = "lines", NEW outcome \in {"refused", "failed"}, CallFails(outcome),
         SwitchOK', unsaved' \in BOOLEAN
  PROVE  Typed'
<1>1. CASE bulk
  <2>1. LinesOK'
    BY <1>1, NoLines DEF CallFails, LinesOK
  <2>2. /\ pc' = "verify" /\ todo' = <<>> /\ failed' = TRUE /\ touched' = TRUE
        /\ UNCHANGED <<firmware, config, state, refreshed, kind, bulk, result, calm>>
    BY <1>1 DEF CallFails
  <2>3. QED
    BY <1>1, <2>1, <2>2, TypedWithin
<1>2. CASE ~bulk
  <2>1. End(outcome, state)
    BY <1>2 DEF CallFails
  <2>2. QED
    BY <2>1, TypedEnd DEF Typed, Records
<1>3. QED
  BY <1>1, <1>2 DEF Typed, OpTypes

LEMMA TypedCall ==
  ASSUME Typed, \/ Interface \/ InterfaceFails \/ LineAccepted \/ LineRefused
                \/ LinesLost \/ LinesDone
  PROVE  Typed'
<1>0. /\ state \in Wanted \cup {Absent} /\ config \in Wanted \cup {Absent}
      /\ vlans \subseteq Vlans /\ {touched, failed, unsaved, bulk} \subseteq BOOLEAN
  BY EthernetPortAssumption DEF Typed, Records, SwitchOK, SwitchTypes, OpTypes
<1>1. CASE Interface
  <2>1. /\ pc = "iface" /\ pc' = "lines" /\ {touched', failed', unsaved'} \subseteq BOOLEAN
        /\ UNCHANGED <<firmware, vlans, port, config, state, refreshed, kind, todo, bulk,
                       after, before, result, calm>>
    BY <1>0, <1>1 DEF Interface
  <2>2. SwitchOK' /\ LinesOK'
    BY <2>1 DEF Typed, SwitchOK, SwitchTypes, LinesOK
  <2>3. QED
    BY <2>1, <2>2, TypedWithin
<1>2. CASE InterfaceFails
  <2>1. End("failed", state) /\ UNCHANGED <<vlans, port>> /\ unsaved' \in BOOLEAN /\ pc = "iface"
    BY <1>0, <1>2 DEF InterfaceFails
  <2>2. SwitchOK'
    BY <2>1, MoreVlans, <1>0 DEF End
  <2>3. QED
    BY <1>0, <2>1, <2>2, TypedEnd
<1>3. CASE LineAccepted
  <2>1. /\ pc = "lines" /\ pc' = "lines" /\ todo # <<>> /\ ~Rejects(firmware, port, Head(todo))
        /\ Run(Head(todo), TRUE) /\ vlans' = vlans \cup Entered(Head(todo))
        /\ todo' = Tail(todo) /\ touched' = TRUE /\ unsaved' = TRUE
        /\ UNCHANGED <<firmware, config, state, refreshed, kind, bulk, failed,
                       after, before, result, calm>>
    BY <1>3 DEF LineAccepted
  <2> DEFINE l == Head(todo)
             rank == IF kind = "delete" THEN removalRank ELSE rankOf(firmware)
  <2>2. /\ l \in LineSet /\ Entered(l) \subseteq Vlans /\ Tail(todo) \in Seq(LineSet)
        /\ Sorted(Tail(todo), rank) /\ ToSet(Tail(todo)) \subseteq ToSet(todo)
    BY <2>1, HeadIs
  <2>3. SwitchOK'
    BY <2>1, <2>2, RunSwitch
  <2>4. LinesOK'
    BY <2>1, <2>2 DEF Typed, LinesOK
  <2>5. QED
    BY <1>0, <2>1, <2>3, <2>4, TypedWithin
<1>4. CASE LineRefused
  <2> DEFINE l == Head(todo)
  <2>1. /\ pc = "lines" /\ todo # <<>> /\ vlans' \in {vlans, vlans \cup Entered(l)}
        /\ CallFails("refused")
    BY <1>4 DEF LineRefused
  <2>2. UNCHANGED <<firmware, after, before>>
    BY <2>1 DEF CallFails, End
  <2>3. l \in LineSet /\ Entered(l) \subseteq Vlans
    BY <2>1, HeadIs
  <2>4. SwitchOK' /\ unsaved' \in BOOLEAN
    <3>1. CASE l.op = "bulk" /\ ~Rejects(firmware, port, l)
      <4>1. Run(l, FALSE) /\ unsaved' = TRUE
        BY <1>4, <3>1 DEF LineRefused
      <4>2. vlans' = vlans \cup Entered(l)
        BY <2>1, <3>1 DEF Entered
      <4>3. QED
        BY <2>2, <2>3, <3>1, <4>1, <4>2, RunSwitch
    <3>2. CASE ~(l.op = "bulk" /\ ~Rejects(firmware, port, l))
      <4>1. UNCHANGED port /\ unsaved' = (unsaved \/ vlans' # vlans)
        BY <1>4, <3>2 DEF LineRefused
      <4>2. QED
        BY <1>0, <2>1, <2>2, <2>3, <4>1, MoreVlans
    <3>3. QED
      BY <3>1, <3>2
  <2>5. QED
    BY <2>1, <2>4, TypedCallFails
<1>5. CASE LinesLost
  <2>1. pc = "lines" /\ CallFails("failed") /\ UNCHANGED <<vlans, port, unsaved>>
    BY <1>5 DEF LinesLost
  <2>2. UNCHANGED <<firmware, after, before>>
    BY <2>1 DEF CallFails, End
  <2>3. SwitchOK'
    BY <1>0, <2>1, <2>2, MoreVlans
  <2>4. QED
    BY <1>0, <2>1, <2>3, TypedCallFails
<1>6. CASE LinesDone
  <2>1. pc = "lines" /\ todo = <<>> /\ UNCHANGED <<vlans, port, unsaved>>
    BY <1>6 DEF LinesDone
  <2>2. CASE kind = "update" /\ ~touched
    <3>1. End("ok", config)
      BY <1>6, <2>2 DEF LinesDone
    <3>2. SwitchOK'
      BY <1>0, <2>1, <3>1, MoreVlans DEF End
    <3>3. QED
      BY <1>0, <2>1, <3>1, <3>2, TypedEnd
  <2>3. CASE ~(kind = "update" /\ ~touched)
    <3>1. /\ pc' = IF bulk THEN "verify" ELSE "save"
          /\ UNCHANGED <<firmware, config, state, refreshed, kind, todo, touched, bulk,
                         failed, after, before, result, calm>>
      BY <1>6, <2>3 DEF LinesDone
    <3>2. SwitchOK'
      BY <1>0, <2>1, <3>1, MoreVlans
    <3>3. LinesOK'
      BY <3>1, NoLines DEF Typed, LinesOK
    <3>4. QED
      BY <1>0, <2>1, <3>1, <3>2, <3>3, TypedWithin
  <2>4. QED
    BY <2>2, <2>3
<1>7. QED
  BY <1>1, <1>2, <1>3, <1>4, <1>5, <1>6

LEMMA TypedFinish ==
  ASSUME Typed, \/ Verify \/ VerifyFails \/ Correct \/ CorrectFails \/ Corrected
                \/ Save \/ SaveFails
  PROVE  Typed'
<1>0. /\ state \in Wanted \cup {Absent} /\ config \in Wanted \cup {Absent}
      /\ Recorded \in Wanted \cup {Absent} /\ vlans \in SUBSET Vlans /\ port \in Port
      /\ {touched, failed, unsaved, bulk} \subseteq BOOLEAN
  BY RecordedType, EthernetPortAssumption DEF Typed, Records, SwitchOK, SwitchTypes, OpTypes
<1>1. CASE Verify
  <2> DEFINE u == config.untagged
             s == BulkCorrections(port, vlans, u)
  <2>1. /\ pc = "verify" /\ pc' = "correct" /\ after' = port /\ todo' = s
        /\ UNCHANGED <<firmware, vlans, port, unsaved, config, state, refreshed, kind,
                       bulk, failed, before, result, calm>>
        /\ touched' \in BOOLEAN
    BY <1>1 DEF Verify, switchVars
  <2>2. bulk
    BY <2>1 DEF Typed, Phases
  <2>3. s \in Seq(LineSet) /\ \A l \in ToSet(s) : Entered(l) \subseteq Vlans /\ l.op # "bulk"
    <3>1. /\ s \in Seq(LineSet)
          /\ \A l : l \in ToSet(s) <=>
               \E v \in vlans \cap {DefaultVlan, u} :
                 \/ l = Line("no_tagged", v) /\ v \in port.tagged
                 \/ l = Line("untagged", v) /\ v = u /\ port.untagged # v
      BY <1>0, CorrectionLines
    <3>2. \A l \in ToSet(s) : \E v \in vlans : l = Line("no_tagged", v) \/ l = Line("untagged", v)
      BY <3>1
    <3>3. QED
      BY <1>0, <3>1, <3>2, LineFields DEF Entered
  <2> HIDE DEF s
  <2>4. SwitchOK'
    BY <1>0, <2>1, MoreVlans
  <2>5. LinesOK'
    BY <2>1, <2>3 DEF LinesOK
  <2>6. QED
    BY <1>0, <2>1, <2>2, <2>4, <2>5, TypedWithin
<1>2. CASE VerifyFails
  <2>1. /\ End("failed", state) /\ UNCHANGED <<vlans, port>> /\ unsaved' \in BOOLEAN
        /\ pc = "verify"
    BY <1>0, <1>2 DEF VerifyFails
  <2>2. SwitchOK'
    BY <1>0, <2>1, MoreVlans DEF End
  <2>3. QED
    BY <1>0, <2>1, <2>2, TypedEnd
<1>3. CASE Correct
  <2> DEFINE l == Head(todo)
  <2>1. /\ pc = "correct" /\ pc' = "correct" /\ todo # <<>> /\ ~Rejects(firmware, port, l)
        /\ port' = Effect(port, l) /\ vlans' = vlans \cup Entered(l)
        /\ todo' = Tail(todo) /\ unsaved' = TRUE
        /\ UNCHANGED <<firmware, config, state, refreshed, kind, touched, bulk,
                       failed, after, before, result, calm>>
    BY <1>3 DEF Correct
  <2>2. bulk
    BY <2>1 DEF Typed, Phases
  <2>3. /\ l \in ToSet(todo) /\ l \in LineSet /\ Tail(todo) \in Seq(LineSet)
        /\ ToSet(Tail(todo)) \subseteq ToSet(todo)
    <3>1. todo \in Seq(LineSet) /\ todo # <<>>
      BY <2>1 DEF Typed, LinesOK
    <3>2. QED
      BY <3>1, HeadAndTail
  <2>4. Entered(l) \subseteq Vlans
    BY <2>3 DEF Typed, LinesOK
  <2>5. SwitchOK'
    <3>1. Run(l, TRUE)
      BY <2>1, <2>3 DEF Run, Typed, LinesOK
    <3>2. QED
      BY <2>1, <2>3, <2>4, <3>1, RunSwitch
  <2>6. LinesOK'
    BY <2>1, <2>3 DEF Typed, LinesOK
  <2>7. QED
    BY <1>0, <2>1, <2>2, <2>5, <2>6, TypedWithin
<1>4. CASE CorrectFails
  <2>1. /\ End("failed", Recorded) /\ UNCHANGED <<vlans, port>> /\ unsaved' \in BOOLEAN
        /\ pc = "correct"
    BY <1>0, <1>4 DEF CorrectFails
  <2>2. SwitchOK'
    BY <1>0, <2>1, MoreVlans DEF End
  <2>3. QED
    BY <1>0, <2>1, <2>2, TypedEnd
<1>5. CASE Corrected
  <2>1. /\ pc = "correct" /\ todo = <<>> /\ pc' = "save"
        /\ UNCHANGED <<firmware, vlans, port, unsaved, config, state, refreshed, kind, todo,
                       touched, bulk, failed, after, before, result, calm>>
    BY <1>5 DEF Corrected, switchVars
  <2>2. SwitchOK'
    BY <1>0, <2>1, MoreVlans
  <2>3. LinesOK'
    BY <2>1, NoLines DEF Typed, LinesOK
  <2>4. QED
    BY <1>0, <2>1, <2>2, <2>3, TypedWithin
<1>6. CASE Save
  <2>1. pc = "save" /\ unsaved' = FALSE /\ UNCHANGED <<vlans, port>>
    BY <1>6 DEF Save
  <2>2. CASE failed
    <3>1. End("failed_saved", Recorded)
      BY <1>6, <2>2 DEF Save
    <3>2. SwitchOK'
      BY <1>0, <2>1, <3>1, MoreVlans DEF End
    <3>3. QED
      BY <1>0, <2>1, <3>1, <3>2, TypedEnd
  <2>3. CASE ~failed
    <3>1. End("ok", config)
      BY <1>6, <2>3 DEF Save
    <3>2. SwitchOK'
      BY <1>0, <2>1, <3>1, MoreVlans DEF End
    <3>3. QED
      BY <1>0, <2>1, <3>1, <3>2, TypedEnd
  <2>4. QED
    BY <2>2, <2>3
<1>7. CASE SaveFails
  <2>1. pc = "save" /\ UNCHANGED <<vlans, port, unsaved>>
    BY <1>7 DEF SaveFails
  <2>2. PICK outcome \in {"failed_unsaved", "failed"}, newState \in Wanted \cup {Absent} :
          End(outcome, newState)
    BY <1>0, <1>7 DEF SaveFails
  <2>3. SwitchOK'
    BY <1>0, <2>1, <2>2, MoreVlans DEF End
  <2>4. QED
    BY <1>0, <2>1, <2>2, <2>3, TypedEnd
<1>8. QED
  BY <1>1, <1>2, <1>3, <1>4, <1>5, <1>6, <1>7

LEMMA TypedByHand ==
  ASSUME Typed, ByHand
  PROVE  Typed'
<1>0. /\ state \in Wanted \cup {Absent} /\ vlans \in SUBSET Vlans /\ port \in Port
      /\ None \notin Vlans
  BY VlansAreFinite DEF Typed, Records, SwitchOK, SwitchTypes
<1>1. /\ UNCHANGED <<firmware, unsaved, config, state, refreshed, kind, pc, todo, touched, bulk,
                     failed, after, before, result>>
      /\ calm' = FALSE
  BY DEF ByHand, opVars
<1>2. SwitchOK'
  <2>1. ASSUME NEW l \in HandLines, Entered(l) \subseteq vlans, ~MayReject(firmware, port, l),
               port' = Effect(port, l), UNCHANGED vlans
        PROVE  SwitchOK'
    <3>1. l \in LineSet /\ ~Rejects(firmware, port, l) /\ l.op # "bulk"
      BY <2>1, EthernetPortAssumption DEF MayReject
    <3>2. Run(l, TRUE) /\ vlans' = vlans \cup Entered(l)
      BY <2>1, <3>1 DEF Run
    <3>3. QED
      BY <1>0, <1>1, <2>1, <3>1, <3>2, RunSwitch
  <2>2. ASSUME NEW v \in Vlans \ vlans, vlans' = vlans \cup {v}, UNCHANGED port
        PROVE  SwitchOK'
    BY <1>0, <1>1, <2>2, MoreVlans
  <2>3. QED
    BY <2>1, <2>2 DEF ByHand
<1>3. OpTypes' /\ Records' /\ LinesOK' /\ Phases'
  BY <1>1 DEF Typed, OpTypes, Records, LinesOK, Phases
<1>4. QED
  BY <1>2, <1>3 DEF Typed

LEMMA TypedNext == Typed /\ [Next]_vars => Typed'
<1> SUFFICES ASSUME Typed, [Next]_vars PROVE Typed'
  OBVIOUS
<1>1. CASE BeginCreate
  BY <1>1, TypedBegin, NothingIs DEF BeginCreate
<1>2. CASE BeginUpdate
  BY <1>2, TypedBegin DEF BeginUpdate, Typed, Records
<1>3. CASE BeginDelete
  BY <1>3, TypedBegin DEF BeginDelete
<1>4. CASE UNCHANGED vars
  BY <1>4 DEF vars, switchVars, opVars, boundVars, Typed, SwitchOK, SwitchTypes, OpTypes,
     Records, LinesOK, Phases
<1>5. QED
  BY <1>1, <1>2, <1>3, <1>4, TypedIdle, TypedCall, TypedFinish, TypedByHand
     DEF Next, Terraform, Failing, Operator

\* Every variable has its type, whatever is typed by hand and whatever fails; a
\* recorded membership is one a configuration could ask for.
THEOREM PortTypes == Spec => []TypeOK
<1>1. Typed => TypeOK
  BY EthernetPortAssumption DEF Typed, SwitchOK, Records, TypeOK
<1>2. QED
  BY <1>1, TypedInit, TypedNext, PTL DEF Spec
-----------------------------------------------------------------------------
(* An operation nobody interferes with.                                      *)

\* The configuration is one that can be met: a VLAN is tagged or untagged, not
\* both, and the default VLAN is not tagged.
PlansAreProper == \A w \in Plans : Proper(w)

Watched == calm /\ KnownPort /\ Readable

\* With every VLAN planned, the lines left create no VLAN but the untagged one,
\* so that the plan means the same until the end.
Entering ==
  (pc \in {"iface", "lines"} /\ calm /\ kind # "delete" /\ config.all)
    => \A l \in ToSet(todo) : Entered(l) \subseteq vlans \cup {config.untagged}

\* The port, with the lines left run on it, is what the operation is to make of it.
OnTrack ==
  (pc \in {"iface", "lines"} /\ Watched) =>
    /\ ~bulk /\ DefaultVlan \in port.tagged => DefaultVlan \in before.tagged
    /\ kind = "delete" => RemovalLeft(ToSet(todo), port)
    /\ kind # "delete" /\ ~bulk /\ firmware = "dual" =>
         DualLeft(ToSet(todo), port, ResolveTagged(config, vlans), config.untagged)
    /\ kind # "delete" /\ ~bulk /\ firmware = "context" =>
         ContextLeft(ToSet(todo), port, ResolveTagged(config, vlans), config.untagged)
    /\ bulk => /\ port.untagged = None
               /\ \/ ToSet(todo) = {Line("bulk", None)}
                  \/ /\ ToSet(todo) = {} /\ touched
                     /\ vlans \ {DefaultVlan} \subseteq port.tagged

\* The bulk command has tagged the port everywhere; of that, what it tagged in
\* the default VLAN is taken back.
AfterBulk ==
  (pc \in {"verify", "correct"} /\ Watched /\ ~failed) =>
    /\ port.untagged = None /\ vlans \ {DefaultVlan} \subseteq port.tagged
    /\ pc = "correct" =>
         /\ \A l \in ToSet(todo) : l = Line("no_tagged", DefaultVlan)
         /\ DefaultVlan \in port.tagged => Line("no_tagged", DefaultVlan) \in ToSet(todo)

Outcome ==
  /\ kind = "delete" => port.tagged \subseteq {DefaultVlan} /\ UntaggedOf(port) = None
  /\ kind # "delete" => Meets(port, config, vlans)
  /\ DefaultVlan \in port.tagged => DefaultVlan \in before.tagged

Reached == ((pc = "save" /\ ~failed) \/ result = "ok") /\ Watched => Outcome

\* The port stays an access port, or a member in a VLAN context, of the VLAN it has.
KeepsUntagged ==
  /\ before.dual = None /\ before.untagged = config.untagged
  /\ firmware = "dual" => ~IsDual(config, vlans)

\* What an update may have made of the port's untagged membership: the old one, the
\* new one or none, and none only if it has to.
Midway(p) ==
  /\ p.dual \in {before.dual, config.untagged, None}
  /\ p.untagged \in {before.untagged, config.untagged, None}
  /\ firmware = "dual" /\ before.dual # None /\ IsDual(config, vlans) => p.dual # None
  /\ KeepsUntagged => p.dual = None /\ p.untagged = before.untagged

\* The port is on its way, and no line left takes it off.
Straight ==
  (pc # "idle" /\ calm /\ kind = "update") =>
    /\ before.dual # None => firmware = "dual" /\ before.untagged \in {None, DefaultVlan}
    /\ \A l \in ToSet(todo) :
         /\ l.op \in {"dual", "untagged"} => l.vlan = config.untagged
         /\ l.op = "no_dual" => ~(firmware = "dual" /\ IsDual(config, vlans))
         /\ KeepsUntagged => l.op \notin {"dual", "no_untagged"}
    /\ Midway(port)

\* An update to every VLAN has no line left that would take one off.
Additive ==
  (pc # "idle" /\ calm /\ kind = "update" /\ config.all /\ UntaggedOf(before) = config.untagged)
    => \A l \in ToSet(todo) : /\ l.op = "no_tagged" => l.vlan \in {DefaultVlan, config.untagged}
                              /\ l.op = "dual" => l.vlan = config.untagged

Track == Entering /\ OnTrack /\ AfterBulk /\ Reached /\ Straight /\ Additive

LEMMA TrackIdle ==
  ASSUME \/ pc' = "idle" /\ result' # "ok"
         \/ calm' = FALSE
  PROVE  Track'
BY DEF Track, Entering, OnTrack, AfterBulk, Reached, Straight, Additive, Watched

LEMMA TrackInit == Init => Track
BY DEF Init, Track, Entering, OnTrack, AfterBulk, Reached, Straight, Additive

\* A line of the operation changes nothing about what it is to reach.
LEMMA Stable ==
  ASSUME Typed, Entering, calm, pc \in {"iface", "lines"}, NEW l \in ToSet(todo),
         vlans' \in {vlans, vlans \cup Entered(l)},
         UNCHANGED <<firmware, config, kind, before, calm>>
  PROVE  /\ kind # "delete" => /\ ResolveTagged(config, vlans') = ResolveTagged(config, vlans)
                               /\ IsDual(config, vlans') = IsDual(config, vlans)
         /\ Watched' = Watched
<1>1. KnownPort' = KnownPort
  BY DEF KnownPort
<1>2. CASE kind = "delete"
  <2>1. config = Absent
    BY <1>2 DEF Typed, Phases
  <2>2. Readable' /\ Readable
    BY <2>1 DEF Readable
  <2>3. QED
    BY <1>1, <1>2, <2>2 DEF Watched
<1>3. CASE kind # "delete"
  <2>1. vlans \subseteq vlans' /\ (config.all => vlans' \subseteq vlans \cup {config.untagged})
    BY <1>3 DEF Entering
  <2>2. /\ ResolveTagged(config, vlans') = ResolveTagged(config, vlans)
        /\ IsDual(config, vlans') = IsDual(config, vlans)
    BY <2>1, SameTags
  <2>3. Readable' = Readable
    BY <2>2 DEF Readable
  <2>4. QED
    BY <1>1, <2>2, <2>3 DEF Watched
<1>4. QED
  BY <1>2, <1>3

\* The next line of an operation nobody interferes with is one the switch accepts.
LEMMA NextLine ==
  ASSUME Typed, Track, Watched, pc = "lines", todo # <<>>, ~bulk
  PROVE  ~MayReject(firmware, port, Head(todo))
<1> DEFINE l == Head(todo)
           S == ToSet(todo)
           r == ResolveTagged(config, vlans)
           u == config.untagged
<1>1. /\ IsFirst(l, S, IF kind = "delete" THEN removalRank ELSE rankOf(firmware))
      /\ S \in SUBSET LineSet /\ port \in Port /\ Possible(firmware, port)
      /\ firmware \in {"context", "dual"} /\ vlans \in SUBSET Vlans
      /\ kind \in {"create", "update", "delete"}
      /\ kind = "delete" <=> config = Absent
  <2>1. S \in SUBSET LineSet
    BY DEF Typed, LinesOK, ToSet
  <2>2. QED
    BY <2>1, HeadIs, FirmwareIs DEF Typed, SwitchOK, SwitchTypes, Phases
<1>2. CASE kind = "delete"
  <2>1. RemovalLeft(S, port)
    BY <1>2 DEF Track, OnTrack
  <2>2. QED
    BY <1>1, <1>2, <2>1, RemovalStep
<1>3. CASE kind # "delete"
  <2>1. config \in Wanted
    BY <1>1, <1>3, EthernetPortAssumption DEF Typed, Records
  <2>2. r \in SUBSET Vlans /\ u \in Vlans \cup {None}
    BY <1>1, <2>1, WantedTypes
  <2>3. CASE firmware = "dual"
    <3>1. DualLeft(S, port, r, u) /\ IsFirst(l, S, dualRank)
      BY <1>1, <1>3, <2>3 DEF Track, OnTrack, rankOf
    <3>2. QED
      BY <1>1, <2>2, <2>3, <3>1, DualStep
  <2>4. CASE firmware = "context"
    <3>1. ContextLeft(S, port, r, u) /\ IsFirst(l, S, contextRank)
      BY <1>1, <1>3, <2>4 DEF Track, OnTrack, rankOf
    <3>2. QED
      BY <1>1, <2>2, <2>4, <3>1, ContextStep
  <2>5. QED
    BY <1>1, <2>3, <2>4
<1>4. QED
  BY <1>2, <1>3

\* A line the switch runs keeps the port on its way.
LEMMA MidwayStep ==
  ASSUME Typed, Straight, pc # "idle", calm, kind = "update",
         NEW l \in ToSet(todo), NEW complete \in BOOLEAN, l \in LineSet, Run(l, complete)
  PROVE  Midway(port')
<1>1. /\ port \in Port /\ Midway(port) /\ l.op \in Ops
      /\ l.op \in {"dual", "untagged"} => l.vlan = config.untagged
      /\ l.op = "no_dual" => ~(firmware = "dual" /\ IsDual(config, vlans))
      /\ KeepsUntagged => l.op \notin {"dual", "no_untagged"}
  BY DEF Typed, SwitchOK, SwitchTypes, Straight, LineSet
<1>2. CASE l.op = "bulk"
  <2>1. config.untagged = None
    BY <1>2 DEF Typed, LinesOK, Phases
  <2>2. PICK extra \in SUBSET vlans, u \in {port.untagged, None} :
          port' = [port EXCEPT !.tagged = @ \cup extra, !.untagged = u]
    BY <1>2 DEF Run
  <2>3. port'.untagged \in {port.untagged, None} /\ port'.dual = port.dual
    BY <1>1, <2>2 DEF Port
  <2>4. KeepsUntagged => port.untagged = None
    BY <1>1, <2>1 DEF Midway, KeepsUntagged
  <2>5. QED
    BY <1>1, <2>3, <2>4 DEF Midway
<1>3. CASE l.op # "bulk"
  <2>1. port' = Effect(port, l)
    BY <1>3 DEF Run
  <2>2. /\ port'.untagged = IF l.op = "untagged" THEN l.vlan
                            ELSE IF l.op = "no_untagged" THEN None ELSE port.untagged
        /\ port'.dual = IF l.op = "dual" THEN l.vlan
                        ELSE IF l.op = "no_dual" THEN None ELSE port.dual
    BY <1>1, <2>1, EffectIs
  <2>3. IsDual(config, vlans) => config.untagged # None
    BY DEF IsDual
  <2>4. KeepsUntagged => before.untagged = config.untagged
    BY DEF KeepsUntagged
  <2>5. \/ port'.dual \in {port.dual, None}
        \/ l.op = "dual" /\ port'.dual = config.untagged
    BY <1>1, <2>2
  <2>6. \/ port'.untagged = port.untagged
        \/ l.op = "no_untagged" /\ port'.untagged = None
        \/ port'.untagged = config.untagged
    BY <1>1, <2>2
  <2>7. firmware = "dual" /\ before.dual # None /\ IsDual(config, vlans) => port'.dual # None
    <3>1. firmware = "dual" /\ before.dual # None /\ IsDual(config, vlans) => port.dual # None
      BY <1>1 DEF Midway
    <3>2. QED
      BY <1>1, <2>2, <2>3, <3>1
  <2>8. KeepsUntagged => port'.dual = None /\ port'.untagged = before.untagged
    BY <1>1, <2>4, <2>5, <2>6 DEF Midway
  <2>9. QED
    BY <1>1, <2>5, <2>6, <2>7, <2>8 DEF Midway
<1>4. QED
  BY <1>2, <1>3

\* Straight and Additive over a step of the switch within the operation.
LEMMA StraightStep ==
  ASSUME Typed, Track, pc' # "idle", pc # "idle",
         UNCHANGED <<firmware, config, kind, before, calm>>,
         calm /\ kind # "delete" => IsDual(config, vlans') = IsDual(config, vlans),
         ToSet(todo') \subseteq ToSet(todo),
         \/ UNCHANGED port
         \/ \E l \in ToSet(todo), complete \in BOOLEAN : l \in LineSet /\ Run(l, complete)
  PROVE  Straight' /\ Additive'
<1>1. Additive'
  BY DEF Track, Additive
<1>2. Straight'
  <2> SUFFICES ASSUME calm, kind = "update"
               PROVE  Straight'
    BY DEF Straight
  <2>1. Straight /\ IsDual(config, vlans') = IsDual(config, vlans)
    BY DEF Track
  <2>2. KeepsUntagged' = KeepsUntagged
    BY <2>1 DEF KeepsUntagged
  <2>3. Midway(port')
    BY <2>1, MidwayStep DEF Straight
  <2>4. Midway(port)'
    BY <2>1, <2>2, <2>3 DEF Midway
  <2>5. QED
    BY <2>1, <2>2, <2>4 DEF Straight
<1>3. QED
  BY <1>1, <1>2

LEMMA TrackLine ==
  ASSUME Typed, Track, LineAccepted
  PROVE  Track'
<1> DEFINE l == Head(todo)
           S == ToSet(todo)
           r == ResolveTagged(config, vlans)
           u == config.untagged
<1>1. /\ pc = "lines" /\ pc' = "lines" /\ todo # <<>> /\ ~Rejects(firmware, port, l)
      /\ Run(l, TRUE) /\ vlans' = vlans \cup Entered(l)
      /\ todo' = Tail(todo) /\ touched' = TRUE
      /\ UNCHANGED <<firmware, config, state, refreshed, kind, bulk, failed,
                     after, before, result, calm>>
  BY DEF LineAccepted
<1>2. /\ IsFirst(l, S, IF kind = "delete" THEN removalRank ELSE rankOf(firmware))
      /\ l \in LineSet /\ l \in S /\ ToSet(todo') = S \ {l} /\ Entered(l) \subseteq Vlans
  BY <1>1, HeadIs DEF IsFirst
<1>3. /\ S \in SUBSET LineSet /\ port \in Port /\ Possible(firmware, port)
      /\ firmware \in {"context", "dual"} /\ vlans \in SUBSET Vlans
      /\ kind \in {"create", "update", "delete"} /\ DefaultVlan \in vlans
  <2>1. S \in SUBSET LineSet
    BY DEF Typed, LinesOK, ToSet
  <2>2. QED
    BY <1>1, <2>1, FirmwareIs DEF Typed, SwitchOK, SwitchTypes, Phases
<1>4. /\ kind = "delete" => config = Absent
      /\ kind # "delete" => config \in Wanted
      /\ result # "ok"
  BY <1>1, EthernetPortAssumption DEF Typed, Records, Phases
<1>5. calm => /\ kind # "delete" => /\ ResolveTagged(config, vlans') = r
                                    /\ IsDual(config, vlans') = IsDual(config, vlans)
              /\ Watched' = Watched
  BY <1>1, <1>2, Stable DEF Track
<1>6. Entering'
  BY <1>1, <1>2 DEF Track, Entering
<1>7. AfterBulk' /\ Reached'
  BY <1>1, <1>4 DEF AfterBulk, Reached
<1>8. Straight' /\ Additive'
  BY <1>1, <1>2, <1>5, StraightStep
<1>9. OnTrack'
  <2> SUFFICES ASSUME Watched
               PROVE  OnTrack'
    BY <1>1, <1>5 DEF OnTrack, Watched
  <2>1. calm
    BY DEF Watched
  <2>2. /\ ~bulk /\ DefaultVlan \in port.tagged => DefaultVlan \in before.tagged
        /\ kind = "delete" => RemovalLeft(S, port)
        /\ kind # "delete" /\ ~bulk /\ firmware = "dual" => DualLeft(S, port, r, u)
        /\ kind # "delete" /\ ~bulk /\ firmware = "context" => ContextLeft(S, port, r, u)
        /\ bulk => /\ port.untagged = None
                   /\ \/ S = {Line("bulk", None)}
                      \/ S = {} /\ touched /\ vlans \ {DefaultVlan} \subseteq port.tagged
    BY <1>1 DEF Track, OnTrack
  <2>3. CASE bulk
    <3>1. l = Line("bulk", None) /\ S \ {l} = {}
      BY <1>2, <2>2, <2>3
    <3>2. l.op = "bulk"
      BY <3>1, LineFields
    <3>3. Entered(l) = {} /\ vlans' = vlans
      BY <1>1, <3>2 DEF Entered
    <3>4. PICK extra \in SUBSET vlans, n \in {port.untagged, None} :
            /\ vlans \ {DefaultVlan, port.untagged} \subseteq extra
            /\ port' = [port EXCEPT !.tagged = @ \cup extra, !.untagged = n]
      BY <1>1, <3>2 DEF Run
    <3>5. port'.tagged = port.tagged \cup extra /\ port'.untagged = n
      BY <1>3, <3>4 DEF Port
    <3>6. None \notin vlans
      BY <1>3, VlansAreFinite
    <3>7. port'.untagged = None /\ vlans' \ {DefaultVlan} \subseteq port'.tagged
      BY <2>2, <2>3, <3>3, <3>4, <3>5, <3>6
    <3>8. kind # "delete" /\ bulk'
      BY <1>1, <2>3 DEF Typed, Phases
    <3>9. QED
      BY <1>1, <1>2, <3>1, <3>7, <3>8 DEF OnTrack
  <2>4. CASE ~bulk
    <3>1. l.op # "bulk"
      BY <1>2, <2>4 DEF Typed, LinesOK
    <3>2. port' = Effect(port, l)
      BY <1>1, <3>1 DEF Run
    <3>3. port'.tagged = IF l.op = "tagged" THEN port.tagged \cup {l.vlan}
                         ELSE IF l.op = "no_tagged" THEN port.tagged \ {l.vlan} ELSE port.tagged
      BY <1>2, <1>3, <3>2, EffectIs
    <3>4. CASE kind = "delete"
      <4>1. RemovalLeft(S \ {l}, port')
        BY <1>2, <1>3, <2>2, <3>2, <3>4, RemovalStep
      <4>2. l.op # "tagged"
        BY <1>2, <2>2, <3>4 DEF RemovalLeft
      <4>3. QED
        BY <1>1, <1>2, <2>2, <2>4, <3>3, <3>4, <4>1, <4>2 DEF OnTrack
    <3>5. CASE kind # "delete"
      <4>1. r \in SUBSET Vlans /\ u \in Vlans \cup {None} /\ ResolveTagged(config', vlans') = r
        BY <1>1, <1>3, <1>4, <1>5, <2>1, <3>5, WantedTypes
      <4>2. CASE firmware = "dual"
        <5>1. IsFirst(l, S, dualRank) /\ DualLeft(S, port, r, u)
          BY <1>2, <2>2, <2>4, <3>5, <4>2 DEF rankOf
        <5>2. DualLeft(S \ {l}, port', r, u)
          BY <1>3, <3>2, <4>1, <5>1, DualStep
        <5>3. DefaultVlan \notin port'.tagged
          BY <5>2 DEF DualLeft
        <5> HIDE DEF r
        <5>4. QED
          BY <1>1, <1>2, <2>4, <3>5, <4>1, <4>2, <5>2, <5>3 DEF OnTrack
      <4>3. CASE firmware = "context"
        <5>1. IsFirst(l, S, contextRank) /\ ContextLeft(S, port, r, u)
          BY <1>2, <2>2, <2>4, <3>5, <4>3 DEF rankOf
        <5>2. ContextLeft(S \ {l}, port', r, u)
          BY <1>3, <3>2, <4>1, <5>1, ContextStep
        <5>3. l.op = "tagged" => l.vlan # DefaultVlan
          BY <1>2, <5>1 DEF ContextLeft, TagsLeft
        <5> HIDE DEF r
        <5>4. QED
          BY <1>1, <1>2, <2>2, <2>4, <3>3, <3>5, <4>1, <4>3, <5>2, <5>3 DEF OnTrack
      <4>4. QED
        BY <1>3, <4>2, <4>3
    <3>6. QED
      BY <3>4, <3>5
  <2>5. QED
    BY <2>3, <2>4
<1>10. QED
  BY <1>6, <1>7, <1>8, <1>9 DEF Track

\* What a create or an update sets out from and sends.
LEMMA BeginLines ==
  ASSUME Typed, NEW k \in {"create", "update"}, NEW old \in Wanted, Begin(k, old), config # Absent
  PROVE  \E native \in BOOLEAN :
           /\ native => BulkAllowed(firmware, config, port)
           /\ todo' = Build(firmware, config, old, vlans, port.dual, native)
           /\ bulk' = \E l \in ToSet(todo') : l.op = "bulk"
<1>1. PICK managementPath \in BOOLEAN :
        LET native == BulkTagging /\ ~managementPath /\ BulkAllowed(firmware, config, port)
        IN /\ todo' = Build(firmware, config, old, vlans, port.dual, native)
           /\ bulk' = \E i \in DOMAIN todo' : todo'[i].op = "bulk"
  BY DEF Begin
<1> DEFINE native == BulkTagging /\ ~managementPath /\ BulkAllowed(firmware, config, port)
<1>2. native \in BOOLEAN /\ (native => BulkAllowed(firmware, config, port))
  BY EthernetPortAssumption
<1>3. /\ todo' = Build(firmware, config, old, vlans, port.dual, native)
      /\ bulk' = \E i \in DOMAIN todo' : todo'[i].op = "bulk"
  BY <1>1
<1> HIDE DEF native
<1>4. bulk' = \E l \in ToSet(todo') : l.op = "bulk"
  BY <1>3 DEF ToSet
<1>5. QED
  BY <1>2, <1>3, <1>4

\* The membership an update starts from is one of the VLANs that are there.
LEMMA StateIsThere ==
  ASSUME Typed, NEW w, Meets(port, w, vlans)
  PROVE  ResolveTagged(w, vlans) \subseteq vlans /\ w.untagged \in vlans \cup {None}
BY FirmwareIs DEF Typed, SwitchOK, Meets, TaggedOf, UntaggedOf, Possible

LEMMA TrackBegin ==
  ASSUME PlansAreProper, Inv, Typed, NEW k \in {"create", "update", "delete"}, NEW old,
         Begin(k, old), k = "delete" <=> config = Absent,
         k = "create" => old = Nothing, k = "update" => old = state /\ refreshed /\ state # Absent
  PROVE  Track'
<1>1. /\ pc = "idle" /\ pc' = "iface" /\ kind' = k /\ result' = "none" /\ before' = port
      /\ UNCHANGED <<firmware, vlans, port, config, state, calm>>
  BY DEF Begin, switchVars
<1>2. /\ port \in Port /\ Possible(firmware, port) /\ firmware \in {"context", "dual"}
      /\ vlans \in SUBSET Vlans /\ port.tagged \subseteq vlans
      /\ port.untagged \in vlans \cup {None} /\ port.dual \in Vlans \cup {None}
      /\ config # Absent => config \in Wanted /\ Proper(config)
      /\ state # Absent => state \in Wanted
  BY FirmwareIs, EthernetPortAssumption
     DEF Typed, SwitchOK, SwitchTypes, Records, Port, PlansAreProper
<1>3. AfterBulk' /\ Reached'
  BY <1>1 DEF AfterBulk, Reached
<1>4. CASE k = "delete"
  <2>1. todo' = RemoveAll(port, vlans) /\ bulk' = FALSE
    BY <1>4 DEF Begin
  <2>2. RemovalLeft(ToSet(todo'), port)
    BY <1>2, <2>1, RemovalBegin
  <2>3. OnTrack'
    BY <1>1, <1>4, <2>1, <2>2 DEF OnTrack
  <2>4. Entering' /\ Straight' /\ Additive'
    BY <1>1, <1>4 DEF Entering, Straight, Additive
  <2>5. QED
    BY <1>3, <2>3, <2>4 DEF Track
<1>5. CASE k # "delete"
  <2>1. config # Absent /\ config \in Wanted /\ Proper(config) /\ old \in Wanted
    BY <1>2, <1>5, NothingIs
  <2>2. PICK native \in BOOLEAN :
           /\ native => BulkAllowed(firmware, config, port)
           /\ todo' = Build(firmware, config, old, vlans, port.dual, native)
           /\ bulk' = \E l \in ToSet(todo') : l.op = "bulk"
    BY <1>5, <2>1, BeginLines
  <2> DEFINE S == ToSet(Build(firmware, config, old, vlans, port.dual, native))
             r == ResolveTagged(config, vlans)
             u == config.untagged
  <2>3. calm /\ k = "update" => Meets(port, old, vlans)
    BY <1>1 DEF Inv, RefreshedIsTrue
  <2>4. ToSet(todo') = S
    BY <2>2
  <2>5. \A l \in S : StraightLine(l, firmware, config, old, vlans, native)
    BY <1>2, <2>1, BuildStraight
  <2>6. Entering'
    <3> SUFFICES ASSUME calm, config.all, NEW l \in S
                 PROVE  Entered(l) \subseteq vlans \cup {u}
      BY <1>1, <2>4 DEF Entering
    <3> DEFINE X == vlans \cup {u}
    <3>1. ResolveTagged(config, vlans) \subseteq X /\ u \in X
      BY DEF ResolveTagged, ExpandAll
    <3>2. ResolveTagged(old, vlans) \subseteq X /\ old.untagged \in X \cup {None}
      <4>1. CASE k = "create"
        <5>1. ResolveTagged(Nothing, vlans) = {} /\ Nothing.untagged = None
          BY NothingIs DEF Nothing
        <5>2. QED
          BY <4>1, <5>1
      <4>2. CASE k = "update"
        BY <2>3, <4>2, StateIsThere
      <4>3. QED
        BY <1>5, <4>1, <4>2
    <3> HIDE DEF X
    <3>3. Entered(l) \subseteq X
      BY <1>2, <2>1, <3>1, <3>2, BuildEnters
    <3>4. QED
      BY <3>3 DEF X
  <2>7. OnTrack'
    <3> SUFFICES ASSUME Watched'
                 PROVE  OnTrack'
      BY DEF OnTrack
    <3>1. Meets(port, old, vlans)
      <4>1. CASE k = "create"
        <5>1. port = NoMembership /\ old = Nothing
          BY <1>1, <4>1 DEF Watched, KnownPort
        <5>2. QED
          BY <5>1, NothingIs
      <4>2. CASE k = "update"
        BY <1>1, <2>3, <4>2 DEF Watched
      <4>3. QED
        BY <1>5, <4>1, <4>2
    <3>2. u = DefaultVlan => firmware = "dual" /\ IsDual(config, vlans)
      <4>1. Readable'
        BY DEF Watched
      <4>2. QED
        BY <1>1, <2>1, <4>1 DEF Readable
    <3>3. CASE firmware = "dual"
      <4>1. DefaultVlan \notin port.tagged /\ (port.dual # None => ~(port.tagged \subseteq {port.dual}))
        <5>1. KnownPort'
          BY DEF Watched
        <5>2. QED
          BY <1>1, <3>3, <5>1 DEF KnownPort, NoMembership
      <4>2. S = ToSet(BuildDual(config, old, vlans, port.dual))
        BY <3>3 DEF Build
      <4>3. DualLeft(S, port, r, u)
        BY <1>2, <2>1, <3>1, <3>2, <3>3, <4>1, <4>2, DualBegin
      <4>4. bulk' = FALSE
        BY <2>2, <2>4, <2>5, <3>3 DEF StraightLine
      <4>5. r = ResolveTagged(config', vlans') /\ u = config'.untagged /\ port' = port
        BY <1>1
      <4> HIDE DEF r, u, S
      <4>6. DualLeft(ToSet(todo'), port', ResolveTagged(config', vlans'), config'.untagged)
        BY <2>4, <4>3, <4>5
      <4>7. QED
        BY <1>1, <1>5, <3>3, <4>4, <4>6 DEF OnTrack
    <3>4. CASE firmware = "context"
      <4>1. S = ToSet(BuildContext(config, old, vlans, native))
        BY <3>4 DEF Build
      <4>2. CASE bulk'
        <5>1. PICK l \in ToSet(BuildContext(config, old, vlans, native)) : l.op = "bulk"
          BY <2>2, <2>4, <4>1, <4>2
        <5>2. native
          BY <1>2, <2>1, <5>1, ContextLine
        <5>3. BulkAllowed("context", config, port)
          BY <2>2, <3>4, <5>2
        <5>4. S = {Line("bulk", None)}
          BY <1>2, <2>1, <3>1, <3>4, <4>1, <5>1, <5>3, BulkBegin
        <5>5. port.untagged = None
          BY <5>3 DEF BulkAllowed
        <5> HIDE DEF S
        <5>6. QED
          BY <1>1, <1>5, <2>4, <4>2, <5>4, <5>5 DEF OnTrack
      <4>3. CASE ~bulk'
        <5>1. \A l \in ToSet(BuildContext(config, old, vlans, native)) : l.op # "bulk"
          BY <2>2, <2>4, <4>1, <4>3
        <5>2. ContextLeft(S, port, r, u)
          BY <1>2, <2>1, <3>1, <3>2, <3>4, <4>1, <5>1, ContextBegin
        <5>3. r = ResolveTagged(config', vlans') /\ u = config'.untagged /\ port' = port
          BY <1>1
        <5> HIDE DEF r, u, S
        <5>4. ContextLeft(ToSet(todo'), port', ResolveTagged(config', vlans'), config'.untagged)
          BY <2>4, <5>2, <5>3
        <5>5. QED
          BY <1>1, <1>5, <3>4, <4>3, <5>4 DEF OnTrack
      <4>4. QED
        BY <4>2, <4>3
    <3>5. QED
      BY <1>2, <3>3, <3>4
  <2>8. Straight'
    <3> SUFFICES ASSUME calm, k = "update"
                 PROVE  Straight'
      BY <1>1 DEF Straight
    <3>1. /\ UNCHANGED IsDual(config, vlans)
          /\ KeepsUntagged' <=> /\ port.dual = None /\ port.untagged = u
                                /\ firmware = "dual" => ~IsDual(config, vlans)
      BY <1>1 DEF KeepsUntagged
    <3>2. port.dual # None => firmware = "dual" /\ port.untagged \in {None, DefaultVlan}
      BY <1>2 DEF Possible
    <3>3. old.untagged = UntaggedOf(port) /\ ContextUntagged(old, vlans) \in {None, old.untagged}
      BY <2>3 DEF Meets, ContextUntagged
    <3>4. KeepsUntagged' /\ firmware = "dual" => ContextUntagged(config, vlans) = u
      BY <3>1 DEF ContextUntagged
    <3>5. KeepsUntagged' => old.untagged \in {None, u}
      BY <3>1, <3>3 DEF UntaggedOf
    <3>6. ASSUME NEW l \in S
          PROVE  /\ l.op \in {"dual", "untagged"} => l.vlan = u
                 /\ l.op = "no_dual" => ~(firmware = "dual" /\ IsDual(config, vlans))
                 /\ KeepsUntagged' => l.op \notin {"dual", "no_untagged"}
      <4>1. StraightLine(l, firmware, config, old, vlans, native)
        BY <2>5, <3>6
      <4>2. CASE firmware = "dual"
        BY <3>1, <3>3, <3>4, <3>5, <4>1, <4>2 DEF StraightLine
      <4>3. CASE firmware = "context"
        BY <3>5, <4>1, <4>3 DEF StraightLine
      <4>4. QED
        BY <1>2, <4>2, <4>3
    <3>7. Midway(port)'
      BY <1>1, <3>1 DEF Midway
    <3> HIDE DEF S
    <3>8. QED
      BY <1>1, <2>4, <3>1, <3>2, <3>6, <3>7 DEF Straight
  <2>9. Additive'
    <3> SUFFICES ASSUME calm, k = "update", config.all, UntaggedOf(port) = u
                 PROVE  \A l \in S : /\ l.op = "no_tagged" => l.vlan \in {DefaultVlan, u}
                                     /\ l.op = "dual" => l.vlan = u
      BY <1>1, <2>4 DEF Additive
    <3>1. old.untagged = u /\ ResolveTagged(old, vlans) \subseteq vlans
      BY <2>3, StateIsThere DEF Meets
    <3>2. \A l \in S : l.op = "no_tagged" => l.vlan \in {DefaultVlan, u}
      BY <1>2, <2>1, <3>1, BuildAdds
    <3>3. \A l \in S : l.op = "dual" => l.vlan = u
      BY <1>2, <2>5 DEF StraightLine
    <3>4. QED
      BY <3>2, <3>3
  <2>10. QED
    BY <1>3, <2>6, <2>7, <2>8, <2>9 DEF Track
<1>6. QED
  BY <1>4, <1>5

\* A step that leaves the port and the lines as they are.
LEMMA TrackSame ==
  ASSUME Typed, Track, pc # "idle",
         UNCHANGED <<firmware, vlans, port, config, kind, before, calm, todo, bulk, failed, result>>,
         pc' \in {pc, "idle"} \/ (pc = "iface" /\ pc' = "lines"), touched => touched',
         pc' = "idle" => result' # "ok"
  PROVE  Track'
BY DEF Typed, Phases, Track, Entering, OnTrack, AfterBulk, Reached, Straight, Midway, KeepsUntagged,
   Additive, Watched, KnownPort, Readable, Outcome

LEMMA TrackCallFails ==
  ASSUME Typed, Track, pc = "lines", NEW outcome, outcome # "ok", CallFails(outcome),
         \/ UNCHANGED port
         \/ \E l \in ToSet(todo), complete \in BOOLEAN :
              l \in LineSet /\ Run(l, complete) /\ ~Rejects(firmware, port, l)
  PROVE  Track'
<1>1. CASE bulk
  <2>1. /\ pc' = "verify" /\ failed' = TRUE /\ todo' = <<>>
        /\ UNCHANGED <<firmware, config, kind, bulk, before, result, calm>>
    BY <1>1 DEF CallFails
  <2>2. config.untagged = None /\ result # "ok" /\ kind # "delete"
    BY <1>1 DEF Typed, Phases
  <2>3. IsDual(config, vlans') = IsDual(config, vlans)
    BY <2>2 DEF IsDual
  <2>4. ToSet(todo') \subseteq ToSet(todo)
    BY <2>1, NoLines
  <2>5. Straight' /\ Additive'
    BY <2>1, <2>3, <2>4, StraightStep
  <2>6. Entering' /\ OnTrack' /\ AfterBulk' /\ Reached'
    BY <2>1, <2>2 DEF Entering, OnTrack, AfterBulk, Reached
  <2>7. QED
    BY <2>5, <2>6 DEF Track
<1>2. CASE ~bulk
  BY <1>2, TrackIdle DEF CallFails, End
<1>3. QED
  BY <1>1, <1>2

\* With no line left the port is what was asked for.
LEMMA DoneOutcome ==
  ASSUME Typed, Track, pc = "lines", todo = <<>>, Watched, ~bulk
  PROVE  Outcome
<1> DEFINE r == ResolveTagged(config, vlans)
           u == config.untagged
<1>1. ToSet(todo) = {} /\ port \in Port /\ Possible(firmware, port)
  BY NoLines DEF Typed, SwitchOK, SwitchTypes
<1>2. DefaultVlan \in port.tagged => DefaultVlan \in before.tagged
  BY DEF Track, OnTrack
<1>3. CASE kind = "delete"
  <2>1. RemovalLeft({}, port)
    BY <1>1, <1>3 DEF Track, OnTrack
  <2>2. port.tagged \subseteq {DefaultVlan} /\ UntaggedOf(port) = None
    BY <1>1, <2>1, RemovalEnd
  <2>3. QED
    BY <1>2, <1>3, <2>2 DEF Outcome
<1>4. CASE kind # "delete"
  <2>1. UntaggedOf(port) = u /\ TaggedOf(port) = r
    <3>1. CASE firmware = "dual"
      <4>1. DualLeft({}, port, r, u)
        BY <1>1, <1>4, <3>1 DEF Track, OnTrack
      <4>2. QED
        BY <1>1, <4>1, DualEnd
    <3>2. CASE firmware = "context"
      <4>1. ContextLeft({}, port, r, u)
        BY <1>1, <1>4, <3>2 DEF Track, OnTrack
      <4>2. port.dual = None
        BY <1>1, <3>2 DEF Possible
      <4>3. QED
        BY <1>1, <4>1, <4>2, ContextEnd
    <3>3. QED
      BY <3>1, <3>2, FirmwareIs
  <2>2. QED
    BY <1>2, <1>4, <2>1 DEF Outcome, Meets
<1>5. QED
  BY <1>3, <1>4

LEMMA TrackLinesDone ==
  ASSUME Typed, Track, LinesDone
  PROVE  Track'
<1>1. /\ pc = "lines" /\ todo = <<>>
      /\ UNCHANGED <<firmware, vlans, port, config, kind, before, calm, todo>>
  BY DEF LinesDone, End
<1>2. ToSet(todo) = {} /\ result # "ok"
  BY <1>1, NoLines DEF Typed, Phases
<1>3. Watched' = Watched
  BY <1>1 DEF Watched, KnownPort, Readable
<1>4. ~bulk /\ Watched => Outcome'
  <2>1. Outcome' = Outcome
    BY <1>1 DEF Outcome
  <2>2. QED
    BY <1>1, <2>1, DoneOutcome
<1>5. bulk /\ Watched => /\ touched /\ port.untagged = None
                         /\ vlans \ {DefaultVlan} \subseteq port.tagged
  BY <1>1, <1>2 DEF Track, OnTrack
<1>6. CASE kind = "update" /\ ~touched
  <2>1. pc' = "idle"
    BY <1>6 DEF LinesDone, End
  <2>2. Reached'
    BY <1>3, <1>4, <1>5, <1>6 DEF Reached
  <2>3. QED
    BY <2>1, <2>2 DEF Track, Entering, OnTrack, AfterBulk, Straight, Additive
<1>7. CASE ~(kind = "update" /\ ~touched)
  <2>1. pc' = (IF bulk THEN "verify" ELSE "save") /\ UNCHANGED <<bulk, failed, result>>
    BY <1>7 DEF LinesDone
  <2>2. Straight' /\ Additive'
    BY <1>1, <2>1 DEF Track, Straight, Midway, KeepsUntagged, Additive
  <2>3. Reached'
    BY <1>2, <1>3, <1>4, <2>1 DEF Reached
  <2>4. AfterBulk'
    BY <1>1, <1>3, <1>5, <2>1 DEF AfterBulk
  <2>5. Entering' /\ OnTrack'
    BY <2>1 DEF Entering, OnTrack
  <2>6. QED
    BY <2>2, <2>3, <2>4, <2>5 DEF Track
<1>8. QED
  BY <1>6, <1>7

\* The calls that configure the port.
LEMMA TrackCall ==
  ASSUME Typed, Track, Interface \/ InterfaceFails \/ LineAccepted \/ LineRefused
                       \/ LinesLost \/ LinesDone
  PROVE  Track'
<1>1. CASE Interface
  <2>1. ~touched
    BY <1>1 DEF Interface, Typed, Phases
  <2>2. QED
    BY <1>1, <2>1, TrackSame DEF Interface
<1>2. CASE InterfaceFails
  BY <1>2, TrackIdle DEF InterfaceFails, End
<1>3. CASE LineAccepted
  BY <1>3, TrackLine
<1>4. CASE LineRefused
  <2>1. pc = "lines" /\ todo # <<>> /\ CallFails("refused")
    BY <1>4 DEF LineRefused
  <2>2. Head(todo) \in LineSet /\ Head(todo) \in ToSet(todo)
    BY <2>1, HeadIs DEF IsFirst
  <2>3. \/ UNCHANGED port
        \/ Run(Head(todo), FALSE) /\ ~Rejects(firmware, port, Head(todo))
    BY <1>4 DEF LineRefused
  <2>4. QED
    BY <2>1, <2>2, <2>3, TrackCallFails
<1>5. CASE LinesLost
  BY <1>5, TrackCallFails DEF LinesLost
<1>6. CASE LinesDone
  BY <1>6, TrackLinesDone
<1>7. QED
  BY <1>1, <1>2, <1>3, <1>4, <1>5, <1>6

LEMMA TrackVerify ==
  ASSUME Typed, Track, Verify
  PROVE  Track'
<1>1. /\ pc = "verify" /\ pc' = "correct" /\ todo' = BulkCorrections(port, vlans, config.untagged)
      /\ UNCHANGED <<firmware, vlans, port, config, kind, bulk, failed, before, result, calm>>
  BY DEF Verify, switchVars
<1>2. /\ firmware = "context" /\ kind # "delete" /\ config.untagged = None /\ result # "ok"
      /\ port \in Port /\ vlans \in SUBSET Vlans /\ DefaultVlan \in vlans
  BY <1>1 DEF Typed, Phases, SwitchOK, SwitchTypes
<1>3. \A l : l \in ToSet(todo') <=>
        \E v \in vlans \cap {DefaultVlan, None} :
          \/ l = Line("no_tagged", v) /\ v \in port.tagged
          \/ l = Line("untagged", v) /\ v = None /\ port.untagged # v
  BY <1>1, <1>2, CorrectionLines
<1>4. None \notin vlans
  BY <1>2, VlansAreFinite
<1>5. \A l \in ToSet(todo') : l = Line("no_tagged", DefaultVlan)
  BY <1>3, <1>4
<1>6. DefaultVlan \in port.tagged => Line("no_tagged", DefaultVlan) \in ToSet(todo')
  BY <1>2, <1>3
<1>7. \A l \in ToSet(todo') : l.op = "no_tagged" /\ l.vlan = DefaultVlan
  BY <1>5, LineFields
<1>8. AfterBulk'
  BY <1>1, <1>5, <1>6 DEF Track, AfterBulk, Watched, KnownPort, Readable
<1>9. Straight'
  BY <1>1, <1>2, <1>7 DEF Track, Straight, Midway, KeepsUntagged
<1>10. Additive'
  BY <1>7 DEF Additive
<1>11. Entering' /\ OnTrack' /\ Reached'
  BY <1>1, <1>2 DEF Entering, OnTrack, Reached
<1>12. QED
  BY <1>8, <1>9, <1>10, <1>11 DEF Track

LEMMA TrackCorrect ==
  ASSUME Typed, Track, Correct
  PROVE  Track'
<1> DEFINE l == Head(todo)
<1>1. /\ pc = "correct" /\ pc' = "correct" /\ todo # <<>> /\ ~Rejects(firmware, port, l)
      /\ port' = Effect(port, l) /\ vlans' = vlans \cup Entered(l)
      /\ todo' = Tail(todo)
      /\ UNCHANGED <<firmware, config, kind, bulk, failed, before, result, calm>>
  BY DEF Correct
<1>2. /\ kind # "delete" /\ config.untagged = None /\ result # "ok"
      /\ port \in Port /\ vlans \in SUBSET Vlans /\ DefaultVlan \in vlans
      /\ todo \in Seq(LineSet)
  BY <1>1 DEF Typed, Phases, SwitchOK, SwitchTypes, LinesOK
<1>3. l \in ToSet(todo) /\ l \in LineSet /\ ToSet(todo') \subseteq ToSet(todo)
  BY <1>1, <1>2, HeadAndTail
<1>4. IsDual(config, vlans') = IsDual(config, vlans)
  BY <1>2 DEF IsDual
<1>5. Straight' /\ Additive'
  <2>1. Run(l, TRUE)
    BY <1>1, <1>3 DEF Run, Typed, LinesOK
  <2>2. QED
    BY <1>1, <1>3, <1>4, <2>1, StraightStep
<1>6. Watched' = Watched
  <2>1. KnownPort' = KnownPort
    BY <1>1 DEF KnownPort
  <2>2. Readable' /\ Readable
    BY <1>1, <1>2 DEF Readable, None, DefaultVlan
  <2>3. QED
    BY <1>1, <2>1, <2>2 DEF Watched
<1>7. AfterBulk'
  <2> SUFFICES ASSUME Watched, ~failed
               PROVE  AfterBulk'
    BY <1>1, <1>6 DEF AfterBulk
  <2>1. /\ port.untagged = None /\ vlans \ {DefaultVlan} \subseteq port.tagged
        /\ \A m \in ToSet(todo) : m = Line("no_tagged", DefaultVlan)
    BY <1>1 DEF Track, AfterBulk
  <2>2. l.op = "no_tagged" /\ l.vlan = DefaultVlan
    BY <1>3, <2>1, LineFields
  <2>3. port'.tagged = port.tagged \ {DefaultVlan} /\ port'.untagged = None
    BY <1>1, <1>2, <1>3, <2>1, <2>2, EffectIs
  <2>4. vlans' = vlans
    BY <1>1, <1>2, <2>2 DEF Entered
  <2>5. /\ \A m \in ToSet(todo') : m = Line("no_tagged", DefaultVlan)
        /\ vlans' \ {DefaultVlan} \subseteq port'.tagged /\ DefaultVlan \notin port'.tagged
    BY <1>3, <2>1, <2>3, <2>4
  <2>6. QED
    BY <2>3, <2>5 DEF AfterBulk
<1>8. Entering' /\ OnTrack' /\ Reached'
  BY <1>1, <1>2 DEF Entering, OnTrack, Reached
<1>9. QED
  BY <1>5, <1>7, <1>8 DEF Track

LEMMA TrackCorrected ==
  ASSUME Typed, Track, Corrected
  PROVE  Track'
<1>1. /\ pc = "correct" /\ todo = <<>> /\ pc' = "save"
      /\ UNCHANGED <<firmware, vlans, port, config, kind, todo, failed, before, result, calm>>
  BY DEF Corrected, switchVars
<1>2. /\ firmware = "context" /\ kind # "delete" /\ config.untagged = None /\ config.all
      /\ result # "ok" /\ port \in Port /\ port.tagged \subseteq vlans /\ Possible(firmware, port)
      /\ vlans \in SUBSET Vlans
  BY <1>1 DEF Typed, Phases, SwitchOK, SwitchTypes
<1>3. Straight' /\ Additive'
  BY <1>1 DEF Track, Straight, Midway, KeepsUntagged, Additive
<1>4. Reached'
  <2> SUFFICES ASSUME Watched, ~failed
               PROVE  Outcome'
    BY <1>1, <1>2 DEF Reached, Watched, KnownPort, Readable
  <2>1. Line("no_tagged", DefaultVlan) \notin ToSet(todo)
    BY <1>1, NoLines
  <2>2. /\ port.untagged = None /\ vlans \ {DefaultVlan} \subseteq port.tagged
        /\ DefaultVlan \notin port.tagged
    BY <1>1, <2>1 DEF Track, AfterBulk
  <2>3. port.dual = None
    BY <1>2 DEF Possible
  <2>4. UntaggedOf(port) = None /\ TaggedOf(port) = port.tagged \ {DefaultVlan, None}
    BY <2>2, <2>3 DEF UntaggedOf, TaggedOf, None, DefaultVlan
  <2>5. ResolveTagged(config, vlans) = vlans \ {DefaultVlan, None}
    BY <1>2 DEF ResolveTagged, ExpandAll
  <2>6. None \notin vlans
    BY <1>2, VlansAreFinite
  <2>7. TaggedOf(port) = ResolveTagged(config, vlans)
    BY <1>2, <2>2, <2>4, <2>5, <2>6
  <2>8. Meets(port, config, vlans)
    BY <1>2, <2>4, <2>7 DEF Meets
  <2>9. QED
    BY <1>1, <1>2, <2>2, <2>8 DEF Outcome
<1>5. Entering' /\ OnTrack' /\ AfterBulk'
  BY <1>1 DEF Entering, OnTrack, AfterBulk
<1>6. QED
  BY <1>3, <1>4, <1>5 DEF Track

\* finishBulkTagging and the save.
LEMMA TrackFinish ==
  ASSUME Typed, Track, \/ Verify \/ VerifyFails \/ Correct \/ CorrectFails \/ Corrected
                       \/ Save \/ SaveFails
  PROVE  Track'
<1>1. CASE VerifyFails
  BY <1>1, TrackIdle DEF VerifyFails, End
<1>2. CASE CorrectFails
  BY <1>2, TrackIdle DEF CorrectFails, End
<1>3. CASE SaveFails
  BY <1>3, TrackIdle DEF SaveFails, End
<1>4. CASE Save
  <2>1. CASE failed
    BY <1>4, <2>1, TrackIdle DEF Save, End
  <2>2. CASE ~failed
    <3>1. /\ pc = "save" /\ pc' = "idle"
          /\ UNCHANGED <<firmware, vlans, port, config, kind, before, calm>>
      BY <1>4, <2>2 DEF Save, End
    <3>2. Reached'
      BY <2>2, <3>1 DEF Track, Reached, Outcome, Watched, KnownPort, Readable
    <3>3. QED
      BY <3>1, <3>2 DEF Track, Entering, OnTrack, AfterBulk, Straight, Additive
  <2>3. QED
    BY <2>1, <2>2
<1>5. QED
  BY <1>1, <1>2, <1>3, <1>4, TrackVerify, TrackCorrect, TrackCorrected

LEMMA TrackNext ==
  ASSUME PlansAreProper, Inv, Typed, Track, [Next]_vars
  PROVE  Track'
<1>1. CASE \E w \in Plans \cup {Absent} : Edit(w)
  BY <1>1, TrackIdle DEF Edit, opVars
<1>2. CASE Refresh
  BY <1>2, TrackIdle DEF Refresh, opVars
<1>3. CASE Import
  <2>1. result # "ok"
    BY <1>3 DEF Import, Typed, Phases
  <2>2. QED
    BY <1>3, <2>1, TrackIdle DEF Import, opVars
<1>4. CASE PlanClean \/ UNCHANGED vars
  <2>1. /\ UNCHANGED <<firmware, vlans, port, config, kind, before, calm, todo, bulk, failed,
                       result, pc, touched>>
    BY <1>4 DEF PlanClean, vars, switchVars, opVars
  <2>2. QED
    BY <2>1 DEF Track, Entering, OnTrack, AfterBulk, Reached, Straight, Midway, KeepsUntagged,
       Additive, Watched, KnownPort, Readable, Outcome
<1>5. CASE BeginCreate
  BY <1>5, TrackBegin DEF BeginCreate
<1>6. CASE BeginUpdate
  BY <1>6, TrackBegin DEF BeginUpdate
<1>7. CASE BeginDelete
  BY <1>7, TrackBegin DEF BeginDelete
<1>8. CASE ByHand
  BY <1>8, TrackIdle DEF ByHand
<1>9. QED
  BY <1>1, <1>2, <1>3, <1>4, <1>5, <1>6, <1>7, <1>8, TrackCall, TrackFinish
     DEF Next, Terraform, Failing, Operator

-----------------------------------------------------------------------------
Tracked == Inv /\ Typed /\ Track

LEMMA TrackedInit == Init => Tracked
BY InitInv, TypedInit, TrackInit DEF Tracked

LEMMA TrackedNext ==
  ASSUME PlansAreProper
  PROVE  Tracked /\ [Next]_vars => Tracked'
BY NextInv, TypedNext, TrackNext DEF Tracked

\* Of a configuration that was met, what is read back is what was asked for.
LEMMA ReadBackOfMet ==
  ASSUME NEW w \in Wanted, NEW p, NEW vs, p.tagged \subseteq vs, Meets(p, w, vs)
  PROVE  ReadBack(w, p, vs) = w
<1> DEFINE tagged == (p.tagged \cap vs) \ {DefaultVlan, p.dual}
<1>1. tagged = ResolveTagged(w, vs) /\ UntaggedOf(p) = w.untagged
  BY DEF Meets, TaggedOf
<1>2. w = [all |-> w.all, tagged |-> w.tagged, untagged |-> w.untagged] /\ w.all \in BOOLEAN
  BY DEF Wanted
<1>3. CASE w.all
  <2>1. tagged = ExpandAll(vs, UntaggedOf(p))
    BY <1>1, <1>3 DEF ResolveTagged
  <2>2. ReadBack(w, p, vs) = [w EXCEPT !.untagged = UntaggedOf(p)]
    BY <1>3, <2>1 DEF ReadBack, UntaggedOf
  <2>3. QED
    BY <1>1, <1>2, <2>2
<1>4. CASE ~w.all
  <2>1. ReadBack(w, p, vs) = [all |-> FALSE, tagged |-> tagged, untagged |-> UntaggedOf(p)]
    BY <1>4 DEF ReadBack, UntaggedOf
  <2>2. QED
    BY <1>1, <1>2, <1>4, <2>1 DEF ResolveTagged
<1>5. QED
  BY <1>2, <1>3, <1>4

LEMMA SuccessStep == Tracked => SuccessMeetsPlan
<1> SUFFICES ASSUME Tracked, result = "ok", Watched
             PROVE  /\ kind = "delete" /\ state = Absent =>
                         port.tagged \subseteq {DefaultVlan} /\ UntaggedOf(port) = None
                    /\ kind # "delete" /\ config = state =>
                         Meets(port, config, vlans) /\ ReadBack(state, port, vlans) = state
                    /\ DefaultVlan \in port.tagged => DefaultVlan \in before.tagged
  BY DEF SuccessMeetsPlan, Watched
<1>1. Outcome
  BY DEF Tracked, Track, Reached
<1>2. /\ kind # "delete" => config \in Wanted
      /\ port.tagged \subseteq vlans
  BY EthernetPortAssumption DEF Tracked, Typed, Phases, Records, SwitchOK
<1>3. kind # "delete" => Meets(port, config, vlans) /\ ReadBack(config, port, vlans) = config
  BY <1>1, <1>2, ReadBackOfMet DEF Outcome
<1>4. QED
  BY <1>1, <1>3 DEF Outcome

\* What an operation somebody else touches leaves out of sight stays there.
LEMMA RefusalStep ==
  ASSUME PlansAreProper, Tracked, NoRefusal, [Next]_vars
  PROVE  NoRefusal'
<1> SUFFICES ASSUME result' = "refused", Watched'
             PROVE  FALSE
  BY DEF NoRefusal, Watched
<1>1. calm'
  BY DEF Watched
<1>2. NoRefusal => ~(result = "refused" /\ Watched)
  BY DEF NoRefusal, Watched
<1>3. ASSUME pc = "lines", todo # <<>>, vlans' \in {vlans, vlans \cup Entered(Head(todo))},
             MayReject(firmware, port, Head(todo)), CallFails("refused")
      PROVE  FALSE
  <2>1. result = "none"
    BY <1>3 DEF Tracked, Inv, ResultAtEnd
  <2>2. ~bulk /\ UNCHANGED <<firmware, config, kind, before, calm>>
    BY <1>3, <2>1 DEF CallFails, End
  <2>3. Head(todo) \in ToSet(todo)
    BY <1>3, HeadIs DEF Tracked, IsFirst
  <2>4. Watched
    BY <1>1, <1>3, <2>2, <2>3, Stable DEF Tracked, Track
  <2>5. QED
    BY <1>3, <2>2, <2>4, NextLine DEF Tracked
<1>4. CASE UNCHANGED <<result, firmware, vlans, config, kind, before, calm>>
  <2>1. Watched' = Watched
    BY <1>4 DEF Watched, KnownPort, Readable
  <2>2. QED
    BY <1>2, <1>4, <2>1
<1>5. CASE pc # "idle" /\ UNCHANGED result
  BY <1>5 DEF Tracked, Inv, ResultAtEnd
<1>6. CASE LineRefused
  BY <1>3, <1>6 DEF LineRefused
<1>7. CASE LinesLost
  BY <1>5, <1>7 DEF LinesLost, CallFails, End
<1>8. CASE LinesDone
  BY <1>5, <1>8 DEF LinesDone, End
<1>9. CASE PlanClean \/ Import \/ UNCHANGED vars
  BY <1>4, <1>9 DEF PlanClean, Import, vars, switchVars, opVars
<1>10. CASE BeginCreate \/ BeginUpdate \/ BeginDelete
  BY <1>10 DEF BeginCreate, BeginUpdate, BeginDelete, Begin
<1>11. CASE (\E w \in Plans \cup {Absent} : Edit(w)) \/ Refresh
  BY <1>11 DEF Edit, Refresh
<1>12. CASE Interface \/ LineAccepted \/ Verify \/ Correct \/ Corrected
  BY <1>5, <1>12 DEF Interface, LineAccepted, Verify, Correct, Corrected
<1>13. CASE InterfaceFails \/ VerifyFails \/ CorrectFails \/ Save \/ SaveFails
  BY <1>13 DEF InterfaceFails, VerifyFails, CorrectFails, Save, SaveFails, End
<1>14. CASE ByHand
  BY <1>1, <1>14 DEF ByHand
<1>15. QED
  BY <1>6, <1>7, <1>8, <1>9, <1>10, <1>11, <1>12, <1>13, <1>14
     DEF Next, Terraform, Failing, Operator

\* What a step within an operation does to the port.
LEMMA PortSteps ==
  ASSUME Typed, [Next]_vars, pc # "idle", calm'
  PROVE  /\ calm /\ UNCHANGED <<firmware, config, before, kind>> /\ vlans \subseteq vlans'
         /\ \/ UNCHANGED port
            \/ pc' # "idle" /\ \E l \in ToSet(todo), complete \in BOOLEAN :
                                 l \in LineSet /\ Run(l, complete)
<1>1. CASE Next
  <2>1. CASE LineAccepted
    <3>1. Head(todo) \in LineSet /\ Head(todo) \in ToSet(todo)
      BY <2>1, HeadIs DEF LineAccepted, IsFirst
    <3>2. QED
      BY <2>1, <3>1 DEF LineAccepted
  <2>2. CASE LineRefused
    <3>1. Head(todo) \in LineSet /\ Head(todo) \in ToSet(todo)
      BY <2>2, HeadIs DEF LineRefused, IsFirst
    <3>2. /\ calm /\ UNCHANGED <<firmware, config, before, kind>> /\ vlans \subseteq vlans'
          /\ bulk => pc' # "idle"
      BY <2>2 DEF LineRefused, CallFails, End
    <3>3. CASE Head(todo).op = "bulk" /\ ~Rejects(firmware, port, Head(todo))
      <4>1. Run(Head(todo), FALSE)
        BY <2>2, <3>3 DEF LineRefused
      <4>2. bulk
        BY <3>1, <3>3 DEF Typed, LinesOK
      <4>3. QED
        BY <3>1, <3>2, <4>1, <4>2
    <3>4. CASE ~(Head(todo).op = "bulk" /\ ~Rejects(firmware, port, Head(todo)))
      <4>1. UNCHANGED port
        BY <2>2, <3>4 DEF LineRefused
      <4>2. QED
        BY <3>2, <4>1
    <3>5. QED
      BY <3>3, <3>4
  <2>3. CASE Correct
    <3>1. todo \in Seq(LineSet) /\ todo # <<>>
      BY <2>3 DEF Correct, Typed, LinesOK
    <3>2. Head(todo) \in LineSet /\ Head(todo) \in ToSet(todo)
      BY <3>1, HeadAndTail
    <3>3. Run(Head(todo), TRUE)
      BY <2>3, <3>2 DEF Correct, Run, Typed, LinesOK
    <3>4. QED
      BY <2>3, <3>2, <3>3 DEF Correct
  <2>4. CASE Interface \/ InterfaceFails \/ LinesLost \/ LinesDone
    BY <2>4 DEF Interface, InterfaceFails, LinesLost, LinesDone, CallFails, End
  <2>5. CASE Verify \/ VerifyFails \/ CorrectFails \/ Corrected \/ Save \/ SaveFails
    BY <2>5 DEF Verify, VerifyFails, CorrectFails, Corrected, Save, SaveFails, End, switchVars
  <2>6. CASE \/ \E w \in Plans \cup {Absent} : Edit(w)
             \/ Refresh \/ Import \/ PlanClean \/ BeginCreate \/ BeginUpdate \/ BeginDelete
             \/ ByHand
    BY <2>6 DEF Edit, Refresh, Import, PlanClean, BeginCreate, BeginUpdate, BeginDelete, Begin,
       ByHand
  <2>7. QED
    BY <1>1, <2>1, <2>2, <2>3, <2>4, <2>5, <2>6 DEF Next, Terraform, Failing, Operator
<1>2. CASE UNCHANGED vars
  BY <1>2 DEF vars, switchVars, opVars
<1>3. QED
  BY <1>1, <1>2

LEMMA UntaggedStays ==
  ASSUME Tracked, [Next]_vars, calm', kind = "update", pc # "idle"
  PROVE  UntaggedOf(port') \in {UntaggedOf(before), config.untagged}
                                 \cup (IF Seamless THEN {} ELSE {None})
<1>1. /\ calm
      /\ \/ UNCHANGED port
         \/ \E l \in ToSet(todo), complete \in BOOLEAN : l \in LineSet /\ Run(l, complete)
  BY PortSteps DEF Tracked
<1>2. Typed /\ Straight /\ firmware \in {"context", "dual"}
  BY FirmwareIs DEF Tracked, Track
<1>3. Midway(port')
  BY <1>1, <1>2, MidwayStep DEF Straight
<1>4. before.dual # None => firmware = "dual" /\ before.untagged \in {None, DefaultVlan}
  BY <1>1, <1>2 DEF Straight
<1>5. UntaggedOf(port') \in {UntaggedOf(before), config.untagged, None}
  BY <1>3, <1>4 DEF Midway, UntaggedOf
<1>6. ASSUME Seamless
      PROVE  UntaggedOf(port') \in {UntaggedOf(before), config.untagged}
  <2>1. CASE KeepsUntagged
    BY <1>3, <2>1 DEF Midway, UntaggedOf, KeepsUntagged
  <2>2. CASE ~KeepsUntagged
    <3>1. firmware = "dual" /\ before.dual # None /\ IsDual(config, vlans)
      BY <1>2, <1>4, <1>6, <2>2 DEF Seamless, KeepsUntagged
    <3>2. port'.dual \in {before.dual, config.untagged} /\ port'.dual # None
      BY <1>3, <3>1 DEF Midway
    <3>3. QED
      BY <3>1, <3>2 DEF UntaggedOf
  <2>3. QED
    BY <2>1, <2>2
<1>7. QED
  BY <1>5, <1>6

LEMMA TagsStay ==
  ASSUME Tracked, [Next]_vars, calm', kind = "update", pc # "idle", config.all,
         UntaggedOf(before) = config.untagged
  PROVE  TaggedOf(port) \ {config.untagged} \subseteq TaggedOf(port')
<1>1. /\ calm
      /\ \/ UNCHANGED port
         \/ \E l \in ToSet(todo), complete \in BOOLEAN : l \in LineSet /\ Run(l, complete)
  BY PortSteps DEF Tracked
<1>2. port \in Port /\ None \notin port.tagged
  BY VlansAreFinite DEF Tracked, Typed, SwitchOK, SwitchTypes, Port
<1>3. \A l \in ToSet(todo) : /\ l.op = "no_tagged" => l.vlan \in {DefaultVlan, config.untagged}
                             /\ l.op = "dual" => l.vlan = config.untagged
  BY <1>1 DEF Tracked, Track, Additive
<1>4. CASE UNCHANGED port
  BY <1>4
<1>5. ASSUME NEW l \in ToSet(todo), NEW complete \in BOOLEAN, l \in LineSet, Run(l, complete)
      PROVE  TaggedOf(port) \ {config.untagged} \subseteq TaggedOf(port')
  <2>1. CASE l.op = "bulk"
    <3>1. PICK extra \in SUBSET vlans, u \in {port.untagged, None} :
            port' = [port EXCEPT !.tagged = @ \cup extra, !.untagged = u]
      BY <1>5, <2>1 DEF Run
    <3>2. port'.tagged = port.tagged \cup extra /\ port'.dual = port.dual
      BY <1>2, <3>1 DEF Port
    <3>3. QED
      BY <3>2 DEF TaggedOf
  <2>2. CASE l.op # "bulk"
    <3>1. port' = Effect(port, l)
      BY <1>5, <2>2 DEF Run
    <3>2. /\ port'.tagged = IF l.op = "tagged" THEN port.tagged \cup {l.vlan}
                            ELSE IF l.op = "no_tagged" THEN port.tagged \ {l.vlan}
                            ELSE port.tagged
          /\ port'.dual = IF l.op = "dual" THEN l.vlan
                          ELSE IF l.op = "no_dual" THEN None ELSE port.dual
      BY <1>2, <1>5, <3>1, EffectIs
    <3>3. port.tagged \ {DefaultVlan, config.untagged} \subseteq port'.tagged
      BY <1>3, <1>5, <3>2
    <3>4. port'.dual \in {port.dual, config.untagged, None}
      BY <1>3, <1>5, <3>2
    <3>5. QED
      BY <1>2, <3>3, <3>4 DEF TaggedOf
  <2>3. QED
    BY <2>1, <2>2
<1>6. QED
  BY <1>1, <1>4, <1>5

-----------------------------------------------------------------------------
\* With configurations that can be met, an operation nobody interferes with is
\* never refused a line (buildVLANMembershipCommands,
\* buildDualModeMembershipCommands, buildVLANRemovalCommands).
THEOREM NothingRefused ==
  ASSUME PlansAreProper
  PROVE  Spec => []NoRefusal
<1>1. Init => NoRefusal
  BY DEF Init, NoRefusal
<1>2. Tracked /\ NoRefusal /\ [Next]_vars => NoRefusal'
  BY RefusalStep
<1>3. QED
  BY <1>1, <1>2, TrackedInit, TrackedNext, PTL DEF Spec

\* With configurations that can be met, an operation nobody interferes with that
\* succeeds leaves the port as the configuration asks for, the next refresh
\* agrees with what was recorded, and a destroyed port is a member of nothing
\* (Create, Update, Delete, readVLANMembership).
THEOREM SuccessIsReal ==
  ASSUME PlansAreProper
  PROVE  Spec => []SuccessMeetsPlan
BY TrackedInit, TrackedNext, SuccessStep, PTL DEF Spec

\* With configurations that can be met, no line of an update leaves the port
\* untagged in a third VLAN, nor in none unless an access port of dual-mode firmware
\* becomes a trunk, a trunk an access port, or a port changes an untagged VLAN that
\* only its VLAN context holds (buildVLANMembershipCommands,
\* buildDualModeMembershipCommands).
THEOREM UntaggedIsKept ==
  ASSUME PlansAreProper
  PROVE  Spec => UntaggedNeverDropped
<1>1. Tracked /\ [Next]_vars =>
        [(calm' /\ kind = "update" /\ pc # "idle")
         => UntaggedOf(port') \in {UntaggedOf(before), config.untagged}
                                     \cup (IF Seamless THEN {} ELSE {None})]_vars
  BY UntaggedStays
<1>2. QED
  BY <1>1, TrackedInit, TrackedNext, PTL DEF Spec, UntaggedNeverDropped

\* With configurations that can be met, no line of an update to tag_all_vlans
\* that keeps the untagged VLAN takes another VLAN off (reconcileTagAllVLANs).
THEOREM RepairAdds ==
  ASSUME PlansAreProper
  PROVE  Spec => RepairsOnlyAdd
<1>1. Tracked /\ [Next]_vars =>
        [(calm' /\ kind = "update" /\ pc # "idle" /\ config.all
          /\ UntaggedOf(before) = config.untagged)
         => TaggedOf(port) \ {config.untagged} \subseteq TaggedOf(port')]_vars
  BY TagsStay
<1>2. QED
  BY <1>1, TrackedInit, TrackedNext, PTL DEF Spec, RepairsOnlyAdd
=============================================================================
