---------------------------- MODULE EthernetPort ----------------------------
(***************************************************************************)
(* The life of one icx_interface_ethernet resource: an operator edits the  *)
(* configuration and runs terraform, which refreshes the state, plans, and *)
(* creates, updates or destroys; each operation is a few calls on the      *)
(* session, the VLAN lines of one call run one by one, and any call may    *)
(* fail.  Meanwhile someone may change the port or add a VLAN by hand.     *)
(*                                                                         *)
(* The port's other settings (name, admin state, raw lines) are one call   *)
(* that is made or not.                                                    *)
(***************************************************************************)
EXTENDS Membership

CONSTANTS Firmwares,    \* which of {"context", "dual"} the switch may run
          BulkTagging,  \* the provider's native_bulk_tagging
          Plans,        \* the memberships the configuration may ask for
          Ports,        \* the port's memberships before anything is managed
          HandLines,    \* the lines typed by hand
          FirstVlans,   \* the VLANs there are at first
          MaxEdits,     \* bound: edits of the configuration
          MaxFailures,  \* bound: calls that fail
          MaxByHand     \* bound: changes by hand

Absent == [absent |-> TRUE]

ASSUME EthernetPortAssumption ==
  /\ Firmwares \subseteq {"context", "dual"} /\ BulkTagging \in BOOLEAN
  /\ Plans \subseteq Wanted /\ Ports \subseteq Port /\ HandLines \subseteq LineSet
  /\ DefaultVlan \in FirstVlans /\ FirstVlans \subseteq Vlans
  /\ {MaxEdits, MaxFailures, MaxByHand} \subseteq Nat

VARIABLES
  firmware, vlans, port,   \* the switch
  unsaved,                 \* has the running configuration changed since the last save?
  config, state,           \* what the operator wants; what terraform recorded
  refreshed,               \* has this run of terraform refreshed the state?
  kind, pc, todo,          \* the operation, where it is, the lines it has still to send
  touched,                 \* has it sent anything; from the corrections on, any of those?
  bulk, failed,            \* its lines use the bulk command; and that failed
  after,                   \* the port as read back after the bulk command
  result,                  \* how the last operation ended
  before,                  \* the port when the operation began
  calm,                    \* nothing happened by hand since the state was read
  edits, failures, byHand

switchVars == <<firmware, vlans, port, unsaved>>
opVars     == <<kind, pc, todo, touched, bulk, failed, after, before>>
boundVars  == <<edits, failures, byHand>>
vars == <<switchVars, config, state, refreshed, opVars, result, calm, boundVars>>

Init ==
  /\ firmware \in Firmwares /\ vlans = FirstVlans /\ unsaved = FALSE
  /\ port \in {p \in Ports : /\ Possible(firmware, p)
                             /\ p.tagged \cup {p.untagged} \subseteq vlans \cup {None}}
  /\ config = Absent /\ state = Absent /\ refreshed = FALSE
  /\ kind = "none" /\ pc = "idle" /\ todo = <<>>
  /\ touched = FALSE /\ bulk = FALSE /\ failed = FALSE /\ after = port /\ before = port
  /\ result = "none" /\ calm = TRUE
  /\ edits = 0 /\ failures = 0 /\ byHand = 0

-----------------------------------------------------------------------------
(* Terraform's side.                                                         *)

Edit(w) ==
  /\ pc = "idle" /\ edits < MaxEdits /\ w # config
  /\ config' = w /\ edits' = edits + 1 /\ refreshed' = FALSE /\ result' = "none"
  /\ UNCHANGED <<switchVars, state, opVars, calm, failures, byHand>>

Refresh ==
  /\ pc = "idle" /\ state # Absent /\ ~refreshed
  /\ state' = ReadBack(state, port, vlans) /\ refreshed' = TRUE /\ calm' = TRUE
  /\ result' = "none"
  /\ UNCHANGED <<switchVars, config, opVars, boundVars>>

\* ImportState records the port, and the Read that follows its membership.
Import ==
  /\ pc = "idle" /\ state = Absent /\ config # Absent
  /\ state' = ReadBack(Nothing, port, vlans) /\ refreshed' = FALSE
  /\ UNCHANGED <<switchVars, config, opVars, result, calm, boundVars>>

\* No difference: the run of terraform ends.
PlanClean ==
  /\ pc = "idle" /\ refreshed /\ config = state
  /\ refreshed' = FALSE
  /\ UNCHANGED <<switchVars, config, state, opVars, result, calm, boundVars>>

\* GetRunningConfig and the lines built from it.  Whether the switch's
\* management path leads through this port only matters to the bulk command.
Begin(k, old) ==
  /\ pc = "idle" /\ kind' = k /\ pc' = "iface" /\ before' = port /\ after' = port
  /\ touched' = FALSE /\ failed' = FALSE /\ result' = "none"
  /\ IF k = "delete" THEN todo' = RemoveAll(port, vlans) /\ bulk' = FALSE
     ELSE \E managementPath \in BOOLEAN :
            LET native == BulkTagging /\ ~managementPath /\ BulkAllowed(firmware, config, port)
            IN /\ todo' = Build(firmware, config, old, vlans, port.dual, native)
               /\ bulk' = \E i \in DOMAIN todo' : todo'[i].op = "bulk"
  /\ UNCHANGED <<switchVars, config, state, refreshed, calm, boundVars>>

BeginCreate == config # Absent /\ state = Absent /\ Begin("create", Nothing)
BeginUpdate == /\ config # Absent /\ state # Absent /\ refreshed /\ config # state
               /\ Begin("update", state)
BeginDelete == config = Absent /\ state # Absent /\ refreshed /\ Begin("delete", state)

End(outcome, newState) ==
  /\ pc' = "idle" /\ todo' = <<>>
  /\ touched' = FALSE /\ bulk' = FALSE /\ failed' = FALSE
  /\ result' = outcome /\ state' = newState /\ refreshed' = FALSE
  /\ UNCHANGED <<firmware, config, kind, after, before, calm>>

\* The interface-level call.  Create and Delete always have one; Delete's VLAN
\* lines are part of the same call.
Interface ==
  /\ pc = "iface" /\ pc' = "lines"
  /\ \E sent \in IF kind = "update" THEN BOOLEAN ELSE {TRUE} :
       touched' = sent /\ unsaved' = (unsaved \/ sent)
  /\ UNCHANGED <<firmware, vlans, port, config, state, refreshed, kind, todo, bulk,
                 failed, after, before, result, calm, boundVars>>

\* The switch runs the next line.  The bulk command tags the port in every VLAN;
\* what it does to VLAN 1 and to an untagged membership is not documented.
Run(l, complete) ==
  IF l.op # "bulk" THEN port' = Effect(port, l)
  ELSE \E extra \in SUBSET vlans, untagged \in {port.untagged, None} :
         /\ complete => vlans \ {DefaultVlan, port.untagged} \subseteq extra
         /\ untagged = port.untagged => port.untagged \notin extra
         /\ port' = [port EXCEPT !.tagged = @ \cup extra, !.untagged = untagged]

LineAccepted ==
  /\ pc = "lines" /\ todo # <<>> /\ ~Rejects(firmware, port, Head(todo))
  /\ Run(Head(todo), TRUE) /\ vlans' = vlans \cup Entered(Head(todo))
  /\ todo' = Tail(todo) /\ touched' = TRUE /\ unsaved' = TRUE
  /\ UNCHANGED <<firmware, config, state, refreshed, kind, pc, bulk, failed,
                 after, before, result, calm, boundVars>>

\* A line is refused, or the session fails under it: nothing more of the call
\* is sent.  If the bulk command was among the lines, finishBulkTagging looks
\* at what happened; otherwise the operation ends without a save.
CallFails(outcome) ==
  IF bulk
  THEN /\ pc' = "verify" /\ failed' = TRUE /\ todo' = <<>> /\ touched' = TRUE
       /\ UNCHANGED <<firmware, config, state, refreshed, kind, bulk, after, before,
                      result, calm>>
  ELSE End(outcome, state)

LineRefused ==
  /\ pc = "lines" /\ todo # <<>> /\ MayReject(firmware, port, Head(todo))
  /\ vlans' \in {vlans, vlans \cup Entered(Head(todo))}
  /\ IF Head(todo).op = "bulk" /\ ~Rejects(firmware, port, Head(todo))
     THEN Run(Head(todo), FALSE) /\ unsaved' = TRUE /\ failures < MaxFailures
            /\ failures' = failures + 1
     ELSE UNCHANGED <<port, failures>> /\ unsaved' = (unsaved \/ vlans' # vlans)
  /\ CallFails("refused")
  /\ UNCHANGED <<edits, byHand>>

\* The session fails before the next line, or after the last one.
LinesLost ==
  /\ pc = "lines" /\ (todo # <<>> \/ touched) /\ failures < MaxFailures /\ failures' = failures + 1
  /\ CallFails("failed")
  /\ UNCHANGED <<vlans, port, unsaved, edits, byHand>>

\* The interface-level call fails, part of its lines sent or not.
InterfaceFails ==
  /\ pc = "iface" /\ failures < MaxFailures /\ failures' = failures + 1
  /\ End("failed", state) /\ unsaved' \in {unsaved, TRUE}
  /\ UNCHANGED <<vlans, port, edits, byHand>>

\* All lines ran.  An update that had nothing to send saves nothing.
LinesDone ==
  /\ pc = "lines" /\ todo = <<>>
  /\ IF kind = "update" /\ ~touched
     THEN End("ok", config)
     ELSE /\ pc' = IF bulk THEN "verify" ELSE "save"
          /\ UNCHANGED <<firmware, config, state, refreshed, kind, todo, touched, bulk,
                         failed, after, before, result, calm>>
  /\ UNCHANGED <<vlans, port, unsaved, boundVars>>

-----------------------------------------------------------------------------
(* finishBulkTagging.                                                        *)

\* Mutated: the plan is recorded.
RecordedPlan == IF kind = "update" THEN config ELSE state

\* What an update whose bulk tagging failed records: the port as it was read,
\* tag_all_vlans off.
Recorded == IF kind = "update" THEN ReadBack(Nothing, after, vlans) ELSE state

Verify ==
  /\ pc = "verify" /\ pc' = "correct" /\ after' = port
  /\ todo' = BulkCorrections(port, vlans, config.untagged)
  /\ touched' = (todo' # <<>>)
  /\ UNCHANGED <<switchVars, config, state, refreshed, kind, bulk, failed,
                 before, result, calm, boundVars>>

\* The re-read fails: nothing can be corrected or recorded.  What a failed bulk
\* command did is still saved, if that works.
VerifyFails ==
  /\ pc = "verify" /\ failures < MaxFailures /\ failures' = failures + 1
  /\ End("failed", state)
  /\ unsaved' \in IF failed THEN {FALSE, unsaved} ELSE {unsaved}
  /\ UNCHANGED <<vlans, port, edits, byHand>>

Correct ==
  /\ pc = "correct" /\ todo # <<>> /\ ~Rejects(firmware, port, Head(todo))
  /\ port' = Effect(port, Head(todo)) /\ vlans' = vlans \cup Entered(Head(todo))
  /\ todo' = Tail(todo) /\ unsaved' = TRUE
  /\ UNCHANGED <<firmware, config, state, refreshed, kind, pc, touched, bulk,
                 failed, after, before, result, calm, boundVars>>

\* The corrections fail, the session perhaps after the last of them, with the error
\* that takes the place of the save unless the bulk command had failed as well.
CorrectFails ==
  /\ pc = "correct"
  /\ \/ todo # <<>> /\ MayReject(firmware, port, Head(todo)) /\ UNCHANGED failures
     \/ touched /\ failures < MaxFailures /\ failures' = failures + 1
  /\ End("failed", Recorded)
  /\ unsaved' \in IF failed THEN {FALSE, unsaved} ELSE {unsaved}
  /\ UNCHANGED <<vlans, port, edits, byHand>>

Corrected ==
  /\ pc = "correct" /\ todo = <<>> /\ pc' = "save"
  /\ UNCHANGED <<switchVars, config, state, refreshed, kind, todo, touched, bulk, failed,
                 after, before, result, calm, boundVars>>

-----------------------------------------------------------------------------
Save ==
  /\ pc = "save" /\ unsaved' = FALSE
  /\ IF failed THEN End("failed_saved", Recorded) ELSE End("ok", config)
  /\ UNCHANGED <<vlans, port, boundVars>>

SaveFails ==
  /\ pc = "save" /\ failures < MaxFailures /\ failures' = failures + 1
  /\ IF failed THEN End("failed_unsaved", Recorded) ELSE End("failed", state)
  /\ UNCHANGED <<vlans, port, unsaved, edits, byHand>>

-----------------------------------------------------------------------------
(* Other hands on the switch.                                                *)

\* A managed port is changed, or a VLAN added, by hand (and saved or not: that
\* is not terraform's doing).
ByHand ==
  /\ state # Absent /\ byHand < MaxByHand /\ byHand' = byHand + 1 /\ calm' = FALSE
  /\ \/ \E l \in HandLines : /\ Entered(l) \subseteq vlans
                             /\ ~MayReject(firmware, port, l)
                             /\ port' = Effect(port, l) /\ port' # port
                             /\ UNCHANGED vlans
     \/ \E v \in Vlans \ vlans : vlans' = vlans \cup {v} /\ UNCHANGED port
  /\ UNCHANGED <<firmware, unsaved, config, state, refreshed, opVars, result, edits, failures>>

Terraform == \/ Refresh \/ PlanClean \/ BeginCreate \/ BeginUpdate \/ BeginDelete
             \/ Interface \/ LineAccepted \/ LineRefused \/ LinesDone
             \/ Verify \/ Correct \/ Corrected \/ Save
Failing == \/ InterfaceFails \/ LinesLost \/ VerifyFails \/ CorrectFails \/ SaveFails
Operator == (\E w \in Plans \cup {Absent} : Edit(w)) \/ Import

Next == Terraform \/ Failing \/ Operator \/ ByHand
Spec == Init /\ [][Next]_vars

\* The operator runs terraform again until the plan is clean, and terraform runs.
FairSpec == Spec /\ WF_vars(Terraform)

-----------------------------------------------------------------------------
OpTypes ==
  /\ kind \in {"none", "create", "update", "delete"}
  /\ pc \in {"idle", "iface", "lines", "verify", "correct", "save"}
  /\ {touched, bulk, failed, unsaved, refreshed, calm} \subseteq BOOLEAN
  /\ result \in {"none", "ok", "refused", "failed", "failed_saved", "failed_unsaved"}
SwitchTypes == firmware \in Firmwares /\ vlans \subseteq Vlans /\ {port, after, before} \subseteq Port
\* Every variable has its type; in particular a recorded membership is always
\* one a plan could compare with a configuration.
TypeOK == OpTypes /\ SwitchTypes /\ {config, state} \subseteq Wanted \cup {Absent}

\* The operation started from a port without membership, or from one whose
\* membership its state describes.  A dual-mode port tagged in its dual VLAN
\* alone reads back as an access port, and a tag in the default VLAN is not read
\* back at all; only a change by hand produces either.
KnownPort == IF kind = "create" THEN before = NoMembership
             ELSE firmware = "dual" =>
                    /\ DefaultVlan \notin before.tagged
                    /\ before.dual # None => ~(before.tagged \subseteq {before.dual})

\* Untagged membership of the default VLAN is read back of a dual-mode trunk only.
Readable == config # Absent /\ config.untagged = DefaultVlan
              => firmware = "dual" /\ IsDual(config, vlans)

\* An operation nobody interferes with sends only lines the switch accepts: the
\* order of removals and additions never asks for a membership that another one
\* still forbids (buildVLANMembershipCommands, buildDualModeMembershipCommands,
\* buildVLANRemovalCommands).
NoRefusal == result = "refused" => ~calm \/ ~KnownPort \/ ~Readable

\* When such an operation succeeds the port carries what the configuration asks
\* for, the next refresh agrees with what was recorded, and VLAN 1 has gained no
\* tag; a destroyed port is a member of nothing.
SuccessMeetsPlan ==
  (result = "ok" /\ calm /\ KnownPort /\ Readable) =>
    /\ kind = "delete" /\ state = Absent =>
         port.tagged \subseteq {DefaultVlan} /\ UntaggedOf(port) = None
    /\ kind # "delete" /\ config = state =>
         Meets(port, config, vlans) /\ ReadBack(state, port, vlans) = state
    /\ DefaultVlan \in port.tagged => DefaultVlan \in before.tagged

\* A plan that shows no difference hides none: the port carries what the
\* configuration asks for, whatever failed or was changed by hand before the
\* refresh (readVLANMembership, reconcileTagAllVLANs).
CleanPlanIsTrue ==
  (pc = "idle" /\ refreshed /\ calm /\ state = config /\ config # Absent) =>
    Meets(port, config, vlans)

\* The update can keep the port in an untagged VLAN throughout: a dual-mode trunk
\* that stays one, or a port that stays what it is in the VLAN it has.  To turn an
\* access port of dual-mode firmware into a trunk, or back, it must leave first.
Seamless ==
  IF firmware = "dual"
  THEN /\ before.dual # None <=> IsDual(config, vlans)
       /\ before.dual # None \/ before.untagged = config.untagged
  ELSE before.untagged = config.untagged

\* After every line of an update the port is untagged in the VLAN it came from,
\* in the one it goes to, or in none; and never in none if the update can keep it
\* in one: a dual-mode trunk goes from the old VLAN straight to the new one, and a
\* port that keeps its VLAN has it all the while.  On a management uplink that
\* VLAN carries the session itself (buildVLANMembershipCommands,
\* buildDualModeMembershipCommands).
UntaggedNeverDropped ==
  [][(calm' /\ kind = "update" /\ pc # "idle")
     => UntaggedOf(port') \in {UntaggedOf(before), config.untagged}
                                 \cup (IF Seamless THEN {} ELSE {None})]_vars

\* An update to tag_all_vlans that keeps the untagged VLAN takes no other VLAN
\* off the port, at any moment: the repair of a trunk that drifted is additive
\* (reconcileTagAllVLANs).
RepairsOnlyAdd ==
  [][(calm' /\ kind = "update" /\ pc # "idle" /\ config.all
      /\ UntaggedOf(before) = config.untagged)
     => TaggedOf(port) \ {config.untagged} \subseteq TaggedOf(port')]_vars

\* A bulk command that failed leaves nothing unsaved, and no tag_all_vlans in
\* the state of an update to hide what is missing.
BulkFailureShows ==
  result = "failed_saved" =>
    ~unsaved /\ (kind = "update" /\ state # Absent => ~state.all)

\* When even the save after a failed bulk command fails, the error says that the
\* running config may differ from the startup config until the next successful
\* apply: that apply, then, saves (finishBulkTagging).
FailedSaveIsMadeGood == result = "failed_unsaved" ~> ~unsaved

\* The last operation was refused, on a port nothing recorded describes.
Stuck == result = "refused" /\ ~KnownPort

\* Terraform gets there: run again and again, whatever failed, was refused or
\* drifted, it ends with the port the configuration asks for and plans that stay
\* clean.  Only a create on a port that already carries membership, a dual-mode
\* port without a tag, and the default VLAN of a context trunk can stand in its
\* way (Create, readVLANMembership).
SettlesUnlessRefused ==
  \/ <>[](/\ pc = "idle" /\ state = config
         /\ config # Absent => Meets(port, config, vlans))
  \/ []<>Stuck \/ <>[]~Readable

\* A healthy trunk plans with no changes, run after run.
EventuallyClean == <>[](pc = "idle" /\ state = config)
=============================================================================
