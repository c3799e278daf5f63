--------------------------- MODULE GlobalSettings ---------------------------
(***************************************************************************)
(* The global resources of one switch, applied together.  Terraform        *)
(* refreshes, plans, and runs the operations concurrently; an operation is  *)
(* a few session calls, each a step of its own because the session's mutex  *)
(* is held for one call.  A call may be refused part of the way, or the     *)
(* session may be lost under it; then every later call of this apply fails. *)
(* `write memory' saves the whole running configuration, whoever asks, and  *)
(* a switch that reboots comes back with what was saved.                    *)
(***************************************************************************)
EXTENDS SettingLines

CONSTANTS Groups,       \* the sets of resources managed together
          Plans,        \* for each resource, what its configuration may be
          Factory,      \* the running configuration at first
          MaxEdits,     \* bound: edits of the configuration
          MaxFailures,  \* bound: calls refused, and sessions lost under a call
          MaxReboots    \* bound: reboots of the switch

ASSUME GlobalSettingsAssumption ==
  /\ \A G \in Groups : G \subseteq DOMAIN Plans
  /\ DOMAIN Plans \subseteq Resources
  /\ \A r \in DOMAIN Plans : \A w \in Plans[r] : ProperPlan(r, w)
  /\ ProperConf(Factory) /\ Factory[OwnAccount] # None
  /\ {MaxEdits, MaxFailures, MaxReboots} \subseteq Nat

VARIABLES
  running, startup,     \* the switch's two configurations
  session,              \* "up" or "lost"
  config, state,        \* what the operator wants; what terraform recorded
  pc, calls,            \* where each operation is, and the calls it has still to make
  new,                  \* what it records when it succeeds
  touched,              \* the settings it has changed
  rename,               \* has it to change the hostname: "no", "asked" or "done"
  result,               \* how the last operation ended
  edits, failures, reboots

switchVars == <<running, startup, session>>
opVars     == <<pc, calls, new, touched, rename, result>>
boundVars  == <<edits, failures, reboots>>
vars == <<switchVars, config, state, opVars, boundVars>>

Managed == DOMAIN config
All(value) == [r \in Managed |-> value]

Init ==
  /\ running = Factory /\ startup = Factory /\ session = "up"
  /\ \E G \in Groups : config \in {c \in [G -> UNION {Plans[r] : r \in G}] :
                                     \A r \in G : c[r] \in Plans[r]}
  /\ state = All(Absent) /\ pc = All("idle") /\ calls = All(<<>>) /\ new = All(Absent)
  /\ touched = All({}) /\ rename = All("no") /\ result = All("none")
  /\ edits = 0 /\ failures = 0 /\ reboots = 0

AtRest == \A r \in Managed : pc[r] = "idle"

-----------------------------------------------------------------------------
(* The operator and terraform.                                               *)

Edit(r) ==
  /\ AtRest /\ edits < MaxEdits /\ edits' = edits + 1
  /\ \E w \in Plans[r] \cup {Absent} : w # config[r] /\ config' = [config EXCEPT ![r] = w]
  /\ UNCHANGED <<switchVars, state, opVars, failures, reboots>>

\* An attribute that is omitted and kept shows no difference.
Differs(plan, recorded) ==
  IF Absent \in {plan, recorded} THEN plan # recorded
  ELSE \E a \in DOMAIN plan :
         /\ "keep" \in DOMAIN plan => a \notin plan.keep \cup {"keep"}
         /\ plan[a] # recorded[a]

\* ModifyPlan of icx_management_ip: the plan as a whole is refused.
PlanRefused(refreshed) ==
  LET r == "management_ip" IN
  /\ r \in Managed /\ config[r] # Absent
  /\ Denied(r, Keeping(config[r], refreshed[r], running),
             IF refreshed[r] = Absent THEN Fresh(r, config[r], running) ELSE refreshed[r])

\* Each run of terraform opens a session, refreshes, and starts an operation for
\* every difference.  For a create, ModifyPlan lets a plan pass if it cannot read
\* the switch.
Plan ==
  /\ AtRest /\ session' = "up" /\ new' = All(Absent)
  /\ state' = [r \in Managed |-> IF state[r] = Absent THEN Absent
                                 ELSE ReadBack(r, state[r], running)]
  /\ \/ /\ PlanRefused(state') => state'["management_ip"] = Absent
        /\ pc' = [r \in Managed |-> IF Differs(config[r], state'[r]) THEN "begin" ELSE "idle"]
        /\ UNCHANGED result
     \/ /\ PlanRefused(state') /\ pc' = pc
        /\ result' = [result EXCEPT !["management_ip"] = "denied"]
  /\ touched' = [r \in Managed |-> IF pc'[r] = "begin" THEN {} ELSE touched[r]]
  /\ rename' = [r \in Managed |-> IF pc'[r] = "begin" THEN "no" ELSE rename[r]]
  /\ UNCHANGED <<running, startup, config, calls, boundVars>>

-----------------------------------------------------------------------------
(* An operation.                                                             *)

\* What is left of it when these calls are: the next call, or its end.
Continue(r, rest) ==
  /\ calls' = [calls EXCEPT ![r] = rest]
  /\ IF rest # <<>> THEN UNCHANGED <<state, pc, result>>
     ELSE /\ pc' = [pc EXCEPT ![r] = "idle"]
          /\ result' = [result EXCEPT ![r] = "ok"]
          /\ state' = [state EXCEPT ![r] = new'[r]]

\* Mutated: the calls that were left are not dropped.
EndKeepingCalls(r, outcome) ==
  /\ pc' = [pc EXCEPT ![r] = "idle"] /\ UNCHANGED calls
  /\ result' = [result EXCEPT ![r] = outcome]

\* The operation returns: what was left of its calls is not made.
End(r, outcome) ==
  /\ pc' = [pc EXCEPT ![r] = "idle"] /\ calls' = [calls EXCEPT ![r] = <<>>]
  /\ result' = [result EXCEPT ![r] = outcome]

\* Creates that leave something to the device, or look for trunks, read it first.
Reads(r) == /\ state[r] = Absent
            /\ r \in {"management_ip", "vlan"} \/ (r = "system" /\ "hostname" \in config[r].keep)

Begin(r) ==
  LET old == IF state[r] = Absent THEN Fresh(r, config[r], running) ELSE state[r]
      plan == IF config[r] = Absent THEN Absent ELSE Keeping(config[r], state[r], running)
      todo == CASE config[r] = Absent -> Delete(r, state[r])
                [] state[r] = Absent  -> Create(r, plan, running)
                [] OTHER              -> Update(r, plan, state[r]) IN
  /\ pc[r] = "begin"
  /\ UNCHANGED touched
  /\ rename' = [rename EXCEPT ![r] = IF \E i \in DOMAIN todo : todo[i].kind = "hostname"
                                     THEN "asked" ELSE "no"]
  /\ new' = [new EXCEPT ![r] = plan]
  /\ IF Reads(r) /\ session = "lost" THEN End(r, "lost") /\ UNCHANGED state
     ELSE IF Denied(r, plan, old) THEN End(r, "denied") /\ UNCHANGED state
     ELSE IF todo = <<>> THEN Continue(r, <<>>)
     ELSE /\ pc' = [pc EXCEPT ![r] = "calls"]
          /\ calls' = [calls EXCEPT ![r] = todo] /\ UNCHANGED <<state, result>>
  /\ UNCHANGED <<switchVars, config, boundVars>>

Run(r, lines) ==
  /\ running' = After(running, lines)
  /\ touched' = [touched EXCEPT ![r] = @ \cup {lines[i].key : i \in DOMAIN lines}]

CallDone(r) ==
  LET call == Head(calls[r]) IN
  /\ pc[r] = "calls" /\ session = "up" /\ Run(r, call.lines)
  /\ startup' = IF call.kind \in {"save", "risky"} THEN running' ELSE startup
  /\ rename' = [rename EXCEPT ![r] = IF call.kind = "hostname" THEN "done" ELSE @]
  /\ UNCHANGED new /\ Continue(r, Tail(calls[r]))
  /\ UNCHANGED <<session, config, boundVars>>

\* Mutated: the hostname is left unsaved.
RescuesNothing(r, call) == FALSE

\* icx_system saves a hostname that went live before a later line failed.
Rescues(r, call) == r = "system" /\ rename[r] = "done" /\ call.kind = "config"

\* How an operation ends when this call fails on a session that is still up.
Fail(r, call) ==
  IF Rescues(r, call)
  THEN /\ pc' = [pc EXCEPT ![r] = "rescue"] /\ calls' = [calls EXCEPT ![r] = Saving]
       /\ UNCHANGED result
  ELSE End(r, IF call.kind = "save" THEN "unsaved" ELSE "refused")

\* A line is refused: the rest of the call is not sent, but for a risky batch,
\* which is in the switch's input as a whole.
CallRefused(r) ==
  LET call == Head(calls[r]) IN
  /\ pc[r] = "calls" /\ session = "up" /\ failures < MaxFailures /\ failures' = failures + 1
  /\ CASE call.kind = "save" -> UNCHANGED <<running, startup, touched>>
       [] call.kind = "risky" ->
            \/ /\ \E i \in DOMAIN call.lines : Run(r, RemoveAt(call.lines, i))
               /\ startup' = running'
            \/ Run(r, call.lines) /\ UNCHANGED startup
       [] OTHER -> /\ \E n \in 0..(Len(call.lines) - 1) : Run(r, SubSeq(call.lines, 1, n))
                   /\ UNCHANGED startup
  /\ Fail(r, call)
  /\ UNCHANGED <<session, config, state, new, rename, edits, reboots>>

\* The session is lost under a call, of which the switch has run any part.  If a
\* risky batch had been sent, that is expected and the plan is recorded.
SessionLost(r) ==
  LET call == Head(calls[r]) IN
  /\ pc[r] = "calls" /\ session = "up" /\ failures < MaxFailures /\ failures' = failures + 1
  /\ session' = "lost"
  /\ \E n \in 0..Len(call.lines) :
       /\ Run(r, SubSeq(call.lines, 1, n))
       /\ IF call.kind \in {"save", "risky"} /\ n = Len(call.lines)
          THEN startup' \in {startup, running'} ELSE UNCHANGED startup
  /\ \/ End(r, "lost") /\ UNCHANGED state
     \/ /\ call.kind = "risky" /\ End(r, "severed")
        /\ state' = [state EXCEPT ![r] = new[r]]
  /\ UNCHANGED <<config, new, rename, edits, reboots>>

\* Every call on a lost session fails at once.
CallDead(r) ==
  /\ pc[r] \in {"calls", "rescue"} /\ session = "lost" /\ End(r, "lost")
  /\ UNCHANGED <<switchVars, config, state, new, touched, rename, boundVars>>

Rescue(r) ==
  /\ pc[r] = "rescue" /\ session = "up" /\ startup' = running /\ End(r, "refused")
  /\ UNCHANGED <<running, session, config, state, new, touched, rename, boundVars>>

RescueFails(r) ==
  /\ pc[r] = "rescue" /\ session = "up" /\ failures < MaxFailures /\ failures' = failures + 1
  /\ session' \in {"up", "lost"} /\ End(r, "unsaved")
  /\ UNCHANGED <<running, startup, config, state, new, touched, rename, edits, reboots>>

\* The switch forgets what was not saved, and the session with it.
Reboot ==
  /\ reboots < MaxReboots /\ reboots' = reboots + 1
  /\ running' = startup /\ session' = "lost"
  /\ UNCHANGED <<startup, config, state, opVars, edits, failures>>

-----------------------------------------------------------------------------
Step(r) == Begin(r) \/ CallDone(r) \/ CallRefused(r) \/ SessionLost(r) \/ CallDead(r)
             \/ Rescue(r) \/ RescueFails(r)
Next == (\E r \in Managed : Edit(r) \/ Step(r)) \/ Plan \/ Reboot
Spec == Init /\ [][Next]_vars

\* Every operation that was started goes on, and terraform is run again.
FairSpec == Spec /\ WF_vars(Plan) /\ WF_vars(\E r \in Managed : Step(r))

-----------------------------------------------------------------------------
\* What a plan or a state of a resource looks like.
Recordable(r) == {w \in {config[r], state[r], new[r]} : w # Absent}

\* Every variable has its type; in particular a recorded state has the
\* attributes of the resource's plans, and what is still to be called fits where
\* the operation is.
TypeOK ==
  /\ DOMAIN running = Settings /\ DOMAIN startup = Settings /\ session \in {"up", "lost"}
  /\ \A r \in Managed :
       /\ pc[r] \in {"idle", "begin", "calls", "rescue"}
       /\ calls[r] # <<>> <=> pc[r] \in {"calls", "rescue"}
       /\ \A w \in Recordable(r), p \in Plans[r] : DOMAIN w = DOMAIN p
       /\ touched[r] \subseteq Settings /\ rename[r] \in {"no", "asked", "done"}
       /\ result[r] \in {"none", "ok", "refused", "unsaved", "lost", "severed", "denied"}

\* Lists that no Read sees and that an update edits entry by entry: once a call
\* failed half way, or a reboot took back what was not saved, the state may be
\* wrong about them.
Piecemeal == {"communities", "ve_lines", "vlan_lines"}
Unverified == IF failures = 0 /\ reboots = 0 THEN {} ELSE Piecemeal

\* An operation that succeeded is on the saved configuration: what it changed
\* is there, as it was recorded, and no reboot takes it back, whatever the other
\* operations did in between (WriteMemory after every list of lines).
SuccessSurvivesReboot ==
  \A r \in Managed : (pc[r] = "idle" /\ result[r] = "ok") =>
    \A key \in touched[r] :
      /\ startup[key] = running[key]
      /\ (state[r] # Absent /\ key \in DOMAIN Wanted(r, state[r]) \ Unverified) =>
           Carries(startup, key, Wanted(r, state[r])[key])

\* An icx_system operation that was to rename the switch and was refused,
\* whichever of its lines it was, leaves nothing of itself applied but unsaved
\* (applyCommands), unless the session or the save failed as well.
RenameStrandsNothing ==
  (/\ "system" \in Managed /\ pc["system"] = "idle" /\ result["system"] = "refused"
   /\ rename["system"] # "no") =>
    \A key \in touched["system"] : startup[key] = running[key]

\* Moving the address takes the new gateway along, if none of the two lines is
\* refused: however the session breaks, the switch is never at its new address
\* with its old gateway (the order of icx_management_ip's risky batch).
AddressTakesGatewayAlong ==
  [][(/\ "management_ip" \in Managed /\ running'["address"] # running["address"]
      /\ reboots' = reboots /\ result'["management_ip"] # "refused") =>
       new["management_ip"].gateway \in {None, running'["gateway"]}]_vars

\* Only an operation that was given leave moves the address or the gateway, and
\* no destroy does.
MovesOnlyWithLeave ==
  [][(/\ "management_ip" \in Managed /\ reboots' = reboots
      /\ running'["address"] # running["address"] \/ running'["gateway"] # running["gateway"]) =>
       new["management_ip"] # Absent /\ new["management_ip"].allow]_vars

\* A priority without spanning tree is never sent, and one that is no longer
\* wanted never taken away.
PriorityUnsent(plan) ==
  running["stp_priority"] # plan.stp_priority /\ (plan.stp_priority = None \/ ~plan.spanning_tree)

\* Whatever was refused, lost or rebooted, terraform run again ends with the
\* switch carrying what each resource asks for, as far as its Read can see, and
\* with clean plans, unless it refuses to go on, and but for a VLAN's priority and
\* for lists, which read back in the order of the switch.
EventuallySettles ==
  <>[](\A r \in Managed :
         \/ config[r] = Absent \/ \E refused \in Managed : result[refused] = "denied"
         \/ r = "vlan" /\ PriorityUnsent(config[r])
         \/ /\ Meets(r, running, config[r])
            /\ r \notin {"ntp", "logging"} => pc[r] = "idle" /\ ~Differs(config[r], state[r]))
=============================================================================
