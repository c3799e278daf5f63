------------------------------ MODULE Executor ------------------------------
(***************************************************************************)
(* What internal/sshclient promises the resources that share one           *)
(* CommandExecutor: calls are served one at a time; the switch changes     *)
(* only on behalf of the call being served; a call that succeeds has had   *)
(* its whole effect.  Only when the session is gone may lines it left in   *)
(* the switch still run.  Session is shown to implement this.              *)
(***************************************************************************)
EXTENDS Integers, FiniteSets, SequencesExt

CONSTANTS Callers, NoCaller, Calls, NoCall

VARIABLES
  want,     \* per caller, the call it is blocked in
  holder,   \* whose call is being served
  ticket,   \* numbers the calls in the order they are served
  applied,  \* <<ticket, line>>: what has taken effect in the running configuration
  saved,    \* the startup configuration
  usable,   \* is there a session?
  reply     \* what the last call returned

vars == <<want, holder, ticket, applied, saved, usable, reply>>

Init ==
  /\ want = [c \in Callers |-> NoCall] /\ holder = NoCaller /\ ticket = 0
  /\ applied = {} /\ saved = {} /\ usable = TRUE
  /\ reply = [call |-> NoCall, result |-> "ok", data |-> {}]

Request(c, k) ==
  /\ want[c] = NoCall /\ want' = [want EXCEPT ![c] = k]
  /\ UNCHANGED <<holder, ticket, applied, saved, usable, reply>>

Begin(c) ==
  /\ holder = NoCaller /\ want[c] # NoCall
  /\ holder' = c /\ ticket' = ticket + 1
  /\ UNCHANGED <<want, applied, saved, usable, reply>>

Serving(ops) == holder # NoCaller /\ want[holder].op \in ops

\* A line of the call being served takes effect, or one that a lost session
\* left in the switch.  A line may end the session.
Apply ==
  /\ applied \subseteq applied' /\ Cardinality(applied' \ applied) = 1
  /\ \/ /\ Serving({"config", "prompt", "sever"})
        /\ applied' \ applied \subseteq {<<ticket, l>> : l \in ToSet(want[holder].lines)}
     \/ ~usable /\ \A x \in applied' \ applied : x[1] \in 1..ticket
  /\ usable' \in {usable, FALSE}
  /\ UNCHANGED <<want, holder, ticket, saved, reply>>

Store ==
  /\ Serving({"save", "sever"}) \/ ~usable
  /\ saved' = applied
  /\ UNCHANGED <<want, holder, ticket, applied, usable, reply>>

Lose ==
  /\ usable' = FALSE
  /\ UNCHANGED <<want, holder, ticket, applied, saved, reply>>

\* What it means for call k to succeed with result data.
Done(k, data) ==
  /\ k.op \in {"config", "prompt", "sever"} =>
       \A l \in ToSet(k.lines) : <<ticket, l>> \in applied
  /\ k.op = "save" \/ (k.op = "sever" /\ k.lines # <<>>) => saved = applied
  /\ k.op = "show" => data = applied

Return(c) ==
  /\ holder = c /\ holder' = NoCaller /\ want' = [want EXCEPT ![c] = NoCall]
  /\ reply'.call = want[c]
  /\ reply'.result = "ok" => Done(want[c], reply'.data)
  /\ usable' \in {usable, FALSE}
  /\ UNCHANGED <<ticket, applied, saved>>

Next == \/ \E c \in Callers : Begin(c) \/ Return(c) \/ \E k \in Calls : Request(c, k)
        \/ Apply \/ Store \/ Lose
Spec == Init /\ [][Next]_vars
=============================================================================
