----------------------------- MODULE Connection -----------------------------
(***************************************************************************)
(* One connection from end to end: start-up, then the calls.  Session takes*)
(* over in the state SessionStart leaves: the same transport and           *)
(* connection, and as output whatever prompts are still unread.            *)
(***************************************************************************)
EXTENDS Session

CONSTANTS Settings, Banners

VARIABLES settings, pc, sent, echo, dialect, at, typed, shown, refused, late

Start == INSTANCE SessionStart

ASSUME ConnectionAssumption ==
  Settings \subseteq Start!Setting /\ Banners \subseteq Seq(Start!Printed)

startVars == <<settings, pc, sent, echo, dialect, at, typed, shown, refused, late>>

ConnectionInit == Init /\ Start!Init

Starting ==
  /\ Start!Next
  /\ output' = IF pc' = "ready" THEN [i \in 1..Len(shown') |-> BarePrompt(0)] ELSE output
  /\ UNCHANGED <<callVars, inConfigMode, prompt, lost, switchVars, input, ticket, base,
                 boundVars>>

\* Terraform hands the Client to resources only when Configure has succeeded.
\* Bound: what a late switch leaves on the wire is not followed any further.
Serving == pc = "ready" /\ ~late /\ Next /\ UNCHANGED startVars

ConnectionNext == Starting \/ Serving
ConnectionSpec ==
  /\ ConnectionInit /\ [][ConnectionNext]_<<vars, startVars>>
  /\ Start!Fairness /\ Fairness

PasswordAtItsPrompt == Start!PasswordAtItsPrompt
ReadyForCalls       == Start!ReadyForCalls
DialectFromConfig   == Start!DialectFromConfig
WaitsOnlyIfRefused  == Start!WaitsOnlyIfRefused
StartEnds           == Start!StartEnds
=============================================================================
