------------------------------ MODULE MCTelnet ------------------------------
(* Small instances of a whole connection, and of the telnet layer below it.   *)
(* SessionStart and Session take the decoded stream as given, and TelnetStream*)
(* says why they may.  The layers have no variable in common: what holds of   *)
(* each while it moves alone holds while both move.                           *)
EXTENDS MCConnection

CONSTANTS Messages, Commands, Sizes, MaxMessages, MaxLines, MayFail

VARIABLES inbound, state, cmd, lastCR, size, raw, out, replyErr, reply, left, closed,
          returned, heard, messages, said, lines, failed,
          layer              \* which of the two moves
Telnet == INSTANCE TelnetStream WITH sent <- messages

ASSUME TelnetAssumption == Telnet!Constants

streamVars == <<inbound, state, cmd, lastCR, size, raw, out, replyErr, reply, left, closed,
                returned, heard, messages, said, lines, failed>>

\* The layer below moves beside one connection that is about to start.
LayersInit ==
  /\ ConnectionInit /\ Telnet!Init
  /\ \/ layer = "connection"
     \/ layer = "stream" /\ settings = Full("telnet") /\ at = "user" /\ Len(shown) = 1 /\ ~late
LayersNext ==
  /\ \/ layer = "connection" /\ ConnectionNext /\ UNCHANGED streamVars
     \/ layer = "stream" /\ Telnet!Next /\ UNCHANGED <<vars, startVars>>
  /\ UNCHANGED layer
Layers == LayersInit /\ [][LayersNext]_<<vars, startVars, streamVars, layer>>

\* The layer below is asked for safety alone; fairness is the connection's.
LayersSpec == Layers /\ (layer = "connection" => Start!Fairness /\ Fairness)

DecodedIsMeant == Telnet!DecodedIsMeant
HeardIsMeant   == Telnet!HeardIsMeant

\* A connection that moves starts up or gives up (Start!StartEnds, readUntilPrompt).
ConnectionStarts == layer = "connection" => StartEnds

\* And then every call on it returns (Session!EveryCallReturns).
ConnectionReturns == layer = "connection" => EveryCallReturns

Sent(bytes, data, refusal) == [bytes |-> bytes, data |-> data, refusal |-> refusal]
Option(verb, option, refusal) == Sent(<<"IAC", verb, option>>, <<>>, refusal)
Silent(bytes) == Sent(bytes, <<>>, <<>>)

\* Both line endings and an escaped byte, each kind of proposal, an acknowledgement,
\* a command without an option, and two subnegotiations, of which one has an escaped
\* byte in it and the other is cut short.
EveryMessage ==
  {Sent(<<"CR", "NUL">>, <<"CR">>, <<>>), Sent(<<"CR", "LF">>, <<"CR", "LF">>, <<>>),
   Sent(<<"IAC", "IAC">>, <<"IAC">>, <<>>),
   Option("DO", "x", <<"IAC", "WONT", "x">>), Option("WILL", "IAC", <<"IAC", "DONT", "IAC">>),
   Option("WONT", "IAC", <<>>), Silent(<<"IAC", "NOP">>),
   Silent(<<"IAC", "SB", "IAC", "IAC", "IAC", "SE">>),
   Silent(<<"IAC", "SB", "DO", "IAC", "NOP">>)}
ALine == {<<"x", "IAC", "LF">>}
=============================================================================
