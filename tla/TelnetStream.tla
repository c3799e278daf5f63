----------------------------- MODULE TelnetStream -----------------------------
(***************************************************************************)
(* The telnet layer under the session (telnet.go): a reader that takes the  *)
(* option negotiation out of the stream, refusing whatever is proposed, and *)
(* a writer that shares the connection with the reader's refusals.          *)
(*                                                                         *)
(* The switch sends well-formed messages; the network cuts them anywhere,   *)
(* and each Read sees as much of them as there happens to be.               *)
(***************************************************************************)
EXTENDS Naturals, Sequences, SequencesExt

CONSTANTS Messages,    \* what the switch may send
          Commands,    \* the lines the session may write, byte by byte
          Sizes,       \* lengths of the buffers given to Read
          MaxMessages, MaxLines,   \* bounds
          MayFail                  \* whether deadlines may pass and the connection break

Writers == {"reader", "session"}
Bytes == {"IAC", "SE", "SB", "DO", "DONT", "WILL", "WONT", "NOP", "NUL", "CR", "LF", "x"}

\* A message: its bytes, the data it stands for, and the refusal due to it.
Message(bytes, data, refusal) == [bytes |-> bytes, data |-> data, refusal |-> refusal]

Constants ==
  /\ \A m \in Messages : /\ m.bytes \in Seq(Bytes) /\ m.data \in Seq(Bytes)
                         /\ m.refusal \in Seq(Bytes)
  /\ Commands \subseteq Seq(Bytes) \ {<<>>} /\ Sizes \subseteq Nat \ {0}
  /\ MaxMessages \in Nat /\ MaxLines \in Nat /\ MayFail \in BOOLEAN

VARIABLES
  inbound,             \* bytes sent by the switch and not read
  state, cmd, lastCR,  \* the decoder, carried across calls of Read
  size,                \* the length of the buffer Read was given; 0: nobody reads
  raw, out, replyErr,  \* inside Read: bytes to decode, data decoded, error of a reply
  reply,               \* the refusal the reader has to write before it goes on
  left,                \* what each writer has still to write; it holds wmu until then
  closed,              \* Read has returned an error
  returned, heard      \* all that Read returned, and all that reached the switch

\* For the properties: what the switch has sent, the writes in the order in which
\* they took wmu, the lines among them, and whether one has failed.
VARIABLES sent, said, lines, failed

decoderVars == <<state, cmd, lastCR>>
readVars == <<size, raw, out, replyErr, closed>>
writeVars == <<left, heard, said, lines, failed>>
vars == <<inbound, decoderVars, readVars, reply, returned, writeVars, sent>>

Init ==
  /\ inbound = <<>> /\ state = "data" /\ cmd = "none" /\ lastCR = FALSE
  /\ size = 0 /\ raw = <<>> /\ out = <<>> /\ replyErr = FALSE /\ reply = <<>>
  /\ left = [w \in Writers |-> <<>>] /\ closed = FALSE /\ returned = <<>> /\ heard = <<>>
  /\ sent = <<>> /\ said = <<>> /\ lines = 0 /\ failed = FALSE

-----------------------------------------------------------------------------
(* The switch.                                                               *)

SwitchSends(m) ==
  /\ Len(sent) < MaxMessages /\ sent' = Append(sent, m) /\ inbound' = inbound \o m.bytes
  /\ UNCHANGED <<decoderVars, readVars, reply, returned, writeVars>>

-----------------------------------------------------------------------------
(* The decoder: one byte after the other, stopping where a refusal is due.   *)

\* The rest of the record is the decoder's next state.
Emits(b, cr) == [state |-> "data", cmd |-> cmd, lastCR |-> cr, data |-> <<b>>, reply |-> <<>>]
Goes(to) == [state |-> to, cmd |-> cmd, lastCR |-> lastCR, data |-> <<>>, reply |-> <<>>]

Refusal(proposal, option) ==
  CASE proposal = "DO"   -> <<"IAC", "WONT", option>>
    [] proposal = "WILL" -> <<"IAC", "DONT", option>>
    [] OTHER             -> <<>>

OfData(b) ==
  CASE b = "IAC"            -> Goes("IAC")
    [] b = "NUL" /\ lastCR  -> [Goes("data") EXCEPT !.lastCR = FALSE]
    [] OTHER                -> Emits(b, b = "CR")

OfCommand(b) ==
  CASE b = "IAC"                           -> Emits(b, FALSE)
    [] b \in {"DO", "DONT", "WILL", "WONT"} -> [Goes("option") EXCEPT !.cmd = b]
    [] b = "SB"                            -> Goes("SB")
    [] OTHER                               -> Goes("data")

Decoded(b) ==
  CASE state = "data"   -> OfData(b)
    [] state = "IAC"    -> OfCommand(b)
    [] state = "option" -> [Goes("data") EXCEPT !.reply = Refusal(cmd, b)]
    [] state = "SB"     -> Goes(IF b = "IAC" THEN "SBIAC" ELSE "SB")
    [] state = "SBIAC"  -> Goes(IF b = "IAC" THEN "SB" ELSE "data")

Decode ==
  /\ raw # <<>> /\ reply = <<>>
  /\ LET d == Decoded(Head(raw)) IN
       /\ state' = d.state /\ cmd' = d.cmd /\ lastCR' = d.lastCR
       /\ out' = out \o d.data /\ reply' = d.reply
  /\ raw' = Tail(raw)
  /\ UNCHANGED <<inbound, size, replyErr, closed, returned, writeVars, sent>>

-----------------------------------------------------------------------------
(* Read.                                                                     *)

\* Mutated: the decoder starts anew in each Read.
ReadAnew ==
  /\ size = 0 /\ ~closed /\ size' \in Sizes /\ state' = "data" /\ lastCR' = FALSE
  /\ UNCHANGED <<inbound, cmd, raw, out, replyErr, closed, reply, returned, writeVars, sent>>

Read ==
  /\ size = 0 /\ ~closed /\ size' \in Sizes
  /\ UNCHANGED <<inbound, decoderVars, raw, out, replyErr, closed, reply, returned,
                 writeVars, sent>>

\* What was read has been decoded.
ChunkDone == size > 0 /\ raw = <<>> /\ reply = <<>>

\* The connection gives as many bytes as it likes, as far as they fit in the buffer.
Receive ==
  /\ ChunkDone /\ out = <<>> /\ ~replyErr /\ inbound # <<>>
  /\ \E n \in 1..size :
       /\ n <= Len(inbound)
       /\ raw' = SubSeq(inbound, 1, n) /\ inbound' = SubSeq(inbound, n + 1, Len(inbound))
  /\ UNCHANGED <<decoderVars, size, out, replyErr, closed, reply, returned, writeVars, sent>>

Return ==
  /\ ChunkDone /\ (out # <<>> \/ replyErr)
  /\ returned' = returned \o out /\ out' = <<>> /\ size' = 0 /\ closed' = replyErr
  /\ UNCHANGED <<inbound, decoderVars, raw, replyErr, reply, writeVars, sent>>

ReadFails ==
  /\ MayFail /\ ChunkDone /\ out = <<>> /\ ~replyErr
  /\ size' = 0 /\ closed' = TRUE
  /\ UNCHANGED <<inbound, decoderVars, raw, out, replyErr, reply, returned, writeVars, sent>>

-----------------------------------------------------------------------------
(* writeRaw, for the reader's refusals and the session's lines.              *)

\* Mutated: nobody waits for wmu.
FreeAlways == TRUE

Free == \A w \in Writers : left[w] = <<>>
Take(w, bytes, message) ==
  Free /\ left' = [left EXCEPT ![w] = bytes] /\ said' = Append(said, message)

Refuse ==
  /\ reply # <<>> /\ left["reader"] = <<>> /\ Take("reader", reply, [by |-> "reader", what |-> reply])
  /\ UNCHANGED <<inbound, decoderVars, readVars, reply, returned, heard, lines, failed, sent>>

Escape(line) == FlattenSeq([i \in 1..Len(line) |->
                              IF line[i] = "IAC" THEN <<"IAC", "IAC">> ELSE <<line[i]>>])

Write(line) ==
  /\ lines < MaxLines /\ lines' = lines + 1 /\ left["session"] = <<>>
  /\ Take("session", Escape(line), [by |-> "session", what |-> line])
  /\ UNCHANGED <<inbound, decoderVars, readVars, reply, returned, heard, failed, sent>>

\* One write of the connection takes some of the bytes.
Transmit(w) ==
  /\ \E n \in 1..Len(left[w]) :
       /\ heard' = heard \o SubSeq(left[w], 1, n)
       /\ left' = [left EXCEPT ![w] = SubSeq(left[w], n + 1, Len(left[w]))]
  /\ reply' = IF w = "reader" /\ left'[w] = <<>> THEN <<>> ELSE reply
  /\ UNCHANGED <<inbound, decoderVars, readVars, returned, said, lines, failed, sent>>

\* The deadline passes, or the connection breaks.
WriteFails(w) ==
  /\ MayFail /\ left[w] # <<>> /\ left' = [left EXCEPT ![w] = <<>>] /\ failed' = TRUE
  /\ replyErr' = (replyErr \/ w = "reader")
  /\ reply' = IF w = "reader" THEN <<>> ELSE reply
  /\ UNCHANGED <<inbound, decoderVars, size, raw, out, closed, returned, heard, said, lines, sent>>

-----------------------------------------------------------------------------
Next ==
  \/ \E m \in Messages : SwitchSends(m)
  \/ Read \/ Receive \/ Decode \/ Refuse \/ Return \/ ReadFails
  \/ \E line \in Commands : Write(line)
  \/ \E w \in Writers : Transmit(w) \/ WriteFails(w)
Spec == Init /\ [][Next]_vars

-----------------------------------------------------------------------------
\* All the switch meant to say, and all the refusals due to it.
Meant == FlattenSeq([i \in 1..Len(sent) |-> sent[i].data])
Due   == FlattenSeq([i \in 1..Len(sent) |-> sent[i].refusal])

\* Read is waiting for the switch, and has decoded all there is.
Waiting == ChunkDone /\ out = <<>> /\ ~replyErr /\ inbound = <<>>

\* However the network cuts the stream, Read returns the data the switch meant
\* and nothing else, and holds none of it back while it waits for more (decode,
\* whose state is carried from one Read to the next).
DecodedIsMeant ==
  /\ IsPrefix(returned \o out, Meant)
  /\ Waiting => returned = Meant

\* All the writers had to say, and the refusals among it.
Whole == FlattenSeq([i \in 1..Len(said) |->
                       IF said[i].by = "session" THEN Escape(said[i].what) ELSE said[i].what])
Refusals == FlattenSeq([i \in 1..Len(said) |->
                          IF said[i].by = "reader" THEN said[i].what ELSE <<>>])

\* Until a write fails, the switch hears whole lines and whole refusals, one after
\* the other although two goroutines write them, and each proposal is refused
\* once, in order, and nothing else is: negotiation cannot loop (writeRaw, wmu).
HeardIsMeant ==
  ~failed =>
    /\ heard \o left["reader"] \o left["session"] = Whole
    /\ IsPrefix(Refusals, Due) /\ (Waiting => Refusals = Due)

=============================================================================
