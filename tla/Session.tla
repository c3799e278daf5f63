------------------------------- MODULE Session -------------------------------
(***************************************************************************)
(* The CLI session of the provider: internal/sshclient's Client, shared by *)
(* every resource operation Terraform runs in parallel, and the switch it  *)
(* talks to over one SSH shell or one telnet connection.                   *)
(*                                                                         *)
(* The protocol has no request ids.  The client writes a line and takes    *)
(* everything up to the next prompt to be that line's answer; the two      *)
(* directions of the byte stream are the FIFO queues `input' (lines the    *)
(* switch has received and not run) and `output' (answers, each ending in  *)
(* a prompt, that the client has not read).  An answer may still be in     *)
(* flight: whether a read or a drain finds it is nondeterministic.         *)
(***************************************************************************)
EXTENDS Integers, FiniteSets, SequencesExt

CONSTANTS Callers,      \* concurrent resource operations sharing the Client
          NoCaller,     \* the free mutex
          FirstWords,   \* the first words of the lines they send
          Calls,        \* the calls on the Client they may make
          Transports,   \* which of AllTransports the session may run over
          MaxCalls,     \* bound: calls per behaviour
          MaxTimeouts,  \* bound: read deadlines that pass on a live connection
          MaxStrays,    \* bound: stray prompts a telnet switch prints
          NetMayFail,   \* may the connection break by itself?
          ShowAnywhere  \* does the switch answer `show' in config mode too?

AllTransports == {"ssh", "telnetEcho", "telnetSilent"}
Kinds == {"conf", "end", "save", "show", "global", "shared", "enter", "sub",
          "exit", "addr", "name", "ctrl"}
Ops == {"none", "execute", "config", "prompt", "sever", "save", "show", "close"}

\* A line of CLI: its first word, what distinguishes it from other lines with
\* that word, and what it does.  "shared" is a global command whose spelling is
\* also an interface command; "ctrl" is a line with a control character in it.
Command == [verb : FirstWords, arg : Nat, kind : Kinds]
Conf       == [verb |-> "configure", arg |-> 0, kind |-> "conf"]
End        == [verb |-> "end",       arg |-> 0, kind |-> "end"]
Save       == [verb |-> "write",     arg |-> 0, kind |-> "save"]
ShowConfig == [verb |-> "show",      arg |-> 0, kind |-> "show"]
NoCommand  == [verb |-> "none",          arg |-> 0, kind |-> "ctrl"]

Call == [op : Ops, lines : Seq(Command)]
NoCall == [op |-> "none", lines |-> <<>>]

ASSUME SessionAssumption ==
  /\ NoCaller \notin Callers
  /\ {"configure", "end", "write", "show", "none"} \subseteq FirstWords
  /\ Calls \subseteq Call /\ NoCall \notin Calls
  /\ Transports \subseteq AllTransports
  /\ {MaxCalls, MaxTimeouts, MaxStrays} \subseteq Nat
  /\ {NetMayFail, ShowAnywhere} \subseteq BOOLEAN

VARIABLES
  \* the mutex and the call that holds it
  holder,        \* who holds mu
  want,          \* per caller, the call it is blocked in
  todo,          \* the writes that call has still to make, each a batch of lines
  awaiting,      \* lines written whose prompts have not been read
  rejected,      \* cliErr: a line of the batch drew a CLI error
  got,           \* the last answer read, for GetRunningConfig to return
  \* the rest of the Client
  inConfigMode, prompt, lost, transport,
  \* the switch
  mode, hostname, running, startup, input, output, conn,
  \* bookkeeping for the properties, and the bounds
  ticket,        \* calls started so far; numbers the current one
  base,          \* the running configuration when the current call began
  claimed,       \* lines callers were told have been applied
  report,        \* what the last call returned
  timeouts, strays

callVars   == <<holder, want, todo, awaiting, rejected, got, report, claimed>>
clientVars == <<inConfigMode, prompt, lost, transport>>
switchVars == <<mode, hostname, running, startup>>
wireVars   == <<input, output, conn>>
boundVars  == <<timeouts, strays>>
vars == <<callVars, clientVars, switchVars, wireVars, ticket, base, boundVars>>

Answer(t, c, ok, name, cfg) ==
  [ticket |-> t, cmd |-> c, ok |-> ok, part |-> "whole", prompt |-> name, config |-> cfg]
BarePrompt(name) == [Answer(0, NoCommand, TRUE, name, {}) EXCEPT !.part = "prompt"]
NoAnswer == BarePrompt(0)

\* What detectCLIError finds in an answer: a rejection, unless all that is left
\* of the answer is its prompt.
CLIError(a) == ~a.ok /\ a.part # "prompt"

Lines(t, k) == {<<t, c>> : c \in ToSet(k.lines)}
Items(cfg) == {<<e.ticket, e.cmd>> : e \in cfg}

Init ==
  /\ holder = NoCaller
  /\ want = [c \in Callers |-> NoCall]
  /\ todo = <<>> /\ awaiting = <<>> /\ rejected = FALSE /\ got = NoAnswer
  /\ inConfigMode = FALSE /\ prompt = 0 /\ lost = "no" /\ transport \in Transports
  /\ mode = "exec" /\ hostname = 0 /\ running = {} /\ startup = {}
  /\ input = <<>> /\ output = <<>> /\ conn = "up"
  /\ ticket = 0 /\ base = {} /\ claimed = {}
  /\ report = [call |-> NoCall, result |-> "ok", data |-> NoAnswer, base |-> {}]
  /\ timeouts = 0 /\ strays = 0

-----------------------------------------------------------------------------
(* Calls: the exported methods of Client, each under mu from end to end.     *)

\* ExecuteInConfigMode, ExecutePromptChanging and ExecuteExpectingDisconnect
\* enter config mode first; WriteMemory, GetRunningConfig and Close leave it.
EnterConfig == IF inConfigMode THEN <<>> ELSE <<<<Conf>>>>
\* Mutated: a call that needs EXEC mode does not leave config mode.
LeaveConfigNever == <<>>

LeaveConfig == IF inConfigMode THEN <<<<End>>>> ELSE <<>>

\* Mutated: the address batch goes out a line at a time.
WritesLineByLine(k) ==
  CASE k.op \in {"config", "prompt", "sever"} ->
         EnterConfig \o [i \in 1..Len(k.lines) |-> <<k.lines[i]>>]
           \o (IF k.op = "sever" THEN <<<<End>>, <<Save>>>> ELSE <<>>)
    [] k.op = "execute" -> <<k.lines>>
    [] OTHER -> LeaveConfig \o (CASE k.op = "save" -> <<<<Save>>>>
                                  [] k.op = "show" -> <<<<ShowConfig>>>>
                                  [] OTHER -> <<>>)

\* The writes a call makes: one line at a time, each answered before the next,
\* but the whole of ExecuteExpectingDisconnect's batch in a single write.
Writes(k) ==
  CASE k.op = "execute" -> <<k.lines>>
    [] k.op \in {"config", "prompt"} ->
         EnterConfig \o [i \in 1..Len(k.lines) |-> <<k.lines[i]>>]
    [] k.op = "sever" ->
         IF k.lines = <<>> THEN <<>> ELSE EnterConfig \o <<k.lines \o <<End, Save>>>>
    [] k.op = "save"  -> LeaveConfig \o <<<<Save>>>>
    [] k.op = "show"  -> LeaveConfig \o <<<<ShowConfig>>>>
    [] OTHER -> LeaveConfig

\* The lines of the current call's disconnect-tolerant batch; every other line
\* is sent by execute or ExecutePromptChanging.
InBatch(k, c) == k.op = "sever" /\ c # Conf

Request(c, k) ==
  /\ want[c] = NoCall
  /\ ticket + Cardinality({d \in Callers \ {holder} : want[d] # NoCall}) < MaxCalls
  /\ want' = [want EXCEPT ![c] = k]
  /\ UNCHANGED <<holder, todo, awaiting, rejected, got, report, claimed, clientVars,
                 switchVars, wireVars, ticket, base, boundVars>>

Acquire(c) ==
  /\ holder = NoCaller /\ want[c] # NoCall
  /\ holder' = c /\ todo' = Writes(want[c])
  /\ ticket' = ticket + 1 /\ base' = running
  /\ UNCHANGED <<want, awaiting, rejected, got, report, claimed, clientVars,
                 switchVars, wireVars, boundVars>>

\* The call returns and mu is released.
Return(c, result) ==
  /\ holder' = NoCaller /\ want' = [want EXCEPT ![c] = NoCall]
  /\ todo' = <<>> /\ awaiting' = <<>> /\ rejected' = FALSE /\ got' = NoAnswer
  /\ report' = [call |-> want[c], result |-> result, data |-> got, base |-> base]
  /\ claimed' = IF result = "ok" /\ want[c].op \in {"config", "prompt", "sever"}
                THEN claimed \cup Lines(ticket, want[c]) ELSE claimed
  /\ UNCHANGED <<switchVars, ticket, base, transport>>

\* Close releases the transport and forgets config mode whether or not the
\* `end' it sent succeeded; every other call leaves both as they are.
Fail(c, result, cause) ==
  /\ Return(c, result)
  /\ lost' = cause
  /\ IF want[c].op = "close"
     THEN inConfigMode' = FALSE /\ conn' = "closed"
     ELSE UNCHANGED <<inConfigMode, conn>>

\* Mutated: the batch ends without noting that its `end' left config mode.
FinishInConfigMode(c) ==
  /\ holder = c /\ todo = <<>> /\ awaiting = <<>>
  /\ Return(c, IF rejected THEN "cli" ELSE "ok")
  /\ conn' = IF want[c].op = "close" THEN "closed" ELSE conn
  /\ UNCHANGED <<inConfigMode, prompt, lost, input, output, boundVars>>
\* Mutated: the error of a line early in the batch is forgotten.
FinishForgetsError(c) ==
  /\ holder = c /\ todo = <<>> /\ awaiting = <<>>
  /\ Return(c, "ok")
  /\ inConfigMode' = IF want[c].op = "sever" /\ want[c].lines # <<>>
                     THEN FALSE ELSE inConfigMode
  /\ conn' = IF want[c].op = "close" THEN "closed" ELSE conn
  /\ UNCHANGED <<prompt, lost, input, output, boundVars>>

Finish(c) ==
  /\ holder = c /\ todo = <<>> /\ awaiting = <<>>
  /\ Return(c, IF rejected THEN "cli" ELSE "ok")
  /\ inConfigMode' = IF want[c].op = "sever" /\ want[c].lines # <<>>
                     THEN FALSE ELSE inConfigMode
  /\ conn' = IF want[c].op = "close" THEN "closed" ELSE conn
  /\ UNCHANGED <<prompt, lost, input, output, boundVars>>

-----------------------------------------------------------------------------
(* One write, and the checks in front of it.                                 *)

Sending(c) == holder = c /\ awaiting = <<>> /\ todo # <<>>

\* A line with a control character is never sent.  ExecuteExpectingDisconnect
\* looks at its whole batch before it does anything.
Unsendable(k) == \E l \in ToSet(IF k.op = "sever" THEN k.lines ELSE Head(todo)) :
                    l.kind = "ctrl"

Refuse(c) ==
  /\ Sending(c) /\ Unsendable(want[c])
  /\ Fail(c, "refused", lost)
  /\ UNCHANGED <<prompt, input, output, boundVars>>

FailLost(c) ==
  /\ Sending(c) /\ ~Unsendable(want[c]) /\ lost # "no"
  /\ Fail(c, "lost", lost)
  /\ UNCHANGED <<prompt, input, output, boundVars>>

Ready(c) == Sending(c) /\ ~Unsendable(want[c]) /\ lost = "no"

\* Over telnet the first n answers have arrived by the time of the drain.
Arrived(n) == IF transport = "ssh" THEN n = 0 ELSE n \in 0..Len(output)
\* Mutated: a drain drops whatever it finds.
DroppableAnything(n) == n \in Nat

Droppable(n) == \A i \in 1..n : output[i].part = "prompt" /\ output[i].prompt = prompt

Send(c) == \E n \in 0..Len(output) :
  /\ Ready(c) /\ Arrived(n) /\ Droppable(n)
  /\ awaiting' = Head(todo) /\ todo' = Tail(todo)
  /\ output' = SubSeq(output, n + 1, Len(output))
  /\ input' = IF conn = "up"
              THEN input \o [i \in 1..Len(Head(todo)) |->
                               [ticket |-> ticket, cmd |-> Head(todo)[i]]]
              ELSE input
  /\ UNCHANGED <<holder, want, rejected, got, report, claimed, clientVars, switchVars,
                 conn, ticket, base, boundVars>>

\* What had arrived is not just prompts: an earlier read ended early.
DrainFindsOutput(c) == \E n \in 1..Len(output) :
  /\ Ready(c) /\ Arrived(n) /\ ~Droppable(n)
  /\ Fail(c, "lost", "outofsync")
  /\ UNCHANGED <<prompt, input, output, boundVars>>

\* The connection is gone: the write, or the drain before it, returns an error.
\* That alone does not mark the session lost.
WriteFails(c) ==
  /\ Ready(c) /\ conn # "up"
  /\ Fail(c, "io", lost)
  /\ UNCHANGED <<prompt, input, output, boundVars>>

-----------------------------------------------------------------------------
(* Reading the answer to the first line of `awaiting'.                       *)

\* readNewPrompt takes the first prompt of any hostname; readUntilPrompt takes
\* everything up to a prompt of the hostname it knows.
AnyPrompt(c) == want[c].op = "prompt" /\ Head(awaiting) # Conf
Completes(c, k) ==
  IF AnyPrompt(c) THEN k = 1
  ELSE output[k].prompt = prompt /\ \A j \in 1..k-1 : output[j].prompt # prompt

\* Mutated: the echo is not looked at.
EchoUnchecked == FALSE

\* verifyEchoIfTelnet: only the first word has to agree.
EchoMissing == /\ transport = "telnetEcho"
               /\ \/ output[1].part # "whole"
                  \/ output[1].cmd.verb # Head(awaiting).verb

\* Mutated: the batch's output is read but not looked at.
CheckedOutsideBatches(c) == /\ want[c].op \in {"config", "prompt", "save"}
                            /\ Head(awaiting) \notin {Conf, End}
\* Mutated: WriteMemory takes any answer for success.
CheckedButNotSave(c) == \/ InBatch(want[c], Head(awaiting))
                        \/ /\ want[c].op \in {"config", "prompt"}
                           /\ Head(awaiting) # Conf

\* Which errors the call looks for: those of `configure terminal', `end' and of
\* show commands are not looked at, except inside a batch.
Checked(c) == \/ InBatch(want[c], Head(awaiting))
              \/ /\ want[c].op \in {"config", "prompt", "save"}
                 /\ Head(awaiting) \notin {Conf, End}

\* Mutated: the new prompt is seen but not installed.
TakeAnswerOldPrompt(c, k) ==
  /\ output' = SubSeq(output, k + 1, Len(output))
  /\ UNCHANGED <<prompt, input, boundVars>>

TakeAnswer(c, k) ==
  /\ output' = SubSeq(output, k + 1, Len(output))
  /\ prompt' = IF AnyPrompt(c) THEN output[1].prompt ELSE prompt
  /\ UNCHANGED <<input, boundVars>>

Read(c) == \E k \in 1..Len(output) :
  /\ holder = c /\ awaiting # <<>> /\ Completes(c, k) /\ ~EchoMissing
  /\ LET bad == Checked(c) /\ \E j \in 1..k : CLIError(output[j]) IN
     /\ bad => InBatch(want[c], Head(awaiting))
     /\ rejected' = (rejected \/ bad)
  /\ TakeAnswer(c, k)
  /\ awaiting' = Tail(awaiting)
  /\ got' = IF want[c].op # "show" THEN got
            ELSE IF k = 1 THEN output[1] ELSE NoAnswer
  /\ inConfigMode' = IF InBatch(want[c], Head(awaiting)) THEN inConfigMode
                     ELSE CASE Head(awaiting) = Conf -> TRUE
                            [] Head(awaiting) = End  -> FALSE
                            [] OTHER -> inConfigMode
  /\ UNCHANGED <<holder, want, todo, report, claimed, lost, transport, switchVars,
                 conn, ticket, base>>

\* Mutated: a batch too returns at its first error, leaving prompts unread.
ReadRejectionInBatchToo(c) == \E k \in 1..Len(output) :
  /\ holder = c /\ awaiting # <<>> /\ Completes(c, k) /\ ~EchoMissing
  /\ Checked(c)
  /\ \E j \in 1..k : CLIError(output[j])
  /\ TakeAnswer(c, k)
  /\ Fail(c, "cli", lost)

\* Outside a batch the first CLI error ends the call; the shell stays wherever
\* the lines before it led.
ReadRejection(c) == \E k \in 1..Len(output) :
  /\ holder = c /\ awaiting # <<>> /\ Completes(c, k) /\ ~EchoMissing
  /\ Checked(c) /\ ~InBatch(want[c], Head(awaiting))
  /\ \E j \in 1..k : CLIError(output[j])
  /\ TakeAnswer(c, k)
  /\ Fail(c, "cli", lost)

ReadOutOfSync(c) == \E k \in 1..Len(output) :
  /\ holder = c /\ awaiting # <<>> /\ Completes(c, k) /\ EchoMissing
  /\ TakeAnswer(c, k)
  /\ Fail(c, "lost", "outofsync")

\* Mutated: an unrecognised prompt after `hostname' is an error like any other.
CauseUnlessHostname(c) == IF InBatch(want[c], Head(awaiting)) THEN "severed" ELSE lost

\* What a failed read does to the session: nothing, unless the line was in a
\* disconnect-tolerant batch or was the one that changes the prompt.
CauseOfFailedRead(c) ==
  CASE InBatch(want[c], Head(awaiting)) -> "severed"
    [] AnyPrompt(c) -> "hostname"
    [] OTHER -> lost

\* Mutated: the reads of a batch have no deadline.
TimeoutOutsideBatches(c) == \E n \in 0..Len(output) :
  /\ holder = c /\ awaiting # <<>> /\ conn = "up" /\ timeouts < MaxTimeouts
  /\ ~InBatch(want[c], Head(awaiting)) /\ \A k \in 1..n : ~Completes(c, k)
  /\ output' = SubSeq(output, n + 1, Len(output))
  /\ timeouts' = timeouts + 1
  /\ Fail(c, IF CauseOfFailedRead(c) = lost THEN "io" ELSE "lost", CauseOfFailedRead(c))
  /\ UNCHANGED <<prompt, input, strays>>

\* The deadline passes.  n answers that do not complete the read, and possibly
\* the first bytes of the next one, were read and are thrown away.
Timeout(c) == \E n \in 0..Len(output), part \in {"whole", "tail", "prompt"} :
  /\ holder = c /\ awaiting # <<>> /\ conn = "up" /\ timeouts < MaxTimeouts
  /\ \A k \in 1..n : ~Completes(c, k)
  /\ output' = LET rest == SubSeq(output, n + 1, Len(output)) IN
               IF rest = <<>> \/ rest[1].part = "prompt" \/ part = "whole" THEN rest
               ELSE [rest EXCEPT ![1].part = part]
  /\ timeouts' = timeouts + 1
  /\ Fail(c, IF CauseOfFailedRead(c) = lost THEN "io" ELSE "lost", CauseOfFailedRead(c))
  /\ UNCHANGED <<prompt, input, strays>>

\* The stream ended, or the deadline passed on a dead connection.
ReadFails(c) ==
  /\ holder = c /\ awaiting # <<>> /\ conn # "up"
  /\ \A k \in 1..Len(output) : ~Completes(c, k)
  /\ Fail(c, IF CauseOfFailedRead(c) = lost THEN "io" ELSE "lost", CauseOfFailedRead(c))
  /\ output' = <<>>
  /\ UNCHANGED <<prompt, input, boundVars>>

-----------------------------------------------------------------------------
(* The switch and the network, as the code in src uses them.                 *)

MayAccept(c) == CASE c.kind \in {"sub", "exit"} -> mode = "sub"
                  [] c.kind \in {"conf", "end", "save", "show"} -> TRUE
                  [] OTHER -> mode # "exec"

\* Anything else may also be refused.  That the way into config mode, the way out,
\* and `show' in EXEC mode are not is an assumption about the switch: the client
\* discards their answers or hands them on unread (ExecuteInConfigMode, WriteMemory,
\* GetRunningConfig).
MayReject(c) == CASE c.kind \in {"conf", "end"} -> FALSE
                  [] c.kind = "show" -> mode # "exec" /\ ~ShowAnywhere
                  [] OTHER -> TRUE

ModeAfter(c) == CASE c.kind = "conf" -> IF mode = "exec" THEN "config" ELSE mode
                  [] c.kind = "end"  -> "exec"
                  [] c.kind = "enter" -> "sub"
                  [] c.kind = "exit" -> "config"
                  [] OTHER -> mode

Configures(c) == c.kind \notin {"conf", "end", "save", "show"}

\* Run the next line.  Its answer leaves for the client unless the connection
\* is down, or this very line cuts it; then the answers still in flight are
\* lost as well.
Run(ok, cut) == LET l == Head(input) IN
  /\ input # <<>>
  /\ IF ok THEN MayAccept(l.cmd) ELSE MayReject(l.cmd)
  /\ cut => ok /\ l.cmd.kind = "addr" /\ conn = "up"
  /\ input' = Tail(input)
  /\ mode' = IF ok THEN ModeAfter(l.cmd) ELSE mode
  /\ hostname' = IF ok /\ l.cmd.kind = "name" THEN l.cmd.arg ELSE hostname
  /\ running' = IF ok /\ Configures(l.cmd)
                THEN running \cup {[ticket |-> l.ticket, cmd |-> l.cmd, where |-> mode]}
                ELSE running
  /\ startup' = IF ok /\ l.cmd.kind = "save" THEN running ELSE startup
  /\ conn' = IF cut THEN "cut" ELSE conn
  /\ IF cut THEN \E n \in 0..Len(output) : output' = SubSeq(output, 1, n)
     ELSE output' = IF conn # "up" THEN output
                    ELSE Append(output, Answer(l.ticket, l.cmd, ok, hostname',
                           IF l.cmd = ShowConfig THEN running ELSE {}))
  /\ UNCHANGED <<callVars, clientVars, ticket, base, boundVars>>

Execute == \E ok, cut \in BOOLEAN : Run(ok, cut)

\* A telnet switch answers one line ending twice.
Stray ==
  /\ transport # "ssh" /\ conn = "up" /\ strays < MaxStrays
  /\ output' = Append(output, BarePrompt(hostname)) /\ strays' = strays + 1
  /\ UNCHANGED <<callVars, clientVars, switchVars, input, conn, ticket, base, timeouts>>

NetworkFails ==
  /\ NetMayFail /\ conn = "up" /\ conn' = "cut"
  /\ \E n \in 0..Len(output) : output' = SubSeq(output, 1, n)
  /\ UNCHANGED <<callVars, clientVars, switchVars, input, ticket, base, boundVars>>

\* The shell dies with its connection and drops the lines it has not run.
HangUp ==
  /\ conn # "up" /\ input # <<>> /\ input' = <<>>
  /\ UNCHANGED <<callVars, clientVars, switchVars, output, conn, ticket, base, boundVars>>

-----------------------------------------------------------------------------
\* What the goroutine of a call does once it holds mu.
Step(c) == \/ Send(c) \/ Read(c) \/ Finish(c)
           \/ Refuse(c) \/ FailLost(c) \/ DrainFindsOutput(c) \/ WriteFails(c)
           \/ ReadRejection(c) \/ ReadOutOfSync(c) \/ Timeout(c) \/ ReadFails(c)
Client == \E c \in Callers : Acquire(c) \/ Step(c) \/ \E k \in Calls : Request(c, k)
Switch == Execute \/ Stray \/ NetworkFails \/ HangUp

Next == Client \/ Switch
Spec == Init /\ [][Next]_vars

\* Go schedules runnable goroutines, its mutex hands itself to a waiter that has
\* waited long enough, and timers fire.  Nothing is assumed of the switch.
Fairness == \A c \in Callers : SF_vars(Acquire(c)) /\ WF_vars(Step(c))
FairSpec == Spec /\ Fairness

-----------------------------------------------------------------------------
Tagged == [ticket : Nat, cmd : Command]
Applied == [ticket : Nat, cmd : Command, where : {"exec", "config", "sub"}]
AnswerType == [ticket : Nat, cmd : Command, ok : BOOLEAN,
               part : {"whole", "tail", "prompt"}, prompt : Nat, config : SUBSET Applied]

CallTypes ==
  /\ holder \in Callers \cup {NoCaller}
  /\ want \in [Callers -> Calls \cup {NoCall}]
  /\ todo \in Seq(Seq(Command)) /\ awaiting \in Seq(Command)
  /\ rejected \in BOOLEAN /\ got \in AnswerType
ReportTypes ==
  /\ ticket \in Nat /\ base \subseteq Applied /\ claimed \subseteq Nat \X Command
  /\ report \in [call : Calls \cup {NoCall}, data : AnswerType, base : SUBSET Applied,
                 result : {"ok", "cli", "lost", "io", "refused"}]
ClientTypes ==
  /\ inConfigMode \in BOOLEAN /\ prompt \in Nat /\ transport \in Transports
  /\ lost \in {"no", "severed", "hostname", "outofsync"}
SwitchTypes ==
  /\ mode \in {"exec", "config", "sub"} /\ hostname \in Nat
  /\ running \subseteq Applied /\ startup \subseteq Applied
WireTypes ==
  /\ input \in Seq(Tagged) /\ output \in Seq(AnswerType) /\ conn \in {"up", "cut", "closed"}
BoundTypes == timeouts \in 0..MaxTimeouts /\ strays \in 0..MaxStrays

\* Every variable has its type; in particular the session is only ever lost for
\* a cause its callers are told of (lostErr), and a call returns one of five
\* outcomes.
TypeOK == /\ CallTypes /\ ReportTypes /\ ClientTypes
          /\ SwitchTypes /\ WireTypes /\ BoundTypes

Succeeded(op) == report.call.op = op /\ report.result = "ok"

\* A running configuration GetRunningConfig returns is one: the whole answer to
\* a `show running-config' the switch accepted, and it holds everything that was
\* applied before the call began.  Every Read and every read-modify-write of the
\* resources rests on this (client.go GetRunningConfig).
FreshRead ==
  Succeeded("show") =>
    /\ report.data.cmd = ShowConfig /\ report.data.ok /\ report.data.part = "whole"
    /\ report.base \subseteq report.data.config

\* A line a caller was told has been applied was accepted by the switch
\* (ExecuteInConfigMode, ExecutePromptChanging, ExecuteExpectingDisconnect).
AppliedWhenClaimed == claimed \subseteq Items(running)

\* When WriteMemory succeeds, every line any caller was ever told has been
\* applied is in the startup configuration: an operation whose last step is a
\* successful save survives a reboot, even where a single call could be misled.
DurableWhenSaved == Succeeded("save") => claimed \subseteq Items(startup)

\* Between calls nothing is left on the wire for a later call to read: every
\* path through every call, the error paths included, reads each prompt its
\* lines provoke.
NothingLeftBehind ==
  (holder = NoCaller /\ conn = "up" /\ lost = "no") => input = <<>> /\ output = <<>>

\* Between calls the client and the switch agree whether the shell is in
\* configuration mode, so `end' and `configure terminal' are sent exactly when
\* they are needed.
ModesAgree ==
  (holder = NoCaller /\ conn = "up" /\ lost = "no") => (inConfigMode <=> mode # "exec")

\* Between calls the client waits for the prompt the switch prints, renamed
\* or not (ExecutePromptChanging).
PromptKnown ==
  (holder = NoCaller /\ conn = "up" /\ lost = "no") => prompt = hostname

\* A global command runs in global configuration mode even when it is spelled
\* like an interface command.
SharedInGlobalMode ==
  \A e \in running : e.cmd.kind = "shared" => e.where = "config"

\* The session implements the CommandExecutor its users rely on: seen from
\* outside, calls happen one at a time and a call that succeeds has had its
\* whole effect (executor.go).
Reply == [call |-> report.call, result |-> report.result,
          data |-> IF Succeeded("show") THEN Items(report.data.config) ELSE {}]
Abstract == INSTANCE Executor WITH
  applied <- Items(running), saved <- Items(startup), reply <- Reply,
  usable <- (conn = "up" /\ lost = "no")
ImplementsExecutor == Abstract!Spec

\* Once the session is lost nothing more is written, and the cause every later
\* call reports is the first one (markLost).
LostIsFinal == [][lost # "no" => lost' = lost /\ Len(input') <= Len(input)]_vars

\* When a line moves the management address, `end' and `write memory' of the
\* same call are already in the switch's input (ExecuteExpectingDisconnect).
SaveQueuedBehindAddress ==
  [][\A e \in running' \ running : e.cmd.kind = "addr" =>
       \E i \in DOMAIN input' : input'[i] = [ticket |-> e.ticket, cmd |-> Save]]_vars

\* Every call returns, whatever the switch does or fails to do, and so every
\* caller waiting for mu gets its turn.
EveryCallReturns == \A c \in Callers : want[c] # NoCall ~> want[c] = NoCall
=============================================================================
