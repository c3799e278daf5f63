---------------------------- MODULE SessionProofs ----------------------------
(***************************************************************************)
(* Proofs about Session, for any callers, calls, transports and bounds.    *)
(* First its types, and that a lost session stays lost.  Then, that it is  *)
(* a faithful executor as long as every answer comes in time, on a         *)
(* connection that may break at any point.                                 *)
(***************************************************************************)
EXTENDS Session, SequenceTheorems, FiniteSetTheorems, TLAPS

-----------------------------------------------------------------------------
(* Types of the helpers.                                                     *)

LEMMA CommandTypes ==
  /\ Conf \in Command /\ End \in Command /\ Save \in Command
  /\ ShowConfig \in Command /\ NoCommand \in Command
BY SessionAssumption DEF Conf, End, Save, ShowConfig, NoCommand, Command, Kinds

LEMMA CallLines ==
  ASSUME NEW k \in Calls \cup {NoCall}
  PROVE  k.lines \in Seq(Command) /\ k.op \in Ops
<1>1. CASE k \in Calls
  BY <1>1, SessionAssumption DEF Call
<1>2. CASE k = NoCall
  BY <1>2 DEF NoCall, Ops
<1>3. QED
  BY <1>1, <1>2

LEMMA AnswerTypes ==
  ASSUME NEW t \in Nat, NEW c \in Command, NEW ok \in BOOLEAN, NEW n \in Nat,
         NEW cfg \in SUBSET Applied
  PROVE  Answer(t, c, ok, n, cfg) \in AnswerType /\ BarePrompt(n) \in AnswerType
<1>1. Answer(t, c, ok, n, cfg) \in AnswerType
  BY DEF Answer, AnswerType
<1>2. Answer(0, NoCommand, TRUE, n, {}) \in AnswerType
  BY CommandTypes DEF Answer, AnswerType
<1>3. BarePrompt(n) \in AnswerType
  BY <1>2 DEF BarePrompt, AnswerType
<1>4. QED
  BY <1>1, <1>3

LEMMA NoAnswerType == NoAnswer \in AnswerType
BY AnswerTypes, CommandTypes DEF NoAnswer

\* A call is made of batches of lines.
LEMMA WritesType ==
  ASSUME NEW k \in Calls \cup {NoCall}
  PROVE  Writes(k) \in Seq(Seq(Command))
<1>1. k.lines \in Seq(Command)
  BY CallLines
<1>2. \A c \in Command : <<c>> \in Seq(Command) /\ <<<<c>>>> \in Seq(Seq(Command))
  OBVIOUS
<1>3. EnterConfig \in Seq(Seq(Command)) /\ LeaveConfig \in Seq(Seq(Command))
  BY <1>2, CommandTypes DEF EnterConfig, LeaveConfig
<1>4. [i \in 1..Len(k.lines) |-> <<k.lines[i]>>] \in Seq(Seq(Command))
  BY <1>1, <1>2
<1>5. <<k.lines>> \in Seq(Seq(Command))
  BY <1>1
<1>6. <<k.lines \o <<End, Save>>>> \in Seq(Seq(Command))
  <2>1. <<End, Save>> \in Seq(Command)
    BY CommandTypes
  <2>2. k.lines \o <<End, Save>> \in Seq(Command)
    BY <1>1, <2>1
  <2>3. QED
    BY <2>2
<1>7. <<<<Save>>>> \in Seq(Seq(Command)) /\ <<<<ShowConfig>>>> \in Seq(Seq(Command))
  BY <1>2, CommandTypes
<1>8. \A s, t \in Seq(Seq(Command)) : s \o t \in Seq(Seq(Command))
  OBVIOUS
<1>9. <<>> \in Seq(Seq(Command))
  OBVIOUS
<1>10. QED
  BY <1>3, <1>4, <1>5, <1>6, <1>7, <1>8, <1>9 DEF Writes

-----------------------------------------------------------------------------
(* Types of the steps.  Most actions end in Return.                          *)

LEMMA SeqTypes ==
  /\ \A S : \A s \in Seq(S), m, n \in Nat :
       n <= Len(s) => SubSeq(s, m + 1, n) \in Seq(S)
  /\ \A S : \A s \in Seq(S) : s # <<>> => Head(s) \in S /\ Tail(s) \in Seq(S)
  /\ \A S : \A s \in Seq(S) : Len(s) \in Nat /\ \A i \in 1..Len(s) : s[i] \in S
<1>1. ASSUME NEW S, NEW s \in Seq(S), NEW m \in Nat, NEW n \in Nat, n <= Len(s)
      PROVE  SubSeq(s, m + 1, n) \in Seq(S)
  BY <1>1
<1>2. ASSUME NEW S, NEW s \in Seq(S), s # <<>>
      PROVE  Head(s) \in S /\ Tail(s) \in Seq(S)
  BY <1>2
<1>3. ASSUME NEW S, NEW s \in Seq(S)
      PROVE  Len(s) \in Nat /\ \A i \in 1..Len(s) : s[i] \in S
  OBVIOUS
<1>4. QED
  BY <1>1, <1>2, <1>3

Outcomes == {"ok", "cli", "lost", "io", "refused"}
Causes == {"no", "severed", "hostname", "outofsync"}

LEMMA ReturnTypes ==
  ASSUME TypeOK, NEW c \in Callers, NEW result \in Outcomes, Return(c, result)
  PROVE  CallTypes' /\ ReportTypes' /\ SwitchTypes' /\ transport' \in Transports
<1> USE DEF Return, TypeOK
<1>1. want[c] \in Calls \cup {NoCall}
  BY DEF CallTypes
<1>2. want' \in [Callers -> Calls \cup {NoCall}]
  BY DEF CallTypes
<1>3. CallTypes'
  <2>1. got' \in AnswerType
    BY NoAnswerType
  <2>2. todo' \in Seq(Seq(Command)) /\ awaiting' \in Seq(Command)
    OBVIOUS
  <2>3. rejected' \in BOOLEAN /\ holder' \in Callers \cup {NoCaller}
    OBVIOUS
  <2>4. QED
    BY <1>2, <2>1, <2>2, <2>3 DEF CallTypes
<1>4. Lines(ticket, want[c]) \subseteq Nat \X Command
  <2>1. want[c].lines \in Seq(Command)
    BY <1>1, CallLines
  <2>2. ToSet(want[c].lines) \subseteq Command
    BY <2>1 DEF ToSet
  <2>3. QED
    BY <2>2 DEF Lines, ReportTypes
<1>5. claimed' \subseteq Nat \X Command
  BY <1>4 DEF ReportTypes
<1>6. report' \in [call : Calls \cup {NoCall}, data : AnswerType, base : SUBSET Applied,
                   result : Outcomes]
  BY <1>1 DEF CallTypes, ReportTypes
<1>7. ReportTypes'
  BY <1>5, <1>6 DEF ReportTypes, Outcomes, switchVars
<1>8. SwitchTypes' /\ transport' \in Transports
  BY DEF SwitchTypes, ClientTypes, switchVars
<1>9. QED
  BY <1>3, <1>7, <1>8

LEMMA FailTypes ==
  ASSUME TypeOK, NEW c \in Callers, NEW result \in Outcomes, NEW cause \in Causes,
         Fail(c, result, cause)
  PROVE  /\ CallTypes' /\ ReportTypes' /\ SwitchTypes'
         /\ (prompt' \in Nat => ClientTypes')
         /\ conn' \in {"up", "cut", "closed"}
<1>1. CallTypes' /\ ReportTypes' /\ SwitchTypes' /\ transport' \in Transports
  BY ReturnTypes DEF Fail
<1>2. inConfigMode' \in BOOLEAN /\ conn' \in {"up", "cut", "closed"} /\ lost' \in Causes
  BY DEF Fail, TypeOK, ClientTypes, WireTypes, Causes
<1>3. QED
  BY <1>1, <1>2 DEF ClientTypes, Causes

\* An action that ends its call and touches neither queue.
LEMMA QuietFailTypes ==
  ASSUME TypeOK, NEW c \in Callers, NEW result \in Outcomes, NEW cause \in Causes,
         Fail(c, result, cause), UNCHANGED <<prompt, input, output, boundVars>>
  PROVE  TypeOK'
<1>1. WireTypes' /\ BoundTypes' /\ prompt' \in Nat
  BY FailTypes DEF TypeOK, WireTypes, BoundTypes, ClientTypes, boundVars
<1>2. QED
  BY <1>1, FailTypes DEF TypeOK

\* What a completed read leaves.
LEMMA TakeAnswerTypes ==
  ASSUME TypeOK, NEW c \in Callers, NEW k \in 1..Len(output), TakeAnswer(c, k)
  PROVE  /\ output' \in Seq(AnswerType) /\ input' \in Seq(Tagged) /\ prompt' \in Nat
         /\ BoundTypes'
<1> USE DEF TakeAnswer, TypeOK, WireTypes
<1>1. output' \in Seq(AnswerType)
  BY SeqTypes
<1>2. output[1] \in AnswerType
  BY SeqTypes
<1>3. prompt' \in Nat
  BY <1>2 DEF ClientTypes, AnswerType
<1>4. QED
  BY <1>1, <1>3 DEF BoundTypes, boundVars

LEMMA RequestTypes ==
  ASSUME TypeOK, NEW c \in Callers, NEW k \in Calls, Request(c, k)
  PROVE  TypeOK'
<1> USE DEF TypeOK, Request
<1>1. CallTypes'
  BY DEF CallTypes
<1>2. ReportTypes' /\ ClientTypes' /\ SwitchTypes' /\ WireTypes' /\ BoundTypes'
  BY DEF ReportTypes, ClientTypes, SwitchTypes, WireTypes, BoundTypes,
         clientVars, switchVars, wireVars, boundVars
<1>3. QED
  BY <1>1, <1>2

LEMMA AcquireTypes ==
  ASSUME TypeOK, NEW c \in Callers, Acquire(c)
  PROVE  TypeOK'
<1> USE DEF TypeOK, Acquire
<1>1. todo' \in Seq(Seq(Command))
  BY WritesType DEF CallTypes
<1>2. CallTypes'
  BY <1>1 DEF CallTypes
<1>3. ReportTypes' /\ ClientTypes' /\ SwitchTypes' /\ WireTypes' /\ BoundTypes'
  BY DEF ReportTypes, ClientTypes, SwitchTypes, WireTypes, BoundTypes,
         clientVars, switchVars, wireVars, boundVars
<1>4. QED
  BY <1>2, <1>3

LEMMA FinishTypes ==
  ASSUME TypeOK, NEW c \in Callers, Finish(c)
  PROVE  TypeOK'
<1>1. PICK result \in Outcomes : Return(c, result)
  BY DEF Finish, Outcomes
<1>2. CallTypes' /\ ReportTypes' /\ SwitchTypes' /\ transport' \in Transports
  BY <1>1, ReturnTypes
<1>3. ClientTypes' /\ WireTypes' /\ BoundTypes'
  BY <1>2 DEF Finish, TypeOK, ClientTypes, WireTypes, BoundTypes, boundVars
<1>4. QED
  BY <1>2, <1>3 DEF TypeOK

LEMMA SendTypes ==
  ASSUME TypeOK, NEW c \in Callers, Send(c)
  PROVE  TypeOK'
<1> USE DEF TypeOK
<1>1. PICK n \in 0..Len(output) :
        /\ Ready(c)
        /\ awaiting' = Head(todo) /\ todo' = Tail(todo)
        /\ output' = SubSeq(output, n + 1, Len(output))
        /\ input' = IF conn = "up"
                    THEN input \o [i \in 1..Len(Head(todo)) |->
                                     [ticket |-> ticket, cmd |-> Head(todo)[i]]]
                    ELSE input
        /\ UNCHANGED <<holder, want, rejected, got, report, claimed, clientVars,
                       switchVars, conn, ticket, base, boundVars>>
  BY DEF Send
<1>2. todo # <<>>
  BY <1>1 DEF Ready, Sending
<1>3. awaiting' \in Seq(Command) /\ todo' \in Seq(Seq(Command))
  BY <1>1, <1>2, SeqTypes DEF CallTypes
<1>4. output' \in Seq(AnswerType)
  BY <1>1, SeqTypes DEF WireTypes
<1>5. input' \in Seq(Tagged)
  <2>1. Head(todo) \in Seq(Command)
    BY <1>2, SeqTypes DEF CallTypes
  <2>2. \A i \in 1..Len(Head(todo)) : [ticket |-> ticket, cmd |-> Head(todo)[i]] \in Tagged
    BY <2>1, SeqTypes DEF Tagged, ReportTypes
  <2>3. [i \in 1..Len(Head(todo)) |-> [ticket |-> ticket, cmd |-> Head(todo)[i]]]
          \in Seq(Tagged)
    BY <2>1, <2>2
  <2>4. QED
    BY <1>1, <2>3 DEF WireTypes
<1>6. CallTypes' /\ WireTypes'
  BY <1>1, <1>3, <1>4, <1>5 DEF CallTypes, WireTypes
<1>7. ReportTypes' /\ ClientTypes' /\ SwitchTypes' /\ BoundTypes'
  BY <1>1 DEF ReportTypes, ClientTypes, SwitchTypes, BoundTypes,
              clientVars, switchVars, boundVars
<1>8. QED
  BY <1>6, <1>7

LEMMA ReadTypes ==
  ASSUME TypeOK, NEW c \in Callers, Read(c)
  PROVE  TypeOK'
<1> USE DEF TypeOK
<1>1. PICK k \in 1..Len(output) :
        /\ awaiting # <<>> /\ TakeAnswer(c, k) /\ awaiting' = Tail(awaiting)
        /\ \E bad \in BOOLEAN : rejected' = (rejected \/ bad)
        /\ got' = IF want[c].op # "show" THEN got
                  ELSE IF k = 1 THEN output[1] ELSE NoAnswer
        /\ inConfigMode' \in BOOLEAN
        /\ UNCHANGED <<holder, want, todo, report, claimed, lost, transport, switchVars,
                       conn, ticket, base>>
  <2>1. PICK k \in 1..Len(output) :
          /\ awaiting # <<>>
          /\ LET bad == Checked(c) /\ \E j \in 1..k : CLIError(output[j]) IN
             /\ bad => InBatch(want[c], Head(awaiting))
             /\ rejected' = (rejected \/ bad)
          /\ TakeAnswer(c, k) /\ awaiting' = Tail(awaiting)
          /\ got' = IF want[c].op # "show" THEN got
                    ELSE IF k = 1 THEN output[1] ELSE NoAnswer
          /\ inConfigMode' = IF InBatch(want[c], Head(awaiting)) THEN inConfigMode
                             ELSE CASE Head(awaiting) = Conf -> TRUE
                                    [] Head(awaiting) = End  -> FALSE
                                    [] OTHER -> inConfigMode
          /\ UNCHANGED <<holder, want, todo, report, claimed, lost, transport, switchVars,
                         conn, ticket, base>>
    BY DEF Read
  <2>2. inConfigMode' \in BOOLEAN
    BY <2>1 DEF ClientTypes
  <2>3. \E bad \in BOOLEAN : rejected' = (rejected \/ bad)
    BY <2>1
  <2>4. QED
    BY <2>1, <2>2, <2>3
<1>2. output[1] \in AnswerType
  BY SeqTypes DEF WireTypes
<1>3. got' \in AnswerType
  BY <1>1, <1>2, NoAnswerType DEF CallTypes
<1>4. awaiting' \in Seq(Command)
  BY <1>1, SeqTypes DEF CallTypes
<1>5. rejected' \in BOOLEAN
  BY <1>1, Zenon DEF CallTypes
<1>6. CallTypes'
  BY <1>1, <1>3, <1>4, <1>5 DEF CallTypes
<1>7. WireTypes' /\ BoundTypes' /\ ClientTypes'
  BY <1>1, TakeAnswerTypes DEF WireTypes, ClientTypes
<1>8. ReportTypes' /\ SwitchTypes'
  BY <1>1 DEF ReportTypes, SwitchTypes, switchVars
<1>9. QED
  BY <1>6, <1>7, <1>8

\* The reads that end their call.
LEMMA BadAnswerTypes ==
  ASSUME TypeOK, NEW c \in Callers, ReadRejection(c) \/ ReadOutOfSync(c)
  PROVE  TypeOK'
<1>1. PICK k \in 1..Len(output), result \in Outcomes, cause \in Causes :
        TakeAnswer(c, k) /\ Fail(c, result, cause)
  BY DEF ReadRejection, ReadOutOfSync, Outcomes, Causes, TypeOK, ClientTypes
<1>2. /\ output' \in Seq(AnswerType) /\ input' \in Seq(Tagged) /\ prompt' \in Nat
      /\ BoundTypes'
  BY <1>1, TakeAnswerTypes
<1>3. QED
  BY <1>1, <1>2, FailTypes DEF TypeOK, WireTypes

LEMMA TruncateType ==
  ASSUME NEW s \in Seq(AnswerType), s # <<>>, NEW part \in {"whole", "tail", "prompt"}
  PROVE  [s EXCEPT ![1].part = part] \in Seq(AnswerType)
<1>1. s[1] \in AnswerType
  BY SeqTypes
<1>2. [s[1] EXCEPT !.part = part] \in AnswerType
  BY <1>1 DEF AnswerType
<1>3. QED
  BY <1>2

LEMMA NoReadTypes ==
  ASSUME TypeOK, NEW c \in Callers, Timeout(c) \/ ReadFails(c)
  PROVE  TypeOK'
<1> USE DEF TypeOK
<1>1. CauseOfFailedRead(c) \in Causes
  BY DEF CauseOfFailedRead, Causes, ClientTypes
<1>2. \E result \in Outcomes : Fail(c, result, CauseOfFailedRead(c))
  BY DEF Timeout, ReadFails, Outcomes
<1>3. prompt' \in Nat /\ input' \in Seq(Tagged)
  BY DEF Timeout, ReadFails, ClientTypes, WireTypes
<1>4. BoundTypes'
  BY SessionAssumption DEF Timeout, ReadFails, BoundTypes, boundVars
<1>5. output' \in Seq(AnswerType)
  <2>1. CASE ReadFails(c)
    BY <2>1 DEF ReadFails
  <2>2. CASE Timeout(c)
    <3>1. PICK n \in 0..Len(output), part \in {"whole", "tail", "prompt"} :
            output' = LET rest == SubSeq(output, n + 1, Len(output)) IN
                      IF rest = <<>> \/ rest[1].part = "prompt" \/ part = "whole" THEN rest
                      ELSE [rest EXCEPT ![1].part = part]
      BY <2>2 DEF Timeout
    <3>2. SubSeq(output, n + 1, Len(output)) \in Seq(AnswerType)
      BY SeqTypes DEF WireTypes
    <3>3. QED
      BY <3>1, <3>2, TruncateType
  <2>3. QED
    BY <2>1, <2>2
<1>6. QED
  BY <1>1, <1>2, <1>3, <1>4, <1>5, FailTypes DEF WireTypes

LEMMA ExecuteTypes ==
  ASSUME TypeOK, Execute
  PROVE  TypeOK'
<1> USE DEF TypeOK
<1>1. PICK ok \in BOOLEAN, cut \in BOOLEAN : Run(ok, cut)
  BY DEF Execute
<1> DEFINE l == Head(input)
<1>2. /\ input # <<>> /\ input' = Tail(input)
      /\ mode' = IF ok THEN ModeAfter(l.cmd) ELSE mode
      /\ hostname' = IF ok /\ l.cmd.kind = "name" THEN l.cmd.arg ELSE hostname
      /\ running' = IF ok /\ Configures(l.cmd)
                    THEN running \cup {[ticket |-> l.ticket, cmd |-> l.cmd, where |-> mode]}
                    ELSE running
      /\ startup' = IF ok /\ l.cmd.kind = "save" THEN running ELSE startup
      /\ conn' = IF cut THEN "cut" ELSE conn
      /\ UNCHANGED <<callVars, clientVars, ticket, base, boundVars>>
  BY <1>1 DEF Run
<1>3. IF cut THEN \E n \in 0..Len(output) : output' = SubSeq(output, 1, n)
      ELSE output' = IF conn # "up" THEN output
                     ELSE Append(output, Answer(l.ticket, l.cmd, ok, hostname',
                            IF l.cmd = ShowConfig THEN running ELSE {}))
  BY <1>1 DEF Run
<1>4. l \in Tagged /\ input' \in Seq(Tagged)
  BY <1>2, SeqTypes DEF WireTypes
<1>5. l.ticket \in Nat /\ l.cmd \in Command /\ l.cmd.arg \in Nat
  BY <1>4 DEF Tagged, Command
<1>6. hostname' \in Nat
  BY <1>2, <1>5 DEF SwitchTypes
<1>7. mode' \in {"exec", "config", "sub"}
  BY <1>2 DEF ModeAfter, SwitchTypes
<1>8. running' \subseteq Applied /\ startup' \subseteq Applied
  BY <1>2, <1>5 DEF SwitchTypes, Applied
<1>9. output' \in Seq(AnswerType)
  <2>1. Answer(l.ticket, l.cmd, ok, hostname', IF l.cmd = ShowConfig THEN running ELSE {})
          \in AnswerType
    BY <1>5, <1>6, AnswerTypes DEF SwitchTypes
  <2>2. CASE cut
    <3>1. PICK n \in 0..Len(output) : output' = SubSeq(output, 0 + 1, n)
      BY <1>3, <2>2
    <3>2. QED
      BY <3>1, SeqTypes DEF WireTypes
  <2>3. CASE ~cut
    BY <1>3, <2>1, <2>3 DEF WireTypes
  <2>4. QED
    BY <2>2, <2>3
<1>10. CallTypes' /\ ReportTypes' /\ ClientTypes' /\ BoundTypes'
  BY <1>2 DEF CallTypes, ReportTypes, ClientTypes, BoundTypes,
              callVars, clientVars, boundVars
<1>11. SwitchTypes' /\ WireTypes'
  BY <1>2, <1>4, <1>6, <1>7, <1>8, <1>9 DEF SwitchTypes, WireTypes
<1>12. QED
  BY <1>10, <1>11

LEMMA SurroundingsTypes ==
  ASSUME TypeOK, Stray \/ NetworkFails \/ HangUp
  PROVE  TypeOK'
<1> USE DEF TypeOK
<1>1. CallTypes' /\ ReportTypes' /\ ClientTypes' /\ SwitchTypes'
  BY DEF Stray, NetworkFails, HangUp, CallTypes, ReportTypes, ClientTypes, SwitchTypes,
         callVars, clientVars, switchVars
<1>2. BoundTypes'
  BY SessionAssumption DEF Stray, NetworkFails, HangUp, BoundTypes, boundVars
<1>3. input' \in Seq(Tagged) /\ conn' \in {"up", "cut", "closed"}
  <2>1. input' = input \/ input' = <<>>
    BY DEF Stray, NetworkFails, HangUp
  <2>2. conn' = conn \/ conn' = "cut"
    BY DEF Stray, NetworkFails, HangUp
  <2>3. <<>> \in Seq(Tagged)
    OBVIOUS
  <2>4. input' \in Seq(Tagged)
    BY <2>1, <2>3 DEF WireTypes
  <2>5. conn' \in {"up", "cut", "closed"}
    BY <2>2 DEF WireTypes
  <2>6. QED
    BY <2>4, <2>5
<1>4. output' \in Seq(AnswerType)
  <2>1. CASE Stray
    <3>1. BarePrompt(hostname) \in AnswerType
      BY AnswerTypes, CommandTypes DEF SwitchTypes
    <3>2. QED
      BY <2>1, <3>1 DEF Stray, WireTypes
  <2>2. CASE NetworkFails
    <3>1. PICK n \in 0..Len(output) : output' = SubSeq(output, 0 + 1, n)
      BY <2>2 DEF NetworkFails
    <3>2. QED
      BY <3>1, SeqTypes DEF WireTypes
  <2>3. CASE HangUp
    BY <2>3 DEF HangUp, WireTypes
  <2>4. QED
    BY <2>1, <2>2, <2>3
<1>5. QED
  BY <1>1, <1>2, <1>3, <1>4 DEF WireTypes

LEMMA InitTypes == Init => TypeOK
<1>1. SUFFICES ASSUME Init PROVE TypeOK
  OBVIOUS
<1>2. NoAnswer \in AnswerType
  BY NoAnswerType
<1>3. CallTypes
  <2>1. holder \in Callers \cup {NoCaller} /\ want \in [Callers -> Calls \cup {NoCall}]
    BY <1>1 DEF Init
  <2>2. todo = <<>> /\ awaiting = <<>> /\ rejected \in BOOLEAN /\ got \in AnswerType
    BY <1>1, <1>2 DEF Init
  <2>3. /\ \A S : <<>> \in Seq(S)
        /\ <<>> \in Seq(Seq(Command)) /\ <<>> \in Seq(Command)
    OBVIOUS
  <2>4. todo \in Seq(Seq(Command)) /\ awaiting \in Seq(Command)
    BY <2>2, <2>3
  <2>5. QED
    BY <2>1, <2>2, <2>4 DEF CallTypes
<1>4. ReportTypes
  BY <1>1, <1>2 DEF Init, ReportTypes
<1>5. ClientTypes /\ SwitchTypes
  BY <1>1 DEF Init, ClientTypes, SwitchTypes
<1>6. WireTypes
  <2>1. input = <<>> /\ output = <<>> /\ conn = "up"
    BY <1>1 DEF Init
  <2>2. <<>> \in Seq(Tagged) /\ <<>> \in Seq(AnswerType)
    OBVIOUS
  <2>3. input \in Seq(Tagged) /\ output \in Seq(AnswerType)
    BY <2>1, <2>2
  <2>4. QED
    BY <2>1, <2>3 DEF WireTypes
<1>7. BoundTypes
  BY <1>1, SessionAssumption DEF Init, BoundTypes
<1>8. QED
  BY <1>3, <1>4, <1>5, <1>6, <1>7 DEF TypeOK

LEMMA StepTypes ==
  ASSUME TypeOK, NEW c \in Callers, Step(c)
  PROVE  TypeOK'
<1>1. CASE Send(c)
  BY <1>1, SendTypes
<1>2. CASE Read(c)
  BY <1>2, ReadTypes
<1>3. CASE Finish(c)
  BY <1>3, FinishTypes
<1>4. CASE Refuse(c) \/ FailLost(c) \/ WriteFails(c)
  <2>1. PICK result \in Outcomes : /\ Fail(c, result, lost)
                                   /\ UNCHANGED <<prompt, input, output, boundVars>>
    BY <1>4 DEF Refuse, FailLost, WriteFails, Outcomes
  <2>2. lost \in Causes
    BY DEF TypeOK, ClientTypes, Causes
  <2>3. QED
    BY <2>1, <2>2, QuietFailTypes
<1>5. CASE DrainFindsOutput(c)
  <2>1. /\ Fail(c, "lost", "outofsync")
        /\ UNCHANGED <<prompt, input, output, boundVars>>
    BY <1>5 DEF DrainFindsOutput
  <2>2. QED
    BY <2>1, QuietFailTypes DEF Outcomes, Causes
<1>6. CASE ReadRejection(c) \/ ReadOutOfSync(c)
  BY <1>6, BadAnswerTypes
<1>7. CASE Timeout(c) \/ ReadFails(c)
  BY <1>7, NoReadTypes
<1>8. QED
  BY <1>1, <1>2, <1>3, <1>4, <1>5, <1>6, <1>7 DEF Step

\* Every variable keeps its type, and a session is lost only for a cause that
\* its callers are told.
THEOREM TypeCorrect == Spec => []TypeOK
<1>1. TypeOK /\ [Next]_vars => TypeOK'
  <2>1. SUFFICES ASSUME TypeOK, [Next]_vars PROVE TypeOK'
    OBVIOUS
  <2>2. CASE Client
    BY <2>2, <2>1, StepTypes, AcquireTypes, RequestTypes DEF Client
  <2>3. CASE Switch
    BY <2>3, <2>1, ExecuteTypes, SurroundingsTypes DEF Switch
  <2>4. CASE UNCHANGED vars
    BY <2>4, <2>1 DEF vars, callVars, clientVars, switchVars, wireVars, boundVars, TypeOK,
         CallTypes, ReportTypes, ClientTypes, SwitchTypes, WireTypes, BoundTypes
  <2>5. QED
    BY <2>1, <2>2, <2>3, <2>4 DEF Next
<1>2. QED
  BY <1>1, InitTypes, PTL DEF Spec

-----------------------------------------------------------------------------
(* A lost session stays lost, for its first cause, and is never written to.  *)

\* No call is still reading when the session is lost: losing it ends the call.
NotReadingWhenLost == awaiting # <<>> => lost = "no"

\* A call that fails has no prompts left to read, and loses the session for
\* exactly the cause it was given.
LEMMA FailEffect ==
  ASSUME NEW c, NEW result, NEW cause, Fail(c, result, cause)
  PROVE  awaiting' = <<>> /\ lost' = cause
BY DEF Fail, Return

LEMMA NotReadingStep == TypeOK /\ NotReadingWhenLost /\ [Next]_vars => NotReadingWhenLost'
<1>1. SUFFICES ASSUME TypeOK, NotReadingWhenLost, [Next]_vars PROVE NotReadingWhenLost'
  OBVIOUS
<1> USE DEF NotReadingWhenLost
<1>2. ASSUME NEW c \in Callers, Step(c) PROVE NotReadingWhenLost'
  <2>1. CASE Send(c)
    BY <2>1 DEF Send, Ready, clientVars
  <2>2. CASE Read(c)
    BY <2>2, <1>1 DEF Read
  <2>3. CASE Finish(c)
    BY <2>3 DEF Finish, Return
  <2>4. CASE Refuse(c) \/ FailLost(c) \/ WriteFails(c) \/ DrainFindsOutput(c)
    BY <2>4, FailEffect DEF Refuse, FailLost, WriteFails, DrainFindsOutput
  <2>5. CASE ReadRejection(c) \/ ReadOutOfSync(c) \/ Timeout(c) \/ ReadFails(c)
    BY <2>5, FailEffect DEF ReadRejection, ReadOutOfSync, Timeout, ReadFails
  <2>6. QED
    BY <1>2, <2>1, <2>2, <2>3, <2>4, <2>5 DEF Step
<1>3. CASE Client
  BY <1>1, <1>2, <1>3 DEF Client, Acquire, Request, clientVars
<1>4. CASE Switch
  BY <1>1, <1>4 DEF Switch, Execute, Run, Stray, NetworkFails, HangUp, callVars, clientVars
<1>5. CASE UNCHANGED vars
  BY <1>1, <1>5 DEF vars, callVars, clientVars
<1>6. QED
  BY <1>1, <1>3, <1>4, <1>5 DEF Next

\* Once lost, always lost: no later call writes a byte, `write memory' included,
\* and all report the cause of the first loss (markLost, lostError).
THEOREM LossIsFinal == Spec => LostIsFinal
<1> DEFINE Final == lost # "no" => lost' = lost /\ Len(input') <= Len(input)
<1>1. TypeOK /\ NotReadingWhenLost /\ [Next]_vars => [Final]_vars
  <2>1. SUFFICES ASSUME TypeOK, NotReadingWhenLost, Next, lost # "no"
                 PROVE  lost' = lost /\ Len(input') <= Len(input)
    OBVIOUS
  <2>2. awaiting = <<>> /\ input \in Seq(Tagged) /\ Len(input) \in Nat
    BY <2>1, SeqTypes DEF NotReadingWhenLost, TypeOK, WireTypes
  <2>3. ASSUME NEW c \in Callers, Step(c) PROVE lost' = lost /\ input' = input
    <3>1. ~Send(c) /\ ~DrainFindsOutput(c)
      BY <2>1 DEF Send, DrainFindsOutput, Ready
    <3>2. /\ ~Read(c) /\ ~ReadRejection(c) /\ ~ReadOutOfSync(c)
          /\ ~Timeout(c) /\ ~ReadFails(c)
      BY <2>2 DEF Read, ReadRejection, ReadOutOfSync, Timeout, ReadFails
    <3>3. CASE Finish(c)
      BY <3>3 DEF Finish
    <3>4. CASE Refuse(c) \/ FailLost(c) \/ WriteFails(c)
      BY <3>4, FailEffect DEF Refuse, FailLost, WriteFails
    <3>5. QED
      BY <2>3, <3>1, <3>2, <3>3, <3>4 DEF Step
  <2>4. CASE Client
    <3>1. PICK c \in Callers : Acquire(c) \/ Step(c) \/ \E k \in Calls : Request(c, k)
      BY <2>4 DEF Client
    <3>2. lost' = lost /\ input' = input
      BY <2>3, <3>1 DEF Acquire, Request, clientVars, wireVars
    <3>3. QED
      BY <2>2, <3>2
  <2>5. CASE Switch
    <3>1. lost' = lost
      BY <2>5 DEF Switch, Execute, Run, Stray, NetworkFails, HangUp, clientVars
    <3>2. input' = input \/ input' = <<>> \/ (input # <<>> /\ input' = Tail(input))
      BY <2>5 DEF Switch, Execute, Run, Stray, NetworkFails, HangUp
    <3>3. QED
      BY <2>2, <3>1, <3>2
  <2>6. QED
    BY <2>1, <2>4, <2>5 DEF Next
<1>2. Init => NotReadingWhenLost
  BY DEF Init, NotReadingWhenLost
<1>3. QED
  BY <1>1, <1>2, NotReadingStep, TypeCorrect, PTL DEF Spec, LostIsFinal

-----------------------------------------------------------------------------
(* As long as every answer comes in time.                                    *)

\* No deadline passes on a live connection and no prompt comes unasked.
InTime == MaxTimeouts = 0 /\ MaxStrays = 0

\* The lines a resource gives to a call.  None enters or leaves configuration
\* mode; Execute is for show commands, the other calls are for configuration,
\* and the hostname is changed with ExecutePromptChanging (system.go).
ProperCalls ==
  \A k \in Calls : \A l \in ToSet(k.lines) :
    IF k.op = "execute" THEN l.kind = "show"
    ELSE Configures(l) /\ (l.kind = "name" => k.op = "prompt")

-----------------------------------------------------------------------------
(* The invariant.  Its parts speak of the call that holds the mutex.         *)

Serves == holder # NoCaller
Current == want[holder]
Asks(ops) == Serves /\ Current.op \in ops

Idle == IF Serves THEN Current \in Calls /\ ticket >= 1 ELSE todo = <<>> /\ awaiting = <<>>

\* In time, the session is lost only with its connection.
LostIsCut == lost # "no" => conn # "up"

\* The answers on the wire are those to the first lines awaited, and the lines in
\* the switch are the others, unless the connection is gone.
Aligned ==
  /\ Len(output) <= Len(awaiting)
  /\ \A i \in 1..Len(output) : output[i].cmd = awaiting[i] /\ output[i].part = "whole"
  /\ conn = "up" =>
       /\ Len(output) + Len(input) = Len(awaiting)
       /\ \A i \in 1..Len(input) :
            input[i] = [ticket |-> ticket, cmd |-> awaiting[Len(output) + i]]

Batch(k) == k.lines \o <<End, Save>>

\* Where a call is: the batches it has to write and the lines it awaits.
ExecuteAt(k) ==
  \/ todo = <<k.lines>> /\ awaiting = <<>>
  \/ todo = <<>> /\ \A i \in 1..Len(awaiting) : awaiting[i] \in ToSet(k.lines)

ConfigAt(k) ==
  /\ \A i \in 1..Len(todo) :
       \/ \E l \in ToSet(k.lines) : todo[i] = <<l>>
       \/ i = 1 /\ todo[1] = <<Conf>> /\ awaiting = <<>> /\ ~inConfigMode
  /\ awaiting = <<>> \/ \E l \in ToSet(k.lines) \cup {Conf} : awaiting = <<l>>

BatchLeft(k) ==
  \A i \in 1..Len(awaiting) :
    CASE i = Len(awaiting)     -> awaiting[i] = Save
      [] i = Len(awaiting) - 1 -> awaiting[i] = End
      [] OTHER                 -> awaiting[i] \in ToSet(k.lines)

SeverAt(k) ==
  \/ k.lines = <<>> /\ todo = <<>> /\ awaiting = <<>>
  \/ k.lines # <<>> /\ todo = <<<<Conf>>, Batch(k)>> /\ awaiting = <<>> /\ ~inConfigMode
  \/ k.lines # <<>> /\ todo = <<Batch(k)>>
       /\ (awaiting = <<Conf>> \/ (awaiting = <<>> /\ inConfigMode))
  \/ k.lines # <<>> /\ todo = <<>> /\ BatchLeft(k)

\* WriteMemory and GetRunningConfig, whose own line is `own'.
ExecAt(own) ==
  \/ todo = <<<<End>>, <<own>>>> /\ awaiting = <<>>
  \/ todo = <<<<own>>>> /\ (awaiting = <<End>> \/ (awaiting = <<>> /\ ~inConfigMode))
  \/ todo = <<>> /\ awaiting \in {<<>>, <<own>>} /\ ~inConfigMode

CloseAt ==
  \/ todo = <<<<End>>>> /\ awaiting = <<>>
  \/ todo = <<>> /\ awaiting \in {<<>>, <<End>>}

Positions ==
  /\ Asks({"execute"}) => ExecuteAt(Current)
  /\ Asks({"config", "prompt"}) => ConfigAt(Current)
  /\ Asks({"sever"}) => SeverAt(Current)
  /\ Asks({"save"}) => ExecAt(Save)
  /\ Asks({"show"}) => ExecAt(ShowConfig)
  /\ Asks({"close", "none"}) => CloseAt

\* The batch of ExecuteExpectingDisconnect has been written.
BatchSent == Asks({"sever"}) /\ Current.lines # <<>> /\ todo = <<>>

\* The switch's mode, as the client knows it or as the lines awaited make it.
ModeKnown ==
  conn = "up" =>
    IF BatchSent THEN mode # "exec" <=> Len(input) >= 2
    ELSE CASE awaiting = <<Conf>> -> ~inConfigMode /\ (mode = "exec" <=> output = <<>>)
           [] awaiting = <<End>>  -> output # <<>> => mode = "exec"
           [] OTHER -> inConfigMode <=> mode # "exec"

\* The line awaited is one after which any prompt is taken.
Renaming == Asks({"prompt"}) /\ awaiting # <<>> /\ Head(awaiting) # Conf

PromptsAgree ==
  /\ \A i \in 1..Len(output) : output[i].prompt = prompt \/ Renaming
  /\ conn = "up" => /\ prompt = hostname \/ Renaming
                    /\ \A i \in 1..Len(output) : output[i].prompt = hostname

\* Nothing that follows the last answer of a call can change what it says.
Settled == startup = running /\ input = <<>>
Shows(a) == a.ok /\ a.config = running /\ input = <<>>

AnswersTrue ==
  \A i \in 1..Len(output) :
    /\ output[i].ok /\ Configures(output[i].cmd) => <<ticket, output[i].cmd>> \in Items(running)
    /\ output[i].ok /\ output[i].cmd = Save => Settled
    /\ Asks({"show"}) /\ output[i].cmd = ShowConfig => Shows(output[i])

\* Every line of a configuring call is applied, still to be answered or refused.
Progress ==
  Asks({"config", "prompt", "sever"}) =>
    \A l \in ToSet(Current.lines) :
      \/ <<ticket, l>> \in Items(running) \/ rejected
      \/ \E i \in 1..Len(awaiting) : awaiting[i] = l
      \/ \E i \in 1..Len(todo) : l \in ToSet(todo[i])

Saves == Asks({"save"}) \/ (Asks({"sever"}) /\ Current.lines # <<>>)
Completed ==
  todo = <<>> /\ awaiting = <<>> =>
    /\ Saves /\ ~rejected => Settled
    /\ Asks({"show"}) => got.cmd = ShowConfig /\ got.part = "whole" /\ Shows(got)

\* The configurations only grow.
Histories ==
  /\ base \subseteq running /\ startup \subseteq running
  /\ AppliedWhenClaimed /\ FreshRead /\ DurableWhenSaved
  /\ \A i \in 1..Len(input) : input[i].ticket \in 1..ticket

Wire == /\ Idle /\ LostIsCut /\ Aligned /\ Positions /\ ModeKnown
        /\ PromptsAgree /\ AnswersTrue /\ Progress /\ Completed /\ Histories

-----------------------------------------------------------------------------
(* The lines of calls, and the shape of the queues.                          *)

LEMMA OwnLines ==
  /\ Conf # End /\ Conf # Save /\ Conf # ShowConfig
  /\ End # Save /\ End # ShowConfig /\ Save # ShowConfig
  /\ Conf.kind = "conf" /\ End.kind = "end" /\ Save.kind = "save" /\ ShowConfig.kind = "show"
BY DEF Conf, End, Save, ShowConfig

\* A line a resource gives to a call is none of the client's own, except that
\* Execute may be asked for any show command.
LEMMA ProperLine ==
  ASSUME ProperCalls, NEW k \in Calls, NEW l \in ToSet(k.lines)
  PROVE  /\ l \in Command /\ l \notin {Conf, End, Save}
         /\ l.kind \notin {"conf", "end", "save"}
         /\ k.op # "execute" => Configures(l) /\ l # ShowConfig
         /\ k.op = "execute" => ~Configures(l)
         /\ l.kind = "name" => k.op = "prompt"
<1>1. k.lines \in Seq(Command)
  BY CallLines
<1>2. l \in Command
  BY <1>1 DEF ToSet
<1>3. IF k.op = "execute" THEN l.kind = "show"
      ELSE Configures(l) /\ (l.kind = "name" => k.op = "prompt")
  BY DEF ProperCalls
<1>4. QED
  BY <1>2, <1>3, OwnLines DEF Configures

LEMMA Singletons ==
  ASSUME NEW s, NEW l, s = <<l>>
  PROVE  Len(s) = 1 /\ s[1] = l /\ s # <<>> /\ \A i \in 1..Len(s) : i = 1 /\ s[i] = l
OBVIOUS

LEMMA NotOneLine ==
  ASSUME NEW s, NEW l, \A i \in 1..Len(s) : s[i] # l
  PROVE  s # <<l>>
<1>1. 1 \in 1..Len(<<l>>) /\ <<l>>[1] = l
  OBVIOUS
<1>2. QED
  BY <1>1, Zenon

LEMMA AtMostOne ==
  ASSUME NEW s, s = <<>> \/ \E l : s = <<l>>
  PROVE  Len(s) <= 1
<1>1. CASE s = <<>>
  BY <1>1
<1>2. ASSUME NEW l, s = <<l>> PROVE Len(s) <= 1
  BY <1>2
<1>3. QED
  BY <1>1, <1>2

LEMMA Lengths ==
  ASSUME TypeOK
  PROVE  /\ Len(awaiting) \in Nat /\ Len(output) \in Nat /\ Len(input) \in Nat
         /\ (awaiting = <<>> <=> Len(awaiting) = 0) /\ (output = <<>> <=> Len(output) = 0)
         /\ (input = <<>> <=> Len(input) = 0)
<1>1. awaiting \in Seq(Command) /\ output \in Seq(AnswerType) /\ input \in Seq(Tagged)
  BY DEF TypeOK, CallTypes, WireTypes
<1>2. QED
  BY <1>1

\* What is awaited, and of whom.
LEMMA Awaited ==
  ASSUME TypeOK, Wire, ProperCalls, NEW i \in 1..Len(awaiting)
  PROVE  /\ Serves /\ Current \in Calls
         /\ \/ awaiting[i] \in ToSet(Current.lines) /\ Asks({"execute", "config", "prompt", "sever"})
            \/ awaiting[i] \in {Conf, End} /\ Serves
            \/ awaiting[i] = Save /\ i = Len(awaiting) /\ Saves /\ todo = <<>>
            \/ awaiting[i] = ShowConfig /\ awaiting = <<ShowConfig>> /\ Asks({"show"}) /\ ~inConfigMode
<1> USE DEF Wire
<1>1. awaiting # <<>> /\ Len(awaiting) \in Nat
  BY Lengths
<1>2. Serves /\ Current \in Calls
  BY <1>1 DEF Idle
<1>3. Current.op \in Ops
  BY <1>2, CallLines
<1>4. CASE Asks({"execute"})
  BY <1>1, <1>2, <1>4 DEF Positions, ExecuteAt, Asks
<1>5. CASE Asks({"config", "prompt"})
  BY <1>1, <1>2, <1>5 DEF Positions, ConfigAt, Asks
<1>6. CASE Asks({"sever"})
  BY <1>1, <1>2, <1>6 DEF Positions, SeverAt, BatchLeft, Asks, Saves
<1>7. CASE Asks({"save"})
  BY <1>1, <1>2, <1>7, Singletons DEF Positions, ExecAt, Asks, Saves
<1>8. CASE Asks({"show"})
  <2>1. awaiting = <<End>> \/ (awaiting = <<ShowConfig>> /\ ~inConfigMode)
    BY <1>1, <1>8 DEF Positions, ExecAt
  <2>2. i = 1 /\ awaiting[i] \in {End, ShowConfig}
    BY <2>1, Singletons
  <2>3. QED
    BY <1>2, <1>8, <2>1, <2>2, OwnLines
<1>9. CASE Asks({"close", "none"})
  BY <1>1, <1>2, <1>9 DEF Positions, CloseAt, Asks
<1>10. QED
  BY <1>2, <1>3, <1>4, <1>5, <1>6, <1>7, <1>8, <1>9 DEF Asks, Ops

\* A call but Execute and ExecuteExpectingDisconnect awaits one line at a time.
LEMMA OneAtATime ==
  ASSUME TypeOK, Wire, Serves, ~Asks({"execute"}), ~BatchSent
  PROVE  Len(awaiting) <= 1
<1> USE DEF Wire
<1>1. Current.op \in Ops
  BY CallLines DEF Idle
<1>2. awaiting = <<>> \/ \E l : awaiting = <<l>>
  <2>1. CASE Asks({"config", "prompt"})
    BY <2>1 DEF Positions, ConfigAt
  <2>2. CASE Asks({"sever"})
    BY <2>2 DEF Positions, SeverAt, BatchSent, Asks
  <2>3. CASE Asks({"save"}) \/ Asks({"show"})
    BY <2>3 DEF Positions, ExecAt
  <2>4. CASE Asks({"close", "none"})
    BY <2>4 DEF Positions, CloseAt
  <2>5. QED
    BY <1>1, <2>1, <2>2, <2>3, <2>4 DEF Asks, Ops
<1>3. QED
  BY <1>2, AtMostOne

-----------------------------------------------------------------------------
(* How calls end.                                                            *)

\* Every configuration the current call's answers speak of, when it succeeds.
LEMMA HistoriesAtReturn ==
  ASSUME TypeOK, Wire, NEW c \in Callers, NEW result, holder = c, Return(c, result), input' = input,
         result = "ok" => ~rejected /\ todo = <<>> /\ awaiting = <<>>
  PROVE  Histories'
<1> USE DEF Return, switchVars, Wire
<1>1. Serves /\ Current = want[c] /\ Current \in Calls
  BY SessionAssumption DEF Serves, Current, Idle
<1>2. base' \subseteq running' /\ startup' \subseteq running'
  BY DEF Histories
<1>3. AppliedWhenClaimed'
  <2>1. CASE result = "ok" /\ want[c].op \in {"config", "prompt", "sever"}
    <3>1. \A l \in ToSet(want[c].lines) : <<ticket, l>> \in Items(running)
      <4>1. Len(todo) = 0 /\ Len(awaiting) = 0
        BY <2>1
      <4>2. QED
        BY <1>1, <2>1, <4>1 DEF Progress, Asks
    <3>2. Lines(ticket, want[c]) \subseteq Items(running)
      BY <3>1 DEF Lines
    <3>3. claimed' = claimed \cup Lines(ticket, want[c])
      BY <2>1
    <3>4. QED
      BY <3>2, <3>3 DEF Histories, AppliedWhenClaimed
  <2>2. CASE ~(result = "ok" /\ want[c].op \in {"config", "prompt", "sever"})
    BY <2>2 DEF Histories, AppliedWhenClaimed
  <2>3. QED
    BY <2>1, <2>2
<1>4. FreshRead'
  <2>1. SUFFICES ASSUME Succeeded("show")'
        PROVE  /\ report'.data.cmd = ShowConfig /\ report'.data.ok /\ report'.data.part = "whole"
               /\ report'.base \subseteq report'.data.config
    BY DEF FreshRead
  <2>2. result = "ok" /\ want[c].op = "show"
    BY <2>1 DEF Succeeded
  <2>3. got.cmd = ShowConfig /\ got.part = "whole" /\ got.ok /\ got.config = running
    BY <1>1, <2>2 DEF Completed, Asks, Shows
  <2>4. QED
    BY <2>3 DEF Histories
<1>5. DurableWhenSaved'
  <2>1. SUFFICES ASSUME Succeeded("save")' PROVE claimed' \subseteq Items(startup)'
    BY DEF DurableWhenSaved
  <2>2. result = "ok" /\ want[c].op = "save"
    BY <2>1 DEF Succeeded
  <2>3. startup = running
    BY <1>1, <2>2 DEF Completed, Asks, Saves, Settled
  <2>4. claimed' = claimed
    BY <2>2
  <2>5. QED
    BY <2>3, <2>4 DEF Histories, AppliedWhenClaimed, Items
<1>6. \A i \in 1..Len(input') : input'[i].ticket \in 1..ticket'
  BY DEF Histories
<1>7. QED
  BY <1>2, <1>3, <1>4, <1>5, <1>6 DEF Histories

\* A call ends well if it leaves nothing on the wire and the client knows the
\* switch's mode and prompt.
LEMMA CallEnds ==
  ASSUME TypeOK, Wire, NEW c \in Callers, NEW result, holder = c, Return(c, result),
         input' = input, output' = <<>>, lost' # "no" => conn' # "up",
         result = "ok" => ~rejected /\ todo = <<>> /\ awaiting = <<>>,
         conn' = "up" => /\ input = <<>> /\ prompt' = hostname
                         /\ (inConfigMode' <=> mode # "exec")
  PROVE  Wire'
<1>1. /\ holder' = NoCaller /\ todo' = <<>> /\ awaiting' = <<>>
      /\ mode' = mode /\ hostname' = hostname
  BY DEF Return, switchVars
<1>2. ~Serves' /\ \A ops : ~Asks(ops)'
  BY <1>1 DEF Serves, Asks
<1>3. Idle' /\ LostIsCut' /\ Positions'
  BY <1>1, <1>2 DEF Idle, LostIsCut, Positions
<1>4. Aligned'
  <2>1. Len(output') = 0 /\ Len(awaiting') = 0 /\ (conn' = "up" => Len(input') = 0)
    BY <1>1
  <2>2. QED
    BY <2>1 DEF Aligned
<1>5. ModeKnown'
  BY <1>1, <1>2, Singletons DEF ModeKnown, BatchSent
<1>6. PromptsAgree' /\ AnswersTrue'
  <2>1. Len(output') = 0
    OBVIOUS
  <2>2. QED
    BY <1>1, <2>1 DEF PromptsAgree, AnswersTrue
<1>7. Progress' /\ Completed'
  BY <1>2 DEF Progress, Completed, Saves
<1>8. Histories'
  BY HistoriesAtReturn
<1>9. QED
  BY <1>3, <1>4, <1>5, <1>6, <1>7, <1>8 DEF Wire

\* Between the reads of a call there is nothing on the wire.
LEMMA AtRest ==
  ASSUME TypeOK, Wire, awaiting = <<>>
  PROVE  /\ output = <<>>
         /\ conn = "up" => /\ input = <<>> /\ prompt = hostname /\ lost = "no"
                           /\ IF BatchSent THEN mode = "exec" ELSE inConfigMode <=> mode # "exec"
<1> USE DEF Wire
<1>1. Len(awaiting) = 0
  BY Lengths
<1>2. output = <<>> /\ (conn = "up" => input = <<>>)
  BY <1>1, Lengths DEF Aligned
<1>3. conn = "up" => prompt = hostname /\ lost = "no"
  BY DEF PromptsAgree, Renaming, LostIsCut
<1>4. awaiting # <<Conf>> /\ awaiting # <<End>> /\ (input = <<>> => Len(input) = 0)
  BY Singletons
<1>5. conn = "up" => IF BatchSent THEN mode = "exec" ELSE inConfigMode <=> mode # "exec"
  BY <1>2, <1>4 DEF ModeKnown
<1>6. QED
  BY <1>2, <1>3, <1>5

\* A read takes the answer of its line, which is the first one there.
LEMMA FirstAnswer ==
  ASSUME TypeOK, Wire, NEW c \in Callers, holder = c, awaiting # <<>>,
         NEW k \in 1..Len(output), Completes(c, k)
  PROVE  /\ k = 1 /\ ~EchoMissing
         /\ output[1].cmd = Head(awaiting) /\ output[1].part = "whole"
         /\ AnyPrompt(c) <=> Renaming
         /\ conn = "up" => output[1].prompt = hostname /\ (prompt = hostname \/ Renaming)
<1> USE DEF Wire
<1>1. Serves /\ Current = want[c]
  BY SessionAssumption DEF Serves, Current
<1>2. AnyPrompt(c) <=> Renaming
  BY <1>1 DEF AnyPrompt, Renaming, Asks
<1>3. Len(output) \in Nat /\ 1 \in 1..Len(output)
  BY Lengths
<1>4. output[1].prompt = prompt \/ Renaming
  BY <1>3 DEF PromptsAgree
<1>5. k = 1
  BY <1>2, <1>3, <1>4 DEF Completes
<1>6. awaiting[1] = Head(awaiting)
  BY DEF TypeOK, CallTypes
<1>7. output[1].cmd = Head(awaiting) /\ output[1].part = "whole"
  BY <1>3, <1>6 DEF Aligned
<1>8. ~EchoMissing
  BY <1>7 DEF EchoMissing
<1>9. conn = "up" => output[1].prompt = hostname /\ (prompt = hostname \/ Renaming)
  BY <1>3 DEF PromptsAgree
<1>10. QED
  BY <1>2, <1>5, <1>7, <1>8, <1>9

LEMMA FinishKeeps ==
  ASSUME TypeOK, Wire, NEW c \in Callers, Finish(c)
  PROVE  Wire'
<1>1. /\ holder = c /\ todo = <<>> /\ awaiting = <<>>
      /\ Return(c, IF rejected THEN "cli" ELSE "ok")
      /\ inConfigMode' = IF want[c].op = "sever" /\ want[c].lines # <<>> THEN FALSE ELSE inConfigMode
      /\ conn' = IF want[c].op = "close" THEN "closed" ELSE conn
      /\ UNCHANGED <<prompt, lost, input, output, boundVars>>
  BY DEF Finish
<1>2. BatchSent <=> want[c].op = "sever" /\ want[c].lines # <<>>
  BY <1>1, SessionAssumption DEF BatchSent, Asks, Serves, Current
<1>3. conn' = "up" => /\ input = <<>> /\ prompt' = hostname
                      /\ (inConfigMode' <=> mode # "exec")
  BY <1>1, <1>2, AtRest
<1>4. output' = <<>> /\ (lost' # "no" => conn' # "up")
  BY <1>1, AtRest DEF Wire, LostIsCut
<1>5. QED
  BY <1>1, <1>3, <1>4, CallEnds

\* The errors in front of a write.
LEMMA NotWrittenKeeps ==
  ASSUME TypeOK, Wire, NEW c \in Callers, Refuse(c) \/ FailLost(c) \/ WriteFails(c)
  PROVE  Wire'
<1>1. PICK result \in Outcomes \ {"ok"} :
        /\ Sending(c) /\ Fail(c, result, lost) /\ UNCHANGED <<prompt, input, output>>
  BY DEF Refuse, FailLost, WriteFails, Ready, Outcomes
<1>2. /\ holder = c /\ awaiting = <<>> /\ todo # <<>> /\ Return(c, result) /\ lost' = lost
      /\ IF want[c].op = "close" THEN inConfigMode' = FALSE /\ conn' = "closed"
         ELSE UNCHANGED <<inConfigMode, conn>>
  BY <1>1 DEF Sending, Fail
<1>3. ~BatchSent
  BY <1>2 DEF BatchSent
<1>4. conn' = "up" => /\ input = <<>> /\ prompt' = hostname
                      /\ (inConfigMode' <=> mode # "exec")
  BY <1>1, <1>2, <1>3, AtRest
<1>5. output' = <<>> /\ (lost' # "no" => conn' # "up")
  BY <1>1, <1>2, AtRest DEF Wire, LostIsCut
<1>6. QED
  BY <1>1, <1>2, <1>4, <1>5, CallEnds

LEMMA ReadFailsKeeps ==
  ASSUME TypeOK, Wire, NEW c \in Callers, ReadFails(c)
  PROVE  Wire'
<1>1. PICK result \in Outcomes \ {"ok"} :
        /\ holder = c /\ conn # "up" /\ Fail(c, result, CauseOfFailedRead(c))
        /\ output' = <<>> /\ UNCHANGED <<prompt, input>>
  BY DEF ReadFails, Outcomes
<1>2. Return(c, result) /\ conn' # "up"
  BY <1>1 DEF Fail
<1>3. QED
  BY <1>1, <1>2, CallEnds

LEMMA ReadRejectionKeeps ==
  ASSUME TypeOK, Wire, ProperCalls, NEW c \in Callers, ReadRejection(c)
  PROVE  Wire'
<1> USE DEF Wire
<1>1. PICK k \in 1..Len(output) :
        /\ holder = c /\ awaiting # <<>> /\ Completes(c, k)
        /\ Checked(c) /\ ~InBatch(want[c], Head(awaiting))
        /\ TakeAnswer(c, k) /\ Fail(c, "cli", lost)
  BY DEF ReadRejection
<1>2. Serves /\ Current = want[c]
  BY <1>1, SessionAssumption DEF Serves, Current
<1>3. Asks({"config", "prompt", "save"}) /\ Head(awaiting) \notin {Conf, End}
  BY <1>1, <1>2 DEF Checked, Asks
<1>4. ~Asks({"execute"}) /\ ~BatchSent
  BY <1>3 DEF Asks, BatchSent
<1>5. Len(awaiting) = 1 /\ Len(output) = 1 /\ k = 1
  <2>1. Len(awaiting) <= 1 /\ Len(output) <= Len(awaiting)
    BY <1>2, <1>4, OneAtATime DEF Aligned
  <2>2. Len(awaiting) \in Nat /\ Len(output) \in Nat
    BY Lengths
  <2>3. k \in 1..Len(output)
    OBVIOUS
  <2>4. \A m, n \in Nat : \A j \in 1..n : n <= m /\ m <= 1 => m = 1 /\ n = 1 /\ j = 1
    OBVIOUS
  <2>5. QED
    BY <2>1, <2>2, <2>3, <2>4, Zenon
<1>6. output' = <<>>
  BY <1>1, <1>5 DEF TakeAnswer, TypeOK, WireTypes
<1>7. Return(c, "cli") /\ lost' = lost /\ UNCHANGED <<inConfigMode, conn>> /\ input' = input
  BY <1>1, <1>2, <1>3 DEF Fail, Asks, TakeAnswer
<1>8. conn = "up" => input = <<>> /\ prompt' = hostname
  BY <1>1, <1>5, FirstAnswer, Lengths DEF Aligned, TakeAnswer
<1>9. conn = "up" => (inConfigMode <=> mode # "exec")
  <2>1. awaiting # <<Conf>> /\ awaiting # <<End>>
    BY <1>3
  <2>2. QED
    BY <1>4, <2>1 DEF ModeKnown
<1>10. lost' # "no" => conn' # "up"
  BY <1>7 DEF LostIsCut
<1>11. QED
  BY <1>1, <1>6, <1>7, <1>8, <1>9, <1>10, CallEnds

\* What does not happen in time.
LEMMA NeverLate ==
  ASSUME TypeOK, Wire, InTime, NEW c \in Callers
  PROVE  ~DrainFindsOutput(c) /\ ~ReadOutOfSync(c) /\ ~Timeout(c) /\ ~Stray
<1>1. ~DrainFindsOutput(c)
  BY AtRest, Lengths DEF DrainFindsOutput, Ready, Sending
<1>2. ~ReadOutOfSync(c)
  BY FirstAnswer DEF ReadOutOfSync
<1>3. ~Timeout(c) /\ ~Stray
  BY DEF Timeout, Stray, InTime, TypeOK, BoundTypes
<1>4. QED
  BY <1>1, <1>2, <1>3

-----------------------------------------------------------------------------
(* How calls begin.                                                          *)

LEMMA WritesOfConfig ==
  ASSUME NEW k \in Calls, k.op \in {"config", "prompt"}
  PROVE  /\ \A i \in 1..Len(Writes(k)) :
              \/ \E l \in ToSet(k.lines) : Writes(k)[i] = <<l>>
              \/ i = 1 /\ Writes(k)[1] = <<Conf>> /\ ~inConfigMode
         /\ \A l \in ToSet(k.lines) :
              \E i \in 1..Len(Writes(k)) : Writes(k)[i] = <<l>>
<1> DEFINE own == [i \in 1..Len(k.lines) |-> <<k.lines[i]>>]
<1>1. k.lines \in Seq(Command) /\ Len(k.lines) \in Nat
  BY CallLines
<1>2. own \in Seq(Seq(Command)) /\ Len(own) = Len(k.lines)
  BY <1>1
<1>3. ToSet(k.lines) = {k.lines[i] : i \in 1..Len(k.lines)}
  BY <1>1 DEF ToSet
<1>4. CASE inConfigMode
  <2>1. Writes(k) = <<>> \o own
    BY <1>4 DEF Writes, EnterConfig
  <2>2. Writes(k) = own
    BY <1>2, <2>1
  <2>3. QED
    BY <1>2, <1>3, <2>2
<1>5. CASE ~inConfigMode
  <2>1. Writes(k) = <<<<Conf>>>> \o own
    BY <1>5 DEF Writes, EnterConfig
  <2>2. <<<<Conf>>>> \in Seq(Seq(Command))
    BY CommandTypes
  <2>3. Len(Writes(k)) = Len(k.lines) + 1 /\ Writes(k)[1] = <<Conf>>
    BY <1>1, <1>2, <2>1, <2>2
  <2>4. \A i \in 1..Len(k.lines) : Writes(k)[i + 1] = <<k.lines[i]>>
    BY <1>1, <1>2, <2>1, <2>2
  <2>5. \A i \in 1..Len(Writes(k)) : i # 1 => i - 1 \in 1..Len(k.lines) /\ i = (i - 1) + 1
    BY <1>1, <2>3
  <2>6. \A i \in 1..Len(k.lines) : i + 1 \in 1..Len(Writes(k))
    BY <1>1, <2>3
  <2>7. ASSUME NEW i \in 1..Len(Writes(k)), i # 1
        PROVE  \E l \in ToSet(k.lines) : Writes(k)[i] = <<l>>
    <3>1. i - 1 \in 1..Len(k.lines) /\ Writes(k)[i] = <<k.lines[i - 1]>>
      BY <2>4, <2>5, <2>7
    <3>2. QED
      BY <1>3, <3>1
  <2>8. ASSUME NEW l \in ToSet(k.lines)
        PROVE  \E i \in 1..Len(Writes(k)) : Writes(k)[i] = <<l>>
    BY <1>3, <2>4, <2>6
  <2>9. QED
    BY <1>5, <2>3, <2>7, <2>8
<1>6. QED
  BY <1>4, <1>5

LEMMA Joined ==
  ASSUME NEW a, NEW b
  PROVE  <<>> \o <<b>> = <<b>> /\ <<a>> \o <<b>> = <<a, b>>
<1> DEFINE S == {a, b}
<1>1. <<a>> \in Seq(S) /\ <<b>> \in Seq(S) /\ <<a, b>> \in Seq(S)
  OBVIOUS
<1>2. <<a>> \o <<b>> \in Seq(S) /\ <<>> \o <<b>> = <<b>>
  BY <1>1, ConcatProperties, ConcatEmptySeq
<1>3. Len(<<a>> \o <<b>>) = 2 /\ (<<a>> \o <<b>>)[1] = a /\ (<<a>> \o <<b>>)[2] = b
  BY <1>1, ConcatProperties
<1>4. \A i \in 1..Len(<<a>> \o <<b>>) : (<<a>> \o <<b>>)[i] = <<a, b>>[i]
  BY <1>3
<1>5. Len(<<a>> \o <<b>>) = Len(<<a, b>>)
  BY <1>3
<1>6. <<a>> \o <<b>> = <<a, b>>
  BY <1>1, <1>2, <1>4, <1>5, SeqEqual
<1>7. QED
  BY <1>2, <1>6

LEMMA WritesOfSever ==
  ASSUME NEW k \in Calls, k.op = "sever", k.lines # <<>>
  PROVE  IF inConfigMode THEN Writes(k) = <<Batch(k)>>
         ELSE Writes(k) = <<<<Conf>>, Batch(k)>>
<1>1. Writes(k) = EnterConfig \o <<Batch(k)>>
  BY DEF Writes, Batch
<1>2. QED
  BY <1>1, Joined DEF EnterConfig

LEMMA WritesOfExec ==
  ASSUME NEW k \in Calls
  PROVE  /\ k.op = "save" =>
              Writes(k) = IF inConfigMode THEN <<<<End>>, <<Save>>>> ELSE <<<<Save>>>>
         /\ k.op = "show" =>
              Writes(k) = IF inConfigMode THEN <<<<End>>, <<ShowConfig>>>> ELSE <<<<ShowConfig>>>>
<1>1. CASE k.op = "save"
  <2>1. Writes(k) = LeaveConfig \o <<<<Save>>>>
    BY <1>1 DEF Writes
  <2>2. QED
    BY <1>1, <2>1, Joined DEF LeaveConfig
<1>2. CASE k.op = "show"
  <2>1. Writes(k) = LeaveConfig \o <<<<ShowConfig>>>>
    BY <1>2 DEF Writes
  <2>2. QED
    BY <1>2, <2>1, Joined DEF LeaveConfig
<1>3. QED
  BY <1>1, <1>2

LEMMA WritesOfClose ==
  ASSUME NEW k \in Calls, k.op \in {"close", "none"}
  PROVE  Writes(k) \in {<<>>, <<<<End>>>>}
BY DEF Writes, LeaveConfig

\* A batch is the call's lines, `end' and `write memory'.
LEMMA BatchShape ==
  ASSUME NEW k \in Calls
  PROVE  /\ Batch(k) \in Seq(Command) /\ Len(Batch(k)) = Len(k.lines) + 2
         /\ Len(k.lines) \in Nat
         /\ \A i \in 1..Len(k.lines) : Batch(k)[i] = k.lines[i] /\ k.lines[i] \in ToSet(k.lines)
         /\ Batch(k)[Len(k.lines) + 1] = End /\ Batch(k)[Len(k.lines) + 2] = Save
<1>1. k.lines \in Seq(Command) /\ <<End, Save>> \in Seq(Command)
  BY CallLines, CommandTypes
<1>2. QED
  BY <1>1 DEF Batch, ToSet

LEMMA AcquireKeeps ==
  ASSUME TypeOK, Wire, NEW c \in Callers, Acquire(c)
  PROVE  Wire'
<1> DEFINE k == want[c]
<1> USE DEF Wire
<1>1. /\ holder = NoCaller /\ k \in Calls /\ holder' = c /\ want' = want
      /\ todo' = Writes(k) /\ ticket' = ticket + 1 /\ base' = running
      /\ UNCHANGED <<awaiting, rejected, got, report, claimed, clientVars, switchVars, wireVars>>
  BY DEF Acquire, TypeOK, CallTypes
<1>2. ~Serves /\ awaiting = <<>>
  BY <1>1 DEF Serves, Idle
<1>3. Serves' /\ Current' = k /\ awaiting' = <<>> /\ output' = <<>> /\ output = <<>>
  BY <1>1, <1>2, AtRest, SessionAssumption DEF Serves, Current, wireVars
<1>4. k.op \in Ops /\ \A ops : Asks(ops)' <=> k.op \in ops
  BY <1>1, <1>3, CallLines DEF Asks
<1>5. Idle' /\ LostIsCut'
  BY <1>1, <1>3 DEF Idle, LostIsCut, clientVars, wireVars, TypeOK, ReportTypes
<1>6. Aligned'
  <2>1. Len(output') = 0 /\ Len(awaiting') = 0 /\ (conn' = "up" => Len(input') = 0)
    BY <1>1, <1>2, <1>3, AtRest DEF wireVars
  <2>2. QED
    BY <2>1 DEF Aligned
<1>7. Positions'
  <2>1. CASE k.op = "execute"
    BY <1>1, <1>3, <1>4, <2>1 DEF Positions, ExecuteAt, Writes
  <2>2. CASE k.op \in {"config", "prompt"}
    BY <1>1, <1>3, <1>4, <2>2, WritesOfConfig DEF Positions, ConfigAt, clientVars
  <2>3. CASE k.op = "sever" /\ k.lines = <<>>
    <3>1. todo' = <<>>
      BY <1>1, <2>3 DEF Writes
    <3>2. QED
      BY <1>3, <1>4, <2>3, <3>1 DEF Positions, SeverAt
  <2>4. CASE k.op = "sever" /\ k.lines # <<>>
    <3>1. IF inConfigMode THEN todo' = <<Batch(k)>> ELSE todo' = <<<<Conf>>, Batch(k)>>
      BY <1>1, <2>4, WritesOfSever
    <3>2. inConfigMode' = inConfigMode /\ Batch(k) = k.lines \o <<End, Save>>
      BY <1>1 DEF clientVars, Batch
    <3>3. SeverAt(Current)'
      <4>1. Current'.lines \o <<End, Save>> = Batch(k) /\ Current'.lines # <<>>
        BY <1>3, <2>4, <3>2
      <4>2. \/ todo' = <<Batch(k)>> /\ inConfigMode'
            \/ todo' = <<<<Conf>>, Batch(k)>> /\ ~inConfigMode'
        BY <3>1, <3>2
      <4>3. QED
        BY <1>3, <4>1, <4>2 DEF SeverAt, Batch
    <3>4. QED
      BY <1>4, <2>4, <3>3 DEF Positions
  <2>5. CASE k.op = "save"
    <3>1. todo' = IF inConfigMode THEN <<<<End>>, <<Save>>>> ELSE <<<<Save>>>>
      BY <1>1, <2>5, WritesOfExec
    <3>2. QED
      BY <1>1, <1>3, <1>4, <2>5, <3>1 DEF Positions, ExecAt, clientVars
  <2>6. CASE k.op = "show"
    <3>1. todo' = IF inConfigMode THEN <<<<End>>, <<ShowConfig>>>> ELSE <<<<ShowConfig>>>>
      BY <1>1, <2>6, WritesOfExec
    <3>2. QED
      BY <1>1, <1>3, <1>4, <2>6, <3>1 DEF Positions, ExecAt, clientVars
  <2>7. CASE k.op \in {"close", "none"}
    BY <1>1, <1>3, <1>4, <2>7, WritesOfClose DEF Positions, CloseAt
  <2>8. QED
    BY <1>4, <2>1, <2>2, <2>3, <2>4, <2>5, <2>6, <2>7 DEF Ops
<1>8. ASSUME k.op \in {"save", "show"} \/ (k.op = "sever" /\ k.lines # <<>>)
      PROVE  todo' # <<>>
  <2>1. \A a : <<a>> # <<>>
    OBVIOUS
  <2>2. \A a, b : <<a, b>> # <<>>
    OBVIOUS
  <2>3. CASE k.op = "save" \/ k.op = "show"
    BY <1>1, <2>1, <2>2, <2>3, WritesOfExec
  <2>4. CASE k.op = "sever" /\ k.lines # <<>>
    BY <1>1, <2>1, <2>2, <2>4, WritesOfSever
  <2>5. QED
    BY <1>8, <2>3, <2>4
<1>9. ModeKnown'
  <2>1. ~BatchSent /\ ~BatchSent'
    BY <1>2, <1>3, <1>8 DEF BatchSent, Asks
  <2>2. awaiting' # <<Conf>> /\ awaiting' # <<End>>
    BY <1>3, Singletons
  <2>3. QED
    BY <1>1, <1>2, <2>1, <2>2, AtRest DEF ModeKnown, clientVars, switchVars, wireVars
<1>10. PromptsAgree' /\ AnswersTrue'
  <2>1. Len(output') = 0
    BY <1>3
  <2>2. QED
    BY <1>1, <1>2, <2>1, AtRest DEF PromptsAgree, AnswersTrue, clientVars, switchVars, wireVars
<1>11. Progress'
  <2>1. SUFFICES ASSUME k.op \in {"config", "prompt", "sever"}, NEW l \in ToSet(k.lines)
                 PROVE  \E i \in 1..Len(todo') : l \in ToSet(todo'[i])
    BY <1>3 DEF Progress, Asks
  <2>2. CASE k.op \in {"config", "prompt"}
    <3>1. PICK i \in 1..Len(todo') : todo'[i] = <<l>>
      BY <1>1, <2>1, <2>2, WritesOfConfig
    <3>2. l \in ToSet(<<l>>)
      BY DEF ToSet
    <3>3. QED
      BY <3>1, <3>2
  <2>3. CASE k.op = "sever"
    <3>1. k.lines # <<>> /\ l \in ToSet(Batch(k))
      <4>1. k.lines \in Seq(Command)
        BY <1>1, CallLines
      <4>2. PICK j \in 1..Len(k.lines) : l = k.lines[j]
        BY <2>1, <4>1 DEF ToSet
      <4>3. j \in 1..Len(Batch(k)) /\ Batch(k)[j] = l
        BY <1>1, <4>1, <4>2, BatchShape
      <4>4. QED
        BY <1>1, <4>1, <4>2, <4>3, BatchShape DEF ToSet
    <3>2. todo' = <<Batch(k)>> \/ todo' = <<<<Conf>>, Batch(k)>>
      BY <1>1, <2>3, <3>1, WritesOfSever
    <3>3. QED
      BY <3>1, <3>2
  <2>4. QED
    BY <2>1, <2>2, <2>3
<1>12. Completed'
  BY <1>3, <1>8 DEF Completed, Saves, Asks
<1>13. Histories'
  <2>1. \A i \in 1..Len(input') : input'[i].ticket \in 1..ticket'
    BY <1>1 DEF Histories, wireVars, TypeOK, ReportTypes
  <2>2. AppliedWhenClaimed' /\ FreshRead' /\ DurableWhenSaved'
    BY <1>1 DEF Histories, AppliedWhenClaimed, FreshRead, DurableWhenSaved, Succeeded, switchVars
  <2>3. QED
    BY <1>1, <2>1, <2>2 DEF Histories, switchVars
<1>14. QED
  BY <1>5, <1>6, <1>7, <1>9, <1>10, <1>11, <1>12, <1>13

LEMMA RequestKeeps ==
  ASSUME TypeOK, Wire, NEW c \in Callers, NEW k \in Calls, Request(c, k)
  PROVE  Wire'
<1> USE DEF Wire
<1>1. /\ want[c] = NoCall /\ want' = [want EXCEPT ![c] = k]
      /\ UNCHANGED <<holder, todo, awaiting, rejected, got, report, claimed, clientVars,
                     switchVars, wireVars, ticket, base>>
  BY DEF Request
<1>2. Serves' = Serves /\ (Serves => Current' = Current)
  <2>1. Serves => holder \in Callers /\ want[holder] # NoCall
    BY SessionAssumption DEF Serves, Idle, Current, TypeOK, CallTypes
  <2>2. QED
    BY <1>1, <2>1 DEF Serves, Current, TypeOK, CallTypes
<1>3. \A ops : Asks(ops)' <=> Asks(ops)
  BY <1>2 DEF Asks
<1> USE <1>1, <1>2, <1>3 DEF clientVars, switchVars, wireVars
<1>4. Idle' /\ LostIsCut' /\ Aligned'
  BY DEF Idle, LostIsCut, Aligned
<1>5. Positions'
  BY DEF Positions, ExecuteAt, ConfigAt, SeverAt, BatchLeft, ExecAt, CloseAt, Batch, Asks
<1>6. (BatchSent' <=> BatchSent) /\ (Renaming' <=> Renaming) /\ (Saves' <=> Saves)
  BY DEF BatchSent, Renaming, Saves, Asks
<1>7. ModeKnown' /\ PromptsAgree'
  BY <1>6 DEF ModeKnown, PromptsAgree
<1>8. AnswersTrue' /\ Completed' /\ Histories'
  BY <1>6 DEF AnswersTrue, Completed, Histories, Settled, Shows, Items,
              AppliedWhenClaimed, FreshRead, DurableWhenSaved, Succeeded
<1>9. Progress'
  BY DEF Progress, Items, Asks
<1>10. QED
  BY <1>4, <1>5, <1>7, <1>8, <1>9

-----------------------------------------------------------------------------
(* Writing.                                                                  *)

LEMMA HeadAndTail ==
  ASSUME NEW a, NEW b
  PROVE  /\ Head(<<a>>) = a /\ Tail(<<a>>) = <<>>
         /\ Head(<<a, b>>) = a /\ Tail(<<a, b>>) = <<b>>
         /\ <<a>> # <<>> /\ <<a, b>> # <<>> /\ <<a, b>> # <<b>> /\ <<a>>[1] = a
OBVIOUS

\* The batch a call writes next, and where the write leaves the call.
LEMMA NextBatch ==
  ASSUME TypeOK, Wire, ProperCalls, NEW c \in Callers, Sending(c)
  PROVE  /\ Serves /\ Current = want[c] /\ Current \in Calls /\ Current.op \in Ops
         /\ Head(todo) \in Seq(Command) /\ Tail(todo) \in Seq(Seq(Command))
         /\ Len(todo) \in Nat /\ Len(todo) >= 1 /\ Len(Tail(todo)) = Len(todo) - 1
         /\ todo[1] = Head(todo)
         /\ \A i \in 1..Len(Tail(todo)) : Tail(todo)[i] = todo[i + 1]
<1>1. holder = c /\ awaiting = <<>> /\ todo # <<>>
  BY DEF Sending
<1>2. Serves /\ Current = want[c] /\ Current \in Calls /\ Current.op \in Ops
  BY <1>1, SessionAssumption, CallLines DEF Serves, Current, Wire, Idle
<1>3. todo \in Seq(Seq(Command))
  BY DEF TypeOK, CallTypes
<1>4. QED
  BY <1>1, <1>2, <1>3, HeadTailProperties

LEMMA SendPositions ==
  ASSUME TypeOK, Wire, ProperCalls, NEW c \in Callers, Sending(c),
         awaiting' = Head(todo), todo' = Tail(todo), Current' = Current,
         inConfigMode' = inConfigMode, \A ops : Asks(ops)' <=> Asks(ops)
  PROVE  /\ Positions'
         /\ awaiting' = <<Conf>> => ~inConfigMode
         /\ Saves \/ Asks({"show"}) => awaiting' # <<>>
         /\ Asks({"sever"}) /\ Current.lines # <<>> /\ todo' = <<>> =>
              inConfigMode /\ awaiting' = Batch(Current)
<1> DEFINE k == Current
<1> USE NextBatch DEF Wire
<1>1. awaiting = <<>> /\ todo # <<>>
  BY DEF Sending
<1>2. \A l \in ToSet(k.lines) : l # Conf
  BY ProperLine
<1>3. k.lines \in Seq(Command) /\ \A i \in 1..Len(k.lines) : k.lines[i] \in ToSet(k.lines)
  BY CallLines DEF ToSet
<1>4. CASE Asks({"execute"})
  <2>1. todo = <<k.lines>>
    BY <1>1, <1>4 DEF Positions, ExecuteAt
  <2>2. awaiting' = k.lines /\ todo' = <<>>
    BY <2>1, HeadAndTail
  <2>3. awaiting' = <<Conf>> => FALSE
    BY <1>2, <1>3, <2>2, Singletons
  <2>4. Positions'
    BY <1>3, <1>4, <2>2 DEF Positions, ExecuteAt, Asks
  <2>5. QED
    BY <1>4, <2>3, <2>4 DEF Saves, Asks
<1>5. CASE Asks({"config", "prompt"})
  <2>1. /\ \A i \in 1..Len(todo) :
             \/ \E l \in ToSet(k.lines) : todo[i] = <<l>>
             \/ i = 1 /\ todo[1] = <<Conf>> /\ ~inConfigMode
    BY <1>5 DEF Positions, ConfigAt
  <2>2. \/ \E l \in ToSet(k.lines) : awaiting' = <<l>>
        \/ awaiting' = <<Conf>> /\ ~inConfigMode
    <3>1. 1 \in 1..Len(todo) /\ todo[1] = awaiting'
      OBVIOUS
    <3>2. QED
      BY <2>1, <3>1
  <2>3. \A i \in 1..Len(todo') : \E l \in ToSet(k.lines) : todo'[i] = <<l>>
    BY <2>1
  <2>4. awaiting' = <<Conf>> => ~inConfigMode
    <3>1. ASSUME NEW l \in ToSet(k.lines), awaiting' = <<l>>, awaiting' = <<Conf>> PROVE FALSE
      BY <1>2, <3>1
    <3>2. QED
      BY <2>2, <3>1
  <2>5. Positions'
    BY <1>5, <2>2, <2>3 DEF Positions, ConfigAt, Asks
  <2>6. QED
    BY <1>5, <2>4, <2>5 DEF Saves, Asks
<1>6. CASE Asks({"sever"})
  <2>1. k.lines # <<>>
    BY <1>1, <1>6 DEF Positions, SeverAt
  <2>2. CASE todo = <<<<Conf>>, Batch(k)>> /\ ~inConfigMode
    <3>1. awaiting' = <<Conf>> /\ todo' = <<Batch(k)>>
      BY <2>2, HeadAndTail
    <3>2. Current'.lines \o <<End, Save>> = Batch(k)
      BY DEF Batch
    <3>3. SeverAt(Current)'
      BY <2>1, <3>1, <3>2 DEF SeverAt, Batch
    <3>4. Positions'
      BY <1>6, <3>3 DEF Positions, Asks
    <3>5. QED
      BY <2>2, <3>1, <3>4, HeadAndTail
  <2>3. CASE todo = <<Batch(k)>> /\ inConfigMode
    <3>1. awaiting' = Batch(k) /\ todo' = <<>>
      BY <2>3, HeadAndTail
    <3>2. BatchLeft(k)'
      <4>1. \A i \in 1..Len(awaiting') :
              CASE i = Len(awaiting')     -> awaiting'[i] = Save
                [] i = Len(awaiting') - 1 -> awaiting'[i] = End
                [] OTHER                  -> awaiting'[i] \in ToSet(k.lines)
        <5> DEFINE n == Len(k.lines)
        <5>1. Len(awaiting') = n + 2 /\ n \in Nat
          BY <3>1, BatchShape
        <5>2. awaiting'[n + 1] = End /\ awaiting'[n + 2] = Save
          BY <3>1, BatchShape
        <5>3. \A i \in 1..n : awaiting'[i] \in ToSet(k.lines)
          BY <3>1, BatchShape
        <5> HIDE DEF n
        <5>4. \A i \in 1..(n + 2) : i # n + 2 /\ i # (n + 2) - 1 => i \in 1..n
          BY <5>1
        <5>5. (n + 2) - 1 = n + 1 /\ n + 2 # n + 1
          BY <5>1
        <5>6. QED
          BY <5>1, <5>2, <5>3, <5>4, <5>5
      <4>2. QED
        BY <4>1 DEF BatchLeft
    <3>3. SeverAt(Current)'
      BY <2>1, <3>1, <3>2 DEF SeverAt, BatchLeft
    <3>4. Positions'
      BY <1>6, <3>3 DEF Positions, Asks
    <3>5. Len(awaiting') >= 2
      BY <3>1, BatchShape
    <3>6. awaiting' # <<Conf>> /\ awaiting' # <<>>
      <4>1. Len(<<Conf>>) = 1 /\ Len(<<>>) = 0
        OBVIOUS
      <4>2. ~(1 >= 2) /\ ~(0 >= 2)
        OBVIOUS
      <4>3. QED
        BY <3>5, <4>1, <4>2, Zenon
    <3>7. QED
      BY <2>3, <3>1, <3>4, <3>6
  <2>4. QED
    BY <1>1, <1>6, <2>1, <2>2, <2>3, Singletons DEF Positions, SeverAt
<1>7. ASSUME NEW own \in {Save, ShowConfig}, ExecAt(own)
      PROVE  ExecAt(own)' /\ awaiting' # <<>> /\ awaiting' # <<Conf>>
  <2>1. CASE todo = <<<<End>>, <<own>>>>
    <3>1. awaiting' = <<End>> /\ todo' = <<<<own>>>>
      BY <2>1, HeadAndTail
    <3>2. <<End>> # <<Conf>> /\ <<End>> # <<>>
      BY OwnLines
    <3>3. QED
      BY <3>1, <3>2 DEF ExecAt
  <2>2. CASE todo = <<<<own>>>>
    <3>1. ~inConfigMode
      BY <1>1, <1>7, <2>2, HeadAndTail DEF ExecAt
    <3>2. awaiting' = <<own>> /\ todo' = <<>>
      BY <2>2, HeadAndTail
    <3>3. own # Conf /\ <<own>> # <<Conf>> /\ <<own>> # <<>>
      BY OwnLines
    <3>4. QED
      BY <3>1, <3>2, <3>3 DEF ExecAt
  <2>3. QED
    BY <1>1, <1>7, <2>1, <2>2 DEF ExecAt
<1>8. CASE Asks({"save"})
  <2>1. ExecAt(Save)
    BY <1>8 DEF Positions
  <2>2. ExecAt(Save)' /\ awaiting' # <<>> /\ awaiting' # <<Conf>>
    BY <1>7, <2>1
  <2>3. QED
    BY <1>8, <2>2 DEF Positions, Asks
<1>9. CASE Asks({"show"})
  <2>1. ExecAt(ShowConfig)
    BY <1>9 DEF Positions
  <2>2. ExecAt(ShowConfig)' /\ awaiting' # <<>> /\ awaiting' # <<Conf>>
    BY <1>7, <2>1
  <2>3. QED
    BY <1>9, <2>2 DEF Positions, Asks
<1>10. CASE Asks({"close", "none"})
  <2>1. todo = <<<<End>>>>
    BY <1>1, <1>10 DEF Positions, CloseAt
  <2>2. awaiting' = <<End>> /\ todo' = <<>>
    BY <2>1, HeadAndTail
  <2>3. QED
    BY <1>10, <2>2, OwnLines, HeadAndTail DEF Positions, CloseAt, Asks, Saves
<1>11. QED
  BY <1>4, <1>5, <1>6, <1>8, <1>9, <1>10 DEF Asks, Ops

LEMMA SendKeeps ==
  ASSUME TypeOK, Wire, ProperCalls, NEW c \in Callers, Send(c)
  PROVE  Wire'
<1> DEFINE b == Head(todo)
<1> USE DEF Wire
<1>1. Sending(c) /\ holder = c /\ awaiting = <<>> /\ todo # <<>> /\ output = <<>>
  BY AtRest DEF Send, Ready, Sending
<1>2. /\ awaiting' = b /\ todo' = Tail(todo)
      /\ input' = IF conn = "up"
                  THEN input \o [i \in 1..Len(b) |-> [ticket |-> ticket, cmd |-> b[i]]]
                  ELSE input
      /\ UNCHANGED <<holder, want, rejected, got, report, claimed, clientVars, switchVars,
                     conn, ticket, base>>
  BY DEF Send
<1>3. Len(output) = 0 /\ output' = <<>>
  <2>1. PICK n \in 0..Len(output) : output' = SubSeq(output, n + 1, Len(output))
    BY DEF Send
  <2>2. Len(output) = 0 /\ n = 0
    BY <1>1
  <2>3. QED
    BY <2>1, <2>2, SubSeqEmpty
<1>4. b \in Seq(Command) /\ Len(b) \in Nat /\ Len(awaiting') = Len(b)
  BY <1>1, <1>2, NextBatch
<1>5. conn = "up" => Len(input') = Len(b) /\ \A i \in 1..Len(b) :
                                             input'[i] = [ticket |-> ticket, cmd |-> b[i]]
  <2> DEFINE s == [i \in 1..Len(b) |-> [ticket |-> ticket, cmd |-> b[i]]]
  <2>1. ticket \in Nat /\ \A i \in 1..Len(b) : [ticket |-> ticket, cmd |-> b[i]] \in Tagged
    BY <1>4 DEF Tagged, TypeOK, ReportTypes
  <2>2. s \in Seq(Tagged) /\ Len(s) = Len(b)
    BY <1>4, <2>1
  <2>3. conn = "up" => input = <<>>
    BY <1>1, AtRest
  <2>4. <<>> \o s = s
    BY <2>2, ConcatEmptySeq
  <2>5. QED
    BY <1>2, <2>2, <2>3, <2>4
<1>6. Current' = Current /\ (Serves' <=> Serves) /\ \A ops : Asks(ops)' <=> Asks(ops)
  BY <1>2 DEF Current, Serves, Asks
<1>7. Idle' /\ LostIsCut'
  BY <1>1, <1>2, <1>6, NextBatch DEF Idle, LostIsCut, clientVars
<1>8. Aligned'
  <2>1. Len(output') = 0
    BY <1>3
  <2>2. QED
    BY <1>2, <1>4, <1>5, <2>1 DEF Aligned
<1>9. /\ Positions'
      /\ awaiting' = <<Conf>> => ~inConfigMode
      /\ Saves \/ Asks({"show"}) => awaiting' # <<>>
      /\ Asks({"sever"}) /\ Current.lines # <<>> /\ todo' = <<>> =>
           inConfigMode /\ awaiting' = Batch(Current)
  BY <1>1, <1>2, <1>6, SendPositions DEF clientVars
<1>10. ModeKnown'
  <2>1. SUFFICES ASSUME conn = "up"
        PROVE IF BatchSent' THEN mode # "exec" <=> Len(input') >= 2
              ELSE CASE awaiting' = <<Conf>> -> ~inConfigMode /\ (mode = "exec" <=> output' = <<>>)
                     [] awaiting' = <<End>>  -> output' # <<>> => mode = "exec"
                     [] OTHER -> inConfigMode <=> mode # "exec"
    BY <1>2 DEF ModeKnown, clientVars, switchVars
  <2>2. inConfigMode <=> mode # "exec"
    BY <1>1, <2>1, AtRest DEF BatchSent
  <2>3. CASE BatchSent'
    <3>1. inConfigMode /\ b = Batch(Current)
      BY <1>2, <1>6, <1>9, <2>3 DEF BatchSent
    <3>2. Len(b) >= 2
      BY <1>1, <3>1, NextBatch, BatchShape
    <3>3. QED
      BY <1>5, <2>1, <2>2, <2>3, <3>1, <3>2
  <2>4. CASE ~BatchSent'
    BY <1>3, <1>9, <2>2, <2>4
  <2>5. QED
    BY <2>3, <2>4
<1>11. PromptsAgree' /\ AnswersTrue'
  <2>1. Len(output') = 0
    BY <1>3
  <2>2. conn = "up" => prompt = hostname
    BY <1>1, AtRest
  <2>3. QED
    BY <1>2, <2>1, <2>2 DEF PromptsAgree, AnswersTrue, clientVars, switchVars
<1>12. Progress'
  <2>1. SUFFICES ASSUME Asks({"config", "prompt", "sever"}), NEW l \in ToSet(Current.lines),
                        <<ticket, l>> \notin Items(running), ~rejected
                 PROVE  \/ \E i \in 1..Len(awaiting') : awaiting'[i] = l
                        \/ \E i \in 1..Len(todo') : l \in ToSet(todo'[i])
    BY <1>2, <1>6 DEF Progress, Items, switchVars
  <2>2. Len(awaiting) = 0
    BY <1>1
  <2>3. PICK i \in 1..Len(todo) : l \in ToSet(todo[i])
    BY <2>1, <2>2 DEF Progress
  <2>4. CASE i = 1
    <3>1. l \in ToSet(b)
      BY <1>1, <2>3, <2>4, NextBatch
    <3>2. QED
      BY <1>2, <1>4, <3>1 DEF ToSet
  <2>5. CASE i # 1
    <3>1. i - 1 \in 1..Len(todo') /\ (i - 1) + 1 = i
      BY <1>1, <1>2, <2>5, NextBatch
    <3>2. todo'[i - 1] = todo[i]
      BY <1>1, <1>2, <3>1, NextBatch
    <3>3. QED
      BY <2>3, <3>1, <3>2
  <2>6. QED
    BY <2>4, <2>5
<1>13. Completed'
  <2>1. Saves' <=> Saves
    BY <1>6 DEF Saves
  <2>2. QED
    BY <1>6, <1>9, <2>1 DEF Completed
<1>14. Histories'
  <2>1. ticket \in 1..ticket
    BY <1>1, NextBatch DEF Idle, TypeOK, ReportTypes
  <2>2. \A i \in 1..Len(input') : input'[i].ticket \in 1..ticket
    BY <1>2, <1>5, <2>1 DEF Histories
  <2>3. AppliedWhenClaimed' /\ FreshRead' /\ DurableWhenSaved'
    BY <1>2 DEF Histories, AppliedWhenClaimed, FreshRead, DurableWhenSaved, Succeeded, Items, switchVars
  <2>4. QED
    BY <1>2, <2>2, <2>3 DEF Histories, switchVars
<1>15. QED
  BY <1>7, <1>8, <1>9, <1>10, <1>11, <1>12, <1>13, <1>14

-----------------------------------------------------------------------------
(* Reading.                                                                  *)

\* Both queues lose their first element.
Shifted ==
  /\ Len(awaiting) \in Nat /\ Len(output) \in Nat /\ Len(awaiting) >= 1 /\ Len(output) >= 1
  /\ Len(awaiting') = Len(awaiting) - 1 /\ Len(output') = Len(output) - 1
  /\ \A i \in 1..Len(awaiting') : awaiting'[i] = awaiting[i + 1]
  /\ \A i \in 1..Len(output') : output'[i] = output[i + 1]
  /\ awaiting[1] = Head(awaiting) /\ awaiting' = Tail(awaiting)

\* What a read does, now that it finds the answer to its own line.
ReadsOwn(c) ==
  /\ holder = c /\ awaiting # <<>> /\ output # <<>>
  /\ Serves /\ Current = want[c] /\ Current \in Calls /\ Current.op \in Ops
  /\ output[1].cmd = Head(awaiting) /\ output[1].part = "whole"
  /\ rejected' = (rejected \/ (Checked(c) /\ ~output[1].ok))
  /\ Checked(c) /\ ~output[1].ok => InBatch(want[c], Head(awaiting))
  /\ got' = IF want[c].op # "show" THEN got ELSE output[1]
  /\ prompt' = IF Renaming THEN output[1].prompt ELSE prompt
  /\ inConfigMode' = IF InBatch(want[c], Head(awaiting)) THEN inConfigMode
                     ELSE CASE Head(awaiting) = Conf -> TRUE
                            [] Head(awaiting) = End  -> FALSE
                            [] OTHER -> inConfigMode
  /\ UNCHANGED <<input, holder, want, todo, report, claimed, lost, transport, switchVars,
                 conn, ticket, base>>
  /\ conn = "up" => output[1].prompt = hostname /\ (prompt = hostname \/ Renaming)

LEMMA ReadEffect ==
  ASSUME TypeOK, Wire, ProperCalls, NEW c \in Callers, Read(c)
  PROVE  Shifted /\ ReadsOwn(c)
<1>1. PICK k \in 1..Len(output) :
        /\ holder = c /\ awaiting # <<>> /\ Completes(c, k) /\ ~EchoMissing
        /\ LET bad == Checked(c) /\ \E j \in 1..k : CLIError(output[j]) IN
           /\ bad => InBatch(want[c], Head(awaiting))
           /\ rejected' = (rejected \/ bad)
        /\ TakeAnswer(c, k)
        /\ awaiting' = Tail(awaiting)
        /\ got' = IF want[c].op # "show" THEN got
                  ELSE IF k = 1 THEN output[1] ELSE NoAnswer
        /\ inConfigMode' = IF InBatch(want[c], Head(awaiting)) THEN inConfigMode
                           ELSE CASE Head(awaiting) = Conf -> TRUE
                                  [] Head(awaiting) = End  -> FALSE
                                  [] OTHER -> inConfigMode
        /\ UNCHANGED <<holder, want, todo, report, claimed, lost, transport, switchVars,
                       conn, ticket, base>>
  BY DEF Read
<1>2. /\ k = 1 /\ ~EchoMissing
      /\ output[1].cmd = Head(awaiting) /\ output[1].part = "whole"
      /\ AnyPrompt(c) <=> Renaming
      /\ conn = "up" => output[1].prompt = hostname /\ (prompt = hostname \/ Renaming)
  BY <1>1, FirstAnswer
<1>3. awaiting \in Seq(Command) /\ output \in Seq(AnswerType)
  BY DEF TypeOK, CallTypes, WireTypes
<1>4. /\ Len(awaiting) \in Nat /\ Len(awaiting) >= 1 /\ awaiting[1] = Head(awaiting)
      /\ Len(awaiting') = Len(awaiting) - 1
      /\ \A i \in 1..Len(awaiting') : awaiting'[i] = awaiting[i + 1]
  BY <1>1, <1>3, HeadTailProperties
<1>5. output' = Tail(output) /\ Len(output) \in Nat /\ Len(output) >= 1 /\ output # <<>>
  <2>1. output' = SubSeq(output, 2, Len(output))
    BY <1>1, <1>2 DEF TakeAnswer
  <2>2. output # <<>> /\ Len(output) \in Nat /\ Len(output) >= 1
    BY <1>2, <1>3
  <2>3. QED
    BY <1>3, <2>1, <2>2, TailIsSubSeq
<1>6. Len(output') = Len(output) - 1 /\ \A i \in 1..Len(output') : output'[i] = output[i + 1]
  BY <1>3, <1>5, HeadTailProperties
<1>7. (\E j \in 1..k : CLIError(output[j])) <=> ~output[1].ok
  <2>1. \A j \in 1..k : j = 1
    BY <1>2
  <2>2. 1 \in 1..k
    BY <1>2
  <2>3. CLIError(output[1]) <=> ~output[1].ok
    BY <1>2 DEF CLIError
  <2>4. QED
    BY <2>1, <2>2, <2>3
<1>8. Serves /\ Current = want[c] /\ Current \in Calls /\ Current.op \in Ops
  BY <1>1, SessionAssumption, CallLines DEF Serves, Current, Wire, Idle
<1>9. /\ rejected' = (rejected \/ (Checked(c) /\ ~output[1].ok))
      /\ Checked(c) /\ ~output[1].ok => InBatch(want[c], Head(awaiting))
  BY <1>1, <1>7
<1>10. /\ prompt' = IF Renaming THEN output[1].prompt ELSE prompt
       /\ input' = input
  BY <1>1, <1>2 DEF TakeAnswer
<1>11. got' = IF want[c].op # "show" THEN got ELSE output[1]
  BY <1>1, <1>2
<1>12. QED
  BY <1>1, <1>2, <1>4, <1>5, <1>6, <1>8, <1>9, <1>10, <1>11 DEF Shifted, ReadsOwn

\* The last line of a call.
LEMMA LastLine ==
  ASSUME TypeOK, Wire, ProperCalls, NEW c \in Callers, Read(c), todo = <<>>, Len(awaiting) = 1
  PROVE  /\ Saves => Head(awaiting) = Save /\ Checked(c)
         /\ Asks({"show"}) => Head(awaiting) = ShowConfig
<1> USE DEF Wire
<1>1. /\ awaiting # <<>> /\ Current = want[c] /\ Current.op \in Ops
      /\ awaiting[1] = Head(awaiting)
  BY ReadEffect DEF Shifted, ReadsOwn
<1>2. CASE Asks({"save"})
  <2>1. awaiting = <<Save>>
    BY <1>1, <1>2, HeadAndTail DEF Positions, ExecAt
  <2>2. Head(awaiting) = Save
    BY <2>1, HeadAndTail
  <2>3. Checked(c)
    BY <1>1, <1>2, <2>2, OwnLines DEF Checked, Asks
  <2>4. QED
    BY <1>2, <2>2, <2>3 DEF Asks
<1>3. CASE Asks({"sever"}) /\ Current.lines # <<>>
  <2>1. BatchLeft(Current)
    BY <1>3, HeadAndTail DEF Positions, SeverAt
  <2>2. Head(awaiting) = Save
    BY <1>1, <2>1 DEF BatchLeft
  <2>3. Checked(c)
    BY <1>1, <1>3, <2>2, OwnLines DEF Checked, InBatch, Asks
  <2>4. QED
    BY <1>3, <2>2, <2>3 DEF Asks
<1>4. CASE Asks({"show"})
  <2>1. awaiting = <<ShowConfig>>
    BY <1>1, <1>4, HeadAndTail DEF Positions, ExecAt
  <2>2. QED
    BY <1>4, <2>1, HeadAndTail DEF Asks, Saves
<1>5. QED
  BY <1>2, <1>3, <1>4 DEF Saves

LEMMA ReadPositions ==
  ASSUME TypeOK, Wire, ProperCalls, NEW c \in Callers, Read(c),
         Current' = Current, \A ops : Asks(ops)' <=> Asks(ops)
  PROVE  Positions'
<1> DEFINE k == Current
<1> USE DEF Wire
<1>1. /\ Current = want[c] /\ Current.op \in Ops /\ awaiting # <<>> /\ awaiting' = Tail(awaiting)
      /\ todo' = todo /\ Len(awaiting) \in Nat /\ Len(awaiting') = Len(awaiting) - 1
      /\ \A i \in 1..Len(awaiting') : awaiting'[i] = awaiting[i + 1]
      /\ inConfigMode' = IF InBatch(want[c], Head(awaiting)) THEN inConfigMode
                         ELSE CASE Head(awaiting) = Conf -> TRUE
                                [] Head(awaiting) = End  -> FALSE
                                [] OTHER -> inConfigMode
  BY ReadEffect DEF Shifted, ReadsOwn
<1>2. \A i \in 1..Len(awaiting') : i + 1 \in 1..Len(awaiting)
  BY <1>1
<1>3. CASE Asks({"execute"})
  <2>1. todo = <<>> /\ \A i \in 1..Len(awaiting) : awaiting[i] \in ToSet(k.lines)
    BY <1>1, <1>3 DEF Positions, ExecuteAt
  <2>2. \A i \in 1..Len(awaiting') : awaiting'[i] \in ToSet(k.lines)
    BY <1>1, <1>2, <2>1
  <2>3. QED
    BY <1>1, <1>3, <2>1, <2>2 DEF Positions, ExecuteAt, Asks
<1>4. CASE Asks({"config", "prompt"})
  <2>1. \A i \in 1..Len(todo) : \E l \in ToSet(k.lines) : todo[i] = <<l>>
    BY <1>1, <1>4 DEF Positions, ConfigAt
  <2>2. PICK l : awaiting = <<l>>
    BY <1>1, <1>4 DEF Positions, ConfigAt
  <2>3. awaiting' = <<>>
    BY <1>1, <2>2, HeadAndTail
  <2>4. QED
    BY <1>1, <1>4, <2>1, <2>3 DEF Positions, ConfigAt, Asks
<1>5. CASE Asks({"sever"})
  <2>1. k.lines # <<>>
    BY <1>1, <1>5 DEF Positions, SeverAt
  <2>2. CASE todo = <<Batch(k)>> /\ awaiting = <<Conf>>
    <3>1. awaiting' = <<>> /\ Head(awaiting) = Conf
      BY <1>1, <2>2, HeadAndTail
    <3>2. inConfigMode' = TRUE
      <4>1. ~InBatch(want[c], Head(awaiting))
        BY <3>1 DEF InBatch
      <4>2. QED
        BY <1>1, <3>1, <4>1, OwnLines
    <3>3. todo' = <<Current'.lines \o <<End, Save>>>>
      BY <1>1, <2>2 DEF Batch
    <3>4. SeverAt(Current)'
      BY <2>1, <3>1, <3>2, <3>3 DEF SeverAt, Batch
    <3>5. QED
      BY <1>5, <3>4 DEF Positions, Asks
  <2>3. CASE todo = <<>> /\ BatchLeft(k)
    <3>1. \A i \in 1..Len(awaiting') :
            CASE i = Len(awaiting')     -> awaiting'[i] = Save
              [] i = Len(awaiting') - 1 -> awaiting'[i] = End
              [] OTHER                  -> awaiting'[i] \in ToSet(k.lines)
      <4>1. TAKE i \in 1..Len(awaiting')
      <4>2. i + 1 \in 1..Len(awaiting) /\ awaiting'[i] = awaiting[i + 1]
        BY <1>1, <1>2
      <4>3. /\ (i = Len(awaiting') <=> i + 1 = Len(awaiting))
            /\ (i = Len(awaiting') - 1 <=> i + 1 = Len(awaiting) - 1)
        BY <1>1
      <4>4. QED
        BY <2>3, <4>2, <4>3 DEF BatchLeft
    <3>2. SeverAt(Current)'
      BY <1>1, <2>1, <2>3, <3>1 DEF SeverAt, BatchLeft
    <3>3. QED
      BY <1>5, <3>2 DEF Positions, Asks
  <2>4. QED
    BY <1>1, <1>5, <2>1, <2>2, <2>3 DEF Positions, SeverAt
<1>6. ASSUME NEW own \in {Save, ShowConfig}, ExecAt(own), ~Asks({"sever"})
      PROVE  ExecAt(own)'
  <2>1. ~InBatch(want[c], Head(awaiting))
    BY <1>1, <1>6, ReadEffect DEF ReadsOwn, InBatch, Asks
  <2>2. CASE todo = <<<<own>>>> /\ awaiting = <<End>>
    <3>1. awaiting' = <<>> /\ Head(awaiting) = End
      BY <1>1, <2>2, HeadAndTail
    <3>2. inConfigMode' = FALSE
      BY <1>1, <2>1, <3>1, OwnLines
    <3>3. QED
      BY <1>1, <2>2, <3>1, <3>2 DEF ExecAt
  <2>3. CASE todo = <<>> /\ awaiting = <<own>> /\ ~inConfigMode
    <3>1. awaiting' = <<>> /\ Head(awaiting) = own
      BY <1>1, <2>3, HeadAndTail
    <3>2. inConfigMode' = FALSE
      BY <1>1, <2>1, <2>3, <3>1, OwnLines
    <3>3. QED
      BY <1>1, <2>3, <3>1, <3>2 DEF ExecAt
  <2>4. QED
    BY <1>1, <1>6, <2>2, <2>3 DEF ExecAt
<1>7. CASE Asks({"save"})
  <2>1. ExecAt(Save) /\ ~Asks({"sever"})
    BY <1>7 DEF Positions, Asks
  <2>2. ExecAt(Save)'
    BY <1>6, <2>1
  <2>3. QED
    BY <1>7, <2>2 DEF Positions, Asks
<1>8. CASE Asks({"show"})
  <2>1. ExecAt(ShowConfig) /\ ~Asks({"sever"})
    BY <1>8 DEF Positions, Asks
  <2>2. ExecAt(ShowConfig)'
    BY <1>6, <2>1
  <2>3. QED
    BY <1>8, <2>2 DEF Positions, Asks
<1>9. CASE Asks({"close", "none"})
  <2>1. todo = <<>> /\ awaiting = <<End>>
    BY <1>1, <1>9 DEF Positions, CloseAt
  <2>2. awaiting' = <<>> /\ todo' = <<>>
    BY <1>1, <2>1, HeadAndTail
  <2>3. QED
    BY <1>9, <2>2 DEF Positions, CloseAt, Asks
<1>10. QED
  BY <1>1, <1>3, <1>4, <1>5, <1>7, <1>8, <1>9, ReadEffect DEF ReadsOwn, Asks, Ops

LEMMA ReadKeeps ==
  ASSUME TypeOK, Wire, ProperCalls, NEW c \in Callers, Read(c)
  PROVE  Wire'
<1> DEFINE k == Current
<1> DEFINE h == Head(awaiting)
<1> USE DEF Wire
<1>0. Shifted /\ ReadsOwn(c)
  BY ReadEffect
<1> USE <1>0 DEF Shifted, ReadsOwn
<1>1. Current' = Current /\ (Serves' <=> Serves) /\ \A ops : Asks(ops)' <=> Asks(ops)
  BY DEF Current, Serves, Asks
<1>2. (BatchSent' <=> BatchSent) /\ (Saves' <=> Saves)
  BY <1>1 DEF BatchSent, Saves
<1>3. Idle' /\ LostIsCut'
  BY <1>1 DEF Idle, LostIsCut
<1>4. \A i \in 1..Len(output') : i + 1 \in 1..Len(output) /\ output'[i] = output[i + 1]
  OBVIOUS
<1>5. Aligned'
  <2>1. Len(output') <= Len(awaiting')
    <3>1. \A m, n \in Nat : m <= n => m - 1 <= n - 1
      OBVIOUS
    <3>2. Len(output) <= Len(awaiting)
      BY DEF Aligned
    <3>3. QED
      BY <3>1, <3>2, Zenon
  <2>2. ASSUME NEW i \in 1..Len(output')
        PROVE  output'[i].cmd = awaiting'[i] /\ output'[i].part = "whole"
    <3>1. i \in 1..Len(awaiting')
      BY <2>1
    <3>2. QED
      BY <1>4, <3>1 DEF Aligned
  <2>3. ASSUME conn = "up" PROVE Len(output') + Len(input') = Len(awaiting')
    BY <2>3, Lengths DEF Aligned
  <2>4. ASSUME conn = "up", NEW i \in 1..Len(input')
        PROVE  input'[i] = [ticket |-> ticket', cmd |-> awaiting'[Len(output') + i]]
    <3>1. input'[i] = [ticket |-> ticket, cmd |-> awaiting[Len(output) + i]]
      BY <2>4 DEF Aligned
    <3>2. Len(output') + i \in 1..Len(awaiting') /\ (Len(output') + i) + 1 = Len(output) + i
      BY <2>3, <2>4, Lengths
    <3>3. QED
      BY <3>1, <3>2
  <2>5. QED
    BY <2>1, <2>2, <2>3, <2>4 DEF Aligned
<1>6. Positions'
  BY <1>1, ReadPositions
<1>7. ~Asks({"execute"}) /\ ~BatchSent => Len(awaiting) = 1 /\ awaiting' = <<>> /\ awaiting = <<h>>
  <2>1. SUFFICES ASSUME ~Asks({"execute"}) /\ ~BatchSent
                 PROVE  Len(awaiting) = 1 /\ awaiting' = <<>> /\ awaiting = <<h>>
    OBVIOUS
  <2>2. Len(awaiting) = 1
    BY <2>1, OneAtATime
  <2>3. awaiting \in Seq(Command)
    BY DEF TypeOK, CallTypes
  <2>4. QED
    BY <2>2, <2>3
<1>8. ASSUME conn = "up" PROVE ModeKnown'
  <2>1. CASE BatchSent
    BY <1>2, <1>8, <2>1 DEF ModeKnown, switchVars
  <2>2. CASE ~BatchSent /\ ~Asks({"execute"})
    <3>1. awaiting' = <<>> /\ awaiting = <<h>>
      BY <1>7, <2>2
    <3>2. InBatch(want[c], h) => h \notin {Conf, End}
      <4>1. SUFFICES ASSUME InBatch(want[c], h) PROVE h # Conf /\ h # End
        OBVIOUS
      <4>2. Asks({"sever"}) /\ h # Conf
        BY <4>1 DEF InBatch, Asks
      <4>3. awaiting = <<Conf>>
        BY <2>2, <4>2 DEF Positions, SeverAt, BatchSent
      <4>4. QED
        BY <4>2, <4>3, HeadAndTail
    <3>3. inConfigMode' <=> mode # "exec"
      <4>1. CASE h = Conf
        <5>1. inConfigMode' = TRUE /\ mode # "exec"
          BY <1>8, <2>2, <3>1, <3>2, <4>1, OwnLines DEF ModeKnown
        <5>2. QED
          BY <5>1
      <4>2. CASE h = End
        <5>1. awaiting = <<End>> /\ awaiting # <<Conf>>
          <6>1. <<End>> # <<Conf>>
            BY OwnLines
          <6>2. QED
            BY <3>1, <4>2, <6>1
        <5>2. inConfigMode' = FALSE /\ mode = "exec"
          BY <1>8, <2>2, <3>2, <4>2, <5>1, OwnLines DEF ModeKnown
        <5>3. QED
          BY <5>2
      <4>3. CASE h # Conf /\ h # End
        <5>1. awaiting # <<End>> /\ awaiting # <<Conf>>
          BY <3>1, <4>3
        <5>2. inConfigMode' = inConfigMode
          BY <4>3
        <5>3. inConfigMode <=> mode # "exec"
          BY <1>8, <2>2, <5>1 DEF ModeKnown
        <5>4. QED
          BY <5>2, <5>3
      <4>4. QED
        BY <4>1, <4>2, <4>3
    <3>4. awaiting' # <<Conf>> /\ awaiting' # <<End>>
      BY <3>1, HeadAndTail
    <3>5. QED
      BY <1>2, <2>2, <3>3, <3>4 DEF ModeKnown, switchVars
  <2>3. CASE ~BatchSent /\ Asks({"execute"})
    <3>1. \A i \in 1..Len(awaiting) : awaiting[i] \in ToSet(k.lines)
      BY <2>3 DEF Positions, ExecuteAt
    <3>2. \A i \in 1..Len(awaiting) : awaiting[i] # Conf /\ awaiting[i] # End
      BY <3>1, ProperLine
    <3>3. \A i \in 1..Len(awaiting') : awaiting'[i] # Conf /\ awaiting'[i] # End
      BY <3>2
    <3>4. awaiting # <<Conf>> /\ awaiting # <<End>> /\ awaiting' # <<Conf>> /\ awaiting' # <<End>>
      <4>1. ASSUME NEW s, \A i \in 1..Len(s) : s[i] # Conf /\ s[i] # End
            PROVE  s # <<Conf>> /\ s # <<End>>
        BY <4>1, NotOneLine, Zenon
      <4>2. awaiting # <<Conf>> /\ awaiting # <<End>>
        BY <3>2, <4>1, Zenon
      <4>3. awaiting' # <<Conf>> /\ awaiting' # <<End>>
        BY <3>3, <4>1, Zenon
      <4>4. QED
        BY <4>2, <4>3
    <3>5. inConfigMode' = inConfigMode
      <4>1. 1 \in 1..Len(awaiting)
        OBVIOUS
      <4>2. h # Conf /\ h # End
        BY <3>2, <4>1
      <4>3. QED
        BY <4>2
    <3>6. inConfigMode <=> mode # "exec"
      BY <1>8, <2>3, <3>4 DEF ModeKnown
    <3>7. QED
      BY <1>2, <2>3, <3>4, <3>5, <3>6 DEF ModeKnown, switchVars
  <2>4. QED
    BY <2>1, <2>2, <2>3
<1>9. ModeKnown'
  <2>1. conn' # "up" => ModeKnown'
    BY DEF ModeKnown
  <2>2. QED
    BY <1>8, <2>1
<1>10. PromptsAgree'
  <2>1. CASE Renaming
    <3>1. ~Asks({"execute"}) /\ ~BatchSent
      BY <2>1 DEF Renaming, BatchSent, Asks
    <3>2. Len(output') = 0 /\ awaiting' = <<>>
      <4>1. Len(awaiting) = 1 /\ awaiting' = <<>> /\ Len(output) <= Len(awaiting)
        BY <1>7, <3>1 DEF Aligned
      <4>2. \A n \in Nat : n >= 1 /\ n <= 1 => n - 1 = 0
        OBVIOUS
      <4>3. QED
        BY <4>1, <4>2, Zenon
    <3>3. ~Renaming' /\ \A i \in 1..Len(output') : FALSE
      <4>1. ~Renaming'
        BY <3>2 DEF Renaming
      <4>2. 1..0 = {}
        OBVIOUS
      <4>3. \A i \in 1..Len(output') : FALSE
        BY <3>2, <4>2, Zenon
      <4>4. QED
        BY <4>1, <4>3
    <3>4. prompt' = output[1].prompt /\ (conn = "up" => prompt' = hostname)
      BY <2>1
    <3>5. QED
      BY <3>3, <3>4 DEF PromptsAgree, switchVars
  <2>2. CASE ~Renaming
    <3>1. prompt' = prompt
      BY <2>2
    <3>2. QED
      BY <1>4, <2>2, <3>1 DEF PromptsAgree, switchVars
  <2>3. QED
    BY <2>1, <2>2
<1>11. AnswersTrue'
  BY <1>1, <1>4 DEF AnswersTrue, Settled, Shows, Items, switchVars
<1>12. Progress'
  <2>1. SUFFICES ASSUME Asks({"config", "prompt", "sever"}), NEW l \in ToSet(k.lines),
                        <<ticket, l>> \notin Items(running), ~rejected',
                        ~ \E i \in 1..Len(todo) : l \in ToSet(todo[i])
                 PROVE  \E i \in 1..Len(awaiting') : awaiting'[i] = l
    BY <1>1 DEF Progress, Items, switchVars
  <2>2. PICK i \in 1..Len(awaiting) : awaiting[i] = l
    BY <2>1 DEF Progress
  <2>3. CASE i = 1
    <3>1. h = l /\ k \in Calls /\ k.op # "execute"
      BY <2>1, <2>2, <2>3 DEF Asks
    <3>2. Configures(l) /\ l \notin {Conf, End}
      BY <3>1, ProperLine
    <3>3. Checked(c)
      BY <2>1, <3>1, <3>2 DEF Checked, InBatch, Asks
    <3>4. 1 \in 1..Len(output) /\ output[1].cmd = l /\ output[1].ok
      <4>1. 1 \in 1..Len(output)
        OBVIOUS
      <4>2. output[1].cmd = l
        BY <3>1
      <4>3. output[1].ok
        BY <2>1, <3>3, Zenon
      <4>4. QED
        BY <4>1, <4>2, <4>3
    <3>5. <<ticket, l>> \in Items(running)
      BY <3>2, <3>4 DEF AnswersTrue
    <3>6. QED
      BY <2>1, <3>5
  <2>4. CASE i # 1
    <3>1. i - 1 \in 1..Len(awaiting') /\ (i - 1) + 1 = i
      BY <2>2, <2>4
    <3>2. QED
      BY <2>2, <3>1
  <2>5. QED
    BY <2>3, <2>4
<1>13. Completed'
  <2>1. SUFFICES ASSUME todo = <<>>, awaiting' = <<>>
                 PROVE  /\ Saves /\ ~rejected' => Settled
                        /\ Asks({"show"}) =>
                             got'.cmd = ShowConfig /\ got'.part = "whole" /\ Shows(got')
    BY <1>1, <1>2 DEF Completed, Settled, Shows, switchVars
  <2>2. Len(awaiting) = 1 /\ 1 \in 1..Len(output)
    <3>1. Len(awaiting') = 0
      BY <2>1
    <3>2. \A n \in Nat : n - 1 = 0 => n = 1
      OBVIOUS
    <3>3. Len(awaiting) = 1
      BY <3>1, <3>2, Zenon
    <3>4. 1 \in 1..Len(output)
      OBVIOUS
    <3>5. QED
      BY <3>3, <3>4
  <2>3. ASSUME Saves, ~rejected' PROVE Settled
    <3>1. h = Save /\ Checked(c)
      BY <2>1, <2>2, <2>3, LastLine
    <3>2. output[1].ok
      BY <2>3, <3>1, Zenon
    <3>3. QED
      BY <2>2, <3>1, <3>2 DEF AnswersTrue
  <2>4. ASSUME Asks({"show"})
        PROVE  got'.cmd = ShowConfig /\ got'.part = "whole" /\ Shows(got')
    <3>1. h = ShowConfig
      BY <2>1, <2>2, <2>4, LastLine
    <3>2. got' = output[1]
      BY <2>4 DEF Asks
    <3>3. Shows(output[1])
      BY <2>2, <2>4, <3>1 DEF AnswersTrue
    <3>4. Shows(got') /\ got'.cmd = ShowConfig /\ got'.part = "whole"
      BY <3>1, <3>2, <3>3 DEF Shows
    <3>5. QED
      BY <3>4
  <2>5. QED
    BY <2>3, <2>4
<1>14. Histories'
  BY DEF Histories, AppliedWhenClaimed, FreshRead, DurableWhenSaved, Succeeded, Items, switchVars
<1>15. QED
  BY <1>3, <1>5, <1>6, <1>9, <1>10, <1>11, <1>12, <1>13, <1>14

-----------------------------------------------------------------------------
(* The switch and the network.                                               *)

\* The switch and the network leave the Client as it is, and the configurations
\* only grow.
Outside ==
  /\ UNCHANGED <<callVars, clientVars, ticket, base>>
  /\ running \subseteq running'
  /\ startup' \in {startup, running}
  /\ \A i \in 1..Len(input') : input'[i].ticket \in 1..ticket

LEMMA OutsideKeeps ==
  ASSUME TypeOK, Wire, Outside
  PROVE  /\ Current' = Current /\ (Serves' <=> Serves) /\ \A ops : Asks(ops)' <=> Asks(ops)
         /\ (BatchSent' <=> BatchSent) /\ (Saves' <=> Saves) /\ (Renaming' <=> Renaming)
         /\ Items(running) \subseteq Items(running)'
         /\ Idle' /\ Positions' /\ Progress' /\ Histories'
<1> USE DEF Wire
<1>1. UNCHANGED <<holder, want, todo, awaiting, rejected, got, report, claimed,
                  inConfigMode, prompt, lost, ticket, base>>
  BY DEF Outside, callVars, clientVars
<1>2. Current' = Current /\ (Serves' <=> Serves) /\ \A ops : Asks(ops)' <=> Asks(ops)
  BY <1>1 DEF Current, Serves, Asks
<1>3. (BatchSent' <=> BatchSent) /\ (Saves' <=> Saves) /\ (Renaming' <=> Renaming)
  BY <1>1, <1>2 DEF BatchSent, Saves, Renaming
<1>4. Items(running) \subseteq Items(running)'
  BY DEF Outside, Items
<1>5. Idle'
  BY <1>1, <1>2 DEF Idle
<1>6. Positions'
  BY <1>1, <1>2 DEF Positions, ExecuteAt, ConfigAt, SeverAt, BatchLeft, ExecAt, CloseAt, Batch
<1>7. Progress'
  BY <1>1, <1>2, <1>4 DEF Progress
<1>8. Histories'
  <2>1. base' \subseteq running' /\ startup' \subseteq running'
    BY <1>1 DEF Outside, Histories
  <2>2. AppliedWhenClaimed' /\ FreshRead'
    BY <1>1, <1>4 DEF Histories, AppliedWhenClaimed, FreshRead, Succeeded
  <2>3. DurableWhenSaved'
    <3>1. CASE startup' = startup
      BY <1>1, <3>1 DEF Histories, DurableWhenSaved, Succeeded, Items
    <3>2. CASE startup' = running
      BY <1>1, <3>2 DEF Histories, DurableWhenSaved, AppliedWhenClaimed, Succeeded, Items
    <3>3. QED
      BY <3>1, <3>2 DEF Outside
  <2>4. QED
    BY <1>1, <2>1, <2>2, <2>3 DEF Outside, Histories
<1>9. QED
  BY <1>2, <1>3, <1>4, <1>5, <1>6, <1>7, <1>8

\* Once the connection is gone, of the answers in flight a first part is left.
LEMMA GoneKeeps ==
  ASSUME TypeOK, Wire, Outside, conn' # "up",
         Len(output') \in Nat, Len(output') <= Len(output),
         \A i \in 1..Len(output') : output'[i] = output[i],
         \/ input # <<>>
         \/ UNCHANGED <<input, running, startup>>
  PROVE  Wire'
<1> USE DEF Wire
<1>1. /\ Current' = Current /\ (Serves' <=> Serves) /\ \A ops : Asks(ops)' <=> Asks(ops)
      /\ (BatchSent' <=> BatchSent) /\ (Saves' <=> Saves) /\ (Renaming' <=> Renaming)
      /\ Items(running) \subseteq Items(running)'
      /\ Idle' /\ Positions' /\ Progress' /\ Histories'
  BY OutsideKeeps
<1>2. UNCHANGED <<todo, awaiting, rejected, got, prompt, ticket>>
  BY DEF Outside, callVars, clientVars
<1>3. Len(output) \in Nat /\ Len(awaiting) \in Nat
  BY Lengths
<1>4. \A i \in 1..Len(output') : i \in 1..Len(output) /\ output'[i] = output[i]
  BY <1>3
<1>5. LostIsCut' /\ ModeKnown'
  BY DEF LostIsCut, ModeKnown
<1>6. Aligned'
  BY <1>2, <1>3, <1>4 DEF Aligned
<1>7. PromptsAgree'
  BY <1>1, <1>2, <1>4 DEF PromptsAgree
<1>8. AnswersTrue' /\ Completed'
  <2>1. CASE UNCHANGED <<input, running, startup>>
    BY <1>1, <1>2, <1>4, <2>1 DEF AnswersTrue, Completed, Settled, Shows, Items
  <2>2. CASE input # <<>>
    <3>1. ~Settled /\ \A a : ~Shows(a)
      BY <2>2 DEF Settled, Shows
    <3>2. Completed'
      BY <1>1, <1>2, <3>1 DEF Completed
    <3>3. AnswersTrue'
      BY <1>1, <1>2, <1>4, <3>1 DEF AnswersTrue
    <3>4. QED
      BY <3>2, <3>3
  <2>3. QED
    BY <2>1, <2>2
<1>9. QED
  BY <1>1, <1>5, <1>6, <1>7, <1>8

LEMMA NetworkKeeps ==
  ASSUME TypeOK, Wire, NetworkFails \/ HangUp
  PROVE  Wire'
<1>1. Len(output) \in Nat /\ Len(input) \in Nat
  BY Lengths
<1>2. CASE NetworkFails
  <2>1. PICK n \in 0..Len(output) : output' = SubSeq(output, 1, n)
    BY <1>2 DEF NetworkFails
  <2>2. output \in Seq(AnswerType)
    BY DEF TypeOK, WireTypes
  <2>3. Len(output') = n /\ \A i \in 1..n : output'[i] = output[i]
    BY <1>1, <2>1, <2>2
  <2>4. Outside
    BY <1>2 DEF NetworkFails, Outside, switchVars, Wire, Histories
  <2>5. conn' # "up" /\ UNCHANGED <<input, running, startup>>
    BY <1>2 DEF NetworkFails, switchVars
  <2>6. QED
    BY <1>1, <2>1, <2>3, <2>4, <2>5, GoneKeeps
<1>3. CASE HangUp
  <2>1. Len(input') = 0 /\ conn' # "up" /\ input # <<>> /\ output' = output
    BY <1>3 DEF HangUp
  <2>2. Outside
    BY <1>3, <2>1 DEF HangUp, Outside, switchVars
  <2>3. QED
    BY <1>1, <2>1, <2>2, GoneKeeps
<1>4. QED
  BY <1>2, <1>3

\* What the switch runs next, while the connection is up: the first line awaited
\* whose answer is not there yet.
LEMMA NextLine ==
  ASSUME TypeOK, Wire, ProperCalls, conn = "up", input # <<>>
  PROVE  LET m == Head(input).cmd  p == Len(output) + 1 IN
         /\ Head(input).ticket = ticket /\ m = awaiting[p] /\ m \in Command
         /\ p \in 1..Len(awaiting) /\ awaiting # <<>> /\ p + Len(Tail(input)) = Len(awaiting)
         /\ Len(input) = Len(Tail(input)) + 1 /\ Len(Tail(input)) \in Nat
         /\ \A i \in 1..Len(Tail(input)) : Tail(input)[i] = input[i + 1]
         /\ Serves /\ Current \in Calls /\ Current.op \in Ops
         /\ m \notin {Conf, End} => m.kind \notin {"conf", "end"}
         /\ m.kind = "name" => Renaming /\ output = <<>>
         /\ m.kind = "save" => m = Save
         /\ m = Save => Tail(input) = <<>> /\ todo = <<>> /\ Saves
         /\ Asks({"show"}) /\ m = ShowConfig => Tail(input) = <<>> /\ mode = "exec"
         /\ Configures(m) => m \in ToSet(Current.lines) /\ Asks({"config", "prompt", "sever"})
<1> DEFINE m == Head(input).cmd
<1> DEFINE p == Len(output) + 1
<1> USE DEF Wire
<1>1. input \in Seq(Tagged) /\ Len(output) \in Nat /\ Len(awaiting) \in Nat /\ Len(input) \in Nat
  BY Lengths DEF TypeOK, WireTypes
<1>2. /\ Head(input) = input[1] /\ Len(input) >= 1 /\ Len(Tail(input)) = Len(input) - 1
      /\ Head(input) \in Tagged
      /\ \A i \in 1..Len(Tail(input)) : Tail(input)[i] = input[i + 1]
  BY <1>1, HeadTailProperties
<1>3. Len(output) + Len(input) = Len(awaiting)
  BY DEF Aligned
<1>4. /\ p \in 1..Len(awaiting) /\ Len(input) = Len(Tail(input)) + 1 /\ Len(Tail(input)) \in Nat
      /\ p + Len(Tail(input)) = Len(awaiting) /\ awaiting # <<>>
  BY <1>1, <1>2, <1>3
<1>5. Head(input).ticket = ticket /\ m = awaiting[p]
  <2>1. 1 \in 1..Len(input)
    BY <1>1, <1>2
  <2>2. input[1] = [ticket |-> ticket, cmd |-> awaiting[Len(output) + 1]]
    BY <2>1 DEF Aligned
  <2>3. QED
    BY <1>2, <2>2
<1>6. m \in Command
  BY <1>2 DEF Tagged
<1> HIDE DEF m, p
<1>7. /\ Serves /\ Current \in Calls
      /\ \/ m \in ToSet(Current.lines) /\ Asks({"execute", "config", "prompt", "sever"})
         \/ m \in {Conf, End} /\ Serves
         \/ m = Save /\ p = Len(awaiting) /\ Saves /\ todo = <<>>
         \/ m = ShowConfig /\ awaiting = <<ShowConfig>> /\ Asks({"show"}) /\ ~inConfigMode
  BY <1>4, <1>5, Awaited
<1>8. Current.op \in Ops
  BY <1>7, CallLines
<1>9. m \in ToSet(Current.lines) =>
        /\ m \notin {Conf, End, Save} /\ (Current.op # "execute" => Configures(m) /\ m # ShowConfig)
        /\ (Current.op = "execute" => ~Configures(m))
        /\ m.kind = "name" => Current.op = "prompt"
        /\ m.kind \notin {"conf", "end", "save"}
  BY <1>7, ProperLine
<1>10. Configures(m) => m \in ToSet(Current.lines) /\ Asks({"config", "prompt", "sever"})
  BY <1>7, <1>8, <1>9, OwnLines DEF Configures, Asks
<1>11. \A n \in Nat : p + n = Len(awaiting) /\ p = Len(awaiting) => n = 0
  BY <1>1, <1>4 DEF p
<1>12. Len(Tail(input)) = 0 => Tail(input) = <<>>
  <2>1. Tail(input) \in Seq(Tagged)
    BY <1>1, HeadTailProperties
  <2>2. QED
    BY <2>1, EmptySeq
<1>13. m = Save => Tail(input) = <<>> /\ todo = <<>> /\ Saves
  <2>1. SUFFICES ASSUME m = Save PROVE Tail(input) = <<>> /\ todo = <<>> /\ Saves
    OBVIOUS
  <2>2. p = Len(awaiting) /\ Saves /\ todo = <<>>
    BY <1>7, <1>9, <2>1, OwnLines
  <2>3. QED
    BY <1>4, <1>11, <1>12, <2>2
<1>14. Asks({"show"}) /\ m = ShowConfig => Tail(input) = <<>> /\ mode = "exec"
  <2>1. SUFFICES ASSUME Asks({"show"}), m = ShowConfig
                 PROVE  Tail(input) = <<>> /\ mode = "exec"
    OBVIOUS
  <2>2. awaiting = <<ShowConfig>> /\ ~inConfigMode
    BY <1>7, <2>1, OwnLines DEF Asks
  <2>3. Len(awaiting) = 1 /\ p = 1
    <3>1. Len(awaiting) = 1
      BY <2>2
    <3>2. QED
      BY <1>4, <3>1
  <2>4. <<ShowConfig>> # <<Conf>> /\ <<ShowConfig>> # <<End>>
    BY OwnLines
  <2>5. ~BatchSent
    BY <2>1 DEF BatchSent, Asks
  <2>6. mode = "exec"
    BY <2>2, <2>4, <2>5 DEF ModeKnown
  <2>7. QED
    BY <1>4, <1>11, <1>12, <2>3, <2>6
<1>15. m.kind = "name" => Renaming /\ output = <<>>
  <2>1. SUFFICES ASSUME m.kind = "name" PROVE Renaming /\ output = <<>>
    OBVIOUS
  <2>2. Current.op = "prompt" /\ Asks({"prompt"}) /\ m \in ToSet(Current.lines) /\ m # Conf
    BY <1>7, <1>8, <1>9, <2>1, OwnLines DEF Asks
  <2>3. ~Asks({"execute"}) /\ ~BatchSent
    BY <2>2 DEF Asks, BatchSent
  <2>4. Len(awaiting) <= 1
    BY <1>7, <2>3, OneAtATime
  <2>5. p = 1 /\ Len(output) = 0
    BY <1>1, <1>4, <2>4 DEF p
  <2>6. Head(awaiting) = m
    BY <1>4, <1>5, <2>5 DEF TypeOK, CallTypes
  <2>7. QED
    BY <1>1, <1>4, <2>2, <2>5, <2>6, Lengths DEF Renaming
<1>16. /\ m \notin {Conf, End} => m.kind \notin {"conf", "end"}
       /\ m.kind = "save" => m = Save
  BY <1>7, <1>9, OwnLines
<1>17. QED
  BY <1>2, <1>4, <1>5, <1>6, <1>7, <1>8, <1>10, <1>16, <1>13, <1>14, <1>15 DEF m, p

\* What a line does to the mode.
LEMMA ModeSteps ==
  ASSUME TypeOK, NEW m \in Command, NEW ok \in BOOLEAN,
         IF ok THEN MayAccept(m) ELSE MayReject(m),
         mode' = IF ok THEN ModeAfter(m) ELSE mode
  PROVE  /\ m = Conf => mode' # "exec"
         /\ m = End => mode' = "exec"
         /\ m.kind \notin {"conf", "end"} => (mode' = "exec" <=> mode = "exec")
         /\ m.kind = "save" => mode' = mode
         /\ m.kind = "show" /\ mode = "exec" => ok
<1>1. mode \in {"exec", "config", "sub"}
  BY DEF TypeOK, SwitchTypes
<1>2. m.kind \in Kinds
  BY DEF Command
<1>3. m = Conf => ok /\ m.kind = "conf"
  BY OwnLines DEF MayReject
<1>4. m = End => ok /\ m.kind = "end"
  BY OwnLines DEF MayReject
<1>5. m = Conf => mode' # "exec"
  BY <1>1, <1>3 DEF ModeAfter
<1>6. m = End => mode' = "exec"
  BY <1>4 DEF ModeAfter
<1>7. m.kind \notin {"conf", "end"} => (mode' = "exec" <=> mode = "exec")
  <2>1. CASE ok /\ m.kind = "enter"
    BY <2>1 DEF ModeAfter, MayAccept
  <2>2. CASE ok /\ m.kind = "exit"
    BY <2>2 DEF ModeAfter, MayAccept
  <2>3. CASE ~ok \/ m.kind \notin {"enter", "exit"}
    BY <2>3 DEF ModeAfter
  <2>4. QED
    BY <2>1, <2>2, <2>3
<1>8. m.kind = "save" => mode' = mode
  BY DEF ModeAfter
<1>9. m.kind = "show" /\ mode = "exec" => ok
  BY DEF MayReject
<1>10. QED
  BY <1>5, <1>6, <1>7, <1>8, <1>9

LEMMA Sums ==
  \A q, n, j \in Nat :
    q + j = n => (j = 0 => q = n) /\ (j = 1 => q = n - 1 /\ q # n)
OBVIOUS

\* The next line and its answer, on a connection that stays up.
LEMMA AnsweredKeeps ==
  ASSUME TypeOK, Wire, ProperCalls, NEW ok \in BOOLEAN, Run(ok, FALSE), conn = "up"
  PROVE  Wire'
<1> DEFINE m == Head(input).cmd
<1> DEFINE p == Len(output) + 1
<1> DEFINE a == Answer(ticket, m, ok, hostname', IF m = ShowConfig THEN running ELSE {})
<1> USE DEF Wire
<1>1. /\ input # <<>> /\ input' = Tail(input) /\ conn' = conn
      /\ IF ok THEN MayAccept(m) ELSE MayReject(m)
      /\ mode' = IF ok THEN ModeAfter(m) ELSE mode
      /\ hostname' = IF ok /\ m.kind = "name" THEN m.arg ELSE hostname
      /\ running' = IF ok /\ Configures(m)
                    THEN running \cup {[ticket |-> Head(input).ticket, cmd |-> m, where |-> mode]}
                    ELSE running
      /\ startup' = IF ok /\ m.kind = "save" THEN running ELSE startup
      /\ output' = Append(output, Answer(Head(input).ticket, m, ok, hostname',
                                         IF m = ShowConfig THEN running ELSE {}))
      /\ UNCHANGED <<callVars, clientVars, ticket, base>>
  BY DEF Run
<1>2. /\ Head(input).ticket = ticket /\ m = awaiting[p] /\ m \in Command
      /\ p \in 1..Len(awaiting) /\ awaiting # <<>> /\ p + Len(Tail(input)) = Len(awaiting)
      /\ Len(input) = Len(Tail(input)) + 1 /\ Len(Tail(input)) \in Nat
      /\ \A i \in 1..Len(Tail(input)) : Tail(input)[i] = input[i + 1]
      /\ Serves /\ Current \in Calls /\ Current.op \in Ops
  BY <1>1, NextLine
<1>3. /\ m \notin {Conf, End} => m.kind \notin {"conf", "end"}
      /\ m.kind = "name" => Renaming /\ output = <<>>
      /\ m.kind = "save" => m = Save
      /\ m = Save => Tail(input) = <<>> /\ todo = <<>> /\ Saves
      /\ Asks({"show"}) /\ m = ShowConfig => Tail(input) = <<>> /\ mode = "exec"
  BY <1>1, NextLine
<1>4. output' = Append(output, a)
  BY <1>1, <1>2
<1>5. /\ a.cmd = m /\ a.ok = ok /\ a.part = "whole" /\ a.prompt = hostname'
      /\ a.config = IF m = ShowConfig THEN running ELSE {}
  BY DEF Answer
<1> HIDE DEF m, p, a
<1>6. Len(output) \in Nat /\ Len(awaiting) \in Nat /\ p = Len(output) + 1 /\ p \in Nat
  BY Lengths DEF p
<1>7. /\ Len(output') = p /\ output'[p] = a /\ output' # <<>>
      /\ \A i \in 1..Len(output) : output'[i] = output[i]
  <2>1. output \in Seq(AnswerType)
    BY DEF TypeOK, WireTypes
  <2>2. QED
    BY <1>4, <1>6, <2>1
<1>8. \A i \in 1..Len(output') : (i \in 1..Len(output) /\ output'[i] = output[i])
                                 \/ (i = p /\ output'[i] = a)
  BY <1>6, <1>7
<1>9. UNCHANGED <<holder, want, todo, awaiting, rejected, got, claimed, report,
                  inConfigMode, prompt, lost, ticket, base>>
  BY <1>1 DEF callVars, clientVars
<1>10. Outside
  <2>1. running \subseteq running' /\ startup' \in {startup, running}
    BY <1>1
  <2>2. \A i \in 1..Len(input') : input'[i].ticket \in 1..ticket
    BY <1>1, <1>2 DEF Histories
  <2>3. QED
    BY <1>1, <2>1, <2>2 DEF Outside
<1>11. /\ Current' = Current /\ (Serves' <=> Serves) /\ \A ops : Asks(ops)' <=> Asks(ops)
       /\ (BatchSent' <=> BatchSent) /\ (Saves' <=> Saves) /\ (Renaming' <=> Renaming)
       /\ Items(running) \subseteq Items(running)'
       /\ Idle' /\ Positions' /\ Progress' /\ Histories'
  BY <1>10, OutsideKeeps
<1>12. LostIsCut' /\ Completed'
  BY <1>1, <1>2, <1>9 DEF LostIsCut, Completed
<1>13. Aligned'
  <2>1. Len(output') <= Len(awaiting')
    BY <1>2, <1>7, <1>9
  <2>2. ASSUME NEW i \in 1..Len(output')
        PROVE  output'[i].cmd = awaiting'[i] /\ output'[i].part = "whole"
    <3>1. CASE i \in 1..Len(output) /\ output'[i] = output[i]
      BY <1>9, <3>1 DEF Aligned
    <3>2. CASE i = p /\ output'[i] = a
      BY <1>2, <1>5, <1>9, <3>2
    <3>3. QED
      BY <1>8, <3>1, <3>2
  <2>3. Len(output') + Len(input') = Len(awaiting')
    BY <1>1, <1>2, <1>7, <1>9
  <2>4. ASSUME NEW i \in 1..Len(input')
        PROVE  input'[i] = [ticket |-> ticket', cmd |-> awaiting'[Len(output') + i]]
    <3>1. i + 1 \in 1..Len(input) /\ input'[i] = input[i + 1]
      BY <1>1, <1>2
    <3>2. input[i + 1] = [ticket |-> ticket, cmd |-> awaiting[Len(output) + (i + 1)]]
      BY <3>1 DEF Aligned
    <3>3. Len(output) + (i + 1) = Len(output') + i
      BY <1>6, <1>7
    <3>4. QED
      BY <1>9, <3>1, <3>2, <3>3
  <2>5. QED
    BY <2>1, <2>2, <2>3, <2>4 DEF Aligned
<1>14. /\ m = Conf => mode' # "exec"
       /\ m = End => mode' = "exec"
       /\ m.kind \notin {"conf", "end"} => (mode' = "exec" <=> mode = "exec")
       /\ m.kind = "save" => mode' = mode
       /\ m.kind = "show" /\ mode = "exec" => ok
  BY <1>1, <1>2, ModeSteps
<1>15. ModeKnown'
  <2>1. CASE BatchSent
    <3>1. BatchLeft(Current)
      BY <1>2, <2>1 DEF BatchSent, Positions, SeverAt, Asks
    <3>2. mode # "exec" <=> Len(input) >= 2
      BY <2>1 DEF ModeKnown
    <3>3. CASE Len(Tail(input)) = 0
      <4>1. m = Save
        <5>1. p = Len(awaiting)
          <6>1. p \in Nat /\ Len(awaiting) \in Nat /\ Len(Tail(input)) \in Nat
            BY <1>2, <1>6
          <6>2. p + Len(Tail(input)) = Len(awaiting)
            BY <1>2
          <6>3. QED
            BY <3>3, <6>1, <6>2, Sums
        <5>2. QED
          BY <1>2, <3>1, <5>1 DEF BatchLeft
      <4>2. mode' = mode /\ mode = "exec"
        <5>1. Len(input) = 1
          BY <1>2, <3>3
        <5>2. mode = "exec"
          BY <3>2, <5>1
        <5>3. QED
          BY <1>14, <4>1, <5>2, OwnLines
      <4>3. Len(input') = 0
        BY <1>1, <3>3
      <4>4. QED
        BY <1>11, <2>1, <4>2, <4>3 DEF ModeKnown
    <3>4. CASE Len(Tail(input)) = 1
      <4>1. m = End
        <5>1. p = Len(awaiting) - 1 /\ p # Len(awaiting)
          <6>1. p \in Nat /\ Len(awaiting) \in Nat /\ Len(Tail(input)) \in Nat
            BY <1>2, <1>6
          <6>2. p + Len(Tail(input)) = Len(awaiting)
            BY <1>2
          <6>3. QED
            BY <3>4, <6>1, <6>2, Sums
        <5>2. QED
          BY <1>2, <3>1, <5>1 DEF BatchLeft
      <4>2. mode' = "exec" /\ Len(input') = 1
        BY <1>1, <1>14, <3>4, <4>1
      <4>3. QED
        BY <1>11, <2>1, <4>2 DEF ModeKnown
    <3>5. CASE Len(Tail(input)) >= 2
      <4>1. m \in ToSet(Current.lines)
        BY <1>2, <3>1, <3>5 DEF BatchLeft
      <4>2. m.kind \notin {"conf", "end"}
        BY <1>2, <4>1, ProperLine
      <4>3. Len(input) >= 2 /\ Len(input') >= 2
        BY <1>1, <1>2, <3>5
      <4>4. mode' # "exec"
        BY <1>14, <3>2, <4>2, <4>3
      <4>5. QED
        BY <1>11, <2>1, <4>3, <4>4 DEF ModeKnown
    <3>6. Len(Tail(input)) = 0 \/ Len(Tail(input)) = 1 \/ Len(Tail(input)) >= 2
      <4>1. \A n \in Nat : n = 0 \/ n = 1 \/ n >= 2
        OBVIOUS
      <4>2. QED
        BY <1>2, <4>1
    <3>7. QED
      BY <3>3, <3>4, <3>5, <3>6
  <2>2. CASE ~BatchSent /\ awaiting = <<Conf>>
    <3>1. p = 1 /\ m = Conf
      BY <1>2, <2>2, Singletons
    <3>2. ~inConfigMode /\ mode' # "exec"
      BY <1>14, <2>2, <3>1 DEF ModeKnown
    <3>3. ~BatchSent' /\ awaiting' = <<Conf>> /\ ~inConfigMode' /\ output' # <<>>
      BY <1>7, <1>9, <1>11, <2>2, <3>2
    <3>4. ~inConfigMode' /\ (mode' = "exec" <=> output' = <<>>)
      BY <3>2, <3>3
    <3>5. <<Conf>> # <<End>>
      BY OwnLines
    <3>6. QED
      BY <3>3, <3>4, <3>5 DEF ModeKnown
  <2>3. CASE ~BatchSent /\ awaiting = <<End>>
    <3>1. p = 1 /\ m = End
      BY <1>2, <2>3, Singletons
    <3>2. mode' = "exec" /\ <<End>> # <<Conf>>
      BY <1>14, <3>1, OwnLines
    <3>3. QED
      BY <1>9, <1>11, <2>3, <3>2 DEF ModeKnown
  <2>4. CASE ~BatchSent /\ awaiting # <<Conf>> /\ awaiting # <<End>>
    <3>1. m \notin {Conf, End}
      <4>1. CASE Asks({"execute"})
        <5>1. m \in ToSet(Current.lines)
          BY <1>2, <4>1 DEF Positions, ExecuteAt
        <5>2. QED
          BY <1>2, <5>1, ProperLine
      <4>2. CASE ~Asks({"execute"})
        <5>1. Len(awaiting) <= 1
          BY <1>2, <2>4, <4>2, OneAtATime
        <5>2. p = 1 /\ Len(awaiting) = 1
          <6>1. \A n \in Nat : \A i \in 1..n : n <= 1 => i = 1 /\ n = 1
            OBVIOUS
          <6>2. QED
            BY <1>2, <1>6, <5>1, <6>1, Zenon
        <5>3. awaiting \in Seq(Command)
          BY DEF TypeOK, CallTypes
        <5>4. awaiting = <<awaiting[1]>>
          BY <5>2, <5>3
        <5>5. QED
          BY <1>2, <2>4, <5>2, <5>4
      <4>3. QED
        BY <4>1, <4>2
    <3>2. mode' = "exec" <=> mode = "exec"
      BY <1>3, <1>14, <3>1
    <3>3. inConfigMode <=> mode # "exec"
      BY <2>4 DEF ModeKnown
    <3>4. QED
      BY <1>9, <1>11, <2>4, <3>2, <3>3 DEF ModeKnown
  <2>5. QED
    BY <2>1, <2>2, <2>3, <2>4
<1>16. PromptsAgree'
  <2>1. CASE m.kind = "name"
    <3>1. Renaming /\ Len(output) = 0
      BY <1>3, <2>1
    <3>2. \A i \in 1..Len(output') : output'[i] = a
      BY <1>8, <3>1
    <3>3. QED
      BY <1>5, <1>11, <3>1, <3>2 DEF PromptsAgree
  <2>2. CASE m.kind # "name"
    <3>1. hostname' = hostname
      BY <1>1, <2>2 DEF m
    <3>2. prompt = hostname \/ Renaming
      BY DEF PromptsAgree
    <3>3. ASSUME NEW i \in 1..Len(output')
          PROVE  output'[i].prompt = hostname /\ (output'[i].prompt = prompt \/ Renaming)
      <4>1. CASE i \in 1..Len(output) /\ output'[i] = output[i]
        BY <4>1 DEF PromptsAgree
      <4>2. CASE i = p /\ output'[i] = a
        BY <1>5, <3>1, <3>2, <4>2
      <4>3. QED
        BY <1>8, <4>1, <4>2
    <3>4. QED
      BY <1>9, <1>11, <3>1, <3>2, <3>3 DEF PromptsAgree
  <2>3. QED
    BY <2>1, <2>2
<1>17. AnswersTrue'
  <2>1. SUFFICES ASSUME NEW i \in 1..Len(output')
        PROVE  /\ output'[i].ok /\ Configures(output'[i].cmd) =>
                    <<ticket, output'[i].cmd>> \in Items(running)'
               /\ output'[i].ok /\ output'[i].cmd = Save => Settled'
               /\ Asks({"show"}) /\ output'[i].cmd = ShowConfig =>
                    output'[i].ok /\ output'[i].config = running' /\ input' = <<>>
    BY <1>9, <1>11 DEF AnswersTrue, Shows
  <2>2. CASE i \in 1..Len(output) /\ output'[i] = output[i]
    <3>1. ~Settled /\ ~Shows(output[i])
      BY <1>1 DEF Settled, Shows
    <3>2. QED
      BY <1>11, <2>2, <3>1 DEF AnswersTrue
  <2>3. CASE i = p /\ output'[i] = a
    <3>1. ok /\ Configures(m) => <<ticket, m>> \in Items(running)'
      <4>1. SUFFICES ASSUME ok, Configures(m) PROVE <<ticket, m>> \in Items(running)'
        OBVIOUS
      <4> DEFINE e == [ticket |-> ticket, cmd |-> m, where |-> mode]
      <4>2. e \in running' /\ e.ticket = ticket /\ e.cmd = m
        BY <1>1, <1>2, <4>1
      <4>3. QED
        BY <4>2 DEF Items
    <3>2. ok /\ m = Save => Settled'
      <4>1. SUFFICES ASSUME ok, m = Save PROVE Settled'
        OBVIOUS
      <4>2. m.kind = "save" /\ ~Configures(m)
        BY <4>1, OwnLines DEF Configures
      <4>3. startup' = running /\ running' = running /\ input' = <<>>
        BY <1>1, <1>3, <4>1, <4>2
      <4>4. QED
        BY <4>3 DEF Settled
    <3>3. Asks({"show"}) /\ m = ShowConfig => a.ok /\ a.config = running' /\ input' = <<>>
      <4>1. SUFFICES ASSUME Asks({"show"}), m = ShowConfig
                     PROVE  a.ok /\ a.config = running' /\ input' = <<>>
        OBVIOUS
      <4>2. m.kind = "show" /\ ~Configures(m)
        BY <4>1, OwnLines DEF Configures
      <4>3. ok /\ input' = <<>> /\ running' = running
        BY <1>1, <1>3, <1>14, <4>1, <4>2
      <4>4. QED
        BY <1>5, <4>1, <4>3
    <3>4. QED
      BY <1>5, <2>3, <3>1, <3>2, <3>3
  <2>4. QED
    BY <1>8, <2>2, <2>3
<1>18. QED
  BY <1>11, <1>12, <1>13, <1>15, <1>16, <1>17

LEMMA ExecuteKeeps ==
  ASSUME TypeOK, Wire, ProperCalls, Execute
  PROVE  Wire'
<1>1. PICK ok \in BOOLEAN, cut \in BOOLEAN : Run(ok, cut)
  BY DEF Execute
<1>2. CASE conn = "up" /\ ~cut
  BY <1>1, <1>2, AnsweredKeeps
<1>3. CASE conn # "up" \/ cut
  <2>1. conn' # "up" /\ input # <<>>
    BY <1>1, <1>3 DEF Run
  <2>2. output \in Seq(AnswerType) /\ Len(output) \in Nat /\ input \in Seq(Tagged)
    BY Lengths DEF TypeOK, WireTypes
  <2>3. \/ output' = output
        \/ \E n \in 0..Len(output) : output' = SubSeq(output, 1, n)
    BY <1>1, <1>3 DEF Run
  <2>4. /\ Len(output') \in Nat /\ Len(output') <= Len(output)
        /\ \A i \in 1..Len(output') : output'[i] = output[i]
    BY <2>2, <2>3
  <2>5. Outside
    <3>1. input' = Tail(input)
      BY <1>1 DEF Run
    <3>2. Len(input') = Len(input) - 1 /\ \A i \in 1..Len(input') : input'[i] = input[i + 1]
      BY <2>1, <2>2, <3>1, HeadTailProperties
    <3>3. \A i \in 1..Len(input') : input'[i].ticket \in 1..ticket
      BY <2>2, <3>2 DEF Wire, Histories
    <3>4. running \subseteq running' /\ startup' \in {startup, running}
          /\ UNCHANGED <<callVars, clientVars, ticket, base>>
      BY <1>1 DEF Run
    <3>5. QED
      BY <3>3, <3>4 DEF Outside
  <2>6. QED
    BY <2>1, <2>4, <2>5, GoneKeeps
<1>4. QED
  BY <1>2, <1>3

-----------------------------------------------------------------------------
(* The invariant holds.                                                      *)

LEMMA InitKeeps == Init => Wire
<1>1. SUFFICES ASSUME Init PROVE Wire
  OBVIOUS
<1>2. ~Serves /\ (\A ops : ~Asks(ops)) /\ Len(output) = 0 /\ Len(input) = 0 /\ Len(awaiting) = 0
  BY <1>1 DEF Init, Serves, Asks
<1>3. Idle /\ LostIsCut /\ Aligned /\ Positions
  BY <1>1, <1>2 DEF Init, Idle, LostIsCut, Aligned, Positions
<1>4. ModeKnown
  BY <1>1, <1>2, NotOneLine DEF Init, ModeKnown, BatchSent
<1>5. PromptsAgree /\ AnswersTrue /\ Progress /\ Completed
  BY <1>1, <1>2 DEF Init, PromptsAgree, AnswersTrue, Progress, Completed, Saves
<1>6. Histories
  BY <1>1, <1>2 DEF Init, Histories, AppliedWhenClaimed, FreshRead, DurableWhenSaved,
                    Succeeded, NoCall
<1>7. QED
  BY <1>3, <1>4, <1>5, <1>6 DEF Wire

LEMMA StutterKeeps == TypeOK /\ Wire /\ UNCHANGED vars => Wire'
<1>1. SUFFICES ASSUME TypeOK, Wire, UNCHANGED vars PROVE Wire'
  OBVIOUS
<1> USE <1>1 DEF vars, callVars, clientVars, switchVars, wireVars, Wire
<1>2. Outside
  BY DEF Outside, Histories
<1>3. /\ Current' = Current /\ \A ops : Asks(ops)' <=> Asks(ops)
      /\ (BatchSent' <=> BatchSent) /\ (Saves' <=> Saves) /\ (Renaming' <=> Renaming)
      /\ Idle' /\ Positions' /\ Progress' /\ Histories'
  BY <1>2, OutsideKeeps
<1>4. LostIsCut' /\ Aligned'
  BY DEF LostIsCut, Aligned
<1>5. ModeKnown' /\ PromptsAgree'
  BY <1>3 DEF ModeKnown, PromptsAgree
<1>6. AnswersTrue' /\ Completed'
  BY <1>3 DEF AnswersTrue, Completed, Settled, Shows, Items
<1>7. QED
  BY <1>3, <1>4, <1>5, <1>6

LEMMA WireStep ==
  ASSUME TypeOK, Wire, InTime, ProperCalls, Next
  PROVE  Wire'
<1>1. ASSUME NEW c \in Callers, Step(c) PROVE Wire'
  BY <1>1, SendKeeps, ReadKeeps, FinishKeeps, NotWrittenKeeps, ReadFailsKeeps,
     ReadRejectionKeeps, NeverLate DEF Step
<1>2. CASE Client
  BY <1>1, <1>2, AcquireKeeps, RequestKeeps DEF Client
<1>3. ~Stray
  BY DEF Stray, InTime, TypeOK, BoundTypes
<1>4. CASE Switch
  BY <1>3, <1>4, ExecuteKeeps, NetworkKeeps DEF Switch
<1>5. QED
  BY <1>2, <1>4 DEF Next

\* In time, the wire is as the client believes it to be.
THEOREM WireHolds ==
  ASSUME InTime, ProperCalls
  PROVE  Spec => []Wire
<1>1. Init => Wire
  BY InitKeeps
<1>2. TypeOK /\ Wire /\ [Next]_vars => Wire'
  BY WireStep, StutterKeeps
<1>3. QED
  BY <1>1, <1>2, TypeCorrect, PTL DEF Spec

LEMMA WireImplies ==
  ASSUME TypeOK, Wire
  PROVE  /\ NothingLeftBehind /\ ModesAgree /\ PromptKnown
         /\ FreshRead /\ AppliedWhenClaimed /\ DurableWhenSaved
<1>1. holder = NoCaller => awaiting = <<>> /\ ~BatchSent
  BY DEF Wire, Idle, Serves, BatchSent, Asks
<1>2. NothingLeftBehind /\ ModesAgree /\ PromptKnown
  BY <1>1, AtRest DEF NothingLeftBehind, ModesAgree, PromptKnown
<1>3. QED
  BY <1>2 DEF Wire, Histories

-----------------------------------------------------------------------------
(* What the callers see.                                                     *)

\* What is outside a call's own conversation with the switch.
Seen == <<want, holder, ticket, running, startup, conn, lost, report>>

LEMMA SeenUnchanged ==
  ASSUME UNCHANGED Seen
  PROVE  UNCHANGED Abstract!vars
BY DEF Seen, Abstract!vars, Reply, Succeeded, Items

\* A call that returns, with its effect if it succeeds.
LEMMA ReturnRefines ==
  ASSUME TypeOK, Wire, NEW c \in Callers, NEW result, holder = c, Return(c, result),
         result = "ok" => ~rejected /\ todo = <<>> /\ awaiting = <<>>,
         conn' = conn \/ conn' # "up", lost' = lost \/ conn' # "up"
  PROVE  Abstract!Return(c)
<1> USE DEF Wire
<1>1. Serves /\ Current = want[c]
  BY SessionAssumption DEF Serves, Current
<1>2. /\ holder' = NoCaller /\ want' = [want EXCEPT ![c] = NoCall]
      /\ report' = [call |-> want[c], result |-> result, data |-> got, base |-> base]
      /\ UNCHANGED <<running, startup, ticket>>
  BY DEF Return, switchVars
<1>3. Reply'.call = want[c] /\ Reply'.result = result
  BY <1>2 DEF Reply
<1>4. ASSUME result = "ok" PROVE Abstract!Done(want[c], Reply'.data)
  <2>1. want[c].op \in {"config", "prompt", "sever"} =>
          \A l \in ToSet(want[c].lines) : <<ticket, l>> \in Items(running)
    <3>1. Len(todo) = 0 /\ Len(awaiting) = 0
      BY <1>4
    <3>2. QED
      BY <1>1, <1>4, <3>1 DEF Progress, Asks
  <2>2. want[c].op = "save" \/ (want[c].op = "sever" /\ want[c].lines # <<>>) =>
          Items(startup) = Items(running)
    BY <1>1, <1>4 DEF Completed, Saves, Asks, Settled
  <2>3. want[c].op = "show" => Reply'.data = Items(running)
    <3>1. SUFFICES ASSUME want[c].op = "show" PROVE Reply'.data = Items(running)
      OBVIOUS
    <3>2. got.config = running
      BY <1>1, <1>4, <3>1 DEF Completed, Asks, Shows
    <3>3. Succeeded("show")' /\ report'.data.config = running
      BY <1>2, <1>4, <3>1, <3>2 DEF Succeeded
    <3>4. QED
      BY <3>3 DEF Reply, Items
  <2>4. QED
    BY <2>1, <2>2, <2>3 DEF Abstract!Done, Abstract!ToSet, ToSet
<1>5. (conn' = "up" /\ lost' = "no") \in {(conn = "up" /\ lost = "no"), FALSE}
  <2>1. CASE conn' # "up"
    BY <2>1
  <2>2. CASE conn' = conn /\ lost' = lost
    BY <2>2
  <2>3. QED
    BY <2>1, <2>2
<1>6. Items(running)' = Items(running) /\ Items(startup)' = Items(startup)
  BY <1>2 DEF Items
<1>7. QED
  BY <1>2, <1>3, <1>4, <1>5, <1>6 DEF Abstract!Return

LEMMA StepRefines ==
  ASSUME TypeOK, Wire, InTime, ProperCalls, NEW c \in Callers, Step(c)
  PROVE  Abstract!Return(c) \/ UNCHANGED Abstract!vars
<1>1. CASE Send(c) \/ Read(c)
  <2>1. UNCHANGED Seen
    BY <1>1 DEF Send, Read, Seen, switchVars, clientVars
  <2>2. QED
    BY <2>1, SeenUnchanged
<1>2. CASE Finish(c)
  BY <1>2, ReturnRefines DEF Finish
<1>3. CASE Refuse(c) \/ FailLost(c) \/ WriteFails(c)
  <2>1. PICK result \in Outcomes \ {"ok"} : holder = c /\ Fail(c, result, lost)
    BY <1>3 DEF Refuse, FailLost, WriteFails, Ready, Sending, Outcomes
  <2>2. Return(c, result) /\ lost' = lost /\ (conn' = conn \/ conn' # "up")
    BY <2>1 DEF Fail
  <2>3. QED
    BY <2>1, <2>2, ReturnRefines
<1>4. CASE ReadRejection(c)
  <2>1. holder = c /\ Fail(c, "cli", lost)
    BY <1>4 DEF ReadRejection
  <2>2. Return(c, "cli") /\ lost' = lost /\ (conn' = conn \/ conn' # "up")
    BY <2>1 DEF Fail
  <2>3. QED
    BY <2>1, <2>2, ReturnRefines
<1>5. CASE ReadFails(c)
  <2>1. PICK result \in Outcomes \ {"ok"} :
          holder = c /\ conn # "up" /\ Fail(c, result, CauseOfFailedRead(c))
    BY <1>5 DEF ReadFails, Outcomes
  <2>2. Return(c, result) /\ conn' # "up"
    BY <2>1 DEF Fail
  <2>3. QED
    BY <2>1, <2>2, ReturnRefines
<1>6. QED
  BY <1>1, <1>2, <1>3, <1>4, <1>5, NeverLate DEF Step

LEMMA OneMore ==
  ASSUME NEW x
  PROVE  Abstract!Cardinality({x}) = 1
<1>1. Abstract!Cardinality({x}) = Cardinality({x})
  BY DEF Abstract!Cardinality, Cardinality
<1>2. QED
  BY <1>1, FS_Singleton

\* A line that takes effect is one of the call being served, unless there is no
\* session any more.
LEMMA RunRefines ==
  ASSUME TypeOK, Wire, ProperCalls, NEW ok \in BOOLEAN, NEW cut \in BOOLEAN, Run(ok, cut)
  PROVE  Abstract!Next \/ UNCHANGED Abstract!vars
<1> DEFINE t == Head(input).ticket
<1> DEFINE m == Head(input).cmd
<1> DEFINE x == <<t, m>>
<1> DEFINE usable == conn = "up" /\ lost = "no"
<1> USE DEF Wire
<1>1. /\ input # <<>>
      /\ cut => ok /\ m.kind = "addr" /\ conn = "up"
      /\ running' = IF ok /\ Configures(m)
                    THEN running \cup {[ticket |-> t, cmd |-> m, where |-> mode]}
                    ELSE running
      /\ startup' = IF ok /\ m.kind = "save" THEN running ELSE startup
      /\ conn' = IF cut THEN "cut" ELSE conn
      /\ UNCHANGED <<holder, want, ticket, lost, report>>
  BY DEF Run, callVars, clientVars
<1>2. t \in 1..ticket
  <2>1. input \in Seq(Tagged)
    BY DEF TypeOK, WireTypes
  <2>2. Head(input) = input[1] /\ 1 \in 1..Len(input)
    BY <1>1, <2>1
  <2>3. QED
    BY <2>2 DEF Histories
<1>3. conn = "up" =>
        /\ t = ticket /\ Serves /\ Current \in Calls
        /\ m.kind = "save" => m = Save
        /\ m = Save => Saves
        /\ Configures(m) => m \in ToSet(Current.lines) /\ Asks({"config", "prompt", "sever"})
  BY <1>1, NextLine
<1> HIDE DEF t, m
<1>4. UNCHANGED <<want, holder, ticket, Reply>>
  BY <1>1 DEF Reply, Succeeded
<1>5. CASE ok /\ Configures(m)
  <2>1. ~(ok /\ m.kind = "save") /\ startup' = startup
    BY <1>1, <1>5 DEF Configures
  <2>2. Items(startup)' = Items(startup)
    BY <2>1 DEF Items
  <2>3. Items(running)' = Items(running) \cup {x}
    <3> DEFINE e == [ticket |-> t, cmd |-> m, where |-> mode]
    <3>1. running' = running \cup {e} /\ <<e.ticket, e.cmd>> = x
      BY <1>1, <1>5
    <3> HIDE DEF e
    <3>2. QED
      BY <3>1 DEF Items
  <2>4. usable' \in {usable, FALSE}
    <3>1. CASE cut
      BY <1>1, <3>1
    <3>2. CASE ~cut
      BY <1>1, <3>2
    <3>3. QED
      BY <3>1, <3>2
  <2>5. CASE x \in Items(running)
    <3>1. Items(running)' = Items(running)
      BY <2>3, <2>5
    <3>2. CASE usable' = usable
      BY <1>4, <2>2, <3>1, <3>2 DEF Abstract!vars
    <3>3. CASE usable' = FALSE
      BY <1>4, <2>2, <3>1, <3>3 DEF Abstract!Next, Abstract!Lose
    <3>4. QED
      BY <2>4, <3>2, <3>3
  <2>6. CASE x \notin Items(running)
    <3>1. Items(running)' \ Items(running) = {x} /\ Items(running) \subseteq Items(running)'
      BY <2>3, <2>6
    <3>2. Abstract!Cardinality(Items(running)' \ Items(running)) = 1
      BY <3>1, OneMore
    <3>3. CASE usable
      <4>1. /\ holder # NoCaller /\ want[holder].op \in {"config", "prompt", "sever"}
            /\ x \in {<<ticket, l>> : l \in ToSet(want[holder].lines)}
        BY <1>3, <1>5, <3>3 DEF Asks, Serves, Current
      <4>2. Abstract!Serving({"config", "prompt", "sever"})
        BY <4>1 DEF Abstract!Serving
      <4>3. Items(running)' \ Items(running) \subseteq
              {<<ticket, l>> : l \in Abstract!ToSet(want[holder].lines)}
        BY <3>1, <4>1 DEF ToSet, Abstract!ToSet
      <4>4. QED
        BY <1>4, <2>2, <2>4, <3>1, <3>2, <4>2, <4>3 DEF Abstract!Next, Abstract!Apply
    <3>4. CASE ~usable
      <4>1. \A y \in Items(running)' \ Items(running) : y[1] \in 1..ticket
        BY <1>2, <3>1
      <4>2. QED
        BY <1>4, <2>2, <2>4, <3>1, <3>2, <3>4, <4>1 DEF Abstract!Next, Abstract!Apply
    <3>5. QED
      BY <3>3, <3>4
  <2>7. QED
    BY <2>5, <2>6
<1>6. CASE ok /\ m.kind = "save"
  <2>1. running' = running /\ startup' = running /\ conn' = conn
    BY <1>1, <1>6 DEF Configures
  <2>2. Items(running)' = Items(running) /\ Items(startup)' = Items(running) /\ (usable' <=> usable)
    BY <1>1, <2>1 DEF Items
  <2>3. Abstract!Serving({"save", "sever"}) \/ ~usable
    BY <1>3, <1>6 DEF Abstract!Serving, Saves, Asks, Serves, Current
  <2>4. QED
    BY <1>4, <2>2, <2>3 DEF Abstract!Next, Abstract!Store
<1>7. CASE ~(ok /\ Configures(m)) /\ ~(ok /\ m.kind = "save")
  <2>1. running' = running /\ startup' = startup /\ conn' = conn
    BY <1>1, <1>7 DEF Configures
  <2>2. UNCHANGED Seen
    BY <1>1, <2>1 DEF Seen
  <2>3. QED
    BY <2>2, SeenUnchanged
<1>8. QED
  BY <1>5, <1>6, <1>7

LEMMA NextRefines ==
  ASSUME TypeOK, Wire, InTime, ProperCalls, Next
  PROVE  Abstract!Next \/ UNCHANGED Abstract!vars
<1>1. ASSUME NEW c \in Callers, Step(c)
      PROVE  Abstract!Next \/ UNCHANGED Abstract!vars
  BY <1>1, StepRefines DEF Abstract!Next
<1>2. ASSUME NEW c \in Callers, Acquire(c) PROVE Abstract!Next
  <2>1. Abstract!Begin(c)
    BY <1>2 DEF Acquire, Abstract!Begin, clientVars, switchVars, wireVars, Reply, Succeeded, Items
  <2>2. QED
    BY <2>1 DEF Abstract!Next
<1>3. ASSUME NEW c \in Callers, NEW k \in Calls, Request(c, k) PROVE Abstract!Next
  <2>1. Abstract!Request(c, k)
    BY <1>3 DEF Request, Abstract!Request, clientVars, switchVars, wireVars, Reply, Succeeded, Items
  <2>2. QED
    BY <2>1 DEF Abstract!Next
<1>4. CASE Execute
  BY <1>4, RunRefines DEF Execute
<1>5. CASE NetworkFails
  <2>1. Abstract!Lose
    BY <1>5 DEF NetworkFails, Abstract!Lose, callVars, clientVars, switchVars, Reply, Succeeded, Items
  <2>2. QED
    BY <2>1 DEF Abstract!Next
<1>6. CASE HangUp
  <2>1. UNCHANGED Seen
    BY <1>6 DEF HangUp, Seen, callVars, clientVars, switchVars
  <2>2. QED
    BY <2>1, SeenUnchanged
<1>7. ~Stray
  BY DEF Stray, InTime, TypeOK, BoundTypes
<1>8. QED
  BY <1>1, <1>2, <1>3, <1>4, <1>5, <1>6, <1>7 DEF Next, Client, Switch

LEMMA InitRefines == Init => Abstract!Init
<1>1. SUFFICES ASSUME Init PROVE Abstract!Init
  OBVIOUS
<1>2. Items({}) = {}
  BY DEF Items
<1>3. Reply = [call |-> NoCall, result |-> "ok", data |-> {}]
  BY <1>1 DEF Init, Reply, Succeeded, NoCall
<1>4. QED
  BY <1>1, <1>2, <1>3 DEF Init, Abstract!Init

-----------------------------------------------------------------------------
(* The theorems.  In time, for any callers, calls, transports and bounds:    *)

\* Every path through every call, the error paths included, reads each prompt
\* its lines provoke: between calls the wire is empty (client.go execute,
\* ExecuteExpectingDisconnect).
THEOREM NothingIsLeft ==
  ASSUME InTime, ProperCalls
  PROVE  Spec => []NothingLeftBehind
BY WireHolds, TypeCorrect, WireImplies, PTL

\* Between calls inConfigMode says which mode the shell is in, after calls that
\* failed too (client.go ensureConfigMode, exitConfigMode).
THEOREM ModesAlwaysAgree ==
  ASSUME InTime, ProperCalls
  PROVE  Spec => []ModesAgree
BY WireHolds, TypeCorrect, WireImplies, PTL

\* Between calls the client waits for the prompt the switch prints, renamed or
\* not (client.go ExecutePromptChanging).
THEOREM PromptIsKnown ==
  ASSUME InTime, ProperCalls
  PROVE  Spec => []PromptKnown
BY WireHolds, TypeCorrect, WireImplies, PTL

\* What GetRunningConfig returns is the whole answer to its own line and holds
\* everything applied before the call began.
THEOREM ReadsAreFresh ==
  ASSUME InTime, ProperCalls
  PROVE  Spec => []FreshRead
BY WireHolds, TypeCorrect, WireImplies, PTL

\* A line a caller was told has been applied was accepted by the switch.
THEOREM ClaimsAreApplied ==
  ASSUME InTime, ProperCalls
  PROVE  Spec => []AppliedWhenClaimed
BY WireHolds, TypeCorrect, WireImplies, PTL

\* When WriteMemory succeeds, every line any caller was ever told has been
\* applied is in the startup configuration.
THEOREM SavesAreDurable ==
  ASSUME InTime, ProperCalls
  PROVE  Spec => []DurableWhenSaved
BY WireHolds, TypeCorrect, WireImplies, PTL

\* The Client with its mutex, batches, prompts and error paths, and the switch
\* and a network that may fail, implement the executor the resources rely on.
THEOREM ClientImplementsExecutor ==
  ASSUME InTime, ProperCalls
  PROVE  Spec => ImplementsExecutor
<1>1. Init => Abstract!Init
  BY InitRefines
<1>2. TypeOK /\ Wire /\ [Next]_vars => [Abstract!Next]_(Abstract!vars)
  <2>1. SUFFICES ASSUME TypeOK, Wire, [Next]_vars
                 PROVE  Abstract!Next \/ UNCHANGED Abstract!vars
    OBVIOUS
  <2>2. CASE Next
    BY <2>1, <2>2, NextRefines
  <2>3. CASE UNCHANGED vars
    <3>1. UNCHANGED Seen
      BY <2>3 DEF vars, Seen, callVars, clientVars, switchVars, wireVars
    <3>2. QED
      BY <3>1, SeenUnchanged
  <2>4. QED
    BY <2>1, <2>2, <2>3
<1>3. QED
  BY <1>1, <1>2, WireHolds, TypeCorrect, PTL DEF Spec, ImplementsExecutor, Abstract!Spec
=============================================================================
