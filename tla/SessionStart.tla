---------------------------- MODULE SessionStart ----------------------------
(***************************************************************************)
(* How a session comes to be: the provider's Configure, from a connected   *)
(* transport to a Client that is in enable mode, knows the prompt and      *)
(* whether the switch echoes, has paging off, and was used once to find    *)
(* the firmware dialect.                                                   *)
(*                                                                         *)
(* Both sides read what the other prints and nobody says whose turn it is: *)
(* the client takes a prompt, or whatever looks like one, for its cue.  The*)
(* switch prints a reply in one piece: a pause inside one is shorter than  *)
(* loginPromptSettle.  It answers within telnetQuietWindow unless `late'.  *)
(***************************************************************************)
EXTENDS Integers, SequencesExt

CONSTANTS Settings,    \* the provider configurations tried
          Transports,  \* the transports, and whether a telnet switch echoes
          Banners,     \* what a switch prints before a prompt at login
          NetMayFail   \* may the connection break by itself?

VARIABLES settings, transport, conn,
          pc,       \* where the client is
          sent,     \* usernameSent, passwordSent: the credentials sent so far
          echo,     \* telnetEcho: does the switch echo commands?
          dialect,  \* the output the dialect was detected from
          at,       \* what the switch's terminal is waiting for
          typed,    \* lines on their way to the switch
          shown,    \* what the switch has printed and the client not read
          refused,  \* has the switch refused a password typed at its prompt?
          late      \* is the switch too slow for telnetQuietWindow?

clientVars == <<pc, sent, echo, dialect>>
vars == <<settings, transport, conn, clientVars, at, typed, shown, refused, late>>

\* A setting is given, missing, or has a control character in it.
Value == {"set", "empty", "control"}
Setting == [transport : {"ssh", "telnet"}, hostKey : BOOLEAN, ack : BOOLEAN,
            username : Value, password : Value, enable : Value, allowEmpty : BOOLEAN]

\* What a switch prints: prompts, text, text that ends as a prompt does, and
\* answers to commands.
Prompts == {">", "#"}
Doors == {"user", "pass"} \cup Prompts
Token(kind) == [kind |-> kind, line |-> "", ok |-> TRUE]
Answer(l, ok) == [kind |-> "answer", line |-> l, ok |-> ok]
Kinds == Doors \cup {"enablePass", "text", "likeUser", "likePass", "like#", "answer"}
Lines == {"", "username", "password", "enable", "enablePass", "skip-page-display",
          "show running-config"}
Printed == [kind : Kinds, line : Lines, ok : BOOLEAN]

\* A telnet switch may print a CLI prompt twice.
Shows(p) == {<<Token(p)>>} \cup (IF transport = "ssh" THEN {} ELSE {<<Token(p), Token(p)>>})

-----------------------------------------------------------------------------
\* resolveConnection: the settings a connection is made with.
Resolves(s) ==
  LET credentials == {s.username, s.password, s.enable} IN
  /\ s.allowEmpty \/ "empty" \notin {s.username, s.password}
  /\ "control" \notin credentials
  /\ IF s.transport = "ssh" THEN s.hostKey ELSE s.ack

\* Connected.  Over SSH the user is authenticated already.
Init ==
  /\ settings \in {s \in Settings : Resolves(s)}
  /\ transport \in {t \in Transports : (t = "ssh") <=> (settings.transport = "ssh")}
  /\ conn = "up" /\ pc = "login" /\ sent = {} /\ echo = "unknown" /\ dialect = <<>>
  /\ at \in IF transport = "ssh" THEN Prompts ELSE Doors
  /\ shown \in {b \o p : b \in Banners,
                         p \in IF at \in Prompts THEN Shows(at) ELSE {<<Token(at)>>}}
  /\ typed = <<>> /\ refused = FALSE
  /\ late \in IF transport = "ssh" THEN {FALSE} ELSE BOOLEAN

\* NewClient, newTelnetSession and Configure close the client on every error.
Fail ==
  /\ pc' = "failed" /\ conn' = "closed"
  /\ UNCHANGED <<settings, transport, sent, echo, dialect, at, typed, refused, late>>

Write(l) == conn = "up" /\ typed' = Append(typed, l)

\* A step of the client that neither ends nor writes.
Quietly == UNCHANGED <<settings, transport, conn, typed, at, refused, late>>

Arrived(p) == shown # <<>> /\ pc = p
Take == shown' = Tail(shown)

-----------------------------------------------------------------------------
(* readUntilPromptInitial and enterEnableMode.                               *)

\* initialPrompt is not anchored to the start of a line.
CLIPrompt(t) == t.kind \in Prompts \cup {"like#"}

Credential(t) == CASE t.kind \in {"user", "likeUser"} -> "username"
                   [] t.kind \in {"pass", "likePass"} -> "password"
                   [] OTHER -> "none"

\* Mutated: a login prompt is answered as soon as it is seen.
AnswerableAtOnce(t) ==
  settings.transport = "telnet" /\ Credential(t) \notin sent \cup {"none"}

\* A login prompt is answered once, and only when nothing follows it.
Answerable(t) ==
  /\ settings.transport = "telnet" /\ Credential(t) \notin sent \cup {"none"}
  /\ Tail(shown) = <<>>

ReadBanner ==
  /\ Arrived("login") /\ ~CLIPrompt(Head(shown)) /\ ~Answerable(Head(shown))
  /\ Take /\ UNCHANGED clientVars /\ Quietly

AnswerLogin ==
  /\ Arrived("login") /\ ~CLIPrompt(Head(shown)) /\ Answerable(Head(shown))
  /\ Write(Credential(Head(shown))) /\ sent' = sent \cup {Credential(Head(shown))}
  /\ Take
  /\ UNCHANGED <<settings, transport, conn, pc, echo, dialect, at, refused, late>>

MayEnable == settings.enable # "empty" \/ settings.allowEmpty

\* Mutated: every prompt is taken for a privileged one.
ReachAnyPrompt ==
  /\ Arrived("login") /\ CLIPrompt(Head(shown))
  /\ pc' = "settle1" /\ sent' = {} /\ Take
  /\ UNCHANGED <<echo, dialect>> /\ Quietly

ReachPrompt ==
  /\ Arrived("login") /\ CLIPrompt(Head(shown))
  /\ Head(shown).kind = ">" => MayEnable
  /\ pc' = IF Head(shown).kind = ">" THEN "enable" ELSE "settle1"
  /\ sent' = {} /\ Take
  /\ UNCHANGED <<echo, dialect>> /\ Quietly

NoEnablePassword ==
  /\ Arrived("login") /\ Head(shown).kind = ">" /\ ~MayEnable
  /\ Take /\ Fail

\* Lines that are written without looking at what has arrived.
WriteLine(from, l, to) ==
  /\ pc = from /\ Write(l) /\ pc' = to
  /\ UNCHANGED <<settings, transport, conn, sent, echo, dialect, at, shown, refused,
                 late>>

WriteEnable == WriteLine("enable", "enable", "enabling")

ReadEnable ==
  /\ Arrived("enabling") /\ Take
  /\ IF Head(shown).kind = "#" THEN pc' = "settle1" /\ sent' = {} /\ UNCHANGED typed
     ELSE /\ pc' = pc
          /\ IF Head(shown).kind = "enablePass" /\ "enablePass" \notin sent
             THEN Write("enablePass") /\ sent' = {"enablePass"}
             ELSE UNCHANGED <<sent, typed>>
  /\ UNCHANGED <<settings, transport, conn, echo, dialect, at, refused, late>>

-----------------------------------------------------------------------------
(* drainQuietIfTelnet, detectPrompt, resync and the first two commands.      *)

\* Mutated: a drain takes what has arrived and does not wait for silence.
QuietEnough == TRUE

\* Silence for telnetQuietWindow: nothing has arrived and, unless the switch is
\* slower than that, nothing is coming.
Quiet == shown = <<>> /\ (typed = <<>> \/ late)

DropStray(p) ==
  /\ transport # "ssh" /\ Arrived(p) /\ Take
  /\ UNCHANGED clientVars /\ Quietly

Settled(p, next) ==
  /\ pc = p /\ pc' = next
  /\ transport = "ssh" \/ (conn = "up" /\ Quiet)
  /\ UNCHANGED <<sent, echo, dialect, shown>> /\ Quietly

Settle == \/ \E p \in {"settle1", "settle2", "settle3"} : DropStray(p)
          \/ Settled("settle1", "probe")
          \/ Settled("settle2", "paging")
          \/ Settled("settle3", "config")

\* detectPrompt: an Enter, and the first prompt that follows is the prompt.
Probe == WriteLine("probe", "", "probing")
LearnPrompt ==
  /\ Arrived("probing") /\ Take
  /\ pc' = IF Head(shown).kind \in Prompts THEN "settle2" ELSE pc
  /\ UNCHANGED <<sent, echo, dialect>> /\ Quietly

\* execute, with drainPendingIfTelnet in front of the write.
Pending(n) == IF transport = "ssh" THEN n = 0 ELSE n \in 0..Len(shown)
OnlyPrompts(n) == \A i \in 1..n : shown[i].kind \in Prompts

Execute(from, l, to) == \E n \in 0..Len(shown) :
  /\ pc = from /\ Pending(n) /\ shown' = SubSeq(shown, n + 1, Len(shown))
  /\ IF OnlyPrompts(n)
     THEN /\ Write(l) /\ pc' = to
          /\ UNCHANGED <<settings, transport, conn, sent, echo, dialect, at, refused, late>>
     ELSE Fail

\* readUntilPrompt: `out' is what precedes the first prompt.
ReadsUpTo(p, out) == \E k \in 1..Len(shown) :
  /\ pc = p /\ shown[k].kind \in Prompts
  /\ \A j \in 1..k-1 : shown[j].kind \notin Prompts
  /\ out = SubSeq(shown, 1, k - 1) /\ shown' = SubSeq(shown, k + 1, Len(shown))
Outputs == {SubSeq(shown, 1, k) : k \in 0..Len(shown)}

Echoed(l, out) == transport = "telnetEcho" /\ out # <<>> /\ Head(out).line = l
Failed(out) == \E i \in DOMAIN out : ~out[i].ok

DisablePaging == Execute("paging", "skip-page-display", "pagingOff")

\* The first command also shows whether the switch echoes.
PagingDisabled == \E out \in Outputs :
  /\ ReadsUpTo("pagingOff", out) /\ ~Failed(out)
  /\ echo' = CASE transport = "ssh" -> "unknown"
               [] Echoed("skip-page-display", out) -> "on"
               [] OTHER -> "off"
  /\ pc' = IF transport = "ssh" THEN "config" ELSE "resync"
  /\ UNCHANGED <<sent, dialect>> /\ Quietly

PagingRefused == \E out \in Outputs :
  /\ ReadsUpTo("pagingOff", out) /\ Failed(out) /\ Fail

\* Over telnet only: one more Enter, to use up stray prompts.
Resync == WriteLine("resync", "", "resyncing")
Resynced == \E out \in Outputs :
  /\ ReadsUpTo("resyncing", out) /\ pc' = "settle3"
  /\ UNCHANGED <<sent, echo, dialect>> /\ Quietly

\* Configure reads the running configuration, for the dialect.
ReadConfig == Execute("config", "show running-config", "configuring")

DetectDialect == \E out \in Outputs :
  /\ ReadsUpTo("configuring", out)
  /\ echo = "on" => Echoed("show running-config", out)
  /\ dialect' = out /\ pc' = "ready"
  /\ UNCHANGED <<sent, echo>> /\ Quietly

ConfigOutOfSync == \E out \in Outputs :
  /\ ReadsUpTo("configuring", out)
  /\ echo = "on" /\ ~Echoed("show running-config", out) /\ Fail

Reading == {"login", "enabling", "probing", "pagingOff", "resyncing", "configuring"}
Writing == {"enable", "probe", "paging", "resync", "config"}
Draining == {"settle1", "settle2", "settle3"}
Over == {"ready", "failed"}

\* Mutated: enable mode is waited for without a deadline.
TimeoutButNotEnabling ==
  /\ pc \in (Reading \ {"enabling"}) \cup (IF transport = "ssh" THEN {} ELSE Draining)
  /\ Fail /\ UNCHANGED shown

\* The deadline of a read passes, or of a drain that never saw silence.
Timeout ==
  /\ pc \in Reading \cup (IF transport = "ssh" THEN {} ELSE Draining)
  /\ Fail /\ UNCHANGED shown

\* The stream has ended, or a write failed.
Disconnected ==
  /\ conn # "up" /\ Fail /\ UNCHANGED shown
  /\ \/ pc \in Writing
     \/ pc \in Reading \cup Draining /\ shown = <<>>
     \/ pc = "login" /\ shown # <<>> /\ Answerable(Head(shown))
     \/ pc = "enabling" /\ shown # <<>> /\ Head(shown).kind = "enablePass"

-----------------------------------------------------------------------------
(* The switch.                                                               *)

Reply(terminal, tokens) ==
  /\ at' = terminal /\ typed' = Tail(typed) /\ shown' = shown \o tokens
  /\ UNCHANGED <<settings, transport, conn, clientVars, late>>

Asked(terminal) == conn = "up" /\ typed # <<>> /\ at = terminal

AskPassword == Asked("user") /\ Reply("pass", <<Token("pass")>>) /\ UNCHANGED refused

Login == \E p \in Prompts, b \in Banners : \E w \in Shows(p) :
  /\ Asked("pass") /\ Head(typed) = "password"
  /\ Reply(p, b \o w) /\ UNCHANGED refused

RefuseLogin == \E p \in Doors \ Prompts :
  /\ Asked("pass") /\ Reply(p, <<Token("text"), Token(p)>>)
  /\ refused' = (refused \/ Head(typed) = "password")

Enable ==
  /\ Asked(">") /\ Head(typed) = "enable" /\ UNCHANGED refused
  /\ \/ \E w \in Shows("#") : Reply("#", <<Token("text")>> \o w)
     \/ Reply("enablePass", <<Token("enablePass")>>)

EnablePassword ==
  /\ Asked("enablePass") /\ Head(typed) = "enablePass"
  /\ \E w \in Shows("#") : Reply("#", w) /\ UNCHANGED refused

RefuseEnable ==
  /\ Asked("enablePass") /\ refused' = (refused \/ Head(typed) = "enablePass")
  /\ \E w \in Shows(">") : Reply(">", <<Token("text")>> \o w)

\* A command at a CLI prompt; an Enter has no output of its own.
RunLine == \E p \in Prompts, ok \in BOOLEAN : \E w \in Shows(p) :
  /\ Asked(p) /\ UNCHANGED refused /\ ~(p = ">" /\ Head(typed) = "enable")
  /\ CASE Head(typed) = "" -> ok
       [] Head(typed) = "skip-page-display" -> TRUE
       [] OTHER -> ok = (p = "#")
  /\ Reply(p, (IF Head(typed) = "" THEN <<>> ELSE <<Answer(Head(typed), ok)>>) \o w)

NetworkFails ==
  /\ NetMayFail /\ conn = "up" /\ conn' = "cut" /\ pc \notin Over
  /\ \E n \in 0..Len(shown) : shown' = SubSeq(shown, 1, n)
  /\ UNCHANGED <<settings, transport, clientVars, at, typed, refused, late>>

-----------------------------------------------------------------------------
Client == \/ ReadBanner \/ AnswerLogin \/ ReachPrompt \/ NoEnablePassword
          \/ WriteEnable \/ ReadEnable \/ Settle \/ Probe \/ LearnPrompt
          \/ DisablePaging \/ PagingDisabled \/ PagingRefused
          \/ Resync \/ Resynced \/ ReadConfig \/ DetectDialect
          \/ ConfigOutOfSync \/ Timeout \/ Disconnected
Switch == \/ AskPassword \/ Login \/ RefuseLogin \/ Enable \/ EnablePassword
          \/ RefuseEnable \/ RunLine \/ NetworkFails

Next == Client \/ Switch
Spec == Init /\ [][Next]_vars

\* The goroutine that runs Configure is scheduled and its timers fire.
Fairness == WF_vars(Client)

-----------------------------------------------------------------------------
TypeOK ==
  /\ settings \in Settings /\ transport \in Transports
  /\ conn \in {"up", "cut", "closed"} /\ pc \in Reading \cup Writing \cup Draining \cup Over
  /\ sent \subseteq Lines /\ echo \in {"unknown", "on", "off"} /\ dialect \in Seq(Printed)
  /\ at \in Doors \cup {"enablePass"} /\ typed \in Seq(Lines) /\ shown \in Seq(Printed)
  /\ {refused, late} \subseteq BOOLEAN

\* A password reaches the switch only at the prompt that asks for it, however
\* the banner is worded (readUntilPromptInitial, enterEnableMode).  At any other
\* prompt it would be taken for a user name or a command, and shown in logs.
PasswordAtItsPrompt ==
  [][typed # <<>> /\ typed' = Tail(typed) =>
       (Head(typed) \in {"password", "enablePass"} =>
          at = IF Head(typed) = "password" THEN "pass" ELSE "enablePass")]_vars

\* When start-up succeeds the session is what Client's calls take it to be:
\* privileged, with the echo checks on exactly when the switch echoes although
\* the first command decides that, and, if the switch answers in time, with
\* nothing unanswered and nothing unread but the prompts that the drain before a
\* command drops (start, resync).
ReadyForCalls ==
  pc = "ready" =>
    /\ at = "#"
    /\ echo = CASE transport = "ssh" -> "unknown"
                [] transport = "telnetEcho" -> "on"
                [] OTHER -> "off"
    /\ ~late => typed = <<>> /\ OnlyPrompts(Len(shown)) /\ (transport = "ssh" => shown = <<>>)

\* The firmware dialect, by which every resource words its lines, was detected
\* from the running configuration and not from some other output (Configure).
\* A late switch that does not echo may mislead it; nothing in the code can tell.
DialectFromConfig ==
  (pc = "ready" /\ (late => transport = "telnetEcho")) =>
    dialect = <<Answer("show running-config", TRUE)>>

\* The client and the switch never wait for each other, so that start-up ends
\* by a deadline of its own only after the switch has refused a password.
WaitsOnlyIfRefused ==
  (pc \in Reading /\ conn = "up" /\ shown = <<>> /\ typed = <<>>) => refused

\* Start-up ends, whatever the switch does: Configure returns.
StartEnds == <>(pc \in Over)
=============================================================================
