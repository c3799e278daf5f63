------------------------- MODULE SessionStartProofs -------------------------
(***************************************************************************)
(* Start-up ends in an aligned session, and a password is only typed where *)
(* it is asked for: for any settings, transports and banners in which no   *)
(* line ends as a CLI prompt does, whatever the switch and the network do. *)
(***************************************************************************)
EXTENDS SessionStart, SequenceTheorems, TLAPS

\* A banner is text, some of which may end as a login prompt does.
Plain == [kind : {"text", "likeUser", "likePass"}, line : Lines, ok : BOOLEAN]
PlainBanners == Settings \subseteq Setting /\ Banners \subseteq Seq(Plain)

-----------------------------------------------------------------------------
(* What is under way, where the client is.                                   *)

SSH == transport = "ssh"
Hash == Token("#")
Paging == "skip-page-display"
Show == "show running-config"

\* s is output that ends in the prompt p, or a part of it; `one': over SSH a
\* prompt is printed once.
Ending(one, S, p, s) ==
  /\ \A i \in 1..Len(s) : s[i] \in S \/ s[i] = Token(p)
  /\ \A i, j \in 1..Len(s) : i < j /\ s[i] = Token(p) => s[j] = Token(p)
  /\ one => \A i \in 1..Len(s) : s[i] = Token(p) => i = Len(s)
Ended(p, s) == s # <<>> /\ s[Len(s)] = Token(p)

Hashes(s) == \A i \in 1..Len(s) : s[i] = Hash
\* Nothing but what the drain before a command drops.
Rest(one, s) == Hashes(s) /\ (one => s = <<>>)
\* The answer to a command, or a part of it.
Answered(one, A, s) ==
  /\ \A i \in 1..Len(s) : IF i = 1 THEN s[i] \in A ELSE s[i] = Hash
  /\ one => Len(s) <= 2

EchoKnown == echo = CASE SSH -> "unknown" [] transport = "telnetEcho" -> "on" [] OTHER -> "off"
Privileged == at = "#"

\* While the connection is up nothing is missing of what was printed.
Up == conn = "up"

LoginAt ==
  /\ at \in Doors /\ sent \subseteq {"username", "password"} /\ (SSH => at \in Prompts)
  /\ \/ /\ typed = <<>> /\ Ending(SSH, Plain, at, shown)
        /\ Up => Ended(at, shown) \/ (shown = <<>> /\ refused)
     \/ typed = <<"username">> /\ at = "user" /\ shown = <<>> /\ "username" \in sent
     \/ typed = <<"password">> /\ at = "pass" /\ shown = <<>> /\ "password" \in sent
  /\ "password" \in sent /\ typed # <<"password">> /\ at \notin Prompts => refused
  /\ "username" \in sent /\ typed = <<>> /\ at = "user" => refused

EnableAt == at = ">" /\ typed = <<>> /\ sent = {} /\ Ending(SSH, {}, ">", shown)

\* `enable' is on its way; its password is asked for, or on its way; it was
\* refused; it was accepted.
EnableSent    == typed = <<"enable">> /\ at = ">" /\ sent = {} /\ Ending(SSH, {}, ">", shown)
PasswordAsked ==
  /\ typed = <<>> /\ at = "enablePass" /\ sent = {} /\ (Up => Ended("enablePass", shown))
  /\ \A i \in 1..Len(shown) : \/ shown[i] = Token(">")
                              \/ i = Len(shown) /\ shown[i] = Token("enablePass")
PasswordSent  == /\ typed = <<"enablePass">> /\ at = "enablePass" /\ sent = {"enablePass"}
                 /\ shown = <<>>
EnableRefused == /\ typed = <<>> /\ at = ">" /\ refused
                 /\ \A i \in 1..Len(shown) : shown[i].kind \in {"text", ">"}
EnableTaken   == /\ typed = <<>> /\ at = "#" /\ Ending(SSH, {Token("text"), Token(">")}, "#", shown)
                 /\ (Up => Ended("#", shown))
EnablingAt == EnableSent \/ PasswordAsked \/ PasswordSent \/ EnableRefused \/ EnableTaken

\* The commands before the echo is known.
SettleAt  == Privileged /\ typed = <<>> /\ Rest(SSH, shown)
SilentAt  == Privileged /\ typed = <<>> /\ shown = <<>>
ProbingAt ==
  /\ Privileged
  /\ \/ typed = <<"">> /\ shown = <<>>
     \/ typed = <<>> /\ Ending(SSH, {}, "#", shown) /\ (Up => shown # <<>>)
PagingAt ==
  /\ Privileged
  /\ \/ typed = <<Paging>> /\ shown = <<>>
     \/ /\ typed = <<>> /\ Answered(SSH, {Answer(Paging, TRUE), Answer(Paging, FALSE)}, shown)
        /\ Up => shown # <<>>

\* From here on a late switch may be an answer behind.
ResyncAt    == Privileged /\ ~SSH /\ typed = <<>> /\ Hashes(shown)
DrainingAt  == Privileged /\ ~SSH /\ typed \in {<<>>, <<"">>} /\ Hashes(shown)
ResyncingAt == DrainingAt /\ (Up /\ typed = <<>> => shown # <<>>)
ConfigAt    == /\ Privileged /\ typed \in {<<>>, <<"">>} /\ Rest(SSH, shown)
               /\ ~late => typed = <<>> /\ shown = <<>>
Behind == typed \in {<<>>, <<Show>>, <<"", Show>>}
AnswerLate ==
  /\ late /\ Behind /\ (typed # <<>> => Hashes(shown)) /\ (Up /\ typed = <<>> => shown # <<>>)
  /\ \A i \in 1..Len(shown) : shown[i] \in {Hash, Answer(Show, TRUE)}
  /\ \A i, j \in 1..Len(shown) : i < j /\ shown[i] # Hash => shown[j] = Hash
AnswerInTime ==
  /\ ~late
  /\ \/ typed = <<Show>> /\ shown = <<>>
     \/ typed = <<>> /\ Answered(SSH, {Answer(Show, TRUE)}, shown) /\ (Up => shown # <<>>)
ConfiguringAt == Privileged /\ (AnswerLate \/ AnswerInTime)
ReadyAt ==
  /\ Privileged /\ DialectFromConfig
  /\ IF late THEN Behind ELSE typed = <<>> /\ Rest(SSH, shown)

Echoing == {"resync", "resyncing", "settle3", "config", "configuring", "ready"}

Positions ==
  /\ pc = "login"       => LoginAt
  /\ pc = "enable"      => EnableAt
  /\ pc = "enabling"    => EnablingAt
  /\ pc \in {"settle1", "settle2"} => SettleAt
  /\ pc \in {"probe", "paging"}    => SilentAt
  /\ pc = "probing"     => ProbingAt
  /\ pc = "pagingOff"   => PagingAt
  /\ pc = "resync"      => ResyncAt
  /\ pc = "resyncing"   => ResyncingAt
  /\ pc = "settle3"     => DrainingAt
  /\ pc = "config"      => ConfigAt
  /\ pc = "configuring" => ConfiguringAt
  /\ pc = "ready"       => ReadyAt
  /\ pc = "failed"      => conn = "closed"

Links ==
  /\ (transport = "ssh") <=> (settings.transport = "ssh")
  /\ SSH => ~late
  /\ pc \notin Echoing \cup {"failed"} => echo = "unknown"
  /\ pc \in Echoing => EchoKnown

IInv == TypeOK /\ Links /\ Positions

-----------------------------------------------------------------------------
(* Sequences.                                                                *)

LEMMA Parts ==
  ASSUME NEW S, NEW s \in Seq(S), NEW n \in 0..Len(s)
  PROVE  /\ SubSeq(s, 1, n) \in Seq(S) /\ Len(SubSeq(s, 1, n)) = n
         /\ \A i \in 1..n : SubSeq(s, 1, n)[i] = s[i]
         /\ SubSeq(s, n + 1, Len(s)) \in Seq(S) /\ Len(SubSeq(s, n + 1, Len(s))) = Len(s) - n
         /\ \A i \in 1..Len(s) - n : SubSeq(s, n + 1, Len(s))[i] = s[i + n]
OBVIOUS

LEMMA Tails ==
  ASSUME NEW S, NEW s \in Seq(S), s # <<>>
  PROVE  /\ Head(s) = s[1] /\ s[1] \in S /\ Len(s) >= 1
         /\ Tail(s) \in Seq(S) /\ Len(Tail(s)) = Len(s) - 1
         /\ \A i \in 1..Len(s) - 1 : Tail(s)[i] = s[i + 1]
OBVIOUS

LEMMA Joins ==
  ASSUME NEW S, NEW s \in Seq(S), NEW t \in Seq(S)
  PROVE  /\ s \o t \in Seq(S) /\ Len(s \o t) = Len(s) + Len(t)
         /\ \A i \in 1..Len(s) + Len(t) :
              (s \o t)[i] = IF i <= Len(s) THEN s[i] ELSE t[i - Len(s)]
OBVIOUS

LEMMA Single == ASSUME NEW S, NEW s \in Seq(S), Len(s) = 1 PROVE s = <<s[1]>>
OBVIOUS

LEMMA First ==
  ASSUME NEW S, NEW s \in Seq(S), Len(s) >= 1
  PROVE  SubSeq(s, 1, 1) = <<s[1]>>
<1>1. SubSeq(s, 1, 1) \in Seq(S) /\ Len(SubSeq(s, 1, 1)) = 1 /\ SubSeq(s, 1, 1)[1] = s[1]
  OBVIOUS
<1>2. QED
  BY <1>1, Single

LEMMA Empties == ASSUME NEW S, NEW s \in Seq(S) PROVE s = <<>> <=> Len(s) = 0
OBVIOUS

LEMMA Appended ==
  ASSUME NEW k, NEW l
  PROVE  /\ Append(<<>>, l) = <<l>> /\ Append(<<k>>, l) = <<k, l>>
         /\ <<l>> # <<>> /\ <<k, l>> # <<>>
<1>1. Append(<<>>, l) = <<l>>
  OBVIOUS
<1>2. Append(<<k>>, l) = <<k, l>>
  <2> DEFINE s == Append(<<k>>, l)
  <2>1. <<k>> \in Seq({k, l}) /\ Len(<<k>>) = 1 /\ <<k>>[1] = k /\ l \in {k, l}
    OBVIOUS
  <2>2. s \in Seq({k, l}) /\ Len(s) = 2 /\ s[1] = k /\ s[2] = l
    BY <2>1, AppendProperties
  <2> HIDE DEF s
  <2>3. s = <<s[1], s[2]>>
    BY <2>2
  <2>4. QED
    BY <2>2, <2>3 DEF s
<1>3. <<l>> # <<>>
  OBVIOUS
<1>4. <<k, l>> # <<>>
  OBVIOUS
<1>5. QED
  BY <1>1, <1>2, <1>3, <1>4

\* What remains of one line, or of two, after the first.
LEMMA Literals ==
  ASSUME NEW k, NEW l
  PROVE  /\ Head(<<l>>) = l /\ Tail(<<l>>) = <<>>
         /\ Head(<<k, l>>) = k /\ Tail(<<k, l>>) = <<l>>
<1>1. <<l>> \in Seq({k, l}) /\ <<l>> # <<>> /\ Len(<<l>>) = 1 /\ <<l>>[1] = l
  OBVIOUS
<1>2. <<k, l>> \in Seq({k, l}) /\ <<k, l>> # <<>> /\ Len(<<k, l>>) = 2 /\ <<k, l>>[1] = k
      /\ <<k, l>>[2] = l
  OBVIOUS
<1>3. Head(<<l>>) = l /\ Tail(<<l>>) \in Seq({k, l}) /\ Len(Tail(<<l>>)) = 0
  BY <1>1, Tails
<1>4. Tail(<<l>>) = <<>>
  BY <1>3, Empties
<1>5. /\ Head(<<k, l>>) = k /\ Tail(<<k, l>>) \in Seq({k, l}) /\ Len(Tail(<<k, l>>)) = 1
      /\ Tail(<<k, l>>)[1] = l
  BY <1>2, Tails
<1>6. Tail(<<k, l>>) = <<l>>
  BY <1>5, Single
<1>7. QED
  BY <1>3, <1>4, <1>5, <1>6

LEMMA TokenKind == \A k : Token(k).kind = k
BY DEF Token

LEMMA PlainKinds == \A t \in Plain : t.kind \in {"text", "likeUser", "likePass"}
BY DEF Plain

LEMMA TokenTypes ==
  /\ \A kind \in Kinds : Token(kind) \in Printed /\ Token(kind).kind = kind
  /\ \A l \in Lines, ok \in BOOLEAN : Answer(l, ok) \in Printed
  /\ \A j, k \in Kinds : Token(j) = Token(k) => j = k
  /\ Plain \subseteq Printed
BY DEF Token, Answer, Printed, Lines, Kinds, Plain

LEMMA EndingTail ==
  ASSUME NEW one, NEW S, NEW p, NEW s \in Seq(Printed), s # <<>>, Ending(one, S, p, s)
  PROVE  Ending(one, S, p, Tail(s))
BY Tails DEF Ending

LEMMA EndingPart ==
  ASSUME NEW one, NEW S, NEW p, NEW s \in Seq(Printed), NEW n \in 0..Len(s), Ending(one, S, p, s)
  PROVE  Ending(one, S, p, SubSeq(s, 1, n))
BY Parts DEF Ending

LEMMA EndedTail ==
  ASSUME NEW p, NEW s \in Seq(Printed), Ended(p, s), Tail(s) # <<>>
  PROVE  Ended(p, Tail(s))
BY Tails, Empties DEF Ended

LEMMA EndedLast ==
  ASSUME NEW p, NEW s \in Seq(Printed), Ended(p, s), Tail(s) = <<>>
  PROVE  Head(s) = Token(p)
<1>1. s # <<>> /\ s[Len(s)] = Token(p)
  BY DEF Ended
<1>2. Head(s) = s[1] /\ Len(Tail(s)) = Len(s) - 1
  BY <1>1, Tails
<1>3. Len(s) = 1
  <2>1. Len(Tail(s)) = 0
    BY EmptySeq
  <2>2. Len(s) \in Nat
    OBVIOUS
  <2>3. QED
    BY <1>2, <2>1, <2>2
<1>4. QED
  BY <1>1, <1>2, <1>3

\* Once the prompt has been read, only more of it may follow.
LEMMA EndingHead ==
  ASSUME NEW one, NEW S, NEW p, NEW s \in Seq(Printed), s # <<>>, Ending(one, S, p, s),
         Head(s) = Token(p)
  PROVE  /\ Tail(s) \in Seq(Printed)
         /\ \A i \in 1..Len(Tail(s)) : Tail(s)[i] = Token(p)
         /\ one => Tail(s) = <<>>
<1>1. Len(Tail(s)) = Len(s) - 1 /\ \A i \in 1..Len(s) - 1 : Tail(s)[i] = s[i + 1]
  BY Tails
<1>2. s[1] = Token(p) /\ Len(s) >= 1 /\ Tail(s) \in Seq(Printed) /\ Len(s) \in Nat
  BY Tails
<1>3. ASSUME NEW i \in 1..Len(Tail(s)) PROVE Tail(s)[i] = Token(p)
  <2>1. 1 \in 1..Len(s) /\ i + 1 \in 1..Len(s) /\ 1 < i + 1 /\ Tail(s)[i] = s[i + 1]
    BY <1>1, <1>2
  <2>2. QED
    BY <1>2, <2>1 DEF Ending
<1>4. one => Len(s) = 1
  BY <1>2 DEF Ending
<1>5. QED
  BY <1>1, <1>2, <1>3, <1>4, Empties

LEMMA EndingOnly ==
  ASSUME NEW one, NEW S, NEW p, NEW s \in Seq(Printed), \A i \in 1..Len(s) : s[i] = Token(p),
         one => Len(s) \in {0, 1}
  PROVE  Ending(one, S, p, s)
BY DEF Ending

LEMMA HashesPart ==
  ASSUME NEW s \in Seq(Printed), NEW n \in 0..Len(s), Hashes(s)
  PROVE  Hashes(SubSeq(s, 1, n)) /\ Hashes(SubSeq(s, n + 1, Len(s)))
BY Parts DEF Hashes

LEMMA HashesTail ==
  ASSUME NEW s \in Seq(Printed), s # <<>>, Hashes(s)
  PROVE  Hashes(Tail(s)) /\ Head(s) = Hash
BY Tails DEF Hashes

LEMMA HashesJoin ==
  ASSUME NEW s \in Seq(Printed), NEW t \in Seq(Printed), Hashes(s), Hashes(t)
  PROVE  Hashes(s \o t)
<1>1. ASSUME NEW i \in 1..Len(s \o t) PROVE (s \o t)[i] = Hash
  <2>1. CASE i <= Len(s)
    BY <2>1, Joins DEF Hashes
  <2>2. CASE i > Len(s)
    <3>1. i - Len(s) \in 1..Len(t) /\ (s \o t)[i] = t[i - Len(s)]
      BY <2>2, Joins
    <3>2. QED
      BY <3>1 DEF Hashes
  <2>3. QED
    BY <2>1, <2>2, Joins
<1>2. QED
  BY <1>1 DEF Hashes

\* What is read up to the first prompt, of an answer.
LEMMA AnsweredHead ==
  ASSUME NEW one, NEW A \in SUBSET Printed, \A a \in A : a.kind \notin Prompts,
         NEW s \in Seq(Printed), Answered(one, A, s), NEW k \in 1..Len(s), s[k].kind \in Prompts,
         \A j \in 1..k-1 : s[j].kind \notin Prompts
  PROVE  /\ k = 2 /\ SubSeq(s, 1, k - 1) = <<s[1]>> /\ s[1] \in A
         /\ Rest(one, SubSeq(s, k + 1, Len(s)))
<1>1. s[1] \in A /\ k # 1
  BY DEF Answered
<1>2. Hash.kind \in Prompts
  BY DEF Hash, Token, Prompts
<1>3. k = 2
  <2>1. CASE k > 2
    BY <1>2, <2>1 DEF Answered
  <2>2. QED
    BY <2>1, <1>1
<1>4. /\ Len(SubSeq(s, k + 1, Len(s))) = Len(s) - 2
      /\ \A i \in 1..Len(s) - 2 : SubSeq(s, k + 1, Len(s))[i] = s[i + 2]
      /\ SubSeq(s, k + 1, Len(s)) \in Seq(Printed)
  <2>1. k \in 0..Len(s) /\ Len(s) \in Nat
    OBVIOUS
  <2>2. /\ SubSeq(s, k + 1, Len(s)) \in Seq(Printed) /\ Len(SubSeq(s, k + 1, Len(s))) = Len(s) - k
        /\ \A i \in 1..Len(s) - k : SubSeq(s, k + 1, Len(s))[i] = s[i + k]
    BY <2>1, Parts
  <2>3. QED
    BY <2>1, <2>2, <1>3
<1>5. Hashes(SubSeq(s, k + 1, Len(s)))
  BY <1>4 DEF Hashes, Answered
<1>6. one => SubSeq(s, k + 1, Len(s)) = <<>>
  BY <1>4, <1>3, Empties DEF Answered
<1>7. SubSeq(s, 1, k - 1) = <<s[1]>>
  BY <1>3, First
<1>8. QED
  BY <1>1, <1>3, <1>5, <1>6, <1>7 DEF Rest

\* A reply that consists of a CLI prompt, or of text or an answer and a prompt.
LEMMA ShowsPrompt ==
  ASSUME NEW p \in Prompts, NEW w \in Shows(p)
  PROVE  /\ w \in Seq(Printed) /\ Len(w) \in 1..2 /\ w # <<>>
         /\ \A i \in 1..Len(w) : w[i] = Token(p)
         /\ SSH => Len(w) = 1
<1>1. w = <<Token(p)>> \/ (w = <<Token(p), Token(p)>> /\ ~SSH)
  BY DEF Shows, SSH
<1>2. Token(p) \in Printed
  BY TokenTypes DEF Kinds, Doors
<1>3. CASE w = <<Token(p)>>
  BY <1>2, <1>3
<1>4. CASE w = <<Token(p), Token(p)>> /\ ~SSH
  BY <1>2, <1>4
<1>5. QED
  BY <1>1, <1>3, <1>4

LEMMA ReplyEnds ==
  ASSUME NEW S \in SUBSET Printed, NEW s \in Seq(Printed), NEW p \in Prompts, NEW w \in Shows(p),
         \A i \in 1..Len(s) : s[i] \in S /\ s[i] # Token(p)
  PROVE  Ending(SSH, S, p, s \o w) /\ Ended(p, s \o w) /\ s \o w \in Seq(Printed)
<1>1. /\ w \in Seq(Printed) /\ Len(w) \in 1..2 /\ \A i \in 1..Len(w) : w[i] = Token(p)
      /\ SSH => Len(w) = 1
  BY ShowsPrompt
<1> DEFINE r == s \o w
<1>2. /\ r \in Seq(Printed) /\ Len(r) = Len(s) + Len(w) /\ Len(s) \in Nat
      /\ \A i \in 1..Len(s) + Len(w) : r[i] = IF i <= Len(s) THEN s[i] ELSE w[i - Len(s)]
  BY <1>1, Joins
<1> HIDE DEF r
<1>0. Len(w) \in Nat /\ Len(w) >= 1 /\ Len(r) \in Nat
  <2>1. Len(w) \in Nat /\ Len(w) >= 1
    <3>1. Len(w) \in 1..2
      BY <1>1
    <3>2. QED
      BY <3>1
  <2>2. Len(r) = Len(s) + Len(w) /\ Len(s) \in Nat
    BY <1>2
  <2>3. QED
    BY <2>1, <2>2
<1>3. ASSUME NEW i \in 1..Len(r)
      PROVE  IF i <= Len(s) THEN r[i] = s[i] ELSE r[i] = Token(p)
  <2>1. CASE i <= Len(s)
    BY <2>1, <1>2
  <2>2. CASE i > Len(s)
    <3>1. i - Len(s) \in 1..Len(w) /\ r[i] = w[i - Len(s)]
      BY <2>2, <1>1, <1>2
    <3>2. QED
      BY <3>1, <2>2, <1>1
  <2>3. QED
    BY <2>1, <2>2, <1>2
<1>4. Ending(SSH, S, p, r)
  <2>1. \A i \in 1..Len(r) : r[i] \in S \/ r[i] = Token(p)
    BY <1>2, <1>3
  <2>2. ASSUME NEW i \in 1..Len(r), NEW j \in 1..Len(r), i < j, r[i] = Token(p)
        PROVE  r[j] = Token(p)
    <3>1. CASE i <= Len(s)
      BY <1>2, <1>3, <2>2, <3>1
    <3>2. CASE i > Len(s)
      BY <1>2, <1>3, <2>2, <3>2
    <3>3. QED
      BY <3>1, <3>2, <1>2
  <2>3. ASSUME SSH, NEW i \in 1..Len(r), r[i] = Token(p) PROVE i = Len(r)
    <3>1. ~(i <= Len(s))
      BY <1>2, <1>3, <2>3
    <3>2. Len(w) = 1
      BY <1>1, <2>3
    <3>3. QED
      BY <1>0, <1>2, <2>3, <3>1, <3>2
  <2>4. QED
    BY <2>1, <2>2, <2>3 DEF Ending
<1>5. Ended(p, r)
  <2>1. Len(r) \in 1..Len(r) /\ ~(Len(r) <= Len(s)) /\ Len(r) # 0
    BY <1>0, <1>2
  <2>2. QED
    BY <2>1, <1>2, <1>3, Empties DEF Ended
<1>6. QED
  BY <1>2, <1>4, <1>5 DEF r

-----------------------------------------------------------------------------
(* Types.                                                                    *)

LEMMA FailTypes == TypeOK /\ Fail /\ shown' \in Seq(Printed) => TypeOK'
BY DEF TypeOK, Fail, Over

LEMMA Appends == ASSUME NEW S, NEW s \in Seq(S), NEW e \in S PROVE Append(s, e) \in Seq(S)
OBVIOUS

LEMMA ExecuteTypes ==
  ASSUME TypeOK, NEW from, NEW l \in Lines, NEW to \in Reading, Execute(from, l, to)
  PROVE  TypeOK'
<1>1. PICK n \in 0..Len(shown) :
        /\ shown' = SubSeq(shown, n + 1, Len(shown))
        /\ IF OnlyPrompts(n)
           THEN /\ Write(l) /\ pc' = to
                /\ UNCHANGED <<settings, transport, conn, sent, echo, dialect, at, refused, late>>
           ELSE Fail
  BY DEF Execute
<1>2. shown' \in Seq(Printed)
  BY <1>1, Parts DEF TypeOK
<1>3. CASE Fail
  BY <1>2, <1>3, FailTypes
<1>4. CASE /\ Write(l) /\ pc' = to
           /\ UNCHANGED <<settings, transport, conn, sent, echo, dialect, at, refused, late>>
  BY <1>2, <1>4, Appends DEF TypeOK, Write
<1>5. QED
  BY <1>1, <1>3, <1>4

LEMMA WriteLineTypes ==
  ASSUME TypeOK, NEW from, NEW l \in Lines, NEW to \in Reading, WriteLine(from, l, to)
  PROVE  TypeOK'
BY Appends DEF TypeOK, WriteLine, Write

LEMMA ReadTypes ==
  ASSUME TypeOK, NEW p, NEW out \in Outputs, ReadsUpTo(p, out)
  PROVE  out \in Seq(Printed) /\ shown' \in Seq(Printed)
<1>1. shown \in Seq(Printed)
  BY DEF TypeOK
<1>2. PICK n \in 0..Len(shown) : out = SubSeq(shown, 1, n)
  BY DEF Outputs
<1>3. PICK k \in 1..Len(shown) : shown' = SubSeq(shown, k + 1, Len(shown))
  BY DEF ReadsUpTo
<1>4. k \in 0..Len(shown)
  BY <1>1
<1>5. QED
  BY <1>1, <1>2, <1>3, <1>4, Parts

LEMMA ReplyTypes ==
  ASSUME TypeOK, NEW terminal \in Doors \cup {"enablePass"}, NEW tokens \in Seq(Printed),
         Asked(at), Reply(terminal, tokens), refused' \in BOOLEAN
  PROVE  TypeOK'
<1>1. typed' \in Seq(Lines) /\ shown' \in Seq(Printed)
  BY Tails, Joins DEF TypeOK, Reply, Asked
<1>2. QED
  BY <1>1 DEF TypeOK, Reply, clientVars

LEMMA ClientTypes == ASSUME TypeOK, Client PROVE TypeOK'
<1>1. ASSUME shown # <<>> PROVE Tail(shown) \in Seq(Printed) /\ Head(shown) \in Printed
  BY <1>1, Tails DEF TypeOK
<1>2. shown # <<>> => Credential(Head(shown)) \in Lines \cup {"none"}
  BY DEF Credential, Lines
<1>3. CASE ReadBanner
  BY <1>1, <1>3 DEF ReadBanner, Arrived, Take, clientVars, Quietly, TypeOK
<1>4. CASE AnswerLogin
  <2>1. Credential(Head(shown)) \in Lines
    BY <1>2, <1>4 DEF AnswerLogin, Answerable, Arrived
  <2>2. QED
    BY <1>1, <1>4, <2>1, Appends DEF AnswerLogin, Arrived, Take, Write, TypeOK
<1>5. CASE ReachPrompt
  BY <1>1, <1>5 DEF ReachPrompt, Arrived, Take, Quietly, TypeOK, Writing, Draining
<1>6. CASE NoEnablePassword
  BY <1>1, <1>6, FailTypes DEF NoEnablePassword, Arrived, Take
<1>7. CASE WriteEnable
  BY <1>7, WriteLineTypes DEF WriteEnable, Lines, Reading
<1>8. CASE ReadEnable
  BY <1>1, <1>8, Appends DEF ReadEnable, Arrived, Take, Write, TypeOK, Lines, Draining
<1>9. CASE Settle
  <2>1. ASSUME NEW p, DropStray(p) PROVE TypeOK'
    BY <1>1, <2>1 DEF DropStray, Arrived, Take, clientVars, Quietly, TypeOK
  <2>2. ASSUME NEW p, NEW next \in Writing, Settled(p, next) PROVE TypeOK'
    BY <2>2 DEF Settled, Quietly, TypeOK
  <2>3. QED
    BY <1>9, <2>1, <2>2 DEF Settle, Writing
<1>10. CASE Probe
  BY <1>10, WriteLineTypes DEF Probe, Lines, Reading
<1>11. CASE LearnPrompt
  BY <1>1, <1>11 DEF LearnPrompt, Arrived, Take, Quietly, TypeOK, Draining
<1>12. CASE DisablePaging
  BY <1>12, ExecuteTypes DEF DisablePaging, Lines, Reading
<1>13. CASE PagingDisabled
  BY <1>13, ReadTypes DEF PagingDisabled, Quietly, TypeOK, Writing
<1>14. CASE PagingRefused
  BY <1>14, ReadTypes, FailTypes DEF PagingRefused
<1>15. CASE Resync
  BY <1>15, WriteLineTypes DEF Resync, Lines, Reading
<1>16. CASE Resynced
  BY <1>16, ReadTypes DEF Resynced, Quietly, TypeOK, Draining
<1>17. CASE ReadConfig
  BY <1>17, ExecuteTypes DEF ReadConfig, Lines, Reading
<1>18. CASE DetectDialect
  BY <1>18, ReadTypes DEF DetectDialect, Quietly, TypeOK, Over
<1>19. CASE ConfigOutOfSync
  BY <1>19, ReadTypes, FailTypes DEF ConfigOutOfSync
<1>20. CASE Timeout \/ Disconnected
  <2>1. Fail /\ shown' \in Seq(Printed)
    BY <1>20 DEF Timeout, Disconnected, TypeOK
  <2>2. QED
    BY <2>1, FailTypes
<1>21. QED
  BY <1>3, <1>4, <1>5, <1>6, <1>7, <1>8, <1>9, <1>10, <1>11, <1>12, <1>13, <1>14, <1>15, <1>16,
     <1>17, <1>18, <1>19, <1>20 DEF Client

LEMMA SwitchTypes == ASSUME PlainBanners, TypeOK, Switch PROVE TypeOK'
<1>1. \A kind \in Kinds : <<Token(kind)>> \in Seq(Printed)
  BY TokenTypes
<1>2. ASSUME NEW p \in Prompts, NEW w \in Shows(p) PROVE w \in Seq(Printed) /\ p \in Doors
  BY <1>2, ShowsPrompt DEF Doors
<1>3. ASSUME NEW b \in Banners PROVE b \in Seq(Printed)
  BY <1>3, TokenTypes, SeqMonotonic DEF PlainBanners
<1>4. refused \in BOOLEAN
  BY DEF TypeOK
<1>5. CASE AskPassword
  BY <1>1, <1>4, <1>5, ReplyTypes DEF AskPassword, Asked, Doors, Kinds
<1>6. CASE Login
  <2>0. PICK p \in Prompts, b \in Banners : \E w \in Shows(p) :
          Asked("pass") /\ Reply(p, b \o w) /\ UNCHANGED refused
    BY <1>6 DEF Login
  <2>1. PICK w \in Shows(p) : Asked("pass") /\ Reply(p, b \o w) /\ UNCHANGED refused
    BY <2>0
  <2>2. b \o w \in Seq(Printed)
    BY <1>2, <1>3, Joins
  <2>3. QED
    BY <2>1, <2>2, <1>2, <1>4, ReplyTypes DEF Asked
<1>7. CASE RefuseLogin
  <2>1. PICK p \in Doors \ Prompts :
          /\ Asked("pass") /\ Reply(p, <<Token("text"), Token(p)>>)
          /\ refused' = (refused \/ Head(typed) = "password")
    BY <1>7 DEF RefuseLogin
  <2>2. <<Token("text"), Token(p)>> \in Seq(Printed)
    BY TokenTypes DEF Kinds
  <2>3. refused' \in BOOLEAN
    BY <1>4, <2>1
  <2>4. QED
    BY <2>1, <2>2, <2>3, ReplyTypes DEF Asked
<1>8. CASE Enable
  <2>1. Asked(at) /\ refused' \in BOOLEAN
    BY <1>4, <1>8 DEF Enable, Asked
  <2>2. ASSUME NEW w \in Shows("#"), Reply("#", <<Token("text")>> \o w) PROVE TypeOK'
    <3>1. <<Token("text")>> \o w \in Seq(Printed)
      BY <1>1, <1>2, Joins DEF Prompts, Kinds
    <3>2. QED
      BY <2>1, <2>2, <3>1, ReplyTypes DEF Doors, Prompts
  <2>3. ASSUME Reply("enablePass", <<Token("enablePass")>>) PROVE TypeOK'
    BY <1>1, <2>1, <2>3, ReplyTypes DEF Kinds
  <2>4. QED
    BY <1>8, <2>2, <2>3 DEF Enable
<1>9. CASE EnablePassword
  BY <1>2, <1>4, <1>9, ReplyTypes DEF EnablePassword, Asked, Doors, Prompts
<1>10. CASE RefuseEnable
  <2>1. PICK w \in Shows(">") : Reply(">", <<Token("text")>> \o w)
    BY <1>10 DEF RefuseEnable
  <2>2. <<Token("text")>> \o w \in Seq(Printed)
    BY <1>1, <1>2, Joins DEF Prompts, Kinds
  <2>3. Asked(at) /\ refused' \in BOOLEAN
    BY <1>4, <1>10 DEF RefuseEnable, Asked
  <2>4. QED
    BY <2>1, <2>2, <2>3, ReplyTypes DEF Doors, Prompts
<1>11. CASE RunLine
  <2>0. PICK p \in Prompts, ok \in BOOLEAN : \E w \in Shows(p) :
          /\ Asked(p) /\ UNCHANGED refused
          /\ Reply(p, (IF Head(typed) = "" THEN <<>> ELSE <<Answer(Head(typed), ok)>>) \o w)
    BY <1>11 DEF RunLine
  <2>1. PICK w \in Shows(p) :
          /\ Asked(p) /\ UNCHANGED refused
          /\ Reply(p, (IF Head(typed) = "" THEN <<>> ELSE <<Answer(Head(typed), ok)>>) \o w)
    BY <2>0
  <2>2. Head(typed) \in Lines
    BY <2>1, Tails DEF Asked, TypeOK
  <2>3. (IF Head(typed) = "" THEN <<>> ELSE <<Answer(Head(typed), ok)>>) \in Seq(Printed)
    <3>1. Answer(Head(typed), ok) \in Printed
      BY <2>2, TokenTypes
    <3>2. <<>> \in Seq(Printed) /\ <<Answer(Head(typed), ok)>> \in Seq(Printed)
      BY <3>1
    <3>3. QED
      BY <3>2
  <2>4. (IF Head(typed) = "" THEN <<>> ELSE <<Answer(Head(typed), ok)>>) \o w \in Seq(Printed)
    BY <2>3, <1>2, Joins
  <2>5. QED
    BY <2>1, <2>4, <1>2, <1>4, ReplyTypes DEF Asked
<1>12. CASE NetworkFails
  BY <1>12, Parts DEF NetworkFails, TypeOK, clientVars
<1>13. QED
  BY <1>5, <1>6, <1>7, <1>8, <1>9, <1>10, <1>11, <1>12 DEF Switch

LEMMA InitShown ==
  ASSUME PlainBanners, Init
  PROVE  \E b \in Seq(Plain), w \in Seq(Printed) :
           /\ shown = b \o w /\ b \in Seq(Printed)
           /\ IF at \in Prompts THEN w \in Shows(at) ELSE w = <<Token(at)>>
<1> DEFINE W == IF at \in Prompts THEN Shows(at) ELSE {<<Token(at)>>}
<1>1. shown \in {b \o p : b \in Banners, p \in W} /\ at \in Doors
  BY DEF Init, Doors
<1> HIDE DEF W
<1>2. PICK b \in Banners, w \in W : shown = b \o w
  BY <1>1
<1>3. b \in Seq(Plain) /\ b \in Seq(Printed)
  BY TokenTypes, SeqMonotonic DEF PlainBanners
<1>4. CASE at \in Prompts
  <2>1. w \in Shows(at)
    BY <1>4 DEF W
  <2>2. w \in Seq(Printed)
    BY <2>1, <1>4, ShowsPrompt
  <2>3. QED
    BY <1>2, <1>3, <1>4, <2>1, <2>2
<1>5. CASE at \notin Prompts
  <2>1. w = <<Token(at)>>
    BY <1>5 DEF W
  <2>2. Token(at) \in Printed
    BY <1>1, TokenTypes DEF Kinds
  <2>3. w \in Seq(Printed)
    BY <2>1, <2>2
  <2>4. QED
    BY <1>2, <1>3, <1>5, <2>1, <2>3
<1>6. QED
  BY <1>4, <1>5

LEMMA InitTypes == ASSUME PlainBanners, Init PROVE TypeOK
<1>1. shown \in Seq(Printed)
  BY InitShown, Joins
<1>2. transport = "ssh" => late \in BOOLEAN
  BY DEF Init
<1>3. transport # "ssh" => late \in BOOLEAN
  BY DEF Init
<1>4. at \in Doors
  BY DEF Init, Doors
<1>5. sent = {} /\ dialect = <<>> /\ typed = <<>> /\ conn = "up" /\ pc = "login" /\ echo = "unknown"
  BY DEF Init
<1>6. settings \in Settings /\ transport \in Transports
  BY DEF Init
<1>9. refused \in BOOLEAN
  BY DEF Init
<1>7. dialect \in Seq(Printed) /\ typed \in Seq(Lines)
  BY <1>5
<1>8. QED
  BY <1>1, <1>2, <1>3, <1>4, <1>5, <1>6, <1>7, <1>9 DEF TypeOK, Reading

-----------------------------------------------------------------------------
(* Logging in and enable mode.                                               *)

LEMMA FailKept == Links /\ Fail => Links' /\ Positions'
BY DEF Links, Fail, Positions, SSH, Echoing

LEMMA LinksSame ==
  ASSUME Links, UNCHANGED <<settings, transport, echo, late>>, pc # "failed",
         pc \in Echoing <=> pc' \in Echoing
  PROVE  Links'
BY DEF Links, SSH, EchoKnown

\* A banner may end as a login prompt does, but not as a CLI prompt does.
LEMMA LoginHead ==
  ASSUME TypeOK, LoginAt, shown # <<>>
  PROVE  /\ typed = <<>> /\ Ending(SSH, Plain, at, shown) /\ (Up => Ended(at, shown))
         /\ Head(shown) \in Plain \/ Head(shown) = Token(at)
         /\ CLIPrompt(Head(shown)) <=> Head(shown) = Token(at) /\ at \in Prompts
<1>1. typed = <<>> /\ Ending(SSH, Plain, at, shown) /\ (Up => Ended(at, shown)) /\ at \in Doors
  BY DEF LoginAt
<1>2. Head(shown) \in Plain \/ Head(shown) = Token(at)
  BY <1>1, Tails DEF Ending, TypeOK
<1>3. Head(shown) \in Plain => ~CLIPrompt(Head(shown)) /\ (Head(shown) = Token(at) => at \notin Prompts)
  BY PlainKinds, TokenKind DEF CLIPrompt, Prompts
<1>4. Head(shown) = Token(at) => (CLIPrompt(Head(shown)) <=> at \in Prompts)
  BY <1>1, TokenKind DEF CLIPrompt, Doors, Prompts
<1>5. QED
  BY <1>1, <1>2, <1>3, <1>4

LEMMA ReadBannerKept == ASSUME PlainBanners, IInv, ReadBanner PROVE Links' /\ Positions'
<1> USE DEF IInv
<1>1. /\ LoginAt /\ pc = "login" /\ pc' = "login" /\ shown # <<>> /\ shown' = Tail(shown)
      /\ ~CLIPrompt(Head(shown)) /\ ~Answerable(Head(shown)) /\ sent' = sent /\ echo' = echo
      /\ UNCHANGED <<settings, transport, conn, typed, at, refused, late>>
  BY DEF ReadBanner, Arrived, Take, Positions, clientVars, Quietly
<1>2. shown \in Seq(Printed)
  BY DEF TypeOK
<1>3. typed = <<>> /\ Ending(SSH, Plain, at, shown) /\ (Up => Ended(at, shown))
  BY <1>1, LoginHead
<1>4. Ending(SSH, Plain, at, Tail(shown))
  BY <1>1, <1>2, <1>3, EndingTail
<1>5. Up => Ended(at, Tail(shown)) \/ (Tail(shown) = <<>> /\ refused)
  <2>1. CASE Tail(shown) # <<>>
    BY <1>2, <1>3, <2>1, EndedTail
  <2>2. CASE Up /\ Tail(shown) = <<>>
    <3>1. Head(shown) = Token(at) /\ at \notin Prompts
      BY <1>1, <1>2, <1>3, <2>2, EndedLast, LoginHead
    <3>2. settings.transport = "telnet"
      <4>1. settings.transport # "ssh"
        BY <1>1, <3>1 DEF LoginAt, Links, SSH
      <4>2. QED
        BY <4>1 DEF PlainBanners, Setting, TypeOK
    <3>3. Credential(Head(shown)) \in sent
      BY <1>1, <2>2, <3>1, <3>2, TokenKind DEF LoginAt, Answerable, Credential, Doors, Prompts
    <3>4. QED
      BY <1>1, <1>3, <2>2, <3>1, <3>3, TokenKind DEF LoginAt, Credential, Doors, Prompts
  <2>3. QED
    BY <2>1, <2>2
<1>6. LoginAt'
  BY <1>1, <1>3, <1>4, <1>5 DEF LoginAt, Up, SSH
<1>7. QED
  BY <1>1, <1>6, LinksSame DEF Positions

LEMMA AnswerLoginKept == ASSUME IInv, AnswerLogin PROVE Links' /\ Positions'
<1> USE DEF IInv
<1>1. /\ LoginAt /\ pc = "login" /\ pc' = "login" /\ shown # <<>> /\ shown' = Tail(shown)
      /\ ~CLIPrompt(Head(shown)) /\ Tail(shown) = <<>> /\ Up
      /\ Credential(Head(shown)) \notin sent \cup {"none"}
      /\ typed' = Append(typed, Credential(Head(shown)))
      /\ sent' = sent \cup {Credential(Head(shown))} /\ echo' = echo
      /\ UNCHANGED <<settings, transport, conn, at, refused, late>>
  BY DEF AnswerLogin, Answerable, Arrived, Take, Write, Positions, Up
<1>2. typed = <<>> /\ Ended(at, shown) /\ shown \in Seq(Printed)
  BY <1>1, LoginHead DEF TypeOK
<1>3. Head(shown) = Token(at) /\ at \notin Prompts
  BY <1>1, <1>2, EndedLast, LoginHead
<1>4. \/ at = "user" /\ Credential(Head(shown)) = "username"
      \/ at = "pass" /\ Credential(Head(shown)) = "password"
  BY <1>1, <1>3, TokenKind DEF LoginAt, Credential, Doors, Prompts
<1>5. typed' = <<Credential(Head(shown))>>
  BY <1>1, <1>2
<1>6. LoginAt'
  <2>1. /\ at' \in Doors /\ sent' \subseteq {"username", "password"} /\ (SSH' => at' \in Prompts)
        /\ Credential(Head(shown)) \in sent'
    BY <1>1, <1>4 DEF LoginAt, SSH
  <2>2. CASE at = "user" /\ Credential(Head(shown)) = "username"
    <3>1. typed' = <<"username">> /\ typed' # <<"password">> /\ typed' # <<>>
      BY <1>5, <2>2
    <3>2. "password" \in sent' => refused
      BY <1>1, <1>2, <1>3, <2>2 DEF LoginAt
    <3>3. QED
      BY <1>1, <2>1, <2>2, <3>1, <3>2 DEF LoginAt
  <2>3. CASE at = "pass" /\ Credential(Head(shown)) = "password"
    <3>1. typed' = <<"password">>
      BY <1>5, <2>3
    <3>2. QED
      BY <1>1, <2>1, <2>3, <3>1 DEF LoginAt
  <2>4. QED
    BY <1>4, <2>2, <2>3
<1>7. QED
  BY <1>1, <1>6, LinksSame DEF Positions

LEMMA ReachPromptKept == ASSUME IInv, ReachPrompt PROVE Links' /\ Positions'
<1> USE DEF IInv
<1>1. /\ LoginAt /\ pc = "login" /\ shown # <<>> /\ shown' = Tail(shown)
      /\ CLIPrompt(Head(shown)) /\ sent' = {} /\ echo' = echo
      /\ pc' = IF Head(shown).kind = ">" THEN "enable" ELSE "settle1"
      /\ UNCHANGED <<settings, transport, conn, typed, at, refused, late>>
  BY DEF ReachPrompt, Arrived, Take, Positions, Quietly
<1>2. /\ typed = <<>> /\ Ending(SSH, Plain, at, shown) /\ Head(shown) = Token(at)
      /\ at \in Prompts /\ shown \in Seq(Printed)
  BY <1>1, LoginHead DEF TypeOK
<1>3. /\ Tail(shown) \in Seq(Printed) /\ (SSH => Tail(shown) = <<>>)
      /\ \A i \in 1..Len(Tail(shown)) : Tail(shown)[i] = Token(at)
  BY <1>1, <1>2, EndingHead
<1>4. CASE at = ">"
  <2>1. pc' = "enable"
    BY <1>1, <1>2, <1>4, TokenKind
  <2>2. Ending(SSH, {}, ">", Tail(shown))
    <3>1. SSH => Len(Tail(shown)) \in {0, 1}
      BY <1>3, Empties
    <3>2. \A i \in 1..Len(Tail(shown)) : Tail(shown)[i] = Token(">")
      BY <1>3, <1>4
    <3>3. QED
      BY <1>3, <3>1, <3>2, EndingOnly
  <2>3. EnableAt'
    BY <1>1, <1>2, <1>4, <2>2 DEF EnableAt, SSH
  <2>4. QED
    BY <1>1, <2>1, <2>3, LinksSame DEF Positions, Echoing
<1>5. CASE at = "#"
  <2>1. pc' = "settle1"
    BY <1>1, <1>2, <1>5, TokenKind
  <2>2. Rest(SSH, Tail(shown))
    BY <1>3, <1>5 DEF Rest, Hashes, Hash
  <2>3. SettleAt'
    BY <1>1, <1>2, <1>5, <2>2 DEF SettleAt, Privileged, SSH
  <2>4. QED
    BY <1>1, <2>1, <2>3, LinksSame DEF Positions, Echoing
<1>6. QED
  BY <1>2, <1>4, <1>5 DEF Prompts

LEMMA WriteEnableKept == ASSUME IInv, WriteEnable PROVE Links' /\ Positions'
<1> USE DEF IInv
<1>1. /\ EnableAt /\ pc = "enable" /\ pc' = "enabling" /\ typed' = Append(typed, "enable")
      /\ UNCHANGED <<settings, transport, conn, sent, echo, dialect, at, shown, refused, late>>
  BY DEF WriteEnable, WriteLine, Write, Positions
<1>2. typed' = <<"enable">>
  BY <1>1 DEF EnableAt
<1>3. EnableSent'
  BY <1>1, <1>2 DEF EnableAt, EnableSent, SSH
<1>4. QED
  BY <1>1, <1>3, LinksSame DEF Positions, Echoing, EnablingAt

\* The prompt in front of `enable' may still be unread, and only the one that
\* `enable' ends in lets the client go on.
LEMMA ReadEnableKept == ASSUME IInv, ReadEnable PROVE Links' /\ Positions'
<1> USE DEF IInv
<1> DEFINE h == Head(shown)
<1>1. /\ EnablingAt /\ pc = "enabling" /\ shown # <<>> /\ shown' = Tail(shown)
      /\ echo' = echo /\ UNCHANGED <<settings, transport, conn, at, refused, late>>
  BY DEF ReadEnable, Arrived, Take, Positions
<1>2. /\ shown \in Seq(Printed) /\ Tail(shown) \in Seq(Printed) /\ h = shown[1]
      /\ Len(shown) \in Nat /\ 1 \in 1..Len(shown) /\ Len(Tail(shown)) = Len(shown) - 1
      /\ \A i \in 1..Len(shown) - 1 : Tail(shown)[i] = shown[i + 1]
  BY <1>1, Tails DEF TypeOK
<1>3. h.kind = "#" => pc' = "settle1" /\ typed' = typed
  BY DEF ReadEnable
<1>4. h.kind = "enablePass" /\ "enablePass" \notin sent =>
        pc' = pc /\ Up /\ typed' = Append(typed, "enablePass") /\ sent' = {"enablePass"}
  BY DEF ReadEnable, Write, Up
<1>5. h.kind \notin {"#", "enablePass"} => pc' = pc /\ UNCHANGED <<sent, typed>>
  BY DEF ReadEnable
<1> HIDE DEF h
<1>6. CASE EnableSent
  <2>1. h = Token(">")
    BY <1>2, <1>6 DEF EnableSent, Ending
  <2>2. pc' = pc /\ UNCHANGED <<sent, typed>>
    BY <1>5, <2>1, TokenKind
  <2>3. EnableSent'
    BY <1>1, <1>2, <1>6, <2>2, EndingTail DEF EnableSent, SSH
  <2>4. QED
    BY <1>1, <2>2, <2>3, LinksSame DEF Positions, EnablingAt
<1>7. CASE PasswordAsked
  <2>1. h = Token(">") \/ (Len(shown) = 1 /\ h = Token("enablePass"))
    BY <1>2, <1>7 DEF PasswordAsked
  <2>2. CASE h = Token(">")
    <3>1. pc' = pc /\ UNCHANGED <<sent, typed>>
      BY <1>5, <2>2, TokenKind
    <3>2. Up => Ended("enablePass", Tail(shown))
      <4>1. Up => Tail(shown) # <<>>
        <5>1. Token(">") # Token("enablePass")
          BY TokenTypes DEF Kinds, Doors, Prompts
        <5>2. QED
          BY <1>2, <1>7, <2>2, <5>1, EndedLast DEF PasswordAsked, h
      <4>2. QED
        BY <1>2, <1>7, <4>1, EndedTail DEF PasswordAsked
    <3>3. ASSUME NEW i \in 1..Len(Tail(shown))
          PROVE  \/ Tail(shown)[i] = Token(">")
                 \/ i = Len(Tail(shown)) /\ Tail(shown)[i] = Token("enablePass")
      <4>1. i \in 1..Len(shown) - 1 /\ i + 1 \in 1..Len(shown)
        BY <1>2
      <4>2. Tail(shown)[i] = shown[i + 1]
        BY <1>2, <4>1
      <4>3. \/ shown[i + 1] = Token(">")
            \/ i + 1 = Len(shown) /\ shown[i + 1] = Token("enablePass")
        BY <1>7, <4>1 DEF PasswordAsked
      <4>4. i + 1 = Len(shown) => i = Len(Tail(shown))
        <5>1. Len(shown) \in Nat /\ Len(Tail(shown)) = Len(shown) - 1
          BY <1>2
        <5>2. QED
          BY <4>1, <5>1
      <4>5. QED
        BY <4>2, <4>3, <4>4
    <3>4. PasswordAsked'
      BY <1>1, <1>7, <3>1, <3>2, <3>3 DEF PasswordAsked, Up
    <3>5. QED
      BY <1>1, <3>1, <3>4, LinksSame DEF Positions, EnablingAt
  <2>3. CASE Len(shown) = 1 /\ h = Token("enablePass")
    <3>1. pc' = pc /\ typed' = Append(typed, "enablePass") /\ sent' = {"enablePass"}
      BY <1>4, <1>7, <2>3, TokenKind DEF PasswordAsked
    <3>2. typed' = <<"enablePass">>
      BY <3>1, <1>7 DEF PasswordAsked
    <3>3. shown' = <<>>
      BY <1>1, <1>2, <2>3, Empties
    <3>4. PasswordSent'
      BY <1>1, <1>7, <3>1, <3>2, <3>3 DEF PasswordAsked, PasswordSent
    <3>5. QED
      BY <1>1, <3>1, <3>4, LinksSame DEF Positions, EnablingAt
  <2>4. QED
    BY <2>1, <2>2, <2>3
<1>8. CASE EnableRefused
  <2>1. h.kind \in {"text", ">"}
    BY <1>2, <1>8 DEF EnableRefused
  <2>2. pc' = pc /\ UNCHANGED <<sent, typed>>
    BY <1>5, <2>1
  <2>3. \A i \in 1..Len(Tail(shown)) : Tail(shown)[i].kind \in {"text", ">"}
    BY <1>2, <1>8 DEF EnableRefused
  <2>4. EnableRefused'
    BY <1>1, <1>8, <2>2, <2>3 DEF EnableRefused
  <2>5. QED
    BY <1>1, <2>2, <2>4, LinksSame DEF Positions, EnablingAt
<1>9. CASE EnableTaken
  <2>1. h \in {Token("text"), Token(">")} \/ h = Token("#")
    BY <1>2, <1>9 DEF EnableTaken, Ending
  <2>2. CASE h \in {Token("text"), Token(">")}
    <3>1. pc' = pc /\ UNCHANGED <<sent, typed>>
      BY <1>5, <2>2, TokenKind
    <3>2. h # Token("#")
      BY <2>2, TokenKind
    <3>3. Up => Ended("#", Tail(shown))
      <4>1. Up => Tail(shown) # <<>>
        BY <1>2, <1>9, <3>2, EndedLast DEF EnableTaken, h
      <4>2. QED
        BY <1>2, <1>9, <4>1, EndedTail DEF EnableTaken
    <3>4. EnableTaken'
      BY <1>1, <1>2, <1>9, <3>1, <3>3, EndingTail DEF EnableTaken, Up, SSH
    <3>5. QED
      BY <1>1, <3>1, <3>4, LinksSame DEF Positions, EnablingAt
  <2>3. CASE h = Token("#")
    <3>1. pc' = "settle1" /\ typed' = typed
      BY <1>3, <2>3, TokenKind
    <3>2. /\ SSH => Tail(shown) = <<>>
          /\ \A i \in 1..Len(Tail(shown)) : Tail(shown)[i] = Token("#")
      BY <1>1, <1>2, <1>9, <2>3, EndingHead DEF EnableTaken, h
    <3>3. SettleAt'
      BY <1>1, <1>9, <3>1, <3>2 DEF EnableTaken, SettleAt, Privileged, Rest, Hashes, Hash, SSH
    <3>4. QED
      BY <1>1, <3>1, <3>3, LinksSame DEF Positions, Echoing
  <2>4. QED
    BY <2>1, <2>2, <2>3
<1>10. CASE PasswordSent
  BY <1>1, <1>10 DEF PasswordSent
<1>11. QED
  BY <1>1, <1>6, <1>7, <1>8, <1>9, <1>10 DEF EnablingAt

-----------------------------------------------------------------------------
(* The switch, until the client has its prompt.                              *)

\* Lines on their way say where the client is.
LEMMA AskedAt ==
  ASSUME IInv, Asked(at)
  PROVE  /\ at = "user" => pc = "login" /\ typed = <<"username">> /\ "username" \in sent
         /\ at = "pass" => pc = "login" /\ typed = <<"password">> /\ "password" \in sent
         /\ at = ">" => pc = "enabling" /\ EnableSent
         /\ at = "enablePass" => pc = "enabling" /\ PasswordSent
         /\ pc = "login" => LoginAt /\ shown = <<>>
         /\ pc # "failed"
<1> USE DEF IInv
<1>1. typed # <<>> /\ conn = "up" /\ pc # "failed"
  BY DEF Asked, Positions
<1>2. pc = "login" =>
        /\ LoginAt /\ shown = <<>>
        /\ \/ typed = <<"username">> /\ at = "user" /\ "username" \in sent
           \/ typed = <<"password">> /\ at = "pass" /\ "password" \in sent
  BY <1>1 DEF Positions, LoginAt
<1>3. pc = "enable" => FALSE
  BY <1>1 DEF Positions, EnableAt
<1>4. pc = "enabling" => EnableSent \/ PasswordSent
  BY <1>1 DEF Positions, EnablingAt, PasswordAsked, EnableRefused, EnableTaken
<1>5. pc \notin {"login", "enable", "enabling", "failed"} => at = "#"
  BY DEF Positions, SettleAt, SilentAt, ProbingAt, PagingAt, ResyncAt, ResyncingAt, DrainingAt,
         ConfigAt, ConfiguringAt, ReadyAt, Privileged, TypeOK, Reading, Writing, Draining, Over
<1>6. EnableSent => at = ">"
  BY DEF EnableSent
<1>7. PasswordSent => at = "enablePass"
  BY DEF PasswordSent
<1>8. QED
  BY <1>1, <1>2, <1>3, <1>4, <1>5, <1>6, <1>7

LEMMA AskPasswordKept == ASSUME IInv, AskPassword PROVE Links' /\ Positions'
<1> USE DEF IInv
<1>1. /\ at = "user" /\ at' = "pass" /\ typed' = Tail(typed) /\ shown' = shown \o <<Token("pass")>>
      /\ UNCHANGED <<settings, transport, conn, pc, sent, echo, late, refused>>
  BY DEF AskPassword, Asked, Reply, clientVars
<1>2. pc = "login" /\ typed = <<"username">> /\ LoginAt /\ shown = <<>>
  BY <1>1, AskedAt DEF AskPassword, Asked
<1>3. typed' = <<>> /\ shown' = <<Token("pass")>>
  BY <1>1, <1>2
<1>4. Ending(SSH, Plain, "pass", <<Token("pass")>>) /\ Ended("pass", <<Token("pass")>>)
  BY DEF Ending, Ended
<1>5. ~SSH /\ ("password" \in sent => refused)
  BY <1>1, <1>2 DEF LoginAt, Prompts
<1>6. LoginAt'
  BY <1>1, <1>2, <1>3, <1>4, <1>5 DEF LoginAt, Up, SSH, Doors
<1>7. QED
  BY <1>1, <1>2, <1>6, LinksSame DEF Positions

LEMMA LoginKept == ASSUME PlainBanners, IInv, Login PROVE Links' /\ Positions'
<1> USE DEF IInv
<1>1. PICK p \in Prompts, b \in Banners : \E w \in Shows(p) :
        Asked("pass") /\ Reply(p, b \o w) /\ UNCHANGED refused
  BY DEF Login
<1>2. PICK w \in Shows(p) : Asked("pass") /\ Reply(p, b \o w) /\ UNCHANGED refused
  BY <1>1
<1>3. /\ at = "pass" /\ at' = p /\ typed' = Tail(typed) /\ shown' = shown \o (b \o w)
      /\ UNCHANGED <<settings, transport, conn, pc, sent, echo, late, refused>>
  BY <1>2 DEF Asked, Reply, clientVars
<1>4. pc = "login" /\ typed = <<"password">> /\ LoginAt /\ shown = <<>>
  BY <1>2, AskedAt DEF Asked
<1>5. b \in Seq(Plain) /\ b \in Seq(Printed)
  BY TokenTypes, SeqMonotonic DEF PlainBanners
<1>6. \A i \in 1..Len(b) : b[i] \in Plain /\ b[i] # Token(p)
  BY <1>5, PlainKinds, TokenKind DEF Prompts
<1>7. Ending(SSH, Plain, p, b \o w) /\ Ended(p, b \o w) /\ b \o w \in Seq(Printed)
  BY <1>5, <1>6, TokenTypes, ReplyEnds
<1>8. typed' = <<>> /\ shown' = b \o w
  BY <1>3, <1>4, <1>7, ConcatEmptySeq
<1>9. LoginAt'
  BY <1>3, <1>4, <1>7, <1>8 DEF LoginAt, Up, SSH, Doors, Prompts
<1>10. QED
  BY <1>3, <1>4, <1>9, LinksSame DEF Positions

LEMMA RefuseLoginKept == ASSUME IInv, RefuseLogin PROVE Links' /\ Positions'
<1> USE DEF IInv
<1>1. PICK p \in Doors \ Prompts :
        /\ Asked("pass") /\ Reply(p, <<Token("text"), Token(p)>>)
        /\ refused' = (refused \/ Head(typed) = "password")
  BY DEF RefuseLogin
<1>2. /\ at = "pass" /\ at' = p /\ typed' = Tail(typed)
      /\ shown' = shown \o <<Token("text"), Token(p)>>
      /\ UNCHANGED <<settings, transport, conn, pc, sent, echo, late>>
  BY <1>1 DEF Asked, Reply, clientVars
<1>3. pc = "login" /\ typed = <<"password">> /\ LoginAt /\ shown = <<>>
  BY <1>1, AskedAt DEF Asked
<1>4. typed' = <<>> /\ shown' = <<Token("text"), Token(p)>> /\ refused'
  <2>1. typed' = <<>> /\ shown' = <<Token("text"), Token(p)>> /\ Head(typed) = "password"
    BY <1>2, <1>3
  <2>2. refused'
    BY <1>1, <2>1, Zenon
  <2>3. QED
    BY <2>1, <2>2
<1>5. ~SSH
  BY <1>2, <1>3 DEF LoginAt, Prompts
<1>6. Ending(SSH, Plain, p, shown') /\ Ended(p, shown')
  <2>1. Token("text") \in Plain /\ Token("text") # Token(p)
    BY TokenKind DEF Plain, Token, Lines, Doors
  <2>2. QED
    BY <1>4, <1>5, <2>1 DEF Ending, Ended
<1>7. LoginAt'
  BY <1>2, <1>3, <1>4, <1>5, <1>6 DEF LoginAt, SSH, Doors
<1>8. QED
  BY <1>2, <1>3, <1>7, LinksSame DEF Positions

LEMMA EnableKept == ASSUME IInv, Enable PROVE Links' /\ Positions'
<1> USE DEF IInv
<1>1. Asked(">") /\ at = ">" /\ refused' = refused
  BY DEF Enable, Asked
<1>2. pc = "enabling" /\ EnableSent
  BY <1>1, AskedAt
<1>3. shown \in Seq(Printed) /\ Tail(typed) = <<>>
  BY <1>2 DEF EnableSent, TypeOK
<1>4. \A i \in 1..Len(shown) : shown[i] = Token(">")
  BY <1>2 DEF EnableSent, Ending
<1>5. <<Token("text")>> \in Seq(Printed) /\ <<Token("enablePass")>> \in Seq(Printed)
  BY TokenTypes DEF Kinds
<1>6. CASE \E w \in Shows("#") : Reply("#", <<Token("text")>> \o w)
  <2>1. PICK w \in Shows("#") : Reply("#", <<Token("text")>> \o w)
    BY <1>6
  <2>2. /\ at' = "#" /\ typed' = <<>> /\ shown' = shown \o (<<Token("text")>> \o w)
        /\ UNCHANGED <<settings, transport, conn, pc, sent, echo, late>>
    BY <1>3, <2>1 DEF Reply, clientVars
  <2> DEFINE s == shown \o <<Token("text")>>
  <2>3. w \in Seq(Printed)
    BY ShowsPrompt DEF Prompts
  <2>4. shown' = s \o w
    BY <1>3, <1>5, <2>2, <2>3, ConcatAssociative
  <2>5. s \in Seq(Printed)
    BY <1>3, <1>5, Joins
  <2>6. ASSUME NEW i \in 1..Len(s)
        PROVE  s[i] \in {Token("text"), Token(">")} /\ s[i] # Token("#")
    <3>1. i \in 1..Len(shown) + Len(<<Token("text")>>)
      BY <1>3, <1>5, Joins
    <3>2. s[i] = IF i <= Len(shown) THEN shown[i] ELSE <<Token("text")>>[i - Len(shown)]
      BY <1>3, <1>5, <3>1, Joins
    <3>3. s[i] = Token("text") \/ s[i] = Token(">")
      <4>1. Len(shown) \in Nat /\ Len(<<Token("text")>>) = 1
        BY <1>3
      <4>2. CASE i <= Len(shown)
        BY <1>4, <3>2, <4>1, <4>2
      <4>3. CASE ~(i <= Len(shown))
        <5>1. i - Len(shown) = 1
          BY <3>1, <4>1, <4>3
        <5>2. QED
          BY <3>2, <4>3, <5>1
      <4>4. QED
        BY <4>2, <4>3
    <3>4. QED
      BY <3>3, TokenKind
  <2> HIDE DEF s
  <2>7. {Token("text"), Token(">")} \in SUBSET Printed
    BY TokenTypes DEF Kinds, Doors, Prompts
  <2>8. Ending(SSH, {Token("text"), Token(">")}, "#", s \o w) /\ Ended("#", s \o w)
    BY <2>5, <2>6, <2>7, ReplyEnds DEF Prompts
  <2>9. EnableTaken'
    BY <2>2, <2>4, <2>8 DEF EnableTaken, SSH, Up
  <2>10. QED
    BY <1>2, <2>2, <2>9, LinksSame DEF Positions, EnablingAt
<1>7. CASE Reply("enablePass", <<Token("enablePass")>>)
  <2>1. /\ at' = "enablePass" /\ typed' = <<>> /\ shown' = shown \o <<Token("enablePass")>>
        /\ UNCHANGED <<settings, transport, conn, pc, sent, echo, late>>
    BY <1>3, <1>7 DEF Reply, clientVars
  <2>2. /\ shown' \in Seq(Printed) /\ Len(shown') = Len(shown) + Len(<<Token("enablePass")>>)
        /\ \A i \in 1..Len(shown) + Len(<<Token("enablePass")>>) :
             shown'[i] = IF i <= Len(shown) THEN shown[i]
                         ELSE <<Token("enablePass")>>[i - Len(shown)]
    BY <1>3, <1>5, <2>1, Joins
  <2>3. Len(<<Token("enablePass")>>) = 1 /\ Len(shown) \in Nat
    BY <1>3
  <2>4. ASSUME NEW i \in 1..Len(shown')
        PROVE  /\ i <= Len(shown) => shown'[i] = Token(">")
               /\ ~(i <= Len(shown)) => i = Len(shown') /\ shown'[i] = Token("enablePass")
    <3>1. i \in 1..Len(shown) + Len(<<Token("enablePass")>>)
      BY <2>2
    <3>2. shown'[i] = IF i <= Len(shown) THEN shown[i] ELSE <<Token("enablePass")>>[i - Len(shown)]
      BY <2>2, <3>1
    <3>3. ~(i <= Len(shown)) => i - Len(shown) = 1 /\ i = Len(shown')
      BY <2>2, <2>3, <3>1
    <3>4. i <= Len(shown) => i \in 1..Len(shown)
      BY <2>3, <3>1
    <3>5. QED
      BY <1>4, <3>2, <3>3, <3>4
  <2>5. Ended("enablePass", shown')
    <3>1. Len(shown') \in 1..Len(shown') /\ ~(Len(shown') <= Len(shown)) /\ Len(shown') # 0
      <4>1. Len(shown') = Len(shown) + 1
        BY <2>2, <2>3
      <4>2. QED
        BY <2>3, <4>1
    <3>2. QED
      BY <2>2, <2>4, <3>1, Empties DEF Ended
  <2>6. PasswordAsked'
    BY <1>2, <2>1, <2>4, <2>5 DEF PasswordAsked, EnableSent
  <2>7. QED
    BY <1>2, <2>1, <2>6, LinksSame DEF Positions, EnablingAt
<1>8. QED
  BY <1>6, <1>7 DEF Enable

LEMMA EnablePasswordKept == ASSUME IInv, EnablePassword PROVE Links' /\ Positions'
<1> USE DEF IInv
<1>1. PICK w \in Shows("#") : Reply("#", w) /\ UNCHANGED refused
  BY DEF EnablePassword
<1>2. Asked("enablePass") /\ at = "enablePass"
  BY DEF EnablePassword, Asked
<1>3. pc = "enabling" /\ PasswordSent
  BY <1>2, AskedAt
<1>4. /\ w \in Seq(Printed) /\ w # <<>> /\ Len(w) \in 1..2 /\ (SSH => Len(w) = 1)
      /\ \A i \in 1..Len(w) : w[i] = Token("#")
  BY ShowsPrompt DEF Prompts
<1>5. /\ at' = "#" /\ typed' = <<>> /\ shown' = w
      /\ UNCHANGED <<settings, transport, conn, pc, sent, echo, late>>
  BY <1>1, <1>3, <1>4, ConcatEmptySeq DEF Reply, clientVars, PasswordSent
<1>6. Ending(SSH, {Token("text"), Token(">")}, "#", w)
  BY <1>4, EndingOnly
<1>7. Ended("#", w)
  BY <1>4 DEF Ended
<1>8. EnableTaken'
  BY <1>5, <1>6, <1>7 DEF EnableTaken, SSH, Up
<1>9. QED
  BY <1>3, <1>5, <1>8, LinksSame DEF Positions, EnablingAt

LEMMA RefuseEnableKept == ASSUME IInv, RefuseEnable PROVE Links' /\ Positions'
<1> USE DEF IInv
<1>1. PICK w \in Shows(">") : Reply(">", <<Token("text")>> \o w)
  BY DEF RefuseEnable
<1>2. /\ Asked("enablePass") /\ at = "enablePass"
      /\ refused' = (refused \/ Head(typed) = "enablePass")
  BY DEF RefuseEnable, Asked
<1>3. pc = "enabling" /\ PasswordSent
  BY <1>2, AskedAt
<1>4. w \in Seq(Printed) /\ \A i \in 1..Len(w) : w[i] = Token(">")
  BY ShowsPrompt DEF Prompts
<1>5. <<Token("text")>> \in Seq(Printed)
  BY TokenTypes DEF Kinds
<1> DEFINE r == <<Token("text")>> \o w
<1>6. /\ r \in Seq(Printed) /\ Len(r) = Len(<<Token("text")>>) + Len(w)
      /\ \A i \in 1..Len(<<Token("text")>>) + Len(w) :
           r[i] = IF i <= Len(<<Token("text")>>) THEN <<Token("text")>>[i]
                  ELSE w[i - Len(<<Token("text")>>)]
  BY <1>4, <1>5, Joins
<1>7. /\ at' = ">" /\ typed' = <<>> /\ shown' = r
      /\ UNCHANGED <<settings, transport, conn, pc, sent, echo, late>>
  BY <1>1, <1>3, <1>6, ConcatEmptySeq DEF Reply, clientVars, PasswordSent
<1> HIDE DEF r
<1>8. ASSUME NEW i \in 1..Len(r) PROVE r[i].kind \in {"text", ">"}
  <2>1. Len(<<Token("text")>>) = 1 /\ Len(w) \in Nat
    BY <1>4
  <2>2. r[i] = IF i <= 1 THEN <<Token("text")>>[i] ELSE w[i - 1]
    BY <1>6, <2>1
  <2>3. i <= 1 => i = 1
    BY <1>6
  <2>4. ~(i <= 1) => i - 1 \in 1..Len(w)
    BY <1>6, <2>1
  <2>5. r[i] = Token("text") \/ r[i] = Token(">")
    BY <1>4, <2>2, <2>3, <2>4
  <2>6. QED
    BY <2>5, TokenKind
<1>9. refused'
  <2>1. Head(typed) = "enablePass"
    BY <1>3 DEF PasswordSent
  <2>2. QED
    BY <1>2, <2>1, Zenon
<1>10. EnableRefused'
  BY <1>7, <1>8, <1>9 DEF EnableRefused
<1>11. QED
  BY <1>3, <1>7, <1>10, LinksSame DEF Positions, EnablingAt

-----------------------------------------------------------------------------
(* The first commands.                                                       *)

LEMMA RestTail ==
  ASSUME NEW s \in Seq(Printed), s # <<>>, Hashes(s) PROVE Hashes(Tail(s)) /\ Tail(s) \in Seq(Printed)
BY HashesTail, Tails

LEMMA EmptyRest == Rest(SSH, <<>>) /\ Hashes(<<>>)
BY DEF Rest, Hashes

LEMMA SettleKept == ASSUME IInv, Settle PROVE Links' /\ Positions'
<1> USE DEF IInv
<1>1. shown \in Seq(Printed)
  BY DEF TypeOK
<1>2. ASSUME NEW p \in {"settle1", "settle2", "settle3"}, DropStray(p)
      PROVE  Links' /\ Positions'
  <2>1. /\ ~SSH /\ pc = p /\ pc' = p /\ shown # <<>> /\ shown' = Tail(shown)
        /\ UNCHANGED <<settings, transport, conn, sent, echo, typed, at, refused, late>>
    BY <1>2 DEF DropStray, Arrived, Take, clientVars, Quietly, SSH
  <2>2. CASE p = "settle3"
    <3>1. DrainingAt
      BY <2>1, <2>2 DEF Positions
    <3>2. DrainingAt'
      BY <1>1, <2>1, <3>1, RestTail DEF DrainingAt, Privileged, SSH
    <3>3. QED
      BY <2>1, <2>2, <3>2, LinksSame DEF Positions
  <2>3. CASE p # "settle3"
    <3>1. SettleAt
      BY <1>2, <2>1, <2>3 DEF Positions
    <3>2. SettleAt'
      BY <1>1, <2>1, <3>1, RestTail DEF SettleAt, Privileged, Rest, SSH
    <3>3. QED
      BY <1>2, <2>1, <2>3, <3>2, LinksSame DEF Positions
  <2>4. QED
    BY <2>2, <2>3
<1>3. ASSUME NEW p, NEW next, Settled(p, next)
      PROVE  /\ pc = p /\ pc' = next /\ (SSH \/ (shown = <<>> /\ (typed = <<>> \/ late)))
             /\ UNCHANGED <<settings, transport, conn, sent, echo, typed, at, refused, late, shown>>
  BY <1>3 DEF Settled, Quietly, Quiet, SSH
<1>4. CASE Settled("settle1", "probe") \/ Settled("settle2", "paging")
  <2>1. /\ pc \in {"settle1", "settle2"} /\ pc' = (IF pc = "settle1" THEN "probe" ELSE "paging")
        /\ (SSH \/ shown = <<>>)
        /\ UNCHANGED <<settings, transport, conn, sent, echo, typed, at, refused, late, shown>>
    BY <1>3, <1>4
  <2>2. SettleAt
    BY <2>1 DEF Positions
  <2>3. SilentAt'
    BY <2>1, <2>2 DEF SettleAt, SilentAt, Privileged, Rest
  <2>4. QED
    BY <2>1, <2>3, LinksSame DEF Positions, Echoing
<1>5. CASE Settled("settle3", "config")
  <2>1. /\ pc = "settle3" /\ pc' = "config" /\ (SSH \/ (shown = <<>> /\ (typed = <<>> \/ late)))
        /\ UNCHANGED <<settings, transport, conn, sent, echo, typed, at, refused, late, shown>>
    BY <1>3, <1>5
  <2>2. DrainingAt
    BY <2>1 DEF Positions
  <2>3. Rest(SSH, shown)
    BY <2>1, <2>2 DEF Rest, DrainingAt
  <2>4. ConfigAt'
    BY <2>1, <2>2, <2>3 DEF DrainingAt, ConfigAt, Privileged, SSH
  <2>5. QED
    BY <2>1, <2>4, LinksSame DEF Positions, Echoing
<1>6. QED
  BY <1>2, <1>4, <1>5 DEF Settle

LEMMA ProbeKept == ASSUME IInv, Probe PROVE Links' /\ Positions'
<1> USE DEF IInv
<1>1. /\ SilentAt /\ pc = "probe" /\ pc' = "probing" /\ typed' = Append(typed, "")
      /\ UNCHANGED <<settings, transport, conn, sent, echo, at, shown, refused, late>>
  BY DEF Probe, WriteLine, Write, Positions
<1>2. typed' = <<"">>
  BY <1>1, Appended DEF SilentAt
<1>3. ProbingAt'
  BY <1>1, <1>2 DEF SilentAt, ProbingAt, Privileged
<1>4. QED
  BY <1>1, <1>3, LinksSame DEF Positions, Echoing

LEMMA LearnPromptKept == ASSUME IInv, LearnPrompt PROVE Links' /\ Positions'
<1> USE DEF IInv
<1>1. /\ ProbingAt /\ pc = "probing" /\ shown # <<>> /\ shown' = Tail(shown)
      /\ pc' = IF Head(shown).kind \in Prompts THEN "settle2" ELSE pc
      /\ UNCHANGED <<settings, transport, conn, sent, echo, typed, at, refused, late>>
  BY DEF LearnPrompt, Arrived, Take, Quietly, Positions
<1>2. /\ shown \in Seq(Printed) /\ typed = <<>> /\ Ending(SSH, {}, "#", shown)
  BY <1>1 DEF ProbingAt, TypeOK
<1>3. Head(shown) = Token("#")
  <2>1. Head(shown) = shown[1] /\ 1 \in 1..Len(shown)
    BY <1>1, <1>2, Tails
  <2>2. QED
    BY <1>2, <2>1 DEF Ending
<1>4. pc' = "settle2"
  BY <1>1, <1>3, TokenKind DEF Prompts
<1>5. Rest(SSH, Tail(shown))
  BY <1>1, <1>2, <1>3, EndingHead DEF Rest, Hashes, Hash
<1>6. SettleAt'
  BY <1>1, <1>2, <1>5 DEF SettleAt, ProbingAt, Privileged, SSH
<1>7. QED
  BY <1>1, <1>4, <1>6, LinksSame DEF Positions, Echoing

LEMMA DisablePagingKept == ASSUME IInv, DisablePaging PROVE Links' /\ Positions'
<1> USE DEF IInv
<1>1. PICK n \in 0..Len(shown) :
        /\ pc = "paging" /\ shown' = SubSeq(shown, n + 1, Len(shown))
        /\ IF OnlyPrompts(n)
           THEN /\ Write(Paging) /\ pc' = "pagingOff"
                /\ UNCHANGED <<settings, transport, conn, sent, echo, dialect, at, refused, late>>
           ELSE Fail
  BY DEF DisablePaging, Execute, Paging
<1>2. SilentAt
  BY <1>1 DEF Positions
<1>3. shown = <<>> /\ n = 0 /\ Len(shown) = 0
  BY <1>2 DEF SilentAt
<1>4. shown' = <<>>
  BY <1>1, <1>3, SubSeqEmpty
<1>5. CASE Fail
  BY <1>5, FailKept
<1>6. CASE /\ Write(Paging) /\ pc' = "pagingOff"
           /\ UNCHANGED <<settings, transport, conn, sent, echo, dialect, at, refused, late>>
  <2>1. typed' = <<Paging>>
    BY <1>2, <1>6 DEF Write, SilentAt
  <2>2. PagingAt'
    BY <1>2, <1>4, <1>6, <2>1 DEF PagingAt, SilentAt, Privileged
  <2>3. QED
    BY <1>1, <1>6, <2>2, LinksSame DEF Positions, Echoing
<1>7. QED
  BY <1>1, <1>5, <1>6

\* What ReadsUpTo takes of an answer.
LEMMA TakesAnswer ==
  ASSUME NEW one, NEW A \in SUBSET Printed, \A a \in A : a.kind = "answer",
         shown \in Seq(Printed), Answered(one, A, shown), NEW p, NEW out, ReadsUpTo(p, out)
  PROVE  /\ pc = p /\ shown # <<>> /\ out = <<shown[1]>> /\ shown[1] \in A
         /\ Rest(one, shown')
<1>1. PICK k \in 1..Len(shown) :
        /\ pc = p /\ shown[k].kind \in Prompts
        /\ \A j \in 1..k-1 : shown[j].kind \notin Prompts
        /\ out = SubSeq(shown, 1, k - 1) /\ shown' = SubSeq(shown, k + 1, Len(shown))
  BY DEF ReadsUpTo
<1>2. \A a \in A : a.kind \notin Prompts
  BY DEF Prompts
<1>3. k = 2 /\ out = <<shown[1]>> /\ shown[1] \in A /\ Rest(one, shown')
  BY <1>1, <1>2, AnsweredHead
<1>4. shown # <<>>
  BY <1>1, Empties
<1>5. QED
  BY <1>1, <1>3, <1>4

LEMMA AnswerFields == \A l, ok : /\ Answer(l, ok).kind = "answer" /\ Answer(l, ok).line = l
                                 /\ Answer(l, ok).ok = ok
BY DEF Answer

LEMMA PagingDisabledKept == ASSUME IInv, PagingDisabled PROVE Links' /\ Positions'
<1> USE DEF IInv
<1> DEFINE A == {Answer(Paging, TRUE), Answer(Paging, FALSE)}
<1>1. PICK out \in Outputs :
        /\ ReadsUpTo("pagingOff", out)
        /\ echo' = CASE transport = "ssh" -> "unknown"
                     [] Echoed(Paging, out) -> "on"
                     [] OTHER -> "off"
        /\ pc' = IF transport = "ssh" THEN "config" ELSE "resync"
        /\ UNCHANGED <<settings, transport, conn, sent, typed, at, refused, late>>
  BY DEF PagingDisabled, Paging, Quietly
<1>2. PagingAt /\ pc = "pagingOff" /\ shown # <<>> /\ shown \in Seq(Printed)
  <2>1. pc = "pagingOff" /\ shown # <<>>
    BY <1>1, Empties DEF ReadsUpTo, TypeOK
  <2>2. QED
    BY <2>1 DEF Positions, TypeOK
<1>3. typed = <<>> /\ Answered(SSH, A, shown) /\ Privileged
  BY <1>2 DEF PagingAt
<1>4. A \in SUBSET Printed /\ \A a \in A : a.kind = "answer" /\ a.line = Paging
  <2>1. Paging \in Lines
    BY DEF Paging, Lines
  <2>2. A \in SUBSET Printed
    BY <2>1, TokenTypes
  <2>3. ASSUME NEW a \in A PROVE a.kind = "answer" /\ a.line = Paging
    BY DEF Answer
  <2>4. QED
    BY <2>2, <2>3
<1> HIDE DEF A
<1>5. out = <<shown[1]>> /\ shown[1] \in A /\ Rest(SSH, shown')
  BY <1>1, <1>2, <1>3, <1>4, TakesAnswer
<1>6. Echoed(Paging, out) <=> transport = "telnetEcho"
  BY <1>4, <1>5 DEF Echoed
<1>7. EchoKnown'
  BY <1>1, <1>6 DEF EchoKnown, SSH
<1>8. pc' = (IF SSH THEN "config" ELSE "resync")
  BY <1>1 DEF SSH
<1>9. Links'
  BY <1>1, <1>7, <1>8 DEF Links, SSH, Echoing
<1>10. CASE SSH
  <2>1. shown' = <<>> /\ ~late
    BY <1>5, <1>10 DEF Rest, Links
  <2>2. ConfigAt'
    BY <1>1, <1>3, <1>5, <2>1 DEF ConfigAt, Privileged, SSH
  <2>3. QED
    BY <1>8, <1>9, <1>10, <2>2 DEF Positions
<1>11. CASE ~SSH
  <2>1. ResyncAt'
    BY <1>1, <1>3, <1>5, <1>11 DEF ResyncAt, Privileged, SSH, Rest
  <2>2. QED
    BY <1>8, <1>9, <1>11, <2>1 DEF Positions
<1>12. QED
  BY <1>10, <1>11

LEMMA ResyncKept == ASSUME IInv, Resync PROVE Links' /\ Positions'
<1> USE DEF IInv
<1>1. /\ ResyncAt /\ pc = "resync" /\ pc' = "resyncing" /\ typed' = Append(typed, "")
      /\ UNCHANGED <<settings, transport, conn, sent, echo, at, shown, refused, late>>
  BY DEF Resync, WriteLine, Write, Positions
<1>2. typed' = <<"">>
  BY <1>1, Appended DEF ResyncAt
<1>3. ResyncingAt'
  BY <1>1, <1>2, Appended DEF ResyncAt, ResyncingAt, DrainingAt, Privileged, SSH
<1>4. QED
  BY <1>1, <1>3, LinksSame DEF Positions, Echoing

LEMMA ResyncedKept == ASSUME IInv, Resynced PROVE Links' /\ Positions'
<1> USE DEF IInv
<1>1. PICK out \in Outputs :
        /\ ReadsUpTo("resyncing", out) /\ pc' = "settle3"
        /\ UNCHANGED <<settings, transport, conn, sent, echo, typed, at, refused, late>>
  BY DEF Resynced, Quietly
<1>2. PICK k \in 1..Len(shown) : pc = "resyncing" /\ shown' = SubSeq(shown, k + 1, Len(shown))
  BY <1>1 DEF ReadsUpTo
<1>3. ResyncingAt /\ shown \in Seq(Printed)
  BY <1>2 DEF Positions, TypeOK
<1>4. k \in 0..Len(shown)
  BY <1>3
<1>5. Hashes(shown')
  BY <1>2, <1>3, <1>4, HashesPart DEF ResyncingAt, DrainingAt
<1>6. DrainingAt'
  BY <1>1, <1>3, <1>5 DEF ResyncingAt, DrainingAt, Privileged, SSH
<1>7. QED
  BY <1>1, <1>2, <1>6, LinksSame DEF Positions, Echoing

LEMMA ReadConfigKept == ASSUME IInv, ReadConfig PROVE Links' /\ Positions'
<1> USE DEF IInv
<1>1. PICK n \in 0..Len(shown) :
        /\ pc = "config" /\ shown' = SubSeq(shown, n + 1, Len(shown))
        /\ IF OnlyPrompts(n)
           THEN /\ Write(Show) /\ pc' = "configuring"
                /\ UNCHANGED <<settings, transport, conn, sent, echo, dialect, at, refused, late>>
           ELSE Fail
  BY DEF ReadConfig, Execute, Show
<1>2. ConfigAt /\ shown \in Seq(Printed)
  BY <1>1 DEF Positions, TypeOK
<1>3. CASE Fail
  BY <1>3, FailKept
<1>4. CASE /\ Write(Show) /\ pc' = "configuring"
           /\ UNCHANGED <<settings, transport, conn, sent, echo, dialect, at, refused, late>>
  <2>1. typed' = Append(typed, Show) /\ typed \in {<<>>, <<"">>}
    BY <1>2, <1>4 DEF Write, ConfigAt
  <2>2. typed' \in {<<Show>>, <<"", Show>>} /\ (typed = <<>> => typed' = <<Show>>)
    BY <2>1, Appended
  <2>3. Hashes(shown')
    BY <1>1, <1>2, HashesPart DEF ConfigAt, Rest
  <2>4. typed' # <<>>
    BY <2>2, Appended
  <2>5. CASE late
    <3>1. AnswerLate'
      BY <1>4, <2>2, <2>3, <2>4, <2>5 DEF AnswerLate, Behind, Hashes
    <3>2. QED
      BY <1>1, <1>2, <1>4, <3>1, LinksSame DEF Positions, Echoing, ConfiguringAt, ConfigAt, Privileged
  <2>6. CASE ~late
    <3>1. shown = <<>> /\ n = 0 /\ Len(shown) = 0 /\ typed = <<>>
      BY <1>2, <2>6 DEF ConfigAt
    <3>2. shown' = <<>>
      BY <1>1, <3>1, SubSeqEmpty
    <3>3. AnswerInTime'
      BY <1>4, <2>2, <2>6, <3>1, <3>2 DEF AnswerInTime
    <3>4. QED
      BY <1>1, <1>2, <1>4, <3>3, LinksSame DEF Positions, Echoing, ConfiguringAt, ConfigAt, Privileged
  <2>7. QED
    BY <2>5, <2>6
<1>5. QED
  BY <1>1, <1>3, <1>4

\* A late switch that echoes is found out by its echo.
LEMMA DetectDialectKept == ASSUME IInv, DetectDialect PROVE Links' /\ Positions'
<1> USE DEF IInv
<1>1. PICK out \in Outputs :
        /\ ReadsUpTo("configuring", out) /\ (echo = "on" => Echoed(Show, out))
        /\ dialect' = out /\ pc' = "ready"
        /\ UNCHANGED <<settings, transport, conn, sent, echo, typed, at, refused, late>>
  BY DEF DetectDialect, Show, Quietly
<1>2. PICK k \in 1..Len(shown) :
        /\ pc = "configuring" /\ shown[k].kind \in Prompts
        /\ \A j \in 1..k-1 : shown[j].kind \notin Prompts
        /\ out = SubSeq(shown, 1, k - 1) /\ shown' = SubSeq(shown, k + 1, Len(shown))
  BY <1>1 DEF ReadsUpTo
<1>3. ConfiguringAt /\ shown \in Seq(Printed) /\ shown # <<>>
  <2>1. shown \in Seq(Printed)
    BY DEF TypeOK
  <2>2. shown # <<>>
    BY <1>2, <2>1, Empties
  <2>3. QED
    BY <1>2, <2>1, <2>2 DEF Positions
<1>4. Links'
  BY <1>1, <1>2, LinksSame DEF Echoing
<1>5. CASE AnswerInTime
  <2>1. typed = <<>> /\ Answered(SSH, {Answer(Show, TRUE)}, shown) /\ ~late
    BY <1>3, <1>5 DEF AnswerInTime
  <2>2. {Answer(Show, TRUE)} \in SUBSET Printed
    BY TokenTypes DEF Show, Lines
  <2>3. \A a \in {Answer(Show, TRUE)} : a.kind = "answer"
    BY DEF Answer
  <2>4. out = <<Answer(Show, TRUE)>> /\ Rest(SSH, shown')
    BY <1>1, <1>3, <2>1, <2>2, <2>3, TakesAnswer
  <2>5. ReadyAt'
    BY <1>1, <1>3, <2>1, <2>4 DEF ReadyAt, ConfiguringAt, Privileged, DialectFromConfig, SSH, Show
  <2>6. QED
    BY <1>1, <1>4, <2>5 DEF Positions
<1>6. CASE AnswerLate
  <2>1. ASSUME transport = "telnetEcho" PROVE out = <<Answer(Show, TRUE)>>
    <3>1. echo = "on"
      BY <1>2, <2>1 DEF Links, Echoing, EchoKnown, SSH
    <3>2. out # <<>>
      BY <1>1, <3>1 DEF Echoed
    <3>3. Len(shown) \in Nat /\ k \in Nat /\ k <= Len(shown) /\ k >= 1
      BY <1>3
    <3>4. k # 1
      <4>1. k = 1 => out = SubSeq(shown, 1, 0)
        BY <1>2
      <4>2. SubSeq(shown, 1, 0) = <<>>
        BY SubSeqEmpty
      <4>3. QED
        BY <3>2, <4>1, <4>2
    <3>5. \A j \in 1..k-1 : shown[j] = Answer(Show, TRUE)
      <4>1. \A j \in 1..k-1 : j \in 1..Len(shown) /\ shown[j].kind \notin Prompts
        BY <1>2, <3>3
      <4>2. Hash.kind \in Prompts
        BY TokenKind DEF Hash, Prompts
      <4>3. QED
        BY <1>6, <4>1, <4>2 DEF AnswerLate
    <3>6. ~(k > 2)
      <4>1. ASSUME k > 2 PROVE FALSE
        <5>1. 1 \in 1..k-1 /\ 2 \in 1..k-1 /\ 1 \in 1..Len(shown) /\ 2 \in 1..Len(shown)
          BY <3>3, <4>1
        <5>2. shown[1] = Answer(Show, TRUE) /\ shown[2] = Answer(Show, TRUE)
          BY <3>5, <5>1
        <5>3. Answer(Show, TRUE) # Hash
          <6>1. Answer(Show, TRUE).kind # Hash.kind
            BY DEF Answer, Hash, Token
          <6>2. QED
            BY <6>1
        <5>4. \A i, j \in 1..Len(shown) : i < j /\ shown[i] # Hash => shown[j] = Hash
          BY <1>6 DEF AnswerLate
        <5>5. QED
          <6>1. shown[1] # Hash
            BY <5>2, <5>3
          <6>2. shown[2] = Hash
            BY <5>1, <5>4, <6>1
          <6>3. QED
            BY <5>2, <5>3, <6>2
      <4>2. QED
        BY <4>1
    <3>7. k = 2
      BY <3>3, <3>4, <3>6
    <3>8. out = <<shown[1]>>
      BY <1>2, <1>3, <3>3, <3>7, First
    <3>9. 1 \in 1..k-1
      BY <3>7
    <3>10. QED
      BY <3>5, <3>8, <3>9
  <2>2. Behind /\ late
    BY <1>6 DEF AnswerLate
  <2>3. ReadyAt'
    BY <1>1, <1>3, <2>1, <2>2 DEF ReadyAt, ConfiguringAt, Privileged, Behind, DialectFromConfig, Show
  <2>4. QED
    BY <1>1, <1>4, <2>3 DEF Positions
<1>7. QED
  BY <1>3, <1>5, <1>6 DEF ConfiguringAt

LEMMA FailuresKept ==
  ASSUME IInv,
         NoEnablePassword \/ PagingRefused \/ ConfigOutOfSync \/ Timeout \/ Disconnected
  PROVE  Links' /\ Positions'
<1>1. Fail
  BY DEF NoEnablePassword, PagingRefused, ConfigOutOfSync, Timeout, Disconnected
<1>2. QED
  BY <1>1, FailKept DEF IInv

-----------------------------------------------------------------------------
(* Commands at the prompt.                                                   *)

LEMMA RunLineIs ==
  ASSUME IInv, RunLine
  PROVE  \E ok \in BOOLEAN, w \in Seq(Printed) :
           /\ at = "#" /\ at' = at /\ typed # <<>> /\ conn = "up" /\ typed' = Tail(typed)
           /\ UNCHANGED <<settings, transport, conn, clientVars, late, refused>>
           /\ w # <<>> /\ Hashes(w) /\ (SSH => Len(w) = 1)
           /\ Head(typed) \notin {"", Paging} => ok = TRUE
           /\ Head(typed) = "" => shown' = shown \o w
           /\ Head(typed) # "" => shown' = shown \o (<<Answer(Head(typed), ok)>> \o w)
<1> USE DEF IInv
<1>1. PICK p \in Prompts, ok \in BOOLEAN : \E w \in Shows(p) :
        /\ Asked(p) /\ UNCHANGED refused /\ ~(p = ">" /\ Head(typed) = "enable")
        /\ CASE Head(typed) = "" -> ok
             [] Head(typed) = "skip-page-display" -> TRUE
             [] OTHER -> ok = (p = "#")
        /\ Reply(p, (IF Head(typed) = "" THEN <<>> ELSE <<Answer(Head(typed), ok)>>) \o w)
  BY DEF RunLine
<1>2. PICK w \in Shows(p) :
        /\ Asked(p) /\ UNCHANGED refused /\ ~(p = ">" /\ Head(typed) = "enable")
        /\ CASE Head(typed) = "" -> ok
             [] Head(typed) = "skip-page-display" -> TRUE
             [] OTHER -> ok = (p = "#")
        /\ Reply(p, (IF Head(typed) = "" THEN <<>> ELSE <<Answer(Head(typed), ok)>>) \o w)
  BY <1>1
<1>3. Asked(at) /\ at = p /\ conn = "up" /\ typed # <<>>
  BY <1>2 DEF Asked
<1>4. p = "#"
  <2>1. EnableSent => Head(typed) = "enable"
    BY DEF EnableSent
  <2>2. QED
    BY <1>2, <1>3, <2>1, AskedAt DEF Prompts
<1>5. /\ w \in Seq(Printed) /\ w # <<>> /\ Hashes(w) /\ (SSH => Len(w) = 1)
  BY <1>4, ShowsPrompt DEF Hashes, Hash
<1>6. Head(typed) \notin {"", Paging} => ok = TRUE
  BY <1>2, <1>4 DEF Paging
<1>7. /\ at' = at /\ typed' = Tail(typed)
      /\ UNCHANGED <<settings, transport, conn, clientVars, late, refused>>
  BY <1>2, <1>3 DEF Reply
<1>8. Head(typed) = "" => shown' = shown \o w
  <2>1. Head(typed) = "" => shown' = shown \o (<<>> \o w)
    BY <1>2 DEF Reply
  <2>2. <<>> \o w = w
    BY <1>5, ConcatEmptySeq
  <2>3. QED
    BY <2>1, <2>2
<1>9. Head(typed) # "" => shown' = shown \o (<<Answer(Head(typed), ok)>> \o w)
  BY <1>2 DEF Reply
<1>10. QED
  BY <1>3, <1>4, <1>5, <1>6, <1>7, <1>8, <1>9

\* An answer and the prompt after it.
LEMMA AnswersIs ==
  ASSUME NEW a \in Printed, NEW A, a \in A, NEW one, NEW w \in Seq(Printed), w # <<>>, Hashes(w),
         one => Len(w) = 1
  PROVE  /\ <<a>> \o w \in Seq(Printed) /\ <<a>> \o w # <<>> /\ Answered(one, A, <<a>> \o w)
         /\ (<<a>> \o w)[1] = a
         /\ \A i \in 1..Len(<<a>> \o w) : i # 1 => (<<a>> \o w)[i] = Hash
<1> DEFINE r == <<a>> \o w
<1>1. <<a>> \in Seq(Printed) /\ Len(<<a>>) = 1 /\ <<a>>[1] = a /\ Len(w) \in Nat
  OBVIOUS
<1>2. /\ r \in Seq(Printed) /\ Len(r) = 1 + Len(w)
      /\ \A i \in 1..1 + Len(w) : r[i] = IF i <= 1 THEN <<a>>[i] ELSE w[i - 1]
  BY <1>1, Joins
<1> HIDE DEF r
<1>3. r # <<>>
  BY <1>1, <1>2, Empties
<1>4. r[1] = a
  BY <1>1, <1>2
<1>5. ASSUME NEW i \in 1..Len(r), i # 1 PROVE r[i] = Hash
  <2>1. i \in 1..1 + Len(w) /\ ~(i <= 1) /\ i - 1 \in 1..Len(w)
    BY <1>1, <1>2, <1>5
  <2>2. r[i] = w[i - 1]
    BY <1>2, <2>1
  <2>3. QED
    BY <2>1, <2>2 DEF Hashes
<1>6. ASSUME one PROVE Len(r) <= 2
  <2>1. Len(w) = 1
    BY <1>6
  <2>2. QED
    BY <1>2, <2>1
<1>7. Answered(one, A, r)
  BY <1>4, <1>5, <1>6 DEF Answered
<1>8. QED
  BY <1>2, <1>3, <1>4, <1>5, <1>7 DEF r

LEMMA RunLineKept == ASSUME IInv, RunLine PROVE Links' /\ Positions'
<1> USE DEF IInv
<1>1. PICK ok \in BOOLEAN, w \in Seq(Printed) :
        /\ at = "#" /\ at' = at /\ typed # <<>> /\ conn = "up" /\ typed' = Tail(typed)
        /\ UNCHANGED <<settings, transport, conn, clientVars, late, refused>>
        /\ w # <<>> /\ Hashes(w) /\ (SSH => Len(w) = 1)
        /\ Head(typed) \notin {"", Paging} => ok = TRUE
        /\ Head(typed) = "" => shown' = shown \o w
        /\ Head(typed) # "" => shown' = shown \o (<<Answer(Head(typed), ok)>> \o w)
  BY RunLineIs
<1>2. /\ pc' = pc /\ sent' = sent /\ echo' = echo /\ dialect' = dialect
      /\ UNCHANGED <<settings, transport, conn, late, refused>> /\ SSH' = SSH
  BY <1>1 DEF clientVars, SSH
<1>3. shown \in Seq(Printed) /\ Asked(at) /\ Privileged /\ Privileged'
  BY <1>1 DEF TypeOK, Asked, Privileged
<1>4. pc # "failed" /\ Links'
  BY <1>2, <1>3, AskedAt, LinksSame
<1>5. pc \notin {"login", "enable", "enabling"}
  <2>1. pc = "login" => FALSE
    BY <1>1 DEF Positions, LoginAt
  <2>2. pc = "enable" => FALSE
    BY <1>1 DEF Positions, EnableAt
  <2>3. pc = "enabling" => FALSE
    BY <1>1 DEF Positions, EnablingAt, EnableSent, PasswordAsked, PasswordSent, EnableRefused, EnableTaken
  <2>4. QED
    BY <2>1, <2>2, <2>3
<1>6. pc \notin {"settle1", "settle2", "probe", "paging", "resync"}
  BY <1>1 DEF Positions, SettleAt, SilentAt, ResyncAt
<1>7. ASSUME typed = <<"">>, Hashes(shown)
      PROVE  /\ typed' = <<>> /\ shown' = shown \o w /\ shown' # <<>> /\ Hashes(shown')
             /\ shown' \in Seq(Printed)
  <2>1. typed' = <<>> /\ shown' = shown \o w
    BY <1>1, <1>7, Literals
  <2>2. shown' \in Seq(Printed) /\ Hashes(shown')
    BY <1>3, <1>1, <1>7, <2>1, HashesJoin, Joins
  <2>3. shown' # <<>>
    <3>1. Len(shown') = Len(shown) + Len(w)
      BY <1>1, <1>3, <2>1, Joins
    <3>2. Len(w) # 0 /\ Len(w) \in Nat /\ Len(shown) \in Nat
      <4>1. w \in Seq(Printed) /\ w # <<>> /\ shown \in Seq(Printed)
        BY <1>1, <1>3
      <4>2. Len(w) # 0
        BY <4>1, Empties
      <4>3. QED
        BY <4>1, <4>2
    <3>3. Len(shown') # 0
      BY <3>1, <3>2
    <3>4. QED
      BY <3>3, <2>2, Empties
  <2>4. QED
    BY <2>1, <2>2, <2>3
<1>8. CASE pc = "probing"
  <2>1. typed = <<"">> /\ shown = <<>>
    BY <1>1, <1>8 DEF Positions, ProbingAt
  <2>2. Hashes(shown)
    BY <2>1, EmptyRest
  <2>3. shown' = w
    BY <1>7, <2>1, <2>2, ConcatEmptySeq
  <2>4. Ending(SSH, {}, "#", w)
    BY <1>1, EndingOnly DEF Hashes, Hash
  <2>5. ProbingAt'
    BY <1>1, <1>2, <1>3, <1>7, <2>1, <2>2, <2>3, <2>4 DEF ProbingAt
  <2>6. QED
    BY <1>2, <1>4, <1>8, <2>5 DEF Positions
<1>9. CASE pc = "pagingOff"
  <2>1. typed = <<Paging>> /\ shown = <<>>
    BY <1>1, <1>9 DEF Positions, PagingAt
  <2>2. Head(typed) = Paging /\ Paging # "" /\ Paging \in Lines
    BY <2>1, Literals DEF Paging, Lines
  <2>3. typed' = <<>>
    BY <1>1, <2>1, Literals
  <2> DEFINE a == Answer(Paging, ok)
  <2>4. a \in Printed /\ a \in {Answer(Paging, TRUE), Answer(Paging, FALSE)}
    BY <2>2, TokenTypes
  <2>5. shown' = shown \o (<<a>> \o w)
    BY <1>1, <2>2
  <2> HIDE DEF a
  <2>6. /\ <<a>> \o w \in Seq(Printed) /\ <<a>> \o w # <<>>
        /\ Answered(SSH, {Answer(Paging, TRUE), Answer(Paging, FALSE)}, <<a>> \o w)
    BY <1>1, <2>4, AnswersIs
  <2>7. shown' = <<a>> \o w
    BY <2>1, <2>5, <2>6, ConcatEmptySeq
  <2>8. PagingAt'
    BY <1>2, <1>3, <2>3, <2>6, <2>7 DEF PagingAt
  <2>9. QED
    BY <1>2, <1>4, <1>9, <2>8 DEF Positions
<1>10. CASE pc \in {"resyncing", "settle3"}
  <2>1. DrainingAt
    BY <1>10 DEF Positions, ResyncingAt
  <2>2. typed = <<"">> /\ Hashes(shown)
    BY <1>1, <2>1 DEF DrainingAt
  <2>3. ResyncingAt' /\ DrainingAt'
    BY <1>2, <1>3, <1>7, <2>1, <2>2 DEF DrainingAt, ResyncingAt
  <2>4. QED
    BY <1>2, <1>4, <1>10, <2>3 DEF Positions
<1>11. CASE pc = "config"
  <2>1. ConfigAt
    BY <1>11 DEF Positions
  <2>2. typed = <<"">> /\ Hashes(shown) /\ late /\ ~SSH
    BY <1>1, <2>1 DEF ConfigAt, Rest, Links
  <2>3. ConfigAt'
    BY <1>2, <1>3, <1>7, <2>2 DEF ConfigAt, Rest
  <2>4. QED
    BY <1>2, <1>4, <1>11, <2>3 DEF Positions
<1>12. CASE pc = "configuring"
  <2>1. ConfiguringAt
    BY <1>12 DEF Positions
  <2>2. Show # "" /\ Show # Paging /\ Show \in Lines
    BY DEF Show, Paging, Lines
  <2> DEFINE a == Answer(Show, TRUE)
  <2>3. a \in Printed
    BY <2>2, TokenTypes
  <2>4. Head(typed) = Show => shown' = shown \o (<<a>> \o w)
    BY <1>1, <2>2
  <2> HIDE DEF a
  <2>5. /\ <<a>> \o w \in Seq(Printed) /\ <<a>> \o w # <<>> /\ Answered(SSH, {a}, <<a>> \o w)
        /\ (<<a>> \o w)[1] = a
        /\ \A i \in 1..Len(<<a>> \o w) : i # 1 => (<<a>> \o w)[i] = Hash
    BY <1>1, <2>3, AnswersIs
  <2>6. CASE AnswerInTime
    <3>1. typed = <<Show>> /\ shown = <<>> /\ ~late
      BY <1>1, <2>6 DEF AnswerInTime
    <3>2. typed' = <<>> /\ Head(typed) = Show
      BY <1>1, <3>1, Literals
    <3>3. shown' = <<a>> \o w
      BY <2>4, <2>5, <3>1, <3>2, ConcatEmptySeq
    <3>4. AnswerInTime'
      BY <1>2, <2>5, <3>1, <3>2, <3>3 DEF AnswerInTime, a
    <3>5. QED
      BY <1>2, <1>3, <1>4, <1>12, <3>4 DEF Positions, ConfiguringAt
  <2>7. CASE AnswerLate
    <3>1. typed \in {<<Show>>, <<"", Show>>} /\ Hashes(shown) /\ late
      BY <1>1, <2>7 DEF AnswerLate, Behind
    <3>2. CASE typed = <<"", Show>>
      <4>1. typed' = <<Show>> /\ Head(typed) = "" /\ typed' # <<>>
        <5>1. Head(<<"", Show>>) = "" /\ Tail(<<"", Show>>) = <<Show>> /\ <<Show>> # <<>>
          BY Literals, Appended
        <5>2. QED
          BY <1>1, <3>2, <5>1
      <4>2. Hashes(shown')
        BY <1>1, <1>3, <3>1, <4>1, HashesJoin
      <4>3. AnswerLate'
        BY <1>2, <3>1, <4>1, <4>2 DEF AnswerLate, Behind, Hashes
      <4>4. QED
        BY <1>2, <1>3, <1>4, <1>12, <4>3 DEF Positions, ConfiguringAt
    <3>3. CASE typed = <<Show>>
      <4>1. typed' = <<>> /\ Head(typed) = Show
        BY <1>1, <3>3, Literals
      <4> DEFINE r == <<a>> \o w
      <4>2. shown' = shown \o r
        BY <2>4, <4>1
      <4>3. /\ shown' # <<>> /\ Len(shown') = Len(shown) + Len(r)
            /\ \A i \in 1..Len(shown) + Len(r) :
                 shown'[i] = IF i <= Len(shown) THEN shown[i] ELSE r[i - Len(shown)]
        <5>1. /\ shown' \in Seq(Printed) /\ Len(shown') = Len(shown) + Len(r)
              /\ \A i \in 1..Len(shown) + Len(r) :
                   shown'[i] = IF i <= Len(shown) THEN shown[i] ELSE r[i - Len(shown)]
          BY <1>3, <2>5, <4>2, Joins
        <5>2. Len(r) # 0 /\ Len(r) \in Nat /\ Len(shown) \in Nat
          BY <1>3, <2>5, Empties
        <5>3. Len(shown') # 0
          BY <5>1, <5>2
        <5>4. QED
          BY <5>1, <5>3, Empties
      <4>4. Len(shown) \in Nat /\ Len(r) \in Nat
        BY <1>3, <2>5
      <4>5. /\ r[1] = a
            /\ \A i \in 1..Len(r) : i # 1 => r[i] = Hash
        BY <2>5
      <4> HIDE DEF r
      <4>6. ASSUME NEW i \in 1..Len(shown')
            PROVE  /\ i # Len(shown) + 1 => shown'[i] = Hash
                   /\ i = Len(shown) + 1 => shown'[i] = a
        <5>1. i \in 1..Len(shown) + Len(r)
          BY <4>3
        <5>2. CASE i <= Len(shown)
          <6>1. i \in 1..Len(shown) /\ shown'[i] = shown[i]
            BY <4>3, <4>4, <5>1, <5>2
          <6>2. shown'[i] = Hash
            BY <3>1, <6>1 DEF Hashes
          <6>3. i # Len(shown) + 1
            BY <4>4, <5>1, <5>2
          <6>4. QED
            BY <6>2, <6>3
        <5>3. CASE ~(i <= Len(shown))
          <6>1. i - Len(shown) \in 1..Len(r) /\ shown'[i] = r[i - Len(shown)]
            BY <4>3, <4>4, <5>1, <5>3
          <6>2. i # Len(shown) + 1 => i - Len(shown) # 1
            BY <4>4, <5>1
          <6>3. i = Len(shown) + 1 => i - Len(shown) = 1
            BY <4>4, <5>1
          <6>4. QED
            BY <4>5, <6>1, <6>2, <6>3
        <5>4. QED
          BY <5>2, <5>3, Zenon
      <4>7. ASSUME NEW i \in 1..Len(shown'), NEW j \in 1..Len(shown'), i < j, shown'[i] # Hash
            PROVE  shown'[j] = Hash
        <5>1. i = Len(shown) + 1
          BY <4>6, <4>7
        <5>2. j # Len(shown) + 1
          BY <4>4, <4>7, <5>1
        <5>3. QED
          BY <4>6, <5>2
      <4>8. AnswerLate'
        BY <1>2, <3>1, <4>1, <4>3, <4>6, <4>7 DEF AnswerLate, Behind, a
      <4>9. QED
        BY <1>2, <1>3, <1>4, <1>12, <4>8 DEF Positions, ConfiguringAt
    <3>4. QED
      BY <3>1, <3>2, <3>3
  <2>8. QED
    BY <2>1, <2>6, <2>7 DEF ConfiguringAt
<1>13. CASE pc = "ready"
  <2>1. ReadyAt
    BY <1>13 DEF Positions
  <2>2. late /\ typed \in {<<Show>>, <<"", Show>>}
    BY <1>1, <2>1 DEF ReadyAt, Behind
  <2>3. typed' \in {<<>>, <<Show>>}
    BY <1>1, <2>2, Literals
  <2>4. ReadyAt'
    BY <1>2, <1>3, <2>1, <2>2, <2>3 DEF ReadyAt, Behind, DialectFromConfig
  <2>5. QED
    BY <1>2, <1>4, <1>13, <2>4 DEF Positions
<1>14. QED
  BY <1>4, <1>5, <1>6, <1>8, <1>9, <1>10, <1>11, <1>12, <1>13
     DEF TypeOK, Reading, Writing, Draining, Over

-----------------------------------------------------------------------------
(* A connection that breaks loses a part of what was printed.                *)

LEMMA AnsweredPart ==
  ASSUME NEW one, NEW A, NEW s \in Seq(Printed), NEW n \in 0..Len(s), Answered(one, A, s)
  PROVE  Answered(one, A, SubSeq(s, 1, n))
<1>1. Len(SubSeq(s, 1, n)) = n /\ \A i \in 1..n : SubSeq(s, 1, n)[i] = s[i]
  BY Parts
<1>2. n \in Nat /\ Len(s) \in Nat /\ n <= Len(s) /\ 1..n \subseteq 1..Len(s)
  OBVIOUS
<1>3. one => n <= 2
  BY <1>2 DEF Answered
<1>4. QED
  BY <1>1, <1>2, <1>3 DEF Answered

LEMMA NetworkFailsKept == ASSUME IInv, NetworkFails PROVE Links' /\ Positions'
<1> USE DEF IInv
<1>1. /\ pc' = pc /\ pc \notin Over /\ conn' = "cut" /\ sent' = sent /\ echo' = echo
      /\ UNCHANGED <<settings, transport, at, typed, refused, late>>
  BY DEF NetworkFails, clientVars
<1>2. PICK n \in 0..Len(shown) : shown' = SubSeq(shown, 1, n)
  BY DEF NetworkFails
<1>3. shown \in Seq(Printed) /\ SSH' = SSH /\ ~Up' /\ (Privileged <=> Privileged')
  BY <1>1 DEF TypeOK, SSH, Up, Privileged
<1>4. /\ shown' \in Seq(Printed) /\ Len(shown') = n /\ n \in Nat /\ n <= Len(shown)
      /\ Len(shown) \in Nat /\ \A i \in 1..n : i \in 1..Len(shown) /\ shown'[i] = shown[i]
  BY <1>2, <1>3, Parts
<1>5. shown = <<>> => shown' = <<>>
  <2>1. shown = <<>> => Len(shown) = 0
    BY <1>3, Empties
  <2>2. n = 0 => shown' = <<>>
    BY <1>4, Empties
  <2>3. QED
    BY <1>4, <2>1, <2>2
<1>6. \A one, S, p : Ending(one, S, p, shown) => Ending(one, S, p, shown')
  BY <1>2, <1>3, EndingPart
<1>7. Hashes(shown) => Hashes(shown')
  BY <1>2, <1>3, HashesPart
<1>8. \A one, A : Answered(one, A, shown) => Answered(one, A, shown')
  BY <1>2, <1>3, AnsweredPart
<1>9. pc # "failed" /\ pc # "ready" /\ Links'
  BY <1>1, LinksSame DEF Over
<1>10. CASE pc = "login"
  <2>1. LoginAt
    BY <1>10 DEF Positions
  <2>2. LoginAt'
    BY <1>1, <1>3, <1>5, <1>6, <2>1 DEF LoginAt
  <2>3. QED
    BY <1>1, <1>9, <1>10, <2>2 DEF Positions
<1>11. CASE pc = "enable"
  <2>1. EnableAt
    BY <1>11 DEF Positions
  <2>2. EnableAt'
    BY <1>1, <1>3, <1>6, <2>1 DEF EnableAt
  <2>3. QED
    BY <1>1, <1>9, <1>11, <2>2 DEF Positions
<1>12. CASE pc = "enabling"
  <2>1. EnablingAt
    BY <1>12 DEF Positions
  <2>2. EnableSent => EnableSent'
    BY <1>1, <1>3, <1>6 DEF EnableSent
  <2>3. ASSUME PasswordAsked PROVE PasswordAsked' \/ EnableSent'
    <3>1. ASSUME NEW i \in 1..n
          PROVE shown'[i] = Token(">") \/ (i = Len(shown') /\ shown'[i] = Token("enablePass"))
      <4>1. i \in 1..Len(shown) /\ shown'[i] = shown[i]
        BY <1>4
      <4>2. shown[i] = Token(">") \/ (i = Len(shown) /\ shown[i] = Token("enablePass"))
        BY <2>3, <4>1 DEF PasswordAsked
      <4>3. i = Len(shown) => i = Len(shown')
        BY <1>4
      <4>4. QED
        BY <4>1, <4>2, <4>3
    <3>2. QED
      BY <1>1, <1>3, <1>4, <2>3, <3>1 DEF PasswordAsked
  <2>4. PasswordSent => PasswordSent'
    BY <1>1, <1>5 DEF PasswordSent
  <2>5. EnableRefused => EnableRefused'
    BY <1>1, <1>4 DEF EnableRefused
  <2>6. EnableTaken => EnableTaken'
    BY <1>1, <1>3, <1>6 DEF EnableTaken
  <2>7. EnablingAt'
    BY <2>1, <2>2, <2>3, <2>4, <2>5, <2>6 DEF EnablingAt
  <2>8. QED
    BY <1>1, <1>9, <1>12, <2>7 DEF Positions
<1>13. CASE pc \in {"settle1", "settle2"}
  <2>1. SettleAt
    BY <1>13 DEF Positions
  <2>2. SettleAt'
    BY <1>1, <1>3, <1>5, <1>7, <2>1 DEF SettleAt, Rest
  <2>3. QED
    BY <1>1, <1>9, <1>13, <2>2 DEF Positions
<1>14. CASE pc \in {"probe", "paging"}
  <2>1. SilentAt
    BY <1>14 DEF Positions
  <2>2. SilentAt'
    BY <1>1, <1>3, <1>5, <2>1 DEF SilentAt
  <2>3. QED
    BY <1>1, <1>9, <1>14, <2>2 DEF Positions
<1>15. CASE pc = "probing"
  <2>1. ProbingAt
    BY <1>15 DEF Positions
  <2>2. ProbingAt'
    BY <1>1, <1>3, <1>5, <1>6, <2>1 DEF ProbingAt
  <2>3. QED
    BY <1>1, <1>9, <1>15, <2>2 DEF Positions
<1>16. CASE pc = "pagingOff"
  <2>1. PagingAt
    BY <1>16 DEF Positions
  <2>2. PagingAt'
    BY <1>1, <1>3, <1>5, <1>8, <2>1 DEF PagingAt
  <2>3. QED
    BY <1>1, <1>9, <1>16, <2>2 DEF Positions
<1>17. CASE pc \in {"resync", "resyncing", "settle3"}
  <2>1. /\ pc = "resync" => ResyncAt
        /\ pc = "resyncing" => ResyncingAt
        /\ pc = "settle3" => DrainingAt
    BY DEF Positions
  <2>2. /\ pc = "resync" => ResyncAt'
        /\ pc \in {"resyncing", "settle3"} => DrainingAt'
    BY <1>1, <1>3, <1>7, <2>1 DEF ResyncAt, ResyncingAt, DrainingAt
  <2>3. pc = "resyncing" => ResyncingAt'
    BY <1>3, <2>2 DEF ResyncingAt
  <2>4. QED
    BY <1>1, <1>9, <1>17, <2>2, <2>3 DEF Positions
<1>18. CASE pc = "config"
  <2>1. ConfigAt
    BY <1>18 DEF Positions
  <2>2. ConfigAt'
    BY <1>1, <1>3, <1>5, <1>7, <2>1 DEF ConfigAt, Rest
  <2>3. QED
    BY <1>1, <1>9, <1>18, <2>2 DEF Positions
<1>19. CASE pc = "configuring"
  <2>1. ConfiguringAt
    BY <1>19 DEF Positions
  <2>2. AnswerInTime => AnswerInTime'
    BY <1>1, <1>3, <1>5, <1>8 DEF AnswerInTime
  <2>3. ASSUME AnswerLate PROVE AnswerLate'
    <3>1. \A i \in 1..n : shown'[i] \in {Hash, Answer(Show, TRUE)}
      BY <1>4, <2>3 DEF AnswerLate
    <3>2. \A i, j \in 1..n : i < j /\ shown'[i] # Hash => shown'[j] = Hash
      BY <1>4, <2>3 DEF AnswerLate
    <3>3. QED
      BY <1>1, <1>3, <1>4, <1>7, <2>3, <3>1, <3>2 DEF AnswerLate, Behind
  <2>4. ConfiguringAt'
    BY <1>3, <2>1, <2>2, <2>3 DEF ConfiguringAt
  <2>5. QED
    BY <1>1, <1>9, <1>19, <2>4 DEF Positions
<1>20. QED
  BY <1>9, <1>10, <1>11, <1>12, <1>13, <1>14, <1>15, <1>16, <1>17, <1>18, <1>19
     DEF TypeOK, Reading, Writing, Draining, Over

-----------------------------------------------------------------------------
(* The invariant.                                                            *)

LEMMA InitKept == ASSUME PlainBanners, Init PROVE IInv
<1>1. PICK b \in Seq(Plain), w \in Seq(Printed) :
        /\ shown = b \o w /\ b \in Seq(Printed)
        /\ IF at \in Prompts THEN w \in Shows(at) ELSE w = <<Token(at)>>
  BY InitShown
<1>2. /\ pc = "login" /\ sent = {} /\ typed = <<>> /\ conn = "up" /\ echo = "unknown"
      /\ (transport = "ssh") <=> (settings.transport = "ssh")
  BY DEF Init
<1>7. at \in Doors /\ (SSH => at \in Prompts) /\ (SSH => ~late)
  <2>1. SSH => at \in Prompts /\ ~late
    BY DEF Init, SSH
  <2>2. ~SSH => at \in Doors
    BY DEF Init, SSH
  <2>3. QED
    BY <2>1, <2>2 DEF Doors
<1>3. \A i \in 1..Len(b) : b[i] \in Plain /\ b[i] # Token(at)
  BY <1>7, PlainKinds, TokenKind DEF Prompts, Doors
<1>4. Ending(SSH, Plain, at, shown) /\ Ended(at, shown)
  <2>1. CASE at \in Prompts
    BY <1>1, <1>3, <2>1, TokenTypes, ReplyEnds
  <2>2. CASE at \notin Prompts
    <3>1. w = <<Token(at)>> /\ Len(w) = 1 /\ w[1] = Token(at) /\ ~SSH
      BY <1>1, <1>7, <2>2
    <3>2. /\ shown \in Seq(Printed) /\ Len(shown) = Len(b) + 1 /\ Len(b) \in Nat
          /\ \A i \in 1..Len(b) + 1 : shown[i] = IF i <= Len(b) THEN b[i] ELSE w[i - Len(b)]
      BY <1>1, <3>1, Joins
    <3>3. ASSUME NEW i \in 1..Len(shown)
          PROVE IF i <= Len(b) THEN shown[i] \in Plain /\ shown[i] # Token(at)
                ELSE i = Len(shown) /\ shown[i] = Token(at)
      <4>1. CASE i <= Len(b)
        BY <1>3, <3>2, <4>1
      <4>2. CASE ~(i <= Len(b))
        <5>1. i = Len(b) + 1 /\ i - Len(b) = 1
          BY <3>2, <4>2
        <5>2. QED
          BY <3>1, <3>2, <4>2, <5>1
      <4>3. QED
        BY <4>1, <4>2
    <3>4. Len(shown) \in 1..Len(shown) /\ ~(Len(shown) <= Len(b)) /\ Len(shown) # 0
      BY <3>2
    <3>5. Ended(at, shown)
      BY <3>2, <3>3, <3>4, Empties DEF Ended
    <3>6. ASSUME NEW i \in 1..Len(shown), NEW j \in 1..Len(shown), i < j, shown[i] = Token(at)
          PROVE FALSE
      <4>1. i = Len(shown)
        BY <3>3, <3>6
      <4>2. QED
        BY <3>2, <3>6, <4>1
    <3>7. QED
      BY <3>1, <3>3, <3>5, <3>6 DEF Ending
  <2>3. QED
    BY <2>1, <2>2
<1>5. LoginAt
  BY <1>2, <1>4, <1>7 DEF LoginAt
<1>6. QED
  BY <1>2, <1>5, <1>7, InitTypes DEF IInv, Links, Positions, Echoing

LEMMA StepKept == ASSUME PlainBanners, IInv, [Next]_vars PROVE IInv'
<1> USE DEF IInv
<1>1. CASE Client
  <2>1. TypeOK'
    BY <1>1, ClientTypes
  <2>2. Links' /\ Positions'
    BY <1>1, ReadBannerKept, AnswerLoginKept, ReachPromptKept, WriteEnableKept, ReadEnableKept,
       SettleKept, ProbeKept, LearnPromptKept, DisablePagingKept, PagingDisabledKept,
       ResyncKept, ResyncedKept, ReadConfigKept, DetectDialectKept, FailuresKept DEF Client
  <2>3. QED
    BY <2>1, <2>2
<1>2. CASE Switch
  <2>1. TypeOK'
    BY <1>2, SwitchTypes
  <2>2. Links' /\ Positions'
    BY <1>2, AskPasswordKept, LoginKept, RefuseLoginKept, EnableKept, EnablePasswordKept,
       RefuseEnableKept, RunLineKept, NetworkFailsKept DEF Switch
  <2>3. QED
    BY <2>1, <2>2
<1>3. CASE UNCHANGED vars
  <2>1. TypeOK'
    BY <1>3 DEF vars, clientVars, TypeOK
  <2>2. Links'
    BY <1>3 DEF vars, clientVars, Links, SSH, EchoKnown
  <2>3. Positions'
    <3>1. /\ pc' = pc /\ conn' = conn /\ typed' = typed /\ shown' = shown /\ at' = at
          /\ sent' = sent /\ late' = late /\ refused' = refused /\ transport' = transport
          /\ dialect' = dialect
      BY <1>3 DEF vars, clientVars
    <3>2. (LoginAt => LoginAt') /\ (EnableAt => EnableAt') /\ (SettleAt => SettleAt')
      BY <3>1 DEF LoginAt, EnableAt, SettleAt, SSH, Up, Privileged
    <3>3. EnablingAt => EnablingAt'
      BY <3>1 DEF EnablingAt, EnableSent, PasswordAsked, PasswordSent, EnableRefused,
         EnableTaken, SSH, Up
    <3>4. (SilentAt => SilentAt') /\ (ProbingAt => ProbingAt') /\ (PagingAt => PagingAt')
      BY <3>1 DEF SilentAt, ProbingAt, PagingAt, SSH, Up, Privileged
    <3>5. /\ ResyncAt => ResyncAt'
          /\ ResyncingAt => ResyncingAt'
          /\ DrainingAt => DrainingAt'
          /\ ConfigAt => ConfigAt'
      BY <3>1 DEF ResyncAt, ResyncingAt, DrainingAt, ConfigAt, SSH, Up, Privileged
    <3>6. (AnswerLate => AnswerLate') /\ (AnswerInTime => AnswerInTime')
      BY <3>1 DEF AnswerLate, AnswerInTime, Behind, SSH, Up
    <3>7. (ConfiguringAt => ConfiguringAt') /\ (ReadyAt => ReadyAt')
      BY <3>1, <3>6 DEF ConfiguringAt, ReadyAt, Behind, DialectFromConfig, SSH, Privileged
    <3>8. QED
      BY <3>1, <3>2, <3>3, <3>4, <3>5, <3>7 DEF Positions
  <2>4. QED
    BY <2>1, <2>2, <2>3
<1>4. QED
  BY <1>1, <1>2, <1>3 DEF Next

\* In every place of the client both directions carry what Positions says: start-up
\* never loses count of its prompts (NewClient, Configure).
THEOREM StartAligned == ASSUME PlainBanners PROVE Spec => []IInv
<1>1. Init => IInv
  BY InitKept
<1>2. IInv /\ [Next]_vars => IInv'
  BY StepKept
<1>3. QED
  BY <1>1, <1>2, PTL DEF Spec

-----------------------------------------------------------------------------
(* What start-up promises, when no banner line looks like a CLI prompt.       *)

LEMMA ReadyIfAligned == ASSUME IInv PROVE ReadyForCalls
<1>1. ASSUME pc = "ready", ~late PROVE OnlyPrompts(Len(shown)) /\ (SSH => shown = <<>>)
  <2>1. Hashes(shown) /\ (SSH => shown = <<>>)
    BY <1>1 DEF IInv, Positions, ReadyAt, Rest
  <2>2. Hash.kind \in Prompts
    BY TokenKind DEF Hash, Prompts
  <2>3. QED
    BY <2>1, <2>2 DEF Hashes, OnlyPrompts
<1>2. ASSUME pc = "ready" PROVE at = "#" /\ EchoKnown /\ (~late => typed = <<>>)
  BY <1>2 DEF IInv, Positions, Links, ReadyAt, Privileged, Echoing
<1>3. QED
  BY <1>1, <1>2 DEF ReadyForCalls, EchoKnown, SSH

LEMMA DialectIfAligned == ASSUME IInv PROVE DialectFromConfig
BY DEF IInv, Positions, ReadyAt, DialectFromConfig

LEMMA WaitsIfAligned == ASSUME IInv PROVE WaitsOnlyIfRefused
<1>1. ASSUME pc \in Reading, conn = "up", shown = <<>>, typed = <<>> PROVE refused
  <2>1. ~Ended(at, shown) /\ ~Ended("enablePass", shown) /\ ~Ended("#", shown) /\ Up
    BY <1>1 DEF Ended, Up
  <2>2. /\ <<"username">> # <<>> /\ <<"password">> # <<>> /\ <<"enable">> # <<>>
        /\ <<"enablePass">> # <<>> /\ <<Paging>> # <<>> /\ <<Show>> # <<>>
    BY Appended
  <2>3. pc = "login" => refused
    BY <1>1, <2>1, <2>2 DEF IInv, Positions, LoginAt
  <2>4. pc = "enabling" => refused
    BY <1>1, <2>1, <2>2 DEF IInv, Positions, EnablingAt, EnableSent, PasswordAsked, PasswordSent,
       EnableRefused, EnableTaken
  <2>5. pc \notin {"probing", "pagingOff"}
    BY <1>1, <2>1, <2>2, Appended DEF IInv, Positions, ProbingAt, PagingAt
  <2>6. pc \notin {"resyncing", "configuring"}
    BY <1>1, <2>1, <2>2 DEF IInv, Positions, ResyncingAt, ConfiguringAt, AnswerLate, AnswerInTime
  <2>7. QED
    BY <1>1, <2>3, <2>4, <2>5, <2>6 DEF Reading
<1>2. QED
  BY <1>1 DEF WaitsOnlyIfRefused

LEMMA PasswordStep ==
  ASSUME IInv, [Next]_vars, typed # <<>>, typed' = Tail(typed),
         Head(typed) \in {"password", "enablePass"}
  PROVE  at = IF Head(typed) = "password" THEN "pass" ELSE "enablePass"
<1>1. pc # "failed"
  <2>1. ASSUME pc = "failed" PROVE FALSE
    <3>1. conn = "closed"
      BY <2>1 DEF IInv, Positions
    <3>2. ~Switch
      BY <3>1 DEF Switch, AskPassword, Login, RefuseLogin, Enable, EnablePassword, RefuseEnable,
         RunLine, NetworkFails, Asked
    <3>3. ~Client
      BY <2>1 DEF Client, ReadBanner, AnswerLogin, ReachPrompt, NoEnablePassword, Arrived,
         WriteEnable, ReadEnable, WriteLine, Settle, DropStray, Settled, Probe, LearnPrompt,
         DisablePaging, Execute, PagingDisabled, PagingRefused, Resync, Resynced, ReadConfig,
         DetectDialect, ConfigOutOfSync, ReadsUpTo, Timeout, Disconnected, Reading, Writing,
         Draining
    <3>4. typed' = typed
      BY <3>2, <3>3 DEF Next, vars
    <3>5. typed \in Seq(Lines)
      BY DEF IInv, TypeOK
    <3>6. Len(Tail(typed)) = Len(typed) - 1 /\ Len(typed) \in Nat
      BY <3>5, Tails
    <3>7. QED
      BY <3>4, <3>6
  <2>2. QED
    BY <2>1
<1>2. \A l, m : Head(<<l>>) = l /\ Head(<<l, m>>) = l
  BY Literals
<1>3. pc = "login" => at = "pass" /\ Head(typed) = "password"
  BY <1>1, <1>2 DEF IInv, Positions, LoginAt
<1>4. pc = "enabling" => at = "enablePass" /\ Head(typed) = "enablePass"
  BY <1>1, <1>2 DEF IInv, Positions, EnablingAt, EnableSent, PasswordAsked, PasswordSent,
     EnableRefused, EnableTaken
<1>5. typed \notin {<<"">>, <<Paging>>, <<Show>>, <<"", Show>>}
  <2>1. \A l \in {"", Paging, Show} : l \notin {"password", "enablePass"}
    BY DEF Paging, Show
  <2>2. \A l \in {"", Paging, Show} : typed # <<l>>
    BY <1>1, <1>2, <2>1
  <2>3. typed # <<"", Show>>
    BY <1>1, <1>2, <2>1
  <2>4. QED
    BY <2>2, <2>3
<1>6. pc \notin {"enable", "settle1", "settle2", "probe", "paging", "probing", "pagingOff"}
  BY <1>1, <1>5 DEF IInv, Positions, EnableAt, SettleAt, SilentAt, ProbingAt, PagingAt
<1>7. pc \notin {"resync", "resyncing", "settle3", "config"}
  BY <1>1, <1>5 DEF IInv, Positions, ResyncAt, ResyncingAt, DrainingAt, ConfigAt
<1>8. pc \notin {"configuring", "ready"}
  <2>1. typed # <<>> /\ typed # <<Show>> /\ typed # <<"", Show>>
    BY <1>1, <1>5
  <2>2. ~AnswerLate /\ ~AnswerInTime /\ ~Behind
    BY <2>1 DEF AnswerLate, AnswerInTime, Behind
  <2>3. ~ConfiguringAt /\ ~ReadyAt
    BY <2>1, <2>2 DEF ConfiguringAt, ReadyAt
  <2>4. QED
    BY <1>1, <2>3 DEF IInv, Positions
<1>9. QED
  BY <1>1, <1>3, <1>4, <1>6, <1>7, <1>8 DEF IInv, TypeOK, Reading, Writing, Draining, Over
=============================================================================
