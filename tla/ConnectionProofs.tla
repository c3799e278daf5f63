-------------------------- MODULE ConnectionProofs --------------------------
(***************************************************************************)
(* What start-up promises holds of a whole connection: the calls that      *)
(* follow it, and what becomes of the connection under them, take none of  *)
(* it away.  And the telnet layer below hands up the data the switch meant *)
(* and hands down what the session wrote, whatever a telnet switch says.   *)
(***************************************************************************)
EXTENDS MCTelnet, SequencesExt, SequenceTheorems, WellFoundedInduction, TLAPS

Proofs == INSTANCE SessionStartProofs

\* No line of a banner ends as a CLI prompt does.
PlainBanners == Banners \subseteq Seq(Proofs!Plain)

-----------------------------------------------------------------------------
(* SessionStart, as Connection and as its proofs see it.                     *)

LEMMA SamePlain == ASSUME PlainBanners PROVE Proofs!PlainBanners
<1>1. Start!Setting = Proofs!Setting
  BY DEF Start!Setting, Proofs!Setting, Start!Value, Proofs!Value
<1>2. QED
  BY <1>1, ConnectionAssumption DEF PlainBanners, Proofs!PlainBanners

LEMMA SameInit == Start!Init <=> Proofs!Init
BY SMT DEF Start!Init, Start!Resolves, Start!Prompts, Start!Doors, Start!Token, Start!Shows,
       Proofs!Init, Proofs!Resolves, Proofs!Prompts, Proofs!Doors, Proofs!Token, Proofs!Shows

LEMMA SameNext == Start!Next <=> Proofs!Next
BY Zenon DEF Start!Next, Start!Client, Start!Switch, Start!ReadBanner, Start!AnswerLogin,
       Start!ReachPrompt, Start!NoEnablePassword, Start!WriteEnable, Start!ReadEnable,
       Start!Settle, Start!Probe, Start!LearnPrompt, Start!DisablePaging, Start!PagingDisabled,
       Start!PagingRefused, Start!Resync, Start!Resynced, Start!ReadConfig,
       Start!DetectDialect, Start!ConfigOutOfSync, Start!Timeout, Start!Disconnected,
       Start!AskPassword, Start!Login, Start!RefuseLogin, Start!Enable, Start!EnablePassword,
       Start!RefuseEnable, Start!RunLine, Start!NetworkFails, Start!Prompts, Start!Doors,
       Start!Token, Start!Answer, Start!Shows, Start!Fail, Start!Write, Start!Quietly,
       Start!Arrived, Start!Take, Start!CLIPrompt, Start!Credential, Start!Answerable,
       Start!MayEnable, Start!WriteLine, Start!Quiet, Start!DropStray, Start!Settled,
       Start!Pending, Start!OnlyPrompts, Start!Execute, Start!ReadsUpTo, Start!Outputs,
       Start!Echoed, Start!Failed, Start!Reading, Start!Writing, Start!Draining, Start!Over,
       Start!Reply, Start!Asked, Start!clientVars, Proofs!Next, Proofs!Client, Proofs!Switch,
       Proofs!ReadBanner, Proofs!AnswerLogin, Proofs!ReachPrompt, Proofs!NoEnablePassword,
       Proofs!WriteEnable, Proofs!ReadEnable, Proofs!Settle, Proofs!Probe, Proofs!LearnPrompt,
       Proofs!DisablePaging, Proofs!PagingDisabled, Proofs!PagingRefused, Proofs!Resync,
       Proofs!Resynced, Proofs!ReadConfig, Proofs!DetectDialect, Proofs!ConfigOutOfSync,
       Proofs!Timeout, Proofs!Disconnected, Proofs!AskPassword, Proofs!Login,
       Proofs!RefuseLogin, Proofs!Enable, Proofs!EnablePassword, Proofs!RefuseEnable,
       Proofs!RunLine, Proofs!NetworkFails, Proofs!Prompts, Proofs!Doors, Proofs!Token,
       Proofs!Answer, Proofs!Shows, Proofs!Fail, Proofs!Write, Proofs!Quietly, Proofs!Arrived,
       Proofs!Take, Proofs!CLIPrompt, Proofs!Credential, Proofs!Answerable, Proofs!MayEnable,
       Proofs!WriteLine, Proofs!Quiet, Proofs!DropStray, Proofs!Settled, Proofs!Pending,
       Proofs!OnlyPrompts, Proofs!Execute, Proofs!ReadsUpTo, Proofs!Outputs, Proofs!Echoed,
       Proofs!Failed, Proofs!Reading, Proofs!Writing, Proofs!Draining, Proofs!Over,
       Proofs!Reply, Proofs!Asked, Proofs!clientVars

-----------------------------------------------------------------------------
(* The calls leave start-up's part of the connection as it is.               *)

LEMMA ServingKeeps ==
  ASSUME Next, conn \in {"up", "cut", "closed"}
  PROVE  transport' = transport /\ conn' \in {"up", "cut", "closed"}
<1>1. ASSUME NEW c \in Callers, NEW result, NEW cause, Fail(c, result, cause)
      PROVE  transport' = transport /\ conn' \in {"up", "cut", "closed"}
  BY <1>1 DEF Fail, Return
<1>2. ASSUME NEW c \in Callers, Step(c)
      PROVE  transport' = transport /\ conn' \in {"up", "cut", "closed"}
  <2>1. Send(c) \/ Read(c) => transport' = transport /\ conn' = conn
    BY DEF Send, Read, clientVars
  <2>2. Finish(c) => transport' = transport /\ conn' \in {"closed", conn}
    BY DEF Finish, Return
  <2>3. Refuse(c) \/ FailLost(c) \/ DrainFindsOutput(c) \/ WriteFails(c) =>
          \E result, cause : Fail(c, result, cause)
    BY DEF Refuse, FailLost, DrainFindsOutput, WriteFails
  <2>4. ReadRejection(c) \/ ReadOutOfSync(c) \/ Timeout(c) \/ ReadFails(c) =>
          \E result, cause : Fail(c, result, cause)
    BY DEF ReadRejection, ReadOutOfSync, Timeout, ReadFails
  <2>5. QED
    BY <1>1, <1>2, <2>1, <2>2, <2>3, <2>4 DEF Step
<1>3. ASSUME NEW c \in Callers, Acquire(c) \/ \E k \in Calls : Request(c, k)
      PROVE  transport' = transport /\ conn' = conn
  BY <1>3 DEF Acquire, Request, clientVars, wireVars
<1>4. Execute => transport' = transport /\ conn' \in {"cut", conn}
  BY DEF Execute, Run, clientVars
<1>5. Stray \/ NetworkFails \/ HangUp => transport' = transport /\ conn' \in {"cut", conn}
  BY DEF Stray, NetworkFails, HangUp, clientVars
<1>6. QED
  BY <1>2, <1>3, <1>4, <1>5 DEF Next, Client, Switch

LEMMA ServingKept == ASSUME Proofs!IInv, Serving PROVE Proofs!IInv'
<1>1. /\ pc = "ready" /\ ~late
      /\ UNCHANGED <<settings, pc, sent, echo, dialect, at, typed, shown, refused, late>>
  BY DEF Serving, startVars
<1>2. transport' = transport /\ conn' \in {"up", "cut", "closed"}
  BY ServingKeeps DEF Serving, Proofs!IInv, Proofs!TypeOK
<1>3. Proofs!TypeOK'
  BY <1>1, <1>2 DEF Proofs!IInv, Proofs!TypeOK
<1>4. Proofs!Links'
  BY <1>1, <1>2 DEF Proofs!IInv, Proofs!Links, Proofs!SSH, Proofs!EchoKnown
<1>5. Proofs!ReadyAt
  BY <1>1 DEF Proofs!IInv, Proofs!Positions
<1>6. Proofs!ReadyAt'
  BY <1>1, <1>2, <1>5 DEF Proofs!ReadyAt, Proofs!Privileged, Proofs!DialectFromConfig,
     Proofs!Behind, Proofs!SSH
<1>7. QED
  BY <1>1, <1>3, <1>4, <1>6 DEF Proofs!IInv, Proofs!Positions

LEMMA ConnectionKept ==
  ASSUME PlainBanners, Proofs!IInv, [ConnectionNext]_<<vars, startVars>>
  PROVE  Proofs!IInv' /\ ([Proofs!Next]_Proofs!vars \/ Serving)
<1>1. CASE Starting
  BY <1>1, SamePlain, SameNext, Proofs!StepKept DEF Starting
<1>2. CASE Serving
  BY <1>2, ServingKept
<1>3. CASE UNCHANGED <<vars, startVars>>
  <2>1. UNCHANGED Proofs!vars
    BY <1>3 DEF vars, clientVars, wireVars, startVars, Proofs!vars, Proofs!clientVars
  <2>2. QED
    BY <2>1, SamePlain, Proofs!StepKept
<1>4. QED
  BY <1>1, <1>2, <1>3 DEF ConnectionNext

LEMMA ConnectionAligned == ASSUME PlainBanners PROVE ConnectionSpec => []Proofs!IInv
<1>1. ConnectionInit => Proofs!IInv
  BY SamePlain, SameInit, Proofs!InitKept DEF ConnectionInit
<1>2. Proofs!IInv /\ [ConnectionNext]_<<vars, startVars>> => Proofs!IInv'
  BY ConnectionKept
<1>3. QED
  BY <1>1, <1>2, PTL DEF ConnectionSpec

-----------------------------------------------------------------------------
(* What start-up promises, when no banner line looks like a CLI prompt.      *)

\* A session that Configure hands out is privileged, knows whether the switch
\* echoes and, unless the switch is slow, has nothing under way: for any settings,
\* and however often a telnet switch repeats its prompts.
THEOREM StartReady == ASSUME PlainBanners PROVE ConnectionSpec => []ReadyForCalls
<1>1. Proofs!IInv => ReadyForCalls
  <2>1. ReadyForCalls <=> Proofs!ReadyForCalls
    BY Zenon DEF ReadyForCalls, Start!ReadyForCalls, Proofs!ReadyForCalls,
       Start!OnlyPrompts, Proofs!OnlyPrompts, Start!Prompts, Proofs!Prompts
  <2>2. QED
    BY <2>1, Proofs!ReadyIfAligned
<1>2. QED
  BY <1>1, ConnectionAligned, PTL

\* The dialect of every resource's lines was detected from the running
\* configuration, also by a slow switch that echoes (Configure).
THEOREM StartDialect == ASSUME PlainBanners PROVE ConnectionSpec => []DialectFromConfig
<1>1. Proofs!IInv => DialectFromConfig
  <2>1. DialectFromConfig <=> Proofs!DialectFromConfig
    BY Zenon DEF DialectFromConfig, Start!DialectFromConfig, Proofs!DialectFromConfig,
       Start!Answer, Proofs!Answer
  <2>2. QED
    BY <2>1, Proofs!DialectIfAligned
<1>2. QED
  BY <1>1, ConnectionAligned, PTL

\* No deadline is met by the client and the switch waiting for each other, but
\* after a refused password (readUntilPromptInitial, enterEnableMode).
THEOREM StartWaits == ASSUME PlainBanners PROVE ConnectionSpec => []WaitsOnlyIfRefused
<1>1. Proofs!IInv => WaitsOnlyIfRefused
  <2>1. WaitsOnlyIfRefused <=> Proofs!WaitsOnlyIfRefused
    BY Zenon DEF WaitsOnlyIfRefused, Start!WaitsOnlyIfRefused, Proofs!WaitsOnlyIfRefused,
       Start!Reading, Proofs!Reading
  <2>2. QED
    BY <2>1, Proofs!WaitsIfAligned
<1>2. QED
  BY <1>1, ConnectionAligned, PTL

\* A password is a line for the prompt that asked for it and for no other
\* (readUntilPromptInitial, enterEnableMode).
THEOREM StartPasswords == ASSUME PlainBanners PROVE ConnectionSpec => PasswordAtItsPrompt
<1>1. ASSUME PlainBanners, Proofs!IInv, [ConnectionNext]_<<vars, startVars>>,
             typed # <<>>, typed' = Tail(typed), Head(typed) \in {"password", "enablePass"}
      PROVE  at = IF Head(typed) = "password" THEN "pass" ELSE "enablePass"
  <2>1. CASE [Proofs!Next]_Proofs!vars
    BY <1>1, <2>1, Proofs!PasswordStep
  <2>2. CASE Serving
    <3>1. pc = "ready" /\ ~late
      BY <2>2 DEF Serving
    <3>2. typed = <<>>
      BY <1>1, <3>1 DEF Proofs!IInv, Proofs!Positions, Proofs!ReadyAt
    <3>3. QED
      BY <1>1, <3>2
  <2>3. QED
    BY <1>1, <2>1, <2>2, ConnectionKept
<1>2. PlainBanners /\ Proofs!IInv /\ [ConnectionNext]_<<vars, startVars>> =>
        [typed # <<>> /\ typed' = Tail(typed) =>
           (Head(typed) \in {"password", "enablePass"} =>
              at = IF Head(typed) = "password" THEN "pass" ELSE "enablePass")]_Start!vars
  BY <1>1
<1>3. QED
  BY <1>2, ConnectionAligned, PTL
     DEF ConnectionSpec, PasswordAtItsPrompt, Start!PasswordAtItsPrompt

-----------------------------------------------------------------------------
(* Lists, joined.                                                            *)

\* A nonempty set of naturals has a least element.
LEMMA LeastOf ==
  ASSUME NEW T \in SUBSET Nat, T # {}
  PROVE  \E m \in T : \A k \in T : m <= k
<1>1. \E m \in T : \A k \in T : <<k, m>> \notin OpToRel(<, Nat)
  BY WFMin, NatLessThanWellFounded, Zenon
<1>2. PICK m \in T : \A k \in T : <<k, m>> \notin OpToRel(<, Nat)
  BY <1>1
<1>3. \A k \in T : ~(k < m)
  BY <1>2 DEF OpToRel
<1>4. QED
  BY <1>3

LEMMA Flattened ==
  ASSUME NEW T, NEW ss \in Seq(Seq(T)), ss # <<>>
  PROVE  \E f \in [1..Len(ss) -> Seq(T)] :
           /\ \A i \in 1..Len(ss) : f[i] = IF i = 1 THEN ss[i] ELSE f[i - 1] \o ss[i]
           /\ FlattenSeq(ss) = f[Len(ss)]
<1> DEFINE n == Len(ss)
           step(f, i) == IF i = 1 THEN ss[i] ELSE f[i - 1] \o ss[i]
           good(f, k) == f = [i \in 1..k |-> step(f, i)]
           flatten == CHOOSE f : good(f, n)
<1>1. n \in Nat \ {0} /\ \A i \in 1..n : ss[i] \in Seq(T)
  OBVIOUS
<1>2. \A k \in 1..n : \E f : good(f, k)
  <2> DEFINE bad == {k \in 1..n : ~\E f : good(f, k)}
  <2>1. SUFFICES ASSUME bad # {} PROVE FALSE
    OBVIOUS
  <2>2. bad \in SUBSET Nat
    <3>1. 1..n \subseteq Nat
      BY <1>1
    <3>2. QED
      BY <3>1, Zenon
  <2>3. PICK k \in bad : \A j \in bad : k <= j
    BY <2>1, <2>2, LeastOf
  <2>4. k \in 1..n /\ ~\E f : good(f, k)
    OBVIOUS
  <2>5. CASE k = 1
    <3> DEFINE g == [i \in 1..1 |-> ss[i]]
    <3>1. good(g, 1)
      OBVIOUS
    <3>2. QED
      BY <2>4, <2>5, <3>1
  <2>6. CASE k # 1
    <3>1. k - 1 \in 1..n /\ ~(k <= k - 1)
      BY <1>1, <2>4, <2>6
    <3>2. k - 1 \notin bad
      BY <2>3, <3>1
    <3>3. PICK f : good(f, k - 1)
      BY <3>1, <3>2
    <3> DEFINE g == [i \in 1..k |-> IF i < k THEN f[i] ELSE step(f, i)]
    <3>4. \A i \in 1..(k - 1) : f[i] = step(f, i)
      BY <3>3, Zenon
    <3>5. \A i \in 1..k : i < k => i \in 1..(k - 1)
      BY <2>4
    <3>6. \A i \in 1..k : i # 1 => i - 1 \in 1..k /\ i - 1 < k
      BY <2>4
    <3>7. \A i \in 1..k : i # 1 => g[i - 1] = f[i - 1]
      BY <3>6
    <3>8. \A i \in 1..k : step(g, i) = step(f, i)
      BY <3>7
    <3>9. \A i \in 1..k : g[i] = step(f, i)
      BY <3>4, <3>5
    <3>10. good(g, k)
      BY <3>8, <3>9, ZenonT(40)
    <3>11. QED
      BY <2>4, <3>10
  <2>7. QED
    BY <2>5, <2>6
<1>3. good(flatten, n)
  <2>1. n \in 1..n
    BY <1>1
  <2>2. \E f : good(f, n)
    BY <1>2, <2>1
  <2>3. QED
    BY <2>2, Zenon
<1>4. FlattenSeq(ss) = flatten[n]
  BY <1>1 DEF FlattenSeq
<1> HIDE DEF flatten
<1>5. \A i \in 1..n : flatten[i] = step(flatten, i)
  BY <1>3, Zenon
<1>6. \A i \in 1..n : flatten[i] \in Seq(T)
  <2> DEFINE bad == {k \in 1..n : flatten[k] \notin Seq(T)}
  <2>1. SUFFICES ASSUME bad # {} PROVE FALSE
    OBVIOUS
  <2>2. bad \in SUBSET Nat
    BY <1>1
  <2>3. PICK k \in bad : \A j \in bad : k <= j
    BY <2>1, <2>2, LeastOf
  <2>4. k \in 1..n /\ flatten[k] \notin Seq(T)
    OBVIOUS
  <2>5. CASE k = 1
    BY <1>1, <1>5, <2>4, <2>5
  <2>6. CASE k # 1
    <3>1. k - 1 \in 1..n /\ ~(k <= k - 1)
      BY <1>1, <2>4, <2>6
    <3>2. flatten[k - 1] \in Seq(T) /\ ss[k] \in Seq(T)
      BY <1>1, <2>3, <2>4, <3>1
    <3>3. flatten[k] = flatten[k - 1] \o ss[k]
      BY <1>5, <2>4, <2>6
    <3>4. QED
      BY <2>4, <3>2, <3>3
  <2>7. QED
    BY <2>5, <2>6
<1>7. flatten \in [1..n -> Seq(T)]
  BY <1>3, <1>6, Zenon
<1>8. QED
  BY <1>4, <1>5, <1>7, Zenon

\* The first n lists of ss, joined.
Joined(ss, n) == FlattenSeq([i \in 1..n |-> ss[i]])

LEMMA JoinedStep ==
  ASSUME NEW T, NEW ss \in Seq(Seq(T)), NEW n \in 0..(Len(ss) - 1)
  PROVE  Joined(ss, n + 1) = Joined(ss, n) \o ss[n + 1]
<1> DEFINE one(k) == [i \in 1..k |-> ss[i]]
<1>1. Len(ss) \in Nat /\ n \in Nat /\ n + 1 \in Nat /\ n + 1 <= Len(ss)
  OBVIOUS
<1>2. \A i \in 1..Len(ss) : ss[i] \in Seq(T)
  BY <1>1
<1>3. ASSUME NEW k \in Nat, k <= Len(ss), k > 0
      PROVE  /\ one(k) \in Seq(Seq(T)) /\ Len(one(k)) = k /\ one(k) # <<>>
             /\ \A i \in 1..k : one(k)[i] = ss[i]
  <2>1. \A i \in 1..k : ss[i] \in Seq(T)
    BY <1>1, <1>2, <1>3
  <2>2. one(k) \in [1..k -> Seq(T)]
    BY <2>1
  <2>3. one(k) \in Seq(Seq(T)) /\ Len(one(k)) = k
    BY <2>2
  <2>4. \A i \in 1..k : one(k)[i] = ss[i]
    OBVIOUS
  <2> HIDE DEF one
  <2>5. one(k) # <<>>
    BY <1>3, <2>3
  <2>6. QED
    BY <2>3, <2>4, <2>5
<1>4. Joined(ss, n) = FlattenSeq(one(n)) /\ Joined(ss, n + 1) = FlattenSeq(one(n + 1))
  BY DEF Joined
<1>5. CASE n = 0
  <2>1. FlattenSeq(one(0)) = <<>>
    <3>1. one(0) = <<>>
      OBVIOUS
    <3>2. QED
      BY <3>1 DEF FlattenSeq
  <2>2. PICK f \in [1..Len(one(1)) -> Seq(T)] :
          /\ \A i \in 1..Len(one(1)) : f[i] = IF i = 1 THEN one(1)[i] ELSE f[i - 1] \o one(1)[i]
          /\ FlattenSeq(one(1)) = f[Len(one(1))]
    <3>1. one(1) \in Seq(Seq(T)) /\ one(1) # <<>>
      BY <1>1, <1>3, <1>5
    <3> HIDE DEF one
    <3>2. QED
      BY <3>1, Flattened
  <2>3. FlattenSeq(one(1)) = ss[1]
    BY <1>1, <1>3, <1>5, <2>2
  <2>4. ss[1] \in Seq(T)
    BY <1>1, <1>2, <1>5
  <2> HIDE DEF one
  <2>5. FlattenSeq(one(1)) = FlattenSeq(one(0)) \o ss[1]
    BY <2>1, <2>3, <2>4, ConcatEmptySeq
  <2>6. QED
    <3>1. n + 1 = 1
      BY <1>5
    <3>2. QED
      BY <1>5, <1>4, <2>5, <3>1, Zenon
<1>6. CASE n # 0
  <2>1. n > 0 /\ n <= Len(ss)
    BY <1>1, <1>6
  <2>2. PICK f \in [1..n -> Seq(T)] :
          /\ \A i \in 1..n : f[i] = IF i = 1 THEN ss[i] ELSE f[i - 1] \o ss[i]
          /\ FlattenSeq(one(n)) = f[n]
    <3>1. /\ one(n) \in Seq(Seq(T)) /\ Len(one(n)) = n /\ one(n) # <<>>
          /\ \A i \in 1..n : one(n)[i] = ss[i]
      BY <1>1, <1>3, <2>1
    <3> HIDE DEF one
    <3>2. PICK f \in [1..Len(one(n)) -> Seq(T)] :
            /\ \A i \in 1..Len(one(n)) : f[i] = IF i = 1 THEN one(n)[i] ELSE f[i - 1] \o one(n)[i]
            /\ FlattenSeq(one(n)) = f[Len(one(n))]
      BY <3>1, Flattened
    <3>3. QED
      BY <3>1, <3>2
  <2>3. PICK g \in [1..(n + 1) -> Seq(T)] :
          /\ \A i \in 1..(n + 1) : g[i] = IF i = 1 THEN ss[i] ELSE g[i - 1] \o ss[i]
          /\ FlattenSeq(one(n + 1)) = g[n + 1]
    <3> DEFINE m == n + 1
    <3>1. /\ one(m) \in Seq(Seq(T)) /\ Len(one(m)) = m /\ one(m) # <<>>
          /\ \A i \in 1..m : one(m)[i] = ss[i]
      <4>1. m \in Nat /\ m <= Len(ss) /\ m > 0
        BY <1>1
      <4> HIDE DEF m, one
      <4>2. QED
        BY <1>3, <4>1
    <3> HIDE DEF one, m
    <3>2. PICK h \in [1..Len(one(m)) -> Seq(T)] :
            /\ \A i \in 1..Len(one(m)) : h[i] = IF i = 1 THEN one(m)[i] ELSE h[i - 1] \o one(m)[i]
            /\ FlattenSeq(one(m)) = h[Len(one(m))]
      BY <3>1, Flattened
    <3>3. QED
      BY <3>1, <3>2 DEF m
  <2> HIDE DEF one
  <2>4. \A i \in 1..n : f[i] = g[i]
    <3> DEFINE bad == {i \in 1..n : f[i] # g[i]}
    <3>1. SUFFICES ASSUME bad # {} PROVE FALSE
      OBVIOUS
    <3>2. bad \in SUBSET Nat
      BY <1>1
    <3>3. PICK k \in bad : \A j \in bad : k <= j
      BY <3>1, <3>2, LeastOf
    <3>4. k \in 1..n /\ f[k] # g[k]
      OBVIOUS
    <3>5. CASE k = 1
      <4>1. 1 \in 1..n /\ 1 \in 1..(n + 1)
        BY <1>1, <3>4, <3>5
      <4>2. f[1] = ss[1] /\ g[1] = ss[1]
        BY <2>2, <2>3, <4>1
      <4>3. QED
        BY <3>4, <3>5, <4>2
    <3>6. CASE k # 1
      <4>1. k - 1 \in 1..n /\ ~(k <= k - 1)
        BY <1>1, <3>4, <3>6
      <4>2. f[k - 1] = g[k - 1]
        BY <3>3, <4>1
      <4>3. k \in 1..(n + 1)
        BY <1>1, <3>4
      <4>4. f[k] = f[k - 1] \o ss[k] /\ g[k] = g[k - 1] \o ss[k]
        BY <2>2, <2>3, <3>4, <3>6, <4>3
      <4>5. QED
        BY <3>4, <4>2, <4>4
    <3>7. QED
      BY <3>5, <3>6
  <2>5. g[n + 1] = g[n] \o ss[n + 1] /\ f[n] = g[n]
    <3>1. n + 1 \in 1..(n + 1) /\ n + 1 # 1 /\ (n + 1) - 1 = n /\ n \in 1..n
      BY <1>1, <2>1
    <3>2. g[n + 1] = g[(n + 1) - 1] \o ss[n + 1]
      BY <2>3, <3>1
    <3>3. QED
      BY <2>4, <3>1, <3>2
  <2>6. QED
    BY <1>4, <2>2, <2>3, <2>5, Zenon
<1>7. QED
  BY <1>5, <1>6

\* What is joined is a list, and starts with what fewer lists are joined to.
LEMMA JoinedGrows ==
  ASSUME NEW T, NEW ss \in Seq(Seq(T))
  PROVE  /\ Joined(ss, 0) = <<>>
         /\ \A n \in 0..Len(ss) : Joined(ss, n) \in Seq(T)
         /\ \A n, m \in 0..Len(ss) : n <= m =>
              /\ Len(Joined(ss, n)) <= Len(Joined(ss, m))
              /\ \A i \in 1..Len(Joined(ss, n)) : Joined(ss, m)[i] = Joined(ss, n)[i]
<1>1. Joined(ss, 0) = <<>>
  <2>1. [i \in 1..0 |-> ss[i]] = <<>>
    OBVIOUS
  <2>2. QED
    BY <2>1 DEF Joined, FlattenSeq
<1>2. Len(ss) \in Nat /\ \A i \in 1..Len(ss) : ss[i] \in Seq(T)
  OBVIOUS
<1>3. \A n \in 0..(Len(ss) - 1) : Joined(ss, n + 1) = Joined(ss, n) \o ss[n + 1]
  BY JoinedStep
<1>4. ASSUME NEW n \in 0..Len(ss) PROVE Joined(ss, n) \in Seq(T)
  <2> DEFINE bad == {k \in 0..Len(ss) : Joined(ss, k) \notin Seq(T)}
  <2>1. SUFFICES ASSUME bad # {} PROVE FALSE
    OBVIOUS
  <2>2. bad \in SUBSET Nat
    BY <1>2
  <2>3. PICK k \in bad : \A j \in bad : k <= j
    BY <2>1, <2>2, LeastOf
  <2>4. k \in 0..Len(ss) /\ Joined(ss, k) \notin Seq(T) /\ k # 0
    <3>1. k \in 0..Len(ss) /\ Joined(ss, k) \notin Seq(T)
      OBVIOUS
    <3>2. <<>> \in Seq(T)
      OBVIOUS
    <3>3. QED
      BY <1>1, <3>1, <3>2
  <2>5. k - 1 \in 0..(Len(ss) - 1) /\ k - 1 \in 0..Len(ss) /\ ~(k <= k - 1) /\ k \in 1..Len(ss)
    BY <1>2, <2>4
  <2>6. Joined(ss, k - 1) \in Seq(T)
    BY <2>3, <2>5
  <2>7. Joined(ss, (k - 1) + 1) = Joined(ss, k - 1) \o ss[(k - 1) + 1]
    BY <1>3, <2>5
  <2>8. (k - 1) + 1 = k
    BY <2>5
  <2>9. Joined(ss, k) = Joined(ss, k - 1) \o ss[k] /\ ss[k] \in Seq(T)
    BY <1>2, <2>5, <2>7, <2>8
  <2>10. Joined(ss, k) \in Seq(T)
    BY <2>6, <2>9, ConcatProperties
  <2>11. QED
    BY <2>4, <2>10
<1>5. ASSUME NEW n \in 0..Len(ss), NEW m \in 0..Len(ss), n <= m
      PROVE  /\ Len(Joined(ss, n)) <= Len(Joined(ss, m))
             /\ \A i \in 1..Len(Joined(ss, n)) : Joined(ss, m)[i] = Joined(ss, n)[i]
  <2> DEFINE good(k) == /\ Len(Joined(ss, n)) <= Len(Joined(ss, k))
                        /\ \A i \in 1..Len(Joined(ss, n)) : Joined(ss, k)[i] = Joined(ss, n)[i]
             bad == {k \in n..Len(ss) : ~good(k)}
  <2>1. SUFFICES ASSUME bad # {} PROVE FALSE
    <3>1. m \in n..Len(ss)
      BY <1>2, <1>5
    <3>2. QED
      BY <3>1
  <2>2. bad \in SUBSET Nat
    BY <1>2
  <2>3. PICK k \in bad : \A j \in bad : k <= j
    BY <2>1, <2>2, LeastOf
  <2>4. Joined(ss, n) \in Seq(T)
    BY <1>4
  <2>5. k \in n..Len(ss) /\ ~good(k)
    OBVIOUS
  <2>6. good(n)
    BY <2>4
  <2>7. k # n
    BY <2>5, <2>6
  <2>8. /\ k - 1 \in n..Len(ss) /\ k - 1 \in 0..(Len(ss) - 1) /\ k - 1 \in 0..Len(ss)
        /\ ~(k <= k - 1) /\ k \in 1..Len(ss)
    BY <1>2, <2>5, <2>7
  <2>9. good(k - 1)
    BY <2>3, <2>8
  <2>10. Joined(ss, k - 1) \in Seq(T)
    BY <1>4, <2>8
  <2>11. Joined(ss, k) = Joined(ss, k - 1) \o ss[k] /\ ss[k] \in Seq(T)
    <3>1. Joined(ss, (k - 1) + 1) = Joined(ss, k - 1) \o ss[(k - 1) + 1]
      BY <1>3, <2>8
    <3>2. (k - 1) + 1 = k
      BY <2>8
    <3>3. QED
      BY <1>2, <2>8, <3>1, <3>2
  <2>12. /\ Len(Joined(ss, k)) = Len(Joined(ss, k - 1)) + Len(ss[k])
         /\ \A i \in 1..Len(Joined(ss, k - 1)) : Joined(ss, k)[i] = Joined(ss, k - 1)[i]
         /\ Len(Joined(ss, n)) \in Nat /\ Len(Joined(ss, k - 1)) \in Nat /\ Len(ss[k]) \in Nat
    BY <2>4, <2>10, <2>11
  <2>13. good(k)
    <3>1. Len(Joined(ss, n)) <= Len(Joined(ss, k - 1))
      BY <2>9
    <3>2. Len(Joined(ss, n)) <= Len(Joined(ss, k))
      <4> DEFINE a == Len(Joined(ss, n))
                 b == Len(Joined(ss, k - 1))
                 c == Len(ss[k])
                 d == Len(Joined(ss, k))
      <4>1. a \in Nat /\ b \in Nat /\ c \in Nat /\ a <= b /\ d = b + c
        BY <2>12, <3>1
      <4> HIDE DEF a, b, c, d
      <4>2. a <= d
        BY <4>1
      <4>3. QED
        BY <4>2 DEF a, d
    <3>3. \A i \in 1..Len(Joined(ss, n)) : i \in 1..Len(Joined(ss, k - 1))
      BY <2>9, <2>12
    <3>4. \A i \in 1..Len(Joined(ss, n)) : Joined(ss, k)[i] = Joined(ss, n)[i]
      BY <2>9, <2>12, <3>3
    <3>5. QED
      BY <3>2, <3>4
  <2>14. QED
    BY <2>5, <2>13
<1>6. QED
  BY <1>1, <1>4, <1>5, Zenon

\* One list more.
LEMMA JoinedAppend ==
  ASSUME NEW T, NEW ss \in Seq(Seq(T)), NEW s \in Seq(T)
  PROVE  FlattenSeq(Append(ss, s)) = FlattenSeq(ss) \o s
<1> DEFINE tt == Append(ss, s)
           n == Len(ss)
<1>1. /\ tt \in Seq(Seq(T)) /\ n \in Nat /\ Len(tt) = n + 1 /\ n \in 0..(Len(tt) - 1)
      /\ tt[n + 1] = s /\ \A i \in 1..n : tt[i] = ss[i]
  OBVIOUS
<1>2. Joined(tt, n + 1) = Joined(tt, n) \o tt[n + 1]
  BY <1>1, JoinedStep
<1>3. [i \in 1..(n + 1) |-> tt[i]] = tt /\ [i \in 1..n |-> tt[i]] = ss
  <2>1. DOMAIN ss = 1..n /\ ss = [i \in DOMAIN ss |-> ss[i]]
    OBVIOUS
  <2>2. [i \in 1..n |-> tt[i]] = [i \in 1..n |-> ss[i]]
    BY <1>1
  <2>3. DOMAIN tt = 1..(n + 1) /\ tt = [i \in DOMAIN tt |-> tt[i]]
    <3> HIDE DEF tt, n
    <3>1. tt \in [1..Len(tt) -> Seq(T)]
      BY <1>1, LenProperties
    <3>2. QED
      BY <1>1, <3>1
  <2>4. QED
    BY <2>1, <2>2, <2>3, Zenon
<1>4. QED
  BY <1>1, <1>2, <1>3 DEF Joined

-----------------------------------------------------------------------------
(* What a telnet switch may say, and where the decoder is in it.             *)

Bytes == Telnet!Bytes
Writers == Telnet!Writers
Verbs == {"DO", "DONT", "WILL", "WONT"}

\* After i bytes of b an IAC is under way that has not been doubled yet; the first
\* one that is followed by anything else ends b.
Opens(b, open) ==
  /\ open \in [2..Len(b) -> BOOLEAN] /\ ~open[2]
  /\ \A i \in 3..Len(b) : /\ open[i] <=> (b[i] = "IAC" /\ ~open[i - 1])
                          /\ (open[i - 1] /\ b[i] # "IAC") <=> i = Len(b)
Subnegotiation(b) ==
  /\ Len(b) >= 4 /\ b[1] = "IAC" /\ b[2] = "SB"
  /\ \E open \in [2..Len(b) -> BOOLEAN] : Opens(b, open)

\* Whatever a telnet switch may say, with the data it means and the refusal that is
\* due to it: text, line endings, an escaped byte, proposals, acknowledgements,
\* commands without an option, and subnegotiations of any length.
Legal ==
  {Sent(<<b>>, <<b>>, <<>>) : b \in Bytes \ {"IAC", "CR"}}
    \cup {Sent(<<"CR", "NUL">>, <<"CR">>, <<>>), Sent(<<"CR", "LF">>, <<"CR", "LF">>, <<>>),
          Sent(<<"IAC", "IAC">>, <<"IAC">>, <<>>)}
    \cup {Option("DO", o, <<"IAC", "WONT", o>>) : o \in Bytes}
    \cup {Option("WILL", o, <<"IAC", "DONT", o>>) : o \in Bytes}
    \cup {Option("DONT", o, <<>>) : o \in Bytes} \cup {Option("WONT", o, <<>>) : o \in Bytes}
    \cup {Silent(<<"IAC", c>>) : c \in Bytes \ ({"IAC", "SB"} \cup Verbs)}
    \cup {Silent(b) : b \in {s \in Seq(Bytes) : Subnegotiation(s)}}
LegalMessages == Messages \subseteq Legal

\* The decoder after u bytes of m.
Inside(m, u, st, c, cr) ==
  /\ u = 0 => st = "data" /\ ~cr
  /\ u > 0 /\ m.bytes[1] = "CR" => st = "data" /\ cr
  /\ u > 0 /\ m.bytes[1] = "IAC" =>
       /\ ~cr
       /\ u = 1 => st = "IAC"
       /\ u > 1 /\ m.bytes[2] # "SB" => st = "option" /\ c = m.bytes[2]
       /\ u > 1 /\ m.bytes[2] = "SB" =>
            \A open : Opens(m.bytes, open) => st = IF open[u] THEN "SBIAC" ELSE "SB"
Partial(m, u) == IF u > 0 /\ m.bytes[1] = "CR" THEN <<"CR">> ELSE <<>>

LEMMA ByteNames ==
  {"IAC", "SE", "SB", "DO", "DONT", "WILL", "WONT", "NOP", "NUL", "CR", "LF", "x"} = Bytes
BY DEF Bytes, Telnet!Bytes

LEMMA LegalShape ==
  ASSUME NEW m \in Legal
  PROVE  /\ m.bytes \in Seq(Bytes) /\ m.data \in Seq(Bytes) /\ m.refusal \in Seq(Bytes)
         /\ Len(m.bytes) >= 1
<1> DEFINE Goal == /\ m.bytes \in Seq(Bytes) /\ m.data \in Seq(Bytes) /\ m.refusal \in Seq(Bytes)
                   /\ Len(m.bytes) >= 1
<1> SUFFICES Goal
  OBVIOUS
<1>1. {"IAC", "SE", "SB", "DO", "DONT", "WILL", "WONT", "NUL", "CR", "LF"} \subseteq Bytes
  BY ByteNames
<1>2. ASSUME NEW b \in Bytes, m = Sent(<<b>>, <<b>>, <<>>) PROVE Goal
  <2>1. m.bytes = <<b>> /\ m.data = <<b>> /\ m.refusal = <<>>
    BY <1>2 DEF Sent
  <2>2. QED
    BY <2>1
<1>3. CASE m \in {Sent(<<"CR", "NUL">>, <<"CR">>, <<>>), Sent(<<"CR", "LF">>, <<"CR", "LF">>, <<>>),
                  Sent(<<"IAC", "IAC">>, <<"IAC">>, <<>>)}
  <2>1. /\ m.bytes \in {<<"CR", "NUL">>, <<"CR", "LF">>, <<"IAC", "IAC">>}
        /\ m.data \in {<<"CR">>, <<"CR", "LF">>, <<"IAC">>} /\ m.refusal = <<>>
    BY <1>3 DEF Sent
  <2>2. \A a, b \in Bytes : <<a>> \in Seq(Bytes) /\ <<a, b>> \in Seq(Bytes) /\ Len(<<a, b>>) = 2
    OBVIOUS
  <2>3. /\ <<"CR", "NUL">> \in Seq(Bytes) /\ <<"CR", "LF">> \in Seq(Bytes)
        /\ <<"IAC", "IAC">> \in Seq(Bytes) /\ <<"CR">> \in Seq(Bytes) /\ <<"IAC">> \in Seq(Bytes)
    BY <1>1, <2>2
  <2>4. m.bytes \in Seq(Bytes) /\ m.data \in Seq(Bytes) /\ Len(m.bytes) = 2
    BY <2>1, <2>2, <2>3
  <2>5. <<>> \in Seq(Bytes)
    OBVIOUS
  <2>6. QED
    BY <2>1, <2>4, <2>5
<1>4. ASSUME NEW v \in Verbs, NEW o \in Bytes,
             NEW r \in {<<"IAC", "WONT", o>>, <<"IAC", "DONT", o>>, <<>>}, m = Option(v, o, r)
      PROVE  Goal
  <2>1. m.bytes = <<"IAC", v, o>> /\ m.data = <<>> /\ m.refusal = r /\ v \in Bytes
    BY <1>1, <1>4 DEF Option, Sent, Verbs
  <2>2. "IAC" \in Bytes /\ "WONT" \in Bytes /\ "DONT" \in Bytes
    BY <1>1
  <2>3. /\ <<"IAC", v, o>> \in Seq(Bytes) /\ Len(<<"IAC", v, o>>) = 3 /\ <<>> \in Seq(Bytes)
        /\ <<"IAC", "WONT", o>> \in Seq(Bytes) /\ <<"IAC", "DONT", o>> \in Seq(Bytes)
    BY <2>1, <2>2
  <2>4. r \in Seq(Bytes)
    BY <2>3
  <2>5. m.bytes \in Seq(Bytes) /\ Len(m.bytes) = 3
    BY <2>1, <2>3
  <2>6. QED
    BY <2>1, <2>3, <2>4, <2>5
<1>5. ASSUME NEW c \in Bytes, m = Silent(<<"IAC", c>>) PROVE Goal
  <2>1. m.bytes = <<"IAC", c>> /\ m.data = <<>> /\ m.refusal = <<>>
    BY <1>5 DEF Silent, Sent
  <2>2. QED
    BY <1>1, <2>1
<1>6. ASSUME NEW b \in Seq(Bytes), Subnegotiation(b), m = Silent(b) PROVE Goal
  <2>1. m.bytes = b /\ m.data = <<>> /\ m.refusal = <<>>
    BY <1>6 DEF Silent, Sent
  <2>2. QED
    BY <1>6, <2>1 DEF Subnegotiation
<1> HIDE DEF Goal
<1>7. CASE m \in {Sent(<<b>>, <<b>>, <<>>) : b \in Bytes \ {"IAC", "CR"}}
  BY <1>2, <1>7
<1>8. CASE \/ m \in {Option("DO", o, <<"IAC", "WONT", o>>) : o \in Bytes}
           \/ m \in {Option("WILL", o, <<"IAC", "DONT", o>>) : o \in Bytes}
           \/ m \in {Option("DONT", o, <<>>) : o \in Bytes}
           \/ m \in {Option("WONT", o, <<>>) : o \in Bytes}
  <2>1. \A o \in Bytes : m = Option("DO", o, <<"IAC", "WONT", o>>) => Goal
    BY <1>4 DEF Verbs
  <2>2. \A o \in Bytes : m = Option("WILL", o, <<"IAC", "DONT", o>>) => Goal
    BY <1>4 DEF Verbs
  <2>3. \A o \in Bytes : m \in {Option("DONT", o, <<>>), Option("WONT", o, <<>>)} => Goal
    BY <1>4 DEF Verbs
  <2>4. QED
    BY <1>8, <2>1, <2>2, <2>3
<1>9. CASE m \in {Silent(<<"IAC", c>>) : c \in Bytes \ ({"IAC", "SB"} \cup Verbs)}
  BY <1>5, <1>9
<1>10. CASE m \in {Silent(b) : b \in {s \in Seq(Bytes) : Subnegotiation(s)}}
  BY <1>6, <1>10
<1>11. Goal
  BY <1>3, <1>7, <1>8, <1>9, <1>10 DEF Legal
<1>12. QED
  BY <1>11 DEF Goal

\* One turn of the decoder inside a message, and the one that ends it.
LEMMA Turn ==
  ASSUME NEW m \in Legal, NEW u \in 0..(Len(m.bytes) - 1),
         Inside(m, u, state, cmd, lastCR)
  PROVE  LET d == Telnet!Decoded(m.bytes[u + 1]) IN
         /\ u + 1 < Len(m.bytes) =>
              /\ Inside(m, u + 1, d.state, d.cmd, d.lastCR) /\ d.reply = <<>>
              /\ Partial(m, u) \o d.data = Partial(m, u + 1)
         /\ u + 1 = Len(m.bytes) =>
              /\ d.state = "data" /\ ~d.lastCR /\ d.reply = m.refusal
              /\ Partial(m, u) \o d.data = m.data
<1> DEFINE d == Telnet!Decoded(m.bytes[u + 1])
           Goal == /\ u + 1 < Len(m.bytes) =>
                        /\ Inside(m, u + 1, d.state, d.cmd, d.lastCR) /\ d.reply = <<>>
                        /\ Partial(m, u) \o d.data = Partial(m, u + 1)
                   /\ u + 1 = Len(m.bytes) =>
                        /\ d.state = "data" /\ ~d.lastCR /\ d.reply = m.refusal
                        /\ Partial(m, u) \o d.data = m.data
<1> SUFFICES Goal
  OBVIOUS
<1> USE DEF Sent, Option, Silent, Verbs, Telnet!Decoded, Telnet!OfData,
            Telnet!OfCommand, Telnet!Goes, Telnet!Emits, Telnet!Refusal, Inside, Partial
<1>1. CASE m \in {Sent(<<b>>, <<b>>, <<>>) : b \in Bytes \ {"IAC", "CR"}}
  <2>1. PICK b \in Bytes \ {"IAC", "CR"} : m = Sent(<<b>>, <<b>>, <<>>)
    BY <1>1
  <2>2. u = 0 /\ Len(m.bytes) = 1 /\ m.bytes[u + 1] = b /\ state = "data" /\ ~lastCR
    BY <2>1
  <2>3. d.state = "data" /\ ~d.lastCR /\ d.reply = <<>> /\ d.data = <<b>>
    BY <2>1, <2>2
  <2>4. QED
    BY <2>1, <2>2, <2>3
<1>2. CASE m \in {Sent(<<"CR", "NUL">>, <<"CR">>, <<>>), Sent(<<"CR", "LF">>, <<"CR", "LF">>, <<>>)}
  <2>1. CASE u = 0
    <3>1. /\ Len(m.bytes) = 2 /\ m.bytes[u + 1] = "CR" /\ state = "data" /\ ~lastCR
          /\ m.bytes[1] = "CR"
      BY <1>2, <2>1
    <3>2. d.state = "data" /\ d.lastCR /\ d.reply = <<>> /\ d.data = <<"CR">>
      BY <3>1
    <3>3. QED
      BY <2>1, <3>1, <3>2
  <2>2. CASE u = 1
    <3>1. /\ Len(m.bytes) = 2 /\ state = "data" /\ lastCR /\ m.bytes[1] = "CR"
      BY <1>2, <2>2
    <3>2. CASE m = Sent(<<"CR", "NUL">>, <<"CR">>, <<>>)
      <4>1. m.bytes[u + 1] = "NUL" /\ m.data = <<"CR">> /\ m.refusal = <<>>
        BY <2>2, <3>2
      <4>2. d.state = "data" /\ ~d.lastCR /\ d.reply = <<>> /\ d.data = <<>>
        BY <3>1, <4>1
      <4> HIDE DEF d
      <4>3. QED
        BY <2>2, <3>1, <4>1, <4>2
    <3>3. CASE m = Sent(<<"CR", "LF">>, <<"CR", "LF">>, <<>>)
      <4>1. m.bytes[u + 1] = "LF" /\ m.data = <<"CR", "LF">> /\ m.refusal = <<>>
        BY <2>2, <3>3
      <4>2. d.state = "data" /\ ~d.lastCR /\ d.reply = <<>> /\ d.data = <<"LF">>
        BY <3>1, <4>1
      <4>3. u + 1 = Len(m.bytes) /\ Partial(m, u) = <<"CR">>
        BY <2>2, <3>1
      <4> HIDE DEF d
      <4>4. Partial(m, u) \o d.data = m.data
        <5>1. <<"CR">> \o <<"LF">> = <<"CR", "LF">>
          <6> DEFINE S == {"CR", "LF"}
                     t == <<"CR">> \o <<"LF">>
          <6>1. <<"CR">> \in Seq(S) /\ <<"LF">> \in Seq(S) /\ <<"CR", "LF">> \in Seq(S)
            OBVIOUS
          <6>2. t \in Seq(S) /\ Len(t) = 2 /\ t[1] = "CR" /\ t[2] = "LF"
            BY <6>1
          <6> HIDE DEF t, S
          <6>3. Len(t) = Len(<<"CR", "LF">>)
            BY <6>2
          <6>4. \A i \in 1..Len(t) : t[i] = <<"CR", "LF">>[i]
            BY <6>2
          <6>5. t = <<"CR", "LF">>
            BY <6>1, <6>2, <6>3, <6>4, SeqEqual
          <6>6. QED
            BY <6>5 DEF t
        <5> HIDE DEF Partial
        <5>2. QED
          BY <4>1, <4>2, <4>3, <5>1
      <4>5. QED
        BY <4>1, <4>2, <4>3, <4>4
    <3>4. QED
      BY <1>2, <3>2, <3>3
  <2>3. u \in {0, 1}
    <3>1. Len(m.bytes) = 2
      BY <1>2
    <3>2. QED
      BY <3>1
  <2>4. QED
    BY <2>1, <2>2, <2>3
<1>3. CASE m = Sent(<<"IAC", "IAC">>, <<"IAC">>, <<>>)
  <2>1. Len(m.bytes) = 2 /\ m.bytes[1] = "IAC" /\ m.bytes[2] = "IAC" /\ u \in {0, 1}
    BY <1>3
  <2>2. CASE u = 0
    BY <1>3, <2>1, <2>2
  <2>3. CASE u = 1
    BY <1>3, <2>1, <2>3
  <2>4. QED
    BY <2>1, <2>2, <2>3
<1>4. ASSUME NEW v \in Verbs, NEW o \in Bytes,
             m = Option(v, o, CASE v = "DO" -> <<"IAC", "WONT", o>>
                                [] v = "WILL" -> <<"IAC", "DONT", o>>
                                [] OTHER -> <<>>)
      PROVE  Goal
  <2>1. /\ Len(m.bytes) = 3 /\ m.bytes[1] = "IAC" /\ m.bytes[2] = v /\ m.bytes[3] = o
        /\ u \in {0, 1, 2} /\ v \notin {"SB", "IAC"} /\ m.data = <<>>
    BY <1>4
  <2>2. CASE u = 0
    BY <2>1, <2>2
  <2>3. CASE u = 1
    BY <2>1, <2>3
  <2>4. CASE u = 2
    <3>1. state = "option" /\ cmd = v /\ ~lastCR
      BY <2>1, <2>4
    <3>2. QED
      BY <1>4, <2>1, <2>4, <3>1
  <2>5. QED
    BY <2>1, <2>2, <2>3, <2>4
<1>5. CASE m \in {Silent(<<"IAC", c>>) : c \in Bytes \ ({"IAC", "SB"} \cup Verbs)}
  <2>1. PICK c \in Bytes \ ({"IAC", "SB"} \cup Verbs) : m = Silent(<<"IAC", c>>)
    BY <1>5
  <2>2. /\ Len(m.bytes) = 2 /\ m.bytes[1] = "IAC" /\ m.bytes[2] = c /\ u \in {0, 1}
        /\ m.data = <<>> /\ m.refusal = <<>>
    BY <2>1
  <2>3. CASE u = 0
    BY <2>2, <2>3
  <2>4. CASE u = 1
    BY <2>2, <2>4
  <2>5. QED
    BY <2>2, <2>3, <2>4
<1>6. CASE m \in {Silent(b) : b \in {s \in Seq(Bytes) : Subnegotiation(s)}}
  <2> DEFINE n == Len(m.bytes)
  <2>1. /\ m.bytes \in Seq(Bytes) /\ n >= 4 /\ n \in Nat /\ m.bytes[1] = "IAC" /\ m.bytes[2] = "SB"
        /\ m.data = <<>> /\ m.refusal = <<>> /\ \E open : Opens(m.bytes, open)
    BY <1>6 DEF Subnegotiation
  <2>2. \A open : Opens(m.bytes, open) =>
          /\ ~open[2]
          /\ \A i \in 3..n : /\ open[i] <=> (m.bytes[i] = "IAC" /\ ~open[i - 1])
                             /\ (open[i - 1] /\ m.bytes[i] # "IAC") <=> i = n
    BY DEF Opens
  <2>3. CASE u = 0
    BY <2>1, <2>3, SMTT(30)
  <2>4. CASE u = 1
    <3>1. d.state = "SB" /\ ~d.lastCR /\ d.reply = <<>> /\ d.data = <<>>
      BY <2>1, <2>4
    <3>2. QED
      BY <2>1, <2>2, <2>4, <3>1
  <2>5. CASE u >= 2
    <3>1. /\ ~lastCR /\ u + 1 \in 3..n /\ (u + 1) - 1 = u
          /\ \A open : Opens(m.bytes, open) => state = IF open[u] THEN "SBIAC" ELSE "SB"
      BY <2>1, <2>5
    <3>2. PICK open : Opens(m.bytes, open)
      BY <2>1
    <3>3. state \in {"SB", "SBIAC"}
      BY <3>1, <3>2
    <3>4. ~d.lastCR /\ d.reply = <<>> /\ d.data = <<>>
      BY <3>1, <3>3
    <3>5. d.state = CASE state = "SB" -> IF m.bytes[u + 1] = "IAC" THEN "SBIAC" ELSE "SB"
                      [] state = "SBIAC" -> IF m.bytes[u + 1] = "IAC" THEN "SB" ELSE "data"
      BY <3>3
    <3>6. CASE u + 1 < n
      <4>1. ASSUME NEW op, Opens(m.bytes, op)
            PROVE  d.state = IF op[u + 1] THEN "SBIAC" ELSE "SB"
        <5>1. /\ op[u + 1] <=> (m.bytes[u + 1] = "IAC" /\ ~op[u])
              /\ ~(op[u] /\ m.bytes[u + 1] # "IAC")
              /\ state = IF op[u] THEN "SBIAC" ELSE "SB"
          BY <2>2, <3>1, <3>6, <4>1
        <5>2. QED
          BY <3>5, <5>1
      <4> HIDE DEF d
      <4>2. QED
        BY <2>1, <2>5, <3>4, <3>6, <4>1
    <3>7. CASE u + 1 = n
      <4>1. state = "SBIAC" /\ m.bytes[u + 1] # "IAC"
        BY <2>2, <3>1, <3>2, <3>7
      <4>2. d.state = "data"
        BY <3>5, <4>1
      <4> HIDE DEF d
      <4>3. QED
        BY <2>1, <2>5, <3>4, <3>7, <4>2
    <3>8. QED
      BY <2>1, <3>6, <3>7
  <2>6. QED
    <3>1. u = 0 \/ u = 1 \/ u >= 2
      BY <2>1
    <3>2. QED
      BY <2>3, <2>4, <2>5, <3>1
<1> HIDE DEF Goal, Sent, Option, Silent
<1>7. CASE \/ m \in {Option("DO", o, <<"IAC", "WONT", o>>) : o \in Bytes}
           \/ m \in {Option("WILL", o, <<"IAC", "DONT", o>>) : o \in Bytes}
           \/ m \in {Option("DONT", o, <<>>) : o \in Bytes}
           \/ m \in {Option("WONT", o, <<>>) : o \in Bytes}
  <2>1. \A o \in Bytes : m = Option("DO", o, <<"IAC", "WONT", o>>) => Goal
    BY <1>4
  <2>2. \A o \in Bytes : m = Option("WILL", o, <<"IAC", "DONT", o>>) => Goal
    BY <1>4
  <2>3. \A o \in Bytes : m \in {Option("DONT", o, <<>>), Option("WONT", o, <<>>)} => Goal
    BY <1>4
  <2>4. QED
    BY <1>7, <2>1, <2>2, <2>3
<1>8. CASE m \in {Sent(<<"CR", "NUL">>, <<"CR">>, <<>>), Sent(<<"CR", "LF">>, <<"CR", "LF">>, <<>>),
                  Sent(<<"IAC", "IAC">>, <<"IAC">>, <<>>)}
  BY <1>2, <1>3, <1>8
<1>9. QED
  BY <1>1, <1>5, <1>6, <1>7, <1>8 DEF Legal

LEMMA Subnegotiations ==
  \A b \in {<<"IAC", "SB", "IAC", "IAC", "IAC", "SE">>, <<"IAC", "SB", "DO", "IAC", "NOP">>} :
    b \in Seq(Bytes) /\ Subnegotiation(b)
<1>1. {"IAC", "SE", "SB", "DO", "NOP"} \subseteq Bytes
  BY ByteNames
<1>2. ASSUME NEW b, b = <<"IAC", "SB", "IAC", "IAC", "IAC", "SE">>
      PROVE  b \in Seq(Bytes) /\ Subnegotiation(b)
  <2> DEFINE open == [i \in 2..6 |-> i = 3 \/ i = 5]
  <2>1. /\ Len(b) = 6 /\ b[1] = "IAC" /\ b[2] = "SB" /\ b[3] = "IAC" /\ b[4] = "IAC"
        /\ b[5] = "IAC" /\ b[6] = "SE" /\ b \in Seq(Bytes)
    BY <1>1, <1>2
  <2>2. \A i \in 2..6 : open[i] <=> (i = 3 \/ i = 5)
    BY Zenon
  <2>3. open \in [2..6 -> BOOLEAN]
    BY Zenon
  <2>4. open \in [2..Len(b) -> BOOLEAN]
    BY <2>1, <2>3, Zenon
  <2> HIDE DEF open
  <2>5. ~open[2] /\ open[3] /\ ~open[4] /\ open[5] /\ ~open[6]
    BY <2>2
  <2>6. \A i \in 3..Len(b) : i \in {3, 4, 5, 6} /\ (i = 3 => i - 1 = 2) /\ (i = 4 => i - 1 = 3)
                             /\ (i = 5 => i - 1 = 4) /\ (i = 6 => i - 1 = 5)
    BY <2>1
  <2>7. \A i \in 3..Len(b) : /\ open[i] <=> (b[i] = "IAC" /\ ~open[i - 1])
                             /\ (open[i - 1] /\ b[i] # "IAC") <=> i = Len(b)
    BY <2>1, <2>5, <2>6
  <2>8. Opens(b, open)
    BY <2>5, <2>7, <2>4, Zenon DEF Opens
  <2>9. Len(b) >= 4
    BY <2>1
  <2>10. QED
    BY <2>1, <2>8, <2>4, <2>9, Zenon DEF Subnegotiation
<1>3. ASSUME NEW b, b = <<"IAC", "SB", "DO", "IAC", "NOP">>
      PROVE  b \in Seq(Bytes) /\ Subnegotiation(b)
  <2> DEFINE open == [i \in 2..5 |-> i = 4]
  <2>1. /\ Len(b) = 5 /\ b[1] = "IAC" /\ b[2] = "SB" /\ b[3] = "DO" /\ b[4] = "IAC"
        /\ b[5] = "NOP" /\ b \in Seq(Bytes)
    BY <1>1, <1>3
  <2>2. \A i \in 2..5 : open[i] <=> (i = 4)
    BY Zenon
  <2>3. open \in [2..5 -> BOOLEAN]
    BY Zenon
  <2>4. open \in [2..Len(b) -> BOOLEAN]
    BY <2>1, <2>3, Zenon
  <2> HIDE DEF open
  <2>5. ~open[2] /\ ~open[3] /\ open[4] /\ ~open[5]
    BY <2>2
  <2>6. \A i \in 3..Len(b) : i \in {3, 4, 5} /\ (i = 3 => i - 1 = 2) /\ (i = 4 => i - 1 = 3)
                             /\ (i = 5 => i - 1 = 4)
    BY <2>1
  <2>7. \A i \in 3..Len(b) : /\ open[i] <=> (b[i] = "IAC" /\ ~open[i - 1])
                             /\ (open[i - 1] /\ b[i] # "IAC") <=> i = Len(b)
    BY <2>1, <2>5, <2>6
  <2>8. Opens(b, open)
    BY <2>5, <2>7, <2>4, Zenon DEF Opens
  <2>9. Len(b) >= 4
    BY <2>1
  <2>10. QED
    BY <2>1, <2>8, <2>4, <2>9, Zenon DEF Subnegotiation
<1>4. QED
  BY <1>2, <1>3

\* What the switch of the run says is legal.
LEMMA EveryMessageIsLegal == EveryMessage \subseteq Legal
<1>1. {"IAC", "x", "NOP", "DO", "WILL", "WONT"} \subseteq Bytes
  BY ByteNames
<1>2. "NOP" \in Bytes \ ({"IAC", "SB"} \cup Verbs)
  BY <1>1 DEF Verbs
<1> HIDE DEF Verbs
<1>3. /\ Silent(<<"IAC", "NOP">>) \in Legal
      /\ Option("DO", "x", <<"IAC", "WONT", "x">>) \in Legal
      /\ Option("WILL", "IAC", <<"IAC", "DONT", "IAC">>) \in Legal
      /\ Option("WONT", "IAC", <<>>) \in Legal
  BY <1>1, <1>2, Zenon DEF Legal
<1>4. /\ Sent(<<"CR", "NUL">>, <<"CR">>, <<>>) \in Legal
      /\ Sent(<<"CR", "LF">>, <<"CR", "LF">>, <<>>) \in Legal
      /\ Sent(<<"IAC", "IAC">>, <<"IAC">>, <<>>) \in Legal
  BY Zenon DEF Legal
<1>5. /\ Silent(<<"IAC", "SB", "IAC", "IAC", "IAC", "SE">>) \in Legal
      /\ Silent(<<"IAC", "SB", "DO", "IAC", "NOP">>) \in Legal
  BY Subnegotiations, Zenon DEF Legal
<1>6. QED
  BY <1>3, <1>4, <1>5 DEF EveryMessage

-----------------------------------------------------------------------------
(* What the layer has yet to do is the rest of what was said.                *)

States == {"data", "IAC", "option", "SB", "SBIAC"}
Saying == [by : Writers, what : Seq(Bytes)]
Spoken(s) == IF s.by = "session" THEN Telnet!Escape(s.what) ELSE s.what
Refused(s) == IF s.by = "reader" THEN s.what ELSE <<>>

BytesOf == [i \in 1..Len(messages) |-> messages[i].bytes]
DataOf == [i \in 1..Len(messages) |-> messages[i].data]
RefusalOf == [i \in 1..Len(messages) |-> messages[i].refusal]

Undecoded == raw \o inbound
\* The refusal that is due and not yet among what was said.
Unsaid == IF left["reader"] = <<>> THEN reply ELSE <<>>

StreamTyped ==
  /\ messages \in Seq(Legal) /\ said \in Seq(Saying) /\ state \in States
  /\ raw \in Seq(Bytes) /\ inbound \in Seq(Bytes) /\ out \in Seq(Bytes) /\ reply \in Seq(Bytes)
  /\ returned \in Seq(Bytes) /\ heard \in Seq(Bytes) /\ left \in [Writers -> Seq(Bytes)]

\* One writes at a time; the reader, a refusal it has to get rid of before it goes on.
Sharing ==
  /\ left["reader"] = <<>> \/ left["session"] = <<>>
  /\ left["reader"] # <<>> => reply # <<>>
  /\ ~failed => heard \o (left["reader"] \o left["session"]) = Telnet!Whole

\* k messages and u bytes of the next are decoded.
At(k, u) ==
  LET start == Len(Joined(BytesOf, k)) + u
      all == Joined(BytesOf, Len(messages)) IN
  /\ k \in 0..Len(messages) /\ u \in Nat
  /\ IF k = Len(messages) THEN u = 0 ELSE u < Len(messages[k + 1].bytes)
  /\ Inside(messages[k + 1], u, state, cmd, lastCR)
  /\ Len(all) = start + Len(Undecoded)
  /\ \A i \in 1..Len(Undecoded) : Undecoded[i] = all[start + i]
Handed(k, u) == returned \o out = Joined(DataOf, k) \o Partial(messages[k + 1], u)
Answered(k) == ~failed => Telnet!Refusals \o Unsaid = Joined(RefusalOf, k)
Decoding(k, u) == At(k, u) /\ Handed(k, u) /\ Answered(k)

StreamInv == StreamTyped /\ Sharing /\ \E k, u : Decoding(k, u)

-----------------------------------------------------------------------------
(* The lists, and the state Telnet starts in.                                *)

LEMMA ListsOf ==
  ASSUME messages \in Seq(Legal)
  PROVE  /\ BytesOf \in Seq(Seq(Bytes)) /\ DataOf \in Seq(Seq(Bytes))
         /\ RefusalOf \in Seq(Seq(Bytes))
         /\ Len(BytesOf) = Len(messages) /\ Len(DataOf) = Len(messages)
         /\ Len(RefusalOf) = Len(messages) /\ Len(messages) \in Nat
         /\ \A i \in 1..Len(messages) : /\ messages[i] \in Legal
                                        /\ BytesOf[i] = messages[i].bytes
                                        /\ DataOf[i] = messages[i].data
                                        /\ RefusalOf[i] = messages[i].refusal
<1>1. Len(messages) \in Nat /\ \A i \in 1..Len(messages) : messages[i] \in Legal
  OBVIOUS
<1>2. \A i \in 1..Len(messages) : /\ messages[i].bytes \in Seq(Bytes)
                                  /\ messages[i].data \in Seq(Bytes)
                                  /\ messages[i].refusal \in Seq(Bytes)
  BY <1>1, LegalShape
<1>3. BytesOf \in [1..Len(messages) -> Seq(Bytes)]
  BY <1>2 DEF BytesOf
<1>4. DataOf \in [1..Len(messages) -> Seq(Bytes)]
  BY <1>2 DEF DataOf
<1>5. RefusalOf \in [1..Len(messages) -> Seq(Bytes)]
  BY <1>2 DEF RefusalOf
<1>6. \A i \in 1..Len(messages) : /\ BytesOf[i] = messages[i].bytes
                                  /\ DataOf[i] = messages[i].data
                                  /\ RefusalOf[i] = messages[i].refusal
  BY DEF BytesOf, DataOf, RefusalOf
<1>7. ASSUME NEW f \in [1..Len(messages) -> Seq(Bytes)]
      PROVE  f \in Seq(Seq(Bytes)) /\ Len(f) = Len(messages)
  BY <1>1
<1> HIDE DEF BytesOf, DataOf, RefusalOf
<1>8. /\ BytesOf \in Seq(Seq(Bytes)) /\ Len(BytesOf) = Len(messages)
      /\ DataOf \in Seq(Seq(Bytes)) /\ Len(DataOf) = Len(messages)
      /\ RefusalOf \in Seq(Seq(Bytes)) /\ Len(RefusalOf) = Len(messages)
  BY <1>3, <1>4, <1>5, <1>7
<1>9. QED
  BY <1>1, <1>6, <1>8

\* Nothing is nothing, joined.
LEMMA NothingJoined == FlattenSeq(<<>>) = <<>>
BY DEF FlattenSeq

LEMMA SameFlatten == \A ss : Telnet!FlattenSeq(ss) = FlattenSeq(ss)
BY Zenon DEF Telnet!FlattenSeq, FlattenSeq

\* What is joined of the first lists depends on them alone.
LEMMA JoinedSame ==
  ASSUME NEW s, NEW t, NEW n \in Nat, \A i \in 1..n : s[i] = t[i]
  PROVE  Joined(s, n) = Joined(t, n)
<1>1. [i \in 1..n |-> s[i]] = [i \in 1..n |-> t[i]]
  OBVIOUS
<1>2. QED
  BY <1>1 DEF Joined

LEMMA JoinedWhole ==
  ASSUME NEW T, NEW s \in Seq(T)
  PROVE  Joined(s, Len(s)) = FlattenSeq(s)
<1>1. DOMAIN s = 1..Len(s) /\ s = [i \in DOMAIN s |-> s[i]]
  OBVIOUS
<1>2. QED
  BY <1>1 DEF Joined

LEMMA EscapeType ==
  ASSUME NEW line \in Seq(Bytes) PROVE Telnet!Escape(line) \in Seq(Bytes)
<1> DEFINE parts == [i \in 1..Len(line) |->
                       IF line[i] = "IAC" THEN <<"IAC", "IAC">> ELSE <<line[i]>>]
<1>1. Len(line) \in Nat /\ \A i \in 1..Len(line) : line[i] \in Bytes
  OBVIOUS
<1>2. \A b \in Bytes : <<b>> \in Seq(Bytes) /\ <<b, b>> \in Seq(Bytes)
  OBVIOUS
<1>3. "IAC" \in Bytes
  BY ByteNames
<1>4. parts \in [1..Len(line) -> Seq(Bytes)]
  BY <1>1, <1>2, <1>3
<1>5. parts \in Seq(Seq(Bytes))
  BY <1>1, <1>4
<1>6. Telnet!Escape(line) = FlattenSeq(parts)
  BY SameFlatten, Zenon DEF Telnet!Escape
<1> HIDE DEF parts
<1>7. Len(parts) \in 0..Len(parts)
  BY <1>5
<1>8. Joined(parts, Len(parts)) \in Seq(Bytes)
  BY <1>5, <1>7, JoinedGrows
<1>9. QED
  BY <1>5, <1>6, <1>8, JoinedWhole

LEMMA StreamInit == ASSUME LayersInit PROVE StreamInv
<1>1. Telnet!Init
  BY DEF LayersInit
<1>2. /\ messages = <<>> /\ said = <<>> /\ state = "data" /\ lastCR = FALSE /\ raw = <<>>
      /\ inbound = <<>> /\ out = <<>> /\ reply = <<>> /\ returned = <<>> /\ heard = <<>>
      /\ left["reader"] = <<>> /\ left["session"] = <<>> /\ left \in [Writers -> Seq(Bytes)]
  BY <1>1 DEF Telnet!Init, Writers, Telnet!Writers
<1>3. StreamTyped
  BY <1>2 DEF StreamTyped, States
<1>4. \A f : FlattenSeq([i \in 1..0 |-> f[i]]) = <<>>
  <2>1. \A f : [i \in 1..0 |-> f[i]] = <<>>
    OBVIOUS
  <2>2. QED
    BY <2>1, NothingJoined, Zenon
<1>5. <<>> \in Seq(Bytes) /\ <<>> \o <<>> = <<>> /\ Len(<<>>) = 0
  BY ConcatEmptySeq
<1>6. Sharing
  <2>1. Telnet!Whole = <<>>
    <3>1. Len(said) = 0
      BY <1>2
    <3>2. [i \in 1..Len(said) |-> IF said[i].by = "session" THEN Telnet!Escape(said[i].what)
                                  ELSE said[i].what] = <<>>
      BY <3>1
    <3>3. QED
      BY <3>2, NothingJoined, SameFlatten, Zenon DEF Telnet!Whole
  <2>2. QED
    BY <1>2, <1>5, <2>1 DEF Sharing
<1>7. Decoding(0, 0)
  <2>1. Len(messages) = 0 /\ Len(said) = 0
    BY <1>2
  <2>2. Joined(BytesOf, 0) = <<>> /\ Joined(DataOf, 0) = <<>> /\ Joined(RefusalOf, 0) = <<>>
    BY <1>4 DEF Joined
  <2>3. Telnet!Refusals = <<>>
    <3>1. [i \in 1..Len(said) |-> IF said[i].by = "reader" THEN said[i].what ELSE <<>>] = <<>>
      BY <2>1
    <3>2. QED
      BY <3>1, NothingJoined, SameFlatten, Zenon DEF Telnet!Refusals
  <2>4. Inside(messages[0 + 1], 0, state, cmd, lastCR)
    BY <1>2 DEF Inside
  <2>5. Partial(messages[0 + 1], 0) = <<>>
    BY DEF Partial
  <2>6. Undecoded = <<>> /\ Unsaid = <<>> /\ returned \o out = <<>>
    BY <1>2, <1>5 DEF Undecoded, Unsaid
  <2>7. QED
    BY <1>5, <2>1, <2>2, <2>3, <2>4, <2>5, <2>6 DEF Decoding, At, Handed, Answered
<1>8. QED
  BY <1>3, <1>6, <1>7 DEF StreamInv

-----------------------------------------------------------------------------
(* What a step leaves alone.                                                 *)

LEMMA AtKept ==
  ASSUME NEW k, NEW u, At(k, u), UNCHANGED <<messages, raw, inbound, state, cmd, lastCR>>
  PROVE  At(k, u)'
<1>1. BytesOf' = BytesOf /\ Undecoded' = Undecoded
  BY DEF BytesOf, Undecoded
<1>2. QED
  BY <1>1, Zenon DEF At, Inside

LEMMA HandedKept ==
  ASSUME NEW k, NEW u, Handed(k, u), UNCHANGED <<messages, returned, out>>
  PROVE  Handed(k, u)'
<1>1. DataOf' = DataOf
  BY DEF DataOf
<1>2. QED
  BY <1>1, Zenon DEF Handed, Partial

LEMMA SaidKept ==
  ASSUME UNCHANGED said
  PROVE  Telnet!Whole' = Telnet!Whole /\ Telnet!Refusals' = Telnet!Refusals
BY Zenon DEF Telnet!Whole, Telnet!Refusals, Telnet!Escape

LEMMA AnsweredKept ==
  ASSUME NEW k, Answered(k), UNCHANGED <<messages, said, failed, reply, left>>
  PROVE  Answered(k)'
<1>1. RefusalOf' = RefusalOf /\ Unsaid' = Unsaid
  BY DEF RefusalOf, Unsaid
<1>2. QED
  BY <1>1, SaidKept, Zenon DEF Answered

LEMMA SharingKept ==
  ASSUME Sharing, UNCHANGED <<said, failed, heard, reply, left>>
  PROVE  Sharing'
BY SaidKept, Zenon DEF Sharing

\* A list that goes on by one element.
LEMMA OneMore ==
  ASSUME NEW T, NEW n \in Nat, NEW f \in [1..n -> T], NEW g \in [1..(n + 1) -> T],
         \A i \in 1..n : g[i] = f[i]
  PROVE  /\ f \in Seq(T) /\ Len(f) = n
         /\ g = Append(f, g[n + 1])
<1> DEFINE h == Append(f, g[n + 1])
<1>1. f \in Seq(T) /\ Len(f) = n
  OBVIOUS
<1>2. n + 1 \in Nat /\ g \in Seq(T) /\ Len(g) = n + 1 /\ g[n + 1] \in T
  OBVIOUS
<1>3. /\ h \in Seq(T) /\ Len(h) = n + 1 /\ h[n + 1] = g[n + 1]
      /\ \A i \in 1..n : h[i] = f[i]
  BY <1>1, <1>2
<1> HIDE DEF h
<1>4. \A i \in 1..Len(g) : i \in 1..n \/ i = n + 1
  BY <1>2
<1>5. \A i \in 1..Len(g) : g[i] = h[i]
  BY <1>3, <1>4
<1>6. Len(g) = Len(h)
  BY <1>2, <1>3
<1>7. g = h
  BY <1>2, <1>3, <1>5, <1>6, SeqEqual
<1>8. QED
  BY <1>1, <1>7 DEF h

\* What was said are lists of bytes, and one saying more adds one list.
LEMMA SayingTypes ==
  ASSUME said \in Seq(Saying)
  PROVE  /\ Telnet!Whole \in Seq(Bytes) /\ Telnet!Refusals \in Seq(Bytes)
         /\ \A s \in Saying : said' = Append(said, s) =>
              /\ Telnet!Whole' = Telnet!Whole \o Spoken(s)
              /\ Telnet!Refusals' = Telnet!Refusals \o Refused(s)
<1> DEFINE whole == [i \in 1..Len(said) |-> Spoken(said[i])]
           refusals == [i \in 1..Len(said) |-> Refused(said[i])]
<1>1. /\ Telnet!Whole = FlattenSeq(whole)
      /\ Telnet!Refusals = FlattenSeq(refusals)
  BY SameFlatten, Zenon DEF Telnet!Whole, Telnet!Refusals, Spoken, Refused
<1>2. /\ Telnet!Whole' = FlattenSeq(whole')
      /\ Telnet!Refusals' = FlattenSeq(refusals')
  BY SameFlatten, Zenon DEF Telnet!Whole, Telnet!Refusals, Spoken, Refused, Telnet!Escape
<1>3. \A s \in Saying : Spoken(s) \in Seq(Bytes) /\ Refused(s) \in Seq(Bytes)
  BY EscapeType DEF Saying, Spoken, Refused
<1>4. Len(said) \in Nat /\ \A i \in 1..Len(said) : said[i] \in Saying
  OBVIOUS
<1>5. whole \in [1..Len(said) -> Seq(Bytes)] /\ refusals \in [1..Len(said) -> Seq(Bytes)]
  BY <1>3, <1>4
<1>6. ASSUME NEW f \in [1..Len(said) -> Seq(Bytes)]
      PROVE  f \in Seq(Seq(Bytes)) /\ Len(f) = Len(said) /\ FlattenSeq(f) \in Seq(Bytes)
  <2>1. f \in Seq(Seq(Bytes)) /\ Len(f) = Len(said) /\ Len(f) \in 0..Len(f)
    BY <1>4
  <2>2. QED
    BY <2>1, JoinedGrows, JoinedWhole
<1>7. ASSUME NEW s \in Saying, said' = Append(said, s)
      PROVE  whole' = Append(whole, Spoken(s)) /\ refusals' = Append(refusals, Refused(s))
  <2>1. /\ Len(said') = Len(said) + 1 /\ said'[Len(said) + 1] = s
        /\ \A i \in 1..Len(said) : said'[i] = said[i]
    BY <1>7
  <2>2. \A i \in 1..Len(said') : said'[i] \in Saying
    BY <1>4, <1>7, <2>1
  <2>3. \A s_1 \in Saying : Spoken(s_1)' = Spoken(s_1)
    OBVIOUS
  <2>4. /\ whole' = [i \in 1..Len(said') |-> Spoken(said'[i])]
        /\ refusals' = [i \in 1..Len(said') |-> Refused(said'[i])]
    BY Zenon DEF Spoken, Refused, Telnet!Escape
  <2>5. whole' \in [1..Len(said') -> Seq(Bytes)] /\ refusals' \in [1..Len(said') -> Seq(Bytes)]
    BY <1>3, <2>2, <2>4
  <2>6. /\ whole'[Len(said) + 1] = Spoken(s) /\ refusals'[Len(said) + 1] = Refused(s)
        /\ \A i \in 1..Len(said) : whole'[i] = whole[i] /\ refusals'[i] = refusals[i]
    BY <1>4, <2>1, <2>4
  <2>7. Spoken(s) \in Seq(Bytes) /\ Refused(s) \in Seq(Bytes)
    BY <1>3
  <2> HIDE DEF whole, refusals
  <2>8. QED
    BY <1>4, <1>5, <2>1, <2>5, <2>6, OneMore
<1> HIDE DEF whole, refusals
<1>8. QED
  BY <1>1, <1>2, <1>3, <1>5, <1>6, <1>7, JoinedAppend

-----------------------------------------------------------------------------
(* The switch says something.                                                *)

\* What is left of a list from start on stays so when both grow.
LEMMA StillLeft ==
  ASSUME NEW all \in Seq(Bytes), NEW rest \in Seq(Bytes), NEW more \in Seq(Bytes),
         NEW start \in Nat,
         Len(all) = start + Len(rest), \A i \in 1..Len(rest) : rest[i] = all[start + i]
  PROVE  /\ Len(all \o more) = start + Len(rest \o more)
         /\ \A i \in 1..Len(rest \o more) : (rest \o more)[i] = (all \o more)[start + i]
<1> DEFINE a == Len(all)
           r == Len(rest)
           n == Len(more)
           fuller == all \o more
           longer == rest \o more
<1>1. a \in Nat /\ r \in Nat /\ n \in Nat /\ a = start + r
  OBVIOUS
<1>2. /\ Len(fuller) = a + n
      /\ \A i \in 1..(a + n) : fuller[i] = IF i <= a THEN all[i] ELSE more[i - a]
  BY ConcatProperties, ZenonT(40)
<1>3. /\ Len(longer) = r + n
      /\ \A i \in 1..(r + n) : longer[i] = IF i <= r THEN rest[i] ELSE more[i - r]
  BY ConcatProperties
<1>4. \A i \in 1..r : rest[i] = all[start + i]
  OBVIOUS
<1> HIDE DEF a, r, n, fuller, longer
<1>5. ASSUME NEW i \in 1..(r + n) PROVE longer[i] = fuller[start + i]
  <2>1. start + i \in 1..(a + n) /\ i \in Nat /\ i >= 1
    BY <1>1
  <2>2. CASE i <= r
    <3>1. i \in 1..r /\ start + i <= a
      BY <1>1, <2>1, <2>2
    <3>2. QED
      BY <1>2, <1>3, <1>4, <2>1, <3>1
  <2>3. CASE ~(i <= r)
    <3>1. ~(start + i <= a) /\ (start + i) - a = i - r
      BY <1>1, <2>1, <2>3
    <3>2. QED
      BY <1>2, <1>3, <2>1, <2>3, <3>1
  <2>4. QED
    BY <2>2, <2>3
<1>6. QED
  BY <1>1, <1>2, <1>3, <1>5 DEF fuller, longer

LEMMA Regrouped == \A a, b, c \in Seq(Bytes) : (a \o b) \o c = a \o (b \o c)
BY ConcatAssociative

LEMMA ListsGrow ==
  ASSUME messages \in Seq(Legal), NEW m \in Legal, messages' = Append(messages, m)
  PROVE  /\ Len(messages') = Len(messages) + 1 /\ messages' \in Seq(Legal)
         /\ messages'[Len(messages) + 1] = m
         /\ \A i \in 1..Len(messages) : messages'[i] = messages[i]
         /\ \A k \in 0..Len(messages) : /\ Joined(BytesOf, k)' = Joined(BytesOf, k)
                                        /\ Joined(DataOf, k)' = Joined(DataOf, k)
                                        /\ Joined(RefusalOf, k)' = Joined(RefusalOf, k)
         /\ Joined(BytesOf', Len(messages) + 1) = Joined(BytesOf, Len(messages)) \o m.bytes
<1>1. /\ Len(messages) \in Nat /\ Len(messages') = Len(messages) + 1 /\ messages' \in Seq(Legal)
      /\ messages'[Len(messages) + 1] = m
      /\ \A i \in 1..Len(messages) : messages'[i] = messages[i]
  OBVIOUS
<1>2. \A i \in 1..Len(messages) : /\ BytesOf'[i] = BytesOf[i] /\ DataOf'[i] = DataOf[i]
                                  /\ RefusalOf'[i] = RefusalOf[i]
  BY <1>1 DEF BytesOf, DataOf, RefusalOf
<1>3. \A k \in 0..Len(messages) : /\ Joined(BytesOf', k) = Joined(BytesOf, k)
                                  /\ Joined(DataOf', k) = Joined(DataOf, k)
                                  /\ Joined(RefusalOf', k) = Joined(RefusalOf, k)
  <2>1. TAKE k \in 0..Len(messages)
  <2>2. k \in Nat /\ \A i \in 1..k : i \in 1..Len(messages)
    BY <1>1
  <2>3. QED
    BY <1>2, <2>2, JoinedSame
<1>4. BytesOf' \in Seq(Seq(Bytes)) /\ Len(BytesOf') = Len(messages) + 1
      /\ BytesOf'[Len(messages) + 1] = m.bytes
  <2>1. \A i \in 1..Len(messages') : messages'[i] \in Legal
    BY <1>1
  <2>2. \A i \in 1..Len(messages') : messages'[i].bytes \in Seq(Bytes)
    BY <2>1, LegalShape
  <2>3. BytesOf' = [i \in 1..Len(messages') |-> messages'[i].bytes]
    BY DEF BytesOf
  <2>4. BytesOf' \in [1..Len(messages') -> Seq(Bytes)]
    BY <2>2, <2>3
  <2>5. BytesOf'[Len(messages) + 1] = m.bytes
    BY <1>1, <2>3
  <2>6. QED
    BY <1>1, <2>4, <2>5
<1>5. Joined(BytesOf', Len(messages) + 1) = Joined(BytesOf', Len(messages)) \o m.bytes
  <2>1. Len(messages) \in 0..(Len(BytesOf') - 1)
    BY <1>1, <1>4
  <2>2. QED
    BY <1>4, <2>1, JoinedStep
<1>6. Joined(BytesOf', Len(messages)) = Joined(BytesOf, Len(messages))
  BY <1>1, <1>3
<1>7. \A k : /\ Joined(BytesOf, k)' = Joined(BytesOf', k)
             /\ Joined(DataOf, k)' = Joined(DataOf', k)
             /\ Joined(RefusalOf, k)' = Joined(RefusalOf', k)
  BY Zenon DEF Joined
<1> HIDE DEF BytesOf, DataOf, RefusalOf
<1>8. QED
  BY <1>1, <1>3, <1>5, <1>6, <1>7

LEMMA SendKept ==
  ASSUME LegalMessages, StreamInv, NEW m \in Messages, Telnet!SwitchSends(m)
  PROVE  StreamInv'
<1>1. /\ m \in Legal /\ messages' = Append(messages, m) /\ inbound' = inbound \o m.bytes
      /\ UNCHANGED <<state, cmd, lastCR, raw, out, reply, returned, left, heard, said, failed>>
  BY DEF LegalMessages, Telnet!SwitchSends, Telnet!decoderVars, Telnet!readVars, Telnet!writeVars
<1>2. /\ messages \in Seq(Legal) /\ raw \in Seq(Bytes) /\ inbound \in Seq(Bytes)
      /\ m.bytes \in Seq(Bytes) /\ Len(m.bytes) >= 1
  BY <1>1, LegalShape DEF StreamInv, StreamTyped
<1> DEFINE n == Len(messages)
           full == Joined(BytesOf, n)
<1>3. n \in Nat /\ Len(messages') = n + 1 /\ messages' \in Seq(Legal)
      /\ messages'[n + 1] = m /\ \A i \in 1..n : messages'[i] = messages[i]
  BY <1>1, <1>2, ListsGrow
<1>4. /\ \A k \in 0..n : /\ Joined(BytesOf, k)' = Joined(BytesOf, k)
                          /\ Joined(DataOf, k)' = Joined(DataOf, k)
                          /\ Joined(RefusalOf, k)' = Joined(RefusalOf, k)
       /\ Joined(BytesOf', n + 1) = full \o m.bytes
  BY <1>1, <1>2, ListsGrow, Zenon
<1>5. StreamTyped'
  BY <1>1, <1>2, <1>3 DEF StreamInv, StreamTyped
<1>6. Sharing'
  BY <1>1, SharingKept DEF StreamInv
<1>7. PICK k, u : Decoding(k, u)
  BY DEF StreamInv
<1>8. /\ k \in 0..n /\ u \in Nat
      /\ IF k = n THEN u = 0 ELSE u < Len(messages[k + 1].bytes)
      /\ Inside(messages[k + 1], u, state, cmd, lastCR)
      /\ Len(full) = (Len(Joined(BytesOf, k)) + u) + Len(Undecoded)
      /\ \A i \in 1..Len(Undecoded) : Undecoded[i] = full[(Len(Joined(BytesOf, k)) + u) + i]
  BY <1>7 DEF Decoding, At
<1>9. u = 0 \/ messages'[k + 1] = messages[k + 1]
  <2>1. CASE k # n
    <3>1. k + 1 \in 1..n
      BY <1>3, <1>8, <2>1
    <3>2. QED
      BY <1>3, <3>1
  <2>2. QED
    BY <1>8, <2>1
<1>10. At(k, u)'
  <2>1. full \in Seq(Bytes) /\ Joined(BytesOf, k) \in Seq(Bytes)
    <3>1. k \in 0..Len(BytesOf) /\ n \in 0..Len(BytesOf) /\ BytesOf \in Seq(Seq(Bytes))
      BY <1>2, <1>3, <1>8, ListsOf
    <3>2. QED
      BY <3>1, JoinedGrows
  <2>2. /\ Undecoded \in Seq(Bytes) /\ Undecoded' \in Seq(Bytes)
        /\ Undecoded' = Undecoded \o m.bytes
    <3>1. Undecoded = raw \o inbound /\ Undecoded' = raw \o (inbound \o m.bytes)
      BY <1>1 DEF Undecoded
    <3>2. raw \o inbound \in Seq(Bytes)
      BY <1>2, ConcatProperties
    <3>3. (raw \o inbound) \o m.bytes = raw \o (inbound \o m.bytes)
      BY <1>2, Regrouped
    <3>4. (raw \o inbound) \o m.bytes \in Seq(Bytes)
      BY <1>2, <3>2, ConcatProperties
    <3>5. QED
      BY <3>1, <3>2, <3>3, <3>4
  <2> DEFINE start == Len(Joined(BytesOf, k)) + u
             fuller == full \o m.bytes
  <2>3. start \in Nat
    BY <1>8, <2>1
  <2>4. Len(full) = start + Len(Undecoded)
        /\ \A i \in 1..Len(Undecoded) : Undecoded[i] = full[start + i]
    BY <1>8
  <2> HIDE DEF full, start
  <2>5. /\ Len(fuller) = start + Len(Undecoded \o m.bytes)
        /\ \A i \in 1..Len(Undecoded \o m.bytes) : (Undecoded \o m.bytes)[i] = fuller[start + i]
    <3>1. \A more \in Seq(Bytes) :
            /\ Len(full \o more) = start + Len(Undecoded \o more)
            /\ \A i \in 1..Len(Undecoded \o more) :
                 (Undecoded \o more)[i] = (full \o more)[start + i]
      <4>1. TAKE more \in Seq(Bytes)
      <4>2. Undecoded \in Seq(Bytes) /\ full \in Seq(Bytes)
        BY <2>1, <2>2
      <4>3. QED
        BY <2>3, <2>4, <4>2, StillLeft
    <3>2. QED
      BY <1>2, <3>1
  <2> HIDE DEF fuller
  <2>6. /\ Len(fuller) = start + Len(Undecoded')
        /\ \A i \in 1..Len(Undecoded') : Undecoded'[i] = fuller[start + i]
    BY <2>2, <2>5, Zenon
  <2>7. Joined(BytesOf, Len(messages))' = fuller
    <3>1. Joined(BytesOf, Len(messages))' = Joined(BytesOf', n + 1)
      BY <1>3, Zenon DEF Joined
    <3>2. QED
      BY <1>4, <3>1 DEF fuller
  <2>8. (Len(Joined(BytesOf, k)) + u)' = start
    BY <1>8, <1>4 DEF start
  <2>9. Inside(messages[k + 1], u, state, cmd, lastCR)'
    <3>1. Inside(messages'[k + 1], u, state, cmd, lastCR)
      <4>1. CASE u = 0
        BY <1>8, <4>1 DEF Inside
      <4>2. CASE u # 0
        BY <1>8, <1>9, <4>2
      <4>3. QED
        BY <4>1, <4>2
    <3>2. QED
      BY <1>1, <3>1, Zenon DEF Inside
  <2>10. k \in 0..Len(messages') /\ k # Len(messages')
    BY <1>3, <1>8
  <2>11. u < Len(messages'[k + 1].bytes)
    <3>1. CASE k = n
      BY <1>2, <1>3, <1>8, <3>1
    <3>2. CASE k # n
      <4>1. k + 1 \in 1..n
        BY <1>3, <1>8, <3>2
      <4>2. QED
        BY <1>3, <1>8, <3>2, <4>1
    <3>3. QED
      BY <3>1, <3>2
  <2>12. QED
    BY <1>8, <2>6, <2>7, <2>8, <2>9, <2>10, <2>11 DEF At
<1>11. Handed(k, u)'
  <2>1. Partial(messages[k + 1], u)' = Partial(messages[k + 1], u)
    BY <1>9 DEF Partial
  <2>2. QED
    BY <1>1, <1>7, <1>8, <1>4, <2>1 DEF Decoding, Handed
<1>12. Answered(k)'
  <2>1. Unsaid' = Unsaid
    BY <1>1 DEF Unsaid
  <2>2. QED
    BY <1>1, <1>7, <1>8, <1>4, <2>1, SaidKept DEF Decoding, Answered
<1>13. Decoding(k, u)'
  BY <1>10, <1>11, <1>12 DEF Decoding
<1>14. QED
  BY <1>5, <1>6, <1>13 DEF StreamInv

-----------------------------------------------------------------------------
(* The decoder takes a byte.                                                 *)

\* A byte that waits belongs to a message that is under way.
LEMMA NextByte ==
  ASSUME messages \in Seq(Legal), raw \in Seq(Bytes), inbound \in Seq(Bytes),
         NEW k, NEW u, At(k, u), Undecoded # <<>>
  PROVE  /\ k \in 0..(Len(messages) - 1) /\ k + 1 \in 1..Len(messages)
         /\ messages[k + 1] \in Legal /\ u \in 0..(Len(messages[k + 1].bytes) - 1)
         /\ Head(Undecoded) = messages[k + 1].bytes[u + 1]
         /\ Joined(BytesOf, k + 1) = Joined(BytesOf, k) \o messages[k + 1].bytes
         /\ Joined(DataOf, k + 1) = Joined(DataOf, k) \o messages[k + 1].data
         /\ Joined(RefusalOf, k + 1) = Joined(RefusalOf, k) \o messages[k + 1].refusal
         /\ Joined(BytesOf, k) \in Seq(Bytes) /\ Joined(DataOf, k) \in Seq(Bytes)
<1> DEFINE n == Len(messages)
           full == Joined(BytesOf, n)
           done == Joined(BytesOf, k)
<1>1. /\ n \in Nat /\ k \in 0..n /\ u \in Nat
      /\ IF k = n THEN u = 0 ELSE u < Len(messages[k + 1].bytes)
      /\ Len(full) = (Len(done) + u) + Len(Undecoded)
      /\ \A i \in 1..Len(Undecoded) : Undecoded[i] = full[(Len(done) + u) + i]
  BY DEF At
<1>2. Undecoded \in Seq(Bytes)
  BY ConcatProperties DEF Undecoded
<1>3. Len(Undecoded) \in Nat /\ Len(Undecoded) >= 1 /\ Head(Undecoded) = Undecoded[1]
  BY <1>2
<1>4. /\ BytesOf \in Seq(Seq(Bytes)) /\ DataOf \in Seq(Seq(Bytes)) /\ RefusalOf \in Seq(Seq(Bytes))
      /\ Len(BytesOf) = n /\ Len(DataOf) = n /\ Len(RefusalOf) = n
      /\ \A i \in 1..n : /\ messages[i] \in Legal /\ BytesOf[i] = messages[i].bytes
                         /\ DataOf[i] = messages[i].data /\ RefusalOf[i] = messages[i].refusal
  BY ListsOf
<1> HIDE DEF n
<1>5. /\ full \in Seq(Bytes) /\ done \in Seq(Bytes) /\ Joined(DataOf, k) \in Seq(Bytes)
      /\ Len(done) \in Nat
  <2>1. n \in 0..Len(BytesOf) /\ k \in 0..Len(BytesOf) /\ k \in 0..Len(DataOf)
    BY <1>1, <1>4
  <2>2. QED
    BY <1>4, <2>1, JoinedGrows
<1>6. k # n
  <2>1. SUFFICES ASSUME k = n PROVE FALSE
    OBVIOUS
  <2>2. u = 0 /\ Len(full) = Len(done)
    BY <1>1, <2>1
  <2>3. QED
    BY <1>1, <1>3, <1>5, <2>2
<1>7. k \in 0..(n - 1) /\ k + 1 \in 1..n /\ k + 1 \in 0..n
  BY <1>1, <1>6
<1>8. messages[k + 1] \in Legal
  BY <1>4, <1>7
<1>9. messages[k + 1].bytes \in Seq(Bytes) /\ u \in 0..(Len(messages[k + 1].bytes) - 1)
  <2>1. messages[k + 1].bytes \in Seq(Bytes)
    BY <1>8, LegalShape
  <2>2. QED
    BY <1>1, <1>6, <2>1
<1>10. /\ Joined(BytesOf, k + 1) = done \o messages[k + 1].bytes
       /\ Joined(DataOf, k + 1) = Joined(DataOf, k) \o messages[k + 1].data
       /\ Joined(RefusalOf, k + 1) = Joined(RefusalOf, k) \o messages[k + 1].refusal
  <2>1. k \in 0..(Len(BytesOf) - 1) /\ k \in 0..(Len(DataOf) - 1) /\ k \in 0..(Len(RefusalOf) - 1)
    BY <1>4, <1>7
  <2>2. /\ Joined(BytesOf, k + 1) = Joined(BytesOf, k) \o BytesOf[k + 1]
        /\ Joined(DataOf, k + 1) = Joined(DataOf, k) \o DataOf[k + 1]
        /\ Joined(RefusalOf, k + 1) = Joined(RefusalOf, k) \o RefusalOf[k + 1]
    BY <1>4, <2>1, JoinedStep
  <2>3. QED
    BY <1>4, <1>7, <2>2
<1>11. Head(Undecoded) = messages[k + 1].bytes[u + 1]
  <2> DEFINE b == messages[k + 1].bytes
             more == Joined(BytesOf, k + 1)
             j == (Len(done) + u) + 1
  <2>1. Head(Undecoded) = full[j]
    BY <1>1, <1>3
  <2>2. /\ Len(more) = Len(done) + Len(b)
        /\ \A i \in 1..(Len(done) + Len(b)) :
             more[i] = IF i <= Len(done) THEN done[i] ELSE b[i - Len(done)]
    <3>1. done \in Seq(Bytes) /\ b \in Seq(Bytes) /\ more = done \o b
      BY <1>5, <1>9, <1>10
    <3> HIDE DEF b, more, done
    <3>2. QED
      BY <3>1, ConcatProperties
  <2>3. \A i \in 1..Len(more) : full[i] = more[i]
    <3>1. k + 1 \in 0..Len(BytesOf) /\ n \in 0..Len(BytesOf) /\ k + 1 <= n
      BY <1>1, <1>4, <1>7
    <3>2. QED
      BY <1>4, <3>1, JoinedGrows, ZenonT(40)
  <2>4. b \in Seq(Bytes) /\ Len(b) \in Nat /\ u \in 0..(Len(b) - 1) /\ Len(done) \in Nat
    BY <1>5, <1>9
  <2> HIDE DEF b, more, full, done
  <2>5. j \in 1..(Len(done) + Len(b)) /\ ~(j <= Len(done)) /\ j - Len(done) = u + 1
    BY <2>4
  <2>6. full[j] = b[u + 1]
    BY <2>2, <2>3, <2>5
  <2>7. QED
    BY <2>1, <2>6 DEF b
<1>12. QED
  BY <1>5, <1>7, <1>8, <1>9, <1>10, <1>11 DEF n

LEMMA DecodeKept == ASSUME StreamInv, Telnet!Decode PROVE StreamInv'
<1> DEFINE b == Head(raw)
           d == Telnet!Decoded(b)
<1>1. /\ raw # <<>> /\ reply = <<>> /\ raw' = Tail(raw)
      /\ state' = d.state /\ cmd' = d.cmd /\ lastCR' = d.lastCR
      /\ out' = out \o d.data /\ reply' = d.reply
      /\ UNCHANGED <<messages, inbound, returned, left, heard, said, failed>>
  BY DEF Telnet!Decode, Telnet!writeVars
<1> HIDE DEF d
<1>2. /\ messages \in Seq(Legal) /\ raw \in Seq(Bytes) /\ inbound \in Seq(Bytes)
      /\ returned \in Seq(Bytes) /\ out \in Seq(Bytes)
  BY DEF StreamInv, StreamTyped
<1>3. /\ Undecoded \in Seq(Bytes) /\ Undecoded # <<>> /\ Head(Undecoded) = b
      /\ Undecoded' \in Seq(Bytes) /\ Len(Undecoded') = Len(Undecoded) - 1
      /\ \A i \in 1..Len(Undecoded') : Undecoded'[i] = Undecoded[i + 1]
  <2> DEFINE rest == Tail(raw) \o inbound
             all == raw \o inbound
  <2>1. rest \in Seq(Bytes) /\ all \in Seq(Bytes)
    BY <1>1, <1>2, ConcatProperties
  <2>2. /\ Len(raw) >= 1 /\ Tail(raw) \in Seq(Bytes) /\ Len(Tail(raw)) = Len(raw) - 1
        /\ \A i \in 1..Len(Tail(raw)) : Tail(raw)[i] = raw[i + 1]
    BY <1>1, <1>2
  <2>3. /\ Len(rest) = Len(Tail(raw)) + Len(inbound)
        /\ \A i \in 1..(Len(Tail(raw)) + Len(inbound)) :
             rest[i] = IF i <= Len(Tail(raw)) THEN Tail(raw)[i] ELSE inbound[i - Len(Tail(raw))]
    BY <1>2, <2>2, ConcatProperties
  <2>4. /\ Len(all) = Len(raw) + Len(inbound)
        /\ \A i \in 1..(Len(raw) + Len(inbound)) :
             all[i] = IF i <= Len(raw) THEN raw[i] ELSE inbound[i - Len(raw)]
    BY <1>2, ConcatProperties
  <2>5. Len(raw) \in Nat /\ Len(inbound) \in Nat
    BY <1>2
  <2>6. Undecoded = all /\ Undecoded' = rest
    BY <1>1 DEF Undecoded
  <2> HIDE DEF rest, all
  <2>7. all # <<>> /\ Head(all) = b
    <3>1. 1 \in 1..(Len(raw) + Len(inbound)) /\ Len(all) >= 1
      BY <2>2, <2>4, <2>5
    <3>2. all[1] = raw[1]
      BY <2>2, <2>4, <3>1
    <3>3. QED
      BY <1>1, <1>2, <2>1, <3>1, <3>2
  <2>8. ASSUME NEW i \in 1..Len(rest) PROVE rest[i] = all[i + 1]
    <3>1. i \in 1..(Len(Tail(raw)) + Len(inbound)) /\ i + 1 \in 1..(Len(raw) + Len(inbound))
      BY <2>2, <2>3, <2>5
    <3>2. CASE i <= Len(Tail(raw))
      <4>1. i \in 1..Len(Tail(raw)) /\ i + 1 <= Len(raw)
        BY <2>2, <2>5, <3>1, <3>2
      <4>2. QED
        BY <2>2, <2>3, <2>4, <3>1, <4>1
    <3>3. CASE ~(i <= Len(Tail(raw)))
      <4>1. ~(i + 1 <= Len(raw)) /\ (i + 1) - Len(raw) = i - Len(Tail(raw))
        BY <2>2, <2>5, <3>1, <3>3
      <4>2. QED
        BY <2>3, <2>4, <3>1, <3>3, <4>1
    <3>4. QED
      BY <3>2, <3>3
  <2>9. Len(rest) = Len(all) - 1
    BY <2>2, <2>3, <2>4, <2>5
  <2>10. QED
    BY <2>1, <2>6, <2>7, <2>8, <2>9
<1>4. PICK k, u : Decoding(k, u)
  BY DEF StreamInv
<1> DEFINE m == messages[k + 1]
<1>5. /\ k \in 0..(Len(messages) - 1) /\ k + 1 \in 1..Len(messages) /\ m \in Legal
      /\ u \in 0..(Len(m.bytes) - 1) /\ b = m.bytes[u + 1]
      /\ Joined(BytesOf, k + 1) = Joined(BytesOf, k) \o m.bytes
      /\ Joined(DataOf, k + 1) = Joined(DataOf, k) \o m.data
      /\ Joined(RefusalOf, k + 1) = Joined(RefusalOf, k) \o m.refusal
      /\ Joined(BytesOf, k) \in Seq(Bytes) /\ Joined(DataOf, k) \in Seq(Bytes)
  BY <1>2, <1>3, <1>4, NextByte DEF Decoding
<1>6. /\ m.bytes \in Seq(Bytes) /\ Len(m.bytes) \in Nat /\ m.data \in Seq(Bytes)
      /\ m.refusal \in Seq(Bytes)
  BY <1>5, LegalShape
<1>7. /\ u + 1 < Len(m.bytes) =>
           /\ Inside(m, u + 1, d.state, d.cmd, d.lastCR) /\ d.reply = <<>>
           /\ Partial(m, u) \o d.data = Partial(m, u + 1)
      /\ u + 1 = Len(m.bytes) =>
           /\ d.state = "data" /\ ~d.lastCR /\ d.reply = m.refusal
           /\ Partial(m, u) \o d.data = m.data
  BY <1>4, <1>5, Turn, ZenonT(40) DEF Decoding, At, d
<1>8. d.state \in States /\ d.data \in Seq(Bytes) /\ d.reply \in Seq(Bytes)
  <2>1. b \in Bytes /\ state \in States
    BY <1>1, <1>2 DEF StreamInv, StreamTyped
  <2>2. d.state \in States /\ d.data \in {<<>>, <<b>>}
    BY <2>1, Zenon DEF d, States, Telnet!Decoded, Telnet!OfData, Telnet!OfCommand, Telnet!Goes,
                    Telnet!Emits
  <2>3. <<b>> \in Seq(Bytes) /\ <<>> \in Seq(Bytes)
    BY <2>1
  <2>4. u + 1 < Len(m.bytes) \/ u + 1 = Len(m.bytes)
    BY <1>5, <1>6
  <2>5. d.reply \in Seq(Bytes)
    BY <1>6, <1>7, <2>3, <2>4
  <2>6. QED
    BY <2>2, <2>3, <2>5
<1>9. StreamTyped'
  <2>1. out \o d.data \in Seq(Bytes) /\ Tail(raw) \in Seq(Bytes)
    BY <1>1, <1>2, <1>8, ConcatProperties
  <2>2. QED
    BY <1>1, <1>8, <2>1 DEF StreamInv, StreamTyped
<1>10. left["reader"] = <<>> /\ Sharing'
  <2>1. left["reader"] = <<>>
    BY <1>1 DEF StreamInv, Sharing
  <2>2. QED
    BY <1>1, <2>1, SaidKept DEF StreamInv, Sharing
<1> DEFINE start == Len(Joined(BytesOf, k)) + u
           all == Joined(BytesOf, Len(messages))
<1>11. /\ k \in 0..Len(messages) /\ u \in Nat /\ Len(all) = start + Len(Undecoded)
       /\ \A i \in 1..Len(Undecoded) : Undecoded[i] = all[start + i]
       /\ returned \o out = Joined(DataOf, k) \o Partial(m, u)
       /\ ~failed => Telnet!Refusals \o Unsaid = Joined(RefusalOf, k)
  BY <1>4 DEF Decoding, At, Handed, Answered
<1>12. start \in Nat /\ Len(Undecoded) \in Nat
  BY <1>3, <1>5, SMTT(30)
<1>13. /\ Len(all) = (start + 1) + Len(Undecoded')
       /\ \A i \in 1..Len(Undecoded') : Undecoded'[i] = all[(start + 1) + i]
  <2> DEFINE n == Len(Undecoded')
  <2>1. n = Len(Undecoded) - 1 /\ n \in Nat
    BY <1>3
  <2> HIDE DEF start, all, n
  <2>2. Len(all) = (start + 1) + n
    BY <1>11, <1>12, <2>1
  <2>3. ASSUME NEW i \in 1..n PROVE Undecoded'[i] = all[(start + 1) + i]
    <3>1. i + 1 \in 1..Len(Undecoded) /\ start + (i + 1) = (start + 1) + i
      BY <1>12, <2>1
    <3>2. Undecoded[i + 1] = all[start + (i + 1)]
      BY <1>11, <3>1
    <3>3. Undecoded'[i] = Undecoded[i + 1]
      BY <1>3 DEF n
    <3>4. QED
      BY <3>1, <3>2, <3>3
  <2>4. QED
    BY <2>2, <2>3 DEF n
<1>14. /\ BytesOf' = BytesOf /\ DataOf' = DataOf /\ RefusalOf' = RefusalOf
       /\ Unsaid = <<>> /\ Unsaid' = d.reply
  BY <1>1, <1>10 DEF BytesOf, DataOf, RefusalOf, Unsaid
<1>15. /\ \A j : /\ Joined(BytesOf, j)' = Joined(BytesOf, j)
                 /\ Joined(DataOf, j)' = Joined(DataOf, j)
                 /\ Joined(RefusalOf, j)' = Joined(RefusalOf, j)
  BY <1>14, Zenon DEF Joined
<1>16. Telnet!Refusals \in Seq(Bytes) /\ Telnet!Refusals' = Telnet!Refusals
  BY <1>1, SayingTypes, SaidKept DEF StreamInv, StreamTyped
<1>17. (returned \o out)' = Joined(DataOf, k) \o (Partial(m, u) \o d.data)
  <2>1. Partial(m, u) \in Seq(Bytes)
    BY ByteNames DEF Partial
  <2>2. (returned \o out) \o d.data = returned \o (out \o d.data)
    BY <1>2, <1>8, Regrouped, ZenonT(40)
  <2>3. (Joined(DataOf, k) \o Partial(m, u)) \o d.data
          = Joined(DataOf, k) \o (Partial(m, u) \o d.data)
    BY <1>5, <1>8, <2>1, Regrouped, Zenon
  <2>4. QED
    BY <1>1, <1>11, <2>2, <2>3
<1>18. ~failed => Telnet!Refusals = Joined(RefusalOf, k)
  BY <1>11, <1>14, <1>16, ConcatEmptySeq
<1>19. CASE u + 1 < Len(m.bytes)
  <2>1. At(k, u + 1)'
    <3>1. Inside(messages[k + 1], u + 1, state, cmd, lastCR)'
      BY <1>1, <1>7, <1>19, Zenon DEF Inside
    <3>2. (Len(Joined(BytesOf, k)) + (u + 1))' = start + 1
      <4> DEFINE j == Len(Joined(BytesOf, k))
      <4>1. j \in Nat /\ u \in Nat /\ j' = j
        BY <1>5, <1>11, <1>15, SMTT(30)
      <4> HIDE DEF j
      <4>2. j' + (u + 1) = (j + u) + 1
        BY <4>1
      <4>3. QED
        BY <4>2 DEF j
    <3>3. k \in 0..Len(messages') /\ u + 1 \in Nat /\ k # Len(messages')
          /\ u + 1 < Len(messages'[k + 1].bytes)
      BY <1>1, <1>5, <1>11, <1>19
    <3>4. Joined(BytesOf, Len(messages))' = all
      BY <1>1, <1>14, Zenon DEF Joined
    <3> HIDE DEF start, all
    <3>5. QED
      BY <1>13, <3>1, <3>2, <3>3, <3>4 DEF At
  <2>2. Handed(k, u + 1)'
    <3>1. Partial(messages[k + 1], u + 1)' = Partial(m, u + 1)
      BY <1>1, Zenon DEF Partial
    <3>2. QED
      BY <1>7, <1>15, <1>17, <1>19, <3>1 DEF Handed
  <2>3. Answered(k)'
    <3>1. d.reply = <<>>
      BY <1>7, <1>19
    <3>2. QED
      BY <1>1, <1>14, <1>15, <1>16, <1>18, <3>1, ConcatEmptySeq DEF Answered
  <2>4. Decoding(k, u + 1)'
    BY <2>1, <2>2, <2>3 DEF Decoding
  <2>5. QED
    BY <1>9, <1>10, <2>4 DEF StreamInv
<1>20. CASE u + 1 = Len(m.bytes)
  <2>1. At(k + 1, 0)'
    <3>1. Inside(messages[(k + 1) + 1], 0, state, cmd, lastCR)'
      <4>1. state' = "data" /\ ~lastCR'
        BY <1>1, <1>7, <1>20
      <4>2. QED
        BY <4>1 DEF Inside
    <3>2. (Len(Joined(BytesOf, k + 1)) + 0)' = start + 1
      <4>1. Len(Joined(BytesOf, k + 1)) = Len(Joined(BytesOf, k)) + Len(m.bytes)
        BY <1>5, <1>6, ConcatProperties
      <4> DEFINE j == Len(Joined(BytesOf, k))
                 l == Len(m.bytes)
      <4>2. j \in Nat /\ l \in Nat /\ u \in Nat /\ u + 1 = l
        BY <1>5, <1>6, <1>11, <1>20
      <4> HIDE DEF j, l
      <4>3. Len(Joined(BytesOf, k + 1)) = j + l /\ start = j + u
        BY <4>1 DEF j, l
      <4> HIDE DEF start
      <4>4. Len(Joined(BytesOf, k + 1)) = start + 1 /\ start + 1 \in Nat
        BY <4>2, <4>3
      <4>5. Len(Joined(BytesOf, k + 1))' = Len(Joined(BytesOf, k + 1))
        BY <1>15
      <4>6. QED
        BY <4>4, <4>5
    <3>3. k + 1 \in 0..Len(messages') /\ 0 \in Nat
      BY <1>1, <1>5
    <3>4. Joined(BytesOf, Len(messages))' = all
      BY <1>1, <1>14, Zenon DEF Joined
    <3>5. k + 1 # Len(messages') => 0 < Len(messages'[(k + 1) + 1].bytes)
      <4>1. ASSUME k + 1 # Len(messages) PROVE 0 < Len(messages[(k + 1) + 1].bytes)
        <5> DEFINE n == Len(messages)
        <5>1. n \in Nat /\ k + 1 \in 1..n /\ k + 1 # n
          BY <1>2, <1>5, <4>1
        <5> HIDE DEF n
        <5>2. (k + 1) + 1 \in 1..n
          BY <5>1
        <5>3. (k + 1) + 1 \in 1..Len(messages)
          BY <5>2 DEF n
        <5>4. messages[(k + 1) + 1] \in Legal
          BY <1>2, <5>3
        <5>5. messages[(k + 1) + 1].bytes \in Seq(Bytes) /\ Len(messages[(k + 1) + 1].bytes) >= 1
          BY <5>4, LegalShape
        <5>6. QED
          BY <5>5
      <4>2. QED
        BY <1>1, <4>1
    <3> HIDE DEF start, all
    <3>6. QED
      BY <1>13, <3>1, <3>2, <3>3, <3>4, <3>5 DEF At
  <2>2. Handed(k + 1, 0)'
    <3>1. Partial(messages[(k + 1) + 1], 0)' = <<>>
      BY DEF Partial
    <3>2. (returned \o out)' = Joined(DataOf, k + 1)
      BY <1>5, <1>7, <1>17, <1>20
    <3>3. Joined(DataOf, k + 1) \o <<>> = Joined(DataOf, k + 1)
      <4>1. Joined(DataOf, k + 1) \in Seq(Bytes)
        BY <1>5, <1>6, ConcatProperties, ZenonT(40)
      <4>2. QED
        BY <4>1, ConcatEmptySeq
    <3>4. QED
      BY <1>15, <3>1, <3>2, <3>3 DEF Handed
  <2>3. Answered(k + 1)'
    BY <1>1, <1>5, <1>7, <1>14, <1>15, <1>16, <1>18, <1>20 DEF Answered
  <2>4. Decoding(k + 1, 0)'
    BY <2>1, <2>2, <2>3 DEF Decoding
  <2>5. QED
    BY <1>9, <1>10, <2>4 DEF StreamInv
<1>21. u + 1 < Len(m.bytes) \/ u + 1 = Len(m.bytes)
  BY <1>5, <1>6
<1>22. QED
  BY <1>19, <1>20, <1>21

-----------------------------------------------------------------------------
(* The rest of Read.                                                         *)

LEMMA DecodingKept ==
  ASSUME StreamInv, StreamTyped', UNCHANGED <<messages, raw, inbound, state, cmd, lastCR,
                                              returned, out, said, failed, heard, reply, left>>
  PROVE  StreamInv'
<1>1. PICK k, u : Decoding(k, u)
  BY DEF StreamInv
<1>2. Decoding(k, u)'
  BY <1>1, AtKept, HandedKept, AnsweredKept DEF Decoding
<1>3. Sharing'
  BY SharingKept DEF StreamInv
<1>4. QED
  BY <1>2, <1>3 DEF StreamInv

LEMMA ReceiveKept == ASSUME StreamInv, Telnet!Receive PROVE StreamInv'
<1>1. PICK n \in 1..size :
        /\ n <= Len(inbound)
        /\ raw' = SubSeq(inbound, 1, n) /\ inbound' = SubSeq(inbound, n + 1, Len(inbound))
  BY DEF Telnet!Receive
<1>2. /\ raw = <<>>
      /\ UNCHANGED <<messages, state, cmd, lastCR, returned, out, said, failed, heard, reply, left>>
  BY DEF Telnet!Receive, Telnet!ChunkDone, Telnet!decoderVars, Telnet!writeVars
<1>3. inbound \in Seq(Bytes) /\ Len(inbound) \in Nat /\ n \in 1..Len(inbound)
  BY <1>1 DEF StreamInv, StreamTyped
<1>4. raw' \in Seq(Bytes) /\ inbound' \in Seq(Bytes)
  BY <1>1, <1>3, SubSeqProperties
<1>5. StreamTyped'
  BY <1>2, <1>4 DEF StreamInv, StreamTyped
<1>6. Undecoded' = Undecoded
  <2>1. SubSeq(inbound, 1, n) \o SubSeq(inbound, n + 1, Len(inbound))
          = SubSeq(inbound, 1, Len(inbound))
    <3>1. /\ 1 \in 1..(Len(inbound) + 1) /\ n \in (1 - 1)..Len(inbound)
          /\ Len(inbound) \in n..Len(inbound)
      BY <1>3
    <3>2. QED
      BY <1>3, <3>1, ConcatAdjacentSubSeq
  <2>2. SubSeq(inbound, 1, Len(inbound)) = inbound /\ <<>> \o inbound = inbound
    BY <1>3, SubSeqFull, ConcatEmptySeq
  <2>3. QED
    BY <1>1, <1>2, <2>1, <2>2 DEF Undecoded
<1>7. PICK k, u : Decoding(k, u)
  BY DEF StreamInv
<1>8. At(k, u)'
  <2>1. BytesOf' = BytesOf
    BY <1>2 DEF BytesOf
  <2>2. QED
    BY <1>2, <1>6, <1>7, <2>1, Zenon DEF Decoding, At, Inside
<1>9. Decoding(k, u)'
  BY <1>2, <1>7, <1>8, HandedKept, AnsweredKept DEF Decoding
<1>10. Sharing'
  BY <1>2, SharingKept DEF StreamInv
<1>11. QED
  BY <1>5, <1>9, <1>10 DEF StreamInv

LEMMA ReturnKept == ASSUME StreamInv, Telnet!Return PROVE StreamInv'
<1>1. /\ returned' = returned \o out /\ out' = <<>>
      /\ UNCHANGED <<messages, raw, inbound, state, cmd, lastCR, said, failed, heard, reply, left>>
  BY DEF Telnet!Return, Telnet!decoderVars, Telnet!writeVars
<1>2. returned \in Seq(Bytes) /\ out \in Seq(Bytes)
  BY DEF StreamInv, StreamTyped
<1>3. /\ returned \o out \in Seq(Bytes) /\ <<>> \in Seq(Bytes)
      /\ (returned \o out) \o <<>> = returned \o out
  BY <1>2, ConcatProperties, ConcatEmptySeq
<1>4. StreamTyped'
  BY <1>1, <1>3 DEF StreamInv, StreamTyped
<1>5. PICK k, u : Decoding(k, u)
  BY DEF StreamInv
<1>6. Handed(k, u)'
  <2>1. (returned \o out)' = returned \o out /\ DataOf' = DataOf
    BY <1>1, <1>3 DEF DataOf
  <2>2. QED
    BY <1>1, <1>5, <2>1, Zenon DEF Decoding, Handed, Partial
<1>7. Decoding(k, u)'
  BY <1>1, <1>5, <1>6, AtKept, AnsweredKept DEF Decoding
<1>8. Sharing'
  BY <1>1, SharingKept DEF StreamInv
<1>9. QED
  BY <1>4, <1>7, <1>8 DEF StreamInv

-----------------------------------------------------------------------------
(* The two writers.                                                          *)

\* Whoever takes the connection to write says one thing more.
LEMMA TakeKept ==
  ASSUME StreamInv, NEW s \in Saying, NEW w \in Writers, Spoken(s) # <<>>,
         Telnet!Take(w, Spoken(s), s), w = s.by, s.by = "reader" => reply # <<>> /\ s.what = reply,
         UNCHANGED <<messages, raw, inbound, state, cmd, lastCR, returned, out, failed,
                     heard, reply>>
  PROVE  StreamInv'
<1>1. /\ left["reader"] = <<>> /\ left["session"] = <<>> /\ said' = Append(said, s)
      /\ left' = [left EXCEPT ![w] = Spoken(s)]
  BY DEF Telnet!Take, Telnet!Free, Telnet!Writers
<1>2. /\ said \in Seq(Saying) /\ left \in [Writers -> Seq(Bytes)] /\ heard \in Seq(Bytes)
      /\ reply \in Seq(Bytes)
  BY DEF StreamInv, StreamTyped
<1>3. Writers = {"reader", "session"}
  BY DEF Writers, Telnet!Writers
<1>4. Spoken(s) \in Seq(Bytes)
  BY EscapeType DEF Saying, Spoken
<1>5. StreamTyped'
  BY <1>1, <1>2, <1>4 DEF StreamInv, StreamTyped
<1>6. /\ Telnet!Whole \in Seq(Bytes) /\ Telnet!Refusals \in Seq(Bytes)
      /\ Telnet!Whole' = Telnet!Whole \o Spoken(s)
      /\ Telnet!Refusals' = Telnet!Refusals \o Refused(s)
  BY <1>1, <1>2, SayingTypes
<1>7. ~failed => heard = Telnet!Whole
  <2>1. <<>> \o <<>> = <<>>
    BY ConcatEmptySeq
  <2>2. QED
    BY <1>1, <1>2, <2>1, ConcatEmptySeq DEF StreamInv, Sharing
<1>8. left'["reader"] \o left'["session"] = Spoken(s)
  BY <1>1, <1>2, <1>3, <1>4, ConcatEmptySeq
<1>9. Sharing'
  <2>1. left'["reader"] = <<>> \/ left'["session"] = <<>>
    BY <1>1, <1>2, <1>3
  <2>2. left'["reader"] # <<>> => reply' # <<>>
    BY <1>1, <1>2, <1>3
  <2>3. ~failed' => heard' \o (left'["reader"] \o left'["session"]) = Telnet!Whole'
    BY <1>6, <1>7, <1>8
  <2>4. QED
    BY <2>1, <2>2, <2>3 DEF Sharing
<1>10. PICK k, u : Decoding(k, u)
  BY DEF StreamInv
<1>11. Telnet!Refusals' \o Unsaid' = Telnet!Refusals \o Unsaid
  <2>1. CASE w = "reader"
    <3>1. /\ Refused(s) = reply /\ Spoken(s) = reply /\ left'["reader"] # <<>>
      BY <1>1, <1>2, <1>3, <2>1 DEF Refused, Spoken
    <3>2. Unsaid = reply /\ Unsaid' = <<>>
      BY <1>1, <3>1 DEF Unsaid
    <3>3. Telnet!Refusals \o reply \in Seq(Bytes)
      BY <1>2, <1>6, ConcatProperties
    <3>4. QED
      BY <1>6, <3>1, <3>2, <3>3, ConcatEmptySeq
  <2>2. CASE w = "session"
    <3>1. Refused(s) = <<>> /\ left'["reader"] = <<>>
      BY <1>1, <1>2, <1>3, <2>2 DEF Refused
    <3>2. Unsaid' = Unsaid
      BY <1>1, <3>1 DEF Unsaid
    <3>3. QED
      BY <1>6, <3>1, <3>2, ConcatEmptySeq
  <2>3. QED
    BY <1>3, <2>1, <2>2
<1>12. Answered(k)'
  <2>1. RefusalOf' = RefusalOf
    BY DEF RefusalOf
  <2>2. QED
    BY <1>10, <1>11, <2>1 DEF Decoding, Answered
<1>13. Decoding(k, u)'
  BY <1>10, <1>12, AtKept, HandedKept DEF Decoding
<1>14. QED
  BY <1>5, <1>9, <1>13 DEF StreamInv

LEMMA RefuseKept == ASSUME StreamInv, Telnet!Refuse PROVE StreamInv'
<1> DEFINE s == [by |-> "reader", what |-> reply]
<1>1. /\ reply # <<>> /\ Telnet!Take("reader", reply, s)
      /\ UNCHANGED <<messages, raw, inbound, state, cmd, lastCR, returned, out, failed,
                     heard, reply>>
  BY DEF Telnet!Refuse, Telnet!decoderVars, Telnet!readVars
<1>2. reply \in Seq(Bytes) /\ "reader" \in Writers
  BY DEF StreamInv, StreamTyped, Writers, Telnet!Writers
<1>3. s \in Saying /\ Spoken(s) = reply /\ s.by = "reader" /\ s.what = reply
  BY <1>2 DEF Saying, Spoken
<1> HIDE DEF s
<1>4. QED
  BY <1>1, <1>2, <1>3, TakeKept

\* What is escaped is not less than the line.
LEMMA EscapeSome ==
  ASSUME NEW line \in Seq(Bytes) \ {<<>>} PROVE Telnet!Escape(line) # <<>>
<1> DEFINE parts == [i \in 1..Len(line) |->
                       IF line[i] = "IAC" THEN <<"IAC", "IAC">> ELSE <<line[i]>>]
<1>1. Len(line) \in Nat /\ Len(line) >= 1 /\ \A i \in 1..Len(line) : line[i] \in Bytes
  OBVIOUS
<1>2. \A b \in Bytes : <<b>> \in Seq(Bytes) /\ <<b, b>> \in Seq(Bytes)
  OBVIOUS
<1>3. "IAC" \in Bytes
  BY ByteNames
<1>4. parts \in [1..Len(line) -> Seq(Bytes)]
  BY <1>1, <1>2, <1>3
<1>5. parts \in Seq(Seq(Bytes)) /\ Len(parts) = Len(line)
  BY <1>1, <1>4
<1>6. Telnet!Escape(line) = FlattenSeq(parts)
  BY SameFlatten, Zenon DEF Telnet!Escape
<1>7. Len(parts[1]) >= 1
  BY <1>1
<1> HIDE DEF parts
<1>8. /\ Joined(parts, 0) = <<>> /\ Joined(parts, 1) \in Seq(Bytes)
      /\ Joined(parts, Len(parts)) \in Seq(Bytes)
      /\ Len(Joined(parts, 1)) <= Len(Joined(parts, Len(parts)))
  <2>1. 1 \in 0..Len(parts) /\ Len(parts) \in 0..Len(parts) /\ 1 <= Len(parts)
    BY <1>1, <1>5
  <2>2. QED
    BY <1>5, <2>1, JoinedGrows
<1>9. Joined(parts, 0 + 1) = Joined(parts, 0) \o parts[0 + 1]
  <2>1. 0 \in 0..(Len(parts) - 1)
    BY <1>1, <1>5
  <2>2. QED
    BY <1>5, <2>1, JoinedStep
<1>10. Joined(parts, 1) = parts[1]
  <2>1. parts[1] \in Seq(Bytes)
    BY <1>1, <1>4
  <2>2. Joined(parts, 1) = <<>> \o parts[1]
    <3>1. 0 + 1 = 1
      OBVIOUS
    <3>2. QED
      BY <1>8, <1>9, <3>1, Zenon
  <2>3. QED
    BY <2>1, <2>2, ConcatEmptySeq
<1>11. Len(Joined(parts, Len(parts))) >= 1
  BY <1>7, <1>8, <1>10
<1>12. QED
  BY <1>5, <1>6, <1>11, JoinedWhole

LEMMA WriteKept ==
  ASSUME StreamInv, NEW line \in Commands, Telnet!Write(line) PROVE StreamInv'
<1> DEFINE s == [by |-> "session", what |-> line]
<1>1. /\ Telnet!Take("session", Telnet!Escape(line), s)
      /\ UNCHANGED <<messages, raw, inbound, state, cmd, lastCR, returned, out, failed,
                     heard, reply>>
  BY DEF Telnet!Write, Telnet!decoderVars, Telnet!readVars
<1>2. line \in Seq(Bytes) \ {<<>>} /\ "session" \in Writers
  BY TelnetAssumption DEF Telnet!Constants, Bytes, Writers, Telnet!Writers
<1>3. s \in Saying /\ Spoken(s) = Telnet!Escape(line) /\ s.by = "session"
  BY <1>2 DEF Saying, Spoken
<1>4. Spoken(s) # <<>>
  BY <1>2, <1>3, EscapeSome
<1> HIDE DEF s
<1>5. QED
  BY <1>1, <1>2, <1>3, <1>4, TakeKept

LEMMA TransmitKept ==
  ASSUME StreamInv, NEW w \in Writers, Telnet!Transmit(w) PROVE StreamInv'
<1>1. PICK n \in 1..Len(left[w]) :
        /\ heard' = heard \o SubSeq(left[w], 1, n)
        /\ left' = [left EXCEPT ![w] = SubSeq(left[w], n + 1, Len(left[w]))]
  BY DEF Telnet!Transmit
<1>2. /\ reply' = IF w = "reader" /\ left'[w] = <<>> THEN <<>> ELSE reply
      /\ UNCHANGED <<messages, raw, inbound, state, cmd, lastCR, returned, out, said, failed>>
  BY DEF Telnet!Transmit, Telnet!decoderVars, Telnet!readVars
<1>3. /\ left \in [Writers -> Seq(Bytes)] /\ heard \in Seq(Bytes) /\ reply \in Seq(Bytes)
      /\ Writers = {"reader", "session"}
  BY DEF StreamInv, StreamTyped, Writers, Telnet!Writers
<1> DEFINE first == SubSeq(left[w], 1, n)
           rest == SubSeq(left[w], n + 1, Len(left[w]))
<1>4. left[w] \in Seq(Bytes) /\ Len(left[w]) \in Nat /\ n \in 1..Len(left[w]) /\ left[w] # <<>>
  BY <1>1, <1>3
<1>5. first \in Seq(Bytes) /\ rest \in Seq(Bytes) /\ first \o rest = left[w]
  <2>1. first \in Seq(Bytes) /\ rest \in Seq(Bytes)
    BY <1>4, SubSeqProperties
  <2>2. /\ 1 \in 1..(Len(left[w]) + 1)
        /\ n \in (1 - 1)..Len(left[w]) /\ Len(left[w]) \in n..Len(left[w])
    BY <1>4
  <2>3. first \o rest = SubSeq(left[w], 1, Len(left[w]))
    BY <1>4, <2>2, ConcatAdjacentSubSeq
  <2>4. QED
    BY <1>4, <2>1, <2>3, SubSeqFull
<1> HIDE DEF first, rest
<1>6. heard' = heard \o first /\ left' = [left EXCEPT ![w] = rest]
  BY <1>1 DEF first, rest
<1>7. StreamTyped'
  <2>1. heard \o first \in Seq(Bytes) /\ reply' \in Seq(Bytes)
    BY <1>2, <1>3, <1>5, ConcatProperties
  <2>2. left' \in [Writers -> Seq(Bytes)]
    BY <1>3, <1>5, <1>6
  <2>3. QED
    BY <1>2, <1>6, <2>1, <2>2 DEF StreamInv, StreamTyped
\* Only one of them has something left.
<1>8. \A other \in Writers : other # w => left[other] = <<>> /\ left'[other] = <<>>
  BY <1>3, <1>4, <1>6 DEF StreamInv, Sharing
<1>9. left'[w] = rest
  BY <1>3, <1>6
<1>10. /\ left["reader"] \o left["session"] = left[w]
       /\ left'["reader"] \o left'["session"] = rest
  <2>1. CASE w = "reader"
    BY <1>3, <1>4, <1>5, <1>8, <1>9, <2>1, ConcatEmptySeq
  <2>2. CASE w = "session"
    BY <1>3, <1>4, <1>5, <1>8, <1>9, <2>2, ConcatEmptySeq
  <2>3. QED
    BY <1>3, <2>1, <2>2
<1>11. Sharing'
  <2>1. left'["reader"] = <<>> \/ left'["session"] = <<>>
    BY <1>3, <1>8
  <2>2. left'["reader"] # <<>> => reply' # <<>>
    <3>1. left'["reader"] # <<>> => w = "reader" /\ left["reader"] # <<>>
      BY <1>3, <1>4, <1>8
    <3>2. left["reader"] # <<>> => reply # <<>>
      BY DEF StreamInv, Sharing
    <3>3. QED
      BY <1>2, <3>1, <3>2
  <2>3. ~failed' => heard' \o (left'["reader"] \o left'["session"]) = Telnet!Whole'
    <3>1. (heard \o first) \o rest = heard \o (first \o rest)
      BY <1>3, <1>5, Regrouped
    <3>2. ~failed => heard \o left[w] = Telnet!Whole
      BY <1>10 DEF StreamInv, Sharing
    <3>3. QED
      BY <1>2, <1>5, <1>6, <1>10, <3>1, <3>2, SaidKept
  <2>4. QED
    BY <2>1, <2>2, <2>3 DEF Sharing
<1>12. PICK k, u : Decoding(k, u)
  BY DEF StreamInv
<1>13. Unsaid' = Unsaid
  <2>1. CASE w = "reader"
    BY <1>2, <1>4, <2>1 DEF Unsaid
  <2>2. CASE w = "session"
    BY <1>2, <1>3, <1>8, <2>2 DEF Unsaid
  <2>3. QED
    BY <1>3, <2>1, <2>2
<1>14. Answered(k)'
  <2>1. RefusalOf' = RefusalOf
    BY <1>2 DEF RefusalOf
  <2>2. QED
    BY <1>2, <1>12, <1>13, <2>1, SaidKept, Zenon DEF Decoding, Answered
<1>15. Decoding(k, u)'
  BY <1>2, <1>12, <1>14, AtKept, HandedKept DEF Decoding
<1>16. QED
  BY <1>7, <1>11, <1>15 DEF StreamInv

LEMMA WriteFailsKept ==
  ASSUME StreamInv, NEW w \in Writers, Telnet!WriteFails(w) PROVE StreamInv'
<1>1. /\ left' = [left EXCEPT ![w] = <<>>] /\ failed' = TRUE
      /\ reply' = IF w = "reader" THEN <<>> ELSE reply
      /\ UNCHANGED <<messages, raw, inbound, state, cmd, lastCR, returned, out, heard, said>>
  BY DEF Telnet!WriteFails, Telnet!decoderVars
<1>2. /\ left \in [Writers -> Seq(Bytes)] /\ reply \in Seq(Bytes) /\ Writers = {"reader", "session"}
      /\ left["reader"] = <<>> \/ left["session"] = <<>>
      /\ left["reader"] # <<>> => reply # <<>>
  BY DEF StreamInv, StreamTyped, Sharing, Writers, Telnet!Writers
<1>3. StreamTyped'
  <2>1. left' \in [Writers -> Seq(Bytes)] /\ reply' \in Seq(Bytes)
    BY <1>1, <1>2
  <2>2. QED
    BY <1>1, <2>1 DEF StreamInv, StreamTyped
<1>4. Sharing'
  <2>1. left'["reader"] = <<>> \/ left'["session"] = <<>>
    BY <1>1, <1>2
  <2>2. left'["reader"] # <<>> => reply' # <<>>
    BY <1>1, <1>2
  <2>3. QED
    BY <1>1, <2>1, <2>2 DEF Sharing
<1>5. PICK k, u : Decoding(k, u)
  BY DEF StreamInv
<1>6. Answered(k)'
  BY <1>1 DEF Answered
<1>7. Decoding(k, u)'
  BY <1>1, <1>5, <1>6, AtKept, HandedKept DEF Decoding
<1>8. QED
  BY <1>3, <1>4, <1>7 DEF StreamInv

-----------------------------------------------------------------------------
(* Both layers.                                                              *)

LEMMA StreamStep == ASSUME LegalMessages, StreamInv, Telnet!Next PROVE StreamInv'
<1>1. CASE \E m \in Messages : Telnet!SwitchSends(m)
  BY <1>1, SendKept
<1>2. CASE Telnet!Read \/ Telnet!ReadFails
  <2>1. UNCHANGED <<messages, raw, inbound, state, cmd, lastCR,
                    returned, out, said, failed, heard, reply, left>>
    BY <1>2 DEF Telnet!Read, Telnet!ReadFails, Telnet!decoderVars, Telnet!writeVars
  <2>2. StreamTyped'
    BY <2>1 DEF StreamInv, StreamTyped
  <2>3. QED
    BY <2>1, <2>2, DecodingKept
<1>3. CASE \E line \in Commands : Telnet!Write(line)
  BY <1>3, WriteKept
<1>4. CASE \E w \in Writers : Telnet!Transmit(w) \/ Telnet!WriteFails(w)
  BY <1>4, TransmitKept, WriteFailsKept
<1>5. QED
  BY <1>1, <1>2, <1>3, <1>4, ReceiveKept, DecodeKept, RefuseKept, ReturnKept
     DEF Telnet!Next, Writers

LEMMA LayersAligned == ASSUME LegalMessages PROVE Layers => []StreamInv
<1>1. LayersInit => StreamInv
  BY StreamInit
<1>2. StreamInv /\ [LayersNext]_<<vars, startVars, streamVars, layer>> => StreamInv'
  <2>1. SUFFICES ASSUME StreamInv, [LayersNext]_<<vars, startVars, streamVars, layer>>
                 PROVE  StreamInv'
    OBVIOUS
  <2>2. CASE Telnet!Next
    BY <2>2, <2>1, StreamStep
  <2>3. CASE UNCHANGED streamVars
    <3>1. UNCHANGED <<messages, raw, inbound, state, cmd, lastCR,
                      returned, out, said, failed, heard, reply, left>>
      BY <2>3 DEF streamVars
    <3>2. StreamTyped'
      BY <2>1, <3>1 DEF StreamInv, StreamTyped
    <3>3. QED
      BY <2>1, <3>1, <3>2, DecodingKept
  <2>4. QED
    BY <2>1, <2>2, <2>3 DEF LayersNext
<1>3. QED
  BY <1>1, <1>2, PTL DEF Layers

-----------------------------------------------------------------------------
(* What the layer promises.                                                  *)

LEMMA SamePrefix ==
  \A s, t : Telnet!IsPrefix(s, t) <=>
              Len(s) <= Len(t) /\ SubSeq(s, 1, Len(s)) = SubSeq(t, 1, Len(s))
BY Zenon DEF Telnet!IsPrefix

\* A list that begins as another one is a prefix of it.
LEMMA Begins ==
  ASSUME NEW s \in Seq(Bytes), NEW t \in Seq(Bytes), Len(s) <= Len(t),
         \A i \in 1..Len(s) : t[i] = s[i]
  PROVE  Telnet!IsPrefix(s, t)
<1>1. Len(s) \in Nat /\ Len(t) \in Nat
  OBVIOUS
<1> DEFINE n == Len(s)
           a == SubSeq(s, 1, n)
           b == SubSeq(t, 1, n)
<1>2. \A i \in 1..n : s[i] \in Bytes /\ t[i] \in Bytes
  BY <1>1
<1>3. /\ a \in Seq(Bytes) /\ Len(a) = n /\ \A i \in 1..n : a[i] = s[i]
      /\ b \in Seq(Bytes) /\ Len(b) = n /\ \A i \in 1..n : b[i] = t[i]
  BY <1>1, <1>2
<1> HIDE DEF a, b
<1>4. a = b
  BY <1>3, SeqEqual
<1>5. QED
  BY <1>4, SamePrefix DEF a, b

\* What is joined of fewer lists is a prefix of what is joined of all.
LEMMA JoinedPrefix ==
  ASSUME NEW ss \in Seq(Seq(Bytes)), NEW k \in 0..Len(ss)
  PROVE  Telnet!IsPrefix(Joined(ss, k), FlattenSeq(ss))
<1>1. Len(ss) \in 0..Len(ss) /\ k <= Len(ss)
  OBVIOUS
<1>2. /\ Joined(ss, k) \in Seq(Bytes) /\ Joined(ss, Len(ss)) \in Seq(Bytes)
      /\ Len(Joined(ss, k)) <= Len(Joined(ss, Len(ss)))
      /\ \A i \in 1..Len(Joined(ss, k)) : Joined(ss, Len(ss))[i] = Joined(ss, k)[i]
  BY <1>1, JoinedGrows
<1>3. QED
  BY <1>2, Begins, JoinedWhole

\* What of a message is decoded before it ends is a prefix of its data.
LEMMA PartialPrefix ==
  ASSUME NEW m \in Legal, NEW u \in Nat
  PROVE  /\ Partial(m, u) \in Seq(Bytes) /\ Len(Partial(m, u)) <= Len(m.data)
         /\ \A i \in 1..Len(Partial(m, u)) : m.data[i] = Partial(m, u)[i]
<1> DEFINE Goal == /\ Partial(m, u) \in Seq(Bytes) /\ Len(Partial(m, u)) <= Len(m.data)
                   /\ \A i \in 1..Len(Partial(m, u)) : m.data[i] = Partial(m, u)[i]
<1> SUFFICES Goal
  OBVIOUS
<1>1. "CR" \in Bytes
  BY ByteNames
<1>2. m.data \in Seq(Bytes)
  BY LegalShape
<1>3. CASE m.bytes[1] # "CR"
  <2>1. Partial(m, u) = <<>>
    BY <1>3 DEF Partial
  <2>2. QED
    BY <1>2, <2>1
<1>4. CASE m \in {Sent(<<"CR", "NUL">>, <<"CR">>, <<>>), Sent(<<"CR", "LF">>, <<"CR", "LF">>, <<>>)}
  <2>1. m.data \in {<<"CR">>, <<"CR", "LF">>}
    BY <1>4 DEF Sent
  <2>2. Len(m.data) >= 1 /\ m.data[1] = "CR"
    BY <2>1
  <2>3. Partial(m, u) \in {<<>>, <<"CR">>}
    BY DEF Partial
  <2> DEFINE p == Partial(m, u)
  <2> HIDE DEF p
  <2>4. p \in {<<>>, <<"CR">>}
    BY <2>3 DEF p
  <2>5. p \in Seq(Bytes) /\ Len(p) <= Len(m.data) /\ \A i \in 1..Len(p) : m.data[i] = p[i]
    <3>1. CASE p = <<>>
      BY <1>2, <3>1
    <3>2. CASE p = <<"CR">>
      <4>1. p \in Seq(Bytes) /\ Len(p) = 1 /\ p[1] = "CR"
        BY <1>1, <3>2
      <4>2. \A i \in 1..Len(p) : i = 1
        BY <4>1
      <4>3. QED
        BY <2>2, <4>1, <4>2
    <3>3. QED
      BY <2>4, <3>1, <3>2
  <2>6. QED
    BY <2>5 DEF p
<1> HIDE DEF Goal
<1>5. m.bytes[1] # "CR" \/
      m \in {Sent(<<"CR", "NUL">>, <<"CR">>, <<>>), Sent(<<"CR", "LF">>, <<"CR", "LF">>, <<>>)}
  <2>1. ASSUME NEW b \in Bytes \ {"IAC", "CR"}, m = Sent(<<b>>, <<b>>, <<>>) PROVE m.bytes[1] # "CR"
    BY <2>1 DEF Sent
  <2>2. ASSUME m = Sent(<<"IAC", "IAC">>, <<"IAC">>, <<>>) PROVE m.bytes[1] # "CR"
    BY <2>2 DEF Sent
  <2>3. ASSUME NEW v, NEW o \in Bytes, NEW r, m = Option(v, o, r) PROVE m.bytes[1] # "CR"
    BY <2>3 DEF Option, Sent
  <2>4. ASSUME NEW b, b[1] = "IAC", m = Silent(b) PROVE m.bytes[1] # "CR"
    BY <2>4 DEF Silent, Sent
  <2>5. ASSUME NEW c \in Bytes, m = Silent(<<"IAC", c>>) PROVE m.bytes[1] # "CR"
    BY <2>4, <2>5
  <2>6. ASSUME m \in {Option("DO", o, <<"IAC", "WONT", o>>) : o \in Bytes} PROVE m.bytes[1] # "CR"
    BY <2>3, <2>6
  <2>7. ASSUME m \in {Option("WILL", o, <<"IAC", "DONT", o>>) : o \in Bytes} PROVE m.bytes[1] # "CR"
    BY <2>3, <2>7
  <2>8. ASSUME m \in {Option("DONT", o, <<>>) : o \in Bytes}
                     \cup {Option("WONT", o, <<>>) : o \in Bytes}
        PROVE  m.bytes[1] # "CR"
    BY <2>3, <2>8
  <2>9. ASSUME m \in {Silent(b) : b \in {s \in Seq(Bytes) : Subnegotiation(s)}}
        PROVE  m.bytes[1] # "CR"
    BY <2>4, <2>9 DEF Subnegotiation
  <2>10. QED
    BY <2>1, <2>2, <2>5, <2>6, <2>7, <2>8, <2>9 DEF Legal
<1>6. QED
  BY <1>3, <1>4, <1>5

\* With nothing left to decode, every message is decoded to its end.
LEMMA AllDecoded ==
  ASSUME messages \in Seq(Legal), NEW k, NEW u, At(k, u), Undecoded = <<>>
  PROVE  k = Len(messages) /\ u = 0
<1> DEFINE n == Len(messages)
           full == Joined(BytesOf, n)
           done == Joined(BytesOf, k)
<1>1. /\ n \in Nat /\ k \in 0..n /\ u \in Nat
      /\ IF k = n THEN u = 0 ELSE u < Len(messages[k + 1].bytes)
      /\ Len(full) = (Len(done) + u) + Len(Undecoded)
  BY DEF At
<1>2. Len(Undecoded) = 0
  OBVIOUS
<1>3. /\ BytesOf \in Seq(Seq(Bytes)) /\ Len(BytesOf) = n
      /\ \A i \in 1..n : messages[i] \in Legal /\ BytesOf[i] = messages[i].bytes
  BY ListsOf
<1> HIDE DEF n
<1>4. ASSUME k # n PROVE FALSE
  <2>1. /\ k \in 0..(Len(BytesOf) - 1) /\ k \in 0..Len(BytesOf) /\ k + 1 \in 0..Len(BytesOf)
        /\ n \in 0..Len(BytesOf) /\ k + 1 <= n /\ k + 1 \in 1..n
    BY <1>1, <1>3, <1>4
  <2> DEFINE more == Joined(BytesOf, k + 1)
             b == messages[k + 1].bytes
  <2>2. /\ done \in Seq(Bytes) /\ more \in Seq(Bytes) /\ full \in Seq(Bytes)
        /\ Len(more) <= Len(full)
    BY <1>3, <2>1, JoinedGrows
  <2>3. more = done \o b /\ b \in Seq(Bytes)
    <3>1. more = done \o BytesOf[k + 1]
      BY <1>3, <2>1, JoinedStep
    <3>2. QED
      BY <1>3, <2>1, <3>1, LegalShape
  <2>4. Len(more) = Len(done) + Len(b)
    BY <2>2, <2>3, ConcatProperties
  <2>5. u < Len(b) /\ u \in Nat /\ Len(b) \in Nat /\ Len(done) \in Nat /\ Len(more) \in Nat
    BY <1>1, <1>4, <2>2, <2>3
  <2> HIDE DEF done, more, full, b
  <2>6. QED
    BY <1>1, <1>2, <2>2, <2>4, <2>5
<1>5. QED
  BY <1>1, <1>4 DEF n

LEMMA DecodedIfAligned == ASSUME StreamInv PROVE DecodedIsMeant
<1>1. /\ messages \in Seq(Legal) /\ returned \in Seq(Bytes) /\ out \in Seq(Bytes)
      /\ raw \in Seq(Bytes) /\ inbound \in Seq(Bytes)
  BY DEF StreamInv, StreamTyped
<1>2. /\ DataOf \in Seq(Seq(Bytes)) /\ Len(DataOf) = Len(messages) /\ Len(messages) \in Nat
      /\ \A i \in 1..Len(messages) : messages[i] \in Legal /\ DataOf[i] = messages[i].data
  BY <1>1, ListsOf
<1>3. Telnet!Meant = FlattenSeq(DataOf)
  BY SameFlatten DEF Telnet!Meant, DataOf
<1>4. PICK k, u : Decoding(k, u)
  BY DEF StreamInv
<1>5. returned \o out = Joined(DataOf, k) \o Partial(messages[k + 1], u)
  BY <1>4 DEF Decoding, Handed
<1>6. k \in 0..Len(messages) /\ u \in Nat /\ (k = Len(messages) => u = 0)
  BY <1>4 DEF Decoding, At
<1>7. Len(messages) \in Nat /\ Len(DataOf) = Len(messages) /\ k \in 0..Len(DataOf)
  BY <1>2, <1>6
<1>8. Joined(DataOf, k) \in Seq(Bytes)
  BY <1>2, <1>7, JoinedGrows
<1>9. k = Len(messages) => returned \o out = Telnet!Meant
  <2>1. SUFFICES ASSUME k = Len(messages) PROVE returned \o out = Telnet!Meant
    OBVIOUS
  <2>2. Partial(messages[k + 1], u) = <<>>
    BY <1>6, <2>1 DEF Partial
  <2>3. Joined(DataOf, k) \o <<>> = Joined(DataOf, k)
    BY <1>8, ConcatEmptySeq
  <2>4. Joined(DataOf, k) = FlattenSeq(DataOf)
    BY <1>2, <2>1, JoinedWhole
  <2>5. QED
    BY <1>3, <1>5, <2>2, <2>3, <2>4
<1>10. Telnet!IsPrefix(returned \o out, Telnet!Meant)
  <2>1. CASE k = Len(messages)
    <3>1. Telnet!IsPrefix(Joined(DataOf, k), Telnet!Meant)
      BY <1>2, <1>3, <1>7, JoinedPrefix
    <3>2. Joined(DataOf, k) = FlattenSeq(DataOf)
      BY <1>2, <2>1, JoinedWhole
    <3>3. QED
      BY <1>3, <1>9, <2>1, <3>1, <3>2
  <2>2. CASE k # Len(messages)
    <3> DEFINE p == Partial(messages[k + 1], u)
               data == messages[k + 1].data
               more == Joined(DataOf, k + 1)
               full == FlattenSeq(DataOf)
               done == Joined(DataOf, k)
    <3>1. /\ k \in 0..(Len(DataOf) - 1) /\ k + 1 \in 0..Len(DataOf) /\ k + 1 \in 1..Len(messages)
          /\ Len(DataOf) \in 0..Len(DataOf) /\ k + 1 <= Len(DataOf)
      BY <1>6, <1>7, <2>2
    <3>2. messages[k + 1] \in Legal /\ data \in Seq(Bytes)
      BY <1>2, <3>1, LegalShape
    <3>3. p \in Seq(Bytes) /\ Len(p) <= Len(data) /\ \A i \in 1..Len(p) : data[i] = p[i]
      BY <1>6, <3>2, PartialPrefix
    <3>4. more = done \o data
      BY <1>2, <3>1, JoinedStep
    <3>5. /\ more \in Seq(Bytes) /\ full \in Seq(Bytes) /\ Len(more) <= Len(full)
          /\ \A i \in 1..Len(more) : full[i] = more[i]
      <4>1. full = Joined(DataOf, Len(DataOf))
        BY <1>2, JoinedWhole
      <4>2. QED
        BY <1>2, <3>1, <4>1, JoinedGrows, ZenonT(40)
    <3> DEFINE s == done \o p
    <3>6. /\ s \in Seq(Bytes) /\ Len(s) = Len(done) + Len(p)
          /\ \A i \in 1..(Len(done) + Len(p)) :
               s[i] = IF i <= Len(done) THEN done[i] ELSE p[i - Len(done)]
      BY <1>8, <3>3, ConcatProperties
    <3>7. /\ Len(more) = Len(done) + Len(data)
          /\ \A i \in 1..(Len(done) + Len(data)) :
               more[i] = IF i <= Len(done) THEN done[i] ELSE data[i - Len(done)]
      BY <1>8, <3>2, <3>4, ConcatProperties
    <3>8. Len(done) \in Nat /\ Len(p) \in Nat /\ Len(data) \in Nat /\ Len(full) \in Nat
      BY <1>8, <3>2, <3>3, <3>5
    <3> HIDE DEF p, data, more, full, done, s
    <3>9. ASSUME NEW i \in 1..Len(s) PROVE full[i] = s[i]
      <4>1. i \in 1..(Len(done) + Len(p)) /\ i \in 1..(Len(done) + Len(data)) /\ i \in 1..Len(more)
        BY <3>3, <3>6, <3>7, <3>8
      <4>2. CASE i <= Len(done)
        BY <3>5, <3>6, <3>7, <4>1, <4>2
      <4>3. CASE ~(i <= Len(done))
        <5>1. i - Len(done) \in 1..Len(p)
          BY <3>8, <4>1, <4>3
        <5>2. QED
          BY <3>3, <3>5, <3>6, <3>7, <4>1, <4>3, <5>1
      <4>4. QED
        BY <4>2, <4>3
    <3>10. Len(s) <= Len(full)
      BY <3>3, <3>5, <3>6, <3>7, <3>8
    <3>11. Telnet!IsPrefix(s, full)
      BY <3>5, <3>6, <3>9, <3>10, Begins
    <3>12. QED
      BY <1>3, <1>5, <3>11 DEF s, full, done, p
  <2>3. QED
    BY <2>1, <2>2
<1>11. Telnet!Waiting => returned = Telnet!Meant
  <2>1. SUFFICES ASSUME Telnet!Waiting PROVE returned = Telnet!Meant
    OBVIOUS
  <2>2. raw = <<>> /\ inbound = <<>> /\ out = <<>>
    BY <2>1 DEF Telnet!Waiting, Telnet!ChunkDone
  <2>3. Undecoded = <<>>
    BY <1>1, <2>2, ConcatEmptySeq DEF Undecoded
  <2>4. k = Len(messages)
    BY <1>1, <1>4, <2>3, AllDecoded DEF Decoding
  <2>5. QED
    BY <1>1, <1>9, <2>2, <2>4, ConcatEmptySeq
<1>12. QED
  BY <1>10, <1>11 DEF DecodedIsMeant, Telnet!DecodedIsMeant

LEMMA HeardIfAligned == ASSUME StreamInv PROVE HeardIsMeant
<1>1. SUFFICES ASSUME ~failed
               PROVE  /\ heard \o left["reader"] \o left["session"] = Telnet!Whole
                      /\ Telnet!IsPrefix(Telnet!Refusals, Telnet!Due)
                      /\ Telnet!Waiting => Telnet!Refusals = Telnet!Due
  BY DEF HeardIsMeant, Telnet!HeardIsMeant
<1>2. /\ messages \in Seq(Legal) /\ said \in Seq(Saying) /\ heard \in Seq(Bytes)
      /\ reply \in Seq(Bytes) /\ left \in [Writers -> Seq(Bytes)]
      /\ raw \in Seq(Bytes) /\ inbound \in Seq(Bytes)
      /\ Writers = {"reader", "session"}
  BY DEF StreamInv, StreamTyped, Writers, Telnet!Writers
<1>3. heard \o left["reader"] \o left["session"] = Telnet!Whole
  <2>1. left["reader"] \in Seq(Bytes) /\ left["session"] \in Seq(Bytes)
    BY <1>2
  <2>2. QED
    BY <1>1, <1>2, <2>1, Regrouped, ZenonT(40) DEF StreamInv, Sharing
<1>4. /\ RefusalOf \in Seq(Seq(Bytes)) /\ Len(RefusalOf) = Len(messages) /\ Len(messages) \in Nat
  BY <1>2, ListsOf
<1>5. Telnet!Due = FlattenSeq(RefusalOf)
  BY SameFlatten DEF Telnet!Due, RefusalOf
<1>6. PICK k, u : Decoding(k, u)
  BY DEF StreamInv
<1>7. k \in 0..Len(RefusalOf) /\ Telnet!Refusals \o Unsaid = Joined(RefusalOf, k)
  BY <1>1, <1>4, <1>6 DEF Decoding, At, Answered
<1>8. Telnet!Refusals \in Seq(Bytes) /\ Unsaid \in Seq(Bytes)
  BY <1>2, SayingTypes DEF Unsaid
<1>9. Telnet!IsPrefix(Telnet!Refusals, Telnet!Due)
  <2> DEFINE s == Telnet!Refusals
             more == Joined(RefusalOf, k)
             full == FlattenSeq(RefusalOf)
  <2>1. /\ Len(more) = Len(s) + Len(Unsaid) /\ \A i \in 1..Len(s) : more[i] = s[i]
        /\ more \in Seq(Bytes) /\ Len(s) \in Nat /\ Len(Unsaid) \in Nat
    <3>1. /\ Len(s \o Unsaid) = Len(s) + Len(Unsaid) /\ s \o Unsaid \in Seq(Bytes)
          /\ \A i \in 1..(Len(s) + Len(Unsaid)) :
               (s \o Unsaid)[i] = IF i <= Len(s) THEN s[i] ELSE Unsaid[i - Len(s)]
      BY <1>8, ConcatProperties
    <3>2. Len(s) \in Nat /\ Len(Unsaid) \in Nat
      BY <1>8
    <3> HIDE DEF s
    <3>3. \A i \in 1..Len(s) : (s \o Unsaid)[i] = s[i]
      BY <3>1, <3>2
    <3>4. s \o Unsaid = more
      BY <1>7 DEF s
    <3>5. QED
      BY <3>1, <3>2, <3>3, <3>4
  <2>2. /\ full \in Seq(Bytes) /\ Len(more) <= Len(full)
        /\ \A i \in 1..Len(more) : full[i] = more[i]
    <3>1. Len(RefusalOf) \in 0..Len(RefusalOf) /\ k <= Len(RefusalOf)
      BY <1>4, <1>7
    <3>2. full = Joined(RefusalOf, Len(RefusalOf))
      BY <1>4, JoinedWhole
    <3>3. QED
      BY <1>4, <1>7, <3>1, <3>2, JoinedGrows
  <2> HIDE DEF s, more, full
  <2>3. Len(s) <= Len(more) /\ \A i \in 1..Len(s) : i \in 1..Len(more)
    BY <2>1
  <2>4. Len(s) <= Len(full) /\ \A i \in 1..Len(s) : full[i] = s[i]
    <3>1. Len(full) \in Nat /\ Len(more) \in Nat
      BY <2>1, <2>2
    <3>2. QED
      BY <2>1, <2>2, <2>3, <3>1
  <2>5. s \in Seq(Bytes)
    BY <1>8 DEF s
  <2>6. QED
    BY <1>5, <2>2, <2>4, <2>5, Begins DEF s, full
<1>10. Telnet!Waiting => Telnet!Refusals = Telnet!Due
  <2>1. SUFFICES ASSUME Telnet!Waiting PROVE Telnet!Refusals = Telnet!Due
    OBVIOUS
  <2>2. raw = <<>> /\ inbound = <<>> /\ reply = <<>>
    BY <2>1 DEF Telnet!Waiting, Telnet!ChunkDone
  <2>3. Undecoded = <<>> /\ Unsaid = <<>>
    BY <1>2, <2>2, ConcatEmptySeq DEF Undecoded, Unsaid
  <2>4. k = Len(messages)
    BY <1>2, <1>6, <2>3, AllDecoded DEF Decoding
  <2>5. Joined(RefusalOf, k) = FlattenSeq(RefusalOf)
    BY <1>4, <2>4, JoinedWhole
  <2>6. QED
    BY <1>5, <1>7, <1>8, <2>3, <2>5, ConcatEmptySeq
<1>11. QED
  BY <1>3, <1>9, <1>10

\* However the network cuts the stream, and whatever a telnet switch says, Read
\* returns the data it meant and holds none of it back (decode).
THEOREM TelnetDecodes == ASSUME LegalMessages PROVE Layers => []DecodedIsMeant
<1>1. StreamInv => DecodedIsMeant
  BY DecodedIfAligned
<1>2. QED
  BY <1>1, LayersAligned, PTL

\* Until a write fails the switch hears whole lines and whole refusals, and each
\* proposal is refused once, in order (writeRaw, wmu).
THEOREM TelnetAnswers == ASSUME LegalMessages PROVE Layers => []HeardIsMeant
<1>1. StreamInv => HeardIsMeant
  BY HeardIfAligned
<1>2. QED
  BY <1>1, LayersAligned, PTL
=============================================================================
