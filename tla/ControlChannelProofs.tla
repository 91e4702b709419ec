------------------------ MODULE ControlChannelProofs ------------------------
(***************************************************************************)
(* Proofs about ControlChannel, for every number of connections, presses   *)
(* and ends of the programs.                                               *)
(*                                                                         *)
(* CheckIsTruthful is not inductive: the answer that a Check reads was     *)
(* written before.  What is needed of it is that it is owed to the Check   *)
(* being read, to one that timed out or read only a part, or to one that   *)
(* took an older late answer for its own; the last goes back to one of     *)
(* those before it.                                                        *)
(***************************************************************************)
EXTENDS ControlChannel, FiniteSetTheorems, TLAPS

Press == [button : Buttons, on : Connections]

CheckTypes ==
  /\ links \in 0 .. MaxConnects /\ link \in 0 .. links /\ reading \in Nat
  /\ pressed \in Seq(Press)
  /\ timedOut \subseteq Presses /\ handled \subseteq Presses /\ connected \subseteq Presses
  /\ partly \subseteq Presses /\ torn \subseteq Presses
  /\ commands \in [Connections -> Seq(Nat)] /\ answers \in [Connections -> Seq(Nat)]
  /\ linkGone \subseteq 1 .. links
  /\ accept = "serving" => served \in 1 .. links

\* Why a Check n on connection c may show success though the Server has not seen it.
Excused(c, n) ==
  \/ c \in linkGone
  \/ \E m \in ChecksOn(c) \cap Late \cap handled : m < n

\* Unread commands are those of their connection, in the order of pressing, and
\* none has been handled; only the first can be what is left of one.
CommandsInv ==
  \A c \in Connections : \A i \in DOMAIN commands[c] :
    /\ \/ commands[c][i] = Rest
       \/ /\ commands[c][i] \in Presses /\ pressed[commands[c][i]].on = c
          /\ commands[c][i] \notin handled
    /\ \A j \in DOMAIN commands[c] : i < j => commands[c][i] < commands[c][j]

\* An unread answer answers a Check, and is owed for one of three reasons.
Owed(c, n) == n = reading \/ n \in Late \/ Excused(c, n)

AnswersInv ==
  \A c \in Connections : \A i \in DOMAIN answers[c] :
    answers[c][i] \in ChecksOn(c) \cap handled /\ Owed(c, answers[c][i])

\* Every Check is being read, timed out, or was shown as successful.
ChecksInv ==
  \A n \in Presses :
    pressed[n].button = "Check" => n = reading \/ n \in timedOut \/ n \in connected

ReadingInv ==
  reading # 0 => /\ reading = Len(pressed) /\ reading \in Presses
                 /\ reading \in ChecksOn(link) /\ link # 0

TruthInv == CheckTypes /\ CommandsInv /\ AnswersInv /\ ChecksInv /\ ReadingInv /\ CheckIsTruthful

checkVars == <<link, links, reading, pressed, connected, timedOut, partly, accept, served,
               commands, answers, linkGone, handled, torn>>

-----------------------------------------------------------------------------
\* What excuses a Check goes on to excuse it.
LEMMA ExcuseStays ==
  ASSUME NEW c, NEW n, Excused(c, n), linkGone \subseteq linkGone',
         ChecksOn(c) \subseteq ChecksOn(c)', Late \subseteq Late', handled \subseteq handled'
  PROVE  Excused(c, n)'
  BY DEF Excused

\* Without a press the Checks on a connection are the same.
LEMMA ChecksStay ==
  ASSUME NEW c, UNCHANGED pressed
  PROVE  Presses' = Presses /\ ChecksOn(c)' = ChecksOn(c)
  BY DEF Presses, ChecksOn

\* The Receiver's steps, and those of the Tester's runtime, change none of these variables.
LEMMA UnchangedKeeps ==
  ASSUME TruthInv, UNCHANGED checkVars
  PROVE  TruthInv'
  BY DEF TruthInv, CheckTypes, CommandsInv, AnswersInv, ChecksInv, ReadingInv, CheckIsTruthful,
    Owed, Excused, Late, ChecksOn, Presses, checkVars

\* What is left of a sequence after its first k elements.
LEMMA RestOfSequence ==
  ASSUME NEW s \in Seq(Nat), NEW k \in 0 .. Len(s)
  PROVE  /\ SubSeq(s, k + 1, Len(s)) \in Seq(Nat)
         /\ DOMAIN SubSeq(s, k + 1, Len(s)) = 1 .. Len(s) - k
         /\ \A i \in 1 .. Len(s) - k : i + k \in DOMAIN s /\ SubSeq(s, k + 1, Len(s))[i] = s[i + k]
<1>1. Len(s) \in Nat /\ DOMAIN s = 1 .. Len(s) /\ k \in Nat /\ k <= Len(s)
  OBVIOUS
<1> DEFINE rest == SubSeq(s, k + 1, Len(s))
<1>2. rest \in Seq(Nat) /\ Len(rest) = Len(s) - k /\ \A i \in 1 .. Len(s) - k : rest[i] = s[k + i]
  OBVIOUS
<1> HIDE DEF rest
<1>3. DOMAIN rest = 1 .. Len(s) - k
  BY <1>2
<1>4. \A i \in 1 .. Len(s) - k : i + k \in DOMAIN s /\ k + i = i + k
  BY <1>1
<1> QED BY <1>2, <1>3, <1>4 DEF rest

\* The elements of r are elements of s behind the first k, in the same order.
PartOf(r, s, k) ==
  /\ r \in Seq(Nat)
  /\ \A i \in DOMAIN r : \E j \in DOMAIN s : j > k /\ r[i] = s[j]
  /\ (\A i, j \in DOMAIN s : i < j => s[i] < s[j]) => \A i, j \in DOMAIN r : i < j => r[i] < r[j]

\* They are a part of it, in the same order.
LEMMA RestInOrder ==
  ASSUME NEW s \in Seq(Nat), NEW k \in 0 .. Len(s)
  PROVE  PartOf(SubSeq(s, k + 1, Len(s)), s, k)
<1>0. PICK r : r = SubSeq(s, k + 1, Len(s))
  OBVIOUS
<1>1. /\ r \in Seq(Nat) /\ DOMAIN r = 1 .. Len(s) - k
      /\ \A i \in 1 .. Len(s) - k : i + k \in DOMAIN s /\ r[i] = s[i + k]
  BY <1>0, RestOfSequence
<1>2. Len(s) \in Nat /\ k \in Nat
  OBVIOUS
<1>3. \A i \in 1 .. Len(s) - k : i + k > k /\ i + k \in DOMAIN s /\ r[i] = s[i + k]
  BY <1>1, <1>2
<1>4. \A i \in DOMAIN r : \E j \in DOMAIN s : j > k /\ r[i] = s[j]
  BY <1>1, <1>3
<1>5. ASSUME \A i, j \in DOMAIN s : i < j => s[i] < s[j], NEW i \in DOMAIN r, NEW j \in DOMAIN r, i < j
      PROVE  r[i] < r[j]
  <2>1. i \in 1 .. Len(s) - k /\ j \in 1 .. Len(s) - k /\ i + k < j + k
    BY <1>1, <1>2, <1>5
  <2> QED BY <1>1, <1>5, <2>1
<1> QED BY <1>0, <1>1, <1>4, <1>5 DEF PartOf

-----------------------------------------------------------------------------
\* The Tester: connecting, pressing, and the two ends of a read.
LEMMA ConnectKeeps ==
  ASSUME TruthInv, Connect_Click
  PROVE  TruthInv'
<1>1. /\ links' \in 0 .. MaxConnects /\ links <= links' /\ link' \in 0 .. links' /\ reading = 0
      /\ UNCHANGED <<reading, pressed, connected, timedOut, partly, accept, served, commands, answers,
                     linkGone, handled, torn>>
  <2>1. links \in 0 .. MaxConnects /\ link \in 0 .. links /\ MaxConnects \in Nat
    BY ChannelAssumption DEF TruthInv, CheckTypes
  <2>2. \/ link' = link /\ links' = links
        \/ links < MaxConnects /\ links' = links + 1 /\ link' = links'
    BY DEF Connect_Click
  <2>3. links' \in 0 .. MaxConnects /\ links <= links' /\ link' \in 0 .. links'
    BY <2>1, <2>2
  <2> QED BY <2>3 DEF Connect_Click, serverVars
<1>2. CheckTypes'
  BY <1>1 DEF TruthInv, CheckTypes, Presses
<1>3. (CommandsInv /\ AnswersInv /\ ChecksInv /\ CheckIsTruthful)'
  <2>1. CommandsInv' /\ ChecksInv'
    BY <1>1 DEF TruthInv, CommandsInv, ChecksInv, Presses
  <2>2. AnswersInv'
    BY <1>1 DEF TruthInv, AnswersInv, Owed, Excused, Late, ChecksOn, Presses
  <2>3. CheckIsTruthful'
    BY <1>1 DEF TruthInv, CheckIsTruthful, Late, ChecksOn, Presses
  <2> QED BY <2>1, <2>2, <2>3
<1>4. ReadingInv'
  BY <1>1 DEF ReadingInv
<1> QED BY <1>2, <1>3, <1>4 DEF TruthInv

LEMMA PressKeeps ==
  ASSUME TruthInv, NEW b \in Buttons, Action_Click(b)
  PROVE  TruthInv'
<1> DEFINE n == Len(pressed) + 1
<1>1. /\ reading = 0 /\ link # 0 /\ pressed' = Append(pressed, [button |-> b, on |-> link])
      /\ commands' = IF link \in linkGone THEN commands ELSE [commands EXCEPT ![link] = Append(@, n)]
      /\ reading' = IF b = "Check" THEN n ELSE 0
      /\ UNCHANGED <<link, links, connected, timedOut, partly, accept, served, answers, linkGone,
                     handled, torn>>
  BY DEF Action_Click
<1>2. link \in Connections /\ n \in Nat \ {0} /\ pressed \in Seq(Press)
  BY <1>1, ChannelAssumption DEF TruthInv, CheckTypes, Connections
<1>3. [button |-> b, on |-> link] \in Press
  BY <1>2 DEF Press
<1>4. /\ pressed' \in Seq(Press) /\ Len(pressed') = n /\ Presses = 1 .. n - 1 /\ Presses' = 1 .. n
      /\ \A m \in Presses : pressed'[m] = pressed[m]
      /\ pressed'[n] = [button |-> b, on |-> link]
  BY <1>1, <1>2, <1>3 DEF Presses
<1>5. \A c : ChecksOn(c) \subseteq ChecksOn(c)'
  BY <1>2, <1>4 DEF ChecksOn
<1>6. CheckTypes'
  <2>1. commands' \in [Connections -> Seq(Nat)]
    BY <1>1, <1>2 DEF TruthInv, CheckTypes
  <2>2. /\ timedOut' \subseteq Presses' /\ handled' \subseteq Presses' /\ connected' \subseteq Presses'
        /\ partly' \subseteq Presses' /\ torn' \subseteq Presses'
    BY <1>1, <1>2, <1>4 DEF TruthInv, CheckTypes
  <2>3. reading' \in Nat
    BY <1>1, <1>2
  <2> QED BY <1>1, <1>4, <2>1, <2>2, <2>3 DEF TruthInv, CheckTypes
<1>7. CommandsInv'
  <2> SUFFICES ASSUME NEW c \in Connections, NEW i \in DOMAIN commands'[c]
               PROVE  /\ \/ commands'[c][i] = Rest
                         \/ /\ commands'[c][i] \in Presses' /\ pressed'[commands'[c][i]].on = c
                            /\ commands'[c][i] \notin handled'
                      /\ \A j \in DOMAIN commands'[c] : i < j => commands'[c][i] < commands'[c][j]
    BY DEF CommandsInv
  <2>1. commands[c] \in Seq(Nat) /\ \A m \in Presses : m \in Nat /\ m < n
    BY <1>2, <1>4 DEF TruthInv, CheckTypes
  <2>2. CASE commands'[c] = commands[c]
    <3>1. /\ \/ commands[c][i] = Rest
             \/ /\ commands[c][i] \in Presses /\ pressed[commands[c][i]].on = c
                /\ commands[c][i] \notin handled
          /\ \A j \in DOMAIN commands[c] : i < j => commands[c][i] < commands[c][j]
      BY <2>2 DEF TruthInv, CommandsInv
    <3>2. ASSUME commands[c][i] \in Presses, pressed[commands[c][i]].on = c, commands[c][i] \notin handled
          PROVE  /\ commands[c][i] \in Presses' /\ pressed'[commands[c][i]].on = c
                 /\ commands[c][i] \notin handled'
      BY <1>1, <1>2, <1>4, <3>2
    <3> QED BY <2>2, <3>1, <3>2
  <2>3. CASE commands'[c] = Append(commands[c], n) /\ c = link
    <3>1. /\ DOMAIN commands'[c] = 1 .. Len(commands[c]) + 1
          /\ commands'[c][Len(commands[c]) + 1] = n
          /\ \A j \in DOMAIN commands[c] : commands'[c][j] = commands[c][j]
          /\ DOMAIN commands[c] = 1 .. Len(commands[c]) /\ Len(commands[c]) \in Nat
      BY <1>2, <2>1, <2>3
    <3>2. CASE i \in DOMAIN commands[c]
      <4>1. /\ \/ commands[c][i] = Rest
               \/ /\ commands[c][i] \in Presses /\ pressed[commands[c][i]].on = c
                  /\ commands[c][i] \notin handled
            /\ \A j \in DOMAIN commands[c] : i < j => commands[c][i] < commands[c][j]
        BY <3>2 DEF TruthInv, CommandsInv
      <4>2. commands'[c][i] = commands[c][i] /\ commands[c][i] < n
        BY <1>2, <2>1, <3>1, <3>2, <4>1 DEF Rest
      <4>3. ASSUME NEW j \in DOMAIN commands'[c], i < j PROVE commands'[c][i] < commands'[c][j]
        BY <3>1, <4>1, <4>2, <4>3
      <4>4. ASSUME commands[c][i] \in Presses, pressed[commands[c][i]].on = c, commands[c][i] \notin handled
            PROVE  /\ commands[c][i] \in Presses' /\ pressed'[commands[c][i]].on = c
                   /\ commands[c][i] \notin handled'
        BY <1>1, <1>2, <1>4, <4>4
      <4> QED BY <4>1, <4>2, <4>3, <4>4
    <3>3. CASE i = Len(commands[c]) + 1
      <4>1. n \notin handled
        BY <1>2, <1>4 DEF TruthInv, CheckTypes
      <4> QED BY <1>1, <1>2, <1>4, <2>3, <3>1, <3>3, <4>1
    <3> QED BY <3>1, <3>2, <3>3
  <2> QED BY <1>1, <2>2, <2>3 DEF TruthInv, CheckTypes
<1>8. AnswersInv'
  <2> SUFFICES ASSUME NEW c \in Connections, NEW i \in DOMAIN answers[c], NEW m, m = answers[c][i]
               PROVE  m \in ChecksOn(c)' \cap handled' /\ Owed(c, m)'
    BY <1>1 DEF AnswersInv, Owed, Excused, Connections
  <2>1. m \in ChecksOn(c) \cap handled /\ Owed(c, m)
    BY DEF TruthInv, AnswersInv
  <2>2. m # 0
    BY <1>2, <1>4, <2>1 DEF ChecksOn
  <2>3. m \in Late \/ Excused(c, m)
    BY <1>1, <2>1, <2>2 DEF Owed
  <2>4. Late' = Late
    BY <1>1 DEF Late
  <2>5. Excused(c, m) => Excused(c, m)'
    BY <1>1, <1>5, <2>4, ExcuseStays
  <2>6. m \in ChecksOn(c)' \cap handled'
    BY <1>1, <1>5, <2>1
  <2> QED BY <2>3, <2>4, <2>5, <2>6 DEF Owed
<1>9. ChecksInv'
  BY <1>1, <1>2, <1>4 DEF TruthInv, ChecksInv
<1>10. ReadingInv'
  BY <1>1, <1>2, <1>4 DEF ReadingInv, ChecksOn
<1>11. CheckIsTruthful'
  <2>1. \A k \in connected : k \in Presses /\ pressed'[k] = pressed[k]
    BY <1>4 DEF TruthInv, CheckTypes
  <2>2. Late' = Late
    BY <1>1 DEF Late
  <2> QED BY <1>1, <1>5, <2>1, <2>2 DEF TruthInv, CheckIsTruthful
<1> QED BY <1>6, <1>7, <1>8, <1>9, <1>10, <1>11 DEF TruthInv

\* Whichever answer a read finds first, it is the Check's own or excuses it; and what
\* it leaves is owed to it from then on.
LEMMA ReadReturnsKeeps ==
  ASSUME TruthInv, ReadReturns
  PROVE  TruthInv'
<1>1. PICK k \in 0 .. Len(answers[link]) :
        /\ answers' = [answers EXCEPT ![link] = SubSeq(@, k + 1, Len(@))]
        /\ partly' = IF k < Len(answers[link]) THEN partly \cup {reading} ELSE partly
  BY DEF ReadReturns
<1>0. /\ reading # 0 /\ (answers[link] # <<>> \/ link \in linkGone)
      /\ connected' = connected \cup {reading} /\ reading' = 0
      /\ UNCHANGED <<link, links, pressed, timedOut, accept, served, commands, linkGone, handled, torn>>
  BY DEF ReadReturns
<1>2. /\ reading = Len(pressed) /\ reading \in Presses /\ reading \in ChecksOn(link)
      /\ pressed[reading].on = link /\ link \in Connections /\ Presses = 1 .. Len(pressed)
      /\ Presses' = Presses /\ \A c : ChecksOn(c)' = ChecksOn(c)
  BY <1>0, ChannelAssumption DEF TruthInv, ReadingInv, CheckTypes, ChecksOn, Presses, Connections
<1>10. /\ Late \subseteq Late' /\ Late' \subseteq Late \cup {reading}
       /\ k < Len(answers[link]) => reading \in Late'
  BY <1>0, <1>1 DEF Late
<1>11. PICK r : r = SubSeq(answers[link], k + 1, Len(answers[link]))
  OBVIOUS
<1>12. /\ answers \in [Connections -> Seq(Nat)] /\ answers' = [answers EXCEPT ![link] = r]
       /\ answers[link] \in Seq(Nat)
  BY <1>1, <1>2, <1>11 DEF TruthInv, CheckTypes
<1>14. PartOf(r, answers[link], k)
  BY <1>11, <1>12, RestInOrder
<1>13. r \in Seq(Nat) /\ \A i \in DOMAIN r : \E j \in DOMAIN answers[link] : j > k /\ r[i] = answers[link][j]
  BY <1>14 DEF PartOf
<1>3. CheckTypes'
  <2>1. answers' \in [Connections -> Seq(Nat)]
    BY <1>12, <1>13
  <2>2. connected' \subseteq Presses' /\ reading' \in Nat /\ partly' \subseteq Presses'
    BY <1>0, <1>1, <1>2 DEF TruthInv, CheckTypes
  <2> QED BY <1>0, <1>2, <2>1, <2>2 DEF TruthInv, CheckTypes
<1>4. CommandsInv'
  BY <1>0, <1>2 DEF TruthInv, CommandsInv
<1>5. AnswersInv'
  <2>1. \A c, m : Excused(c, m) => Excused(c, m)'
    BY <1>0, <1>2, <1>10 DEF Excused
  <2> SUFFICES ASSUME NEW c \in Connections, NEW i \in DOMAIN answers'[c], NEW m, m = answers'[c][i]
               PROVE  m \in ChecksOn(c)' \cap handled' /\ Owed(c, m)'
    BY DEF AnswersInv, Owed, Excused, Connections
  <2>2. CASE c # link
    <3>1. answers'[c] = answers[c]
      BY <1>12, <2>2
    <3>2. m \in ChecksOn(c) \cap handled /\ Owed(c, m)
      BY <3>1 DEF TruthInv, AnswersInv
    <3>3. m # reading
      BY <1>2, <2>2, <3>2 DEF ChecksOn
    <3> QED BY <1>0, <1>2, <1>10, <2>1, <3>2, <3>3 DEF Owed
  <2>3. CASE c = link
    <3>1. answers'[c] = r
      BY <1>2, <1>12, <2>3
    <3>2. PICK j \in DOMAIN answers[c] : j > k /\ m = answers[c][j]
      BY <1>13, <2>3, <3>1
    <3>3. m \in ChecksOn(c) \cap handled /\ Owed(c, m)
      BY <3>2 DEF TruthInv, AnswersInv
    <3>4. k < Len(answers[link])
      <4>1. DOMAIN answers[link] = 1 .. Len(answers[link]) /\ Len(answers[link]) \in Nat
        BY <1>12
      <4> QED BY <2>3, <3>2, <4>1
    <3>5. reading \in Late'
      BY <1>10, <3>4
    <3> QED BY <1>0, <1>2, <1>10, <2>1, <3>3, <3>5 DEF Owed
  <2> QED BY <2>2, <2>3
<1>6. ChecksInv'
  BY <1>0, <1>2 DEF TruthInv, ChecksInv
<1>7. ReadingInv'
  BY <1>0 DEF ReadingInv
<1>8. reading \in handled \/ Excused(link, reading)
  <2>1. CASE link \in linkGone
    BY <2>1 DEF Excused
  <2>2. CASE answers[link] # <<>>
    <3> DEFINE m == answers[link][1]
    <3>1. 1 \in DOMAIN answers[link]
      BY <1>2, <2>2 DEF TruthInv, CheckTypes
    <3>2. m \in ChecksOn(link) \cap handled /\ Owed(link, m)
      BY <1>2, <3>1 DEF TruthInv, AnswersInv
    <3>3. m \in Nat /\ reading \in Nat /\ m <= reading
      BY <1>2, <3>2 DEF ChecksOn, TruthInv, CheckTypes
    <3>4. CASE m = reading
      BY <3>2, <3>4
    <3>5. CASE m \in Late /\ m # reading
      <4>1. m < reading
        BY <3>3, <3>5
      <4> QED BY <3>2, <3>5, <4>1 DEF Excused
    <3>6. CASE Excused(link, m)
      <4>1. \A q \in ChecksOn(link) : q \in Nat
        BY <1>2 DEF ChecksOn
      <4> QED BY <3>3, <3>6, <4>1 DEF Excused
    <3> QED BY <3>2, <3>4, <3>5, <3>6 DEF Owed
  <2> QED BY <1>0, <2>1, <2>2
<1>9. CheckIsTruthful'
  <2> SUFFICES ASSUME NEW m \in connected'
               PROVE  m \in handled \/ Excused(pressed[m].on, m)
    BY <1>0, <1>2, <1>10 DEF CheckIsTruthful, Excused
  <2>1. CASE m \in connected
    BY <2>1 DEF TruthInv, CheckIsTruthful, Excused
  <2>2. CASE m = reading
    BY <1>2, <1>8, <2>2
  <2> QED BY <1>0, <2>1, <2>2
<1> QED BY <1>3, <1>4, <1>5, <1>6, <1>7, <1>9 DEF TruthInv

LEMMA ReadFailsKeeps ==
  ASSUME TruthInv, ReadFails
  PROVE  TruthInv'
<1>1. /\ reading # 0 /\ timedOut' = timedOut \cup {reading} /\ reading' = 0
      /\ UNCHANGED <<link, links, pressed, connected, partly, accept, served, commands, answers,
                     linkGone, handled, torn>>
      /\ Late' = Late \cup {reading}
  BY DEF ReadFails, serverVars, Late
<1>2. /\ reading \in Presses /\ Presses' = Presses /\ \A c : ChecksOn(c)' = ChecksOn(c)
  BY <1>1 DEF TruthInv, ReadingInv, ChecksOn, Presses
<1>3. \A c, n : Excused(c, n) => Excused(c, n)'
  BY <1>1, <1>2 DEF Excused
<1>4. CheckTypes'
  BY <1>1, <1>2 DEF TruthInv, CheckTypes
<1>5. CommandsInv'
  BY <1>1, <1>2 DEF TruthInv, CommandsInv
<1>6. AnswersInv'
  BY <1>1, <1>2, <1>3 DEF TruthInv, AnswersInv, Owed
<1>7. ChecksInv' /\ ReadingInv'
  BY <1>1, <1>2 DEF TruthInv, ChecksInv, ReadingInv
<1>8. CheckIsTruthful'
  BY <1>1, <1>2 DEF TruthInv, CheckIsTruthful
<1> QED BY <1>4, <1>5, <1>6, <1>7, <1>8 DEF TruthInv

-----------------------------------------------------------------------------
\* The Server.
LEMMA AcceptKeeps ==
  ASSUME TruthInv, AcceptClients
  PROVE  TruthInv'
<1>1. /\ served' \in 1 .. links
      /\ UNCHANGED <<link, links, reading, pressed, connected, timedOut, partly, commands, answers,
                     linkGone, handled, torn>>
  BY DEF AcceptClients, testerVars
<1> QED BY <1>1 DEF TruthInv, CheckTypes, CommandsInv, AnswersInv, ChecksInv, ReadingInv,
          CheckIsTruthful, Owed, Excused, Late, ChecksOn, Presses

\* The same, but the first may be what is left of a command.
LeftOf(r, s, k) ==
  /\ r \in Seq(Nat) /\ \A i, j \in DOMAIN r : i < j => r[i] < r[j]
  /\ \A i \in DOMAIN r : r[i] = Rest \/ \E j \in DOMAIN s : j > k /\ r[i] = s[j]

\* What a recv leaves: the rest of the command that it split, and those behind it.
LEMMA LeftInOrder ==
  ASSUME NEW c, commands[c] \in Seq(Nat), NEW k \in 0 .. Len(commands[c]), NEW split \in BOOLEAN,
         \A i, j \in DOMAIN commands[c] : i < j => commands[c][i] < commands[c][j]
  PROVE  LeftOf(Left(c, k, split), commands[c], k)
<1>0. PICK s, r : s = commands[c] /\ r = Left(c, k, split)
  OBVIOUS
<1>7. s \in Seq(Nat) /\ k \in 0 .. Len(s) /\ \A i, j \in DOMAIN s : i < j => s[i] < s[j]
  BY <1>0
<1>1. PICK b : b = SubSeq(s, k + 1, Len(s))
  OBVIOUS
<1>2. r = IF split THEN [b EXCEPT ![1] = Rest] ELSE b
  BY <1>0, <1>1 DEF Left
<1>6. PartOf(b, s, k)
  BY <1>1, <1>7, RestInOrder
<1>3. /\ b \in Seq(Nat) /\ \A i, j \in DOMAIN b : i < j => b[i] < b[j]
      /\ \A i \in DOMAIN b : \E j \in DOMAIN s : j > k /\ b[i] = s[j]
  BY <1>6, <1>7 DEF PartOf
<1>4. CASE ~split
  <2>1. r = b
    BY <1>2, <1>4
  <2> QED BY <1>0, <1>3, <2>1 DEF LeftOf
<1>5. CASE split
  <2>1. r = [b EXCEPT ![1] = Rest] /\ Rest = 0
    BY <1>2, <1>5 DEF Rest
  <2>2. /\ Len(b) \in Nat /\ DOMAIN b = 1 .. Len(b) /\ \A i \in 1 .. Len(b) : b[i] \in Nat
    BY <1>3
  <2>3. r \in Seq(Nat) /\ DOMAIN r = 1 .. Len(b)
    <3>1. DOMAIN r = 1 .. Len(b) /\ \A i \in 1 .. Len(b) : r[i] \in Nat
      BY <2>1, <2>2
    <3>2. r = [i \in 1 .. Len(b) |-> r[i]]
      BY <2>1, <2>2
    <3> HIDE <2>1
    <3> QED BY <2>2, <3>1, <3>2
  <2>4. \A i \in 1 .. Len(b) : r[i] = IF i = 1 THEN Rest ELSE b[i]
    BY <2>1, <2>2
  <2>5. ASSUME NEW i \in DOMAIN r, NEW j \in DOMAIN r, i < j PROVE r[i] < r[j]
    <3>1. j # 1 /\ r[j] = b[j] /\ b[i] < b[j] /\ b[i] \in Nat /\ b[j] \in Nat
      BY <1>3, <2>2, <2>3, <2>4, <2>5
    <3> QED BY <2>1, <2>3, <2>4, <3>1
  <2>6. \A i \in DOMAIN r : r[i] = Rest \/ \E j \in DOMAIN s : j > k /\ r[i] = s[j]
    BY <1>3, <2>2, <2>3, <2>4
  <2> QED BY <1>0, <2>3, <2>5, <2>6 DEF LeftOf
<1> QED BY <1>4, <1>5

\* What a recv does to the connection that is served.
LEMMA ReceiveMeans ==
  ASSUME CheckTypes, CommandsInv, NEW k \in 0 .. MaxPresses, NEW split \in BOOLEAN, Receive(k, split)
  PROVE  /\ accept = "serving" /\ served \in Connections /\ served \in 1 .. links
         /\ UNCHANGED <<link, links, reading, pressed, connected, timedOut, partly, served, linkGone>>
         /\ commands[served] \in Seq(Nat) /\ commands[served] # <<>>
         /\ commands'[served] \in Seq(Nat) /\ commands' = [commands EXCEPT ![served] = commands'[served]]
         /\ \A i, j \in DOMAIN commands'[served] : i < j => commands'[served][i] < commands'[served][j]
         /\ \A i \in DOMAIN commands'[served] :
              \/ commands'[served][i] = Rest
              \/ \E j \in DOMAIN commands[served] : j > k /\ commands'[served][i] = commands[served][j]
         /\ torn' \subseteq Presses
         /\ \/ UNCHANGED <<handled, answers, accept>>
            \/ /\ k > 0 /\ commands[served][1] # Rest
               /\ handled' = handled \cup {commands[served][1]}
               /\ answers' = Answer(commands[served][1], served)
<1>1. /\ accept = "serving"
      /\ UNCHANGED <<link, links, reading, pressed, connected, timedOut, partly, served, linkGone>>
  BY DEF Receive, testerVars
<1>2. served \in Connections /\ served \in 1 .. links
  BY <1>1, ChannelAssumption DEF CheckTypes, Connections
<1>3. PICK s, r : s = commands[served] /\ r = Left(served, k, split)
  OBVIOUS
<1>4. /\ s \in Seq(Nat) /\ commands \in [Connections -> Seq(Nat)]
      /\ Len(s) \in Nat /\ DOMAIN s = 1 .. Len(s) /\ k \in Nat
  BY <1>2, <1>3, ChannelAssumption DEF CheckTypes
<1>5. k + (IF split THEN 1 ELSE 0) \in 1 .. Len(s) /\ commands' = [commands EXCEPT ![served] = r]
  BY <1>3 DEF Receive
<1>6. k \in 0 .. Len(s) /\ (split => k < Len(s)) /\ s # <<>>
  BY <1>4, <1>5
<1>7. \A i, j \in DOMAIN s : i < j => s[i] < s[j]
  BY <1>2, <1>3 DEF CommandsInv
<1>8. /\ r \in Seq(Nat) /\ \A i, j \in DOMAIN r : i < j => r[i] < r[j]
      /\ \A i \in DOMAIN r : r[i] = Rest \/ \E j \in DOMAIN s : j > k /\ r[i] = s[j]
  <2>1. LeftOf(Left(served, k, split), commands[served], k)
    BY <1>3, <1>4, <1>6, <1>7, LeftInOrder
  <2> QED BY <1>3, <2>1 DEF LeftOf
<1>9. commands'[served] = r
  BY <1>2, <1>4, <1>5
<1>10. torn' \subseteq Presses
  <2>1. torn' \subseteq torn \cup (IF split THEN {s[k + 1]} \ {Rest} ELSE {})
    BY <1>3 DEF Receive
  <2>2. split => k + 1 \in DOMAIN s
    BY <1>4, <1>6
  <2>3. \A i \in DOMAIN s : s[i] = Rest \/ s[i] \in Presses
    BY <1>2, <1>3 DEF CommandsInv
  <2> QED BY <2>1, <2>2, <2>3 DEF CheckTypes
<1>11. \/ UNCHANGED <<handled, answers, accept>>
       \/ k > 0 /\ s[1] # Rest /\ handled' = handled \cup {s[1]} /\ answers' = Answer(s[1], served)
  BY <1>3, <1>4 DEF Receive, Used
<1> QED BY <1>1, <1>2, <1>3, <1>4, <1>5, <1>6, <1>8, <1>9, <1>10, <1>11

\* The commands that stay behind come after those read, so they are new.
LEMMA ReceiveKeeps ==
  ASSUME TruthInv, Recv
  PROVE  TruthInv'
<1>0. PICK k \in 0 .. MaxPresses, split \in BOOLEAN : Receive(k, split)
  BY DEF Recv
<1>1. PICK old, r, n : old = commands[served] /\ r = commands'[served] /\ n = old[1]
  OBVIOUS
<1>2. /\ accept = "serving" /\ served \in Connections /\ served \in 1 .. links
      /\ UNCHANGED <<link, links, reading, pressed, connected, timedOut, partly, served, linkGone>>
      /\ old \in Seq(Nat) /\ old # <<>> /\ torn' \subseteq Presses
      /\ r \in Seq(Nat) /\ commands' = [commands EXCEPT ![served] = r]
      /\ \A i, j \in DOMAIN r : i < j => r[i] < r[j]
      /\ \A i \in DOMAIN r : r[i] = Rest \/ \E j \in DOMAIN old : j > k /\ r[i] = old[j]
      /\ \/ UNCHANGED <<handled, answers, accept>>
         \/ k > 0 /\ n # Rest /\ handled' = handled \cup {n} /\ answers' = Answer(n, served)
  BY <1>0, <1>1, ReceiveMeans DEF TruthInv
<1>3. /\ commands \in [Connections -> Seq(Nat)] /\ answers \in [Connections -> Seq(Nat)]
      /\ DOMAIN old = 1 .. Len(old) /\ Len(old) \in Nat /\ 1 \in DOMAIN old /\ n \in Nat /\ k \in Nat
  BY <1>1, <1>2, ChannelAssumption DEF TruthInv, CheckTypes
<1>4. n # Rest => n \in Presses /\ n \notin handled /\ pressed[n].on = served
  BY <1>1, <1>2, <1>3 DEF TruthInv, CommandsInv
<1>5. handled \subseteq handled' /\ handled' \subseteq handled \cup ({n} \ {Rest})
  BY <1>2
<1>6. /\ Presses' = Presses /\ Late' = Late /\ \A c : ChecksOn(c)' = ChecksOn(c)
  BY <1>2 DEF ChecksOn, Presses, Late
<1>7. \A c, m : Excused(c, m) => Excused(c, m)'
  BY <1>2, <1>5, <1>6 DEF Excused
<1>8. answers' \in [Connections -> Seq(Nat)]
  <2>1. Answer(n, served) \in [Connections -> Seq(Nat)]
    BY <1>2, <1>3 DEF Answer
  <2> QED BY <1>2, <1>3, <2>1
<1>9. CheckTypes'
  <2>1. handled' \subseteq Presses'
    BY <1>4, <1>5, <1>6 DEF TruthInv, CheckTypes
  <2>2. commands' \in [Connections -> Seq(Nat)]
    BY <1>2, <1>3
  <2>3. accept' = "serving" => served' \in 1 .. links'
    BY <1>2
  <2> QED BY <1>2, <1>6, <1>8, <2>1, <2>2, <2>3 DEF TruthInv, CheckTypes
<1>10. CommandsInv'
  <2> SUFFICES ASSUME NEW c \in Connections, NEW i \in DOMAIN commands'[c]
               PROVE  /\ \/ commands'[c][i] = Rest
                         \/ /\ commands'[c][i] \in Presses /\ pressed[commands'[c][i]].on = c
                            /\ commands'[c][i] \notin handled'
                      /\ \A j \in DOMAIN commands'[c] : i < j => commands'[c][i] < commands'[c][j]
    BY <1>2, <1>6 DEF CommandsInv
  <2>1. CASE c # served
    <3>1. commands'[c] = commands[c]
      BY <1>2, <1>3, <2>1
    <3>2. /\ \/ commands[c][i] = Rest
             \/ /\ commands[c][i] \in Presses /\ pressed[commands[c][i]].on = c
                /\ commands[c][i] \notin handled
          /\ \A j \in DOMAIN commands[c] : i < j => commands[c][i] < commands[c][j]
      BY <3>1 DEF TruthInv, CommandsInv
    <3>3. commands[c][i] \in handled' => commands[c][i] \in handled \/ (commands[c][i] = n /\ n # Rest)
      BY <1>5
    <3> QED BY <1>4, <2>1, <3>1, <3>2, <3>3
  <2>2. CASE c = served
    <3>1. commands'[c] = r
      BY <1>2, <1>3, <2>2
    <3>2. ASSUME r[i] # Rest
          PROVE  r[i] \in Presses /\ pressed[r[i]].on = c /\ r[i] \notin handled'
      <4>1. PICK j \in DOMAIN old : j > k /\ r[i] = old[j]
        BY <1>2, <3>1, <3>2
      <4>2. /\ old[j] \in Presses /\ pressed[old[j]].on = c /\ old[j] \notin handled
        BY <1>1, <2>2, <3>2, <4>1 DEF TruthInv, CommandsInv
      <4>3. k > 0 => n < old[j]
        <5>1. ASSUME k > 0 PROVE n < old[j]
          <6>1. 1 < j
            BY <1>3, <4>1, <5>1
          <6> QED BY <1>1, <1>2, <1>3, <6>1 DEF TruthInv, CommandsInv
        <5> QED BY <5>1
      <4>4. k > 0 => old[j] # n
        BY <1>3, <4>3
      <4>5. handled' = handled \/ (k > 0 /\ handled' = handled \cup {n})
        BY <1>2
      <4> QED BY <4>1, <4>2, <4>4, <4>5
    <3> QED BY <1>2, <3>1, <3>2
  <2> QED BY <2>1, <2>2
<1>11. ASSUME n # Rest, pressed[n].button = "Check" PROVE Owed(served, n)
  <2>1. CASE n \in connected
    BY <1>4, <1>11, <2>1 DEF TruthInv, CheckIsTruthful, Owed, Excused
  <2>2. CASE n \notin connected
    BY <1>4, <1>11, <2>2 DEF TruthInv, ChecksInv, Owed, Late
  <2> QED BY <2>1, <2>2
<1>12. AnswersInv'
  <2> SUFFICES ASSUME NEW c \in Connections, NEW i \in DOMAIN answers'[c]
               PROVE  answers'[c][i] \in ChecksOn(c) \cap handled' /\ Owed(c, answers'[c][i])
    BY <1>2, <1>6, <1>7 DEF AnswersInv, Owed
  <2>1. CASE answers'[c] = answers[c]
    BY <1>5, <2>1 DEF TruthInv, AnswersInv
  <2>2. CASE /\ c = served /\ pressed[n].button = "Check" /\ answers'[c] = Append(answers[c], n)
             /\ n # Rest /\ handled' = handled \cup {n}
    <3>1. answers[c] \in Seq(Nat)
      BY <1>3
    <3>2. CASE i \in DOMAIN answers[c]
      <4>1. answers'[c][i] = answers[c][i]
        BY <1>3, <2>2, <3>1, <3>2
      <4>2. answers[c][i] \in ChecksOn(c) \cap handled /\ Owed(c, answers[c][i])
        BY <3>2 DEF TruthInv, AnswersInv
      <4> QED BY <1>5, <4>1, <4>2
    <3>3. CASE i \notin DOMAIN answers[c]
      <4>1. answers'[c][i] = n
        BY <1>3, <2>2, <3>1, <3>3
      <4> QED BY <1>4, <1>11, <2>2, <4>1 DEF ChecksOn
    <3> QED BY <3>2, <3>3
  <2>3. answers' # answers => /\ n # Rest /\ handled' = handled \cup {n} /\ pressed[n].button = "Check"
                              /\ answers' = [answers EXCEPT ![served] = Append(@, n)]
    BY <1>2 DEF Answer
  <2> QED BY <1>3, <2>1, <2>2, <2>3
<1>13. ChecksInv' /\ ReadingInv'
  BY <1>2, <1>6 DEF TruthInv, ChecksInv, ReadingInv
<1>14. CheckIsTruthful'
  BY <1>2, <1>5, <1>6 DEF TruthInv, CheckIsTruthful
<1> QED BY <1>9, <1>10, <1>12, <1>13, <1>14 DEF TruthInv

\* What the end of connections takes away, and adds to linkGone.
LEMMA EndingKeeps ==
  ASSUME TruthInv,
         UNCHANGED <<link, links, reading, pressed, connected, timedOut, partly, handled, torn>>,
         linkGone \subseteq linkGone', linkGone' \subseteq 1 .. links, accept' # "serving",
         commands' \in [Connections -> Seq(Nat)], answers' \in [Connections -> Seq(Nat)],
         \A c \in Connections : commands'[c] \in {commands[c], <<>>},
         \A c \in Connections : answers'[c] \in {answers[c], <<>>}
  PROVE  TruthInv'
<1>1. Presses' = Presses /\ Late' = Late /\ \A c : ChecksOn(c)' = ChecksOn(c)
  BY DEF ChecksOn, Presses, Late
<1>2. \A c, n : Excused(c, n) => Excused(c, n)'
  BY <1>1 DEF Excused
<1>3. CheckTypes'
  BY <1>1 DEF TruthInv, CheckTypes
<1>4. DOMAIN <<>> = {}
  OBVIOUS
<1>5. CommandsInv'
  BY <1>1, <1>4 DEF TruthInv, CommandsInv
<1>6. AnswersInv'
  <2> SUFFICES ASSUME NEW c \in Connections, NEW i \in DOMAIN answers'[c]
               PROVE  answers'[c][i] \in ChecksOn(c) \cap handled /\ Owed(c, answers'[c][i])
    BY <1>1, <1>2 DEF AnswersInv, Owed
  <2>1. answers'[c] = answers[c]
    BY <1>4
  <2> QED BY <2>1 DEF TruthInv, AnswersInv
<1>7. ChecksInv' /\ ReadingInv'
  BY <1>1 DEF TruthInv, ChecksInv, ReadingInv
<1>8. CheckIsTruthful'
  BY <1>1 DEF TruthInv, CheckIsTruthful
<1> QED BY <1>3, <1>5, <1>6, <1>7, <1>8 DEF TruthInv

LEMMA EndOfConnectionKeeps ==
  ASSUME TruthInv, EndOfConnection
  PROVE  TruthInv'
<1>1. /\ accept = "serving" /\ accept' = "closed" /\ linkGone' = linkGone \cup {served}
      /\ commands' = [commands EXCEPT ![served] = <<>>]
      /\ UNCHANGED <<link, links, reading, pressed, connected, timedOut, partly, handled, torn, answers>>
  BY DEF EndOfConnection, testerVars
<1>2. linkGone' \subseteq 1 .. links /\ linkGone \subseteq linkGone'
  BY <1>1 DEF TruthInv, CheckTypes
<1>3. /\ commands' \in [Connections -> Seq(Nat)]
      /\ \A c \in Connections : commands'[c] \in {commands[c], <<>>}
  <2>1. <<>> \in Seq(Nat) /\ commands \in [Connections -> Seq(Nat)]
    BY DEF TruthInv, CheckTypes
  <2> DEFINE none == <<>>
  <2>2. none \in Seq(Nat) /\ commands' = [commands EXCEPT ![served] = none]
    BY <1>1, <2>1
  <2> HIDE DEF none
  <2>3. commands' \in [Connections -> Seq(Nat)] /\ \A c \in Connections : commands'[c] \in {commands[c], none}
    BY <2>1, <2>2
  <2> QED BY <2>3 DEF none
<1>4. answers' \in [Connections -> Seq(Nat)] /\ \A c \in Connections : answers'[c] \in {answers[c], <<>>}
  BY <1>1 DEF TruthInv, CheckTypes
<1> QED BY <1>1, <1>2, <1>3, <1>4, EndingKeeps

LEMMA ServerEndsKeeps ==
  ASSUME TruthInv, ServerEnds
  PROVE  TruthInv'
<1>1. /\ accept' = "ended" /\ linkGone' = 1 .. links
      /\ commands' = [c \in Connections |-> <<>>] /\ answers' \in {answers, commands'}
      /\ UNCHANGED <<link, links, reading, pressed, connected, timedOut, partly, handled, torn>>
  BY DEF ServerEnds, testerVars
<1>2. linkGone' \subseteq 1 .. links /\ linkGone \subseteq linkGone'
  BY <1>1 DEF TruthInv, CheckTypes
<1>3. /\ commands' \in [Connections -> Seq(Nat)]
      /\ \A c \in Connections : commands'[c] \in {commands[c], <<>>}
  BY <1>1
<1>4. answers' \in [Connections -> Seq(Nat)] /\ \A c \in Connections : answers'[c] \in {answers[c], <<>>}
  <2>1. CASE answers' = answers
    BY <2>1 DEF TruthInv, CheckTypes
  <2>2. CASE answers' = commands'
    BY <1>1, <1>3, <2>2
  <2> QED BY <1>1, <2>1, <2>2
<1> QED BY <1>1, <1>2, <1>3, <1>4, EndingKeeps

LEMMA ServerStartsKeeps ==
  ASSUME TruthInv, ServerStarts
  PROVE  TruthInv'
<1>1. /\ accept' = "accepting" /\ linkGone' = linkGone
      /\ UNCHANGED <<link, links, reading, pressed, connected, timedOut, partly, handled, torn, commands, answers>>
  BY DEF ServerStarts, testerVars
<1>2. /\ linkGone' \subseteq 1 .. links /\ commands' \in [Connections -> Seq(Nat)]
      /\ answers' \in [Connections -> Seq(Nat)]
  BY <1>1 DEF TruthInv, CheckTypes
<1> QED BY <1>1, <1>2, EndingKeeps

-----------------------------------------------------------------------------
LEMMA TruthInit == Init => TruthInv
<1> SUFFICES ASSUME Init PROVE TruthInv
  OBVIOUS
<1>1. pressed = <<>> /\ Presses = {}
  BY DEF Init, Presses
<1>2. CheckTypes
  BY <1>1, ChannelAssumption DEF Init, CheckTypes
<1> QED BY <1>1, <1>2 DEF Init, TruthInv, CommandsInv, AnswersInv, ChecksInv, ReadingInv, CheckIsTruthful

LEMMA TruthStep == TruthInv /\ [Next]_vars => TruthInv'
<1> SUFFICES ASSUME TruthInv, [Next]_vars PROVE TruthInv'
  OBVIOUS
<1>1. CASE Tester
  <2>1. CASE Drop
    BY <2>1, UnchangedKeeps DEF Drop, testerVars, serverVars, checkVars
  <2> QED BY <1>1, <2>1, ConnectKeeps, PressKeeps, ReadReturnsKeeps, ReadFailsKeeps DEF Tester
<1>2. CASE Server
  BY <1>2, AcceptKeeps, ReceiveKeeps, EndOfConnectionKeeps, ServerEndsKeeps, ServerStartsKeeps DEF Server
<1>3. CASE Receiver
  BY <1>3, UnchangedKeeps DEF Receiver, ListenButton_Click, AcceptTcpClient, ReadString, ReceiverEnds,
    ReceiverStarts, testerVars, serverVars, checkVars
<1>4. CASE UNCHANGED vars
  BY <1>4, UnchangedKeeps DEF vars, testerVars, serverVars, checkVars
<1> QED BY <1>1, <1>2, <1>3, <1>4 DEF Next

\* A Check shows success only if the Server has seen it, or if one of the two
\* things that the code mistakes for its answer was there to be read: however
\* many connections, commands and ends of the programs there are.
THEOREM ChecksAreTruthful == Spec => []CheckIsTruthful
<1>1. TruthInv => CheckIsTruthful
  BY DEF TruthInv
<1> QED BY TruthInit, TruthStep, <1>1, PTL DEF Spec

-----------------------------------------------------------------------------
(* ChannelInv.  The answers of a connection are not simply those that its   *)
(* late Checks left behind: a Check may have taken the answer of one        *)
(* before it, and left its own.  Only their number is bounded, and it stays *)
(* so because the commands that will still be answered are counted with     *)
(* them.  As for the windows, a Start that is under way comes after all     *)
(* those on connections before its own, and, while the Receiver has not     *)
(* read that connection, after all those that already have a window.        *)

\* The Checks of connection c that have an answer there, or will if the Server reads them.
Pending(c) ==
  ChecksOn(c) \cap ( {answers[c][i] : i \in DOMAIN answers[c]}
                \cup {commands[c][i] : i \in DOMAIN commands[c]} )

\* Those whose own read has not taken an answer away, or not all there were.
Waited(c) == ChecksOn(c) \cap (Late \cup {reading})

CountOn(c) ==
  /\ c \in linkGone => commands[c] = <<>>
  /\ \A i, j \in DOMAIN answers[c] : i < j => answers[c][i] < answers[c][j]
  /\ \A i \in DOMAIN answers[c], j \in DOMAIN commands[c] :
       commands[c][j] = Rest \/ answers[c][i] < commands[c][j]
  /\ Cardinality(Pending(c)) <= Cardinality(Waited(c))

CountInv == \A c \in Connections : CountOn(c)

ReceiverTypes ==
  /\ calls \in 0 .. MaxConnects /\ call = calls /\ accepted \in 0 .. calls
  /\ receiver \in {"idle", "accepting", "reading", "ended"} /\ callGone \subseteq 1 .. calls
  /\ receiver = "reading" => accepted # 0
  /\ details \in [Connections -> Seq(Nat)] /\ windows \in Seq(Nat)

\* Press n of the presses p is a Start.
IsStart(p, n) == n \in DOMAIN p /\ p[n].button = "Start"

\* The Receiver may still read connection c.
Unread(c) == c > accepted \/ (c = accepted /\ receiver = "reading")

\* What is under way on connection c.
DetailsOn(c) ==
  \A i \in DOMAIN details[c] :
    /\ c <= calls /\ IsStart(pressed, details[c][i])
    /\ \A j \in DOMAIN details[c] : i < j => details[c][i] < details[c][j]
    /\ \A d \in Connections : \A j \in DOMAIN details[d] : c < d => details[c][i] < details[d][j]
    /\ Unread(c) => \A j \in DOMAIN windows : windows[j] < details[c][i]

WindowsInv ==
  \A i \in DOMAIN windows :
    IsStart(pressed, windows[i]) /\ \A j \in DOMAIN windows : i < j => windows[i] < windows[j]

StartsInv == (\A c \in Connections : DetailsOn(c)) /\ WindowsInv

OtherTypes ==
  /\ accept \in {"accepting", "serving", "left", "closed", "ended"} /\ served \in 0 .. links
  /\ dropped \subseteq {"link", "call"} \X Connections /\ ends \in 0 .. MaxEnds

WholeInv == TruthInv /\ CountInv /\ ReceiverTypes /\ StartsInv /\ OtherTypes

-----------------------------------------------------------------------------
\* Of two finite sets, what may be lost and gained without the first getting larger.
LEMMA CountsStay ==
  ASSUME NEW P, NEW W, NEW P1, NEW W1, IsFiniteSet(P), IsFiniteSet(W1), P1 \subseteq P, W \subseteq W1,
         Cardinality(P) <= Cardinality(W)
  PROVE  Cardinality(P1) <= Cardinality(W1)
<1>1. IsFiniteSet(P1) /\ Cardinality(P1) <= Cardinality(P)
  BY FS_Subset
<1>2. IsFiniteSet(W) /\ Cardinality(W) <= Cardinality(W1)
  BY FS_Subset
<1>3. Cardinality(P1) \in Nat /\ Cardinality(P) \in Nat /\ Cardinality(W) \in Nat /\ Cardinality(W1) \in Nat
  BY <1>1, <1>2, FS_CardinalityType
<1> QED BY <1>1, <1>2, <1>3

LEMMA CountsGrow ==
  ASSUME NEW P, NEW W, NEW P1, NEW W1, NEW n, IsFiniteSet(P), IsFiniteSet(W), P1 \subseteq P \cup {n},
         n \notin W, W1 = W \cup {n}, Cardinality(P) <= Cardinality(W)
  PROVE  Cardinality(P1) <= Cardinality(W1)
<1>1. IsFiniteSet(P \cup {n}) /\ Cardinality(P \cup {n}) \in {Cardinality(P), Cardinality(P) + 1}
  BY FS_AddElement
<1>2. IsFiniteSet(P1) /\ Cardinality(P1) <= Cardinality(P \cup {n})
  BY <1>1, FS_Subset
<1>3. Cardinality(W1) = Cardinality(W) + 1
  BY FS_AddElement
<1>4. Cardinality(P1) \in Nat /\ Cardinality(P) \in Nat /\ Cardinality(W) \in Nat
  BY <1>2, FS_CardinalityType
<1> QED BY <1>1, <1>2, <1>3, <1>4

LEMMA CountsShrink ==
  ASSUME NEW P, NEW W, NEW P1, NEW W1, NEW m, NEW n, IsFiniteSet(P), IsFiniteSet(W), IsFiniteSet(W1),
         m \in P, P1 \subseteq P \ {m}, W \ {n} \subseteq W1, Cardinality(P) <= Cardinality(W)
  PROVE  Cardinality(P1) <= Cardinality(W1)
<1>1. IsFiniteSet(P \ {m}) /\ Cardinality(P \ {m}) = Cardinality(P) - 1
  BY FS_RemoveElement
<1>2. IsFiniteSet(W \ {n}) /\ Cardinality(W \ {n}) \in {Cardinality(W), Cardinality(W) - 1}
  BY FS_RemoveElement
<1>3. IsFiniteSet(P1) /\ Cardinality(P1) <= Cardinality(P \ {m})
  BY <1>1, FS_Subset
<1>4. Cardinality(W \ {n}) <= Cardinality(W1)
  BY FS_Subset
<1>5. /\ Cardinality(P1) \in Nat /\ Cardinality(P) \in Nat /\ Cardinality(W) \in Nat
      /\ Cardinality(W1) \in Nat
  BY <1>3, FS_CardinalityType
<1> QED BY <1>1, <1>2, <1>3, <1>4, <1>5

\* A sequence without repetitions is no longer than a finite set of its elements.
LEMMA DistinctInFinite ==
  ASSUME NEW T, IsFiniteSet(T), NEW s \in Seq(Nat), \A i \in DOMAIN s : s[i] \in T,
         \A i, j \in DOMAIN s : i < j => s[i] < s[j]
  PROVE  Len(s) <= Cardinality(T)
<1>1. Len(s) \in Nat /\ DOMAIN s = 1 .. Len(s) /\ s \in [1 .. Len(s) -> T] /\ \A i \in DOMAIN s : s[i] \in Nat
  OBVIOUS
<1>2. \A i, j \in 1 .. Len(s) : s[i] = s[j] => i = j
  BY <1>1
<1>3. s \in Injection(1 .. Len(s), T)
  BY <1>1, <1>2 DEF Injection, IsInjective
<1>4. IsFiniteSet(1 .. Len(s)) /\ Cardinality(1 .. Len(s)) <= Cardinality(T)
  BY <1>3, FS_Injection
<1>5. Cardinality(1 .. Len(s)) = Len(s)
  <2>1. 1 \in Int /\ Len(s) \in Int
    BY <1>1
  <2>2. Cardinality(1 .. Len(s)) = IF 1 > Len(s) THEN 0 ELSE Len(s) - 1 + 1
    BY <2>1, FS_Interval, Zenon
  <2> QED BY <1>1, <2>2
<1> QED BY <1>4, <1>5

\* A sequence of numbers, all of which are in S, is a sequence over S.
LEMMA SequenceOver ==
  ASSUME NEW s \in Seq(Nat), NEW S, \A i \in DOMAIN s : s[i] \in S
  PROVE  s \in Seq(S)
<1>1. Len(s) \in Nat /\ DOMAIN s = 1 .. Len(s) /\ s = [i \in 1 .. Len(s) |-> s[i]]
  OBVIOUS
<1>2. s \in [1 .. Len(s) -> S]
  BY <1>1
<1> QED BY <1>1, <1>2

\* There are finitely many Checks.
LEMMA ChecksFinite ==
  ASSUME CheckTypes
  PROVE  \A c : IsFiniteSet(ChecksOn(c)) /\ IsFiniteSet(Pending(c)) /\ IsFiniteSet(Waited(c))
<1> SUFFICES ASSUME NEW c
             PROVE  IsFiniteSet(ChecksOn(c)) /\ IsFiniteSet(Pending(c)) /\ IsFiniteSet(Waited(c))
  OBVIOUS
<1>1. Len(pressed) \in Nat /\ Presses = 1 .. Len(pressed)
  BY DEF CheckTypes, Presses
<1>2. IsFiniteSet(Presses)
  BY <1>1, FS_Interval
<1>3. ChecksOn(c) \subseteq Presses
  BY DEF ChecksOn
<1>4. IsFiniteSet(ChecksOn(c))
  BY <1>2, <1>3, FS_Subset
<1>5. Pending(c) \subseteq ChecksOn(c) /\ Waited(c) \subseteq ChecksOn(c)
  BY DEF Pending, Waited
<1> QED BY <1>4, <1>5, FS_Subset

\* Where nothing is added to a connection, and its Checks are waited for as before.
LEMMA CountStays ==
  ASSUME NEW c \in Connections, CheckTypes, CheckTypes', CountOn(c), UNCHANGED pressed,
         commands'[c] \in {commands[c], <<>>}, answers'[c] \in {answers[c], <<>>},
         c \in linkGone' => c \in linkGone \/ commands'[c] = <<>>,
         Waited(c) \subseteq Waited(c)'
  PROVE  CountOn(c)'
<1>1. ChecksOn(c)' = ChecksOn(c) /\ DOMAIN <<>> = {}
  BY ChecksStay
<1>2. c \in linkGone' => commands'[c] = <<>>
  BY DEF CountOn
<1>3. \A i, j \in DOMAIN answers'[c] : i < j => answers'[c][i] < answers'[c][j]
  BY <1>1 DEF CountOn
<1>4. \A i \in DOMAIN answers'[c], j \in DOMAIN commands'[c] :
        commands'[c][j] = Rest \/ answers'[c][i] < commands'[c][j]
  BY <1>1 DEF CountOn
<1>5. Pending(c)' \subseteq Pending(c)
  BY <1>1 DEF Pending
<1>6. IsFiniteSet(Pending(c)) /\ IsFiniteSet(Waited(c)')
  <2>1. IsFiniteSet(Pending(c))
    BY ChecksFinite
  <2>2. IsFiniteSet(Waited(c)')
    <3>1. Len(pressed) \in Nat /\ Presses = 1 .. Len(pressed)
      BY DEF CheckTypes, Presses
    <3>2. IsFiniteSet(Presses)
      BY <3>1, FS_Interval
    <3>3. Waited(c)' \subseteq Presses
      BY <1>1 DEF Waited, ChecksOn
    <3> QED BY <3>2, <3>3, FS_Subset
  <2> QED BY <2>1, <2>2
<1>7. Cardinality(Pending(c)) <= Cardinality(Waited(c))
  BY DEF CountOn
<1>8. Cardinality(Pending(c)') <= Cardinality(Waited(c)')
  BY <1>5, <1>6, <1>7, CountsStay
<1> QED BY <1>2, <1>3, <1>4, <1>8 DEF CountOn

-----------------------------------------------------------------------------
\* A Check counts on both sides, and a later press comes after all that is unread.
LEMMA PressCounts ==
  ASSUME TruthInv, CheckTypes', CountInv, NEW b \in Buttons, Action_Click(b)
  PROVE  CountInv'
<1> DEFINE n == Len(pressed) + 1
<1>1. /\ reading = 0 /\ link # 0 /\ pressed' = Append(pressed, [button |-> b, on |-> link])
      /\ commands' = IF link \in linkGone THEN commands ELSE [commands EXCEPT ![link] = Append(@, n)]
      /\ reading' = IF b = "Check" THEN n ELSE 0
      /\ UNCHANGED <<answers, linkGone>> /\ Late' = Late
  BY DEF Action_Click, Late
<1>2. CheckTypes /\ link \in Connections /\ n \in Nat \ {0} /\ pressed \in Seq(Press)
  BY <1>1, ChannelAssumption DEF TruthInv, CheckTypes, Connections
<1>3. [button |-> b, on |-> link] \in Press
  BY <1>2 DEF Press
<1>4. /\ Presses = 1 .. n - 1 /\ Presses' = 1 .. n
      /\ \A m \in Presses : pressed'[m] = pressed[m]
      /\ pressed'[n] = [button |-> b, on |-> link]
  BY <1>1, <1>2, <1>3 DEF Presses
<1>5. \A c : ChecksOn(c)' = IF b = "Check" /\ c = link THEN ChecksOn(c) \cup {n} ELSE ChecksOn(c)
  BY <1>2, <1>4 DEF ChecksOn
<1>6. \A c : n \notin ChecksOn(c) /\ 0 \notin ChecksOn(c)
  BY <1>2, <1>4 DEF ChecksOn
<1> SUFFICES ASSUME NEW c \in Connections
             PROVE  CountOn(c)'
  BY DEF CountInv
<1>7. CountOn(c) /\ answers[c] \in Seq(Nat) /\ commands[c] \in Seq(Nat)
  BY <1>2 DEF CountInv, CheckTypes
<1>8. \A i \in DOMAIN answers[c] : answers[c][i] \in Presses
  BY DEF TruthInv, AnswersInv, ChecksOn
<1>9. IsFiniteSet(Pending(c)) /\ IsFiniteSet(Waited(c)) /\ Cardinality(Pending(c)) <= Cardinality(Waited(c))
  BY <1>2, <1>7, ChecksFinite DEF CountOn
<1>10. (Late \cup {reading})' = IF b = "Check" THEN Late \cup {n} ELSE Late \cup {0}
  BY <1>1
<1>11. n \notin Late
  BY <1>2, <1>4 DEF CheckTypes, Late
<1>12. Waited(c)' = IF b = "Check" /\ c = link THEN Waited(c) \cup {n} ELSE Waited(c)
  BY <1>1, <1>5, <1>6, <1>10, <1>11 DEF Waited
<1>13. CASE commands'[c] = commands[c]
  <2>1. Pending(c)' \subseteq Pending(c) \cup (IF b = "Check" /\ c = link THEN {n} ELSE {})
    <3> DEFINE there == {answers[c][i] : i \in DOMAIN answers[c]} \cup {commands[c][i] : i \in DOMAIN commands[c]}
    <3>1. Pending(c) = ChecksOn(c) \cap there /\ Pending(c)' = ChecksOn(c)' \cap there
      BY <1>1, <1>13 DEF Pending
    <3> HIDE DEF there
    <3> QED BY <1>5, <3>1
  <2>2. Cardinality(Pending(c)') <= Cardinality(Waited(c)')
    <3>1. CASE b = "Check" /\ c = link
      <4>1. Pending(c)' \subseteq Pending(c) \cup {n} /\ Waited(c)' = Waited(c) \cup {n} /\ n \notin Waited(c)
        BY <1>6, <1>12, <2>1, <3>1 DEF Waited
      <4> QED BY <1>9, <4>1, CountsGrow
    <3>2. CASE ~(b = "Check" /\ c = link)
      <4>1. Pending(c)' \subseteq Pending(c) /\ Waited(c) \subseteq Waited(c)' /\ Waited(c)' = Waited(c)
        BY <1>12, <2>1, <3>2
      <4> QED BY <1>9, <4>1, CountsStay
    <3> QED BY <3>1, <3>2
  <2> QED BY <1>1, <1>7, <1>13, <2>2 DEF CountOn
<1>14. CASE c = link /\ link \notin linkGone /\ commands'[c] = Append(commands[c], n)
  <2>1. /\ DOMAIN commands'[c] = 1 .. Len(commands[c]) + 1
        /\ commands'[c][Len(commands[c]) + 1] = n
        /\ \A j \in DOMAIN commands[c] : commands'[c][j] = commands[c][j]
        /\ DOMAIN commands[c] = 1 .. Len(commands[c]) /\ Len(commands[c]) \in Nat
    BY <1>2, <1>7, <1>14
  <2>2. \A j \in DOMAIN commands'[c] :
          (j \in DOMAIN commands[c] /\ commands'[c][j] = commands[c][j]) \/ commands'[c][j] = n
    BY <2>1
  <2>3. \A i \in DOMAIN answers[c], j \in DOMAIN commands'[c] :
          commands'[c][j] = Rest \/ answers[c][i] < commands'[c][j]
    <3> SUFFICES ASSUME NEW i \in DOMAIN answers[c], NEW j \in DOMAIN commands'[c]
                 PROVE  commands'[c][j] = Rest \/ answers[c][i] < commands'[c][j]
      OBVIOUS
    <3>1. CASE j \in DOMAIN commands[c] /\ commands'[c][j] = commands[c][j]
      BY <1>7, <3>1 DEF CountOn
    <3>2. CASE commands'[c][j] = n
      BY <1>2, <1>4, <1>8, <3>2
    <3> QED BY <2>2, <3>1, <3>2
  <2>4. Cardinality(Pending(c)') <= Cardinality(Waited(c)')
    <3> DEFINE ans == {answers[c][i] : i \in DOMAIN answers[c]}
               com == {commands[c][i] : i \in DOMAIN commands[c]}
               com1 == {commands'[c][i] : i \in DOMAIN commands'[c]}
    <3>1. com1 \subseteq com \cup {n}
      BY <2>2
    <3>2. Pending(c) = ChecksOn(c) \cap (ans \cup com) /\ Pending(c)' = ChecksOn(c)' \cap (ans \cup com1)
      BY <1>1 DEF Pending
    <3> HIDE DEF ans, com, com1
    <3>3. CASE b = "Check"
      <4>1. Pending(c)' \subseteq Pending(c) \cup {n} /\ Waited(c)' = Waited(c) \cup {n} /\ n \notin Waited(c)
        BY <1>5, <1>6, <1>12, <1>14, <3>1, <3>2, <3>3 DEF Waited
      <4> QED BY <1>9, <4>1, CountsGrow
    <3>4. CASE b # "Check"
      <4>1. Pending(c)' \subseteq Pending(c) /\ Waited(c) \subseteq Waited(c)' /\ Waited(c)' = Waited(c)
        BY <1>5, <1>6, <1>12, <3>1, <3>2, <3>4
      <4> QED BY <1>9, <4>1, CountsStay
    <3> QED BY <3>3, <3>4
  <2> QED BY <1>1, <1>7, <1>14, <2>3, <2>4 DEF CountOn
<1> QED BY <1>1, <1>2, <1>13, <1>14 DEF CheckTypes

\* A Check that takes all the answers, takes at least one for the one it is owed
\* itself; if it leaves some, it goes on to be owed one.
LEMMA ReadCounts ==
  ASSUME TruthInv, CheckTypes', CountInv, ReadReturns
  PROVE  CountInv'
<1>1. PICK k \in 0 .. Len(answers[link]) :
        /\ answers' = [answers EXCEPT ![link] = SubSeq(@, k + 1, Len(@))]
        /\ partly' = IF k < Len(answers[link]) THEN partly \cup {reading} ELSE partly
  BY DEF ReadReturns
<1>0. /\ reading # 0 /\ (answers[link] # <<>> \/ link \in linkGone)
      /\ reading' = 0 /\ UNCHANGED <<link, pressed, timedOut, commands, linkGone>>
  BY DEF ReadReturns
<1>2. reading \in ChecksOn(link) /\ link \in Connections /\ CheckTypes
  <2>1. reading \in ChecksOn(link) /\ link # 0 /\ CheckTypes
    BY <1>0 DEF TruthInv, ReadingInv
  <2>2. links \in 0 .. MaxConnects /\ link \in 0 .. links
    BY <2>1 DEF CheckTypes
  <2> QED BY <2>1, <2>2, ChannelAssumption DEF Connections
<1>3. /\ \A c : ChecksOn(c)' = ChecksOn(c)
      /\ Late \subseteq Late' /\ (k < Len(answers[link]) => reading \in Late')
  <2>1. \A c : ChecksOn(c)' = ChecksOn(c)
    BY <1>0, ChecksStay
  <2> QED BY <1>0, <1>1, <2>1 DEF Late
<1>7. PICK a, r : a = answers[link] /\ r = SubSeq(a, k + 1, Len(a))
  OBVIOUS
<1>8. /\ answers \in [Connections -> Seq(Nat)] /\ a \in Seq(Nat) /\ Len(a) \in Nat /\ DOMAIN a = 1 .. Len(a)
      /\ answers' = [answers EXCEPT ![link] = r] /\ answers'[link] = r
  BY <1>1, <1>2, <1>7 DEF CheckTypes
<1>9. \A i, j \in DOMAIN a : i < j => a[i] < a[j]
  BY <1>2, <1>7 DEF CountInv, CountOn
<1>10. /\ r \in Seq(Nat) /\ \A i, j \in DOMAIN r : i < j => r[i] < r[j]
       /\ \A i \in DOMAIN r : \E j \in DOMAIN a : j > k /\ r[i] = a[j]
  <2>1. PartOf(r, a, k)
    BY <1>7, <1>8, RestInOrder
  <2> QED BY <1>9, <2>1 DEF PartOf
<1>11. k = Len(a) => r = <<>>
  BY <1>7, <1>8
<1> SUFFICES ASSUME NEW c \in Connections
             PROVE  CountOn(c)'
  BY DEF CountInv
<1>4. CountOn(c) /\ commands'[c] = commands[c]
  BY <1>0 DEF CountInv
<1>5. CASE c # link
  <2>1. reading \notin ChecksOn(c)
    BY <1>2, <1>5 DEF ChecksOn
  <2>2. Waited(c) \subseteq Waited(c)'
    BY <1>3, <2>1 DEF Waited
  <2>3. answers'[c] = answers[c]
    BY <1>5, <1>8
  <2> QED BY <1>0, <1>2, <1>4, <2>2, <2>3, CountStays
<1>6. CASE c = link
  <2>1. answers'[c] = r /\ answers[c] = a
    BY <1>6, <1>7, <1>8
  <2>2. IsFiniteSet(Pending(c)) /\ IsFiniteSet(Waited(c)) /\ Cardinality(Pending(c)) <= Cardinality(Waited(c))
    BY <1>2, <1>4, ChecksFinite DEF CountOn
  <2>3. Waited(c) \ {reading} \subseteq Waited(c)' /\ (k < Len(a) => Waited(c) \subseteq Waited(c)')
    BY <1>3, <1>7 DEF Waited
  <2>4. Waited(c)' \subseteq ChecksOn(c) /\ IsFiniteSet(Waited(c)')
    <3>1. Waited(c)' \subseteq ChecksOn(c)
      BY <1>3 DEF Waited
    <3>2. IsFiniteSet(ChecksOn(c))
      BY <1>2, ChecksFinite
    <3> QED BY <3>1, <3>2, FS_Subset
  <2> DEFINE ans == {a[i] : i \in DOMAIN a}
             ans1 == {r[i] : i \in DOMAIN r}
             com == {commands[c][i] : i \in DOMAIN commands[c]}
  <2>5. /\ Pending(c) = ChecksOn(c) \cap (ans \cup com) /\ Pending(c)' = ChecksOn(c) \cap (ans1 \cup com)
        /\ ans1 \subseteq ans
    <3>1. Pending(c) = ChecksOn(c) \cap (ans \cup com) /\ Pending(c)' = ChecksOn(c) \cap (ans1 \cup com)
      BY <1>3, <1>4, <2>1 DEF Pending
    <3>2. ans1 \subseteq ans
      BY <1>10
    <3> QED BY <3>1, <3>2
  <2>6. Cardinality(Pending(c)') <= Cardinality(Waited(c)')
    <3>1. CASE k < Len(a)
      <4> HIDE DEF ans, ans1, com
      <4>1. Pending(c)' \subseteq Pending(c)
        BY <2>5
      <4> QED BY <2>2, <2>3, <2>4, <3>1, <4>1, CountsStay
    <3>2. CASE k = Len(a) /\ a # <<>>
      <4>1. PICK m : m = a[1]
        OBVIOUS
      <4>2. 1 \in DOMAIN a
        BY <1>8, <3>2
      <4>3. m \in ChecksOn(c) \cap handled
        BY <2>1, <4>1, <4>2 DEF TruthInv, AnswersInv
      <4>4. m \in ans
        BY <4>1, <4>2
      <4>5. m # Rest
        BY <1>2, <4>3 DEF ChecksOn, Presses, CheckTypes, Rest
      <4>6. m \notin com
        BY <4>3, <4>5 DEF TruthInv, CommandsInv
      <4>7. ans1 = {}
        BY <1>11, <3>2
      <4> HIDE DEF ans, ans1, com
      <4>8. m \in Pending(c) /\ Pending(c)' \subseteq Pending(c) \ {m}
        BY <2>5, <4>3, <4>4, <4>6, <4>7
      <4> QED BY <2>2, <2>3, <2>4, <4>8, CountsShrink
    <3>3. CASE k = Len(a) /\ a = <<>>
      <4>1. commands[c] = <<>>
        BY <1>0, <1>4, <1>6, <1>7, <3>3 DEF CountOn
      <4>2. com = {} /\ ans1 = {}
        BY <1>11, <3>3, <4>1
      <4> HIDE DEF ans, ans1, com
      <4>3. Pending(c)' = {}
        BY <2>5, <4>2
      <4>4. Cardinality(Waited(c)') \in Nat
        BY <2>4, FS_CardinalityType
      <4> QED BY <4>3, <4>4, FS_EmptySet
    <3>4. k < Len(a) \/ k = Len(a)
      BY <1>7, <1>8
    <3> QED BY <3>1, <3>2, <3>3, <3>4
  <2>7. \A i \in DOMAIN r, j \in DOMAIN commands[c] : commands[c][j] = Rest \/ r[i] < commands[c][j]
    BY <1>4, <1>10, <2>1 DEF CountOn
  <2> QED BY <1>0, <1>4, <1>10, <2>1, <2>6, <2>7 DEF CountOn
<1> QED BY <1>5, <1>6

\* What a recv takes comes after all the answers there are; the first of it may
\* be answered, the others never will be.
LEMMA ReceiveCounts ==
  ASSUME TruthInv, CheckTypes', CountInv, Recv
  PROVE  CountInv'
<1>0. PICK k \in 0 .. MaxPresses, split \in BOOLEAN : Receive(k, split)
  BY DEF Recv
<1>1. PICK old, r, n : old = commands[served] /\ r = commands'[served] /\ n = old[1]
  OBVIOUS
<1>2. /\ served \in Connections /\ UNCHANGED <<reading, pressed, timedOut, partly, linkGone>>
      /\ old \in Seq(Nat) /\ old # <<>>
      /\ r \in Seq(Nat) /\ commands' = [commands EXCEPT ![served] = r]
      /\ \A i \in DOMAIN r : r[i] = Rest \/ \E j \in DOMAIN old : j > k /\ r[i] = old[j]
      /\ answers' = answers \/ (k > 0 /\ n # Rest /\ answers' = Answer(n, served))
  BY <1>0, <1>1, ReceiveMeans DEF TruthInv
<1>3. /\ CheckTypes /\ commands \in [Connections -> Seq(Nat)] /\ answers \in [Connections -> Seq(Nat)]
      /\ DOMAIN old = 1 .. Len(old) /\ Len(old) \in Nat /\ 1 \in DOMAIN old /\ n \in Nat /\ k \in Nat
  BY <1>1, <1>2, ChannelAssumption DEF TruthInv, CheckTypes
<1>4. Late' = Late /\ \A c : ChecksOn(c)' = ChecksOn(c) /\ Rest \notin ChecksOn(c)
  <2>1. \A c : ChecksOn(c)' = ChecksOn(c)
    BY <1>2, ChecksStay
  <2>2. \A c : Rest \notin ChecksOn(c)
    BY <1>3 DEF ChecksOn, Presses, CheckTypes, Rest
  <2> QED BY <1>2, <2>1, <2>2 DEF Late
<1>5. CountOn(served) /\ served \notin linkGone
  BY <1>1, <1>2 DEF CountInv, CountOn
<1>6. k > 0 => \A i \in DOMAIN r : r[i] = Rest \/ n < r[i]
  <2> SUFFICES ASSUME k > 0, NEW i \in DOMAIN r, r[i] # Rest
               PROVE  n < r[i]
    OBVIOUS
  <2>1. PICK j \in DOMAIN old : j > k /\ r[i] = old[j]
    BY <1>2
  <2>2. 1 < j
    BY <1>3, <2>1
  <2>3. old[1] < old[j]
    BY <1>1, <1>2, <1>3, <2>1, <2>2 DEF TruthInv, CommandsInv
  <2> QED BY <1>1, <2>1, <2>3
<1> SUFFICES ASSUME NEW c \in Connections
             PROVE  CountOn(c)'
  BY DEF CountInv
<1>7. CountOn(c) /\ Waited(c)' = Waited(c) /\ answers[c] \in Seq(Nat)
  BY <1>2, <1>3, <1>4 DEF CountInv, Waited
<1>8. CASE c # served
  <2>1. answers'[c] = answers[c] /\ commands'[c] = commands[c]
    BY <1>2, <1>3, <1>8 DEF Answer
  <2> QED BY <1>2, <1>3, <1>7, <2>1, CountStays
<1>9. CASE c = served
  <2>1. commands'[c] = r /\ commands[c] = old
    BY <1>1, <1>9
  <2>2. \/ answers'[c] = answers[c]
        \/ k > 0 /\ n # Rest /\ answers'[c] = Append(answers[c], n)
    BY <1>2, <1>3, <1>9 DEF Answer
  <2>3. /\ \A i \in DOMAIN answers'[c] :
             \/ i \in DOMAIN answers[c] /\ answers'[c][i] = answers[c][i]
             \/ i = Len(answers[c]) + 1 /\ answers'[c][i] = n /\ k > 0 /\ n # Rest
        /\ DOMAIN answers[c] = 1 .. Len(answers[c]) /\ Len(answers[c]) \in Nat
    <3>1. DOMAIN answers[c] = 1 .. Len(answers[c]) /\ Len(answers[c]) \in Nat
      BY <1>7
    <3>2. CASE answers'[c] = answers[c]
      BY <3>1, <3>2
    <3>3. CASE k > 0 /\ n # Rest /\ answers'[c] = Append(answers[c], n)
      <4>1. DOMAIN Append(answers[c], n) = 1 .. Len(answers[c]) + 1
        BY <1>3, <1>7, <3>1
      <4>2. \A i \in 1 .. Len(answers[c]) + 1 :
              Append(answers[c], n)[i] = IF i <= Len(answers[c]) THEN answers[c][i] ELSE n
        <5>1. answers[c] \in Seq(Nat) /\ n \in Nat
          BY <1>3, <1>7
        <5> QED BY <5>1
      <4> QED BY <3>1, <3>3, <4>1, <4>2
    <3> QED BY <2>2, <3>1, <3>2, <3>3
  <2>4. n # Rest => \A i \in DOMAIN answers[c] : answers[c][i] < n
    BY <1>1, <1>3, <1>5, <1>9 DEF CountOn
  <2>5. \A i, j \in DOMAIN answers'[c] : i < j => answers'[c][i] < answers'[c][j]
    <3> SUFFICES ASSUME NEW i \in DOMAIN answers'[c], NEW j \in DOMAIN answers'[c], i < j
                 PROVE  answers'[c][i] < answers'[c][j]
      OBVIOUS
    <3>1. i \in DOMAIN answers[c] /\ answers'[c][i] = answers[c][i]
      BY <2>3
    <3>2. CASE j \in DOMAIN answers[c] /\ answers'[c][j] = answers[c][j]
      BY <1>7, <3>1, <3>2 DEF CountOn
    <3>3. CASE answers'[c][j] = n /\ n # Rest
      BY <2>4, <3>1, <3>3
    <3> QED BY <2>3, <3>2, <3>3
  <2>6. \A i \in DOMAIN answers'[c], j \in DOMAIN r : r[j] = Rest \/ answers'[c][i] < r[j]
    <3> SUFFICES ASSUME NEW i \in DOMAIN answers'[c], NEW j \in DOMAIN r, r[j] # Rest
                 PROVE  answers'[c][i] < r[j]
      OBVIOUS
    <3>1. PICK m \in DOMAIN old : r[j] = old[m]
      BY <1>2
    <3>2. CASE i \in DOMAIN answers[c] /\ answers'[c][i] = answers[c][i]
      BY <1>7, <2>1, <3>1, <3>2 DEF CountOn
    <3>3. CASE answers'[c][i] = n /\ k > 0
      BY <1>6, <3>3
    <3> QED BY <2>3, <3>2, <3>3
  <2>7. Pending(c)' \subseteq Pending(c)
    <3> DEFINE ans == {answers[c][i] : i \in DOMAIN answers[c]}
               com == {old[i] : i \in DOMAIN old}
               ans1 == {answers'[c][i] : i \in DOMAIN answers'[c]}
               com1 == {r[i] : i \in DOMAIN r}
    <3>1. n \in com
      BY <1>1, <1>3
    <3>2. ans1 \subseteq ans \cup {n}
      BY <2>3
    <3>3. com1 \subseteq com \cup {Rest}
      BY <1>2
    <3>4. Pending(c) = ChecksOn(c) \cap (ans \cup com) /\ Pending(c)' = ChecksOn(c)' \cap (ans1 \cup com1)
      BY <2>1 DEF Pending
    <3> HIDE DEF ans, com, ans1, com1
    <3> QED BY <1>4, <3>1, <3>2, <3>3, <3>4
  <2>8. Cardinality(Pending(c)') <= Cardinality(Waited(c)')
    <3>1. IsFiniteSet(Pending(c)) /\ IsFiniteSet(Waited(c)) /\ Cardinality(Pending(c)) <= Cardinality(Waited(c))
      BY <1>3, <1>7, ChecksFinite DEF CountOn
    <3>2. Waited(c) \subseteq Waited(c)' /\ IsFiniteSet(Waited(c)')
      BY <1>7, <3>1
    <3> QED BY <2>7, <3>1, <3>2, CountsStay
  <2> QED BY <1>2, <1>5, <1>9, <2>1, <2>5, <2>6, <2>8 DEF CountOn
<1> QED BY <1>8, <1>9

\* The steps that add nothing to a connection between Tester and Server.
LEMMA OthersCount ==
  ASSUME TruthInv, TruthInv', CountInv,
         \/ Connect_Click \/ Drop \/ ReadFails \/ AcceptClients \/ EndOfConnection \/ ServerEnds
         \/ ServerStarts \/ Receiver \/ UNCHANGED vars
  PROVE  CountInv'
<1> SUFFICES ASSUME NEW c \in Connections
             PROVE  CountOn(c)'
  BY DEF CountInv
<1>1. CheckTypes /\ CheckTypes' /\ CountOn(c)
  BY DEF TruthInv, CountInv
<1>2. pressed' = pressed /\ ChecksOn(c)' = ChecksOn(c)
  <2>1. pressed' = pressed
    BY DEF Connect_Click, Drop, ReadFails, AcceptClients, EndOfConnection, ServerEnds, ServerStarts,
      Receiver, ListenButton_Click, AcceptTcpClient, ReadString, ReceiverEnds, ReceiverStarts,
      testerVars, vars
  <2> QED BY <2>1, ChecksStay
<1>3. commands'[c] \in {commands[c], <<>>} /\ answers'[c] \in {answers[c], <<>>}
  <2>1. CASE EndOfConnection
    BY <1>1, <2>1 DEF EndOfConnection, CheckTypes
  <2>2. CASE ServerEnds
    BY <1>1, <2>2 DEF ServerEnds, CheckTypes
  <2>3. CASE ~EndOfConnection /\ ~ServerEnds
    BY <2>3 DEF Connect_Click, Drop, ReadFails, AcceptClients, ServerStarts,
      Receiver, ListenButton_Click, AcceptTcpClient, ReadString, ReceiverEnds, ReceiverStarts,
      serverVars, vars
  <2> QED BY <2>1, <2>2, <2>3
<1>4. c \in linkGone' => c \in linkGone \/ commands'[c] = <<>>
  <2>1. CASE EndOfConnection
    BY <1>1, <2>1 DEF EndOfConnection, CheckTypes
  <2>2. CASE ServerEnds
    BY <1>1, <2>2 DEF ServerEnds, CheckTypes
  <2>3. CASE ~EndOfConnection /\ ~ServerEnds
    BY <2>3 DEF Connect_Click, Drop, ReadFails, AcceptClients, ServerStarts,
      Receiver, ListenButton_Click, AcceptTcpClient, ReadString, ReceiverEnds, ReceiverStarts,
      serverVars, vars
  <2> QED BY <2>1, <2>2, <2>3
<1>5. Late \cup {reading} \subseteq (Late \cup {reading})' \/ ReadFails
  BY DEF Connect_Click, Drop, AcceptClients, EndOfConnection, ServerEnds, ServerStarts,
      Receiver, ListenButton_Click, AcceptTcpClient, ReadString, ReceiverEnds, ReceiverStarts,
      testerVars, vars, Late
<1>6. Late \cup {reading} \subseteq (Late \cup {reading})'
  BY <1>5 DEF ReadFails, Late
<1>7. Waited(c) \subseteq Waited(c)'
  BY <1>2, <1>6 DEF Waited
<1> QED BY <1>1, <1>2, <1>3, <1>4, <1>7, CountStays

LEMMA CountStep ==
  ASSUME TruthInv, TruthInv', CountInv, [Next]_vars
  PROVE  CountInv'
<1>1. CheckTypes'
  BY DEF TruthInv
<1> QED BY <1>1, PressCounts, ReadCounts, ReceiveCounts, OthersCount DEF Next, Tester, Server

-----------------------------------------------------------------------------
\* The Receiver's variables have their types.
LEMMA ReceiverTypesKept ==
  ASSUME TruthInv, ReceiverTypes, [Next]_vars
  PROVE  ReceiverTypes'
<1>1. MaxConnects \in Nat /\ calls \in 0 .. MaxConnects /\ call = calls /\ accepted \in 0 .. calls
  BY ChannelAssumption DEF ReceiverTypes
<1>2. <<>> \in Seq(Nat) /\ Len(pressed) \in Nat
  BY DEF TruthInv, CheckTypes
<1>3. CASE Connect_Click
  <2>1. calls' \in 0 .. MaxConnects /\ call' = calls' /\ accepted' \in 0 .. calls' /\ 1 .. calls \subseteq 1 .. calls'
    BY <1>1, <1>3 DEF Connect_Click, receiverVars
  <2> QED BY <1>3, <2>1 DEF Connect_Click, receiverVars, ReceiverTypes
<1>4. CASE \E b \in Buttons : Action_Click(b)
  <2> DEFINE n == Len(pressed) + 1
  <2>1. details' \in {details, [details EXCEPT ![call] = Append(@, n)]} /\ n \in Nat
    BY <1>2, <1>4 DEF Action_Click
  <2>2. details' \in [Connections -> Seq(Nat)]
    <3> HIDE DEF n
    <3>1. CASE call \in Connections
      <4>1. details[call] \in Seq(Nat) /\ details \in [Connections -> Seq(Nat)]
        BY <3>1 DEF ReceiverTypes
      <4>2. Append(details[call], n) \in Seq(Nat)
        BY <2>1, <4>1
      <4> QED BY <2>1, <4>1, <4>2
    <3>2. CASE call \notin Connections
      BY <2>1, <3>2 DEF ReceiverTypes
    <3> QED BY <3>1, <3>2
  <2> QED BY <1>4, <2>2 DEF Action_Click, ReceiverTypes
<1>5. CASE Drop \/ ReadReturns \/ ReadFails \/ Server \/ UNCHANGED vars
  BY <1>5 DEF Drop, ReadReturns, ReadFails, Server, AcceptClients, Recv, Receive, EndOfConnection, ServerEnds,
    ServerStarts, ReceiverTypes, testerVars, receiverVars, vars
<1>6. CASE ListenButton_Click \/ ReceiverStarts
  BY <1>6 DEF ListenButton_Click, ReceiverStarts, testerVars, ReceiverTypes
<1>7. CASE AcceptTcpClient
  <2>1. accepted' \in 0 .. calls /\ accepted' # 0
    BY <1>1, <1>7 DEF AcceptTcpClient
  <2> QED BY <1>7, <2>1 DEF AcceptTcpClient, testerVars, ReceiverTypes
<1>8. CASE ReadString
  <2>1. accepted \in Connections /\ details[accepted] \in Seq(Nat) /\ details[accepted] # <<>>
    BY <1>1, <1>8 DEF ReadString, ReceiverTypes, Connections
  <2>2. Head(details[accepted]) \in Nat /\ Tail(details[accepted]) \in Seq(Nat)
    BY <2>1
  <2>3. windows' \in Seq(Nat)
    BY <1>8, <2>2 DEF ReadString, ReceiverTypes
  <2>4. details' \in [Connections -> Seq(Nat)]
    BY <1>8, <2>2 DEF ReadString, ReceiverTypes
  <2>5. callGone' \subseteq 1 .. calls
    BY <1>1, <1>8, <2>1 DEF ReadString, CallEnds, ReceiverTypes, Connections
  <2> QED BY <1>8, <2>3, <2>4, <2>5 DEF ReadString, testerVars, ReceiverTypes
<1>9. CASE ReceiverEnds
  <2>1. accepted' \in 0 .. calls
    BY <1>1, <1>9 DEF ReceiverEnds
  <2>2. details' \in [Connections -> Seq(Nat)] /\ windows' \in Seq(Nat)
    BY <1>2, <1>9 DEF ReceiverEnds
  <2> QED BY <1>9, <2>1, <2>2 DEF ReceiverEnds, testerVars, ReceiverTypes
<1> QED BY <1>3, <1>4, <1>5, <1>6, <1>7, <1>8, <1>9 DEF Next, Tester, Receiver

\* Starts stay what they are.
LEMMA StartsStay ==
  ASSUME TruthInv, [Next]_vars
  PROVE  Presses \subseteq Presses' /\ \A n : IsStart(pressed, n) => IsStart(pressed', n)
<1>1. CASE \E b \in Buttons : Action_Click(b)
  <2>1. PICK b \in Buttons : Action_Click(b)
    BY <1>1
  <2>2. pressed' = Append(pressed, [button |-> b, on |-> link]) /\ link # 0
    BY <2>1 DEF Action_Click
  <2>3. [button |-> b, on |-> link] \in Press /\ pressed \in Seq(Press)
    BY <2>2, ChannelAssumption DEF TruthInv, CheckTypes, Press, Connections
  <2>4. /\ Presses = 1 .. Len(pressed) /\ Presses' = 1 .. Len(pressed) + 1 /\ Len(pressed) \in Nat
        /\ \A m \in Presses : pressed'[m] = pressed[m]
    BY <2>2, <2>3 DEF Presses
  <2>5. Presses \subseteq Presses'
    BY <2>4
  <2> QED BY <2>4, <2>5 DEF IsStart, Presses
<1>2. CASE pressed' = pressed
  BY <1>2 DEF Presses, IsStart
<1>3. pressed' = pressed \/ \E b \in Buttons : Action_Click(b)
  BY DEF Next, Tester, Server, Receiver, Connect_Click, Drop, ReadReturns, ReadFails, AcceptClients,
    Recv, Receive, EndOfConnection, ServerEnds, ServerStarts, ListenButton_Click, AcceptTcpClient, ReadString,
    ReceiverEnds, ReceiverStarts, testerVars, vars
<1> QED BY <1>1, <1>2, <1>3

\* A Start is written on the latest connection, after all that were written before.
LEMMA PressStarts ==
  ASSUME TruthInv, ReceiverTypes, ReceiverTypes', StartsInv, NEW b \in Buttons, Action_Click(b),
         \A m : IsStart(pressed, m) => IsStart(pressed', m)
  PROVE  StartsInv'
<1> DEFINE n == Len(pressed) + 1
<1>1. /\ pressed' = Append(pressed, [button |-> b, on |-> link]) /\ link # 0
      /\ details' = IF b = "Start" /\ call \notin callGone
                      THEN [details EXCEPT ![call] = Append(@, n)] ELSE details
      /\ UNCHANGED <<calls, call, receiver, accepted, windows>>
  BY DEF Action_Click
<1>2. /\ n \in Nat /\ pressed \in Seq(Press) /\ [button |-> b, on |-> link] \in Press
      /\ MaxConnects \in Nat /\ Presses = 1 .. n - 1
  BY <1>1, ChannelAssumption DEF TruthInv, CheckTypes, Press, Presses, Connections
<1>3. b = "Start" => IsStart(pressed', n)
  BY <1>1, <1>2 DEF IsStart
<1>4. \A m : IsStart(pressed, m) => m \in Nat /\ m < n
  BY <1>2 DEF IsStart, Presses
<1>5. WindowsInv'
  BY <1>1 DEF StartsInv, WindowsInv
<1>6. \A c : Unread(c)' = Unread(c)
  BY <1>1 DEF Unread
<1>7. CASE details' = details
  BY <1>1, <1>5, <1>6, <1>7 DEF StartsInv, DetailsOn
<1>8. CASE b = "Start" /\ details' = [details EXCEPT ![call] = Append(@, n)] /\ call \in Connections
  <2>1. details \in [Connections -> Seq(Nat)] /\ calls \in Nat /\ call = calls
    BY <1>2 DEF ReceiverTypes
  <2>2. \A c \in Connections : \A i \in DOMAIN details'[c] :
          \/ i \in DOMAIN details[c] /\ details'[c][i] = details[c][i]
          \/ i = Len(details[c]) + 1 /\ details'[c][i] = n /\ c = calls
    <3> SUFFICES ASSUME NEW c \in Connections, NEW i \in DOMAIN details'[c]
                 PROVE  \/ i \in DOMAIN details[c] /\ details'[c][i] = details[c][i]
                        \/ i = Len(details[c]) + 1 /\ details'[c][i] = n /\ c = calls
      OBVIOUS
    <3>1. CASE c # call
      BY <1>8, <2>1, <3>1
    <3>2. CASE c = call
      <4>1. details'[c] = Append(details[c], n) /\ details[c] \in Seq(Nat)
        BY <1>8, <2>1, <3>2
      <4> QED BY <1>2, <2>1, <3>2, <4>1
    <3> QED BY <3>1, <3>2
  <2>3. \A c \in Connections : \A i \in DOMAIN details[c] : IsStart(pressed, details[c][i])
    BY DEF StartsInv, DetailsOn
  <2>4. \A j \in DOMAIN windows : windows[j] < n
    BY <1>4 DEF StartsInv, WindowsInv
  <2> SUFFICES ASSUME NEW c \in Connections
               PROVE  DetailsOn(c)'
    BY <1>5 DEF StartsInv
  <2> SUFFICES ASSUME NEW i \in DOMAIN details'[c]
               PROVE  /\ c <= calls /\ IsStart(pressed', details'[c][i])
                      /\ \A j \in DOMAIN details'[c] : i < j => details'[c][i] < details'[c][j]
                      /\ \A d \in Connections : \A j \in DOMAIN details'[d] :
                           c < d => details'[c][i] < details'[d][j]
                      /\ Unread(c) => \A j \in DOMAIN windows : windows[j] < details'[c][i]
    BY <1>1, <1>6 DEF DetailsOn
  <2>5. c \in Nat /\ details[c] \in Seq(Nat) /\ DetailsOn(c)
    BY <1>2, <2>1 DEF Connections, StartsInv
  <2>6. CASE i \in DOMAIN details[c] /\ details'[c][i] = details[c][i]
    <3>1. IsStart(pressed, details[c][i]) /\ details[c][i] < n /\ c <= calls
      BY <1>4, <2>5, <2>6 DEF DetailsOn
    <3>2. \A j \in DOMAIN details'[c] : i < j => details'[c][i] < details'[c][j]
      BY <2>2, <2>5, <2>6, <3>1 DEF DetailsOn
    <3>3. \A d \in Connections : \A j \in DOMAIN details'[d] : c < d => details'[c][i] < details'[d][j]
      BY <2>2, <2>5, <2>6, <3>1 DEF DetailsOn
    <3> QED BY <2>5, <2>6, <3>1, <3>2, <3>3 DEF DetailsOn
  <2>7. CASE i = Len(details[c]) + 1 /\ details'[c][i] = n /\ c = calls
    <3>1. \A j \in DOMAIN details'[c] : ~(i < j)
      <4>1. DOMAIN details[c] = 1 .. Len(details[c]) /\ Len(details[c]) \in Nat
        BY <2>5
      <4> QED BY <2>2, <2>7, <4>1
    <3>2. \A d \in Connections : \A j \in DOMAIN details'[d] : ~(c < d)
      <4> SUFFICES ASSUME NEW d \in Connections, NEW j \in DOMAIN details'[d]
                   PROVE  d <= calls
        BY <1>2, <2>1, <2>5, <2>7 DEF Connections
      <4>1. CASE j \in DOMAIN details[d]
        BY <4>1 DEF StartsInv, DetailsOn
      <4> QED BY <2>1, <2>2, <4>1
    <3> QED BY <1>3, <1>8, <2>1, <2>4, <2>7, <3>1, <3>2
  <2> QED BY <2>2, <2>6, <2>7
<1>9. CASE call \notin Connections
  <2>1. details' = details
    BY <1>1, <1>9 DEF ReceiverTypes
  <2> QED BY <1>7, <2>1
<1> QED BY <1>1, <1>7, <1>8, <1>9

\* A Start that gets its window comes after those that have one, and before those unread.
LEMMA ReadStarts ==
  ASSUME TruthInv, ReceiverTypes, ReceiverTypes', StartsInv, ReadString
  PROVE  StartsInv'
<1>1. /\ receiver = "reading" /\ details[accepted] # <<>>
      /\ windows' = Append(windows, Head(details[accepted]))
      /\ details' = [details EXCEPT ![accepted] = Tail(@)] /\ receiver' = "idle"
      /\ UNCHANGED <<pressed, calls, accepted>>
  BY DEF ReadString, testerVars
<1>2. /\ MaxConnects \in Nat /\ calls \in Nat /\ accepted \in Connections /\ accepted \in Nat
      /\ details \in [Connections -> Seq(Nat)] /\ windows \in Seq(Nat)
  BY <1>1, ChannelAssumption DEF ReceiverTypes, Connections
<1> DEFINE old == details[accepted]
           n == old[1]
<1>3. /\ old \in Seq(Nat) /\ 1 \in DOMAIN old /\ DOMAIN old = 1 .. Len(old) /\ Len(old) \in Nat
      /\ n \in Nat /\ Head(old) = n
  BY <1>1, <1>2
<1>4. Tail(old) \in Seq(Nat) /\ \A i \in DOMAIN Tail(old) : i + 1 \in DOMAIN old /\ Tail(old)[i] = old[i + 1]
                                 /\ i \in Nat /\ i >= 1
  BY <1>1, <1>3
<1>5. DetailsOn(accepted) /\ IsStart(pressed, n) /\ Unread(accepted)
  <2>1. DetailsOn(accepted) /\ Unread(accepted)
    BY <1>1, <1>2 DEF StartsInv, Unread
  <2> QED BY <1>3, <2>1 DEF DetailsOn
<1>6. \A j \in DOMAIN windows : windows[j] < n
  BY <1>3, <1>5 DEF DetailsOn
<1>7. /\ \A i \in DOMAIN windows' : \/ i \in DOMAIN windows /\ windows'[i] = windows[i]
                                    \/ i = Len(windows) + 1 /\ windows'[i] = n
      /\ DOMAIN windows = 1 .. Len(windows) /\ Len(windows) \in Nat
  <2> HIDE DEF n, old
  <2>1. windows' = Append(windows, n)
    BY <1>1, <1>3 DEF old
  <2> QED BY <1>2, <1>3, <2>1
<1>8. \A m : IsStart(pressed', m) = IsStart(pressed, m)
  BY <1>1 DEF IsStart, Presses
<1>9. WindowsInv'
  <2> SUFFICES ASSUME NEW i \in DOMAIN windows'
               PROVE  IsStart(pressed, windows'[i]) /\ \A j \in DOMAIN windows' : i < j => windows'[i] < windows'[j]
    BY <1>8 DEF WindowsInv
  <2>1. CASE i \in DOMAIN windows /\ windows'[i] = windows[i]
    BY <1>6, <1>7, <2>1 DEF StartsInv, WindowsInv
  <2>2. CASE i = Len(windows) + 1 /\ windows'[i] = n
    BY <1>5, <1>7, <2>2
  <2> QED BY <1>7, <2>1, <2>2
<1>10. \A c \in Connections : /\ c # accepted => details'[c] = details[c]
                              /\ c = accepted => details'[c] = Tail(old)
  BY <1>1, <1>2
<1>11. \A c \in Connections : \A i \in DOMAIN details'[c] :
         \E k \in DOMAIN details[c] :
           /\ details'[c][i] = details[c][k] /\ k = (IF c = accepted THEN i + 1 ELSE i)
  BY <1>4, <1>10
<1> SUFFICES ASSUME NEW c \in Connections, NEW i \in DOMAIN details'[c]
             PROVE  /\ c <= calls /\ IsStart(pressed, details'[c][i])
                    /\ \A j \in DOMAIN details'[c] : i < j => details'[c][i] < details'[c][j]
                    /\ \A d \in Connections : \A j \in DOMAIN details'[d] :
                         c < d => details'[c][i] < details'[d][j]
                    /\ Unread(c)' => \A j \in DOMAIN windows' : windows'[j] < details'[c][i]
  BY <1>1, <1>8, <1>9 DEF StartsInv, DetailsOn
<1>12. DetailsOn(c) /\ c \in Nat
  BY <1>2 DEF StartsInv, Connections
<1>13. PICK k \in DOMAIN details[c] :
         details'[c][i] = details[c][k] /\ k = (IF c = accepted THEN i + 1 ELSE i)
  BY <1>11
<1>14. c <= calls /\ IsStart(pressed, details'[c][i])
  BY <1>12, <1>13 DEF DetailsOn
<1>15. \A j \in DOMAIN details'[c] : i < j => details'[c][i] < details'[c][j]
  <2> SUFFICES ASSUME NEW j \in DOMAIN details'[c], i < j
               PROVE  details[c][k] < details'[c][j]
    BY <1>13
  <2>1. CASE c = accepted
    <3>1. details'[c] = Tail(old) /\ details[c] = old /\ k = i + 1
      BY <1>10, <1>13, <2>1
    <3>2. details'[c][j] = details[c][j + 1] /\ j + 1 \in DOMAIN details[c] /\ k < j + 1
      BY <1>4, <3>1
    <3> QED BY <1>12, <3>2 DEF DetailsOn
  <2>2. CASE c # accepted
    BY <1>10, <1>12, <1>13, <2>2 DEF DetailsOn
  <2> QED BY <2>1, <2>2
<1>16. \A d \in Connections : \A j \in DOMAIN details'[d] : c < d => details'[c][i] < details'[d][j]
  BY <1>11, <1>12, <1>13 DEF DetailsOn
<1>17. Unread(c)' => \A j \in DOMAIN windows' : windows'[j] < details'[c][i]
  <2> SUFFICES ASSUME c > accepted, NEW j \in DOMAIN windows'
               PROVE  windows'[j] < details[c][k]
    BY <1>1, <1>13 DEF Unread
  <2>1. Unread(c) /\ accepted < c
    BY <1>2, <1>12 DEF Unread
  <2>2. CASE j \in DOMAIN windows /\ windows'[j] = windows[j]
    BY <1>12, <1>13, <2>1, <2>2 DEF DetailsOn
  <2>3. CASE windows'[j] = n
    BY <1>3, <1>5, <1>13, <2>1, <2>3 DEF DetailsOn
  <2> QED BY <1>7, <2>2, <2>3
<1> QED BY <1>14, <1>15, <1>16, <1>17

\* Where the Receiver stops reading a connection, or begins another one that it has not read.
LEMMA OthersStart ==
  ASSUME TruthInv, ReceiverTypes, ReceiverTypes', StartsInv, UNCHANGED pressed,
         details' = details, windows' = windows, calls <= calls',
         \A c \in Connections : Unread(c)' => Unread(c) \/ c > calls
  PROVE  StartsInv'
<1>1. WindowsInv'
  BY DEF StartsInv, WindowsInv
<1> SUFFICES ASSUME NEW c \in Connections
             PROVE  DetailsOn(c)'
  BY <1>1 DEF StartsInv
<1>2. calls \in Nat /\ calls' \in Nat /\ c \in Nat /\ DetailsOn(c)
  BY ChannelAssumption DEF ReceiverTypes, StartsInv, Connections
<1>3. \A i \in DOMAIN details[c] : c <= calls /\ c <= calls'
  BY <1>2 DEF DetailsOn
<1>4. \A i \in DOMAIN details[c] : Unread(c)' => Unread(c)
  BY <1>2, <1>3
<1> QED BY <1>2, <1>3, <1>4 DEF DetailsOn

LEMMA StartsStep ==
  ASSUME TruthInv, ReceiverTypes, ReceiverTypes', StartsInv, [Next]_vars
  PROVE  StartsInv'
<1>1. MaxConnects \in Nat /\ calls \in Nat /\ accepted \in Nat /\ accepted <= calls /\ \A c \in Connections : c \in Nat
  BY ChannelAssumption DEF ReceiverTypes, Connections
<1>2. CASE \E b \in Buttons : Action_Click(b)
  BY <1>2, StartsStay, PressStarts
<1>3. CASE ReadString
  BY <1>3, ReadStarts
<1>4. CASE ReceiverEnds
  <2>1. details' = [c \in Connections |-> <<>>] /\ windows' = <<>> /\ DOMAIN <<>> = {}
    BY <1>4 DEF ReceiverEnds
  <2>2. \A c \in Connections : DOMAIN details'[c] = {}
    BY <2>1
  <2> QED BY <2>1, <2>2 DEF StartsInv, DetailsOn, WindowsInv
<1>5. CASE Connect_Click
  <2>1. /\ UNCHANGED <<pressed, details, windows, receiver, accepted>> /\ calls <= calls'
    BY <1>1, <1>5 DEF Connect_Click, receiverVars
  <2>2. \A c : Unread(c)' = Unread(c)
    BY <2>1 DEF Unread
  <2> QED BY <2>1, <2>2, OthersStart
<1>6. CASE AcceptTcpClient
  <2>1. /\ UNCHANGED <<pressed, details, windows, calls>> /\ accepted' = accepted + 1
    BY <1>6 DEF AcceptTcpClient, testerVars
  <2>2. \A c \in Connections : Unread(c)' => Unread(c)
    BY <1>1, <2>1 DEF Unread
  <2> QED BY <1>1, <2>1, <2>2, OthersStart
<1>7. CASE ListenButton_Click \/ ReceiverStarts
  <2>1. UNCHANGED <<pressed, details, windows, calls, accepted>> /\ receiver' # "reading"
    BY <1>7 DEF ListenButton_Click, ReceiverStarts, testerVars
  <2>2. \A c \in Connections : Unread(c)' => Unread(c)
    BY <2>1 DEF Unread
  <2> QED BY <1>1, <2>1, <2>2, OthersStart
<1>8. CASE Drop \/ ReadReturns \/ ReadFails \/ Server \/ UNCHANGED vars
  <2>1. UNCHANGED <<pressed, calls>> /\ UNCHANGED receiverVars
    BY <1>8 DEF Drop, ReadReturns, ReadFails, Server, AcceptClients, Recv, Receive, EndOfConnection, ServerEnds,
      ServerStarts, testerVars, vars
  <2>2. \A c : Unread(c)' = Unread(c)
    BY <2>1 DEF Unread, receiverVars
  <2> QED BY <1>1, <2>1, <2>2, OthersStart DEF receiverVars
<1> QED BY <1>2, <1>3, <1>4, <1>5, <1>6, <1>7, <1>8 DEF Next, Tester, Receiver

LEMMA OtherTypesKept ==
  ASSUME TruthInv, ReceiverTypes, OtherTypes, [Next]_vars
  PROVE  OtherTypes'
<1>1. /\ MaxConnects \in Nat /\ MaxEnds \in Nat /\ links \in 0 .. MaxConnects /\ served \in 0 .. links
      /\ ends \in 0 .. MaxEnds /\ calls \in 0 .. MaxConnects
  BY ChannelAssumption DEF OtherTypes, TruthInv, CheckTypes, ReceiverTypes
<1>2. CASE Connect_Click
  <2>1. served' = served /\ links' \in {links, links + 1}
    BY <1>2 DEF Connect_Click, serverVars
  <2>2. served' \in 0 .. links'
    BY <1>1, <2>1
  <2> QED BY <1>2, <2>2 DEF Connect_Click, serverVars, OtherTypes
<1>3. CASE Drop
  <2>1. PICK d \in ({"link"} \X (1 .. links \ {link})) \cup ({"call"} \X (1 .. calls \ {call})) :
          dropped' = dropped \cup {d}
    BY <1>3 DEF Drop
  <2>2. 1 .. links \subseteq Connections /\ 1 .. calls \subseteq Connections
    BY <1>1 DEF Connections
  <2>3. d \in {"link", "call"} \X Connections
    BY <2>2
  <2> QED BY <1>3, <2>1, <2>3 DEF Drop, testerVars, serverVars, OtherTypes
<1>4. CASE Tester /\ ~Connect_Click /\ ~Drop
  BY <1>4 DEF Tester, Action_Click, ReadReturns, ReadFails, serverVars, OtherTypes
<1>5. CASE Server /\ ~ServerEnds /\ ~AcceptClients
  BY <1>5 DEF Server, Recv, Receive, EndOfConnection, ServerStarts, testerVars, OtherTypes
<1>6. CASE AcceptClients
  <2>1. served' \in 1 .. links /\ links' = links
    BY <1>6 DEF AcceptClients, testerVars
  <2>2. served' \in 0 .. links'
    BY <1>1, <2>1
  <2> QED BY <1>6, <2>2 DEF AcceptClients, OtherTypes
<1>7. CASE ServerEnds
  <2>1. served' = 0 /\ links' = links /\ ends' = ends + 1 /\ ends < MaxEnds
    BY <1>7 DEF ServerEnds, testerVars
  <2>2. served' \in 0 .. links' /\ ends' \in 0 .. MaxEnds
    BY <1>1, <2>1
  <2> QED BY <1>7, <2>2 DEF ServerEnds, OtherTypes
<1>8. CASE ReceiverEnds
  <2>1. ends' \in 0 .. MaxEnds
    BY <1>1, <1>8 DEF ReceiverEnds
  <2> QED BY <1>8, <2>1 DEF ReceiverEnds, testerVars, serverVars, OtherTypes
<1>9. CASE Receiver /\ ~ReceiverEnds
  BY <1>9 DEF Receiver, ListenButton_Click, AcceptTcpClient, ReadString, ReceiverStarts, testerVars,
    serverVars, OtherTypes
<1>10. CASE UNCHANGED vars
  BY <1>10 DEF vars, testerVars, serverVars, OtherTypes
<1> QED BY <1>2, <1>3, <1>4, <1>5, <1>6, <1>7, <1>8, <1>9, <1>10 DEF Next, Server

-----------------------------------------------------------------------------
LEMMA WholeInit == Init => WholeInv
<1> SUFFICES ASSUME Init PROVE WholeInv
  OBVIOUS
<1>1. TruthInv
  BY TruthInit
<1>2. \A c \in Connections : answers[c] = <<>> /\ commands[c] = <<>> /\ details[c] = <<>>
  BY DEF Init
<1>3. pressed = <<>> /\ Presses = {} /\ windows = <<>> /\ DOMAIN <<>> = {} /\ <<>> \in Seq(Nat)
  BY DEF Init, Presses
<1>4. CountInv
  <2> SUFFICES ASSUME NEW c \in Connections
               PROVE  CountOn(c)
    BY DEF CountInv
  <2>1. Pending(c) = {} /\ Waited(c) = {}
    BY <1>3 DEF Pending, Waited, ChecksOn
  <2>2. Cardinality(Pending(c)) <= Cardinality(Waited(c))
    BY <2>1, FS_EmptySet
  <2> QED BY <1>2, <1>3, <2>2 DEF CountOn
<1>5. ReceiverTypes
  BY <1>2, <1>3, ChannelAssumption DEF Init, ReceiverTypes
<1>6. StartsInv
  BY <1>2, <1>3 DEF StartsInv, DetailsOn, WindowsInv
<1>7. OtherTypes
  BY ChannelAssumption DEF Init, OtherTypes
<1> QED BY <1>1, <1>4, <1>5, <1>6, <1>7 DEF WholeInv

LEMMA WholeStep == WholeInv /\ [Next]_vars => WholeInv'
<1> SUFFICES ASSUME WholeInv, [Next]_vars PROVE WholeInv'
  OBVIOUS
<1>1. TruthInv /\ CountInv /\ ReceiverTypes /\ StartsInv /\ OtherTypes
  BY DEF WholeInv
<1>2. TruthInv'
  BY <1>1, TruthStep
<1>3. CountInv'
  BY <1>1, <1>2, CountStep
<1>4. ReceiverTypes'
  BY <1>1, ReceiverTypesKept
<1>5. StartsInv'
  BY <1>1, <1>4, StartsStep
<1>6. OtherTypes'
  BY <1>1, OtherTypesKept
<1> QED BY <1>2, <1>3, <1>4, <1>5, <1>6 DEF WholeInv

LEMMA WholeMeans == WholeInv => ChannelInv
<1> SUFFICES ASSUME WholeInv PROVE ChannelInv
  OBVIOUS
<1>1. TruthInv /\ CountInv /\ ReceiverTypes /\ StartsInv /\ OtherTypes
  BY DEF WholeInv
<1>2. CheckTypes /\ DOMAIN pressed = Presses
  BY <1>1 DEF TruthInv, Presses
<1>3. MaxConnects \in Nat /\ links \in 0 .. MaxConnects /\ calls \in 0 .. MaxConnects
  BY <1>1, <1>2, ChannelAssumption DEF CheckTypes, ReceiverTypes
<1>4. TypeOK
  <2>1. commands \in [Connections -> Seq(Presses \cup {Rest})]
    <3>1. \A c \in Connections : /\ commands[c] \in Seq(Nat)
                                /\ \A i \in DOMAIN commands[c] : commands[c][i] \in Presses \cup {Rest}
      BY <1>1, <1>2 DEF CheckTypes, TruthInv, CommandsInv
    <3>2. \A c \in Connections : commands[c] \in Seq(Presses \cup {Rest})
      BY <3>1, SequenceOver
    <3> QED BY <1>2, <3>2 DEF CheckTypes
  <2>2. answers \in [Connections -> Seq(Presses)]
    <3>1. \A c \in Connections : answers[c] \in Seq(Nat) /\ \A i \in DOMAIN answers[c] : answers[c][i] \in Presses
      BY <1>1, <1>2 DEF CheckTypes, TruthInv, AnswersInv, ChecksOn
    <3>2. \A c \in Connections : answers[c] \in Seq(Presses)
      BY <3>1, SequenceOver
    <3> QED BY <1>2, <3>2 DEF CheckTypes
  <2>3. details \in [Connections -> Seq(Presses)]
    <3>1. \A c \in Connections : details[c] \in Seq(Nat) /\ \A i \in DOMAIN details[c] : details[c][i] \in Presses
      BY <1>1, <1>2 DEF ReceiverTypes, StartsInv, DetailsOn, IsStart
    <3>2. \A c \in Connections : details[c] \in Seq(Presses)
      BY <3>1, SequenceOver
    <3> QED BY <1>1, <3>2 DEF ReceiverTypes
  <2>4. windows \in Seq(Presses)
    <3>1. windows \in Seq(Nat) /\ \A i \in DOMAIN windows : windows[i] \in Presses
      BY <1>1, <1>2 DEF ReceiverTypes, StartsInv, WindowsInv, IsStart
    <3> QED BY <3>1, SequenceOver
  <2>5. pressed \in Seq([button : Buttons, on : Connections]) /\ reading \in 0 .. Len(pressed)
    BY <1>1, <1>2 DEF CheckTypes, Press, TruthInv, ReadingInv
  <2>6. linkGone \subseteq Connections /\ callGone \subseteq Connections
    BY <1>1, <1>2, <1>3 DEF CheckTypes, ReceiverTypes, Connections
  <2>7. call \in 0 .. calls /\ link \in 0 .. links
    BY <1>1, <1>2, <1>3 DEF CheckTypes, ReceiverTypes
  <2> QED BY <1>1, <1>2, <1>3, <2>1, <2>2, <2>3, <2>4, <2>5, <2>6, <2>7
        DEF TypeOK, CheckTypes, ReceiverTypes, OtherTypes
<1>5. ASSUME NEW c \in Connections
      PROVE  /\ Len(answers[c]) <= Cardinality(ChecksOn(c) \cap (Late \cup {reading}))
             /\ \A i \in DOMAIN answers[c] : answers[c][i] \in ChecksOn(c) \cap handled
             /\ \A i, j \in DOMAIN answers[c] : i < j => answers[c][i] < answers[c][j]
  <2>1. CountOn(c) /\ answers[c] \in Seq(Nat)
    BY <1>1, <1>2 DEF CountInv, CheckTypes
  <2>2. \A i \in DOMAIN answers[c] : answers[c][i] \in ChecksOn(c) \cap handled
    BY <1>1 DEF TruthInv, AnswersInv
  <2>3. \A i, j \in DOMAIN answers[c] : i < j => answers[c][i] < answers[c][j]
    BY <2>1 DEF CountOn
  <2>4. IsFiniteSet(Pending(c)) /\ IsFiniteSet(Waited(c))
    BY <1>2, ChecksFinite
  <2>5. \A i \in DOMAIN answers[c] : answers[c][i] \in Pending(c)
    BY <2>2 DEF Pending
  <2>6. Len(answers[c]) <= Cardinality(Pending(c))
    BY <2>1, <2>3, <2>4, <2>5, DistinctInFinite
  <2>7. Cardinality(Pending(c)) <= Cardinality(Waited(c))
    BY <2>1 DEF CountOn
  <2>8. Len(answers[c]) \in Nat /\ Cardinality(Pending(c)) \in Nat /\ Cardinality(Waited(c)) \in Nat
    BY <2>1, <2>4, FS_CardinalityType
  <2>9. Len(answers[c]) <= Cardinality(Waited(c))
    BY <2>6, <2>7, <2>8
  <2> QED BY <2>2, <2>3, <2>9 DEF Waited
<1>6. /\ \A i \in DOMAIN windows : pressed[windows[i]].button = "Start"
      /\ \A i, j \in DOMAIN windows : i < j => windows[i] < windows[j]
  BY <1>1 DEF StartsInv, WindowsInv, IsStart
<1> QED BY <1>4, <1>5, <1>6 DEF ChannelInv

\* A connection never holds more answers than it has Checks whose own read has not
\* taken one away, and the Receiver opens its windows for different Starts, in the
\* order of pressing: whatever the programs do, and in whatever order they end.
THEOREM ChannelSafety == Spec => []ChannelInv
<1> QED BY WholeInit, WholeStep, WholeMeans, PTL DEF Spec
=============================================================================
