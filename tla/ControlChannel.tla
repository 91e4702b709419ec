--------------------------- MODULE ControlChannel ---------------------------
(***************************************************************************)
(* The control connections between the three programs.  The Tester writes  *)
(* its commands to the Server and, with a Start, the stream's address to   *)
(* the Receiver; its window waits for the answer to a Check, five seconds  *)
(* at most.  The Server serves the first connection it accepts until a     *)
(* Stop or the end of the connection; others connect, but stay in its      *)
(* backlog.  The Receiver accepts one connection per click, in the order   *)
(* of connecting, reads one message, and closes it.  Server and Receiver   *)
(* may end at any time, and be started again.                              *)
(*                                                                         *)
(* TCP keeps the order of bytes but no boundaries: what one read returns   *)
(* may hold several commands or answers, and end within one.               *)
(*                                                                         *)
(* Presses of the three action buttons are numbered.  What the Server does *)
(* with a command is in StreamServer; here it only takes notice of it.     *)
(***************************************************************************)
EXTENDS Integers, Sequences, FiniteSets

CONSTANTS MaxConnects,  \* bound: connections to each of the two programs
          MaxPresses,   \* bound: presses of Check, Start and Stop
          MaxEnds,      \* bound: ends of Server and Receiver, together
          MaxParts      \* bound: reads that end within a command or an answer, together

ASSUME ChannelAssumption ==
  MaxConnects \in Nat /\ MaxPresses \in Nat /\ MaxEnds \in Nat /\ MaxParts \in Nat

VARIABLES
  \* The Tester:
  link,      \* the connection of writerStreamer and stream; 0: the buttons are disabled
  call,      \* the connection of writerReceiver
  reading,   \* the Check whose answer is read, or 0
  pressed,   \* the presses so far: the button, and the connection written to
  connected, \* the Checks after which "You have connection with server" was shown
  timedOut,  \* the Checks whose read ended after ReadTimeout
  partly,    \* the Checks whose read did not take all that was sent to them
  \* The Server, and what is under way to and from it, by connection:
  accept,    \* "accepting", "serving", "left" (after a Stop), "closed", "ended"
  served,    \* clientSocket: the connection that was accepted, or 0
  commands, answers,
  linkGone,  \* the connections that the Server's end has closed
  handled,   \* the presses that the accept thread has acted on
  torn,      \* the presses of which one recv returned only a part
  \* The Receiver:
  receiver,  \* "idle", "accepting", "reading", "ended"
  accepted,  \* connections accepted so far, or lost with a Receiver that ended
  details,   \* by connection, the Starts under way to the Receiver
  callGone,  \* the connections that the Receiver's end has closed
  windows,   \* the Start of each window, in the order of numberOfWindows
  \* Of both:
  dropped,   \* replaced connections that the Tester's runtime has closed: <<"link" or "call", n>>
  links, calls, ends

serverVars   == <<accept, served, commands, answers, linkGone, handled, torn>>
receiverVars == <<receiver, accepted, details, callGone, windows>>
testerVars   == <<link, call, reading, pressed, connected, timedOut, partly, links, calls>>
vars == <<testerVars, serverVars, receiverVars, dropped, ends>>

Connections == 1 .. MaxConnects
MayBePart == Cardinality(torn \cup partly) < MaxParts
Presses == DOMAIN pressed
Buttons == {"Check", "Start", "Stop"}
Rest == 0   \* on the way to the Server: what is left of a command read in part

TypeOK ==
  /\ link \in 0 .. links /\ call \in 0 .. calls /\ links \in 0 .. MaxConnects /\ calls \in 0 .. MaxConnects
  /\ reading \in 0 .. Len(pressed) /\ pressed \in Seq([button : Buttons, on : Connections])
  /\ connected \subseteq Presses /\ timedOut \subseteq Presses /\ handled \subseteq Presses
  /\ partly \subseteq Presses /\ torn \subseteq Presses
  /\ accept \in {"accepting", "serving", "left", "closed", "ended"} /\ served \in 0 .. links
  /\ commands \in [Connections -> Seq(Presses \cup {Rest})] /\ answers \in [Connections -> Seq(Presses)]
  /\ linkGone \subseteq Connections /\ callGone \subseteq Connections
  /\ receiver \in {"idle", "accepting", "reading", "ended"} /\ accepted \in 0 .. calls
  /\ details \in [Connections -> Seq(Presses)] /\ windows \in Seq(Presses)
  /\ dropped \subseteq {"link", "call"} \X Connections /\ ends \in 0 .. MaxEnds

Init ==
  /\ link = 0 /\ call = 0 /\ links = 0 /\ calls = 0 /\ reading = 0
  /\ pressed = <<>> /\ connected = {} /\ timedOut = {} /\ handled = {}
  /\ partly = {} /\ torn = {}
  /\ accept = "accepting" /\ served = 0
  /\ commands = [c \in Connections |-> <<>>] /\ answers = [c \in Connections |-> <<>>]
  /\ linkGone = {} /\ callGone = {} /\ receiver = "idle" /\ accepted = 0
  /\ details = [c \in Connections |-> <<>>] /\ windows = <<>> /\ dropped = {} /\ ends = 0

-----------------------------------------------------------------------------
(* The Tester.  Its handlers run in the thread of the window, which a read  *)
(* blocks.                                                                  *)

\* Connect_Click: first the Receiver, then the Server.  If the second does not
\* answer, the first connection has been replaced all the same.
Connect_Click ==
  /\ reading = 0 /\ receiver # "ended" /\ calls < MaxConnects
  /\ calls' = calls + 1 /\ call' = calls'
  /\ IF accept = "ended" THEN UNCHANGED <<link, links>>
     ELSE links < MaxConnects /\ links' = links + 1 /\ link' = links'
  /\ UNCHANGED <<reading, pressed, connected, timedOut, partly, serverVars, receiverVars, dropped, ends>>

\* The runtime closes a connection that was replaced, if it ever does.
Drop ==
  /\ \E d \in ({"link"} \X (1 .. links \ {link})) \cup ({"call"} \X (1 .. calls \ {call})) :
       d \notin dropped /\ dropped' = dropped \cup {d}
  /\ UNCHANGED <<testerVars, serverVars, receiverVars, ends>>

\* Action_Click, to where it reads or returns.  What is written on a connection
\* whose other end is closed is lost, with a message or without.
Action_Click(button) ==
  LET n == Len(pressed) + 1 IN
  /\ reading = 0 /\ link # 0 /\ n <= MaxPresses
  /\ pressed' = Append(pressed, [button |-> button, on |-> link])
  /\ commands' = IF link \in linkGone THEN commands ELSE [commands EXCEPT ![link] = Append(@, n)]
  /\ reading' = IF button = "Check" THEN n ELSE 0
  /\ details' = IF button = "Start" /\ call \notin callGone
                  THEN [details EXCEPT ![call] = Append(@, n)] ELSE details
  /\ UNCHANGED <<link, call, connected, timedOut, partly, links, calls, accept, served, answers,
                 linkGone, handled, torn, receiver, accepted, callGone, windows, dropped, ends>>

\* The read of a Check returns what has arrived, whichever Checks it answers:
\* k answers and, when some are left, perhaps a part of the next; or no byte,
\* because the connection has ended.
ReadReturns ==
  /\ reading # 0 /\ (answers[link] # <<>> \/ link \in linkGone)
  /\ \E k \in 0 .. Len(answers[link]) :
       /\ k < Len(answers[link]) => MayBePart
       /\ answers' = [answers EXCEPT ![link] = SubSeq(@, k + 1, Len(@))]
       /\ partly' = IF k < Len(answers[link]) THEN partly \cup {reading} ELSE partly
  /\ connected' = connected \cup {reading} /\ reading' = 0
  /\ UNCHANGED <<link, call, pressed, timedOut, links, calls, accept, served, commands, linkGone,
                 handled, torn, receiverVars, dropped, ends>>

\* Mutant: the streamer's connection has no ReadTimeout.
ReadFailsWithoutTimeout ==
  /\ reading # 0 /\ answers[link] = <<>> /\ link \in linkGone
  /\ timedOut' = timedOut \cup {reading} /\ reading' = 0
  /\ UNCHANGED <<link, call, pressed, connected, partly, links, calls, serverVars, receiverVars,
                 dropped, ends>>

\* Mutant: a read that fails counts as an answer.
ReadFailsAsAnswer ==
  /\ reading # 0 /\ answers[link] = <<>>
  /\ connected' = connected \cup {reading} /\ reading' = 0
  /\ UNCHANGED <<link, call, pressed, timedOut, partly, links, calls, serverVars, receiverVars,
                 dropped, ends>>

\* IOException: ReadTimeout is over before an answer has arrived, or the
\* connection was reset.
ReadFails ==
  /\ reading # 0
  /\ timedOut' = timedOut \cup {reading} /\ reading' = 0
  /\ UNCHANGED <<link, call, pressed, connected, partly, links, calls, serverVars, receiverVars,
                 dropped, ends>>

-----------------------------------------------------------------------------
(* The Server.                                                              *)

\* main accepts the first connection of its backlog, and no other.
AcceptClients ==
  /\ accept = "accepting"
  /\ \E c \in 1 .. links \ linkGone :
       (\A d \in 1 .. c - 1 : d \in linkGone) /\ served' = c
  /\ accept' = "serving"
  /\ UNCHANGED <<testerVars, commands, answers, linkGone, handled, torn, receiverVars, dropped, ends>>

\* Mutant: every command is answered.
AnswerAll(n, c) == [answers EXCEPT ![c] = Append(@, n)]

\* A Check is answered.
Answer(n, c) ==
  IF pressed[n].button = "Check" THEN [answers EXCEPT ![c] = Append(@, n)] ELSE answers

\* Mutant: of the commands that one recv returns, the last is used.
UsedLast(c, k) == commands[c][k]

\* Of the commands that one recv returns, the first is used.
Used(c, k) == commands[c][1]

\* What stays on the way, the front of it split.
Left(c, k, split) ==
  LET behind == SubSeq(commands[c], k + 1, Len(commands[c]))
  IN  IF split THEN [behind EXCEPT ![1] = Rest] ELSE behind

\* acceptFunction after a recv of k commands and, with split, a part of the next.
\* The parser takes the first whole command and throws away what else was read,
\* or all of it if a part of a command is in front.
Receive(k, split) ==
  /\ accept = "serving" /\ k + (IF split THEN 1 ELSE 0) \in 1 .. Len(commands[served])
  /\ split => MayBePart
  /\ commands' = [commands EXCEPT ![served] = Left(served, k, split)]
  /\ torn' = IF split THEN torn \cup ({commands[served][k + 1]} \ {Rest}) ELSE torn
  /\ IF k = 0 \/ commands[served][1] = Rest
       THEN UNCHANGED <<handled, answers, accept>>
       ELSE LET n == Used(served, k) IN
            /\ handled' = handled \cup {n} /\ answers' = Answer(n, served)
            /\ accept' = IF pressed[n].button = "Stop" THEN "left" ELSE "serving"
  /\ UNCHANGED <<testerVars, served, linkGone, receiverVars, dropped, ends>>

\* acceptFunction after a recv that finds the connection ended.
EndOfConnection ==
  /\ accept = "serving" /\ <<"link", served>> \in dropped
  /\ commands[served] = <<>> \/ answers[served] # <<>>   \* it was reset
  /\ accept' = "closed" /\ linkGone' = linkGone \cup {served}
  /\ commands' = [commands EXCEPT ![served] = <<>>]
  /\ UNCHANGED <<testerVars, served, answers, handled, torn, receiverVars, dropped, ends>>

\* The process ends, after a Stop or otherwise, and with it its connections,
\* those in the backlog as well; a reset destroys what was not yet read.
ServerEnds ==
  /\ accept # "ended" /\ ends < MaxEnds
  /\ accept' = "ended" /\ served' = 0 /\ linkGone' = 1 .. links
  /\ commands' = [c \in Connections |-> <<>>]
  /\ answers' \in {answers, commands'}
  /\ ends' = ends + 1
  /\ UNCHANGED <<testerVars, handled, torn, receiverVars, dropped>>

ServerStarts ==
  /\ accept = "ended" /\ accept' = "accepting"
  /\ UNCHANGED <<testerVars, served, commands, answers, linkGone, handled, torn, receiverVars, dropped, ends>>

-----------------------------------------------------------------------------
(* The Receiver.                                                            *)

\* ListenButton_Click blocks in AcceptTcpClient,
ListenButton_Click ==
  /\ receiver = "idle" /\ receiver' = "accepting"
  /\ UNCHANGED <<testerVars, serverVars, accepted, details, callGone, windows, dropped, ends>>

AcceptTcpClient ==
  /\ receiver = "accepting" /\ accepted < calls
  /\ receiver' = "reading" /\ accepted' = accepted + 1
  /\ UNCHANGED <<testerVars, serverVars, details, callGone, windows, dropped, ends>>

\* and in ReadString, which reads until the message is whole.  One message is
\* read, and the connection is closed.
CallEnds == callGone \cup {accepted}

ReadString ==
  /\ receiver = "reading" /\ details[accepted] # <<>>
  /\ windows' = Append(windows, Head(details[accepted]))
  /\ callGone' = CallEnds
  /\ details' = [details EXCEPT ![accepted] = Tail(@)]
  /\ receiver' = "idle"
  /\ UNCHANGED <<testerVars, serverVars, accepted, dropped, ends>>

\* The process ends; a connection that ends before its message does that too.
ReceiverEnds ==
  /\ receiver # "ended"
  /\ \/ ends < MaxEnds /\ ends' = ends + 1
     \/ receiver = "reading" /\ details[accepted] = <<>> /\ <<"call", accepted>> \in dropped /\ UNCHANGED ends
  /\ receiver' = "ended" /\ windows' = <<>>
  /\ callGone' = 1 .. calls /\ accepted' = calls /\ details' = [c \in Connections |-> <<>>]
  /\ UNCHANGED <<testerVars, serverVars, dropped>>

ReceiverStarts ==
  /\ receiver = "ended" /\ receiver' = "idle"
  /\ UNCHANGED <<testerVars, serverVars, accepted, details, callGone, windows, dropped, ends>>

-----------------------------------------------------------------------------
Tester   == Connect_Click \/ Drop \/ (\E b \in Buttons : Action_Click(b)) \/ ReadReturns \/ ReadFails
Recv     == \E k \in 0 .. MaxPresses, split \in BOOLEAN : Receive(k, split)
Server   == AcceptClients \/ Recv \/ EndOfConnection \/ ServerEnds \/ ServerStarts
Receiver == ListenButton_Click \/ AcceptTcpClient \/ ReadString \/ ReceiverEnds \/ ReceiverStarts

Next == Tester \/ Server \/ Receiver
Spec == Init /\ [][Next]_vars

\* A read times out, the Server's threads run, and the Receiver's user goes on
\* clicking.
FairSpec == /\ Spec /\ WF_vars(ReadReturns \/ ReadFails) /\ WF_vars(AcceptClients) /\ WF_vars(Recv)
            /\ WF_vars(ListenButton_Click \/ AcceptTcpClient \/ ReadString)

-----------------------------------------------------------------------------
(* Properties.                                                              *)

\* Checks whose answer may be read, or read to its end, later only.
Late == timedOut \cup partly
ChecksOn(c) == {n \in Presses : pressed[n].button = "Check" /\ pressed[n].on = c}

\* A connection holds no more answers than are owed to its Checks that timed out or
\* read only a part, and to the one being read, each to a Check that the Server has
\* seen, in order; and the Receiver's windows are of different Starts, in the order of pressing.
ChannelInv ==
  /\ TypeOK
  /\ \A c \in Connections :
       /\ Len(answers[c]) <= Cardinality(ChecksOn(c) \cap (Late \cup {reading}))
       /\ \A i \in DOMAIN answers[c] : answers[c][i] \in ChecksOn(c) \cap handled
       /\ \A i, j \in DOMAIN answers[c] : i < j => answers[c][i] < answers[c][j]
  /\ \A i \in DOMAIN windows : pressed[windows[i]].button = "Start"
  /\ \A i, j \in DOMAIN windows : i < j => windows[i] < windows[j]

\* "You have connection with server" is shown for a Check that the Server has
\* seen, with two exceptions in the code: what was read belongs to the answer of
\* a Check before it, which timed out or read only a part, or is no byte of an
\* ended connection.
CheckIsTruthful ==
  \A n \in connected :
    LET c == pressed[n].on IN
    \/ n \in handled \/ c \in linkGone
    \/ \E m \in ChecksOn(c) \cap Late \cap handled : m < n

\* The window of the Tester does not hang in a Check, though the connection may be
\* one that nobody serves.
CheckEnds == \A n \in 1 .. MaxPresses : (reading = n) ~> (reading # n)

\* A command that nothing unread is before is acted upon, whatever is read behind
\* it, unless the Server ends first, the connection is dropped, or one recv returns
\* only a part of it, which the parser refuses.
ServerTakesNote ==
  \A n \in 1 .. MaxPresses :
    (accept = "serving" /\ commands[served] # <<>> /\ Head(commands[served]) = n)
      ~> (n \in handled \/ n \in torn \/ accept \in {"closed", "ended"})

\* The first Start on a connection to the Receiver gets its window, unless the
\* Receiver ends, or its window hangs on a connection without any Start, which
\* another Connect has replaced.
ReceiverTakesNote ==
  \A n \in 1 .. MaxPresses :
    (\E c \in 1 .. calls \ callGone : details[c] # <<>> /\ Head(details[c]) = n)
      ~> \/ \E i \in DOMAIN windows : windows[i] = n
         \/ receiver = "ended"
         \/ receiver = "reading" /\ details[accepted] = <<>>

StartReachesBoth == ServerTakesNote /\ ReceiverTakesNote
=============================================================================
