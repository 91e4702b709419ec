# A verification project for the AE-40 live streaming system

This directory holds TLA+ models of the streaming system in this repository, the
TLC configurations that check them on small instances, and proofs about them
that TLAPS checks for every value of the constants.  Paths below are relative to
`src/`.

## 1. The system

A camera and a microphone are recorded and encoded on one machine and sent by
RTP multicast to two others.

```
 Tester (WpfApp1, C#) --TCP 4444: Check, Start, Stop--> Server (C++) --RTP x2--> Receiver (C#, VLC)
        \------------------------TCP 8000: one message------------------------------/
```

### 1.1 Inventory

| component | source | state | operations | correct when |
|---|---|---|---|---|
| Server process | `Server/Server.cpp` | message queue, two stop flags, global pointers to the streaming objects, thread handles | accept and parse commands, Initialize, Record, Stream, UnInitialize | a Stop ends everything in an order in which nothing freed is used; nothing is left behind |
| Live sources | `Media/H264LiveSource.cpp`, `Media/MPEG2LiveSource.cpp` | sample queue, class-wide reference count and event trigger | PushToQueue, doGetNextFrame, deliverFrame | every sample is delivered once, in order |
| Event loop | `BasicUsageEnvironment/src/BasicTaskScheduler*.cpp` | word of awaiting triggers, client data, last trigger used | triggerEvent, SingleStep, doEventLoop | a raised trigger is handled; the loop ends when told |
| Timers | `BasicUsageEnvironment/src/DelayQueue.cpp` | list of entries with differences of time | schedule, unschedule, synchronize, handleAlarm | a task runs once, not early, in the order of deadlines |
| H.264 fragmenter | `liveMedia/src/H264or5VideoRTPSink.cpp` | one buffer, offset, count | doGetNextFrame, afterGettingFrame1 | the payloads fit and rejoin to the NAL unit |
| RTP packing | `liveMedia/src/MultiFramedRTPSink.cpp`, `MediaSink.cpp` | packet buffer, packet start, overflow data, fragmentation offset | buildAndSendPacket, packFrame, afterGettingFrame1, sendPacketIfNecessary, stopPlaying | no byte is lost or overwritten, no packet is too large |
| Socket handlers and triggers of the scheduler | `BasicUsageEnvironment/src/BasicTaskScheduler*.cpp` | HandlerSet, fd sets, handlers and data of the triggers, last one used | setBackgroundHandling, moveSocketHandling, round robin in SingleStep, create, delete and raise a trigger | lists, sets and masks agree; an event reaches its owner; nobody starves |
| Groupsocks | `groupsock/src/*.cpp` | destinations, cached TTL, socket | output, write, add, remove and change destinations | no destination twice; each datagram to a multicast address with its record's TTL |
| Environment, media table | `UsageEnvironment`, `BasicHashTable.cpp`, `liveMedia/src/Media.cpp` | table of named media | register, close, reclaim | nothing is used after its release; the environment goes last |
| RTP reception | `liveMedia/src/MultiFramedRTPSource.cpp`, `RTPSource.cpp`, `H264VideoRTPSource.cpp` | reordering buffer, frame under construction, sequence number statistics | networkReadHandler, doGetNextFrame1, storePacket, noteIncomingPacket | frames are whole and in order whatever the network does; no gap stops a stream that still arrives |
| Capture and encoding | `Media/Media.cpp`, `Media/Encoder.cpp`, `Media/Utilities.cpp` | Media Foundation objects | InitializeSource, GetSample, ProcessInput/Output | out of scope, see 6 |
| TCP wrapper | `Network/Tcp.cpp`, `Network/MySocket.cpp` | socket | Listen, Accept, Recv, Send | what recv returns is what the server acts on |
| Tester | `WpfApp1/MainWindow.xaml.cs` | two connections | Connect, Check, Start, Stop; 5 s read timeout | an answer belongs to its question; the window does not hang |
| Receiver | `Receiver/MainWindow.xaml.cs` | connection, panes | accept, read one message, play | each Start gets its pane, once |
| JSON parser, unused LIVE555 parts | `JSONCpp`, the rest of `liveMedia` | - | - | vendored, see 6 |

### 1.2 How the parts interact

The server has one TCP client.  The *accept* thread parses commands and pushes
them, under a lock, on a message queue; the *deque* thread pops them.  A `Start`
runs `Initialize`, which creates a scheduler, an environment, two groupsocks, two
sinks and two live sources behind global pointers, and creates two threads:
*Record* opens the devices and then pushes samples into the live sources and
raises their event triggers; *Stream* starts the sinks and runs the event loop.
A `Stop` sets `stopEventLoop`; Stream leaves the loop, stops the sinks and sets
`stopRecord`; Record runs `UnInitialize` and clears both flags; deque, which
waits for Record, ends, and then *main* deletes the queue and returns.

The Tester keeps one connection to the Server and one to the Receiver, writes a
Start to both, and blocks its window while it reads the answer to a Check.  The
Receiver's window blocks while it waits for a connection and for its message.

Within a session the event loop calls a live source when its trigger is up; the
source hands its first sample to whoever awaits it.  For video that is the
fragmenter, which cuts a NAL unit into payloads for the RTP sink; the sink packs,
sends and then asks again from a timer of the delay queue.

### 1.3 What is hard

* Five kinds of threads share flags and global pointers without locks.
* The word of awaiting triggers is changed by two threads with plain `|=` and `&=`.
* A sink is driven from two sides, by a trigger and by a timer, and
  `getNextFrame` aborts the process when a frame is already awaited.
* Stop may come at any point: before the devices open, after they fail to open,
  in the middle of a NAL unit, with a timer pending.
* Both buffers are reused in place: a header is written over bytes in front of the
  next fragment, and the next packet starts in front of the overflow data.
* The list of timers keeps differences, and the clock may be set back.
* Handlers call the scheduler back while it walks its own lists: they remove and
  move sockets and create and delete triggers whose numbers are used again.
* Packets are lost, repeated and reordered, their 16-bit numbers wrap around, and the
  SSRC may change while some of them wait.
* TCP keeps no boundaries: a read may return several messages, and end within one.
* A Check may time out and its answer come later; a connection may be replaced,
  dropped or served by nobody; Server and Receiver may end and be started again.
* A write to one of several destinations may fail between two system calls.

`PROJECT.json` lists each of these as a hazard at its line, with the properties
that would catch it.

## 2. Modules

| module | models |
|---|---|
| `StreamServer` | all threads of `Server.cpp`, the connection and the client |
| `ServerLifecycle` | the abstract life cycle of one session; `StreamServer` refines it |
| `StreamServerProofs` | proofs about both |
| `LivePipeline`, `LivePipelineProofs` | one session while it runs: Record against the event loop, triggers, sinks; proofs |
| `TaskScheduler`, `TaskSchedulerProofs` | the scheduler as any of its users sees it: socket handlers and event triggers; proofs |
| `DelayQueue`, `DelayQueueProofs` | the list of timers and the sleeping of `SingleStep`; proofs, the refinement among them |
| `TimerService` | what callers of the timers rely on; `DelayQueue` refines it |
| `H264Fragmenter`, `H264FragmenterProofs` | `H264or5Fragmenter`; proofs |
| `RtpPacker` | `OutPacketBuffer` and the packing loop of `MultiFramedRTPSink` |
| `Groupsock` | the destinations of a groupsock, and the writes to them |
| `SessionHost`, `SessionHostProofs` | everything one session is made of, from `Initialize` to `UnInitialize`, with `Groupsock` as one of its parts; proofs about both |
| `RtpReception` | the library's receiving end: reordering, frames, statistics |
| `RtpProofs` | proofs about both ends of RTP, `RtpPacker` and `RtpReception` |
| `ControlChannel`, `ControlChannelProofs` | the connections between Tester, Server and Receiver; proofs |

Each model stands for one layer and abstracts the others: `StreamServer` takes
the work of Record and of the loop as steps that need certain objects alive, and
`SessionHost` looks at what those objects do to each other when they are
released; `LivePipeline` starts after `Initialize` and takes a video sample as a
number of packets; `H264Fragmenter` and `RtpPacker` look at single bytes.
`LivePipeline` has the two triggers of a session and another thread that raises
them; `TaskScheduler` has any number of triggers, created and deleted at any
time, all in one thread.  `ControlChannel` sees of the Server only its accept
thread, whose work inside the Server is in `StreamServer`.

### 2.1 StreamServer

Each thread has a program counter; one action is what a thread does between two
accesses to shared state.  `session` counts the Starts handled; threads belong to
the session that created them but reach the objects through the globals, hence
through `cur`.  An object is a name in `alive[s]`.  Use of a freed object is
undefined in the program; the model lets the thread go on, and `NoUseAfterFree`
says whether a thread can be about to do it (`RecordNeeds`, `StreamNeeds`).

The wire is a sequence of commands.  `AcceptRecv(n, split)` models one `recv`
that returns `n` whole commands and perhaps a part of the next; what the parser
does with that - one value from the front, the rest discarded, a fragment
rejected - is the action's effect.  A command is at most 1024 bytes long, so that
it fits one `recv`.

`UnInitialize` is one step for each object (`RecordTeardown`), in the order of the
code, since Stream may run in between.

### 2.2 LivePipeline

`word` is `fTriggersAwaitingHandling`.  `TriggerLoad`/`TriggerStore` and
`LoopClearLoad`/`LoopClearStore` are the two halves of `|=` and `&=~`, so all
interleavings of the two threads are there.  A push or a pop is one step, as it
happens under the queue's lock.  A device waits in the model while `MaxWaiting`
samples wait, and sample numbers are taken modulo `MaxWaiting + 1`: at most that
many are in use at once, so equal numbers mean the same sample.

### 2.3 DelayQueue and TimerService

An entry is a token and a difference.  `real` is real time and `now` what
`gettimeofday` gives; `SetBack` lets the clock go back.  `elapsed` is the time the
list has taken into account.  The refinement maps `elapsed` to the service's time.
Times are whole units; the arithmetic on seconds and microseconds is left out.

### 2.4 H264Fragmenter

A byte says what it holds, so that an overwritten byte shows.  `payloads` is the
history of what was handed to the sink for the current NAL unit.  The model
needs `fMaxOutputPacketSize >= 4`: with 3 the header of the second fragment would
overwrite the NAL unit's own header byte, from which later headers are made.  The
program uses 1444.

### 2.5 RtpPacker

The buffer is a function from places to bytes; a byte knows its frame (by
parity), its place in the frame and the frame's length.  `lastSent` and
`lastRead` are what they say, so that "nothing is lost" means: from `lastSent`, through
what the buffer still holds, to `lastRead`, each byte follows the one before.  After each step the model forgets the bytes that are not needed any
more; if the code used one of them again, `FramesUnbroken` would be violated.
`oneFrame` says that `frameCanAppearAfterPacketStart` is always false, as it is for
H.264; for MPEG audio it is always true.  Both are initial states.

Left out: sequence numbers, time stamps and RTCP counters, and the closing of a
source (a live source never closes).  `HeaderSize` is the RTP header with the
special header, 12 or 16 bytes in the program, for packets of 1000 to 1456 bytes
and a buffer of 61152.

### 2.6 TaskScheduler

An `EventTriggerId` and the word of awaiting triggers are sets of trigger numbers.
The walk that looks for the next trigger moves a number and a mask side by side;
`MaskAt` and `Distance` say where both are after so many steps, and that they
fit is part of `TriggersAgree`.  `select` may report any of the sockets and
conditions that were asked for; a registered socket at or above `fMaxNumSockets`
would never be reported, which `SocketsAgree` excludes although
`setBackgroundHandling` lowers that number by one only.  The error path of
`select` (the dummy socket of Windows) is `SelectFails`; its other branch, an
error that ends the process through `internalError`, is left out.  While a handler runs,
and between steps, any call into the scheduler can happen (`Calls`).

### 2.7 Groupsock and SessionHost

A packet is written in one step for each destination, because each write has two
system calls (the TTL option and `sendto`) that may fail, and a failed write ends
the packet.  `stale` is history: the cache `fLastSentTTL` was left behind by the
socket.  `Create` is the constructor, whose socket may not come up.
`writeSocket` sets `IP_MULTICAST_TTL` for every destination, and the system uses that
option for multicast addresses only: a datagram to a unicast address changes the
socket's option and the cache like any other, but leaves with the system's unicast
TTL, so `datagram` is the last one that left for a multicast address.  Callers may
give an address or a port of 0, and a record gets it (`AnyAddr`, `AnyPort`).

`SessionHost` extends `Groupsock`, whose variables are the video groupsock; the
audio groupsock has a lifetime only.  An object's destructor uses what it knows
(`UsedBy`), and `dangling` records whether one of those was gone.  The names in
the media table stand for the media.  The first play makes the fragmenter, a
medium of its own that the video sink closes, after detaching it from its source
(`GoneWith`); `UnInitialize` is one step for each object, in the order of the code.
`Initialize` adds a destination to a groupsock that has one from its constructor,
so that the same packets go to two ports in a row (`FirstDests`).

### 2.8 RtpReception

A packet is its number in the order of sending; the receiver sees `Seq16` of it
only, and all its comparisons are made on that (`seqNumLT` is the code's 16-bit
comparison with its half-range rule).  What a packet carries is one of five
kinds: a part of a NAL unit, the end of one, two whole units, one whole unit with a
stray byte behind it, or a header that `processSpecialHeader` refuses.  `Reach` bounds how late a packet may be, less
than half of the number range.  Time is `Tick`, which makes the packets in the
buffer older.  The reader asks, waits and stops from its callback or later.
A frame is a sequence of pieces, so that a missing, foreign or repeated piece
shows.  It stands for all that `doGetNextFrame1` used for the frame; pieces are taken
to be of one size, of which the reader's buffer holds the first `fMaxSize`, and
`truncated` is what the reader is told (`fNumTruncatedBytes`).

A packet of another SSRC (`Other`, numbered above the sender's) is noted in other
statistics and stored in the same buffer.  Each change of the SSRC (`ChangesSSRC`)
resets `fHaveSeenFirstPacket`, and what waits in the buffer stays there.  `mixed` is
history: such a packet came, and none of the sender's has found the buffer empty
since.  `ReceiveOther` is any datagram that is freed: no RTP packet, another payload
type, or multiplexed RTCP.

One detail is not followed.  If a packet of another SSRC gets in front of an aggregate
that is read in part, the code goes on reading the aggregate with the NAL unit type of
the packet between (`fCurPacketNALUnitType`), the model with its own.  This can happen
only while `mixed` holds, when the properties say nothing of frames.

### 2.9 ControlChannel

Presses of a button are numbered, and a command, an answer and a window are
known by the press they come from.  TCP
keeps no boundaries.  A read of the Tester takes some of the answers that are there,
and perhaps a part of the next (`ReadReturns`, which includes the read of no byte that
the code takes for an answer; `partly` notes the Checks that left something), or ends
with an exception (`ReadFails`).  A `recv` of the Server takes `k` commands and, with
`split`, a part of the next (`Receive`): the first is used and the others thrown away;
if a part of a command is in front, the parser refuses all of it.  `torn` notes the
commands that were split, and `Rest` stands for what is left of one on the way.  `Drop` is the moment at which
.NET closes a connection that was replaced by another Connect, if it does.
The Receiver handles one connection for each click on its button, in the order of
connecting, and one message on each.

## 3. Runs

| run | cfg | checks | states |
|---|---|---|---|
| `server` | `StreamServer.cfg` | `IInv`, `NoUseAfterFree`, `CleanShutdown`, `SamplesReachTheLoop`, `StopNotForgotten`, `StopBringsServerDown`, `ImplementsLifecycle` | 270 415 |
| `server_coalesce` | `StreamServerCoalesce.cfg` | `NoCommandLost`, violated | - |
| `server_restart` | `StreamServerRestart.cfg` | `SourcesHaveQueues`, violated | - |
| `pipeline` | `LivePipeline.cfg` | `PInv`, `OneWakeUp`, `StoppedSinkIsQuiet`, `TriggersAreServed`, `StopEndsLoop` | 526 274 |
| `pipeline_race` | `LivePipelineRace.cfg` | `TriggerIsNotLost`, violated | - |
| `scheduler` | `TaskScheduler.cfg` | `SchedulerInv`, `EventsKeepTheirOwner`, `EventsAreHandled`, `SocketsAreHandled` | 526 272 |
| `timers` | `DelayQueue.cfg` | `ListInv`, `NeverEarly`, `SleepEndsInTime`, `ImplementsTimerService`, `TasksAreRun` | 618 389 |
| `fragmenter` | `H264Fragmenter.cfg` | `FInv`, `FragmentsRejoin`, `NalUnitsEnd` | 3 262 |
| `packer` | `RtpPacker.cfg` | `PackInv`, `OverflowIsSafe`, `FramesUnbroken`, `RoomForFrames`, `OverflowIsSent` | 7 493 |
| `host` | `SessionHost.cfg` | `DestinationsInv`, `OwnTtl`, `SessionIsUndone` | 5 063 689 |
| `reception` | `RtpReception.cfg` | `ReceptionInv`, `FramesAreWhole`, `ExtendedNumbersCount`, `PacketsMoveOn` | 1 370 127 |
| `control` | `ControlChannel.cfg` | `ChannelInv`, `CheckIsTruthful`, `CheckEnds`, `StartReachesBoth` | 505 369 |

`IInv`, `PInv`, `FInv`, `PackInv` and `SchedulerInv` are the inductive invariants of
the proofs, the types included; `IInv` contains that the message queue outlives its
users, `PInv` that samples keep their order, `PackInv` that packets fit.  What each
property says is in the comment over it; in short, the runs show:

* `server`: the stop handshake keeps every object alive while a thread can use it,
  an orderly end leaves nothing behind, the flags set by one thread and cleared by
  another lose no Stop, and the five threads implement the abstract life cycle,
  a Stop taking the process down included.
* `pipeline`: a playing sink has exactly one wake-up, from its trigger or from its
  timer, so that it neither asks twice (which aborts) nor falls asleep; a stopped
  sink has none; neither trigger starves the other; the loop ends when told.
* `scheduler`: whatever handlers do to the lists that are being walked, an event
  reaches exactly the client that raised it, even when the trigger's number has
  been given to another meanwhile, and the two searches pass over nobody for ever.
* `timers`: the differences keep the deadlines, no task is early however the clock
  is set back, `select` does not sleep past a deadline, every task is run.
* `fragmenter`, `packer`: nothing unsent is overwritten by a header written in
  place, payloads rejoin to the NAL unit, no byte is lost between packets.
* `host`: packets go once to each destination, those to multicast
  addresses with their own TTL but for two cases (see 4), and `UnInitialize` uses
  nothing it has released, whatever the session did.
* `reception`: the buffer's 16-bit order is that of sending, a
  delivered frame is whole, or told to be cut, but for three cases (see 4), the
  extended numbers count across the wrap-around, and as long as anything arrives the
  reader is not stuck behind a gap, although no timer watches it; a change of the SSRC
  with packets waiting upsets this until the buffer has been empty once.
* `control`: what a Check shows and when it is not true (see 4); the window does not
  hang; each Start gets its window at most once, in order, and the first one on a
  connection gets it; a command that nothing unread is before is acted upon unless
  one `recv` returned only a part of it.

Every property of a passing run has a mutant in its module: a changed definition
under which the property fails in the same run.  Mutants are marked by a comment
and are not part of the specification.

### 3.1 Bounds

* `server`: three commands with up to two Starts give a second session next to the
  first, a Stop before, between and after, and a Check in front.
* `pipeline`: `MaxWaiting = 2` is a queue with something behind its first sample;
  `MaxFrags = 1` gives samples of one packet and of two.
* `scheduler`: two triggers and two clients, so that a deleted number is given to
  the other client at once and the search wraps around; sockets 0, 1 and 2, so that
  the highest goes while others stay and the round robin has two to choose from;
  two condition sets, one a subset of the other.
* `timers`: three tasks with delays 0, 1 and 2 give equal and different deadlines,
  and removal at the front, in the middle and at the end; two units of setting
  back within five of time outlast each delay.
* `fragmenter`: with payloads of 4 bytes a NAL unit of up to 11 has no fragment,
  two, three and more, with a last one of every possible length.
* `packer`: packets of 8 (7 preferred) with a header of 2 in a buffer of 20: frames
  up to 18 bytes are cut into up to three parts, the start of the packet moves while
  more than half of the buffer is left, and small frames share a packet; one restart
  (`MaxRestarts`) meets whatever a stop leaves behind.
* `host`: one multicast address, and 0, to which a record may be added too and which
  stands for what is not multicast; two ports, or 0; two TTLs, of which the socket's own
  (`SocketTtl`) is one, so that a packet goes to multicast and other destinations with
  different TTLs; two session ids and a list of three (`MaxDests`): equal records, records
  of one session behind one of the other, a removal in the middle.
* `reception`: three packets of the sender (`MaxPackets`) numbered from 5 modulo 8 cross
  the wrap-around; one may be overtaken by the next two (`Reach = 3`, less than half of
  8); three are enough for the middle of a unit to be lost, for the receiver to start
  within one, and for a unit behind it.  A threshold of one tick separates a packet that
  is waited for from one that is given up.  With `fMaxSize = 1` a frame of more than one
  piece is cut.  One packet of another SSRC has a number beyond the sender's, and the
  SSRC changes there and back (`MaxChanges = 2`).
* `control`: two connections to each program (one replaces the other), three presses
  (a Check that times out, the Check that reads its answer, and one more command),
  one end of a program (`MaxEnds`), after which it may be started again, and one read
  that ends within a command or an answer (`MaxParts`).

`CHECK_DEADLOCK FALSE` stands where a bound ends the behaviours: time, presses,
packets or restarts, or a session that has been stopped.

### 3.2 Fairness

* `StreamServer`: weak fairness of each thread, since the operating system runs a
  thread that can run, and devices keep producing samples.  Nothing is assumed of
  the client.
* `LivePipeline`: weak fairness of both threads, and strong fairness of each
  `LoopAlarm(k)`: an entry that stays in the list comes due, and is not for ever
  put off by the scheduler's own 10 ms tick, which shares the list.
* `TaskScheduler`: weak fairness of `SingleStep`: the loop goes on and the handlers
  it calls return.  `EventsAreHandled` and `SocketsAreHandled` name what they need
  of the callers in their premises (see 4).
* `DelayQueue`: weak fairness of `SingleStep` and of the clock.
* `H264Fragmenter`: weak fairness of `AskForMore`, the sink that goes on asking.
* `RtpPacker`: weak fairness of `SendNext`, which the delay queue runs.
* `RtpReception`: weak fairness of the loop and of the callback's return; strong
  fairness of `Tick` and of `AfterGetting \/ GetNextFrame`, because the event loop looks at
  the delay queue after every socket handler, so that a flood of packets holds nothing
  up, and time passes meanwhile.  That anything arrives is not assumed: it is the
  premise of `PacketsMoveOn`.
* `ControlChannel`: weak fairness of the end of a read (it has a timeout), of the
  Server's threads, and of the Receiver's steps, whose user goes on clicking.
  Nothing is assumed of the Tester's user.

## 4. What the checks found

Three runs end in a violation of something the repository says:

* **A second command is dropped** (`server_coalesce`).  `parseFromStream` takes one
  value from everything `recv` returned (`Server/Server.cpp:73`); what follows is
  thrown away, and so is a command of which only a part has arrived.
* **A second Start has no queue** (`server_restart`).  `myQueue` belongs to the
  instance but is allocated only while the class-wide count is zero
  (`Media/H264LiveSource.cpp:27`).  A Start while a session streams makes sources
  whose queue pointer is uninitialized.  For this reason the safety properties of
  `StreamServer` speak of one handled Start; they hold of every client that does
  not start twice, and of the others until the second Start is handled.
* **A trigger can be lost** (`pipeline_race`).  The documentation of `triggerEvent`
  allows calls from another thread; the two unlocked updates of
  `fTriggersAwaitingHandling` (`BasicTaskScheduler0.cpp:142`, `BasicTaskScheduler.cpp:183`)
  can drop a bit.  The sample is delivered with the next one of its kind, so
  order (`SamplesInOrder`) survives and only time is lost.

Some passing properties carry exceptions or premises, written into the property
because the code needs them; they are what a reader should know of the code:

* `OwnTtl`: `OutputSocket::write` sets the socket's TTL, then sends, and notes the new
  value in `fLastSentTTL` only after the send succeeded.  If `sendto` fails, or if a
  change of the port gives the groupsock a new socket with the system's TTL, the
  cache is wrong and the following datagrams may leave with another TTL than their
  destination's.  The server uses one TTL, 255, on one port and meets neither.
  The property speaks of multicast destinations; a unicast datagram's TTL is set by
  nothing in the code.
* `FramesAreWhole`: `doGetNextFrame1` learns of a loss with the packet behind it, and
  forgets it when `processSpecialHeader` refuses that packet; and a STAP-A that
  follows the lost end of a unit is taken for a part of it, because
  `processSpecialHeader` leaves `fCurrentPacketBeginsFrame` as the last packet set it
  (`misread`).  While packets of two SSRCs are mixed in the buffer nothing is promised
  (`mixed`).  A frame larger than the reader's buffer is delivered cut, and the reader
  is told so; the property says that this is exactly when it is told.
* `ReceptionInv` is silent on order while `mixed` holds, and speaks again from the first
  packet of the sender that finds the buffer empty.  A new SSRC resets
  `fHaveSeenFirstPacket` (`MultiFramedRTPSource.cpp:312`) and leaves the packets of the one
  before in the buffer; the number of the next packet becomes the expected one, and the
  head may lie before it, although the comment in `getNextCompletedPacket` (line 601)
  asserts that it does not, and the comment at the reset says that a stream "where the
  SSRC changes occasionally" can be handled.  Packets that wait may then be delivered
  after newer ones, or be taken for the expected packet without a loss being noticed.
* `PacketsMoveOn` says that a gap does not hold up the head for ever while packets
  arrive.  When nothing arrives any more, the head behind a gap waits for ever, since
  only a datagram on this socket or a read looks at the threshold, and RTCP comes here
  only when it is multiplexed.  And it says that the head is taken, not that it is used
  up: a STAP-A with one stray byte at its end (`H264VideoRTPSource.cpp:168`) has a last
  unit of size 0, which uses nothing up, so that `doGetNextFrame1` goes round on this
  packet for ever and the event loop with it.  The model does the same (`UsePacket` with
  `nothing`).
* `PackInv`: `MultiFramedRTPSink::stopPlaying` does not reset
  `fCurFragmentationOffset`, so that a sink played again starts at the old offset
  (`restarts = 0` in `OffsetsAreRight`).  The server creates new sinks for each Start.
* `CheckIsTruthful`: "You have connection with server" is also shown after what was left
  of the answer to a Check before, which timed out or whose read took only a part of
  what came, and after a read of no byte, which means that the connection has ended.
* `StartReachesBoth`: only the first command that one `recv` returns is used, and if
  it returns a part of a command first, nothing is; the rest of a command that was
  split makes the parser refuse what is behind it as well.  So a Start may be lost on
  its way to the Server although the connection is sound (`torn`).  A connection to
  the Receiver carries one Start, so that a second Start without
  another Connect reaches the Server only; and a Connect without a Start leaves the
  Receiver's window waiting on that connection until it is closed.  The Server never
  accepts the connection of a second Connect as long as it serves the first
  (`ChannelInv` and `CheckEnds` hold in all of this: answers stay on their connection,
  and the window comes back after five seconds).
  A rest of a command that begins with a JSON value (the parser does not insist on
  an object) would be accepted, and asking a string for its `"Action"` throws, which
  nothing catches: the process ends.  `ServerEnds` is this case too; `StreamServer`
  leaves it out.
* `EventsAreHandled`: `createEventTrigger` moves the place where the search for
  triggers starts, so that creating (and deleting) triggers for ever can starve a
  raised one.  With two triggers it cannot happen; with three triggers and three
  clients it does, hence the premise.
* `SocketsAreHandled`: a handler that removes and registers itself again is put in
  front of the list; doing so in every call, it can starve another ready socket.

One comment differs from the code without a property about it:
`changeDestinationParameters` with a TTL of ~0 sets the record's TTL to the
groupsock's own, while `groupsock/include/Groupsock.hh` says "(If a parameter is 0
(or ~0 for ttl), then no change is made to that parameter.)".

## 5. What is proved

All theorems hold for every value of the constants that satisfies the named
assumptions (`BoundsAssumption`, `PipelineAssumption`, `SizeAssumption`,
`PacketAssumption`, `SchedulerAssumption`, `GroupsockAssumption`,
`RtpPortAssumption`, `ChannelAssumption`, `ReceptionAssumption`).

**StreamServer.**  `IInv == TypeOK /\ SessionInv /\ QueueInv` is inductive.
`NoUseAfterFree` alone is not: that Record frees nothing Stream still uses needs
the handshake (`HandshakeInv`: `stopRecord` is up only after Stream is done, or
because a device failed, in which case Record never reaches `UnInitialize`), how
far `UnInitialize` got (`TeardownInv`) and that threads are created in order
(`CreatedInv`).  From it follow `TypeCorrect`, `UseAfterFreeFreedom`, `QueueSafe`,
`SamplesAreExpected`, `ShutdownIsClean`, the action property `StopRequestsStick`,
and `LifecycleRefined`: every step is a step of `ServerLifecycle` or a stutter.
The liveness part of the refinement is checked by `server` only.

**LivePipeline.**  `PInv` adds to the checked invariants where in its program the
loop thread has which sink playing (`PlayInv`), and that every bit in the word, in
either thread's loaded copy and in the trigger being handled has its client data
stored (`DataInv`); the copies are what makes `HandlerKnowsItsSource` true in spite
of the race.  Theorems: `PipelineInv`, `SinksWakeOnce`, `StoppedSinksStayQuiet` and
`SamplesStayInOrder`.

**TaskScheduler.**  `SchedulerInv` is inductive as it stands.  The lemmas say what
removing an entry does to a list (`RemovedEntry`) and that the walk of the search,
starting with a number and a mask that fit, arrives everywhere with the bit of the
number (`MaskOfNumber`).  Theorems: `SchedulerAgrees`, and `EventsReachTheirOwner`,
which needs `SchedulerInv` because only one owner may hold a number.

**H264Fragmenter.**  `FInv` is the conjunction of the type, `OffsetsInvariant`,
`PayloadsFit` and `CompletionIsReported` (`FragmenterInv`).  `OffsetsInvariant` is the
heart: all bytes from the offset on are still those of the NAL unit, and the two
in front are free for the next header.  `FragmentsRejoin` (theorem
`FragmentsAreTheUnit`) speaks of all payloads of a unit at once, so its step needs
what one more payload adds: lemmas say which bytes each of the three kinds of payload
holds (`WholeCarries`, `FirstCarries`, `NextCarries`), and that the data of one payload
more follow those of the others (`JoinedAppend`).

**DelayQueue.**  `NeverEarly` and `SleepEndsInTime` hold because the list agrees with the
deadlines and because the clock, which may only go back, makes the queue late and never
early.  `TimerInv` says both: every sum of the first differences is the distance to its
entry's deadline (`Matches`), the entries are `Sorted`, the time that the queue has seen
is never ahead of real time, and what a deadline in real time has over the one in the
queue's time is no more than the time lost meanwhile (`Clock`).  The lemmas say what
`synchronize`, `addEntry` and `removeEntry` do to every sum (`ConsumeFacts` and its
like).  Theorems: `ListSafety`, `RunsNoTaskEarly`,
`SleepsNoLonger`, and `ImplementsService`, in which every step of the list is a step of
`TimerService` or a stutter.

**RtpPacker.**  `PackInv` adds `PlaceInv` (where the offsets are in each state; a
packet that does not start at 0 has half of the buffer behind it) and `TailInv`
(overflow data is the end of the last frame read).  Lemmas say that a stretch of
bytes keeps its meaning when it is moved (`MovedUnbroken`, `MovedTail`), that a
packet is sent correctly from any situation (`PacketSent`), and that each way a
frame can be treated - sent, kept, cut, followed by more - leads to such a
situation or to a packet with room (`FrameHandled`).  Theorems: `PackInvHolds`,
`OverflowIsAlwaysSafe`, `NoByteIsLost` and `RoomIsLeft`.

**RtpReception.**  The receiver compares numbers modulo `Modulus`; that its comparisons
say what was sent first holds for packets less than half of the numbers apart
(`NearNumbers`, from lemmas on remainders), and `ReceptionAssumption` bounds how late the
network may be accordingly.  `BufferInv` keeps every packet that can meet another within
that distance, so that `storePacket` finds the right place (`PlaceOf`, `StoreFacts`).
`CountInv` says how far the extended numbers are from the packets noted first and last.
The invariant has two halves: what holds whatever SSRCs are mixed (types, counts and the
flags of the reader), and `BufferInv` and `FramesInv`, which hold while `~mixed`; a packet
of the sender that finds the buffer empty brings them back.
`FramesAreWhole` speaks of the moment of delivery only; `FramesInv` of every moment
before: with no loss outstanding or forgotten, what lies in the frame is all there is of
a unit up to the packet that is expected (`Partial`), and with nothing in it that packet
begins a unit, or is the first one since the reader started (`FirstWaits`).  Since no unit
begins behind an unfinished one (`WithinUnit`), the flag for a loss, the flags that a
STAP-A leaves as they were, and the test for the expected number together decide rightly
in `UsePacket` whether a part goes on with the frame or begins another (`PartJoins`).
`Behind` and `Before` give the order of delivered frames, and that `truncated` is
`Len(frame) > fMaxSize` is kept with them.  Theorems: `ReceptionIsInOrder`,
`NumbersAreCounted` and `FramesHold`.

**Groupsock and SessionHost.**  `OwnTtl` is inductive together with the types of what
a write touches; that the list holds only records is not needed, because a write
takes its TTL as one byte.  Unicast destinations matter to it: they move the socket's
option and the cache together.  `SessionIsUndone` needs to know which objects exist at
each point of `UnInitialize` (the table `Existing`).  `DestinationsInv` is about
the list: what a walk of `removeDestinationFrom` keeps is a list of different records
of the old one (`RemovedKept`), and what is added or changed differs from the rest
(`AddedKeeps`, `ChangedKeeps`).  Theorems: `OwnTtlHolds`, `SessionIsUndoneHolds` and
`DestinationsHold`.

**ControlChannel.**  `CheckIsTruthful` is not inductive: what a Check reads was written
before.  `TruthInv` says of every unread answer why it is there (`Owed`: its Check is
being read, timed out or left something unread, or took an older answer for its own,
which goes back to one of those), of every unread command that it has not been handled and is in
order, behind what is left of one that was split (`CommandsInv`), and that every Check has
one of three ends (`ChecksInv`).  What a read leaves is a part of what was there, in its
order (`RestInOrder`, `LeftInOrder`).
`ChannelInv` bounds the length of a sequence, which no step sees: `WholeInv` counts
instead.  `CountInv` says that the Checks of a connection whose answer lies there or will
(`Pending`) are no more than those whose own read has not taken all there was (`Waited`), and that
unread answers are to older Checks than unread commands; `StartsInv` says
which Starts the Receiver may still read and that they are younger than those with a
window.  Theorems: `ChecksAreTruthful` and `ChannelSafety`.

**Recursion.**  Three definitions recurse over a list: `Ahead` of `DelayQueue`, `Removed` of
`Groupsock` and `Joined` of `H264Fragmenter`.  They are recursive functions on the places of the list; what they give for a list of any length
is proved by least counterexample (`SmallestNumber`): a set of numbers that is not
empty has a smallest one, whose predecessor is not in the set.

**Model-checked only.**  All liveness properties, which need ENABLED, and with them the
liveness part of `StreamServer`'s refinement: `StopBringsServerDown`,
`TriggersAreServed`, `StopEndsLoop`, `OverflowIsSent`, `PacketsMoveOn`, `CheckEnds` and the
others that section 3 lists.  Every invariant that a run checks is also proved.

## 6. What is not modelled

* Capture and encoding: calls of Media Foundation in a row.  What the rest sees
  of them is in the models: a device opens or does not, a sample arrives.
* `rescheduleDelayedTask`, `updateEntry` and `removeEntry` by pointer: no caller in
  the streaming path.
* The sink around the fragmenter (`H264or5VideoRTPSink::continuePlaying`, the marker
  bit) and the SPS and PPS copies, which nothing here reads.
* Multicast membership, reading and relaying of groupsocks, and the lookup table by
  socket: the server only sends.  Buckets and keys of the hash table: `SessionHost`
  takes the media table as a set.
* The panes and player processes that the Receiver's `AddNewWindow` makes, which have
  no effect on the connections.
* Payloads, jitter and RTP time stamps, RTCP packets, RTP over TCP.
* The H.265 branch of the fragmenter, RTSP, SIP, RTCP sessions and the file parsers
  and sinks.  This is most of the repository's code by far: a vendored copy of a
  library of which the three programs call the small part that is modelled here.
  For the same reason the modelled lines are a small share of all lines; what the
  programs run, apart from capture and the user interface, is covered.
* JSON parsing and bind, listen and Winsock start-up: pure functions and I/O;
  `StreamServer` uses their results.
* The contents of `pictureEndMarker`, which the fragmenter reads beyond the object
  that H264LiveSource is: undefined behaviour whose effect is the marker bit.

Hazards without a property (`PROJECT.json` gives the reason for each): a client that
leaves without Stop, a device that goes silent, the unbounded sample queue, samples
larger than the sink's buffer, a STAP-A with a stray byte, the cast of the fragmenter's source, and the 32-bit product in `sendPacketIfNecessary`.

## 7. Plan

Done, in this order: `StreamServer` with its abstract life cycle, `LivePipeline`,
`DelayQueue` with `TimerService`, `H264Fragmenter`, `RtpPacker`, `TaskScheduler`,
`RtpReception`, `ControlChannel`, `Groupsock` with `SessionHost`, and the proofs.

Next:

1. Arithmetic on `Timeval` (a normalised pair implements integer microseconds), and
   the 32-bit product in `sendPacketIfNecessary`, as pure functions with a proof.
2. The sink's view of fragmenter and packer together: `H264Fragmenter` as the source
   of `RtpPacker`, showing that video payloads never become overflow data.
3. Theorems about these two: that normalising a `Timeval` changes no time, and that a
   video sink keeps `fOverflowDataSize = 0`.
