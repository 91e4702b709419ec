---------------------------- MODULE SessionHost ----------------------------
(***************************************************************************)
(* What one streaming session is made of, from Initialize to UnInitialize: *)
(* scheduler, environment, groupsocks, sinks, live sources and, from the   *)
(* first play on, the fragmenter that the video sink puts before its       *)
(* source.  Media are released through the media table of the environment, *)
(* which deletes itself when it is empty; the environment gives itself up  *)
(* only when nothing is left in it.  The destructors use what other objects*)
(* they know, and the model records whether one of those is gone already.  *)
(* The video groupsock is the one of module Groupsock; the audio groupsock *)
(* is another object of that class, of which only the lifetime is kept.    *)
(***************************************************************************)
EXTENDS Groupsock

Media   == {"sinkVid", "sinkAud", "srcVid", "srcAud", "fragmenter"}
Objects == Media \union {"gsVid", "gsAud", "scheduler", "environment"}
Null    == "null"

VARIABLES pc,          \* how far the session got
          alive,       \* the objects that exist
          mediaTable,  \* the media that the table of the environment lists
          hasTable,    \* there is a table, hence liveMediaPriv # NULL
          fSource,     \* per sink, what it reads from
          fOurFragmenter,
          fInputSource,  \* of the fragmenter
          dangling     \* history: an object was used that does not exist

session == <<pc, alive, mediaTable, hasTable, fSource, fOurFragmenter,
             fInputSource, dangling>>
vars == <<groupsock, session>>

CONSTANT RtpPort       \* the port Initialize adds to the groupsock's own
ASSUME RtpPortAssumption == RtpPort \in Ports

\* The list of the video groupsock after Initialize: the constructor's record
\* stays in it, so that packets go to both ports.
FirstDests == Added(<<destRecord(GroupAddr, GroupPort, GroupTtl, 0)>>, GroupAddr, RtpPort, 0)

Init ==
    /\ pc = "down" /\ alive = {} /\ mediaTable = {} /\ hasTable = FALSE
    /\ fSource = [k \in {"sinkVid", "sinkAud"} |-> Null]
    /\ fOurFragmenter = Null /\ fInputSource = Null /\ dangling = FALSE
    /\ socket = [open |-> FALSE, ttl |-> SocketTtl]
    /\ fLastSentTTL = NoTtl /\ fSourcePort = FALSE
    /\ fDests = FirstDests /\ turn = 0
    /\ datagram = NoDatagram /\ stale = FALSE

\* Initialize.  The environment is new, so that the first medium creates its table.
Initialize ==
    /\ pc = "down"
    /\ pc' = "ready"
    /\ alive' = alive \union (Objects \ {"fragmenter"})
    /\ mediaTable' = {"sinkVid", "sinkAud", "srcVid", "srcAud"} /\ hasTable' = TRUE
    /\ \E up \in BOOLEAN : Create(FirstDests, up)
    /\ fOurFragmenter' = Null /\ fInputSource' = Null
    /\ fSource' = [k \in DOMAIN fSource |-> Null]
    /\ UNCHANGED dangling

\* Stream: the video sink makes its fragmenter, a medium of its own.
StartVideo ==
    /\ pc = "ready"
    /\ pc' = "video"
    /\ alive' = alive \union {"fragmenter"}
    /\ mediaTable' = mediaTable \union {"fragmenter"} /\ hasTable' = TRUE
    /\ fOurFragmenter' = "fragmenter" /\ fInputSource' = "srcVid"
    /\ fSource' = [fSource EXCEPT !["sinkVid"] = "fragmenter"]
    /\ UNCHANGED <<dangling, groupsock>>

StartAudio ==
    /\ pc = "video" /\ turn = 0
    /\ pc' = "playing"
    /\ fSource' = [fSource EXCEPT !["sinkAud"] = "srcAud"]
    /\ UNCHANGED <<alive, mediaTable, hasTable, fOurFragmenter, fInputSource,
                   dangling, groupsock>>

\* The objects behind a source that stopGettingFrames reaches.
Chain(source) == {source, IF source = "fragmenter" THEN fInputSource ELSE Null} \ {Null}

\* Stream, after the loop: both sinks stop; the fragmenter stays, and so does
\* what it knows of its source.
StopPlaying(k, from, to) ==
    /\ pc = from /\ turn = 0
    /\ pc' = to
    /\ fSource' = [fSource EXCEPT ![k] = Null]
    /\ dangling' = (dangling \/ ~(Chain(fSource[k]) \union {"scheduler"} \subseteq alive))
    /\ UNCHANGED <<alive, mediaTable, hasTable, fOurFragmenter, fInputSource, groupsock>>

-----------------------------------------------------------------------------
\* What Medium::close or delete uses on the way: the object, the environment it
\* is registered with, and whatever its destructors call.
UsedBy(x) ==
    CASE x = "sinkVid" -> {x, "environment", "scheduler", "gsVid"}
                            \union Chain(fSource[x]) \union Chain(fOurFragmenter)
      [] x = "sinkAud" -> {x, "environment", "scheduler", "gsAud"} \union Chain(fSource[x])
      [] x \in {"srcVid", "srcAud"} -> {x, "environment", "scheduler"}
      [] x \in {"gsVid", "gsAud"} -> {x, "environment"}
      [] OTHER -> {x}

\* Mutant: the fragmenter is not detached, and closes the live source.
GoneWithSource(x) ==
    {x} \union (IF x = "sinkVid" THEN Chain(fOurFragmenter) ELSE {})

\* The video sink closes its fragmenter, which has been detached from its
\* source before FramedFilter's destructor closes that.
GoneWith(x) == {x} \union (IF x = "sinkVid" THEN {fOurFragmenter} \ {Null} ELSE {})

\* MediaLookupTable::remove, for the medium and those it closes: the table goes
\* with the last of its media.
Close(x, from, to) ==
    /\ pc = from
    /\ pc' = to
    /\ dangling' = (dangling \/ ~(UsedBy(x) \subseteq alive))
    /\ alive' = alive \ GoneWith(x)
    /\ mediaTable' = mediaTable \ GoneWith(x)
    /\ hasTable' = (mediaTable' # {})
    /\ UNCHANGED <<fSource, fOurFragmenter, fInputSource, groupsock>>

Delete(x, from, to) ==
    /\ pc = from
    /\ pc' = to
    /\ dangling' = (dangling \/ ~(UsedBy(x) \subseteq alive))
    /\ alive' = alive \ {x}
    /\ UNCHANGED <<mediaTable, hasTable, fSource, fOurFragmenter, fInputSource, groupsock>>

\* UsageEnvironment::reclaim: only an environment without a table gives itself up.
\* Groupsocks keep nothing in it: their setup gives groupsockPriv back at once.
Reclaim ==
    /\ pc = "reclaim"
    /\ pc' = "down"
    /\ dangling' = (dangling \/ "environment" \notin alive)
    /\ alive' = IF hasTable THEN alive ELSE alive \ {"environment"}
    /\ UNCHANGED <<mediaTable, hasTable, fSource, fOurFragmenter, fInputSource, groupsock>>

UnInitialize ==
    \/ Close("sinkVid", "stopped", "noSinkVid")
    \/ Close("sinkAud", "noSinkVid", "noSinks")
    \/ Close("srcVid", "noSinks", "noSrcVid")
    \/ Close("srcAud", "noSrcVid", "noMedia")
    \/ Delete("gsVid", "noMedia", "noGsVid")
    \/ Delete("gsAud", "noGsVid", "noGroupsocks")
    \/ Delete("scheduler", "noGroupsocks", "reclaim")
    \/ Reclaim

Next ==
    \/ Initialize
    \/ StartVideo
    \/ StartAudio
    \/ pc = "playing" /\ Edit /\ UNCHANGED session
    \/ pc \in {"video", "playing", "videoStopped"} /\ Send /\ UNCHANGED session
    \/ StopPlaying("sinkVid", "playing", "videoStopped")
    \/ StopPlaying("sinkAud", "videoStopped", "stopped")
    \/ UnInitialize

Spec == Init /\ [][Next]_vars
-----------------------------------------------------------------------------
\* UnInitialize undoes a session: no step of it uses an object that another has
\* released, the table lists the media that exist and is there as long as it
\* lists one, and at the end nothing is left, the environment included.
SessionIsUndone ==
    /\ ~dangling
    /\ mediaTable = alive \intersect Media
    /\ hasTable = (mediaTable # {})
    /\ pc = "down" => alive = {}
=============================================================================
