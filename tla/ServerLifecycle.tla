-------------------------- MODULE ServerLifecycle --------------------------
(***************************************************************************)
(* What the server promises of its first streaming session, seen from      *)
(* outside: the media objects appear once, they are released only after a  *)
(* stop was asked for, they never come back, and a server that was asked   *)
(* to stop goes down.  A server that was not asked to stop goes down only  *)
(* before it has opened anything (its accept failed).  Nothing is promised *)
(* once a second Start is handled next to the first.                       *)
(***************************************************************************)

VARIABLES media,     \* absent, live or released; again: started twice
          stopping,  \* a stop has been asked for
          up         \* the process runs

vars == <<media, stopping, up>>

Init == media = "absent" /\ stopping = FALSE /\ up = TRUE

Open == /\ up /\ ~stopping /\ media = "absent"
        /\ media' = "live"
        /\ UNCHANGED <<stopping, up>>

AskToStop == /\ up /\ ~stopping
             /\ stopping' = TRUE
             /\ UNCHANGED <<media, up>>

Release == /\ up /\ stopping /\ media = "live"
           /\ media' = "released"
           /\ UNCHANGED <<stopping, up>>

GoDown == /\ up
          /\ stopping \/ media = "absent"
          /\ up' = FALSE
          /\ UNCHANGED <<media, stopping>>

OpenAgain == /\ up /\ ~stopping /\ media = "live"
             /\ media' = "again"
             /\ UNCHANGED <<stopping, up>>

StartedTwice == /\ media = "again" /\ media' = "again"
                /\ stopping' \in BOOLEAN /\ up' \in BOOLEAN

Next == Open \/ AskToStop \/ Release \/ GoDown \/ OpenAgain \/ StartedTwice

Spec == Init /\ [][Next]_vars

\* A stop that was asked for is carried out.
StopIsCarriedOut == (stopping /\ media # "again") ~> ~up

FairSpec == Spec /\ StopIsCarriedOut
=============================================================================
