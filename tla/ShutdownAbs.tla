----------------------------- MODULE ShutdownAbs -----------------------------
(***************************************************************************)
(* What the shutdown handshake promises (spec section 4.8), without any    *)
(* record layer: the local side moves Idle -> CloseNotifySent ->           *)
(* BothClosed, an independent bit records that the peer's close_notify was *)
(* seen, quiet shutdown jumps straight to BothClosed, and a call reports   *)
(* success (1) only in BothClosed.                                         *)
(***************************************************************************)
EXTENDS Integers

VARIABLES
  state,        \* "Idle", "CloseNotifySent" or "BothClosed"
  peer_closed,  \* the peer's close_notify has been observed
  result        \* what the last shutdown call reported

States == {"Idle", "CloseNotifySent", "BothClosed"}
Results == {1, 0, -1}

absvars == <<state, peer_closed, result>>

Init ==
  /\ state = "Idle"
  /\ peer_closed = FALSE
  /\ result = 0

\* A call reports; success only once both directions are closed.
Report == /\ result' \in Results
          /\ result' = 1 => state' = "BothClosed"

Quiet ==
  /\ state' = "BothClosed"
  /\ peer_closed' = TRUE
  /\ result' = 1

\* Our close_notify is sent (or queued); with the peer already closed, done.
SendCloseNotify ==
  /\ state = "Idle"
  /\ state' = IF peer_closed THEN "BothClosed" ELSE "CloseNotifySent"
  /\ UNCHANGED peer_closed
  /\ Report

\* The peer's close_notify is observed, inside a shutdown call or not.
ObservePeer ==
  /\ ~peer_closed
  /\ peer_closed' = TRUE
  /\ state' = IF state = "CloseNotifySent" THEN "BothClosed" ELSE state
  /\ (result' = result \/ Report)

\* A shutdown call that changes no state but reports.
Retry ==
  /\ UNCHANGED <<state, peer_closed>>
  /\ Report

\* The connection is cleared for reuse: both directions are open again and
\* no call has reported yet (spec 3: the shutdown bits are reset on clear).
Reset ==
  /\ state' = "Idle"
  /\ peer_closed' = FALSE
  /\ result' = 0

Next == Quiet \/ SendCloseNotify \/ ObservePeer \/ Retry \/ Reset

Spec == Init /\ [][Next]_absvars

=============================================================================
