------------------------------- MODULE S3Conn -------------------------------
(***************************************************************************)
(* One connection in its data-transfer phase: the close-notify exchange   *)
(* of S3Shutdown and the application I/O and renegotiation plumbing of     *)
(* S3Reneg, run over the same s3 block and the same record layer.          *)
(*                                                                         *)
(* The two components share the record layer's write buffer               *)
(* (write_pending): SSL_write fills it, the close_notify dispatch flushes  *)
(* it first.  They meet in three more places, all in ssl_lib.c outside     *)
(* src/ and modelled from the spec: SSL_write is refused once             *)
(* SSL_SENT_SHUTDOWN is set, SSL_read returns 0 once                       *)
(* SSL_RECEIVED_SHUTDOWN is set, and SSL_clear zeroes s->shutdown, puts     *)
(* the state machine back "before" and calls ssl3_clear, whose memset of   *)
(* s->s3 drops the queued alert along with the renegotiation state.        *)
(* SSL_renegotiate and SSL_do_handshake do not look at s->shutdown.        *)
(***************************************************************************)
EXTENDS Integers

CONSTANTS QuietModes, DispatchResults, MaxReneg, ReadResults

VARIABLES
  \* S3Shutdown
  quiet_shutdown, in_before, shutdown, alert_dispatch, send_alert,
  peer_close_notify, wire_close_notify, quiet_closed, ret, want,
  \* shared: RECORD_LAYER_write_pending
  write_pending,
  \* S3Reneg
  hs_func, renegotiate, num_reneg, total_reneg, read_pending, in_init,
  in_read_app_data, last_ctrl

shutdown_vars == <<quiet_shutdown, in_before, shutdown, alert_dispatch, send_alert,
                   peer_close_notify, wire_close_notify, quiet_closed, ret, want>>
reneg_vars == <<hs_func, renegotiate, num_reneg, total_reneg, read_pending, in_init,
                in_read_app_data, last_ctrl>>
vars == <<shutdown_vars, write_pending, reneg_vars>>

Sd == INSTANCE S3Shutdown
Rn == INSTANCE S3Reneg

TypeOK == Sd!TypeOK /\ Rn!TypeOK

Init == Sd!Init /\ Rn!Init

-----------------------------------------------------------------------------
(***************************************************************************)
(* Steps of one component leave the other's variables alone; the guards  *)
(* added here are the checks ssl_lib.c makes before calling into s3_lib.c. *)
(***************************************************************************)

\* SSL_shutdown -> ssl3_shutdown, refused (-1, nothing changed) without a
\* handshake function or while a handshake is in progress; the zero-length
\* read of ssl3_shutdown goes straight to ssl_read_bytes and runs no
\* renegotiation check.
Shutdown(d) ==
  /\ hs_func
  /\ ~in_init
  /\ Sd!ssl3_shutdown(d)
  /\ UNCHANGED reneg_vars

\* SSL_write -> ssl3_write, refused once our close_notify is queued.
SslWrite ==
  /\ ~in_before
  /\ Sd!SENT \notin shutdown
  /\ Rn!ssl3_write
  /\ UNCHANGED shutdown_vars

\* SSL_read / SSL_peek -> ssl3_read_internal, refused once the peer's
\* close_notify has been processed; a close_notify that has arrived is read
\* after whatever bytes are still pending before it.
SslRead ==
  /\ ~in_before
  /\ Sd!RECEIVED \notin shutdown
  /\ ~peer_close_notify \/ read_pending
  /\ Rn!ssl3_read_internal
  /\ UNCHANGED shutdown_vars

\* SSL_read -> ssl3_read_internal whose ssl_read_bytes meets the peer's
\* close_notify: the renegotiation check at the top still runs, the read
\* returns 0, so in_read_app_data is cleared.
SslReadSeesCloseNotify ==
  /\ hs_func
  /\ ~in_before
  /\ Rn!MaybeRenegCheck
  /\ Sd!AppReadSeesCloseNotify
  /\ read_pending' = FALSE
  /\ in_read_app_data' = 0
  /\ UNCHANGED <<hs_func, last_ctrl>>

\* SSL_renegotiate -> ssl3_renegotiate.
Renegotiate ==
  /\ Rn!ssl3_renegotiate
  /\ UNCHANGED shutdown_vars

\* The state machine runs ssl3_renegotiate_check(s, 1).
RenegotiateCheck ==
  /\ Rn!ssl3_renegotiate_check
  /\ UNCHANGED shutdown_vars

\* SSL_CTRL_CLEAR_NUM_RENEGOTIATIONS.
ClearNumRenegotiations ==
  /\ Rn!CtrlClearNumRenegotiations
  /\ UNCHANGED shutdown_vars

(***************************************************************************)
(* SSL_clear: s->shutdown = 0, the state machine back to "before", then    *)
(* ssl3_clear, whose memset drops s3.alert_dispatch and s3.send_alert.      *)
(* The cleared object starts a new connection: the histories of the old   *)
(* one (what reached the wire, what the peer sent, the last result) start  *)
(* afresh.                                                                 *)
(***************************************************************************)
SslClear ==
  /\ Rn!ssl3_clear
  /\ shutdown' = {}
  /\ in_before' = TRUE
  /\ alert_dispatch' = FALSE
  /\ send_alert' = "none"
  /\ peer_close_notify' = FALSE
  /\ wire_close_notify' = FALSE
  /\ quiet_closed' = FALSE
  /\ ret' = 0
  /\ want' = "nothing"
  /\ UNCHANGED quiet_shutdown

\* SSL_set_connect_state / SSL_set_accept_state.
SetHandshakeFunc ==
  /\ Rn!SetHandshakeFunc
  /\ UNCHANGED shutdown_vars

\* The handshake leaves "before"; it is in init until it finishes.
HandshakeStart ==
  /\ hs_func
  /\ Sd!HandshakeStart
  /\ in_init' = TRUE
  /\ UNCHANGED <<hs_func, renegotiate, num_reneg, total_reneg, read_pending,
                 in_read_app_data, last_ctrl>>

\* The peer completes the handshake; it sends nothing after its close_notify.
HandshakeDone ==
  /\ ~in_before
  /\ ~peer_close_notify
  /\ Rn!HandshakeDone
  /\ UNCHANGED shutdown_vars

\* The peer's records arrive; nothing follows its close_notify.
PeerSends ==
  /\ ~peer_close_notify
  /\ Rn!PeerSends
  /\ UNCHANGED shutdown_vars

PeerSendsCloseNotify ==
  /\ Sd!PeerSendsCloseNotify
  /\ UNCHANGED reneg_vars

WriteDrains ==
  /\ Rn!WriteDrains
  /\ UNCHANGED shutdown_vars

SetQuietShutdown ==
  /\ Sd!SetQuietShutdown
  /\ UNCHANGED reneg_vars

OtherWarningAlert(d) ==
  /\ Sd!OtherWarningAlert(d)
  /\ UNCHANGED reneg_vars

Next ==
  \/ \E d \in DispatchResults : Shutdown(d)
  \/ SslWrite
  \/ SslRead
  \/ SslReadSeesCloseNotify
  \/ Renegotiate
  \/ RenegotiateCheck
  \/ ClearNumRenegotiations
  \/ SslClear
  \/ SetHandshakeFunc
  \/ HandshakeStart
  \/ HandshakeDone
  \/ PeerSends
  \/ PeerSendsCloseNotify
  \/ WriteDrains
  \/ SetQuietShutdown
  \/ \E d \in DispatchResults : OtherWarningAlert(d)

(***************************************************************************)
(* Fairness: the caller keeps calling SSL_shutdown until it returns 1 (the *)
(* retry loop the SSL_shutdown documentation asks for; strong, because a   *)
(* read or a write of the caller can disable it in between), and the peer  *)
(* eventually sends its close_notify.  Nothing is assumed of the peer's    *)
(* side of a handshake: a renegotiation may never finish.  SSL_clear,      *)
(* SSL_read, SSL_write and SSL_renegotiate are the caller's choice and get *)
(* none.                                                                   *)
(***************************************************************************)
Spec == Init /\ [][Next]_vars

FairSpec ==
  /\ Spec
  /\ SF_vars(Shutdown("ok") /\ ret # 1)
  /\ WF_vars(PeerSendsCloseNotify)

-----------------------------------------------------------------------------
(***************************************************************************)
(* Properties.  The components' own, now over the composed behaviours.     *)
(***************************************************************************)

(* ssl3_shutdown reports 1 outside quiet/before mode only when our         *)
(* close_notify was written and the peer's arrived, also when SSL_write,   *)
(* SSL_read with its renegotiation check and SSL_clear interleave with it.  *)
ShutdownSuccessSound == Sd!ShutdownSuccessSound

(* ssl3_shutdown asks to wait for the peer (WANT_READ) only after our      *)
(* close_notify is on the wire, whatever SSL_write buffered before it.     *)
CloseNotifyBeforeWaitingForPeer == Sd!CloseNotifyBeforeWaitingForPeer

(* Every step of the composed connection is a step of the abstract close-  *)
(* notify machine, SSL_clear being its Reset.                              *)
Abs == INSTANCE ShutdownAbs WITH
         state <- Sd!AbsState,
         peer_closed <- (Sd!RECEIVED \in shutdown),
         result <- ret

RefinesShutdownAbs == Abs!Spec

(* Liveness: once ssl3_shutdown has set SSL_SENT_SHUTDOWN, a caller who    *)
(* keeps calling it gets 1, unless SSL_clear starts the object afresh or   *)
(* a handshake is in progress.  SSL_shutdown sets SENT only outside init,  *)
(* so the last way out is a renegotiation started after our close_notify   *)
(* (ssl3_renegotiate_check never reads s->shutdown): SSL_shutdown is then  *)
(* refused for as long as the peer, which has closed, leaves it unfinished, *)
(* which reneg_after_close reports.  Failed and retried alert dispatches,  *)
(* the peer's pending data, SSL_read and SSL_write cannot hold it back,     *)
(* and each time a renegotiation finishes it must complete again.          *)
ShutdownCompletesUnlessClearedOrInInit ==
  (Sd!SENT \in shutdown) ~> (ret = 1 \/ shutdown = {} \/ in_init)

(* SSL_CTRL_CLEAR_NUM_RENEGOTIATIONS never resets the lifetime count, and  *)
(* SSL_clear resets both.                                                  *)
NumNeverExceedsTotal == Rn!NumNeverExceedsTotal

(* Orderly termination (spec 1, 4.8): once our close_notify is on the      *)
(* wire, this side starts no new handshake on the connection: no            *)
(* renegotiation begins until SSL_clear starts the object afresh.          *)
NoRenegotiationAfterCloseNotify ==
  [][total_reneg' > total_reneg => ~wire_close_notify]_vars

=============================================================================
