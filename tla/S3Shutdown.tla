----------------------------- MODULE S3Shutdown -----------------------------
(***************************************************************************)
(* The close-notify exchange of one connection: ssl3_shutdown() in        *)
(* src/ssl/s3_lib.c, together with the parts of the record layer it       *)
(* drives (ssl3_send_alert / ssl_dispatch_alert and a zero-length          *)
(* ssl_read_bytes), which live outside src/ and are modelled from the      *)
(* spec.  The application calls SSL_shutdown() repeatedly; the transport   *)
(* may refuse writes; the peer sends its close_notify whenever it likes.   *)
(***************************************************************************)
EXTENDS Integers

CONSTANTS
  QuietModes,      \* values SSL_set_quiet_shutdown() may have given the connection
  DispatchResults  \* outcomes of one alert write: "ok", "retry" (-1), "error" (0)

ASSUME QuietModes \subseteq BOOLEAN /\ QuietModes # {}
ASSUME DispatchResults \subseteq {"ok", "retry", "error"} /\ "ok" \in DispatchResults

SENT     == "SSL_SENT_SHUTDOWN"
RECEIVED == "SSL_RECEIVED_SHUTDOWN"

VARIABLES
  quiet_shutdown,      \* s->quiet_shutdown (SSL_set_quiet_shutdown, any time)
  in_before,           \* SSL_in_before(s): the handshake has not started
  shutdown,            \* s->shutdown, as the set of its bits
  alert_dispatch,      \* s->s3.alert_dispatch: an alert is queued, not yet written
  send_alert,          \* s->s3.send_alert[1]: the description of the queued alert
  write_pending,       \* RECORD_LAYER_write_pending: application bytes buffered
  peer_close_notify,   \* the peer's close_notify has arrived on the transport
  wire_close_notify,   \* history: our close_notify record has been written
  quiet_closed,        \* history: ssl3_shutdown took the quiet/before path
  ret,                 \* value returned by the last ssl3_shutdown call (0 before any)
  want                 \* direction a -1 asks the caller to wait on

vars == <<quiet_shutdown, in_before, shutdown, alert_dispatch, send_alert, write_pending,
          peer_close_notify, wire_close_notify, quiet_closed, ret, want>>

TypeOK ==
  /\ quiet_shutdown \in BOOLEAN
  /\ in_before \in BOOLEAN
  /\ shutdown \subseteq {SENT, RECEIVED}
  /\ alert_dispatch \in BOOLEAN
  /\ send_alert \in {"none", "close_notify", "other"}
  /\ write_pending \in BOOLEAN
  /\ peer_close_notify \in BOOLEAN
  /\ wire_close_notify \in BOOLEAN
  /\ quiet_closed \in BOOLEAN
  /\ ret \in {1, 0, -1}
  /\ want \in {"nothing", "write", "read"}

Init ==
  /\ quiet_shutdown \in QuietModes
  /\ in_before = TRUE
  /\ shutdown = {}
  /\ alert_dispatch = FALSE
  /\ send_alert = "none"
  /\ write_pending = FALSE
  /\ peer_close_notify = FALSE
  /\ wire_close_notify = FALSE
  /\ quiet_closed = FALSE
  /\ ret = 0
  /\ want = "nothing"

(***************************************************************************)
(* ssl_dispatch_alert (record layer, spec_modelled): writes the queued     *)
(* alert, first flushing buffered bytes.  On success alert_dispatch is     *)
(* cleared and the queued alert is on the wire; otherwise it stays queued. *)
(***************************************************************************)
DispatchAlert(d, alert) ==
  /\ alert_dispatch' = (d # "ok")
  /\ wire_close_notify' = (wire_close_notify \/ (d = "ok" /\ alert = "close_notify"))
  /\ write_pending' = (write_pending /\ d # "ok")

(***************************************************************************)
(* ssl3_send_alert(s, level, desc) (spec_modelled): queue the alert, over  *)
(* whatever was queued before, and dispatch it at once unless application  *)
(* bytes are still buffered for writing.                                   *)
(***************************************************************************)
SendAlert(d, alert) ==
  /\ send_alert' = alert
  /\ IF write_pending
     THEN /\ alert_dispatch' = TRUE
          /\ UNCHANGED <<wire_close_notify, write_pending>>
     ELSE DispatchAlert(d, alert)

\* Mutant: the final check ignores a still-queued alert.
Finish_IgnoresQueue(sd, ad) ==
  /\ ret' = IF sd = {SENT, RECEIVED} THEN 1 ELSE 0
  /\ want' = "nothing"

\* The tail of ssl3_shutdown: 1 only when both bits are set and nothing is queued.
Finish(sd, ad) ==
  /\ ret' = IF sd = {SENT, RECEIVED} /\ ~ad THEN 1 ELSE 0
  /\ want' = "nothing"

\* Mutant: the quiet path sets only SSL_SENT_SHUTDOWN.
QuietClose_SentOnly ==
  /\ quiet_shutdown \/ in_before
  /\ shutdown' = shutdown \cup {SENT}
  /\ quiet_closed' = TRUE
  /\ ret' = 1
  /\ want' = "nothing"
  /\ UNCHANGED <<alert_dispatch, send_alert, write_pending, wire_close_notify>>

\* quiet_shutdown or SSL_in_before: mark both directions closed, touch nothing.
QuietClose ==
  /\ quiet_shutdown \/ in_before
  /\ shutdown' = {SENT, RECEIVED}
  /\ quiet_closed' = TRUE
  /\ ret' = 1
  /\ want' = "nothing"
  /\ UNCHANGED <<alert_dispatch, send_alert, write_pending, wire_close_notify>>

\* First call: set SENT and send the close_notify; -1 (WANT_WRITE) if still queued.
SendCloseNotify(d) ==
  /\ SENT \notin shutdown
  /\ shutdown' = shutdown \cup {SENT}
  /\ SendAlert(d, "close_notify")
  /\ IF alert_dispatch'
     THEN ret' = -1 /\ want' = "write"
     ELSE Finish(shutdown', FALSE)
  /\ UNCHANGED quiet_closed

\* Mutant: `return ret` moved out of the `if (ret == -1)`, so the raw dispatch
\* result (bytes written on success) is returned.
ResendAlert_ReturnsDispatch(d) ==
  /\ SENT \in shutdown
  /\ alert_dispatch
  /\ DispatchAlert(d, send_alert)
  /\ ret' = CASE d = "retry" -> -1 [] d = "error" -> 0 [] OTHER -> 2
  /\ want' = IF d = "retry" THEN "write" ELSE "nothing"
  /\ UNCHANGED <<shutdown, send_alert, quiet_closed>>

\* Later call with the alert still queued: dispatch again; -1 is passed through.
ResendAlert(d) ==
  /\ SENT \in shutdown
  /\ alert_dispatch
  /\ DispatchAlert(d, send_alert)
  /\ IF d = "retry"
     THEN ret' = -1 /\ want' = "write"
     ELSE Finish(shutdown, alert_dispatch')
  /\ UNCHANGED <<shutdown, send_alert, quiet_closed>>

\* Mutant: the read for the peer's close_notify starts while our alert is queued.
AwaitPeerClose_IgnoresQueue ==
  /\ SENT \in shutdown
  /\ RECEIVED \notin shutdown
  /\ IF peer_close_notify
     THEN shutdown' = shutdown \cup {RECEIVED} /\ Finish(shutdown', FALSE)
     ELSE UNCHANGED shutdown /\ ret' = -1 /\ want' = "read"
  /\ UNCHANGED <<alert_dispatch, send_alert, write_pending, wire_close_notify,
                 quiet_closed>>

\* Mutant: the zero-length read never processes the peer's close_notify.
AwaitPeerClose_NeverReads ==
  /\ SENT \in shutdown
  /\ ~alert_dispatch
  /\ RECEIVED \notin shutdown
  /\ UNCHANGED shutdown /\ ret' = -1 /\ want' = "read"
  /\ UNCHANGED <<alert_dispatch, send_alert, write_pending, wire_close_notify,
                 quiet_closed>>

\* Alert written, peer not yet heard: a zero-length read drives alert processing.
AwaitPeerClose ==
  /\ SENT \in shutdown
  /\ ~alert_dispatch
  /\ RECEIVED \notin shutdown
  /\ IF peer_close_notify
     THEN shutdown' = shutdown \cup {RECEIVED} /\ Finish(shutdown', FALSE)
     ELSE UNCHANGED shutdown /\ ret' = -1 /\ want' = "read"
  /\ UNCHANGED <<alert_dispatch, send_alert, write_pending, wire_close_notify,
                 quiet_closed>>

\* Both bits already set and nothing queued: only the final check runs.
AlreadyClosed ==
  /\ SENT \in shutdown
  /\ ~alert_dispatch
  /\ RECEIVED \in shutdown
  /\ Finish(shutdown, FALSE)
  /\ UNCHANGED <<shutdown, alert_dispatch, send_alert, write_pending,
                 wire_close_notify, quiet_closed>>

(***************************************************************************)
(* ssl3_shutdown: the branches in the order the code tests them.           *)
(***************************************************************************)
ssl3_shutdown(d) ==
  /\ IF quiet_shutdown \/ in_before
     THEN QuietClose
     ELSE \/ SendCloseNotify(d)
          \/ ResendAlert(d)
          \/ AwaitPeerClose
          \/ AlreadyClosed
  /\ UNCHANGED <<quiet_shutdown, in_before, peer_close_notify>>

(***************************************************************************)
(* Environment: the handshake leaves the "before" state; SSL_write leaves  *)
(* bytes buffered or flushes them (refused once SENT is set); the peer's   *)
(* close_notify arrives; an application SSL_read processes it.             *)
(***************************************************************************)
HandshakeStart ==
  /\ in_before
  /\ shutdown = {}
  /\ in_before' = FALSE
  /\ UNCHANGED <<quiet_shutdown, shutdown, alert_dispatch, send_alert, write_pending,
                 peer_close_notify, wire_close_notify, quiet_closed, ret, want>>

AppWrite ==
  /\ ~in_before
  /\ SENT \notin shutdown
  /\ write_pending' \in BOOLEAN
  /\ write_pending' # write_pending
  /\ UNCHANGED <<quiet_shutdown, in_before, shutdown, alert_dispatch, send_alert,
                 peer_close_notify, wire_close_notify, quiet_closed, ret, want>>

PeerSendsCloseNotify ==
  /\ ~in_before
  /\ ~peer_close_notify
  /\ peer_close_notify' = TRUE
  /\ UNCHANGED <<quiet_shutdown, in_before, shutdown, alert_dispatch, send_alert,
                 write_pending, wire_close_notify, quiet_closed, ret, want>>

SetQuietShutdown ==
  /\ quiet_shutdown' \in QuietModes
  /\ quiet_shutdown' # quiet_shutdown
  /\ UNCHANGED <<in_before, shutdown, alert_dispatch, send_alert, write_pending,
                 peer_close_notify, wire_close_notify, quiet_closed, ret, want>>

AppReadSeesCloseNotify ==
  /\ peer_close_notify
  /\ RECEIVED \notin shutdown
  /\ shutdown' = shutdown \cup {RECEIVED}
  /\ UNCHANGED <<quiet_shutdown, in_before, alert_dispatch, send_alert, write_pending,
                 peer_close_notify, wire_close_notify, quiet_closed, ret, want>>

\* Another part of the handshake sends a warning alert before shutdown starts;
\* ssl3_send_alert refuses anything but close_notify once SENT is set.
OtherWarningAlert(d) ==
  /\ ~in_before
  /\ SENT \notin shutdown
  /\ SendAlert(d, "other")
  /\ UNCHANGED <<quiet_shutdown, in_before, shutdown, peer_close_notify,
                 quiet_closed, ret, want>>

Environment ==
  \/ HandshakeStart
  \/ AppWrite
  \/ PeerSendsCloseNotify
  \/ AppReadSeesCloseNotify
  \/ SetQuietShutdown
  \/ \E d \in DispatchResults : OtherWarningAlert(d)

Next ==
  \/ \E d \in DispatchResults : ssl3_shutdown(d)
  \/ Environment

Spec == Init /\ [][Next]_vars

-----------------------------------------------------------------------------
(***************************************************************************)
(* Properties.                                                             *)
(***************************************************************************)

(* When ssl3_shutdown reports success outside quiet/before mode, our       *)
(* close_notify has really been written and the peer's has really arrived: *)
(* the final check of ssl3_shutdown must not report 1 while the alert is   *)
(* still queued after a failed dispatch.                                   *)
ShutdownSuccessSound ==
  ret = 1 => (quiet_closed \/ (wire_close_notify /\ peer_close_notify))

(* Ordering (spec 5): ssl3_shutdown only asks the caller to wait for the   *)
(* peer's close_notify (WANT_READ) after our own close_notify is on the    *)
(* wire; it never waits on reading while its alert is still queued.        *)
CloseNotifyBeforeWaitingForPeer ==
  (ret = -1 /\ want = "read") => wire_close_notify

(* The abstract close-notify state of ShutdownAbs that the shutdown bits  *)
(* stand for; S3Conn checks the refinement.                                *)
AbsState ==
  IF shutdown = {SENT, RECEIVED} THEN "BothClosed"
  ELSE IF SENT \in shutdown THEN "CloseNotifySent"
  ELSE "Idle"

=============================================================================
