------------------------------- MODULE S3Reneg -------------------------------
(***************************************************************************)
(* Renegotiation requests and the application I/O paths that service them *)
(* (src/ssl/s3_lib.c): ssl3_renegotiate, ssl3_renegotiate_check,          *)
(* ssl3_write, ssl3_read_internal (ssl3_read / ssl3_peek) with its         *)
(* re-entrant retry, the renegotiation counters of ssl3_ctrl, and the      *)
(* reset of all of these by ssl3_clear.                                    *)
(*                                                                         *)
(* The record layer and the handshake state machine are outside src/ and   *)
(* are modelled from the spec: reads and writes may leave bytes pending or *)
(* drain them, a started renegotiation puts the connection in init until   *)
(* the handshake finishes, and a read made while a handshake is running    *)
(* may find application data and ask for the retry (in_read_app_data=2).   *)
(***************************************************************************)
EXTENDS Naturals

CONSTANTS
  MaxReneg,    \* bound on the renegotiation counters
  ReadResults  \* what one ssl_read_bytes call reports: "data", "block", "reenter"

ASSUME MaxReneg \in Nat \ {0}
ASSUME ReadResults \subseteq {"data", "block", "reenter"}

VARIABLES
  hs_func,          \* s->handshake_func # NULL (SSL_set_connect/accept_state)
  renegotiate,      \* s->s3.renegotiate: a renegotiation was requested
  num_reneg,        \* s->s3.num_renegotiations
  total_reneg,      \* s->s3.total_renegotiations
  read_pending,     \* RECORD_LAYER_read_pending
  write_pending,    \* RECORD_LAYER_write_pending
  in_init,          \* SSL_in_init(s): a handshake is in progress
  in_read_app_data, \* s->s3.in_read_app_data: 0, 1 (in SSL_read) or 2 (retry asked)
  last_ctrl         \* value the last SSL_CTRL_CLEAR_NUM_RENEGOTIATIONS returned

vars == <<hs_func, renegotiate, num_reneg, total_reneg, read_pending, write_pending,
          in_init, in_read_app_data, last_ctrl>>

TypeOK ==
  /\ hs_func \in BOOLEAN
  /\ renegotiate \in BOOLEAN
  /\ num_reneg \in 0..MaxReneg
  /\ total_reneg \in 0..MaxReneg
  /\ read_pending \in BOOLEAN
  /\ write_pending \in BOOLEAN
  /\ in_init \in BOOLEAN
  /\ in_read_app_data \in 0..2
  /\ last_ctrl \in 0..MaxReneg

Init ==
  /\ hs_func = FALSE
  /\ renegotiate = FALSE
  /\ num_reneg = 0
  /\ total_reneg = 0
  /\ read_pending = FALSE
  /\ write_pending = FALSE
  /\ in_init = FALSE
  /\ in_read_app_data = 0
  /\ last_ctrl = 0

-----------------------------------------------------------------------------
(***************************************************************************)
(* ssl3_renegotiate_check(s, initok) as an operator on the variables it    *)
(* changes; the state machine's "renegotiate" state is SSL_in_init.        *)
(***************************************************************************)
CheckFires(initok) ==
  /\ renegotiate
  /\ ~read_pending /\ ~write_pending
  /\ initok \/ ~in_init

RenegCheck(initok) ==
  IF CheckFires(initok) /\ total_reneg < MaxReneg
  THEN /\ in_init' = TRUE
       /\ renegotiate' = FALSE
       /\ num_reneg' = num_reneg + 1
       /\ total_reneg' = total_reneg + 1
  ELSE UNCHANGED <<in_init, renegotiate, num_reneg, total_reneg>>

\* The opportunistic check at the top of ssl3_write and ssl3_read_internal.
MaybeRenegCheck ==
  IF renegotiate THEN RenegCheck(FALSE)
  ELSE UNCHANGED <<in_init, renegotiate, num_reneg, total_reneg>>

\* ssl3_renegotiate (SSL_renegotiate).
ssl3_renegotiate ==
  /\ renegotiate' = (hs_func \/ renegotiate)
  /\ UNCHANGED <<hs_func, num_reneg, total_reneg, read_pending, write_pending, in_init,
                 in_read_app_data, last_ctrl>>

\* The state machine calls ssl3_renegotiate_check(s, 1) (spec 4.10).
ssl3_renegotiate_check ==
  /\ RenegCheck(TRUE)
  /\ UNCHANGED <<hs_func, read_pending, write_pending, in_read_app_data,
                 last_ctrl>>

\* ssl3_write: the check, then ssl_write_bytes, which may leave bytes pending
\* or flush them.
ssl3_write ==
  /\ hs_func
  /\ MaybeRenegCheck
  /\ write_pending' \in BOOLEAN
  /\ UNCHANGED <<hs_func, read_pending, in_read_app_data, last_ctrl>>

(***************************************************************************)
(* ssl3_read_internal: the check, in_read_app_data = 1, one ssl_read_bytes *)
(* call; if it returned -1 with in_read_app_data = 2, one more call with   *)
(* handshake processing disabled (ossl_statem_set_in_handshake 1, then 0,  *)
(* around it), which cannot ask again; else in_read_app_data = 0.          *)
(* ssl_read_bytes asks for the retry only while a handshake is running     *)
(* after at least one renegotiation (spec_modelled: record layer).         *)
(***************************************************************************)
Reenter(r) == r = "reenter" /\ in_init' /\ total_reneg' # 0

ssl3_read_internal ==
  /\ hs_func
  /\ MaybeRenegCheck
  /\ \E r1, r2 \in ReadResults :
       /\ r1 = "reenter" => Reenter(r1)
       /\ r2 # "reenter"
       /\ read_pending' \in BOOLEAN
       /\ in_read_app_data' = IF r1 = "reenter" THEN 2 ELSE 0
  /\ UNCHANGED <<hs_func, write_pending, last_ctrl>>

-----------------------------------------------------------------------------
(***************************************************************************)
(* ssl3_ctrl counters, ssl3_clear, and the environment.                    *)
(***************************************************************************)
\* Mutant: the clear command resets the lifetime counter instead.
CtrlClearNumRenegotiations_ClearsTotal ==
  /\ last_ctrl' = num_reneg
  /\ total_reneg' = 0
  /\ UNCHANGED <<hs_func, renegotiate, num_reneg, read_pending, write_pending, in_init,
                 in_read_app_data>>

\* SSL_CTRL_CLEAR_NUM_RENEGOTIATIONS: return the count, reset it.
CtrlClearNumRenegotiations ==
  /\ last_ctrl' = num_reneg
  /\ num_reneg' = 0
  /\ UNCHANGED <<hs_func, renegotiate, total_reneg, read_pending, write_pending, in_init,
                 in_read_app_data>>

\* ssl3_clear: memset of s->s3 (renegotiate, counters, in_read_app_data);
\* the record layer is reset and the handshake restarts from "before".
ssl3_clear ==
  /\ renegotiate' = FALSE
  /\ num_reneg' = 0
  /\ total_reneg' = 0
  /\ in_read_app_data' = 0
  /\ read_pending' = FALSE
  /\ write_pending' = FALSE
  /\ in_init' = FALSE
  /\ UNCHANGED <<hs_func, last_ctrl>>

\* SSL_set_connect_state / SSL_set_accept_state install handshake_func and
\* the first handshake begins.
SetHandshakeFunc ==
  /\ ~hs_func
  /\ hs_func' = TRUE
  /\ in_init' = TRUE
  /\ UNCHANGED <<renegotiate, num_reneg, total_reneg, read_pending, write_pending,
                 in_read_app_data, last_ctrl>>

\* The peer's records arrive.
PeerSends ==
  /\ hs_func /\ ~read_pending
  /\ read_pending' = TRUE
  /\ UNCHANGED <<hs_func, renegotiate, num_reneg, total_reneg, write_pending, in_init,
                 in_read_app_data, last_ctrl>>

\* The transport takes the buffered write.
WriteDrains ==
  /\ write_pending
  /\ write_pending' = FALSE
  /\ UNCHANGED <<hs_func, renegotiate, num_reneg, total_reneg, read_pending, in_init,
                 in_read_app_data, last_ctrl>>

\* The running handshake completes (SSL_do_handshake or inside SSL_read/SSL_write).
HandshakeDone ==
  /\ in_init
  /\ in_init' = FALSE
  /\ UNCHANGED <<hs_func, renegotiate, num_reneg, total_reneg, read_pending, write_pending,
                 in_read_app_data, last_ctrl>>

Next ==
  \/ ssl3_renegotiate
  \/ ssl3_renegotiate_check
  \/ ssl3_write
  \/ ssl3_read_internal
  \/ CtrlClearNumRenegotiations
  \/ ssl3_clear
  \/ SetHandshakeFunc
  \/ PeerSends
  \/ WriteDrains
  \/ HandshakeDone

Spec == Init /\ [][Next]_vars

-----------------------------------------------------------------------------
(***************************************************************************)
(* Properties.                                                             *)
(***************************************************************************)

(* The per-connection count never exceeds the lifetime count: resetting it *)
(* with SSL_CTRL_CLEAR_NUM_RENEGOTIATIONS leaves the lifetime count alone, *)
(* and only ssl3_clear resets both.                                        *)
NumNeverExceedsTotal == num_reneg <= total_reneg

=============================================================================
