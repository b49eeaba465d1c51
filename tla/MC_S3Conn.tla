-------------------------------- MODULE MC_S3Conn --------------------------------
(* Model-checking instance of S3Conn: both quiet settings, every outcome   *)
(* of an alert write and of an ssl_read_bytes call, and two                *)
(* renegotiations, one to start before SSL_shutdown and one after.        *)
EXTENDS S3Conn

MCQuietModes == BOOLEAN
MCDispatchResults == {"ok", "retry", "error"}
MCMaxReneg == 2
MCReadResults == {"data", "block", "reenter"}
=============================================================================
