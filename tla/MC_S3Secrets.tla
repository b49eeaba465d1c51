---------------------------- MODULE MC_S3Secrets ----------------------------
(* Model-checking instance of S3Secrets: both roles, three heap buffers    *)
(* (enough for the PSK, a premaster and the PSK premaster at once, so that *)
(* the heap runs out only after a leak), two key objects (the most one     *)
(* exchange holds at once: its own key and the peer's), and room for a     *)
(* second cipher/digest fetch, so that one leaked reference is visible,    *)
(* and one application reference per key from SSL_get_(peer_)tmp_key.     *)
EXTENDS S3Secrets

CONSTANTS b1, b2, b3, k1, k2

MCRoles == {"client", "server"}
MCBuffers == {b1, b2, b3}
MCKeys == {k1, k2}
MCMaxFetched == 2
MCMaxAppRefs == 1
=============================================================================
