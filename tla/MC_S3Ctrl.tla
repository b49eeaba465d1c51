------------------------------- MODULE MC_S3Ctrl -------------------------------
EXTENDS S3Ctrl

\* One caller string; its length is empty, valid, or over every limit.
MCNames == {"n1"}
MCStrLens == {0, 1, 256}
MCBytes == {0, 1}
MCCerts == {"x1", "x2"}
\* Peer groups: secp256r1 (23, built-in NID 415, known to the context),
\* x25519 (29, built-in NID 1034, not loaded in this context) and a group
\* only a provider defines (4588, no built-in NID, known to the context).
MCGroups == {23, 29, 4588}
MCCtxGroups == {23, 4588}
MCBuiltinNids == (23 :> 415) @@ (29 :> 1034)
====
