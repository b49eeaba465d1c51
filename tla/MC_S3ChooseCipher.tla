-------------------------- MODULE MC_S3ChooseCipher --------------------------
(***************************************************************************)
(* Model of ssl3_choose_cipher over seven catalog entries chosen so that   *)
(* every rule of the loop can decide the result: TLS 1.3 suites with       *)
(* SHA-256 and SHA-384 hashes, ChaCha20 suites of both versions, an        *)
(* ECDHE-ECDSA suite (the Safari rule), a PSK suite and a national         *)
(* BIGN suite that DTLS excludes.                                          *)
(***************************************************************************)
EXTENDS S3ChooseCipher

MCUniverse == {TLS_AES_256_GCM_SHA384, TLS_CHACHA20_POLY1305_SHA256,
               ECDHE_ECDSA_AES128_GCM_SHA256, PSK_AES128_GCM_SHA256,
               ECDHE_RSA_CHACHA20_POLY1305, DHE_BIGN_WITH_BELT_CTR_MAC_HBELT}

MCVersions == {TLS1_2_VERSION, TLS1_3_VERSION, DTLS1_2_VERSION}

\* ssl_set_masks and tls1_check_ec_tmp_key: no certificate (PSK only), RSA
\* and ECDSA certificates with and without a curve shared with the client,
\* or a BIGN certificate.
MCCertConfigs ==
  {[has_cert |-> FALSE, ec_ok |-> TRUE, mask_k |-> {"kECDHE", "kPSK"}, mask_a |-> {"aPSK"}],
   [has_cert |-> TRUE, ec_ok |-> TRUE, mask_k |-> {"kECDHE", "kPSK"},
    mask_a |-> {"aRSA", "aECDSA", "aPSK"}],
   [has_cert |-> TRUE, ec_ok |-> FALSE, mask_k |-> {"kECDHE", "kPSK"},
    mask_a |-> {"aRSA", "aECDSA", "aPSK"}],
   [has_cert |-> TRUE, ec_ok |-> TRUE, mask_k |-> {"kECDHE", "kBDHE", "kPSK"},
    mask_a |-> {"aBIGN", "aPSK"}]}

\* Plain server preference is "chacha" with a failed reserve or a client
\* whose first offer is not ChaCha20.
MCModes == {"client", "chacha", "suiteb"}

\* Security level 1 (80 bits) passes every suite; 192 bits rejects the
\* 128-bit ones.
MCSecLevels == {80, 192}
=============================================================================
