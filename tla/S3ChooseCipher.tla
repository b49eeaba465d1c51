---------------------------- MODULE S3ChooseCipher ----------------------------
(***************************************************************************)
(* Server-side cipher negotiation: ssl3_choose_cipher(s, clnt, srvr) in    *)
(* src/ssl/s3_lib.c.  The function is pure apart from reading the          *)
(* connection's configuration, so a state is one call: the client's offer  *)
(* list, the server's list, the configuration, and what the call returned. *)
(* The loop of the code is translated as a recursive operator (Loop); a    *)
(* second, declarative definition (RefChoice) states spec 4.3 with         *)
(* sequence filters, and the run checks that the two always agree.         *)
(*                                                                         *)
(* Suites are the catalog entries of the file, with the fields the         *)
(* negotiation reads.  Bit masks are sets of flag names.                   *)
(***************************************************************************)
EXTENDS Integers, Sequences, SequencesExt

CONSTANTS
  Universe,     \* catalog entries that may appear in the offer lists
  MaxClnt,      \* longest client offer list
  MaxSrvr,      \* longest server cipher list
  Modes,        \* "client", "server" (SSL_OP_CIPHER_SERVER_PREFERENCE), "chacha" (with
                \* SSL_OP_PRIORITIZE_CHACHA) or "suiteb"
  Versions,     \* s->version values of the negotiated protocol
  CertConfigs,  \* server key setups: the masks ssl_set_masks derives from the
                \* certificates, and whether tls1_check_ec_tmp_key finds a curve
  SecLevels,    \* minimum strength_bits the security callback accepts
  NONE          \* the NULL cipher pointer

\* Protocol version numbers (include/openssl/*.h)
TLS1_2_VERSION  == 771     \* 0x0303
TLS1_3_VERSION  == 772     \* 0x0304
DTLS1_2_VERSION == 65277   \* 0xFEFD
DTLS1_BAD_VER   == 256     \* 0x0100

IsDTLS(v) == v > 65000

\* dtls_ver_ordinal / DTLS_VERSION_LT / DTLS_VERSION_GT (ssl_local.h):
\* a numerically larger DTLS version is an older one; 0 excludes DTLS.
DtlsOrdinal(v)      == IF v = DTLS1_BAD_VER THEN 65280 ELSE v
DTLS_VERSION_LT(a, b) == DtlsOrdinal(a) > DtlsOrdinal(b)
DTLS_VERSION_GT(a, b) == DtlsOrdinal(a) < DtlsOrdinal(b)

\* Catalog entries (the fields ssl3_choose_cipher reads).
Suite(nm, id, k, a, enc, mintls, maxtls, mindtls, maxdtls, mac, bits) ==
  [name |-> nm, id |-> id, mkey |-> k, auth |-> a, enc |-> enc,
   min_tls |-> mintls, max_tls |-> maxtls, min_dtls |-> mindtls,
   max_dtls |-> maxdtls, mac |-> mac, strength_bits |-> bits]

TLS_AES_128_GCM_SHA256 ==
  Suite("TLS_AES_128_GCM_SHA256", 50336513, {"kANY"}, {"aANY"}, "AES128GCM",
        TLS1_3_VERSION, TLS1_3_VERSION, 0, 0, "SHA256", 128)
TLS_AES_256_GCM_SHA384 ==
  Suite("TLS_AES_256_GCM_SHA384", 50336514, {"kANY"}, {"aANY"}, "AES256GCM",
        TLS1_3_VERSION, TLS1_3_VERSION, 0, 0, "SHA384", 256)
TLS_CHACHA20_POLY1305_SHA256 ==
  Suite("TLS_CHACHA20_POLY1305_SHA256", 50336515, {"kANY"}, {"aANY"}, "CHACHA20POLY1305",
        TLS1_3_VERSION, TLS1_3_VERSION, 0, 0, "SHA256", 256)
ECDHE_ECDSA_AES128_GCM_SHA256 ==
  Suite("ECDHE-ECDSA-AES128-GCM-SHA256", 50380843, {"kECDHE"}, {"aECDSA"}, "AES128GCM",
        TLS1_2_VERSION, TLS1_2_VERSION, DTLS1_2_VERSION, DTLS1_2_VERSION, "SHA256", 128)
PSK_AES128_GCM_SHA256 ==
  Suite("PSK-AES128-GCM-SHA256", 50331816, {"kPSK"}, {"aPSK"}, "AES128GCM",
        TLS1_2_VERSION, TLS1_2_VERSION, DTLS1_2_VERSION, DTLS1_2_VERSION, "SHA256", 128)
ECDHE_RSA_CHACHA20_POLY1305 ==
  Suite("ECDHE-RSA-CHACHA20-POLY1305", 50384040, {"kECDHE"}, {"aRSA"}, "CHACHA20POLY1305",
        TLS1_2_VERSION, TLS1_2_VERSION, DTLS1_2_VERSION, DTLS1_2_VERSION, "SHA256", 256)
DHE_BIGN_WITH_BELT_CTR_MAC_HBELT ==
  Suite("DHE-BIGN-WITH-BELT-CTR-MAC-HBELT", 50397973, {"kBDHE"}, {"aBIGN"}, "BELTCTR",
        TLS1_2_VERSION, TLS1_2_VERSION, 0, 0, "HBELT", 256)

\* SSL_PSK: the PSK key-exchange family.
SSL_PSK == {"kPSK", "kRSAPSK", "kECDHEPSK", "kDHEPSK"}

IsChacha(c) == c.enc = "CHACHA20POLY1305"

\* Offer lists: duplicate-free sequences of catalog entries, as a parsed
\* ClientHello and a configured cipher list are.
Lists(n) == {l \in SetToAllKPermutations(Universe) : Len(l) <= n}

Config == [mode : Modes, version : Versions, certs : CertConfigs,
           psk_cb : BOOLEAN, safari : BOOLEAN,
           reserve_ok : BOOLEAN, sec_bits : SecLevels]

VARIABLES
  clnt,    \* the client's offer list
  srvr,    \* the server's enabled list
  cfg,     \* the connection configuration the call reads
  called,  \* ssl3_choose_cipher has run for this ClientHello
  chosen   \* the returned cipher, or NONE

vars == <<clnt, srvr, cfg, called, chosen>>

TypeOK ==
  /\ clnt \in Lists(MaxClnt)
  /\ srvr \in Lists(MaxSrvr)
  /\ cfg \in Config
  /\ called \in BOOLEAN
  /\ chosen \in Universe \cup {NONE}

-----------------------------------------------------------------------------
(***************************************************************************)
(* The code.                                                               *)
(***************************************************************************)

\* The ChaCha20 reordering of the server list: the first ChaCha20 suite,
\* the later ChaCha20 suites, then all the others, each in server order.
ChachaPrio(srv) ==
  LET first == SelectInSeq(srv, IsChacha)
  IN  <<srv[first]>>
        \o SelectSeq(SubSeq(srv, first + 1, Len(srv)), IsChacha)
        \o SelectSeq(srv, LAMBDA c : ~IsChacha(c))

\* The reordering happens under server preference with SSL_OP_PRIORITIZE_CHACHA
\* when the client's first offer is ChaCha20 and the server has one, and the
\* reserve of the temporary stack succeeds.
UseChacha(f, cl, srv) ==
  /\ f.mode = "chacha"
  /\ Len(cl) > 0 /\ IsChacha(cl[1])
  /\ SelectInSeq(srv, IsChacha) # 0
  /\ f.reserve_ok

\* prio and allow.
Prio(f, cl, srv) ==
  CASE f.mode = "client"     -> cl
    [] UseChacha(f, cl, srv) -> ChachaPrio(srv)
    [] OTHER                 -> srv

Allow(f, cl, srv) == IF f.mode = "client" THEN srv ELSE cl

IsTLS13(f) == f.version = TLS1_3_VERSION

\* prefer_sha256: TLS 1.3, an old-style PSK callback and no certificate.
PreferSha256(f) == IsTLS13(f) /\ f.psk_cb /\ ~f.certs.has_cert

\* The protocol version check of the loop.
VersionExcludes(f, c) ==
  IF IsDTLS(f.version)
  THEN DTLS_VERSION_LT(f.version, c.min_dtls) \/ DTLS_VERSION_GT(f.version, c.max_dtls)
  ELSE f.version < c.min_tls \/ f.version > c.max_tls

\* The pre-TLS-1.3 key exchange and authentication checks of the loop.
KexAuthExcludes(f, c) ==
  /\ ~IsTLS13(f)
  /\ \/ c.mkey \cap SSL_PSK # {} /\ ~f.psk_cb
     \/ c.mkey \cap f.certs.mask_k = {}
     \/ c.auth \cap f.certs.mask_a = {}
     \/ "kECDHE" \in c.mkey /\ ~f.certs.ec_ok

\* alg_k and alg_a keep their value 0 under TLS 1.3.
SafariCase(f, c) ==
  /\ ~IsTLS13(f)
  /\ "kECDHE" \in c.mkey /\ "aECDSA" \in c.auth
  /\ f.safari

\* The tests that `continue` to the next suite before the allow list is used.
Skipped(f, allow, c) ==
  \/ VersionExcludes(f, c)
  \/ KexAuthExcludes(f, c)
  \/ ~Contains(allow, c)
  \/ c.strength_bits < f.sec_bits

RECURSIVE Loop(_, _, _, _, _)

\* Mutant: the Safari branch ends the loop (break instead of continue).
Loop_SafariBreak(f, prio, allow, i, ret) ==
  IF i > Len(prio) THEN ret
  ELSE LET c    == prio[i]
           keep == IF ret = NONE THEN c ELSE ret
       IN  IF Skipped(f, allow, c) THEN Loop(f, prio, allow, i + 1, ret)
           ELSE CASE SafariCase(f, c)                     -> keep
                  [] PreferSha256(f) /\ c.mac = "SHA256"  -> c
                  [] PreferSha256(f) /\ c.mac # "SHA256"  -> Loop(f, prio, allow, i + 1, keep)
                  [] ~SafariCase(f, c) /\ ~PreferSha256(f) -> c

\* The loop over prio from index i, ret the fallback remembered so far.
Loop(f, prio, allow, i, ret) ==
  IF i > Len(prio) THEN ret
  ELSE LET c    == prio[i]
           keep == IF ret = NONE THEN c ELSE ret
       IN  IF Skipped(f, allow, c) THEN Loop(f, prio, allow, i + 1, ret)
           ELSE CASE SafariCase(f, c)                     -> Loop(f, prio, allow, i + 1, keep)
                  [] PreferSha256(f) /\ c.mac = "SHA256"  -> c
                  [] PreferSha256(f) /\ c.mac # "SHA256"  -> Loop(f, prio, allow, i + 1, keep)
                  [] ~SafariCase(f, c) /\ ~PreferSha256(f) -> c

ssl3_choose_cipher(f, cl, srv) ==
  Loop(f, Prio(f, cl, srv), Allow(f, cl, srv), 1, NONE)

-----------------------------------------------------------------------------
(***************************************************************************)
(* One server handshake step: a ClientHello arrives, with any offer list,   *)
(* server list and configuration, and the cipher is chosen.                *)
(***************************************************************************)
Init ==
  /\ clnt \in Lists(MaxClnt)
  /\ srvr \in Lists(MaxSrvr)
  /\ cfg \in Config
  /\ called = FALSE
  /\ chosen = NONE

ChooseCipher ==
  /\ ~called
  /\ called' = TRUE
  /\ chosen' = ssl3_choose_cipher(cfg, clnt, srvr)
  /\ UNCHANGED <<clnt, srvr, cfg>>

\* A new handshake (renegotiation) on the same lists forgets the choice.
NewHandshake ==
  /\ called
  /\ called' = FALSE
  /\ chosen' = NONE
  /\ UNCHANGED <<clnt, srvr, cfg>>

Next == ChooseCipher \/ NewHandshake

Spec == Init /\ [][Next]_vars

-----------------------------------------------------------------------------
(***************************************************************************)
(* Spec 4.3, stated without the loop.                                      *)
(***************************************************************************)
\* A suite passes every filter of the connection and is in the allow list.
Acceptable(f, allow, c) ==
  /\ ~VersionExcludes(f, c)
  /\ ~KexAuthExcludes(f, c)
  /\ Contains(allow, c)
  /\ c.strength_bits >= f.sec_bits

\* The priority list as spec 4.3 describes it: ChaCha20 suites moved to the
\* front of the server list, keeping their relative order.
RefPrio(f, cl, srv) ==
  IF UseChacha(f, cl, srv)
  THEN SelectSeq(srv, IsChacha) \o SelectSeq(srv, LAMBDA c : ~IsChacha(c))
  ELSE Prio(f, cl, srv)

\* The first acceptable suite in priority order, except that with prefer_sha256
\* the first SHA-256 one wins, and a Safari ECDHE-ECDSA suite is only a fallback.
RefChoice(f, cl, srv) ==
  LET cands == SelectSeq(RefPrio(f, cl, srv),
                         LAMBDA c : Acceptable(f, Allow(f, cl, srv), c))
      best  == IF PreferSha256(f)
               THEN SelectSeq(cands, LAMBDA c : c.mac = "SHA256")
               ELSE SelectSeq(cands, LAMBDA c : ~SafariCase(f, c))
  IN  CASE best # <<>>  -> best[1]
        [] cands # <<>> -> cands[1]
        [] OTHER        -> NONE

(* The cipher ssl3_choose_cipher returns is exactly the one spec 4.3       *)
(* prescribes for the same inputs: the ChaCha20 reordering, the filters,   *)
(* the Safari fallback and the SHA-256 preference interact in the loop     *)
(* through the single variable ret and through break/continue.             *)
ChoiceMatchesReference ==
  called => chosen = RefChoice(cfg, clnt, srvr)

=============================================================================
