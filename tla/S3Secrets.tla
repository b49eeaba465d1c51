------------------------------ MODULE S3Secrets ------------------------------
(***************************************************************************)
(* Life cycle of what one connection's key exchange owns: s->s3.tmp.pms    *)
(* (premaster secret), s->s3.tmp.psk (pre-shared key), the ephemeral keys  *)
(* s->s3.tmp.pkey and s->s3.peer_tmp, the key contexts of one call, and   *)
(* the fetched cipher and digest s->s3.tmp.new_sym_enc / new_hash, through *)
(* ssl_generate_pkey, ssl_generate_pkey_group, ssl_generate_param_group,   *)
(* ssl_derive, ssl_decapsulate, ssl_encapsulate, ssl_gensecret,            *)
(* ssl_generate_master_secret, ssl3_clear, ssl3_free and ssl3_new          *)
(* (src/ssl/s3_lib.c).  The handshake state machine that calls them lives  *)
(* outside src/ and is modelled from the spec as the legal call orders of  *)
(* a client or server key exchange, any of which may fail or be abandoned. *)
(*                                                                         *)
(* Heap buffers are a small set; each holds nothing ("unallocated"), a     *)
(* secret of some kind, or zeros.  Releasing a buffer without cleansing it *)
(* while it holds a secret puts that kind of secret into "exposed".  Key   *)
(* objects (EVP_PKEY) are a second small heap of reference counts: the s3  *)
(* block holds one reference through each of tmp.pkey and peer_tmp, and   *)
(* SSL_CTRL_GET_TMP_KEY / GET_PEER_TMP_KEY hand the application one more.  *)
(* Every library call that can fail is a nondeterministic outcome, and     *)
(* SSLfatal is the flag "fatal".                                           *)
(***************************************************************************)
EXTENDS Naturals, FiniteSets

CONSTANTS
  Roles,         \* {"client", "server"}: s->server
  Buffers,       \* heap buffers available to OPENSSL_malloc
  Keys,          \* EVP_PKEY objects available to the key generators
  MaxFetched,    \* bound on live references to fetched ciphers/digests
  MaxAppRefs,    \* bound on the references the application holds to one key
  NULL           \* the null pointer

ASSUME Roles \subseteq {"client", "server"} /\ Roles # {}
ASSUME NULL \notin Buffers \cup Keys /\ Cardinality(Buffers) >= 2
ASSUME MaxFetched \in Nat \ {0}
ASSUME MaxAppRefs \in Nat

Versions     == {"TLS1_2", "TLS1_3"}
\* Key exchanges a handshake of each version may negotiate (algorithm_mkey).
KexOf(v) == IF v = "TLS1_3" THEN {"kECDHE", "kKEM"}
            ELSE {"kRSA", "kECDHE", "kPSK", "kDHEPSK"}
\* alg_k & SSL_PSK, and alg_k & SSL_kPSK
PSKFamily == {"kPSK", "kDHEPSK"}
\* TLS <= 1.2 key exchanges with an ephemeral key pair on each side.
DheKex == {"kECDHE", "kDHEPSK"}

Secrets == {"pms", "psk", "pskpms"}
Contents == {"unallocated", "zero"} \cup Secrets

\* How a key agreement / KEM call can end once both keys are present:
\* the context or the size query fails, the premaster malloc fails, the
\* second derive fails, or the premaster is computed.
KexOutcomes == {"ctxfail", "mallocfail", "derivefail", "ok"}
\* How ssl_generate_pkey can end (pm non-NULL).
PkeyOutcomes == {"ctxfail", "initfail", "genfail", "ok"}
\* How a generation from a group id can end: unknown group, no context,
\* keygen/paramgen init fails, setting the group name fails, the
\* generation fails, or a key is produced.
GroupOutcomes == {"nogroup", "ctxfail", "initfail", "groupfail", "genfail", "ok"}

\* The DH parameters of the server's certificate (s->cert->dh_tmp), the
\* template of a DHE server key; not owned by the s3 block.
ServerDhParams == "dh_tmp"

Phases == {"start", "share", "psk", "kex", "done", "failed", "freed"}

VARIABLES
  role,     \* s->server
  version,  \* SSL_IS_TLS13(s) of the current handshake
  kex,      \* s->s3.tmp.new_cipher->algorithm_mkey
  phase,    \* progress of the (external) handshake's key exchange
  mem,      \* heap: what each buffer holds
  pms,      \* s->s3.tmp.pms
  psk,      \* s->s3.tmp.psk
  exposed,  \* history: kinds of secret released without cleansing
  keys,     \* key heap: the reference count of each EVP_PKEY (0: not allocated)
  app_refs, \* references to each key that the application got and holds
  tmp_pkey, \* s->s3.tmp.pkey
  peer_tmp, \* s->s3.peer_tmp
  ctxs,     \* number of live EVP_PKEY_CTX objects
  fatal,    \* SSLfatal has been called on this handshake (statem error state)
  sym,      \* s->s3.tmp.new_sym_enc / new_hash are set
  fetched   \* live references to fetched ciphers/digests held for s3

vars == <<role, version, kex, phase, mem, pms, psk, exposed,
          keys, app_refs, tmp_pkey, peer_tmp, ctxs, fatal, sym, fetched>>

TypeOK ==
  /\ role \in Roles
  /\ version \in Versions
  /\ kex \in KexOf(version)
  /\ phase \in Phases
  /\ mem \in [Buffers -> Contents]
  /\ pms \in Buffers \cup {NULL}
  /\ psk \in Buffers \cup {NULL}
  /\ exposed \subseteq Secrets
  /\ keys \in [Keys -> 0..(2 + MaxAppRefs)]
  /\ app_refs \in [Keys -> 0..MaxAppRefs]
  /\ tmp_pkey \in Keys \cup {NULL}
  /\ peer_tmp \in Keys \cup {NULL}
  /\ ctxs \in Nat
  /\ fatal \in BOOLEAN
  /\ sym \in BOOLEAN
  /\ fetched \in 0..MaxFetched

-----------------------------------------------------------------------------
(***************************************************************************)
(* The heaps, as operators on a record st holding the variables above plus *)
(* rv (the C return value) and key (the EVP_PKEY a call returns), so that  *)
(* one C function's sequence of calls composes into one step.              *)
(***************************************************************************)
Cur == [mem |-> mem, pms |-> pms, psk |-> psk, exposed |-> exposed,
        keys |-> keys, tmp_pkey |-> tmp_pkey, peer_tmp |-> peer_tmp,
        ctxs |-> ctxs, fatal |-> fatal, sym |-> sym, fetched |-> fetched,
        rv |-> 1, key |-> NULL]

Apply(st) ==
  /\ mem' = st.mem
  /\ pms' = st.pms
  /\ psk' = st.psk
  /\ exposed' = st.exposed
  /\ keys' = st.keys
  /\ tmp_pkey' = st.tmp_pkey
  /\ peer_tmp' = st.peer_tmp
  /\ ctxs' = st.ctxs
  /\ fatal' = st.fatal
  /\ sym' = st.sym
  /\ fetched' = st.fetched

FreeBufs(st) == {b \in Buffers : st.mem[b] = "unallocated"}

\* OPENSSL_malloc: a free buffer, or NULL when the heap is exhausted.
Malloc(st) == IF FreeBufs(st) = {} THEN NULL ELSE CHOOSE b \in FreeBufs(st) : TRUE

Fill(st, b, what) == [st EXCEPT !.mem[b] = what]

\* OPENSSL_free: releases the buffer as it is.
Free(st, b) ==
  IF b = NULL THEN st
  ELSE [st EXCEPT !.mem[b] = "unallocated",
                  !.exposed = IF st.mem[b] \in Secrets THEN @ \cup {st.mem[b]}
                              ELSE @]

\* OPENSSL_clear_free: cleanse, then release.
ClearFree(st, b) == IF b = NULL THEN st ELSE [st EXCEPT !.mem[b] = "unallocated"]

\* OPENSSL_cleanse: zero in place.
Cleanse(st, b) == IF b = NULL THEN st ELSE [st EXCEPT !.mem[b] = "zero"]

SetRv(st, v) == [st EXCEPT !.rv = v]

\* SSLfatal, and the "SSLfatal(); return 0" of an error path.
Fatal(st) == [st EXCEPT !.fatal = TRUE]
Fail(st) == SetRv(Fatal(st), 0)

\* A new EVP_PKEY from the key heap into st.key, or NULL when none is left.
AllocKey(st) ==
  LET free == {k \in Keys : st.keys[k] = 0}
  IN  IF free = {} THEN [st EXCEPT !.key = NULL]
      ELSE LET k == CHOOSE k \in free : TRUE
           IN  [st EXCEPT !.keys[k] = 1, !.key = k]

\* EVP_PKEY_free drops one reference (NULL is a no-op); the object is
\* released when the last one goes.
PkeyFree(st, k) == IF k = NULL THEN st ELSE [st EXCEPT !.keys[k] = @ - 1]

\* EVP_PKEY_CTX_new_* succeeding, and EVP_PKEY_CTX_free of it.
CtxNew(st) == [st EXCEPT !.ctxs = @ + 1]
CtxFree(st) == [st EXCEPT !.ctxs = @ - 1]

\* st.key := NULL, for a generator returning no key.
NoKey(st) == [st EXCEPT !.key = NULL]

\* EVP_PKEY_keygen / EVP_PKEY_paramgen on a context: a key when the call
\* succeeds (and the key heap has room), else NULL and SSLfatal if asked.
Generate(st, ok, fatalOnFail) ==
  LET a == AllocKey(st)
  IN  IF ok /\ a.key # NULL THEN a
      ELSE IF fatalOnFail THEN Fatal(NoKey(st)) ELSE NoKey(st)

\* The caller's "if (key == NULL) { SSLfatal(...); ... }".
CallerFatal(st) == IF st.key = NULL THEN Fatal(st) ELSE st

\* Store the returned key in the s3 field f, or make the step fail.
StoreKey(st, f) ==
  IF st.key = NULL THEN SetRv(st, 0) ELSE [st EXCEPT ![f] = st.key]

-----------------------------------------------------------------------------
(***************************************************************************)
(* Key generation.                                                         *)
(***************************************************************************)

\* ssl_generate_pkey(s, pm): a key with the parameters of pm; never fatal.
ssl_generate_pkey(st, pm, o) ==
  IF pm = NULL \/ o \in {"ctxfail", "initfail"} THEN NoKey(st)
  ELSE CtxFree(Generate(CtxNew(st), o = "ok", FALSE))

\* Mutant: the error paths return without EVP_PKEY_CTX_free(pctx).
ssl_generate_pkey_group_LeaksCtx(st, o) ==
  IF o \in {"nogroup", "ctxfail"} THEN Fatal(NoKey(st))
  ELSE IF o = "ok" THEN CtxFree(Generate(CtxNew(st), TRUE, TRUE))
  ELSE Fatal(NoKey(CtxNew(st)))

\* ssl_generate_pkey_group(s, id): every failure calls SSLfatal.
ssl_generate_pkey_group(st, o) ==
  IF o \in {"nogroup", "ctxfail"} THEN Fatal(NoKey(st))
  ELSE IF o \in {"initfail", "groupfail"} THEN CtxFree(Fatal(NoKey(CtxNew(st))))
  ELSE CtxFree(Generate(CtxNew(st), o = "ok", TRUE))

\* ssl_generate_param_group(s, id): only a failure to set the group name
\* calls SSLfatal; the other failures leave it to the caller.
ssl_generate_param_group(st, o) ==
  IF o \in {"nogroup", "ctxfail"} THEN NoKey(st)
  ELSE IF o = "initfail" THEN CtxFree(NoKey(CtxNew(st)))
  ELSE IF o = "groupfail" THEN CtxFree(Fatal(NoKey(CtxNew(st))))
  ELSE CtxFree(Generate(CtxNew(st), o = "ok", FALSE))

-----------------------------------------------------------------------------
(***************************************************************************)
(* Secrets.                                                                *)
(***************************************************************************)

\* The KDF step (s->method->ssl3_enc->generate_master_secret, or the TLS 1.3
\* tls13_generate_*secret): SSLfatal on failure.
Kdf(st, ok) == IF ok THEN SetRv(st, 1) ELSE Fail(st)

\* Mutant: the client never resets s3.tmp.pms after releasing it.
ssl_generate_master_secret_NoPmsReset(st, p, free_pms, mallocOk, kdfOk) ==
  LET b    == IF mallocOk THEN Malloc(st) ELSE NULL
      body ==
        IF kex \in PSKFamily
        THEN IF b = NULL
             THEN SetRv(st, 0)
             ELSE LET s1 == Fill(st, b, "pskpms")
                      s2 == [ClearFree(s1, st.psk) EXCEPT !.psk = NULL]
                  IN  Kdf(ClearFree(s2, b), kdfOk)
        ELSE Kdf(st, kdfOk)
  IN  IF free_pms THEN ClearFree(body, p) ELSE Cleanse(body, p)

\* Mutant: the stored PSK is copied into pskpms but neither freed nor reset.
ssl_generate_master_secret_KeepsPsk(st, p, free_pms, mallocOk, kdfOk) ==
  LET b    == IF mallocOk THEN Malloc(st) ELSE NULL
      body ==
        IF kex \in PSKFamily
        THEN IF b = NULL
             THEN SetRv(st, 0)
             ELSE Kdf(ClearFree(Fill(st, b, "pskpms"), b), kdfOk)
        ELSE Kdf(st, kdfOk)
      done == IF free_pms THEN ClearFree(body, p) ELSE Cleanse(body, p)
  IN  IF role = "client" THEN [done EXCEPT !.pms = NULL] ELSE done

(***************************************************************************)
(* ssl_generate_master_secret(s, p, pmslen, free_pms).  For a PSK suite a  *)
(* buffer pskpms = len || other_secret || len || psk is built, the stored  *)
(* psk is clear-freed, the KDF runs and pskpms is clear-freed.  A failed   *)
(* pskpms malloc returns 0 without SSLfatal.  On every exit p is           *)
(* clear-freed or cleansed, and on a client s3.tmp.pms is reset.           *)
(***************************************************************************)
ssl_generate_master_secret(st, p, free_pms, mallocOk, kdfOk) ==
  LET b    == IF mallocOk THEN Malloc(st) ELSE NULL
      body ==
        IF kex \in PSKFamily
        THEN IF b = NULL
             THEN SetRv(st, 0)
             ELSE LET s1 == Fill(st, b, "pskpms")
                      s2 == [ClearFree(s1, st.psk) EXCEPT !.psk = NULL]
                  IN  Kdf(ClearFree(s2, b), kdfOk)
        ELSE Kdf(st, kdfOk)
      done == IF free_pms THEN ClearFree(body, p) ELSE Cleanse(body, p)
  IN  IF role = "client" THEN [done EXCEPT !.pms = NULL] ELSE done

\* ssl_gensecret: TLS 1.3 derives the handshake secret; earlier versions the
\* master secret, with free_pms = 0 (the caller still owns p).
ssl_gensecret(st, p, mallocOk, kdfOk) ==
  IF version = "TLS1_3"
  THEN Kdf(st, kdfOk)
  ELSE ssl_generate_master_secret(st, p, FALSE, mallocOk, kdfOk)

\* Mutant: the failure path after the key agreement frees without cleansing.
KexSecret_FreeOnFailure(st, haveKeys, gensecret, o, mallocOk, kdfOk) ==
  LET s0 == CtxNew(st)
      b  == IF o = "mallocfail" THEN NULL ELSE Malloc(s0)
      body ==
        IF o = "ctxfail" \/ b = NULL THEN Fail(s0)
        ELSE LET s1 == Fill(s0, b, "pms")
             IN  IF o = "derivefail" THEN Fail(Free(s1, b))
                 ELSE IF gensecret
                      THEN ClearFree(ssl_gensecret(s1, b, mallocOk, kdfOk), b)
                      ELSE SetRv([s1 EXCEPT !.pms = b], 1)
  IN  IF ~haveKeys THEN Fail(st) ELSE CtxFree(body)

(***************************************************************************)
(* The common shape of ssl_derive, ssl_decapsulate and ssl_encapsulate:   *)
(* a missing key is fatal; otherwise a key context is made, the premaster  *)
(* malloc'd and computed, then either ssl_gensecret runs on it or it is    *)
(* stored in s3.tmp.pms; on exit the local copy (NULL once stored) is      *)
(* clear-freed and the context freed.  Every failure here is fatal.        *)
(***************************************************************************)
KexSecret(st, haveKeys, gensecret, o, mallocOk, kdfOk) ==
  LET s0 == CtxNew(st)
      b  == IF o = "mallocfail" THEN NULL ELSE Malloc(s0)
      body ==
        IF o = "ctxfail" \/ b = NULL THEN Fail(s0)
        ELSE LET s1 == Fill(s0, b, "pms")
             IN  IF o = "derivefail" THEN Fail(ClearFree(s1, b))
                 ELSE IF gensecret
                      THEN ClearFree(ssl_gensecret(s1, b, mallocOk, kdfOk), b)
                      ELSE SetRv([s1 EXCEPT !.pms = b], 1)
  IN  IF ~haveKeys THEN Fail(st) ELSE CtxFree(body)

ssl_derive(st, privkey, pubkey, gensecret, o, mallocOk, kdfOk) ==
  KexSecret(st, privkey # NULL /\ pubkey # NULL, gensecret, o, mallocOk, kdfOk)

ssl_decapsulate(st, privkey, gensecret, o, mallocOk, kdfOk) ==
  KexSecret(st, privkey # NULL, gensecret, o, mallocOk, kdfOk)

\* ssl_encapsulate also mallocs the ciphertext, which is not secret and is
\* either handed to the caller or freed; it fails like the premaster malloc.
ssl_encapsulate(st, pubkey, gensecret, o, mallocOk, kdfOk) ==
  KexSecret(st, pubkey # NULL, gensecret, o, mallocOk, kdfOk)

(***************************************************************************)
(* ssl3_clear and ssl3_free: release the transient state, then memset the  *)
(* whole s3 block to zero (which forgets every pointer in it, and so the   *)
(* new_sym_enc / new_hash references and the PSK that clear never frees).  *)
(***************************************************************************)
Zeroed(st) ==
  [st EXCEPT !.pms = NULL, !.psk = NULL, !.tmp_pkey = NULL,
             !.peer_tmp = NULL, !.sym = FALSE]

ssl3_clear_st(st) ==
  Zeroed(PkeyFree(PkeyFree(ClearFree(st, st.pms), st.tmp_pkey), st.peer_tmp))

ssl3_free_st(st) ==
  LET s1 == PkeyFree(PkeyFree(st, st.peer_tmp), st.tmp_pkey)
      s2 == IF st.sym THEN [s1 EXCEPT !.fetched = @ - 1] ELSE s1
  IN  Zeroed(Free(ClearFree(s2, st.pms), st.psk))

-----------------------------------------------------------------------------
(***************************************************************************)
(* Steps.  Each one is a call the handshake state machine makes, with all *)
(* the work of the called functions in this file, and its result.          *)
(***************************************************************************)
Init ==
  /\ role \in Roles
  /\ version \in Versions
  /\ kex \in KexOf(version)
  /\ phase = "start"
  /\ mem = [b \in Buffers |-> "unallocated"]
  /\ pms = NULL
  /\ psk = NULL
  /\ exposed = {}
  /\ keys = [k \in Keys |-> 0]
  /\ app_refs = [k \in Keys |-> 0]
  /\ tmp_pkey = NULL
  /\ peer_tmp = NULL
  /\ ctxs = 0
  /\ fatal = FALSE
  /\ sym = FALSE
  /\ fetched = 0

\* Outcome of a step: the next phase from the function's return value.
After(st, okPhase) ==
  /\ Apply(st)
  /\ phase' = IF st.rv = 1 THEN okPhase ELSE "failed"
  /\ UNCHANGED <<role, version, kex, app_refs>>

\* A step of the caller that SSLfatals when a received public key does not
\* decode into the key it is given (tls13_set_encoded_pub_key and the like).
PubKey(st, ok) == IF st.rv = 1 /\ ~ok THEN Fail(st) ELSE st

\* TLS <= 1.2, (EC)DHE: the server generates its key for ServerKeyExchange,
\* from the group (ssl_generate_pkey_group) or from the DH parameters
\* (ssl_generate_pkey, the caller SSLfatals on NULL) (spec_modelled).
ServerKeyShare ==
  /\ role = "server" /\ version = "TLS1_2" /\ kex \in DheKex /\ phase = "start"
  /\ \E o \in GroupOutcomes, po \in PkeyOutcomes :
       LET g == IF kex = "kECDHE" THEN ssl_generate_pkey_group(Cur, o)
                ELSE CallerFatal(ssl_generate_pkey(Cur, ServerDhParams, po))
       IN  After(StoreKey(g, "tmp_pkey"), "share")

\* TLS <= 1.2, (EC)DHE: the client processes ServerKeyExchange: it frees any
\* old s3.peer_tmp, then builds the server key from the group
\* (ssl_generate_param_group, the caller SSLfatals on NULL) or from the
\* received DH parameters, and decodes the server's public key into it.
ClientKeyShare ==
  /\ role = "client" /\ version = "TLS1_2" /\ kex \in DheKex /\ phase = "start"
  /\ \E o \in GroupOutcomes, pubOk \in BOOLEAN :
       LET s0 == [PkeyFree(Cur, peer_tmp) EXCEPT !.peer_tmp = NULL]
           g  == IF kex = "kECDHE" THEN ssl_generate_param_group(s0, o)
                 ELSE AllocKey(s0)
       IN  After(PubKey(StoreKey(CallerFatal(g), "peer_tmp"), pubOk), "share")

\* The PSK preamble of the client/server key exchange stores the PSK; for
\* DHE-PSK it follows the ServerKeyExchange (spec_modelled: outside src/).
StorePsk ==
  /\ kex \in PSKFamily
  /\ phase = IF kex = "kDHEPSK" THEN "share" ELSE "start"
  /\ version = "TLS1_2"
  /\ \E ok \in BOOLEAN :
       LET b == IF ok THEN Malloc(Cur) ELSE NULL
       IN  IF b = NULL THEN After(Fail(Cur), "psk")
           ELSE After([Fill(Cur, b, "psk") EXCEPT !.psk = b], "psk")

\* Phase from which the (EC)DHE premaster is computed.
DeriveReady == phase = IF kex \in PSKFamily THEN "psk" ELSE "share"

\* Client, TLS <= 1.2: the RSA key exchange stores an encrypted premaster
\* (spec_modelled: tls_construct_cke_rsa).
ClientStoreRsaPms ==
  /\ role = "client" /\ version = "TLS1_2" /\ kex = "kRSA" /\ phase = "start"
  /\ \E ok \in BOOLEAN :
       LET b == IF ok THEN Malloc(Cur) ELSE NULL
       IN  IF b = NULL THEN After(Fail(Cur), "kex")
           ELSE After([Fill(Cur, b, "pms") EXCEPT !.pms = b], "kex")

\* Client, TLS <= 1.2, (EC)DHE: ckey = ssl_generate_pkey(s, peer_tmp) (the
\* caller SSLfatals on NULL), ssl_derive(s, ckey, peer_tmp, 0) stores the
\* pms, and ckey is freed on every path.
ClientDerive ==
  /\ role = "client" /\ version = "TLS1_2" /\ kex \in DheKex /\ DeriveReady
  /\ \E po \in PkeyOutcomes, o \in KexOutcomes :
       LET g  == CallerFatal(ssl_generate_pkey(Cur, peer_tmp, po))
           ck == g.key
           d  == IF ck = NULL THEN SetRv(g, 0)
                 ELSE ssl_derive(g, ck, g.peer_tmp, FALSE, o, TRUE, TRUE)
       IN  After(PkeyFree(d, ck), "kex")

\* Client post-work: ssl_generate_master_secret(s, s3.tmp.pms, pmslen, 1);
\* on 0 the caller assumes SSLfatal was already called.
ClientPostWork ==
  /\ role = "client" /\ version = "TLS1_2"
  /\ \/ phase = "kex"
     \/ kex = "kPSK" /\ phase = "psk"
  /\ \E mallocOk, kdfOk \in BOOLEAN :
       After(ssl_generate_master_secret(Cur, pms, TRUE, mallocOk, kdfOk), "done")

\* Server, RSA: the decrypted premaster is a local buffer (the caller
\* SSLfatals if its malloc fails) passed with free_pms = 0, which the
\* caller clear-frees afterwards.
ServerRsa ==
  /\ role = "server" /\ version = "TLS1_2" /\ kex = "kRSA" /\ phase = "start"
  /\ \E ok, mallocOk, kdfOk \in BOOLEAN :
       LET b == IF ok THEN Malloc(Cur) ELSE NULL
       IN  IF b = NULL THEN After(Fail(Cur), "done")
           ELSE LET st == ssl_generate_master_secret(Fill(Cur, b, "pms"), b,
                                                     FALSE, mallocOk, kdfOk)
                IN  After(ClearFree(st, b), "done")

\* Server, (EC)DHE or DHE-PSK: a new ckey receives the client's public key,
\* ssl_derive(s, tmp_pkey, ckey, 1), and on success s3.tmp.pkey is freed
\* and reset; ckey is freed on every path.
ServerDerive ==
  /\ role = "server" /\ version = "TLS1_2" /\ kex \in DheKex /\ DeriveReady
  /\ \E pubOk \in BOOLEAN, o \in KexOutcomes, mallocOk, kdfOk \in BOOLEAN :
       LET a  == AllocKey(Cur)
           ck == a.key
           d  == IF ck = NULL \/ ~pubOk THEN Fail(a)
                 ELSE LET r == ssl_derive(a, a.tmp_pkey, ck, TRUE, o, mallocOk, kdfOk)
                      IN  IF r.rv = 1
                          THEN [PkeyFree(r, r.tmp_pkey) EXCEPT !.tmp_pkey = NULL]
                          ELSE r
       IN  After(PkeyFree(d, ck), "done")

\* Server, plain PSK: ssl_generate_master_secret(s, NULL, 0, 0).
ServerPsk ==
  /\ role = "server" /\ version = "TLS1_2" /\ kex = "kPSK" /\ phase = "psk"
  /\ \E mallocOk, kdfOk \in BOOLEAN :
       After(ssl_generate_master_secret(Cur, NULL, FALSE, mallocOk, kdfOk), "done")

\* TLS 1.3 client: the key share of ClientHello is
\* ssl_generate_pkey_group(s, group), kept in s3.tmp.pkey.
Tls13ClientShare ==
  /\ role = "client" /\ version = "TLS1_3" /\ phase = "start"
  /\ \E o \in GroupOutcomes :
       After(StoreKey(ssl_generate_pkey_group(Cur, o), "tmp_pkey"), "share")

\* TLS 1.3 server: the client's share is ssl_generate_param_group(s, group)
\* (the caller SSLfatals on NULL) into s3.peer_tmp, with the public key.
Tls13ServerShare ==
  /\ role = "server" /\ version = "TLS1_3" /\ phase = "start"
  /\ \E o \in GroupOutcomes, pubOk \in BOOLEAN :
       LET g == CallerFatal(ssl_generate_param_group(Cur, o))
       IN  After(PubKey(StoreKey(g, "peer_tmp"), pubOk), "share")

\* TLS 1.3 client, ServerHello: (EC)DHE makes skey = EVP_PKEY_new() for the
\* server's share, ssl_derive(s, tmp_pkey, skey, 1) and keeps skey in
\* s3.peer_tmp, freeing it on failure; a KEM group runs
\* ssl_decapsulate(s, tmp_pkey, ct, ctlen, 1).
Tls13ClientDerive ==
  /\ role = "client" /\ version = "TLS1_3" /\ phase = "share"
  /\ \E o \in KexOutcomes, pubOk, kdfOk \in BOOLEAN :
       IF kex = "kECDHE"
       THEN LET a  == AllocKey(Cur)
                sk == a.key
                d  == IF sk = NULL \/ ~pubOk THEN Fail(a)
                      ELSE ssl_derive(a, a.tmp_pkey, sk, TRUE, o, TRUE, kdfOk)
            IN  After(IF d.rv = 1 THEN [d EXCEPT !.peer_tmp = sk]
                      ELSE PkeyFree(d, sk), "done")
       ELSE After(ssl_decapsulate(Cur, tmp_pkey, TRUE, o, TRUE, kdfOk), "done")

\* TLS 1.3 server, building ServerHello: (EC)DHE makes
\* skey = ssl_generate_pkey(s, peer_tmp) (the caller SSLfatals on NULL),
\* keeps it in s3.tmp.pkey and runs ssl_derive(s, skey, peer_tmp, 1); a KEM
\* group runs ssl_encapsulate(s, peer_tmp, &ct, &ctlen, 1).
Tls13ServerDerive ==
  /\ role = "server" /\ version = "TLS1_3" /\ phase = "share"
  /\ \E po \in PkeyOutcomes, o \in KexOutcomes, kdfOk \in BOOLEAN :
       IF kex = "kECDHE"
       THEN LET g == CallerFatal(ssl_generate_pkey(Cur, peer_tmp, po))
            IN  After(IF g.key = NULL THEN SetRv(g, 0)
                      ELSE ssl_derive([g EXCEPT !.tmp_pkey = g.key], g.key,
                                      g.peer_tmp, TRUE, o, TRUE, kdfOk),
                      "done")
       ELSE After(ssl_encapsulate(Cur, peer_tmp, TRUE, o, TRUE, kdfOk), "done")

\* The handshake fails elsewhere (an alert, a bad message) before finishing.
\* Between the PSK preamble and the end of the key exchange the error runs
\* the err label of the client-key-exchange code of either role, which
\* clear-frees s3.tmp.psk.
PskErrLabel(st) == [ClearFree(st, st.psk) EXCEPT !.psk = NULL]

HandshakeAborts ==
  /\ phase \in {"start", "share", "psk", "kex"}
  /\ After(Fail(IF phase = "psk" THEN PskErrLabel(Cur) ELSE Cur), "failed")

\* tls1_setup_key_block after the handshake: ssl_cipher_get_evp fetches the
\* cipher and digest, the previous ones are released and the new ones kept
\* in s3.tmp.new_sym_enc / new_hash (spec_modelled; a renegotiation reuses
\* what is set, so only an unset pair changes the state).
SetupKeyBlock ==
  /\ phase = "done" /\ ~sym /\ fetched < MaxFetched
  /\ sym' = TRUE
  /\ fetched' = fetched + 1
  /\ UNCHANGED <<role, version, kex, phase, mem, pms, psk, exposed, keys, app_refs,
                 tmp_pkey, peer_tmp, ctxs, fatal>>

\* A TLS <= 1.2 renegotiation starts a new key exchange on the same s3 block.
Renegotiate ==
  /\ phase = "done" /\ version = "TLS1_2"
  /\ phase' = "start"
  /\ kex' \in KexOf(version)
  /\ UNCHANGED <<role, version, mem, pms, psk, exposed, keys, app_refs, tmp_pkey,
                 peer_tmp, ctxs, fatal, sym, fetched>>

\* Mutant: the reset keeps the negotiated cipher (s3.tmp.new_cipher).
ssl3_clear_KeepsCipher ==
  /\ phase # "freed"
  /\ Apply([ssl3_clear_st(Cur) EXCEPT !.fatal = FALSE])
  /\ phase' = "start"
  /\ version' \in Versions
  /\ UNCHANGED <<role, kex, app_refs>>

\* ssl3_clear (SSL_clear): reset for a new handshake on the same object;
\* SSL_clear also leaves the error state of the handshake.
ssl3_clear ==
  /\ phase # "freed"
  /\ Apply([ssl3_clear_st(Cur) EXCEPT !.fatal = FALSE])
  /\ phase' = "start"
  /\ version' \in Versions
  /\ kex' \in KexOf(version')
  /\ UNCHANGED <<role, app_refs>>

\* ssl3_free (SSL_free).
ssl3_free ==
  /\ phase # "freed"
  /\ Apply(ssl3_free_st(Cur))
  /\ phase' = "freed"
  /\ UNCHANGED <<role, version, kex, app_refs>>

\* ssl3_new: a new connection object, with a zeroed s3 block.
ssl3_new ==
  /\ phase = "freed"
  /\ phase' = "start"
  /\ role' \in Roles
  /\ version' \in Versions
  /\ kex' \in KexOf(version')
  /\ fatal' = FALSE
  /\ UNCHANGED <<mem, pms, psk, exposed, keys, app_refs, tmp_pkey, peer_tmp, ctxs,
                 sym, fetched>>

(***************************************************************************)
(* SSL_CTRL_GET_PEER_TMP_KEY and SSL_CTRL_GET_TMP_KEY (ssl3_ctrl): with a  *)
(* session and the key set, EVP_PKEY_up_ref it and hand it to the caller;  *)
(* else return 0 and change nothing.  A key is set only while a handshake  *)
(* has its session, so the session test adds no case.  The application    *)
(* drops its reference later with EVP_PKEY_free.                           *)
(***************************************************************************)
GetKeyRef(k) ==
  /\ keys' = [keys EXCEPT ![k] = @ + 1]
  /\ app_refs' = [app_refs EXCEPT ![k] = @ + 1]

CtrlGetKey(k) ==
  /\ phase # "freed"
  /\ k # NULL
  /\ app_refs[k] < MaxAppRefs
  /\ GetKeyRef(k)
  /\ UNCHANGED <<role, version, kex, phase, mem, pms, psk, exposed, tmp_pkey,
                 peer_tmp, ctxs, fatal, sym, fetched>>

CtrlGetPeerTmpKey == CtrlGetKey(peer_tmp)

CtrlGetTmpKey == CtrlGetKey(tmp_pkey)

\* The application's EVP_PKEY_free of a key it got, at any time.
AppKeyFree ==
  \E k \in Keys :
    /\ app_refs[k] > 0
    /\ keys' = [keys EXCEPT ![k] = @ - 1]
    /\ app_refs' = [app_refs EXCEPT ![k] = @ - 1]
    /\ UNCHANGED <<role, version, kex, phase, mem, pms, psk, exposed, tmp_pkey,
                   peer_tmp, ctxs, fatal, sym, fetched>>

Next ==
  \/ ServerKeyShare
  \/ ClientKeyShare
  \/ StorePsk
  \/ ClientStoreRsaPms
  \/ ClientDerive
  \/ ClientPostWork
  \/ ServerRsa
  \/ ServerDerive
  \/ ServerPsk
  \/ Tls13ClientShare
  \/ Tls13ServerShare
  \/ Tls13ClientDerive
  \/ Tls13ServerDerive
  \/ HandshakeAborts
  \/ SetupKeyBlock
  \/ Renegotiate
  \/ ssl3_clear
  \/ ssl3_free
  \/ ssl3_new
  \/ CtrlGetPeerTmpKey
  \/ CtrlGetTmpKey
  \/ AppKeyFree

Spec == Init /\ [][Next]_vars

-----------------------------------------------------------------------------
(***************************************************************************)
(* Properties.                                                             *)
(***************************************************************************)

(* A premaster secret, and the PSK premaster built from it, is never       *)
(* released without being cleansed, on any success or failure path of     *)
(* ssl_derive / ssl_decapsulate / ssl_encapsulate /                        *)
(* ssl_generate_master_secret or of ssl3_clear / ssl3_free (spec 7, 10).   *)
PremasterNeverExposed == exposed \cap {"pms", "pskpms"} = {}

(* No pointer of the s3 block refers to released memory: the client reset *)
(* of s3.tmp.pms in ssl_generate_master_secret must cover every path that  *)
(* released its buffer, and s3.tmp.pkey / s3.peer_tmp must be reset       *)
(* wherever the key they hold is freed (ServerKeyExchange processing,      *)
(* ssl_derive callers, ssl3_clear).                                        *)
NoDanglingSecretPointer ==
  /\ pms # NULL => mem[pms] # "unallocated"
  /\ psk # NULL => mem[psk] # "unallocated"
  /\ tmp_pkey # NULL => keys[tmp_pkey] > 0
  /\ peer_tmp # NULL => keys[peer_tmp] > 0

(* Once a key exchange has produced the master (or handshake) secret, the  *)
(* s3 block holds no premaster and no PSK (the PSK was consumed, spec 9),  *)
(* and no premaster copy, cleansed or not, is left allocated on the heap.  *)
NoKeyMaterialAfterKeyExchange ==
  phase = "done" => /\ pms = NULL /\ psk = NULL
                    /\ \A b \in Buffers : mem[b] \notin {"pms", "pskpms", "zero"}

(* The references the application and the s3 block hold on a key object.  *)
Holders(k) ==
  (IF tmp_pkey = k THEN 1 ELSE 0) + (IF peer_tmp = k THEN 1 ELSE 0) + app_refs[k]

(* Between calls no EVP_PKEY_CTX is alive, and every key object's          *)
(* reference count is exactly the number of its holders (s3.tmp.pkey,      *)
(* s3.peer_tmp, the application): every error path of the key generators  *)
(* and of ssl_derive / ssl_decapsulate / ssl_encapsulate frees its context *)
(* and its temporary keys, and no key object outlives the pointers that    *)
(* owned it across renegotiation, SSL_clear and SSL_free.                  *)
NoKeyObjectLeaked ==
  /\ ctxs = 0
  /\ \A k \in Keys : keys[k] = Holders(k)

(* Whatever ends a connection (SSL_clear or SSL_free) releases and erases  *)
(* everything its transient state owns (spec 4.7): no secret buffer is     *)
(* unreachable from the s3 block, none was released uncleansed, no key     *)
(* object is orphaned, and the only cipher/digest references alive are     *)
(* those s3.tmp.new_sym_enc / new_hash hold.                               *)
NothingLeftBehind ==
  /\ exposed = {}
  /\ \A b \in Buffers : mem[b] \in Secrets => b \in {pms, psk}
  /\ \A k \in Keys : keys[k] > 0 => k \in {tmp_pkey, peer_tmp} \/ app_refs[k] > 0
  /\ fetched = IF sym THEN 1 ELSE 0

(* A key exchange that failed has called SSLfatal: every path on which     *)
(* these functions return 0 either calls SSLfatal itself or returns to a   *)
(* caller that does (the callers' "SSLfatal() already called" contract).   *)
FailureIsFatal == phase = "failed" => fatal

=============================================================================
