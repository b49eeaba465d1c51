# TLA+ models of `src/ssl/s3_lib.c`

This directory holds TLA+ models of the SSLv3/TLS method layer of OpenSSL 3.0,
extended with the BIGN/BELT national cipher suites (the bee2evp fork). That layer
is the one file `src/ssl/s3_lib.c`. It sits between the handshake state machine
(`statem/`), the record layer (`record/`) and the public `SSL_*` API, none of which
are in this repository.

## The system and its parts

| Part (spec section) | Code in `s3_lib.c` | Talks to |
|---|---|---|
| Cipher suite catalog (4.1) | `tls13_ciphers`, `ssl3_ciphers`, `ssl3_scsvs` (35–3796) | lookup, negotiation |
| Catalog maintenance and lookup (4.2) | `ssl_sort_cipher_list`, `ssl3_get_cipher_by_id/_by_std_name/_by_char`, `ssl3_put_cipher_by_char` (3798–3867, 4656–4716) | ClientHello/ServerHello parsing |
| Cipher negotiation (4.3) | `ssl3_choose_cipher` (4725–4946) | server handshake |
| Connection control (4.4) | `ssl3_ctrl`, `ssl3_callback_ctrl`, `ssl3_get/set_req_cert_type` (3979–4345, 4948–5012) | `SSL_ctrl` |
| Context control (4.5) | `ssl3_ctx_ctrl`, `ssl3_ctx_callback_ctrl` (4347–4654) | `SSL_CTX_ctrl` |
| Method descriptor (4.6) | `SSLv3_enc_data`, `ssl3_set_handshake_header`, `ssl3_default_timeout` (3817–3885) | record layer |
| Lifecycle (4.7) | `ssl3_new`, `ssl3_free`, `ssl3_clear` (3887–3968) | `SSL_new/SSL_free/SSL_clear` |
| Shutdown (4.8) | `ssl3_shutdown` (5014–5071) | record layer alerts |
| Application I/O (4.9) | `ssl3_write`, `ssl3_read_internal`, `ssl3_read`, `ssl3_peek` (5073–5124) | record layer, renegotiation |
| Renegotiation (4.10) | `ssl3_renegotiate`, `ssl3_renegotiate_check` (5126–5164) | handshake state machine |
| Secret derivation (4.11) | `ssl_get_algorithm2`, `ssl_fill_hello_random`, `ssl_generate_master_secret`, `ssl_gensecret`, `ssl_derive`, `ssl_decapsulate`, `ssl_encapsulate`, key generation (5172–5623) | handshake key exchange |
| Group names (4.12) | `SSL_group_to_name` (5625–5641) | provider group table |

The modules and the parts they model:

* **`S3Shutdown`** (with the abstract **`ShutdownAbs`**) models `ssl3_shutdown`.
  It models the parts of the record layer that it drives from the spec: alert
  queueing (`ssl3_send_alert`), dispatch, and the zero-length read that processes
  the peer's close_notify.
  * The variables are the `s->shutdown` bits, `s3.alert_dispatch`, the queued
    alert `s3.send_alert[1]`, and buffered application bytes.
  * Each `if` branch of `ssl3_shutdown` is one disjunct: `QuietClose`,
    `SendCloseNotify`, `ResendAlert`, `AwaitPeerClose` and `AlreadyClosed`.
    They are tested in the code's order.
  * Every alert write takes a result from `DispatchResults`: `ok`, `retry` (-1)
    or `error` (0).
  * The environment drives the rest. It can start the handshake, buffer or flush
    application data, switch quiet shutdown on or off, send another warning
    alert, and deliver the peer's close_notify. The application's `SSL_read` may
    process that close_notify first.
* **`S3Secrets`** models what one connection's key exchange owns: the
  premaster `s3.tmp.pms`, the PSK `s3.tmp.psk`, the ephemeral keys
  `s3.tmp.pkey` and `s3.peer_tmp`, the key contexts of a call, and the fetched
  cipher and digest `s3.tmp.new_sym_enc`/`new_hash`. It covers
  `ssl_generate_pkey`, `ssl_generate_pkey_group`, `ssl_generate_param_group`,
  `ssl_derive`, `ssl_decapsulate`, `ssl_encapsulate`, `ssl_gensecret`,
  `ssl_generate_master_secret`, `ssl3_clear`, `ssl3_free` and `ssl3_new`.
  * The buffer heap is a small set of buffers. Each holds nothing, zeros, or a
    kind of secret: `pms`, `psk`, or the PSK premaster `pskpms`. `Free` models
    `OPENSSL_free` and `ClearFree` models `OPENSSL_clear_free`. When `Free`
    releases a buffer that holds a secret, that kind of secret is recorded in
    the history variable `exposed`.
  * The key heap is a set of `EVP_PKEY` objects (`keys`), each with its
    reference count. `app_refs` counts the references the application took
    with `SSL_get_tmp_key` and `SSL_get_peer_tmp_key` (`SSL_CTRL_GET_TMP_KEY`
    and `SSL_CTRL_GET_PEER_TMP_KEY` of `ssl3_ctrl`, which up-ref the key they
    return; `AppKeyFree` is the caller's `EVP_PKEY_free`). `ctxs` counts live
    `EVP_PKEY_CTX` objects. `fatal` records that `SSLfatal` was called.
    `fetched` counts live cipher/digest references and `sym` says whether the
    `s3` block holds them.
  * The C functions are operators on a record of all of this plus the return
    value and the returned key. A call and everything it calls is therefore one
    step.
  * Each library call that can fail is a nondeterministic outcome, in the
    classes the code distinguishes:
    * `GroupOutcomes`: unknown group, no context, init, group name, generation;
    * `PkeyOutcomes`: no context, init, generation;
    * `KexOutcomes`: context or size query, premaster malloc, derive;
    * the PSK premaster malloc, and the KDF.
    Which of these call `SSLfatal` follows the code line by line. For example,
    `ssl_generate_param_group` is fatal only when setting the group name fails.
  * The handshake steps that call these functions are modelled from the spec,
    because the state machine is outside `src/`:
    * TLS 1.2 key share: `ServerKeyShare` and `ClientKeyShare`;
    * the PSK preamble: `StorePsk`;
    * the TLS 1.2 derivations: `ClientStoreRsaPms`, `ClientDerive`,
      `ClientPostWork`, `ServerRsa`, `ServerDerive` and `ServerPsk`;
    * TLS 1.3 with ECDHE or a KEM group: `Tls13ClientShare`,
      `Tls13ServerShare`, `Tls13ClientDerive` and `Tls13ServerDerive`;
    * the setup of the key block: `SetupKeyBlock`;
    * aborts, renegotiation, `SSL_clear`, `SSL_free` and `SSL_new`.
    Each of these steps frees the temporary keys the way the callers do.
    An abort after the PSK preamble runs the err label of the
    client-key-exchange code, which clear-frees the stored PSK.
* **`S3ChooseCipher`** models `ssl3_choose_cipher`.
  * The function is pure apart from the configuration it reads, so a state is
    one call: the two offer lists, the mode, the version, the certificate setup,
    the security level and the result.
  * The code's loop is the recursive operator `Loop`. Spec 4.3 is restated as
    the declarative `RefChoice`, built from sequence filters.
  * `ssl_set_masks`, `tls1_check_ec_tmp_key` and the security callback are
    outside `src/`, so they are inputs.
* **`S3Reneg`** models renegotiation and the application I/O paths that
  service it:
  * `ssl3_renegotiate` and `ssl3_renegotiate_check`;
  * `ssl3_write` and `ssl3_read_internal`, including the re-entrant retry with
    `in_read_app_data = 2`;
  * the counters of `SSL_CTRL_CLEAR_NUM_RENEGOTIATIONS`;
  * `ssl3_clear`.

  The record layer is an environment. It provides the pending-read and
  pending-write flags and the outcome of each `ssl_read_bytes` call.
* **`S3Conn`** composes `S3Shutdown` and `S3Reneg` into one connection. It
  instantiates both (`Sd`, `Rn`) over one set of variables, and each step of
  one component leaves the other's variables alone.
  * The two share the record layer's write buffer (`write_pending`). `SSL_write`
    fills it, and the close_notify dispatch flushes it first.
  * The guards added are the checks that `ssl_lib.c` makes before it calls into
    `s3_lib.c`:
    * `SSL_shutdown` needs a handshake function and is refused while in init;
    * `SSL_write` is refused once `SSL_SENT_SHUTDOWN` is set;
    * `SSL_read` returns 0 once `SSL_RECEIVED_SHUTDOWN` is set.
  * An `SSL_read` that meets the peer's close_notify still runs the
    renegotiation check at the top of `ssl3_read_internal`.
  * `SSL_clear` zeroes the shutdown bits and puts the state machine back
    "before". It then runs `ssl3_clear`, whose memset drops the queued alert
    together with the renegotiation state. In `ShutdownAbs` this is the
    `Reset` step.
* **`S3Ctrl`** models the state-changing commands of the four control
  dispatchers.
  * The variables are the connection and context fields those commands write.
    A ghost variable `appended` records what `EXTRA_CHAIN_CERT` pushed.
  * Connection commands: hostname, the retired DH callback in both entry
    points, client certificate types, the negotiated group and the peer groups.
    The groups are returned as NIDs: a built-in group's NID, or the raw id
    tagged with `TLSEXT_nid_unknown`. `SSL_group_to_name` decodes them. The
    built-in NID table and the context's group list are outside `src/`, so they
    are constants (`BuiltinNids`, `CtxGroups`).
  * The stapled OCSP response (`SET_`/`GET_TLSEXT_STATUS_REQ_OCSP_RESP`,
    4116–4127). `resp_heap` is the allocator's view of the caller's response
    buffers: unused, live or freed. The caller hands over NULL or a buffer it
    has just allocated, because ownership passes to the connection. `larg` is
    a `long` and `resp_len` a `size_t`, both `SizeBits` wide (8 in the runs),
    so the store wraps a negative length and GET's cast to `long` is modelled
    by what it does. The ghost `resp_larg` keeps the `larg` of the last SET.
  * Context commands: the ticket key blob (get and set), the SRP username,
    password and argument and their callbacks, the extra chain certificate
    list, and the DH callback.
  * Every early return is a disjunct, and so is each resource failure
    (`strdup`, `memdup`, the push).
  * Names and lengths come from small sets:
    * the empty name, a 1-byte name and a 256-byte name, which is one over
      the 255 limit;
    * ticket key lengths of exactly the right size and one short;
    * an extra-certificate list with room for two entries.
  * `CmdGroups` splits the commands into groups. Each run enables only the
    groups its property reads, because the product of independent fields would
    otherwise be far beyond TLC.
* **`S3Catalog`**, with **`S3CipherEntriesA`** and **`S3CipherEntriesB`**,
  models the cipher suite tables and the functions that read them.
  * The two entry modules hold all 206 entries of `tls13_ciphers`,
    `ssl3_ciphers` and `ssl3_scsvs`, in source order. Each entry keeps the
    fields that the lookups and `ssl_get_algorithm2` read: valid, standard
    name, id, `algorithm_mkey`, the TLS and DTLS version ranges, and
    `algorithm2`. The entries are split across two modules only to keep each
    module's map small.
  * The variable `weak` is the `OPENSSL_NO_WEAK_SSL_CIPHERS` build choice. It
    decides whether the 24 weak entries are compiled in.
  * The operations are:
    * `cipher_compare` and `ssl_sort_cipher_list`, as `SortSeq`;
    * `ssl3_get_cipher_by_id`, which is three binary searches (`Bsearch`
      models `OBJ_bsearch_ssl_cipher_id`, which lives outside `src/`);
    * the nested scan of `ssl3_get_cipher_by_std_name`;
    * the two-byte wire encoding and decoding;
    * `ssl3_num_ciphers` and `ssl3_get_cipher`, which index from the end;
    * `ssl_get_algorithm2`, for every suite at every version it is enabled for;
    * `ssl_fill_hello_random`, for both sides, each mode bit, each downgrade
      marker, RAND success and failure, and the lengths 3, 4, 8, 9, 11, 12 and
      32. The buffer is a byte sequence: the four bytes `l2n` writes for a fixed
      time, the marker bytes, and the model value `RandByte` for random bytes;
    * `ssl3_get_req_cert_type`, at every version before TLS 1.3, including
      DTLS (the code compares version numbers), with one suite for each
      `algorithm_mkey` of the catalog usable there, each signature mask over
      RSA, DSS and ECDSA, with and without a custom list, and with a packet
      that has no room, room for one type, or enough. The packet functions
      (`WPACKET_*`) are outside `src/` and modelled by what they do.
  * A state records the last call and its result. Each call action is guarded
    by `Idle`, and a `Return` step clears the record. This keeps the calls from
    multiplying with one another in the state space.
  * The reference lookups are linear scans of the tables as the source lays
    them out.

## Runs

| Run | Config | Checks | Result |
|---|---|---|---|
| `conn` | `MC_S3Conn.cfg` | `TypeOK`, `ShutdownSuccessSound`, `CloseNotifyBeforeWaitingForPeer`, `NumNeverExceedsTotal`, `RefinesShutdownAbs`, `ShutdownCompletesUnlessClearedOrInInit` | pass |
| `reneg_after_close` | `MC_S3Conn_RenegAfterClose.cfg` | `NoRenegotiationAfterCloseNotify` | violation |
| `secrets` | `MC_S3Secrets.cfg` | `TypeOK`, `PremasterNeverExposed`, `NoDanglingSecretPointer`, `NoKeyMaterialAfterKeyExchange`, `NoKeyObjectLeaked` | pass |
| `left_behind` | `MC_S3Secrets_NothingLeftBehind.cfg` | `NothingLeftBehind` | violation |
| `missing_fatal` | `MC_S3Secrets_FailureIsFatal.cfg` | `FailureIsFatal` | violation |
| `choose_cipher` | `MC_S3ChooseCipher.cfg` | `ChoiceMatchesReference` | pass |
| `ctrl_tickets` | `MC_S3Ctrl_Tickets.cfg` | `TicketKeysRoundTrip`, `OcspRespOwned`, `OcspRespLengthRoundTrip` | pass |
| `ctrl_extra` | `MC_S3Ctrl_Extra.cfg` | `ExtraCertsAreAppends`, `GroupNamesRoundTrip` | pass |
| `catalog` | `MC_S3Catalog.cfg` | `CatalogSortedUnique`, `LookupByIdRoundTrip`, `StdNameRoundTrip`, `WireRoundTrip`, `IndexEnumeratesCatalog`, `PrfSuitsVersion`, `HelloRandomLayout`, `RequestedCertTypesRespectMask` | pass |
| `ctrl_dh_cb` | `MC_S3Ctrl_DhCallback.cfg` | `DhCallbackRejected` | violation |
| `ctrl_refused_set` | `MC_S3Ctrl_RefusedSet.cfg` | `RefusedSetChangesNothing` | violation |
| `ctrl_negotiated_group` | `MC_S3Ctrl_NegotiatedGroup.cfg` | `NegotiatedGroupNeedsSession` | violation |

What the passing runs show:

* **`secrets`.** Every path through the key generators and the key-exchange
  functions is checked, on success and on every failure, across
  renegotiation, `SSL_clear` and `SSL_free`. On all of them:
  * the premaster is cleansed before it is released;
  * no `pms`, `psk`, `tmp.pkey` or `peer_tmp` pointer is left dangling;
  * no key context outlives its call;
  * every key object's reference count equals the number of holders:
    `tmp.pkey`, `peer_tmp` and the application's references from
    `SSL_get_(peer_)tmp_key`. So a key the application holds stays alive
    after `SSL_clear`, `SSL_free` or a renegotiation drops the connection's
    reference.

* **`choose_cipher`.** The loop returns the suite that spec 4.3 prescribes for
  every pair of offer lists within the bounds, under every mode, version,
  certificate setup and security level. The Safari ECDSA fallback and the
  ChaCha20 reordering are included.
* **`conn`.** `ssl3_shutdown` is checked against retried and failing alert
  writes, a peer that closes at any time, and `SSL_write`, `SSL_read`,
  renegotiation and `SSL_clear` interleaved with it. On all of these:
  * a 1 from `ssl3_shutdown` outside quiet mode means our close_notify was
    written and the peer's arrived;
  * it asks to wait for the peer only after our alert is on the wire;
  * every step refines the abstract close-notify machine `ShutdownAbs`;
  * `ShutdownCompletesUnlessClearedOrInInit`: once `SSL_SENT_SHUTDOWN` is
    set, a caller who keeps calling `SSL_shutdown` eventually gets 1, unless
    `SSL_clear` starts the object afresh or a handshake is in progress.
    `SSL_shutdown` sets SENT only outside init, so a handshake in progress
    here is a renegotiation started after our close_notify. The peer has
    closed and will not finish it, so `SSL_shutdown` is refused for good.
    `reneg_after_close` reports that case, and this property names it as the
    only way out. Each time a renegotiation finishes, the shutdown must
    complete again.

  In the same run, the per-connection renegotiation count never exceeds the
  lifetime count, across `SSL_CTRL_CLEAR_NUM_RENEGOTIATIONS` and `SSL_clear`.
* **`ctrl_tickets`.** A ticket key blob that was accepted is returned unchanged.
  The split into name, HMAC key and AES key, and the reassembly, use matching
  offsets. The same run checks the stapled OCSP response:
  * `OcspRespOwned`: after any sequence of SETs, the only caller buffer still
    allocated is the one the connection holds, and that one is not freed. A
    SET that freed after storing, or skipped the free, breaks it.
  * `OcspRespLengthRoundTrip`: GET returns the pointer of the last SET and its
    length, or -1 when that length was zero or negative. The inputs are
    `LONG_MIN`, 0 and `LONG_MAX`. `-1` alone would not do: `(long)(size_t)-1`
    is -1 again, so a GET without the `> LONG_MAX` test would still pass.
* **`ctrl_extra`.** `GET_EXTRA_CHAIN_CERTS` returns one of three things:
  * exactly the certificates that were pushed, in push order;
  * the primary chain;
  * NULL.

  In the same run, every NID that `GET_NEGOTIATED_GROUP` or `GET_GROUPS`
  returns is mapped back by `SSL_group_to_name` to the group it stands for.
  This holds for a built-in group and for a provider-only group, which carries
  the `TLSEXT_nid_unknown` tag. A group the context does not know maps to no
  name.
* **`catalog`.** After the sort:
  * ids strictly increase in every table;
  * the binary-search lookup finds exactly the entry that a linear scan finds,
    including the SCSVs, and gives NULL for absent ids;
  * the name scan skips the GOST entries that have no standard name;
  * every entry survives the round trip through its two wire bytes;
  * `ssl3_get_cipher` enumerates each table exactly once and returns NULL past
    the end;
  * `ssl_get_algorithm2` never gives a suite a PRF its version cannot use;
  * `HelloRandomLayout`: for every length above 8, `ssl_fill_hello_random`
    returns 1 (or RAND's failure) and leaves the buffer byte for byte as spec
    4.11 describes it, built position by position: the sentinel in the last 8
    bytes, else the big-endian time in the first 4 when that side's mode bit
    is set, else random. This includes lengths 9 to 11, where the marker
    overwrites part of the time;
  * `RequestedCertTypesRespectMask`: a request written in full is the custom
    list exactly, or else repeats no type and asks for no RSA, DSS or ECDSA
    type that the signature mask disables.

  All of these hold in both builds, with and without the weak ciphers.

The violation runs are real divergences from the spec:

* **`reneg_after_close`.** `ssl3_renegotiate` and `ssl3_renegotiate_check`
  (line 5149) never look at `s->shutdown`. Spec 4.10 gates a renegotiation on
  the same things: the request flag, pending record-layer data and
  `SSL_in_init`. `SSL_read` is still allowed after our close_notify, until the
  peer's has been processed. So a renegotiation requested before or after
  `SSL_shutdown` is started by the next `SSL_read`, and TLC finds this in seven
  steps. The state machine then enters a new handshake on a connection this
  side has closed. Orderly termination (spec 1 and 4.8) rules that out, and so
  does TLS, which allows no messages after close_notify. While that handshake
  runs, `SSL_shutdown` is refused as "shutdown while in init". This is a gap
  the spec shares with the code.

* **`ctrl_dh_cb`.** `ssl3_callback_ctrl` (line 4327) and
  `ssl3_ctx_callback_ctrl` (line 4601) store the retired
  `SSL_CTRL_SET_TMP_DH_CB` callback and return 1. Spec 4.4 says that form is
  refused.
* **`ctrl_refused_set`.** Several commands free or change state before they
  validate their input, so a call that returns 0 still has effects. Spec 7 says
  control errors have none. The commands are:
  * the hostname (line 4058);
  * the SRP username (line 4460), which also switches on `SSL_kSRP`;
  * the SRP password (lines 4477–4480);
  * the certificate types (line 5000);
  * the extra chain certificate (line 4541). A failed push there leaves an
    empty list, which changes what later `GET_EXTRA_CHAIN_CERTS` calls return.
* **`ctrl_negotiated_group`.** `SSL_CTRL_GET_NEGOTIATED_GROUP` (line 4221) reads
  `s->session->kex_group` without checking `s->session`. The model represents
  the resulting NULL dereference with `Crash`.

The `S3Secrets` violation runs:

* **`left_behind`** shows that clear and free do not release and erase
  everything the `s3` block owns, as spec 4.7 says they must. There are three
  divergences:
  * `ssl3_free` (line 3926) releases the stored PSK with `OPENSSL_free` and
    does not cleanse it.
  * `ssl3_clear` (3935–3968) does not release the PSK at all before it zeroes
    the `s3` block.
  * `ssl3_clear` zeroes `new_sym_enc` and `new_hash` without dropping their
    references, although `ssl3_free` drops them (3911–3912). Each `SSL_clear`
    after a completed handshake therefore leaks one cipher and one digest
    reference.

  TLC's shortest counterexample is two steps. The PSK preamble stores the PSK,
  and the connection is cleared before the key exchange consumes it.
* **`missing_fatal`** is a code bug. `ssl_generate_master_secret` returns 0
  when the `pskpms` malloc fails (line 5256) and does not call `SSLfatal`.
  Every caller returns with the comment "SSLfatal() already called". The
  counterexample is a PSK handshake whose master-secret step fails on that
  malloc. The handshake then fails with no fatal alert and no error state.

### Bounds

* **Connection (`S3Conn`).** The quiet flag takes both values and can change
  between calls. All three dispatch outcomes and all three `ssl_read_bytes`
  outcomes are enumerated. This reaches every branch combination of
  `ssl3_shutdown`: a failed write after SENT is set, a retried write, a peer
  that closes before or after our alert, and quiet mode switched on
  mid-shutdown. Each of these can meet pending application data, a pending or
  running renegotiation, and `SSL_clear`.
* **Secrets.** Three heap buffers are enough for the largest simultaneous
  allocation: a stored PSK, a premaster, and the `pskpms` buffer. Two key
  objects are enough for the most one exchange holds at once, its own key and
  the peer's; so a leaked key shows up as a failed generation later. Both roles
  and both protocol versions are enumerated, with every key exchange each
  version allows. `MaxFetched = 2` leaves room for one leaked cipher/digest
  reference next to a live one. `MaxAppRefs = 1` gives each key one
  application reference, enough for the connection to drop its own while the
  caller still holds one.

* **Choose cipher.** Six suites are used, each picked because one rule of the
  loop decides it. Client lists have up to 2 entries and server lists up to 3.
  There are three versions, including DTLS, four certificate setups, two
  security levels and three modes. Every rule (version range, masks, security,
  Safari, ChaCha20 priority) can then decide a result, and so can every
  combination of two rules.
* **Renegotiation.** With `MaxReneg = 2`, a renegotiation can happen, be
  counted, have its count reset, and happen again. This is the smallest bound
  that can tell the per-connection count from the lifetime count. It also lets
  one renegotiation run before `SSL_shutdown` and another after it.
* **Control.** The values are chosen at the boundaries the code tests:
  * name lengths 0, 1 and 256;
  * ticket key lengths exact and one short;
  * room for two extra certificates;
  * three peer groups: a built-in group the context knows, a built-in group
    it does not know, and a provider-only group with no built-in NID;
  * peer lists of length 0 and 1, from one handshake per connection (TLS 1.3
    does not renegotiate, and a TLS 1.2 renegotiation only replaces the
    session);
  * connections with and without a session, and with and without a
    completed key exchange.
* **OCSP response.** One caller buffer is used. A SET of it followed by a SET
  of NULL takes the path of every replacing SET: the free of what is held.
  A SET that frees after storing, or skips the free, is then caught. Two
  buffers made this run too slow to keep. The model's `size_t` is
  8 bits wide. The lengths are the boundaries of the GET test.
* **Catalog.** The tables hold every entry, in both builds. The absent ids
  sit next to real ones:
  * one past the TLS 1.3 block;
  * one past the BIGN block;
  * a gap in the GOST ids;
  * an id under a different flag byte.

### Fairness

`ShutdownCompletesUnlessClearedOrInInit` is checked under two fairness
assumptions:
* The application keeps calling `SSL_shutdown` while it does not return 1.
  Strong fairness on a successful dispatch means a transport that is retried
  forever eventually accepts the alert.
* The peer eventually sends its close_notify (weak fairness).

Nothing is assumed of the peer's side of a handshake. The peer sends nothing
after its close_notify, so it never finishes a handshake after that
(`HandshakeDone` requires that it has not closed). A renegotiation that starts
after our close_notify can therefore block the shutdown for good. The property
names that case instead of assuming it away. `SSL_clear`, `SSL_read`,
`SSL_write` and `SSL_renegotiate` get no fairness: they are the caller's
choice.

The code guarantees none of these. They are the obligations that the caller and
the network must meet for shutdown to finish.

## Not modelled

* **Method descriptor.** It is constant data and byte formatting.
* **Plain stores in the control dispatchers.** These are the debug argument,
  the OCSP status type, extension and responder-id stacks, DH auto, and the
  stored callbacks and their arguments. Each is a single assignment with
  nothing to check. A first version of the OCSP group with all of them gave
  1.1 million states on its own, so only the response, which owns memory,
  is modelled.
* **Delegating control commands.** These are the `ssl_cert_*`, `tls1_set_*`,
  `tls1_shared_group` and `ssl_set_tmp_ecdh_groups` calls. Their behaviour lives
  outside `src/`.
* **`GET_CLIENT_CERT_TYPES`.** The code answers the command only on a
  client, while spec 4.4 says it is a server query. It copies out a stored
  list.
* **Lengths 4 to 8 of `ssl_fill_hello_random`.** The model computes them, but
  no property checks them. The code refuses them after writing, even with no
  marker to place, while spec 4.11 requires a length above 8 only for a
  marker. No caller passes such a length: all pass 32. This is listed as a
  hazard.
* **Which certificate types a BIGN exchange requests.** `ssl3_get_req_cert_type`
  (line 4970) sends only `TLS_CT_BIGN_SIGN` for `SSL_kBDHE` and
  `SSL_kBDHTPSK`. It does not do so for `SSL_kBDHT` or `SSL_kBDHEPSK`, which
  catalog suites also use; those fall through to RSA/DSS/ECDSA. The model
  reproduces this. The spec does not say what is expected, so it is listed as
  a hazard, not as a finding.
* **Handing back the stored OCSP response.** A caller that passes to SET the
  pointer the connection already holds makes `SET` free it and then store it.
  When the model's caller may do that, TLC finds `OcspRespOwned` violated in
  two steps. The API's ownership rule forbids it, so the checked caller hands
  over only fresh buffers.
* **The other buffers freed by clear and free.** These are the certificate
  types, CA names, raw ciphers, sigalgs, ALPN, the digest list and the key
  block. They are releases of non-secret data, and no property reads them.
* **A failed `ssl3_new` or `ssl3_clear`.** Their failures come from
  `ssl_srp_ctx_init_intern` and `ssl_free_wbio_buffer`, which are outside
  `src/`. Whether they can fail at all is decided there, not in this file.
  If `ssl_free_wbio_buffer` (line 3956) did fail, `ssl3_clear` would return 0
  after its memset, with `s->version` and the NPN buffer left from before.
* **The stale re-entry marker.** After the re-entrant retry,
  `ssl3_read_internal` leaves `s3.in_read_app_data` at 2 (line 5108). Only the
  record layer, outside `src/`, reads that marker, so no property of these
  modules can tell 2 from 0. The models keep the value the code leaves.
