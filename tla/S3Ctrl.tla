-------------------------------- MODULE S3Ctrl --------------------------------
(***************************************************************************)
(* The stateful commands of the control dispatchers (src/ssl/s3_lib.c):    *)
(* ssl3_ctrl and ssl3_callback_ctrl on a connection, ssl3_ctx_ctrl and     *)
(* ssl3_ctx_callback_ctrl on its context, and ssl3_set_req_cert_type,      *)
(* which both use for the client certificate types.                       *)
(*                                                                         *)
(* Each command is one action: its inputs (the integer and pointer         *)
(* arguments, and whether an allocation succeeds) are chosen with \E from *)
(* small sets, its guard and its effects follow the case of the switch,    *)
(* and it records the command (cmd) and the value returned (ret).          *)
(* Strings are abstracted to a name and a length class; the ticket key     *)
(* blob is a byte sequence with the three fields at scaled-down widths,    *)
(* so that the memcpy offsets are modelled by what they do.                *)
(***************************************************************************)
EXTENDS Integers, Sequences, SequencesExt, Bitwise

CONSTANTS
  NULL,          \* the null pointer
  Names,         \* the contents of caller strings (hostnames, SRP names)
  StrLens,       \* strlen classes of caller strings, e.g. {0, 1, 256}
  Bytes,         \* byte values in the ticket key blob
  TickNameLen,   \* sizeof(tick_key_name), scaled down
  TickHmacLen,   \* sizeof(tick_hmac_key), scaled down
  TickAesLen,    \* sizeof(tick_aes_key), scaled down
  Certs,         \* X509 certificates a caller may append
  MaxExtra,      \* bound on the length of ctx->extra_certs
  Groups,        \* group ids a peer may offer (s->ext.peer_supportedgroups)
  CtxGroups,     \* group ids the context knows (tls1_group_id_lookup # NULL)
  BuiltinNids,   \* the built-in group id -> NID table (nid_to_group)
  MaxPeerGroups, \* bound on the length of the peer's supported groups list
  Crash,         \* the outcome of a read through a NULL pointer
  KeyChain,      \* ctx->cert->key->chain, the primary certificate chain
  CmdGroups,     \* the groups of commands a caller issues in this model
  RespBufs,      \* OCSP response buffers a caller may allocate and hand over
  SizeBits       \* the width of size_t and long, scaled down

ASSUME StrLens \subseteq Nat /\ MaxExtra \in Nat
ASSUME Groups \subseteq 1..65535 /\ CtxGroups \subseteq Groups
ASSUME DOMAIN BuiltinNids \subseteq Groups /\ MaxPeerGroups \in Nat
ASSUME SizeBits \in 2..30

TLSEXT_MAXLEN_host_name == 255
SRP_MAXLEN_username == 255       \* the literal 255 of the username check
CTYPE_MAXLEN == 255              \* the literal 0xff of ssl3_set_req_cert_type

TickKeyLen == TickNameLen + TickHmacLen + TickAesLen
Blob(n) == [1..n -> Bytes]
StrInputs == {NULL} \cup [name : Names, len : StrLens]
Strdup(s, alloc) == IF alloc THEN s.name ELSE NULL

VARIABLES
  \* the connection (SSL)
  hostname,        \* s->ext.hostname
  conn_dh_cb,      \* s->cert->dh_tmp_cb is set
  conn_ctype,      \* s->cert->ctype: NULL or its length
  is_server,       \* s->server
  session,         \* s->session: NULL or its kex_group
  did_kex,         \* SSL_IS_TLS13(s) && s->s3.did_kex
  group_id,        \* s->s3.group_id
  peer_groups,     \* s->ext.peer_supportedgroups
  \* the context (SSL_CTX)
  ctx_dh_cb,       \* ctx->cert->dh_tmp_cb is set
  ctx_ctype,       \* ctx->cert->ctype: NULL or its length
  tick_key_name, tick_hmac_key, tick_aes_key,  \* ctx->ext (secure) ticket keys
  srp_mask,        \* SSL_kSRP is in ctx->srp_ctx.srp_Mask
  srp_login,       \* ctx->srp_ctx.login
  srp_info,        \* ctx->srp_ctx.info
  srp_pwd_cb,      \* SRP_give_srp_client_pwd_callback: "none", "from_info", "user"
  extra_certs,     \* ctx->extra_certs: NULL or a sequence of Certs
  \* what the caller sees, and history
  cmd,             \* the last command
  ret,             \* the value it returned
  out,             \* what it wrote through parg (NULL if nothing)
  key_blob,        \* the blob a GET must give back: the last one set
  appended,        \* certs appended successfully since the last clear
  \* the stapled OCSP response (s->ext.ocsp)
  ocsp_resp,       \* s->ext.ocsp.resp: NULL or one of RespBufs
  resp_len,        \* s->ext.ocsp.resp_len, a size_t
  resp_heap,       \* the allocator's view of each RespBuf: unused, live, freed
  resp_larg        \* the larg of the last SET_TLSEXT_STATUS_REQ_OCSP_RESP

conn_vars == <<hostname, conn_dh_cb, conn_ctype, is_server, session, did_kex, group_id,
              peer_groups>>
ctx_vars == <<ctx_dh_cb, ctx_ctype, tick_key_name, tick_hmac_key, tick_aes_key,
              srp_mask, srp_login, srp_info, srp_pwd_cb, extra_certs>>
io_vars == <<cmd, ret, out, key_blob, appended>>
ocsp_vars == <<ocsp_resp, resp_len, resp_heap, resp_larg>>
vars == <<conn_vars, ctx_vars, io_vars, ocsp_vars>>
hs_vars == <<is_server, session, did_kex, group_id, peer_groups>>
ghost_vars == <<key_blob, appended>>

Init ==
  /\ hostname = NULL /\ conn_dh_cb = FALSE /\ conn_ctype = NULL
  /\ is_server \in BOOLEAN
  /\ session = NULL /\ did_kex = FALSE /\ group_id = 0 /\ peer_groups = <<>>
  /\ ctx_dh_cb = FALSE /\ ctx_ctype = NULL
  \* SSL_CTX_new fills the ticket keys with random bytes
  /\ tick_key_name \in Blob(TickNameLen)
  /\ tick_hmac_key \in Blob(TickHmacLen)
  /\ tick_aes_key \in Blob(TickAesLen)
  /\ srp_mask = FALSE /\ srp_login = NULL /\ srp_info = NULL /\ srp_pwd_cb = "none"
  /\ extra_certs = NULL
  /\ cmd = "none" /\ ret = 0 /\ out = NULL
  /\ key_blob = tick_key_name \o tick_hmac_key \o tick_aes_key
  /\ appended = <<>>
  \* SSL_new: no stapled response yet
  /\ ocsp_resp = NULL /\ resp_len = 0
  /\ resp_heap = [b \in RespBufs |-> "unused"] /\ resp_larg = 0

\* A command's result: what it returned and what it wrote back.
Return(c, r, o) == cmd' = c /\ ret' = r /\ out' = o

-----------------------------------------------------------------------------
(***************************************************************************)
(* ssl3_ctrl / ssl3_callback_ctrl on the connection.                       *)
(***************************************************************************)
\* SSL_CTRL_SET_TLSEXT_HOSTNAME: the old name is freed first; a NULL name
\* clears it, an empty or too long one or a failed strdup returns 0.
CtrlSetHostname ==
  /\ \E host_type \in BOOLEAN, parg \in StrInputs, alloc \in BOOLEAN :
    \/ /\ ~host_type
       /\ Return("set_hostname", 0, NULL)
       /\ UNCHANGED hostname
    \/ /\ host_type /\ parg = NULL
       /\ hostname' = NULL /\ Return("set_hostname", 1, NULL)
    \/ /\ host_type /\ parg # NULL
       /\ parg.len = 0 \/ parg.len > TLSEXT_MAXLEN_host_name
       /\ hostname' = NULL /\ Return("set_hostname", 0, NULL)
    \/ /\ host_type /\ parg # NULL
       /\ parg.len \in 1..TLSEXT_MAXLEN_host_name
       /\ hostname' = Strdup(parg, alloc)
       /\ Return("set_hostname", IF alloc THEN 1 ELSE 0, NULL)
  /\ UNCHANGED <<ocsp_vars, conn_dh_cb, conn_ctype, hs_vars, ctx_vars, ghost_vars>>

\* ssl3_ctrl SSL_CTRL_SET_TMP_DH_CB: retired, refused.
CtrlSetTmpDhCb ==
  /\ Return("ctrl_dh_cb", 0, NULL)
  /\ UNCHANGED <<ocsp_vars, conn_vars, ctx_vars, ghost_vars>>

\* ssl3_callback_ctrl SSL_CTRL_SET_TMP_DH_CB: stores the callback.
CallbackCtrlSetTmpDhCb ==
  /\ conn_dh_cb' = TRUE
  /\ Return("callback_ctrl_dh_cb", 1, NULL)
  /\ UNCHANGED <<ocsp_vars, hostname, conn_ctype, hs_vars, ctx_vars, ghost_vars>>

(***************************************************************************)
(* ssl3_set_req_cert_type(c, p, len): the old list is freed first; NULL or *)
(* an empty list clears it, a list over 0xff bytes or a failed memdup      *)
(* returns 0.  A list is modelled by its length.                           *)
(***************************************************************************)
SetReqCertType(p, len, alloc) ==
  CASE ~p \/ len = 0      -> [ctype |-> NULL, r |-> 1]
    [] len > CTYPE_MAXLEN -> [ctype |-> NULL, r |-> 0]
    [] ~alloc             -> [ctype |-> NULL, r |-> 0]
    [] OTHER              -> [ctype |-> len, r |-> 1]

CtypeLens == {0, 1, 256}

\* SSL_CTRL_SET_CLIENT_CERT_TYPES on a connection: servers only.
CtrlSetClientCertTypes ==
  /\ \E p \in BOOLEAN, len \in CtypeLens, alloc \in BOOLEAN :
    \/ /\ ~is_server
       /\ Return("set_ctype", 0, NULL) /\ UNCHANGED conn_ctype
    \/ /\ is_server
       /\ LET res == SetReqCertType(p, len, alloc)
          IN conn_ctype' = res.ctype /\ Return("set_ctype", res.r, NULL)
  /\ UNCHANGED <<ocsp_vars, hostname, conn_dh_cb, hs_vars, ctx_vars, ghost_vars>>

(***************************************************************************)
(* Group identifiers.  The TLS group id (16 bits) is shown to callers as a *)
(* NID: the built-in table's NID, or the id tagged with TLSEXT_nid_unknown *)
(* for a group only a provider knows.  The table and the context's group   *)
(* list are outside src/; a group's display name is a record naming it.    *)
(***************************************************************************)
TLSEXT_nid_unknown == \h1000000
NID_undef == 0

\* tls1_group_id2nid(group_id, include_unknown)
tls1_group_id2nid(id, include_unknown) ==
  CASE id = 0                    -> NID_undef
    [] id \in DOMAIN BuiltinNids -> BuiltinNids[id]
    [] include_unknown           -> TLSEXT_nid_unknown | id
    [] OTHER                     -> NID_undef

\* tls1_nid2group_id(nid): 0 for a NID of no built-in group.
tls1_nid2group_id(nid) ==
  IF \E g \in DOMAIN BuiltinNids : BuiltinNids[g] = nid
  THEN CHOOSE g \in DOMAIN BuiltinNids : BuiltinNids[g] = nid
  ELSE 0

\* tls1_group_id_lookup(ctx, id): the context's TLS_GROUP_INFO, or NULL.
tls1_group_id_lookup(id) ==
  IF id \in CtxGroups THEN [group_id |-> id, tlsname |-> [group |-> id]] ELSE NULL

\* Mutant: the unknown-group tag is not recognised; every NID goes through
\* the built-in table.
SSL_group_to_name_NoTag(nid) ==
  LET cinf == tls1_group_id_lookup(tls1_nid2group_id(nid))
  IN  IF cinf # NULL THEN cinf.tlsname ELSE NULL

\* SSL_group_to_name(s, nid): back from a NID (tagged or not) to the group
\* id, then its name in the context, or NULL.
SSL_group_to_name(nid) ==
  LET gid  == IF (nid & TLSEXT_nid_unknown) # 0 THEN nid & \hFFFF
              ELSE tls1_nid2group_id(nid)
      cinf == tls1_group_id_lookup(gid)
  IN  IF cinf # NULL THEN cinf.tlsname ELSE NULL

\* SSL_CTRL_GET_NEGOTIATED_GROUP: the TLS 1.3 key exchange's group, else the
\* session's, as a NID; s->session is dereferenced unchecked, and without a
\* session the read through NULL crashes the process.
CtrlGetNegotiatedGroup ==
  /\ \/ did_kex /\ Return("get_negotiated_group", tls1_group_id2nid(group_id, TRUE), NULL)
     \/ ~did_kex /\ session # NULL
        /\ Return("get_negotiated_group", tls1_group_id2nid(session, TRUE), NULL)
     \/ ~did_kex /\ session = NULL /\ Return("get_negotiated_group", Crash, NULL)
  /\ UNCHANGED <<ocsp_vars, conn_vars, ctx_vars, ghost_vars>>

\* The NID GET_GROUPS writes for a peer group id: through the context's
\* group info when it knows the group, else the tagged raw id.
PeerGroupNid(id) ==
  LET cinf == tls1_group_id_lookup(id)
  IN  IF cinf # NULL THEN tls1_group_id2nid(cinf.group_id, TRUE)
      ELSE TLSEXT_nid_unknown | id

\* SSL_CTRL_GET_GROUPS: 0 without a session, else the peer's list length,
\* and with a non-NULL parg the list as NIDs.
CtrlGetGroups ==
  /\ \/ session = NULL /\ Return("get_groups", 0, NULL)
     \/ session # NULL /\ \E parg \in BOOLEAN :
          Return("get_groups", Len(peer_groups),
                 IF parg THEN [i \in 1..Len(peer_groups) |-> PeerGroupNid(peer_groups[i])]
                 ELSE NULL)
  /\ UNCHANGED <<ocsp_vars, conn_vars, ctx_vars, ghost_vars>>

-----------------------------------------------------------------------------
(***************************************************************************)
(* ssl3_ctx_ctrl / ssl3_ctx_callback_ctrl on the context.                  *)
(***************************************************************************)
\* ssl3_ctx_ctrl SSL_CTRL_SET_TMP_DH_CB: retired, refused.
CtxCtrlSetTmpDhCb ==
  /\ Return("ctx_ctrl_dh_cb", 0, NULL)
  /\ UNCHANGED <<ocsp_vars, conn_vars, ctx_vars, ghost_vars>>

\* ssl3_ctx_callback_ctrl SSL_CTRL_SET_TMP_DH_CB: stores the callback.
CtxCallbackCtrlSetTmpDhCb ==
  /\ ctx_dh_cb' = TRUE
  /\ Return("ctx_callback_ctrl_dh_cb", 1, NULL)
  /\ UNCHANGED <<ocsp_vars, conn_vars, ctx_ctype, tick_key_name, tick_hmac_key, tick_aes_key,
                 srp_mask, srp_login, srp_info, srp_pwd_cb, extra_certs, ghost_vars>>

\* Mutant: the AES key is taken from just after the key name.
TicketKeysFields_AesOffset(keys) ==
  [name |-> SubSeq(keys, 1, TickNameLen),
   hmac |-> SubSeq(keys, TickNameLen + 1, TickNameLen + TickHmacLen),
   aes  |-> SubSeq(keys, TickNameLen + 1, TickNameLen + TickAesLen)]

\* The three memcpy of SSL_CTRL_SET_TLSEXT_TICKET_KEYS: each field from its
\* offset in the caller's blob.
TicketKeysFields(keys) ==
  [name |-> SubSeq(keys, 1, TickNameLen),
   hmac |-> SubSeq(keys, TickNameLen + 1, TickNameLen + TickHmacLen),
   aes  |-> SubSeq(keys, TickNameLen + TickHmacLen + 1, TickKeyLen)]

\* The three memcpy of SSL_CTRL_GET_TLSEXT_TICKET_KEYS: each field written
\* at its offset in the caller's buffer.
TicketKeysBlob == tick_key_name \o tick_hmac_key \o tick_aes_key

TickVars == <<tick_key_name, tick_hmac_key, tick_aes_key, key_blob>>
TickLargs == {TickKeyLen - 1, TickKeyLen}

\* SSL_CTRL_SET_TLSEXT_TICKET_KEYS: NULL asks for the length, any other
\* length than the blob's is refused, else the three fields are copied in.
CtxCtrlSetTicketKeys ==
  /\ \E keys \in {NULL} \cup Blob(TickKeyLen), larg \in TickLargs :
       \/ keys = NULL /\ Return("set_ticket_keys", TickKeyLen, NULL) /\ UNCHANGED TickVars
       \/ keys # NULL /\ larg # TickKeyLen
          /\ Return("set_ticket_keys", 0, NULL) /\ UNCHANGED TickVars
       \/ /\ keys # NULL /\ larg = TickKeyLen
          /\ LET f == TicketKeysFields(keys)
             IN tick_key_name' = f.name /\ tick_hmac_key' = f.hmac /\ tick_aes_key' = f.aes
          /\ key_blob' = keys
          /\ Return("set_ticket_keys", 1, NULL)
  /\ UNCHANGED <<ocsp_vars, conn_vars, ctx_dh_cb, ctx_ctype, srp_mask, srp_login, srp_info,
                 srp_pwd_cb, extra_certs, appended>>

\* SSL_CTRL_GET_TLSEXT_TICKET_KEYS: the same checks, then the fields are
\* copied out (out is the caller's buffer afterwards).
CtxCtrlGetTicketKeys ==
  /\ \E buf \in BOOLEAN, larg \in TickLargs :
       \/ ~buf /\ Return("get_ticket_keys", TickKeyLen, NULL)
       \/ buf /\ larg # TickKeyLen /\ Return("get_ticket_keys", 0, NULL)
       \/ buf /\ larg = TickKeyLen /\ Return("get_ticket_keys", 1, TicketKeysBlob)
  /\ UNCHANGED <<ocsp_vars, conn_vars, ctx_vars, ghost_vars>>

SrpVars == <<srp_mask, srp_login, srp_info, srp_pwd_cb>>

\* SSL_CTRL_SET_TLS_EXT_SRP_USERNAME: SRP is switched on and the old login
\* freed first; NULL clears it, a name outside 1..255 bytes or a failed
\* strdup returns 0.
CtxCtrlSetSrpUsername ==
  /\ \E parg \in StrInputs, alloc \in BOOLEAN :
       /\ srp_mask' = TRUE
       /\ \/ parg = NULL /\ srp_login' = NULL /\ Return("set_srp_username", 1, NULL)
          \/ /\ parg # NULL /\ parg.len \notin 1..SRP_MAXLEN_username
             /\ srp_login' = NULL /\ Return("set_srp_username", 0, NULL)
          \/ /\ parg # NULL /\ parg.len \in 1..SRP_MAXLEN_username
             /\ srp_login' = Strdup(parg, alloc)
             /\ Return("set_srp_username", IF alloc THEN 1 ELSE 0, NULL)
  /\ UNCHANGED <<ocsp_vars, conn_vars, ctx_dh_cb, ctx_ctype, tick_key_name, tick_hmac_key,
                 tick_aes_key, srp_info, srp_pwd_cb, extra_certs, ghost_vars>>

\* SSL_CTRL_SET_TLS_EXT_SRP_PASSWORD: the canned callback is installed and
\* the old password freed before the strdup (of NULL, or failing) may fail.
CtxCtrlSetSrpPassword ==
  /\ \E parg \in StrInputs, alloc \in BOOLEAN :
       LET ok == parg # NULL /\ alloc
       IN /\ srp_info' = IF ok THEN parg.name ELSE NULL
          /\ Return("set_srp_password", IF ok THEN 1 ELSE 0, NULL)
  /\ srp_pwd_cb' = "from_info"
  /\ UNCHANGED <<ocsp_vars, conn_vars, ctx_dh_cb, ctx_ctype, tick_key_name, tick_hmac_key,
                 tick_aes_key, srp_mask, srp_login, extra_certs, ghost_vars>>

\* SSL_CTRL_SET_SRP_ARG: SRP is switched on (the argument is not modelled).
CtxCtrlSetSrpArg ==
  /\ srp_mask' = TRUE
  /\ Return("set_srp_arg", 1, NULL)
  /\ UNCHANGED <<ocsp_vars, conn_vars, ctx_dh_cb, ctx_ctype, tick_key_name, tick_hmac_key,
                 tick_aes_key, srp_login, srp_info, srp_pwd_cb, extra_certs, ghost_vars>>

\* ssl3_ctx_callback_ctrl SRP registrations: each switches SRP on; the
\* give-password one replaces the callback SET_TLS_EXT_SRP_PASSWORD installed.
CtxCallbackCtrlSrp ==
  /\ \E which \in {"verify_param_cb", "username_cb", "give_client_pwd_cb"} :
       /\ srp_pwd_cb' = IF which = "give_client_pwd_cb" THEN "user" ELSE srp_pwd_cb
       /\ Return(which, 1, NULL)
  /\ srp_mask' = TRUE
  /\ UNCHANGED <<ocsp_vars, conn_vars, ctx_dh_cb, ctx_ctype, tick_key_name, tick_hmac_key,
                 tick_aes_key, srp_login, srp_info, extra_certs, ghost_vars>>

\* SSL_CTRL_SET_CLIENT_CERT_TYPES on the context: no role check.
CtxCtrlSetClientCertTypes ==
  /\ \E p \in BOOLEAN, len \in CtypeLens, alloc \in BOOLEAN :
       LET res == SetReqCertType(p, len, alloc)
       IN ctx_ctype' = res.ctype /\ Return("ctx_set_ctype", res.r, NULL)
  /\ UNCHANGED <<ocsp_vars, conn_vars, ctx_dh_cb, tick_key_name, tick_hmac_key, tick_aes_key,
                 SrpVars, extra_certs, ghost_vars>>

\* Mutant: sk_X509_unshift instead of sk_X509_push.
ExtraPush_Front(l, x) == <<x>> \o l

\* sk_X509_push: the certificate goes to the end of the list.
ExtraPush(l, x) == Append(l, x)

\* SSL_CTRL_EXTRA_CHAIN_CERT: the list is allocated on first use (and kept
\* when the push then fails).
CtxCtrlExtraChainCert ==
  /\ extra_certs # NULL => Len(extra_certs) < MaxExtra
  /\ \E x \in Certs, alloc_list \in BOOLEAN, alloc_push \in BOOLEAN :
       LET list == IF extra_certs = NULL THEN <<>> ELSE extra_certs
       IN \/ /\ extra_certs = NULL /\ ~alloc_list
             /\ Return("extra_chain_cert", 0, NULL) /\ UNCHANGED <<extra_certs, appended>>
          \/ /\ extra_certs # NULL \/ alloc_list
             /\ ~alloc_push
             /\ extra_certs' = list
             /\ Return("extra_chain_cert", 0, NULL) /\ UNCHANGED appended
          \/ /\ extra_certs # NULL \/ alloc_list
             /\ alloc_push
             /\ extra_certs' = ExtraPush(list, x)
             /\ appended' = Append(appended, x)
             /\ Return("extra_chain_cert", 1, NULL)
  /\ UNCHANGED <<ocsp_vars, conn_vars, ctx_dh_cb, ctx_ctype, tick_key_name, tick_hmac_key,
                 tick_aes_key, SrpVars, key_blob>>

\* SSL_CTRL_GET_EXTRA_CHAIN_CERTS: the primary chain when there is no extra
\* list and larg is 0, else the extra list (possibly NULL).
CtxCtrlGetExtraChainCerts ==
  /\ \E larg \in {0, 1} :
       Return(IF larg = 0 THEN "get_extra_certs_0" ELSE "get_extra_certs_1", 1,
              IF extra_certs = NULL /\ larg = 0 THEN KeyChain ELSE extra_certs)
  /\ UNCHANGED <<ocsp_vars, conn_vars, ctx_vars, ghost_vars>>

\* SSL_CTRL_CLEAR_EXTRA_CHAIN_CERTS: pop_free the list and forget it.
CtxCtrlClearExtraChainCerts ==
  /\ extra_certs' = NULL
  /\ appended' = <<>>
  /\ Return("clear_extra_certs", 1, NULL)
  /\ UNCHANGED <<ocsp_vars, conn_vars, ctx_dh_cb, ctx_ctype, tick_key_name, tick_hmac_key,
                 tick_aes_key, SrpVars, key_blob>>

-----------------------------------------------------------------------------
(***************************************************************************)
(* The stapled OCSP response: a buffer the caller allocated and whose      *)
(* ownership passes to the connection on SET.  resp_heap is the            *)
(* allocator's view of the caller's buffers, so a free is modelled by what *)
(* it does.  The caller hands over NULL or a buffer it has just allocated  *)
(* (the API forbids handing back one it no longer owns).  larg is a long   *)
(* and resp_len a size_t, both SizeBits wide: the assignment wraps a       *)
(* negative larg modulo 2^SizeBits.  The other status-request commands     *)
(* (type, extension and responder-id stacks, callback argument) are plain  *)
(* stores of one field each and are not modelled.                          *)
(***************************************************************************)
LONG_MAX == 2^(SizeBits - 1) - 1
LONG_MIN == -(2^(SizeBits - 1))

\* (size_t)larg and (long)len, two's complement at SizeBits
ToSizeT(l) == l % 2^SizeBits
ToLong(n) == IF n > LONG_MAX THEN n - 2^SizeBits ELSE n

\* the extreme negative length, none, and the largest a long holds (-1
\* would not do: (long)(size_t)-1 is -1, the error value, range check or not)
RespLargs == {LONG_MIN, 0, LONG_MAX}
OcspUnchanged == <<conn_vars, ctx_vars, ghost_vars>>

\* Mutant: the range check is dropped; a wrapped length comes back negative.
GetOcspRespRet_NoRangeCheck(len) == IF len = 0 THEN -1 ELSE ToLong(len)
\* What GET_TLSEXT_STATUS_REQ_OCSP_RESP returns: -1 for a length of 0 or
\* one a long cannot hold, else the length cast to long.
GetOcspRespRet(len) == IF len = 0 \/ len > LONG_MAX THEN -1 ELSE ToLong(len)

\* SSL_CTRL_GET_TLSEXT_STATUS_REQ_OCSP_RESP: writes the pointer, then returns.
CtrlGetOcspResp ==
  /\ Return("get_ocsp_resp", GetOcspRespRet(resp_len), ocsp_resp)
  /\ UNCHANGED <<OcspUnchanged, ocsp_vars>>

\* The buffers a caller can hand over: NULL or one it allocates now.
RespInputs == {NULL} \cup {b \in RespBufs : resp_heap[b] = "unused"}

\* OPENSSL_free(p): a no-op on NULL.
FreeResp(heap, p) == IF p = NULL THEN heap ELSE [heap EXCEPT ![p] = "freed"]
\* The caller's OPENSSL_malloc of the buffer it passes.
AllocResp(heap, p) == IF p = NULL THEN heap ELSE [heap EXCEPT ![p] = "live"]

\* Mutant: the new response is stored before the old one is freed, so the
\* free releases the buffer just taken.
SetOcspResp_StoreFirst(heap, old, parg) == FreeResp(AllocResp(heap, parg), parg)
\* SSL_CTRL_SET_TLSEXT_STATUS_REQ_OCSP_RESP: free the stored response, then
\* store parg and larg; the heap after the caller's allocation and the free.
SetOcspResp(heap, old, parg) == FreeResp(AllocResp(heap, parg), old)

CtrlSetOcspResp ==
  /\ \E parg \in RespInputs, larg \in RespLargs :
       /\ resp_heap' = SetOcspResp(resp_heap, ocsp_resp, parg)
       /\ ocsp_resp' = parg
       /\ resp_len' = ToSizeT(larg)
       /\ resp_larg' = larg
  /\ Return("set_ocsp_resp", 1, NULL)
  /\ UNCHANGED OcspUnchanged

-----------------------------------------------------------------------------
\* The handshake (outside src/) records the peer's supported groups and
\* creates the session with the negotiated group (0 for a key exchange
\* without one, before TLS 1.3); a TLS 1.3 one also records it in s->s3.
\* One handshake per connection: TLS 1.3 does not renegotiate, and a TLS
\* 1.2 renegotiation only replaces the session, which the first covers.
Handshake ==
  /\ session = NULL
  /\ \E g \in CtxGroups \cup {0}, tls13 \in BOOLEAN, n \in 0..MaxPeerGroups :
       /\ tls13 => g # 0
       /\ session' = g
       /\ did_kex' = tls13
       /\ group_id' = IF tls13 THEN g ELSE group_id
       /\ peer_groups' \in [1..n -> Groups]
  /\ Return("handshake", 0, NULL)
  /\ UNCHANGED <<ocsp_vars, hostname, conn_dh_cb, conn_ctype, is_server, ctx_vars, ghost_vars>>

(***************************************************************************)
(* The commands fall into groups that share no state; a model lets the     *)
(* caller issue the groups in CmdGroups, so that each question is asked    *)
(* without the product of the unrelated groups' states.                    *)
(***************************************************************************)
Group(g, A) == g \in CmdGroups /\ A

Next ==
  \/ Group("conn", CtrlSetHostname \/ CtrlGetNegotiatedGroup \/ CtrlGetGroups \/ Handshake)
  \/ Group("dh", CtrlSetTmpDhCb \/ CallbackCtrlSetTmpDhCb)
  \/ Group("dh", CtxCtrlSetTmpDhCb \/ CtxCallbackCtrlSetTmpDhCb)
  \/ Group("ctype", CtrlSetClientCertTypes \/ CtxCtrlSetClientCertTypes)
  \/ Group("tickets", CtxCtrlSetTicketKeys \/ CtxCtrlGetTicketKeys)
  \/ Group("srp", CtxCtrlSetSrpUsername \/ CtxCtrlSetSrpPassword)
  \/ Group("srp", CtxCtrlSetSrpArg \/ CtxCallbackCtrlSrp)
  \/ Group("extra", CtxCtrlExtraChainCert \/ CtxCtrlGetExtraChainCerts)
  \/ Group("extra", CtxCtrlClearExtraChainCerts)
  \/ Group("ocsp", CtrlGetOcspResp \/ CtrlSetOcspResp)

Spec == Init /\ [][Next]_vars

-----------------------------------------------------------------------------
(***************************************************************************)
(* Properties.                                                             *)
(***************************************************************************)

(* Spec 8.12 and the blob layout of section 5: a ticket key GET that        *)
(* succeeds gives back byte for byte the blob of the last SET that          *)
(* succeeded (the keys SSL_CTX_new made, if none has), whatever refused     *)
(* SETs came in between: the three memcpy of SET and the three of GET must  *)
(* use the same offsets.                                                    *)
TicketKeysRoundTrip ==
  cmd = "get_ticket_keys" /\ ret = 1 => out = key_blob

(* Spec 4.5: what SSL_CTRL_GET_EXTRA_CHAIN_CERTS hands out is NULL, the     *)
(* primary chain, or exactly the certificates that SSL_CTRL_EXTRA_CHAIN_CERT *)
(* added successfully since the last SSL_CTRL_CLEAR_EXTRA_CHAIN_CERTS, in   *)
(* the order they were added: a failed push or allocation adds nothing.    *)
ExtraCertsAreAppends ==
  cmd \in {"get_extra_certs_0", "get_extra_certs_1"} =>
    out \in {NULL, KeyChain, appended}

(* Spec 4.4 and 7: the retired temporary-DH callback registration is        *)
(* refused, so no callback is ever installed on the connection (through    *)
(* ssl3_callback_ctrl) or on the context (through ssl3_ctx_callback_ctrl). *)
DhCallbackRejected == ~conn_dh_cb /\ ~ctx_dh_cb

(* Spec 7: control errors are returned "with no side effects beyond what  *)
(* is documented per operation".  A command that returns 0 leaves what it  *)
(* was asked to change as it was: the hostname (SET_TLSEXT_HOSTNAME), the  *)
(* SRP login and the SRP switch (SET_TLS_EXT_SRP_USERNAME), the SRP        *)
(* password and its callback (SET_TLS_EXT_SRP_PASSWORD), the certificate   *)
(* types (SET_CLIENT_CERT_TYPES, both dispatchers) and the extra chain     *)
(* list, which GET_EXTRA_CHAIN_CERTS falls back from only when it is NULL  *)
(* (EXTRA_CHAIN_CERT).                                                     *)
RefusedSetChangesNothing ==
  [][ret' = 0 =>
       /\ cmd' = "set_hostname" => UNCHANGED hostname
       /\ cmd' = "set_srp_username" => UNCHANGED <<srp_mask, srp_login>>
       /\ cmd' = "set_srp_password" => UNCHANGED <<srp_info, srp_pwd_cb>>
       /\ cmd' \in {"set_ctype", "ctx_set_ctype"} => UNCHANGED <<conn_ctype, ctx_ctype>>
       /\ cmd' = "extra_chain_cert" => UNCHANGED extra_certs]_vars

(* Spec 4.4 and 4.12: a NID that GET_NEGOTIATED_GROUP or GET_GROUPS hands *)
(* out names, through SSL_group_to_name, the group it stands for: the      *)
(* negotiated group, and each group of the peer's list in order, or none   *)
(* when the context does not know that group.  The two encodings (the      *)
(* built-in NID, the unknown-group tag for provider groups) and the decode *)
(* must agree.                                                             *)
GroupNamesRoundTrip ==
  LET NameOf(id) == IF id \in CtxGroups THEN [group |-> id] ELSE NULL
  IN  /\ cmd = "get_negotiated_group" /\ ret # Crash =>
           SSL_group_to_name(ret) = NameOf(IF did_kex THEN group_id ELSE session)
      /\ cmd = "get_groups" /\ out # NULL =>
           \A i \in 1..Len(peer_groups) : SSL_group_to_name(out[i]) = NameOf(peer_groups[i])

(* Spec 7 (NotReady): SSL_CTRL_GET_NEGOTIATED_GROUP before a session exists *)
(* fails with an error result instead of reading the session.               *)
NegotiatedGroupNeedsSession ==
  cmd = "get_negotiated_group" /\ session = NULL => ret = 0

(* Spec 4.4 (the response blob's ownership passes to the connection on     *)
(* SET): after any sequence of SET_TLSEXT_STATUS_REQ_OCSP_RESP calls, the  *)
(* only caller buffer still allocated is the one the connection holds, and *)
(* the one it holds is allocated: each SET frees the response it replaces, *)
(* never the one it takes, and none is leaked.                            *)
OcspRespOwned ==
  {b \in RespBufs : resp_heap[b] = "live"} = {ocsp_resp} \ {NULL}

(* Spec 4.4: GET_TLSEXT_STATUS_REQ_OCSP_RESP hands back the pointer of the *)
(* last SET and returns its length, or an error (-1) when that length is   *)
(* zero or a long cannot represent it.  The larg of the SET passes through *)
(* the size_t resp_len and back through the cast to long, so a negative    *)
(* larg must come back as -1, LONG_MAX as itself.                          *)
OcspRespLengthRoundTrip ==
  cmd = "get_ocsp_resp" =>
    /\ out = ocsp_resp
    /\ ret = IF resp_larg > 0 THEN resp_larg ELSE -1

====
