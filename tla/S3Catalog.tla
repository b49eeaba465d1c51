------------------------------- MODULE S3Catalog -------------------------------
(***************************************************************************)
(* The cipher suite catalog and its lookups (src/ssl/s3_lib.c): the three  *)
(* tables tls13_ciphers, ssl3_ciphers and ssl3_scsvs, their one-time sort  *)
(* (ssl_sort_cipher_list with cipher_compare), lookup by id (binary search *)
(* of each table in turn), by standard name (linear scan of all three), by *)
(* the two wire bytes, by index (ssl3_get_cipher), the encoding of a suite *)
(* into those bytes, and the handshake digest/PRF selection of a           *)
(* negotiated suite (ssl_get_algorithm2), and the filling of a hello's     *)
(* random field (ssl_fill_hello_random) and of a CertificateRequest's      *)
(* certificate types (ssl3_get_req_cert_type).                             *)
(*                                                                         *)
(* The entries of the three tables are in S3CipherEntriesA and B.        *)
(***************************************************************************)
EXTENDS Integers, Sequences, SequencesExt, Bitwise, S3CipherEntriesB

CONSTANTS
  AbsentIds,       \* ids that no entry has
  UnknownNames,    \* standard names that no entry has
  RandByte         \* a byte RAND_bytes_ex wrote, whatever its value

tls13_ciphers ==
  <<TLS_AES_128_GCM_SHA256, TLS_AES_256_GCM_SHA384,
    TLS_CHACHA20_POLY1305_SHA256, TLS_AES_128_CCM_SHA256,
    TLS_AES_128_CCM_8_SHA256>>

\* ssl3_ciphers as written, including the entries under
\* #ifndef OPENSSL_NO_WEAK_SSL_CIPHERS.
ssl3_ciphers_source ==
  <<RSA_NULL_MD5, RSA_NULL_SHA, RSA_DES_192_CBC3_SHA,
    DHE_DSS_DES_192_CBC3_SHA, DHE_RSA_DES_192_CBC3_SHA, ADH_DES_192_CBC_SHA,
    RSA_WITH_AES_128_SHA, DHE_DSS_WITH_AES_128_SHA, DHE_RSA_WITH_AES_128_SHA,
    ADH_WITH_AES_128_SHA, RSA_WITH_AES_256_SHA, DHE_DSS_WITH_AES_256_SHA,
    DHE_RSA_WITH_AES_256_SHA, ADH_WITH_AES_256_SHA, RSA_WITH_NULL_SHA256,
    RSA_WITH_AES_128_SHA256, RSA_WITH_AES_256_SHA256,
    DHE_DSS_WITH_AES_128_SHA256, DHE_RSA_WITH_AES_128_SHA256,
    DHE_DSS_WITH_AES_256_SHA256, DHE_RSA_WITH_AES_256_SHA256,
    ADH_WITH_AES_128_SHA256, ADH_WITH_AES_256_SHA256,
    RSA_WITH_AES_128_GCM_SHA256, RSA_WITH_AES_256_GCM_SHA384,
    DHE_RSA_WITH_AES_128_GCM_SHA256, DHE_RSA_WITH_AES_256_GCM_SHA384,
    DHE_DSS_WITH_AES_128_GCM_SHA256, DHE_DSS_WITH_AES_256_GCM_SHA384,
    ADH_WITH_AES_128_GCM_SHA256, ADH_WITH_AES_256_GCM_SHA384,
    RSA_WITH_AES_128_CCM, RSA_WITH_AES_256_CCM, DHE_RSA_WITH_AES_128_CCM,
    DHE_RSA_WITH_AES_256_CCM, RSA_WITH_AES_128_CCM_8, RSA_WITH_AES_256_CCM_8,
    DHE_RSA_WITH_AES_128_CCM_8, DHE_RSA_WITH_AES_256_CCM_8,
    PSK_WITH_AES_128_CCM, PSK_WITH_AES_256_CCM, DHE_PSK_WITH_AES_128_CCM,
    DHE_PSK_WITH_AES_256_CCM, PSK_WITH_AES_128_CCM_8, PSK_WITH_AES_256_CCM_8,
    DHE_PSK_WITH_AES_128_CCM_8, DHE_PSK_WITH_AES_256_CCM_8,
    ECDHE_ECDSA_WITH_AES_128_CCM, ECDHE_ECDSA_WITH_AES_256_CCM,
    ECDHE_ECDSA_WITH_AES_128_CCM_8, ECDHE_ECDSA_WITH_AES_256_CCM_8,
    ECDHE_ECDSA_WITH_NULL_SHA, ECDHE_ECDSA_WITH_DES_192_CBC3_SHA,
    ECDHE_ECDSA_WITH_AES_128_CBC_SHA, ECDHE_ECDSA_WITH_AES_256_CBC_SHA,
    ECDHE_RSA_WITH_NULL_SHA, ECDHE_RSA_WITH_DES_192_CBC3_SHA,
    ECDHE_RSA_WITH_AES_128_CBC_SHA, ECDHE_RSA_WITH_AES_256_CBC_SHA,
    ECDH_anon_WITH_NULL_SHA, ECDH_anon_WITH_DES_192_CBC3_SHA,
    ECDH_anon_WITH_AES_128_CBC_SHA, ECDH_anon_WITH_AES_256_CBC_SHA,
    ECDHE_ECDSA_WITH_AES_128_SHA256, ECDHE_ECDSA_WITH_AES_256_SHA384,
    ECDHE_RSA_WITH_AES_128_SHA256, ECDHE_RSA_WITH_AES_256_SHA384,
    ECDHE_ECDSA_WITH_AES_128_GCM_SHA256, ECDHE_ECDSA_WITH_AES_256_GCM_SHA384,
    ECDHE_RSA_WITH_AES_128_GCM_SHA256, ECDHE_RSA_WITH_AES_256_GCM_SHA384,
    PSK_WITH_NULL_SHA, DHE_PSK_WITH_NULL_SHA, RSA_PSK_WITH_NULL_SHA,
    PSK_WITH_3DES_EDE_CBC_SHA, PSK_WITH_AES_128_CBC_SHA,
    PSK_WITH_AES_256_CBC_SHA, DHE_PSK_WITH_3DES_EDE_CBC_SHA,
    DHE_PSK_WITH_AES_128_CBC_SHA, DHE_PSK_WITH_AES_256_CBC_SHA,
    RSA_PSK_WITH_3DES_EDE_CBC_SHA, RSA_PSK_WITH_AES_128_CBC_SHA,
    RSA_PSK_WITH_AES_256_CBC_SHA, PSK_WITH_AES_128_GCM_SHA256,
    PSK_WITH_AES_256_GCM_SHA384, DHE_PSK_WITH_AES_128_GCM_SHA256,
    DHE_PSK_WITH_AES_256_GCM_SHA384, RSA_PSK_WITH_AES_128_GCM_SHA256,
    RSA_PSK_WITH_AES_256_GCM_SHA384, PSK_WITH_AES_128_CBC_SHA256,
    PSK_WITH_AES_256_CBC_SHA384, PSK_WITH_NULL_SHA256, PSK_WITH_NULL_SHA384,
    DHE_PSK_WITH_AES_128_CBC_SHA256, DHE_PSK_WITH_AES_256_CBC_SHA384,
    DHE_PSK_WITH_NULL_SHA256, DHE_PSK_WITH_NULL_SHA384,
    RSA_PSK_WITH_AES_128_CBC_SHA256, RSA_PSK_WITH_AES_256_CBC_SHA384,
    RSA_PSK_WITH_NULL_SHA256, RSA_PSK_WITH_NULL_SHA384,
    ECDHE_PSK_WITH_3DES_EDE_CBC_SHA, ECDHE_PSK_WITH_AES_128_CBC_SHA,
    ECDHE_PSK_WITH_AES_256_CBC_SHA, ECDHE_PSK_WITH_AES_128_CBC_SHA256,
    ECDHE_PSK_WITH_AES_256_CBC_SHA384, ECDHE_PSK_WITH_NULL_SHA,
    ECDHE_PSK_WITH_NULL_SHA256, ECDHE_PSK_WITH_NULL_SHA384,
    SRP_SHA_WITH_3DES_EDE_CBC_SHA, SRP_SHA_RSA_WITH_3DES_EDE_CBC_SHA,
    SRP_SHA_DSS_WITH_3DES_EDE_CBC_SHA, SRP_SHA_WITH_AES_128_CBC_SHA,
    SRP_SHA_RSA_WITH_AES_128_CBC_SHA, SRP_SHA_DSS_WITH_AES_128_CBC_SHA,
    SRP_SHA_WITH_AES_256_CBC_SHA, SRP_SHA_RSA_WITH_AES_256_CBC_SHA,
    SRP_SHA_DSS_WITH_AES_256_CBC_SHA, DHE_RSA_WITH_CHACHA20_POLY1305,
    ECDHE_RSA_WITH_CHACHA20_POLY1305, ECDHE_ECDSA_WITH_CHACHA20_POLY1305,
    PSK_WITH_CHACHA20_POLY1305, ECDHE_PSK_WITH_CHACHA20_POLY1305,
    DHE_PSK_WITH_CHACHA20_POLY1305, RSA_PSK_WITH_CHACHA20_POLY1305,
    RSA_WITH_CAMELLIA_128_CBC_SHA256, DHE_DSS_WITH_CAMELLIA_128_CBC_SHA256,
    DHE_RSA_WITH_CAMELLIA_128_CBC_SHA256, ADH_WITH_CAMELLIA_128_CBC_SHA256,
    RSA_WITH_CAMELLIA_256_CBC_SHA256, DHE_DSS_WITH_CAMELLIA_256_CBC_SHA256,
    DHE_RSA_WITH_CAMELLIA_256_CBC_SHA256, ADH_WITH_CAMELLIA_256_CBC_SHA256,
    RSA_WITH_CAMELLIA_256_CBC_SHA, DHE_DSS_WITH_CAMELLIA_256_CBC_SHA,
    DHE_RSA_WITH_CAMELLIA_256_CBC_SHA, ADH_WITH_CAMELLIA_256_CBC_SHA,
    RSA_WITH_CAMELLIA_128_CBC_SHA, DHE_DSS_WITH_CAMELLIA_128_CBC_SHA,
    DHE_RSA_WITH_CAMELLIA_128_CBC_SHA, ADH_WITH_CAMELLIA_128_CBC_SHA,
    ECDHE_ECDSA_WITH_CAMELLIA_128_CBC_SHA256,
    ECDHE_ECDSA_WITH_CAMELLIA_256_CBC_SHA384,
    ECDHE_RSA_WITH_CAMELLIA_128_CBC_SHA256,
    ECDHE_RSA_WITH_CAMELLIA_256_CBC_SHA384, PSK_WITH_CAMELLIA_128_CBC_SHA256,
    PSK_WITH_CAMELLIA_256_CBC_SHA384, DHE_PSK_WITH_CAMELLIA_128_CBC_SHA256,
    DHE_PSK_WITH_CAMELLIA_256_CBC_SHA384,
    RSA_PSK_WITH_CAMELLIA_128_CBC_SHA256,
    RSA_PSK_WITH_CAMELLIA_256_CBC_SHA384,
    ECDHE_PSK_WITH_CAMELLIA_128_CBC_SHA256,
    ECDHE_PSK_WITH_CAMELLIA_256_CBC_SHA384, GOST2001_GOST89_GOST89,
    GOST2001_NULL_GOST94, IANA_GOST2012_GOST8912_GOST8912,
    LEGACY_GOST2012_GOST8912_GOST8912, GOST2012_NULL_GOST12,
    GOST2012_KUZNYECHIK_KUZNYECHIKOMAC, GOST2012_MAGMA_MAGMAOMAC,
    RSA_IDEA_128_SHA, RSA_WITH_SEED_SHA, DHE_DSS_WITH_SEED_SHA,
    DHE_RSA_WITH_SEED_SHA, ADH_WITH_SEED_SHA, RSA_RC4_128_MD5,
    RSA_RC4_128_SHA, ADH_RC4_128_MD5, ECDHE_PSK_WITH_RC4_128_SHA,
    ECDH_anon_WITH_RC4_128_SHA, ECDHE_ECDSA_WITH_RC4_128_SHA,
    ECDHE_RSA_WITH_RC4_128_SHA, PSK_WITH_RC4_128_SHA,
    RSA_PSK_WITH_RC4_128_SHA, DHE_PSK_WITH_RC4_128_SHA,
    RSA_WITH_ARIA_128_GCM_SHA256, RSA_WITH_ARIA_256_GCM_SHA384,
    DHE_RSA_WITH_ARIA_128_GCM_SHA256, DHE_RSA_WITH_ARIA_256_GCM_SHA384,
    DHE_DSS_WITH_ARIA_128_GCM_SHA256, DHE_DSS_WITH_ARIA_256_GCM_SHA384,
    ECDHE_ECDSA_WITH_ARIA_128_GCM_SHA256,
    ECDHE_ECDSA_WITH_ARIA_256_GCM_SHA384, ECDHE_RSA_WITH_ARIA_128_GCM_SHA256,
    ECDHE_RSA_WITH_ARIA_256_GCM_SHA384, PSK_WITH_ARIA_128_GCM_SHA256,
    PSK_WITH_ARIA_256_GCM_SHA384, DHE_PSK_WITH_ARIA_128_GCM_SHA256,
    DHE_PSK_WITH_ARIA_256_GCM_SHA384, RSA_PSK_WITH_ARIA_128_GCM_SHA256,
    RSA_PSK_WITH_ARIA_256_GCM_SHA384,
    BTLS1_TXT_DHE_BIGN_WITH_BELT_CTR_MAC_HBELT,
    BTLS1_TXT_DHE_BIGN_WITH_BELT_DWP_HBELT,
    BTLS1_TXT_DHT_BIGN_WITH_BELT_CTR_MAC_HBELT,
    BTLS1_TXT_DHT_BIGN_WITH_BELT_DWP_HBELT,
    BTLS1_TXT_DHE_PSK_BIGN_WITH_BELT_CTR_MAC_HBELT,
    BTLS1_TXT_DHE_PSK_BIGN_WITH_BELT_DWP_HBELT,
    BTLS1_TXT_DHT_PSK_BIGN_WITH_BELT_CTR_MAC_HBELT,
    BTLS1_TXT_DHT_PSK_BIGN_WITH_BELT_DWP_HBELT>>

WeakEntries ==
  {RSA_DES_192_CBC3_SHA, DHE_DSS_DES_192_CBC3_SHA, DHE_RSA_DES_192_CBC3_SHA,
   ADH_DES_192_CBC_SHA, ECDHE_ECDSA_WITH_DES_192_CBC3_SHA,
   ECDHE_RSA_WITH_DES_192_CBC3_SHA, ECDH_anon_WITH_DES_192_CBC3_SHA,
   PSK_WITH_3DES_EDE_CBC_SHA, DHE_PSK_WITH_3DES_EDE_CBC_SHA,
   RSA_PSK_WITH_3DES_EDE_CBC_SHA, ECDHE_PSK_WITH_3DES_EDE_CBC_SHA,
   SRP_SHA_WITH_3DES_EDE_CBC_SHA, SRP_SHA_RSA_WITH_3DES_EDE_CBC_SHA,
   SRP_SHA_DSS_WITH_3DES_EDE_CBC_SHA, RSA_RC4_128_MD5, RSA_RC4_128_SHA,
   ADH_RC4_128_MD5, ECDHE_PSK_WITH_RC4_128_SHA, ECDH_anon_WITH_RC4_128_SHA,
   ECDHE_ECDSA_WITH_RC4_128_SHA, ECDHE_RSA_WITH_RC4_128_SHA,
   PSK_WITH_RC4_128_SHA, RSA_PSK_WITH_RC4_128_SHA, DHE_PSK_WITH_RC4_128_SHA}

\* The table a build compiles: weak is TRUE without OPENSSL_NO_WEAK_SSL_CIPHERS.
ssl3_ciphers(weak) ==
  SelectSeq(ssl3_ciphers_source, LAMBDA e : weak \/ e \notin WeakEntries)

ssl3_scsvs == <<SCSV, FALLBACK_SCSV>>

\* The tables of a build as the source lays them out, searched in this order.
SourceTablesOf(weak) == <<tls13_ciphers, ssl3_ciphers(weak), ssl3_scsvs>>

\* Every entry the source writes, in either build.
WrittenEntries == UNION {Range(SourceTablesOf(TRUE)[j]) : j \in 1..3}

SSL3_CK_CIPHERSUITE_FLAG == \h03000000

-----------------------------------------------------------------------------
(***************************************************************************)
(* The operations.                                                         *)
(***************************************************************************)
\* Mutant: the comparison is inverted.
cipher_compare_Reversed(a, b) ==
  IF a.id = b.id THEN 0 ELSE IF a.id > b.id THEN -1 ELSE 1

\* cipher_compare: the qsort order of the tables, by id.
cipher_compare(a, b) ==
  IF a.id = b.id THEN 0 ELSE IF a.id < b.id THEN -1 ELSE 1

\* ssl_sort_cipher_list: qsort of each table; ids are unique within a table,
\* so the sorted order is the only one.
SortTable(t) == SortSeq(t, LAMBDA a, b : cipher_compare(a, b) < 0)

\* OBJ_bsearch_ssl_cipher_id (crypto/objects, outside src/): binary search
\* over t[l+1..h] with ssl_cipher_id_cmp; NULL when the probe misses.
RECURSIVE Bsearch(_, _, _, _)
Bsearch(id, t, l, h) ==
  IF l >= h THEN NULL
  ELSE LET i == (l + h) \div 2
       IN CASE id < t[i + 1].id -> Bsearch(id, t, l, i)
            [] id > t[i + 1].id -> Bsearch(id, t, i + 1, h)
            [] OTHER            -> t[i + 1]

BsearchTable(id, t) == Bsearch(id, t, 0, Len(t))

\* Mutant: the search stops after the second table.
ssl3_get_cipher_by_id_NoScsv(tbls, id) ==
  LET cp1 == BsearchTable(id, tbls[1])
      cp2 == BsearchTable(id, tbls[2])
  IN IF cp1 # NULL THEN cp1 ELSE cp2

\* ssl3_get_cipher_by_id: the three tables in turn.
ssl3_get_cipher_by_id(tbls, id) ==
  LET cp1 == BsearchTable(id, tbls[1])
      cp2 == BsearchTable(id, tbls[2])
  IN IF cp1 # NULL THEN cp1 ELSE IF cp2 # NULL THEN cp2 ELSE BsearchTable(id, tbls[3])

RECURSIVE ByStdName(_, _, _)

\* The entries of table t, among the first n, whose standard name is name
\* (entries without one are skipped).
NameHits(t, n, name) == {i \in 1 .. n : t[i].stdname # NULL /\ t[i].stdname = name}

\* Mutant: the inner loop stops one entry short of each table's end.
ByStdName_SkipsLast(tbls, name, j) ==
  IF j > Len(tbls) THEN NULL
  ELSE LET hits == NameHits(tbls[j], Len(tbls[j]) - 1, name)
       IN IF hits = {} THEN ByStdName(tbls, name, j + 1) ELSE tbls[j][Min(hits)]

\* The two loops of ssl3_get_cipher_by_std_name: table j in turn, and in
\* it the first entry with the name (the inner loop returns on a match).
ByStdName(tbls, name, j) ==
  IF j > Len(tbls) THEN NULL
  ELSE LET hits == NameHits(tbls[j], Len(tbls[j]), name)
       IN IF hits = {} THEN ByStdName(tbls, name, j + 1) ELSE tbls[j][Min(hits)]

ssl3_get_cipher_by_std_name(tbls, name) == ByStdName(tbls, name, 1)

\* ssl3_get_cipher_by_char: the id is the suite flag and the two bytes.
ssl3_get_cipher_by_char(tbls, p) ==
  ssl3_get_cipher_by_id(tbls, SSL3_CK_CIPHERSUITE_FLAG | (p[1] * 256) | p[2])

\* The top byte of a 32-bit id (c->id & 0xff000000, shifted down; the mask
\* does not fit TLC's integers).
TopByte(id) == shiftR(id, 24)

\* Mutant: only the low byte of the id is written.
ssl3_put_cipher_by_char_LowByte(c, ok) ==
  IF TopByte(c.id) # TopByte(SSL3_CK_CIPHERSUITE_FLAG) THEN [ret |-> 1, len |-> 0, out |-> <<>>]
  ELSE IF ~ok THEN [ret |-> 0, len |-> 0, out |-> <<>>]
  ELSE LET v == c.id & \hff
       IN [ret |-> 1, len |-> 2, out |-> <<v \div 256, v % 256>>]

\* ssl3_put_cipher_by_char: suites outside the flag's range are not
\* written (len 0); else WPACKET_put_bytes_u16 writes id & 0xffff big-endian
\* and may fail (ok).
ssl3_put_cipher_by_char(c, ok) ==
  IF TopByte(c.id) # TopByte(SSL3_CK_CIPHERSUITE_FLAG) THEN [ret |-> 1, len |-> 0, out |-> <<>>]
  ELSE IF ~ok THEN [ret |-> 0, len |-> 0, out |-> <<>>]
  ELSE LET v == c.id & \hffff
       IN [ret |-> 1, len |-> 2, out |-> <<v \div 256, v % 256>>]

\* ssl3_num_ciphers: the number of entries of ssl3_ciphers.
ssl3_num_ciphers(tbls) == Len(tbls[2])

\* Mutant: the bound check excludes the last index.
ssl3_get_cipher_LastMissing(tbls, u) ==
  IF u < ssl3_num_ciphers(tbls) - 1 THEN tbls[2][ssl3_num_ciphers(tbls) - u] ELSE NULL

\* ssl3_get_cipher: entry u counted from the end of ssl3_ciphers
\* (ssl3_ciphers[SSL3_NUM_CIPHERS - 1 - u], here 1-based), NULL past it.
ssl3_get_cipher(tbls, u) ==
  IF u < ssl3_num_ciphers(tbls) THEN tbls[2][ssl3_num_ciphers(tbls) - u] ELSE NULL

\* SSL_PSK (ssl_local.h, outside src/): the PSK key exchanges.
SSL_PSK == {"SSL_kPSK", "SSL_kRSAPSK", "SSL_kECDHEPSK", "SSL_kDHEPSK"}

\* SSL_ENC_FLAG_SHA256_PRF in the enc_flags of the method of version v
\* (TLSv1_2_enc_data, TLSv1_3_enc_data, DTLSv1_2_enc_data; ssl3's own
\* SSLv3_enc_data has enc_flags 0).
Sha256Prf(v) == v \in {TLS1_2_VERSION, TLS1_3_VERSION, DTLS1_2_VERSION}

\* Mutant: the PSK downgrade for versions before 1.2 is missing.
ssl_get_algorithm2_NoPskDowngrade(c, v) ==
  IF c = NULL THEN -1
  ELSE IF Sha256Prf(v) /\ c.algorithm2 = {"SSL_HANDSHAKE_MAC_DEFAULT", "TLS1_PRF"}
       THEN {"SSL_HANDSHAKE_MAC_SHA256", "TLS1_PRF_SHA256"}
  ELSE c.algorithm2

\* ssl_get_algorithm2 for the negotiated suite c at version v: -1 without
\* a suite; the legacy MD5/SHA-1 PRF becomes SHA-256 where the method uses
\* the SHA-256 PRF; otherwise a PSK suite with the SHA-384 PRF falls back
\* to the legacy one; any other value is returned as it is.
ssl_get_algorithm2(c, v) ==
  IF c = NULL THEN -1
  ELSE IF Sha256Prf(v)
       THEN IF c.algorithm2 = {"SSL_HANDSHAKE_MAC_DEFAULT", "TLS1_PRF"}
            THEN {"SSL_HANDSHAKE_MAC_SHA256", "TLS1_PRF_SHA256"}
            ELSE c.algorithm2
  ELSE IF c.algorithm_mkey \cap SSL_PSK # {}
          /\ c.algorithm2 = {"SSL_HANDSHAKE_MAC_SHA384", "TLS1_PRF_SHA384"}
       THEN {"SSL_HANDSHAKE_MAC_DEFAULT", "TLS1_PRF"}
  ELSE c.algorithm2

-----------------------------------------------------------------------------
(***************************************************************************)
(* ssl_fill_hello_random(s, server, result, len, dgrd).  The buffer is a   *)
(* sequence of len bytes: the four bytes l2n writes for the time, the      *)
(* marker bytes, and RandByte for each byte RAND_bytes_ex wrote, whose     *)
(* value no property looks at.  The wall clock reads a fixed time.         *)
(***************************************************************************)
SSL_MODE_SEND_CLIENTHELLO_TIME == \h00000020
SSL_MODE_SEND_SERVERHELLO_TIME == \h00000040
HelloTime == \h5F3A1B2C        \* (unsigned long)time(NULL)
Downgrades == {"DOWNGRADE_NONE", "DOWNGRADE_TO_1_2", "DOWNGRADE_TO_1_1"}
tls11downgrade == <<\h44, \h4F, \h57, \h4E, \h47, \h52, \h44, \h00>>
tls12downgrade == <<\h44, \h4F, \h57, \h4E, \h47, \h52, \h44, \h01>>

\* l2n(l, p): the low 32 bits of l, most significant byte first.
l2n(l) == <<shiftR(l, 24) & \hff, shiftR(l, 16) & \hff, shiftR(l, 8) & \hff, l & \hff>>
RandBytes(n) == [i \in 1..n |-> RandByte]

\* memcpy(buf + off, src, Len(src))
Memcpy(buf, off, src) ==
  [i \in 1..Len(buf) |-> IF i > off /\ i <= off + Len(src) THEN src[i - off] ELSE buf[i]]

\* Mutant: the marker is copied one byte too far into the buffer.
PlaceMarker_OffByOne(buf, len, m) == Memcpy(buf, len - Len(m) + 1, m)
\* The marker goes into the last sizeof(marker) bytes.
PlaceMarker(buf, len, m) == Memcpy(buf, len - Len(m), m)

\* mode: the SSL_MODE_ bits set; rand: what RAND_bytes_ex returns.  The
\* result is the value returned and the buffer as it is left.
ssl_fill_hello_random(server, mode, len, dgrd, rand) ==
  LET send_time == IF server THEN (mode & SSL_MODE_SEND_SERVERHELLO_TIME) # 0
                   ELSE (mode & SSL_MODE_SEND_CLIENTHELLO_TIME) # 0
      filled == IF send_time THEN l2n(HelloTime) \o RandBytes(len - 4) ELSE RandBytes(len)
  IN  CASE len < 4 -> [ret |-> 0, buf |-> <<>>]
        [] rand <= 0 -> [ret |-> rand, buf |-> filled]
        [] ~(Len(tls11downgrade) < len /\ Len(tls12downgrade) < len) ->
             [ret |-> 0, buf |-> filled]
        [] dgrd = "DOWNGRADE_TO_1_2" ->
             [ret |-> rand, buf |-> PlaceMarker(filled, len, tls12downgrade)]
        [] dgrd = "DOWNGRADE_TO_1_1" ->
             [ret |-> rand, buf |-> PlaceMarker(filled, len, tls11downgrade)]
        [] OTHER -> [ret |-> rand, buf |-> filled]

-----------------------------------------------------------------------------
(***************************************************************************)
(* ssl3_get_req_cert_type(s, pkt): the certificate types a server asks a   *)
(* client for, written into a WPACKET.  A type is its macro name; the      *)
(* packet is the bytes written, whether every write succeeded, and the     *)
(* room left (a write past it fails and leaves the bytes before it).       *)
(* alg_a is the mask ssl_set_sig_mask computes: the authentications the    *)
(* signature list disables.                                                *)
(***************************************************************************)
Packet(room) == [bytes |-> <<>>, ok |-> TRUE, room |-> room]

\* WPACKET_put_bytes_u8(pkt, t); after a failure the code returns at once,
\* so a failed packet takes no more bytes.
PutU8(w, t) ==
  IF ~w.ok THEN w
  ELSE IF w.room > 0 THEN [w EXCEPT !.bytes = Append(@, t), !.room = @ - 1]
  ELSE [w EXCEPT !.ok = FALSE]

RECURSIVE PutAll(_, _)
PutAll(w, ts) == IF ts = <<>> THEN w ELSE PutAll(PutU8(w, Head(ts)), Tail(ts))

\* WPACKET_memcpy(pkt, p, len): all of it or nothing.
PutMem(w, p) ==
  IF Len(p) <= w.room THEN [w EXCEPT !.bytes = @ \o p, !.room = @ - Len(p)]
  ELSE [w EXCEPT !.ok = FALSE]

\* Mutant: DSS_SIGN is requested even when the signature list disables DSS.
GenericSignTypes_NoDssCheck(w, alg_a, v) ==
  LET w1 == IF "SSL_aRSA" \notin alg_a THEN PutU8(w, "SSL3_CT_RSA_SIGN") ELSE w
      w2 == PutU8(w1, "SSL3_CT_DSS_SIGN")
  IN  IF v >= TLS1_VERSION /\ "SSL_aECDSA" \notin alg_a THEN PutU8(w2, "TLS_CT_ECDSA_SIGN") ELSE w2
\* RSA_SIGN, DSS_SIGN and (from TLS 1.0) ECDSA_SIGN, each unless disabled.
GenericSignTypes(w, alg_a, v) ==
  LET w1 == IF "SSL_aRSA" \notin alg_a THEN PutU8(w, "SSL3_CT_RSA_SIGN") ELSE w
      w2 == IF "SSL_aDSS" \notin alg_a THEN PutU8(w1, "SSL3_CT_DSS_SIGN") ELSE w1
  IN  IF v >= TLS1_VERSION /\ "SSL_aECDSA" \notin alg_a THEN PutU8(w2, "TLS_CT_ECDSA_SIGN") ELSE w2

\* ctype: the custom list (s->cert->ctype) or NULL; c: s->s3.tmp.new_cipher;
\* v: s->version, compared as a number (so DTLS versions pass the TLS
\* checks).  The result is the value returned and the packet.
ssl3_get_req_cert_type(ctype, alg_a, c, v, room) ==
  LET k  == c.algorithm_mkey
      w0 == Packet(room)
      w1 == IF v >= TLS1_VERSION /\ "SSL_kGOST" \in k
            THEN PutAll(w0, <<"TLS_CT_GOST01_SIGN", "TLS_CT_GOST12_IANA_SIGN",
                              "TLS_CT_GOST12_IANA_512_SIGN", "TLS_CT_GOST12_LEGACY_SIGN",
                              "TLS_CT_GOST12_LEGACY_512_SIGN">>)
            ELSE w0
      w2 == IF v >= TLS1_2_VERSION /\ "SSL_kGOST18" \in k
            THEN PutAll(w1, <<"TLS_CT_GOST12_IANA_SIGN", "TLS_CT_GOST12_IANA_512_SIGN">>)
            ELSE w1
      w3 == IF v = SSL3_VERSION /\ "SSL_kDHE" \in k
            THEN LET d == PutU8(w2, "SSL3_CT_RSA_EPHEMERAL_DH")
                 IN  IF "SSL_aDSS" \notin alg_a THEN PutU8(d, "SSL3_CT_DSS_EPHEMERAL_DH") ELSE d
            ELSE w2
      w  == CASE ctype # NULL -> PutMem(w0, ctype)
              [] v >= TLS1_VERSION /\ k \cap {"SSL_kBDHE", "SSL_kBDHTPSK"} # {} ->
                   PutU8(w2, "TLS_CT_BIGN_SIGN")
              [] OTHER -> GenericSignTypes(w3, alg_a, v)
  IN  [ret |-> IF w.ok THEN 1 ELSE 0, bytes |-> w.bytes]

-----------------------------------------------------------------------------
VARIABLES
  weak,    \* the build keeps the weak suites
  tables,  \* the three tables, in source order until sorted
  sorted,  \* ssl_sort_cipher_list has run
  last     \* the last call: op, arg, result, bytes written

vars == <<weak, tables, sorted, last>>

SourceTables == SourceTablesOf(weak)
AllEntries == UNION {Range(SourceTables[j]) : j \in 1..3}

\* Lookups are asked for every id and name the source writes, so a weak
\* suite is also looked up in a build without it.
AllIds == {e.id : e \in WrittenEntries}
StdNames == {e.stdname : e \in WrittenEntries} \ {NULL}

NoCall == [op |-> "none", arg |-> NULL, res |-> NULL, len |-> 0]

\* No call is in progress: each action below is one call and its result,
\* and Return hands the result back before the caller makes the next one.
Idle == last = NoCall

Init ==
  /\ weak \in BOOLEAN
  /\ tables = SourceTables
  /\ sorted = FALSE
  /\ last = NoCall

\* Library initialisation sorts the tables, once (ssl_load_ciphers).
ssl_sort_cipher_list ==
  /\ ~sorted
  /\ Idle
  /\ tables' = [j \in 1..3 |-> SortTable(tables[j])]
  /\ sorted' = TRUE
  /\ UNCHANGED <<weak, last>>

GetCipherById ==
  /\ Idle
  /\ \E id \in AllIds \cup AbsentIds :
       last' = [op |-> "by_id", arg |-> id, res |-> ssl3_get_cipher_by_id(tables, id), len |-> 0]
  /\ UNCHANGED <<weak, tables, sorted>>

GetCipherByStdName ==
  /\ Idle
  /\ \E n \in StdNames \cup UnknownNames :
       last' = [op |-> "by_std_name", arg |-> n, res |-> ssl3_get_cipher_by_std_name(tables, n), len |-> 0]
  /\ UNCHANGED <<weak, tables, sorted>>

\* One side writes a suite into a hello (ssl3_put_cipher_by_char), the other
\* reads it back (ssl3_get_cipher_by_char) when two bytes were written.
PutThenGetCipherByChar ==
  /\ Idle
  /\ \E e \in AllEntries, ok \in BOOLEAN :
       LET put == ssl3_put_cipher_by_char(e, ok)
       IN last' = [op |-> "wire", arg |-> e,
                   res |-> IF put.len = 2 THEN ssl3_get_cipher_by_char(tables, put.out) ELSE NULL,
                   len |-> put.len]
  /\ UNCHANGED <<weak, tables, sorted>>

TlsVersions == {SSL3_VERSION, TLS1_VERSION, TLS1_1_VERSION, TLS1_2_VERSION, TLS1_3_VERSION}
DtlsVersions == {DTLS1_BAD_VER, DTLS1_VERSION, DTLS1_2_VERSION}

\* DTLS versions count down; DTLS1_BAD_VER is the oldest (ssl_local.h).
DtlsOrdinal(v) == IF v = DTLS1_BAD_VER THEN \hff00 ELSE v

\* Suite c can be negotiated at version v: its range for that protocol
\* family is set and contains v.
Usable(c, v) ==
  \/ v \in TlsVersions /\ c.min_tls # 0 /\ c.min_tls <= v /\ v <= c.max_tls
  \/ v \in DtlsVersions /\ c.min_dtls # 0
       /\ DtlsOrdinal(c.min_dtls) >= DtlsOrdinal(v) /\ DtlsOrdinal(v) >= DtlsOrdinal(c.max_dtls)

\* The record layer and the handshake digest ask for the handshake MAC and
\* PRF of the suite negotiated at a version (or before one is).
GetAlgorithm2 ==
  /\ Idle
  /\ \/ \E v \in TlsVersions \cup DtlsVersions :
          last' = [op |-> "alg2", arg |-> <<NULL, v>>, res |-> ssl_get_algorithm2(NULL, v), len |-> 0]
     \/ \E v \in TlsVersions \cup DtlsVersions, c \in AllEntries :
          /\ Usable(c, v)
          /\ last' = [op |-> "alg2", arg |-> <<c, v>>, res |-> ssl_get_algorithm2(c, v), len |-> 0]
  /\ UNCHANGED <<weak, tables, sorted>>

\* A hello is built (tls_construct_client_hello, tls_construct_server_hello,
\* outside src/) with its random field filled.  Every caller passes
\* SSL3_RANDOM_SIZE; shorter lengths, around the checks of the function, are
\* asked too.
SSL3_RANDOM_SIZE == 32
HelloLens == {3, 4, 8, 9, 11, 12, SSL3_RANDOM_SIZE}
HelloModes == {0, SSL_MODE_SEND_CLIENTHELLO_TIME, SSL_MODE_SEND_SERVERHELLO_TIME}

FillHelloRandom ==
  /\ Idle
  /\ \E server \in BOOLEAN, mode \in HelloModes, len \in HelloLens,
        dgrd \in Downgrades, rand \in {-1, 0, 1} :
       last' = [op |-> "hello_random",
                arg |-> [server |-> server, mode |-> mode, len |-> len, dgrd |-> dgrd,
                         rand |-> rand],
                res |-> ssl_fill_hello_random(server, mode, len, dgrd, rand), len |-> len]
  /\ UNCHANGED <<weak, tables, sorted>>

\* A server building a CertificateRequest (tls_construct_certificate_request,
\* outside src/) for the suite it negotiated at a version before TLS 1.3:
\* with or without a custom list, under each mask the signature list can
\* give, with no room, room for one type, or enough.
CertTypeMasks == SUBSET {"SSL_aRSA", "SSL_aDSS", "SSL_aECDSA"}
CustomCtypes == {NULL, <<"SSL3_CT_RSA_SIGN", "TLS_CT_ECDSA_SIGN">>}
PktRooms == {0, 1, 8}
\* The function reads only algorithm_mkey: one suite usable at v for each.
MkeyClasses(v) ==
  LET U == {e \in AllEntries : Usable(e, v)}
  IN  {CHOOSE e \in U : e.algorithm_mkey = k : k \in {e.algorithm_mkey : e \in U}}

GetReqCertType ==
  /\ Idle
  /\ \E v \in (TlsVersions \ {TLS1_3_VERSION}) \cup DtlsVersions :
     \E c \in MkeyClasses(v), ctype \in CustomCtypes, alg_a \in CertTypeMasks,
        room \in PktRooms :
       last' = [op |-> "cert_types",
                arg |-> [ctype |-> ctype, alg_a |-> alg_a, mkey |-> c.algorithm_mkey,
                         version |-> v],
                res |-> ssl3_get_req_cert_type(ctype, alg_a, c, v, room), len |-> room]
  /\ UNCHANGED <<weak, tables, sorted>>

Return ==
  /\ ~Idle
  /\ last' = NoCall
  /\ UNCHANGED <<weak, tables, sorted>>

Next ==
  \/ ssl_sort_cipher_list
  \/ GetCipherById
  \/ GetCipherByStdName
  \/ PutThenGetCipherByChar
  \/ GetAlgorithm2
  \/ FillHelloRandom
  \/ GetReqCertType
  \/ Return

Spec == Init /\ [][Next]_vars

-----------------------------------------------------------------------------
(***************************************************************************)
(* Properties.  The reference lookups read the tables as the source lays   *)
(* them out, without any ordering.                                         *)
(***************************************************************************)
FlatSource == FlattenSeq(SourceTables)

\* The entry with this id in the first table that has it.
RefById(id) ==
  LET hits == SelectSeq(FlatSource, LAMBDA e : e.id = id)
  IN IF hits = <<>> THEN NULL ELSE hits[1]

\* The first entry, in table order, with this standard name.
RefByStdName(n) ==
  LET hits == SelectSeq(FlatSource, LAMBDA e : e.stdname # NULL /\ e.stdname = n)
  IN IF hits = <<>> THEN NULL ELSE hits[1]

TypeOK ==
  /\ sorted \in BOOLEAN
  /\ \A j \in 1..3 : Range(tables[j]) = Range(SourceTables[j])
  /\ last.op \in {"none", "by_id", "by_std_name", "wire", "alg2", "hello_random",
                   "cert_types"}

(* Spec 4.1/8.1: once ssl_sort_cipher_list has run, the ids within each   *)
(* table strictly increase, so the binary search of ssl3_get_cipher_by_id  *)
(* is sound and no two entries of a table share an id; the sort keeps each *)
(* table's entries.                                                        *)
CatalogSortedUnique ==
  sorted =>
    \A j \in 1..3 :
      /\ Len(tables[j]) = Len(SourceTables[j])
      /\ \A i \in 1..Len(tables[j]) - 1 : tables[j][i].id < tables[j][i + 1].id

(* Spec 8.2: after the sort, ssl3_get_cipher_by_id finds exactly the entry *)
(* a linear scan of the three tables in order finds: every id present is   *)
(* found, in the right table, and an absent id gives NULL.                 *)
LookupByIdRoundTrip ==
  sorted /\ last.op = "by_id" => last.res = RefById(last.arg)

(* Spec 8.3: ssl3_get_cipher_by_std_name returns the first entry, in table *)
(* order, whose standard name is the one asked for, and NULL for a name    *)
(* no entry has (entries without a standard name never match).             *)
StdNameRoundTrip ==
  last.op = "by_std_name" => last.res = RefByStdName(last.arg)

(* Spec 4.2: a suite that ssl3_put_cipher_by_char writes as two bytes is   *)
(* read back by ssl3_get_cipher_by_char as the same entry, for every entry *)
(* of every table (TLS 1.3, TLS 1.2 including GOST and BIGN, SCSVs).       *)
WireRoundTrip ==
  sorted /\ last.op = "wire" /\ last.len = 2 => last.res = last.arg

(* ssl3_get_cipher, over indices 0 .. ssl3_num_ciphers() - 1, yields every *)
(* entry of ssl3_ciphers once, in strictly decreasing id order once the    *)
(* table is sorted, and NULL at the first index past the end.              *)
IndexEnumeratesCatalog ==
  LET N == ssl3_num_ciphers(tables)
  IN /\ {ssl3_get_cipher(tables, u) : u \in 0 .. N - 1} = Range(ssl3_ciphers(weak))
     /\ ssl3_get_cipher(tables, N) = NULL
     /\ sorted => \A u \in 1 .. N - 1 :
                    ssl3_get_cipher(tables, u - 1).id > ssl3_get_cipher(tables, u).id

(* ssl_get_algorithm2 never hands a suite negotiated at a version a PRF   *)
(* that version lacks: at TLS 1.2, TLS 1.3 and DTLS 1.2 never the legacy   *)
(* MD5/SHA-1 TLS1_PRF, below them never the SHA-256 or SHA-384 PRF (the    *)
(* PSK suites that allow TLS 1.0 carry SHA-384 and are downgraded).        *)
PrfSuitsVersion ==
  last.op = "alg2" /\ last.arg[1] # NULL =>
    IF Sha256Prf(last.arg[2]) THEN "TLS1_PRF" \notin last.res
    ELSE last.res \cap {"TLS1_PRF_SHA256", "TLS1_PRF_SHA384"} = {}

(* Spec 4.11 fill_random and the downgrade sentinels (8.8): for every     *)
(* length the marker fits in (above 8), the random field is byte for byte  *)
(* what the spec describes, built here position by position: the sentinel *)
(* requested in the last 8 bytes, else the big-endian time in the first 4 *)
(* when the mode bit of that side (client or server) is set, else random;  *)
(* the call returns 1, or RAND's failure as it is.  This covers the        *)
(* lengths 9 to 11, where the marker overwrites part of the time.          *)
HelloRandomLayout ==
  LET a == last.arg
      send_time == (a.server /\ a.mode = SSL_MODE_SEND_SERVERHELLO_TIME)
                   \/ (~a.server /\ a.mode = SSL_MODE_SEND_CLIENTHELLO_TIME)
      marker == IF a.dgrd = "DOWNGRADE_TO_1_2" THEN tls12downgrade ELSE tls11downgrade
      Byte(i) == CASE a.dgrd # "DOWNGRADE_NONE" /\ i > a.len - 8 -> marker[i - (a.len - 8)]
                   [] send_time /\ i <= 4 -> (HelloTime \div 2^(8 * (4 - i))) % 256
                   [] OTHER -> RandByte
  IN  last.op = "hello_random" /\ a.len > 8 =>
        /\ last.res.ret = IF a.rand > 0 THEN 1 ELSE a.rand
        /\ a.rand > 0 => last.res.buf = [i \in 1..a.len |-> Byte(i)]

(* ssl3_get_req_cert_type: a request that is written in full asks for the  *)
(* custom list exactly as configured (spec 4.4, client certificate types), *)
(* and otherwise for no type twice and for no RSA, DSS or ECDSA type whose *)
(* authentication the signature list disables ("mask of algorithms        *)
(* disabled by signature list"), whatever the suite, its GOST and SSLv3    *)
(* additions, and the version.                                             *)
RequestedCertTypesRespectMask ==
  LET a == last.arg
      T == Range(last.res.bytes)
  IN  last.op = "cert_types" /\ last.res.ret = 1 =>
        IF a.ctype # NULL THEN last.res.bytes = a.ctype
        ELSE /\ IsInjective(last.res.bytes)
             /\ "SSL3_CT_RSA_SIGN" \in T => "SSL_aRSA" \notin a.alg_a
             /\ T \cap {"SSL3_CT_DSS_SIGN", "SSL3_CT_DSS_EPHEMERAL_DH"} # {} =>
                  "SSL_aDSS" \notin a.alg_a
             /\ "TLS_CT_ECDSA_SIGN" \in T => "SSL_aECDSA" \notin a.alg_a

====
