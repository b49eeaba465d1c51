------------------------------ MODULE S3CipherEntriesA ------------------------------
(***************************************************************************)
(* The SSL_CIPHER initialisers of src/ssl/s3_lib.c, first part: the        *)
(* protocol versions they name, the Entry record, and the entries of       *)
(* tls13_ciphers and the start of ssl3_ciphers, in source order.  Each     *)
(* entry keeps the fields the catalog functions read; the bit masks are    *)
(* sets of the flag names OR-ed together.  Ids and standard names given    *)
(* by macros of the public OpenSSL headers carry those headers' values;    *)
(* the fork's BIGN names, whose header is not in src/, are their macro     *)
(* names.                                                                  *)
(***************************************************************************)

CONSTANT NULL  \* the null pointer (an entry without a standard name)

\* Protocol versions (include/openssl/prov_ssl.h)
SSL3_VERSION    == \h0300
TLS1_VERSION    == \h0301
TLS1_1_VERSION  == \h0302
TLS1_2_VERSION  == \h0303
TLS1_3_VERSION  == \h0304
DTLS1_VERSION   == \hFEFF
DTLS1_2_VERSION == \hFEFD
DTLS1_BAD_VER   == \h0100

\* One SSL_CIPHER initialiser, with the fields the lookups read.
Entry(valid, stdname, id, mkey, tls, dtls, alg2) ==
  [valid |-> valid, stdname |-> stdname, id |-> id, algorithm_mkey |-> mkey,
   min_tls |-> tls[1], max_tls |-> tls[2], min_dtls |-> dtls[1], max_dtls |-> dtls[2],
   algorithm2 |-> alg2]

TLS_AES_128_GCM_SHA256 ==
  Entry(1, "TLS_AES_128_GCM_SHA256", \h03001301, {"SSL_kANY"},
        <<TLS1_3_VERSION, TLS1_3_VERSION>>, <<0, 0>>, {"SSL_HANDSHAKE_MAC_SHA256"})
TLS_AES_256_GCM_SHA384 ==
  Entry(1, "TLS_AES_256_GCM_SHA384", \h03001302, {"SSL_kANY"},
        <<TLS1_3_VERSION, TLS1_3_VERSION>>, <<0, 0>>, {"SSL_HANDSHAKE_MAC_SHA384"})
TLS_CHACHA20_POLY1305_SHA256 ==
  Entry(1, "TLS_CHACHA20_POLY1305_SHA256", \h03001303, {"SSL_kANY"},
        <<TLS1_3_VERSION, TLS1_3_VERSION>>, <<0, 0>>, {"SSL_HANDSHAKE_MAC_SHA256"})
TLS_AES_128_CCM_SHA256 ==
  Entry(1, "TLS_AES_128_CCM_SHA256", \h03001304, {"SSL_kANY"},
        <<TLS1_3_VERSION, TLS1_3_VERSION>>, <<0, 0>>, {"SSL_HANDSHAKE_MAC_SHA256"})
TLS_AES_128_CCM_8_SHA256 ==
  Entry(1, "TLS_AES_128_CCM_8_SHA256", \h03001305, {"SSL_kANY"},
        <<TLS1_3_VERSION, TLS1_3_VERSION>>, <<0, 0>>, {"SSL_HANDSHAKE_MAC_SHA256"})
RSA_NULL_MD5 ==
  Entry(1, "TLS_RSA_WITH_NULL_MD5", \h03000001, {"SSL_kRSA"},
        <<SSL3_VERSION, TLS1_2_VERSION>>, <<DTLS1_BAD_VER, DTLS1_2_VERSION>>, {"SSL_HANDSHAKE_MAC_DEFAULT", "TLS1_PRF"})
RSA_NULL_SHA ==
  Entry(1, "TLS_RSA_WITH_NULL_SHA", \h03000002, {"SSL_kRSA"},
        <<SSL3_VERSION, TLS1_2_VERSION>>, <<DTLS1_BAD_VER, DTLS1_2_VERSION>>, {"SSL_HANDSHAKE_MAC_DEFAULT", "TLS1_PRF"})
RSA_DES_192_CBC3_SHA ==
  Entry(1, "TLS_RSA_WITH_3DES_EDE_CBC_SHA", \h0300000a, {"SSL_kRSA"},
        <<SSL3_VERSION, TLS1_2_VERSION>>, <<DTLS1_BAD_VER, DTLS1_2_VERSION>>, {"SSL_HANDSHAKE_MAC_DEFAULT", "TLS1_PRF"})
DHE_DSS_DES_192_CBC3_SHA ==
  Entry(1, "TLS_DHE_DSS_WITH_3DES_EDE_CBC_SHA", \h03000013, {"SSL_kDHE"},
        <<SSL3_VERSION, TLS1_2_VERSION>>, <<DTLS1_BAD_VER, DTLS1_2_VERSION>>, {"SSL_HANDSHAKE_MAC_DEFAULT", "TLS1_PRF"})
DHE_RSA_DES_192_CBC3_SHA ==
  Entry(1, "TLS_DHE_RSA_WITH_3DES_EDE_CBC_SHA", \h03000016, {"SSL_kDHE"},
        <<SSL3_VERSION, TLS1_2_VERSION>>, <<DTLS1_BAD_VER, DTLS1_2_VERSION>>, {"SSL_HANDSHAKE_MAC_DEFAULT", "TLS1_PRF"})
ADH_DES_192_CBC_SHA ==
  Entry(1, "TLS_DH_anon_WITH_3DES_EDE_CBC_SHA", \h0300001b, {"SSL_kDHE"},
        <<SSL3_VERSION, TLS1_2_VERSION>>, <<DTLS1_BAD_VER, DTLS1_2_VERSION>>, {"SSL_HANDSHAKE_MAC_DEFAULT", "TLS1_PRF"})
RSA_WITH_AES_128_SHA ==
  Entry(1, "TLS_RSA_WITH_AES_128_CBC_SHA", \h0300002f, {"SSL_kRSA"},
        <<SSL3_VERSION, TLS1_2_VERSION>>, <<DTLS1_BAD_VER, DTLS1_2_VERSION>>, {"SSL_HANDSHAKE_MAC_DEFAULT", "TLS1_PRF"})
DHE_DSS_WITH_AES_128_SHA ==
  Entry(1, "TLS_DHE_DSS_WITH_AES_128_CBC_SHA", \h03000032, {"SSL_kDHE"},
        <<SSL3_VERSION, TLS1_2_VERSION>>, <<DTLS1_BAD_VER, DTLS1_2_VERSION>>, {"SSL_HANDSHAKE_MAC_DEFAULT", "TLS1_PRF"})
DHE_RSA_WITH_AES_128_SHA ==
  Entry(1, "TLS_DHE_RSA_WITH_AES_128_CBC_SHA", \h03000033, {"SSL_kDHE"},
        <<SSL3_VERSION, TLS1_2_VERSION>>, <<DTLS1_BAD_VER, DTLS1_2_VERSION>>, {"SSL_HANDSHAKE_MAC_DEFAULT", "TLS1_PRF"})
ADH_WITH_AES_128_SHA ==
  Entry(1, "TLS_DH_anon_WITH_AES_128_CBC_SHA", \h03000034, {"SSL_kDHE"},
        <<SSL3_VERSION, TLS1_2_VERSION>>, <<DTLS1_BAD_VER, DTLS1_2_VERSION>>, {"SSL_HANDSHAKE_MAC_DEFAULT", "TLS1_PRF"})
RSA_WITH_AES_256_SHA ==
  Entry(1, "TLS_RSA_WITH_AES_256_CBC_SHA", \h03000035, {"SSL_kRSA"},
        <<SSL3_VERSION, TLS1_2_VERSION>>, <<DTLS1_BAD_VER, DTLS1_2_VERSION>>, {"SSL_HANDSHAKE_MAC_DEFAULT", "TLS1_PRF"})
DHE_DSS_WITH_AES_256_SHA ==
  Entry(1, "TLS_DHE_DSS_WITH_AES_256_CBC_SHA", \h03000038, {"SSL_kDHE"},
        <<SSL3_VERSION, TLS1_2_VERSION>>, <<DTLS1_BAD_VER, DTLS1_2_VERSION>>, {"SSL_HANDSHAKE_MAC_DEFAULT", "TLS1_PRF"})
DHE_RSA_WITH_AES_256_SHA ==
  Entry(1, "TLS_DHE_RSA_WITH_AES_256_CBC_SHA", \h03000039, {"SSL_kDHE"},
        <<SSL3_VERSION, TLS1_2_VERSION>>, <<DTLS1_BAD_VER, DTLS1_2_VERSION>>, {"SSL_HANDSHAKE_MAC_DEFAULT", "TLS1_PRF"})
ADH_WITH_AES_256_SHA ==
  Entry(1, "TLS_DH_anon_WITH_AES_256_CBC_SHA", \h0300003a, {"SSL_kDHE"},
        <<SSL3_VERSION, TLS1_2_VERSION>>, <<DTLS1_BAD_VER, DTLS1_2_VERSION>>, {"SSL_HANDSHAKE_MAC_DEFAULT", "TLS1_PRF"})
RSA_WITH_NULL_SHA256 ==
  Entry(1, "TLS_RSA_WITH_NULL_SHA256", \h0300003b, {"SSL_kRSA"},
        <<TLS1_2_VERSION, TLS1_2_VERSION>>, <<DTLS1_2_VERSION, DTLS1_2_VERSION>>, {"SSL_HANDSHAKE_MAC_DEFAULT", "TLS1_PRF"})
RSA_WITH_AES_128_SHA256 ==
  Entry(1, "TLS_RSA_WITH_AES_128_CBC_SHA256", \h0300003c, {"SSL_kRSA"},
        <<TLS1_2_VERSION, TLS1_2_VERSION>>, <<DTLS1_2_VERSION, DTLS1_2_VERSION>>, {"SSL_HANDSHAKE_MAC_DEFAULT", "TLS1_PRF"})
RSA_WITH_AES_256_SHA256 ==
  Entry(1, "TLS_RSA_WITH_AES_256_CBC_SHA256", \h0300003d, {"SSL_kRSA"},
        <<TLS1_2_VERSION, TLS1_2_VERSION>>, <<DTLS1_2_VERSION, DTLS1_2_VERSION>>, {"SSL_HANDSHAKE_MAC_DEFAULT", "TLS1_PRF"})
DHE_DSS_WITH_AES_128_SHA256 ==
  Entry(1, "TLS_DHE_DSS_WITH_AES_128_CBC_SHA256", \h03000040, {"SSL_kDHE"},
        <<TLS1_2_VERSION, TLS1_2_VERSION>>, <<DTLS1_2_VERSION, DTLS1_2_VERSION>>, {"SSL_HANDSHAKE_MAC_DEFAULT", "TLS1_PRF"})
DHE_RSA_WITH_AES_128_SHA256 ==
  Entry(1, "TLS_DHE_RSA_WITH_AES_128_CBC_SHA256", \h03000067, {"SSL_kDHE"},
        <<TLS1_2_VERSION, TLS1_2_VERSION>>, <<DTLS1_2_VERSION, DTLS1_2_VERSION>>, {"SSL_HANDSHAKE_MAC_DEFAULT", "TLS1_PRF"})
DHE_DSS_WITH_AES_256_SHA256 ==
  Entry(1, "TLS_DHE_DSS_WITH_AES_256_CBC_SHA256", \h0300006a, {"SSL_kDHE"},
        <<TLS1_2_VERSION, TLS1_2_VERSION>>, <<DTLS1_2_VERSION, DTLS1_2_VERSION>>, {"SSL_HANDSHAKE_MAC_DEFAULT", "TLS1_PRF"})
DHE_RSA_WITH_AES_256_SHA256 ==
  Entry(1, "TLS_DHE_RSA_WITH_AES_256_CBC_SHA256", \h0300006b, {"SSL_kDHE"},
        <<TLS1_2_VERSION, TLS1_2_VERSION>>, <<DTLS1_2_VERSION, DTLS1_2_VERSION>>, {"SSL_HANDSHAKE_MAC_DEFAULT", "TLS1_PRF"})
ADH_WITH_AES_128_SHA256 ==
  Entry(1, "TLS_DH_anon_WITH_AES_128_CBC_SHA256", \h0300006c, {"SSL_kDHE"},
        <<TLS1_2_VERSION, TLS1_2_VERSION>>, <<DTLS1_2_VERSION, DTLS1_2_VERSION>>, {"SSL_HANDSHAKE_MAC_DEFAULT", "TLS1_PRF"})
ADH_WITH_AES_256_SHA256 ==
  Entry(1, "TLS_DH_anon_WITH_AES_256_CBC_SHA256", \h0300006d, {"SSL_kDHE"},
        <<TLS1_2_VERSION, TLS1_2_VERSION>>, <<DTLS1_2_VERSION, DTLS1_2_VERSION>>, {"SSL_HANDSHAKE_MAC_DEFAULT", "TLS1_PRF"})
RSA_WITH_AES_128_GCM_SHA256 ==
  Entry(1, "TLS_RSA_WITH_AES_128_GCM_SHA256", \h0300009c, {"SSL_kRSA"},
        <<TLS1_2_VERSION, TLS1_2_VERSION>>, <<DTLS1_2_VERSION, DTLS1_2_VERSION>>, {"SSL_HANDSHAKE_MAC_SHA256", "TLS1_PRF_SHA256"})
RSA_WITH_AES_256_GCM_SHA384 ==
  Entry(1, "TLS_RSA_WITH_AES_256_GCM_SHA384", \h0300009d, {"SSL_kRSA"},
        <<TLS1_2_VERSION, TLS1_2_VERSION>>, <<DTLS1_2_VERSION, DTLS1_2_VERSION>>, {"SSL_HANDSHAKE_MAC_SHA384", "TLS1_PRF_SHA384"})
DHE_RSA_WITH_AES_128_GCM_SHA256 ==
  Entry(1, "TLS_DHE_RSA_WITH_AES_128_GCM_SHA256", \h0300009e, {"SSL_kDHE"},
        <<TLS1_2_VERSION, TLS1_2_VERSION>>, <<DTLS1_2_VERSION, DTLS1_2_VERSION>>, {"SSL_HANDSHAKE_MAC_SHA256", "TLS1_PRF_SHA256"})
DHE_RSA_WITH_AES_256_GCM_SHA384 ==
  Entry(1, "TLS_DHE_RSA_WITH_AES_256_GCM_SHA384", \h0300009f, {"SSL_kDHE"},
        <<TLS1_2_VERSION, TLS1_2_VERSION>>, <<DTLS1_2_VERSION, DTLS1_2_VERSION>>, {"SSL_HANDSHAKE_MAC_SHA384", "TLS1_PRF_SHA384"})
DHE_DSS_WITH_AES_128_GCM_SHA256 ==
  Entry(1, "TLS_DHE_DSS_WITH_AES_128_GCM_SHA256", \h030000a2, {"SSL_kDHE"},
        <<TLS1_2_VERSION, TLS1_2_VERSION>>, <<DTLS1_2_VERSION, DTLS1_2_VERSION>>, {"SSL_HANDSHAKE_MAC_SHA256", "TLS1_PRF_SHA256"})
DHE_DSS_WITH_AES_256_GCM_SHA384 ==
  Entry(1, "TLS_DHE_DSS_WITH_AES_256_GCM_SHA384", \h030000a3, {"SSL_kDHE"},
        <<TLS1_2_VERSION, TLS1_2_VERSION>>, <<DTLS1_2_VERSION, DTLS1_2_VERSION>>, {"SSL_HANDSHAKE_MAC_SHA384", "TLS1_PRF_SHA384"})
ADH_WITH_AES_128_GCM_SHA256 ==
  Entry(1, "TLS_DH_anon_WITH_AES_128_GCM_SHA256", \h030000a6, {"SSL_kDHE"},
        <<TLS1_2_VERSION, TLS1_2_VERSION>>, <<DTLS1_2_VERSION, DTLS1_2_VERSION>>, {"SSL_HANDSHAKE_MAC_SHA256", "TLS1_PRF_SHA256"})
ADH_WITH_AES_256_GCM_SHA384 ==
  Entry(1, "TLS_DH_anon_WITH_AES_256_GCM_SHA384", \h030000a7, {"SSL_kDHE"},
        <<TLS1_2_VERSION, TLS1_2_VERSION>>, <<DTLS1_2_VERSION, DTLS1_2_VERSION>>, {"SSL_HANDSHAKE_MAC_SHA384", "TLS1_PRF_SHA384"})
RSA_WITH_AES_128_CCM ==
  Entry(1, "TLS_RSA_WITH_AES_128_CCM", \h0300c09c, {"SSL_kRSA"},
        <<TLS1_2_VERSION, TLS1_2_VERSION>>, <<DTLS1_2_VERSION, DTLS1_2_VERSION>>, {"SSL_HANDSHAKE_MAC_SHA256", "TLS1_PRF_SHA256"})
RSA_WITH_AES_256_CCM ==
  Entry(1, "TLS_RSA_WITH_AES_256_CCM", \h0300c09d, {"SSL_kRSA"},
        <<TLS1_2_VERSION, TLS1_2_VERSION>>, <<DTLS1_2_VERSION, DTLS1_2_VERSION>>, {"SSL_HANDSHAKE_MAC_SHA256", "TLS1_PRF_SHA256"})
DHE_RSA_WITH_AES_128_CCM ==
  Entry(1, "TLS_DHE_RSA_WITH_AES_128_CCM", \h0300c09e, {"SSL_kDHE"},
        <<TLS1_2_VERSION, TLS1_2_VERSION>>, <<DTLS1_2_VERSION, DTLS1_2_VERSION>>, {"SSL_HANDSHAKE_MAC_SHA256", "TLS1_PRF_SHA256"})
DHE_RSA_WITH_AES_256_CCM ==
  Entry(1, "TLS_DHE_RSA_WITH_AES_256_CCM", \h0300c09f, {"SSL_kDHE"},
        <<TLS1_2_VERSION, TLS1_2_VERSION>>, <<DTLS1_2_VERSION, DTLS1_2_VERSION>>, {"SSL_HANDSHAKE_MAC_SHA256", "TLS1_PRF_SHA256"})
RSA_WITH_AES_128_CCM_8 ==
  Entry(1, "TLS_RSA_WITH_AES_128_CCM_8", \h0300c0a0, {"SSL_kRSA"},
        <<TLS1_2_VERSION, TLS1_2_VERSION>>, <<DTLS1_2_VERSION, DTLS1_2_VERSION>>, {"SSL_HANDSHAKE_MAC_SHA256", "TLS1_PRF_SHA256"})
RSA_WITH_AES_256_CCM_8 ==
  Entry(1, "TLS_RSA_WITH_AES_256_CCM_8", \h0300c0a1, {"SSL_kRSA"},
        <<TLS1_2_VERSION, TLS1_2_VERSION>>, <<DTLS1_2_VERSION, DTLS1_2_VERSION>>, {"SSL_HANDSHAKE_MAC_SHA256", "TLS1_PRF_SHA256"})
DHE_RSA_WITH_AES_128_CCM_8 ==
  Entry(1, "TLS_DHE_RSA_WITH_AES_128_CCM_8", \h0300c0a2, {"SSL_kDHE"},
        <<TLS1_2_VERSION, TLS1_2_VERSION>>, <<DTLS1_2_VERSION, DTLS1_2_VERSION>>, {"SSL_HANDSHAKE_MAC_SHA256", "TLS1_PRF_SHA256"})
DHE_RSA_WITH_AES_256_CCM_8 ==
  Entry(1, "TLS_DHE_RSA_WITH_AES_256_CCM_8", \h0300c0a3, {"SSL_kDHE"},
        <<TLS1_2_VERSION, TLS1_2_VERSION>>, <<DTLS1_2_VERSION, DTLS1_2_VERSION>>, {"SSL_HANDSHAKE_MAC_SHA256", "TLS1_PRF_SHA256"})
PSK_WITH_AES_128_CCM ==
  Entry(1, "TLS_PSK_WITH_AES_128_CCM", \h0300c0a4, {"SSL_kPSK"},
        <<TLS1_2_VERSION, TLS1_2_VERSION>>, <<DTLS1_2_VERSION, DTLS1_2_VERSION>>, {"SSL_HANDSHAKE_MAC_SHA256", "TLS1_PRF_SHA256"})
PSK_WITH_AES_256_CCM ==
  Entry(1, "TLS_PSK_WITH_AES_256_CCM", \h0300c0a5, {"SSL_kPSK"},
        <<TLS1_2_VERSION, TLS1_2_VERSION>>, <<DTLS1_2_VERSION, DTLS1_2_VERSION>>, {"SSL_HANDSHAKE_MAC_SHA256", "TLS1_PRF_SHA256"})
DHE_PSK_WITH_AES_128_CCM ==
  Entry(1, "TLS_DHE_PSK_WITH_AES_128_CCM", \h0300c0a6, {"SSL_kDHEPSK"},
        <<TLS1_2_VERSION, TLS1_2_VERSION>>, <<DTLS1_2_VERSION, DTLS1_2_VERSION>>, {"SSL_HANDSHAKE_MAC_SHA256", "TLS1_PRF_SHA256"})
DHE_PSK_WITH_AES_256_CCM ==
  Entry(1, "TLS_DHE_PSK_WITH_AES_256_CCM", \h0300c0a7, {"SSL_kDHEPSK"},
        <<TLS1_2_VERSION, TLS1_2_VERSION>>, <<DTLS1_2_VERSION, DTLS1_2_VERSION>>, {"SSL_HANDSHAKE_MAC_SHA256", "TLS1_PRF_SHA256"})
PSK_WITH_AES_128_CCM_8 ==
  Entry(1, "TLS_PSK_WITH_AES_128_CCM_8", \h0300c0a8, {"SSL_kPSK"},
        <<TLS1_2_VERSION, TLS1_2_VERSION>>, <<DTLS1_2_VERSION, DTLS1_2_VERSION>>, {"SSL_HANDSHAKE_MAC_SHA256", "TLS1_PRF_SHA256"})
PSK_WITH_AES_256_CCM_8 ==
  Entry(1, "TLS_PSK_WITH_AES_256_CCM_8", \h0300c0a9, {"SSL_kPSK"},
        <<TLS1_2_VERSION, TLS1_2_VERSION>>, <<DTLS1_2_VERSION, DTLS1_2_VERSION>>, {"SSL_HANDSHAKE_MAC_SHA256", "TLS1_PRF_SHA256"})
DHE_PSK_WITH_AES_128_CCM_8 ==
  Entry(1, "TLS_PSK_DHE_WITH_AES_128_CCM_8", \h0300c0aa, {"SSL_kDHEPSK"},
        <<TLS1_2_VERSION, TLS1_2_VERSION>>, <<DTLS1_2_VERSION, DTLS1_2_VERSION>>, {"SSL_HANDSHAKE_MAC_SHA256", "TLS1_PRF_SHA256"})
DHE_PSK_WITH_AES_256_CCM_8 ==
  Entry(1, "TLS_PSK_DHE_WITH_AES_256_CCM_8", \h0300c0ab, {"SSL_kDHEPSK"},
        <<TLS1_2_VERSION, TLS1_2_VERSION>>, <<DTLS1_2_VERSION, DTLS1_2_VERSION>>, {"SSL_HANDSHAKE_MAC_SHA256", "TLS1_PRF_SHA256"})
ECDHE_ECDSA_WITH_AES_128_CCM ==
  Entry(1, "TLS_ECDHE_ECDSA_WITH_AES_128_CCM", \h0300c0ac, {"SSL_kECDHE"},
        <<TLS1_2_VERSION, TLS1_2_VERSION>>, <<DTLS1_2_VERSION, DTLS1_2_VERSION>>, {"SSL_HANDSHAKE_MAC_SHA256", "TLS1_PRF_SHA256"})
ECDHE_ECDSA_WITH_AES_256_CCM ==
  Entry(1, "TLS_ECDHE_ECDSA_WITH_AES_256_CCM", \h0300c0ad, {"SSL_kECDHE"},
        <<TLS1_2_VERSION, TLS1_2_VERSION>>, <<DTLS1_2_VERSION, DTLS1_2_VERSION>>, {"SSL_HANDSHAKE_MAC_SHA256", "TLS1_PRF_SHA256"})
ECDHE_ECDSA_WITH_AES_128_CCM_8 ==
  Entry(1, "TLS_ECDHE_ECDSA_WITH_AES_128_CCM_8", \h0300c0ae, {"SSL_kECDHE"},
        <<TLS1_2_VERSION, TLS1_2_VERSION>>, <<DTLS1_2_VERSION, DTLS1_2_VERSION>>, {"SSL_HANDSHAKE_MAC_SHA256", "TLS1_PRF_SHA256"})
ECDHE_ECDSA_WITH_AES_256_CCM_8 ==
  Entry(1, "TLS_ECDHE_ECDSA_WITH_AES_256_CCM_8", \h0300c0af, {"SSL_kECDHE"},
        <<TLS1_2_VERSION, TLS1_2_VERSION>>, <<DTLS1_2_VERSION, DTLS1_2_VERSION>>, {"SSL_HANDSHAKE_MAC_SHA256", "TLS1_PRF_SHA256"})
ECDHE_ECDSA_WITH_NULL_SHA ==
  Entry(1, "TLS_ECDHE_ECDSA_WITH_NULL_SHA", \h0300c006, {"SSL_kECDHE"},
        <<TLS1_VERSION, TLS1_2_VERSION>>, <<DTLS1_BAD_VER, DTLS1_2_VERSION>>, {"SSL_HANDSHAKE_MAC_DEFAULT", "TLS1_PRF"})
ECDHE_ECDSA_WITH_DES_192_CBC3_SHA ==
  Entry(1, "TLS_ECDHE_ECDSA_WITH_3DES_EDE_CBC_SHA", \h0300c008, {"SSL_kECDHE"},
        <<TLS1_VERSION, TLS1_2_VERSION>>, <<DTLS1_BAD_VER, DTLS1_2_VERSION>>, {"SSL_HANDSHAKE_MAC_DEFAULT", "TLS1_PRF"})
ECDHE_ECDSA_WITH_AES_128_CBC_SHA ==
  Entry(1, "TLS_ECDHE_ECDSA_WITH_AES_128_CBC_SHA", \h0300c009, {"SSL_kECDHE"},
        <<TLS1_VERSION, TLS1_2_VERSION>>, <<DTLS1_BAD_VER, DTLS1_2_VERSION>>, {"SSL_HANDSHAKE_MAC_DEFAULT", "TLS1_PRF"})
ECDHE_ECDSA_WITH_AES_256_CBC_SHA ==
  Entry(1, "TLS_ECDHE_ECDSA_WITH_AES_256_CBC_SHA", \h0300c00a, {"SSL_kECDHE"},
        <<TLS1_VERSION, TLS1_2_VERSION>>, <<DTLS1_BAD_VER, DTLS1_2_VERSION>>, {"SSL_HANDSHAKE_MAC_DEFAULT", "TLS1_PRF"})
ECDHE_RSA_WITH_NULL_SHA ==
  Entry(1, "TLS_ECDHE_RSA_WITH_NULL_SHA", \h0300c010, {"SSL_kECDHE"},
        <<TLS1_VERSION, TLS1_2_VERSION>>, <<DTLS1_BAD_VER, DTLS1_2_VERSION>>, {"SSL_HANDSHAKE_MAC_DEFAULT", "TLS1_PRF"})
ECDHE_RSA_WITH_DES_192_CBC3_SHA ==
  Entry(1, "TLS_ECDHE_RSA_WITH_3DES_EDE_CBC_SHA", \h0300c012, {"SSL_kECDHE"},
        <<TLS1_VERSION, TLS1_2_VERSION>>, <<DTLS1_BAD_VER, DTLS1_2_VERSION>>, {"SSL_HANDSHAKE_MAC_DEFAULT", "TLS1_PRF"})
ECDHE_RSA_WITH_AES_128_CBC_SHA ==
  Entry(1, "TLS_ECDHE_RSA_WITH_AES_128_CBC_SHA", \h0300c013, {"SSL_kECDHE"},
        <<TLS1_VERSION, TLS1_2_VERSION>>, <<DTLS1_BAD_VER, DTLS1_2_VERSION>>, {"SSL_HANDSHAKE_MAC_DEFAULT", "TLS1_PRF"})
ECDHE_RSA_WITH_AES_256_CBC_SHA ==
  Entry(1, "TLS_ECDHE_RSA_WITH_AES_256_CBC_SHA", \h0300c014, {"SSL_kECDHE"},
        <<TLS1_VERSION, TLS1_2_VERSION>>, <<DTLS1_BAD_VER, DTLS1_2_VERSION>>, {"SSL_HANDSHAKE_MAC_DEFAULT", "TLS1_PRF"})
ECDH_anon_WITH_NULL_SHA ==
  Entry(1, "TLS_ECDH_anon_WITH_NULL_SHA", \h0300c015, {"SSL_kECDHE"},
        <<TLS1_VERSION, TLS1_2_VERSION>>, <<DTLS1_BAD_VER, DTLS1_2_VERSION>>, {"SSL_HANDSHAKE_MAC_DEFAULT", "TLS1_PRF"})
ECDH_anon_WITH_DES_192_CBC3_SHA ==
  Entry(1, "TLS_ECDH_anon_WITH_3DES_EDE_CBC_SHA", \h0300c017, {"SSL_kECDHE"},
        <<TLS1_VERSION, TLS1_2_VERSION>>, <<DTLS1_BAD_VER, DTLS1_2_VERSION>>, {"SSL_HANDSHAKE_MAC_DEFAULT", "TLS1_PRF"})
ECDH_anon_WITH_AES_128_CBC_SHA ==
  Entry(1, "TLS_ECDH_anon_WITH_AES_128_CBC_SHA", \h0300c018, {"SSL_kECDHE"},
        <<TLS1_VERSION, TLS1_2_VERSION>>, <<DTLS1_BAD_VER, DTLS1_2_VERSION>>, {"SSL_HANDSHAKE_MAC_DEFAULT", "TLS1_PRF"})
ECDH_anon_WITH_AES_256_CBC_SHA ==
  Entry(1, "TLS_ECDH_anon_WITH_AES_256_CBC_SHA", \h0300c019, {"SSL_kECDHE"},
        <<TLS1_VERSION, TLS1_2_VERSION>>, <<DTLS1_BAD_VER, DTLS1_2_VERSION>>, {"SSL_HANDSHAKE_MAC_DEFAULT", "TLS1_PRF"})
ECDHE_ECDSA_WITH_AES_128_SHA256 ==
  Entry(1, "TLS_ECDHE_ECDSA_WITH_AES_128_CBC_SHA256", \h0300c023, {"SSL_kECDHE"},
        <<TLS1_2_VERSION, TLS1_2_VERSION>>, <<DTLS1_2_VERSION, DTLS1_2_VERSION>>, {"SSL_HANDSHAKE_MAC_SHA256", "TLS1_PRF_SHA256"})
ECDHE_ECDSA_WITH_AES_256_SHA384 ==
  Entry(1, "TLS_ECDHE_ECDSA_WITH_AES_256_CBC_SHA384", \h0300c024, {"SSL_kECDHE"},
        <<TLS1_2_VERSION, TLS1_2_VERSION>>, <<DTLS1_2_VERSION, DTLS1_2_VERSION>>, {"SSL_HANDSHAKE_MAC_SHA384", "TLS1_PRF_SHA384"})
ECDHE_RSA_WITH_AES_128_SHA256 ==
  Entry(1, "TLS_ECDHE_RSA_WITH_AES_128_CBC_SHA256", \h0300c027, {"SSL_kECDHE"},
        <<TLS1_2_VERSION, TLS1_2_VERSION>>, <<DTLS1_2_VERSION, DTLS1_2_VERSION>>, {"SSL_HANDSHAKE_MAC_SHA256", "TLS1_PRF_SHA256"})
ECDHE_RSA_WITH_AES_256_SHA384 ==
  Entry(1, "TLS_ECDHE_RSA_WITH_AES_256_CBC_SHA384", \h0300c028, {"SSL_kECDHE"},
        <<TLS1_2_VERSION, TLS1_2_VERSION>>, <<DTLS1_2_VERSION, DTLS1_2_VERSION>>, {"SSL_HANDSHAKE_MAC_SHA384", "TLS1_PRF_SHA384"})
ECDHE_ECDSA_WITH_AES_128_GCM_SHA256 ==
  Entry(1, "TLS_ECDHE_ECDSA_WITH_AES_128_GCM_SHA256", \h0300c02b, {"SSL_kECDHE"},
        <<TLS1_2_VERSION, TLS1_2_VERSION>>, <<DTLS1_2_VERSION, DTLS1_2_VERSION>>, {"SSL_HANDSHAKE_MAC_SHA256", "TLS1_PRF_SHA256"})
ECDHE_ECDSA_WITH_AES_256_GCM_SHA384 ==
  Entry(1, "TLS_ECDHE_ECDSA_WITH_AES_256_GCM_SHA384", \h0300c02c, {"SSL_kECDHE"},
        <<TLS1_2_VERSION, TLS1_2_VERSION>>, <<DTLS1_2_VERSION, DTLS1_2_VERSION>>, {"SSL_HANDSHAKE_MAC_SHA384", "TLS1_PRF_SHA384"})
ECDHE_RSA_WITH_AES_128_GCM_SHA256 ==
  Entry(1, "TLS_ECDHE_RSA_WITH_AES_128_GCM_SHA256", \h0300c02f, {"SSL_kECDHE"},
        <<TLS1_2_VERSION, TLS1_2_VERSION>>, <<DTLS1_2_VERSION, DTLS1_2_VERSION>>, {"SSL_HANDSHAKE_MAC_SHA256", "TLS1_PRF_SHA256"})
ECDHE_RSA_WITH_AES_256_GCM_SHA384 ==
  Entry(1, "TLS_ECDHE_RSA_WITH_AES_256_GCM_SHA384", \h0300c030, {"SSL_kECDHE"},
        <<TLS1_2_VERSION, TLS1_2_VERSION>>, <<DTLS1_2_VERSION, DTLS1_2_VERSION>>, {"SSL_HANDSHAKE_MAC_SHA384", "TLS1_PRF_SHA384"})
PSK_WITH_NULL_SHA ==
  Entry(1, "TLS_PSK_WITH_NULL_SHA", \h0300002c, {"SSL_kPSK"},
        <<SSL3_VERSION, TLS1_2_VERSION>>, <<DTLS1_BAD_VER, DTLS1_2_VERSION>>, {"SSL_HANDSHAKE_MAC_DEFAULT", "TLS1_PRF"})
DHE_PSK_WITH_NULL_SHA ==
  Entry(1, "TLS_DHE_PSK_WITH_NULL_SHA", \h0300002d, {"SSL_kDHEPSK"},
        <<SSL3_VERSION, TLS1_2_VERSION>>, <<DTLS1_BAD_VER, DTLS1_2_VERSION>>, {"SSL_HANDSHAKE_MAC_DEFAULT", "TLS1_PRF"})
RSA_PSK_WITH_NULL_SHA ==
  Entry(1, "TLS_RSA_PSK_WITH_NULL_SHA", \h0300002e, {"SSL_kRSAPSK"},
        <<SSL3_VERSION, TLS1_2_VERSION>>, <<DTLS1_BAD_VER, DTLS1_2_VERSION>>, {"SSL_HANDSHAKE_MAC_DEFAULT", "TLS1_PRF"})
PSK_WITH_3DES_EDE_CBC_SHA ==
  Entry(1, "TLS_PSK_WITH_3DES_EDE_CBC_SHA", \h0300008b, {"SSL_kPSK"},
        <<SSL3_VERSION, TLS1_2_VERSION>>, <<DTLS1_BAD_VER, DTLS1_2_VERSION>>, {"SSL_HANDSHAKE_MAC_DEFAULT", "TLS1_PRF"})
PSK_WITH_AES_128_CBC_SHA ==
  Entry(1, "TLS_PSK_WITH_AES_128_CBC_SHA", \h0300008c, {"SSL_kPSK"},
        <<SSL3_VERSION, TLS1_2_VERSION>>, <<DTLS1_BAD_VER, DTLS1_2_VERSION>>, {"SSL_HANDSHAKE_MAC_DEFAULT", "TLS1_PRF"})
PSK_WITH_AES_256_CBC_SHA ==
  Entry(1, "TLS_PSK_WITH_AES_256_CBC_SHA", \h0300008d, {"SSL_kPSK"},
        <<SSL3_VERSION, TLS1_2_VERSION>>, <<DTLS1_BAD_VER, DTLS1_2_VERSION>>, {"SSL_HANDSHAKE_MAC_DEFAULT", "TLS1_PRF"})
DHE_PSK_WITH_3DES_EDE_CBC_SHA ==
  Entry(1, "TLS_DHE_PSK_WITH_3DES_EDE_CBC_SHA", \h0300008f, {"SSL_kDHEPSK"},
        <<SSL3_VERSION, TLS1_2_VERSION>>, <<DTLS1_BAD_VER, DTLS1_2_VERSION>>, {"SSL_HANDSHAKE_MAC_DEFAULT", "TLS1_PRF"})
DHE_PSK_WITH_AES_128_CBC_SHA ==
  Entry(1, "TLS_DHE_PSK_WITH_AES_128_CBC_SHA", \h03000090, {"SSL_kDHEPSK"},
        <<SSL3_VERSION, TLS1_2_VERSION>>, <<DTLS1_BAD_VER, DTLS1_2_VERSION>>, {"SSL_HANDSHAKE_MAC_DEFAULT", "TLS1_PRF"})
DHE_PSK_WITH_AES_256_CBC_SHA ==
  Entry(1, "TLS_DHE_PSK_WITH_AES_256_CBC_SHA", \h03000091, {"SSL_kDHEPSK"},
        <<SSL3_VERSION, TLS1_2_VERSION>>, <<DTLS1_BAD_VER, DTLS1_2_VERSION>>, {"SSL_HANDSHAKE_MAC_DEFAULT", "TLS1_PRF"})
RSA_PSK_WITH_3DES_EDE_CBC_SHA ==
  Entry(1, "TLS_RSA_PSK_WITH_3DES_EDE_CBC_SHA", \h03000093, {"SSL_kRSAPSK"},
        <<SSL3_VERSION, TLS1_2_VERSION>>, <<DTLS1_BAD_VER, DTLS1_2_VERSION>>, {"SSL_HANDSHAKE_MAC_DEFAULT", "TLS1_PRF"})
RSA_PSK_WITH_AES_128_CBC_SHA ==
  Entry(1, "TLS_RSA_PSK_WITH_AES_128_CBC_SHA", \h03000094, {"SSL_kRSAPSK"},
        <<SSL3_VERSION, TLS1_2_VERSION>>, <<DTLS1_BAD_VER, DTLS1_2_VERSION>>, {"SSL_HANDSHAKE_MAC_DEFAULT", "TLS1_PRF"})
RSA_PSK_WITH_AES_256_CBC_SHA ==
  Entry(1, "TLS_RSA_PSK_WITH_AES_256_CBC_SHA", \h03000095, {"SSL_kRSAPSK"},
        <<SSL3_VERSION, TLS1_2_VERSION>>, <<DTLS1_BAD_VER, DTLS1_2_VERSION>>, {"SSL_HANDSHAKE_MAC_DEFAULT", "TLS1_PRF"})
PSK_WITH_AES_128_GCM_SHA256 ==
  Entry(1, "TLS_PSK_WITH_AES_128_GCM_SHA256", \h030000a8, {"SSL_kPSK"},
        <<TLS1_2_VERSION, TLS1_2_VERSION>>, <<DTLS1_2_VERSION, DTLS1_2_VERSION>>, {"SSL_HANDSHAKE_MAC_SHA256", "TLS1_PRF_SHA256"})
PSK_WITH_AES_256_GCM_SHA384 ==
  Entry(1, "TLS_PSK_WITH_AES_256_GCM_SHA384", \h030000a9, {"SSL_kPSK"},
        <<TLS1_2_VERSION, TLS1_2_VERSION>>, <<DTLS1_2_VERSION, DTLS1_2_VERSION>>, {"SSL_HANDSHAKE_MAC_SHA384", "TLS1_PRF_SHA384"})
DHE_PSK_WITH_AES_128_GCM_SHA256 ==
  Entry(1, "TLS_DHE_PSK_WITH_AES_128_GCM_SHA256", \h030000aa, {"SSL_kDHEPSK"},
        <<TLS1_2_VERSION, TLS1_2_VERSION>>, <<DTLS1_2_VERSION, DTLS1_2_VERSION>>, {"SSL_HANDSHAKE_MAC_SHA256", "TLS1_PRF_SHA256"})
DHE_PSK_WITH_AES_256_GCM_SHA384 ==
  Entry(1, "TLS_DHE_PSK_WITH_AES_256_GCM_SHA384", \h030000ab, {"SSL_kDHEPSK"},
        <<TLS1_2_VERSION, TLS1_2_VERSION>>, <<DTLS1_2_VERSION, DTLS1_2_VERSION>>, {"SSL_HANDSHAKE_MAC_SHA384", "TLS1_PRF_SHA384"})
RSA_PSK_WITH_AES_128_GCM_SHA256 ==
  Entry(1, "TLS_RSA_PSK_WITH_AES_128_GCM_SHA256", \h030000ac, {"SSL_kRSAPSK"},
        <<TLS1_2_VERSION, TLS1_2_VERSION>>, <<DTLS1_2_VERSION, DTLS1_2_VERSION>>, {"SSL_HANDSHAKE_MAC_SHA256", "TLS1_PRF_SHA256"})
RSA_PSK_WITH_AES_256_GCM_SHA384 ==
  Entry(1, "TLS_RSA_PSK_WITH_AES_256_GCM_SHA384", \h030000ad, {"SSL_kRSAPSK"},
        <<TLS1_2_VERSION, TLS1_2_VERSION>>, <<DTLS1_2_VERSION, DTLS1_2_VERSION>>, {"SSL_HANDSHAKE_MAC_SHA384", "TLS1_PRF_SHA384"})
PSK_WITH_AES_128_CBC_SHA256 ==
  Entry(1, "TLS_PSK_WITH_AES_128_CBC_SHA256", \h030000ae, {"SSL_kPSK"},
        <<TLS1_VERSION, TLS1_2_VERSION>>, <<DTLS1_BAD_VER, DTLS1_2_VERSION>>, {"SSL_HANDSHAKE_MAC_DEFAULT", "TLS1_PRF"})
PSK_WITH_AES_256_CBC_SHA384 ==
  Entry(1, "TLS_PSK_WITH_AES_256_CBC_SHA384", \h030000af, {"SSL_kPSK"},
        <<TLS1_VERSION, TLS1_2_VERSION>>, <<DTLS1_BAD_VER, DTLS1_2_VERSION>>, {"SSL_HANDSHAKE_MAC_SHA384", "TLS1_PRF_SHA384"})
PSK_WITH_NULL_SHA256 ==
  Entry(1, "TLS_PSK_WITH_NULL_SHA256", \h030000b0, {"SSL_kPSK"},
        <<TLS1_VERSION, TLS1_2_VERSION>>, <<DTLS1_BAD_VER, DTLS1_2_VERSION>>, {"SSL_HANDSHAKE_MAC_DEFAULT", "TLS1_PRF"})
PSK_WITH_NULL_SHA384 ==
  Entry(1, "TLS_PSK_WITH_NULL_SHA384", \h030000b1, {"SSL_kPSK"},
        <<TLS1_VERSION, TLS1_2_VERSION>>, <<DTLS1_BAD_VER, DTLS1_2_VERSION>>, {"SSL_HANDSHAKE_MAC_SHA384", "TLS1_PRF_SHA384"})
DHE_PSK_WITH_AES_128_CBC_SHA256 ==
  Entry(1, "TLS_DHE_PSK_WITH_AES_128_CBC_SHA256", \h030000b2, {"SSL_kDHEPSK"},
        <<TLS1_VERSION, TLS1_2_VERSION>>, <<DTLS1_BAD_VER, DTLS1_2_VERSION>>, {"SSL_HANDSHAKE_MAC_DEFAULT", "TLS1_PRF"})
DHE_PSK_WITH_AES_256_CBC_SHA384 ==
  Entry(1, "TLS_DHE_PSK_WITH_AES_256_CBC_SHA384", \h030000b3, {"SSL_kDHEPSK"},
        <<TLS1_VERSION, TLS1_2_VERSION>>, <<DTLS1_BAD_VER, DTLS1_2_VERSION>>, {"SSL_HANDSHAKE_MAC_SHA384", "TLS1_PRF_SHA384"})
DHE_PSK_WITH_NULL_SHA256 ==
  Entry(1, "TLS_DHE_PSK_WITH_NULL_SHA256", \h030000b4, {"SSL_kDHEPSK"},
        <<TLS1_VERSION, TLS1_2_VERSION>>, <<DTLS1_BAD_VER, DTLS1_2_VERSION>>, {"SSL_HANDSHAKE_MAC_DEFAULT", "TLS1_PRF"})
DHE_PSK_WITH_NULL_SHA384 ==
  Entry(1, "TLS_DHE_PSK_WITH_NULL_SHA384", \h030000b5, {"SSL_kDHEPSK"},
        <<TLS1_VERSION, TLS1_2_VERSION>>, <<DTLS1_BAD_VER, DTLS1_2_VERSION>>, {"SSL_HANDSHAKE_MAC_SHA384", "TLS1_PRF_SHA384"})
RSA_PSK_WITH_AES_128_CBC_SHA256 ==
  Entry(1, "TLS_RSA_PSK_WITH_AES_128_CBC_SHA256", \h030000b6, {"SSL_kRSAPSK"},
        <<TLS1_VERSION, TLS1_2_VERSION>>, <<DTLS1_BAD_VER, DTLS1_2_VERSION>>, {"SSL_HANDSHAKE_MAC_DEFAULT", "TLS1_PRF"})
RSA_PSK_WITH_AES_256_CBC_SHA384 ==
  Entry(1, "TLS_RSA_PSK_WITH_AES_256_CBC_SHA384", \h030000b7, {"SSL_kRSAPSK"},
        <<TLS1_VERSION, TLS1_2_VERSION>>, <<DTLS1_BAD_VER, DTLS1_2_VERSION>>, {"SSL_HANDSHAKE_MAC_SHA384", "TLS1_PRF_SHA384"})
RSA_PSK_WITH_NULL_SHA256 ==
  Entry(1, "TLS_RSA_PSK_WITH_NULL_SHA256", \h030000b8, {"SSL_kRSAPSK"},
        <<TLS1_VERSION, TLS1_2_VERSION>>, <<DTLS1_BAD_VER, DTLS1_2_VERSION>>, {"SSL_HANDSHAKE_MAC_DEFAULT", "TLS1_PRF"})

====
