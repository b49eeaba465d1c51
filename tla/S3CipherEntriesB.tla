------------------------------ MODULE S3CipherEntriesB ------------------------------
(***************************************************************************)
(* The SSL_CIPHER initialisers of src/ssl/s3_lib.c, second part: the rest  *)
(* of ssl3_ciphers and the two entries of ssl3_scsvs, in source order.     *)
(***************************************************************************)
EXTENDS S3CipherEntriesA

RSA_PSK_WITH_NULL_SHA384 ==
  Entry(1, "TLS_RSA_PSK_WITH_NULL_SHA384", \h030000b9, {"SSL_kRSAPSK"},
        <<TLS1_VERSION, TLS1_2_VERSION>>, <<DTLS1_BAD_VER, DTLS1_2_VERSION>>, {"SSL_HANDSHAKE_MAC_SHA384", "TLS1_PRF_SHA384"})
ECDHE_PSK_WITH_3DES_EDE_CBC_SHA ==
  Entry(1, "TLS_ECDHE_PSK_WITH_3DES_EDE_CBC_SHA", \h0300c034, {"SSL_kECDHEPSK"},
        <<TLS1_VERSION, TLS1_2_VERSION>>, <<DTLS1_BAD_VER, DTLS1_2_VERSION>>, {"SSL_HANDSHAKE_MAC_DEFAULT", "TLS1_PRF"})
ECDHE_PSK_WITH_AES_128_CBC_SHA ==
  Entry(1, "TLS_ECDHE_PSK_WITH_AES_128_CBC_SHA", \h0300c035, {"SSL_kECDHEPSK"},
        <<TLS1_VERSION, TLS1_2_VERSION>>, <<DTLS1_BAD_VER, DTLS1_2_VERSION>>, {"SSL_HANDSHAKE_MAC_DEFAULT", "TLS1_PRF"})
ECDHE_PSK_WITH_AES_256_CBC_SHA ==
  Entry(1, "TLS_ECDHE_PSK_WITH_AES_256_CBC_SHA", \h0300c036, {"SSL_kECDHEPSK"},
        <<TLS1_VERSION, TLS1_2_VERSION>>, <<DTLS1_BAD_VER, DTLS1_2_VERSION>>, {"SSL_HANDSHAKE_MAC_DEFAULT", "TLS1_PRF"})
ECDHE_PSK_WITH_AES_128_CBC_SHA256 ==
  Entry(1, "TLS_ECDHE_PSK_WITH_AES_128_CBC_SHA256", \h0300c037, {"SSL_kECDHEPSK"},
        <<TLS1_VERSION, TLS1_2_VERSION>>, <<DTLS1_BAD_VER, DTLS1_2_VERSION>>, {"SSL_HANDSHAKE_MAC_DEFAULT", "TLS1_PRF"})
ECDHE_PSK_WITH_AES_256_CBC_SHA384 ==
  Entry(1, "TLS_ECDHE_PSK_WITH_AES_256_CBC_SHA384", \h0300c038, {"SSL_kECDHEPSK"},
        <<TLS1_VERSION, TLS1_2_VERSION>>, <<DTLS1_BAD_VER, DTLS1_2_VERSION>>, {"SSL_HANDSHAKE_MAC_SHA384", "TLS1_PRF_SHA384"})
ECDHE_PSK_WITH_NULL_SHA ==
  Entry(1, "TLS_ECDHE_PSK_WITH_NULL_SHA", \h0300c039, {"SSL_kECDHEPSK"},
        <<TLS1_VERSION, TLS1_2_VERSION>>, <<DTLS1_BAD_VER, DTLS1_2_VERSION>>, {"SSL_HANDSHAKE_MAC_DEFAULT", "TLS1_PRF"})
ECDHE_PSK_WITH_NULL_SHA256 ==
  Entry(1, "TLS_ECDHE_PSK_WITH_NULL_SHA256", \h0300c03a, {"SSL_kECDHEPSK"},
        <<TLS1_VERSION, TLS1_2_VERSION>>, <<DTLS1_BAD_VER, DTLS1_2_VERSION>>, {"SSL_HANDSHAKE_MAC_DEFAULT", "TLS1_PRF"})
ECDHE_PSK_WITH_NULL_SHA384 ==
  Entry(1, "TLS_ECDHE_PSK_WITH_NULL_SHA384", \h0300c03b, {"SSL_kECDHEPSK"},
        <<TLS1_VERSION, TLS1_2_VERSION>>, <<DTLS1_BAD_VER, DTLS1_2_VERSION>>, {"SSL_HANDSHAKE_MAC_SHA384", "TLS1_PRF_SHA384"})
SRP_SHA_WITH_3DES_EDE_CBC_SHA ==
  Entry(1, "TLS_SRP_SHA_WITH_3DES_EDE_CBC_SHA", \h0300c01a, {"SSL_kSRP"},
        <<SSL3_VERSION, TLS1_2_VERSION>>, <<DTLS1_BAD_VER, DTLS1_2_VERSION>>, {"SSL_HANDSHAKE_MAC_DEFAULT", "TLS1_PRF"})
SRP_SHA_RSA_WITH_3DES_EDE_CBC_SHA ==
  Entry(1, "TLS_SRP_SHA_RSA_WITH_3DES_EDE_CBC_SHA", \h0300c01b, {"SSL_kSRP"},
        <<SSL3_VERSION, TLS1_2_VERSION>>, <<DTLS1_BAD_VER, DTLS1_2_VERSION>>, {"SSL_HANDSHAKE_MAC_DEFAULT", "TLS1_PRF"})
SRP_SHA_DSS_WITH_3DES_EDE_CBC_SHA ==
  Entry(1, "TLS_SRP_SHA_DSS_WITH_3DES_EDE_CBC_SHA", \h0300c01c, {"SSL_kSRP"},
        <<SSL3_VERSION, TLS1_2_VERSION>>, <<DTLS1_BAD_VER, DTLS1_2_VERSION>>, {"SSL_HANDSHAKE_MAC_DEFAULT", "TLS1_PRF"})
SRP_SHA_WITH_AES_128_CBC_SHA ==
  Entry(1, "TLS_SRP_SHA_WITH_AES_128_CBC_SHA", \h0300c01d, {"SSL_kSRP"},
        <<SSL3_VERSION, TLS1_2_VERSION>>, <<DTLS1_BAD_VER, DTLS1_2_VERSION>>, {"SSL_HANDSHAKE_MAC_DEFAULT", "TLS1_PRF"})
SRP_SHA_RSA_WITH_AES_128_CBC_SHA ==
  Entry(1, "TLS_SRP_SHA_RSA_WITH_AES_128_CBC_SHA", \h0300c01e, {"SSL_kSRP"},
        <<SSL3_VERSION, TLS1_2_VERSION>>, <<DTLS1_BAD_VER, DTLS1_2_VERSION>>, {"SSL_HANDSHAKE_MAC_DEFAULT", "TLS1_PRF"})
SRP_SHA_DSS_WITH_AES_128_CBC_SHA ==
  Entry(1, "TLS_SRP_SHA_DSS_WITH_AES_128_CBC_SHA", \h0300c01f, {"SSL_kSRP"},
        <<SSL3_VERSION, TLS1_2_VERSION>>, <<DTLS1_BAD_VER, DTLS1_2_VERSION>>, {"SSL_HANDSHAKE_MAC_DEFAULT", "TLS1_PRF"})
SRP_SHA_WITH_AES_256_CBC_SHA ==
  Entry(1, "TLS_SRP_SHA_WITH_AES_256_CBC_SHA", \h0300c020, {"SSL_kSRP"},
        <<SSL3_VERSION, TLS1_2_VERSION>>, <<DTLS1_BAD_VER, DTLS1_2_VERSION>>, {"SSL_HANDSHAKE_MAC_DEFAULT", "TLS1_PRF"})
SRP_SHA_RSA_WITH_AES_256_CBC_SHA ==
  Entry(1, "TLS_SRP_SHA_RSA_WITH_AES_256_CBC_SHA", \h0300c021, {"SSL_kSRP"},
        <<SSL3_VERSION, TLS1_2_VERSION>>, <<DTLS1_BAD_VER, DTLS1_2_VERSION>>, {"SSL_HANDSHAKE_MAC_DEFAULT", "TLS1_PRF"})
SRP_SHA_DSS_WITH_AES_256_CBC_SHA ==
  Entry(1, "TLS_SRP_SHA_DSS_WITH_AES_256_CBC_SHA", \h0300c022, {"SSL_kSRP"},
        <<SSL3_VERSION, TLS1_2_VERSION>>, <<DTLS1_BAD_VER, DTLS1_2_VERSION>>, {"SSL_HANDSHAKE_MAC_DEFAULT", "TLS1_PRF"})
DHE_RSA_WITH_CHACHA20_POLY1305 ==
  Entry(1, "TLS_DHE_RSA_WITH_CHACHA20_POLY1305_SHA256", \h0300ccaa, {"SSL_kDHE"},
        <<TLS1_2_VERSION, TLS1_2_VERSION>>, <<DTLS1_2_VERSION, DTLS1_2_VERSION>>, {"SSL_HANDSHAKE_MAC_SHA256", "TLS1_PRF_SHA256"})
ECDHE_RSA_WITH_CHACHA20_POLY1305 ==
  Entry(1, "TLS_ECDHE_RSA_WITH_CHACHA20_POLY1305_SHA256", \h0300cca8, {"SSL_kECDHE"},
        <<TLS1_2_VERSION, TLS1_2_VERSION>>, <<DTLS1_2_VERSION, DTLS1_2_VERSION>>, {"SSL_HANDSHAKE_MAC_SHA256", "TLS1_PRF_SHA256"})
ECDHE_ECDSA_WITH_CHACHA20_POLY1305 ==
  Entry(1, "TLS_ECDHE_ECDSA_WITH_CHACHA20_POLY1305_SHA256", \h0300cca9, {"SSL_kECDHE"},
        <<TLS1_2_VERSION, TLS1_2_VERSION>>, <<DTLS1_2_VERSION, DTLS1_2_VERSION>>, {"SSL_HANDSHAKE_MAC_SHA256", "TLS1_PRF_SHA256"})
PSK_WITH_CHACHA20_POLY1305 ==
  Entry(1, "TLS_PSK_WITH_CHACHA20_POLY1305_SHA256", \h0300ccab, {"SSL_kPSK"},
        <<TLS1_2_VERSION, TLS1_2_VERSION>>, <<DTLS1_2_VERSION, DTLS1_2_VERSION>>, {"SSL_HANDSHAKE_MAC_SHA256", "TLS1_PRF_SHA256"})
ECDHE_PSK_WITH_CHACHA20_POLY1305 ==
  Entry(1, "TLS_ECDHE_PSK_WITH_CHACHA20_POLY1305_SHA256", \h0300ccac, {"SSL_kECDHEPSK"},
        <<TLS1_2_VERSION, TLS1_2_VERSION>>, <<DTLS1_2_VERSION, DTLS1_2_VERSION>>, {"SSL_HANDSHAKE_MAC_SHA256", "TLS1_PRF_SHA256"})
DHE_PSK_WITH_CHACHA20_POLY1305 ==
  Entry(1, "TLS_DHE_PSK_WITH_CHACHA20_POLY1305_SHA256", \h0300ccad, {"SSL_kDHEPSK"},
        <<TLS1_2_VERSION, TLS1_2_VERSION>>, <<DTLS1_2_VERSION, DTLS1_2_VERSION>>, {"SSL_HANDSHAKE_MAC_SHA256", "TLS1_PRF_SHA256"})
RSA_PSK_WITH_CHACHA20_POLY1305 ==
  Entry(1, "TLS_RSA_PSK_WITH_CHACHA20_POLY1305_SHA256", \h0300ccae, {"SSL_kRSAPSK"},
        <<TLS1_2_VERSION, TLS1_2_VERSION>>, <<DTLS1_2_VERSION, DTLS1_2_VERSION>>, {"SSL_HANDSHAKE_MAC_SHA256", "TLS1_PRF_SHA256"})
RSA_WITH_CAMELLIA_128_CBC_SHA256 ==
  Entry(1, "TLS_RSA_WITH_CAMELLIA_128_CBC_SHA256", \h030000ba, {"SSL_kRSA"},
        <<TLS1_2_VERSION, TLS1_2_VERSION>>, <<DTLS1_2_VERSION, DTLS1_2_VERSION>>, {"SSL_HANDSHAKE_MAC_SHA256", "TLS1_PRF_SHA256"})
DHE_DSS_WITH_CAMELLIA_128_CBC_SHA256 ==
  Entry(1, "TLS_DHE_DSS_WITH_CAMELLIA_128_CBC_SHA256", \h030000bd, {"SSL_kDHE"},
        <<TLS1_2_VERSION, TLS1_2_VERSION>>, <<DTLS1_2_VERSION, DTLS1_2_VERSION>>, {"SSL_HANDSHAKE_MAC_SHA256", "TLS1_PRF_SHA256"})
DHE_RSA_WITH_CAMELLIA_128_CBC_SHA256 ==
  Entry(1, "TLS_DHE_RSA_WITH_CAMELLIA_128_CBC_SHA256", \h030000be, {"SSL_kDHE"},
        <<TLS1_2_VERSION, TLS1_2_VERSION>>, <<DTLS1_2_VERSION, DTLS1_2_VERSION>>, {"SSL_HANDSHAKE_MAC_SHA256", "TLS1_PRF_SHA256"})
ADH_WITH_CAMELLIA_128_CBC_SHA256 ==
  Entry(1, "TLS_DH_anon_WITH_CAMELLIA_128_CBC_SHA256", \h030000bf, {"SSL_kDHE"},
        <<TLS1_2_VERSION, TLS1_2_VERSION>>, <<DTLS1_2_VERSION, DTLS1_2_VERSION>>, {"SSL_HANDSHAKE_MAC_SHA256", "TLS1_PRF_SHA256"})
RSA_WITH_CAMELLIA_256_CBC_SHA256 ==
  Entry(1, "TLS_RSA_WITH_CAMELLIA_256_CBC_SHA256", \h030000c0, {"SSL_kRSA"},
        <<TLS1_2_VERSION, TLS1_2_VERSION>>, <<DTLS1_2_VERSION, DTLS1_2_VERSION>>, {"SSL_HANDSHAKE_MAC_SHA256", "TLS1_PRF_SHA256"})
DHE_DSS_WITH_CAMELLIA_256_CBC_SHA256 ==
  Entry(1, "TLS_DHE_DSS_WITH_CAMELLIA_256_CBC_SHA256", \h030000c3, {"SSL_kDHE"},
        <<TLS1_2_VERSION, TLS1_2_VERSION>>, <<DTLS1_2_VERSION, DTLS1_2_VERSION>>, {"SSL_HANDSHAKE_MAC_SHA256", "TLS1_PRF_SHA256"})
DHE_RSA_WITH_CAMELLIA_256_CBC_SHA256 ==
  Entry(1, "TLS_DHE_RSA_WITH_CAMELLIA_256_CBC_SHA256", \h030000c4, {"SSL_kDHE"},
        <<TLS1_2_VERSION, TLS1_2_VERSION>>, <<DTLS1_2_VERSION, DTLS1_2_VERSION>>, {"SSL_HANDSHAKE_MAC_SHA256", "TLS1_PRF_SHA256"})
ADH_WITH_CAMELLIA_256_CBC_SHA256 ==
  Entry(1, "TLS_DH_anon_WITH_CAMELLIA_256_CBC_SHA256", \h030000c5, {"SSL_kDHE"},
        <<TLS1_2_VERSION, TLS1_2_VERSION>>, <<DTLS1_2_VERSION, DTLS1_2_VERSION>>, {"SSL_HANDSHAKE_MAC_SHA256", "TLS1_PRF_SHA256"})
RSA_WITH_CAMELLIA_256_CBC_SHA ==
  Entry(1, "TLS_RSA_WITH_CAMELLIA_256_CBC_SHA", \h03000084, {"SSL_kRSA"},
        <<SSL3_VERSION, TLS1_2_VERSION>>, <<DTLS1_BAD_VER, DTLS1_2_VERSION>>, {"SSL_HANDSHAKE_MAC_DEFAULT", "TLS1_PRF"})
DHE_DSS_WITH_CAMELLIA_256_CBC_SHA ==
  Entry(1, "TLS_DHE_DSS_WITH_CAMELLIA_256_CBC_SHA", \h03000087, {"SSL_kDHE"},
        <<SSL3_VERSION, TLS1_2_VERSION>>, <<DTLS1_BAD_VER, DTLS1_2_VERSION>>, {"SSL_HANDSHAKE_MAC_DEFAULT", "TLS1_PRF"})
DHE_RSA_WITH_CAMELLIA_256_CBC_SHA ==
  Entry(1, "TLS_DHE_RSA_WITH_CAMELLIA_256_CBC_SHA", \h03000088, {"SSL_kDHE"},
        <<SSL3_VERSION, TLS1_2_VERSION>>, <<DTLS1_BAD_VER, DTLS1_2_VERSION>>, {"SSL_HANDSHAKE_MAC_DEFAULT", "TLS1_PRF"})
ADH_WITH_CAMELLIA_256_CBC_SHA ==
  Entry(1, "TLS_DH_anon_WITH_CAMELLIA_256_CBC_SHA", \h03000089, {"SSL_kDHE"},
        <<SSL3_VERSION, TLS1_2_VERSION>>, <<DTLS1_BAD_VER, DTLS1_2_VERSION>>, {"SSL_HANDSHAKE_MAC_DEFAULT", "TLS1_PRF"})
RSA_WITH_CAMELLIA_128_CBC_SHA ==
  Entry(1, "TLS_RSA_WITH_CAMELLIA_128_CBC_SHA", \h03000041, {"SSL_kRSA"},
        <<SSL3_VERSION, TLS1_2_VERSION>>, <<DTLS1_BAD_VER, DTLS1_2_VERSION>>, {"SSL_HANDSHAKE_MAC_DEFAULT", "TLS1_PRF"})
DHE_DSS_WITH_CAMELLIA_128_CBC_SHA ==
  Entry(1, "TLS_DHE_DSS_WITH_CAMELLIA_128_CBC_SHA", \h03000044, {"SSL_kDHE"},
        <<SSL3_VERSION, TLS1_2_VERSION>>, <<DTLS1_BAD_VER, DTLS1_2_VERSION>>, {"SSL_HANDSHAKE_MAC_DEFAULT", "TLS1_PRF"})
DHE_RSA_WITH_CAMELLIA_128_CBC_SHA ==
  Entry(1, "TLS_DHE_RSA_WITH_CAMELLIA_128_CBC_SHA", \h03000045, {"SSL_kDHE"},
        <<SSL3_VERSION, TLS1_2_VERSION>>, <<DTLS1_BAD_VER, DTLS1_2_VERSION>>, {"SSL_HANDSHAKE_MAC_DEFAULT", "TLS1_PRF"})
ADH_WITH_CAMELLIA_128_CBC_SHA ==
  Entry(1, "TLS_DH_anon_WITH_CAMELLIA_128_CBC_SHA", \h03000046, {"SSL_kDHE"},
        <<SSL3_VERSION, TLS1_2_VERSION>>, <<DTLS1_BAD_VER, DTLS1_2_VERSION>>, {"SSL_HANDSHAKE_MAC_DEFAULT", "TLS1_PRF"})
ECDHE_ECDSA_WITH_CAMELLIA_128_CBC_SHA256 ==
  Entry(1, "TLS_ECDHE_ECDSA_WITH_CAMELLIA_128_CBC_SHA256", \h0300c072, {"SSL_kECDHE"},
        <<TLS1_2_VERSION, TLS1_2_VERSION>>, <<DTLS1_2_VERSION, DTLS1_2_VERSION>>, {"SSL_HANDSHAKE_MAC_SHA256", "TLS1_PRF_SHA256"})
ECDHE_ECDSA_WITH_CAMELLIA_256_CBC_SHA384 ==
  Entry(1, "TLS_ECDHE_ECDSA_WITH_CAMELLIA_256_CBC_SHA384", \h0300c073, {"SSL_kECDHE"},
        <<TLS1_2_VERSION, TLS1_2_VERSION>>, <<DTLS1_2_VERSION, DTLS1_2_VERSION>>, {"SSL_HANDSHAKE_MAC_SHA384", "TLS1_PRF_SHA384"})
ECDHE_RSA_WITH_CAMELLIA_128_CBC_SHA256 ==
  Entry(1, "TLS_ECDHE_RSA_WITH_CAMELLIA_128_CBC_SHA256", \h0300c076, {"SSL_kECDHE"},
        <<TLS1_2_VERSION, TLS1_2_VERSION>>, <<DTLS1_2_VERSION, DTLS1_2_VERSION>>, {"SSL_HANDSHAKE_MAC_SHA256", "TLS1_PRF_SHA256"})
ECDHE_RSA_WITH_CAMELLIA_256_CBC_SHA384 ==
  Entry(1, "TLS_ECDHE_RSA_WITH_CAMELLIA_256_CBC_SHA384", \h0300c077, {"SSL_kECDHE"},
        <<TLS1_2_VERSION, TLS1_2_VERSION>>, <<DTLS1_2_VERSION, DTLS1_2_VERSION>>, {"SSL_HANDSHAKE_MAC_SHA384", "TLS1_PRF_SHA384"})
PSK_WITH_CAMELLIA_128_CBC_SHA256 ==
  Entry(1, "TLS_PSK_WITH_CAMELLIA_128_CBC_SHA256", \h0300c094, {"SSL_kPSK"},
        <<TLS1_VERSION, TLS1_2_VERSION>>, <<DTLS1_BAD_VER, DTLS1_2_VERSION>>, {"SSL_HANDSHAKE_MAC_DEFAULT", "TLS1_PRF"})
PSK_WITH_CAMELLIA_256_CBC_SHA384 ==
  Entry(1, "TLS_PSK_WITH_CAMELLIA_256_CBC_SHA384", \h0300c095, {"SSL_kPSK"},
        <<TLS1_VERSION, TLS1_2_VERSION>>, <<DTLS1_BAD_VER, DTLS1_2_VERSION>>, {"SSL_HANDSHAKE_MAC_SHA384", "TLS1_PRF_SHA384"})
DHE_PSK_WITH_CAMELLIA_128_CBC_SHA256 ==
  Entry(1, "TLS_DHE_PSK_WITH_CAMELLIA_128_CBC_SHA256", \h0300c096, {"SSL_kDHEPSK"},
        <<TLS1_VERSION, TLS1_2_VERSION>>, <<DTLS1_BAD_VER, DTLS1_2_VERSION>>, {"SSL_HANDSHAKE_MAC_DEFAULT", "TLS1_PRF"})
DHE_PSK_WITH_CAMELLIA_256_CBC_SHA384 ==
  Entry(1, "TLS_DHE_PSK_WITH_CAMELLIA_256_CBC_SHA384", \h0300c097, {"SSL_kDHEPSK"},
        <<TLS1_VERSION, TLS1_2_VERSION>>, <<DTLS1_BAD_VER, DTLS1_2_VERSION>>, {"SSL_HANDSHAKE_MAC_SHA384", "TLS1_PRF_SHA384"})
RSA_PSK_WITH_CAMELLIA_128_CBC_SHA256 ==
  Entry(1, "TLS_RSA_PSK_WITH_CAMELLIA_128_CBC_SHA256", \h0300c098, {"SSL_kRSAPSK"},
        <<TLS1_VERSION, TLS1_2_VERSION>>, <<DTLS1_BAD_VER, DTLS1_2_VERSION>>, {"SSL_HANDSHAKE_MAC_DEFAULT", "TLS1_PRF"})
RSA_PSK_WITH_CAMELLIA_256_CBC_SHA384 ==
  Entry(1, "TLS_RSA_PSK_WITH_CAMELLIA_256_CBC_SHA384", \h0300c099, {"SSL_kRSAPSK"},
        <<TLS1_VERSION, TLS1_2_VERSION>>, <<DTLS1_BAD_VER, DTLS1_2_VERSION>>, {"SSL_HANDSHAKE_MAC_SHA384", "TLS1_PRF_SHA384"})
ECDHE_PSK_WITH_CAMELLIA_128_CBC_SHA256 ==
  Entry(1, "TLS_ECDHE_PSK_WITH_CAMELLIA_128_CBC_SHA256", \h0300c09a, {"SSL_kECDHEPSK"},
        <<TLS1_VERSION, TLS1_2_VERSION>>, <<DTLS1_BAD_VER, DTLS1_2_VERSION>>, {"SSL_HANDSHAKE_MAC_DEFAULT", "TLS1_PRF"})
ECDHE_PSK_WITH_CAMELLIA_256_CBC_SHA384 ==
  Entry(1, "TLS_ECDHE_PSK_WITH_CAMELLIA_256_CBC_SHA384", \h0300c09b, {"SSL_kECDHEPSK"},
        <<TLS1_VERSION, TLS1_2_VERSION>>, <<DTLS1_BAD_VER, DTLS1_2_VERSION>>, {"SSL_HANDSHAKE_MAC_SHA384", "TLS1_PRF_SHA384"})
GOST2001_GOST89_GOST89 ==
  Entry(1, "TLS_GOSTR341001_WITH_28147_CNT_IMIT", \h03000081, {"SSL_kGOST"},
        <<TLS1_VERSION, TLS1_2_VERSION>>, <<0, 0>>, {"SSL_HANDSHAKE_MAC_GOST94", "TLS1_PRF_GOST94", "TLS1_STREAM_MAC"})
GOST2001_NULL_GOST94 ==
  Entry(1, "TLS_GOSTR341001_WITH_NULL_GOSTR3411", \h03000083, {"SSL_kGOST"},
        <<TLS1_VERSION, TLS1_2_VERSION>>, <<0, 0>>, {"SSL_HANDSHAKE_MAC_GOST94", "TLS1_PRF_GOST94"})
IANA_GOST2012_GOST8912_GOST8912 ==
  Entry(1, NULL, \h0300c102, {"SSL_kGOST"},
        <<TLS1_VERSION, TLS1_2_VERSION>>, <<0, 0>>, {"SSL_HANDSHAKE_MAC_GOST12_256", "TLS1_PRF_GOST12_256", "TLS1_STREAM_MAC"})
LEGACY_GOST2012_GOST8912_GOST8912 ==
  Entry(1, NULL, \h0300ff85, {"SSL_kGOST"},
        <<TLS1_VERSION, TLS1_2_VERSION>>, <<0, 0>>, {"SSL_HANDSHAKE_MAC_GOST12_256", "TLS1_PRF_GOST12_256", "TLS1_STREAM_MAC"})
GOST2012_NULL_GOST12 ==
  Entry(1, NULL, \h0300ff87, {"SSL_kGOST"},
        <<TLS1_VERSION, TLS1_2_VERSION>>, <<0, 0>>, {"SSL_HANDSHAKE_MAC_GOST12_256", "TLS1_PRF_GOST12_256", "TLS1_STREAM_MAC"})
GOST2012_KUZNYECHIK_KUZNYECHIKOMAC ==
  Entry(1, NULL, \h0300c100, {"SSL_kGOST18"},
        <<TLS1_2_VERSION, TLS1_2_VERSION>>, <<0, 0>>, {"SSL_HANDSHAKE_MAC_GOST12_256", "TLS1_PRF_GOST12_256", "TLS1_TLSTREE"})
GOST2012_MAGMA_MAGMAOMAC ==
  Entry(1, NULL, \h0300c101, {"SSL_kGOST18"},
        <<TLS1_2_VERSION, TLS1_2_VERSION>>, <<0, 0>>, {"SSL_HANDSHAKE_MAC_GOST12_256", "TLS1_PRF_GOST12_256", "TLS1_TLSTREE"})
RSA_IDEA_128_SHA ==
  Entry(1, "TLS_RSA_WITH_IDEA_CBC_SHA", \h03000007, {"SSL_kRSA"},
        <<SSL3_VERSION, TLS1_1_VERSION>>, <<DTLS1_BAD_VER, DTLS1_VERSION>>, {"SSL_HANDSHAKE_MAC_DEFAULT", "TLS1_PRF"})
RSA_WITH_SEED_SHA ==
  Entry(1, "TLS_RSA_WITH_SEED_CBC_SHA", \h03000096, {"SSL_kRSA"},
        <<SSL3_VERSION, TLS1_2_VERSION>>, <<DTLS1_BAD_VER, DTLS1_2_VERSION>>, {"SSL_HANDSHAKE_MAC_DEFAULT", "TLS1_PRF"})
DHE_DSS_WITH_SEED_SHA ==
  Entry(1, "TLS_DHE_DSS_WITH_SEED_CBC_SHA", \h03000099, {"SSL_kDHE"},
        <<SSL3_VERSION, TLS1_2_VERSION>>, <<DTLS1_BAD_VER, DTLS1_2_VERSION>>, {"SSL_HANDSHAKE_MAC_DEFAULT", "TLS1_PRF"})
DHE_RSA_WITH_SEED_SHA ==
  Entry(1, "TLS_DHE_RSA_WITH_SEED_CBC_SHA", \h0300009a, {"SSL_kDHE"},
        <<SSL3_VERSION, TLS1_2_VERSION>>, <<DTLS1_BAD_VER, DTLS1_2_VERSION>>, {"SSL_HANDSHAKE_MAC_DEFAULT", "TLS1_PRF"})
ADH_WITH_SEED_SHA ==
  Entry(1, "TLS_DH_anon_WITH_SEED_CBC_SHA", \h0300009b, {"SSL_kDHE"},
        <<SSL3_VERSION, TLS1_2_VERSION>>, <<DTLS1_BAD_VER, DTLS1_2_VERSION>>, {"SSL_HANDSHAKE_MAC_DEFAULT", "TLS1_PRF"})
RSA_RC4_128_MD5 ==
  Entry(1, "TLS_RSA_WITH_RC4_128_MD5", \h03000004, {"SSL_kRSA"},
        <<SSL3_VERSION, TLS1_2_VERSION>>, <<0, 0>>, {"SSL_HANDSHAKE_MAC_DEFAULT", "TLS1_PRF"})
RSA_RC4_128_SHA ==
  Entry(1, "TLS_RSA_WITH_RC4_128_SHA", \h03000005, {"SSL_kRSA"},
        <<SSL3_VERSION, TLS1_2_VERSION>>, <<0, 0>>, {"SSL_HANDSHAKE_MAC_DEFAULT", "TLS1_PRF"})
ADH_RC4_128_MD5 ==
  Entry(1, "TLS_DH_anon_WITH_RC4_128_MD5", \h03000018, {"SSL_kDHE"},
        <<SSL3_VERSION, TLS1_2_VERSION>>, <<0, 0>>, {"SSL_HANDSHAKE_MAC_DEFAULT", "TLS1_PRF"})
ECDHE_PSK_WITH_RC4_128_SHA ==
  Entry(1, "TLS_ECDHE_PSK_WITH_RC4_128_SHA", \h0300c033, {"SSL_kECDHEPSK"},
        <<TLS1_VERSION, TLS1_2_VERSION>>, <<0, 0>>, {"SSL_HANDSHAKE_MAC_DEFAULT", "TLS1_PRF"})
ECDH_anon_WITH_RC4_128_SHA ==
  Entry(1, "TLS_ECDH_anon_WITH_RC4_128_SHA", \h0300c016, {"SSL_kECDHE"},
        <<TLS1_VERSION, TLS1_2_VERSION>>, <<0, 0>>, {"SSL_HANDSHAKE_MAC_DEFAULT", "TLS1_PRF"})
ECDHE_ECDSA_WITH_RC4_128_SHA ==
  Entry(1, "TLS_ECDHE_ECDSA_WITH_RC4_128_SHA", \h0300c007, {"SSL_kECDHE"},
        <<TLS1_VERSION, TLS1_2_VERSION>>, <<0, 0>>, {"SSL_HANDSHAKE_MAC_DEFAULT", "TLS1_PRF"})
ECDHE_RSA_WITH_RC4_128_SHA ==
  Entry(1, "TLS_ECDHE_RSA_WITH_RC4_128_SHA", \h0300c011, {"SSL_kECDHE"},
        <<TLS1_VERSION, TLS1_2_VERSION>>, <<0, 0>>, {"SSL_HANDSHAKE_MAC_DEFAULT", "TLS1_PRF"})
PSK_WITH_RC4_128_SHA ==
  Entry(1, "TLS_PSK_WITH_RC4_128_SHA", \h0300008a, {"SSL_kPSK"},
        <<SSL3_VERSION, TLS1_2_VERSION>>, <<0, 0>>, {"SSL_HANDSHAKE_MAC_DEFAULT", "TLS1_PRF"})
RSA_PSK_WITH_RC4_128_SHA ==
  Entry(1, "TLS_RSA_PSK_WITH_RC4_128_SHA", \h03000092, {"SSL_kRSAPSK"},
        <<SSL3_VERSION, TLS1_2_VERSION>>, <<0, 0>>, {"SSL_HANDSHAKE_MAC_DEFAULT", "TLS1_PRF"})
DHE_PSK_WITH_RC4_128_SHA ==
  Entry(1, "TLS_DHE_PSK_WITH_RC4_128_SHA", \h0300008e, {"SSL_kDHEPSK"},
        <<SSL3_VERSION, TLS1_2_VERSION>>, <<0, 0>>, {"SSL_HANDSHAKE_MAC_DEFAULT", "TLS1_PRF"})
RSA_WITH_ARIA_128_GCM_SHA256 ==
  Entry(1, "TLS_RSA_WITH_ARIA_128_GCM_SHA256", \h0300c050, {"SSL_kRSA"},
        <<TLS1_2_VERSION, TLS1_2_VERSION>>, <<DTLS1_2_VERSION, DTLS1_2_VERSION>>, {"SSL_HANDSHAKE_MAC_SHA256", "TLS1_PRF_SHA256"})
RSA_WITH_ARIA_256_GCM_SHA384 ==
  Entry(1, "TLS_RSA_WITH_ARIA_256_GCM_SHA384", \h0300c051, {"SSL_kRSA"},
        <<TLS1_2_VERSION, TLS1_2_VERSION>>, <<DTLS1_2_VERSION, DTLS1_2_VERSION>>, {"SSL_HANDSHAKE_MAC_SHA384", "TLS1_PRF_SHA384"})
DHE_RSA_WITH_ARIA_128_GCM_SHA256 ==
  Entry(1, "TLS_DHE_RSA_WITH_ARIA_128_GCM_SHA256", \h0300c052, {"SSL_kDHE"},
        <<TLS1_2_VERSION, TLS1_2_VERSION>>, <<DTLS1_2_VERSION, DTLS1_2_VERSION>>, {"SSL_HANDSHAKE_MAC_SHA256", "TLS1_PRF_SHA256"})
DHE_RSA_WITH_ARIA_256_GCM_SHA384 ==
  Entry(1, "TLS_DHE_RSA_WITH_ARIA_256_GCM_SHA384", \h0300c053, {"SSL_kDHE"},
        <<TLS1_2_VERSION, TLS1_2_VERSION>>, <<DTLS1_2_VERSION, DTLS1_2_VERSION>>, {"SSL_HANDSHAKE_MAC_SHA384", "TLS1_PRF_SHA384"})
DHE_DSS_WITH_ARIA_128_GCM_SHA256 ==
  Entry(1, "TLS_DHE_DSS_WITH_ARIA_128_GCM_SHA256", \h0300c056, {"SSL_kDHE"},
        <<TLS1_2_VERSION, TLS1_2_VERSION>>, <<DTLS1_2_VERSION, DTLS1_2_VERSION>>, {"SSL_HANDSHAKE_MAC_SHA256", "TLS1_PRF_SHA256"})
DHE_DSS_WITH_ARIA_256_GCM_SHA384 ==
  Entry(1, "TLS_DHE_DSS_WITH_ARIA_256_GCM_SHA384", \h0300c057, {"SSL_kDHE"},
        <<TLS1_2_VERSION, TLS1_2_VERSION>>, <<DTLS1_2_VERSION, DTLS1_2_VERSION>>, {"SSL_HANDSHAKE_MAC_SHA384", "TLS1_PRF_SHA384"})
ECDHE_ECDSA_WITH_ARIA_128_GCM_SHA256 ==
  Entry(1, "TLS_ECDHE_ECDSA_WITH_ARIA_128_GCM_SHA256", \h0300c05c, {"SSL_kECDHE"},
        <<TLS1_2_VERSION, TLS1_2_VERSION>>, <<DTLS1_2_VERSION, DTLS1_2_VERSION>>, {"SSL_HANDSHAKE_MAC_SHA256", "TLS1_PRF_SHA256"})
ECDHE_ECDSA_WITH_ARIA_256_GCM_SHA384 ==
  Entry(1, "TLS_ECDHE_ECDSA_WITH_ARIA_256_GCM_SHA384", \h0300c05d, {"SSL_kECDHE"},
        <<TLS1_2_VERSION, TLS1_2_VERSION>>, <<DTLS1_2_VERSION, DTLS1_2_VERSION>>, {"SSL_HANDSHAKE_MAC_SHA384", "TLS1_PRF_SHA384"})
ECDHE_RSA_WITH_ARIA_128_GCM_SHA256 ==
  Entry(1, "TLS_ECDHE_RSA_WITH_ARIA_128_GCM_SHA256", \h0300c060, {"SSL_kECDHE"},
        <<TLS1_2_VERSION, TLS1_2_VERSION>>, <<DTLS1_2_VERSION, DTLS1_2_VERSION>>, {"SSL_HANDSHAKE_MAC_SHA256", "TLS1_PRF_SHA256"})
ECDHE_RSA_WITH_ARIA_256_GCM_SHA384 ==
  Entry(1, "TLS_ECDHE_RSA_WITH_ARIA_256_GCM_SHA384", \h0300c061, {"SSL_kECDHE"},
        <<TLS1_2_VERSION, TLS1_2_VERSION>>, <<DTLS1_2_VERSION, DTLS1_2_VERSION>>, {"SSL_HANDSHAKE_MAC_SHA384", "TLS1_PRF_SHA384"})
PSK_WITH_ARIA_128_GCM_SHA256 ==
  Entry(1, "TLS_PSK_WITH_ARIA_128_GCM_SHA256", \h0300c06a, {"SSL_kPSK"},
        <<TLS1_2_VERSION, TLS1_2_VERSION>>, <<DTLS1_2_VERSION, DTLS1_2_VERSION>>, {"SSL_HANDSHAKE_MAC_SHA256", "TLS1_PRF_SHA256"})
PSK_WITH_ARIA_256_GCM_SHA384 ==
  Entry(1, "TLS_PSK_WITH_ARIA_256_GCM_SHA384", \h0300c06b, {"SSL_kPSK"},
        <<TLS1_2_VERSION, TLS1_2_VERSION>>, <<DTLS1_2_VERSION, DTLS1_2_VERSION>>, {"SSL_HANDSHAKE_MAC_SHA384", "TLS1_PRF_SHA384"})
DHE_PSK_WITH_ARIA_128_GCM_SHA256 ==
  Entry(1, "TLS_DHE_PSK_WITH_ARIA_128_GCM_SHA256", \h0300c06c, {"SSL_kDHEPSK"},
        <<TLS1_2_VERSION, TLS1_2_VERSION>>, <<DTLS1_2_VERSION, DTLS1_2_VERSION>>, {"SSL_HANDSHAKE_MAC_SHA256", "TLS1_PRF_SHA256"})
DHE_PSK_WITH_ARIA_256_GCM_SHA384 ==
  Entry(1, "TLS_DHE_PSK_WITH_ARIA_256_GCM_SHA384", \h0300c06d, {"SSL_kDHEPSK"},
        <<TLS1_2_VERSION, TLS1_2_VERSION>>, <<DTLS1_2_VERSION, DTLS1_2_VERSION>>, {"SSL_HANDSHAKE_MAC_SHA384", "TLS1_PRF_SHA384"})
RSA_PSK_WITH_ARIA_128_GCM_SHA256 ==
  Entry(1, "TLS_RSA_PSK_WITH_ARIA_128_GCM_SHA256", \h0300c06e, {"SSL_kRSAPSK"},
        <<TLS1_2_VERSION, TLS1_2_VERSION>>, <<DTLS1_2_VERSION, DTLS1_2_VERSION>>, {"SSL_HANDSHAKE_MAC_SHA256", "TLS1_PRF_SHA256"})
RSA_PSK_WITH_ARIA_256_GCM_SHA384 ==
  Entry(1, "TLS_RSA_PSK_WITH_ARIA_256_GCM_SHA384", \h0300c06f, {"SSL_kRSAPSK"},
        <<TLS1_2_VERSION, TLS1_2_VERSION>>, <<DTLS1_2_VERSION, DTLS1_2_VERSION>>, {"SSL_HANDSHAKE_MAC_SHA384", "TLS1_PRF_SHA384"})
BTLS1_TXT_DHE_BIGN_WITH_BELT_CTR_MAC_HBELT ==
  Entry(1, "BTLS1_RFC_DHE_BIGN_WITH_BELT_CTR_MAC_HBELT", \h0300ff15, {"SSL_kBDHE"},
        <<TLS1_2_VERSION, TLS1_2_VERSION>>, <<0, 0>>, {"SSL_HANDSHAKE_MAC_HBELT", "TLS1_PRF_HBELT"})
BTLS1_TXT_DHE_BIGN_WITH_BELT_DWP_HBELT ==
  Entry(1, "BTLS1_RFC_DHE_BIGN_WITH_BELT_DWP_HBELT", \h0300ff16, {"SSL_kBDHE"},
        <<TLS1_2_VERSION, TLS1_2_VERSION>>, <<0, 0>>, {"SSL_HANDSHAKE_MAC_HBELT", "TLS1_PRF_HBELT"})
BTLS1_TXT_DHT_BIGN_WITH_BELT_CTR_MAC_HBELT ==
  Entry(1, "BTLS1_RFC_DHT_BIGN_WITH_BELT_CTR_MAC_HBELT", \h0300ff17, {"SSL_kBDHT"},
        <<TLS1_2_VERSION, TLS1_2_VERSION>>, <<0, 0>>, {"SSL_HANDSHAKE_MAC_HBELT", "TLS1_PRF_HBELT"})
BTLS1_TXT_DHT_BIGN_WITH_BELT_DWP_HBELT ==
  Entry(1, "BTLS1_RFC_DHT_BIGN_WITH_BELT_DWP_HBELT", \h0300ff18, {"SSL_kBDHT"},
        <<TLS1_2_VERSION, TLS1_2_VERSION>>, <<0, 0>>, {"SSL_HANDSHAKE_MAC_HBELT", "TLS1_PRF_HBELT"})
BTLS1_TXT_DHE_PSK_BIGN_WITH_BELT_CTR_MAC_HBELT ==
  Entry(1, "BTLS1_RFC_DHE_PSK_BIGN_WITH_BELT_CTR_MAC_HBELT", \h0300ff19, {"SSL_kBDHEPSK"},
        <<TLS1_2_VERSION, TLS1_2_VERSION>>, <<0, 0>>, {"SSL_HANDSHAKE_MAC_HBELT", "TLS1_PRF_HBELT"})
BTLS1_TXT_DHE_PSK_BIGN_WITH_BELT_DWP_HBELT ==
  Entry(1, "BTLS1_RFC_DHE_PSK_BIGN_WITH_BELT_DWP_HBELT", \h0300ff1a, {"SSL_kBDHEPSK"},
        <<TLS1_2_VERSION, TLS1_2_VERSION>>, <<0, 0>>, {"SSL_HANDSHAKE_MAC_HBELT", "TLS1_PRF_HBELT"})
BTLS1_TXT_DHT_PSK_BIGN_WITH_BELT_CTR_MAC_HBELT ==
  Entry(1, "BTLS1_RFC_DHT_PSK_BIGN_WITH_BELT_CTR_MAC_HBELT", \h0300ff1b, {"SSL_kBDHTPSK"},
        <<TLS1_2_VERSION, TLS1_2_VERSION>>, <<0, 0>>, {"SSL_HANDSHAKE_MAC_HBELT", "TLS1_PRF_HBELT"})
BTLS1_TXT_DHT_PSK_BIGN_WITH_BELT_DWP_HBELT ==
  Entry(1, "BTLS1_RFC_DHT_PSK_BIGN_WITH_BELT_DWP_HBELT", \h0300ff1c, {"SSL_kBDHTPSK"},
        <<TLS1_2_VERSION, TLS1_2_VERSION>>, <<0, 0>>, {"SSL_HANDSHAKE_MAC_HBELT", "TLS1_PRF_HBELT"})
SCSV ==
  Entry(0, "TLS_EMPTY_RENEGOTIATION_INFO_SCSV", \h030000ff, {},
        <<0, 0>>, <<0, 0>>, {})
FALLBACK_SCSV ==
  Entry(0, "TLS_FALLBACK_SCSV", \h03005600, {},
        <<0, 0>>, <<0, 0>>, {})

====
