----------------------------- MODULE MC_S3Catalog -----------------------------
EXTENDS S3Catalog

\* Ids next to real ones that no entry has: a TLS 1.3 id past the last, a
\* BIGN id past the block, a GOST id under the wrong flag, an SSLv2-style id.
MCAbsentIds == {\h03001306, \h0300ff1d, \h0300ff86, \h02000080}
MCUnknownNames == {"TLS_NOPE", "IANA-GOST2012-GOST8912-GOST8912"}
====
