--------------------------- MODULE MCEndpointScan ---------------------------
(* A small instance of EndpointScan for TLC: six suites of the table, two  *)
(* classical and two post-quantum groups.                                  *)
EXTENDS EndpointScan, TLC

Suite(kex, cipher, bits, mac) ==
  [kex |-> kex, auth |-> "RSA", cipher |-> cipher, bits |-> bits, mac |-> mac]

MCSuites ==
  (4866 :> Suite("TLS1.3", "AES", 256, "AEAD")) @@     \* 0x1302
  (4868 :> Suite("TLS1.3", "AES", 128, "AEAD")) @@     \* 0x1304, CCM
  (49199 :> Suite("ECDHE", "AES", 128, "AEAD")) @@     \* 0xC02F
  (158 :> Suite("DHE", "AES", 128, "AEAD")) @@         \* 0x009E
  (47 :> Suite("RSA", "AES", 128, "SHA1")) @@          \* 0x002F
  (5 :> Suite("RSA", "RC4", 128, "SHA1"))              \* 0x0005

MCClassicalGroups == {29, 23}         \* x25519, secp256r1
MCPqcGroups       == {4588, 25497}    \* X25519MLKEM768, X25519Kyber768Draft00

\* A server that prefers old things.
MCRank ==
  (25497 :> 1) @@ (4588 :> 2) @@ (23 :> 3) @@ (29 :> 4) @@
  (5 :> 5) @@ (47 :> 6) @@ (158 :> 7) @@ (49199 :> 8) @@ (4868 :> 9) @@ (4866 :> 10)

MCServers ==
  {s \in [versions : {{"SSLv3"}, {"TLS 1.0", "TLS 1.2"}, {"TLS 1.2", "TLS 1.3"}, {"TLS 1.3"}},
          suites   : {{4866, 49199}, {5, 47}, {4868}, {4866, 4868, 158}, {4866, 49199, 47, 5}},
          groups   : {{23}, {29, 4588}, {23, 29, 4588, 25497}},
          genuine  : BOOLEAN] :
     IsServer(s)}
=============================================================================
