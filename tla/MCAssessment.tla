---------------------------- MODULE MCAssessment ----------------------------
(* A small instance of Assessment for TLC.                                  *)
EXTENDS Assessment, TLC

Suite(kex, cipher, bits, mac) ==
  [kex |-> kex, auth |-> "RSA", cipher |-> cipher, bits |-> bits, mac |-> mac]

MCSuites ==
  (4866 :> Suite("TLS1.3", "AES", 256, "AEAD")) @@     \* 0x1302
  (49199 :> Suite("ECDHE", "AES", 128, "AEAD")) @@     \* 0xC02F
  (49171 :> Suite("ECDHE", "AES", 128, "SHA1")) @@     \* 0xC013
  (47 :> Suite("RSA", "AES", 128, "SHA1")) @@          \* 0x002F
  (5 :> Suite("RSA", "RC4", 128, "SHA1"))              \* 0x0005

MCClassicalCodes == {29, 23}     \* x25519, secp256r1

Key(alg, bits, exponent) == [alg |-> alg, bits |-> bits, exponent |-> exponent]

Good(key) == [days |-> 60, started |-> TRUE, lifetime |-> 90, selfSigned |-> FALSE, sct |-> TRUE,
              wildcard |-> FALSE, hash |-> "SHA-256", key |-> {key}]

Dead == [reachable |-> FALSE, supported |-> {}, suites |-> {}, pqc |-> {}, note |-> FALSE,
         classical |-> {}, leaf |-> {}, trusted |-> FALSE, nameMatches |-> FALSE,
         complete |-> TRUE, vendor |-> FALSE]

Modern(leaf) == [reachable |-> TRUE, supported |-> {"TLS 1.2", "TLS 1.3"}, suites |-> {4866, 49199},
                 pqc |-> {4588}, note |-> FALSE, classical |-> {29}, leaf |-> {leaf},
                 trusted |-> TRUE, nameMatches |-> TRUE, complete |-> TRUE, vendor |-> FALSE]

\* A hybrid site with a classical key; one that is all post-quantum; the same
\* with a Kyber draft and a lapsing certificate; one with a group of its own;
\* one scanned without the deep probes; one whose probes failed behind an
\* interceptor; two old ones; a weak curve; a host that does not answer.
MCFacts ==
  LET rsa     == Good(Key("RSA", 2048, 65537))
      quantum == Good(Key("ML-DSA", 0, 0))
  IN {Modern(rsa), Dead,
      [Modern(quantum) EXCEPT !.suites = {4866}, !.classical = {}],
      [Modern([quantum EXCEPT !.days = 10]) EXCEPT !.pqc = {25497}, !.classical = {},
                                                       !.complete = FALSE],
      [Modern(quantum) EXCEPT !.pqc = {1896}, !.supported = {"TLS 1.3"}, !.suites = {},
                              !.classical = {}],
      [Modern(rsa) EXCEPT !.leaf = {}, !.suites = {}, !.pqc = {}, !.classical = {}],
      [Modern([Good(Key("Ed25519", 256, 0)) EXCEPT !.sct = FALSE, !.hash = "none", !.wildcard = TRUE])
         EXCEPT !.pqc = {}, !.note = TRUE, !.supported = {"TLS 1.2"}, !.suites = {49171}],
      [Modern([Good(Key("RSA", 1024, 3)) EXCEPT !.days = -2, !.hash = "SHA-1", !.lifetime = 3650,
                                                !.sct = FALSE])
         EXCEPT !.pqc = {}, !.classical = {}, !.trusted = FALSE,
                !.supported = {"SSLv3", "TLS 1.0"}, !.suites = {5}],
      [Modern([Good(Key("DSA", 1024, 0)) EXCEPT !.days = 20, !.selfSigned = TRUE])
         EXCEPT !.pqc = {}, !.trusted = FALSE, !.nameMatches = FALSE,
                !.supported = {"TLS 1.0"}, !.suites = {47, 49171}],
      [Modern([Good(Key("EC", 192, 0)) EXCEPT !.started = FALSE, !.lifetime = 400])
         EXCEPT !.classical = {23}, !.vendor = TRUE]}

Of(id, severity, target) == [id |-> id, severity |-> severity, target |-> target]

MCSiteReports == {
  {},
  {Of("http.no-https-redirect", "high", "own"), Of("http.version-disclosure", "low", "own")},
  {Of("http.no-hsts", "high", "own"), Of("http.insecure-cookies", "medium", "own"),
   Of("http.no-hsts", "high", "www")}}

MCDnsReports == {{}, {Of("dns.no-caa", "medium", "domain"), Of("dns.no-dmarc", "high", "domain")}}

MCLicenceReports == {
  {},
  {Of("licence.commercial-restriction", "high", "own")},
  {Of("licence.copyleft-obligation", "critical", "own"),
   Of("licence.end-of-life-component", "high", "own"), Of("licence.undetermined", "medium", "own")}}

\* Around the deadline in 2020, a leap year: 2035 - 10 - 5 when the scenario is
\* unknown and central stands in, 2046 - 25 - 1 when the operator gives a year.
MCClocks == [year : {2020}, day : {1, 2, 19, 20, 366}]
            \cup {[year |-> 2019, day |-> 365], [year |-> 2021, day |-> 1]}

MCDemands ==
  {[shelf |-> 10, migration |-> 5, scenario |-> "none such", given |-> 0],
   [shelf |-> 25, migration |-> 1, scenario |-> "conservative", given |-> 2046]}
=============================================================================
