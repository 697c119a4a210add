---------------------------- MODULE CryptoRules ----------------------------
(***************************************************************************)
(* quantumready/engine/quantum.py: what a quantum adversary leaves of an   *)
(* algorithm, and the rules and the inventory that ask it: the certificate *)
(* and governance findings of rules.py, build_inventory of scanner.py.     *)
(*                                                                         *)
(* Besides what EndpointRules knows, an endpoint e has classical (groups), *)
(* trusted, nameMatches, complete, vendor (its issuer is a known           *)
(* interceptor) and leaf, empty or one certificate: days (whole days to    *)
(* its expiry, negative once expired), started, lifetime, selfSigned, sct, *)
(* wildcard (a broad one), hash ("none" if its algorithm names none) and   *)
(* key, empty or one [alg, bits, exponent].                                *)
(***************************************************************************)
EXTENDS EndpointRules, FiniteSets

CONSTANT ClassicalCodes   \* the codes of NAMED_GROUPS that are not post-quantum

StandardKeys == {"ML-KEM", "ML-DSA", "SLH-DSA"}     \* the families of PQC_STANDARDS
RsaKeys      == {"RSA", "RSASSA-PSS"}
CurveKeys    == {"EC", "ECDSA", "ECDH", "ECDHE"}
FixedCurves  == [Ed25519 |-> 128, X25519 |-> 128, Ed448 |-> 224, X448 |-> 224]
BrokenHashes == {"MD2", "MD4", "MD5", "SHA-1"}
HashBits     == [h \in {"SHA-224", "SHA-256", "SHA-384", "SHA-512"} |->
                   CASE h = "SHA-224" -> 224 [] h = "SHA-256" -> 256
                     [] h = "SHA-384" -> 384 [] h = "SHA-512" -> 512]

-----------------------------------------------------------------------------
(* The strength of an RSA modulus, between the rows of _RSA_STRENGTH.      *)

RsaStrength == <<<<1024, 80>>, <<2048, 112>>, <<3072, 128>>, <<7680, 192>>, <<15360, 256>>>>

Row(n) ==
  CHOOSE i \in 1 .. 4 : n \in RsaStrength[i][1] + 1 .. RsaStrength[i + 1][1]

Interpolated(n) ==
  LET low  == RsaStrength[Row(n)]
      high == RsaStrength[Row(n) + 1]
  IN low[2] + ((n - low[1]) * (high[2] - low[2])) \div (high[1] - low[1])

RsaBits(n) ==
  IF n <= 0 THEN 0
  ELSE IF n <= 12 THEN 1
  ELSE IF n <= 1024 THEN (80 * n) \div 1024
  ELSE IF n <= 15360 THEN Interpolated(n)
  ELSE 256

-----------------------------------------------------------------------------
(* Assessments.  Whatever the algorithm, it is safe if 128 bits are left.  *)

Assessed(classical, quantum, by) ==
  [classical |-> classical, quantum |-> quantum, safe |-> quantum >= 128, by |-> by]

AssessKey(key) ==
  CASE key.alg \in StandardKeys ->
         Assessed(IF key.bits = 0 THEN 128 ELSE key.bits, 128, "none")
    [] key.alg \in RsaKeys \cup {"DSA"} -> Assessed(RsaBits(key.bits), 0, "Shor")
    [] key.alg \in CurveKeys            -> Assessed(key.bits \div 2, 0, "Shor")
    [] key.alg \in DOMAIN FixedCurves   -> Assessed(FixedCurves[key.alg], 0, "Shor")
    [] OTHER                            -> Assessed(key.bits, 0, "none")

AssessCipher(bits) ==
  Assessed(bits, bits \div 2,
           IF bits = 0 \/ bits \div 2 >= 128 THEN "none" ELSE "Grover")

AssessHash(hash) ==
  LET half == (IF hash \in DOMAIN HashBits THEN HashBits[hash] ELSE 0) \div 2
  IN IF hash \in BrokenHashes
     THEN Assessed(0, 0, "none")
     ELSE Assessed(half, half, IF half < 128 THEN "Grover" ELSE "none")

-----------------------------------------------------------------------------
(* certificate_findings *)

Intercepted(e) ==
  \E c \in e.leaf : e.vendor \/ (e.trusted /\ ~c.sct /\ ~c.selfSigned)

ValidityFindings(c) ==
  When(c.days < 0, "certificate.expired", "critical")
  \cup When(c.days >= 0 /\ ~c.started, "certificate.not-yet-valid", "critical")
  \cup When(c.started /\ c.days \in 0 .. 30, "certificate.expiring-soon",
            IF c.days <= 14 THEN "high" ELSE "medium")
  \cup When(c.lifetime > 398, "certificate.excessive-lifetime", "medium")

TrustFindings(e, c) ==
  When(c.selfSigned, "certificate.self-signed", "high")
  \cup When(~c.selfSigned /\ ~e.trusted, "certificate.untrusted", "high")
  \cup When(~e.nameMatches, "certificate.hostname-mismatch", "high")
  \cup When(~e.complete, "certificate.incomplete-chain", "medium")
  \cup When(~c.sct /\ ~c.selfSigned /\ ~Intercepted(e), "certificate.no-transparency", "low")

KeyFindings(key) ==
  When(key.alg \in RsaKeys /\ key.bits < 2048, "certificate.weak-key", "critical")
  \cup When(key.alg = "EC" /\ AssessKey(key).classical < 112, "certificate.weak-curve", "high")
  \cup When(~AssessKey(key).safe /\ AssessKey(key).by = "Shor",
            "pqc.classical-certificate-key", "high")
  \cup When(key.exponent # 0 /\ key.exponent < 65537, "certificate.small-rsa-exponent", "low")

StrengthFindings(c) ==
  (UNION {KeyFindings(key) : key \in c.key})
  \cup When(c.hash \in BrokenHashes, "certificate.broken-signature-hash", "critical")
  \cup When(c.wildcard, "certificate.broad-wildcard", "medium")

CertificateFindings(e) ==
  IF e.leaf = {}
  THEN When(e.reachable, "certificate.unreadable", "high")
  ELSE UNION {ValidityFindings(c) \cup TrustFindings(e, c) \cup StrengthFindings(c) : c \in e.leaf}

\* What _analyse says of one endpoint.
AllEndpointFindings(e) ==
  CertificateFindings(e) \cup EndpointFindings(e)
  \cup When(e.reachable /\ Intercepted(e), "tls.interception-detected", "info")

-----------------------------------------------------------------------------
(* build_inventory, of one endpoint; an asset's name is its code or bits   *)
(* where that tells it apart.                                              *)

Asset(kind, name, a) == [kind |-> kind, name |-> name, safe |-> a.safe, by |-> a.by]

CertificateAssets(e) ==
  UNION {{Asset("signature", <<k.alg, k.bits>>, AssessKey(k)) : k \in c.key}
         \cup {Asset("hash", <<h, 0>>, AssessHash(h)) : h \in {c.hash} \ {"none"}} : c \in e.leaf}

Inventory(e) ==
  IF ~e.reachable THEN {}
  ELSE CertificateAssets(e)
       \cup {Asset("key-exchange", <<"group", g>>, Assessed(0, 0, "Shor")) :
               g \in e.classical \cap ClassicalCodes}
       \cup {Asset("key-encapsulation", <<"group", g>>, Assessed(0, 128, "none")) : g \in e.pqc}
       \cup {Asset("cipher", <<Suites[s].cipher, Suites[s].bits>>, AssessCipher(Suites[s].bits)) :
               s \in e.suites}

\* mutant: what Grover weakens counts as broken by Shor.
VulnerableToAny(assets) == {a \in assets : ~a.safe}

Vulnerable(assets) == {a \in assets : ~a.safe /\ a.by = "Shor"}

GovernanceFindings(assets) ==
  When(Vulnerable(assets) # {}, "governance.cryptographic-inventory", "medium")

\* The ids of tls_findings, pqc_findings, certificate_findings, governance_findings.
AboutEndpoints == {
  "tls.unreachable", "tls.deprecated-version", "tls.no-tls13", "tls.broken-ciphers",
  "tls.cbc-ciphers", "tls.interception-detected", "pqc.no-forward-secrecy",
  "pqc.hybrid-enabled", "pqc.superseded-draft", "pqc.probe-inconclusive",
  "pqc.no-hybrid-key-exchange", "pqc.symmetric-128-only", "pqc.classical-certificate-key",
  "certificate.unreadable", "certificate.expired", "certificate.not-yet-valid",
  "certificate.expiring-soon", "certificate.excessive-lifetime", "certificate.self-signed",
  "certificate.untrusted", "certificate.hostname-mismatch", "certificate.incomplete-chain",
  "certificate.no-transparency", "certificate.weak-key", "certificate.weak-curve",
  "certificate.small-rsa-exponent", "certificate.broken-signature-hash",
  "certificate.broad-wildcard", "governance.cryptographic-inventory"}

Severities == <<"critical", "high", "medium", "low", "info">>

\* What HTTP, DNS and the licences report is a list of findings, none of them one
\* of an endpoint or the inventory, and a server's version is a low one.
IsReport(fs) ==
  /\ IsFiniteSet(fs)
  /\ \A f \in fs : /\ \E i \in 1 .. 5 : f.severity = Severities[i]
                   /\ f.id \notin AboutEndpoints
                   /\ f.id = "http.version-disclosure" => f.severity = "low"
=============================================================================
