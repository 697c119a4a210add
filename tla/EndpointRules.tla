--------------------------- MODULE EndpointRules ---------------------------
(***************************************************************************)
(* tls_findings and pqc_findings of quantumready/engine/rules.py: what is  *)
(* said of one endpoint.  An endpoint is a record of what scan_endpoint    *)
(* learned: reachable, supported (versions), suites (of any version),      *)
(* pqc (groups), note (pqc_probe_note is set).  A finding keeps its id and *)
(* its severity; the texts and the interception notice are left out.       *)
(***************************************************************************)
EXTENDS Integers

CONSTANT Suites   \* CIPHER_SUITES: a code's kex, auth, cipher family, bits, mac

Deprecated       == {"SSLv3", "TLS 1.0", "TLS 1.1"}
StandardHybrids  == {4587, 4588, 4589}     \* 0x11EB, 0x11EC, 0x11ED
DraftHybrids     == {25497, 25498}         \* 0x6399, 0x639A

\* What scan_endpoint may return: of a server that was not reached, nothing.
IsProbed(e) ==
  /\ {e.reachable, e.note} \subseteq BOOLEAN /\ e.suites \subseteq DOMAIN Suites
  /\ ~e.reachable => e.supported = {} /\ e.suites = {}

ForwardSecret(c) == Suites[c].kex \in {"ECDHE", "DHE", "TLS1.3"}
Aead(c)          == Suites[c].mac = "AEAD"

BrokenSuite(c) ==
  \/ Suites[c].auth = "ANON" \/ Suites[c].cipher = "NULL" \/ Suites[c].bits < 112
  \/ Suites[c].cipher \in {"RC4", "3DES", "DES"}

Finding(id, severity) == [id |-> id, severity |-> severity]

When(condition, id, severity) == IF condition THEN {Finding(id, severity)} ELSE {}

\* A suite falls in the first class that fits: broken, no forward secrecy, CBC.
TlsFindings(e) ==
  LET sound == {c \in e.suites : ~BrokenSuite(c)}
  IN IF ~e.reachable
     THEN {Finding("tls.unreachable", "info")}
     ELSE {Finding("tls.deprecated-version", IF v = "SSLv3" THEN "critical" ELSE "high") :
             v \in e.supported \cap Deprecated}
          \cup When(e.supported # {} /\ "TLS 1.3" \notin e.supported, "tls.no-tls13", "medium")
          \cup When(sound # e.suites, "tls.broken-ciphers", "critical")
          \cup When(\E c \in sound : ~ForwardSecret(c), "pqc.no-forward-secrecy", "critical")
          \cup When(\E c \in sound : ForwardSecret(c) /\ ~Aead(c), "tls.cbc-ciphers", "low")

\* An empty list is "none" only if its probes went through.
PqcFindings(e) ==
  LET standard == e.pqc \cap StandardHybrids # {}
  IN IF ~e.reachable THEN {}
     ELSE When(standard, "pqc.hybrid-enabled", "info")
          \cup When(~standard /\ e.pqc \cap DraftHybrids # {}, "pqc.superseded-draft", "medium")
          \cup When(e.pqc = {} /\ e.note, "pqc.probe-inconclusive", "info")
          \cup When(e.pqc = {} /\ ~e.note, "pqc.no-hybrid-key-exchange", "high")
          \cup When(e.suites # {} /\ \A c \in e.suites : Suites[c].bits < 256,
                    "pqc.symmetric-128-only", "medium")

EndpointFindings(e) == TlsFindings(e) \cup PqcFindings(e)

FindingIds(findings) == {f.id : f \in findings}
=============================================================================
