----------------------------- MODULE Assessment -----------------------------
(***************************************************************************)
(* Scanner._analyse of quantumready/scanner.py: the findings gathered      *)
(* endpoint by endpoint, then from HTTP, DNS, the licences and the         *)
(* inventory; from them the score (engine/scoring.py), Mosca's inequality  *)
(* (quantum.py), the frameworks (compliance.py) and the plan               *)
(* (remediation.py); and the two readers of the result: the row of a study *)
(* (_extract of study.py) and the exit code of the command line (cli.py).  *)
(*                                                                         *)
(* A finding is its id, severity and target.  Python's list is a set here: *)
(* the same issue twice on one target counts once everywhere but in the    *)
(* tallies by severity, which are left out.                                *)
(***************************************************************************)
EXTENDS CryptoRules, Sequences, FiniteSets, FiniteSetsExt

CONSTANTS Facts,           \* what may be learned of an endpoint: see CryptoRules
          MaxEndpoints,    \* bound: endpoints in one scan
          SiteReports, DnsReports, LicenceReports,
                           \* the sets of findings of SiteScan and DnsPosture
          Clocks,          \* [year, day] (tm_yday) at the analysis
          Demands          \* [shelf, migration, scenario, given]: X, Y and quantum_year or 0

Weight == [critical |-> 40, high |-> 20, medium |-> 8, low |-> 3, info |-> 0]
Rank(f) == (CHOOSE i \in 1 .. 5 : Severities[i] = f.severity) - 1

\* mutant: max for min, so that the mildest finding speaks for the issue.
MildestOf(fs) == Max({Rank(f) : f \in fs})

Worst(fs) == Min({Rank(f) : f \in fs})
OfId(fs, id) == {f \in fs : f.id = id}
Ids(fs) == {f.id : f \in fs}
Targets(fs) == {f.target : f \in fs}

At(fs, target) == {[id |-> f.id, severity |-> f.severity, target |-> target] : f \in fs}

IsFact(e) ==
  /\ IsProbed(e)
  /\ {e.trusted, e.nameMatches, e.complete, e.vendor} \subseteq BOOLEAN
  /\ e.classical \subseteq ClassicalCodes
  /\ \A c \in e.leaf : \A k \in c.key : k.bits \in Nat
  /\ ~e.reachable => e.leaf = {}

ASSUME FactsAssumption   == \A e \in Facts : IsFact(e)
ASSUME BoundAssumption   == MaxEndpoints \in Nat
ASSUME ReportsAssumption == \A r \in SiteReports \cup DnsReports \cup LicenceReports : IsReport(r)
ASSUME ClocksAssumption  == \A c \in Clocks : c.year \in Nat /\ c.day \in 1 .. 366
ASSUME DemandsAssumption == \A d \in Demands : {d.shelf, d.migration, d.given} \subseteq Int

VARIABLES
  stage,       \* the part of _analyse that comes next, then who read the result
  endpoints,   \* result.endpoints; the label of the i-th is i
  done,        \* how many of them were ruled on
  findings, assets,
  result,      \* {} or the scores, statuses and plan
  row,         \* {} or the row of the study
  exit         \* {} or [failOn, code]

vars == <<stage, endpoints, done, findings, assets, result, row, exit>>

-----------------------------------------------------------------------------
(* scoring.py *)

\* round(n / d, 1) in tenths; floating point decides a tie either way.
Tenths(n, d) ==
  LET down == (10 * n) \div d
  IN {t \in {down, down + 1} : 2 * (10 * n - t * d) <= d /\ 2 * (t * d - 10 * n) <= d}

\* In hundredths: the worst severity of an issue, times up to two for its breadth.
Loss(fs) ==
  [id \in Ids(fs) |->
     LET group == OfId(fs, id)
     IN Weight[Severities[Worst(group) + 1]]
          * Min({200, 85 + 15 * Cardinality(Targets(group))})]

Deduction(fs) == SumFunction(Loss(fs))

SecurityScores(fs) == Tenths(Max({0, 10000 - Deduction(fs)}), 100)

Grade(tenths) ==
  CASE tenths >= 900 -> "A" [] tenths >= 800 -> "B" [] tenths >= 650 -> "C"
    [] tenths >= 500 -> "D" [] tenths >= 350 -> "E" [] OTHER -> "F"

\* mutant: any for all.
SomeForwardSecrecy(e) ==
  IF e.suites = {} THEN e.supported = {"TLS 1.3"} ELSE \E c \in e.suites : ForwardSecret(c)

\* TLS 1.3 alone stands for suites that could not be enumerated.
ForwardSecrecy(e) ==
  IF e.suites = {} THEN e.supported = {"TLS 1.3"} ELSE \A c \in e.suites : ForwardSecret(c)

Aes256(e) ==
  IF e.suites = {} THEN "TLS 1.3" \in e.supported ELSE \E c \in e.suites : Suites[c].bits >= 256

Agile(e) == \E c \in e.leaf : c.lifetime \in 1 .. 398

Points(e) ==
  (IF e.pqc # {} THEN 40 ELSE 0) + (IF ForwardSecrecy(e) THEN 25 ELSE 0)
  + (IF "TLS 1.3" \in e.supported THEN 15 ELSE 0)
  + (IF Aes256(e) THEN 10 ELSE 0) + (IF Agile(e) THEN 10 ELSE 0)

Labels == DOMAIN endpoints
Live == {i \in Labels : endpoints[i].reachable}

ReadinessScores ==
  IF Live = {} THEN {0}
  ELSE Tenths(SumFunction([i \in Live |-> Points(endpoints[i])]), Cardinality(Live))

-----------------------------------------------------------------------------
(* quantum.py: Mosca's inequality.  Years are counted in 365ths.           *)

Scenarios == [conservative |-> 2030, central |-> 2035, optimistic |-> 2040]

QuantumYear(d) ==
  CASE d.given # 0                  -> d.given
    [] d.given = 0 /\ d.scenario \in DOMAIN Scenarios -> Scenarios[d.scenario]
    [] OTHER                        -> Scenarios.central

\* mutant: the first of January counts as a day gone.
YearsLessADay(d, clock) == 365 * (QuantumYear(d) - clock.year) - clock.day

YearsToQuantum(d, clock) == 365 * (QuantumYear(d) - clock.year) - (clock.day - 1)

AtRisk(d, clock) == 365 * (d.shelf + d.migration) > YearsToQuantum(d, clock)

Deadline(d) == QuantumYear(d) - d.shelf - d.migration

-----------------------------------------------------------------------------
(* compliance.py: the controls, by framework, and the ids that fail them.  *)

Control(framework, reference, ids) ==
  [framework |-> framework, reference |-> reference, ids |-> ids]

PostQuantumControls == {
  Control("ncsc-pqc", "Phase 1", {"governance.cryptographic-inventory"}),
  Control("ncsc-pqc", "Phase 2", {"pqc.no-hybrid-key-exchange", "pqc.no-forward-secrecy"}),
  Control("ncsc-pqc", "Phase 3",
          {"pqc.no-hybrid-key-exchange", "pqc.classical-certificate-key", "tls.no-tls13"}),
  Control("nist-pqc", "FIPS 203", {"pqc.no-hybrid-key-exchange"}),
  Control("nist-pqc", "FIPS 204", {"pqc.classical-certificate-key"}),
  Control("nist-pqc", "SP 800-131A",
          {"certificate.weak-key", "certificate.broken-signature-hash", "tls.broken-ciphers",
           "certificate.weak-curve"}),
  Control("cnsa2", "Key establishment", {"pqc.no-hybrid-key-exchange"}),
  Control("cnsa2", "Symmetric strength", {"pqc.symmetric-128-only"})}

RegimeControls == {
  Control("pci-dss-4", "4.2.1",
          {"tls.deprecated-version", "tls.broken-ciphers", "certificate.expired",
           "certificate.weak-key", "certificate.broken-signature-hash", "http.no-https-redirect"}),
  Control("pci-dss-4", "12.3.3", {"governance.cryptographic-inventory"}),
  Control("uk-gdpr", "32",
          {"pqc.no-forward-secrecy", "tls.broken-ciphers", "tls.deprecated-version",
           "http.no-https-redirect", "http.insecure-cookies"}),
  Control("uk-gdpr", "5(1)(e)", {"pqc.no-hybrid-key-exchange"}),
  Control("nis2", "21(2)(h)",
          {"tls.broken-ciphers", "tls.deprecated-version", "governance.cryptographic-inventory"}),
  Control("nis2", "21(2)(d)", {"licence.end-of-life-component", "licence.undetermined"}),
  Control("iso27001", "8.24",
          {"certificate.expired", "certificate.weak-key", "tls.broken-ciphers",
           "governance.cryptographic-inventory"}),
  Control("iso27001", "5.23", {"licence.copyleft-obligation", "licence.commercial-restriction"}),
  Control("cyber-essentials", "Secure configuration",
          {"tls.deprecated-version", "tls.broken-ciphers", "http.version-disclosure"}),
  Control("cyber-essentials", "Security update management", {"licence.end-of-life-component"})}

Controls == PostQuantumControls \cup RegimeControls

Hits(control, fs) == {f \in fs : f.id \in control.ids}

Status(control, fs) ==
  CASE Hits(control, fs) = {} -> "pass"
    [] Hits(control, fs) # {} /\ Worst(Hits(control, fs)) <= 1 -> "fail"
    [] OTHER -> "attention"

-----------------------------------------------------------------------------
(* remediation.py: an action for each id that has a template.              *)

Templates == [
  hours  |-> {"pqc.no-forward-secrecy", "tls.broken-ciphers", "tls.deprecated-version",
              "certificate.expired", "pqc.symmetric-128-only", "http.no-hsts",
              "http.no-https-redirect", "http.insecure-cookies", "dns.no-caa",
              "licence.exposed-manifest"},
  days   |-> {"certificate.weak-key", "certificate.broken-signature-hash",
              "pqc.no-hybrid-key-exchange", "tls.no-tls13", "dns.no-dmarc",
              "licence.undetermined"},
  weeks  |-> {"http.no-csp", "licence.copyleft-obligation", "licence.end-of-life-component"},
  months |-> {"pqc.classical-certificate-key", "governance.cryptographic-inventory"}]

EffortRank == [hours |-> 0, days |-> 1, weeks |-> 2, months |-> 3]

Actions(fs) ==
  UNION {{[id |-> id, effort |-> effort, rank |-> Worst(OfId(fs, id))] :
            id \in Templates[effort] \cap Ids(fs)} : effort \in DOMAIN Templates}

\* mutant: the cheaper one first, as remediation.py:3 can be read.
CheaperBefore(a, b) ==
  \/ EffortRank[a.effort] < EffortRank[b.effort]
  \/ a.effort = b.effort /\ a.rank < b.rank

\* Severity first, then the cheaper one.
Before(a, b) ==
  \/ a.rank < b.rank
  \/ a.rank = b.rank /\ EffortRank[a.effort] < EffortRank[b.effort]

\* Its place is the number of actions sorted before it; ties keep the order the
\* findings came in, which is left out.
Plan(fs) ==
  {[id |-> a.id, rank |-> a.rank, place |-> Cardinality({b \in Actions(fs) : Before(b, a)})] :
     a \in Actions(fs)}

-----------------------------------------------------------------------------
Init ==
  /\ stage = "endpoints"
  /\ endpoints \in UNION {[1 .. n -> Facts] : n \in 0 .. MaxEndpoints}
  /\ done = 0
  /\ findings = {} /\ assets = {}
  /\ result = {} /\ row = {} /\ exit = {}

RuleOnEndpoint ==
  /\ stage = "endpoints"
  /\ done < Len(endpoints)
  /\ done' = done + 1
  /\ findings' = findings \cup At(AllEndpointFindings(endpoints[done + 1]), done + 1)
  /\ UNCHANGED <<stage, endpoints, assets, result, row, exit>>

RuleOn(now, next, reports) ==
  /\ stage = now
  /\ stage' = next
  /\ \E report \in reports : findings' = findings \cup report
  /\ UNCHANGED <<endpoints, done, assets, result, row, exit>>

RuleOnHttp == done = Len(endpoints) /\ RuleOn("endpoints", "dns", SiteReports)
RuleOnDns == RuleOn("dns", "licences", DnsReports)
RuleOnLicences == RuleOn("licences", "inventory", LicenceReports)

\* An asset of an endpoint is known by its label too.
BuildInventory ==
  /\ stage = "inventory"
  /\ stage' = "score"
  /\ assets' = UNION {{<<i, a>> : a \in Inventory(endpoints[i])} : i \in Labels}
  /\ findings' = findings \cup
       At(GovernanceFindings({a[2] : a \in assets'}), "domain")
  /\ UNCHANGED <<endpoints, done, result, row, exit>>

Score ==
  /\ stage = "score"
  /\ stage' = "scored"
  /\ \E clock \in Clocks, d \in Demands :
     \E risk \in SecurityScores(findings), ready \in ReadinessScores,
        left \in Tenths(YearsToQuantum(d, clock), 365) :
       result' = {[risk |-> risk, grade |-> Grade(risk),
                   readiness |-> ready, readinessGrade |-> Grade(ready),
                   clock |-> clock, required |-> d.shelf + d.migration, left |-> left,
                   atRisk |-> AtRisk(d, clock), deadline |-> Deadline(d),
                   status |-> [c \in Controls |-> Status(c, findings)],
                   plan |-> Plan(findings)]}
  /\ UNCHANGED <<endpoints, done, findings, assets, row, exit>>

\* The first lifetime met, of the live endpoints in their order.
CertLifetime ==
  LET dated == {i \in Live : \E c \in endpoints[i].leaf : c.lifetime # 0}
  IN IF dated = {} THEN {} ELSE {c.lifetime : c \in endpoints[Min(dated)].leaf}

\* study.py has its own list of old versions and its own idea of a weak suite.
OldVersions == {"SSLv3", "TLS 1.0", "TLS 1.1"}

WeakSuite(c) ==
  \/ Suites[c].cipher \in {"NULL", "RC4", "3DES", "DES"}
  \/ Suites[c].auth = "ANON" \/ Suites[c].bits < 112

\* study.py: _extract
Extract ==
  LET versions == UNION {endpoints[i].supported : i \in Live}
      suites   == UNION {endpoints[i].suites : i \in Live}
  IN /\ stage = "scored"
     /\ stage' = "extracted"
     /\ row' = {[pqcReady       |-> \E i \in Live : endpoints[i].pqc # {},
                 tls13          |-> "TLS 1.3" \in versions,
                 deprecated     |-> versions \cap OldVersions # {},
                 forwardSecrecy |-> \A c \in suites : ForwardSecret(c),
                 weakCiphers    |-> \E c \in suites : WeakSuite(c),
                 intercepted    |-> \E i \in Live : Intercepted(endpoints[i]),
                 lifetime       |-> CertLifetime,
                 exposed        |-> \E r \in result : r.atRisk,
                 ids            |-> Ids(findings)]}
     /\ UNCHANGED <<endpoints, done, findings, assets, result, exit>>

\* cli.py: --fail-on, where the worst finding is at the threshold or above it.
\* mutant: only above it.
BlockedAbove(failOn) ==
  \E i \in 1 .. 4 : Severities[i] = failOn /\ \E f \in findings : Rank(f) < i - 1

Blocked(failOn) ==
  \E i \in 1 .. 4 : Severities[i] = failOn /\ \E f \in findings : Rank(f) <= i - 1

Exit ==
  /\ stage = "scored"
  /\ stage' = "exited"
  /\ \E failOn \in {Severities[i] : i \in 1 .. 4} \cup {"none"} :
       exit' = {[failOn |-> failOn, code |-> IF Blocked(failOn) THEN 1 ELSE 0]}
  /\ UNCHANGED <<endpoints, done, findings, assets, result, row>>

Over == stage \in {"extracted", "exited"} /\ UNCHANGED vars

Next ==
  \/ RuleOnEndpoint \/ RuleOnHttp \/ RuleOnDns \/ RuleOnLicences
  \/ BuildInventory \/ Score \/ Extract \/ Exit \/ Over

Spec == Init /\ [][Next]_vars

-----------------------------------------------------------------------------
(* Properties.                                                             *)

TypeOK ==
  /\ stage \in {"endpoints", "dns", "licences", "inventory", "score", "scored",
                "extracted", "exited"}
  /\ Len(endpoints) <= MaxEndpoints /\ \A i \in Labels : IsFact(endpoints[i])
  /\ done \in 0 .. Len(endpoints)
  /\ \A f \in findings : \E i \in 1 .. 5 : f.severity = Severities[i]
  /\ Cardinality(result) <= 1 /\ Cardinality(row) <= 1 /\ Cardinality(exit) <= 1

Scored == stage \in {"scored", "extracted", "exited"}
Said(i, id) == \E f \in findings : f.id = id /\ f.target = i

StatusRank == [pass |-> 0, attention |-> 1, fail |-> 2]

\* One more part of the report never raises the score, never improves a control
\* and never takes an action out of the plan or makes it less severe, however
\* the repeats of an issue are damped (security_score, assess, build_plan).
MoreFindingsNeverHelp ==
  [][stage # "scored" =>
       /\ Deduction(findings) <= Deduction(findings')
       /\ \A c \in Controls : StatusRank[Status(c, findings)] <= StatusRank[Status(c, findings')]
       /\ \A a \in Actions(findings) : \E b \in Actions(findings') :
            a.id = b.id /\ b.rank <= a.rank]_vars

\* The two scores are marks out of 100, and the letter beside the first means
\* what it is read as: A is not given beside a high finding, nor better than D
\* beside a critical one, and full marks say that nothing is worse than info.
GradesMeanSomething ==
  \A r \in result :
    /\ r.risk \in 0 .. 1000 /\ r.readiness \in 0 .. 1000
    /\ r.risk = 1000 <=> \A f \in findings : f.severity = "info"
    /\ (\E f \in findings : f.severity = "high") => r.grade # "A"
    /\ (\E f \in findings : f.severity = "critical") => r.grade \in {"D", "E", "F"}

\* A control reported as failed has a severe action in the plan that answers it,
\* placed before every milder one whatever it costs, unless a weak curve or a
\* commercial licence failed it, two findings build_plan has no template for.
FailedControlsActedOn ==
  \A r \in result : \A c \in Controls :
    r.status[c] = "fail" =>
      \/ \E a \in r.plan :
           /\ a.id \in c.ids /\ a.rank <= 1
           /\ \A b \in r.plan : b.rank > 1 => a.place < b.place
      \/ \E f \in Hits(c, findings) :
           /\ Rank(f) <= 1
           /\ f.id \in {"certificate.weak-curve", "licence.commercial-restriction"}

\* An exit code of 0 under --fail-on high, or stricter, means what it is read as:
\* no control failed, and no live endpoint is known to lack a post-quantum group,
\* to offer a broken or a static suite, or to show a key Shor breaks.  Stricter
\* still, it means that the whole inventory holds nothing Shor breaks.
GateIsHonest ==
  \A x \in exit : x.code = 0 =>
    /\ x.failOn \in {"high", "medium", "low"} =>
         /\ \A r \in result : \A c \in Controls : r.status[c] # "fail"
         /\ \A i \in Live :
              /\ endpoints[i].pqc # {} \/ endpoints[i].note
              /\ \A c \in endpoints[i].suites : ForwardSecret(c) /\ ~BrokenSuite(c)
              /\ \A c \in endpoints[i].leaf : \A k \in c.key : AssessKey(k).by # "Shor"
    /\ x.failOn \in {"medium", "low"} => \A a \in assets : a[2].safe \/ a[2].by # "Shor"

\* The rules, the readiness score and the study each classify suites and groups
\* for themselves, and agree.  They part where nothing could be enumerated
\* (readiness then wants TLS 1.3 alone, the study takes forward secrecy for
\* granted) and on standalone ML-KEM, ready for two of them and no finding.
ClassificationsAgree ==
  \A r \in row :
    /\ r.weakCiphers <=> "tls.broken-ciphers" \in r.ids
    /\ r.deprecated  <=> "tls.deprecated-version" \in r.ids
    /\ ~r.tls13 /\ (\E i \in Live : endpoints[i].supported # {}) => "tls.no-tls13" \in r.ids
    /\ r.forwardSecrecy <=> \A i \in Live : endpoints[i].suites # {} => ForwardSecrecy(endpoints[i])
    /\ "pqc.no-forward-secrecy" \in r.ids => ~r.forwardSecrecy
    /\ ~r.forwardSecrecy => {"pqc.no-forward-secrecy", "tls.broken-ciphers"} \cap r.ids # {}
    /\ {"pqc.hybrid-enabled", "pqc.superseded-draft"} \cap r.ids # {} => r.pqcReady
    /\ r.pqcReady /\ {"pqc.hybrid-enabled", "pqc.superseded-draft"} \cap r.ids = {} =>
         \E i \in Live : endpoints[i].pqc # {}
                         /\ endpoints[i].pqc \cap (StandardHybrids \cup DraftHybrids) = {}

\* The findings and the inventory, made apart, tell one story: a certificate key
\* is reported exactly if the inventory has it as broken by Shor, and so is the
\* estate; a key is reported as weak exactly if it is RSA or a named curve and
\* assessed below 112 bits.  Only where no classical group was read can an
\* endpoint lack hybrid key exchange while discovery is held to be complete.
InventoryMatchesFindings ==
  Scored =>
    /\ \A i \in Labels :
         /\ Said(i, "pqc.classical-certificate-key") <=>
              \E a \in assets : a[1] = i /\ a[2].kind = "signature" /\ a[2].by = "Shor"
         /\ Said(i, "certificate.weak-key") \/ Said(i, "certificate.weak-curve") <=>
              \E c \in endpoints[i].leaf : \E k \in c.key :
                k.alg \in RsaKeys \cup {"EC"} /\ AssessKey(k).classical < 112
         /\ Said(i, "pqc.no-hybrid-key-exchange")
              /\ "governance.cryptographic-inventory" \notin Ids(findings) =>
              endpoints[i].classical = {}
    /\ "governance.cryptographic-inventory" \in Ids(findings) <=>
         \E a \in assets : a[2].by = "Shor"

\* The verdict turns to EXPOSED the day after the first of January of the
\* deadline year, in leap years too, and the formula shown beside it contradicts
\* it only while the overrun rounds to nothing, until the 19th.
MoscaDeadline ==
  \A r \in result :
    /\ r.atRisk <=> \/ r.deadline < r.clock.year
                    \/ r.deadline = r.clock.year /\ r.clock.day > 1
    /\ (r.atRisk # (10 * r.required > r.left)) <=>
         r.deadline = r.clock.year /\ r.clock.day \in 2 .. 19

=============================================================================
