----------------------------- MODULE DnsPosture -----------------------------
(***************************************************************************)
(* scan_dns of quantumready/scan/dns.py and the dns_findings drawn from    *)
(* what it collects.  Nine questions are put in a fixed order, each to the *)
(* first few resolvers in turn: over UDP, and over TCP when the answer     *)
(* says that it was truncated.                                             *)
(*                                                                         *)
(* One action is one exchange with a resolver, which is external.  A       *)
(* record is a value the findings tell apart; error texts are left out.    *)
(***************************************************************************)
EXTENDS Naturals, Sequences

CONSTANTS Resolvers,  \* how many resolvers a query tries: resolvers[:3]
          Zones       \* what the domains publish: records by question

\* scan_dns's lookups, then the questions that decide one control each.
Questions == <<"A", "AAAA", "NS", "MX", "CAA", "SPF", "DMARC", "DS", "DNSKEY">>
Lookups   == {"A", "AAAA", "NS", "MX", "CAA"}
Controls  == {"MX", "CAA", "SPF", "DMARC", "DS", "DNSKEY"}

\* The answers that matter: a DMARC record is told by its policy.
Records == {"record", "p=none", "p=reject", "no policy"}

ASSUME ResolversAssumption == Resolvers \in Nat \ {0}
ASSUME ZonesAssumption ==
  Zones \subseteq [{Questions[i] : i \in 1 .. Len(Questions)} -> SUBSET Records]

VARIABLES
  zone,          \* what the domain publishes
  encodable,     \* _encode_name accepts the domain: no label is too long
  asked,         \* the place in Questions
  resolver,      \* the resolver the query is at
  truncated,     \* {} or the truncated answer that is being retried over TCP
  records,       \* the posture: what was collected, by question
  errors,        \* the questions posture.errors is about
  undetermined,  \* posture.undetermined
  available,     \* posture.available
  doubtful       \* history: controls whose answer was not whole, and how

vars == <<zone, encodable, asked, resolver, truncated, records, errors, undetermined,
          available, doubtful>>

Done     == asked > Len(Questions)
Question == Questions[asked]

Init ==
  /\ zone \in Zones /\ encodable \in BOOLEAN
  /\ asked = 1 /\ resolver = 1 /\ truncated = {}
  /\ records = [q \in DOMAIN zone |-> {}]
  /\ errors = {} /\ undetermined = {} /\ available = TRUE /\ doubtful = {}

-----------------------------------------------------------------------------
(* What a query returns.  _parse_response reads the error code and nobody  *)
(* looks at it; it stops without a word at a record that does not fit.     *)

Failed == [shown |-> {}, tc |-> FALSE, error |-> TRUE, whole |-> FALSE]

Answers ==
  [shown : {zone[Question]}, tc : {FALSE}, error : {FALSE}, whole : {TRUE}]
    \cup [shown : SUBSET zone[Question], tc : BOOLEAN, error : {FALSE}, whole : {FALSE}]

Doubt(answer) ==
  IF answer.whole \/ Question \notin Controls THEN {}
  ELSE {<<Question, IF answer.tc \/ answer.error THEN "flagged" ELSE "silent">>}

\* None of the five lookups was answered.
Unreachable(answer) ==
  Question = "CAA" /\ Lookups \subseteq errors \cup (IF answer.error THEN {"CAA"} ELSE {})

\* mutant: an answer that was cut counts as one.
DecidedAnyway(answer) == answer.shown = {} /\ answer.error

\* SPF or DMARC is unknown, rather than absent, after such an answer.
Undecided(answer) == answer.shown = {} /\ (answer.tc \/ answer.error)

\* scan_dns takes the answer and goes on to its next question.
Take(answer) ==
  /\ asked' = IF Unreachable(answer) THEN Len(Questions) + 1 ELSE asked + 1
  /\ available' = ~Unreachable(answer)
  /\ records' = [records EXCEPT ![Question] = answer.shown]
  /\ undetermined' = undetermined
       \cup {q \in {"SPF", "DMARC"} : q = Question /\ Undecided(answer)}
  /\ errors' = errors
       \cup {q \in Lookups : q = Question /\ answer.error}
       \cup {q \in {"SPF"} : q = Question /\ Undecided(answer)}
  /\ doubtful' = doubtful \cup Doubt(answer)
  /\ resolver' = 1 /\ truncated' = {}
  /\ UNCHANGED <<zone, encodable>>

Asking == ~Done /\ truncated = {} /\ encodable

\* _build_query raises before anything is sent.
CannotEncode == ~Done /\ ~encodable /\ Take(Failed)

\* A timeout, an OSError, another query's answer or one that does not parse.
TryNextResolver ==
  /\ Asking /\ resolver < Resolvers
  /\ resolver' = resolver + 1
  /\ UNCHANGED <<zone, encodable, asked, truncated, records, errors, undetermined,
                 available, doubtful>>

LastResolverFails == Asking /\ resolver = Resolvers /\ Take(Failed)

Answered == Asking /\ \E a \in Answers : ~a.tc /\ Take(a)

AnswerTruncated ==
  /\ Asking
  /\ \E a \in Answers : a.tc /\ truncated' = {a}
  /\ UNCHANGED <<zone, encodable, asked, resolver, records, errors, undetermined,
                 available, doubtful>>

\* _query_tcp: whatever comes back replaces the truncated answer.
TcpAnswers == truncated # {} /\ \E a \in Answers : Take(a)

\* No connection, a short read, another id or a reply that does not parse.
TcpFails == \E a \in truncated : Take(a)

Next ==
  \/ CannotEncode \/ TryNextResolver \/ LastResolverFails
  \/ Answered \/ AnswerTruncated \/ TcpAnswers \/ TcpFails
  \/ Done /\ UNCHANGED vars

Spec == Init /\ [][Next]_vars

-----------------------------------------------------------------------------
(* dns_findings.                                                           *)

Dnssec == records["DS"] \cup records["DNSKEY"] # {}

\* mutant: what could not be determined is reported as missing.
FindingsOfAll ==
  IF ~available THEN {"dns.unavailable"}
  ELSE {f \in {"dns.no-caa", "dns.no-dnssec", "dns.no-dmarc", "dns.no-spf"} :
          \/ f = "dns.no-caa" /\ records["CAA"] = {}
          \/ f = "dns.no-dnssec" /\ ~Dnssec
          \/ f = "dns.no-dmarc" /\ records["MX"] # {} /\ records["DMARC"] = {}
          \/ f = "dns.no-spf" /\ records["MX"] # {} /\ records["SPF"] = {}}

DnsFindings ==
  IF ~available THEN {"dns.unavailable"}
  ELSE {f \in {"dns.no-caa", "dns.no-dnssec", "dns.no-dmarc", "dns.no-spf",
               "dns.dmarc-monitoring-only"} :
          \/ f = "dns.no-caa" /\ records["CAA"] = {}
          \/ f = "dns.no-dnssec" /\ ~Dnssec
          \/ /\ records["MX"] # {}
             /\ \/ /\ f = "dns.no-dmarc"
                   /\ records["DMARC"] = {} /\ "DMARC" \notin undetermined
                \/ f = "dns.dmarc-monitoring-only" /\ records["DMARC"] = {"p=none"}
                \/ /\ f = "dns.no-spf"
                   /\ records["SPF"] = {} /\ "SPF" \notin undetermined}
-----------------------------------------------------------------------------
(* Properties.                                                             *)

\* Types of every variable.
TypeOK ==
  /\ zone \in Zones /\ encodable \in BOOLEAN
  /\ asked \in 1 .. Len(Questions) + 1 /\ resolver \in 1 .. Resolvers
  /\ truncated \subseteq
       [shown : SUBSET Records, tc : BOOLEAN, error : BOOLEAN, whole : BOOLEAN]
  /\ records \in [{Questions[i] : i \in 1 .. Len(Questions)} -> SUBSET Records]
  /\ errors \subseteq Lookups \cup {"SPF"} /\ undetermined \subseteq {"SPF", "DMARC"}
  /\ available \in BOOLEAN /\ doubtful \subseteq Controls \X {"flagged", "silent"}

Doubts(q) == {d \in doubtful : d[1] = q}

\* A record the domain publishes is reported missing only for a reason: SPF and
\* DMARC only after an answer that hid what it left out (an error code, which
\* nobody reads, or a record that does not fit), CAA and DNSSEC also after a
\* query that failed or was cut, which dns.py sees and does not act on.
AbsenceNeedsDoubt ==
  Done =>
    /\ zone["SPF"] # {} /\ "dns.no-spf" \in DnsFindings => <<"SPF", "silent">> \in doubtful
    /\ zone["DMARC"] # {} /\ "dns.no-dmarc" \in DnsFindings => <<"DMARC", "silent">> \in doubtful
    /\ zone["CAA"] # {} /\ "dns.no-caa" \in DnsFindings => Doubts("CAA") # {}
    /\ \A q \in {"DS", "DNSKEY"} :
         zone[q] # {} /\ "dns.no-dnssec" \in DnsFindings => Doubts(q) # {}

\* What a domain lacks, or a mail domain, is reported, unless that answer was cut or failed in
\* a way that shows, or the doubt is about the MX records themselves.
AbsenceReported ==
  Done /\ available =>
    /\ zone["CAA"] = {} => "dns.no-caa" \in DnsFindings
    /\ zone["DS"] \cup zone["DNSKEY"] = {} => "dns.no-dnssec" \in DnsFindings
    /\ zone["MX"] # {} /\ Doubts("MX") = {} =>
         /\ zone["SPF"] = {} =>
              ("dns.no-spf" \in DnsFindings <=> <<"SPF", "flagged">> \notin doubtful)
         /\ zone["DMARC"] = {} =>
              ("dns.no-dmarc" \in DnsFindings <=> <<"DMARC", "flagged">> \notin doubtful)

=============================================================================
