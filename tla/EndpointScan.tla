---------------------------- MODULE EndpointScan ----------------------------
(***************************************************************************)
(* scan_endpoint of quantumready/scan/tls.py: a verified and, if that      *)
(* fails, an unverified handshake, one probe per protocol version, and the *)
(* loops of enumerate_groups and enumerate_cipher_suites in tls_client.py, *)
(* which offer what was not found yet until the server finds nothing it    *)
(* likes.                                                                  *)
(*                                                                         *)
(* One action is one connection.  The server is external: it takes its     *)
(* highest version not above the one offered and, of what is offered, the  *)
(* group or suite it prefers (the smallest Rank), or answers with an       *)
(* alert.  Any connection may be lost (a timeout, a reset, no answer), and *)
(* any hello may be balked at (an alert all the same, or an answer from    *)
(* outside the offer; the code does the same with both).                   *)
(***************************************************************************)
EXTENDS EndpointRules, Sequences, FiniteSets

CONSTANTS Servers,          \* the servers met: see IsServer
          ClassicalGroups,  \* CLASSICAL_GROUPS
          PqcGroups,        \* PQC_GROUPS
          Rank,             \* the servers' preference among groups and suites
          MaxGroupRounds,   \* enumerate_groups(max_rounds=12)
          MaxSuiteRounds,   \* enumerate_cipher_suites(max_rounds=40)
          MaxFaults         \* bound: steps lost or balked at in one scan

ProbeOrder   == <<"SSLv3", "TLS 1.0", "TLS 1.1", "TLS 1.2", "TLS 1.3">>
Versions     == {"SSLv3", "TLS 1.0", "TLS 1.1", "TLS 1.2", "TLS 1.3"}
Enumerations == Versions \cup {"classical", "pqc"}

Tls13Suites      == {c \in DOMAIN Suites : c \in 4865 .. 4869}   \* 0x1301-0x1305
GroupProbeSuites == {c \in DOMAIN Suites : c \in 4865 .. 4867}   \* 0x1301-0x1303
LegacySuites     == {c \in DOMAIN Suites : c < 4864}             \* c < 0x1300

\* What a server may choose for a version.
Usable(s, v) ==
  {c \in s.suites : /\ c \in Tls13Suites <=> v = "TLS 1.3"
                    /\ Aead(c) => v \in {"TLS 1.2", "TLS 1.3"}}

IsServer(s) ==
  /\ s.versions \subseteq Versions /\ s.versions # {}
  /\ s.suites \subseteq DOMAIN Suites
  /\ s.groups \subseteq ClassicalGroups \cup PqcGroups
  /\ s.genuine \in BOOLEAN     \* its chain verifies for its name
  /\ \A v \in s.versions : Usable(s, v) # {}

ASSUME ServersAssumption ==
  \A s \in Servers : IsServer(s)
ASSUME TableAssumption ==
  /\ IsFiniteSet(DOMAIN Suites) /\ DOMAIN Suites \subseteq Nat
  /\ IsFiniteSet(ClassicalGroups) /\ IsFiniteSet(PqcGroups)
ASSUME RankAssumption ==
  LET codes == DOMAIN Suites \cup ClassicalGroups \cup PqcGroups
  IN /\ \A c \in codes : Rank[c] \in Nat
     /\ \A c, d \in codes : Rank[c] = Rank[d] => c = d
ASSUME RoundsAssumption ==   \* the loops' limits reach what one enumeration offers
  /\ MaxGroupRounds \in Nat /\ MaxSuiteRounds \in Nat
  /\ MaxGroupRounds >= Cardinality(ClassicalGroups)
  /\ MaxGroupRounds >= Cardinality(PqcGroups)
  /\ MaxSuiteRounds >= Cardinality(LegacySuites)
  /\ MaxSuiteRounds >= Cardinality(Tls13Suites)
ASSUME FaultsAssumption == MaxFaults \in Nat

VARIABLES
  server,     \* the server, the same throughout
  options,    \* scan_endpoint's deep and probe_ciphers
  at,         \* where scan_endpoint is
  next,       \* the place in ProbeOrder of a loop over versions
  reachable, trusted,
  supported,  \* supported_versions
  found,      \* found[k]: what enumeration k has found, in order
  note,       \* note[k]: enumeration k returned an error
  lost,       \* history: the steps that lost a connection
  balked      \* history: the steps the server balked at

vars == <<server, options, at, next, reachable, trusted, supported, found, note, lost, balked>>

Init ==
  /\ server \in Servers
  /\ options \in [deep : BOOLEAN, ciphers : BOOLEAN]
  /\ at = "verified" /\ next = 1
  /\ reachable = FALSE /\ trusted = FALSE
  /\ supported = {}
  /\ found = [k \in Enumerations |-> <<>>]
  /\ note = [k \in Enumerations |-> FALSE]
  /\ lost = {} /\ balked = {}

-----------------------------------------------------------------------------
MayFail == Cardinality(lost) + Cardinality(balked) < MaxFaults

(* The handshakes, by the local OpenSSL.  A fault of theirs also stands    *)
(* for a server it has no suite or group in common with.                   *)

AfterHandshake == IF options.deep THEN "versions" ELSE "done"

\* Success is the trust decision.
VerifiedHandshake ==
  /\ at = "verified"
  /\ server.genuine /\ server.versions # {"SSLv3"}
  /\ trusted' = TRUE /\ reachable' = TRUE /\ at' = AfterHandshake
  /\ UNCHANGED <<server, options, next, supported, found, note, lost, balked>>

\* Whatever the reason, the trust decision is no.
VerifiedFails ==
  /\ at = "verified"
  /\ \/ ~(server.genuine /\ server.versions # {"SSLv3"}) /\ lost' = lost
     \/ MayFail /\ lost' = lost \cup {at}
  /\ at' = "unverified"
  /\ UNCHANGED <<server, options, next, reachable, trusted, supported, found, note, balked>>

UnverifiedHandshake ==
  /\ at = "unverified" /\ server.versions # {"SSLv3"}
  /\ reachable' = TRUE /\ at' = AfterHandshake
  /\ UNCHANGED <<server, options, next, trusted, supported, found, note, lost, balked>>

\* endpoint.error, and nothing else is tried.
UnverifiedFails ==
  /\ at = "unverified"
  /\ \/ server.versions = {"SSLv3"} /\ lost' = lost
     \/ MayFail /\ lost' = lost \cup {at}
  /\ at' = "done"
  /\ UNCHANGED <<server, options, next, reachable, trusted, supported, found, note, balked>>

-----------------------------------------------------------------------------
(* probe_version.                                                          *)

Position(v) == CHOOSE i \in 1 .. 5 : ProbeOrder[i] = v

\* The version the server picks for a hello that states v.  A TLS 1.3 hello
\* carries only TLS 1.3 suites and classical groups; the others carry the
\* suites below 0x1300.
Picked(v) ==
  IF v = "TLS 1.3"
  THEN {w \in server.versions :
          w = v /\ Usable(server, w) # {} /\ server.groups \cap ClassicalGroups # {}}
  ELSE {w \in server.versions :
          /\ Position(w) <= Position(v)
          /\ \A u \in server.versions : Position(u) <= Position(v) => Position(u) <= Position(w)
          /\ Usable(server, w) \cap LegacySuites # {}}

AnyAnswer(v) == Picked(v) # {}   \* mutant: the version of the answer is not compared

Accepts(v) == v \in Picked(v)

\* The first entry of ProbeOrder at i or after it that is in the set.
FirstFrom(i, versions) ==
  IF \E j \in i .. 5 : ProbeOrder[j] \in versions
  THEN CHOOSE j \in i .. 5 :
         ProbeOrder[j] \in versions /\ \A m \in i .. j - 1 : ProbeOrder[m] \notin versions
  ELSE 6

EndProbe ==
  /\ IF next = 5 THEN at' = "classical" /\ next' = 1 ELSE at' = at /\ next' = next + 1
  /\ UNCHANGED <<server, options, reachable, trusted, found, note>>

ProbeVersion ==
  /\ at = "versions"
  /\ supported' = IF Accepts(ProbeOrder[next]) THEN supported \cup {ProbeOrder[next]} ELSE supported
  /\ UNCHANGED <<lost, balked>>
  /\ EndProbe

\* An error counts as a version that is not supported.
ProbeFails ==
  /\ at = "versions" /\ MayFail
  /\ \/ lost' = lost \cup {ProbeOrder[next]} /\ UNCHANGED balked
     \/ balked' = balked \cup {ProbeOrder[next]} /\ UNCHANGED lost
  /\ UNCHANGED supported
  /\ EndProbe

-----------------------------------------------------------------------------
(* enumerate_groups and enumerate_cipher_suites.                           *)

Current == IF at = "ciphers" THEN ProbeOrder[next] ELSE at

Enumerating == at \in {"classical", "pqc"} \/ (at = "ciphers" /\ next <= 5)

Candidates(k) ==
  CASE k = "classical" -> ClassicalGroups
    [] k = "pqc"       -> PqcGroups
    [] k = "TLS 1.3"   -> Tls13Suites
    [] OTHER           -> LegacySuites

Found(k)     == {found[k][i] : i \in DOMAIN found[k]}
Remaining(k) == Candidates(k) \ Found(k)

\* What the server would take of the candidates.
Welcome(k) ==
  IF k \in {"classical", "pqc"}
  THEN IF "TLS 1.3" \in server.versions /\ server.suites \cap GroupProbeSuites # {}
       THEN server.groups \cap Candidates(k) ELSE {}
  ELSE Usable(server, k) \cap Candidates(k)

Least(a, b) == IF a <= b THEN a ELSE b

OneRoundShort(k) ==   \* mutant: the last candidate is never offered
  IF k \in {"classical", "pqc"}
  THEN Least(MaxGroupRounds, Cardinality(Candidates(k)) - 1)
  ELSE Least(MaxSuiteRounds, Cardinality(Candidates(k)))

Rounds(k) ==
  IF k \in {"classical", "pqc"}
  THEN Least(MaxGroupRounds, Cardinality(Candidates(k)))
  ELSE Least(MaxSuiteRounds, Cardinality(Candidates(k)) + 1)

MoreRounds(k) == Len(found[k]) < Rounds(k) /\ Remaining(k) # {}

Favourite(codes) == CHOOSE c \in codes : \A d \in codes : Rank[c] <= Rank[d]

RoundInFront ==   \* mutant: found.insert(0, group)
  /\ Enumerating
  /\ LET k == Current
         taken == Welcome(k) \cap Remaining(k)
     IN /\ MoreRounds(k) /\ taken # {}
        /\ found' = [found EXCEPT ![k] = <<Favourite(taken)>> \o @]
  /\ UNCHANGED <<server, options, at, next, reachable, trusted, supported, note, lost, balked>>

\* A round whose answer names one of the remaining candidates.
Round ==
  /\ Enumerating
  /\ LET k == Current
         taken == Welcome(k) \cap Remaining(k)
     IN /\ MoreRounds(k) /\ taken # {}
        /\ found' = [found EXCEPT ![k] = Append(@, Favourite(taken))]
  /\ UNCHANGED <<server, options, at, next, reachable, trusted, supported, note, lost, balked>>

NextEnumeration ==
  \/ at = "classical" /\ at' = "pqc" /\ next' = next
  \/ at = "pqc" /\ options.ciphers /\ at' = "ciphers" /\ next' = FirstFrom(1, supported)
  \/ at = "pqc" /\ ~options.ciphers /\ at' = "done" /\ next' = next
  \/ at = "ciphers" /\ at' = at /\ next' = FirstFrom(next + 1, supported)

EndEnumeration ==
  /\ NextEnumeration
  /\ UNCHANGED <<server, options, reachable, trusted, supported, found>>

\* No rounds are left, or the server has no taste for what is left.
EnumerationEnds ==
  /\ Enumerating
  /\ ~MoreRounds(Current) \/ Welcome(Current) \cap Remaining(Current) = {}
  /\ UNCHANGED <<note, lost, balked>>
  /\ EndEnumeration

\* A lost connection returns what was found so far, with a note.
RoundLost ==
  /\ Enumerating /\ MoreRounds(Current) /\ MayFail
  /\ note' = [note EXCEPT ![Current] = TRUE]
  /\ lost' = lost \cup {Current} /\ UNCHANGED balked
  /\ EndEnumeration

\* An alert or a stray answer returns what was found so far, without one.
RoundBalked ==
  /\ Enumerating /\ MoreRounds(Current) /\ MayFail
  /\ balked' = balked \cup {Current} /\ UNCHANGED <<note, lost>>
  /\ EndEnumeration

AllEnumerated ==
  /\ at = "ciphers" /\ next = 6
  /\ at' = "done"
  /\ UNCHANGED <<server, options, next, reachable, trusted, supported, found, note, lost, balked>>

Answered == at = "done" /\ UNCHANGED vars

Next ==
  \/ VerifiedHandshake \/ VerifiedFails \/ UnverifiedHandshake \/ UnverifiedFails
  \/ ProbeVersion \/ ProbeFails
  \/ Round \/ EnumerationEnds \/ RoundLost \/ RoundBalked \/ AllEnumerated
  \/ Answered

Spec == Init /\ [][Next]_vars

-----------------------------------------------------------------------------
(* What the rules are given.                                               *)

AllCipherSuites == UNION {Found(v) : v \in Versions}

ForgetNote ==   \* mutant: `pqc_note or note` loses the first
  [reachable |-> reachable, supported |-> supported, suites |-> AllCipherSuites,
   pqc |-> Found("pqc"), note |-> note["classical"]]

Endpoint ==
  [reachable |-> reachable, supported |-> supported, suites |-> AllCipherSuites,
   pqc |-> Found("pqc"), note |-> note["pqc"] \/ note["classical"]]

-----------------------------------------------------------------------------
(* Properties.                                                             *)

Steps == {"verified", "unverified"} \cup Enumerations

\* Types of every variable.
TypeOK ==
  /\ server \in Servers /\ options \in [deep : BOOLEAN, ciphers : BOOLEAN]
  /\ at \in {"verified", "unverified", "versions", "classical", "pqc", "ciphers", "done"}
  /\ next \in 1 .. 6 /\ (at \in {"verified", "unverified", "versions"} => next <= 5)
  /\ reachable \in BOOLEAN /\ trusted \in BOOLEAN
  /\ supported \subseteq Versions
  /\ DOMAIN found = Enumerations
  /\ \A k \in Enumerations : found[k] \in Seq(Candidates(k))
  /\ note \in [Enumerations -> BOOLEAN]
  /\ lost \subseteq Steps /\ balked \subseteq Steps

\* enumerate_groups: "Discover which of candidates the server will use, in its
\* order."  Wherever an enumeration stops, also at an error, what it found is
\* the beginning of the server's own order of preference: nothing twice, and
\* nothing the server likes better is missing.
OrderKept ==
  \A k \in Enumerations :
    /\ \A i, j \in DOMAIN found[k] : i < j => Rank[found[k][i]] < Rank[found[k][j]]
    /\ \A i \in DOMAIN found[k], c \in Welcome(k) \ Found(k) : Rank[found[k][i]] < Rank[c]

Deep == reachable /\ options.deep

Finished(k) ==
  \/ k = "classical" /\ (at \in {"pqc", "ciphers"} \/ (at = "done" /\ Deep))
  \/ k = "pqc" /\ (at = "ciphers" \/ (at = "done" /\ Deep))
  \/ /\ k \in supported
     /\ (at = "ciphers" /\ Position(k) < next) \/ (at = "done" /\ Deep /\ options.ciphers)

\* An enumeration that ended and met neither an error nor a balking server
\* found everything: no limit of rounds cuts it short.
CompleteUnlessCut ==
  \A k \in Enumerations : Finished(k) /\ k \notin lost \cup balked => Welcome(k) \subseteq Found(k)

\* Whatever goes wrong on the way, nothing is reported that the server does
\* not have: no deprecated version, broken suite or group is made up.
NothingInvented ==
  /\ supported \subseteq server.versions
  /\ \A v \in Versions : Found(v) \subseteq server.suites /\ (Found(v) # {} => v \in supported)
  /\ Found("classical") \cup Found("pqc") \subseteq server.groups

HasHybrid == "TLS 1.3" \in server.versions /\ server.groups \cap PqcGroups # {}

\* rules.py: "Quantum readiness for this endpoint is unknown rather than
\* absent".  No lost connection makes the report say that a server offers no
\* post-quantum key exchange when it does; only an alert can, or a server
\* without the suites the group probes offer.  It speaks of deep scans only:
\* with --fast no group is probed, no note is left either, and the same
\* finding is reported of a server nobody asked.
NoHybridIsReal ==
  at = "done" /\ options.deep
    /\ "pqc.no-hybrid-key-exchange" \in FindingIds(EndpointFindings(Endpoint))
  => ~HasHybrid \/ "pqc" \in balked \/ server.suites \cap GroupProbeSuites = {}

\* README.md:46: "real protocol negotiation for SSLv3 through TLS 1.3; full
\* cipher suite enumeration".  Where every probe was answered, every version
\* a server has (one with classical groups) is reported.
VersionsSeen ==
  at = "done" /\ Deep /\ lost = {} /\ balked = {}
    /\ server.groups \cap ClassicalGroups # {}
  => server.versions \subseteq supported
=============================================================================
