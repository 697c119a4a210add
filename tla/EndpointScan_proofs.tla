------------------------ MODULE EndpointScan_proofs ------------------------
(***************************************************************************)
(* Proofs about EndpointScan, for every table of suites and groups, every  *)
(* set of servers and any number of faults.                                *)
(*                                                                         *)
(* The invariant (Inv) says where the scan is in its loops (Places), that  *)
(* what it found is the server's (Honest), never found twice (Counted) and *)
(* in the server's order.  Budget counts the connections still ahead; every *)
(* step lowers it.                                                         *)
(***************************************************************************)
EXTENDS EndpointScan, FiniteSetTheorems, WellFoundedInduction, TLAPS

Codes == DOMAIN Suites \cup ClassicalGroups \cup PqcGroups

LEMMA Ranks ==
  /\ \A c \in Codes : Rank[c] \in Nat
  /\ \A c, d \in Codes : Rank[c] = Rank[d] => c = d
BY RankAssumption DEF Codes

\* A set of natural numbers has a least member.
LEMMA LeastNat ==
  ASSUME NEW S \in SUBSET Nat, S # {}
  PROVE  \E m \in S : \A n \in S : m <= n
<1> DEFINE R == OpToRel(<, Nat)
<1>1. IsWellFoundedOn(R, Nat)
  BY NatLessThanWellFounded
<1>2. \A x, y \in Nat : <<x, y>> \in R <=> x < y
  BY DEF OpToRel
<1> HIDE DEF R
<1>3. PICK m \in S : \A n \in S : ~(<<n, m>> \in R)
  BY <1>1, WFMin
<1>4. \A n \in S : m <= n
  <2> TAKE n \in S
  <2>1. m \in Nat /\ n \in Nat /\ ~(n < m)
    BY <1>2, <1>3
  <2> QED
    BY <2>1
<1> QED
  BY <1>4

\* The server's preference is well defined.
LEMMA FavouriteIsFirst ==
  ASSUME NEW S \in SUBSET Codes, S # {}
  PROVE  Favourite(S) \in S /\ \A d \in S : Rank[Favourite(S)] <= Rank[d]
<1> DEFINE ranks == {Rank[c] : c \in S}
<1>1. ranks \in SUBSET Nat /\ ranks # {}
  BY Ranks
<1>2. PICK m \in ranks : \A n \in ranks : m <= n
  <2> HIDE DEF ranks
  <2> QED
    BY <1>1, LeastNat
<1>3. PICK c \in S : m = Rank[c]
  OBVIOUS
<1>4. \A d \in S : Rank[c] <= Rank[d]
  BY <1>2, <1>3
<1> QED
  BY <1>4 DEF Favourite

\* FirstFrom skips only versions that are not in the set.
LEMMA FirstFromSkips ==
  ASSUME NEW i \in 1 .. 6, NEW versions
  PROVE  /\ FirstFrom(i, versions) \in i .. 6
         /\ FirstFrom(i, versions) <= 5 => ProbeOrder[FirstFrom(i, versions)] \in versions
         /\ \A m \in i .. FirstFrom(i, versions) - 1 : ProbeOrder[m] \notin versions
<1> DEFINE Hits == {j \in i .. 5 : ProbeOrder[j] \in versions}
<1>1. CASE Hits = {}
  BY <1>1 DEF FirstFrom
<1>2. CASE Hits # {}
  <2>1. PICK j \in Hits : \A n \in Hits : j <= n
    BY <1>2, LeastNat
  <2>2. \E k \in i .. 5 :
          ProbeOrder[k] \in versions /\ \A m \in i .. k - 1 : ProbeOrder[m] \notin versions
    BY <2>1
  <2> HIDE DEF Hits
  <2> QED
    BY <1>2, <2>2 DEF FirstFrom, Hits
<1> QED
  BY <1>1, <1>2

LEMMA Positions ==
  /\ \A i \in 1 .. 5 : ProbeOrder[i] \in Versions /\ Position(ProbeOrder[i]) = i
  /\ \A v \in Versions : Position(v) \in 1 .. 5 /\ ProbeOrder[Position(v)] = v
<1>1. /\ ProbeOrder[1] = "SSLv3" /\ ProbeOrder[2] = "TLS 1.0" /\ ProbeOrder[3] = "TLS 1.1"
      /\ ProbeOrder[4] = "TLS 1.2" /\ ProbeOrder[5] = "TLS 1.3"
  BY DEF ProbeOrder
<1>2. \A i \in 1 .. 5 : i = 1 \/ i = 2 \/ i = 3 \/ i = 4 \/ i = 5
  OBVIOUS
<1>3. \A i, j \in 1 .. 5 : ProbeOrder[i] = ProbeOrder[j] => i = j
  BY <1>1, <1>2
<1>4. ASSUME NEW v \in Versions
      PROVE  \E i \in 1 .. 5 : ProbeOrder[i] = v
  <2>1. v \in {ProbeOrder[1], ProbeOrder[2], ProbeOrder[3], ProbeOrder[4], ProbeOrder[5]}
    BY <1>1 DEF Versions
  <2>2. 1 \in 1 .. 5 /\ 2 \in 1 .. 5 /\ 3 \in 1 .. 5 /\ 4 \in 1 .. 5 /\ 5 \in 1 .. 5
    OBVIOUS
  <2> QED
    BY <2>1, <2>2
<1>5. \A i \in 1 .. 5 : ProbeOrder[i] \in Versions
  BY <1>1, <1>2 DEF Versions
<1>6. \A v \in Versions : Position(v) \in 1 .. 5 /\ ProbeOrder[Position(v)] = v
  BY <1>4 DEF Position
<1> QED
  BY <1>3, <1>5, <1>6

LEMMA CandidatesAreCodes ==
  ASSUME NEW k \in Enumerations
  PROVE  /\ Candidates(k) \subseteq Codes /\ IsFiniteSet(Candidates(k))
         /\ Welcome(k) \subseteq Candidates(k)
         /\ Cardinality(Candidates(k)) \in Nat /\ Cardinality(Candidates(k)) <= Rounds(k)
<1>1. Tls13Suites \subseteq DOMAIN Suites /\ LegacySuites \subseteq DOMAIN Suites
  BY DEF Tls13Suites, LegacySuites
<1>2. \/ k = "classical" /\ Candidates(k) = ClassicalGroups
      \/ k = "pqc" /\ Candidates(k) = PqcGroups
      \/ k \notin {"classical", "pqc"} /\ Candidates(k) \in {Tls13Suites, LegacySuites}
  BY DEF Candidates
<1>3. Candidates(k) \subseteq Codes /\ Welcome(k) \subseteq Candidates(k)
  BY <1>1, <1>2 DEF Codes, Welcome
<1>4. IsFiniteSet(Candidates(k))
  BY <1>1, <1>2, TableAssumption, FS_Subset
<1>5. Cardinality(Candidates(k)) \in Nat
  BY <1>4, FS_CardinalityType
<1>6. Cardinality(Candidates(k)) <= Rounds(k)
  <2>1. CASE k \in {"classical", "pqc"}
    BY <1>2, <1>5, <2>1, RoundsAssumption DEF Rounds, Least
  <2>2. CASE k \notin {"classical", "pqc"}
    BY <1>2, <1>5, <2>2, RoundsAssumption DEF Rounds, Least
  <2> QED
    BY <2>1, <2>2
<1> QED
  BY <1>3, <1>4, <1>5, <1>6

LEMMA CurrentIsOne ==
  ASSUME TypeOK, Enumerating
  PROVE  /\ Current \in Enumerations
         /\ at # "ciphers" => Current = at
         /\ at = "ciphers" => next \in 1 .. 5 /\ Current = ProbeOrder[next] /\ Current \in Versions
BY Positions DEF TypeOK, Enumerating, Current, Enumerations

\* What a round takes.
LEMMA TakenIsNew ==
  ASSUME NEW k \in Enumerations, Welcome(k) \cap Remaining(k) # {}
  PROVE  LET c == Favourite(Welcome(k) \cap Remaining(k))
         IN /\ c \in Welcome(k) /\ c \in Candidates(k) /\ c \notin Found(k)
            /\ \A d \in Welcome(k) \ Found(k) : Rank[c] <= Rank[d]
<1>1. Welcome(k) \cap Remaining(k) = Welcome(k) \ Found(k)
  BY CandidatesAreCodes DEF Remaining
<1>2. Welcome(k) \cap Remaining(k) \in SUBSET Codes
  BY CandidatesAreCodes
<1> QED
  BY <1>1, <1>2, FavouriteIsFirst, CandidatesAreCodes

-----------------------------------------------------------------------------
(* Type correctness.                                                       *)

LEMMA InitTypes == Init => TypeOK
<1> SUFFICES ASSUME Init PROVE TypeOK
  OBVIOUS
<1>1. \A k \in Enumerations : found[k] \in Seq(Candidates(k))
  BY DEF Init
<1>2. DOMAIN found = Enumerations /\ note \in [Enumerations -> BOOLEAN]
  BY DEF Init
<1>3. next \in 1 .. 6 /\ next <= 5
  BY DEF Init
<1> QED
  BY <1>1, <1>2, <1>3 DEF Init, TypeOK

LEMMA NextTypes == TypeOK /\ [Next]_vars => TypeOK'
<1> SUFFICES ASSUME TypeOK, [Next]_vars PROVE TypeOK'
  OBVIOUS
<1> USE DEF TypeOK
<1>1. ASSUME VerifiedHandshake \/ VerifiedFails \/ UnverifiedHandshake \/ UnverifiedFails
      PROVE  TypeOK'
  BY <1>1 DEF VerifiedHandshake, VerifiedFails, UnverifiedHandshake, UnverifiedFails,
              AfterHandshake, Steps
<1>2. ASSUME ProbeVersion \/ ProbeFails
      PROVE  TypeOK'
  <2>1. ProbeOrder[next] \in Versions
    BY <1>2, Positions DEF ProbeVersion, ProbeFails
  <2>2. at' \in {"versions", "classical"} /\ next' \in 1 .. 5
    BY <1>2 DEF ProbeVersion, ProbeFails, EndProbe
  <2>3. supported' \subseteq Versions
    BY <1>2, <2>1 DEF ProbeVersion, ProbeFails
  <2>4. lost' \subseteq Steps /\ balked' \subseteq Steps
    BY <1>2, <2>1 DEF ProbeVersion, ProbeFails, Steps, Enumerations
  <2>5. UNCHANGED <<server, options, reachable, trusted, found, note>>
    BY <1>2 DEF ProbeVersion, ProbeFails, EndProbe
  <2> QED
    BY <2>2, <2>3, <2>4, <2>5
<1>3. ASSUME Round
      PROVE  TypeOK'
  <2> DEFINE k == Current
             c == Favourite(Welcome(k) \cap Remaining(k))
  <2>1. k \in Enumerations /\ c \in Candidates(k)
    BY <1>3, CurrentIsOne, TakenIsNew DEF Round
  <2>2. found' = [found EXCEPT ![k] = Append(@, c)]
    BY <1>3 DEF Round
  <2>3. \A e \in Enumerations : found'[e] \in Seq(Candidates(e))
    BY <2>1, <2>2
  <2> QED
    BY <1>3, <2>2, <2>3 DEF Round
<1>4. ASSUME EndEnumeration, Enumerating
      PROVE  at' \in {"pqc", "ciphers", "done"} /\ next' \in 1 .. 6
  <2>1. CASE at = "pqc"
    BY <1>4, <2>1, FirstFromSkips DEF EndEnumeration, NextEnumeration
  <2>2. CASE at = "ciphers"
    <3>1. next + 1 \in 1 .. 6
      BY <1>4, <2>2, CurrentIsOne
    <3> QED
      BY <1>4, <2>2, <3>1, FirstFromSkips DEF EndEnumeration, NextEnumeration
  <2> QED
    BY <1>4, <2>1, <2>2 DEF EndEnumeration, NextEnumeration
<1>5. ASSUME EnumerationEnds \/ RoundLost \/ RoundBalked
      PROVE  TypeOK'
  <2>1. Current \in Enumerations
    BY <1>5, CurrentIsOne DEF EnumerationEnds, RoundLost, RoundBalked
  <2>2. at' \in {"pqc", "ciphers", "done"} /\ next' \in 1 .. 6
    BY <1>4, <1>5 DEF EnumerationEnds, RoundLost, RoundBalked
  <2>3. lost' \subseteq Steps /\ balked' \subseteq Steps /\ note' \in [Enumerations -> BOOLEAN]
    BY <1>5, <2>1 DEF EnumerationEnds, RoundLost, RoundBalked, Steps
  <2> QED
    BY <1>5, <2>2, <2>3 DEF EnumerationEnds, RoundLost, RoundBalked, EndEnumeration
<1>6. ASSUME AllEnumerated \/ Answered \/ UNCHANGED vars
      PROVE  TypeOK'
  BY <1>6 DEF AllEnumerated, Answered, vars
<1> QED
  BY <1>1, <1>2, <1>3, <1>5, <1>6 DEF Next

\* Every variable of EndpointScan keeps its type.
THEOREM TypeCorrect == Spec => []TypeOK
BY InitTypes, NextTypes, PTL DEF Spec

-----------------------------------------------------------------------------
(* What was found is the beginning of the server's order.                  *)

\* What the place of scan_endpoint tells.
Places ==
  /\ at \in {"verified", "unverified"} => ~reachable
  /\ at \in {"versions", "classical", "pqc", "ciphers"} => Deep
  /\ at = "ciphers" => options.ciphers
  /\ at = "ciphers" /\ next <= 5 => ProbeOrder[next] \in supported
  /\ "pqc" \in lost => note["pqc"]

Honest ==
  /\ supported \subseteq server.versions
  /\ \A k \in Enumerations : Found(k) \subseteq Welcome(k)
  /\ \A v \in Versions : Found(v) # {} => v \in supported

\* Nothing is found twice.
Counted ==
  \A k \in Enumerations : IsFiniteSet(Found(k)) /\ Cardinality(Found(k)) = Len(found[k])

Inv == TypeOK /\ Places /\ Honest /\ Counted /\ OrderKept /\ CompleteUnlessCut

LEMMA InitInv == Init => Inv
<1> SUFFICES ASSUME Init PROVE Inv
  OBVIOUS
<1>1. TypeOK
  BY InitTypes
<1>2. \A k \in Enumerations : found[k] = <<>> /\ Found(k) = {} /\ Len(found[k]) = 0
  BY DEF Init, Found
<1>3. Places
  BY DEF Init, Places
<1>4. Honest
  BY <1>2 DEF Init, Honest, Enumerations
<1>5. Counted
  BY <1>2, FS_EmptySet DEF Counted
<1>6. OrderKept
  BY <1>2 DEF OrderKept
<1>7. \A k \in Enumerations : ~Finished(k)
  BY DEF Init, Finished
<1> QED
  BY <1>1, <1>3, <1>4, <1>5, <1>6, <1>7 DEF Inv, CompleteUnlessCut

\* Enumeration k finds c, the server's favourite of what is left.
Adds(k, c) ==
  /\ k = Current /\ c \in Candidates(k)
  /\ c \in Welcome(k) /\ c \notin Found(k)
  /\ \A d \in Welcome(k) \ Found(k) : Rank[c] <= Rank[d]
  /\ found'[k] = Append(found[k], c)
  /\ Found(k)' = Found(k) \cup {c}
  /\ \A e \in Enumerations \ {k} : found'[e] = found[e] /\ Found(e)' = Found(e)

LEMMA RoundAdds ==
  ASSUME TypeOK, Round
  PROVE  \E k \in Enumerations, c \in Codes : Adds(k, c)
<1>1. PICK k \in Enumerations : k = Current
  BY CurrentIsOne DEF Round
<1>2. PICK c \in Candidates(k) : c = Favourite(Welcome(k) \cap Remaining(k))
  BY <1>1, TakenIsNew DEF Round
<1>3. /\ c \in Welcome(k) /\ c \notin Found(k)
      /\ \A d \in Welcome(k) \ Found(k) : Rank[c] <= Rank[d]
  BY <1>1, <1>2, TakenIsNew DEF Round
<1>4. found' = [found EXCEPT ![k] = Append(@, c)]
  BY <1>1, <1>2 DEF Round
<1>5. /\ found'[k] = Append(found[k], c) /\ found[k] \in Seq(Candidates(k))
      /\ \A e \in Enumerations \ {k} : found'[e] = found[e]
  BY <1>4 DEF TypeOK
<1>6. Found(k)' = Found(k) \cup {c}
  <2>1. DOMAIN found'[k] = DOMAIN found[k] \cup {Len(found[k]) + 1}
    BY <1>5
  <2>2. /\ \A i \in DOMAIN found[k] : found'[k][i] = found[k][i]
        /\ found'[k][Len(found[k]) + 1] = c
    BY <1>5
  <2>3. {found'[k][i] : i \in DOMAIN found'[k]} = {found[k][i] : i \in DOMAIN found[k]} \cup {c}
    BY <2>1, <2>2
  <2> QED
    BY <2>3 DEF Found
<1>7. \A e \in Enumerations \ {k} : Found(e)' = Found(e)
  BY <1>5 DEF Found
<1> QED
  BY <1>1, <1>3, <1>5, <1>6, <1>7, CandidatesAreCodes DEF Adds

LEMMA RoundKeeps ==
  ASSUME Inv, Round
  PROVE  Honest' /\ Counted' /\ OrderKept' /\ Places' /\ CompleteUnlessCut'
<1> USE DEF Inv
<1>1. PICK k \in Enumerations, c \in Codes : Adds(k, c)
  BY RoundAdds
<1> USE DEF Adds
<1>2. /\ UNCHANGED <<server, options, at, next, reachable, supported, note, lost, balked>>
      /\ Enumerating
  BY DEF Round
<1>3. \A e \in Enumerations : Welcome(e)' = Welcome(e)
  BY <1>2 DEF Welcome, Usable
<1>4. k \in Versions => k \in supported
  BY <1>1, <1>2, CurrentIsOne DEF Enumerating, Places, Enumerations, Versions
<1>5. Honest'
  BY <1>1, <1>2, <1>3, <1>4 DEF Honest, Enumerations
<1>6. Places'
  BY <1>2 DEF Places, Deep
<1>7. found[k] \in Seq(Candidates(k)) /\ Len(found'[k]) = Len(found[k]) + 1
  BY <1>1 DEF TypeOK
<1>8. Counted'
  BY <1>1, <1>7, FS_AddElement DEF Counted
<1>9. OrderKept'
  <2> DEFINE n == Len(found[k])
  <2>1. /\ n \in Nat /\ DOMAIN found[k] = 1 .. n /\ DOMAIN found'[k] = 1 .. n + 1
        /\ found'[k][n + 1] = c /\ \A i \in 1 .. n : found'[k][i] = found[k][i]
    BY <1>1, <1>7
  <2>2. /\ \A i, j \in 1 .. n : i < j => Rank[found[k][i]] < Rank[found[k][j]]
        /\ \A i \in 1 .. n, d \in Welcome(k) \ Found(k) : Rank[found[k][i]] < Rank[d]
    BY <2>1 DEF OrderKept
  <2>3. c \in Welcome(k) \ Found(k) /\ Welcome(k) \subseteq Codes
    BY <1>1, CandidatesAreCodes
  <2> HIDE DEF n
  <2>4. ASSUME NEW i \in 1 .. n + 1, NEW j \in 1 .. n + 1, i < j
        PROVE  Rank[found'[k][i]] < Rank[found'[k][j]]
    <3>1. i \in 1 .. n /\ (j \in 1 .. n \/ j = n + 1)
      BY <2>1, <2>4
    <3> QED
      BY <2>1, <2>2, <2>3, <2>4, <3>1
  <2>5. ASSUME NEW i \in 1 .. n + 1, NEW d \in Welcome(k) \ Found(k)'
        PROVE  Rank[found'[k][i]] < Rank[d]
    <3>1. d \in Welcome(k) \ Found(k) /\ d # c
      BY <1>1
    <3>2. CASE i \in 1 .. n
      BY <2>1, <2>2, <3>1, <3>2
    <3>3. CASE i = n + 1
      <4>1. Rank[c] <= Rank[d] /\ Rank[c] # Rank[d] /\ Rank[c] \in Nat /\ Rank[d] \in Nat
        BY <1>1, <2>3, <3>1, Ranks
      <4> QED
        BY <2>1, <3>3, <4>1
    <3> QED
      BY <2>1, <3>2, <3>3
  <2>6. ASSUME NEW e \in Enumerations
        PROVE  /\ \A i, j \in DOMAIN found'[e] : i < j => Rank[found'[e][i]] < Rank[found'[e][j]]
               /\ \A i \in DOMAIN found'[e], d \in Welcome(e) \ Found(e)' : Rank[found'[e][i]] < Rank[d]
    <3>1. CASE e = k
      BY <2>1, <2>4, <2>5, <3>1
    <3>2. CASE e # k
      BY <1>1, <3>2 DEF OrderKept
    <3> QED
      BY <3>1, <3>2
  <2> QED
    BY <1>3, <2>6 DEF OrderKept
<1>10. ASSUME NEW e \in Enumerations, Finished(e)'
       PROVE  Finished(e) /\ e # k
  <2>1. Finished(e)
    BY <1>2, <1>10 DEF Finished, Deep
  <2>2. at \in {"classical", "pqc"} => e # k
    BY <1>1, <1>2, <2>1, CurrentIsOne DEF Finished
  <2>3. at = "ciphers" => k \in Versions /\ Position(k) = next /\ next \in 1 .. 5
    BY <1>1, <1>2, CurrentIsOne, Positions
  <2>4. ASSUME at = "ciphers", e = k
        PROVE  FALSE
    <3>1. e # "classical" /\ e # "pqc"
      BY <2>3, <2>4 DEF Versions
    <3>2. Position(e) < next
      BY <2>1, <2>4, <3>1 DEF Finished
    <3> QED
      BY <2>3, <2>4, <3>2
  <2> QED
    BY <1>2, <2>1, <2>2, <2>4 DEF Enumerating
<1>11. CompleteUnlessCut'
  BY <1>1, <1>2, <1>3, <1>10 DEF CompleteUnlessCut
<1> QED
  BY <1>5, <1>6, <1>8, <1>9, <1>11

\* Once its rounds are used up, an enumeration has found every candidate.
LEMMA RoundsSuffice ==
  ASSUME TypeOK, Counted, NEW k \in Enumerations, ~MoreRounds(k)
  PROVE  Candidates(k) \subseteq Found(k)
<1>1. CASE Remaining(k) = {}
  BY <1>1 DEF Remaining
<1>2. CASE Remaining(k) # {}
  <2>1. Len(found[k]) \in Nat /\ ~(Len(found[k]) < Rounds(k)) /\ Found(k) \subseteq Candidates(k)
    BY <1>2 DEF TypeOK, MoreRounds, Found
  <2>2. Rounds(k) \in Nat
    BY CandidatesAreCodes, RoundsAssumption DEF Rounds, Least
  <2>3. Cardinality(Found(k)) = Len(found[k])
    BY DEF Counted
  <2>4. Cardinality(Found(k)) >= Cardinality(Candidates(k))
    BY <2>1, <2>2, <2>3, CandidatesAreCodes
  <2>5. Cardinality(Found(k)) <= Cardinality(Candidates(k))
    BY <2>1, CandidatesAreCodes, FS_Subset
  <2> QED
    BY <2>1, <2>3, <2>4, <2>5, CandidatesAreCodes, FS_Subset
<1> QED
  BY <1>1, <1>2

\* An enumeration that ends without a fault has found all the server has.
LEMMA EndKeeps ==
  ASSUME Inv, Enumerating, EndEnumeration,
         lost \subseteq lost', balked \subseteq balked',
         Current \in lost' \cup balked' \/ Welcome(Current) \subseteq Found(Current),
         "pqc" \in lost' => note'["pqc"]
  PROVE  Honest' /\ Counted' /\ OrderKept' /\ Places' /\ CompleteUnlessCut'
<1> USE DEF Inv
<1>1. UNCHANGED <<server, options, reachable, trusted, supported, found>>
  BY DEF EndEnumeration
<1>2. \A e \in Enumerations : Welcome(e)' = Welcome(e) /\ Found(e)' = Found(e)
  BY <1>1 DEF Welcome, Usable, Found
<1>3. Honest' /\ Counted' /\ OrderKept'
  BY <1>1, <1>2 DEF Honest, Counted, OrderKept, Enumerations
<1>4. CASE at \in {"classical", "pqc"} /\ ~(at = "pqc" /\ options.ciphers)
  <2>1. \/ at = "classical" /\ at' = "pqc"
        \/ at = "pqc" /\ ~options.ciphers /\ at' = "done"
    BY <1>4 DEF EndEnumeration, NextEnumeration
  <2>2. Places'
    BY <1>1, <1>4, <2>1 DEF Places, Deep
  <2>3. ASSUME NEW e \in Enumerations, Finished(e)'
        PROVE  Finished(e) \/ e = Current
    BY <1>1, <1>4, <2>1, <2>3 DEF Finished, Current
  <2> QED
    BY <1>1, <1>2, <1>3, <2>2, <2>3 DEF CompleteUnlessCut
<1>5. CASE at = "pqc" /\ options.ciphers
  <2>1. at' = "ciphers" /\ next' = FirstFrom(1, supported)
    BY <1>5 DEF EndEnumeration, NextEnumeration
  <2>2. Places'
    BY <1>1, <1>5, <2>1, FirstFromSkips DEF Places, Deep
  <2>3. ASSUME NEW e \in supported
        PROVE  ~(Position(e) < next')
    BY <2>1, FirstFromSkips, Positions DEF TypeOK
  <2>4. ASSUME NEW e \in Enumerations, Finished(e)'
        PROVE  Finished(e) \/ e = Current
    BY <1>1, <1>5, <2>1, <2>3, <2>4 DEF Finished, Current
  <2> QED
    BY <1>1, <1>2, <1>3, <2>2, <2>4 DEF CompleteUnlessCut
<1>6. CASE at = "ciphers"
  <2>1. at' = "ciphers" /\ next' = FirstFrom(next + 1, supported) /\ next + 1 \in 1 .. 6
    BY <1>6, CurrentIsOne DEF EndEnumeration, NextEnumeration
  <2>2. Places'
    BY <1>1, <1>6, <2>1, FirstFromSkips DEF Places, Deep
  <2>3. ASSUME NEW e \in supported, Position(e) < next', ~(Position(e) < next)
        PROVE  e = Current
    <3>1. Position(e) \in 1 .. 5 /\ ProbeOrder[Position(e)] = e
      BY Positions DEF TypeOK
    <3>2. Position(e) = next
      <4>1. next' \in next + 1 .. 6 /\ \A m \in next + 1 .. next' - 1 : ProbeOrder[m] \notin supported
        BY <2>1, FirstFromSkips
      <4>2. Position(e) \notin next + 1 .. next' - 1
        BY <2>3, <3>1, <4>1
      <4> QED
        BY <2>1, <2>3, <3>1, <4>1, <4>2 DEF TypeOK
    <3> QED
      BY <1>6, <3>1, <3>2 DEF Current
  <2>4. ASSUME NEW e \in Enumerations, Finished(e)'
        PROVE  Finished(e) \/ e = Current
    BY <1>1, <1>6, <2>1, <2>3, <2>4 DEF Finished
  <2> QED
    BY <1>1, <1>2, <1>3, <2>2, <2>4 DEF CompleteUnlessCut
<1> QED
  BY <1>4, <1>5, <1>6 DEF Enumerating

LEMMA NextInv == Inv /\ [Next]_vars => Inv'
<1> SUFFICES ASSUME Inv, [Next]_vars PROVE Inv'
  OBVIOUS
<1>0. TypeOK'
  BY NextTypes DEF Inv
<1> DEFINE Rest == Honest' /\ Counted' /\ OrderKept' /\ Places' /\ CompleteUnlessCut'
\* A step that leaves alone what was found and finishes nothing.
<1>1. ASSUME UNCHANGED <<server, found>>, supported \subseteq supported',
             supported' \subseteq server.versions, lost \subseteq lost', balked \subseteq balked',
             \A e \in Enumerations : Finished(e)' => Finished(e), Places'
      PROVE  Rest
  <2>1. \A e \in Enumerations : Welcome(e)' = Welcome(e) /\ Found(e)' = Found(e)
    BY <1>1 DEF Welcome, Usable, Found
  <2>2. Honest'
    BY <1>1, <2>1 DEF Inv, Honest, Enumerations
  <2>3. Counted' /\ OrderKept'
    BY <1>1, <2>1 DEF Inv, Counted, OrderKept
  <2>4. CompleteUnlessCut'
    BY <1>1, <2>1 DEF Inv, CompleteUnlessCut
  <2> QED
    BY <1>1, <2>2, <2>3, <2>4
<1>2. ASSUME VerifiedHandshake \/ VerifiedFails \/ UnverifiedHandshake \/ UnverifiedFails
      PROVE  Rest
  <2>1. at \in {"verified", "unverified"} /\ ~reachable
    BY <1>2 DEF VerifiedHandshake, VerifiedFails, UnverifiedHandshake, UnverifiedFails, Inv, Places
  <2>2. \/ at' = "done" /\ ~Deep'
        \/ at' = "unverified" /\ ~reachable'
        \/ at' = "versions" /\ Deep'
    BY <1>2, <2>1 DEF VerifiedHandshake, VerifiedFails, UnverifiedHandshake, UnverifiedFails,
                      AfterHandshake, Deep
  <2>3. \A e \in Enumerations : ~Finished(e)'
    BY <2>2 DEF Finished
  <2>4. /\ UNCHANGED <<server, found, supported, note, balked>>
        /\ lost \subseteq lost' /\ ("pqc" \in lost' => "pqc" \in lost)
    BY <1>2 DEF VerifiedHandshake, VerifiedFails, UnverifiedHandshake, UnverifiedFails
  <2>5. Places'
    BY <2>2, <2>4 DEF Inv, Places
  <2> QED
    BY <1>1, <2>3, <2>4, <2>5 DEF Inv, Honest
<1>3. ASSUME ProbeVersion \/ ProbeFails
      PROVE  Rest
  <2>1. at = "versions" /\ at' \in {"versions", "classical"} /\ ProbeOrder[next] \in Versions
    BY <1>3, Positions DEF ProbeVersion, ProbeFails, EndProbe, Inv, TypeOK
  <2>2. \A e \in Enumerations : ~Finished(e)'
    BY <2>1 DEF Finished
  <2>3. supported \subseteq supported' /\ supported' \subseteq server.versions
    BY <1>3 DEF ProbeVersion, ProbeFails, Accepts, Picked, Inv, Honest
  <2>4. /\ UNCHANGED <<server, options, reachable, found, note>>
        /\ lost \subseteq lost' /\ balked \subseteq balked'
        /\ "pqc" \in lost' => "pqc" \in lost
    BY <1>3, <2>1 DEF ProbeVersion, ProbeFails, EndProbe, Versions
  <2>5. Places'
    BY <2>1, <2>4 DEF Inv, Places, Deep
  <2> QED
    BY <1>1, <2>2, <2>3, <2>4, <2>5
<1>4. ASSUME Round
      PROVE  Rest
  BY <1>4, RoundKeeps
<1>5. ASSUME EnumerationEnds
      PROVE  Rest
  <2>1. Current \in Enumerations /\ Enumerating
    BY <1>5, CurrentIsOne DEF EnumerationEnds, Inv
  <2>2. Welcome(Current) \subseteq Found(Current)
    BY <1>5, <2>1, RoundsSuffice, CandidatesAreCodes DEF EnumerationEnds, Remaining, Inv
  <2> QED
    BY <1>5, <2>1, <2>2, EndKeeps DEF EnumerationEnds, Inv, Places
<1>6. ASSUME RoundLost
      PROVE  Rest
  <2>1. Current \in Enumerations /\ Enumerating
    BY <1>6, CurrentIsOne DEF RoundLost, Inv
  <2>2. "pqc" \in lost' => note'["pqc"]
    BY <1>6, <2>1 DEF RoundLost, Inv, Places, TypeOK, Enumerations
  <2> QED
    BY <1>6, <2>1, <2>2, EndKeeps DEF RoundLost
<1>7. ASSUME RoundBalked
      PROVE  Rest
  BY <1>7, EndKeeps DEF RoundBalked, Inv, Places
<1>8. ASSUME AllEnumerated
      PROVE  Rest
  <2>1. \A e \in Enumerations : Finished(e)' => Finished(e)
    BY <1>8, Positions DEF AllEnumerated, Finished, Deep, Inv, TypeOK
  <2>2. Places'
    BY <1>8 DEF AllEnumerated, Inv, Places
  <2> QED
    BY <1>1, <1>8, <2>1, <2>2 DEF AllEnumerated, Inv, Honest
<1>9. ASSUME Answered \/ UNCHANGED vars
      PROVE  Rest
  <2>1. UNCHANGED vars
    BY <1>9 DEF Answered
  <2>2. \A e \in Enumerations : Finished(e)' => Finished(e)
    BY <2>1 DEF Finished, Deep, vars
  <2>3. Places'
    BY <2>1 DEF Inv, Places, Deep, vars
  <2> QED
    BY <1>1, <2>1, <2>2, <2>3 DEF vars, Inv, Honest
<1> QED
  BY <1>0, <1>2, <1>3, <1>4, <1>5, <1>6, <1>7, <1>8, <1>9 DEF Next, Inv

\* The inductive invariant of an endpoint's scan.
THEOREM ScanInvariant == Spec => []Inv
BY InitInv, NextInv, PTL DEF Spec

\* What an enumeration found is the beginning of the server's own order.
THEOREM ServersOrder == Spec => []OrderKept
<1>1. Inv => OrderKept
  BY DEF Inv
<1> QED
  BY <1>1, ScanInvariant, PTL

\* No limit of rounds cuts an enumeration short.
THEOREM Complete == Spec => []CompleteUnlessCut
<1>1. Inv => CompleteUnlessCut
  BY DEF Inv
<1> QED
  BY <1>1, ScanInvariant, PTL

\* Nothing is reported that the server does not have.
THEOREM Truthful == Spec => []NothingInvented
<1>1. Inv => NothingInvented
  BY DEF Inv, Honest, NothingInvented, Welcome, Usable, Enumerations, Versions
<1> QED
  BY <1>1, ScanInvariant, PTL

LEMMA WhenId ==
  ASSUME NEW condition, NEW id, NEW severity, NEW t \in When(condition, id, severity)
  PROVE  t.id = id
BY DEF When, Finding

\* Only pqc_findings says that there is no hybrid key exchange.
LEMMA TlsIds ==
  ASSUME NEW e, NEW t \in TlsFindings(e)
  PROVE  t.id # "pqc.no-hybrid-key-exchange"
<1> DEFINE sound == {c \in e.suites : ~BrokenSuite(c)}
           severity(v) == IF v = "SSLv3" THEN "critical" ELSE "high"
<1>1. \/ t = Finding("tls.unreachable", "info")
      \/ t \in {Finding("tls.deprecated-version", severity(v)) : v \in e.supported \cap Deprecated}
      \/ t \in When(e.supported # {} /\ "TLS 1.3" \notin e.supported, "tls.no-tls13", "medium")
      \/ t \in When(sound # e.suites, "tls.broken-ciphers", "critical")
      \/ t \in When(\E c \in sound : ~ForwardSecret(c), "pqc.no-forward-secrecy", "critical")
      \/ t \in When(\E c \in sound : ForwardSecret(c) /\ ~Aead(c), "tls.cbc-ciphers", "low")
  BY Zenon DEF TlsFindings
<1> HIDE DEF sound, severity
<1>2. t = Finding("tls.unreachable", "info") => t.id = "tls.unreachable"
  BY DEF Finding
<1>3. t \in {Finding("tls.deprecated-version", severity(v)) : v \in e.supported \cap Deprecated}
        => t.id = "tls.deprecated-version"
  BY DEF Finding
<1>4. t.id \in {"tls.unreachable", "tls.deprecated-version", "tls.no-tls13",
               "tls.broken-ciphers", "pqc.no-forward-secrecy", "tls.cbc-ciphers"}
  BY <1>1, <1>2, <1>3, WhenId, Zenon
<1> QED
  BY <1>4

\* A report of no post-quantum key exchange is not the work of a lost connection.
THEOREM NoHybrid == Spec => []NoHybridIsReal
<1>1. ASSUME Inv, at = "done", options.deep,
             "pqc.no-hybrid-key-exchange" \in FindingIds(EndpointFindings(Endpoint)),
             HasHybrid, "pqc" \notin balked
      PROVE  server.suites \cap GroupProbeSuites = {}
  <2>1. reachable /\ Found("pqc") = {} /\ ~note["pqc"]
    <3>1. PICK f \in TlsFindings(Endpoint) \cup PqcFindings(Endpoint) :
            f.id = "pqc.no-hybrid-key-exchange"
      BY <1>1 DEF FindingIds, EndpointFindings
    <3>2. f \notin TlsFindings(Endpoint)
      BY <3>1, TlsIds
    <3>3. f \in PqcFindings(Endpoint)
      BY <3>1, <3>2
    <3>4. Endpoint.reachable /\ Endpoint.pqc = {} /\ ~Endpoint.note
      BY <3>1, <3>3 DEF PqcFindings, When, Finding
    <3> QED
      BY <3>4 DEF Endpoint
  <2>2. Welcome("pqc") = {}
    BY <1>1, <2>1 DEF Inv, CompleteUnlessCut, Finished, Deep, Places, Enumerations
  <2> QED
    BY <1>1, <2>2 DEF Welcome, HasHybrid, Candidates
<1>2. Inv => NoHybridIsReal
  BY <1>1 DEF NoHybridIsReal
<1> QED
  BY <1>2, ScanInvariant, PTL

-----------------------------------------------------------------------------
(* What is reported of a server that was not reached.                      *)

LEMMA SuiteTables ==
  /\ Tls13Suites \subseteq DOMAIN Suites /\ LegacySuites \subseteq DOMAIN Suites
  /\ \A v \in Versions : Candidates(v) \in {Tls13Suites, LegacySuites}
<1>1. ASSUME NEW v \in Versions PROVE v \notin {"classical", "pqc"}
  BY DEF Versions
<1>2. \A v \in Versions : Candidates(v) \in {Tls13Suites, LegacySuites}
  BY <1>1 DEF Candidates
<1> QED
  BY <1>2 DEF Tls13Suites, LegacySuites

Untouched == ~reachable => supported = {} /\ \A k \in Enumerations : Found(k) = {}

LEMMA UntouchedStep == Inv /\ Untouched /\ [Next]_vars => Untouched'
<1> SUFFICES ASSUME Inv, Untouched, [Next]_vars PROVE Untouched'
  OBVIOUS
<1>1. CASE VerifiedHandshake \/ UnverifiedHandshake
  BY <1>1 DEF VerifiedHandshake, UnverifiedHandshake, Untouched
<1>2. ASSUME UNCHANGED <<reachable, supported, found>> PROVE Untouched'
  BY <1>2 DEF Untouched, Found
<1>3. CASE VerifiedFails \/ UnverifiedFails \/ AllEnumerated \/ Answered \/ UNCHANGED vars
  BY <1>2, <1>3 DEF VerifiedFails, UnverifiedFails, AllEnumerated, Answered, vars
<1>4. CASE EnumerationEnds \/ RoundLost \/ RoundBalked
  BY <1>2, <1>4 DEF EnumerationEnds, RoundLost, RoundBalked, EndEnumeration
<1>5. CASE ProbeVersion \/ ProbeFails \/ Round
  <2>1. reachable /\ reachable' = reachable
    BY <1>5 DEF ProbeVersion, ProbeFails, EndProbe, Round, Enumerating, Inv, Places, Deep
  <2> QED
    BY <2>1 DEF Untouched
<1> QED
  BY <1>1, <1>3, <1>4, <1>5 DEF Next

\* What the rules and the analysis assume of an endpoint (IsProbed, a part of
\* FactsAssumption of Assessment) is what scan_endpoint returns: suites of the
\* table, and nothing at all of a server that neither handshake reached.
THEOREM EndpointFits == Spec => []IsProbed(Endpoint)
<1>1. Init => Untouched
  BY DEF Init, Untouched, Found
<1>2. Inv /\ Untouched => IsProbed(Endpoint)
  <2> SUFFICES ASSUME Inv, Untouched PROVE IsProbed(Endpoint)
    OBVIOUS
  <2>1. \A v \in Versions : Found(v) \subseteq DOMAIN Suites
    <3> TAKE v \in Versions
    <3>1. v \in Enumerations /\ v \notin {"classical", "pqc"}
      BY DEF Enumerations, Versions
    <3>2. Found(v) \subseteq Candidates(v)
      BY <3>1, CandidatesAreCodes DEF Inv, Honest
    <3> QED
      BY <3>1, <3>2, SuiteTables
  <2>2. AllCipherSuites \subseteq DOMAIN Suites
    BY <2>1 DEF AllCipherSuites
  <2>3. ~reachable => supported = {} /\ AllCipherSuites = {}
    BY DEF Untouched, AllCipherSuites, Enumerations
  <2>4. reachable \in BOOLEAN /\ (note["pqc"] \/ note["classical"]) \in BOOLEAN
    BY DEF Inv, TypeOK
  <2> QED
    BY <2>2, <2>3, <2>4 DEF IsProbed, Endpoint
<1> QED
  BY <1>1, <1>2, UntouchedStep, InitInv, NextInv, PTL DEF Spec

-----------------------------------------------------------------------------
(* The scan of an endpoint cannot go on for ever.                          *)

\* The rounds of an enumeration, and the one that ends it.
GroupCost == MaxGroupRounds + 1
SuiteCost == MaxSuiteRounds + 1

\* The connections that are left, at most, where a step of scan_endpoint begins.
Entry ==
  CASE at = "done"       -> 0
    [] at = "ciphers"    -> 1 + (6 - next) * SuiteCost
    [] at = "pqc"        -> 1 + 5 * SuiteCost + GroupCost
    [] at = "classical"  -> 1 + 5 * SuiteCost + 2 * GroupCost
    [] at = "versions"   -> 1 + 5 * SuiteCost + 2 * GroupCost + (6 - next)
    [] at = "unverified" -> 7 + 5 * SuiteCost + 2 * GroupCost
    [] OTHER             -> 8 + 5 * SuiteCost + 2 * GroupCost

Budget == Entry - (IF Enumerating THEN Len(found[Current]) ELSE 0)

Most == 8 + 5 * SuiteCost + 2 * GroupCost

LEMMA Costs ==
  /\ MaxGroupRounds \in Nat /\ MaxSuiteRounds \in Nat
  /\ GroupCost \in Nat /\ SuiteCost \in Nat /\ GroupCost > 0 /\ SuiteCost > 0
BY RoundsAssumption DEF GroupCost, SuiteCost

\* Rows of SuiteCost, as many as there are versions left.
LEMMA Rows ==
  ASSUME NEW n \in 1 .. 6
  PROVE  /\ (6 - n) * SuiteCost \in Nat /\ (6 - n) * SuiteCost <= 5 * SuiteCost
         /\ \A m \in 1 .. 6 : m > n => (6 - m) * SuiteCost + SuiteCost <= (6 - n) * SuiteCost
<1>1. \A k \in 1 .. 6 : k = 1 \/ k = 2 \/ k = 3 \/ k = 4 \/ k = 5 \/ k = 6
  OBVIOUS
<1>2. SuiteCost \in Nat
  BY Costs
<1>3. \A k \in 1 .. 6 : (6 - k) * SuiteCost \in Nat /\ (6 - k) * SuiteCost <= 5 * SuiteCost
  BY <1>1, <1>2
<1>4. ASSUME NEW m \in 1 .. 6, m > n PROVE (6 - m) * SuiteCost + SuiteCost <= (6 - n) * SuiteCost
  <2>1. CASE n = 1
    BY <1>1, <1>2, <1>4, <2>1
  <2>2. CASE n = 2
    BY <1>1, <1>2, <1>4, <2>2
  <2>3. CASE n = 3
    BY <1>1, <1>2, <1>4, <2>3
  <2>4. CASE n = 4
    BY <1>1, <1>2, <1>4, <2>4
  <2>5. CASE n = 5
    BY <1>1, <1>2, <1>4, <2>5
  <2> QED
    BY <1>1, <1>4, <2>1, <2>2, <2>3, <2>4, <2>5
<1> QED
  BY <1>3, <1>4

\* A round that was made counts against the cost of its enumeration.
LEMMA FoundIsPaid ==
  ASSUME Inv, Enumerating
  PROVE  /\ Len(found[Current]) \in Nat
         /\ at = "ciphers" => Len(found[Current]) < SuiteCost
         /\ at # "ciphers" => Len(found[Current]) < GroupCost
<1>1. PICK k \in Enumerations : k = Current
  BY CurrentIsOne DEF Inv
<1>2. /\ IsFiniteSet(Found(k)) /\ Cardinality(Found(k)) = Len(found[k])
      /\ Found(k) \subseteq Candidates(k)
  BY CandidatesAreCodes DEF Inv, Counted, Honest
<1>3. /\ Cardinality(Found(k)) \in Nat /\ Cardinality(Candidates(k)) \in Nat
      /\ Cardinality(Found(k)) <= Cardinality(Candidates(k))
  BY <1>2, CandidatesAreCodes, FS_Subset, FS_CardinalityType
<1>4. CASE at = "ciphers"
  <2>1. k \in Versions /\ k \notin {"classical", "pqc"}
    BY <1>1, <1>4, CurrentIsOne DEF Inv, Versions
  <2>2. Candidates(k) \in {Tls13Suites, LegacySuites}
    BY <2>1, SuiteTables
  <2>3. Cardinality(Candidates(k)) <= MaxSuiteRounds
    BY <2>2, RoundsAssumption
  <2> QED
    BY <1>1, <1>2, <1>3, <1>4, <2>3, RoundsAssumption DEF SuiteCost
<1>5. CASE at # "ciphers"
  <2>1. k \in {"classical", "pqc"}
    BY <1>1, <1>5 DEF Enumerating, Current
  <2>2. Candidates(k) \in {ClassicalGroups, PqcGroups}
    BY <2>1 DEF Candidates
  <2>3. Cardinality(Candidates(k)) <= MaxGroupRounds
    BY <2>2, RoundsAssumption
  <2> QED
    BY <1>1, <1>2, <1>3, <1>5, <2>3, Costs DEF GroupCost
<1> QED
  BY <1>4, <1>5

\* What is left never exceeds the entry, and is never less than nothing.
LEMMA BudgetIsNat == Inv => Entry \in Nat /\ Budget \in Nat /\ Budget <= Entry
<1> SUFFICES ASSUME Inv PROVE Entry \in Nat /\ Budget \in Nat /\ Budget <= Entry
  OBVIOUS
<1>0. next \in 1 .. 6 /\ GroupCost \in Nat /\ SuiteCost \in Nat
  BY Costs DEF Inv, TypeOK
<1>1. (6 - next) * SuiteCost \in Nat
  BY <1>0, Rows
<1>2. Entry \in Nat
  BY <1>0, <1>1 DEF Entry
<1>3. CASE ~Enumerating
  BY <1>2, <1>3 DEF Budget
<1>4. CASE Enumerating
  <2>1. Len(found[Current]) \in Nat /\ Len(found[Current]) <= Entry
    <3>1. CASE at = "ciphers"
      <4>1. next \in 1 .. 5 /\ 6 > next
        BY <1>4, <3>1 DEF Enumerating, Inv, TypeOK
      <4>2. (6 - 6) * SuiteCost + SuiteCost <= (6 - next) * SuiteCost
        BY <1>0, <4>1, Rows
      <4>3. SuiteCost <= (6 - next) * SuiteCost
        BY <1>0, <1>1, <4>2
      <4>4. Entry = 1 + (6 - next) * SuiteCost
        BY <3>1 DEF Entry
      <4>5. Len(found[Current]) \in Nat /\ Len(found[Current]) < SuiteCost
        BY <1>4, <3>1, FoundIsPaid
      <4> QED
        BY <1>0, <1>1, <4>3, <4>4, <4>5
    <3>2. CASE at \in {"classical", "pqc"}
      <4>1. Entry >= GroupCost
        BY <1>0, <3>2 DEF Entry
      <4> QED
        BY <1>0, <1>2, <1>4, <3>2, <4>1, FoundIsPaid
    <3> QED
      BY <1>4, <3>1, <3>2 DEF Enumerating
  <2> HIDE DEF Entry
  <2> QED
    BY <1>2, <1>4, <2>1 DEF Budget
<1> QED
  BY <1>3, <1>4

LEMMA Cheaper ==
  ASSUME NEW e \in Nat, NEW n \in Nat, NEW b \in Nat, NEW cost \in Nat, NEW len \in Nat,
         n + cost <= e, b <= n, len < cost
  PROVE  b < e - len
OBVIOUS

\* The end of an enumeration leads to a place that costs a whole one less.
LEMMA EndCosts ==
  ASSUME Inv, Inv', Enumerating, EndEnumeration
  PROVE  Budget' < Budget
<1>0. next \in 1 .. 6 /\ GroupCost \in Nat /\ SuiteCost \in Nat /\ GroupCost > 0 /\ SuiteCost > 0
  BY Costs DEF Inv, TypeOK
<1>1. (6 - next) * SuiteCost \in Nat
  BY <1>0, Rows
<1>2. Entry \in Nat /\ Entry' \in Nat /\ Budget' \in Nat /\ Budget' <= Entry'
  <2>1. Inv' => (Entry \in Nat /\ Budget \in Nat /\ Budget <= Entry)'
    BY BudgetIsNat, PTL
  <2> QED
    BY <2>1, BudgetIsNat
<1>3. Budget = Entry - Len(found[Current]) /\ Len(found[Current]) \in Nat
  BY FoundIsPaid DEF Budget
<1>4. CASE at = "classical"
  <2>1. at' = "pqc" /\ Len(found[Current]) < GroupCost
    BY <1>4, FoundIsPaid DEF EndEnumeration, NextEnumeration
  <2>2. Entry = 1 + 5 * SuiteCost + 2 * GroupCost /\ Entry' = 1 + 5 * SuiteCost + GroupCost
    BY <1>4, <2>1 DEF Entry
  <2>3. Entry' + GroupCost <= Entry
    BY <1>0, <2>2
  <2> HIDE DEF Entry, Budget
  <2> QED
    BY <1>0, <1>2, <1>3, <2>1, <2>3, Cheaper
<1>5. CASE at = "pqc"
  <2>1. Len(found[Current]) < GroupCost
    BY <1>5, FoundIsPaid
  <2>2. Entry = 1 + 5 * SuiteCost + GroupCost
    BY <1>5 DEF Entry
  <2>3. Entry' <= 1 + 5 * SuiteCost
    <3>1. CASE at' = "ciphers"
      <4>1. next' \in 1 .. 6
        BY DEF Inv, TypeOK
      <4>2. (6 - next') * SuiteCost \in Nat /\ (6 - next') * SuiteCost <= 5 * SuiteCost
        BY <4>1, Rows
      <4>3. Entry' = 1 + (6 - next') * SuiteCost
        BY <3>1 DEF Entry
      <4> QED
        BY <1>0, <4>2, <4>3
    <3>2. CASE at' = "done"
      <4>1. Entry' = 0
        BY <3>2 DEF Entry
      <4> QED
        BY <1>0, <4>1
    <3> QED
      BY <1>5, <3>1, <3>2 DEF EndEnumeration, NextEnumeration
  <2> HIDE DEF Entry, Budget
  <2>4. Entry' + GroupCost <= Entry
    <3>1. \A n, e, s, g \in Nat : n <= 1 + 5 * s /\ e = 1 + 5 * s + g => n + g <= e
      OBVIOUS
    <3> QED
      BY <1>0, <1>2, <2>2, <2>3, <3>1, Zenon
  <2> QED
    BY <1>0, <1>2, <1>3, <2>1, <2>4, Cheaper
<1>6. CASE at = "ciphers"
  <2>1. next \in 1 .. 5 /\ at' = "ciphers" /\ next' = FirstFrom(next + 1, supported)
    BY <1>0, <1>6 DEF EndEnumeration, NextEnumeration, Enumerating
  <2>2. next' \in 1 .. 6 /\ next' > next
    <3>1. next + 1 \in 1 .. 6
      BY <2>1
    <3>2. FirstFrom(next + 1, supported) \in next + 1 .. 6
      BY <3>1, FirstFromSkips
    <3> QED
      BY <2>1, <3>2
  <2>3. (6 - next') * SuiteCost + SuiteCost <= (6 - next) * SuiteCost
    BY <1>0, <2>2, Rows
  <2>4. (6 - next') * SuiteCost \in Nat
    BY <2>2, Rows
  <2>5. Entry = 1 + (6 - next) * SuiteCost /\ Entry' = 1 + (6 - next') * SuiteCost
    BY <1>6, <2>1 DEF Entry
  <2>6. Len(found[Current]) < SuiteCost
    BY <1>6, FoundIsPaid
  <2> HIDE DEF Entry, Budget
  <2>7. Entry' + SuiteCost <= Entry
    BY <1>0, <1>1, <2>3, <2>4, <2>5
  <2> QED
    BY <1>0, <1>2, <1>3, <2>6, <2>7, Cheaper
<1> QED
  BY <1>4, <1>5, <1>6 DEF Enumerating

LEMMA BudgetStep == Inv /\ Inv' /\ Next => Budget' < Budget \/ UNCHANGED vars
<1> SUFFICES ASSUME Inv, Inv', Next PROVE Budget' < Budget \/ UNCHANGED vars
  OBVIOUS
<1>0. /\ next \in 1 .. 6 /\ GroupCost \in Nat /\ SuiteCost \in Nat
      /\ Budget \in Nat /\ Entry \in Nat /\ Entry' \in Nat /\ Budget' \in Nat /\ Budget' <= Entry'
  <2>1. Inv' => (Entry \in Nat /\ Budget \in Nat /\ Budget <= Entry)'
    BY BudgetIsNat, PTL
  <2> QED
    BY <2>1, BudgetIsNat, Costs DEF Inv, TypeOK
<1>1. ASSUME ~Enumerating, Entry' < Entry PROVE Budget' < Budget
  <2>1. Budget = Entry
    BY <1>0, <1>1 DEF Budget
  <2> HIDE DEF Budget, Entry
  <2> QED
    BY <1>0, <1>1, <2>1
<1>2. CASE VerifiedHandshake \/ VerifiedFails \/ UnverifiedHandshake \/ UnverifiedFails
  <2>1. /\ at \in {"verified", "unverified"} /\ ~Enumerating /\ next' = next
        /\ at' \in {"unverified", "versions", "done"} /\ at' # at
        /\ at = "unverified" => at' # "unverified"
    BY <1>2 DEF VerifiedHandshake, VerifiedFails, UnverifiedHandshake, UnverifiedFails,
                AfterHandshake, Enumerating
  <2>2. Entry' < Entry
    BY <1>0, <2>1 DEF Entry
  <2> QED
    BY <1>1, <2>2, <2>1
<1>3. CASE ProbeVersion \/ ProbeFails
  <2>1. /\ at = "versions" /\ ~Enumerating /\ next \in 1 .. 5
        /\ \/ at' = "classical" /\ next = 5
           \/ at' = "versions" /\ next' = next + 1
    BY <1>3 DEF ProbeVersion, ProbeFails, EndProbe, Enumerating, Inv, TypeOK
  <2>2. Entry' < Entry
    BY <1>0, <2>1 DEF Entry
  <2> QED
    BY <1>1, <2>1, <2>2
<1>4. CASE Round
  <2>1. Enumerating /\ Enumerating' /\ Current' = Current /\ Entry' = Entry
    BY <1>4 DEF Round, Enumerating, Current, Entry
  <2>2. Len(found'[Current]) = Len(found[Current]) + 1 /\ Len(found[Current]) \in Nat
    <3>1. PICK k \in Enumerations, c \in Codes : Adds(k, c)
      BY <1>4, RoundAdds DEF Inv
    <3>2. found[k] \in Seq(Candidates(k)) /\ k = Current /\ found'[k] = Append(found[k], c)
          /\ c \in Candidates(k)
      BY <3>1 DEF Inv, TypeOK, Adds
    <3> QED
      BY <3>2
  <2>3. /\ Budget = Entry - Len(found[Current])
        /\ Budget' = Entry - Len(found'[Current])
    BY <2>1 DEF Budget
  <2> HIDE DEF Budget, Entry
  <2> QED
    BY <1>0, <2>2, <2>3
<1>5. CASE EnumerationEnds \/ RoundLost \/ RoundBalked
  BY <1>5, EndCosts DEF EnumerationEnds, RoundLost, RoundBalked
<1>6. CASE AllEnumerated
  <2>1. at = "ciphers" /\ next = 6 /\ at' = "done" /\ ~Enumerating
    BY <1>6 DEF AllEnumerated, Enumerating
  <2>2. Entry = 1 /\ Entry' = 0
    BY <1>0, <2>1 DEF Entry
  <2> QED
    BY <1>1, <2>1, <2>2
<1>7. CASE Answered
  BY <1>7 DEF Answered
<1> QED
  BY <1>2, <1>3, <1>4, <1>5, <1>6, <1>7 DEF Next

\* Whatever the server answers, loses or balks at, the scan of an endpoint ends:
\* every step takes from a budget that starts at two handshakes, five probes, two
\* enumerations of groups and five of suites.
THEOREM EndpointBounded ==
  Spec => [](Budget \in 0 .. Most) /\ [][Budget' < Budget]_vars
<1> DEFINE Within == Inv /\ Budget <= Most
<1>1. Init => Within
  BY InitInv, Costs DEF Init, Budget, Entry, Enumerating, Most
<1>2. Within /\ [Next]_vars => Within' /\ [Budget' < Budget]_vars
  <2> SUFFICES ASSUME Inv, Inv', Budget <= Most, [Next]_vars
               PROVE  Budget' <= Most /\ [Budget' < Budget]_vars
    BY NextInv
  <2>1. CASE UNCHANGED vars
    <3>1. Budget' = Budget
      BY <2>1 DEF vars, Budget, Entry, Enumerating, Current
    <3> QED
      BY <2>1, <3>1
  <2>2. CASE Budget' < Budget
    <3>1. Inv' => (Entry \in Nat /\ Budget \in Nat /\ Budget <= Entry)'
      BY BudgetIsNat, PTL
    <3>2. Budget \in Nat /\ Budget' \in Nat /\ Most \in Nat
      BY <3>1, BudgetIsNat, Costs DEF Most
    <3> HIDE DEF Budget, Most
    <3> QED
      BY <2>2, <3>2
  <2> QED
    BY <2>1, <2>2, BudgetStep
<1>3. Within => Budget \in 0 .. Most
  <2> SUFFICES ASSUME Inv, Budget <= Most PROVE Budget \in 0 .. Most
    OBVIOUS
  <2>1. Budget \in Nat /\ Most \in Nat
    BY BudgetIsNat, Costs DEF Most
  <2> HIDE DEF Budget, Most
  <2> QED
    BY <2>1
<1> QED
  BY <1>1, <1>2, <1>3, PTL DEF Spec
=============================================================================
