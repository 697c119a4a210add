------------------------- MODULE DnsPosture_proofs -------------------------
(***************************************************************************)
(* Proofs about DnsPosture, for any domains and any number of resolvers.   *)
(*                                                                         *)
(* The invariant says of each control that was asked about what separates  *)
(* the answer from what the domain publishes: nothing, or a doubt that is  *)
(* on record (Settled).  It speaks of postures that are available: when    *)
(* none of the lookups is answered the other questions are never asked.    *)
(* Budget counts the exchanges still ahead; every step lowers it.          *)
(***************************************************************************)
EXTENDS DnsPosture, FiniteSetTheorems, TLAPS

USE ResolversAssumption, ZonesAssumption

QuestionSet == {Questions[i] : i \in 1 .. Len(Questions)}

\* The questions behind the place of scan_dns.
Asked(q) == \E i \in 1 .. (asked - 1) : Questions[i] = q

\* What an answer on record says of the domain.
Settled(q) ==
  /\ records[q] # zone[q] => Doubts(q) # {}
  /\ q \in {"SPF", "DMARC"} =>
       /\ zone[q] # {} /\ records[q] = {} /\ q \notin undetermined =>
            <<q, "silent">> \in doubtful
       /\ zone[q] = {} => (q \in undetermined <=> <<q, "flagged">> \in doubtful)

\* Only what was asked can be doubtful or undetermined, a truncated answer is one
\* to the question at hand, and no record is made up.
Collecting ==
  /\ available \in BOOLEAN /\ (~available => Done)
  /\ \A q \in QuestionSet : records[q] \subseteq zone[q]
  /\ truncated # {} => ~Done
  /\ \A a \in truncated : a \in Answers
  /\ available =>
       /\ \A d \in doubtful : Asked(d[1])
       /\ \A q \in undetermined : Asked(q)
       /\ \A q \in Controls : Asked(q) => Settled(q)

Posture == TypeOK /\ Collecting

-----------------------------------------------------------------------------
(* The list of questions.                                                  *)

LEMMA QuestionFacts ==
  /\ Len(Questions) = 9
  /\ Questions[1] = "A" /\ Questions[2] = "AAAA" /\ Questions[3] = "NS"
  /\ Questions[4] = "MX" /\ Questions[5] = "CAA" /\ Questions[6] = "SPF"
  /\ Questions[7] = "DMARC" /\ Questions[8] = "DS" /\ Questions[9] = "DNSKEY"
  /\ QuestionSet = {"A", "AAAA", "NS", "MX", "CAA", "SPF", "DMARC", "DS", "DNSKEY"}
<1>1. /\ Len(Questions) = 9
      /\ Questions[1] = "A" /\ Questions[2] = "AAAA" /\ Questions[3] = "NS"
      /\ Questions[4] = "MX" /\ Questions[5] = "CAA" /\ Questions[6] = "SPF"
      /\ Questions[7] = "DMARC" /\ Questions[8] = "DS" /\ Questions[9] = "DNSKEY"
  BY DEF Questions
<1>2. 1 .. 9 = {1, 2, 3, 4, 5, 6, 7, 8, 9}
  OBVIOUS
<1> QED
  BY <1>1, <1>2 DEF QuestionSet

\* Each question is put once.
LEMMA Distinct ==
  \A i, j \in 1 .. 9 : Questions[i] = Questions[j] => i = j
<1>2. 1 .. 9 = {1, 2, 3, 4, 5, 6, 7, 8, 9}
  OBVIOUS
<1> QED
  BY <1>2, QuestionFacts

LEMMA Zone == ASSUME TypeOK PROVE zone \in [QuestionSet -> SUBSET Records]
BY DEF TypeOK, QuestionSet

\* An answer has the records of the domain or fewer.
LEMMA AnswerShape ==
  ASSUME TypeOK, ~Done, NEW a, a \in Answers \/ a = Failed
  PROVE  /\ a \in [shown : SUBSET Records, tc : BOOLEAN, error : BOOLEAN, whole : BOOLEAN]
         /\ a.shown \subseteq zone[Question]
         /\ a.whole => a.shown = zone[Question] /\ ~a.tc /\ ~a.error
<1>1. asked \in 1 .. 9
  BY QuestionFacts DEF TypeOK, Done
<1>2. Question \in QuestionSet
  BY <1>1, QuestionFacts DEF Question, QuestionSet
<1>3. zone[Question] \subseteq Records
  BY <1>2, Zone
<1>4. CASE a \in [shown : {zone[Question]}, tc : {FALSE}, error : {FALSE}, whole : {TRUE}]
  <2>1. a.shown = zone[Question] /\ a.tc = FALSE /\ a.error = FALSE /\ a.whole = TRUE
        /\ a = [shown |-> a.shown, tc |-> a.tc, error |-> a.error, whole |-> a.whole]
    BY <1>4
  <2> QED
    BY <1>3, <2>1
<1>5. CASE a \in [shown : SUBSET zone[Question], tc : BOOLEAN, error : {FALSE}, whole : {FALSE}]
  <2>1. a.shown \subseteq zone[Question] /\ a.tc \in BOOLEAN /\ a.error = FALSE /\ a.whole = FALSE
        /\ a = [shown |-> a.shown, tc |-> a.tc, error |-> a.error, whole |-> a.whole]
    BY <1>5
  <2> QED
    BY <1>3, <2>1
<1>6. CASE a = Failed
  BY <1>6 DEF Failed
<1> QED
  BY <1>4, <1>5, <1>6 DEF Answers

-----------------------------------------------------------------------------
(* Taking an answer.                                                       *)

\* The question at hand is one of the nine, and was not asked before.
LEMMA AtHand ==
  ASSUME TypeOK, ~Done
  PROVE  /\ asked \in 1 .. 9 /\ Question \in QuestionSet /\ ~Asked(Question)
         /\ asked' = asked + 1 => \A q : Asked(q)' <=> Asked(q) \/ q = Question
<1>1. asked \in 1 .. 9
  BY QuestionFacts DEF TypeOK, Done
<1>2. Question \in QuestionSet
  BY <1>1, QuestionFacts DEF Question, QuestionSet
<1>3. ~Asked(Question)
  BY <1>1, Distinct DEF Asked, Question
<1>4. ASSUME asked' = asked + 1, NEW q PROVE Asked(q)' <=> Asked(q) \/ q = Question
  <2>1. 1 .. (asked' - 1) = 1 .. (asked - 1) \cup {asked}
    BY <1>1, <1>4
  <2> QED
    BY <2>1 DEF Asked, Question
<1> QED
  BY <1>1, <1>2, <1>3, <1>4

LEMMA TakeKeeps ==
  ASSUME Posture, ~Done, NEW a, a \in Answers \/ a = Failed, Take(a)
  PROVE  Posture'
<1> USE DEF Posture
<1>0. /\ a \in [shown : SUBSET Records, tc : BOOLEAN, error : BOOLEAN, whole : BOOLEAN]
      /\ a.shown \subseteq zone[Question]
      /\ a.whole => a.shown = zone[Question] /\ ~a.tc /\ ~a.error
  BY AnswerShape
<1>1. asked \in 1 .. 9 /\ Question \in QuestionSet /\ ~Asked(Question)
  BY AtHand
<1>2. zone \in [QuestionSet -> SUBSET Records] /\ records \in [QuestionSet -> SUBSET Records]
  BY Zone DEF TypeOK, QuestionSet
<1>3. /\ records' = [records EXCEPT ![Question] = a.shown] /\ zone' = zone
      /\ truncated' = {} /\ resolver' = 1 /\ encodable' = encodable
      /\ doubtful' = doubtful \cup Doubt(a)
      /\ undetermined' = undetermined
           \cup {q \in {"SPF", "DMARC"} : q = Question /\ Undecided(a)}
      /\ available' = ~Unreachable(a)
      /\ asked' = IF Unreachable(a) THEN 10 ELSE asked + 1
      /\ errors' \subseteq errors \cup Lookups \cup {"SPF"}
  BY QuestionFacts DEF Take
<1>4. Doubt(a) \subseteq Controls \X {"flagged", "silent"}
  BY DEF Doubt
<1>5. TypeOK'
  <2>1. asked' \in 1 .. Len(Questions) + 1 /\ available' \in BOOLEAN
    BY <1>1, <1>3, QuestionFacts DEF Unreachable
  <2>2. records' \in [QuestionSet -> SUBSET Records]
    BY <1>0, <1>1, <1>2, <1>3
  <2>3. resolver' \in 1 .. Resolvers
    BY <1>3
  <2> QED
    BY <1>2, <1>3, <1>4, <2>1, <2>2, <2>3 DEF TypeOK, QuestionSet
<1>6. /\ available' \in BOOLEAN /\ (~available' => Done')
      /\ \A q \in QuestionSet : records'[q] \subseteq zone'[q]
      /\ truncated' = {}
  BY <1>0, <1>1, <1>2, <1>3, QuestionFacts DEF Collecting, Unreachable, Done
<1>7. ASSUME available'
      PROVE  /\ \A d \in doubtful' : Asked(d[1])'
             /\ \A q \in undetermined' : Asked(q)'
             /\ \A q \in Controls : Asked(q)' => Settled(q)'
  <2>1. available /\ asked' = asked + 1
    BY <1>3, <1>7 DEF Collecting
  <2>2. \A q : Asked(q)' <=> Asked(q) \/ q = Question
    BY <2>1, AtHand
  <2>3. \A d \in Doubt(a) : d[1] = Question
    BY DEF Doubt
  <2>4. /\ \A d \in doubtful : Asked(d[1])
        /\ \A q \in undetermined : Asked(q)
        /\ \A q \in Controls : Asked(q) => Settled(q)
    BY <2>1 DEF Collecting
  <2>5. (\A d \in doubtful' : Asked(d[1])') /\ \A q \in undetermined' : Asked(q)'
    BY <1>3, <2>2, <2>3, <2>4
  <2>6. ASSUME NEW q \in Controls, q # Question, Asked(q) PROVE Settled(q)'
    <3>1. records'[q] = records[q]
      BY <1>2, <1>3, <2>6, QuestionFacts DEF Controls
    <3>2. \A d \in Doubt(a) : d[1] # q
      BY <2>3, <2>6
    <3>3. Doubts(q)' = Doubts(q)
      BY <1>3, <3>2 DEF Doubts
    <3>4. \A k \in {"silent", "flagged"} : <<q, k>> \in doubtful' <=> <<q, k>> \in doubtful
      BY <1>3, <3>2
    <3>5. q \in undetermined' <=> q \in undetermined
      BY <1>3, <2>6
    <3>6. Settled(q)
      BY <2>4, <2>6
    <3> QED
      BY <1>3, <3>1, <3>3, <3>4, <3>5, <3>6 DEF Settled
  <2>7. ASSUME NEW q \in Controls, q = Question PROVE Settled(q)'
    <3>1. records'[q] = a.shown /\ q \notin undetermined /\ \A d \in doubtful : d[1] # q
      BY <1>1, <1>2, <1>3, <2>4, <2>7
    <3>2. q \in {"SPF", "DMARC"} => (q \in undetermined' <=> Undecided(a))
      BY <1>3, <2>7, <3>1
    <3>3. CASE a.whole
      BY <1>0, <1>3, <2>7, <3>1, <3>2, <3>3 DEF Settled, Doubt, Undecided
    <3>4. CASE ~a.whole
      <4>1. doubtful' = doubtful \cup {<<q, IF a.tc \/ a.error THEN "flagged" ELSE "silent">>}
        BY <1>3, <2>7, <3>4 DEF Doubt
      <4>2. Doubts(q)' # {}
        <5> DEFINE d == <<q, IF a.tc \/ a.error THEN "flagged" ELSE "silent">>
        <5>1. d \in doubtful' /\ d[1] = q
          BY <4>1
        <5> HIDE DEF d
        <5> QED
          BY <5>1 DEF Doubts
      <4>3. <<q, "flagged">> \in doubtful' <=> a.tc \/ a.error
        BY <3>1, <4>1
      <4>4. <<q, "silent">> \in doubtful' <=> ~(a.tc \/ a.error)
        BY <3>1, <4>1
      <4>5. zone[q] = {} => a.shown = {}
        BY <1>0, <2>7
      <4> QED
        BY <1>3, <3>1, <3>2, <4>2, <4>3, <4>4, <4>5 DEF Settled, Undecided
    <3> QED
      BY <3>3, <3>4
  <2> QED
    BY <2>2, <2>5, <2>6, <2>7
<1> QED
  BY <1>5, <1>6, <1>7 DEF Collecting

-----------------------------------------------------------------------------
(* The invariant and what follows from it.                                 *)

LEMMA PostureInit == Init => Posture
<1> SUFFICES ASSUME Init PROVE Posture
  OBVIOUS
<1>1. zone \in [QuestionSet -> SUBSET Records]
  BY DEF Init, QuestionSet
<1>2. records = [q \in QuestionSet |-> {}] /\ asked = 1 /\ resolver = 1
  BY <1>1 DEF Init
<1>3. TypeOK
  BY <1>1, <1>2, QuestionFacts DEF Init, TypeOK, QuestionSet
<1>4. \A q : ~Asked(q)
  BY <1>2 DEF Asked
<1> QED
  BY <1>2, <1>3, <1>4 DEF Init, Posture, Collecting

LEMMA PostureStep == Posture /\ [Next]_vars => Posture'
<1> SUFFICES ASSUME Posture, [Next]_vars PROVE Posture'
  OBVIOUS
<1>1. CASE CannotEncode \/ LastResolverFails
  BY <1>1, TakeKeeps DEF CannotEncode, LastResolverFails, Asking
<1>2. CASE Answered
  BY <1>2, TakeKeeps DEF Answered, Asking
<1>3. CASE TcpAnswers
  <2>1. ~Done
    BY <1>3 DEF TcpAnswers, Posture, Collecting
  <2> QED
    BY <1>3, <2>1, TakeKeeps DEF TcpAnswers
<1>4. CASE TcpFails
  <2>1. PICK a \in truncated : Take(a)
    BY <1>4 DEF TcpFails
  <2>2. ~Done /\ a \in Answers
    BY <2>1 DEF Posture, Collecting
  <2> QED
    BY <2>1, <2>2, TakeKeeps
<1>5. CASE TryNextResolver
  <2>1. resolver' \in 1 .. Resolvers
    BY <1>5 DEF TryNextResolver, Posture, TypeOK
  <2> QED
    BY <1>5, <2>1 DEF TryNextResolver, Posture, TypeOK, Collecting, Done, Answers, Question,
         Asked, Settled, Doubts
<1>6. CASE AnswerTruncated
  <2>1. PICK a \in Answers : truncated' = {a}
    BY <1>6 DEF AnswerTruncated
  <2>2. ~Done /\ UNCHANGED <<zone, encodable, asked, resolver, records, errors, undetermined,
                             available, doubtful>>
    BY <1>6 DEF AnswerTruncated, Asking
  <2>3. truncated' \subseteq
          [shown : SUBSET Records, tc : BOOLEAN, error : BOOLEAN, whole : BOOLEAN]
    BY <2>1, <2>2, AnswerShape DEF Posture
  <2> QED
    BY <2>1, <2>2, <2>3 DEF Posture, TypeOK, Collecting, Done, Answers, Question, Asked,
         Settled, Doubts
<1>7. CASE UNCHANGED vars
  BY <1>7 DEF vars, Posture, TypeOK, Collecting, Done, Answers, Question, Asked, Settled, Doubts
<1> QED
  BY <1>1, <1>2, <1>3, <1>4, <1>5, <1>6, <1>7 DEF Next

\* The inductive invariant of a DNS posture under collection.
THEOREM PostureInvariant == Spec => []Posture
BY PostureInit, PostureStep, PTL DEF Spec

\* When nothing is left to ask, every control was asked about.
LEMMA AllSettled ==
  ASSUME Posture, Done, available
  PROVE  \A q \in Controls : Settled(q) /\ records[q] \subseteq zone[q]
<1>1. asked = 10
  BY QuestionFacts DEF Posture, TypeOK, Done
<1>2. Controls \subseteq QuestionSet /\ \A q \in QuestionSet : Asked(q)
  BY <1>1, QuestionFacts DEF Asked, QuestionSet, Controls
<1> QED
  BY <1>2 DEF Posture, Collecting

\* A published record is reported missing only after an answer that hid it.
THEOREM AbsenceDoubted == Spec => []AbsenceNeedsDoubt
<1>1. Posture => AbsenceNeedsDoubt
  <2> SUFFICES ASSUME Posture, Done PROVE AbsenceNeedsDoubt
    BY DEF AbsenceNeedsDoubt
  <2>1. CASE ~available
    BY <2>1 DEF AbsenceNeedsDoubt, DnsFindings
  <2>2. CASE available
    <3>1. \A q \in {"CAA", "SPF", "DMARC", "DS", "DNSKEY"} : Settled(q)
      BY <2>2, AllSettled DEF Controls
    <3>2. /\ "dns.no-spf" \in DnsFindings => records["SPF"] = {} /\ "SPF" \notin undetermined
          /\ "dns.no-dmarc" \in DnsFindings => records["DMARC"] = {} /\ "DMARC" \notin undetermined
          /\ "dns.no-caa" \in DnsFindings => records["CAA"] = {}
          /\ "dns.no-dnssec" \in DnsFindings => records["DS"] = {} /\ records["DNSKEY"] = {}
      BY <2>2 DEF DnsFindings, Dnssec
    <3> QED
      BY <3>1, <3>2 DEF AbsenceNeedsDoubt, Settled
  <2> QED
    BY <2>1, <2>2 DEF Posture, Collecting
<1> QED
  BY <1>1, PostureInvariant, PTL

\* What a domain lacks is reported, unless the doubt shows.
THEOREM AbsenceShown == Spec => []AbsenceReported
<1>1. Posture => AbsenceReported
  <2> SUFFICES ASSUME Posture, Done, available PROVE AbsenceReported
    BY DEF AbsenceReported
  <2>1. \A q \in {"MX", "CAA", "SPF", "DMARC", "DS", "DNSKEY"} :
          Settled(q) /\ records[q] \subseteq zone[q]
    BY AllSettled DEF Controls
  <2>2. records["CAA"] = {} => "dns.no-caa" \in DnsFindings
    BY DEF DnsFindings
  <2>3. records["DS"] \cup records["DNSKEY"] = {} => "dns.no-dnssec" \in DnsFindings
    BY DEF DnsFindings, Dnssec
  <2>4. zone["DS"] \cup zone["DNSKEY"] = {} => records["DS"] \cup records["DNSKEY"] = {}
    BY <2>1
  <2>5. records["MX"] # {} =>
          /\ "dns.no-spf" \in DnsFindings <=> records["SPF"] = {} /\ "SPF" \notin undetermined
          /\ "dns.no-dmarc" \in DnsFindings <=>
               records["DMARC"] = {} /\ "DMARC" \notin undetermined
    BY DEF DnsFindings
  <2>6. Doubts("MX") = {} => records["MX"] = zone["MX"]
    BY <2>1 DEF Settled
  <2> QED
    BY <2>1, <2>2, <2>3, <2>4, <2>5, <2>6 DEF AbsenceReported, Settled
<1> QED
  BY <1>1, PostureInvariant, PTL

-----------------------------------------------------------------------------
(* The questions come to an end.                                           *)

\* The exchanges that are left, at most: a question takes one for each resolver
\* but the last, one that is cut off, and one that is taken.
Budget ==
  (Len(Questions) + 1 - asked) * (Resolvers + 1)
    - (resolver - 1) - (IF truncated = {} THEN 0 ELSE 1)

Bounded ==
  /\ Posture /\ (Done => resolver = 1)
  /\ Budget <= Len(Questions) * (Resolvers + 1)

LEMMA Times ==
  ASSUME NEW a \in Nat, NEW b \in Nat, a < b, NEW r \in Nat
  PROVE  a * r + r <= b * r
<1>1. b - a - 1 \in Nat
  OBVIOUS
<1>2. (b - a - 1) * r \in Nat
  BY <1>1
<1>3. (b - a - 1) * r = b * r - a * r - r
  OBVIOUS
<1>4. a * r \in Nat /\ b * r \in Nat
  OBVIOUS
<1>5. \A x, y, z \in Nat : y - x - z \in Nat => x + z <= y
  OBVIOUS
<1>6. b * r - a * r - r \in Nat
  BY <1>2, <1>3, Zenon
<1> QED
  BY <1>4, <1>5, <1>6, Zenon

LEMMA BudgetIsNat == Posture /\ (Done => resolver = 1) => Budget \in Nat
<1> SUFFICES ASSUME Posture, Done => resolver = 1 PROVE Budget \in Nat
  OBVIOUS
<1>1. asked \in 1 .. 10 /\ resolver \in 1 .. Resolvers /\ (truncated # {} => ~Done)
  BY QuestionFacts DEF Posture, TypeOK, Collecting
<1>2. Resolvers \in Nat /\ 10 - asked \in Nat /\ (10 - asked) * (Resolvers + 1) \in Nat
  BY <1>1
<1>3. CASE Done
  BY <1>1, <1>3, QuestionFacts DEF Budget, Done
<1>4. CASE ~Done
  <2>1. 0 * (Resolvers + 1) + (Resolvers + 1) <= (10 - asked) * (Resolvers + 1)
    <3>1. 0 < 10 - asked
      BY <1>1, <1>4, QuestionFacts DEF Done
    <3> QED
      BY <1>2, <3>1, Times
  <2>2. 0 * (Resolvers + 1) = 0
    OBVIOUS
  <2> QED
    BY <1>1, <1>2, <2>1, <2>2, QuestionFacts DEF Budget
<1> QED
  BY <1>3, <1>4

\* Taking an answer costs at least what is left of its question.
LEMMA TakeCosts ==
  ASSUME Posture, ~Done, NEW a, Take(a)
  PROVE  resolver' = 1 /\ Budget' < Budget
<1>1. asked \in 1 .. 9 /\ resolver \in 1 .. Resolvers /\ Resolvers \in Nat
  BY QuestionFacts DEF Posture, TypeOK, Done
<1>2. /\ asked' \in Nat /\ asked < asked' /\ asked' <= 10
      /\ resolver' = 1 /\ truncated' = {}
  BY <1>1, QuestionFacts DEF Take, Unreachable
<1>3. 10 - asked' \in Nat /\ 10 - asked \in Nat /\ 10 - asked' < 10 - asked /\ Resolvers + 1 \in Nat
  <2>1. \A x \in 1 .. 9, y \in Nat :
          x < y /\ y <= 10 => 10 - y \in Nat /\ 10 - x \in Nat /\ 10 - y < 10 - x
    OBVIOUS
  <2>2. Resolvers + 1 \in Nat
    BY <1>1
  <2> QED
    BY <1>1, <1>2, <2>1, <2>2, Zenon
<1>4. (10 - asked') * (Resolvers + 1) + (Resolvers + 1) <= (10 - asked) * (Resolvers + 1)
  BY <1>3, Times
<1>5. (10 - asked') * (Resolvers + 1) \in Nat /\ (10 - asked) * (Resolvers + 1) \in Nat
  BY <1>3
<1>6. Budget' = (10 - asked') * (Resolvers + 1)
  BY <1>2, <1>5, QuestionFacts DEF Budget
<1>7. Budget >= (10 - asked) * (Resolvers + 1) - Resolvers
  BY <1>1, <1>5, QuestionFacts DEF Budget
<1>8. Budget \in Int
  BY <1>1, <1>5, QuestionFacts DEF Budget
<1> HIDE DEF Budget
<1>9. ASSUME NEW x \in Int, NEW y \in Int, NEW n \in Nat, NEW m \in Nat, NEW r \in Nat,
             x = n, n + (r + 1) <= m, y >= m - r
      PROVE  x < y
  BY <1>9
<1>10. Budget' \in Int
  BY <1>5, <1>6
<1>11. Budget' < Budget
  BY <1>1, <1>4, <1>5, <1>6, <1>7, <1>8, <1>9, <1>10
<1> QED
  BY <1>2, <1>11

LEMMA BudgetStep ==
  ASSUME Bounded, Next
  PROVE  \/ Budget' < Budget /\ (Done' => resolver' = 1)
         \/ UNCHANGED vars
<1>0. /\ asked \in 1 .. 10 /\ resolver \in 1 .. Resolvers /\ Resolvers \in Nat
      /\ (10 - asked) * (Resolvers + 1) \in Nat
  <2>1. asked \in 1 .. 10 /\ resolver \in 1 .. Resolvers /\ Resolvers \in Nat
    BY QuestionFacts DEF Bounded, Posture, TypeOK
  <2>2. 10 - asked \in Nat /\ Resolvers + 1 \in Nat
    BY <2>1
  <2> QED
    BY <2>1, <2>2
<1>1. ASSUME NEW a, Take(a), ~Done PROVE Budget' < Budget /\ (Done' => resolver' = 1)
  BY <1>1, TakeCosts DEF Bounded
<1>2. CASE CannotEncode \/ LastResolverFails \/ Answered
  BY <1>1, <1>2 DEF CannotEncode, LastResolverFails, Answered, Asking
<1>3. CASE TcpAnswers \/ TcpFails
  <2>1. ~Done /\ \E a : Take(a)
    BY <1>3 DEF TcpAnswers, TcpFails, Bounded, Posture, Collecting
  <2> QED
    BY <1>1, <2>1
<1>4. CASE TryNextResolver
  <2>1. ~Done /\ truncated = {} /\ truncated' = {} /\ resolver' = resolver + 1 /\ asked' = asked
    BY <1>4 DEF TryNextResolver, Asking
  <2>2. ~Done'
    BY <2>1 DEF Done
  <2>3. Budget' = Budget - 1 /\ Budget \in Int
    BY <1>0, <2>1, QuestionFacts DEF Budget
  <2> QED
    BY <2>2, <2>3
<1>5. CASE AnswerTruncated
  <2>1. ~Done /\ truncated = {} /\ truncated' # {} /\ resolver' = resolver /\ asked' = asked
    BY <1>5 DEF AnswerTruncated, Asking
  <2>2. ~Done'
    BY <2>1 DEF Done
  <2>3. Budget' = Budget - 1 /\ Budget \in Int
    BY <1>0, <2>1, QuestionFacts DEF Budget
  <2> QED
    BY <2>2, <2>3
<1>6. CASE Done /\ UNCHANGED vars
  BY <1>6
<1> QED
  BY <1>2, <1>3, <1>4, <1>5, <1>6 DEF Next

\* However many resolvers fail and however often an answer is cut, scan_dns is
\* done after nine exchanges for each resolver and nine more: every step takes
\* from a budget that starts there, and truncation is retried once, never again.
THEOREM QuestionsBounded ==
  Spec => [](Budget \in 0 .. Len(Questions) * (Resolvers + 1)) /\ [][Budget' < Budget]_vars
<1>1. Init => Bounded
  <2> SUFFICES ASSUME Init PROVE Bounded
    OBVIOUS
  <2>1. asked = 1 /\ resolver = 1 /\ truncated = {} /\ Posture
    BY PostureInit DEF Init
  <2>2. Budget = Len(Questions) * (Resolvers + 1) /\ Budget \in Int
    BY <2>1, QuestionFacts DEF Budget
  <2> QED
    BY <2>1, <2>2 DEF Bounded
<1>2. Bounded => Budget \in 0 .. Len(Questions) * (Resolvers + 1)
  BY BudgetIsNat, QuestionFacts DEF Bounded
<1>3. Bounded /\ [Next]_vars => Bounded' /\ [Budget' < Budget]_vars
  <2> SUFFICES ASSUME Bounded, [Next]_vars PROVE Bounded' /\ [Budget' < Budget]_vars
    OBVIOUS
  <2>1. Posture'
    BY PostureStep DEF Bounded
  <2>2. CASE UNCHANGED vars
    BY <2>1, <2>2 DEF Bounded, Done, Budget, vars
  <2>3. CASE Budget' < Budget /\ (Done' => resolver' = 1)
    <3>1. (Posture /\ (Done => resolver = 1))' => (Budget \in Nat)'
      BY BudgetIsNat, PTL
    <3>2. Budget' \in Nat /\ Budget \in Nat
      BY <2>1, <2>3, <3>1, BudgetIsNat DEF Bounded
    <3> QED
      BY <2>1, <2>3, <3>2, QuestionFacts DEF Bounded
  <2> QED
    BY <2>2, <2>3, BudgetStep
<1> QED
  BY <1>1, <1>2, <1>3, PTL DEF Spec

-----------------------------------------------------------------------------
(* What scan_dns hands to the analysis is what Assessment takes.           *)

Rules == INSTANCE CryptoRules WITH Suites <- << >>, ClassicalCodes <- {}

DnsIds == {"dns.unavailable", "dns.no-caa", "dns.no-dnssec", "dns.no-dmarc", "dns.no-spf",
           "dns.dmarc-monitoring-only"}

\* The findings with the severities and the target the rules give them; which
\* ones does not matter.
Report(severity, target) ==
  {[id |-> id, severity |-> severity[id], target |-> target] : id \in DnsFindings}

LEMMA FiniteThree == \A a, b, c : IsFiniteSet({a, b, c})
<1> TAKE a, b, c
<1>1. IsFiniteSet({a}) /\ IsFiniteSet({b}) /\ IsFiniteSet({c})
  BY FS_Singleton
<1>2. IsFiniteSet({a} \cup {b})
  BY <1>1, FS_Union
<1>3. IsFiniteSet(({a} \cup {b}) \cup {c})
  BY <1>1, <1>2, FS_Union
<1>4. ({a} \cup {b}) \cup {c} = {a, b, c}
  OBVIOUS
<1> QED
  BY <1>3, <1>4

\* What the analysis assumes of DNS (ReportsAssumption of Assessment) is what
\* scan_dns reports: finitely many findings, none about an endpoint.
THEOREM DnsReportFits ==
  ASSUME NEW severity \in [DnsIds -> {Rules!Severities[i] : i \in 1 .. 5}], NEW target
  PROVE  Rules!IsReport(Report(severity, target))
<1>1. DnsFindings \subseteq DnsIds
  BY DEF DnsFindings, DnsIds
<1>2. IsFiniteSet(DnsFindings)
  <2>1. IsFiniteSet(DnsIds)
    <3> DEFINE A == {"dns.unavailable", "dns.no-caa", "dns.no-dnssec"}
               B == {"dns.no-dmarc", "dns.no-spf", "dns.dmarc-monitoring-only"}
    <3>1. IsFiniteSet(A) /\ IsFiniteSet(B) /\ DnsIds = A \cup B
      BY FiniteThree DEF DnsIds
    <3> HIDE DEF A, B
    <3> QED
      BY <3>1, FS_Union
  <2> QED
    BY <1>1, <2>1, FS_Subset
<1>3. IsFiniteSet(Report(severity, target))
  <2> DEFINE f == [id \in DnsFindings |->
                     [id |-> id, severity |-> severity[id], target |-> target]]
  <2>1. f \in Surjection(DnsFindings, Report(severity, target))
    BY DEF Surjection, Report
  <2> QED
    BY <1>2, <2>1, FS_Surjection
<1>4. DnsIds \cap Rules!AboutEndpoints = {} /\ "http.version-disclosure" \notin DnsIds
  BY DEF DnsIds, Rules!AboutEndpoints
<1>5. ASSUME NEW r \in Report(severity, target)
      PROVE  /\ \E i \in 1 .. 5 : r.severity = Rules!Severities[i]
             /\ r.id \notin Rules!AboutEndpoints
             /\ r.id # "http.version-disclosure"
  <2>1. PICK id \in DnsIds : r.id = id /\ r.severity = severity[id]
    BY <1>1, <1>5 DEF Report
  <2> QED
    BY <1>4, <2>1
<1> QED
  BY <1>3, <1>5 DEF Rules!IsReport, Rules!IsFiniteSet, IsFiniteSet
=============================================================================
