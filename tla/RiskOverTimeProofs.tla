------------------------- MODULE RiskOverTimeProofs -------------------------
(***************************************************************************)
(* Theorems about rescanning an untouched finding, for every finding,      *)
(* every calendar and every pattern of scans.                              *)
(***************************************************************************)
EXTENDS RiskOverTime, Lemmas

(***************************************************************************)
(* The inductive invariant: the assessment is the one of this very moment. *)
(* TypeOK alone would let it be stale, and nothing follows from a stale    *)
(* assessment.                                                             *)
(***************************************************************************)
IInv ==
  /\ finding \in Finding
  /\ now \in 0..Horizon
  /\ assessment = Assess(finding, now)

\* Every scan leaves an assessment of the unchanged finding at the moment it ran.
THEOREM Fresh == Spec => []IInv
<1>1. Init => IInv  BY RescanAssumption DEF Init, IInv
<1>2. IInv /\ [Next]_vars => IInv'
  <2> SUFFICES ASSUME IInv, [Next]_vars PROVE IInv'  OBVIOUS
  <2>1. ASSUME NEW gap \in 1..MaxGap, Rescan(gap) PROVE IInv'
    <3>1. finding' \in Finding  BY <2>1 DEF IInv, Rescan
    <3>2. now' \in 0..Horizon  BY <2>1, RescanAssumption DEF IInv, Rescan
    <3>3. assessment' = Assess(finding', now')  BY <2>1 DEF Rescan
    <3> QED  BY <3>1, <3>2, <3>3 DEF IInv
  <2>2. CASE UNCHANGED vars  BY <2>2 DEF IInv, vars
  <2> QED  BY <2>1, <2>2 DEF Next
<1> QED  BY <1>1, <1>2, PTL DEF Spec

\* Every assessment is complete (engine.py, assess).
THEOREM TypeCorrect == Spec => []TypeOK
<1>1. IInv => TypeOK  BY AssessType DEF IInv, TypeOK
<1> QED  BY <1>1, Fresh, PTL

(***************************************************************************)
(* Urgency                                                                 *)
(***************************************************************************)

QuantumVulnerable(f) == Migration(f) = "quantum_vulnerable"

\* ValidPast, as a relation between a finding, a moment and a deadline.
Outlives(f, t, deadline) ==
  /\ Extra(f, "not_after") # None
  /\ Extra(f, "not_after") >= t
  /\ Extra(f, "not_after") >= deadline

\* What the quantum reasons say is told by the migration status, the purpose
\* and the two deadlines alone.
LEMMA QuantumFacts ==
  ASSUME NEW f \in Finding, NEW t \in Int
  PROVE  LET Q == QuantumReasons(f, t)
         IN /\ HasWeakness(Q, "outlives_quantum_deadline")
                 <=> QuantumVulnerable(f) /\ Outlives(f, t, QuantumDeprecation)
            /\ Reason("outlives_quantum_deadline", "high") \in Q
                 <=> QuantumVulnerable(f) /\ Outlives(f, t, QuantumProhibition)
            /\ HasWeakness(Q, "harvest_now_decrypt_later")
                 <=> QuantumVulnerable(f) /\ f.purpose \in {"key_establishment", "encryption"}
            /\ HasWeakness(Q, "quantum_vulnerable_signature")
                 <=> QuantumVulnerable(f) /\ f.purpose = "digital_signature"
            /\ HasWeakness(Q, "quantum_vulnerable_unknown_purpose")
                 <=> /\ QuantumVulnerable(f)
                     /\ f.purpose \notin {"key_establishment", "encryption", "digital_signature"}
<1> DEFINE Q == QuantumReasons(f, t)
           O == OutlivedDeadline(f, t)
<1>1. Extra(f, "not_after") # None => Extra(f, "not_after") \in Int  BY FindingAssumption
<1>2. CASE QuantumVulnerable(f)
  <2>1. Q = {QuantumRisk(f.purpose)} \cup O
    BY <1>2 DEF QuantumReasons, QuantumVulnerable
  <2>2. /\ O # {} <=> Outlives(f, t, QuantumDeprecation)
        /\ Reason("outlives_quantum_deadline", "high") \in O <=> Outlives(f, t, QuantumProhibition)
        /\ \A r \in O : r.weakness = "outlives_quantum_deadline"
    <3>1. CASE Outlives(f, t, QuantumProhibition)
      <4>1. Outlives(f, t, QuantumDeprecation)  BY <3>1, <1>1, CalendarAssumption DEF Outlives
      <4>2. O = {Reason("outlives_quantum_deadline", "high")}
        BY <3>1, <1>1 DEF OutlivedDeadline, Outlives
      <4> QED  BY <3>1, <4>1, <4>2 DEF Reason
    <3>2. CASE ~Outlives(f, t, QuantumProhibition) /\ Outlives(f, t, QuantumDeprecation)
      <4>1. O = {Reason("outlives_quantum_deadline", "medium")}
        BY <3>2, <1>1 DEF OutlivedDeadline, Outlives
      <4>2. "high" # "medium"  OBVIOUS
      <4> QED  BY <3>2, <4>1, <4>2 DEF Reason
    <3>3. CASE ~Outlives(f, t, QuantumDeprecation)
      <4>1. ~Outlives(f, t, QuantumProhibition)  BY <3>3, <1>1, CalendarAssumption DEF Outlives
      <4>2. O = {}  BY <3>3, <4>1, <1>1, CalendarAssumption DEF OutlivedDeadline, Outlives
      <4> QED  BY <3>3, <4>1, <4>2
    <3> QED  BY <3>1, <3>2, <3>3
  <2>3. QuantumRisk(f.purpose).weakness =
          IF f.purpose \in {"key_establishment", "encryption"} THEN "harvest_now_decrypt_later"
          ELSE IF f.purpose = "digital_signature" THEN "quantum_vulnerable_signature"
          ELSE "quantum_vulnerable_unknown_purpose"
    BY DEF QuantumRisk, Reason
  <2>4. QuantumRisk(f.purpose) # Reason("outlives_quantum_deadline", "high")
    BY <2>3 DEF Reason
  <2>5. \A w : HasWeakness(Q, w) <=> \/ QuantumRisk(f.purpose).weakness = w
                                     \/ w = "outlives_quantum_deadline" /\ O # {}
    BY <2>1, <2>2 DEF HasWeakness
  <2>6. Reason("outlives_quantum_deadline", "high") \in Q <=> Outlives(f, t, QuantumProhibition)
    BY <2>1, <2>2, <2>4
  <2> HIDE DEF Q, O
  <2>7. QED  BY <1>2, <2>2, <2>3, <2>5, <2>6 DEF Q
<1>3. CASE ~QuantumVulnerable(f)
  <2>1. Q \in {{}, {Reason("unidentified_algorithm", "low")}}
    BY <1>3 DEF QuantumReasons, QuantumVulnerable
  <2>2. \A r \in Q : r.weakness = "unidentified_algorithm"  BY <2>1 DEF Reason
  <2>3. Reason("outlives_quantum_deadline", "high").weakness = "outlives_quantum_deadline"
    BY DEF Reason
  <2> HIDE DEF Q
  <2> QED  BY <1>3, <2>2, <2>3 DEF HasWeakness, Q
<1> QED  BY <1>2, <1>3

\* So the priority is told by the facts, which is the property for one finding.
LEMMA UrgencyOf ==
  ASSUME NEW f \in Finding, NEW t \in Int, NEW level \in RiskLevel
  PROVE  LET p         == PriorityOf(level, QuantumReasons(f, t))
             immediate == \/ AtLeast(level, "high")
                          \/ QuantumVulnerable(f) /\ Outlives(f, t, QuantumProhibition)
             pressing  == /\ QuantumVulnerable(f)
                          /\ \/ f.purpose # "digital_signature"
                             \/ Outlives(f, t, QuantumDeprecation)
         IN /\ p = "immediate" <=> immediate
            /\ p = "urgent"    <=> ~immediate /\ pressing
            /\ p = "scheduled" <=> ~immediate /\ ~pressing /\ QuantumVulnerable(f)
<1>1. Outlives(f, t, QuantumProhibition) => Outlives(f, t, QuantumDeprecation)
  BY FindingAssumption, CalendarAssumption DEF Outlives
<1> QED  BY <1>1, QuantumFacts DEF PriorityOf

\* The priority follows from the facts, for every finding and every date.
THEOREM Urgency == Spec => []UrgencyFollowsExposure
<1>1. IInv => UrgencyFollowsExposure
  <2> SUFFICES ASSUME IInv PROVE UrgencyFollowsExposure  OBVIOUS
  <2>1. finding \in Finding /\ now \in Int /\ assessment = Assess(finding, now)
    BY RescanAssumption DEF IInv
  <2>2. assessment.classicalRisk \in RiskLevel
    BY <2>1, AssessType DEF Assessment
  <2>3. assessment.priority = PriorityOf(assessment.classicalRisk, QuantumReasons(finding, now))
    BY <2>1 DEF Assess
  <2>4. \A d : ValidPast(d) <=> Outlives(finding, now, d)  BY DEF ValidPast, Outlives
  <2>5. Vulnerable <=> QuantumVulnerable(finding)  BY DEF Vulnerable, QuantumVulnerable
  <2> QED  BY <2>1, <2>2, <2>3, <2>4, <2>5, UrgencyOf DEF UrgencyFollowsExposure, BrokenToday
<1> QED  BY <1>1, Fresh, PTL

(***************************************************************************)
(* The calendar                                                            *)
(***************************************************************************)

\* Whole days are rounded down.
LEMMA DivBounds ==
  ASSUME NEW a \in Int
  PROVE  /\ a \div Day \in Int
         /\ Day * (a \div Day) <= a
         /\ a < Day * (a \div Day) + Day
  BY CalendarAssumption

\* More time is not fewer days.
LEMMA DivMonotone ==
  ASSUME NEW a \in Int, NEW b \in Int, a <= b
  PROVE  a \div Day <= b \div Day
<1> DEFINE p == a \div Day
           q == b \div Day
<1>1. p \in Int /\ q \in Int /\ Day * p <= a /\ b < Day * q + Day  BY DivBounds
<1>2. Day \in Nat /\ Day > 0  BY CalendarAssumption
<1> HIDE DEF p, q
<1>3. SUFFICES ASSUME p >= q + 1 PROVE FALSE  BY <1>1 DEF p, q
<1>4. Day * p >= Day * (q + 1)  BY <1>1, <1>2, <1>3
<1>5. Day * (q + 1) = Day * q + Day  BY <1>1, <1>2
<1>6. Day * q \in Int /\ Day * p \in Int  BY <1>1, <1>2
<1> QED  BY <1>1, <1>2, <1>4, <1>5, <1>6

\* Less than a day more than n days is n days.
LEMMA DivWithin ==
  ASSUME NEW a \in Int, NEW n \in Nat, a < (n + 1) * Day
  PROVE  a \div Day <= n
<1> DEFINE p == a \div Day
<1>1. p \in Int /\ Day * p <= a  BY DivBounds
<1>2. Day \in Nat /\ Day > 0  BY CalendarAssumption
<1> HIDE DEF p
<1>3. SUFFICES ASSUME p >= n + 1 PROVE FALSE  BY <1>1 DEF p
<1>4. Day * p >= Day * (n + 1)  BY <1>1, <1>2, <1>3
<1>5. Day * (n + 1) = (n + 1) * Day  BY <1>2
<1>6. Day * p \in Int /\ (n + 1) * Day \in Int  BY <1>1, <1>2
<1> QED  BY <1>1, <1>4, <1>5, <1>6

(***************************************************************************)
(* Time only makes a finding worse                                         *)
(***************************************************************************)

\* The ranks that the comparisons below use.
LEMMA RankHigh == Rank["high"] = 3 /\ Rank["medium"] = 2 /\ Rank["low"] = 1 /\ Rank["info"] = 0
  BY DEF Rank

\* With the same quantum reasons, a higher classical level is no lower priority.
LEMMA PriorityMonotone ==
  ASSUME NEW l \in RiskLevel, NEW m \in RiskLevel, Rank[l] <= Rank[m], NEW quantum
  PROVE  PriorityRank[PriorityOf(l, quantum)] <= PriorityRank[PriorityOf(m, quantum)]
<1>1. AtLeast(l, "high") => AtLeast(m, "high")
  BY RankType, RankHigh DEF AtLeast
<1>2. AtLeast(l, "low") => AtLeast(m, "low")
  BY RankType, RankHigh DEF AtLeast
<1> QED  BY <1>1, <1>2 DEF PriorityOf, PriorityRank

\* The ranks of priorities are the numbers from 0 to 4.
LEMMA PriorityBounds ==
  \A p \in Priority : PriorityRank[p] \in 0..4
  BY DEF Priority, PriorityRank

\* The moment a certificate expires.
NotAfter(f) == Extra(f, "not_after")

\* A finding that never expires, or has already expired, is assessed alike forever.
LEMMA AssessConstant ==
  ASSUME NEW f \in Finding, NEW t \in Int, NEW u \in Int, t <= u,
         NotAfter(f) = None \/ NotAfter(f) < t
  PROVE  Assess(f, t) = Assess(f, u)
<1>1. NotAfter(f) = None \/ NotAfter(f) < u  BY FindingAssumption DEF NotAfter
<1>2. ExpiryReasons(f, t) = ExpiryReasons(f, u)  BY <1>1 DEF ExpiryReasons, NotAfter
<1>3. OutlivedDeadline(f, t) = OutlivedDeadline(f, u)  BY <1>1 DEF OutlivedDeadline, NotAfter
<1>4. ClassicalReasons(f, t) = ClassicalReasons(f, u)  BY <1>2, ClassicalSplit
<1>5. QuantumReasons(f, t) = QuantumReasons(f, u)  BY <1>3 DEF QuantumReasons
<1> QED  BY <1>4, <1>5 DEF Assess

\* The overall risk is no lower if each axis is exceeded by one of the later two.
LEMMA OverallMonotone ==
  ASSUME NEW a \in Assessment, NEW b \in Assessment,
         \/ Rank[a.classicalRisk] <= Rank[b.classicalRisk]
         \/ Rank[a.classicalRisk] <= Rank[b.quantumRisk],
         \/ Rank[a.quantumRisk] <= Rank[b.classicalRisk]
         \/ Rank[a.quantumRisk] <= Rank[b.quantumRisk]
  PROVE  Rank[OverallRisk(a)] <= Rank[OverallRisk(b)]
<1> DEFINE A == {a.classicalRisk, a.quantumRisk}
           B == {b.classicalRisk, b.quantumRisk}
<1>1. A \in SUBSET RiskLevel /\ B \in SUBSET RiskLevel  BY DEF Assessment
<1>2. \A l \in A : \E m \in B : Rank[l] <= Rank[m]  OBVIOUS
<1> QED  BY <1>1, <1>2, MaxRiskMonotone DEF OverallRisk

\* Still valid at the later moment: the same quantum reasons, and no fewer
\* classical ones.
LEMMA AssessStillValid ==
  ASSUME NEW f \in Finding, NEW t \in Int, NEW u \in Int, t <= u,
         NotAfter(f) # None, NotAfter(f) >= u
  PROVE  /\ QuantumReasons(f, t) = QuantumReasons(f, u)
         /\ ClassicalReasons(f, t) \subseteq ClassicalReasons(f, u)
<1>1. NotAfter(f) \in Int  BY FindingAssumption DEF NotAfter
<1>2. ~(NotAfter(f) < t) /\ ~(NotAfter(f) < u)  BY <1>1
<1>3. DaysBetween(u, NotAfter(f)) <= DaysBetween(t, NotAfter(f))
  BY <1>1, DivMonotone DEF DaysBetween
<1>4. DaysBetween(u, NotAfter(f)) \in Int /\ DaysBetween(t, NotAfter(f)) \in Int
  BY <1>1, DivBounds DEF DaysBetween
<1>5. ExpiryReasons(f, t) \subseteq ExpiryReasons(f, u)
  BY <1>2, <1>3, <1>4, CalendarAssumption DEF ExpiryReasons, NotAfter
<1>6. OutlivedDeadline(f, t) = OutlivedDeadline(f, u)
  BY <1>2 DEF OutlivedDeadline, NotAfter
<1> QED  BY <1>5, <1>6, ClassicalSplit DEF QuantumReasons

\* Expired in between: the expiry is a classical reason of level high.
LEMMA AssessExpired ==
  ASSUME NEW f \in Finding, NEW t \in Int, NEW u \in Int,
         NotAfter(f) # None, NotAfter(f) >= t, NotAfter(f) < u
  PROVE  /\ Reason("expired_certificate", "high") \in ClassicalReasons(f, u)
         /\ \A r \in ClassicalReasons(f, t) :
              r \in ClassicalReasons(f, u) \/ r.level = "medium"
         /\ \A r \in QuantumReasons(f, t) : Rank[r.level] <= Rank["high"]
<1>1. ExpiryReasons(f, u) = {Reason("expired_certificate", "high")}
  BY DEF ExpiryReasons, NotAfter
<1>2. NotAfter(f) \in Int  BY FindingAssumption DEF NotAfter
<1>3. \A r \in ExpiryReasons(f, t) : r.level = "medium"
  BY <1>2 DEF ExpiryReasons, NotAfter, Reason
<1>4. \A r \in QuantumReasons(f, t) : r.level \in {"low", "medium", "high"}
  <2>1. QuantumRisk(f.purpose).level \in {"low", "medium", "high"}  BY DEF QuantumRisk, Reason
  <2>2. \A r \in OutlivedDeadline(f, t) : r.level \in {"low", "medium", "high"}
    BY DEF OutlivedDeadline, Reason
  <2>3. Reason("unidentified_algorithm", "low").level \in {"low", "medium", "high"}  BY DEF Reason
  <2> QED  BY <2>1, <2>2, <2>3 DEF QuantumReasons
<1>5. \A r \in QuantumReasons(f, t) : Rank[r.level] <= Rank["high"]
  BY <1>4, RankHigh
<1> QED  BY <1>1, <1>3, <1>5, ClassicalSplit

\* Later is never better: the three cases together.
LEMMA AssessMonotone ==
  ASSUME NEW f \in Finding, NEW t \in Int, NEW u \in Int, t <= u
  PROVE  /\ Rank[OverallRisk(Assess(f, t))] <= Rank[OverallRisk(Assess(f, u))]
         /\ PriorityRank[Assess(f, t).priority] <= PriorityRank[Assess(f, u).priority]
<1> DEFINE a == Assess(f, t)
           b == Assess(f, u)
           C(m) == Levels(ClassicalReasons(f, m))
           Q(m) == Levels(QuantumReasons(f, m))
<1>1. a \in Assessment /\ b \in Assessment  BY AssessType
<1>2. /\ a.classicalRisk = MaxRisk(C(t)) /\ a.quantumRisk = MaxRisk(Q(t))
      /\ b.classicalRisk = MaxRisk(C(u)) /\ b.quantumRisk = MaxRisk(Q(u))
      /\ a.priority = PriorityOf(a.classicalRisk, QuantumReasons(f, t))
      /\ b.priority = PriorityOf(b.classicalRisk, QuantumReasons(f, u))
  BY DEF Assess
<1>3. /\ C(t) \in SUBSET RiskLevel /\ C(u) \in SUBSET RiskLevel
      /\ Q(t) \in SUBSET RiskLevel /\ Q(u) \in SUBSET RiskLevel
  BY ReasonsType, LevelsType
<1>4. /\ a.classicalRisk \in RiskLevel /\ a.quantumRisk \in RiskLevel
      /\ b.classicalRisk \in RiskLevel /\ b.quantumRisk \in RiskLevel
      /\ a.priority \in Priority /\ b.priority \in Priority
  BY <1>1 DEF Assessment
<1>5. CASE NotAfter(f) = None \/ NotAfter(f) < t
  <2>1. a = b  BY <1>5, AssessConstant
  <2>2. MaxRisk({a.classicalRisk, a.quantumRisk}) \in RiskLevel  BY <1>4, MaxRiskType
  <2>3. Rank[OverallRisk(a)] \in 0..4 /\ PriorityRank[a.priority] \in 0..4
    BY <1>4, <2>2, RankType, PriorityBounds DEF OverallRisk
  <2> HIDE DEF a, b
  <2> QED  BY <2>1, <2>3 DEF a, b
<1>6. CASE NotAfter(f) # None /\ NotAfter(f) >= u
  <2>1. Q(t) = Q(u) /\ C(t) \subseteq C(u)  BY <1>6, AssessStillValid DEF Levels
  <2>2. \A l \in C(t) : \E m \in C(u) : Rank[l] <= Rank[m]
    BY <2>1, <1>3, RankType
  <2>3. Rank[a.classicalRisk] <= Rank[b.classicalRisk]
    BY <2>2, <1>2, <1>3, MaxRiskMonotone
  <2>4. a.quantumRisk = b.quantumRisk /\ Rank[a.quantumRisk] <= Rank[b.quantumRisk]
    BY <2>1, <1>2, <1>4, RankType
  <2>5. QuantumReasons(f, t) = QuantumReasons(f, u)  BY <1>6, AssessStillValid
  <2>6. PriorityRank[a.priority] <= PriorityRank[b.priority]
    BY <2>3, <2>5, <1>2, <1>4, PriorityMonotone
  <2>7. Rank[OverallRisk(a)] <= Rank[OverallRisk(b)]
    BY <1>1, <2>3, <2>4, OverallMonotone
  <2> QED  BY <2>6, <2>7
<1>7. CASE NotAfter(f) # None /\ NotAfter(f) >= t /\ NotAfter(f) < u
  <2>1. "high" \in C(u)  BY <1>7, AssessExpired DEF Levels, Reason
  <2>2. \A l \in C(t) : l \in C(u) \/ l = "medium"  BY <1>7, AssessExpired DEF Levels
  <2>3. \A l \in C(t) : \E m \in C(u) : Rank[l] <= Rank[m]
    BY <2>1, <2>2, <1>3, RankType, RankHigh
  <2>4. Rank[a.classicalRisk] <= Rank[b.classicalRisk]
    BY <2>3, <1>2, <1>3, MaxRiskMonotone
  <2>5. \A l \in Q(t) : Rank[l] <= Rank["high"]  BY <1>7, AssessExpired DEF Levels
  <2>6. \A l \in Q(t) : \E m \in C(u) : Rank[l] <= Rank[m]  BY <2>1, <2>5
  <2>7. Rank[a.quantumRisk] <= Rank[b.classicalRisk]
    BY <2>6, <1>2, <1>3, MaxRiskMonotone
  <2>8. Rank[OverallRisk(a)] <= Rank[OverallRisk(b)]
    BY <1>1, <2>4, <2>7, OverallMonotone
  <2>9. AtLeast(b.classicalRisk, "high")
    <3>1. Rank["high"] <= Rank[MaxRisk(C(u))]  BY <2>1, <1>3, MaxRiskOfNonempty
    <3>2. Rank["high"] \in Int /\ Rank[MaxRisk(C(u))] \in Int  BY <1>2, <1>4, RankType, RankHigh
    <3> QED  BY <3>1, <3>2, <1>2 DEF AtLeast
  <2>10. b.priority = "immediate"  BY <2>9, <1>2 DEF PriorityOf
  <2>11. PriorityRank[a.priority] <= PriorityRank[b.priority]
    BY <2>10, <1>4, PriorityBounds DEF PriorityRank
  <2> QED  BY <2>8, <2>11
<1>8. NotAfter(f) \in Int \cup {None}  BY FindingAssumption DEF NotAfter
<1>9. NotAfter(f) # None => NotAfter(f) >= u \/ NotAfter(f) < t
                             \/ (NotAfter(f) >= t /\ NotAfter(f) < u)
  BY <1>8
<1> QED  BY <1>5, <1>6, <1>7, <1>9

\* A scan looks at the same finding, no earlier than the scan before.
LEMMA StepMoves ==
  ASSUME IInv, IInv', [Next]_vars
  PROVE  /\ finding \in Finding /\ finding' = finding
         /\ now \in Int /\ now' \in Int /\ now <= now'
         /\ assessment = Assess(finding, now) /\ assessment' = Assess(finding, now')
<1>1. now \in Int /\ now' \in Int  BY RescanAssumption DEF IInv
<1>2. finding' = finding /\ now <= now'
  <2>1. CASE UNCHANGED vars  BY <2>1, <1>1 DEF vars
  <2>2. ASSUME NEW gap \in 1..MaxGap, Rescan(gap) PROVE finding' = finding /\ now <= now'
    BY <2>2, <1>1, RescanAssumption DEF Rescan
  <2> QED  BY <2>1, <2>2 DEF Next
<1> QED  BY <1>1, <1>2 DEF IInv

\* Neither the risk nor the priority of an untouched finding ever drops.
THEOREM Monotone == Spec => RiskNeverDrops
<1>1. IInv /\ IInv' /\ [Next]_vars => [NeverLessPressing]_vars
  <2> SUFFICES ASSUME IInv, IInv', [Next]_vars PROVE NeverLessPressing  OBVIOUS
  <2> DEFINE a == Assess(finding, now)
             b == Assess(finding, now')
  <2>1. /\ Rank[OverallRisk(a)] <= Rank[OverallRisk(b)]
        /\ PriorityRank[a.priority] <= PriorityRank[b.priority]
    BY StepMoves, AssessMonotone
  <2>2. a \in Assessment /\ b \in Assessment  BY AssessType
  <2>3. /\ OverallRisk(a) \in RiskLevel /\ OverallRisk(b) \in RiskLevel
        /\ a.priority \in Priority /\ b.priority \in Priority
    BY <2>2, MaxRiskType DEF Assessment, OverallRisk
  <2>4. /\ Rank[OverallRisk(a)] \in 0..4 /\ Rank[OverallRisk(b)] \in 0..4
        /\ PriorityRank[a.priority] \in 0..4 /\ PriorityRank[b.priority] \in 0..4
    BY <2>3, RankType, PriorityBounds
  <2>5. assessment = a /\ assessment' = b  BY StepMoves
  <2>6. /\ Rank[OverallRisk(b)] >= Rank[OverallRisk(a)]
        /\ PriorityRank[b.priority] >= PriorityRank[a.priority]
    BY <2>1, <2>4
  <2> HIDE DEF a, b
  <2> QED  BY <2>5, <2>6 DEF NeverLessPressing, OverallRisk
<1> QED  BY <1>1, Fresh, PTL DEF Spec, RiskNeverDrops

(***************************************************************************)
(* No certificate expires unannounced                                      *)
(***************************************************************************)

\* A certificate is reported expired only after its date.
LEMMA ExpiredIsPast ==
  ASSUME NEW f, NEW t, HasWeakness(Assess(f, t).reasons, "expired_certificate")
  PROVE  NotAfter(f) # None /\ NotAfter(f) < t
<1>1. PICK r \in ClassicalReasons(f, t) \cup QuantumReasons(f, t) : r.weakness = "expired_certificate"
  BY DEF HasWeakness, Assess
<1>2. r \notin Timeless(f) /\ r \notin QuantumReasons(f, t)
  BY <1>1, TimelessDateless, QuantumReasonsDateless DEF Dateless, Expiry
<1>3. r \in ExpiryReasons(f, t)  BY <1>1, <1>2, ClassicalSplit
<1>4. Reason("expiring_certificate", "medium").weakness # "expired_certificate"  BY DEF Reason
<1> QED  BY <1>1, <1>3, <1>4 DEF ExpiryReasons, NotAfter

\* If it was not expired at the scan before, that scan found it within the
\* warning window.
LEMMA AnnouncedInTime ==
  ASSUME NEW f \in Finding, NEW t \in Int, NEW u \in Int,
         u - t <= (ExpiryWarningDays + 1) * Day,
         NotAfter(f) # None, NotAfter(f) < u
  PROVE  \/ HasWeakness(Assess(f, t).reasons, "expiring_certificate")
         \/ HasWeakness(Assess(f, t).reasons, "expired_certificate")
<1>1. NotAfter(f) \in Int  BY FindingAssumption DEF NotAfter
<1>2. ExpiryReasons(f, t) \in {{Reason("expired_certificate", "high")},
                               {Reason("expiring_certificate", "medium")}}
  <2>1. CASE NotAfter(f) < t  BY <2>1, <1>1 DEF ExpiryReasons, NotAfter
  <2>2. CASE ~(NotAfter(f) < t)
    <3>1. ExpiryWarningDays \in Nat /\ Day \in Nat  BY CalendarAssumption
    <3>2. (ExpiryWarningDays + 1) * Day \in Int  BY <3>1
    <3>3. NotAfter(f) - t < (ExpiryWarningDays + 1) * Day  BY <1>1, <3>2
    <3>4. DaysBetween(t, NotAfter(f)) <= ExpiryWarningDays
      BY <1>1, <3>1, <3>3, DivWithin DEF DaysBetween
    <3> QED  BY <2>2, <3>4 DEF ExpiryReasons, NotAfter
  <2> QED  BY <2>1, <2>2
<1>3. \E r \in ExpiryReasons(f, t) : r.weakness \in {"expired_certificate", "expiring_certificate"}
  <2>1. /\ Reason("expired_certificate", "high").weakness = "expired_certificate"
        /\ Reason("expiring_certificate", "medium").weakness = "expiring_certificate"
    BY DEF Reason
  <2>2. CASE ExpiryReasons(f, t) = {Reason("expired_certificate", "high")}  BY <2>1, <2>2
  <2>3. CASE ExpiryReasons(f, t) = {Reason("expiring_certificate", "medium")}  BY <2>1, <2>3
  <2> QED  BY <1>2, <2>2, <2>3
<1>4. ExpiryReasons(f, t) \subseteq Assess(f, t).reasons  BY ClassicalSplit DEF Assess
<1> QED  BY <1>3, <1>4 DEF HasWeakness

\* Scans close enough together always announce an expiry before it happens.
THEOREM ExpiryIsAnnounced == Spec => ExpiryAnnounced
<1>1. IInv /\ IInv' /\ [Next]_vars => [Announced]_vars
  <2> SUFFICES ASSUME IInv, IInv', [Next]_vars,
                      now' - now <= (ExpiryWarningDays + 1) * Day,
                      HasWeakness(assessment'.reasons, "expired_certificate")
               PROVE  \/ HasWeakness(assessment.reasons, "expiring_certificate")
                      \/ HasWeakness(assessment.reasons, "expired_certificate")
    BY DEF Announced
  <2>1. NotAfter(finding) # None /\ NotAfter(finding) < now'
    BY StepMoves, ExpiredIsPast
  <2> QED  BY <2>1, StepMoves, AnnouncedInTime
<1> QED  BY <1>1, Fresh, PTL DEF Spec, ExpiryAnnounced

(***************************************************************************)
(* A longer key is never assessed worse                                    *)
(***************************************************************************)

OfSize(f, size) == [f EXCEPT !.keySize = size]

\* A finding of an RSA key, of a size that is known and no curve.
OfRsaKey(f) == f.algorithm[1] = "RSA" /\ f.keySize # None /\ f.curve = None

\* What the size leaves alone.
OtherReasons(f, t) ==
  VerificationReasons(f) \cup BrokenReasons(f) \cup ModeReasons(f)
    \cup PaddingReasons(f) \cup ExpiryReasons(f, t)

\* The other fields of a key are those of the key of another size.
LEMMA OtherFields ==
  ASSUME NEW f \in Finding, NEW size
  PROVE  LET g == OfSize(f, size)
         IN /\ g.keySize = size
            /\ g.algorithm = f.algorithm /\ g.purpose = f.purpose /\ g.detector = f.detector
            /\ g.assetType = f.assetType /\ g.primitive = f.primitive /\ g.mode = f.mode
            /\ g.padding = f.padding /\ g.curve = f.curve /\ g.status = f.status
            /\ g.level = f.level /\ g.extra = f.extra
<1>1. {"algorithm", "purpose", "detector", "assetType", "primitive", "mode", "padding",
       "curve", "keySize", "status", "level", "extra"} \subseteq DOMAIN f
  BY FindingAssumption
<1> QED  BY <1>1 DEF OfSize

\* So the size changes nothing but the reason it gives itself.
LEMMA SizeAlone ==
  ASSUME NEW f \in Finding, NEW size, NEW t
  PROVE  /\ OtherReasons(OfSize(f, size), t) = OtherReasons(f, t)
         /\ QuantumReasons(OfSize(f, size), t) = QuantumReasons(f, t)
<1> DEFINE g == OfSize(f, size)
<1>1. /\ g.algorithm = f.algorithm /\ g.purpose = f.purpose /\ g.detector = f.detector
      /\ g.assetType = f.assetType /\ g.primitive = f.primitive /\ g.mode = f.mode
      /\ g.padding = f.padding /\ g.curve = f.curve /\ g.status = f.status
      /\ g.level = f.level /\ g.extra = f.extra
  BY OtherFields
<1> HIDE DEF g
<1>2. Extra(g, "not_after") = Extra(f, "not_after")  BY <1>1 DEF Extra
<1>3. ExpiryReasons(g, t) = ExpiryReasons(f, t) /\ OutlivedDeadline(g, t) = OutlivedDeadline(f, t)
  BY <1>2 DEF ExpiryReasons, OutlivedDeadline
<1>4. Migration(g) = Migration(f)
  BY <1>1 DEF Migration, ShorBreakable, GroverResistant
<1>5. QuantumReasons(g, t) = QuantumReasons(f, t)  BY <1>1, <1>3, <1>4 DEF QuantumReasons
<1>6. IsSecurityCritical(g) <=> IsSecurityCritical(f)  BY <1>1 DEF IsSecurityCritical
<1>7. BrokenReasons(g) = BrokenReasons(f)  BY <1>1, <1>6 DEF BrokenReasons
<1>8. VerificationReasons(g) = VerificationReasons(f) /\ ModeReasons(g) = ModeReasons(f)
      /\ PaddingReasons(g) = PaddingReasons(f)
  BY <1>1 DEF VerificationReasons, ModeReasons, PaddingReasons
<1> QED  BY <1>3, <1>5, <1>7, <1>8 DEF OtherReasons, g

\* The classical reasons are those of the key size and all others.
LEMMA ClassicalOf ==
  \A f, t : ClassicalReasons(f, t) = OtherReasons(f, t) \cup KeySizeReasons(f)
  BY DEF ClassicalReasons, OtherReasons

\* What the size of an RSA key says.
LEMMA SizeSays ==
  ASSUME NEW f, f.algorithm[1] = "RSA", f.curve = None, f.keySize \in Int
  PROVE  /\ f.keySize < 1024 /\ f.keySize # None
              => KeySizeReasons(f) = {Reason("weak_key_size", "critical")}
         /\ f.keySize >= 1024 /\ f.keySize < 2048 /\ f.keySize # None
              => KeySizeReasons(f) = {Reason("weak_key_size", "high")}
         /\ f.keySize >= 2048 \/ f.keySize = None => KeySizeReasons(f) = {}
  BY DEF KeySizeReasons

\* The reason of the longer key is reached by that of the shorter.
LEMMA ShorterIsWeaker ==
  ASSUME NEW f, NEW g, f.algorithm[1] = "RSA", g.algorithm[1] = "RSA",
         f.curve = None, g.curve = None,
         f.keySize \in Int, f.keySize # None, g.keySize \in Int, f.keySize <= g.keySize,
         NEW r \in KeySizeReasons(g)
  PROVE  \E q \in KeySizeReasons(f) : Rank[r.level] <= Rank[q.level]
<1>1. Rank["critical"] = 4 /\ Rank["high"] = 3  BY DEF Rank
<1>2. Reason("weak_key_size", "critical").level = "critical" /\ Reason("weak_key_size", "high").level = "high"
  BY DEF Reason
<1>3. CASE g.keySize < 1024 /\ g.keySize # None
  BY <1>1, <1>2, <1>3, SizeSays
<1>4. CASE g.keySize >= 1024 /\ g.keySize < 2048 /\ g.keySize # None
  BY <1>1, <1>2, <1>4, SizeSays
<1>5. CASE g.keySize >= 2048 \/ g.keySize = None
  BY <1>5, SizeSays
<1> QED  BY <1>3, <1>4, <1>5

\* The assessment of a longer key: the same on the quantum axis, no higher on the
\* classical one.
LEMMA LongerIsNoWorse ==
  ASSUME NEW f \in Finding, OfRsaKey(f), NEW size \in Int, f.keySize <= size, NEW t
  PROVE  LET a == Assess(f, t)
             b == Assess(OfSize(f, size), t)
         IN /\ Rank[OverallRisk(b)] <= Rank[OverallRisk(a)]
            /\ PriorityRank[b.priority] <= PriorityRank[a.priority]
<1> DEFINE g == OfSize(f, size)
           a == Assess(f, t)
           b == Assess(g, t)
           C(h) == Levels(ClassicalReasons(h, t))
           Q(h) == Levels(QuantumReasons(h, t))
<1>1. a \in Assessment /\ b \in Assessment  BY AssessType
<1>2. /\ a.classicalRisk = MaxRisk(C(f)) /\ a.quantumRisk = MaxRisk(Q(f))
      /\ b.classicalRisk = MaxRisk(C(g)) /\ b.quantumRisk = MaxRisk(Q(g))
      /\ a.priority = PriorityOf(a.classicalRisk, QuantumReasons(f, t))
      /\ b.priority = PriorityOf(b.classicalRisk, QuantumReasons(g, t))
  BY DEF Assess
<1>3. C(f) \in SUBSET RiskLevel /\ C(g) \in SUBSET RiskLevel
  BY ReasonsType, LevelsType
<1>4. /\ a.classicalRisk \in RiskLevel /\ a.quantumRisk \in RiskLevel
      /\ b.classicalRisk \in RiskLevel /\ b.quantumRisk \in RiskLevel
  BY <1>1 DEF Assessment
<1>5. QuantumReasons(g, t) = QuantumReasons(f, t) /\ OtherReasons(g, t) = OtherReasons(f, t)
  BY SizeAlone
<1>6. f.keySize \in Int  BY FindingAssumption DEF OfRsaKey
<1>7. g.keySize = size /\ g.algorithm = f.algorithm /\ g.curve = f.curve  BY OtherFields
<1>8. ASSUME NEW r \in ClassicalReasons(g, t)
      PROVE  \E q \in ClassicalReasons(f, t) : Rank[r.level] <= Rank[q.level]
  <2>1. CASE r \in OtherReasons(g, t)
    <3>1. r \in ClassicalReasons(f, t)  BY <2>1, <1>5, ClassicalOf
    <3>2. r.level \in RiskLevel  BY <3>1, ReasonsType DEF AnyReason
    <3> QED  BY <3>1, <3>2, RankType
  <2>2. CASE r \in KeySizeReasons(g)
    <3>1. \E q \in KeySizeReasons(f) : Rank[r.level] <= Rank[q.level]
      BY <2>2, <1>6, <1>7, ShorterIsWeaker DEF OfRsaKey
    <3> QED  BY <3>1, ClassicalOf
  <2> QED  BY <2>1, <2>2, <1>8, ClassicalOf
<1>9. \A l \in C(g) : \E m \in C(f) : Rank[l] <= Rank[m]  BY <1>8 DEF Levels
<1>10. Rank[b.classicalRisk] <= Rank[a.classicalRisk]
  BY <1>2, <1>3, <1>9, MaxRiskMonotone
<1>11. b.quantumRisk = a.quantumRisk /\ Rank[b.quantumRisk] <= Rank[a.quantumRisk]
  BY <1>2, <1>4, <1>5, RankType
<1>12. Rank[OverallRisk(b)] <= Rank[OverallRisk(a)]
  BY <1>1, <1>10, <1>11, OverallMonotone
<1>13. PriorityRank[b.priority] <= PriorityRank[a.priority]
  BY <1>2, <1>4, <1>5, <1>10, PriorityMonotone
<1> QED  BY <1>12, <1>13

\* No other rule speaks of the size of a key.
LEMMA OnlyTheSizeSpeaks ==
  ASSUME NEW f, NEW t
  PROVE  HasWeakness(Assess(f, t).reasons, "weak_key_size")
           <=> HasWeakness(KeySizeReasons(f), "weak_key_size")
<1>1. \A name : \A r \in BrokenAlgorithm(name) : r.weakness # "weak_key_size"
  BY DEF BrokenAlgorithm, Reason
<1>2. \A r \in BrokenReasons(f) : r.weakness # "weak_key_size"
  <2> SUFFICES ASSUME NEW r \in BrokenReasons(f) PROVE r.weakness # "weak_key_size"  OBVIOUS
  <2> DEFINE Found == IF Len(f.algorithm) = 1 THEN BrokenAlgorithm(f.algorithm[1])
                                              ELSE BrokenComposite(f.algorithm)
  <2>1. PICK q \in Found : r = IF q.weakness = "broken_algorithm" /\ IsSecurityCritical(f)
                               THEN Reason(q.weakness, Escalate(q.level)) ELSE q
    BY DEF BrokenReasons
  <2>2. q.weakness # "weak_key_size"  BY <1>1 DEF BrokenComposite
  <2> QED  BY <2>1, <2>2 DEF Reason
<1>3. \A r \in VerificationReasons(f) \cup ModeReasons(f) \cup PaddingReasons(f) : r.weakness # "weak_key_size"
  BY DEF VerificationReasons, ModeReasons, PaddingReasons, Reason
<1>4. \A r \in ExpiryReasons(f, t) : r.weakness # "weak_key_size"
  BY DEF ExpiryReasons, Reason
<1>5. \A r \in OutlivedDeadline(f, t) : r.weakness # "weak_key_size"
  BY DEF OutlivedDeadline, Reason
<1>6. QuantumRisk(f.purpose).weakness # "weak_key_size"  BY DEF QuantumRisk, Reason
<1>7. \A r \in QuantumReasons(f, t) : r.weakness # "weak_key_size"
  BY <1>5, <1>6 DEF QuantumReasons, Reason
<1>8. Assess(f, t).reasons = OtherReasons(f, t) \cup KeySizeReasons(f) \cup QuantumReasons(f, t)
  BY ClassicalOf DEF Assess
<1> QED  BY <1>2, <1>3, <1>4, <1>7, <1>8 DEF HasWeakness, OtherReasons

\* The detectors' table, as far as the engine's thresholds concern it.
LEMMA StrengthFacts ==
  /\ DOMAIN Strength \subseteq Int /\ 1024 \in DOMAIN Strength
  /\ \A size \in DOMAIN Strength : size >= 1024 /\ (Strength[size] < 112 <=> size < 2048)
<1> DEFINE pairs == {<<1024, 80>>, <<2048, 112>>, <<3072, 128>>, <<4096, 152>>, <<7680, 192>>,
                     <<15360, 256>>}
<1>1. Strength = [k \in {p[1] : p \in pairs} |-> (CHOOSE p \in pairs : p[1] = k)[2]]
  BY DEF Strength, Detectors!RsaStrength, Detectors!Dict
<1>2. DOMAIN Strength = {p[1] : p \in pairs}  BY <1>1
<1>3. ASSUME NEW size \in DOMAIN Strength
      PROVE  \E p \in pairs : p[1] = size /\ Strength[size] = p[2]
  <2>1. \E p \in pairs : p[1] = size  BY <1>2
  <2>2. Strength[size] = (CHOOSE p \in pairs : p[1] = size)[2]  BY <1>1, <1>2
  <2> QED  BY <2>1, <2>2
<1>4. \A p \in pairs : p[1] \in Int /\ p[1] >= 1024 /\ (p[2] < 112 <=> p[1] < 2048)  OBVIOUS
<1>5. <<1024, 80>> \in pairs /\ <<1024, 80>>[1] = 1024  OBVIOUS
<1> HIDE DEF pairs
<1> QED  BY <1>2, <1>3, <1>4, <1>5

\* Of an RSA key of known size, weak is what the detectors give less than 112
\* bits, critical what is too short for them.
LEMMA ThresholdsAgree ==
  ASSUME NEW f \in Finding, OfRsaKey(f), NEW t
  PROVE  LET a == Assess(f, t)
         IN /\ f.keySize \in DOMAIN Strength =>
                 (HasWeakness(a.reasons, "weak_key_size") <=> Strength[f.keySize] < 112)
            /\ (\A size \in DOMAIN Strength : f.keySize < size) => a.classicalRisk = "critical"
<1>1. f.keySize \in Int /\ f.keySize # None  BY FindingAssumption DEF OfRsaKey
<1>2. /\ f.keySize < 1024 => KeySizeReasons(f) = {Reason("weak_key_size", "critical")}
      /\ f.keySize >= 1024 /\ f.keySize < 2048 => KeySizeReasons(f) = {Reason("weak_key_size", "high")}
      /\ f.keySize >= 2048 => KeySizeReasons(f) = {}
  BY <1>1, SizeSays DEF OfRsaKey
<1>3. HasWeakness(KeySizeReasons(f), "weak_key_size") <=> f.keySize < 2048
  <2>1. CASE f.keySize < 2048
    <3>1. \E l : KeySizeReasons(f) = {Reason("weak_key_size", l)}  BY <1>1, <1>2, <2>1
    <3> QED  BY <2>1, <3>1 DEF HasWeakness, Reason
  <2>2. CASE f.keySize >= 2048  BY <1>1, <1>2, <2>2 DEF HasWeakness
  <2> QED  BY <1>1, <2>1, <2>2
<1>4. f.keySize < 1024 => Assess(f, t).classicalRisk = "critical"
  <2> SUFFICES ASSUME f.keySize < 1024 PROVE Assess(f, t).classicalRisk = "critical"  OBVIOUS
  <2> DEFINE L == Levels(ClassicalReasons(f, t))
  <2>1. Reason("weak_key_size", "critical") \in ClassicalReasons(f, t)  BY <1>2, ClassicalOf
  <2>2. "critical" \in L  BY <2>1 DEF Levels, Reason
  <2>3. L \in SUBSET RiskLevel  BY ReasonsType, LevelsType
  <2> HIDE DEF L
  <2>4. MaxRisk(L) \in RiskLevel /\ Rank["critical"] <= Rank[MaxRisk(L)]
    BY <2>2, <2>3, MaxRiskOfNonempty
  <2>5. MaxRisk(L) = "critical"  BY <2>4 DEF RiskLevel, Rank
  <2> QED  BY <2>5 DEF L, Assess
<1> QED  BY <1>1, <1>3, <1>4, OnlyTheSizeSpeaks, StrengthFacts

\* Whatever the rest of the finding and the moment of the scan, a longer RSA key
\* is never assessed worse, and the engine and the detectors agree on what is weak.
THEOREM KeysWeighed == Spec => []KeySizesWeighed
<1>1. IInv => KeySizesWeighed
  <2> SUFFICES ASSUME IInv, RsaKey
               PROVE  /\ \A size \in KeySizes : finding.keySize <= size =>
                           /\ Rank[OverallRisk(WithSize(size))] <= Rank[OverallRisk(assessment)]
                           /\ PriorityRank[WithSize(size).priority] <= PriorityRank[assessment.priority]
                      /\ finding.keySize \in DOMAIN Strength =>
                           (HasWeakness(assessment.reasons, "weak_key_size")
                              <=> Strength[finding.keySize] < 112)
                      /\ (\A size \in DOMAIN Strength : finding.keySize < size) =>
                           assessment.classicalRisk = "critical"
    BY DEF KeySizesWeighed
  <2>1. finding \in Finding /\ assessment = Assess(finding, now) /\ OfRsaKey(finding)
    BY DEF IInv, RsaKey, OfRsaKey
  <2>2. KeySizes \subseteq Int  BY FindingAssumption, StrengthFacts DEF KeySizes
  <2>3. \A size : WithSize(size) = Assess(OfSize(finding, size), now)  BY DEF WithSize, OfSize
  <2>4. ASSUME NEW size \in KeySizes, finding.keySize <= size
        PROVE  /\ Rank[OverallRisk(WithSize(size))] <= Rank[OverallRisk(assessment)]
               /\ PriorityRank[WithSize(size).priority] <= PriorityRank[assessment.priority]
    BY <2>1, <2>2, <2>3, <2>4, LongerIsNoWorse
  <2>5. /\ finding.keySize \in DOMAIN Strength =>
             (HasWeakness(assessment.reasons, "weak_key_size") <=> Strength[finding.keySize] < 112)
        /\ (\A size \in DOMAIN Strength : finding.keySize < size) =>
             assessment.classicalRisk = "critical"
    BY <2>1, ThresholdsAgree
  <2> QED  BY <2>4, <2>5
<1> QED  BY <1>1, Fresh, PTL
=============================================================================
