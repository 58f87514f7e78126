---------------------------- MODULE RiskOverTime ----------------------------
(***************************************************************************)
(* One finding in a project nobody touches, assessed again and again as    *)
(* the calendar moves: every scan calls assess with the moment it runs at, *)
(* and nothing but that moment differs between two scans.                  *)
(***************************************************************************)
EXTENDS Risk

CONSTANTS
  Finding,    \* the findings the project may hold
  MaxGap,     \* the longest time between two scans
  Horizon     \* the last moment considered (bounds the model)

ASSUME RescanAssumption ==
  /\ MaxGap \in Nat
  /\ Horizon \in Nat

\* A finding has the fields that the engine reads; one that expires says when, in
\* ticks, and the size of a key is a number where it is known.
ASSUME FindingAssumption ==
  \A f \in Finding :
    /\ {"algorithm", "purpose", "detector", "assetType", "primitive", "mode", "padding",
        "curve", "keySize", "status", "level", "extra"} \subseteq DOMAIN f
    /\ f.keySize \in Int \cup {None}
    /\ Extra(f, "not_after") \in Int \cup {None}

VARIABLES
  finding,      \* the finding, as every scan detects it
  now,          \* the moment of the last scan
  assessment    \* what the last scan said of it

vars == <<finding, now, assessment>>

Init ==
  /\ finding \in Finding
  /\ now = 0
  /\ assessment = Assess(finding, now)

Rescan(gap) ==
  /\ now + gap <= Horizon
  /\ now' = now + gap
  /\ assessment' = Assess(finding, now')
  /\ UNCHANGED finding

Next == \E gap \in 1..MaxGap : Rescan(gap)

Spec == Init /\ [][Next]_vars

-----------------------------------------------------------------------------
(***************************************************************************)
(* What the assessments must satisfy                                       *)
(***************************************************************************)

\* Every assessment is complete: both axes have a level and the priority is
\* one of the five, whatever reasons were or were not found (engine.py, assess).
TypeOK ==
  /\ finding \in Finding
  /\ now \in 0..Horizon
  /\ assessment \in Assessment

Vulnerable == Migration(finding) = "quantum_vulnerable"

ValidPast(deadline) ==
  LET notAfter == Extra(finding, "not_after")
  IN notAfter # None /\ notAfter >= now /\ notAfter >= deadline

BrokenToday == AtLeast(assessment.classicalRisk, "high")

\* The priority follows from the facts of the finding and not from the order
\* the reasons were tried in: immediate for what is broken today or is valid
\* past the 2035 prohibition, urgent for what can be recorded now or outlives
\* 2030, scheduled for the signatures that can wait (engine.py, _priority).
UrgencyFollowsExposure ==
  LET p == assessment.priority
      immediate == BrokenToday \/ (Vulnerable /\ ValidPast(QuantumProhibition))
      pressing  == Vulnerable /\ (finding.purpose # "digital_signature" \/ ValidPast(QuantumDeprecation))
  IN /\ p = "immediate" <=> immediate
     /\ p = "urgent"    <=> ~immediate /\ pressing
     /\ p = "scheduled" <=> ~immediate /\ ~pressing /\ Vulnerable

\* The strengths that the detectors give to RSA keys, by size.
Detectors == INSTANCE Rules

Strength == Detectors!RsaStrength

KeySizes == DOMAIN Strength \cup ({f.keySize : f \in Finding} \ {None})

\* An RSA key of known size; no finding of one has a curve.
RsaKey == finding.algorithm[1] = "RSA" /\ finding.keySize # None /\ finding.curve = None

\* The assessment of the same key, were it of another size.
WithSize(size) == Assess([finding EXCEPT !.keySize = size], now)

\* A longer RSA key is never assessed worse, whatever else is wrong with it, and
\* two tables that know nothing of each other agree: the engine calls a key weak
\* exactly if the detectors give it less than 112 bits, and critical if it is too
\* short for them to know (risk/rules.py, RSA_KEY_SIZE_THRESHOLDS, "RSA-2048 gives
\* 112-bit classical security"; detectors/rules.py, RSA_STRENGTH).
KeySizesWeighed ==
  RsaKey =>
    /\ \A size \in KeySizes : finding.keySize <= size =>
         /\ Rank[OverallRisk(WithSize(size))] <= Rank[OverallRisk(assessment)]
         /\ PriorityRank[WithSize(size).priority] <= PriorityRank[assessment.priority]
    /\ finding.keySize \in DOMAIN Strength =>
         (HasWeakness(assessment.reasons, "weak_key_size") <=> Strength[finding.keySize] < 112)
    /\ (\A size \in DOMAIN Strength : finding.keySize < size) =>
         assessment.classicalRisk = "critical"

\* Time only makes a finding worse: from one scan to a later one neither the
\* overall risk nor the priority of an unchanged finding drops, although the
\* expiry of a certificate withdraws its quantum deadline.
NeverLessPressing ==
  /\ Rank[OverallRisk(assessment')] >= Rank[OverallRisk(assessment)]
  /\ PriorityRank[assessment'.priority] >= PriorityRank[assessment.priority]

RiskNeverDrops == [][NeverLessPressing]_vars

\* No certificate expires unannounced: if two scans are at most
\* ExpiryWarningDays + 1 days apart and the later one calls the certificate
\* expired, the earlier one already called it expiring (or expired).
Announced ==
  /\ now' - now <= (ExpiryWarningDays + 1) * Day
  /\ HasWeakness(assessment'.reasons, "expired_certificate")
  => \/ HasWeakness(assessment.reasons, "expiring_certificate")
     \/ HasWeakness(assessment.reasons, "expired_certificate")

ExpiryAnnounced == [][Announced]_vars
=============================================================================
