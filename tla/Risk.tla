-------------------------------- MODULE Risk --------------------------------
(***************************************************************************)
(* The risk engine: how bad a finding is today (the classical axis), how   *)
(* bad it will be once a quantum computer exists (the quantum axis), and   *)
(* the priority that follows.  Time is an integer number of ticks, Day of  *)
(* them to a day, so that the whole days the code counts are rounded as    *)
(* the code rounds them.  A reason is a weakness and a level; the sentence *)
(* that explains it is left out.                                           *)
(***************************************************************************)
EXTENDS Model

CONSTANTS
  Day,                  \* ticks in a day
  ExpiryWarningDays,    \* EXPIRY_WARNING_DAYS
  QuantumDeprecation,   \* the tick 2030 begins
  QuantumProhibition    \* the tick 2035 begins

ASSUME CalendarAssumption ==
  /\ Day \in Nat \ {0}
  /\ ExpiryWarningDays \in Nat
  /\ QuantumDeprecation \in Int
  /\ QuantumProhibition \in Int
  /\ QuantumDeprecation <= QuantumProhibition

Priority == {"none", "monitor", "scheduled", "urgent", "immediate"}

PriorityRank == [none |-> 0, monitor |-> 1, scheduled |-> 2, urgent |-> 3,
                 immediate |-> 4]

Weakness == {"verification_disabled", "broken_algorithm", "deprecated_algorithm",
             "no_algorithm", "insecure_mode", "vulnerable_padding", "weak_key_size",
             "weak_curve", "expired_certificate", "expiring_certificate",
             "harvest_now_decrypt_later", "quantum_vulnerable_signature",
             "quantum_vulnerable_unknown_purpose", "unidentified_algorithm",
             "outlives_quantum_deadline"}

Reason(weakness, level) == [weakness |-> weakness, level |-> level]

Levels(reasons) == {r.level : r \in reasons}

(***************************************************************************)
(* Broken today                                                            *)
(***************************************************************************)

DisabledVerification == {"jwt.verification_disabled", "ssl.verification_disabled",
                         "ssl.hostname_check_disabled", "ssl.unverified_context"}

BrokenAlgorithm(name) ==
  CASE name \in {"MD2", "MD4", "DES", "RC4"} -> {Reason("broken_algorithm", "critical")}
    [] name \in {"MD5", "SHA-1", "RC2"}      -> {Reason("broken_algorithm", "high")}
    [] name \in {"RIPEMD-160", "3DES", "Blowfish", "IDEA", "CAST5"}
                                             -> {Reason("deprecated_algorithm", "medium")}
    [] name = "none"                         -> {Reason("no_algorithm", "critical")}
    [] OTHER                                 -> {}

\* A signature inherits the weakness of its hash; a MAC or a KDF does not.
BrokenComposite(algorithm) ==
  IF Len(algorithm) = 2 /\ algorithm[1] \in {"RSA", "ECDSA", "DSA"}
  THEN BrokenAlgorithm(algorithm[2])
  ELSE {}

IsSecurityCritical(f) ==
  \/ f.purpose \in {"digital_signature", "mac", "key_derivation"}
  \/ f.assetType = "certificate"

Escalate(level) ==
  CHOOSE l \in RiskLevel :
    Rank[l] = IF level = "critical" THEN Rank[level] ELSE Rank[level] + 1

BrokenReasons(f) ==
  {IF r.weakness = "broken_algorithm" /\ IsSecurityCritical(f)
   THEN Reason(r.weakness, Escalate(r.level))
   ELSE r : r \in IF Len(f.algorithm) = 1 THEN BrokenAlgorithm(f.algorithm[1])
                                          ELSE BrokenComposite(f.algorithm)}

ModeReasons(f) ==
  IF f.mode = "ecb" THEN {Reason("insecure_mode", "high")} ELSE {}

PaddingReasons(f) ==
  IF f.padding = "pkcs1v15" /\ f.purpose \in {"encryption", "key_establishment"}
  THEN {Reason("vulnerable_padding", "high")} ELSE {}

\* Mutant: a threshold counts as below itself.
MutAtThreshold(f) ==
  IF f.keySize # None /\ f.algorithm[1] = "RSA" /\ f.keySize <= 3072
  THEN IF f.keySize <= 1024 THEN {Reason("weak_key_size", "critical")}
       ELSE IF f.keySize <= 2048 THEN {Reason("weak_key_size", "high")}
       ELSE {}
  ELSE IF f.curve # None /\ f.level # None /\ f.level < 128
  THEN {Reason("weak_curve", "high")}
  ELSE {}

\* RSA of 2048 up to 3071 bits returns early, before the curve is looked at.
KeySizeReasons(f) ==
  IF f.keySize # None /\ f.algorithm[1] = "RSA" /\ f.keySize < 3072
  THEN IF f.keySize < 1024 THEN {Reason("weak_key_size", "critical")}
       ELSE IF f.keySize < 2048 THEN {Reason("weak_key_size", "high")}
       ELSE {}
  ELSE IF f.curve # None /\ f.level # None /\ f.level < 128
  THEN {Reason("weak_curve", "high")}
  ELSE {}

\* timedelta.days: whole days, rounded down.
DaysBetween(from, to) == (to - from) \div Day

\* Mutants: the last day of the warning window is missed; an expired certificate
\* is no longer reported at all.
MutWarnTooLate(f, now) ==
  LET notAfter == Extra(f, "not_after") IN
  IF notAfter = None THEN {}
  ELSE IF notAfter < now THEN {Reason("expired_certificate", "high")}
  ELSE IF DaysBetween(now, notAfter) < ExpiryWarningDays
  THEN {Reason("expiring_certificate", "medium")}
  ELSE {}

MutExpiredForgotten(f, now) ==
  LET notAfter == Extra(f, "not_after") IN
  IF notAfter = None \/ notAfter < now THEN {}
  ELSE IF DaysBetween(now, notAfter) <= ExpiryWarningDays
  THEN {Reason("expiring_certificate", "medium")}
  ELSE {}

ExpiryReasons(f, now) ==
  LET notAfter == Extra(f, "not_after") IN
  IF notAfter = None THEN {}
  ELSE IF notAfter < now THEN {Reason("expired_certificate", "high")}
  ELSE IF DaysBetween(now, notAfter) <= ExpiryWarningDays
  THEN {Reason("expiring_certificate", "medium")}
  ELSE {}

VerificationReasons(f) ==
  IF f.detector \in DisabledVerification
  THEN {Reason("verification_disabled", "critical")} ELSE {}

ClassicalReasons(f, now) ==
  VerificationReasons(f) \cup BrokenReasons(f) \cup ModeReasons(f)
    \cup PaddingReasons(f) \cup KeySizeReasons(f) \cup ExpiryReasons(f, now)

(***************************************************************************)
(* Quantum exposure                                                        *)
(***************************************************************************)

QuantumRisk(purpose) ==
  CASE purpose \in {"key_establishment", "encryption"}
         -> Reason("harvest_now_decrypt_later", "high")
    [] purpose = "digital_signature"
         -> Reason("quantum_vulnerable_signature", "medium")
    [] OTHER
         -> Reason("quantum_vulnerable_unknown_purpose", "medium")

\* An expired certificate outlives nothing.
OutlivedDeadline(f, now) ==
  LET notAfter == Extra(f, "not_after") IN
  IF notAfter = None \/ notAfter < now THEN {}
  ELSE IF notAfter >= QuantumProhibition
  THEN {Reason("outlives_quantum_deadline", "high")}
  ELSE IF notAfter >= QuantumDeprecation
  THEN {Reason("outlives_quantum_deadline", "medium")}
  ELSE {}

QuantumReasons(f, now) ==
  CASE Migration(f) = "needs_review"       -> {Reason("unidentified_algorithm", "low")}
    [] Migration(f) = "quantum_vulnerable" -> {QuantumRisk(f.purpose)} \cup OutlivedDeadline(f, now)
    [] OTHER                               -> {}

(***************************************************************************)
(* Priority and the assessment                                             *)
(***************************************************************************)

HasWeakness(reasons, weakness) == \E r \in reasons : r.weakness = weakness

\* Mutant: any certificate that outlives a deadline is treated alike.
MutOneDeadline(classicalRisk, quantum) ==
  IF AtLeast(classicalRisk, "high") THEN "immediate"
  ELSE IF \E r \in quantum : r.level = "high" THEN "urgent"
  ELSE IF HasWeakness(quantum, "outlives_quantum_deadline") THEN "urgent"
  ELSE IF HasWeakness(quantum, "quantum_vulnerable_unknown_purpose") THEN "urgent"
  ELSE IF HasWeakness(quantum, "quantum_vulnerable_signature") THEN "scheduled"
  ELSE IF HasWeakness(quantum, "unidentified_algorithm") THEN "monitor"
  ELSE IF AtLeast(classicalRisk, "low") THEN "monitor"
  ELSE "none"

PriorityOf(classicalRisk, quantum) ==
  IF AtLeast(classicalRisk, "high") THEN "immediate"
  ELSE IF HasWeakness(quantum, "outlives_quantum_deadline")
  THEN IF Reason("outlives_quantum_deadline", "high") \in quantum
       THEN "immediate" ELSE "urgent"
  ELSE IF HasWeakness(quantum, "harvest_now_decrypt_later") THEN "urgent"
  ELSE IF HasWeakness(quantum, "quantum_vulnerable_unknown_purpose") THEN "urgent"
  ELSE IF HasWeakness(quantum, "quantum_vulnerable_signature") THEN "scheduled"
  ELSE IF HasWeakness(quantum, "unidentified_algorithm") THEN "monitor"
  ELSE IF AtLeast(classicalRisk, "low") THEN "monitor"
  ELSE "none"

\* Mutant: the maximum of no levels has no default.
MutNoDefault(f, now) ==
  LET classical == ClassicalReasons(f, now)
      quantum   == QuantumReasons(f, now)
  IN [classicalRisk |-> MaxRisk(Levels(classical)),
      quantumRisk   |-> IF quantum = {} THEN None ELSE MaxRisk(Levels(quantum)),
      priority      |-> PriorityOf(MaxRisk(Levels(classical)), quantum),
      reasons       |-> classical \cup quantum]

Assess(f, now) ==
  LET classical == ClassicalReasons(f, now)
      quantum   == QuantumReasons(f, now)
  IN [classicalRisk |-> MaxRisk(Levels(classical)),
      quantumRisk   |-> MaxRisk(Levels(quantum)),
      priority      |-> PriorityOf(MaxRisk(Levels(classical)), quantum),
      reasons       |-> classical \cup quantum]

OverallRisk(assessment) == MaxRisk({assessment.classicalRisk, assessment.quantumRisk})

Assessment == [classicalRisk : RiskLevel, quantumRisk : RiskLevel,
               priority : Priority, reasons : SUBSET [weakness : Weakness, level : RiskLevel]]
=============================================================================
