--------------------------------- MODULE Pqc ---------------------------------
(***************************************************************************)
(* Post-quantum recommendations: the catalogue of mechanisms, the ladders  *)
(* they form, and what is recommended in place of a finding.  The text of  *)
(* a rationale and the standards' names are left out.                      *)
(***************************************************************************)
EXTENDS Model

Kem(name, category, level) ==
  [name |-> name, purpose |-> "key_establishment", primitive |-> "kem",
   category |-> category, level |-> level]
Signature(name, category, level) ==
  [name |-> name, purpose |-> "digital_signature", primitive |-> "signature",
   category |-> category, level |-> level]

KeyEstablishmentLadder ==
  <<Kem("ML-KEM-512", 1, 128), Kem("ML-KEM-768", 3, 192), Kem("ML-KEM-1024", 5, 256)>>
BackupKemLadder == <<Kem("HQC-128", 1, 128), Kem("HQC-192", 3, 192), Kem("HQC-256", 5, 256)>>
SignatureLadder ==
  <<Signature("ML-DSA-44", 2, 128), Signature("ML-DSA-65", 3, 192),
    Signature("ML-DSA-87", 5, 256)>>
ConservativeLadder ==
  <<Signature("SLH-DSA-SHA2-128s", 1, 128), Signature("SLH-DSA-SHA2-192s", 3, 192),
    Signature("SLH-DSA-SHA2-256s", 5, 256)>>
CompactLadder == <<Signature("FN-DSA-512", 1, 128), Signature("FN-DSA-1024", 5, 256)>>

AllLadders ==
  {KeyEstablishmentLadder, BackupKemLadder, SignatureLadder, ConservativeLadder, CompactLadder}

\* None is no advice.
ASSUME AdviceAssumption ==
  LET Mechanism == UNION {{ladder[i] : i \in DOMAIN ladder} : ladder \in AllLadders}
  IN \A n \in 1..3 : \A advice \in [1..n -> Mechanism] : advice # None

MinimumClassicalStrength == 192

\* The first rung strong enough, or the last one.
Climb(ladder, target) ==
  LET enough == {i \in DOMAIN ladder : ladder[i].level >= target} IN
  IF enough = {} THEN ladder[Len(ladder)]
  ELSE ladder[CHOOSE i \in enough : \A j \in enough : i <= j]

TargetStrength(f) ==
  IF f.level # None /\ f.level > MinimumClassicalStrength THEN f.level
  ELSE MinimumClassicalStrength

\* Mutant: RSA is replaced by ML-KEM, whatever it is for.
MutOneLadder(purpose) == <<KeyEstablishmentLadder, BackupKemLadder>>

Ladders(purpose) ==
  CASE purpose = "key_establishment" -> <<KeyEstablishmentLadder, BackupKemLadder>>
    [] purpose = "digital_signature" -> <<SignatureLadder, ConservativeLadder, CompactLadder>>
    [] purpose = "encryption"        -> <<KeyEstablishmentLadder>>
    [] OTHER                         -> <<KeyEstablishmentLadder, SignatureLadder>>

\* The mechanisms recommended in place of f, None if nothing has to be replaced.
Recommend(f) ==
  IF Migration(f) # "quantum_vulnerable" THEN None
  ELSE [i \in DOMAIN Ladders(f.purpose) |-> Climb(Ladders(f.purpose)[i], TargetStrength(f))]

\* Recommendations for different purposes are for the reader to choose from.
Ambiguous(mechanisms) ==
  \E i, j \in DOMAIN mechanisms : mechanisms[i].purpose # mechanisms[j].purpose

Primary(mechanisms) == IF Ambiguous(mechanisms) THEN None ELSE mechanisms[1]
=============================================================================
