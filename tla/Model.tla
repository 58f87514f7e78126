------------------------------- MODULE Model -------------------------------
(***************************************************************************)
(* The vocabulary every stage of a scan shares: risk levels and their      *)
(* order, what a finding's fields say about its migration to post-quantum  *)
(* cryptography, and the identifier a finding is filed under.              *)
(*                                                                         *)
(* A finding is a record.  Its enumerations are the strings of the code;   *)
(* an algorithm name is the tuple of its parts (<<"RSA", "SHA-1">> for     *)
(* RSA-SHA-1, <<"SHA-1">> for the hash alone); a file is a number, in the  *)
(* order its path sorts; extra is the function of the metadata known.      *)
(***************************************************************************)
EXTENDS Python, Integers, Sequences

\* The fields of new, and what old has besides them.
new ++ old ==
  [k \in DOMAIN new \cup DOMAIN old |-> IF k \in DOMAIN new THEN new[k] ELSE old[k]]

\* A dict of the pairs <<key, value>>.
Dict(pairs) == [k \in {p[1] : p \in pairs} |-> (CHOOSE p \in pairs : p[1] = k)[2]]

RiskLevel == {"info", "low", "medium", "high", "critical"}

Rank == [info |-> 0, low |-> 1, medium |-> 2, high |-> 3, critical |-> 4]

MaxRisk(levels) ==
  IF levels = {} THEN "info"
  ELSE CHOOSE l \in levels : \A m \in levels : Rank[m] <= Rank[l]

AtLeast(level, threshold) == Rank[level] >= Rank[threshold]

Purpose == {"encryption", "key_establishment", "digital_signature", "hashing",
            "mac", "key_derivation", "random", "unknown"}

(***************************************************************************)
(* Migration to post-quantum cryptography                                  *)
(***************************************************************************)

ShorBreakablePrimitives == {"pke", "kem", "key-agree", "signature"}

ShorBreakablePurposes == {"key_establishment", "digital_signature"}

GroverOnlyPrimitives == {"ae", "block-cipher", "stream-cipher", "mac", "kdf",
                         "key-wrap", "hash", "xof", "drbg"}

SymmetricSecurityFloor == 128

MigrationStatus == {"quantum_vulnerable", "quantum_safe", "needs_review",
                    "not_applicable"}

ShorBreakable(f) ==
  \/ f.primitive \in ShorBreakablePrimitives
  \/ f.purpose \in ShorBreakablePurposes
  \/ f.curve # None

GroverResistant(f) ==
  /\ f.primitive \in GroverOnlyPrimitives
  /\ f.level # None
  /\ f.level >= SymmetricSecurityFloor

\* The branches are tried in this order: a level of 0 ("none", verification
\* switched off) is settled before the status, and an unknown status before
\* anything the primitive could say.
Migration(f) ==
  IF f.level = 0 THEN "not_applicable"
  ELSE IF f.status \in {"pqc", "hybrid"} THEN "quantum_safe"
  ELSE IF f.status = "unknown" THEN "needs_review"
  ELSE IF ShorBreakable(f) THEN "quantum_vulnerable"
  ELSE IF GroverResistant(f) THEN "quantum_safe"
  ELSE "needs_review"

(***************************************************************************)
(* The identifier.  The code hashes these five fields; the model takes the *)
(* hash to be injective on them.  Neither the column nor the key size nor  *)
(* the certificate's subject is among them.                                *)
(***************************************************************************)
FindingId(f) == <<f.file, f.line, f.algorithm, f.purpose, f.detector>>

Extra(f, name) == IF name \in DOMAIN f.extra THEN f.extra[name] ELSE None
=============================================================================
