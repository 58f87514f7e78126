------------------------------ MODULE Aggregate ------------------------------
(***************************************************************************)
(* Deduplication: the fold of the findings of a scan into crypto assets,   *)
(* and the sort that ends it.  Findings that agree on the key are one      *)
(* asset in several places; the first finding of a key creates the asset   *)
(* and the later ones fill in what is still unknown.                       *)
(*                                                                         *)
(* assets is the dict of the code: a function from the keys met so far.    *)
(* A list without duplicates (crypto_functions, sorted at the end) is a    *)
(* set.  The order of the list that aggregate returns is left out: it is   *)
(* a sort by values no other stage looks at.                               *)
(***************************************************************************)
EXTENDS Model, SequencesExt

CONSTANTS
  Finding,        \* the findings that may be aggregated
  MaxFindings,    \* how many of them, at most (bounds the model)
  Canonical(_)    \* normalize_algorithm

ASSUME MaxFindingsAssumption == MaxFindings \in Nat

\* The parser and the rules put in extra what they know and nothing else.
ASSUME ExtraAssumption ==
  \A f \in Finding : \A name \in DOMAIN f.extra : f.extra[name] # None

VARIABLES
  findings,   \* the sequence of findings to aggregate
  next,       \* the position of the next one
  assets,     \* key -> asset
  sorted      \* the keys of the assets already sorted

vars == <<findings, next, assets, sorted>>

-----------------------------------------------------------------------------
(***************************************************************************)
(* The key                                                                 *)
(***************************************************************************)

\* Algorithms are classes; certificates and keys are instances.  subject stands
\* for the subject, issuer and serial number of the certificate.
Identity(f) ==
  CASE f.assetType = "certificate" -> <<Extra(f, "subject")>>
    [] f.assetType = "related-crypto-material" -> <<f.file, Extra(f, "artifact")>>
    [] OTHER -> <<>>

AssetKey(f) ==
  [assetType    |-> f.assetType,
   algorithm    |-> Canonical(f.algorithm),
   primitive    |-> f.primitive,
   mode         |-> f.mode,
   padding      |-> f.padding,
   parameterSet |-> IF f.parameterSet # None THEN f.parameterSet ELSE f.curve,
   keySize      |-> f.keySize,
   purpose      |-> f.purpose,
   oid          |-> f.oid,
   identity     |-> Identity(f)]

(***************************************************************************)
(* The asset                                                               *)
(***************************************************************************)

OccurrenceOf(f) ==
  [file |-> f.file, line |-> f.line, confidence |-> f.confidence,
   id |-> FindingId(f), detector |-> f.detector]

NewAsset(f) ==
  [status |-> f.status, curve |-> f.curve, level |-> f.level, details |-> f.extra,
   functions |-> {}, occurrences |-> <<>>]

\* What is known stays; what is not is taken from the finding.  Mutant: the
\* last finding wins.
MutLastWins(asset, f) ==
  [asset EXCEPT
     !.status  = f.status,
     !.curve   = IF asset.curve = None THEN f.curve ELSE @,
     !.level   = IF asset.level = None THEN f.level ELSE @,
     !.details = [n \in DOMAIN asset.details \cup DOMAIN f.extra |->
                    IF n \in DOMAIN f.extra THEN f.extra[n] ELSE asset.details[n]]]

Merge(asset, f) ==
  [asset EXCEPT
     !.status  = IF asset.status = "unknown" THEN f.status ELSE @,
     !.curve   = IF asset.curve = None THEN f.curve ELSE @,
     !.level   = IF asset.level = None THEN f.level ELSE @,
     !.details = [n \in DOMAIN asset.details \cup DOMAIN f.extra |->
                    IF n \in DOMAIN asset.details THEN asset.details[n] ELSE f.extra[n]]]

\* What every finding adds, the first included.  Mutant: a finding at a place
\* already recorded is taken for a duplicate.
MutSkipSamePlace(asset, f) ==
  [asset EXCEPT !.occurrences = IF \E i \in DOMAIN @ : @[i].file = f.file /\ @[i].line = f.line
                                THEN @ ELSE Append(@, OccurrenceOf(f)),
                !.functions   = @ \cup f.functions]

Record(asset, f) ==
  [asset EXCEPT !.occurrences = Append(@, OccurrenceOf(f)),
                !.functions   = @ \cup f.functions]

\* Mutants: the finding that creates an asset is not recorded on it; every
\* finding creates the asset anew.
MutFirstUnrecorded(f) ==
  LET k == AssetKey(f)
  IN IF k \in DOMAIN assets THEN Record(Merge(assets[k], f), f) ELSE NewAsset(f)

MutAlwaysNew(f) == Record(NewAsset(f), f)

AssetAfter(f) ==
  LET k == AssetKey(f)
  IN Record(IF k \in DOMAIN assets THEN Merge(assets[k], f) ELSE NewAsset(f), f)

(***************************************************************************)
(* The final sort of an asset's occurrences, by file and line.  Python's   *)
(* sort is stable: equal places keep the order the findings came in.       *)
(***************************************************************************)

Before(o1, o2) == o1.file < o2.file \/ (o1.file = o2.file /\ o1.line < o2.line)

\* p, a permutation of the positions of s, sorts s stably.  Mutant: ties are
\* left in any order.
MutSortsUnstably(p, s) ==
  /\ \A i, j \in DOMAIN s : p[i] = p[j] => i = j
  /\ \A i, j \in DOMAIN s : i < j => ~Before(s[p[j]], s[p[i]])

SortsStably(p, s) ==
  /\ \A i, j \in DOMAIN s : p[i] = p[j] => i = j
  /\ \A i, j \in DOMAIN s : i < j =>
       \/ Before(s[p[i]], s[p[j]])
       \/ (~Before(s[p[j]], s[p[i]]) /\ p[i] < p[j])

Rearranged(s, p) == [i \in DOMAIN s |-> s[p[i]]]

-----------------------------------------------------------------------------
Init ==
  /\ \E n \in 0..MaxFindings : findings \in [1..n -> Finding]
  /\ next = 1
  /\ assets = <<>>
  /\ sorted = {}

\* One turn of the loop over the findings.
Collect ==
  /\ next <= Len(findings)
  /\ LET f == findings[next]
         a == AssetAfter(f)
     IN assets' = [k \in DOMAIN assets \cup {AssetKey(f)} |->
                     IF k = AssetKey(f) THEN a ELSE assets[k]]
  /\ next' = next + 1
  /\ UNCHANGED <<findings, sorted>>

\* One turn of the loop over the assets.
SortAsset(k) ==
  /\ next > Len(findings)
  /\ k \notin sorted
  /\ LET s == assets[k].occurrences
     IN \E p \in [DOMAIN s -> DOMAIN s] :
          /\ SortsStably(p, s)
          /\ assets' = [assets EXCEPT ![k].occurrences = Rearranged(s, p)]
  /\ sorted' = sorted \cup {k}
  /\ UNCHANGED <<findings, next>>

Next == Collect \/ \E k \in DOMAIN assets : SortAsset(k)

Spec == Init /\ [][Next]_vars

Returned == next > Len(findings) /\ sorted = DOMAIN assets

-----------------------------------------------------------------------------
(***************************************************************************)
(* What the fold must satisfy                                              *)
(***************************************************************************)

Key == {AssetKey(f) : f \in Finding}

Occurrence == {OccurrenceOf(f) : f \in Finding}

\* The shape of the dict: every key is the key of some finding and every asset
\* has at least one occurrence (aggregate.py, aggregate).
TypeOK ==
  /\ \E n \in 0..MaxFindings : findings \in [1..n -> Finding]
  /\ next \in 1..(Len(findings) + 1)
  /\ DOMAIN assets \subseteq Key
  /\ \A k \in DOMAIN assets : assets[k].occurrences \in Seq(Occurrence) \ {<<>>}
  /\ sorted \subseteq DOMAIN assets

\* The positions of the findings met so far whose key is k.
Arrived(k) == {n \in 1..(next - 1) : AssetKey(findings[n]) = k}

\* pos tells, for each occurrence of the asset k, the finding it records.
Records(k, pos) ==
  LET occ == assets[k].occurrences IN
  /\ pos \in [DOMAIN occ -> Arrived(k)]
  /\ \A i, j \in DOMAIN occ : pos[i] = pos[j] => i = j
  /\ \A n \in Arrived(k) : \E i \in DOMAIN occ : pos[i] = n
  /\ \A i \in DOMAIN occ : occ[i] = OccurrenceOf(findings[pos[i]])

\* One occurrence per finding, no more and no fewer, on the asset of its key
\* and on no other, in the middle of the fold and of the sort as at the end
\* (test_cbom_aggregate.py, test_occurrences_are_never_lost).
OneOccurrencePerFinding ==
  /\ \A n \in 1..(next - 1) : AssetKey(findings[n]) \in DOMAIN assets
  /\ \A k \in DOMAIN assets : \E pos \in [DOMAIN assets[k].occurrences -> Arrived(k)] :
                               Records(k, pos)

\* The occurrences of k are where they should be: as the findings came until k
\* is sorted, then by place with ties as the findings came.
InOrder(k, pos) ==
  LET occ == assets[k].occurrences IN
  \A i, j \in DOMAIN occ : i < j =>
    IF k \in sorted THEN \/ Before(occ[i], occ[j])
                        \/ (~Before(occ[j], occ[i]) /\ pos[i] < pos[j])
    ELSE pos[i] < pos[j]

\* Occurrences keep the order of the findings until their asset is sorted, and
\* are then in the order of their places with ties in the order of the findings:
\* the report lists them this way (aggregate.py, the sort of the occurrences).
OccurrencesInOrder ==
  \A k \in DOMAIN assets : \E pos \in [DOMAIN assets[k].occurrences -> Arrived(k)] :
                            Records(k, pos) /\ InOrder(k, pos)

\* v is what the first finding of positions ns to know the fact says of it.
FirstKnown(v, ns, fact(_), unknown) ==
  LET known == {n \in ns : fact(findings[n]) # unknown} IN
  IF known = {} THEN v = unknown
  ELSE \E n \in known : (\A m \in known : n <= m) /\ v = fact(findings[n])

\* The asset a of the findings at positions ns, fact by fact.
BelievesFirst(a, ns) ==
  /\ FirstKnown(a.status, ns, LAMBDA f : f.status, "unknown")
  /\ FirstKnown(a.curve, ns, LAMBDA f : f.curve, None)
  /\ FirstKnown(a.level, ns, LAMBDA f : f.level, None)
  /\ DOMAIN a.details = UNION {DOMAIN findings[n].extra : n \in ns}
  /\ \A name \in DOMAIN a.details :
       FirstKnown(a.details[name], ns, LAMBDA f : Extra(f, name), None)

\* What an asset says of itself is what the first of its findings that knew it
\* said, fact by fact; a fact is missing only if none of them knew it
\* (aggregate.py, _merge).
FirstKnownWins == \A k \in DOMAIN assets : BelievesFirst(assets[k], Arrived(k))

(***************************************************************************)
(* The fold files every finding once, whatever the order: Collect is a     *)
(* File step and the sort is invisible.                                    *)
(***************************************************************************)
Waiting == [f \in Finding |-> Cardinality({n \in next..Len(findings) : findings[n] = f})]

Entries == [k \in DOMAIN assets |-> ToBag(assets[k].occurrences)]

I == INSTANCE Inventory WITH
       KeyOf <- AssetKey, EntryOf <- OccurrenceOf, waiting <- Waiting, filed <- Entries

\* Deduplication implements the inventory: no interleaving of the two loops
\* loses, invents or moves an occurrence (aggregate.py, aggregate).
ImplementsInventory == I!Spec
=============================================================================
