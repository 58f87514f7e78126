--------------------------- MODULE AggregateProofs ---------------------------
(***************************************************************************)
(* Theorems about deduplication, for every set of findings, every way to   *)
(* normalise a name and every number of findings.                          *)
(***************************************************************************)
EXTENDS Aggregate, Lemmas, FunctionTheorems

(***************************************************************************)
(* Sequences                                                               *)
(***************************************************************************)

\* Appending keeps what was there and adds one element at the end.
LEMMA Extended ==
  ASSUME NEW S, NEW s \in Seq(S), NEW e \in S
  PROVE  /\ Append(s, e) \in Seq(S) \ {<<>>}
         /\ DOMAIN s = 1..Len(s) /\ Len(s) \in Nat
         /\ DOMAIN Append(s, e) = 1..(Len(s) + 1)
         /\ Append(s, e)[Len(s) + 1] = e
         /\ \A i \in 1..Len(s) : Append(s, e)[i] = s[i]
  OBVIOUS

\* A sequence rearranged has the same positions, each with an old element.
LEMMA Permuted ==
  ASSUME NEW S, NEW s \in Seq(S) \ {<<>>}, NEW p \in [DOMAIN s -> DOMAIN s]
  PROVE  /\ Rearranged(s, p) \in Seq(S) \ {<<>>}
         /\ DOMAIN Rearranged(s, p) = DOMAIN s
         /\ \A i \in DOMAIN s : Rearranged(s, p)[i] = s[p[i]]
<1>1. DOMAIN s = 1..Len(s) /\ Len(s) \in Nat /\ Len(s) # 0  OBVIOUS
<1>2. \A i \in DOMAIN s : s[p[i]] \in S  BY <1>1
<1>3. Rearranged(s, p) \in [1..Len(s) -> S]  BY <1>1, <1>2 DEF Rearranged
<1>4. Rearranged(s, p) \in Seq(S)  BY <1>1, <1>3
<1>5. Rearranged(s, p) # <<>>  BY <1>1 DEF Rearranged
<1> QED  BY <1>4, <1>5 DEF Rearranged

\* A one-to-one map of the positions of a sequence to themselves misses none.
LEMMA Onto ==
  ASSUME NEW n \in Nat, NEW p \in [1..n -> 1..n], \A i, j \in 1..n : p[i] = p[j] => i = j
  PROVE  \A m \in 1..n : \E i \in 1..n : p[i] = m
<1>1. p \in Injection(1..n, 1..n)  BY DEF Injection, IsInjective
<1>2. IsFiniteSet(1..n)  BY FS_Interval
<1>3. p \in Surjection(1..n, 1..n)  BY <1>1, <1>2, FS_Injection
<1> QED  BY <1>3 DEF Surjection

(***************************************************************************)
(* Which finding each occurrence records.  Recorded is Records, Ascending  *)
(* and ByPlace are the two cases of InOrder, as relations between values,  *)
(* so that what a step does to them can be said of the values alone.       *)
(***************************************************************************)

Recorded(fs, occ, A, pos) ==
  /\ pos \in [DOMAIN occ -> A]
  /\ \A i, j \in DOMAIN occ : pos[i] = pos[j] => i = j
  /\ \A n \in A : \E i \in DOMAIN occ : pos[i] = n
  /\ \A i \in DOMAIN occ : occ[i] = OccurrenceOf(fs[pos[i]])

Ascending(occ, pos) == \A i, j \in DOMAIN occ : i < j => pos[i] < pos[j]

ByPlace(occ, pos) ==
  \A i, j \in DOMAIN occ : i < j =>
    \/ Before(occ[i], occ[j])
    \/ (~Before(occ[j], occ[i]) /\ pos[i] < pos[j])

\* Records speaks of the variables; Recorded says the same of any values.
LEMMA RecordedIsRecords ==
  \A k, pos : Records(k, pos) <=> Recorded(findings, assets[k].occurrences, Arrived(k), pos)
  BY DEF Records, Recorded

\* Likewise for the order of the occurrences.
LEMMA InOrderIsKept ==
  \A k, pos : InOrder(k, pos) <=> IF k \in sorted THEN ByPlace(assets[k].occurrences, pos)
                                  ELSE Ascending(assets[k].occurrences, pos)
  BY DEF InOrder, ByPlace, Ascending

\* Appending the occurrence of a later finding.
LEMMA RecordedAppend ==
  ASSUME NEW fs, NEW occ \in Seq(Occurrence), NEW A \in SUBSET Nat, NEW n \in Nat,
         \A m \in A : m < n, OccurrenceOf(fs[n]) \in Occurrence,
         NEW pos, Recorded(fs, occ, A, pos), Ascending(occ, pos)
  PROVE  LET q == [i \in 1..(Len(occ) + 1) |-> IF i = Len(occ) + 1 THEN n ELSE pos[i]]
             o == Append(occ, OccurrenceOf(fs[n]))
         IN Recorded(fs, o, A \cup {n}, q) /\ Ascending(o, q)
<1> DEFINE e == OccurrenceOf(fs[n])
           o == Append(occ, e)
           q == [i \in 1..(Len(occ) + 1) |-> IF i = Len(occ) + 1 THEN n ELSE pos[i]]
<1>1. /\ DOMAIN occ = 1..Len(occ) /\ Len(occ) \in Nat
      /\ DOMAIN o = 1..(Len(occ) + 1)
      /\ o[Len(occ) + 1] = e
      /\ \A i \in 1..Len(occ) : o[i] = occ[i]
  BY Extended
<1>2. \A i \in 1..Len(occ) : pos[i] \in A /\ pos[i] \in Nat /\ pos[i] < n /\ q[i] = pos[i]
  <2> TAKE i \in 1..Len(occ)
  <2>1. pos[i] \in A  BY <1>1 DEF Recorded
  <2>2. i \in 1..(Len(occ) + 1) /\ i # Len(occ) + 1  BY <1>1
  <2> QED  BY <2>1, <2>2
<1>3. q[Len(occ) + 1] = n  BY <1>1
<1>4. \A i \in 1..(Len(occ) + 1) : i \in 1..Len(occ) \/ i = Len(occ) + 1  BY <1>1
<1>5. q \in [DOMAIN o -> A \cup {n}]  BY <1>1, <1>2, <1>4
<1> HIDE DEF o, q, e
<1>6. \A i, j \in DOMAIN o : q[i] = q[j] => i = j
  BY <1>1, <1>2, <1>3, <1>4 DEF Recorded
<1>7. \A m \in A \cup {n} : \E i \in DOMAIN o : q[i] = m
  <2>1. Len(occ) + 1 \in DOMAIN o  BY <1>1
  <2>2. ASSUME NEW m \in A PROVE \E i \in DOMAIN o : q[i] = m
    <3>1. PICK i \in 1..Len(occ) : pos[i] = m  BY <1>1 DEF Recorded
    <3> QED  BY <3>1, <1>1, <1>2
  <2> QED  BY <2>1, <2>2, <1>3
<1>8. \A i \in DOMAIN o : o[i] = OccurrenceOf(fs[q[i]])
  BY <1>1, <1>2, <1>3, <1>4 DEF Recorded, e
<1>9. Ascending(o, q)
  BY <1>1, <1>2, <1>3, <1>4 DEF Ascending
<1> QED  BY <1>5, <1>6, <1>7, <1>8, <1>9 DEF Recorded, o, q, e

\* Sorting: the same findings, in the order of their places.
LEMMA RecordedSorted ==
  ASSUME NEW fs, NEW occ \in Seq(Occurrence) \ {<<>>}, NEW A \in SUBSET Nat,
         NEW pos, Recorded(fs, occ, A, pos), Ascending(occ, pos),
         NEW p \in [DOMAIN occ -> DOMAIN occ], SortsStably(p, occ)
  PROVE  LET q == [i \in DOMAIN occ |-> pos[p[i]]]
             o == Rearranged(occ, p)
         IN Recorded(fs, o, A, q) /\ ByPlace(o, q)
<1> DEFINE o == Rearranged(occ, p)
           q == [i \in DOMAIN occ |-> pos[p[i]]]
<1>1. DOMAIN o = DOMAIN occ /\ \A i \in DOMAIN occ : o[i] = occ[p[i]]  BY Permuted
<1>2. DOMAIN occ = 1..Len(occ) /\ Len(occ) \in Nat  OBVIOUS
<1>3. \A i, j \in DOMAIN occ : p[i] = p[j] => i = j  BY DEF SortsStably
<1>4. \A m \in DOMAIN occ : \E i \in DOMAIN occ : p[i] = m
  <2>1. p \in [1..Len(occ) -> 1..Len(occ)]  BY <1>2
  <2>2. \A i, j \in 1..Len(occ) : p[i] = p[j] => i = j  BY <1>2, <1>3
  <2>3. \A m \in 1..Len(occ) : \E i \in 1..Len(occ) : p[i] = m  BY <1>2, <2>1, <2>2, Onto
  <2> QED  BY <1>2, <2>3
<1>5. \A i \in DOMAIN occ : p[i] \in DOMAIN occ /\ q[i] = pos[p[i]]  OBVIOUS
<1>6. q \in [DOMAIN o -> A]  BY <1>1, <1>5 DEF Recorded
<1> HIDE DEF o, q
<1>7. \A i, j \in DOMAIN o : q[i] = q[j] => i = j  BY <1>1, <1>3, <1>5 DEF Recorded
<1>8. \A m \in A : \E i \in DOMAIN o : q[i] = m
  <2> TAKE m \in A
  <2>1. PICK j \in DOMAIN occ : pos[j] = m  BY DEF Recorded
  <2>2. PICK i \in DOMAIN occ : p[i] = j  BY <1>4
  <2> QED  BY <2>1, <2>2, <1>1, <1>5
<1>9. \A i \in DOMAIN o : o[i] = OccurrenceOf(fs[q[i]])  BY <1>1, <1>5 DEF Recorded
<1>10. ByPlace(o, q)
  <2> SUFFICES ASSUME NEW i \in DOMAIN occ, NEW j \in DOMAIN occ, i < j
               PROVE  \/ Before(o[i], o[j])
                      \/ (~Before(o[j], o[i]) /\ q[i] < q[j])
    BY <1>1 DEF ByPlace
  <2>1. o[i] = occ[p[i]] /\ o[j] = occ[p[j]] /\ q[i] = pos[p[i]] /\ q[j] = pos[p[j]]
    BY <1>1, <1>5
  <2>2. \/ Before(occ[p[i]], occ[p[j]])
        \/ (~Before(occ[p[j]], occ[p[i]]) /\ p[i] < p[j])
    BY DEF SortsStably
  <2>3. p[i] < p[j] => pos[p[i]] < pos[p[j]]  BY <1>5 DEF Ascending
  <2> QED  BY <2>1, <2>2, <2>3
<1> QED  BY <1>6, <1>7, <1>8, <1>9, <1>10 DEF Recorded, o, q

(***************************************************************************)
(* The inductive invariant.  OccurrencesInOrder is not inductive alone:    *)
(* a new asset must find no earlier finding of its key (Accounted), no     *)
(* finding may arrive once an asset is sorted (SortLast), and the dict must *)
(* hold assets (Shaped), or an update would change nothing.                *)
(***************************************************************************)

Fields == {"status", "curve", "level", "details", "functions", "occurrences"}

IsAsset(a) ==
  /\ a = [n \in Fields |-> a[n]]
  /\ a.occurrences \in Seq(Occurrence) \ {<<>>}

Inputs == \E n \in 0..MaxFindings : findings \in [1..n -> Finding]

Shaped ==
  /\ assets = [k \in DOMAIN assets |-> assets[k]]
  /\ DOMAIN assets \subseteq Key
  /\ \A k \in DOMAIN assets : IsAsset(assets[k])

Accounted == \A n \in 1..(next - 1) : AssetKey(findings[n]) \in DOMAIN assets

SortLast ==
  /\ sorted \subseteq DOMAIN assets
  /\ sorted # {} => next > Len(findings)

Filed(k) == \E pos : Records(k, pos) /\ InOrder(k, pos)

IInv ==
  /\ Inputs
  /\ next \in 1..(Len(findings) + 1)
  /\ Shaped
  /\ Accounted
  /\ SortLast
  /\ \A k \in DOMAIN assets : Filed(k)

\* The findings are a finite sequence of findings.
LEMMA InputsType ==
  ASSUME Inputs
  PROVE  /\ findings \in Seq(Finding)
         /\ Len(findings) \in Nat
         /\ \A n \in 1..Len(findings) : findings[n] \in Finding
<1>1. PICK n \in 0..MaxFindings : findings \in [1..n -> Finding]  BY DEF Inputs
<1>2. n \in Nat  BY MaxFindingsAssumption
<1> QED  BY <1>1, <1>2

\* The findings that have arrived are at positions, so they can be compared.
LEMMA ArrivedNat ==
  ASSUME next \in Nat
  PROVE  \A k : Arrived(k) \in SUBSET Nat /\ \A m \in Arrived(k) : m < next
  BY DEF Arrived

\* What AssetAfter makes of the asset with the key of f.
LEMMA AssetAfterOccurrences ==
  ASSUME NEW f \in Finding, Shaped
  PROVE  LET k   == AssetKey(f)
             old == IF k \in DOMAIN assets THEN assets[k].occurrences ELSE <<>>
         IN /\ old \in Seq(Occurrence)
            /\ AssetAfter(f).occurrences = Append(old, OccurrenceOf(f))
            /\ IsAsset(AssetAfter(f))
<1> DEFINE k == AssetKey(f)
           old == IF k \in DOMAIN assets THEN assets[k].occurrences ELSE <<>>
           base == IF k \in DOMAIN assets THEN Merge(assets[k], f) ELSE NewAsset(f)
<1>1. old \in Seq(Occurrence)  BY DEF Shaped, IsAsset
<1>2. base = [n \in Fields |-> base[n]] /\ base.occurrences = old
  <2>1. CASE k \in DOMAIN assets
    <3>1. assets[k] = [n \in Fields |-> assets[k][n]]  BY <2>1 DEF Shaped, IsAsset
    <3> QED  BY <2>1, <3>1 DEF Merge, Fields
  <2>2. CASE k \notin DOMAIN assets  BY <2>2 DEF NewAsset, Fields
  <2> QED  BY <2>1, <2>2
<1>3. AssetAfter(f) = Record(base, f)  BY DEF AssetAfter
<1> HIDE DEF base, old
<1>4. /\ Record(base, f) = [n \in Fields |-> Record(base, f)[n]]
      /\ Record(base, f).occurrences = Append(old, OccurrenceOf(f))
  BY <1>2 DEF Record, Fields
<1>5. OccurrenceOf(f) \in Occurrence  BY DEF Occurrence
<1>6. Append(old, OccurrenceOf(f)) \in Seq(Occurrence) \ {<<>>}  BY <1>1, <1>5, Extended
<1> QED  BY <1>1, <1>3, <1>4, <1>6 DEF IsAsset, old

\* No asset, nothing arrived.
LEMMA InvInit == Init => IInv
<1> SUFFICES ASSUME Init PROVE IInv  OBVIOUS
<1>1. Inputs  BY DEF Init, Inputs
<1>2. next = 1 /\ Len(findings) \in Nat  BY <1>1, InputsType DEF Init
<1>3. DOMAIN assets = {} /\ assets = [k \in DOMAIN assets |-> assets[k]] /\ sorted = {}
  BY DEF Init
<1> QED  BY <1>1, <1>2, <1>3 DEF IInv, Shaped, Accounted, SortLast

\* One finding more is filed under its key, and no other asset changes.
LEMMA InvCollect ==
  ASSUME IInv, Collect
  PROVE  IInv'
<1>0. PICK f, K : f = findings[next] /\ K = AssetKey(f)  OBVIOUS
<1> DEFINE a == AssetAfter(f)
           old == IF K \in DOMAIN assets THEN assets[K].occurrences ELSE <<>>
<1>1. /\ findings' = findings /\ sorted' = sorted /\ next' = next + 1
      /\ assets' = [k \in DOMAIN assets \cup {K} |-> IF k = K THEN a ELSE assets[k]]
      /\ next \in Nat /\ next \in 1..Len(findings) /\ Len(findings) \in Nat
      /\ f \in Finding
  BY <1>0, InputsType DEF IInv, Collect
<1>2. Inputs'  BY <1>1 DEF IInv, Inputs
<1>3. next' \in 1..(Len(findings') + 1)  BY <1>1
<1>4. /\ old \in Seq(Occurrence) /\ a.occurrences = Append(old, OccurrenceOf(f)) /\ IsAsset(a)
  BY <1>0, <1>1, AssetAfterOccurrences DEF IInv
<1>5. DOMAIN assets' = DOMAIN assets \cup {K} /\ K \in Key  BY <1>0, <1>1 DEF Key
<1>6. assets'[K] = a /\ \A k \in DOMAIN assets : k # K => assets'[k] = assets[k]  BY <1>1
<1> HIDE DEF a, old
<1>7. Shaped'
  <2>1. \A k \in DOMAIN assets' : IsAsset(assets'[k])
    BY <1>4, <1>5, <1>6 DEF IInv, Shaped
  <2>2. assets' = [k \in DOMAIN assets' |-> assets'[k]]  BY <1>1, <1>5
  <2>3. DOMAIN assets' \subseteq Key  BY <1>5 DEF IInv, Shaped
  <2> QED  BY <2>1, <2>2, <2>3 DEF Shaped, IsAsset
<1>8. Accounted'
  <2>1. \A n \in 1..(next' - 1) : n \in 1..(next - 1) \/ n = next  BY <1>1
  <2> QED  BY <2>1, <1>0, <1>1, <1>5 DEF IInv, Accounted
<1>9. SortLast'
  <2>1. sorted = {}  BY <1>1 DEF IInv, SortLast
  <2> QED  BY <2>1, <1>1 DEF SortLast
<1>10. \A k \in DOMAIN assets' : k # K => Filed(k)'
  <2> SUFFICES ASSUME NEW k \in DOMAIN assets, k # K PROVE Filed(k)'  BY <1>5
  <2>1. Arrived(k)' = Arrived(k)  BY <1>0, <1>1 DEF Arrived
  <2>2. assets'[k] = assets[k]  BY <1>6
  <2>3. PICK pos : Records(k, pos) /\ InOrder(k, pos)  BY DEF IInv, Filed
  <2>4. Records(k, pos)'  BY <2>1, <2>2, <2>3, <1>1 DEF Records
  <2>5. InOrder(k, pos)'  BY <2>2, <2>3, <1>1 DEF InOrder
  <2> QED  BY <2>4, <2>5 DEF Filed
<1>11. Filed(K)'
  <2>1. Arrived(K)' = Arrived(K) \cup {next}  BY <1>0, <1>1 DEF Arrived
  <2>2. K \notin sorted /\ K \notin sorted'  BY <1>1 DEF IInv, SortLast
  <2>3. \E pos : Recorded(findings, old, Arrived(K), pos) /\ Ascending(old, pos)
    <3>1. CASE K \in DOMAIN assets
      <4>1. PICK pos : Records(K, pos) /\ InOrder(K, pos)  BY <3>1 DEF IInv, Filed
      <4> QED  BY <4>1, <3>1, <2>2, RecordedIsRecords, InOrderIsKept DEF old
    <3>2. CASE K \notin DOMAIN assets
      <4>1. Arrived(K) = {}  BY <3>2, <1>1 DEF Arrived, IInv, Accounted
      <4>2. old = <<>> /\ DOMAIN old = {}  BY <3>2 DEF old
      <4>3. Recorded(findings, old, Arrived(K), [i \in {} |-> 0])
        BY <4>1, <4>2 DEF Recorded
      <4> QED  BY <4>2, <4>3 DEF Ascending
    <3> QED  BY <3>1, <3>2
  <2>4. PICK pos : Recorded(findings, old, Arrived(K), pos) /\ Ascending(old, pos)  BY <2>3
  <2>5. Arrived(K) \in SUBSET Nat /\ \A m \in Arrived(K) : m < next  BY <1>1, ArrivedNat
  <2>6. OccurrenceOf(findings[next]) \in Occurrence  BY <1>0, <1>1 DEF Occurrence
  <2>7. \E q : /\ Recorded(findings, Append(old, OccurrenceOf(findings[next])), Arrived(K) \cup {next}, q)
               /\ Ascending(Append(old, OccurrenceOf(findings[next])), q)
    BY <1>1, <1>4, <2>4, <2>5, <2>6, RecordedAppend
  <2>8. assets'[K].occurrences = Append(old, OccurrenceOf(findings[next]))
    BY <1>0, <1>4, <1>6
  <2>9. PICK q : /\ Recorded(findings', assets'[K].occurrences, Arrived(K)', q)
                 /\ Ascending(assets'[K].occurrences, q)
    BY <2>1, <2>7, <2>8, <1>1
  <2>10. Records(K, q)'  BY <2>9 DEF Records, Recorded
  <2>11. InOrder(K, q)'  BY <2>2, <2>9 DEF InOrder, Ascending
  <2> QED  BY <2>10, <2>11 DEF Filed
<1> QED  BY <1>2, <1>3, <1>7, <1>8, <1>9, <1>10, <1>11 DEF IInv

\* Sorting one asset leaves it the same findings, now in the order of places.
LEMMA InvSortAsset ==
  ASSUME IInv, NEW K \in DOMAIN assets, SortAsset(K)
  PROVE  IInv'
<1> DEFINE s == assets[K].occurrences
<1>1. PICK p \in [DOMAIN s -> DOMAIN s] :
        /\ SortsStably(p, s)
        /\ assets' = [assets EXCEPT ![K].occurrences = Rearranged(s, p)]
  BY DEF SortAsset
<1>2. /\ findings' = findings /\ next' = next /\ sorted' = sorted \cup {K}
      /\ next > Len(findings) /\ K \notin sorted
  BY DEF SortAsset
<1>3. assets = [k \in DOMAIN assets |-> assets[k]] /\ IsAsset(assets[K])  BY DEF IInv, Shaped
<1>4. s \in Seq(Occurrence) \ {<<>>}  BY <1>3 DEF IsAsset
<1>5. Rearranged(s, p) \in Seq(Occurrence) \ {<<>>}  BY <1>4, Permuted
<1>6. /\ DOMAIN assets' = DOMAIN assets
      /\ \A k \in DOMAIN assets : k # K => assets'[k] = assets[k]
      /\ assets'[K] = [assets[K] EXCEPT !.occurrences = Rearranged(s, p)]
      /\ assets' = [k \in DOMAIN assets |-> assets'[k]]
  BY <1>1, <1>3
<1> HIDE DEF s
<1>7. assets'[K] = [n \in Fields |-> assets'[K][n]] /\ assets'[K].occurrences = Rearranged(s, p)
  BY <1>3, <1>6 DEF IsAsset, Fields
<1>8. Inputs' /\ next' \in 1..(Len(findings') + 1) /\ Accounted' /\ SortLast'
  BY <1>2, <1>6 DEF IInv, Inputs, Accounted, SortLast
<1>9. Shaped'
  <2>1. \A k \in DOMAIN assets' : IsAsset(assets'[k])
    BY <1>5, <1>6, <1>7 DEF IInv, Shaped, IsAsset
  <2>2. DOMAIN assets' \subseteq Key  BY <1>6 DEF IInv, Shaped
  <2> QED  BY <2>1, <2>2, <1>6 DEF Shaped, IsAsset
<1>10. \A k : Arrived(k)' = Arrived(k)  BY <1>2 DEF Arrived
<1>11. \A k \in DOMAIN assets : k # K => Filed(k)'
  <2> SUFFICES ASSUME NEW k \in DOMAIN assets, k # K PROVE Filed(k)'  OBVIOUS
  <2>1. PICK pos : Records(k, pos) /\ InOrder(k, pos)  BY DEF IInv, Filed
  <2>2. Records(k, pos)'  BY <2>1, <1>2, <1>6, <1>10 DEF Records
  <2>3. InOrder(k, pos)'  BY <2>1, <1>2, <1>6 DEF InOrder
  <2> QED  BY <2>2, <2>3 DEF Filed
<1>12. Filed(K)'
  <2>1. PICK pos : Records(K, pos) /\ InOrder(K, pos)  BY DEF IInv, Filed
  <2>2. Recorded(findings, s, Arrived(K), pos) /\ Ascending(s, pos)
    BY <2>1, <1>2, RecordedIsRecords, InOrderIsKept DEF s
  <2>3. next \in Nat  BY InputsType DEF IInv
  <2>4. Arrived(K) \in SUBSET Nat  BY <2>3, ArrivedNat
  <2>5. PICK q : /\ Recorded(findings, Rearranged(s, p), Arrived(K), q)
                 /\ ByPlace(Rearranged(s, p), q)
    BY <1>1, <1>4, <2>2, <2>4, RecordedSorted DEF s
  <2>6. Records(K, q)'  BY <2>5, <1>2, <1>7, <1>10 DEF Records, Recorded
  <2>7. InOrder(K, q)'  BY <2>5, <1>2, <1>7 DEF InOrder, ByPlace
  <2> QED  BY <2>6, <2>7 DEF Filed
<1> QED  BY <1>6, <1>8, <1>9, <1>11, <1>12 DEF IInv

\* A step that changes nothing.
LEMMA InvStutter ==
  ASSUME IInv, UNCHANGED vars
  PROVE  IInv'
<1>1. findings' = findings /\ next' = next /\ assets' = assets /\ sorted' = sorted  BY DEF vars
<1>2. \A k : Arrived(k)' = Arrived(k)  BY <1>1 DEF Arrived
<1>3. \A k \in DOMAIN assets : Filed(k)'
  <2> TAKE k \in DOMAIN assets
  <2>1. PICK pos : Records(k, pos) /\ InOrder(k, pos)  BY DEF IInv, Filed
  <2>2. Records(k, pos)' /\ InOrder(k, pos)'  BY <2>1, <1>1, <1>2 DEF Records, InOrder
  <2> QED  BY <2>2 DEF Filed
<1> QED  BY <1>1, <1>3 DEF IInv, Inputs, Shaped, IsAsset, Accounted, SortLast

\* Every asset records exactly the findings of its key that have arrived, in
\* order: the inductive invariant holds throughout (aggregate.py, aggregate).
THEOREM Filing == Spec => []IInv
<1>1. IInv /\ [Next]_vars => IInv'
  BY InvCollect, InvSortAsset, InvStutter DEF Next
<1> QED  BY <1>1, InvInit, PTL DEF Spec

\* Every key is the key of some finding and no asset is without an occurrence.
THEOREM TypeCorrect == Spec => []TypeOK
<1>1. IInv => TypeOK
  BY DEF IInv, Inputs, Shaped, IsAsset, SortLast, TypeOK
<1> QED  BY <1>1, Filing, PTL

\* Occurrences are listed by place, those of one place as the findings came.
THEOREM Order == Spec => []OccurrencesInOrder
<1>1. IInv => OccurrencesInOrder
  BY DEF IInv, Filed, Records, OccurrencesInOrder
<1> QED  BY <1>1, Filing, PTL

\* No finding is lost, counted twice or filed under another asset's key.
THEOREM NothingLost == Spec => []OneOccurrencePerFinding
<1>1. IInv => OneOccurrencePerFinding
  BY DEF IInv, Accounted, Filed, Records, OneOccurrencePerFinding
<1> QED  BY <1>1, Filing, PTL

(***************************************************************************)
(* The first finding to know a fact is believed.  Told is FirstKnown of a  *)
(* function from positions to what each finding says of the fact.          *)
(***************************************************************************)

Told(v, ns, said, unknown) ==
  LET known == {n \in ns : said[n] # unknown} IN
  IF known = {} THEN v = unknown
  ELSE \E n \in known : (\A m \in known : n <= m) /\ v = said[n]

\* A later finding is heard only on what is still unknown.
LEMMA ToldNext ==
  ASSUME NEW v, NEW ns \in SUBSET Nat, NEW said, NEW unknown, NEW n \in Nat,
         \A m \in ns : m < n, Told(v, ns, said, unknown)
  PROVE  Told(IF v = unknown THEN said[n] ELSE v, ns \cup {n}, said, unknown)
<1> DEFINE known == {m \in ns : said[m] # unknown}
           later == {m \in ns \cup {n} : said[m] # unknown}
           w     == IF v = unknown THEN said[n] ELSE v
<1>1. later = IF said[n] # unknown THEN known \cup {n} ELSE known  OBVIOUS
<1>2. CASE known = {}
  <2>1. v = unknown  BY <1>2 DEF Told
  <2>2. CASE said[n] = unknown  BY <1>1, <1>2, <2>1, <2>2 DEF Told
  <2>3. CASE said[n] # unknown
    <3>1. later = {n} /\ w = said[n]  BY <1>1, <1>2, <2>1, <2>3
    <3> QED  BY <3>1 DEF Told
  <2> QED  BY <2>2, <2>3
<1>3. CASE known # {}
  <2>1. PICK m \in known : (\A l \in known : m <= l) /\ v = said[m]  BY <1>3 DEF Told
  <2>2. v # unknown /\ w = said[m] /\ m \in later /\ m < n  BY <2>1
  <2>3. \A l \in later : m <= l  BY <1>1, <2>1, <2>2
  <2> QED  BY <2>2, <2>3 DEF Told
<1> QED  BY <1>2, <1>3

\* What some finding knows is not unknown.
LEMMA ToldKnown ==
  ASSUME NEW v, NEW ns, NEW said, NEW unknown, NEW n \in ns, said[n] # unknown,
         Told(v, ns, said, unknown)
  PROVE  v # unknown
  BY DEF Told

Statuses(fs) == [n \in Nat |-> fs[n].status]
Curves(fs) == [n \in Nat |-> fs[n].curve]
SecurityLevels(fs) == [n \in Nat |-> fs[n].level]
Details(fs, name) == [n \in Nat |-> Extra(fs[n], name)]
DetailNames(fs, ns) == UNION {DOMAIN fs[n].extra : n \in ns}

AssetTold(fs, a, ns) ==
  /\ Told(a.status, ns, Statuses(fs), "unknown")
  /\ Told(a.curve, ns, Curves(fs), None)
  /\ Told(a.level, ns, SecurityLevels(fs), None)
  /\ DOMAIN a.details = DetailNames(fs, ns)
  /\ \A name \in DOMAIN a.details : Told(a.details[name], ns, Details(fs, name), None)

\* The property, fact by fact, in the words of Told.
LEMMA BelievesFirstIsTold ==
  ASSUME NEW ns \in SUBSET Nat
  PROVE  \A a : BelievesFirst(a, ns) <=> AssetTold(findings, a, ns)
<1> TAKE a
<1>1. /\ \A n \in ns : Statuses(findings)[n] = findings[n].status
      /\ \A n \in ns : Curves(findings)[n] = findings[n].curve
      /\ \A n \in ns : SecurityLevels(findings)[n] = findings[n].level
      /\ \A name : \A n \in ns : Details(findings, name)[n] = Extra(findings[n], name)
  BY DEF Statuses, Curves, SecurityLevels, Details
<1>2. FirstKnown(a.status, ns, LAMBDA f : f.status, "unknown")
        <=> Told(a.status, ns, Statuses(findings), "unknown")
  BY <1>1 DEF FirstKnown, Told
<1>3. FirstKnown(a.curve, ns, LAMBDA f : f.curve, None)
        <=> Told(a.curve, ns, Curves(findings), None)
  BY <1>1 DEF FirstKnown, Told
<1>4. FirstKnown(a.level, ns, LAMBDA f : f.level, None)
        <=> Told(a.level, ns, SecurityLevels(findings), None)
  BY <1>1 DEF FirstKnown, Told
<1>5. ASSUME NEW name
      PROVE  FirstKnown(a.details[name], ns, LAMBDA f : Extra(f, name), None)
               <=> Told(a.details[name], ns, Details(findings, name), None)
  <2> DEFINE said  == Details(findings, name)
             known == {n \in ns : Extra(findings[n], name) # None}
  <2>1. \A n \in ns : said[n] = Extra(findings[n], name)  BY <1>1
  <2> HIDE DEF said
  <2>2. known = {n \in ns : said[n] # None}  BY <2>1
  <2>3. FirstKnown(a.details[name], ns, LAMBDA f : Extra(f, name), None)
          <=> IF known = {} THEN a.details[name] = None
              ELSE \E n \in known : (\A m \in known : n <= m)
                                    /\ a.details[name] = Extra(findings[n], name)
    BY DEF FirstKnown
  <2>4. Told(a.details[name], ns, said, None)
          <=> IF known = {} THEN a.details[name] = None
              ELSE \E n \in known : (\A m \in known : n <= m) /\ a.details[name] = said[n]
    BY <2>2 DEF Told
  <2> QED  BY <2>1, <2>3, <2>4 DEF said
<1>6. (DOMAIN a.details = UNION {DOMAIN findings[n].extra : n \in ns})
        <=> DOMAIN a.details = DetailNames(findings, ns)
  BY DEF DetailNames
<1>7. (\A name \in DOMAIN a.details :
         FirstKnown(a.details[name], ns, LAMBDA f : Extra(f, name), None))
        <=> \A name \in DOMAIN a.details :
              Told(a.details[name], ns, Details(findings, name), None)
  BY <1>5 DEF FirstKnown
<1> QED  BY <1>2, <1>3, <1>4, <1>6, <1>7 DEF BelievesFirst, AssetTold

\* The asset a finding creates, and the asset a later one is merged into.
LEMMA ToldFirst ==
  ASSUME NEW fs, NEW n \in Nat
  PROVE  AssetTold(fs, Record(NewAsset(fs[n]), fs[n]), {n})
<1> DEFINE f == fs[n]
           a == Record(NewAsset(f), f)
<1>1. /\ a.status = f.status /\ a.curve = f.curve /\ a.level = f.level /\ a.details = f.extra
  BY DEF Record, NewAsset
<1>2. /\ Statuses(fs)[n] = f.status /\ Curves(fs)[n] = f.curve /\ SecurityLevels(fs)[n] = f.level
      /\ \A name : Details(fs, name)[n] = Extra(f, name)
  BY DEF Statuses, Curves, SecurityLevels, Details
<1> HIDE DEF a
<1>3. \A said, unknown : Told(said[n], {n}, said, unknown)  BY DEF Told
<1>4. DOMAIN a.details = DetailNames(fs, {n})  BY <1>1 DEF DetailNames
<1>5. \A name \in DOMAIN a.details : a.details[name] = Details(fs, name)[n]
  BY <1>1, <1>2 DEF Extra
<1> QED  BY <1>1, <1>2, <1>3, <1>4, <1>5 DEF AssetTold, a

\* Merging a finding tells what was still unknown, and changes nothing else.
LEMMA ToldMerged ==
  ASSUME NEW fs, NEW a, IsAsset(a), NEW ns \in SUBSET Nat, NEW n \in Nat, \A m \in ns : m < n,
         \A m \in ns : fs[m] \in Finding, fs[n] \in Finding,
         AssetTold(fs, a, ns)
  PROVE  AssetTold(fs, Record(Merge(a, fs[n]), fs[n]), ns \cup {n})
<1> DEFINE f == fs[n]
           b == Record(Merge(a, f), f)
<1>1. /\ b.status = IF a.status = "unknown" THEN Statuses(fs)[n] ELSE a.status
      /\ b.curve = IF a.curve = None THEN Curves(fs)[n] ELSE a.curve
      /\ b.level = IF a.level = None THEN SecurityLevels(fs)[n] ELSE a.level
      /\ b.details = [m \in DOMAIN a.details \cup DOMAIN f.extra |->
                        IF m \in DOMAIN a.details THEN a.details[m] ELSE f.extra[m]]
  <2>1. a = [m \in Fields |-> a[m]]  BY DEF IsAsset
  <2>2. /\ Statuses(fs)[n] = f.status /\ Curves(fs)[n] = f.curve /\ SecurityLevels(fs)[n] = f.level
    BY DEF Statuses, Curves, SecurityLevels
  <2> QED  BY <2>1, <2>2 DEF Record, Merge, Fields
<1> HIDE DEF b
<1>2. Told(b.status, ns \cup {n}, Statuses(fs), "unknown")  BY <1>1, ToldNext DEF AssetTold
<1>3. Told(b.curve, ns \cup {n}, Curves(fs), None)  BY <1>1, ToldNext DEF AssetTold
<1>4. Told(b.level, ns \cup {n}, SecurityLevels(fs), None)  BY <1>1, ToldNext DEF AssetTold
<1>5. DOMAIN b.details = DetailNames(fs, ns \cup {n})
  <2>1. DetailNames(fs, ns \cup {n}) = DetailNames(fs, ns) \cup DOMAIN f.extra
    BY DEF DetailNames
  <2>2. DOMAIN b.details = DOMAIN a.details \cup DOMAIN f.extra  BY <1>1
  <2> QED  BY <2>1, <2>2 DEF AssetTold
<1>6. ASSUME NEW name \in DOMAIN b.details
      PROVE  Told(b.details[name], ns \cup {n}, Details(fs, name), None)
  <2>1. \A m \in ns \cup {n} : Details(fs, name)[m] = Extra(fs[m], name)  BY DEF Details
  <2>2. CASE name \in DOMAIN a.details
    <3>1. PICK m \in ns : name \in DOMAIN fs[m].extra  BY <2>2 DEF AssetTold, DetailNames
    <3>2. Details(fs, name)[m] # None  BY <2>1, <3>1, ExtraAssumption DEF Extra
    <3>3. Told(a.details[name], ns, Details(fs, name), None)  BY <2>2 DEF AssetTold
    <3>4. a.details[name] # None  BY <3>1, <3>2, <3>3, ToldKnown
    <3>5. b.details[name] = a.details[name]  BY <1>1, <2>2
    <3>6. Told(IF a.details[name] = None THEN Details(fs, name)[n] ELSE a.details[name],
               ns \cup {n}, Details(fs, name), None)
      BY <3>3, ToldNext
    <3> QED  BY <3>4, <3>5, <3>6
  <2>3. CASE name \notin DOMAIN a.details
    <3>1. name \in DOMAIN f.extra /\ b.details[name] = f.extra[name]  BY <1>1, <2>3
    <3>2. \A m \in ns : Details(fs, name)[m] = None
      BY <2>1, <2>3 DEF AssetTold, DetailNames, Extra
    <3>3. Told(None, ns, Details(fs, name), None)  BY <3>2 DEF Told
    <3>4. Told(Details(fs, name)[n], ns \cup {n}, Details(fs, name), None)
      <4>1. Told(IF None = None THEN Details(fs, name)[n] ELSE None,
                 ns \cup {n}, Details(fs, name), None)
        BY <3>3, ToldNext
      <4> QED  BY <4>1
    <3>5. Details(fs, name)[n] = f.extra[name]  BY <2>1, <3>1 DEF Extra
    <3> QED  BY <3>1, <3>4, <3>5
  <2> QED  BY <2>2, <2>3
<1> QED  BY <1>2, <1>3, <1>4, <1>5, <1>6 DEF AssetTold, b

BInv == \A k \in DOMAIN assets : AssetTold(findings, assets[k], Arrived(k))

\* The invariant is the property.
LEMMA BInvIsFirstKnownWins ==
  ASSUME next \in Nat
  PROVE  FirstKnownWins <=> BInv
<1>1. \A k : Arrived(k) \in SUBSET Nat  BY ArrivedNat
<1>2. \A k : BelievesFirst(assets[k], Arrived(k)) <=> AssetTold(findings, assets[k], Arrived(k))
  BY <1>1, BelievesFirstIsTold
<1> QED  BY <1>2 DEF FirstKnownWins, BInv

\* Collecting a finding creates its asset or merges into it.
LEMMA BInvCollect ==
  ASSUME IInv, BInv, Collect
  PROVE  BInv'
<1>0. PICK f, K : f = findings[next] /\ K = AssetKey(f)  OBVIOUS
<1>1. /\ findings' = findings /\ next' = next + 1
      /\ assets' = [k \in DOMAIN assets \cup {K} |-> IF k = K THEN AssetAfter(f) ELSE assets[k]]
      /\ next \in Nat /\ next \in 1..Len(findings) /\ Len(findings) \in Nat
      /\ f \in Finding
  BY <1>0, InputsType DEF IInv, Collect
<1>2. \A k : Arrived(k)' = IF k = K THEN Arrived(k) \cup {next} ELSE Arrived(k)
  BY <1>0, <1>1 DEF Arrived
<1>3. Arrived(K) \in SUBSET Nat /\ \A m \in Arrived(K) : m < next  BY <1>1, ArrivedNat
<1>4. AssetTold(findings, AssetAfter(f), Arrived(K) \cup {next})
  <2>1. CASE K \in DOMAIN assets
    <3>1. IsAsset(assets[K])  BY <2>1 DEF IInv, Shaped
    <3>2. AssetTold(findings, assets[K], Arrived(K))  BY <2>1 DEF BInv
    <3>3. \A m \in Arrived(K) : findings[m] \in Finding
      BY <1>1, InputsType DEF Arrived, IInv
    <3>4. AssetAfter(f) = Record(Merge(assets[K], findings[next]), findings[next])
      BY <1>0, <2>1 DEF AssetAfter
    <3>5. findings[next] \in Finding /\ next \in Nat  BY <1>0, <1>1
    <3>6. AssetTold(findings, Record(Merge(assets[K], findings[next]), findings[next]),
                    Arrived(K) \cup {next})
      BY <1>3, <3>1, <3>2, <3>3, <3>5, ToldMerged
    <3> QED  BY <3>4, <3>6
  <2>2. CASE K \notin DOMAIN assets
    <3>1. Arrived(K) = {}  BY <2>2, <1>1 DEF Arrived, IInv, Accounted
    <3>2. AssetAfter(f) = Record(NewAsset(findings[next]), findings[next])
      BY <1>0, <2>2 DEF AssetAfter
    <3>3. AssetTold(findings, Record(NewAsset(findings[next]), findings[next]), {next})
      BY <1>1, ToldFirst
    <3>4. Arrived(K) \cup {next} = {next}  BY <3>1
    <3> QED  BY <3>2, <3>3, <3>4
  <2> QED  BY <2>1, <2>2
<1>5. ASSUME NEW k \in DOMAIN assets' PROVE AssetTold(findings', assets'[k], Arrived(k)')
  <2>1. CASE k = K  BY <2>1, <1>1, <1>2, <1>4
  <2>2. CASE k # K
    <3>1. k \in DOMAIN assets /\ assets'[k] = assets[k]  BY <2>2, <1>1
    <3> QED  BY <2>2, <3>1, <1>1, <1>2 DEF BInv
  <2> QED  BY <2>1, <2>2
<1>6. \A k \in DOMAIN assets' : AssetTold(findings', assets'[k], Arrived(k)')  BY <1>5
<1> QED  BY <1>6 DEF BInv, AssetTold, Statuses, Curves, SecurityLevels, Details, DetailNames

\* Sorting touches the occurrences only.
LEMMA BInvSortAsset ==
  ASSUME IInv, BInv, NEW K \in DOMAIN assets, SortAsset(K)
  PROVE  BInv'
<1>1. PICK o : assets' = [assets EXCEPT ![K].occurrences = o]  BY DEF SortAsset
<1>2. findings' = findings /\ next' = next  BY DEF SortAsset
<1>3. \A k : Arrived(k)' = Arrived(k)  BY <1>2 DEF Arrived
<1>4. assets = [k \in DOMAIN assets |-> assets[k]] /\ assets[K] = [n \in Fields |-> assets[K][n]]
  BY DEF IInv, Shaped, IsAsset
<1>5. DOMAIN assets' = DOMAIN assets  BY <1>1
<1>6. \A k \in DOMAIN assets : /\ assets'[k].status = assets[k].status
                               /\ assets'[k].curve = assets[k].curve
                               /\ assets'[k].level = assets[k].level
                               /\ assets'[k].details = assets[k].details
  BY <1>1, <1>4 DEF Fields
<1>7. \A k \in DOMAIN assets' : AssetTold(findings', assets'[k], Arrived(k)')
  BY <1>2, <1>3, <1>5, <1>6 DEF BInv, AssetTold
<1> QED  BY <1>7 DEF BInv, AssetTold, Statuses, Curves, SecurityLevels, Details, DetailNames

\* A step that changes nothing.
LEMMA BInvStutter ==
  ASSUME BInv, UNCHANGED vars
  PROVE  BInv'
<1>1. findings' = findings /\ next' = next /\ assets' = assets  BY DEF vars
<1>2. \A k : Arrived(k)' = Arrived(k)  BY <1>1 DEF Arrived
<1>3. \A k \in DOMAIN assets' : AssetTold(findings', assets'[k], Arrived(k)')
  BY <1>1, <1>2 DEF BInv
<1> QED  BY <1>3 DEF BInv, AssetTold, Statuses, Curves, SecurityLevels, Details, DetailNames

\* What an asset says of itself is what its first finding to know it said.
THEOREM Belief == Spec => []FirstKnownWins
<1>1. Init => BInv
  <2> SUFFICES ASSUME Init PROVE BInv  OBVIOUS
  <2>1. DOMAIN assets = {}  BY DEF Init
  <2> QED  BY <2>1 DEF BInv
<1>2. IInv /\ BInv /\ [Next]_vars => BInv'
  BY BInvCollect, BInvSortAsset, BInvStutter DEF Next
<1>3. IInv /\ BInv => FirstKnownWins
  <2>1. IInv => next \in Nat  BY InputsType DEF IInv
  <2> QED  BY <2>1, BInvIsFirstKnownWins
<1> QED  BY <1>1, <1>2, <1>3, Filing, PTL DEF Spec

(***************************************************************************)
(* The refinement of Inventory.  A list is filed as the bag of its         *)
(* elements: appending adds one of them, and a permutation changes none.   *)
(***************************************************************************)

\* The bag of a list, by the number of copies.
LEMMA BagOf == \A s : ToBag(s) = [x \in Range(s) |-> Copies(s, x)]
BY DEF ToBag, Copies

\* One element more in the list is one more in the bag.
LEMMA BagAppend ==
  ASSUME NEW s, IsSequence(s), NEW e
  PROVE  ToBag(Append(s, e)) = I!With(ToBag(s), e)
<1>1. IsSequence(Append(s, e))
  BY Appended
<1>2. \A x : /\ Copies(s, x) \in Nat
             /\ Copies(Append(s, e), x) = Copies(s, x) + (IF x = e THEN 1 ELSE 0)
  BY CopiesAppend
<1>3. \A x : /\ x \in Range(s) <=> Copies(s, x) # 0
             /\ x \in Range(Append(s, e)) <=> Copies(Append(s, e), x) # 0
  BY <1>1, CopiesRange
<1>4. Range(Append(s, e)) = Range(s) \cup {e}
  BY <1>2, <1>3
<1>5. \A x : Copies(Append(s, e), x)
               = (IF x \in Range(s) THEN Copies(s, x) ELSE 0) + (IF x = e THEN 1 ELSE 0)
  BY <1>2, <1>3
<1> DEFINE b == ToBag(s)
<1>6. DOMAIN b = Range(s) /\ \A x \in Range(s) : b[x] = Copies(s, x)
  BY BagOf
<1>7. ToBag(Append(s, e)) = [x \in Range(s) \cup {e} |-> Copies(Append(s, e), x)]
  BY <1>4, BagOf
<1> HIDE DEF b
<1>8. I!With(b, e) = [x \in Range(s) \cup {e} |->
                        (IF x \in Range(s) THEN b[x] ELSE 0) + (IF x = e THEN 1 ELSE 0)]
  BY <1>6 DEF I!With
<1>9. \A x : (IF x \in Range(s) THEN b[x] ELSE 0) = (IF x \in Range(s) THEN Copies(s, x) ELSE 0)
  BY <1>6
<1>10. I!With(b, e) = [x \in Range(s) \cup {e} |-> Copies(Append(s, e), x)]
  BY <1>5, <1>8, <1>9
<1> QED BY <1>7, <1>10 DEF b

OneToOne(p, s) == \A i, j \in DOMAIN s : p[i] = p[j] => i = j

\* A permutation of a list has everything as often as the list.
LEMMA CopiesPermuted ==
  ASSUME NEW S, NEW s \in Seq(S) \ {<<>>}, NEW p \in [DOMAIN s -> DOMAIN s],
         OneToOne(p, s), NEW x
  PROVE  Copies(Rearranged(s, p), x) = Copies(s, x)
<1> DEFINE A == {i \in DOMAIN s : s[p[i]] = x}
           B == {i \in DOMAIN s : s[i] = x}
           q == [i \in A |-> p[i]]
<1>1. DOMAIN s = 1..Len(s) /\ Len(s) \in Nat
  OBVIOUS
<1>2. \A m \in DOMAIN s : \E i \in DOMAIN s : p[i] = m
  <2>1. p \in [1..Len(s) -> 1..Len(s)]
    BY <1>1
  <2>2. \A i, j \in 1..Len(s) : p[i] = p[j] => i = j
    BY <1>1 DEF OneToOne
  <2>3. \A m \in 1..Len(s) : \E i \in 1..Len(s) : p[i] = m
    BY <1>1, <2>1, <2>2, Onto
  <2> QED BY <1>1, <2>3
<1>3. q \in [A -> B] /\ \A i, j \in A : q[i] = q[j] => i = j
  BY DEF OneToOne
<1>4. \A m \in B : \E i \in A : q[i] = m
  <2> TAKE m \in B
  <2>1. PICK i \in DOMAIN s : p[i] = m
    BY <1>2
  <2>2. i \in A
    BY <2>1
  <2> QED BY <2>1, <2>2
<1>5. IsFiniteSet(A)
  <2>1. IsFiniteSet(1..Len(s))
    BY <1>1, FS_Interval
  <2> QED BY <1>1, <2>1, FS_Subset
<1> HIDE DEF A, B, q
<1>6. q \in Bijection(A, B)
  BY <1>3, <1>4 DEF Bijection, Injection, IsInjective, Surjection
<1>7. Cardinality(A) = Cardinality(B)
  BY <1>5, <1>6, FS_Bijection DEF ExistsBijection
<1>8. Copies(Rearranged(s, p), x) = Cardinality(A)
  <2>1. {i \in DOMAIN Rearranged(s, p) : Rearranged(s, p)[i] = x} = A
    BY DEF A, Rearranged
  <2> QED BY <2>1 DEF Copies
<1>9. Copies(s, x) = Cardinality(B)
  BY DEF Copies, B
<1> QED BY <1>7, <1>8, <1>9

\* Nothing is filed at first, and every finding waits.
LEMMA InventoryInit == Init => I!Init
<1> SUFFICES ASSUME Init PROVE I!Init
  OBVIOUS
<1>1. next = 1 /\ Len(findings) \in Nat
  BY InputsType DEF Init, Inputs
<1>2. \A f : Cardinality({n \in next..Len(findings) : findings[n] = f}) \in Nat
  <2> TAKE f
  <2>1. IsFiniteSet(next..Len(findings))
    BY <1>1, FS_Interval
  <2> QED BY <2>1, FS_Subset, FS_CardinalityType
<1>3. Waiting \in [Finding -> Nat]
  BY <1>2 DEF Waiting
<1>4. Entries = <<>>
  BY DEF Entries, Init
<1> QED BY <1>3, <1>4 DEF I!Init

\* The finding collected waits no longer, and no other is touched.
LEMMA WaitingNext ==
  ASSUME IInv, Collect
  PROVE  /\ Waiting[findings[next]] > 0
         /\ Waiting' = [Waiting EXCEPT ![findings[next]] = @ - 1]
<1>1. /\ findings' = findings /\ next' = next + 1 /\ next \in Nat /\ Len(findings) \in Nat
      /\ next \in next..Len(findings) /\ findings[next] \in Finding
  BY InputsType DEF IInv, Collect
<1> DEFINE N(f) == {n \in next..Len(findings) : findings[n] = f}
           M(f) == {n \in (next + 1)..Len(findings) : findings[n] = f}
<1>2. \A f : IsFiniteSet(N(f)) /\ Cardinality(N(f)) \in Nat
  <2> TAKE f
  <2>1. IsFiniteSet(next..Len(findings))
    BY <1>1, FS_Interval
  <2> QED BY <2>1, FS_Subset, FS_CardinalityType
<1>3. \A f : M(f) = N(f) \ {next} /\ (next \in N(f) <=> f = findings[next])
  BY <1>1
<1>4. Waiting = [f \in Finding |-> Cardinality(N(f))]
  BY DEF Waiting
<1>5. Waiting' = [f \in Finding |-> Cardinality(M(f))]
  BY <1>1 DEF Waiting
<1> HIDE DEF N, M
<1>6. \A f : Cardinality(M(f)) = IF f = findings[next] THEN Cardinality(N(f)) - 1 ELSE Cardinality(N(f))
  BY <1>2, <1>3, FS_RemoveElement
<1>7. Cardinality(N(findings[next])) > 0
  <2>1. N(findings[next]) # {}
    BY <1>3
  <2>2. Cardinality(N(findings[next])) # 0
    BY <1>2, <2>1, FS_EmptySet
  <2> QED BY <1>2, <2>2
<1>8. Waiting[findings[next]] > 0
  BY <1>1, <1>4, <1>7
<1>9. Waiting' = [Waiting EXCEPT ![findings[next]] = @ - 1]
  BY <1>1, <1>4, <1>5, <1>6
<1> QED BY <1>8, <1>9

\* Collecting a finding is filing it under its key.
LEMMA CollectFiles ==
  ASSUME IInv, Collect
  PROVE  I!File(findings[next])
<1> DEFINE f   == findings[next]
           K   == AssetKey(f)
           e   == OccurrenceOf(f)
           old == IF K \in DOMAIN assets THEN assets[K].occurrences ELSE <<>>
<1>1. f \in Finding
  BY InputsType DEF IInv, Collect
<1>2. /\ IsSequence(old) /\ AssetAfter(f).occurrences = Append(old, e)
  BY <1>1, AssetAfterOccurrences DEF IInv, IsSequence
<1>3. /\ DOMAIN assets' = DOMAIN assets \cup {K}
      /\ assets'[K].occurrences = Append(old, e)
      /\ \A k \in DOMAIN assets : k # K => assets'[k] = assets[k]
  BY <1>2 DEF Collect
<1> HIDE DEF f, K, e, old
<1> DEFINE bag == IF K \in DOMAIN Entries THEN Entries[K] ELSE <<>>
<1>4. DOMAIN Entries = DOMAIN assets /\ \A k \in DOMAIN assets : Entries[k] = ToBag(assets[k].occurrences)
  BY DEF Entries
<1>5. bag = ToBag(old)
  <2>1. CASE K \in DOMAIN assets
    BY <2>1, <1>4 DEF old
  <2>2. CASE K \notin DOMAIN assets
    <3>1. old = <<>> /\ bag = <<>>
      BY <2>2, <1>4 DEF old
    <3>2. ToBag(<<>>) = <<>>
      BY DEF ToBag, Range
    <3> QED BY <3>1, <3>2
  <2> QED BY <2>1, <2>2
<1> HIDE DEF bag
<1>6. ToBag(assets'[K].occurrences) = I!With(bag, e)
  BY <1>2, <1>3, <1>5, BagAppend
<1>7. Entries' = [k \in DOMAIN assets \cup {K} |-> ToBag(assets'[k].occurrences)]
  BY <1>3 DEF Entries
<1>8. Entries' = [k \in DOMAIN Entries \cup {K} |-> IF k # K THEN Entries[k] ELSE I!With(bag, e)]
  BY <1>3, <1>4, <1>6, <1>7
<1>9. /\ Waiting[f] > 0 /\ Waiting' = [Waiting EXCEPT ![f] = @ - 1]
  BY WaitingNext DEF f
<1>10. I!File(f)
  BY <1>8, <1>9 DEF I!File, K, e, bag
<1> QED BY <1>10 DEF f

\* Sorting an asset is invisible.
LEMMA SortInvisible ==
  ASSUME IInv, NEW K \in DOMAIN assets, SortAsset(K)
  PROVE  UNCHANGED I!vars
<1> DEFINE s == assets[K].occurrences
<1>1. PICK p \in [DOMAIN s -> DOMAIN s] :
        /\ SortsStably(p, s)
        /\ assets' = [assets EXCEPT ![K].occurrences = Rearranged(s, p)]
  BY DEF SortAsset
<1>2. assets = [k \in DOMAIN assets |-> assets[k]] /\ IsAsset(assets[K])
  BY DEF IInv, Shaped
<1>3. s \in Seq(Occurrence) \ {<<>>}
  BY <1>2 DEF IsAsset
<1>4. /\ DOMAIN assets' = DOMAIN assets
      /\ \A k \in DOMAIN assets : k # K => assets'[k] = assets[k]
      /\ assets'[K] = [assets[K] EXCEPT !.occurrences = Rearranged(s, p)]
  BY <1>1, <1>2
<1> HIDE DEF s
<1>5. assets'[K].occurrences = Rearranged(s, p)
  BY <1>2, <1>4 DEF IsAsset, Fields
<1>6. \A x : Copies(Rearranged(s, p), x) = Copies(s, x)
  BY <1>1, <1>3, CopiesPermuted DEF SortsStably, OneToOne
<1>7. IsSequence(s) /\ IsSequence(Rearranged(s, p))
  BY <1>1, <1>3, Permuted DEF IsSequence
<1>8. ToBag(Rearranged(s, p)) = ToBag(s)
  BY <1>6, <1>7, SameBag
<1>9. \A k \in DOMAIN assets : ToBag(assets'[k].occurrences) = ToBag(assets[k].occurrences)
  BY <1>4, <1>5, <1>8 DEF s
<1>10. Entries' = Entries
  BY <1>4, <1>9 DEF Entries
<1>11. Waiting' = Waiting
  BY DEF SortAsset, Waiting
<1> QED BY <1>10, <1>11 DEF I!vars

\* Deduplication implements the inventory, for every list of findings: every
\* turn of the first loop files one finding under its key, every turn of the
\* second is invisible (aggregate.py, aggregate).
THEOREM FilesEachOnce == Spec => ImplementsInventory
<1>1. IInv /\ [Next]_vars => [I!Next]_(I!vars)
  <2> SUFFICES ASSUME IInv, [Next]_vars PROVE [I!Next]_(I!vars)
    OBVIOUS
  <2>1. CASE Collect
    <3>1. findings[next] \in Finding
      BY <2>1, InputsType DEF IInv, Collect
    <3> QED BY <2>1, <3>1, CollectFiles DEF I!Next
  <2>2. ASSUME NEW k \in DOMAIN assets, SortAsset(k) PROVE [I!Next]_(I!vars)
    BY <2>2, SortInvisible
  <2>3. CASE UNCHANGED vars
    BY <2>3 DEF vars, I!vars, Waiting, Entries
  <2> QED BY <2>1, <2>2, <2>3 DEF Next
<1> QED BY <1>1, InventoryInit, Filing, PTL DEF Spec, ImplementsInventory, I!Spec
=============================================================================
