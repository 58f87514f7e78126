----------------------------- MODULE CertsProofs -----------------------------
(***************************************************************************)
(* Theorems about the parser of certificates and keys, for all files,      *)
(* whatever their blocks hold and however far the libraries get.           *)
(***************************************************************************)
EXTENDS Certs, Lemmas

(***************************************************************************)
(* The tables                                                              *)
(***************************************************************************)

\* The keys of a dict.
LEMMA DictKeys ==
  ASSUME NEW pairs, NEW keys, \A p \in pairs : p[1] \in keys,
         \A k \in keys : \E p \in pairs : p[1] = k
  PROVE  DOMAIN Dict(pairs) = keys
<1>1. DOMAIN Dict(pairs) = {p[1] : p \in pairs}
  BY DEF Dict
<1> QED BY <1>1

\* The algorithms whose strength is fixed.
LEMMA FixedStrengths ==
  /\ DOMAIN EdwardsStrength = {<<"Ed25519">>, <<"Ed448">>}
  /\ DOMAIN MlDsaStrength = {<<"ML-DSA-44">>, <<"ML-DSA-65">>, <<"ML-DSA-87">>}
  /\ DOMAIN MlKemStrength = {<<"ML-KEM-512">>, <<"ML-KEM-768">>, <<"ML-KEM-1024">>}
  /\ DOMAIN MontgomeryStrength = {<<"X25519">>, <<"X448">>}
<1>1. DOMAIN EdwardsStrength = {<<"Ed25519">>, <<"Ed448">>}
  <2> DEFINE pairs == {<<<<"Ed25519">>, 128>>, <<<<"Ed448">>, 224>>}
             keys == {<<"Ed25519">>, <<"Ed448">>}
  <2>1. EdwardsStrength = Dict(pairs)
    BY DEF EdwardsStrength
  <2>2. \A p \in pairs : p[1] \in keys
    OBVIOUS
  <2>3. \E p \in pairs : p[1] = <<"Ed25519">>
    <3>1. <<<<"Ed25519">>, 128>> \in pairs /\ <<<<"Ed25519">>, 128>>[1] = <<"Ed25519">>
      OBVIOUS
    <3> QED BY <3>1
  <2>4. \E p \in pairs : p[1] = <<"Ed448">>
    <3>1. <<<<"Ed448">>, 224>> \in pairs /\ <<<<"Ed448">>, 224>>[1] = <<"Ed448">>
      OBVIOUS
    <3> QED BY <3>1
  <2>5. \A k \in keys : \E p \in pairs : p[1] = k
    BY <2>3, <2>4
  <2> HIDE DEF pairs, keys
  <2>6. DOMAIN Dict(pairs) = keys
    BY <2>2, <2>5, DictKeys
  <2> QED BY <2>1, <2>6 DEF keys
<1>2. DOMAIN MlDsaStrength = {<<"ML-DSA-44">>, <<"ML-DSA-65">>, <<"ML-DSA-87">>}
  <2> DEFINE pairs == {<<<<"ML-DSA-44">>, 128>>, <<<<"ML-DSA-65">>, 192>>, <<<<"ML-DSA-87">>, 256>>}
             keys == {<<"ML-DSA-44">>, <<"ML-DSA-65">>, <<"ML-DSA-87">>}
  <2>1. MlDsaStrength = Dict(pairs)
    BY DEF MlDsaStrength
  <2>2. \A p \in pairs : p[1] \in keys
    OBVIOUS
  <2>3. \E p \in pairs : p[1] = <<"ML-DSA-44">>
    <3>1. <<<<"ML-DSA-44">>, 128>> \in pairs /\ <<<<"ML-DSA-44">>, 128>>[1] = <<"ML-DSA-44">>
      OBVIOUS
    <3> QED BY <3>1
  <2>4. \E p \in pairs : p[1] = <<"ML-DSA-65">>
    <3>1. <<<<"ML-DSA-65">>, 192>> \in pairs /\ <<<<"ML-DSA-65">>, 192>>[1] = <<"ML-DSA-65">>
      OBVIOUS
    <3> QED BY <3>1
  <2>5. \E p \in pairs : p[1] = <<"ML-DSA-87">>
    <3>1. <<<<"ML-DSA-87">>, 256>> \in pairs /\ <<<<"ML-DSA-87">>, 256>>[1] = <<"ML-DSA-87">>
      OBVIOUS
    <3> QED BY <3>1
  <2>6. \A k \in keys : \E p \in pairs : p[1] = k
    BY <2>3, <2>4, <2>5
  <2> HIDE DEF pairs, keys
  <2>7. DOMAIN Dict(pairs) = keys
    BY <2>2, <2>6, DictKeys
  <2> QED BY <2>1, <2>7 DEF keys
<1>3. DOMAIN MlKemStrength = {<<"ML-KEM-512">>, <<"ML-KEM-768">>, <<"ML-KEM-1024">>}
  <2> DEFINE pairs == {<<<<"ML-KEM-512">>, 128>>, <<<<"ML-KEM-768">>, 192>>, <<<<"ML-KEM-1024">>, 256>>}
             keys == {<<"ML-KEM-512">>, <<"ML-KEM-768">>, <<"ML-KEM-1024">>}
  <2>1. MlKemStrength = Dict(pairs)
    BY DEF MlKemStrength
  <2>2. \A p \in pairs : p[1] \in keys
    OBVIOUS
  <2>3. \E p \in pairs : p[1] = <<"ML-KEM-512">>
    <3>1. <<<<"ML-KEM-512">>, 128>> \in pairs /\ <<<<"ML-KEM-512">>, 128>>[1] = <<"ML-KEM-512">>
      OBVIOUS
    <3> QED BY <3>1
  <2>4. \E p \in pairs : p[1] = <<"ML-KEM-768">>
    <3>1. <<<<"ML-KEM-768">>, 192>> \in pairs /\ <<<<"ML-KEM-768">>, 192>>[1] = <<"ML-KEM-768">>
      OBVIOUS
    <3> QED BY <3>1
  <2>5. \E p \in pairs : p[1] = <<"ML-KEM-1024">>
    <3>1. <<<<"ML-KEM-1024">>, 256>> \in pairs /\ <<<<"ML-KEM-1024">>, 256>>[1] = <<"ML-KEM-1024">>
      OBVIOUS
    <3> QED BY <3>1
  <2>6. \A k \in keys : \E p \in pairs : p[1] = k
    BY <2>3, <2>4, <2>5
  <2> HIDE DEF pairs, keys
  <2>7. DOMAIN Dict(pairs) = keys
    BY <2>2, <2>6, DictKeys
  <2> QED BY <2>1, <2>7 DEF keys
<1>4. DOMAIN MontgomeryStrength = {<<"X25519">>, <<"X448">>}
  <2> DEFINE pairs == {<<<<"X25519">>, 128>>, <<<<"X448">>, 224>>}
             keys == {<<"X25519">>, <<"X448">>}
  <2>1. MontgomeryStrength = Dict(pairs)
    BY DEF MontgomeryStrength
  <2>2. \A p \in pairs : p[1] \in keys
    OBVIOUS
  <2>3. \E p \in pairs : p[1] = <<"X25519">>
    <3>1. <<<<"X25519">>, 128>> \in pairs /\ <<<<"X25519">>, 128>>[1] = <<"X25519">>
      OBVIOUS
    <3> QED BY <3>1
  <2>4. \E p \in pairs : p[1] = <<"X448">>
    <3>1. <<<<"X448">>, 224>> \in pairs /\ <<<<"X448">>, 224>>[1] = <<"X448">>
      OBVIOUS
    <3> QED BY <3>1
  <2>5. \A k \in keys : \E p \in pairs : p[1] = k
    BY <2>3, <2>4
  <2> HIDE DEF pairs, keys
  <2>6. DOMAIN Dict(pairs) = keys
    BY <2>2, <2>5, DictKeys
  <2> QED BY <2>1, <2>6 DEF keys
<1> QED BY <1>1, <1>2, <1>3, <1>4

\* A table whose entries are named after their keys.
Titled(table) == \A a \in DOMAIN table : table[a].algorithm = a

\* Two of them, one on top of the other.
LEMMA TitledJoin ==
  ASSUME NEW s, Titled(s), NEW t, Titled(t)
  PROVE  Titled(s ++ t) /\ DOMAIN (s ++ t) = DOMAIN s \cup DOMAIN t
BY DEF Titled, ++

\* The rows of the tables are named after their keys.
LEMMA TitledRows ==
  /\ \A a : Signing(a).algorithm = a /\ Agreeing(a).algorithm = a
  /\ \A a, p, q : Entry(a, p, q).algorithm = a /\ Entry(a, p, q).purpose = q
  /\ \A a, l : Fixed(Signing(a), l).algorithm = a /\ Quantum(Signing(a), l).algorithm = a
  /\ \A a, l : Fixed(Agreeing(a), l).algorithm = a
  /\ \A a, p, q, l : Quantum(Entry(a, p, q), l).algorithm = a
BY DEF Signing, Agreeing, Entry, Fixed, Quantum

\* So is the table of signatures, ...
LEMMA SignatureTable ==
  /\ Titled(SignatureOids)
  /\ DOMAIN SignatureOids = ClassicalSignature \cup DOMAIN EdwardsStrength \cup DOMAIN MlDsaStrength
                              \cup SlhDsa
<1> DEFINE t1 == [a \in ClassicalSignature |-> Signing(a)]
           t2 == [a \in DOMAIN EdwardsStrength |-> Fixed(Signing(a), EdwardsStrength[a])]
           t3 == [a \in DOMAIN MlDsaStrength |-> Quantum(Signing(a), MlDsaStrength[a])]
           t4 == [a \in SlhDsa |-> Quantum(Signing(a), SlhDsaStrength[a[3]])]
<1>1. /\ Titled(t1) /\ Titled(t2) /\ Titled(t3) /\ Titled(t4)
      /\ DOMAIN t1 = ClassicalSignature /\ DOMAIN t2 = DOMAIN EdwardsStrength
      /\ DOMAIN t3 = DOMAIN MlDsaStrength /\ DOMAIN t4 = SlhDsa
  BY TitledRows DEF Titled
<1>2. SignatureOids = t1 ++ t2 ++ t3 ++ t4
  BY DEF SignatureOids
<1> HIDE DEF t1, t2, t3, t4
<1>3. Titled(t1 ++ t2) /\ DOMAIN (t1 ++ t2) = DOMAIN t1 \cup DOMAIN t2
  BY <1>1, TitledJoin
<1>4. Titled(t1 ++ t2 ++ t3) /\ DOMAIN (t1 ++ t2 ++ t3) = DOMAIN t1 \cup DOMAIN t2 \cup DOMAIN t3
  BY <1>1, <1>3, TitledJoin
<1>5. /\ Titled(t1 ++ t2 ++ t3 ++ t4)
      /\ DOMAIN (t1 ++ t2 ++ t3 ++ t4) = DOMAIN t1 \cup DOMAIN t2 \cup DOMAIN t3 \cup DOMAIN t4
  BY <1>1, <1>4, TitledJoin
<1> QED BY <1>1, <1>2, <1>5

\* A table of these keys that leaves open what an RSA key and a curve are for.
Public(table, keys) ==
  /\ Titled(table)
  /\ DOMAIN table = keys
  /\ {<<"RSA">>, <<"EC">>} \subseteq keys
  /\ table[<<"RSA">>].purpose = "unknown" /\ table[<<"EC">>].purpose = "unknown"

\* It stays one with more keys below it.
LEMMA PublicMore ==
  ASSUME NEW s, NEW keys, Public(s, keys), NEW t, Titled(t)
  PROVE  Public(s ++ t, keys \cup DOMAIN t)
<1>1. Titled(s) /\ DOMAIN s = keys
  BY DEF Public
<1>2. Titled(s ++ t) /\ DOMAIN (s ++ t) = keys \cup DOMAIN t
  BY <1>1, TitledJoin
<1>3. \A x \in keys : (s ++ t)[x] = s[x]
  BY <1>1 DEF ++
<1> QED BY <1>2, <1>3 DEF Public

\* The names in the table of public keys.
PublicKeys ==
  {<<"RSA">>} \cup {<<"EC">>} \cup {<<"RSASSA-PSS">>, <<"DSA">>} \cup {<<"DH">>}
    \cup DOMAIN MontgomeryStrength \cup (DOMAIN EdwardsStrength \cup DOMAIN MlDsaStrength)
    \cup DOMAIN MlKemStrength

\* So is the table of public keys.
LEMMA PublicKeyTable == Public(PublicKeyOids, PublicKeys)
<1> DEFINE t1 == [a \in {<<"RSA">>} |-> Entry(a, "pke", "unknown")]
           t2 == [a \in {<<"EC">>} |-> Entry(a, "unknown", "unknown")]
           t3 == [a \in {<<"RSASSA-PSS">>, <<"DSA">>} |-> Signing(a)]
           t4 == [a \in {<<"DH">>} |-> Agreeing(a)]
           t5 == [a \in DOMAIN MontgomeryStrength |-> Fixed(Agreeing(a), MontgomeryStrength[a])]
           t6 == [a \in DOMAIN EdwardsStrength \cup DOMAIN MlDsaStrength |-> SignatureOids[a]]
           t7 == [a \in DOMAIN MlKemStrength |->
                    Quantum(Entry(a, "kem", "key_establishment"), MlKemStrength[a])]
<1>1. /\ Titled(t1) /\ Titled(t2) /\ Titled(t3) /\ Titled(t4) /\ Titled(t5) /\ Titled(t7)
      /\ DOMAIN t1 = {<<"RSA">>} /\ DOMAIN t2 = {<<"EC">>}
      /\ DOMAIN t3 = {<<"RSASSA-PSS">>, <<"DSA">>} /\ DOMAIN t4 = {<<"DH">>}
      /\ DOMAIN t5 = DOMAIN MontgomeryStrength
      /\ DOMAIN t6 = DOMAIN EdwardsStrength \cup DOMAIN MlDsaStrength
      /\ DOMAIN t7 = DOMAIN MlKemStrength
      /\ t1[<<"RSA">>].purpose = "unknown" /\ t2[<<"EC">>].purpose = "unknown"
  BY TitledRows DEF Titled
<1>2. Titled(t6)
  BY SignatureTable DEF Titled
<1>3. PublicKeyOids = t1 ++ t2 ++ t3 ++ t4 ++ t5 ++ t6 ++ t7
  BY DEF PublicKeyOids
<1> HIDE DEF t1, t2, t3, t4, t5, t6, t7
<1>4. Public(t1 ++ t2, DOMAIN t1 \cup DOMAIN t2)
  <2>1. <<"EC">> # <<"RSA">>
    OBVIOUS
  <2>2. (t1 ++ t2)[<<"RSA">>] = t1[<<"RSA">>] /\ (t1 ++ t2)[<<"EC">>] = t2[<<"EC">>]
    BY <1>1, <2>1 DEF ++
  <2> QED BY <1>1, <2>2, TitledJoin DEF Public
<1>5. Public(t1 ++ t2 ++ t3, DOMAIN t1 \cup DOMAIN t2 \cup DOMAIN t3)
  BY <1>1, <1>4, PublicMore
<1>6. Public(t1 ++ t2 ++ t3 ++ t4, DOMAIN t1 \cup DOMAIN t2 \cup DOMAIN t3 \cup DOMAIN t4)
  BY <1>1, <1>5, PublicMore
<1>7. Public(t1 ++ t2 ++ t3 ++ t4 ++ t5,
             DOMAIN t1 \cup DOMAIN t2 \cup DOMAIN t3 \cup DOMAIN t4 \cup DOMAIN t5)
  BY <1>1, <1>6, PublicMore
<1>8. Public(t1 ++ t2 ++ t3 ++ t4 ++ t5 ++ t6,
             DOMAIN t1 \cup DOMAIN t2 \cup DOMAIN t3 \cup DOMAIN t4 \cup DOMAIN t5 \cup DOMAIN t6)
  BY <1>2, <1>7, PublicMore
<1>9. Public(t1 ++ t2 ++ t3 ++ t4 ++ t5 ++ t6 ++ t7,
             DOMAIN t1 \cup DOMAIN t2 \cup DOMAIN t3 \cup DOMAIN t4 \cup DOMAIN t5 \cup DOMAIN t6
               \cup DOMAIN t7)
  BY <1>1, <1>8, PublicMore
<1> QED BY <1>1, <1>3, <1>9 DEF PublicKeys

-----------------------------------------------------------------------------
(***************************************************************************)
(* Names                                                                   *)
(***************************************************************************)

\* The algorithms that have an entry in a table.
Titles == PublicKeys \cup DOMAIN SignatureOids

\* The titles of one part, and the others.
LEMMA TitlesAre ==
  \A a \in Titles :
    \/ a \in {<<"RSA">>, <<"EC">>, <<"RSASSA-PSS">>, <<"DSA">>, <<"DH">>, <<"X25519">>, <<"X448">>,
              <<"Ed25519">>, <<"Ed448">>, <<"ML-DSA-44">>, <<"ML-DSA-65">>, <<"ML-DSA-87">>,
              <<"ML-KEM-512">>, <<"ML-KEM-768">>, <<"ML-KEM-1024">>}
    \/ Len(a) \in 2..3 /\ DOMAIN a = 1..Len(a)
<1> SUFFICES ASSUME NEW a \in Titles PROVE
      \/ a \in {<<"RSA">>, <<"EC">>, <<"RSASSA-PSS">>, <<"DSA">>, <<"DH">>, <<"X25519">>, <<"X448">>,
                <<"Ed25519">>, <<"Ed448">>, <<"ML-DSA-44">>, <<"ML-DSA-65">>, <<"ML-DSA-87">>,
                <<"ML-KEM-512">>, <<"ML-KEM-768">>, <<"ML-KEM-1024">>}
      \/ Len(a) \in 2..3 /\ DOMAIN a = 1..Len(a)
  OBVIOUS
<1>1. CASE a \in ClassicalSignature
  <2>1. a = <<"RSASSA-PSS">> \/ \E x, y : a = <<x, y>>
    BY <1>1 DEF ClassicalSignature
  <2> QED BY <2>1
<1>2. CASE a \in SlhDsa
  <2>1. \E x, y, z : a = <<x, y, z>>
    BY <1>2 DEF SlhDsa
  <2> QED BY <2>1
<1>3. CASE a \notin ClassicalSignature /\ a \notin SlhDsa
  BY <1>3, FixedStrengths, SignatureTable DEF Titles, PublicKeys
<1> QED BY <1>1, <1>2, <1>3

\* No name that is not respelled is respelled.
LEMMA KeptNames ==
  ASSUME NEW part, part \notin DOMAIN Spelling
  PROVE  NormalizeAlgorithm(<<part>>) = <<part>>
<1>1. <<part>> # <<>> /\ Len(<<part>>) = 1 /\ DOMAIN <<part>> = 1..1
  OBVIOUS
<1>2. NormalizeAlgorithm(<<part>>) = [i \in DOMAIN <<part>> |-> Respelled(<<part>>[i])]
  BY <1>1 DEF NormalizeAlgorithm
<1>3. Respelled(part) = part
  BY DEF Respelled
<1> QED BY <1>1, <1>2, <1>3

\* Only what is unknown is called unknown, and only an RSA key and a key on a
\* curve are called that; no name of a public key is respelled.
LEMMA Names ==
  /\ NormalizeAlgorithm(<<"unknown">>) = <<"unknown">>
  /\ \A a \in Titles :
       /\ NormalizeAlgorithm(a) # <<"unknown">>
       /\ NormalizeAlgorithm(a) \in {<<"RSA">>, <<"EC">>} => a \in {<<"RSA">>, <<"EC">>}
  /\ \A a \in PublicKeys : NormalizeAlgorithm(a) = a /\ (a[1] = "RSA" => a = <<"RSA">>)
<1>2. ASSUME NEW a, Len(a) \in 2..3, DOMAIN a = 1..Len(a), NEW x
      PROVE  NormalizeAlgorithm(a) # <<x>>
  <2>1. a # <<>> /\ DOMAIN a # 1..1
    <3>1. 2 \in DOMAIN a
      BY <1>2
    <3>2. 2 \notin 1..1 /\ DOMAIN <<>> = 1..0 /\ 2 \notin 1..0
      OBVIOUS
    <3> QED BY <3>1, <3>2
  <2>2. NormalizeAlgorithm(a) = a \/ NormalizeAlgorithm(a) = [i \in DOMAIN a |-> Respelled(a[i])]
    BY <2>1 DEF NormalizeAlgorithm
  <2>3. DOMAIN NormalizeAlgorithm(a) = DOMAIN a /\ DOMAIN <<x>> = 1..1
    BY <2>2
  <2> QED BY <2>1, <2>3
<1>3. {"unknown", "RSA", "EC", "RSASSA-PSS", "DSA", "DH", "X25519", "X448", "Ed25519", "Ed448",
       "ML-DSA-44", "ML-DSA-65", "ML-DSA-87", "ML-KEM-512", "ML-KEM-768", "ML-KEM-1024"}
        \cap DOMAIN Spelling = {}
  BY DEF Spelling
<1>4. NormalizeAlgorithm(<<"unknown">>) = <<"unknown">>
  BY <1>3, KeptNames
<1>5. ASSUME NEW a \in Titles
      PROVE  /\ NormalizeAlgorithm(a) # <<"unknown">>
             /\ NormalizeAlgorithm(a) \in {<<"RSA">>, <<"EC">>} => a \in {<<"RSA">>, <<"EC">>}
  <2>1. CASE Len(a) \in 2..3 /\ DOMAIN a = 1..Len(a)
    BY <1>2, <2>1
  <2>2. CASE ~(Len(a) \in 2..3 /\ DOMAIN a = 1..Len(a))
    <3>1. NormalizeAlgorithm(a) = a /\ a # <<"unknown">>
      BY <1>3, <2>2, TitlesAre, KeptNames
    <3> QED BY <3>1
  <2> QED BY <2>1, <2>2
<1>6. ASSUME NEW a \in PublicKeys PROVE NormalizeAlgorithm(a) = a /\ (a[1] = "RSA" => a = <<"RSA">>)
  BY <1>3, FixedStrengths, KeptNames DEF PublicKeys
<1> QED BY <1>4, <1>5, <1>6

\* An entry with a name of the tables, that leaves open what an RSA key and a
\* curve are for, or the one of what is unknown.
GoodEntry(entry) ==
  \/ entry = UnknownEntry
  \/ /\ entry.algorithm \in Titles
     /\ entry.algorithm \in {<<"RSA">>, <<"EC">>} => entry.purpose = "unknown"

\* A public key is looked up among all titles.
LEMMA Lookup ==
  ASSUME NEW oid
  PROVE  LET entry == LookupPublicKey(oid, UnknownEntry)
         IN /\ GoodEntry(entry)
            /\ oid \in Titles => entry.algorithm = oid
            /\ oid \notin Titles => entry = UnknownEntry
<1>1. DOMAIN PublicKeyOids = PublicKeys /\ Titled(PublicKeyOids)
  BY PublicKeyTable DEF Public
<1>2. /\ PublicKeyOids[<<"RSA">>].purpose = "unknown" /\ PublicKeyOids[<<"EC">>].purpose = "unknown"
      /\ <<"RSA">> \in PublicKeys /\ <<"EC">> \in PublicKeys
  BY PublicKeyTable DEF Public
<1>3. CASE oid \in PublicKeys
  <2>1. LookupPublicKey(oid, UnknownEntry) = PublicKeyOids[oid] /\ oid \in Titles
    BY <1>1, <1>3 DEF LookupPublicKey, Titles
  <2>2. PublicKeyOids[oid].algorithm = oid
    BY <1>1, <1>3 DEF Titled
  <2> QED BY <1>2, <2>1, <2>2 DEF GoodEntry
<1>4. CASE oid \notin PublicKeys /\ oid \in DOMAIN SignatureOids
  <2>1. LookupPublicKey(oid, UnknownEntry) = SignatureOids[oid] /\ oid \in Titles
    BY <1>1, <1>4 DEF LookupPublicKey, LookupSignature, Titles
  <2>2. SignatureOids[oid].algorithm = oid
    BY <1>4, SignatureTable DEF Titled
  <2>3. oid \notin {<<"RSA">>, <<"EC">>}
    BY <1>2, <1>4
  <2> QED BY <2>1, <2>2, <2>3 DEF GoodEntry
<1>5. CASE oid \notin PublicKeys /\ oid \notin DOMAIN SignatureOids
  BY <1>1, <1>5 DEF LookupPublicKey, LookupSignature, Titles, GoodEntry
<1> QED BY <1>3, <1>4, <1>5

\* The unknown entry is known by its name.
LEMMA UnknownName ==
  ASSUME NEW entry, GoodEntry(entry)
  PROVE  /\ entry.algorithm = <<"unknown">> <=> entry = UnknownEntry
         /\ NormalizeAlgorithm(entry.algorithm) = <<"unknown">> <=> entry = UnknownEntry
         /\ NormalizeAlgorithm(entry.algorithm) \in {<<"RSA">>, <<"EC">>} => entry.purpose = "unknown"
<1>1. UnknownEntry.algorithm = <<"unknown">>
  BY DEF UnknownEntry, Entry
<1>2. <<"unknown">> \notin Titles
  BY Names
<1>3. <<"unknown">> \notin {<<"RSA">>, <<"EC">>}
  OBVIOUS
<1>4. CASE entry = UnknownEntry
  BY <1>1, <1>3, <1>4, Names
<1>5. CASE entry # UnknownEntry
  <2>1. entry.algorithm \in Titles /\ (entry.algorithm \in {<<"RSA">>, <<"EC">>} => entry.purpose = "unknown")
    BY <1>5 DEF GoodEntry
  <2> QED BY <1>2, <1>5, <2>1, Names
<1> QED BY <1>4, <1>5

-----------------------------------------------------------------------------
(***************************************************************************)
(* The facts of a key                                                      *)
(***************************************************************************)

\* What cryptography makes of a key, case by case.
LEMMA ObjectCases ==
  ASSUME NEW key
  PROVE  LET facts == FactsFromObject(key)
             size  == RsaStrength(key.size)
             curve == NormalizeCurve(key.curve)
         IN /\ key.oid \in {<<"RSA">>, <<"RSASSA-PSS">>} =>
                 facts = <<[KeyFacts(PublicKeyOids[<<"RSA">>], None) EXCEPT !.keySize = key.size, !.level = size]>>
            /\ key.oid = <<"EC">> =>
                 facts = <<[KeyFacts(PublicKeyOids[<<"EC">>], None) EXCEPT
                              !.keySize = key.size, !.curve = curve, !.parameterSet = curve,
                              !.level = CurveStrength(key.curve)]>>
            /\ key.oid = <<"DSA">> =>
                 facts = <<[KeyFacts(PublicKeyOids[<<"DSA">>], None) EXCEPT !.keySize = key.size]>>
            /\ key.oid \in PublicKeys \ {<<"RSA">>, <<"RSASSA-PSS">>, <<"EC">>, <<"DSA">>, <<"DH">>} =>
                 facts = <<KeyFacts(PublicKeyOids[key.oid], None)>>
            /\ key.oid \notin PublicKeys \ {<<"DH">>} => facts = <<>>
<1> DEFINE rest == DOMAIN EdwardsStrength \cup DOMAIN MontgomeryStrength \cup DOMAIN MlDsaStrength
                     \cup DOMAIN MlKemStrength
<1>1. /\ rest = PublicKeys \ {<<"RSA">>, <<"RSASSA-PSS">>, <<"EC">>, <<"DSA">>, <<"DH">>}
      /\ PublicKeys \ {<<"DH">>} = rest \cup {<<"RSA">>, <<"RSASSA-PSS">>, <<"EC">>, <<"DSA">>}
  BY FixedStrengths DEF PublicKeys
<1>2. CASE key.oid \in {<<"RSA">>, <<"RSASSA-PSS">>}
  <2>1. key.oid \notin {<<"EC">>, <<"DSA">>} /\ key.oid \notin rest /\ key.oid \in PublicKeys \ {<<"DH">>}
    BY <1>1, <1>2
  <2> QED BY <1>1, <1>2, <2>1, Zenon DEF FactsFromObject
<1>3. CASE key.oid = <<"EC">>
  <2>1. key.oid \notin {<<"RSA">>, <<"RSASSA-PSS">>, <<"DSA">>} /\ key.oid \notin rest /\ key.oid \in PublicKeys \ {<<"DH">>}
    BY <1>1, <1>3
  <2> QED BY <1>1, <1>3, <2>1, Zenon DEF FactsFromObject
<1>4. CASE key.oid = <<"DSA">>
  <2>1. key.oid \notin {<<"RSA">>, <<"RSASSA-PSS">>, <<"EC">>} /\ key.oid \notin rest /\ key.oid \in PublicKeys \ {<<"DH">>}
    BY <1>1, <1>4
  <2> QED BY <1>1, <1>4, <2>1, Zenon DEF FactsFromObject
<1>5. CASE key.oid \in rest
  <2>1. key.oid \notin {<<"RSA">>, <<"RSASSA-PSS">>, <<"EC">>, <<"DSA">>, <<"DH">>} /\ key.oid \in PublicKeys
    BY <1>1, <1>5
  <2> QED BY <1>1, <1>5, <2>1, Zenon DEF FactsFromObject
<1>6. CASE key.oid \notin PublicKeys \ {<<"DH">>}
  <2>1. key.oid \notin {<<"RSA">>, <<"RSASSA-PSS">>, <<"EC">>, <<"DSA">>} /\ key.oid \notin rest
    BY <1>1, <1>6
  <2> QED BY <1>1, <1>6, <2>1, Zenon DEF FactsFromObject
<1> QED BY <1>1, <1>2, <1>3, <1>4, <1>5, <1>6, Zenon

\* The facts of a key that any finding is made of.
GoodFacts(facts) ==
  /\ GoodEntry(facts.entry)
  /\ facts = [entry |-> facts.entry, oid |-> facts.oid, keySize |-> facts.keySize,
              curve |-> facts.curve, parameterSet |-> facts.parameterSet, level |-> facts.level]

\* They stay good when the size, the level and the curve are filled in.
LEMMA FilledIn ==
  ASSUME NEW f, GoodFacts(f), NEW size, NEW curve, NEW parameters, NEW level, NEW oid,
         NEW g, g = [entry |-> f.entry, oid |-> oid, keySize |-> size,
                     curve |-> curve, parameterSet |-> parameters, level |-> level]
  PROVE  GoodFacts(g) /\ g.entry = f.entry
BY DEF GoodFacts

\* What a library makes of a key it can read is good, and the key has a name.
LEMMA ObjectFacts ==
  ASSUME NEW key
  PROVE  LET read == FactsFromObject(key)
         IN /\ read # <<>> <=> key.oid \in PublicKeys \ {<<"DH">>}
            /\ read # <<>> => GoodFacts(read[1]) /\ read[1].entry # UnknownEntry
<1>1. ASSUME NEW a \in PublicKeys
      PROVE  GoodFacts(KeyFacts(PublicKeyOids[a], None)) /\ PublicKeyOids[a] # UnknownEntry
  <2>1. LookupPublicKey(a, UnknownEntry) = PublicKeyOids[a] /\ a \in Titles
    BY <1>1, PublicKeyTable DEF LookupPublicKey, Public, Titles
  <2>2. GoodEntry(PublicKeyOids[a]) /\ PublicKeyOids[a].algorithm = a
    BY <2>1, Lookup
  <2>3. PublicKeyOids[a] # UnknownEntry
    BY <2>1, <2>2, Names, UnknownName
  <2> QED BY <2>2, <2>3 DEF GoodFacts, KeyFacts
<1>2. ASSUME NEW f, GoodFacts(f), f.entry # UnknownEntry, NEW size, NEW curve, NEW level,
             NEW g, \/ g = [f EXCEPT !.keySize = size, !.level = level]
                    \/ g = [f EXCEPT !.keySize = size, !.curve = curve, !.parameterSet = curve, !.level = level]
                    \/ g = [f EXCEPT !.keySize = size]
      PROVE  GoodFacts(g) /\ g.entry # UnknownEntry
  <2>1. \E s, c, p, l : g = [entry |-> f.entry, oid |-> f.oid, keySize |-> s,
                              curve |-> c, parameterSet |-> p, level |-> l]
    <3>1. f = [entry |-> f.entry, oid |-> f.oid, keySize |-> f.keySize,
               curve |-> f.curve, parameterSet |-> f.parameterSet, level |-> f.level]
      BY <1>2 DEF GoodFacts
    <3>2. CASE g = [f EXCEPT !.keySize = size, !.level = level]
      <4>1. g = [entry |-> f.entry, oid |-> f.oid, keySize |-> size,
                 curve |-> f.curve, parameterSet |-> f.parameterSet, level |-> level]
        BY <3>1, <3>2
      <4> QED BY <4>1
    <3>3. CASE g = [f EXCEPT !.keySize = size, !.curve = curve, !.parameterSet = curve, !.level = level]
      <4>1. g = [entry |-> f.entry, oid |-> f.oid, keySize |-> size,
                 curve |-> curve, parameterSet |-> curve, level |-> level]
        BY <3>1, <3>3
      <4> QED BY <4>1
    <3>4. CASE g = [f EXCEPT !.keySize = size]
      <4>1. g = [entry |-> f.entry, oid |-> f.oid, keySize |-> size,
                 curve |-> f.curve, parameterSet |-> f.parameterSet, level |-> f.level]
        BY <3>1, <3>4
      <4> QED BY <4>1
    <3> QED BY <1>2, <3>2, <3>3, <3>4
  <2> QED BY <1>2, <2>1, FilledIn
<1>3. \A entry : KeyFacts(entry, None).entry = entry
  BY DEF KeyFacts
<1>4. {<<"RSA">>, <<"RSASSA-PSS">>, <<"EC">>, <<"DSA">>, <<"DH">>} \subseteq PublicKeys
  BY DEF PublicKeys
<1>5. <<"RSASSA-PSS">> # <<"DH">> /\ <<"RSA">> # <<"DH">> /\ <<"EC">> # <<"DH">> /\ <<"DSA">> # <<"DH">>
  OBVIOUS
<1>6. CASE key.oid \in {<<"RSA">>, <<"RSASSA-PSS">>}
  <2> DEFINE f == KeyFacts(PublicKeyOids[<<"RSA">>], None)
             g == [f EXCEPT !.keySize = key.size, !.level = RsaStrength(key.size)]
  <2>1. FactsFromObject(key) = <<g>>
    BY <1>6, ObjectCases
  <2>2. GoodFacts(f) /\ f.entry # UnknownEntry
    BY <1>1, <1>3, <1>4
  <2> HIDE DEF f
  <2>3. GoodFacts(g) /\ g.entry # UnknownEntry
    BY <1>2, <2>2
  <2> HIDE DEF g
  <2> QED BY <1>4, <1>5, <1>6, <2>1, <2>3
<1>7. CASE key.oid = <<"EC">>
  <2> DEFINE f == KeyFacts(PublicKeyOids[<<"EC">>], None)
             g == [f EXCEPT !.keySize = key.size, !.curve = NormalizeCurve(key.curve),
                            !.parameterSet = NormalizeCurve(key.curve), !.level = CurveStrength(key.curve)]
  <2>1. FactsFromObject(key) = <<g>>
    BY <1>7, ObjectCases
  <2>2. GoodFacts(f) /\ f.entry # UnknownEntry
    BY <1>1, <1>3, <1>4
  <2> HIDE DEF f
  <2>3. GoodFacts(g) /\ g.entry # UnknownEntry
    BY <1>2, <2>2
  <2> HIDE DEF g
  <2> QED BY <1>4, <1>5, <1>7, <2>1, <2>3
<1>8. CASE key.oid = <<"DSA">>
  <2> DEFINE f == KeyFacts(PublicKeyOids[<<"DSA">>], None)
             g == [f EXCEPT !.keySize = key.size]
  <2>1. FactsFromObject(key) = <<g>>
    BY <1>8, ObjectCases
  <2>2. GoodFacts(f) /\ f.entry # UnknownEntry
    BY <1>1, <1>3, <1>4
  <2> HIDE DEF f
  <2>3. GoodFacts(g) /\ g.entry # UnknownEntry
    BY <1>2, <2>2
  <2> HIDE DEF g
  <2> QED BY <1>4, <1>5, <1>8, <2>1, <2>3
<1>9. CASE key.oid \in PublicKeys \ {<<"RSA">>, <<"RSASSA-PSS">>, <<"EC">>, <<"DSA">>, <<"DH">>}
  <2> DEFINE g == KeyFacts(PublicKeyOids[key.oid], None)
  <2>1. FactsFromObject(key) = <<g>>
    BY <1>9, ObjectCases
  <2>2. GoodFacts(g) /\ g.entry # UnknownEntry
    BY <1>1, <1>3, <1>9
  <2> HIDE DEF g
  <2> QED BY <1>9, <2>1, <2>2
<1>10. CASE key.oid \notin PublicKeys \ {<<"DH">>}
  BY <1>10, ObjectCases
<1> QED BY <1>6, <1>7, <1>8, <1>9, <1>10

\* What the tables make of a key is good, and has the name the tables know.
LEMMA AlgorithmFacts ==
  ASSUME NEW key, NEW private
  PROVE  LET facts == FactsFromAlgorithm(key, private)
         IN /\ GoodFacts(facts)
            /\ facts.entry = LookupPublicKey(key.oid, UnknownEntry)
            /\ facts.entry = UnknownEntry <=> key.oid \notin Titles
<1> DEFINE entry == LookupPublicKey(key.oid, UnknownEntry)
           f == KeyFacts(entry, key.oid)
<1>1. /\ GoodEntry(entry)
      /\ entry = UnknownEntry <=> key.oid \notin Titles
  <2>1. /\ GoodEntry(entry)
        /\ key.oid \in Titles => entry.algorithm = key.oid
        /\ key.oid \notin Titles => entry = UnknownEntry
    BY Lookup
  <2>2. <<"unknown">> \notin Titles
    BY Names
  <2> QED BY <2>1, <2>2, UnknownName
<1> HIDE DEF entry
<1>2. GoodFacts(f) /\ f.entry = entry
  BY <1>1 DEF GoodFacts, KeyFacts
<1> HIDE DEF f
<1>3. \/ Measured(f, key, private) = f
      \/ \E curve, level : Measured(f, key, private) = [f EXCEPT !.curve = curve, !.parameterSet = curve, !.level = level]
      \/ \E size, level : Measured(f, key, private) = [f EXCEPT !.keySize = size, !.level = level]
  BY Zenon DEF Measured
<1>4. GoodFacts(Measured(f, key, private)) /\ Measured(f, key, private).entry = entry
  <2>1. CASE Measured(f, key, private) = f
    BY <1>2, <2>1
  <2>2. ASSUME NEW curve, NEW level, Measured(f, key, private) = [f EXCEPT !.curve = curve, !.parameterSet = curve, !.level = level]
        PROVE  GoodFacts(Measured(f, key, private)) /\ Measured(f, key, private).entry = entry
    BY <1>2, <2>2 DEF GoodFacts
  <2>3. ASSUME NEW size, NEW level, Measured(f, key, private) = [f EXCEPT !.keySize = size, !.level = level]
        PROVE  GoodFacts(Measured(f, key, private)) /\ Measured(f, key, private).entry = entry
    BY <1>2, <2>3 DEF GoodFacts
  <2> QED BY <1>3, <2>1, <2>2, <2>3
<1>5. FactsFromAlgorithm(key, private) = Measured(f, key, private)
  BY DEF FactsFromAlgorithm, f, entry
<1> QED BY <1>1, <1>4, <1>5 DEF entry

\* Facts that mean the same: they may differ in the identifier, in the name of the
\* parameters, and in the size of a key that is not called RSA.
SameFacts(f, g) ==
  /\ f.entry = g.entry /\ f.curve = g.curve /\ f.level = g.level
  /\ NormalizeAlgorithm(f.entry.algorithm)[1] = "RSA" => f.keySize = g.keySize

\* The two libraries make the same of a public key they have one word for.
LEMMA BothMakeTheSame ==
  ASSUME NEW key, FactsFromObject(key) # <<>>, key.oid # <<"RSASSA-PSS">>,
         key.oid = <<"EC">> => key.curve \in DOMAIN CurveOids
  PROVE  SameFacts(FactsFromObject(key)[1], FactsFromAlgorithm(key, FALSE))
<1>1. key.oid \in PublicKeys /\ key.oid # <<"DH">>
  BY ObjectFacts
<1> DEFINE entry == PublicKeyOids[key.oid]
           g == KeyFacts(entry, key.oid)
<1>2. FactsFromAlgorithm(key, FALSE) = Measured(g, key, FALSE)
  BY <1>1, PublicKeyTable DEF FactsFromAlgorithm, LookupPublicKey, Public
<1>3. entry.algorithm = key.oid
  BY <1>1, PublicKeyTable DEF Public, Titled
<1>4. CASE key.oid = <<"RSA">>
  <2>1. key.oid # <<"EC">>
    BY <1>4
  <2>2. Measured(g, key, FALSE) = [g EXCEPT !.keySize = key.size, !.level = RsaStrength(key.size)]
    BY <1>4, <2>1 DEF Measured
  <2> DEFINE r == [KeyFacts(entry, None) EXCEPT !.keySize = key.size, !.level = RsaStrength(key.size)]
  <2>3. FactsFromObject(key) = <<r>>
    BY <1>4, ObjectCases
  <2> DEFINE h == FactsFromObject(key)[1]
             a == FactsFromAlgorithm(key, FALSE)
  <2> HIDE DEF entry
  <2>4. a.entry = entry /\ a.curve = None /\ a.level = RsaStrength(key.size) /\ a.keySize = key.size
    BY <1>2, <2>2 DEF KeyFacts
  <2>5. r.entry = entry /\ r.curve = None /\ r.level = RsaStrength(key.size) /\ r.keySize = key.size
    BY DEF KeyFacts
  <2> HIDE DEF r, a
  <2>6. h = r
    BY <2>3
  <2> HIDE DEF h
  <2>7. SameFacts(h, a)
    BY <2>4, <2>5, <2>6 DEF SameFacts
  <2> QED BY <2>7 DEF h, a
<1>5. CASE key.oid = <<"EC">>
  <2>1. CurveOids[key.curve][1] = NormalizeCurve(key.curve) /\ CurveOids[key.curve][2] = CurveStrength(key.curve)
    BY <1>5 DEF NormalizeCurve, CurveStrength
  <2>2. Measured(g, key, FALSE) =
          [g EXCEPT !.curve = NormalizeCurve(key.curve), !.parameterSet = NormalizeCurve(key.curve),
                    !.level = CurveStrength(key.curve)]
    BY <1>5, <2>1 DEF Measured
  <2> DEFINE r == [KeyFacts(entry, None) EXCEPT
                      !.keySize = key.size, !.curve = NormalizeCurve(key.curve),
                      !.parameterSet = NormalizeCurve(key.curve), !.level = CurveStrength(key.curve)]
  <2>3. FactsFromObject(key) = <<r>>
    BY <1>5, ObjectCases
  <2>4. NormalizeAlgorithm(entry.algorithm)[1] # "RSA"
    BY <1>1, <1>3, <1>5, Names
  <2> DEFINE h == FactsFromObject(key)[1]
             a == FactsFromAlgorithm(key, FALSE)
  <2> HIDE DEF entry
  <2>5. a.entry = entry /\ a.curve = NormalizeCurve(key.curve) /\ a.level = CurveStrength(key.curve)
    BY <1>2, <2>2 DEF KeyFacts
  <2>6. r.entry = entry /\ r.curve = NormalizeCurve(key.curve) /\ r.level = CurveStrength(key.curve)
    BY DEF KeyFacts
  <2> HIDE DEF r, a
  <2>7. h = r
    BY <2>3
  <2> HIDE DEF h
  <2>8. SameFacts(h, a)
    BY <2>4, <2>5, <2>6, <2>7 DEF SameFacts
  <2> QED BY <2>8 DEF h, a
<1>6. CASE key.oid \notin {<<"RSA">>, <<"EC">>}
  <2>1. Measured(g, key, FALSE) = g
    BY <1>6 DEF Measured
  <2> DEFINE r == KeyFacts(entry, None)
             z == [r EXCEPT !.keySize = key.size]
  <2>2. FactsFromObject(key) = <<z>> \/ FactsFromObject(key) = <<r>>
    BY <1>1, <1>6, ObjectCases
  <2>3. NormalizeAlgorithm(entry.algorithm)[1] # "RSA"
    BY <1>1, <1>3, <1>6, Names
  <2> DEFINE h == FactsFromObject(key)[1]
             a == FactsFromAlgorithm(key, FALSE)
  <2> HIDE DEF entry
  <2>4. g.entry = entry /\ g.curve = None /\ g.level = entry.level
    BY DEF KeyFacts
  <2>5. r.entry = entry /\ r.curve = None /\ r.level = entry.level
    BY DEF KeyFacts
  <2>6. z.entry = entry /\ z.curve = None /\ z.level = entry.level
    BY DEF KeyFacts
  <2> HIDE DEF g, r, z
  <2>7. a = g
    BY <1>2, <2>1
  <2>8. h = z \/ h = r
    BY <2>2
  <2> HIDE DEF a, h
  <2>9. SameFacts(h, a)
    BY <2>3, <2>4, <2>5, <2>6, <2>7, <2>8 DEF SameFacts
  <2> QED BY <2>9 DEF h, a
<1> QED BY <1>4, <1>5, <1>6

-----------------------------------------------------------------------------
(***************************************************************************)
(* The same risk                                                           *)
(***************************************************************************)

\* Findings that differ in nothing that the risk engine looks at.
Alike(f, g) ==
  /\ f.algorithm = g.algorithm /\ f.purpose = g.purpose /\ f.primitive = g.primitive
  /\ f.status = g.status /\ f.curve = g.curve /\ f.level = g.level
  /\ f.mode = g.mode /\ f.padding = g.padding
  /\ f.assetType = g.assetType /\ f.detector = g.detector
  /\ Extra(f, "not_after") = Extra(g, "not_after")
  /\ f.algorithm[1] = "RSA" => f.keySize = g.keySize

\* They have the same risk, whatever the moment.
LEMMA AlikeAssessed ==
  ASSUME NEW f, NEW g, Alike(f, g), NEW now
  PROVE  Migration(f) = Migration(g) /\ Assess(f, now) = Assess(g, now)
<1>1. Migration(f) = Migration(g)
  BY DEF Alike, Migration, ShorBreakable, GroverResistant
<1>2. VerificationReasons(f) = VerificationReasons(g)
  BY DEF Alike, VerificationReasons
<1>3. BrokenReasons(f) = BrokenReasons(g)
  <2>1. IsSecurityCritical(f) <=> IsSecurityCritical(g)
    BY DEF Alike, IsSecurityCritical
  <2>2. f.algorithm = g.algorithm
    BY DEF Alike
  <2> QED BY <2>1, <2>2, Zenon DEF BrokenReasons
<1>4. ModeReasons(f) = ModeReasons(g) /\ PaddingReasons(f) = PaddingReasons(g)
  BY DEF Alike, ModeReasons, PaddingReasons
<1>5. KeySizeReasons(f) = KeySizeReasons(g)
  <2>1. f.curve = g.curve /\ f.level = g.level /\ f.algorithm = g.algorithm
    BY DEF Alike
  <2>2. CASE f.algorithm[1] = "RSA"
    <3>1. f.keySize = g.keySize
      BY <2>2 DEF Alike
    <3> QED BY <2>1, <3>1 DEF KeySizeReasons
  <2>3. CASE f.algorithm[1] # "RSA"
    BY <2>1, <2>3 DEF KeySizeReasons
  <2> QED BY <2>2, <2>3
<1>6. ExpiryReasons(f, now) = ExpiryReasons(g, now) /\ OutlivedDeadline(f, now) = OutlivedDeadline(g, now)
  BY DEF Alike, ExpiryReasons, OutlivedDeadline
<1>7. ClassicalReasons(f, now) = ClassicalReasons(g, now)
  BY <1>2, <1>3, <1>4, <1>5, <1>6, Zenon DEF ClassicalReasons
<1>8. QuantumReasons(f, now) = QuantumReasons(g, now)
  <2>1. QuantumRisk(f.purpose) = QuantumRisk(g.purpose)
    BY DEF Alike
  <2> QED BY <1>1, <1>6, <2>1, Zenon DEF QuantumReasons
<1>9. Assess(f, now) = Assess(g, now)
  BY <1>7, <1>8, Zenon DEF Assess
<1> QED BY <1>1, <1>9

\* Of facts that mean the same, findings of the same kind are alike.
LEMMA SameFinding ==
  ASSUME NEW f, NEW g, SameFacts(f, g), NEW n, NEW m, NEW c, NEW d, NEW of, NEW as,
         of.assetType = as.assetType, of.detector = as.detector,
         Extra(of, "not_after") = Extra(as, "not_after")
  PROVE  Alike(FindingOf(f, n, c, of), FindingOf(g, m, d, as))
<1> DEFINE x == FindingOf(f, n, c, of)
           y == FindingOf(g, m, d, as)
<1>1. /\ x.algorithm = NormalizeAlgorithm(f.entry.algorithm) /\ x.purpose = f.entry.purpose
      /\ x.primitive = f.entry.primitive /\ x.status = f.entry.status /\ x.curve = f.curve
      /\ x.level = f.level /\ x.mode = "unknown" /\ x.padding = "unknown"
      /\ x.assetType = of.assetType /\ x.detector = of.detector /\ x.extra = of.extra
      /\ x.keySize = f.keySize
  BY DEF FindingOf
<1>2. /\ y.algorithm = NormalizeAlgorithm(g.entry.algorithm) /\ y.purpose = g.entry.purpose
      /\ y.primitive = g.entry.primitive /\ y.status = g.entry.status /\ y.curve = g.curve
      /\ y.level = g.level /\ y.mode = "unknown" /\ y.padding = "unknown"
      /\ y.assetType = as.assetType /\ y.detector = as.detector /\ y.extra = as.extra
      /\ y.keySize = g.keySize
  BY DEF FindingOf
<1>3. /\ f.entry = g.entry /\ f.curve = g.curve /\ f.level = g.level
      /\ NormalizeAlgorithm(f.entry.algorithm)[1] = "RSA" => f.keySize = g.keySize
  BY DEF SameFacts
<1>4. Extra(x, "not_after") = Extra(of, "not_after") /\ Extra(y, "not_after") = Extra(as, "not_after")
  BY <1>1, <1>2 DEF Extra
<1> HIDE DEF x, y
<1>5. Alike(x, y)
  BY <1>1, <1>2, <1>3, <1>4 DEF Alike
<1> QED BY <1>5 DEF x, y

-----------------------------------------------------------------------------
(***************************************************************************)
(* What a block gives                                                      *)
(***************************************************************************)

\* The flags a reader has found.
Flags(metadata) == IF "key_usage" \in DOMAIN metadata THEN metadata.key_usage ELSE {}

\* The metadata of a certificate: its dates, its usage and the rest.
Composed(metadata, o, flags, rest) ==
  /\ metadata = Dates(o) ++ Usage(o, flags) ++ rest
  /\ {"not_after", "key_usage"} \cap DOMAIN rest = {}

\* What they say, whoever read it.
LEMMA MetadataSay ==
  ASSUME NEW o, NEW flags, NEW rest, NEW metadata, Composed(metadata, o, flags, rest)
  PROVE  /\ IF "dates" \in o.hidden THEN "not_after" \notin DOMAIN metadata
            ELSE "not_after" \in DOMAIN metadata /\ metadata["not_after"] = o.notAfter
         /\ Flags(metadata) = IF o.usage = None THEN {} ELSE flags
         /\ "parser" \in DOMAIN metadata <=> "parser" \in DOMAIN rest
         /\ "parser" \in DOMAIN rest => metadata["parser"] = rest["parser"]
<1> DEFINE dates == Dates(o)
           usage == Usage(o, flags)
<1>1. \A x : x \notin DOMAIN <<>>
  OBVIOUS
<1>2. /\ IF "dates" \in o.hidden THEN DOMAIN dates = {}
         ELSE DOMAIN dates = {"not_after"} /\ dates["not_after"] = o.notAfter
      /\ IF o.usage = None THEN DOMAIN usage = {}
         ELSE DOMAIN usage = {"key_usage"} /\ usage["key_usage"] = flags
  BY <1>1 DEF Dates, Usage
<1> HIDE DEF dates, usage
<1>3. /\ DOMAIN metadata = DOMAIN dates \cup DOMAIN usage \cup DOMAIN rest
      /\ \A k \in DOMAIN metadata :
           metadata[k] = IF k \in DOMAIN dates THEN dates[k]
                         ELSE IF k \in DOMAIN usage THEN usage[k] ELSE rest[k]
  <2>1. metadata = dates ++ usage ++ rest
    BY DEF dates, usage, Composed
  <2> DEFINE top == dates ++ usage
  <2>2. DOMAIN top = DOMAIN dates \cup DOMAIN usage
        /\ \A k \in DOMAIN top : top[k] = IF k \in DOMAIN dates THEN dates[k] ELSE usage[k]
    BY DEF ++
  <2>3. metadata = top ++ rest
    BY <2>1
  <2> HIDE DEF top
  <2>4. DOMAIN metadata = DOMAIN top \cup DOMAIN rest
        /\ \A k \in DOMAIN metadata : metadata[k] = IF k \in DOMAIN top THEN top[k] ELSE rest[k]
    BY <2>3 DEF ++
  <2> QED BY <2>2, <2>4
<1>4. /\ "not_after" # "key_usage" /\ "parser" # "key_usage" /\ "parser" # "not_after"
      /\ "not_after" \notin DOMAIN rest /\ "key_usage" \notin DOMAIN rest
  BY DEF Composed
<1>5. IF "dates" \in o.hidden THEN "not_after" \notin DOMAIN metadata
      ELSE "not_after" \in DOMAIN metadata /\ metadata["not_after"] = o.notAfter
  BY <1>2, <1>3, <1>4
<1>6. Flags(metadata) = IF o.usage = None THEN {} ELSE flags
  BY <1>2, <1>3, <1>4 DEF Flags
<1>7. /\ "parser" \in DOMAIN metadata <=> "parser" \in DOMAIN rest
      /\ "parser" \in DOMAIN rest => metadata["parser"] = rest["parser"]
  BY <1>2, <1>3, <1>4
<1> QED BY <1>5, <1>6, <1>7

\* What a certificate says of its key, by the reader that read it.
Said(o, p, flags, reader) ==
  /\ IF "dates" \in o.hidden THEN "not_after" \notin DOMAIN p.metadata
     ELSE "not_after" \in DOMAIN p.metadata /\ p.metadata["not_after"] = o.notAfter
  /\ Flags(p.metadata) = IF o.usage = None THEN {} ELSE flags
  /\ Extra([extra |-> p.metadata], "parser") = reader

\* cryptography says this, ...
LEMMA CryptographySays ==
  ASSUME NEW o, ViaCryptography(o) # <<>>
  PROVE  LET p == ViaCryptography(o)[1]
         IN /\ o.form = "certificate" /\ ViaCryptography(o) = <<p>>
            /\ p.signature = Read(o, "signature", o.signature)
            /\ p.key = IF o.pyca = "all" THEN FactsFromObject(o.key) ELSE <<>>
            /\ Said(o, p, UsageViaCryptography(o.usage), None)
<1> DEFINE rest == [artifact |-> "x509_certificate", is_ca |-> o.ca,
                    subject |-> IdentityRead(o, "cryptography")]
           metadata == Dates(o) ++ Usage(o, UsageViaCryptography(o.usage)) ++ rest
           p == [signature |-> Read(o, "signature", o.signature),
                 key |-> IF o.pyca = "all" THEN FactsFromObject(o.key) ELSE <<>>,
                 metadata |-> metadata]
<1>1. o.form = "certificate" /\ ViaCryptography(o) = <<p>>
  BY DEF ViaCryptography
<1>2. {"not_after", "key_usage"} \cap DOMAIN rest = {} /\ "parser" \notin DOMAIN rest
  OBVIOUS
<1>3. Composed(metadata, o, UsageViaCryptography(o.usage), rest)
  BY <1>2 DEF Composed
<1> HIDE DEF rest, metadata
<1>4. /\ IF "dates" \in o.hidden THEN "not_after" \notin DOMAIN metadata
         ELSE "not_after" \in DOMAIN metadata /\ metadata["not_after"] = o.notAfter
      /\ Flags(metadata) = IF o.usage = None THEN {} ELSE UsageViaCryptography(o.usage)
      /\ "parser" \notin DOMAIN metadata
  BY <1>2, <1>3, MetadataSay
<1>5. /\ p.metadata = metadata /\ p.signature = Read(o, "signature", o.signature)
      /\ p.key = IF o.pyca = "all" THEN FactsFromObject(o.key) ELSE <<>>
  OBVIOUS
<1> HIDE DEF p
<1>6. Said(o, p, UsageViaCryptography(o.usage), None)
  BY <1>4, <1>5 DEF Said, Extra
<1>7. ViaCryptography(o)[1] = p
  BY <1>1
<1> QED BY <1>1, <1>5, <1>6, <1>7

\* ... and asn1crypto that.
LEMMA Asn1cryptoSays ==
  ASSUME NEW o, ViaAsn1crypto(o) # <<>>
  PROVE  LET p == ViaAsn1crypto(o)[1]
         IN /\ o.form = "certificate" /\ ViaAsn1crypto(o) = <<p>>
            /\ "signature" \notin o.hidden /\ p.signature = o.signature
            /\ p.key = IF o.asn1 = "all" THEN <<FactsFromAlgorithm(o.key, FALSE)>> ELSE <<>>
            /\ Said(o, p, UsageViaAsn1crypto(o.usage), "asn1crypto")
<1> DEFINE rest == [artifact |-> "x509_certificate", parser |-> "asn1crypto",
                    subject |-> IdentityRead(o, "asn1crypto")]
           metadata == Dates(o) ++ Usage(o, UsageViaAsn1crypto(o.usage)) ++ rest
           p == [signature |-> o.signature,
                 key |-> IF o.asn1 = "all" THEN <<FactsFromAlgorithm(o.key, FALSE)>> ELSE <<>>,
                 metadata |-> metadata]
<1>1. o.form = "certificate" /\ "signature" \notin o.hidden /\ ViaAsn1crypto(o) = <<p>>
  BY DEF ViaAsn1crypto
<1>2. /\ {"not_after", "key_usage"} \cap DOMAIN rest = {}
      /\ "parser" \in DOMAIN rest /\ rest["parser"] = "asn1crypto"
  OBVIOUS
<1>3. Composed(metadata, o, UsageViaAsn1crypto(o.usage), rest)
  BY <1>2 DEF Composed
<1> HIDE DEF rest, metadata
<1>4. /\ IF "dates" \in o.hidden THEN "not_after" \notin DOMAIN metadata
         ELSE "not_after" \in DOMAIN metadata /\ metadata["not_after"] = o.notAfter
      /\ Flags(metadata) = IF o.usage = None THEN {} ELSE UsageViaAsn1crypto(o.usage)
      /\ "parser" \in DOMAIN metadata /\ metadata["parser"] = "asn1crypto"
  BY <1>2, <1>3, MetadataSay
<1>5. /\ p.metadata = metadata /\ p.signature = o.signature
      /\ p.key = IF o.asn1 = "all" THEN <<FactsFromAlgorithm(o.key, FALSE)>> ELSE <<>>
  OBVIOUS
<1> HIDE DEF p
<1>6. Said(o, p, UsageViaAsn1crypto(o.usage), "asn1crypto")
  BY <1>4, <1>5 DEF Said, Extra
<1>7. ViaAsn1crypto(o)[1] = p
  BY <1>1
<1> QED BY <1>1, <1>5, <1>6, <1>7

\* What a certificate says, by one reader or the other.
Parsed(p, o) == ViaCryptography(o) = <<p>> \/ ViaAsn1crypto(o) = <<p>>

\* What is known of a key, by one library or the other.
KeyRead(facts, o, private) ==
  KeyViaCryptography(o, private) = <<facts>> \/ KeyViaAsn1crypto(o, private) = <<facts>>

\* What a finding of an object may be.
FromCertificate(x, o, f) == \E p, c : Parsed(p, o) /\ x = CertificateFinding(p, f, c)
FromSignature(x, o, f) == \E p, c : Parsed(p, o) /\ x = SignatureFinding(p.signature, f, c)
FromKey(x, o, f, private) == \E facts, c : KeyRead(facts, o, private) /\ x = FindingOf(facts, f, c, OfKey(private))

FindingIn(x, o, f) ==
  \/ FromCertificate(x, o, f)
  \/ FromSignature(x, o, f)
  \/ \E private \in BOOLEAN : FromKey(x, o, f, private)
  \/ x = OpaqueFinding(f)

\* Each of a list is.
FindingsIn(s, o, f) == IsSequence(s) /\ \A i \in DOMAIN s : FindingIn(s[i], o, f)

\* A list of none, of one or of two.
LEMMA ShortLists ==
  ASSUME NEW o, NEW f
  PROVE  /\ FindingsIn(<<>>, o, f)
         /\ \A x : FindingIn(x, o, f) => FindingsIn(<<x>>, o, f)
         /\ \A x, y : FindingIn(x, o, f) /\ FindingIn(y, o, f) => FindingsIn(<<x, y>>, o, f)
<1>1. IsSequence(<<>>) /\ DOMAIN <<>> = {}
  BY DEF IsSequence
<1>2. ASSUME NEW x, FindingIn(x, o, f) PROVE FindingsIn(<<x>>, o, f)
  <2>1. <<x>> \in Seq({x}) /\ DOMAIN <<x>> = {1} /\ <<x>>[1] = x
    OBVIOUS
  <2> QED BY <1>2, <2>1 DEF FindingsIn, IsSequence
<1>3. ASSUME NEW x, NEW y, FindingIn(x, o, f), FindingIn(y, o, f) PROVE FindingsIn(<<x, y>>, o, f)
  <2>1. <<x, y>> \in Seq({x, y}) /\ DOMAIN <<x, y>> = {1, 2} /\ <<x, y>>[1] = x /\ <<x, y>>[2] = y
    OBVIOUS
  <2> QED BY <1>3, <2>1 DEF FindingsIn, IsSequence
<1> QED BY <1>1, <1>2, <1>3 DEF FindingsIn

\* A reading is empty or of one element.
LEMMA ReadingsAre ==
  ASSUME NEW o
  PROVE  /\ ViaCryptography(o) = <<>> \/ \E p : ViaCryptography(o) = <<p>>
         /\ ViaAsn1crypto(o) = <<>> \/ \E p : ViaAsn1crypto(o) = <<p>>
         /\ \A private : KeyViaAsn1crypto(o, private) = <<>> \/ \E f : KeyViaAsn1crypto(o, private) = <<f>>
         /\ \A private : KeyViaCryptography(o, private) = <<>> \/ \E f : KeyViaCryptography(o, private) = <<f>>
<1>1. FactsFromObject(o.key) = <<>> \/ \E f : FactsFromObject(o.key) = <<f>>
  BY ObjectCases
<1> QED BY <1>1, CryptographySays, Asn1cryptoSays DEF KeyViaAsn1crypto, KeyViaCryptography

\* A certificate gives what its readers read.
LEMMA CertificateGives ==
  ASSUME NEW o, NEW f
  PROVE  FindingsIn(ParseCertificate(o, f), o, f)
<1>1. ASSUME NEW s, s = <<>> \/ s = ViaCryptography(o) \/ s = ViaAsn1crypto(o), NEW c
      PROVE  FindingsIn(CertificateFindings(s, f, c), o, f)
  <2>1. CASE s = <<>>
    BY <2>1, ShortLists DEF CertificateFindings
  <2>2. CASE s # <<>>
    <3>1. PICK p : s = <<p>> /\ Parsed(p, o)
      BY <1>1, <2>2, ReadingsAre DEF Parsed
    <3>2. FindingIn(CertificateFinding(p, f, c), o, f) /\ FindingIn(SignatureFinding(p.signature, f, c), o, f)
      BY <3>1 DEF FindingIn, FromCertificate, FromSignature
    <3>3. CertificateFindings(s, f, c) = <<CertificateFinding(p, f, c), SignatureFinding(p.signature, f, c)>>
      BY <2>2, <3>1 DEF CertificateFindings
    <3> QED BY <3>2, <3>3, ShortLists
  <2> QED BY <2>1, <2>2
<1>2. \E s, c : /\ s = <<>> \/ s = ViaCryptography(o) \/ s = ViaAsn1crypto(o)
                /\ ParseCertificate(o, f) = CertificateFindings(s, f, c)
  BY Zenon DEF ParseCertificate, After, FallBack
<1> QED BY <1>1, <1>2

\* So does a key.
LEMMA KeyGives ==
  ASSUME NEW o, NEW f, NEW private \in BOOLEAN
  PROVE  FindingsIn(ParseKey(o, f, private), o, f)
<1>1. ASSUME NEW s, s = KeyViaCryptography(o, private) \/ s = KeyViaAsn1crypto(o, private), NEW c
      PROVE  FindingsIn(KeyFinding(s, f, private, c), o, f)
  <2>1. CASE s = <<>>
    BY <2>1, ShortLists DEF KeyFinding
  <2>2. CASE s # <<>>
    <3>1. PICK facts : s = <<facts>> /\ KeyRead(facts, o, private)
      BY <1>1, <2>2, ReadingsAre DEF KeyRead
    <3>2. FindingIn(FindingOf(facts, f, c, OfKey(private)), o, f)
      BY <3>1 DEF FindingIn, FromKey
    <3>3. KeyFinding(s, f, private, c) = <<FindingOf(facts, f, c, OfKey(private))>>
      BY <2>2, <3>1 DEF KeyFinding
    <3> QED BY <3>2, <3>3, ShortLists
  <2> QED BY <2>1, <2>2
<1>2. \E s, c : /\ s = KeyViaCryptography(o, private) \/ s = KeyViaAsn1crypto(o, private)
                /\ ParseKey(o, f, private) = KeyFinding(s, f, private, c)
  BY Zenon DEF ParseKey
<1> QED BY <1>1, <1>2

\* A block gives what is in it.
LEMMA BlockGives ==
  ASSUME NEW b, NEW f
  PROVE  FindingsIn(ParseBlock(b, f), b.object, f)
<1> DEFINE o == b.object
<1>1. FindingsIn(<<>>, o, f) /\ FindingsIn(<<OpaqueFinding(f)>>, o, f)
  BY ShortLists DEF FindingIn
<1>2. FindingsIn(ParseCertificate(o, f), o, f)
  BY CertificateGives
<1>3. FindingsIn(ParseKey(o, f, TRUE), o, f) /\ FindingsIn(ParseKey(o, f, FALSE), o, f)
  BY KeyGives
<1> DEFINE ways == {<<>>, <<OpaqueFinding(f)>>, ParseCertificate(o, f), ParseKey(o, f, TRUE), ParseKey(o, f, FALSE)}
<1>4. ParseBlock(b, f) \in ways
  <2>1. \A c, d, e : FirstFound(c, d, e) \in {c, d, e}
    BY DEF FirstFound
  <2>2. FirstFound(ParseCertificate(o, f), ParseKey(o, f, FALSE), ParseKey(o, f, TRUE)) \in ways
    BY <2>1
  <2> HIDE DEF o
  <2>3. b.label \in {"encrypted private key", "private key", "public key", "certificate", "request"} \/ b.label = None
        => ParseBlock(b, f) \in ways
    BY <2>2, NoneAssumption, Zenon DEF ParseBlock, o
  <2> QED BY <2>3, Zenon DEF ParseBlock, o
<1> QED BY <1>1, <1>2, <1>3, <1>4

-----------------------------------------------------------------------------
(***************************************************************************)
(* The two readers                                                         *)
(***************************************************************************)

\* Facts mean the same as themselves, and as what means the same as they.
LEMMA SameFactsEquivalence ==
  /\ \A f : SameFacts(f, f)
  /\ \A f, g : SameFacts(f, g) => SameFacts(g, f)
  /\ \A f, g, h : SameFacts(f, g) /\ SameFacts(g, h) => SameFacts(f, h)
BY DEF SameFacts

\* What is in a finding of facts.
LEMMA FindingSays ==
  ASSUME NEW facts, NEW f, NEW c, NEW of
  PROVE  LET x == FindingOf(facts, f, c, of)
         IN /\ x.algorithm = NormalizeAlgorithm(facts.entry.algorithm)
            /\ x.purpose = facts.entry.purpose /\ x.primitive = facts.entry.primitive
            /\ x.status = facts.entry.status /\ x.curve = facts.curve /\ x.level = facts.level
            /\ x.mode = "unknown" /\ x.padding = "unknown" /\ x.keySize = facts.keySize
            /\ x.assetType = of.assetType /\ x.detector = of.detector /\ x.extra = of.extra
            /\ x.file = f /\ x.confidence = Confidence(facts.entry, c)
BY DEF FindingOf

\* The key of a certificate, and what it is for.
LEMMA CertificateSays ==
  ASSUME NEW p, NEW f, NEW c, p.key # <<>>
  PROVE  LET x == CertificateFinding(p, f, c)
             facts == p.key[1]
             refined == RefineFromKeyUsage(facts.entry, p.metadata)
         IN /\ x.algorithm = NormalizeAlgorithm(facts.entry.algorithm)
            /\ x.purpose = refined[1] /\ x.primitive = refined[2]
            /\ x.status = facts.entry.status /\ x.curve = facts.curve /\ x.level = facts.level
            /\ x.mode = "unknown" /\ x.padding = "unknown" /\ x.keySize = facts.keySize
            /\ x.assetType = "certificate" /\ x.detector = "certs.certificate" /\ x.extra = p.metadata
            /\ x.file = f /\ x.confidence = Confidence(facts.entry, c)
<1> DEFINE facts == p.key[1]
           refined == RefineFromKeyUsage(facts.entry, p.metadata)
           of == OfCertificate(p.metadata)
           y == FindingOf(facts, f, c, of)
           x == [y EXCEPT !.purpose = refined[1], !.primitive = refined[2]]
<1>1. CertificateFinding(p, f, c) = x
  BY DEF CertificateFinding
<1>2. of.assetType = "certificate" /\ of.detector = "certs.certificate" /\ of.extra = p.metadata
  BY DEF OfCertificate
<1> HIDE DEF of, facts, refined
<1>3. /\ x.algorithm = NormalizeAlgorithm(facts.entry.algorithm)
      /\ x.purpose = refined[1] /\ x.primitive = refined[2]
      /\ x.status = facts.entry.status /\ x.curve = facts.curve /\ x.level = facts.level
      /\ x.mode = "unknown" /\ x.padding = "unknown" /\ x.keySize = facts.keySize
      /\ x.assetType = of.assetType /\ x.detector = of.detector /\ x.extra = of.extra
      /\ x.file = f /\ x.confidence = Confidence(facts.entry, c)
  BY DEF FindingOf
<1> HIDE DEF x
<1> QED BY <1>1, <1>2, <1>3 DEF facts, refined

\* A certificate without a key that can be read.
LEMMA KeylessSays ==
  ASSUME NEW p, NEW f, NEW c, p.key = <<>>
  PROVE  LET x == CertificateFinding(p, f, c)
         IN /\ x.algorithm = <<"unknown">> /\ x.detector = "certs.certificate"
            /\ x.file = f /\ x.confidence = ConfidenceUnknownOid
<1> DEFINE facts == KeyFacts(UnknownEntry, None)
           of == OfCertificate(p.metadata)
<1>1. CertificateFinding(p, f, c) = FindingOf(facts, f, c, of)
  BY DEF CertificateFinding
<1>2. facts.entry = UnknownEntry /\ UnknownEntry.algorithm = <<"unknown">>
  BY DEF KeyFacts, UnknownEntry, Entry
<1>3. of.detector = "certs.certificate"
  BY DEF OfCertificate
<1> HIDE DEF facts, of
<1> QED BY <1>1, <1>2, <1>3, FindingSays, Names DEF Confidence

\* The signature of a certificate.
SignatureFacts(oid) == KeyFacts(LookupSignature(oid, UnknownSignature), oid)

\* Each kind of finding has its detector, and what is opaque has no name.
LEMMA Kinds ==
  ASSUME NEW x, NEW o, NEW f
  PROVE  /\ FromCertificate(x, o, f) => x.detector = "certs.certificate"
         /\ FromSignature(x, o, f) => x.detector = "certs.signature_algorithm"
         /\ \A private : FromKey(x, o, f, private) => x.detector = "certs.key"
         /\ x = OpaqueFinding(f) => x.detector = "certs.opaque" /\ x.algorithm = <<"unknown">>
<1>1. \A m : OfCertificate(m).detector = "certs.certificate"
  BY DEF OfCertificate
<1>2. \A known : OfSignature(known).detector = "certs.signature_algorithm"
  BY DEF OfSignature
<1>3. \A private : OfKey(private).detector = "certs.key"
  BY DEF OfKey
<1>4. OfOpaque.detector = "certs.opaque"
  BY DEF OfOpaque
<1>5. KeyFacts(UnknownEntry, None).entry.algorithm = <<"unknown">>
  BY DEF KeyFacts, UnknownEntry, Entry
<1>6. FromCertificate(x, o, f) => x.detector = "certs.certificate"
  BY CertificateSays, KeylessSays DEF FromCertificate
<1>7. FromSignature(x, o, f) => x.detector = "certs.signature_algorithm"
  BY <1>2, FindingSays DEF FromSignature, SignatureFinding
<1>8. \A private : FromKey(x, o, f, private) => x.detector = "certs.key"
  BY <1>3, FindingSays DEF FromKey
<1>9. x = OpaqueFinding(f) => x.detector = "certs.opaque" /\ x.algorithm = <<"unknown">>
  <2>1. FindingOf(KeyFacts(UnknownEntry, None), f, ConfidenceUnknownOid, OfOpaque).algorithm = <<"unknown">>
    BY <1>5, FindingSays, Names
  <2> QED BY <1>4, <2>1, FindingSays DEF OpaqueFinding
<1> QED BY <1>6, <1>7, <1>8, <1>9

\* What a certificate means, whoever read it.
Means(p, o) ==
  /\ p.key # <<>>
  /\ SameFacts(p.key[1], FactsFromAlgorithm(o.key, FALSE))
  /\ Flags(p.metadata) = IF o.usage = None THEN {} ELSE UsageViaCryptography(o.usage)
  /\ Extra([extra |-> p.metadata], "not_after") = IF "dates" \in o.hidden THEN None ELSE o.notAfter

\* When it ends, as its metadata have it.
LEMMA EndIs ==
  ASSUME NEW o, NEW p, NEW flags, NEW reader, Said(o, p, flags, reader)
  PROVE  Extra([extra |-> p.metadata], "not_after") = IF "dates" \in o.hidden THEN None ELSE o.notAfter
<1> DEFINE e == [extra |-> p.metadata]
<1>1. e.extra = p.metadata
  OBVIOUS
<1> HIDE DEF e
<1>2. Extra(e, "not_after") = IF "not_after" \in DOMAIN p.metadata THEN p.metadata["not_after"] ELSE None
  BY <1>1 DEF Extra
<1>3. IF "dates" \in o.hidden THEN "not_after" \notin DOMAIN p.metadata
      ELSE "not_after" \in DOMAIN p.metadata /\ p.metadata["not_after"] = o.notAfter
  BY DEF Said
<1>4. Extra(e, "not_after") = IF "dates" \in o.hidden THEN None ELSE o.notAfter
  BY <1>2, <1>3
<1> QED BY <1>4 DEF e

\* A key that is read and has a name means the same to both libraries.
LEMMA KeyMeans ==
  ASSUME NEW o, SameWords(o), NEW facts,
         FactsFromObject(o.key) = <<facts>> \/ facts = FactsFromAlgorithm(o.key, FALSE)
  PROVE  SameFacts(facts, FactsFromAlgorithm(o.key, FALSE))
<1>1. CASE facts = FactsFromAlgorithm(o.key, FALSE)
  BY <1>1, SameFactsEquivalence
<1>2. CASE FactsFromObject(o.key) = <<facts>>
  <2>1. FactsFromObject(o.key) # <<>> /\ FactsFromObject(o.key)[1] = facts
    BY <1>2
  <2>2. o.key.oid # <<"RSASSA-PSS">> /\ (o.key.oid = <<"EC">> => o.key.curve \in DOMAIN CurveOids)
    BY DEF SameWords
  <2> QED BY <2>1, <2>2, BothMakeTheSame
<1> QED BY <1>1, <1>2

\* So does a certificate.
LEMMA CertificateMeans ==
  ASSUME NEW o, SameWords(o), NEW p, Parsed(p, o), p.key # <<>>
  PROVE  Means(p, o)
<1>1. CASE ViaCryptography(o) = <<p>>
  <2>1. ViaCryptography(o) # <<>> /\ ViaCryptography(o)[1] = p
    BY <1>1
  <2>2. /\ p.key = IF o.pyca = "all" THEN FactsFromObject(o.key) ELSE <<>>
        /\ Said(o, p, UsageViaCryptography(o.usage), None)
    BY <2>1, CryptographySays
  <2>3. p.key = FactsFromObject(o.key)
    BY <2>2
  <2>4. FactsFromObject(o.key) = <<p.key[1]>>
    <3>1. PICK facts : FactsFromObject(o.key) = <<facts>>
      BY <2>3, ObjectCases
    <3> QED BY <2>3, <3>1
  <2>5. SameFacts(p.key[1], FactsFromAlgorithm(o.key, FALSE))
    BY <2>4, KeyMeans
  <2> QED BY <2>2, <2>5, EndIs DEF Means, Said
<1>2. CASE ViaAsn1crypto(o) = <<p>>
  <2>1. ViaAsn1crypto(o) # <<>> /\ ViaAsn1crypto(o)[1] = p
    BY <1>2
  <2>2. /\ p.key = IF o.asn1 = "all" THEN <<FactsFromAlgorithm(o.key, FALSE)>> ELSE <<>>
        /\ Said(o, p, UsageViaAsn1crypto(o.usage), "asn1crypto")
    BY <2>1, Asn1cryptoSays
  <2>3. p.key = <<FactsFromAlgorithm(o.key, FALSE)>>
    BY <2>2
  <2>4. SameFacts(p.key[1], FactsFromAlgorithm(o.key, FALSE))
    <3>1. p.key[1] = FactsFromAlgorithm(o.key, FALSE)
      BY <2>3
    <3> QED BY <3>1, SameFactsEquivalence
  <2>5. o.usage # None => UsageViaCryptography(o.usage) = UsageViaAsn1crypto(o.usage)
    BY DEF SameWords, SameUsage
  <2> QED BY <2>2, <2>4, <2>5, EndIs DEF Means, Said
<1> QED BY <1>1, <1>2 DEF Parsed

\* What a key is for follows from its entry and from the flags.
LEMMA RefinedBy ==
  ASSUME NEW entry, NEW m, NEW n, Flags(m) = Flags(n)
  PROVE  RefineFromKeyUsage(entry, m) = RefineFromKeyUsage(entry, n)
BY Zenon DEF RefineFromKeyUsage, Flags

\* Contents that differ only in how far the libraries get.
Equal(o, p) ==
  /\ o.form = p.form /\ o.key = p.key /\ o.signature = p.signature
  /\ o.notAfter = p.notAfter /\ o.usage = p.usage /\ o.hidden = p.hidden

\* Certificates that mean the same have findings that are alike.
LEMMA AlikeCertificates ==
  ASSUME NEW o, NEW p, Means(p, o), NEW u, NEW q, Means(q, u), Equal(o, u),
         NEW f, NEW c, NEW g, NEW d
  PROVE  Alike(CertificateFinding(p, f, c), CertificateFinding(q, g, d))
<1> DEFINE x == CertificateFinding(p, f, c)
           y == CertificateFinding(q, g, d)
           a == p.key[1]
           b == q.key[1]
<1>1. p.key # <<>> /\ q.key # <<>>
  BY DEF Means
<1>2. SameFacts(a, b)
  <2>1. SameFacts(a, FactsFromAlgorithm(o.key, FALSE)) /\ SameFacts(b, FactsFromAlgorithm(o.key, FALSE))
    BY DEF Means, Equal
  <2> QED BY <2>1, SameFactsEquivalence
<1>3. Flags(p.metadata) = Flags(q.metadata)
  BY DEF Means, Equal
<1>4. Extra([extra |-> p.metadata], "not_after") = Extra([extra |-> q.metadata], "not_after")
  BY DEF Means, Equal
<1>5. \A m, z : z.extra = m => Extra(z, "not_after") = Extra([extra |-> m], "not_after")
  BY DEF Extra
<1>6. /\ x.algorithm = NormalizeAlgorithm(a.entry.algorithm)
      /\ x.purpose = RefineFromKeyUsage(a.entry, p.metadata)[1]
      /\ x.primitive = RefineFromKeyUsage(a.entry, p.metadata)[2]
      /\ x.status = a.entry.status /\ x.curve = a.curve /\ x.level = a.level
      /\ x.mode = "unknown" /\ x.padding = "unknown" /\ x.keySize = a.keySize
      /\ x.assetType = "certificate" /\ x.detector = "certs.certificate" /\ x.extra = p.metadata
  BY <1>1, CertificateSays
<1>7. /\ y.algorithm = NormalizeAlgorithm(b.entry.algorithm)
      /\ y.purpose = RefineFromKeyUsage(b.entry, q.metadata)[1]
      /\ y.primitive = RefineFromKeyUsage(b.entry, q.metadata)[2]
      /\ y.status = b.entry.status /\ y.curve = b.curve /\ y.level = b.level
      /\ y.mode = "unknown" /\ y.padding = "unknown" /\ y.keySize = b.keySize
      /\ y.assetType = "certificate" /\ y.detector = "certs.certificate" /\ y.extra = q.metadata
  BY <1>1, CertificateSays
<1>8. RefineFromKeyUsage(a.entry, p.metadata) = RefineFromKeyUsage(b.entry, q.metadata)
  BY <1>2, <1>3, RefinedBy DEF SameFacts
<1> HIDE DEF x, y, a, b
<1>9. Extra(x, "not_after") = Extra(y, "not_after")
  BY <1>4, <1>5, <1>6, <1>7
<1>10. Alike(x, y)
  BY <1>2, <1>6, <1>7, <1>8, <1>9 DEF Alike, SameFacts
<1> QED BY <1>10 DEF x, y

\* A finding of facts that mean what the tables say of a key.
NamedKey(z, v, n) ==
  \E facts, c : /\ SameFacts(facts, FactsFromAlgorithm(v.key, FALSE))
               /\ z = FindingOf(facts, n, c, OfKey(FALSE))

\* A key that is read gives one.
LEMMA KeyFindingMeans ==
  ASSUME NEW v, SameWords(v), NEW z, NEW n, NEW secret \in BOOLEAN, FromKey(z, v, n, secret)
  PROVE  NamedKey(z, v, n)
<1>1. PICK facts, c :
        KeyRead(facts, v, secret) /\ z = FindingOf(facts, n, c, OfKey(secret))
  BY DEF FromKey
<1>2. <<facts>> # <<>>
  OBVIOUS
<1>3. IsKey(v, secret) /\ v.form # "private key"
  BY <1>1, <1>2 DEF KeyRead, KeyViaCryptography, KeyViaAsn1crypto, SameWords
<1>4. secret = FALSE
  BY <1>3 DEF IsKey
<1>5. FactsFromObject(v.key) = <<facts>> \/ facts = FactsFromAlgorithm(v.key, FALSE)
  <2>1. CASE KeyViaCryptography(v, secret) = <<facts>>
    BY <1>2, <2>1 DEF KeyViaCryptography
  <2>2. CASE KeyViaAsn1crypto(v, secret) = <<facts>>
    <3>1. <<FactsFromAlgorithm(v.key, FALSE)>> = <<facts>>
      BY <1>2, <1>4, <2>2 DEF KeyViaAsn1crypto
    <3> QED BY <3>1
  <2> QED BY <1>1, <2>1, <2>2 DEF KeyRead
<1> QED BY <1>1, <1>4, <1>5, KeyMeans DEF NamedKey

\* Findings of equal contents by one detector are alike, if both have a name.
LEMMA AlikeFindings ==
  ASSUME NEW o, SameWords(o), NEW u, Equal(o, u), NEW f, NEW g,
         NEW x, FindingIn(x, o, f), NEW y, FindingIn(y, u, g),
         x.detector = y.detector, x.algorithm # <<"unknown">>, y.algorithm # <<"unknown">>
  PROVE  Alike(x, y)
<1>1. SameWords(u)
  BY DEF SameWords, SameUsage, Equal
<1>2. CASE FromCertificate(x, o, f)
  <2>1. FromCertificate(y, u, g)
    BY <1>2, Kinds DEF FindingIn
  <2>2. PICK p, c : Parsed(p, o) /\ x = CertificateFinding(p, f, c)
    BY <1>2 DEF FromCertificate
  <2>3. PICK q, d : Parsed(q, u) /\ y = CertificateFinding(q, g, d)
    BY <2>1 DEF FromCertificate
  <2>4. p.key # <<>> /\ q.key # <<>>
    BY <2>2, <2>3, KeylessSays
  <2>5. Means(p, o) /\ Means(q, u)
    BY <1>1, <2>2, <2>3, <2>4, CertificateMeans
  <2> QED BY <2>2, <2>3, <2>5, AlikeCertificates
<1>3. CASE FromSignature(x, o, f)
  <2>1. FromSignature(y, u, g)
    BY <1>3, Kinds DEF FindingIn
  <2>2. \A v, r : Parsed(r, v) => r.signature = Read(v, "signature", v.signature)
    <3> SUFFICES ASSUME NEW v, NEW r, Parsed(r, v) PROVE r.signature = Read(v, "signature", v.signature)
      OBVIOUS
    <3>1. CASE ViaCryptography(v) = <<r>>
      <4>1. ViaCryptography(v) # <<>> /\ ViaCryptography(v)[1] = r
        BY <3>1
      <4> QED BY <4>1, CryptographySays
    <3>2. CASE ViaAsn1crypto(v) = <<r>>
      <4>1. ViaAsn1crypto(v) # <<>> /\ ViaAsn1crypto(v)[1] = r
        BY <3>2
      <4> QED BY <4>1, Asn1cryptoSays DEF Read
    <3> QED BY <3>1, <3>2 DEF Parsed
  <2>3. PICK p, c : Parsed(p, o) /\ x = SignatureFinding(p.signature, f, c)
    BY <1>3 DEF FromSignature
  <2>4. PICK q, d : Parsed(q, u) /\ y = SignatureFinding(q.signature, g, d)
    BY <2>1 DEF FromSignature
  <2> DEFINE oid == p.signature
             facts == SignatureFacts(oid)
             of == OfSignature(oid \in DOMAIN SignatureOids)
  <2>5. p.signature = q.signature
    BY <2>2, <2>3, <2>4 DEF Read, Equal
  <2>6. x = FindingOf(facts, f, c, of) /\ y = FindingOf(facts, g, d, of)
    BY <2>3, <2>4, <2>5 DEF SignatureFinding, SignatureFacts
  <2> HIDE DEF facts, of
  <2> QED BY <2>6, SameFactsEquivalence, SameFinding
<1>4. CASE \E private \in BOOLEAN : FromKey(x, o, f, private)
  <2>1. \E private \in BOOLEAN : FromKey(y, u, g, private)
    BY <1>4, Kinds DEF FindingIn
  <2>2. PICK a, c : SameFacts(a, FactsFromAlgorithm(o.key, FALSE)) /\ x = FindingOf(a, f, c, OfKey(FALSE))
    <3>1. NamedKey(x, o, f)
      BY <1>4, KeyFindingMeans
    <3> QED BY <3>1 DEF NamedKey
  <2>3. PICK b, d : SameFacts(b, FactsFromAlgorithm(o.key, FALSE)) /\ y = FindingOf(b, g, d, OfKey(FALSE))
    <3>1. NamedKey(y, u, g)
      BY <1>1, <2>1, KeyFindingMeans
    <3> QED BY <3>1 DEF NamedKey, Equal
  <2>4. SameFacts(a, b)
    BY <2>2, <2>3, SameFactsEquivalence
  <2> QED BY <2>2, <2>3, <2>4, SameFinding
<1>5. CASE x = OpaqueFinding(f)
  BY <1>5, Kinds
<1> QED BY <1>2, <1>3, <1>4, <1>5 DEF FindingIn

-----------------------------------------------------------------------------
(***************************************************************************)
(* The use of a key                                                        *)
(***************************************************************************)

\* The flags that a certificate states.
Stated(o) == IF o.usage = None THEN {} ELSE UsageViaCryptography(o.usage)

\* What a key is for, if its entry leaves that open.
LEMMA RefinedPurpose ==
  ASSUME NEW entry, entry.purpose = "unknown", NEW o, NEW metadata, Flags(metadata) = Stated(o)
  PROVE  LET purpose == RefineFromKeyUsage(entry, metadata)[1]
         IN purpose # "unknown" <=> Uses(o) = {purpose}
<1> DEFINE flags == Stated(o)
           signs == flags \cap SigningKeyUsages # {}
           establishes == flags \cap EstablishmentKeyUsages # {}
           purpose == RefineFromKeyUsage(entry, metadata)[1]
<1>1. RefineFromKeyUsage(entry, metadata) =
        IF signs = establishes THEN <<entry.purpose, entry.primitive>>
        ELSE IF signs THEN <<"digital_signature", "signature">>
        ELSE <<"key_establishment", IF entry.algorithm = <<"EC">> THEN "key-agree" ELSE entry.primitive>>
  BY Zenon DEF RefineFromKeyUsage, Flags
<1>2. "digital_signature" # "key_establishment" /\ "digital_signature" # "unknown"
      /\ "key_establishment" # "unknown"
  OBVIOUS
<1>3. \A use : use \in Uses(o) <=>
                 \/ use = "digital_signature" /\ signs
                 \/ use = "key_establishment" /\ establishes
  BY <1>2 DEF Uses, Stated
<1>7. signs \in BOOLEAN /\ establishes \in BOOLEAN
  OBVIOUS
<1> HIDE DEF signs, establishes
<1>4. CASE signs = establishes
  <2>1. purpose = "unknown"
    BY <1>1, <1>4
  <2> HIDE DEF purpose
  <2> QED BY <1>2, <1>3, <2>1 DEF purpose
<1>5. CASE signs /\ ~establishes
  <2>1. purpose = "digital_signature"
    <3>1. RefineFromKeyUsage(entry, metadata) =
            <<"digital_signature", "signature">>
      BY <1>1, <1>5, <1>7
    <3> QED BY <3>1
  <2>2. Uses(o) = {"digital_signature"}
    BY <1>3, <1>5
  <2> QED BY <1>2, <2>1, <2>2
<1>6. CASE ~signs /\ establishes
  <2>1. purpose = "key_establishment"
    <3>1. RefineFromKeyUsage(entry, metadata) =
            <<"key_establishment", IF entry.algorithm = <<"EC">> THEN "key-agree" ELSE entry.primitive>>
      BY <1>1, <1>6, <1>7
    <3> QED BY <3>1
  <2>2. Uses(o) = {"key_establishment"}
    BY <1>3, <1>6
  <2> QED BY <1>2, <2>1, <2>2
<1> QED BY <1>4, <1>5, <1>6, <1>7

\* The key of a certificate that was read has good facts.
LEMMA ReadFacts ==
  ASSUME NEW o, NEW p, Parsed(p, o), p.key # <<>>
  PROVE  /\ GoodEntry(p.key[1].entry)
         /\ p.key[1].entry = UnknownEntry <=> o.key.oid \notin Titles
<1>1. CASE ViaCryptography(o) = <<p>>
  <2>1. ViaCryptography(o) # <<>> /\ ViaCryptography(o)[1] = p
    BY <1>1
  <2>2. p.key = FactsFromObject(o.key)
    BY <2>1, CryptographySays
  <2> QED BY <2>2, ObjectFacts DEF GoodFacts, Titles
<1>2. CASE ViaAsn1crypto(o) = <<p>>
  <2>1. ViaAsn1crypto(o) # <<>> /\ ViaAsn1crypto(o)[1] = p
    BY <1>2
  <2>2. p.key = <<FactsFromAlgorithm(o.key, FALSE)>>
    BY <2>1, Asn1cryptoSays
  <2> DEFINE facts == FactsFromAlgorithm(o.key, FALSE)
  <2>3. GoodFacts(facts) /\ (facts.entry = UnknownEntry <=> o.key.oid \notin Titles)
    BY AlgorithmFacts
  <2> HIDE DEF facts
  <2>4. p.key[1] = facts
    BY <2>2 DEF facts
  <2> QED BY <2>3, <2>4 DEF GoodFacts
<1> QED BY <1>1, <1>2 DEF Parsed

\* A certificate gives its key the one use that it states.
LEMMA CertificatePurpose ==
  ASSUME NEW o, NEW f, NEW x, FromCertificate(x, o, f), x.algorithm \in {<<"RSA">>, <<"EC">>},
         Extra(x, "parser") = "asn1crypto" => SameUsage(o)
  PROVE  x.purpose # "unknown" <=> Uses(o) = {x.purpose}
<1>1. PICK p, c : Parsed(p, o) /\ x = CertificateFinding(p, f, c)
  BY DEF FromCertificate
<1>2. p.key # <<>>
  <2>1. <<"unknown">> \notin {<<"RSA">>, <<"EC">>}
    OBVIOUS
  <2> QED BY <1>1, <2>1, KeylessSays
<1>3. /\ x.algorithm = NormalizeAlgorithm(p.key[1].entry.algorithm)
      /\ x.purpose = RefineFromKeyUsage(p.key[1].entry, p.metadata)[1]
      /\ x.extra = p.metadata
  BY <1>1, <1>2, CertificateSays
<1>4. p.key[1].entry.purpose = "unknown"
  BY <1>1, <1>2, <1>3, ReadFacts, UnknownName
<1>5. Extra(x, "parser") = Extra([extra |-> p.metadata], "parser")
  BY <1>3 DEF Extra
<1>6. Flags(p.metadata) = Stated(o)
  <2>1. CASE ViaCryptography(o) = <<p>>
    <3>1. ViaCryptography(o) # <<>> /\ ViaCryptography(o)[1] = p
      BY <2>1
    <3> QED BY <3>1, CryptographySays DEF Said, Stated
  <2>2. CASE ViaAsn1crypto(o) = <<p>>
    <3>1. ViaAsn1crypto(o) # <<>> /\ ViaAsn1crypto(o)[1] = p
      BY <2>2
    <3>2. Said(o, p, UsageViaAsn1crypto(o.usage), "asn1crypto")
      BY <3>1, Asn1cryptoSays
    <3>3. SameUsage(o)
      BY <1>5, <3>2 DEF Said
    <3> QED BY <3>2, <3>3 DEF Said, Stated, SameUsage
  <2> QED BY <1>1, <2>1, <2>2 DEF Parsed
<1> QED BY <1>3, <1>4, <1>6, RefinedPurpose

-----------------------------------------------------------------------------
(***************************************************************************)
(* What can be read is reported                                            *)
(***************************************************************************)

\* One of the findings says what can be read of the object.
Reported(s, o, f) ==
  \E i \in DOMAIN s :
    /\ s[i].file = f
    /\ s[i].detector = IF o.form = "certificate" THEN "certs.certificate" ELSE "certs.key"
    /\ s[i].confidence = ConfidenceUnknownOid <=> o.key.oid \notin DOMAIN PublicKeyOids \cup DOMAIN SignatureOids

\* Only what is not known is reported with the lowest confidence.
LEMMA ConfidenceIs ==
  ASSUME NEW entry, GoodEntry(entry), NEW c \in {ConfidenceParsed, ConfidenceOidTable}
  PROVE  Confidence(entry, c) = ConfidenceUnknownOid <=> entry = UnknownEntry
BY UnknownName DEF Confidence, ConfidenceParsed, ConfidenceOidTable, ConfidenceUnknownOid

\* The names of all tables.
LEMMA AllTitles == Titles = DOMAIN PublicKeyOids \cup DOMAIN SignatureOids
BY PublicKeyTable DEF Titles, Public

\* A certificate is read if one of the libraries can read its key.
LEMMA CertificateReported ==
  ASSUME NEW o, o.form = "certificate", Legible(o), NEW f
  PROVE  ParseCertificate(o, f) # <<>> /\ Reported(ParseCertificate(o, f), o, f)
<1>1. ViaAsn1crypto(o) # <<>> => Parsed(ViaAsn1crypto(o)[1], o)
  <2>1. ASSUME ViaAsn1crypto(o) # <<>> PROVE \E q : ViaAsn1crypto(o) = <<q>>
    BY <2>1, ReadingsAre
  <2>2. \A q : <<q>>[1] = q
    OBVIOUS
  <2> QED BY <2>1, <2>2 DEF Parsed
<1>2. \E p, c : /\ Parsed(p, o) /\ p.key # <<>> /\ c \in {ConfidenceParsed, ConfidenceOidTable}
                /\ ParseCertificate(o, f) = CertificateFindings(<<p>>, f, c)
  <2>1. CASE \E p : ViaCryptography(o) = <<p>> /\ p.key # <<>>
    <3>1. PICK p : ViaCryptography(o) = <<p>> /\ p.key # <<>>
      BY <2>1
    <3>2. <<p>> # <<>> /\ <<p>>[1] = p
      OBVIOUS
    <3>3. ParseCertificate(o, f) = CertificateFindings(<<p>>, f, ConfidenceParsed)
      BY <3>1, <3>2 DEF ParseCertificate, After
    <3> QED BY <3>1, <3>3 DEF Parsed
  <2>2. CASE ~\E p : ViaCryptography(o) = <<p>> /\ p.key # <<>>
    <3>1. o.asn1 = "all" /\ "signature" \notin o.hidden
      <4>1. CASE o.pyca = "all" /\ o.key.oid \in DOMAIN PublicKeyOids \ {<<"DH">>}
        <5>1. ViaCryptography(o) # <<>>
          BY <4>1 DEF ViaCryptography
        <5>2. PICK p : ViaCryptography(o) = <<p>>
          BY <5>1, ReadingsAre
        <5>3. ViaCryptography(o)[1] = p
          BY <5>2
        <5>4. p.key = FactsFromObject(o.key)
          BY <4>1, <5>1, <5>3, CryptographySays
        <5>5. p.key # <<>>
          BY <4>1, <5>4, ObjectFacts, PublicKeyTable DEF Public
        <5> QED BY <2>2, <5>2, <5>5
      <4> QED BY <4>1 DEF Legible
    <3>2. ViaAsn1crypto(o) # <<>>
      BY <3>1 DEF ViaAsn1crypto
    <3>3. PICK q : ViaAsn1crypto(o) = <<q>>
      BY <3>2, ReadingsAre
    <3>4. <<q>> # <<>> /\ <<q>>[1] = q
      OBVIOUS
    <3>5. q.key = <<FactsFromAlgorithm(o.key, FALSE)>>
      BY <3>1, <3>2, <3>3, <3>4, Asn1cryptoSays
    <3>6. q.key # <<>>
      BY <3>5
    <3>7. ViaCryptography(o) = <<>> \/ ViaCryptography(o)[1].key = <<>>
      <4>1. \A p : <<p>>[1] = p
        OBVIOUS
      <4> QED BY <2>2, <4>1, ReadingsAre
    <3>8. ParseCertificate(o, f) = FallBack(ViaCryptography(o), <<q>>, f)
      BY <3>3, <3>7 DEF ParseCertificate, After
    <3>9. FallBack(ViaCryptography(o), <<q>>, f) = CertificateFindings(<<q>>, f, ConfidenceOidTable)
      BY <3>4, <3>6 DEF FallBack
    <3> QED BY <3>3, <3>6, <3>8, <3>9 DEF Parsed
  <2> QED BY <2>1, <2>2
<1>3. PICK p, c : /\ Parsed(p, o) /\ p.key # <<>> /\ c \in {ConfidenceParsed, ConfidenceOidTable}
                  /\ ParseCertificate(o, f) = CertificateFindings(<<p>>, f, c)
  BY <1>2
<1> DEFINE x == CertificateFinding(p, f, c)
           y == SignatureFinding(p.signature, f, c)
<1>4. CertificateFindings(<<p>>, f, c) = <<x, y>>
  <2>1. <<p>> # <<>> /\ <<p>>[1] = p
    OBVIOUS
  <2> QED BY <2>1 DEF CertificateFindings
<1>5. /\ x.file = f /\ x.detector = "certs.certificate"
      /\ x.confidence = ConfidenceUnknownOid <=> o.key.oid \notin DOMAIN PublicKeyOids \cup DOMAIN SignatureOids
  <2>1. x.file = f /\ x.detector = "certs.certificate" /\ x.confidence = Confidence(p.key[1].entry, c)
    BY <1>3, CertificateSays
  <2>2. GoodEntry(p.key[1].entry) /\ (p.key[1].entry = UnknownEntry <=> o.key.oid \notin Titles)
    BY <1>3, ReadFacts
  <2> QED BY <1>3, <2>1, <2>2, ConfidenceIs, AllTitles
<1> HIDE DEF x, y
<1>6. <<x, y>> # <<>> /\ 1 \in DOMAIN <<x, y>> /\ <<x, y>>[1] = x
  OBVIOUS
<1> QED BY <1>3, <1>4, <1>5, <1>6 DEF Reported

\* So is a key.
LEMMA KeyReported ==
  ASSUME NEW o, NEW private \in BOOLEAN, IsKey(o, private), Legible(o), NEW f
  PROVE  /\ ParseKey(o, f, private) # <<>> /\ Reported(ParseKey(o, f, private), o, f)
         /\ ~Raises(o, private)
<1>1. KeyViaCryptography(o, private) # <<>> \/ o.asn1 = "all"
  BY ObjectFacts, PublicKeyTable DEF KeyViaCryptography, Legible, Public
<1>2. ~Raises(o, private)
  BY <1>1 DEF Raises
<1>3. \E facts, c : /\ GoodEntry(facts.entry) /\ c \in {ConfidenceParsed, ConfidenceOidTable}
                    /\ facts.entry = UnknownEntry <=> o.key.oid \notin Titles
                    /\ ParseKey(o, f, private) = KeyFinding(<<facts>>, f, private, c)
  <2>1. CASE KeyViaCryptography(o, private) # <<>>
    <3>1. PICK facts : KeyViaCryptography(o, private) = <<facts>>
      BY <2>1, ReadingsAre
    <3>2. FactsFromObject(o.key) # <<>> /\ FactsFromObject(o.key) = <<facts>>
      BY <2>1, <3>1 DEF KeyViaCryptography
    <3>3. FactsFromObject(o.key)[1] = facts
      BY <3>2
    <3>4. GoodEntry(facts.entry) /\ facts.entry # UnknownEntry /\ o.key.oid \in Titles
      BY <3>2, <3>3, ObjectFacts DEF GoodFacts, Titles
    <3>5. ParseKey(o, f, private) = KeyFinding(<<facts>>, f, private, ConfidenceParsed)
      BY <2>1, <3>1 DEF ParseKey
    <3> QED BY <3>4, <3>5
  <2>2. CASE KeyViaCryptography(o, private) = <<>>
    <3> DEFINE facts == FactsFromAlgorithm(o.key, private)
    <3>1. GoodEntry(facts.entry) /\ (facts.entry = UnknownEntry <=> o.key.oid \notin Titles)
      BY AlgorithmFacts DEF GoodFacts
    <3>2. KeyViaAsn1crypto(o, private) = <<facts>>
      BY <1>1, <2>2 DEF KeyViaAsn1crypto
    <3> HIDE DEF facts
    <3>3. ParseKey(o, f, private) = KeyFinding(<<facts>>, f, private, ConfidenceOidTable)
      BY <2>2, <3>2 DEF ParseKey
    <3> QED BY <3>1, <3>3
  <2> QED BY <2>1, <2>2
<1>4. PICK facts, c : /\ GoodEntry(facts.entry) /\ c \in {ConfidenceParsed, ConfidenceOidTable}
                      /\ facts.entry = UnknownEntry <=> o.key.oid \notin Titles
                      /\ ParseKey(o, f, private) = KeyFinding(<<facts>>, f, private, c)
  BY <1>3
<1> DEFINE x == FindingOf(facts, f, c, OfKey(private))
<1>5. KeyFinding(<<facts>>, f, private, c) = <<x>>
  <2>1. <<facts>> # <<>> /\ <<facts>>[1] = facts
    OBVIOUS
  <2> QED BY <2>1 DEF KeyFinding
<1>6. /\ x.file = f /\ x.detector = "certs.key"
      /\ x.confidence = ConfidenceUnknownOid <=> o.key.oid \notin DOMAIN PublicKeyOids \cup DOMAIN SignatureOids
  <2>1. x.file = f /\ x.detector = OfKey(private).detector /\ x.confidence = Confidence(facts.entry, c)
    BY FindingSays
  <2>2. OfKey(private).detector = "certs.key"
    BY DEF OfKey
  <2> QED BY <1>4, <2>1, <2>2, ConfidenceIs, AllTitles
<1> HIDE DEF x
<1>7. <<x>> # <<>> /\ 1 \in DOMAIN <<x>> /\ <<x>>[1] = x
  OBVIOUS
<1>8. o.form # "certificate"
  BY DEF IsKey
<1> QED BY <1>2, <1>4, <1>5, <1>6, <1>7, <1>8 DEF Reported

\* A block that says truly what it holds, and that can be read, is reported.
LEMMA BlockReported ==
  ASSUME NEW b, Labelled(b), Legible(b.object), NEW f
  PROVE  ~BlockRaises(b) /\ Reported(ParseBlock(b, f), b.object, f)
<1> DEFINE o == b.object
<1>1. b.label = None \/ b.label = o.form
  BY DEF Labelled
<1>2. o.form \in {"certificate", "public key", "private key"}
  BY DEF Legible
<1>3. None \notin {"certificate", "public key", "private key", "encrypted private key", "request"}
  BY NoneAssumption DEF Labels
<1>4. Legible(o)
  OBVIOUS
<1>5. o.form # "certificate" => ParseCertificate(o, f) = <<>>
  BY DEF ParseCertificate, After, FallBack, ViaCryptography, ViaAsn1crypto, CertificateFindings
<1>6. \A private \in BOOLEAN : ~IsKey(o, private) => ParseKey(o, f, private) = <<>> /\ ~Raises(o, private)
  BY DEF ParseKey, KeyViaCryptography, KeyViaAsn1crypto, KeyFinding, Raises
<1>7. /\ b.label = "certificate" => ParseBlock(b, f) = ParseCertificate(o, f)
      /\ b.label = "public key" => ParseBlock(b, f) = ParseKey(o, f, FALSE)
      /\ b.label = "private key" => ParseBlock(b, f) = ParseKey(o, f, TRUE)
      /\ b.label = None => ParseBlock(b, f) =
           FirstFound(ParseCertificate(o, f), ParseKey(o, f, FALSE), ParseKey(o, f, TRUE))
  BY <1>3, Zenon DEF ParseBlock
<1>8. Raises(o, TRUE) => ~BlockRaises(b) \/ IsKey(o, TRUE)
  BY DEF Raises
<1>9. IsKey(o, TRUE) <=> o.form = "private key"
  BY DEF IsKey
<1>10. IsKey(o, FALSE) <=> o.form = "public key"
  BY DEF IsKey
<1>11. ~Raises(o, TRUE)
  BY <1>4, <1>6, KeyReported
<1>12. ~BlockRaises(b)
  BY <1>11 DEF BlockRaises
<1> HIDE DEF o
<1>13. CASE o.form = "certificate"
  <2>1. ParseCertificate(o, f) # <<>> /\ Reported(ParseCertificate(o, f), o, f)
    BY <1>4, <1>13, CertificateReported
  <2> QED BY <1>1, <1>3, <1>7, <1>12, <1>13, <2>1 DEF FirstFound, o
<1>14. CASE o.form = "public key"
  <2>1. ParseKey(o, f, FALSE) # <<>> /\ Reported(ParseKey(o, f, FALSE), o, f)
    BY <1>4, <1>10, <1>14, KeyReported
  <2>2. ParseCertificate(o, f) = <<>>
    BY <1>5, <1>14
  <2> QED BY <1>1, <1>3, <1>7, <1>12, <1>14, <2>1, <2>2 DEF FirstFound, o
<1>15. CASE o.form = "private key"
  <2>1. ParseKey(o, f, TRUE) # <<>> /\ Reported(ParseKey(o, f, TRUE), o, f)
    BY <1>4, <1>9, <1>15, KeyReported
  <2>2. ParseCertificate(o, f) = <<>> /\ ParseKey(o, f, FALSE) = <<>>
    BY <1>5, <1>6, <1>10, <1>15
  <2> QED BY <1>1, <1>3, <1>7, <1>12, <1>15, <2>1, <2>2 DEF FirstFound, o
<1> QED BY <1>2, <1>13, <1>14, <1>15 DEF o

-----------------------------------------------------------------------------
(***************************************************************************)
(* File by file and block by block                                         *)
(***************************************************************************)

\* The blocks of a file that there are to read.
Content(a, f) == IF a[f].readable THEN Blocks(a[f].content) ELSE <<>>

\* What precedes malformed armour is a list, and the blocks keep their places.
LEMMA BlocksAre ==
  ASSUME NEW content, IsSequence(content)
  PROVE  /\ IsSequence(Blocks(content))
         /\ Len(Blocks(content)) <= Len(content)
         /\ \A n \in DOMAIN Blocks(content) : n \in DOMAIN content /\ Blocks(content)[n] = content[n]
<1> DEFINE broken == {n \in DOMAIN content : content[n].label = "broken"}
<1>1. Len(content) \in Nat /\ DOMAIN content = 1..Len(content)
  BY SequenceFacts
<1>2. CASE broken = {}
  BY <1>1, <1>2 DEF Blocks
<1>3. CASE broken # {}
  <2> DEFINE first == CHOOSE n \in broken : \A m \in broken : n <= m
             t == SubSeq(content, 1, first - 1)
  <2>1. Blocks(content) = t
    BY <1>3 DEF Blocks
  <2>2. first \in 1..Len(content)
    <3>1. broken \subseteq Nat
      BY <1>1
    <3>2. \E n \in broken : \A m \in broken : n <= m
      <4> HIDE DEF broken
      <4> QED BY <1>3, <3>1, LeastNumber
    <3>3. first \in broken
      <4> HIDE DEF broken
      <4> QED BY <3>2
    <3> HIDE DEF first
    <3> QED BY <1>1, <3>3
  <2> HIDE DEF first, broken
  <2>3. PICK S : content \in Seq(S)
    BY DEF IsSequence
  <2>4. first - 1 \in 0..Len(content) /\ \A i \in 1..first - 1 : content[i] \in S
    BY <1>1, <2>2, <2>3
  <2> DEFINE k == first - 1
  <2>5. /\ SubSeq(content, 1, k) \in Seq(S) /\ Len(SubSeq(content, 1, k)) = k
        /\ \A i \in 1..k : SubSeq(content, 1, k)[i] = content[i]
    <3> HIDE DEF k
    <3>1. k \in 0..Len(content) /\ \A i \in 1..k : content[i] \in S
      BY <2>4 DEF k
    <3> QED BY <2>3, <3>1, SubSeqProperties
  <2>6. IsSequence(t) /\ DOMAIN t = 1..k /\ Len(t) = k
    <3>1. t = SubSeq(content, 1, k)
      OBVIOUS
    <3> HIDE DEF k, t
    <3>2. t \in Seq(S) /\ Len(t) = k
      BY <2>5, <3>1
    <3>3. IsSequence(t)
      BY <3>2 DEF IsSequence
    <3> QED BY <3>2, <3>3, SequenceFacts
  <2> HIDE DEF t
  <2>7. \A n \in DOMAIN t : n \in DOMAIN content /\ t[n] = content[n]
    BY <1>1, <2>4, <2>5, <2>6 DEF t
  <2> QED BY <1>1, <2>1, <2>4, <2>6, <2>7
<1> QED BY <1>2, <1>3

\* The blocks of a file of a project, each of which holds an object.
LEMMA ContentIs ==
  ASSUME NEW a \in Artifacts, NEW f \in 1..Len(a)
  PROVE  /\ IsSequence(Content(a, f))
         /\ \A n \in DOMAIN Content(a, f) :
              /\ Content(a, f)[n] = a[f].content[n]
              /\ ObjectFields \subseteq DOMAIN Content(a, f)[n].object
<1>1. a \in Seq(ToSet(a))
  BY ArtifactAssumption
<1>2. f \in DOMAIN a
  BY <1>1
<1>3. /\ a[f].content \in Seq(ToSet(a[f].content))
      /\ \A b \in ToSet(a[f].content) : ObjectFields \subseteq DOMAIN b.object
  BY <1>2, ArtifactAssumption
<1>4. \A n \in DOMAIN a[f].content : a[f].content[n] \in ToSet(a[f].content)
  BY DEF ToSet
<1>5. IsSequence(a[f].content)
  BY <1>3 DEF IsSequence
<1>6. IsSequence(<<>>) /\ DOMAIN <<>> = {}
  BY DEF IsSequence
<1> QED BY <1>3, <1>4, <1>5, <1>6, BlocksAre DEF Content

\* What is left of a list after its first element.
LEMMA Rest ==
  ASSUME NEW s, IsSequence(s), s # <<>>
  PROVE  /\ IsSequence(Tail(s)) /\ Len(Tail(s)) = Len(s) - 1
         /\ \A i \in 1..Len(s) - 1 : Tail(s)[i] = s[i + 1]
         /\ Head(s) = s[1] /\ Len(s) >= 1
<1>1. PICK S : s \in Seq(S)
  BY DEF IsSequence
<1>2. Tail(s) \in Seq(S)
  BY <1>1
<1> QED BY <1>1, <1>2 DEF IsSequence

\* One of the findings says what can be read of the object, and was read from it.
ReportedFrom(s, t, o, f) ==
  \E i \in DOMAIN s :
    /\ s[i].file = f
    /\ t[i] = o
    /\ s[i].detector = IF o.form = "certificate" THEN "certs.certificate" ELSE "certs.key"
    /\ s[i].confidence = ConfidenceUnknownOid <=> o.key.oid \notin DOMAIN PublicKeyOids \cup DOMAIN SignatureOids

\* Each finding has an origin, from which it is read.
ReadFrom(s, t) ==
  /\ IsSequence(s) /\ IsSequence(t) /\ Len(t) = Len(s)
  /\ \A i \in DOMAIN s : ObjectFields \subseteq DOMAIN t[i] /\ \E f : FindingIn(s[i], t[i], f)

\* What is found in an object is put after what was found before.
Added(u, v, s, t, found, o) == u = s \o found /\ v = t \o [i \in DOMAIN found |-> o]

\* Reporting what is found in an object keeps what was reported, and adds it.
LEMMA ReportedMore ==
  ASSUME NEW s, NEW t, ReadFrom(s, t), NEW found, NEW o, NEW n, FindingsIn(found, o, n),
         ObjectFields \subseteq DOMAIN o,
         NEW u, NEW v, Added(u, v, s, t, found, o)
  PROVE  /\ ReadFrom(u, v)
         /\ \A p, f : ReportedFrom(s, t, p, f) => ReportedFrom(u, v, p, f)
         /\ \A f : Reported(found, o, f) => ReportedFrom(u, v, o, f)
<1> DEFINE same == [i \in DOMAIN found |-> o]
<1>1. /\ IsSequence(s) /\ IsSequence(t) /\ Len(t) = Len(s) /\ Len(s) \in Nat
      /\ DOMAIN s = 1..Len(s) /\ DOMAIN t = 1..Len(s)
  BY SequenceFacts DEF ReadFrom
<1>2. IsSequence(found) /\ Len(found) \in Nat /\ DOMAIN found = 1..Len(found)
  BY SequenceFacts DEF FindingsIn
<1>3. IsSequence(same) /\ Len(same) = Len(found) /\ \A i \in 1..Len(found) : same[i] = o
  <2>1. same \in Seq({o}) /\ Len(same) = Len(found)
    BY <1>2
  <2> QED BY <1>2, <2>1 DEF IsSequence
<1>4. v = t \o same
  BY DEF Added
<1> HIDE DEF same
<1>5. /\ IsSequence(u) /\ Len(u) = Len(s) + Len(found) /\ DOMAIN u = 1..Len(s) + Len(found)
      /\ \A i \in 1..Len(s) : u[i] = s[i]
      /\ \A i \in 1..Len(found) : u[Len(s) + i] = found[i]
      /\ \A i \in 1..Len(u) : i \in 1..Len(s)
           \/ \E j \in 1..Len(found) : i = Len(s) + j /\ u[i] = found[j]
  <2>1. u = s \o found
    BY DEF Added
  <2>2. IsSequence(u) /\ Len(u) = Len(s) + Len(found) /\ DOMAIN u = 1..Len(s) + Len(found)
    BY <1>1, <1>2, <2>1, JoinedAt
  <2>3. \A i \in 1..Len(s) : u[i] = s[i]
    BY <1>1, <1>2, <2>1, JoinedAt
  <2>4. \A i \in 1..Len(found) : u[Len(s) + i] = found[i]
    <3>1. PICK S, T : s \in Seq(S) /\ found \in Seq(T)
      BY <1>1, <1>2 DEF IsSequence
    <3>2. s \in Seq(S \cup T) /\ found \in Seq(S \cup T)
      BY <3>1
    <3> QED BY <2>1, <3>2, ConcatProperties
  <2>5. ASSUME NEW i \in 1..Len(u), i \notin 1..Len(s)
        PROVE  \E j \in 1..Len(found) : i = Len(s) + j /\ u[i] = found[j]
    <3> DEFINE j == i - Len(s)
    <3>1. j \in 1..Len(found) /\ i = Len(s) + j
      BY <1>1, <1>2, <2>2, <2>5
    <3> QED BY <2>4, <3>1
  <2> QED BY <2>2, <2>3, <2>4, <2>5
<1>6. /\ IsSequence(v) /\ Len(v) = Len(s) + Len(found)
      /\ \A i \in 1..Len(s) : v[i] = t[i]
      /\ \A i \in 1..Len(found) : v[Len(s) + i] = o
  <2>1. IsSequence(v) /\ Len(v) = Len(t) + Len(same)
    BY <1>1, <1>3, <1>4, JoinedAt
  <2>2. \A i \in 1..Len(t) : v[i] = t[i]
    BY <1>1, <1>3, <1>4, JoinedAt
  <2>3. \A i \in 1..Len(same) : v[Len(t) + i] = same[i]
    BY <1>1, <1>3, <1>4, JoinedAt
  <2> QED BY <1>1, <1>3, <2>1, <2>2, <2>3
<1>7. ReadFrom(u, v)
  <2>1. ASSUME NEW i \in DOMAIN u
        PROVE  ObjectFields \subseteq DOMAIN v[i] /\ \E f : FindingIn(u[i], v[i], f)
    <3>1. CASE i \in 1..Len(s)
      BY <1>1, <1>5, <1>6, <3>1 DEF ReadFrom
    <3>2. CASE i \notin 1..Len(s)
      <4>1. PICK j \in 1..Len(found) : i = Len(s) + j /\ u[i] = found[j]
        BY <1>5, <2>1, <3>2
      <4>2. v[i] = o
        BY <1>6, <4>1
      <4>3. FindingIn(found[j], o, n)
        BY <1>2 DEF FindingsIn
      <4> QED BY <4>1, <4>2, <4>3
    <3> QED BY <3>1, <3>2
  <2> QED BY <1>5, <1>6, <2>1 DEF ReadFrom
<1>8. ASSUME NEW p, NEW f, ReportedFrom(s, t, p, f) PROVE ReportedFrom(u, v, p, f)
  <2>1. PICK i \in DOMAIN s :
          /\ s[i].file = f
          /\ t[i] = p
          /\ s[i].detector = IF p.form = "certificate" THEN "certs.certificate" ELSE "certs.key"
          /\ s[i].confidence = ConfidenceUnknownOid
               <=> p.key.oid \notin DOMAIN PublicKeyOids \cup DOMAIN SignatureOids
    BY <1>8 DEF ReportedFrom
  <2>2. i \in DOMAIN u /\ u[i] = s[i] /\ v[i] = t[i]
    BY <1>1, <1>2, <1>5, <1>6
  <2> QED BY <2>1, <2>2 DEF ReportedFrom
<1>9. ASSUME NEW f, Reported(found, o, f) PROVE ReportedFrom(u, v, o, f)
  <2>1. PICK j \in DOMAIN found :
          /\ found[j].file = f
          /\ found[j].detector = IF o.form = "certificate" THEN "certs.certificate" ELSE "certs.key"
          /\ found[j].confidence = ConfidenceUnknownOid
               <=> o.key.oid \notin DOMAIN PublicKeyOids \cup DOMAIN SignatureOids
    BY <1>9 DEF Reported
  <2>2. j \in 1..Len(found) /\ Len(s) + j \in DOMAIN u
    BY <1>1, <1>2, <1>5
  <2>3. u[Len(s) + j] = found[j] /\ v[Len(s) + j] = o
    BY <1>5, <1>6, <2>2
  <2> QED BY <2>1, <2>2, <2>3 DEF ReportedFrom
<1> QED BY <1>7, <1>8, <1>9

\* The blocks to read are the last ones of the file.
Reading ==
  /\ artifacts \in Artifacts
  /\ file \in 0..Len(artifacts)
  /\ IsSequence(blocks)
  /\ file = 0 => blocks = <<>>
  /\ file # 0 =>
       /\ Len(blocks) <= Len(Content(artifacts, file))
       /\ \A i \in 1..Len(blocks) :
            blocks[i] = Content(artifacts, file)[Len(Content(artifacts, file)) - Len(blocks) + i]

\* The inductive invariant.
Parsing == Reading /\ ReadFrom(findings, origin) /\ NothingLegibleIsLost

\* NothingLegibleIsLost, in these terms.
LEMMA NothingIsLost ==
  NothingLegibleIsLost <=>
    \A f \in 1..file : artifacts[f].readable =>
      \A n \in DOMAIN Blocks(artifacts[f].content) :
        LET b == artifacts[f].content[n]
        IN Past(f, n) /\ Labelled(b) /\ Legible(b.object) => ReportedFrom(findings, origin, b.object, f)
BY DEF NothingLegibleIsLost, ReportedFrom

\* No file has been opened at first.
LEMMA ParsingInit == Init => Parsing
<1> SUFFICES ASSUME Init PROVE Parsing
  OBVIOUS
<1>1. artifacts \in Artifacts /\ artifacts \in Seq(ToSet(artifacts))
  BY ArtifactAssumption DEF Init
<1>2. IsSequence(<<>>) /\ DOMAIN <<>> = {} /\ Len(<<>>) = 0
  BY DEF IsSequence
<1>3. Reading
  BY <1>1, <1>2 DEF Init, Reading
<1>4. ReadFrom(findings, origin)
  BY <1>2 DEF Init, ReadFrom
<1>5. NothingLegibleIsLost
  BY DEF Init, NothingLegibleIsLost
<1> QED BY <1>3, <1>4, <1>5 DEF Parsing

\* A file is opened when the one before it is done.
LEMMA ParsingOpen == Parsing /\ OpenArtifact => Parsing'
<1> SUFFICES ASSUME Parsing, OpenArtifact PROVE Parsing'
  OBVIOUS
<1>1. /\ blocks = <<>> /\ Len(blocks) = 0 /\ file' = file + 1 /\ UNCHANGED <<artifacts, findings, origin>>
      /\ blocks' = Content(artifacts, file') /\ file < Len(artifacts)
      /\ artifacts \in Artifacts /\ file \in 0..Len(artifacts)
  BY DEF Parsing, Reading, OpenArtifact, Content
<1>2. artifacts \in Seq(ToSet(artifacts))
  BY <1>1, ArtifactAssumption
<1>3. Len(artifacts) \in Nat
  BY <1>2
<1>4. file \in Nat /\ file' \in 1..Len(artifacts) /\ file' # 0
  BY <1>1, <1>3
<1>5. IsSequence(Content(artifacts, file')) /\ Len(Content(artifacts, file')) \in Nat
  BY <1>1, <1>4, ContentIs, SequenceFacts
<1>6. Reading'
  <2>1. /\ Len(blocks') <= Len(Content(artifacts', file'))
        /\ \A i \in 1..Len(blocks') :
             blocks'[i] = Content(artifacts', file')[Len(Content(artifacts', file')) - Len(blocks') + i]
    BY <1>1, <1>5
  <2> QED BY <1>1, <1>3, <1>4, <1>5, <2>1 DEF Reading
<1>7. ReadFrom(findings, origin)'
  BY <1>1 DEF Parsing, ReadFrom
<1>8. NothingLegibleIsLost'
  <2> SUFFICES ASSUME NEW f \in 1..file', artifacts'[f].readable,
                      NEW n \in DOMAIN Blocks(artifacts'[f].content), Past(f, n)',
                      Labelled(artifacts'[f].content[n]), Legible(artifacts'[f].content[n].object)
               PROVE  ReportedFrom(findings', origin', artifacts'[f].content[n].object, f)
    BY DEF NothingLegibleIsLost, ReportedFrom
  <2>1. f \in 1..Len(artifacts)
    BY <1>1, <1>3, <1>4
  <2>2. Content(artifacts, f) = Blocks(artifacts[f].content)
    BY <1>1 DEF Content
  <2>3. n \in 1..Len(Blocks(artifacts[f].content)) /\ Len(Blocks(artifacts[f].content)) \in Nat
    BY <1>1, <2>1, <2>2, ContentIs, SequenceFacts
  <2>4. f # file'
    <3>1. CASE f = file'
      <4>1. n + Len(blocks') <= Len(Blocks(artifacts[f].content)) /\ blocks' = Blocks(artifacts[f].content)
        BY <1>1, <1>4, <2>2, <3>1 DEF Past
      <4> QED BY <2>3, <4>1
    <3> QED BY <3>1
  <2>5. f \in 1..file /\ Past(f, n)
    BY <1>1, <1>4, <2>3, <2>4 DEF Past
  <2> QED BY <1>1, <2>5, NothingIsLost DEF Parsing
<1> QED BY <1>6, <1>7, <1>8 DEF Parsing

\* What is in a block is reported when it is read.
LEMMA ParsingRead == Parsing /\ ReadBlock => Parsing'
<1> SUFFICES ASSUME Parsing, ReadBlock PROVE Parsing'
  OBVIOUS
<1> DEFINE b == Head(blocks)
           o == b.object
           content == Content(artifacts, file)
           found == IF BlockRaises(b) THEN <<>> ELSE ParseBlock(b, file)
<1>1. /\ blocks # <<>> /\ blocks' = Tail(blocks) /\ UNCHANGED <<artifacts, file>>
      /\ Added(findings', origin', findings, origin, found, o)
  BY DEF ReadBlock, Following, Report, Added
<1>2. /\ artifacts \in Artifacts /\ file \in 1..Len(artifacts) /\ IsSequence(blocks)
      /\ Len(blocks) <= Len(content)
      /\ \A i \in 1..Len(blocks) : blocks[i] = content[Len(content) - Len(blocks) + i]
  <2>1. Parsing /\ file # 0
    BY <1>1 DEF Parsing, Reading
  <2>2. artifacts \in Seq(ToSet(artifacts))
    BY ArtifactAssumption DEF Parsing, Reading
  <2> QED BY <2>1, <2>2 DEF Parsing, Reading
<1>3. /\ Len(blocks) \in Nat /\ Len(content) \in Nat /\ IsSequence(content) /\ DOMAIN content = 1..Len(content)
      /\ \A n \in DOMAIN content : /\ content[n] = artifacts[file].content[n]
                                   /\ ObjectFields \subseteq DOMAIN content[n].object
  <2>1. IsSequence(content)
    BY <1>2, ContentIs
  <2>2. Len(content) \in Nat /\ DOMAIN content = 1..Len(content)
    <3> HIDE DEF content
    <3> QED BY <2>1, SequenceFacts
  <2> QED BY <1>2, <2>1, <2>2, ContentIs, SequenceFacts
<1> DEFINE k == Len(content) - Len(blocks) + 1
<1> HIDE DEF content
<1>4. /\ IsSequence(blocks') /\ Len(blocks') = Len(blocks) - 1
      /\ \A i \in 1..Len(blocks) - 1 : blocks'[i] = blocks[i + 1]
      /\ b = blocks[1] /\ Len(blocks) >= 1
  BY <1>1, <1>2, Rest
<1>5. k \in DOMAIN content /\ b = content[k]
  BY <1>2, <1>3, <1>4
<1>6. ObjectFields \subseteq DOMAIN o /\ b = artifacts[file].content[k]
  BY <1>3, <1>5
<1>7. FindingsIn(found, o, file)
  BY ShortLists, BlockGives
<1>8. Reading'
  <2>1. content' = content
    BY <1>1 DEF content
  <2>2. /\ Len(blocks') <= Len(content)
        /\ \A i \in 1..Len(blocks') : blocks'[i] = content[Len(content) - Len(blocks') + i]
    BY <1>2, <1>3, <1>4
  <2>3. /\ Len(blocks') <= Len(Content(artifacts', file'))
        /\ \A i \in 1..Len(blocks') :
             blocks'[i] = Content(artifacts', file')[Len(Content(artifacts', file')) - Len(blocks') + i]
    BY <1>1, <2>2 DEF content
  <2>4. file' # 0 /\ file' \in 0..Len(artifacts')
    BY <1>1, <1>2
  <2> QED BY <1>1, <1>2, <1>4, <2>3, <2>4 DEF Reading
<1> HIDE DEF b, o, k, found
<1>9. /\ ReadFrom(findings', origin')
      /\ \A p, f : ReportedFrom(findings, origin, p, f) => ReportedFrom(findings', origin', p, f)
      /\ \A f : Reported(found, o, f) => ReportedFrom(findings', origin', o, f)
  <2>1. ReadFrom(findings, origin)
    BY DEF Parsing
  <2>2. ReadFrom(findings', origin')
    BY <1>1, <1>6, <1>7, <2>1, ReportedMore
  <2>3. \A p, f : ReportedFrom(findings, origin, p, f) => ReportedFrom(findings', origin', p, f)
    BY <1>1, <1>6, <1>7, <2>1, ReportedMore
  <2>4. \A f : Reported(found, o, f) => ReportedFrom(findings', origin', o, f)
    BY <1>1, <1>6, <1>7, <2>1, ReportedMore
  <2> QED BY <2>2, <2>3, <2>4
<1>10. NothingLegibleIsLost'
  <2> SUFFICES ASSUME NEW f \in 1..file', artifacts'[f].readable,
                      NEW n \in DOMAIN Blocks(artifacts'[f].content), Past(f, n)',
                      Labelled(artifacts'[f].content[n]), Legible(artifacts'[f].content[n].object)
               PROVE  ReportedFrom(findings', origin', artifacts'[f].content[n].object, f)
    BY DEF NothingLegibleIsLost, ReportedFrom
  <2>1. CASE Past(f, n)
    <3>1. ReportedFrom(findings, origin, artifacts[f].content[n].object, f)
      BY <1>1, <2>1, NothingIsLost DEF Parsing
    <3> QED BY <1>1, <1>9, <3>1
  <2>2. CASE ~Past(f, n)
    <3>1. f = file /\ n + Len(blocks') <= Len(Blocks(artifacts[f].content)) /\ ~(n + Len(blocks) <= Len(Blocks(artifacts[f].content)))
      BY <1>1, <2>2 DEF Past
    <3>2. content = Blocks(artifacts[f].content)
      BY <1>1, <3>1 DEF content, Content
    <3>3. n \in DOMAIN content
      BY <1>1, <3>2
    <3>4. n = k
      <4>1. n + (Len(blocks) - 1) <= Len(content) /\ ~(n + Len(blocks) <= Len(content))
        BY <1>4, <3>1, <3>2
      <4>2. n \in Int
        BY <1>3, <3>3
      <4> QED BY <1>3, <4>1, <4>2 DEF k
    <3>5. b = artifacts'[f].content[n]
      BY <1>1, <1>6, <3>1, <3>4
    <3>6. ~BlockRaises(b) /\ Reported(ParseBlock(b, file), b.object, file)
      BY <3>5, BlockReported
    <3>7. Reported(found, o, file)
      BY <3>6 DEF found, o
    <3> QED BY <1>9, <3>1, <3>5, <3>7 DEF o
  <2> QED BY <2>1, <2>2
<1> QED BY <1>8, <1>9, <1>10 DEF Parsing

\* Parsing is an invariant.
THEOREM ParsingIsInvariant == Spec => []Parsing
<1>1. Parsing /\ [Next]_vars => Parsing'
  <2>1. Parsing /\ UNCHANGED vars => Parsing'
    BY DEF Parsing, Reading, ReadFrom, NothingLegibleIsLost, Past, vars
  <2> QED BY <2>1, ParsingOpen, ParsingRead DEF Next
<1> QED BY <1>1, ParsingInit, PTL DEF Spec

\* A block that one of the libraries can read is reported, whatever the other
\* blocks of its file and the other files are like (parser.py, parse_artifact).
THEOREM LegibleIsReported == Spec => []NothingLegibleIsLost
<1>1. Parsing => NothingLegibleIsLost
  BY DEF Parsing
<1> QED BY <1>1, ParsingIsInvariant, PTL

\* The fields of contents that differ only in how far the libraries get.
LEMMA SameFields ==
  ASSUME NEW o, NEW p, ObjectFields \subseteq DOMAIN o, SameContent(o, p)
  PROVE  Equal(o, p)
<1> DEFINE u == [o EXCEPT !.pyca = p.pyca, !.asn1 = p.asn1]
<1>1. u = p
  BY DEF SameContent
<1>2. \A k \in DOMAIN o : k \notin {"pyca", "asn1"} => u[k] = o[k]
  OBVIOUS
<1> HIDE DEF u
<1>3. {"form", "key", "signature", "notAfter", "usage", "hidden"} \subseteq DOMAIN o
  BY DEF ObjectFields
<1>4. /\ u["form"] = o["form"] /\ u["key"] = o["key"] /\ u["signature"] = o["signature"]
      /\ u["notAfter"] = o["notAfter"] /\ u["usage"] = o["usage"] /\ u["hidden"] = o["hidden"]
  BY <1>2, <1>3
<1> QED BY <1>1, <1>4 DEF Equal

\* A certificate or a key has the same risk whichever library reads it
\* (parser.py, _certificate_via_asn1crypto).
THEOREM ReadersGiveOneRisk == Spec => []ReadersAgree
<1>1. Parsing => ReadersAgree
  <2> SUFFICES ASSUME Parsing, NEW i \in DOMAIN findings, NEW j \in DOMAIN findings,
                      findings[i].detector = findings[j].detector,
                      SameContent(origin[i], origin[j]), SameWords(origin[i]),
                      findings[i].algorithm # <<"unknown">>, findings[j].algorithm # <<"unknown">>
               PROVE  /\ Migration(findings[i]) = Migration(findings[j])
                      /\ \A now \in {-1, 0, QuantumDeprecation} :
                           Assess(findings[i], now) = Assess(findings[j], now)
    BY DEF ReadersAgree
  <2>1. ObjectFields \subseteq DOMAIN origin[i]
    BY DEF Parsing, ReadFrom
  <2>2. PICK f : FindingIn(findings[i], origin[i], f)
    BY DEF Parsing, ReadFrom
  <2>3. PICK g : FindingIn(findings[j], origin[j], g)
    BY DEF Parsing, ReadFrom
  <2>4. Alike(findings[i], findings[j])
    BY <2>1, <2>2, <2>3, SameFields, AlikeFindings
  <2> QED BY <2>4, AlikeAssessed
<1> QED BY <1>1, ParsingIsInvariant, PTL

\* A key that could be for anything gets the one use its certificate states
\* (parser.py, _refine_from_key_usage).
THEOREM PurposeIsOfOneUse == Spec => []PurposeFromOneUse
<1>1. Parsing => PurposeFromOneUse
  <2> SUFFICES ASSUME Parsing, NEW i \in DOMAIN findings,
                      findings[i].detector = "certs.certificate",
                      findings[i].algorithm \in {<<"RSA">>, <<"EC">>},
                      Extra(findings[i], "parser") = "asn1crypto" => SameUsage(origin[i])
               PROVE  findings[i].purpose # "unknown" <=> Uses(origin[i]) = {findings[i].purpose}
    BY DEF PurposeFromOneUse
  <2>1. PICK f : FindingIn(findings[i], origin[i], f)
    BY DEF Parsing, ReadFrom
  <2>2. FromCertificate(findings[i], origin[i], f)
    BY <2>1, Kinds DEF FindingIn
  <2> QED BY <2>2, CertificatePurpose
<1> QED BY <1>1, ParsingIsInvariant, PTL
=============================================================================
