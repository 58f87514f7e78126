---------------------------- MODULE DetectorProofs ----------------------------
(***************************************************************************)
(* Theorems about the detector engine, for every sequence of usages the    *)
(* analyzer may hand over.                                                 *)
(***************************************************************************)
EXTENDS Detector, Lemmas

(***************************************************************************)
(* The rule table                                                          *)
(***************************************************************************)

\* A name of one part or more.
IsName(algorithm) == IsSequence(algorithm) /\ algorithm # <<>>

Optional(S) == S \cup {None}

Fields == {"algorithm", "purpose", "level", "keySize", "confidence", "nameArg", "keySizeArg",
           "specTable", "match", "resolvePurpose"}

\* The calls whose purpose the rules leave to the use of the result.
Resolving ==
  {<<"PYCA_ASYM", "rsa", "generate_private_key">>, <<"PYCA_ASYM", "padding", "PKCS1v15">>,
   <<"PYCA_ASYM", "ec", "generate_private_key">>}

Apart(match) == match \notin Resolving

\* What every rule says.
GoodRule(r) ==
  /\ Fields \subseteq DOMAIN r
  /\ IsName(r.algorithm)
  /\ r.purpose \in Purpose
  /\ r.level \in Optional(Nat)
  /\ r.keySize \in Optional(Nat)
  /\ r.confidence \in 1..100
  /\ r.nameArg \in Optional(Nat)
  /\ r.keySizeArg \in Optional(Nat)
  /\ r.specTable \in {None, JwtAlgorithms}

\* A rule says what its call is for, or leaves that open altogether.  Of the
\* rules for a name all do the one or all do the other.
Telling(r) == GoodRule(r) /\ ~r.resolvePurpose /\ Apart(r.match)

Asking(r) ==
  /\ GoodRule(r) /\ r.resolvePurpose /\ ~Apart(r.match)
  /\ r.purpose = "unknown" /\ r.specTable = None /\ r.nameArg = None

ProperRule(r) == Telling(r) \/ Asking(r)

Rulebook(s) == IsSequence(s) /\ \A i \in DOMAIN s : ProperRule(s[i])

\* A single part is a name.
LEMMA OnePart == \A part : IsName(<<part>>)
<1> SUFFICES ASSUME NEW part PROVE IsName(<<part>>)
  OBVIOUS
<1>1. <<part>> \in Seq({part}) /\ <<part>> # <<>>
  OBVIOUS
<1> QED BY <1>1 DEF IsName, IsSequence

\* A rule with nothing but its name, primitive and purpose.
LEMMA RuleGood ==
  ASSUME NEW match, NEW algorithm, IsName(algorithm), NEW primitive, NEW purpose \in Purpose,
         NEW functions, NEW detector
  PROVE  LET r == Rule(match, algorithm, primitive, purpose, functions, detector)
         IN /\ GoodRule(r) /\ r.match = match /\ ~r.resolvePurpose
            /\ r.purpose = purpose /\ r.specTable = None /\ r.nameArg = None
<1> DEFINE r == Rule(match, algorithm, primitive, purpose, functions, detector)
<1>1. /\ r.algorithm = algorithm /\ r.purpose = purpose /\ r.level = None /\ r.keySize = None
      /\ r.confidence = 100 /\ r.nameArg = None /\ r.keySizeArg = None /\ r.specTable = None
      /\ r.match = match /\ ~r.resolvePurpose
      /\ Fields \subseteq DOMAIN r
  <2> DEFINE given == [match |-> match, algorithm |-> algorithm, primitive |-> primitive,
                       purpose |-> purpose, functions |-> functions, detector |-> detector]
  <2>1. /\ DOMAIN r = DOMAIN given \cup DOMAIN NoRule
        /\ \A k \in DOMAIN r : r[k] = IF k \in DOMAIN given THEN given[k] ELSE NoRule[k]
    BY DEF Rule, ++
  <2>2. /\ DOMAIN given = {"match", "algorithm", "primitive", "purpose", "functions", "detector"}
        /\ given.algorithm = algorithm /\ given.purpose = purpose /\ given.match = match
    OBVIOUS
  <2>3. /\ NoRule.level = None /\ NoRule.keySize = None /\ NoRule.confidence = 100
        /\ NoRule.nameArg = None /\ NoRule.keySizeArg = None /\ NoRule.specTable = None
        /\ ~NoRule.resolvePurpose
    BY DEF NoRule
  <2>4. Fields \subseteq DOMAIN NoRule /\ {"match", "resolvePurpose"} \subseteq DOMAIN NoRule
    BY DEF NoRule, Fields
  <2>5. {"level", "keySize", "confidence", "nameArg", "keySizeArg", "specTable"} \subseteq Fields
    BY DEF Fields
  <2> HIDE DEF r, given
  <2> QED BY <2>1, <2>2, <2>3, <2>4, <2>5
<1> HIDE DEF r
<1>2. GoodRule(r)
  BY <1>1 DEF GoodRule, Optional
<1> QED BY <1>1, <1>2 DEF r

\* Fields that leave a rule good.
GoodTop(top) ==
  /\ "algorithm" \notin DOMAIN top /\ "purpose" \notin DOMAIN top /\ "match" \notin DOMAIN top
  /\ "level" \in DOMAIN top => top.level \in Optional(Nat)
  /\ "keySize" \in DOMAIN top => top.keySize \in Nat
  /\ "confidence" \in DOMAIN top => top.confidence \in 1..100
  /\ "nameArg" \in DOMAIN top => top.nameArg \in Nat
  /\ "keySizeArg" \in DOMAIN top => top.keySizeArg \in Nat
  /\ "specTable" \in DOMAIN top => top.specTable = JwtAlgorithms

\* Fields that do not touch the purpose, and those that leave it open.
TellingTop(top) == GoodTop(top) /\ "resolvePurpose" \notin DOMAIN top

AskingTop(top) ==
  /\ GoodTop(top) /\ "resolvePurpose" \in DOMAIN top /\ top.resolvePurpose
  /\ "specTable" \notin DOMAIN top /\ "nameArg" \notin DOMAIN top

\* A rule with other fields on top.
LEMMA TopGood ==
  ASSUME NEW r, GoodRule(r), NEW top, GoodTop(top)
  PROVE  /\ GoodRule(top ++ r)
         /\ \A k \in Fields : (top ++ r)[k] = IF k \in DOMAIN top THEN top[k] ELSE r[k]
<1>1. \A k \in Fields : k \in DOMAIN (top ++ r)
                        /\ (top ++ r)[k] = IF k \in DOMAIN top THEN top[k] ELSE r[k]
  BY DEF ++, GoodRule
<1> QED BY <1>1 DEF GoodRule, GoodTop, Optional, Fields

\* A rule that consumes its arguments.
LEMMA ConsumingGood ==
  ASSUME NEW r, GoodRule(r)
  PROVE  GoodRule(Consuming(r)) /\ \A k \in Fields : Consuming(r)[k] = r[k]
BY DEF Consuming, GoodRule, Fields

\* One table of rules after another.
LEMMA RulesJoined ==
  ASSUME NEW s, Rulebook(s), NEW t, Rulebook(t)
  PROVE  Rulebook(s \o t)
<1>1. IsSequence(s \o t)
  BY Joined DEF Rulebook
<1> SUFFICES ASSUME NEW i \in DOMAIN (s \o t) PROVE ProperRule((s \o t)[i])
  BY <1>1 DEF Rulebook
<1>2. PICK r : r = (s \o t)[i]
  OBVIOUS
<1>3. Has(s \o t, r)
  BY <1>2 DEF Has
<1>4. Has(s, r) \/ Has(t, r)
  BY <1>3, HasJoin DEF Rulebook
<1> QED BY <1>2, <1>4 DEF Has, Rulebook

\* A list of proper rules is one.
LEMMA SomeRules ==
  ASSUME NEW S, \A r \in S : ProperRule(r), NEW s \in Seq(S)
  PROVE  Rulebook(s)
BY DEF Rulebook, IsSequence

\* So are rules one after the other, as many as a family has.
LEMMA OneRules ==
  ASSUME NEW a,
         ProperRule(a)
  PROVE  Rulebook(<<a>>)
<1>1. <<a>> \in Seq({a})
  OBVIOUS
<1> QED BY <1>1, SomeRules

\* Tables of two to nine rules, one lemma per length: the provers take a
\* sequence apart only when its length is written out.
LEMMA TwoRules ==
  ASSUME NEW a, NEW b,
         ProperRule(a), ProperRule(b)
  PROVE  Rulebook(<<a, b>>)
<1>1. <<a, b>> \in Seq({a, b})
  OBVIOUS
<1> QED BY <1>1, SomeRules

\* Four rules.
LEMMA FourRules ==
  ASSUME NEW a, NEW b, NEW c, NEW d,
         ProperRule(a), ProperRule(b), ProperRule(c), ProperRule(d)
  PROVE  Rulebook(<<a, b, c, d>>)
<1>1. <<a, b, c, d>> \in Seq({a, b, c, d})
  OBVIOUS
<1> QED BY <1>1, SomeRules

\* Five rules.
LEMMA FiveRules ==
  ASSUME NEW a, NEW b, NEW c, NEW d, NEW e,
         ProperRule(a), ProperRule(b), ProperRule(c), ProperRule(d), ProperRule(e)
  PROVE  Rulebook(<<a, b, c, d, e>>)
<1>1. <<a, b, c, d, e>> \in Seq({a, b, c, d, e})
  OBVIOUS
<1> QED BY <1>1, SomeRules

\* Six rules.
LEMMA SixRules ==
  ASSUME NEW a, NEW b, NEW c, NEW d, NEW e, NEW f,
         ProperRule(a), ProperRule(b), ProperRule(c), ProperRule(d), ProperRule(e),
         ProperRule(f)
  PROVE  Rulebook(<<a, b, c, d, e, f>>)
<1>1. <<a, b, c, d, e, f>> \in Seq({a, b, c, d, e, f})
  OBVIOUS
<1> QED BY <1>1, SomeRules

\* Seven rules.
LEMMA SevenRules ==
  ASSUME NEW a, NEW b, NEW c, NEW d, NEW e, NEW f, NEW g,
         ProperRule(a), ProperRule(b), ProperRule(c), ProperRule(d), ProperRule(e),
         ProperRule(f), ProperRule(g)
  PROVE  Rulebook(<<a, b, c, d, e, f, g>>)
<1>1. <<a, b, c, d, e, f, g>> \in Seq({a, b, c, d, e, f, g})
  OBVIOUS
<1> QED BY <1>1, SomeRules

\* Eight rules.
LEMMA EightRules ==
  ASSUME NEW a, NEW b, NEW c, NEW d, NEW e, NEW f, NEW g, NEW h,
         ProperRule(a), ProperRule(b), ProperRule(c), ProperRule(d), ProperRule(e),
         ProperRule(f), ProperRule(g), ProperRule(h)
  PROVE  Rulebook(<<a, b, c, d, e, f, g, h>>)
<1>1. <<a, b, c, d, e, f, g, h>> \in Seq({a, b, c, d, e, f, g, h})
  OBVIOUS
<1> QED BY <1>1, SomeRules

\* Nine rules.
LEMMA NineRules ==
  ASSUME NEW a, NEW b, NEW c, NEW d, NEW e, NEW f, NEW g, NEW h, NEW i,
         ProperRule(a), ProperRule(b), ProperRule(c), ProperRule(d), ProperRule(e),
         ProperRule(f), ProperRule(g), ProperRule(h), ProperRule(i)
  PROVE  Rulebook(<<a, b, c, d, e, f, g, h, i>>)
<1>1. <<a, b, c, d, e, f, g, h, i>> \in Seq({a, b, c, d, e, f, g, h, i})
  OBVIOUS
<1> QED BY <1>1, SomeRules

\* Whatever is put on such a rule, it stays one; the forms the families use.
LEMMA TellingForms ==
  /\ \A top, r : TellingTop(top) /\ Telling(r) => Telling(top ++ r)
  /\ \A r : Telling(r) => Telling(Consuming(r))
  /\ \A r : Telling(r) => ProperRule(r)
  /\ \A match, part, primitive, functions, detector : \A purpose \in Purpose :
       Apart(match) => Telling(Rule(match, <<part>>, primitive, purpose, functions, detector))
<1>1. ASSUME NEW top, NEW r, TellingTop(top), Telling(r) PROVE Telling(top ++ r)
  <2>1. GoodRule(top ++ r) /\ (top ++ r).match = r.match /\ (top ++ r).resolvePurpose = r.resolvePurpose
    BY <1>1, TopGood DEF TellingTop, GoodTop, Telling, Fields
  <2> QED BY <1>1, <2>1 DEF Telling
<1>2. ASSUME NEW r, Telling(r) PROVE Telling(Consuming(r))
  <2>1. /\ GoodRule(Consuming(r)) /\ Consuming(r).match = r.match
        /\ Consuming(r).resolvePurpose = r.resolvePurpose
    BY <1>2, ConsumingGood DEF Telling, Fields
  <2> QED BY <1>2, <2>1 DEF Telling
<1>3. ASSUME NEW match, NEW part, NEW primitive, NEW functions, NEW detector,
             NEW purpose \in Purpose, Apart(match)
      PROVE  Telling(Rule(match, <<part>>, primitive, purpose, functions, detector))
  <2> DEFINE r == Rule(match, <<part>>, primitive, purpose, functions, detector)
  <2>1. GoodRule(r) /\ r.match = match /\ ~r.resolvePurpose
    BY OnePart, RuleGood
  <2> HIDE DEF r
  <2>2. Telling(r)
    BY <1>3, <2>1 DEF Telling
  <2> QED BY <2>2 DEF r
<1> QED BY <1>1, <1>2, <1>3 DEF ProperRule

\* A rule that leaves the purpose open, with a padding of its own or without.
LEMMA AskingForms ==
  /\ \A top, match, part, primitive, functions, detector :
       AskingTop(top) /\ ~Apart(match)
         => Asking(top ++ Rule(match, <<part>>, primitive, "unknown", functions, detector))
  /\ \A top, match, part, primitive, functions, detector, padding :
       AskingTop(top) /\ ~Apart(match)
         => Asking(top ++ ([padding |-> padding]
                             ++ Rule(match, <<part>>, primitive, "unknown", functions, detector)))
  /\ \A r : Asking(r) => Asking(Consuming(r))
  /\ \A r : Asking(r) => ProperRule(r)
<1> DEFINE Open(r, match) ==
             /\ GoodRule(r) /\ r.match = match
             /\ r.purpose = "unknown" /\ r.specTable = None /\ r.nameArg = None
<1>1. ASSUME NEW top, NEW r, NEW match, AskingTop(top), ~Apart(match), Open(r, match)
      PROVE  Asking(top ++ r)
  <2> DEFINE t == top ++ r
  <2>1. /\ GoodRule(t)
        /\ \A k \in Fields : t[k] = IF k \in DOMAIN top THEN top[k] ELSE r[k]
    BY <1>1, TopGood DEF AskingTop
  <2> HIDE DEF t
  <2>2. /\ t.match = match /\ t.resolvePurpose = top.resolvePurpose /\ t.purpose = "unknown"
        /\ t.specTable = None /\ t.nameArg = None
    BY <1>1, <2>1 DEF AskingTop, GoodTop, Fields
  <2>3. Asking(t)
    BY <1>1, <2>1, <2>2 DEF Asking, AskingTop
  <2> QED BY <2>3 DEF t
<1>2. ASSUME NEW match, NEW part, NEW primitive, NEW functions, NEW detector, NEW padding
      PROVE  LET r == Rule(match, <<part>>, primitive, "unknown", functions, detector)
             IN Open(r, match) /\ Open([padding |-> padding] ++ r, match)
  <2> DEFINE r == Rule(match, <<part>>, primitive, "unknown", functions, detector)
             t == [padding |-> padding] ++ r
  <2>1. Open(r, match)
    <3>1. "unknown" \in Purpose
      BY DEF Purpose
    <3> QED BY <3>1, OnePart, RuleGood
  <2>2. GoodTop([padding |-> padding]) /\ DOMAIN [padding |-> padding] = {"padding"}
    BY DEF GoodTop
  <2> HIDE DEF r
  <2>3. /\ GoodRule(t)
        /\ \A k \in Fields : t[k] = IF k \in {"padding"} THEN [padding |-> padding][k] ELSE r[k]
    BY <2>1, <2>2, TopGood
  <2> HIDE DEF t
  <2>4. Open(t, match)
    BY <2>1, <2>3 DEF Fields
  <2> QED BY <2>1, <2>4 DEF r, t
<1>3. ASSUME NEW r, Asking(r) PROVE Asking(Consuming(r))
  <2> DEFINE t == Consuming(r)
  <2>1. GoodRule(t) /\ \A k \in Fields : t[k] = r[k]
    BY <1>3, ConsumingGood DEF Asking
  <2> HIDE DEF t
  <2>2. Asking(t)
    BY <1>3, <2>1 DEF Asking, Fields
  <2> QED BY <2>2 DEF t
<1> HIDE DEF Open
<1> QED BY <1>1, <1>2, <1>3 DEF ProperRule

\* Names of which nobody asks.
LEMMA ApartNames ==
  /\ \A a : Apart(<<a>>)
  /\ \A a, b : Apart(<<a, b>>)
  /\ \A b, c : /\ Apart(<<"PYCA", b, c>>) /\ Apart(<<"PYCA_CIPHERS", b, c>>)
               /\ Apart(<<"cryptography", b, c>>) /\ Apart(<<"jose", b, c>>)
  /\ \A a, b, c, d : Apart(<<a, b, c, d>>)
  /\ \A name \in {"MGF1", "PSS", "OAEP"} : Apart(<<"PYCA_ASYM", "padding", name>>)
  /\ \A name \in {"ECDSA", "ECDH"} : Apart(<<"PYCA_ASYM", "ec", name>>)
  /\ \A name : Apart(<<"PYCA_ASYM", "dh", name>>) /\ Apart(<<"PYCA_ASYM", "dsa", name>>)
BY DEF Apart, Resolving

\* The same of names that are put together.
LEMMA ApartJoined ==
  /\ \A a, b : Apart(<<a>> \o <<b>>)
  /\ \A b, c : Apart(<<"PYCA", b>> \o <<c>>) /\ Apart(<<"cryptography", b>> \o <<c>>)
               /\ Apart(<<"jose", b>> \o <<c>>)
  /\ \A a, b, c, d : /\ Apart(<<a, b, c>> \o <<d>>) /\ Apart(<<a, b>> \o <<c, d>>)
                     /\ Apart(<<a>> \o <<b, c>> \o <<d>>)
<1>1. ASSUME NEW a, NEW b PROVE Apart(<<a>> \o <<b>>)
  <2>1. <<a>> \o <<b>> = <<a, b>>
    BY JoinedLists
  <2>2. Apart(<<a, b>>)
    BY ApartNames
  <2> QED BY <2>1, <2>2
<1>2. ASSUME NEW b, NEW c
      PROVE  /\ Apart(<<"PYCA", b>> \o <<c>>) /\ Apart(<<"cryptography", b>> \o <<c>>)
             /\ Apart(<<"jose", b>> \o <<c>>)
  <2>1. \A a : <<a, b>> \o <<c>> = <<a, b, c>>
    BY JoinedLists
  <2>2. Apart(<<"PYCA", b, c>>) /\ Apart(<<"cryptography", b, c>>) /\ Apart(<<"jose", b, c>>)
    BY ApartNames
  <2> QED BY <2>1, <2>2
<1>3. ASSUME NEW a, NEW b, NEW c, NEW d
      PROVE  /\ Apart(<<a, b, c>> \o <<d>>) /\ Apart(<<a, b>> \o <<c, d>>)
             /\ Apart(<<a>> \o <<b, c>> \o <<d>>)
  <2>1. /\ <<a, b, c>> \o <<d>> = <<a, b, c, d>> /\ <<a, b>> \o <<c, d>> = <<a, b, c, d>>
        /\ <<a>> \o <<b, c>> = <<a, b, c>>
    BY JoinedLists
  <2>2. Apart(<<a, b, c, d>>)
    BY ApartNames
  <2> QED BY <2>1, <2>2
<1> QED BY <1>1, <1>2, <1>3

\* Every family, with what its rules have on top.
LEMMA HashGood == Rulebook(HashRules)
<1>1. ASSUME NEW package, NEW detector, NEW table, IsSequence(table),
             \A i \in DOMAIN table : /\ table[i][3] \in Optional(Nat)
                                    /\ Apart(package \o <<table[i][1]>>)
      PROVE  Rulebook(HashFamily(package, detector, table))
  <2> DEFINE family == HashFamily(package, detector, table)
  <2>1. DOMAIN family = DOMAIN table
    BY DEF HashFamily
  <2>2. ASSUME NEW i \in DOMAIN table PROVE ProperRule(family[i])
    <3>1. family[i] = [level |-> table[i][3]]
                        ++ Rule(package \o <<table[i][1]>>, <<table[i][2]>>, "hash", "hashing", {"digest"},
                                detector \o "." \o table[i][1])
      BY DEF HashFamily
    <3>2. TellingTop([level |-> table[i][3]])
      BY <1>1 DEF GoodTop, TellingTop
    <3>3. "hashing" \in Purpose
      BY DEF Purpose
    <3>4. Telling(Rule(package \o <<table[i][1]>>, <<table[i][2]>>, "hash", "hashing", {"digest"},
                       detector \o "." \o table[i][1]))
      BY <1>1, <3>3, TellingForms
    <3> QED BY <3>1, <3>2, <3>4, TellingForms
  <2>3. DOMAIN table = 1..Len(table) /\ Len(table) \in Nat
    BY <1>1, SequenceFacts
  <2>4. family = [i \in 1..Len(table) |-> family[i]]
    BY <2>3 DEF HashFamily
  <2> HIDE DEF family
  <2>5. family \in Seq({family[i] : i \in 1..Len(table)})
    BY <2>3, <2>4
  <2>6. Rulebook(family)
    BY <2>1, <2>2, <2>5 DEF Rulebook, IsSequence
  <2> QED BY <2>6 DEF family
<1>2. IsSequence(HASHLIB) /\ \A i \in DOMAIN HASHLIB : HASHLIB[i][3] \in Optional(Nat)
  <2>1. HASHLIB \in Seq({HASHLIB[i] : i \in 1..12}) /\ DOMAIN HASHLIB = 1..12
    BY DEF HASHLIB
  <2>2. \A i \in 1..12 : HASHLIB[i][3] \in Optional(Nat)
    BY DEF HASHLIB, Optional
  <2> QED BY <2>1, <2>2 DEF IsSequence
<1>3. IsSequence(PYCA_HASHES) /\ \A i \in DOMAIN PYCA_HASHES : PYCA_HASHES[i][3] \in Optional(Nat)
  <2>1. PYCA_HASHES \in Seq({PYCA_HASHES[i] : i \in 1..10}) /\ DOMAIN PYCA_HASHES = 1..10
    BY DEF PYCA_HASHES
  <2>2. \A i \in 1..10 : PYCA_HASHES[i][3] \in Optional(Nat)
    BY DEF PYCA_HASHES, Optional
  <2> QED BY <2>1, <2>2 DEF IsSequence
<1>4. \A a : Apart(<<"hashlib">> \o <<a>>) /\ Apart(<<"PYCA", "hashes">> \o <<a>>)
  <2> QED BY ApartJoined
<1> QED BY <1>1, <1>2, <1>3, <1>4, RulesJoined DEF HashRules

\* What is found in a dict is one of its pairs.
LEMMA DictFacts ==
  ASSUME NEW pairs
  PROVE  /\ \A p \in pairs : p[1] \in DOMAIN Dict(pairs)
         /\ \A k \in DOMAIN Dict(pairs) : \E p \in pairs : k = p[1] /\ Dict(pairs)[k] = p[2]
BY DEF Dict

\* The cipher classes of the library have a fixed key size or none.
LEMMA CipherFacts ==
  \A class \in DOMAIN CipherAlgorithms :
    CipherAlgorithms[class][3] \in Optional(Nat)
BY DictFacts DEF CipherAlgorithms, Optional

\* The rules for the cipher classes are well formed.
LEMMA CipherGood == Rulebook(CipherRules)
<1> DEFINE Class(name) == <<"PYCA_CIPHERS", "algorithms", name>>
           names == <<"AES", "AES128", "AES256", "Camellia", "TripleDES", "Blowfish",
                      "CAST5", "IDEA", "SEED", "ARC4", "ChaCha20">>
           classes == [i \in DOMAIN names |->
              LET c == CipherAlgorithms[Class(names[i])] IN
              [level |-> c[3]] ++
              Rule(Class(names[i]), <<c[1]>>, c[2], "encryption", {"encrypt"}, "pyca.cipher.algorithm")]
           cipher == Consuming([algorithmArg |-> 0, modeArg |-> 1] ++
              Rule(<<"PYCA_CIPHERS", "Cipher">>, <<"unknown">>, "block-cipher", "encryption",
                   {"encrypt", "decrypt"}, "pyca.cipher"))
<1>1. CipherRules = <<cipher>> \o classes
  BY DEF CipherRules
<1>2. ProperRule(cipher)
  <2>1. TellingTop([algorithmArg |-> 0, modeArg |-> 1]) /\ "encryption" \in Purpose
    BY DEF GoodTop, TellingTop, Purpose
  <2> QED BY <2>1, TellingForms, ApartNames
<1>3. Rulebook(classes)
  <2>1. DOMAIN names = 1..11
    OBVIOUS
  <2>2. ASSUME NEW i \in 1..11 PROVE CipherAlgorithms[Class(names[i])][3] \in Optional(Nat)
    <3>1. names[i] \in {"AES", "AES128", "AES256", "Camellia", "TripleDES", "Blowfish",
                       "CAST5", "IDEA", "SEED", "ARC4", "ChaCha20"}
      OBVIOUS
    <3>2. Class(names[i]) \in DOMAIN CipherAlgorithms
      <4> DEFINE n == names[i]
      <4>1. n \in {"AES", "AES128", "AES256", "Camellia", "TripleDES", "Blowfish",
                   "CAST5", "IDEA", "SEED", "ARC4", "ChaCha20"}
        BY <3>1
      <4> HIDE DEF n
      <4>2. Class(n) \in DOMAIN CipherAlgorithms
        BY <4>1 DEF CipherAlgorithms, Dict
      <4> QED BY <4>2 DEF n
    <3> QED BY <3>2, CipherFacts
  <2>3. ASSUME NEW i \in 1..11 PROVE ProperRule(classes[i])
    <3> DEFINE c == CipherAlgorithms[Class(names[i])]
    <3>1. TellingTop([level |-> c[3]])
      BY <2>2 DEF GoodTop, TellingTop
    <3>2. classes[i] = [level |-> c[3]] ++
              Rule(Class(names[i]), <<c[1]>>, c[2], "encryption", {"encrypt"}, "pyca.cipher.algorithm")
      OBVIOUS
    <3>3. "encryption" \in Purpose
      BY DEF Purpose
    <3> QED BY <3>1, <3>2, <3>3, TellingForms, ApartNames
  <2>4. classes = [i \in 1..11 |-> classes[i]] /\ DOMAIN classes = 1..11
    BY <2>1
  <2> HIDE DEF classes
  <2>5. classes \in Seq({classes[i] : i \in 1..11})
    BY <2>4
  <2> QED BY <2>3, <2>4, <2>5 DEF Rulebook, IsSequence
<1> HIDE DEF classes, cipher
<1> QED BY <1>1, <1>2, <1>3, OneRules, RulesJoined

\* So are the rules for JSON web tokens, ...
LEMMA JwtGood == \A module \in {<<"jwt">>, <<"jose", "jwt">>} : Rulebook(JwtRules(module))
<1> SUFFICES ASSUME NEW module \in {<<"jwt">>, <<"jose", "jwt">>} PROVE Rulebook(JwtRules(module))
  OBVIOUS
<1>1. /\ TellingTop([nameKwarg |-> "algorithm", nameArg |-> 3, specTable |-> JwtAlgorithms])
      /\ TellingTop([nameKwarg |-> "algorithms", specTable |-> JwtAlgorithms])
      /\ TellingTop([valueKwarg |-> "verify", valueEquals |-> <<"bool", FALSE>>])
      /\ TellingTop([valueKwarg |-> "options", valueKey |-> "verify_signature",
                  valueEquals |-> <<"bool", FALSE>>])
  BY DEF GoodTop, TellingTop
<1>2. "digital_signature" \in Purpose
  BY DEF Purpose
<1>3. \A call : Apart(module \o <<call>>)
  BY ApartJoined
<1> QED BY <1>1, <1>2, <1>3, TellingForms, FourRules DEF JwtRules

\* ... those for the digest classes, ...
LEMMA DigestGood == Rulebook(DigestRules)
<1>1. /\ TellingTop([nameArg |-> 0]) /\ TellingTop([digestArg |-> 2, digestKwarg |-> "digestmod"])
      /\ TellingTop([digestArg |-> 1]) /\ TellingTop([digestArg |-> 0])
  BY DEF GoodTop, TellingTop
<1>2. {"hashing", "mac", "key_derivation"} \subseteq Purpose
  BY DEF Purpose
<1> QED BY <1>1, <1>2, TellingForms, ApartNames, SixRules DEF DigestRules

\* ... those for authenticated encryption, ...
LEMMA AeadGood == Rulebook(AeadRules)
<1>1. /\ TellingTop([mode |-> "cbc", keySize |-> 128, level |-> 128])
      /\ TellingTop([mode |-> "gcm"])
      /\ TellingTop([mode |-> "gcm", keySizeKwarg |-> "bit_length", keySizeArg |-> 0])
      /\ TellingTop([mode |-> "ccm"])
      /\ TellingTop([level |-> 256])
  BY DEF GoodTop, TellingTop, Optional
<1>2. "encryption" \in Purpose
  BY DEF Purpose
<1>3. /\ \A name : Apart(<<"PYCA_CIPHERS", "aead", name>>)
      /\ \A name, call : Apart(<<"PYCA_CIPHERS", "aead", name>> \o <<call>>)
      /\ Apart(<<"cryptography", "fernet">> \o <<"Fernet">>)
      /\ Apart(<<"cryptography", "fernet">> \o <<"MultiFernet">>)
      /\ Apart(<<"cryptography", "fernet">> \o <<"Fernet", "generate_key">>)
  <2> QED BY ApartJoined, ApartNames
<1> QED BY <1>1, <1>2, <1>3, TellingForms, NineRules DEF AeadRules

\* ... those for certificates, ...
LEMMA CertificateGood == Rulebook(CertificateRules)
<1>1. TellingTop([assetType |-> "certificate", confidence |-> OpaqueArtifactConfidence,
               extra |-> [artifact |-> "x509_certificate"]])
  BY DEF GoodTop, TellingTop, OpaqueArtifactConfidence
<1>2. "unknown" \in Purpose
  BY DEF Purpose
<1> QED BY <1>1, <1>2, TellingForms, ApartNames, TwoRules DEF CertificateRules

\* ... those for RSA, ...
LEMMA RsaGood == Rulebook(RsaRules)
<1>1. /\ AskingTop([keySizeKwarg |-> "key_size", keySizeArg |-> 1, resolvePurpose |-> TRUE])
      /\ AskingTop([resolvePurpose |-> TRUE])
      /\ TellingTop([emits |-> FALSE])
      /\ \A p : TellingTop([padding |-> p])
  BY DEF GoodTop, TellingTop, AskingTop
<1>2. {"unknown", "digital_signature", "key_establishment", "encryption"} \subseteq Purpose
  BY DEF Purpose
<1>3. /\ ~Apart(<<"PYCA_ASYM", "rsa", "generate_private_key">>)
      /\ ~Apart(<<"PYCA_ASYM", "padding", "PKCS1v15">>)
  BY DEF Apart, Resolving
<1> QED BY <1>1, <1>2, <1>3, TellingForms, AskingForms, ApartNames, SevenRules DEF RsaRules

\* ... those for elliptic curves, ...
LEMMA CurveGood == Rulebook(CurveRules)
<1>1. /\ AskingTop([curveArg |-> 0, resolvePurpose |-> TRUE])
      /\ TellingTop([digestArg |-> 0, digestKwarg |-> "algorithm"])
      /\ \A a : TellingTop([parameterSet |-> a, level |-> 128])
      /\ \A a : TellingTop([parameterSet |-> a, level |-> 224])
      /\ TellingTop([keySizeKwarg |-> "key_size"])
      /\ TellingTop([keySizeKwarg |-> "key_size", keySizeArg |-> 0])
  BY DEF GoodTop, TellingTop, AskingTop, Optional
<1>2. {"unknown", "digital_signature", "key_establishment"} \subseteq Purpose
  BY DEF Purpose
<1>3. ~Apart(<<"PYCA_ASYM", "ec", "generate_private_key">>)
  BY DEF Apart, Resolving
<1>4. \A a, b : Apart(<<"PYCA_ASYM">> \o <<a, b>> \o <<"generate">>)
  BY ApartJoined
<1> DEFINE Named(class, algorithm, primitive, purpose, functions, level, detector) ==
             [parameterSet |-> algorithm, level |-> level] ++
             Rule(<<"PYCA_ASYM">> \o class \o <<"generate">>, <<algorithm>>, primitive, purpose,
                  functions, detector)
<1>5. ASSUME NEW a, NEW b, NEW algorithm, NEW primitive, NEW purpose \in Purpose, NEW functions,
             NEW level \in {128, 224}, NEW detector
      PROVE  ProperRule(Named(<<a, b>>, algorithm, primitive, purpose, functions, level, detector))
  BY <1>1, <1>4, TellingForms
<1> DEFINE ed25519 == Named(<<"ed25519", "Ed25519PrivateKey">>, "Ed25519", "signature",
                            "digital_signature", {"keygen", "sign"}, 128, "pyca.ed25519")
           ed448 == Named(<<"ed448", "Ed448PrivateKey">>, "Ed448", "signature",
                          "digital_signature", {"keygen", "sign"}, 224, "pyca.ed448")
           x25519 == Named(<<"x25519", "X25519PrivateKey">>, "X25519", "key-agree",
                           "key_establishment", {"keygen"}, 128, "pyca.x25519")
<1>6. ProperRule(ed25519) /\ ProperRule(ed448) /\ ProperRule(x25519)
  <2> HIDE DEF Named
  <2> QED BY <1>2, <1>5
<1> DEFINE ec == Consuming([curveArg |-> 0, resolvePurpose |-> TRUE] ++
                   Rule(<<"PYCA_ASYM", "ec", "generate_private_key">>, <<"EC">>, "unknown",
                        "unknown", {"keygen"}, "pyca.ec.keygen"))
           ecdsa == Consuming([digestArg |-> 0, digestKwarg |-> "algorithm"] ++
                      Rule(<<"PYCA_ASYM", "ec", "ECDSA">>, <<"ECDSA">>, "signature",
                           "digital_signature", {"sign"}, "pyca.ecdsa"))
           ecdh == Rule(<<"PYCA_ASYM", "ec", "ECDH">>, <<"ECDH">>, "key-agree",
                        "key_establishment", {"encapsulate"}, "pyca.ecdh")
           dh == [keySizeKwarg |-> "key_size"] ++
                 Rule(<<"PYCA_ASYM", "dh", "generate_parameters">>, <<"DH">>, "key-agree",
                      "key_establishment", {"keygen"}, "pyca.dh")
           dsa == [keySizeKwarg |-> "key_size", keySizeArg |-> 0] ++
                  Rule(<<"PYCA_ASYM", "dsa", "generate_private_key">>, <<"DSA">>, "signature",
                       "digital_signature", {"keygen"}, "pyca.dsa")
<1>7. ProperRule(ec)
  BY <1>1, <1>3, AskingForms
<1>8. ProperRule(ecdsa) /\ ProperRule(ecdh)
  BY <1>1, <1>2, TellingForms, ApartNames
<1>9. ProperRule(dh) /\ ProperRule(dsa)
  BY <1>1, <1>2, TellingForms, ApartNames
<1>10. CurveRules = <<ec, ecdsa, ecdh, ed25519, ed448, x25519, dh, dsa>>
  BY DEF CurveRules
<1> HIDE DEF ec, ecdsa, ecdh, dh, dsa, ed25519, ed448, x25519
<1> QED BY <1>6, <1>7, <1>8, <1>9, <1>10, EightRules

\* ... those for random numbers, ...
LEMMA RandomGood == Rulebook(RandomRules)
<1>1. "random" \in Purpose
  BY DEF Purpose
<1> QED BY <1>1, TellingForms, ApartNames, SixRules DEF RandomRules

\* ... and those for TLS.
LEMMA TlsGood == Rulebook(TlsRules)
<1>1. /\ TellingTop([assetType |-> "protocol"]) /\ TellingTop([valueName |-> <<"ssl", "CERT_NONE">>])
      /\ TellingTop([valueEquals |-> <<"bool", FALSE>>])
  BY DEF GoodTop, TellingTop
<1>2. "key_establishment" \in Purpose
  BY DEF Purpose
<1> QED BY <1>1, <1>2, TellingForms, ApartNames, FiveRules DEF TlsRules

\* The whole table.
LEMMA TableGood == Rulebook(RuleTable)
<1> DEFINE hkdf == Consuming([digestArg |-> 0, digestKwarg |-> "algorithm"] ++
                     Rule(<<"PYCA", "kdf", "hkdf", "HKDF">>, <<"HKDF">>, "kdf", "key_derivation",
                          {"keyderive"}, "pyca.hkdf"))
           load == [assetType |-> "related-crypto-material", confidence |-> OpaqueArtifactConfidence,
                    extra |-> [artifact |-> "private-key"]] ++
                     Rule(<<"PYCA", "serialization", "load_pem_private_key">>, <<"unknown">>, "unknown",
                          "unknown", {"other"}, "pyca.load_private_key")
           dynamic == [valueName |-> <<"hashlib">>, confidence |-> 30] ++
                     Rule(<<"getattr">>, <<"unknown">>, "unknown", "unknown", {},
                          "dynamic.getattr.hashlib")
<1>1. /\ TellingTop([digestArg |-> 0, digestKwarg |-> "algorithm"])
      /\ TellingTop([assetType |-> "related-crypto-material", confidence |-> OpaqueArtifactConfidence,
                  extra |-> [artifact |-> "private-key"]])
      /\ TellingTop([valueName |-> <<"hashlib">>, confidence |-> 30])
  BY DEF GoodTop, TellingTop, OpaqueArtifactConfidence
<1>2. "key_derivation" \in Purpose /\ "unknown" \in Purpose
  BY DEF Purpose
<1>3. Rulebook(<<hkdf>>) /\ Rulebook(<<load>>) /\ Rulebook(<<dynamic>>)
  BY <1>1, <1>2, TellingForms, ApartNames, OneRules
<1>4. RuleTable = HashRules \o CipherRules \o JwtRules(<<"jwt">>) \o JwtRules(<<"jose", "jwt">>)
                    \o DigestRules \o AeadRules \o CertificateRules \o <<hkdf>> \o RsaRules
                    \o CurveRules \o <<load>> \o RandomRules \o <<dynamic>> \o TlsRules
  BY DEF RuleTable
<1> HIDE DEF hkdf, load, dynamic
<1>5. \A s, t : Rulebook(s) /\ Rulebook(t) => Rulebook(s \o t)
  BY RulesJoined
<1> QED BY <1>3, <1>4, <1>5, HashGood, CipherGood, JwtGood, DigestGood, AeadGood, CertificateGood,
           RsaGood, CurveGood, RandomGood, TlsGood

(***************************************************************************)
(* A finding                                                               *)
(***************************************************************************)

FactFields == {"algorithm", "purpose", "level", "keySize"}

\* What the steps of a finding hand on.
GoodFacts(f) ==
  /\ FactFields \subseteq DOMAIN f
  /\ IsName(f.algorithm)
  /\ f.purpose \in Purpose
  /\ f.level \in Optional(Nat)
  /\ f.keySize \in Optional(Int)

\* What a finding says.
GoodFinding(f) ==
  /\ f.algorithm # <<>>
  /\ f.purpose \in Purpose
  /\ f.level \in Nat \cup {None}
  /\ f.keySize \in Int \cup {None}
  /\ f.confidence \in 1..100

GoodUsage(u) ==
  /\ u.confidence \in 1..100
  /\ IsSequence(u.args)
  /\ \A i \in DOMAIN u.args : WellFormedValue(u.args[i].value)
  /\ \A k \in DOMAIN u.kwargs : WellFormedValue(u.kwargs[k].value)

\* A canonical name is a name.
LEMMA Canonical ==
  ASSUME NEW name, IsName(name)
  PROVE  IsName(NormalizeAlgorithm(name))
<1>1. DOMAIN name = 1..Len(name) /\ Len(name) \in Nat /\ Len(name) # 0
  BY SequenceFacts DEF IsName
<1> DEFINE other == [i \in DOMAIN name |-> Respelled(name[i])]
<1>2. other \in Seq({other[i] : i \in 1..Len(name)}) /\ other # <<>>
  <2>1. other = [i \in 1..Len(name) |-> other[i]] /\ DOMAIN other = 1..Len(name)
    BY <1>1
  <2> HIDE DEF other
  <2> QED BY <1>1, <2>1
<1>3. IsName(other)
  BY <1>2 DEF IsName, IsSequence
<1> HIDE DEF other
<1>4. NormalizeAlgorithm(name) \in {name, other}
  BY DEF NormalizeAlgorithm, other, IsName
<1> QED BY <1>3, <1>4

\* The name composed of an algorithm and a digest is a name.
LEMMA CompositeName ==
  ASSUME NEW name, IsName(name), NEW digest
  PROVE  IsName(NormalizeComposite(name, digest))
<1>1. IsName(NormalizeAlgorithm(name)) /\ IsName(NormalizeAlgorithm(<<digest>>))
  BY Canonical, OnePart
<1>2. \A a, b : IsName(a) /\ IsName(b) => IsName(a \o b)
  <2> SUFFICES ASSUME NEW a, NEW b, IsName(a), IsName(b) PROVE IsName(a \o b)
    OBVIOUS
  <2>1. IsSequence(a \o b)
    BY Joined DEF IsName
  <2>2. Len(a \o b) = Len(a) + Len(b) /\ Len(a) \in Nat /\ Len(b) \in Nat /\ Len(a) # 0
    BY DEF IsName, IsSequence
  <2>3. Len(a \o b) # 0
    BY <2>2
  <2> QED BY <2>1, <2>3 DEF IsName
<1> QED BY <1>1, <1>2 DEF NormalizeComposite

\* An argument the analyzer described, or none.
LEMMA ArgumentGood ==
  ASSUME NEW u, GoodUsage(u), NEW index \in Optional(Nat)
  PROVE  WellFormedValue(Argument(u, index).value)
<1>1. DOMAIN u.args = 1..Len(u.args) /\ Len(u.args) \in Nat
  BY SequenceFacts DEF GoodUsage
<1>2. WellFormedValue(NoArgument.value)
  BY DEF WellFormedValue, NoArgument, IsA
<1>3. CASE index # None /\ index < Len(u.args)
  BY <1>1, <1>3 DEF Argument, GoodUsage, Optional
<1>4. CASE ~(index # None /\ index < Len(u.args))
  BY <1>2, <1>4 DEF Argument
<1> QED BY <1>3, <1>4

\* The level of a named algorithm is a number, if it is known.
GoodSpec(spec) ==
  /\ {"algorithm", "purpose", "level", "functions"} \subseteq DOMAIN spec
  /\ IsName(spec.algorithm)
  /\ spec.purpose \in Purpose
  /\ spec.level \in Optional(Nat)
  /\ "keySize" \notin DOMAIN spec

\* An entry of the algorithm tables is well formed when its algorithm has a name.
LEMMA SpecForm ==
  \A algorithm, primitive, functions, padding, curve :
    \A purpose \in Purpose, level \in Optional(Nat) :
      IsName(algorithm) => GoodSpec(AlgorithmSpec(algorithm, primitive, purpose, functions, padding,
                                                  curve, level))
BY DEF AlgorithmSpec, GoodSpec

\* Every entry of the table is a whole one.
LEMMA JwtSpecs == \A name \in DOMAIN JwtAlgorithms : GoodSpec(JwtAlgorithms[name])
<1>1. {"mac", "digital_signature"} \subseteq Purpose /\ {0, 128, 192, 256, None} \subseteq Optional(Nat)
  BY DEF Purpose, Optional
<1>2. \A part, digest : IsName(<<part>>) /\ IsName(<<part, digest>>)
  <2>1. \A part, digest : <<part, digest>> \in Seq({part, digest}) /\ <<part, digest>> # <<>>
    OBVIOUS
  <2> QED BY <2>1, OnePart DEF IsName, IsSequence
<1>3. \A digest, level : level \in {128, 192, 256} => GoodSpec(JwtHmac(digest, level))
  <2>1. \A digest : IsName(<<"HMAC", digest>>)
    BY <1>2
  <2> QED BY <1>1, <2>1, SpecForm DEF JwtHmac
<1>4. \A padding : GoodSpec(JwtRsa(padding))
  <2>1. IsName(<<"RSA">>)
    BY <1>2
  <2> QED BY <1>1, <2>1, SpecForm DEF JwtRsa
<1>5. \A algorithm, curve, level : level \in {128, 192, 256} => GoodSpec(JwtEc(algorithm, curve, level))
  <2>1. \A algorithm : IsName(<<algorithm>>)
    BY <1>2
  <2> QED BY <1>1, <2>1, SpecForm DEF JwtEc
<1>6. GoodSpec(AlgorithmSpec(<<"none">>, "other", "digital_signature", {}, "unknown", None, 0))
  <2>1. IsName(<<"none">>)
    BY <1>2
  <2> QED BY <1>1, <2>1, SpecForm
<1> QED BY <1>3, <1>4, <1>5, <1>6 DEF JwtAlgorithms

\* The facts a rule starts with, and each step that adds what an argument says.
\* Only an entry of the tables says what the call is for.
LEMMA FactsGood ==
  ASSUME NEW rule, GoodRule(rule)
  PROVE  GoodFacts(Facts(rule)) /\ Facts(rule).purpose = rule.purpose
<1>1. \A k \in Fields : k \in DOMAIN Facts(rule) /\ Facts(rule)[k] = rule[k]
  BY DEF Facts, ++, GoodRule, Fields
<1> QED BY <1>1 DEF GoodRule, GoodFacts, Fields, Optional, FactFields

\* The facts stay good when an entry of the tables fills them in.
LEMMA SpecGood ==
  ASSUME NEW f, GoodFacts(f), NEW u, NEW rule, NEW spec, spec = None \/ GoodSpec(spec)
  PROVE  /\ GoodFacts(FromSpec(f, u, rule, spec))
         /\ spec = None => FromSpec(f, u, rule, spec).purpose = f.purpose
<1>1. CASE spec # None
  <2> DEFINE top == [spec EXCEPT !.functions = IF @ = {} THEN rule.functions ELSE @]
  <2>1. /\ DOMAIN top = DOMAIN spec /\ top.algorithm = spec.algorithm /\ top.purpose = spec.purpose
        /\ top.level = spec.level
    BY <1>1 DEF GoodSpec
  <2>2. FromSpec(f, u, rule, spec) = top ++ f
    BY <1>1, Zenon DEF FromSpec
  <2> HIDE DEF top
  <2>3. \A k \in FactFields : k \in DOMAIN (top ++ f)
                              /\ (top ++ f)[k] = IF k \in DOMAIN top THEN top[k] ELSE f[k]
    BY DEF ++, GoodFacts
  <2>4. GoodFacts(top ++ f)
    BY <1>1, <2>1, <2>3 DEF GoodFacts, GoodSpec, FactFields
  <2> QED BY <1>1, <2>2, <2>4
<1>2. CASE spec = None
  <2> DEFINE named == Argument(u, rule.nameArg).value
             name == NormalizeAlgorithm(<<Text(named)>>)
  <2>1. IsName(name)
    BY OnePart, Canonical
  <2>2. FromSpec(f, u, rule, spec) \in {f, [f EXCEPT !.algorithm = name]}
    BY <1>2 DEF FromSpec
  <2> HIDE DEF name
  <2> QED BY <2>1, <2>2 DEF GoodFacts, FactFields
<1> QED BY <1>1, <1>2

\* The facts stay good when the cipher class fills them in, ...
LEMMA CipherStep ==
  ASSUME NEW f, GoodFacts(f), NEW u, NEW rule
  PROVE  GoodFacts(FromCipher(f, u, rule)) /\ FromCipher(f, u, rule).purpose = f.purpose
<1> DEFINE class == Argument(u, rule.algorithmArg).name
           c == CipherAlgorithms[class]
<1>1. CASE class \notin DOMAIN CipherAlgorithms
  BY <1>1 DEF FromCipher
<1>2. CASE class \in DOMAIN CipherAlgorithms
  <2>1. FromCipher(f, u, rule) = [f EXCEPT !.algorithm = <<c[1]>>, !.primitive = c[2], !.level = c[3]]
    BY <1>2 DEF FromCipher
  <2>2. c[3] \in Optional(Nat) /\ IsName(<<c[1]>>)
    BY <1>2, CipherFacts, OnePart
  <2> HIDE DEF c
  <2> QED BY <2>1, <2>2 DEF GoodFacts, FactFields
<1> QED BY <1>1, <1>2

\* ... the mode of operation, ...
LEMMA ModeStep ==
  ASSUME NEW f, GoodFacts(f), NEW u, NEW rule
  PROVE  GoodFacts(FromMode(f, u, rule)) /\ FromMode(f, u, rule).purpose = f.purpose
BY DEF FromMode, GoodFacts, FactFields

\* ... the curve, ...
LEMMA CurveStep ==
  ASSUME NEW f, GoodFacts(f), NEW u, NEW rule
  PROVE  GoodFacts(FromCurve(f, u, rule)) /\ FromCurve(f, u, rule).purpose = f.purpose
<1> DEFINE class == Argument(u, rule.curveArg).name
           c == Curves[class]
<1>1. CASE class \notin DOMAIN Curves
  BY <1>1 DEF FromCurve
<1>2. CASE class \in DOMAIN Curves
  <2>1. FromCurve(f, u, rule) = [f EXCEPT !.parameterSet = c[1], !.curve = c[1], !.level = c[2]]
    BY <1>2 DEF FromCurve
  <2>2. c[2] \in Optional(Nat)
    BY <1>2, DictFacts DEF Curves, Optional
  <2> HIDE DEF c
  <2> QED BY <2>1, <2>2 DEF GoodFacts, FactFields
<1> QED BY <1>1, <1>2

\* ... the digest, ...
LEMMA DigestStep ==
  ASSUME NEW f, GoodFacts(f), NEW u, NEW rule, GoodRule(rule)
  PROVE  GoodFacts(FromDigest(f, u, rule)) /\ FromDigest(f, u, rule).purpose = f.purpose
<1> DEFINE digest == Digest(u, rule)
           hash == NormalizeAlgorithm(<<digest>>)[1]
           strength == IF hash \in DOMAIN HashStrength THEN HashStrength[hash] ELSE None
           composite == NormalizeComposite(rule.algorithm, digest)
<1>1. IsName(composite)
  BY CompositeName DEF GoodRule
<1>2. strength \in Optional(Nat)
  BY DictFacts DEF HashStrength, Optional
<1>3. FromDigest(f, u, rule) \in
        {f, [f EXCEPT !.algorithm = composite, !.level = IF @ = None THEN strength ELSE @]}
  BY Zenon DEF FromDigest
<1> HIDE DEF composite, strength
<1> QED BY <1>1, <1>2, <1>3 DEF GoodFacts, FactFields

\* An integer the analyzer read, or none.
LEMMA KeySizeRead ==
  ASSUME NEW u, GoodUsage(u), NEW rule, GoodRule(rule)
  PROVE  KeySize(u, rule) \in Optional(Int)
<1> DEFINE kw == Keyword(u, rule.keySizeKwarg)
           position == Argument(u, rule.keySizeArg)
           v == IF IsA("int", kw.value) THEN kw.value ELSE position.value
<1>1. WellFormedValue(kw.value)
  BY DEF Keyword, GoodUsage, WellFormedValue, NoArgument, IsA
<1>2. WellFormedValue(position.value)
  BY ArgumentGood DEF GoodRule
<1>3. KeySize(u, rule) = IF IsA("int", v) THEN v[2] ELSE None
  BY DEF KeySize
<1> HIDE DEF kw, position
<1>4. IsA("int", v) => v[2] \in Int
  BY <1>1, <1>2 DEF WellFormedValue
<1> QED BY <1>3, <1>4 DEF Optional

\* ... and the key size.
LEMMA KeySizeStep ==
  ASSUME NEW f, GoodFacts(f), NEW u, GoodUsage(u), NEW rule, GoodRule(rule)
  PROVE  GoodFacts(FromKeySize(f, u, rule)) /\ FromKeySize(f, u, rule).purpose = f.purpose
<1> DEFINE size == IF f.keySize # None THEN f.keySize ELSE KeySize(u, rule)
           known == rule.algorithm = <<"RSA">> /\ size \in DOMAIN RsaStrength
<1>1. size \in Optional(Int)
  BY KeySizeRead DEF GoodFacts
<1>2. known => RsaStrength[size] \in Nat
  BY DictFacts DEF RsaStrength
<1>3. FromKeySize(f, u, rule) =
        [f EXCEPT !.keySize = size, !.level = IF known THEN RsaStrength[size] ELSE @]
  BY DEF FromKeySize
<1> HIDE DEF size, known
<1> QED BY <1>1, <1>2, <1>3 DEF GoodFacts, FactFields, Optional

\* What the calls on a key say is one of the purposes there are.
LEMMA PurposeGood ==
  ASSUME NEW rule, NEW u, NEW ctx, NEW primitive
  PROVE  /\ PurposeFromUsage(rule, u, ctx, primitive).purpose \in Purpose
         /\ PurposeFromUsage(rule, u, ctx, primitive).cap \in 1..100
<1> DEFINE exact == IF u.parent = None THEN {} ELSE Purposes({Last(u.parent)})
           used  == Purposes(MethodsOn(ctx, u.file, rule.match))
           result == PurposeFromUsage(rule, u, ctx, primitive)
<1>1. \A ms : \A p \in Purposes(ms) : p[1] \in Purpose
  <2>1. \A m \in DOMAIN PurposeByMethod : PurposeByMethod[m][1] \in Purpose
    BY DEF PurposeByMethod, Purpose
  <2> QED BY <2>1 DEF Purposes
<1>2. (\A p \in exact : p[1] \in Purpose) /\ (\A p \in used : p[1] \in Purpose)
  BY <1>1
<1>3. result = IF exact # {} THEN Resolved(CHOOSE p \in exact : TRUE, 100)
               ELSE IF Cardinality(used) = 1
               THEN Resolved(CHOOSE p \in used : TRUE, PurposeFromUsageCap)
               ELSE Resolved(<<"unknown", primitive>>, PurposeAmbiguousCap)
  BY DEF PurposeFromUsage
<1>4. Cardinality(used) = 1 => used # {}
  BY FS_EmptySet
<1> HIDE DEF exact, used, result
<1>5. /\ exact # {} => (CHOOSE p \in exact : TRUE) \in exact
      /\ used # {} => (CHOOSE p \in used : TRUE) \in used
  OBVIOUS
<1>6. result.purpose \in Purpose /\ result.cap \in 1..100
  BY <1>2, <1>3, <1>4, <1>5 DEF Resolved, PurposeFromUsageCap, PurposeAmbiguousCap, Purpose
<1> QED BY <1>6 DEF result

\* A finding says what it must, and is of the file of its call.
LEMMA BuildGood ==
  ASSUME NEW rule, GoodRule(rule), NEW u, GoodUsage(u), NEW spec, spec = None \/ GoodSpec(spec),
         NEW ctx
  PROVE  GoodFinding(Build(rule, u, spec, ctx)) /\ Build(rule, u, spec, ctx).file = u.file
<1> DEFINE f0 == FromSpec(Facts(rule), u, rule, spec)
           f1 == FromMode(FromCipher(f0, u, rule), u, rule)
           f  == FromKeySize(FromDigest(FromCurve(f1, u, rule), u, rule), u, rule)
           p  == IF rule.resolvePurpose /\ f.purpose = "unknown"
                 THEN PurposeFromUsage(rule, u, ctx, f.primitive)
                 ELSE Resolved(<<f.purpose, f.primitive>>, 100)
           b  == Build(rule, u, spec, ctx)
<1>1. GoodFacts(f0)
  BY FactsGood, SpecGood
<1> HIDE DEF f0
<1>2. GoodFacts(f1)
  BY <1>1, CipherStep, ModeStep
<1> HIDE DEF f1
<1>3. GoodFacts(f)
  BY <1>2, CurveStep, DigestStep, KeySizeStep
<1> HIDE DEF f
<1>4. p.purpose \in Purpose /\ p.cap \in 1..100
  BY <1>3, PurposeGood DEF Resolved, GoodFacts
<1>5. /\ b.algorithm = NormalizeAlgorithm(f.algorithm) /\ b.purpose = p.purpose
      /\ b.level = f.level /\ b.keySize = f.keySize /\ b.file = u.file
      /\ b.confidence = Lowest(Lowest(u.confidence, rule.confidence), p.cap)
  BY DEF Build, f, f1, f0
<1> HIDE DEF p, b
<1>6. IsName(b.algorithm)
  BY <1>3, <1>5, Canonical DEF GoodFacts
<1>7. b.confidence \in 1..100
  BY <1>4, <1>5 DEF Lowest, GoodUsage, GoodRule
<1>8. GoodFinding(b) /\ b.file = u.file
  BY <1>3, <1>4, <1>5, <1>6, <1>7 DEF GoodFinding, GoodFacts, IsName, Optional
<1> QED BY <1>8 DEF b

\* A list of such findings.
GoodFindings(s, file) ==
  /\ IsSequence(s)
  /\ \A x : Has(s, x) => GoodFinding(x) /\ x.file = file

\* No finding, or one, of a file.
LEMMA ShortFindings ==
  ASSUME NEW file
  PROVE  /\ GoodFindings(<<>>, file)
         /\ \A x : GoodFinding(x) /\ x.file = file => GoodFindings(<<x>>, file)
<1>1. IsSequence(<<>>) /\ \A x : ~Has(<<>>, x)
  BY DEF IsSequence, Has
<1>2. \A x : IsSequence(<<x>>)
  BY OnePart DEF IsName
<1>3. \A x, y : Has(<<x>>, y) => y = x
  BY DEF Has
<1> QED BY <1>1, <1>2, <1>3 DEF GoodFindings

\* The findings of several lists of a file, joined.
LEMMA ManyFindings ==
  ASSUME NEW file, NEW n \in Nat, NEW p, p = [i \in 1..n |-> p[i]],
         \A i \in 1..n : GoodFindings(p[i], file)
  PROVE  GoodFindings(FlattenSeq(p), file)
BY FlattenLists DEF GoodFindings

\* All findings of a rule.
LEMMA BuildAllGood ==
  ASSUME NEW rule, GoodRule(rule), NEW u, GoodUsage(u), NEW ctx
  PROVE  GoodFindings(BuildAll(rule, u, ctx), u.file)
<1> DEFINE names == IF rule.specTable = None THEN <<>> ELSE NamedValues(u, rule)
           one(i) == IF names[i] \in DOMAIN rule.specTable
                     THEN <<Build(rule, u, rule.specTable[names[i]], ctx)>> ELSE <<>>
           built == FlattenSeq([i \in DOMAIN names |-> one(i)])
<1>1. IsSequence(names)
  <2> DEFINE a == ArgumentOf(u, rule.nameKwarg, rule.nameArg)
  <2>1. WellFormedValue(a.value)
    BY ArgumentGood DEF ArgumentOf, GoodUsage, GoodRule
  <2>2. NamedValues(u, rule) = IF IsA("str", a.value) THEN <<a.value[2]>>
                               ELSE IF IsA("list", a.value) THEN a.value[2] ELSE <<>>
    BY DEF NamedValues
  <2> HIDE DEF a
  <2>3. IsA("list", a.value) => IsSequence(a.value[2])
    BY <2>1 DEF WellFormedValue, IsSequence
  <2>4. IsSequence(<<>>) /\ \A x : IsSequence(<<x>>)
    BY ShortFindings, OnePart DEF GoodFindings, IsName
  <2> QED BY <2>2, <2>3, <2>4
<1> HIDE DEF names
<1>2. ASSUME NEW i \in DOMAIN names
      PROVE  GoodFindings(one(i), u.file)
  <2> DEFINE spec == rule.specTable[names[i]]
  <2>1. CASE names[i] \in DOMAIN rule.specTable /\ rule.specTable = JwtAlgorithms
    <3>1. GoodSpec(spec)
      BY <2>1, JwtSpecs
    <3> DEFINE b == Build(rule, u, spec, ctx)
    <3> HIDE DEF spec
    <3>3. GoodFinding(b) /\ b.file = u.file
      BY <3>1, BuildGood
    <3> HIDE DEF b
    <3>4. GoodFindings(<<b>>, u.file)
      BY <3>3, ShortFindings
    <3>2. GoodFindings(<<Build(rule, u, spec, ctx)>>, u.file)
      BY <3>4 DEF b
    <3> QED BY <2>1, <3>2 DEF spec
  <2>2. CASE names[i] \notin DOMAIN rule.specTable
    BY <2>2, ShortFindings
  <2>3. rule.specTable = None => names = <<>>
    BY DEF names
  <2> QED BY <2>1, <2>2, <2>3 DEF GoodRule
<1>3. GoodFindings(built, u.file)
  <2> DEFINE n == Len(names)
             p == [i \in 1..n |-> one(i)]
  <2>1. n \in Nat /\ DOMAIN names = 1..n
    BY <1>1, SequenceFacts
  <2>2. p = [i \in 1..n |-> p[i]] /\ \A i \in 1..n : GoodFindings(p[i], u.file)
    BY <1>2, <2>1
  <2>3. built = FlattenSeq(p)
    BY <2>1
  <2> HIDE DEF n, p, built
  <2> QED BY <2>1, <2>2, <2>3, ManyFindings
<1>4. GoodFindings(<<Build(rule, u, None, ctx)>>, u.file)
  <2> DEFINE b == Build(rule, u, None, ctx)
  <2>1. GoodFinding(b) /\ b.file = u.file
    BY BuildGood
  <2> HIDE DEF b
  <2> QED BY <2>1, ShortFindings DEF b
<1>5. BuildAll(rule, u, ctx) = IF built = <<>> THEN <<Build(rule, u, None, ctx)>> ELSE built
  BY DEF BuildAll, BuildEach, OrElse, names
<1> HIDE DEF built
<1> QED BY <1>3, <1>4, <1>5

\* The rules for a name are rules, and for that name.
LEMMA RulesForGood ==
  \A name : Rulebook(RulesFor(name)) /\ \A i \in DOMAIN RulesFor(name) : RulesFor(name)[i].match = name
<1> SUFFICES ASSUME NEW name
             PROVE  /\ Rulebook(RulesFor(name))
                    /\ \A i \in DOMAIN RulesFor(name) : RulesFor(name)[i].match = name
  OBVIOUS
<1>1. Rulebook(<<>>)
  BY DEF Rulebook, IsSequence
<1>2. CASE name \notin DOMAIN RulesByName
  BY <1>1, <1>2 DEF RulesFor, Listed
<1>3. CASE name \in DOMAIN RulesByName
  <2> DEFINE n == Len(RuleTable)
             one(i) == IF RuleTable[i].match = name THEN <<RuleTable[i]>> ELSE <<>>
             p == [i \in 1..n |-> one(i)]
  <2>1. n \in Nat /\ DOMAIN RuleTable = 1..n /\ \A i \in 1..n : ProperRule(RuleTable[i])
    BY TableGood, SequenceFacts DEF Rulebook
  <2>2. RulesFor(name) = FlattenSeq(p)
    BY <1>3, <2>1 DEF RulesFor, Listed, RulesByName, ByName
  <2>3. ASSUME NEW i \in 1..n
        PROVE  Rulebook(one(i)) /\ \A x : Has(one(i), x) => x.match = name
    <3>1. Rulebook(<<RuleTable[i]>>)
      BY <2>1, OneRules
    <3>2. \A x : Has(<<RuleTable[i]>>, x) => x = RuleTable[i]
      BY DEF Has
    <3>3. \A x : ~Has(<<>>, x)
      BY DEF Has
    <3> QED BY <1>1, <3>1, <3>2, <3>3
  <2>4. /\ p = [i \in 1..n |-> p[i]]
        /\ \A i \in 1..n : Rulebook(p[i]) /\ \A x : Has(p[i], x) => x.match = name
    BY <2>3
  <2> HIDE DEF n, p
  <2>5. /\ IsSequence(FlattenSeq(p))
        /\ \A x : Has(FlattenSeq(p), x) <=> \E i \in 1..n : Has(p[i], x)
    BY <2>1, <2>4, FlattenLists DEF Rulebook
  <2> DEFINE rules == FlattenSeq(p)
  <2> HIDE DEF rules
  <2>6. ASSUME NEW j \in DOMAIN rules PROVE ProperRule(rules[j]) /\ rules[j].match = name
    <3>1. Has(rules, rules[j])
      BY DEF Has
    <3>2. PICK i \in 1..n : Has(p[i], rules[j])
      BY <2>5, <3>1 DEF rules
    <3>3. Rulebook(p[i]) /\ rules[j].match = name
      BY <2>4, <3>2
    <3> QED BY <3>2, <3>3 DEF Rulebook, Has
  <2>7. IsSequence(rules) /\ RulesFor(name) = rules
    BY <2>2, <2>5 DEF rules
  <2> QED BY <2>6, <2>7 DEF Rulebook
<1> QED BY <1>2, <1>3

\* What one usage gives.
LEMMA DetectUsageGood ==
  ASSUME NEW u, GoodUsage(u), NEW ctx
  PROVE  GoodFindings(DetectUsage(u, ctx), u.file)
<1> DEFINE rules == RulesFor(u.name)
           one(i) == IF rules[i].emits /\ ValueMatches(rules[i], u)
                     THEN BuildAll(rules[i], u, ctx) ELSE <<>>
           n == Len(rules)
           p == [i \in 1..n |-> one(i)]
<1>1. n \in Nat /\ DOMAIN rules = 1..n /\ \A i \in 1..n : GoodRule(rules[i])
  BY RulesForGood, SequenceFacts DEF Rulebook, ProperRule, Telling, Asking
<1>2. Fired(u, ctx) = FlattenSeq(p)
  BY <1>1 DEF Fired, FiredOf
<1>3. ASSUME NEW i \in 1..n PROVE GoodFindings(one(i), u.file)
  BY <1>1, BuildAllGood, ShortFindings
<1>4. p = [i \in 1..n |-> p[i]] /\ \A i \in 1..n : GoodFindings(p[i], u.file)
  BY <1>3
<1> HIDE DEF n, p
<1>5. GoodFindings(Fired(u, ctx), u.file)
  BY <1>1, <1>2, <1>4, ManyFindings
<1> QED BY <1>5, ShortFindings DEF DetectUsage

(***************************************************************************)
(* A run                                                                   *)
(***************************************************************************)

\* The calls whose methods the index has.
Indexed == UNION {MethodsCalled(usages[n]) : n \in 1..indexed}

\* What each of the usages gives with the whole index at hand.
Given == [n \in DOMAIN usages |-> DetectUsage(usages[n], ContextOf(usages))]

\* The index holds the methods of the calls read so far.  Findings are built
\* only once it holds them all, so each call gives what it gives to Detect.
DInv ==
  /\ usages \in Program
  /\ indexed \in 0..Len(usages)
  /\ context = Indexed
  /\ detected \in 0..indexed
  /\ detected > 0 => indexed = Len(usages)
  /\ findings = Pieces(Given, detected)

\* What the analyzer hands over.
LEMMA ProgramGood ==
  ASSUME NEW p \in Program
  PROVE  /\ Len(p) \in Nat
         /\ DOMAIN p = 1..Len(p)
         /\ IsSequence(p)
         /\ \A n \in 1..Len(p) : GoodUsage(p[n])
<1>1. p \in Seq(ToSet(p))
  BY ProgramAssumption
<1>2. Len(p) \in Nat /\ DOMAIN p = 1..Len(p) /\ IsSequence(p)
  BY <1>1 DEF IsSequence
<1>3. ASSUME NEW n \in 1..Len(p) PROVE GoodUsage(p[n])
  <2> DEFINE u == p[n]
  <2>1. u \in ToSet(p)
    BY <1>2 DEF ToSet
  <2> HIDE DEF u
  <2>2. WellFormed(u)
    BY <2>1, ProgramAssumption
  <2>3. GoodUsage(u)
    BY <2>2 DEF WellFormed, GoodUsage, IsSequence
  <2> QED BY <2>3 DEF u
<1> QED BY <1>2, <1>3

\* The invariant holds at the start, ...
LEMMA InitDInv == Init => DInv
<1> SUFFICES ASSUME Init PROVE DInv
  OBVIOUS
<1>1. Indexed = {}
  BY DEF Init, Indexed
<1>2. 0 \in 0..Len(usages)
  BY ProgramGood DEF Init
<1> QED BY <1>1, <1>2, NoPieces DEF Init, DInv

\* ... every step keeps it, ...
LEMMA NextDInv ==
  ASSUME DInv, [Next]_vars
  PROVE  DInv'
<1> DEFINE n == Len(usages)
<1>1. n \in Nat /\ DOMAIN usages = 1..n /\ \A i \in 1..n : GoodUsage(usages[i])
  BY ProgramGood DEF DInv
<1>2. CASE Index
  <2>1. indexed' = indexed + 1 /\ indexed \in 0..n /\ indexed < n /\ usages' = usages
    BY <1>2 DEF Index, DInv
  <2>2. detected = 0
    BY <2>1 DEF DInv
  <2>3. Indexed' = Indexed \cup MethodsCalled(usages[indexed'])
    <3>1. 1..indexed' = 1..indexed \cup {indexed'}
      BY <1>1, <2>1
    <3> QED BY <2>1, <3>1 DEF Indexed
  <2>4. Given' = Given /\ findings' = findings /\ detected' = detected
    BY <1>2 DEF Index, Given
  <2> QED BY <1>1, <1>2, <2>1, <2>2, <2>3, <2>4 DEF DInv, Index
<1>3. CASE DetectNext
  <2>1. /\ indexed = n /\ detected < n /\ detected \in 0..n /\ detected' = detected + 1
        /\ UNCHANGED <<usages, indexed, context>>
    BY <1>1, <1>3 DEF DetectNext, IndexComplete, DInv
  <2>2. context = ContextOf(usages)
    BY <1>1, <2>1 DEF DInv, Indexed, ContextOf
  <2>3. Given[detected'] = DetectUsage(usages[detected'], context)
    BY <1>1, <2>1, <2>2 DEF Given
  <2>4. \A i \in 1..detected + 1 : IsSequence(Given[i])
    BY <1>1, <2>1, DetectUsageGood DEF Given, GoodFindings
  <2>5. Pieces(Given, detected + 1) = Pieces(Given, detected) \o Given[detected + 1]
    BY <2>1, <2>4, OnePieceMore
  <2>6. findings' = Pieces(Given, detected')
    BY <1>3, <2>1, <2>3, <2>5 DEF DetectNext, DInv
  <2>7. Given' = Given /\ Indexed' = Indexed
    BY <2>1 DEF Given, Indexed
  <2> QED BY <1>1, <2>1, <2>6, <2>7 DEF DInv
<1>4. CASE UNCHANGED vars
  BY <1>4 DEF vars, DInv, Indexed, Given
<1> QED BY <1>2, <1>3, <1>4 DEF Next

\* ... so it always holds.
LEMMA DetectorInvariant == Spec => []DInv
BY InitDInv, NextDInv, PTL DEF Spec

\* Every finding says what it must.
LEMMA DInvTypeOK ==
  ASSUME DInv
  PROVE  TypeOK
<1> DEFINE n == detected
           p == [i \in 1..n |-> Given[i]]
<1>1. n \in Nat /\ \A i \in 1..n : i \in DOMAIN usages /\ GoodUsage(usages[i])
  BY ProgramGood DEF DInv
<1>2. \A i \in 1..n : GoodFindings(Given[i], usages[i].file)
  BY <1>1, DetectUsageGood DEF Given
<1>3. p = [i \in 1..n |-> p[i]] /\ \A i \in 1..n : IsSequence(p[i])
  BY <1>2 DEF GoodFindings
<1>4. \A x : \A i \in 1..n : Has(p[i], x) => GoodFinding(x)
  BY <1>2 DEF GoodFindings
<1>5. findings = FlattenSeq(p)
  BY DEF DInv, Pieces
<1> HIDE DEF n, p
<1>6. \A x : Has(findings, x) => GoodFinding(x)
  BY <1>1, <1>3, <1>4, <1>5, FlattenLists
<1>7. \A i \in DOMAIN findings : GoodFinding(findings[i])
  BY <1>6 DEF Has
<1> QED BY <1>7 DEF TypeOK, DInv, GoodFinding

\* No finding is built before the index is complete, and every finding has a
\* name, a purpose, and a strength and a key size that are numbers or unknown.
THEOREM DetectorTypeCorrect == Spec => []TypeOK
BY DetectorInvariant, DInvTypeOK, PTL

(***************************************************************************)
(* All usages at once                                                      *)
(***************************************************************************)

\* What each usage gives in a context.
Answer(S, c) == [u \in S |-> DetectUsage(u, c)]

\* The answer to each usage is a list of findings in the file of the usage.
LEMMA AnswerTurns ==
  ASSUME NEW S, \A u \in S : GoodUsage(u), NEW c
  PROVE  \E R : /\ Turns(Answer(S, c), S, R)
                /\ \A u \in S : Answer(S, c)[u] \in Seq({x \in R : x.file = u.file})
<1> DEFINE R == UNION {ToSet(DetectUsage(u, c)) : u \in S}
<1>1. ASSUME NEW u \in S PROVE DetectUsage(u, c) \in Seq({x \in R : x.file = u.file})
  <2> DEFINE d == DetectUsage(u, c)
  <2>1. IsSequence(d) /\ \A x : Has(d, x) => x.file = u.file
    BY DetectUsageGood DEF GoodFindings
  <2>2. \A x \in ToSet(d) : x \in R /\ x.file = u.file
    BY <2>1 DEF ToSet, Has
  <2> HIDE DEF d, R
  <2>3. ToSet(d) \subseteq {x \in R : x.file = u.file}
    BY <2>2
  <2>4. d \in Seq({x \in R : x.file = u.file})
    BY <2>1, <2>3, SetOfList
  <2> QED BY <2>4 DEF d
<1>2. ASSUME NEW u \in S PROVE DetectUsage(u, c) \in Seq(R)
  <2> HIDE DEF R
  <2>1. DetectUsage(u, c) \in Seq({x \in R : x.file = u.file})
    BY <1>1
  <2> QED BY <2>1
<1> HIDE DEF R
<1> QED BY <1>1, <1>2 DEF Turns, Answer

\* Detect gives each usage its answer, in the order of the usages.
LEMMA DetectIs ==
  ASSUME NEW S, NEW s \in Seq(S)
  PROVE  Detect(s) = Mapped(Answer(S, ContextOf(s)), s)
<1>1. \A n \in DOMAIN s : Answer(S, ContextOf(s))[s[n]] = DetectUsage(s[n], ContextOf(s))
  BY DEF Answer
<1>2. [n \in DOMAIN s |-> Answer(S, ContextOf(s))[s[n]]]
        = [n \in DOMAIN s |-> DetectUsage(s[n], ContextOf(s))]
  BY <1>1
<1> QED BY <1>2 DEF Mapped, Detect

\* When a run ends it has found what Detect finds.
LEMMA RunDetects ==
  ASSUME DInv, Returned
  PROVE  findings = Detect(usages)
<1> DEFINE n == Len(usages)
<1>1. DOMAIN usages = 1..n /\ detected = n
  BY ProgramGood DEF DInv, Returned
<1>2. [i \in 1..n |-> Given[i]] = Given
  BY <1>1 DEF Given
<1> QED BY <1>1, <1>2 DEF DInv, Pieces, Detect, Given

\* The usages of a run, whatever set they are in.
LEMMA RunUsages ==
  ASSUME DInv
  PROVE  /\ usages \in Seq(ToSet(usages))
         /\ \A u \in ToSet(usages) : GoodUsage(u)
<1>1. usages \in Seq(ToSet(usages))
  BY ProgramAssumption DEF DInv
<1>2. \A n \in DOMAIN usages : GoodUsage(usages[n])
  BY ProgramGood DEF DInv
<1> QED BY <1>1, <1>2 DEF ToSet

(***************************************************************************)
(* One file                                                                *)
(***************************************************************************)

\* A usage reads only the part of the index that is of its file.
LEMMA SameContext ==
  ASSUME NEW u, NEW c, NEW d, \A base : MethodsOn(c, u.file, base) = MethodsOn(d, u.file, base)
  PROVE  DetectUsage(u, c) = DetectUsage(u, d)
<1>1. \A rule, primitive : PurposeFromUsage(rule, u, c, primitive)
                             = PurposeFromUsage(rule, u, d, primitive)
  <2> SUFFICES ASSUME NEW rule, NEW primitive
               PROVE  PurposeFromUsage(rule, u, c, primitive) = PurposeFromUsage(rule, u, d, primitive)
    OBVIOUS
  <2>1. Purposes(MethodsOn(c, u.file, rule.match)) = Purposes(MethodsOn(d, u.file, rule.match))
    OBVIOUS
  <2> QED BY <2>1 DEF PurposeFromUsage
<1>2. \A rule, spec : Build(rule, u, spec, c) = Build(rule, u, spec, d)
  BY <1>1 DEF Build
<1>3. \A rule : BuildAll(rule, u, c) = BuildAll(rule, u, d)
  BY <1>2 DEF BuildAll, BuildEach
<1>4. Fired(u, c) = Fired(u, d)
  BY <1>3 DEF Fired, FiredOf
<1> QED BY <1>4 DEF DetectUsage

Keep(S, file) == [x \in S |-> IF x.file = file THEN <<x>> ELSE <<>>]

\* Restricting to a file gives each element itself or nothing.
LEMMA OfFileIs ==
  ASSUME NEW S, NEW s \in Seq(S), NEW file
  PROVE  OfFile(s, file) = Mapped(Keep(S, file), s) /\ Turns(Keep(S, file), S, S)
<1>1. \A n \in DOMAIN s : Keep(S, file)[s[n]] = IF s[n].file = file THEN <<s[n]>> ELSE <<>>
  BY DEF Keep
<1>2. [n \in DOMAIN s |-> Keep(S, file)[s[n]]]
        = [n \in DOMAIN s |-> IF s[n].file = file THEN <<s[n]>> ELSE <<>>]
  BY <1>1
<1>3. <<>> \in Seq(S) /\ \A x \in S : <<x>> \in Seq(S)
  OBVIOUS
<1> QED BY <1>2, <1>3 DEF Mapped, OfFile, Keep, Turns

\* What is kept is of the file and in the list, and all of it.
LEMMA OfFileHas ==
  ASSUME NEW s, IsSequence(s), NEW file, NEW x
  PROVE  Has(OfFile(s, file), x) <=> Has(s, x) /\ x.file = file
<1> DEFINE n == Len(s)
           one(i) == IF s[i].file = file THEN <<s[i]>> ELSE <<>>
           p == [i \in 1..n |-> one(i)]
<1>1. n \in Nat /\ DOMAIN s = 1..n
  BY SequenceFacts
<1>2. \A y : IsSequence(<<y>>) /\ \A z : Has(<<y>>, z) <=> z = y
  <2>1. \A y : DOMAIN <<y>> = {1} /\ <<y>>[1] = y
    OBVIOUS
  <2> QED BY <2>1, OnePart DEF IsName, Has
<1>3. IsSequence(<<>>) /\ \A z : ~Has(<<>>, z)
  BY DEF IsSequence, Has
<1>4. \A i \in 1..n : IsSequence(one(i)) /\ (Has(one(i), x) <=> s[i].file = file /\ s[i] = x)
  BY <1>2, <1>3
<1>5. /\ p = [i \in 1..n |-> p[i]]
      /\ \A i \in 1..n : IsSequence(p[i]) /\ (Has(p[i], x) <=> s[i].file = file /\ s[i] = x)
  BY <1>4
<1>6. OfFile(s, file) = FlattenSeq(p)
  BY <1>1 DEF OfFile
<1> HIDE DEF n, p
<1>7. Has(FlattenSeq(p), x) <=> \E i \in 1..n : Has(p[i], x)
  BY <1>1, <1>5, FlattenLists
<1> QED BY <1>1, <1>5, <1>6, <1>7 DEF Has

\* Of a file the index of all files says what the index of the file says.
LEMMA FileContext ==
  ASSUME NEW s, IsSequence(s), NEW file, NEW base
  PROVE  MethodsOn(ContextOf(OfFile(s, file)), file, base) = MethodsOn(ContextOf(s), file, base)
<1> DEFINE t == OfFile(s, file)
<1>1. \A r, m : m \in ContextOf(r) <=> \E u : Has(r, u) /\ m \in MethodsCalled(u)
  BY DEF ContextOf, Has
<1>2. \A u : Has(t, u) <=> Has(s, u) /\ u.file = file
  BY OfFileHas
<1>3. \A u : \A m \in MethodsCalled(u) : m[1] = u.file
  BY DEF MethodsCalled
<1> HIDE DEF t
<1>4. \A m : m[1] = file => (m \in ContextOf(t) <=> m \in ContextOf(s))
  BY <1>1, <1>2, <1>3
<1>5. {m \in ContextOf(t) : m[1] = file /\ m[2] = base}
        = {m \in ContextOf(s) : m[1] = file /\ m[2] = base}
  BY <1>4
<1> QED BY <1>5 DEF MethodsOn, t

\* Restricting the findings to a file is detecting on the usages of the file.
LEMMA DetectOfFile ==
  ASSUME NEW S, \A u \in S : GoodUsage(u), NEW s \in Seq(S), NEW file
  PROVE  OfFile(Detect(s), file) = Detect(OfFile(s, file))
<1> DEFINE t == OfFile(s, file)
           keep == Keep(S, file)
           g == Answer(S, ContextOf(s))
           k == Answer(S, ContextOf(t))
<1>1. IsSequence(s) /\ t = Mapped(keep, s) /\ Turns(keep, S, S)
  BY OfFileIs DEF IsSequence
<1>2. t \in Seq(S)
  BY <1>1, MappedType
<1>3. Detect(s) = Mapped(g, s) /\ Detect(t) = Mapped(k, t)
  BY <1>2, DetectIs
<1>4. PICK R : Turns(g, S, R) /\ \A u \in S : g[u] \in Seq({x \in R : x.file = u.file})
  BY AnswerTurns
<1>5. PICK Q : Turns(k, S, Q)
  BY AnswerTurns
<1>6. \A u \in S : u.file = file => k[u] = g[u]
  <2> SUFFICES ASSUME NEW u \in S, u.file = file PROVE k[u] = g[u]
    OBVIOUS
  <2>1. \A base : MethodsOn(ContextOf(t), u.file, base) = MethodsOn(ContextOf(s), u.file, base)
    BY <1>1, FileContext
  <2>2. DetectUsage(u, ContextOf(t)) = DetectUsage(u, ContextOf(s))
    BY <2>1, SameContext
  <2> QED BY <2>2 DEF Answer
<1> DEFINE keepR == Keep(R, file)
           left == [u \in S |-> Mapped(keepR, g[u])]
           right == [u \in S |-> Mapped(k, keep[u])]
<1>7. OfFile(Mapped(g, s), file) = Mapped(keepR, Mapped(g, s)) /\ Turns(keepR, R, R)
  BY <1>4, MappedType, OfFileIs
<1>8. Mapped(keepR, Mapped(g, s)) = Mapped(left, s)
  <2>1. \A u \in S : left[u] = Mapped(keepR, g[u])
    OBVIOUS
  <2> HIDE DEF left, g, keepR
  <2> QED BY <1>4, <1>7, <2>1, MappedTwice
<1>9. Mapped(k, Mapped(keep, s)) = Mapped(right, s)
  <2>1. \A u \in S : right[u] = Mapped(k, keep[u])
    OBVIOUS
  <2> HIDE DEF right, k, keep
  <2> QED BY <1>1, <1>5, <2>1, MappedTwice
<1>10. \A u \in S : left[u] = right[u]
  <2> SUFFICES ASSUME NEW u \in S PROVE Mapped(keepR, g[u]) = Mapped(k, keep[u])
    OBVIOUS
  <2> DEFINE V == {x \in R : x.file = u.file}
  <2>1. g[u] \in Seq(V)
    BY <1>4
  <2>2. CASE u.file = file
    <3>1. \A x \in V : keepR[x] = <<x>>
      BY <2>2 DEF Keep
    <3> HIDE DEF V, keepR
    <3>2. Mapped(keepR, g[u]) = g[u]
      BY <2>1, <3>1, MappedAll
    <3>3. keep[u] = <<u>>
      BY <2>2 DEF Keep
    <3>4. Mapped(k, <<u>>) = k[u]
      BY <1>5, MappedOne
    <3> QED BY <1>6, <2>2, <3>2, <3>3, <3>4
  <2>3. CASE u.file # file
    <3>1. \A x \in V : keepR[x] = <<>>
      BY <2>3 DEF Keep
    <3> HIDE DEF V, keepR
    <3>2. Mapped(keepR, g[u]) = <<>>
      BY <2>1, <3>1, MappedNone
    <3>3. keep[u] = <<>>
      BY <2>3 DEF Keep
    <3> QED BY <3>2, <3>3, MappedEmpty
  <2> QED BY <2>2, <2>3
<1> HIDE DEF left, right
<1>11. Mapped(left, s) = Mapped(right, s)
  BY <1>10, MappedSame
<1> QED BY <1>1, <1>3, <1>7, <1>8, <1>9, <1>11

\* What is found in a file does not depend on the other files of the scan,
\* although one index serves them all.
THEOREM FilesAreIndependent == Spec => []FilesIndependent
<1>1. DInv => FilesIndependent
  <2> SUFFICES ASSUME DInv, Returned, NEW file PROVE OfFile(findings, file) = Detect(OfFile(usages, file))
    BY DEF FilesIndependent
  <2> QED BY RunDetects, RunUsages, DetectOfFile
<1> QED BY <1>1, DetectorInvariant, PTL

(***************************************************************************)
(* Another order                                                           *)
(***************************************************************************)

\* The index does not tell in which order the calls came.
LEMMA ReversedContext ==
  ASSUME NEW S, NEW s \in Seq(S)
  PROVE  ContextOf(Reverse(s)) = ContextOf(s) /\ Reverse(s) \in Seq(S)
<1> DEFINE n == Len(s)
           r == Reverse(s)
<1>1. /\ n \in Nat /\ DOMAIN s = 1..n /\ DOMAIN r = 1..n
      /\ \A i \in 1..n : n - i + 1 \in 1..n /\ r[i] = s[n - i + 1] /\ r[n - i + 1] = s[i]
  BY DEF Reverse
<1>2. r \in Seq(S)
  BY DEF Reverse
<1> HIDE DEF n, r
<1>3. \A x : (\E i \in 1..n : r[i] = x) <=> (\E i \in 1..n : s[i] = x)
  BY <1>1
<1>4. \A m : (\E i \in 1..n : m \in MethodsCalled(r[i])) <=> (\E i \in 1..n : m \in MethodsCalled(s[i]))
  BY <1>3
<1>5. ContextOf(r) = ContextOf(s)
  BY <1>1, <1>4 DEF ContextOf
<1> QED BY <1>2, <1>5 DEF r

\* A use tells what a key is for wherever it stands: reading the calls of a
\* project backwards finds the same things, equally often.
THEOREM OrderIsIrrelevant == Spec => []OrderIrrelevant
<1>1. DInv => OrderIrrelevant
  <2> SUFFICES ASSUME DInv, Returned PROVE ToBag(findings) = ToBag(Detect(Reverse(usages)))
    BY DEF OrderIrrelevant
  <2> DEFINE S == ToSet(usages)
             s == usages
             g == Answer(S, ContextOf(s))
  <2>1. s \in Seq(S) /\ (\A u \in S : GoodUsage(u)) /\ findings = Detect(s)
    BY RunUsages, RunDetects
  <2> HIDE DEF S
  <2>2. ContextOf(Reverse(s)) = ContextOf(s) /\ Reverse(s) \in Seq(S)
    BY <2>1, ReversedContext
  <2>3. Detect(s) = Mapped(g, s) /\ Detect(Reverse(s)) = Mapped(g, Reverse(s))
    BY <2>1, <2>2, DetectIs
  <2>4. PICK R : Turns(g, S, R)
    BY <2>1, AnswerTurns
  <2> HIDE DEF g
  <2>5. IsSequence(Mapped(g, s)) /\ IsSequence(Mapped(g, Reverse(s)))
    BY <2>1, <2>2, <2>4, MappedType DEF IsSequence
  <2>6. \A x : Copies(Mapped(g, s), x) = Copies(Mapped(g, Reverse(s)), x)
    BY <2>1, <2>4, MappedReverse
  <2> QED BY <2>1, <2>3, <2>5, <2>6, SameBag
<1> QED BY <1>1, DetectorInvariant, PTL

(***************************************************************************)
(* What a key is for                                                       *)
(***************************************************************************)

\* Of which usage each finding was made.
Traced ==
  /\ IsSequence(findings) /\ IsSequence(origin)
  /\ Len(origin) = Len(findings)
  /\ \A i \in 1..Len(findings) :
       origin[i] \in 1..detected /\ Has(Given[origin[i]], findings[i])

\* Every finding is one of those its usage gives with the whole index at hand.
LEMMA TracedInvariant == Spec => []Traced
<1>1. Init => Traced
  <2>1. IsSequence(<<>>) /\ Len(<<>>) = 0
    BY DEF IsSequence
  <2> QED BY <2>1 DEF Init, Traced
<1>2. ASSUME DInv, Traced, [Next]_vars PROVE Traced'
  <2>1. CASE Index
    BY <1>2, <2>1 DEF Index, Traced, Given
  <2>2. CASE DetectNext
    <3> DEFINE d == detected + 1
               found == Given[d]
               from == [k \in DOMAIN found |-> d]
               s == findings'
               o == origin'
    <3>1. /\ detected \in Nat /\ d \in 1..Len(usages) /\ DOMAIN usages = 1..Len(usages)
          /\ detected' = d /\ UNCHANGED <<usages, indexed, context>>
      BY <1>2, <2>2, ProgramGood DEF DetectNext, DInv
    <3>2. context = ContextOf(usages)
      BY <1>2, <2>2, <3>1 DEF DetectNext, IndexComplete, DInv, Indexed, ContextOf
    <3>3. found = DetectUsage(usages[d], context)
      BY <3>1, <3>2 DEF Given
    <3>4. s = findings \o found /\ o = origin \o from
      BY <2>2, <3>1, <3>3 DEF DetectNext
    <3>5. IsSequence(found)
      <4>1. GoodUsage(usages[d])
        BY <1>2, <3>1, ProgramGood DEF DInv
      <4>2. GoodFindings(DetectUsage(usages[d], context), usages[d].file)
        BY <4>1, DetectUsageGood
      <4> QED BY <3>3, <4>2 DEF GoodFindings
    <3>6. Len(found) \in Nat /\ DOMAIN found = 1..Len(found)
      BY <3>5, SequenceFacts
    <3>7. IsSequence(from) /\ Len(from) = Len(found) /\ \A k \in 1..Len(found) : from[k] = d
      <4>1. from \in Seq({d}) /\ Len(from) = Len(found)
        BY <3>6
      <4> QED BY <3>6, <4>1 DEF IsSequence
    <3>8. Given' = Given
      BY <3>1 DEF Given
    <3> DEFINE m == Len(findings)
               Tells(i) == o[i] \in 1..d /\ Has(Given[o[i]], s[i])
    <3>9. m \in Nat /\ Len(origin) = m /\ IsSequence(findings) /\ IsSequence(origin)
      BY <1>2, SequenceFacts DEF Traced
    <3> HIDE DEF found, from, s, o, d
    <3>10. IsSequence(s) /\ Len(s) = m + Len(found)
      BY <3>4, <3>5, <3>9, JoinedAt
    <3>11. IsSequence(o) /\ Len(o) = m + Len(found)
      <4>1. IsSequence(o) /\ Len(o) = Len(origin) + Len(from)
        BY <3>4, <3>7, <3>9, JoinedAt
      <4> QED BY <3>7, <3>9, <4>1
    <3>12. (\A i \in 1..m : s[i] = findings[i]) /\ \A i \in 1..m : o[i] = origin[i]
      <4>1. \A i \in 1..m : s[i] = findings[i]
        BY <3>4, <3>5, <3>9, JoinedAt
      <4>2. \A i \in 1..Len(origin) : o[i] = origin[i]
        BY <3>4, <3>7, <3>9, JoinedAt
      <4> QED BY <3>9, <4>1, <4>2
    <3>13. \A k \in 1..Len(found) : s[m + k] = found[k] /\ o[m + k] = d
      <4>1. \A k \in 1..Len(found) : s[m + k] = found[k]
        BY <3>4, <3>5, <3>9, JoinedAt
      <4>2. \A k \in 1..Len(from) : o[Len(origin) + k] = from[k]
        BY <3>4, <3>7, <3>9, JoinedAt
      <4> QED BY <3>7, <3>9, <4>1, <4>2
    <3>14. ASSUME NEW i \in 1..m PROVE Tells(i)
      <4>1. origin[i] \in 1..detected /\ Has(Given[origin[i]], findings[i])
        BY <1>2 DEF Traced
      <4>2. 1..detected \subseteq 1..d
        BY <3>1 DEF d
      <4> QED BY <3>12, <4>1, <4>2
    <3>15. ASSUME NEW k \in 1..Len(found) PROVE Tells(m + k)
      <4>1. Has(found, found[k])
        BY <3>6 DEF Has
      <4>2. Given[d] = found
        BY DEF found, d
      <4>3. d \in 1..d
        BY <3>1
      <4> QED BY <3>13, <4>1, <4>2, <4>3
    <3> HIDE DEF Tells
    <3>16. ASSUME NEW i \in 1..Len(s) PROVE Tells(i)
      <4>1. CASE i \in 1..m
        BY <3>14, <4>1
      <4>2. CASE i \notin 1..m
        <5>1. i - m \in 1..Len(found) /\ i = m + (i - m)
          BY <3>6, <3>9, <3>10, <4>2
        <5> QED BY <3>15, <5>1
      <4> QED BY <4>1, <4>2
    <3>17. Traced'
      BY <3>1, <3>8, <3>10, <3>11, <3>16 DEF Traced, Tells, s, o, d
    <3> QED BY <3>17
  <2>3. CASE UNCHANGED vars
    BY <1>2, <2>3 DEF vars, Traced, Given
  <2> QED BY <1>2, <2>1, <2>2, <2>3 DEF Next
<1> QED BY <1>1, <1>2, DetectorInvariant, PTL DEF Spec

\* When the rules for a name leave the purpose open, its use settles it.
LEMMA BuildAsks ==
  ASSUME NEW rule, Asking(rule), NEW u, GoodUsage(u), NEW ctx
  PROVE  LET b == Build(rule, u, None, ctx)
         IN \E primitive :
              LET p == PurposeFromUsage(rule, u, ctx, primitive)
              IN b.purpose = p.purpose /\ b.primitive = p.primitive /\ b.confidence <= p.cap
<1> DEFINE f0 == FromSpec(Facts(rule), u, rule, None)
           f1 == FromMode(FromCipher(f0, u, rule), u, rule)
           f  == FromKeySize(FromDigest(FromCurve(f1, u, rule), u, rule), u, rule)
           p  == PurposeFromUsage(rule, u, ctx, f.primitive)
           b  == Build(rule, u, None, ctx)
<1>1. GoodRule(rule) /\ rule.purpose = "unknown" /\ rule.resolvePurpose
  BY DEF Asking
<1>2. GoodFacts(f0) /\ f0.purpose = "unknown"
  BY <1>1, FactsGood, SpecGood
<1> HIDE DEF f0
<1>3. GoodFacts(f1) /\ f1.purpose = "unknown"
  BY <1>2, CipherStep, ModeStep
<1> HIDE DEF f1
<1>4. f.purpose = "unknown"
  BY <1>1, <1>3, CurveStep, DigestStep, KeySizeStep
<1> HIDE DEF f
<1>5. /\ b.purpose = p.purpose /\ b.primitive = p.primitive
      /\ b.confidence = Lowest(Lowest(u.confidence, rule.confidence), p.cap)
  BY <1>1, <1>4 DEF Build, f, f1, f0
<1>6. p.cap \in 1..100
  BY PurposeGood
<1> HIDE DEF p, b
<1>7. b.confidence <= p.cap
  BY <1>5, <1>6 DEF Lowest
<1> QED BY <1>5, <1>7 DEF p, b

\* Such a rule gives one finding.
LEMMA AskingBuilds ==
  ASSUME NEW rule, Asking(rule), NEW u, NEW ctx, NEW x, Has(BuildAll(rule, u, ctx), x)
  PROVE  x = Build(rule, u, None, ctx)
<1>1. BuildEach(<<>>, rule, u, ctx) = <<>>
  <2>1. \A g : [i \in DOMAIN <<>> |-> g[i]] = <<>>
    OBVIOUS
  <2> QED BY FlattenEmpty DEF BuildEach
<1>2. BuildAll(rule, u, ctx) = <<Build(rule, u, None, ctx)>>
  BY <1>1 DEF BuildAll, OrElse, Asking
<1> QED BY <1>2 DEF Has

\* What a call gives whose rules ask for its use.
LEMMA AskedFinding ==
  ASSUME NEW u, GoodUsage(u), ~Apart(u.name), NEW ctx, NEW x, Has(DetectUsage(u, ctx), x)
  PROVE  \E rule : Asking(rule) /\ rule.match = u.name /\ x = Build(rule, u, None, ctx)
<1> DEFINE rules == RulesFor(u.name)
           one(i) == IF rules[i].emits /\ ValueMatches(rules[i], u)
                     THEN BuildAll(rules[i], u, ctx) ELSE <<>>
           n == Len(rules)
           p == [i \in 1..n |-> one(i)]
<1>1. /\ n \in Nat /\ DOMAIN rules = 1..n
      /\ \A i \in 1..n : ProperRule(rules[i]) /\ rules[i].match = u.name
  BY RulesForGood, SequenceFacts DEF Rulebook
<1>2. \A i \in 1..n : Asking(rules[i]) /\ rules[i].match = u.name
  BY <1>1 DEF ProperRule, Telling
<1>3. Fired(u, ctx) = FlattenSeq(p)
  BY <1>1 DEF Fired, FiredOf
<1>4. ~Has(<<>>, x)
  BY DEF Has
<1>5. Has(FlattenSeq(p), x)
  BY <1>3, <1>4, Zenon DEF DetectUsage
<1>6. ASSUME NEW i \in 1..n PROVE IsSequence(one(i))
  BY <1>2, BuildAllGood, ShortFindings DEF GoodFindings, Asking
<1>7. p = [i \in 1..n |-> p[i]] /\ \A i \in 1..n : IsSequence(p[i]) /\ p[i] = one(i)
  BY <1>6
<1> HIDE DEF p
<1>8. PICK i \in 1..n : Has(one(i), x)
  BY <1>1, <1>5, <1>7, FlattenLists
<1>9. Has(BuildAll(rules[i], u, ctx), x)
  BY <1>4, <1>8
<1> QED BY <1>2, <1>9, AskingBuilds

\* The last part of a name and what is before it.
LEMMA NameParts ==
  ASSUME NEW w, IsSequence(w), Len(w) >= 1
  PROVE  /\ IsSequence(Front(w)) /\ Len(Front(w)) = Len(w) - 1
         /\ \A i \in 1..Len(w) - 1 : Front(w)[i] = w[i]
         /\ Last(w) = w[Len(w)]
<1>1. w # <<>>
  BY SequenceFacts
<1> QED BY <1>1, Shortened DEF Front, Last

\* A call on a name, or on a part taken from it.
LEMMA OnName ==
  ASSUME NEW base, IsSequence(base), base # <<>>, NEW w, IsSequence(w), w # <<>>
  PROVE  (\E accessor \in {<<>>, <<"public_key">>, <<"private_key">>} :
            Len(w) = Len(base) + Len(accessor) + 1 /\ Front(w) = base \o accessor)
         <=> /\ Len(w) >= 2
             /\ \/ base = Front(w)
                \/ /\ Len(Front(w)) > 1 /\ Last(Front(w)) \in KeyAccessors
                   /\ base = Front(Front(w))
<1> DEFINE f == Front(w)
<1>1. Len(w) \in Nat /\ Len(w) >= 1 /\ Len(base) \in Nat /\ Len(base) >= 1
  BY SequenceFacts
<1>2. IsSequence(f) /\ Len(f) = Len(w) - 1
  BY <1>1, NameParts
<1> HIDE DEF f
<1>3. base \o <<>> = base
  BY DEF IsSequence
<1>4. ASSUME NEW x
      PROVE  f = base \o <<x>> <=> /\ Len(f) = Len(base) + 1 /\ Last(f) = x /\ base = Front(f)
  <2> DEFINE t == <<x>>
  <2>1. IsSequence(t) /\ Len(t) = 1 /\ t[1] = x
    BY OnePart DEF IsName
  <2> HIDE DEF t
  <2>2. PICK j : j = base \o t
    OBVIOUS
  <2>3. IsSequence(j) /\ Len(j) = Len(base) + 1
    <3>1. IsSequence(j) /\ Len(j) = Len(base) + Len(t)
      BY <2>1, <2>2, JoinedAt
    <3> QED BY <2>1, <3>1
  <2>4. \A i \in 1..Len(base) : j[i] = base[i]
    BY <2>1, <2>2, JoinedAt
  <2>5. j[Len(base) + 1] = x
    <3>1. IsSequence(t)
      BY <2>1
    <3>2. \A i \in 1..Len(t) : j[Len(base) + i] = t[i]
      BY <2>2, <3>1, JoinedAt
    <3> QED BY <2>1, <3>2
  <2>6. ASSUME f = j PROVE Len(f) = Len(base) + 1 /\ Last(f) = x /\ base = Front(f)
    <3>1. /\ Len(f) = Len(base) + 1 /\ IsSequence(Front(f)) /\ Len(Front(f)) = Len(base)
          /\ \A i \in 1..Len(base) : Front(f)[i] = base[i]
      BY <1>1, <1>2, <2>3, <2>4, <2>6, NameParts
    <3>2. base = Front(f)
      BY <3>1, SameList
    <3>3. Last(f) = x
      BY <2>5, <2>6, <3>1 DEF Last
    <3> QED BY <3>1, <3>2, <3>3
  <2>7. ASSUME Len(f) = Len(base) + 1, Last(f) = x, base = Front(f) PROVE f = j
    <3>1. \A i \in 1..Len(base) : f[i] = base[i]
      <4>1. Len(f) >= 1 /\ Len(f) - 1 = Len(base)
        BY <1>1, <2>7
      <4>2. \A i \in 1..Len(f) - 1 : Front(f)[i] = f[i]
        BY <1>2, <4>1, NameParts
      <4> QED BY <2>7, <4>1, <4>2
    <3>2. f[Len(base) + 1] = x
      BY <2>7 DEF Last
    <3>3. \A i \in 1..Len(base) + 1 : f[i] = j[i]
      <4> SUFFICES ASSUME NEW i \in 1..Len(base) + 1 PROVE f[i] = j[i]
        OBVIOUS
      <4>1. i \in 1..Len(base) \/ i = Len(base) + 1
        BY <1>1
      <4> QED BY <2>4, <2>5, <3>1, <3>2, <4>1
    <3> QED BY <1>2, <2>3, <2>7, <3>3, SameList
  <2> QED BY <2>2, <2>6, <2>7 DEF t
<1>5. Len(<<>>) = 0 /\ \A x : Len(<<x>>) = 1
  OBVIOUS
<1> DEFINE Fits(accessor) == Len(w) = Len(base) + Len(accessor) + 1 /\ f = base \o accessor
<1>6. (\E accessor \in {<<>>, <<"public_key">>, <<"private_key">>} : Fits(accessor))
      <=> Fits(<<>>) \/ \E x \in KeyAccessors : Fits(<<x>>)
  <2> HIDE DEF Fits
  <2> QED BY DEF KeyAccessors
<1>7. Fits(<<>>) <=> Len(w) >= 2 /\ base = f
  BY <1>1, <1>2, <1>3, <1>5
<1>8. ASSUME NEW x
      PROVE  Fits(<<x>>) <=> Len(w) >= 2 /\ Len(f) > 1 /\ Last(f) = x /\ base = Front(f)
  <2>1. Fits(<<x>>) <=> /\ Len(w) = Len(base) + 2 /\ Last(f) = x /\ base = Front(f)
    BY <1>1, <1>2, <1>4, <1>5
  <2>2. Len(f) > 1 /\ base = Front(f) => Len(f) = Len(base) + 1
    BY <1>1, <1>2, NameParts
  <2> QED BY <1>1, <1>2, <2>1, <2>2
<1> HIDE DEF Fits
<1>9. (Fits(<<>>) \/ \E x \in KeyAccessors : Fits(<<x>>))
      <=> /\ Len(w) >= 2
          /\ base = f \/ (Len(f) > 1 /\ Last(f) \in KeyAccessors /\ base = Front(f))
  BY <1>7, <1>8
<1> QED BY <1>6, <1>9 DEF Fits, f

\* The file, base and method of a call, as the index has them.
Tells(u, file, base, m) ==
  \E c \in MethodsCalled(u) : c[1] = file /\ c[2] = base /\ c[3] = m

\* The index has the call on a name and on a part taken from it.
LEMMA ToldBy ==
  ASSUME NEW u, u.name # None => Dotted(u.name), NEW file,
         NEW base, IsSequence(base), base # <<>>, NEW m
  PROVE  Tells(u, file, base, m)
         <=> /\ u.file = file /\ u.name # None /\ m = Last(u.name)
             /\ \E accessor \in {<<>>, <<"public_key">>, <<"private_key">>} :
                  /\ Len(u.name) = Len(base) + Len(accessor) + 1
                  /\ Front(u.name) = base \o accessor
<1> DEFINE w == u.name
           f == Front(w)
           bases == {f} \cup IF Len(f) > 1 /\ Last(f) \in KeyAccessors THEN {Front(f)} ELSE {}
<1>1. CASE w = None
  BY <1>1 DEF Tells, MethodsCalled
<1>2. CASE w # None
  <2>1. IsSequence(w) /\ w # <<>>
    BY <1>2 DEF Dotted, IsSequence
  <2>2. Len(w) \in Nat
    BY <2>1, SequenceFacts
  <2>3. MethodsCalled(u) = IF Len(w) < 2 THEN {} ELSE {<<u.file, b, Last(w)>> : b \in bases}
    BY <1>2 DEF MethodsCalled
  <2>4. base \in bases <=> \/ base = f
                           \/ Len(f) > 1 /\ Last(f) \in KeyAccessors /\ base = Front(f)
    OBVIOUS
  <2> HIDE DEF bases
  <2>5. Tells(u, file, base, m)
          <=> Len(w) >= 2 /\ u.file = file /\ m = Last(w) /\ base \in bases
    <3>1. ASSUME Tells(u, file, base, m)
          PROVE  Len(w) >= 2 /\ u.file = file /\ m = Last(w) /\ base \in bases
      <4>1. PICK c \in MethodsCalled(u) : c[1] = file /\ c[2] = base /\ c[3] = m
        BY <3>1 DEF Tells
      <4>2. Len(w) >= 2 /\ \E b \in bases : c = <<u.file, b, Last(w)>>
        BY <2>2, <2>3, <4>1
      <4> QED BY <4>1, <4>2
    <3>2. ASSUME Len(w) >= 2, u.file = file, m = Last(w), base \in bases
          PROVE  Tells(u, file, base, m)
      <4>1. <<file, base, m>> \in MethodsCalled(u)
        BY <2>2, <2>3, <3>2
      <4> QED BY <4>1 DEF Tells
    <3> QED BY <3>1, <3>2
  <2>6. (\E accessor \in {<<>>, <<"public_key">>, <<"private_key">>} :
            Len(w) = Len(base) + Len(accessor) + 1 /\ f = base \o accessor)
        <=> Len(w) >= 2 /\ base \in bases
    BY <2>1, <2>4, OnName
  <2> HIDE DEF f, w
  <2>7. Tells(u, file, base, m)
          <=> /\ u.file = file /\ m = Last(w)
              /\ \E accessor \in {<<>>, <<"public_key">>, <<"private_key">>} :
                   Len(w) = Len(base) + Len(accessor) + 1 /\ f = base \o accessor
    BY <2>5, <2>6
  <2> QED BY <1>2, <2>7 DEF f, w
<1> QED BY <1>1, <1>2

\* What the calls on a key in its file say, as the index has it.
LEMMA SaidIs ==
  ASSUME DInv, NEW u, IsSequence(u.name), u.name # <<>>
  PROVE  SaidInFile(u) = Purposes(MethodsOn(ContextOf(usages), u.file, u.name))
<1> DEFINE On(n) == /\ usages[n].file = u.file
                    /\ usages[n].name # None
                    /\ \E accessor \in {<<>>, <<"public_key">>, <<"private_key">>} :
                         /\ Len(usages[n].name) = Len(u.name) + Len(accessor) + 1
                         /\ Front(usages[n].name) = u.name \o accessor
           methods == MethodsOn(ContextOf(usages), u.file, u.name)
<1>1. \A n \in DOMAIN usages : usages[n].name # None => Dotted(usages[n].name)
  <2>1. \A n \in DOMAIN usages : usages[n] \in ToSet(usages)
    BY DEF ToSet
  <2> QED BY <2>1, ProgramAssumption DEF DInv, WellFormed
<1>2. \A m : m \in methods <=> \E n \in DOMAIN usages : Tells(usages[n], u.file, u.name, m)
  BY DEF MethodsOn, ContextOf, Tells
<1>3. \A n \in DOMAIN usages : \A m :
        Tells(usages[n], u.file, u.name, m) <=> On(n) /\ m = Last(usages[n].name)
  <2> SUFFICES ASSUME NEW n \in DOMAIN usages, NEW m
               PROVE  Tells(usages[n], u.file, u.name, m) <=> On(n) /\ m = Last(usages[n].name)
    OBVIOUS
  <2> DEFINE v == usages[n]
  <2>1. v.name # None => Dotted(v.name)
    BY <1>1
  <2> HIDE DEF v
  <2>2. Tells(v, u.file, u.name, m)
         <=> /\ v.file = u.file /\ v.name # None /\ m = Last(v.name)
             /\ \E accessor \in {<<>>, <<"public_key">>, <<"private_key">>} :
                  /\ Len(v.name) = Len(u.name) + Len(accessor) + 1
                  /\ Front(v.name) = u.name \o accessor
    BY <2>1, ToldBy
  <2> QED BY <2>2 DEF v
<1> HIDE DEF methods
<1>4. \A x : x \in SaidInFile(u) <=> \E n \in DOMAIN usages : On(n) /\ x \in Implied(usages[n].name)
  BY DEF SaidInFile
<1>5. \A n \in DOMAIN usages : On(n) => usages[n].name # None
  OBVIOUS
<1> HIDE DEF On
<1>6. \A x : x \in Purposes(methods)
              <=> \E m \in methods : m \in DOMAIN PurposeByMethod /\ x = PurposeByMethod[m]
  BY DEF Purposes
<1>7. \A n \in DOMAIN usages : On(n) =>
        \A x : x \in Implied(usages[n].name)
                <=> /\ Last(usages[n].name) \in DOMAIN PurposeByMethod
                    /\ x = PurposeByMethod[Last(usages[n].name)]
  BY <1>5 DEF Implied
<1>8. \A x : x \in SaidInFile(u) <=> x \in Purposes(methods)
  <2> SUFFICES ASSUME NEW x PROVE x \in SaidInFile(u) <=> x \in Purposes(methods)
    OBVIOUS
  <2>1. ASSUME x \in SaidInFile(u) PROVE x \in Purposes(methods)
    <3>1. PICK n \in DOMAIN usages : On(n) /\ x \in Implied(usages[n].name)
      BY <1>4, <2>1
    <3>2. PICK m : m = Last(usages[n].name)
      OBVIOUS
    <3>3. m \in methods
      BY <1>2, <1>3, <3>1, <3>2
    <3> QED BY <1>6, <1>7, <3>1, <3>2, <3>3
  <2>2. ASSUME x \in Purposes(methods) PROVE x \in SaidInFile(u)
    <3>1. PICK m \in methods : m \in DOMAIN PurposeByMethod /\ x = PurposeByMethod[m]
      BY <1>6, <2>2
    <3>2. PICK n \in DOMAIN usages : On(n) /\ m = Last(usages[n].name)
      BY <1>2, <1>3, <3>1
    <3> QED BY <1>4, <1>7, <3>1, <3>2
  <2> QED BY <2>1, <2>2
<1> QED BY <1>8 DEF methods

\* The call that takes the result, or else the calls on such a key in the file,
\* settle what it is for, if they agree.
LEMMA AskedOfUse ==
  ASSUME DInv, NEW u, IsSequence(u.name), u.name # <<>>,
         NEW rule, rule.match = u.name, NEW primitive,
         NEW p, p = PurposeFromUsage(rule, u, ContextOf(usages), primitive)
  PROVE  IF Implied(u.parent) # {} THEN Implied(u.parent) = {<<p.purpose, p.primitive>>}
         ELSE IF p.purpose # "unknown"
         THEN SaidInFile(u) = {<<p.purpose, p.primitive>>} /\ p.cap = PurposeFromUsageCap
         ELSE Cardinality(SaidInFile(u)) # 1 /\ p.cap = PurposeAmbiguousCap
<1> DEFINE exact == IF u.parent = None THEN {} ELSE Purposes({Last(u.parent)})
           used  == Purposes(MethodsOn(ContextOf(usages), u.file, rule.match))
<1>1. exact = Implied(u.parent)
  BY DEF Purposes, Implied
<1>2. used = SaidInFile(u)
  BY SaidIs
<1>3. \A methods : \A q \in Purposes(methods) : q = <<q[1], q[2]>> /\ q[1] # "unknown"
  <2>1. \A m \in DOMAIN PurposeByMethod :
          /\ PurposeByMethod[m] = <<PurposeByMethod[m][1], PurposeByMethod[m][2]>>
          /\ PurposeByMethod[m][1] # "unknown"
    BY DEF PurposeByMethod
  <2> QED BY <2>1 DEF Purposes
<1>4. \A q \in exact \cup used : q = <<q[1], q[2]>> /\ q[1] # "unknown"
  BY <1>3
<1>5. p = IF exact # {} THEN Resolved(CHOOSE q \in exact : TRUE, 100)
          ELSE IF Cardinality(used) = 1
          THEN Resolved(CHOOSE q \in used : TRUE, PurposeFromUsageCap)
          ELSE Resolved(<<"unknown", primitive>>, PurposeAmbiguousCap)
  BY DEF PurposeFromUsage
<1>6. \A q : exact = {q} \/ exact = {} \/ q \notin exact
  BY <1>1 DEF Implied
<1>7. Cardinality(used) = 1 => \E q : used = {q}
  <2>1. used \subseteq {<<"digital_signature", "signature">>, <<"key_establishment", "key-agree">>,
                        <<"key_establishment", "pke">>}
    BY DEF Purposes, PurposeByMethod
  <2>2. \A a, b, c : IsFiniteSet({a, b, c})
    <3> SUFFICES ASSUME NEW a, NEW b, NEW c PROVE IsFiniteSet({a, b, c})
      OBVIOUS
    <3>1. IsFiniteSet({a})
      BY FS_Singleton
    <3>2. IsFiniteSet({a} \cup {b})
      BY <3>1, FS_AddElement
    <3>3. IsFiniteSet(({a} \cup {b}) \cup {c})
      BY <3>2, FS_AddElement
    <3>4. ({a} \cup {b}) \cup {c} = {a, b, c}
      OBVIOUS
    <3> QED BY <3>3, <3>4
  <2> HIDE DEF used
  <2>3. IsFiniteSet(used)
    BY <2>1, <2>2, FS_Subset
  <2> QED BY <2>3, FS_Singleton
<1> HIDE DEF exact, used
<1>8. CASE exact # {}
  <2>1. PICK q : exact = {q}
    BY <1>6, <1>8
  <2>2. p = Resolved(q, 100)
    BY <1>5, <1>8, <2>1
  <2> QED BY <1>1, <1>4, <1>8, <2>1, <2>2 DEF Resolved
<1>9. CASE exact = {} /\ Cardinality(used) = 1
  <2>1. PICK q : used = {q}
    BY <1>7, <1>9
  <2>2. p = Resolved(q, PurposeFromUsageCap)
    BY <1>5, <1>9, <2>1
  <2> QED BY <1>1, <1>2, <1>4, <1>9, <2>1, <2>2 DEF Resolved
<1>10. CASE exact = {} /\ Cardinality(used) # 1
  BY <1>1, <1>2, <1>5, <1>10 DEF Resolved
<1> QED BY <1>8, <1>9, <1>10

\* No purpose is guessed: the use of a key settles it, or it stays unknown.
THEOREM PurposesAreNotGuessed == Spec => []NeverGuesses
<1>1. DInv /\ Traced => NeverGuesses
  <2> SUFFICES ASSUME DInv, Traced, NEW i \in DOMAIN findings,
                      NEW r \in ToSet(RulesFor(usages[origin[i]].name)), r.resolvePurpose
               PROVE  LET f    == findings[i]
                          u    == usages[origin[i]]
                          said == <<f.purpose, f.primitive>>
                      IN IF Implied(u.parent) # {} THEN Implied(u.parent) = {said}
                         ELSE IF f.purpose # "unknown"
                         THEN SaidInFile(u) = {said} /\ f.confidence <= PurposeFromUsageCap
                         ELSE /\ Cardinality(SaidInFile(u)) # 1
                              /\ f.confidence <= PurposeAmbiguousCap
    BY DEF NeverGuesses
  <2> DEFINE f == findings[i]
             u == usages[origin[i]]
             ctx == ContextOf(usages)
  <2>1. origin[i] \in DOMAIN usages /\ Has(Given[origin[i]], f)
    <3>1. i \in 1..Len(findings)
      BY SequenceFacts DEF Traced
    <3>2. origin[i] \in 1..detected /\ Has(Given[origin[i]], f)
      BY <3>1 DEF Traced
    <3>3. 1..detected \subseteq 1..Len(usages) /\ DOMAIN usages = 1..Len(usages)
      BY ProgramGood DEF DInv
    <3> QED BY <3>2, <3>3
  <2>2. GoodUsage(u) /\ Has(DetectUsage(u, ctx), f)
    <3>1. GoodUsage(u)
      BY <2>1, ProgramGood DEF DInv
    <3> QED BY <2>1, <3>1 DEF Given
  <2> HIDE DEF f, u
  <2>3. ~Apart(u.name)
    <3>1. PICK j \in DOMAIN RulesFor(u.name) : r = RulesFor(u.name)[j]
      BY DEF ToSet, u
    <3>2. ProperRule(r) /\ r.match = u.name
      BY <3>1, RulesForGood DEF Rulebook
    <3> QED BY <3>2 DEF ProperRule, Telling, Asking
  <2>4. IsSequence(u.name) /\ u.name # <<>>
    <3>1. \A a, b, c : IsSequence(<<a, b, c>>) /\ <<a, b, c>> # <<>>
      <4>1. \A a, b, c : <<a, b, c>> \in Seq({a, b, c}) /\ <<a, b, c>> # <<>>
        OBVIOUS
      <4> QED BY <4>1 DEF IsSequence
    <3> QED BY <2>3, <3>1 DEF Apart, Resolving
  <2>5. PICK rule : Asking(rule) /\ rule.match = u.name /\ f = Build(rule, u, None, ctx)
    BY <2>2, <2>3, AskedFinding
  <2>6. PICK primitive :
          LET p == PurposeFromUsage(rule, u, ctx, primitive)
          IN f.purpose = p.purpose /\ f.primitive = p.primitive /\ f.confidence <= p.cap
    BY <2>2, <2>5, BuildAsks
  <2> DEFINE p == PurposeFromUsage(rule, u, ctx, primitive)
  <2>7. IF Implied(u.parent) # {} THEN Implied(u.parent) = {<<p.purpose, p.primitive>>}
        ELSE IF p.purpose # "unknown"
        THEN SaidInFile(u) = {<<p.purpose, p.primitive>>} /\ p.cap = PurposeFromUsageCap
        ELSE Cardinality(SaidInFile(u)) # 1 /\ p.cap = PurposeAmbiguousCap
    BY <2>4, <2>5, AskedOfUse
  <2>8. f.purpose = p.purpose /\ f.primitive = p.primitive /\ f.confidence <= p.cap
    BY <2>6
  <2> HIDE DEF p
  <2> QED BY <2>7, <2>8, Zenon DEF f, u
<1> QED BY <1>1, DetectorInvariant, TracedInvariant, PTL
=============================================================================
