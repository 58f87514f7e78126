------------------------------- MODULE Certs -------------------------------
(***************************************************************************)
(* The certificates and keys of a project, file by file and block by       *)
(* block.  Two libraries read a block: cryptography first, which knows the *)
(* algorithms it was built with, and asn1crypto where it gives up, with    *)
(* the tables of object identifiers.  A block that neither reads, or that  *)
(* raises, costs itself only.                                              *)
(*                                                                         *)
(* An object identifier is written as the algorithm it stands for.  What a *)
(* block holds is a record: form, key [oid, size, curve], the signature,   *)
(* the name of its subject and of its issuer, serial, notAfter, ca, usage  *)
(* (the flags set, None without the extension), the facts that no library  *)
(* can read (hidden), and how far each library gets: "all", "keyless" (the *)
(* key itself is beyond it) or "nothing".                                  *)
(*                                                                         *)
(* A reader that may give up gives a sequence, empty where it does.        *)
(***************************************************************************)
EXTENDS Risk, Normalize, FiniteSets, SequencesExt

CONSTANT Artifacts   \* the sequences of files that may be parsed

\* The labels of an armoured block that matter; None is not one of them.
Labels == {"encrypted private key", "private key", "public key", "certificate", "request", "broken"}

ASSUME NoneAssumption == None \notin Labels

ObjectFields == {"form", "key", "signature", "subject", "issuer", "serial", "notAfter", "ca",
                 "usage", "hidden", "pyca", "asn1"}

\* Files are sequences of blocks, and what a block holds is a record.
ASSUME ArtifactAssumption ==
  \A a \in Artifacts :
    /\ a \in Seq(ToSet(a))
    /\ \A n \in DOMAIN a :
         /\ a[n].content \in Seq(ToSet(a[n].content))
         /\ \A b \in ToSet(a[n].content) : ObjectFields \subseteq DOMAIN b.object

VARIABLES
  artifacts,   \* the files, in order
  file,        \* the number of the one being parsed, 0 before the first
  blocks,      \* its blocks still to parse
  findings,
  origin       \* what each finding was read from (history)

vars == <<artifacts, file, blocks, findings, origin>>

-----------------------------------------------------------------------------
(***************************************************************************)
(* The tables                                                              *)
(***************************************************************************)

Entry(algorithm, primitive, purpose) ==
  [algorithm |-> algorithm, primitive |-> primitive, purpose |-> purpose,
   status |-> "classical", parameterSet |-> None, level |-> None]

Fixed(entry, level) == [entry EXCEPT !.parameterSet = entry.algorithm, !.level = level]

Quantum(entry, level) == [Fixed(entry, level) EXCEPT !.status = "pqc"]

Signing(algorithm) == Entry(algorithm, "signature", "digital_signature")

Agreeing(algorithm) == Entry(algorithm, "key-agree", "key_establishment")

Sha2 == {"SHA-224", "SHA-256", "SHA-384", "SHA-512"}
Sha3 == {"SHA3-224", "SHA3-256", "SHA3-384", "SHA3-512"}

ClassicalSignature ==
  {<<"RSA", d>> : d \in {"MD5", "SHA-1"} \cup Sha2 \cup Sha3}
    \cup {<<"ECDSA", d>> : d \in {"SHA-1"} \cup Sha2 \cup Sha3}
    \cup {<<"DSA", d>> : d \in {"SHA-1"} \cup Sha2}
    \cup {<<"RSASSA-PSS">>}

SlhDsaStrength == [s128 |-> 128, f128 |-> 128, s192 |-> 192, f192 |-> 192, s256 |-> 256, f256 |-> 256]

SlhDsa == {<<"SLH-DSA", hash, size>> : hash \in {"SHA2", "SHAKE"}, size \in DOMAIN SlhDsaStrength}

EdwardsStrength == Dict({<<<<"Ed25519">>, 128>>, <<<<"Ed448">>, 224>>})
MlDsaStrength == Dict({<<<<"ML-DSA-44">>, 128>>, <<<<"ML-DSA-65">>, 192>>, <<<<"ML-DSA-87">>, 256>>})
MlKemStrength == Dict({<<<<"ML-KEM-512">>, 128>>, <<<<"ML-KEM-768">>, 192>>, <<<<"ML-KEM-1024">>, 256>>})
MontgomeryStrength == Dict({<<<<"X25519">>, 128>>, <<<<"X448">>, 224>>})

SignatureOids ==
  [a \in ClassicalSignature |-> Signing(a)]
    ++ [a \in DOMAIN EdwardsStrength |-> Fixed(Signing(a), EdwardsStrength[a])]
    ++ [a \in DOMAIN MlDsaStrength |-> Quantum(Signing(a), MlDsaStrength[a])]
    ++ [a \in SlhDsa |-> Quantum(Signing(a), SlhDsaStrength[a[3]])]

PublicKeyOids ==
  [a \in {<<"RSA">>} |-> Entry(a, "pke", "unknown")]
    ++ [a \in {<<"EC">>} |-> Entry(a, "unknown", "unknown")]
    ++ [a \in {<<"RSASSA-PSS">>, <<"DSA">>} |-> Signing(a)]
    ++ [a \in {<<"DH">>} |-> Agreeing(a)]
    ++ [a \in DOMAIN MontgomeryStrength |-> Fixed(Agreeing(a), MontgomeryStrength[a])]
    ++ [a \in DOMAIN EdwardsStrength \cup DOMAIN MlDsaStrength |-> SignatureOids[a]]
    ++ [a \in DOMAIN MlKemStrength |->
          Quantum(Entry(a, "kem", "key_establishment"), MlKemStrength[a])]

LookupSignature(oid, unknown) == IF oid \in DOMAIN SignatureOids THEN SignatureOids[oid] ELSE unknown

LookupPublicKey(oid, unknown) ==
  IF oid \in DOMAIN PublicKeyOids THEN PublicKeyOids[oid] ELSE LookupSignature(oid, unknown)

\* A curve by the name cryptography has for it: the name and the strength here.
CurveOids ==
  [secp192r1 |-> <<"SECP192R1", 96>>, secp224r1 |-> <<"SECP224R1", 112>>,
   secp256r1 |-> <<"SECP256R1", 128>>, secp256k1 |-> <<"SECP256K1", 128>>,
   secp384r1 |-> <<"SECP384R1", 192>>, secp521r1 |-> <<"SECP521R1", 256>>,
   brainpoolP256r1 |-> <<"brainpoolP256r1", 128>>, brainpoolP384r1 |-> <<"brainpoolP384r1", 192>>,
   brainpoolP512r1 |-> <<"brainpoolP512r1", 256>>]

\* Only a name that starts with secp is written in capitals, and all of those
\* that cryptography knows are in the table.
NormalizeCurve(name) == IF name \in DOMAIN CurveOids THEN CurveOids[name][1] ELSE name

CurveStrength(name) == IF name \in DOMAIN CurveOids THEN CurveOids[name][2] ELSE None

RsaStrength(size) ==
  LET strength == Dict({<<1024, 80>>, <<2048, 112>>, <<3072, 128>>, <<4096, 152>>, <<7680, 192>>,
                        <<15360, 256>>})
  IN IF size \in DOMAIN strength THEN strength[size] ELSE None

-----------------------------------------------------------------------------
(***************************************************************************)
(* What is known of a key                                                  *)
(***************************************************************************)

KeyFacts(entry, oid) ==
  [entry |-> entry, oid |-> oid, keySize |-> None, curve |-> None,
   parameterSet |-> entry.parameterSet, level |-> entry.level]

\* cryptography loads an RSASSA-PSS key as an RSA key, and no class of it stands
\* for SLH-DSA or for DH here.
FactsFromObject(key) ==
  CASE key.oid \in {<<"RSA">>, <<"RSASSA-PSS">>} ->
         <<[KeyFacts(PublicKeyOids[<<"RSA">>], None) EXCEPT
              !.keySize = key.size, !.level = RsaStrength(key.size)]>>
    [] key.oid = <<"EC">> ->
         <<[KeyFacts(PublicKeyOids[<<"EC">>], None) EXCEPT
              !.keySize = key.size, !.curve = NormalizeCurve(key.curve),
              !.parameterSet = NormalizeCurve(key.curve), !.level = CurveStrength(key.curve)]>>
    [] key.oid = <<"DSA">> ->
         <<[KeyFacts(PublicKeyOids[<<"DSA">>], None) EXCEPT !.keySize = key.size]>>
    [] key.oid \in DOMAIN EdwardsStrength \cup DOMAIN MontgomeryStrength
                     \cup DOMAIN MlDsaStrength \cup DOMAIN MlKemStrength ->
         <<KeyFacts(PublicKeyOids[key.oid], None)>>
    [] OTHER -> <<>>

UnknownEntry == [Entry(<<"unknown">>, "unknown", "unknown") EXCEPT !.status = "unknown"]

\* An RSA key that is private is not measured; a curve that is not in the table
\* is not named.  Mutant: nor is any curve.
MutNoCurve(facts, key, private) ==
  IF key.oid = <<"RSA">> /\ ~private
  THEN [facts EXCEPT !.keySize = key.size, !.level = RsaStrength(key.size)]
  ELSE facts

Measured(facts, key, private) ==
  IF key.oid = <<"EC">> /\ key.curve \in DOMAIN CurveOids
  THEN [facts EXCEPT !.curve = CurveOids[key.curve][1], !.parameterSet = CurveOids[key.curve][1],
                     !.level = CurveOids[key.curve][2]]
  ELSE IF key.oid = <<"RSA">> /\ ~private
  THEN [facts EXCEPT !.keySize = key.size, !.level = RsaStrength(key.size)]
  ELSE facts

FactsFromAlgorithm(key, private) ==
  Measured(KeyFacts(LookupPublicKey(key.oid, UnknownEntry), key.oid), key, private)

-----------------------------------------------------------------------------
(***************************************************************************)
(* Certificates                                                            *)
(***************************************************************************)

Read(o, fact, value) == IF fact \in o.hidden THEN None ELSE value

\* What identifies a certificate, in the words of the reader.  A name that
\* cannot be read is as good as none, and asn1crypto is not asked for the serial.
IdentityRead(o, reader) ==
  <<Read(o, "subject", <<reader, o.subject>>), Read(o, "issuer", <<reader, o.issuer>>),
    IF reader = "cryptography" THEN Read(o, "serial", o.serial) ELSE None>>

Dates(o) == IF "dates" \in o.hidden THEN <<>> ELSE [not_after |-> o.notAfter]

SigningKeyUsages == {"digital_signature", "content_commitment", "key_cert_sign", "crl_sign"}

EstablishmentKeyUsages == {"key_encipherment", "key_agreement", "encipher_only", "decipher_only"}

\* cryptography refuses to say whether an agreement is for one direction if the
\* key is for no agreement at all.
UsageViaCryptography(usage) ==
  IF "key_agreement" \in usage THEN usage ELSE usage \ {"encipher_only", "decipher_only"}

\* asn1crypto has the older name of one flag.
UsageViaAsn1crypto(usage) ==
  {IF flag = "content_commitment" THEN "non_repudiation" ELSE flag : flag \in usage}

Usage(o, flags) == IF o.usage = None THEN <<>> ELSE [key_usage |-> flags]

ViaCryptography(o) ==
  IF o.form # "certificate" \/ o.pyca = "nothing" THEN <<>>
  ELSE <<[signature |-> Read(o, "signature", o.signature),
          key       |-> IF o.pyca = "all" THEN FactsFromObject(o.key) ELSE <<>>,
          metadata  |-> Dates(o) ++ Usage(o, UsageViaCryptography(o.usage))
                          ++ [artifact |-> "x509_certificate", is_ca |-> o.ca,
                              subject |-> IdentityRead(o, "cryptography")]]>>

ViaAsn1crypto(o) ==
  IF o.form # "certificate" \/ o.asn1 = "nothing" \/ "signature" \in o.hidden THEN <<>>
  ELSE <<[signature |-> o.signature,
          key       |-> IF o.asn1 = "all" THEN <<FactsFromAlgorithm(o.key, FALSE)>> ELSE <<>>,
          metadata  |-> Dates(o) ++ Usage(o, UsageViaAsn1crypto(o.usage))
                          ++ [artifact |-> "x509_certificate", parser |-> "asn1crypto",
                              subject |-> IdentityRead(o, "asn1crypto")]]>>

ConfidenceParsed == 100
ConfidenceOidTable == 80
ConfidenceUnknownOid == 30

Confidence(entry, parsed) ==
  IF entry.algorithm = <<"unknown">> THEN ConfidenceUnknownOid ELSE parsed

\* A finding of what the facts of a key say; of is what it is a finding of.
FindingOf(facts, f, parsed, of) ==
  [file |-> f, line |-> 0, algorithm |-> NormalizeAlgorithm(facts.entry.algorithm),
   purpose |-> facts.entry.purpose, primitive |-> facts.entry.primitive, mode |-> "unknown",
   padding |-> "unknown", functions |-> of.functions, parameterSet |-> facts.parameterSet,
   curve |-> facts.curve, keySize |-> facts.keySize, oid |-> facts.oid,
   status |-> facts.entry.status, level |-> facts.level,
   confidence |-> Confidence(facts.entry, parsed),
   assetType |-> of.assetType, detector |-> of.detector, extra |-> of.extra]

\* A key is for what its certificate says only if that is one thing.  Mutant: a
\* key that signs is for signing, whatever else it does.
MutSignsFirst(entry, metadata) ==
  LET flags       == IF "key_usage" \in DOMAIN metadata THEN metadata.key_usage ELSE {}
      signs       == flags \cap SigningKeyUsages # {}
      establishes == flags \cap EstablishmentKeyUsages # {}
  IN IF entry.purpose # "unknown" THEN <<entry.purpose, entry.primitive>>
     ELSE IF signs THEN <<"digital_signature", "signature">>
     ELSE IF ~establishes THEN <<entry.purpose, entry.primitive>>
     ELSE <<"key_establishment", IF entry.algorithm = <<"EC">> THEN "key-agree" ELSE entry.primitive>>

RefineFromKeyUsage(entry, metadata) ==
  LET flags       == IF "key_usage" \in DOMAIN metadata THEN metadata.key_usage ELSE {}
      signs       == flags \cap SigningKeyUsages # {}
      establishes == flags \cap EstablishmentKeyUsages # {}
  IN IF entry.purpose # "unknown" \/ signs = establishes THEN <<entry.purpose, entry.primitive>>
     ELSE IF signs THEN <<"digital_signature", "signature">>
     ELSE <<"key_establishment", IF entry.algorithm = <<"EC">> THEN "key-agree" ELSE entry.primitive>>

OfCertificate(metadata) ==
  [functions |-> {}, assetType |-> "certificate", detector |-> "certs.certificate", extra |-> metadata]

CertificateFinding(parsed, f, confidence) ==
  IF parsed.key = <<>>
  THEN FindingOf(KeyFacts(UnknownEntry, None), f, confidence, OfCertificate(parsed.metadata))
  ELSE LET refined == RefineFromKeyUsage(parsed.key[1].entry, parsed.metadata)
       IN [FindingOf(parsed.key[1], f, confidence, OfCertificate(parsed.metadata))
             EXCEPT !.purpose = refined[1], !.primitive = refined[2]]

\* A signature is for signing even where the algorithm is not known.
UnknownSignature ==
  [UnknownEntry EXCEPT !.primitive = "signature", !.purpose = "digital_signature"]

OfSignature(known) ==
  [functions |-> IF known THEN {"sign"} ELSE {}, assetType |-> "algorithm",
   detector |-> "certs.signature_algorithm", extra |-> [artifact |-> "x509_signature"]]

SignatureFinding(oid, f, confidence) ==
  FindingOf(KeyFacts(LookupSignature(oid, UnknownSignature), oid), f, confidence,
    OfSignature(oid \in DOMAIN SignatureOids))

CertificateFindings(parsed, f, confidence) ==
  IF parsed = <<>> THEN <<>>
  ELSE <<CertificateFinding(parsed[1], f, confidence),
         SignatureFinding(parsed[1].signature, f, confidence)>>

\* The second reader is believed if it did better.
FallBack(first, second, f) ==
  IF second # <<>> /\ (first = <<>> \/ second[1].key # <<>>)
  THEN CertificateFindings(second, f, ConfidenceOidTable)
  ELSE CertificateFindings(first, f, ConfidenceParsed)

\* It is asked only if the first did not read the certificate or its key.
After(first, o, f) ==
  IF first = <<>> \/ first[1].key = <<>> THEN FallBack(first, ViaAsn1crypto(o), f)
  ELSE CertificateFindings(first, f, ConfidenceParsed)

ParseCertificate(o, f) == After(ViaCryptography(o), o, f)

-----------------------------------------------------------------------------
(***************************************************************************)
(* Keys                                                                    *)
(***************************************************************************)

IsKey(o, private) == o.form = IF private THEN "private key" ELSE "public key"

KeyViaCryptography(o, private) ==
  IF IsKey(o, private) /\ o.pyca = "all" THEN FactsFromObject(o.key) ELSE <<>>

KeyViaAsn1crypto(o, private) ==
  IF IsKey(o, private) /\ o.asn1 = "all" THEN <<FactsFromAlgorithm(o.key, private)>> ELSE <<>>

\* A private key whose algorithm is no object identifier raises; a public one
\* does not.
Raises(o, private) ==
  private /\ IsKey(o, private) /\ KeyViaCryptography(o, private) = <<>> /\ o.asn1 = "keyless"

OfKey(private) ==
  [functions |-> {"keygen"}, assetType |-> "related-crypto-material", detector |-> "certs.key",
   extra |-> [artifact |-> IF private THEN "private-key" ELSE "public-key"]]

KeyFinding(facts, f, private, confidence) ==
  IF facts = <<>> THEN <<>> ELSE <<FindingOf(facts[1], f, confidence, OfKey(private))>>

ParseKey(o, f, private) ==
  IF KeyViaCryptography(o, private) # <<>>
  THEN KeyFinding(KeyViaCryptography(o, private), f, private, ConfidenceParsed)
  ELSE KeyFinding(KeyViaAsn1crypto(o, private), f, private, ConfidenceOidTable)

OfOpaque ==
  [functions |-> {}, assetType |-> "related-crypto-material", detector |-> "certs.opaque",
   extra |-> [artifact |-> "encrypted-private-key"]]

OpaqueFinding(f) == FindingOf(KeyFacts(UnknownEntry, None), f, ConfidenceUnknownOid, OfOpaque)

(***************************************************************************)
(* Blocks.  A block is [label, object]; the label is None in a file that   *)
(* is not armoured, and is "broken" where the armour is malformed.         *)
(***************************************************************************)

BlockRaises(b) ==
  /\ b.label \in {"private key", None}
  /\ b.label = None => ParseCertificate(b.object, 0) = <<>> /\ ParseKey(b.object, 0, FALSE) = <<>>
  /\ Raises(b.object, TRUE)

\* An unlabelled block may be anything.
FirstFound(certificate, public, private) ==
  IF certificate # <<>> THEN certificate ELSE IF public # <<>> THEN public ELSE private

ParseBlock(b, f) ==
  LET o == b.object
  IN CASE b.label = "encrypted private key"      -> <<OpaqueFinding(f)>>
       [] b.label = "private key"                -> ParseKey(o, f, TRUE)
       [] b.label = "public key"                 -> ParseKey(o, f, FALSE)
       [] b.label \in {"certificate", "request"} -> ParseCertificate(o, f)
       [] b.label = None -> FirstFound(ParseCertificate(o, f), ParseKey(o, f, FALSE), ParseKey(o, f, TRUE))
       [] OTHER -> <<>>

\* What precedes malformed armour is kept.
Blocks(content) ==
  LET broken == {n \in DOMAIN content : content[n].label = "broken"}
  IN IF broken = {} THEN content
     ELSE SubSeq(content, 1, (CHOOSE n \in broken : \A m \in broken : n <= m) - 1)

-----------------------------------------------------------------------------
Init ==
  /\ artifacts \in Artifacts
  /\ file = 0 /\ blocks = <<>>
  /\ findings = <<>> /\ origin = <<>>

\* A file that is too big, or cannot be read, has no blocks.
OpenArtifact ==
  /\ blocks = <<>>
  /\ file < Len(artifacts)
  /\ file' = file + 1
  /\ blocks' = IF artifacts[file'].readable THEN Blocks(artifacts[file'].content) ELSE <<>>
  /\ UNCHANGED <<artifacts, findings, origin>>

\* The blocks left after one.  Mutant: one that raises ends the file.
MutGiveUp(b) == IF BlockRaises(b) THEN <<>> ELSE Tail(blocks)

Following(b) == Tail(blocks)

\* What is found in a block is added to what was found before it.
Report(found, o) ==
  /\ findings' = findings \o found
  /\ origin' = origin \o [n \in DOMAIN found |-> o]

ReadBlock ==
  /\ blocks # <<>>
  /\ LET b == Head(blocks)
     IN /\ Report(IF BlockRaises(b) THEN <<>> ELSE ParseBlock(b, file), b.object)
        /\ blocks' = Following(b)
  /\ UNCHANGED <<artifacts, file>>

Next == OpenArtifact \/ ReadBlock

Spec == Init /\ [][Next]_vars

-----------------------------------------------------------------------------
(***************************************************************************)
(* What the parser must satisfy                                            *)
(***************************************************************************)

\* The label, if there is one, says truly what the block holds.
Labelled(b) == b.label = None \/ b.label = b.object.form

Legible(o) ==
  /\ o.form \in {"certificate", "public key", "private key"}
  /\ \/ o.pyca = "all" /\ o.key.oid \in DOMAIN PublicKeyOids \ {<<"DH">>}
     \/ o.asn1 = "all" /\ "signature" \notin o.hidden

\* The parser is past the block n of the file f.
Past(f, n) == f < file \/ (f = file /\ n + Len(blocks) <= Len(Blocks(artifacts[f].content)))

\* A block that one of the libraries can read is reported, whatever the other
\* blocks of its file and the other files are like (parser.py, parse_artifact;
\* test_certs.py:281, "keeps the first that reads").
NothingLegibleIsLost ==
  \A f \in 1..file : artifacts[f].readable =>
    \A n \in DOMAIN Blocks(artifacts[f].content) :
      LET b == artifacts[f].content[n] IN
      Past(f, n) /\ Labelled(b) /\ Legible(b.object) =>
        \E i \in DOMAIN findings :
          /\ findings[i].file = f
          /\ origin[i] = b.object
          /\ findings[i].detector = IF b.object.form = "certificate" THEN "certs.certificate"
                                    ELSE "certs.key"
          /\ findings[i].confidence = ConfidenceUnknownOid
               <=> b.object.key.oid \notin DOMAIN PublicKeyOids \cup DOMAIN SignatureOids

\* The flags of o have one name in both libraries.
SameUsage(o) == o.usage # None => UsageViaCryptography(o.usage) = UsageViaAsn1crypto(o.usage)

SameContent(o, p) == [o EXCEPT !.pyca = p.pyca, !.asn1 = p.asn1] = p

\* The libraries have the same words for what o says of its key: not for a curve
\* outside the table, an RSA key restricted to PSS, a usage one of them renames
\* or drops, nor for a private key, which asn1crypto does not measure.
SameWords(o) ==
  /\ o.form # "private key"
  /\ o.key.oid = <<"EC">> => o.key.curve \in DOMAIN CurveOids
  /\ o.key.oid # <<"RSASSA-PSS">>
  /\ SameUsage(o)

\* A certificate or a key has the same risk whichever library reads it, but for
\* the cases of SameWords (parser.py, _certificate_via_asn1crypto;
\* test_certs.py:390, "no PQC support in the parser, still detected").
ReadersAgree ==
  \A i, j \in DOMAIN findings :
    /\ findings[i].detector = findings[j].detector
    /\ SameContent(origin[i], origin[j]) /\ SameWords(origin[i])
    /\ findings[i].algorithm # <<"unknown">> /\ findings[j].algorithm # <<"unknown">>
    => /\ Migration(findings[i]) = Migration(findings[j])
       /\ \A now \in {-1, 0, QuantumDeprecation} : Assess(findings[i], now) = Assess(findings[j], now)

\* What a certificate says its key is for.
Uses(o) ==
  LET flags == IF o.usage = None THEN {} ELSE UsageViaCryptography(o.usage)
  IN {use \in {"digital_signature", "key_establishment"} :
        flags \cap (IF use = "digital_signature" THEN SigningKeyUsages
                    ELSE EstablishmentKeyUsages) # {}}

\* A key that could be for anything gets the one use its certificate states, and
\* none if it states several, in whatever order the flags are read (parser.py:572,
\* "Use it only when it says one thing").  Where asn1crypto renames a flag the
\* code does not recognise it.
PurposeFromOneUse ==
  \A i \in DOMAIN findings :
    LET f == findings[i] IN
    /\ f.detector = "certs.certificate" /\ f.algorithm \in {<<"RSA">>, <<"EC">>}
    /\ Extra(f, "parser") = "asn1crypto" => SameUsage(origin[i])
    => f.purpose # "unknown" <=> Uses(origin[i]) = {f.purpose}
=============================================================================
