------------------------------- MODULE Rules -------------------------------
(***************************************************************************)
(* The rule table of the detectors.  A qualified name is the tuple of its  *)
(* segments, with the packages the code abbreviates (PYCA, PYCA_ASYM and   *)
(* PYCA_CIPHERS) as one segment each.  Positions of arguments count from   *)
(* 0, as in the code.  A rule that leaves a field at its default is the    *)
(* default record with the other fields on top (++).                       *)
(***************************************************************************)
EXTENDS Model

NoRule ==
  [match |-> <<>>, algorithm |-> <<"unknown">>, primitive |-> "unknown",
   purpose |-> "unknown", functions |-> {}, status |-> "classical",
   assetType |-> "algorithm", mode |-> "unknown", padding |-> "unknown",
   keySize |-> None, parameterSet |-> None, keySizeKwarg |-> None, keySizeArg |-> None,
   level |-> None, algorithmArg |-> None, modeArg |-> None, curveArg |-> None,
   digestArg |-> None, digestKwarg |-> None, nameArg |-> None, nameKwarg |-> None,
   specTable |-> None, valueKwarg |-> None, valueKey |-> None, valueName |-> None,
   valueEquals |-> None, consumesArgs |-> FALSE, resolvePurpose |-> FALSE,
   extra |-> <<>>, emits |-> TRUE, confidence |-> 100, detector |-> ""]

Rule(match, algorithm, primitive, purpose, functions, detector) ==
  [match |-> match, algorithm |-> algorithm, primitive |-> primitive,
   purpose |-> purpose, functions |-> functions, detector |-> detector] ++ NoRule

Consuming(rule) == [rule EXCEPT !.consumesArgs = TRUE]

-----------------------------------------------------------------------------
(***************************************************************************)
(* Tables                                                                  *)
(***************************************************************************)

\* Confidences are percentages.
PurposeFromUsageCap == 60
PurposeAmbiguousCap == 50
OpaqueArtifactConfidence == 30

PurposeByMethod ==
  [sign     |-> <<"digital_signature", "signature">>,
   verify   |-> <<"digital_signature", "signature">>,
   exchange |-> <<"key_establishment", "key-agree">>,
   encrypt  |-> <<"key_establishment", "pke">>,
   decrypt  |-> <<"key_establishment", "pke">>]

KeyAccessors == {"public_key", "private_key"}

AlgorithmSpec(algorithm, primitive, purpose, functions, padding, curve, level) ==
  [algorithm |-> algorithm, primitive |-> primitive, purpose |-> purpose,
   functions |-> functions, padding |-> padding, parameterSet |-> curve,
   curve |-> curve, level |-> level, status |-> "classical"]

JwtHmac(digest, level) ==
  AlgorithmSpec(<<"HMAC", digest>>, "mac", "mac", {"tag"}, "unknown", None, level)
JwtRsa(padding) ==
  AlgorithmSpec(<<"RSA">>, "signature", "digital_signature", {"sign"}, padding, None, None)
JwtEc(algorithm, curve, level) ==
  AlgorithmSpec(<<algorithm>>, "signature", "digital_signature", {"sign"}, "unknown", curve, level)

JwtAlgorithms ==
  [HS256  |-> JwtHmac("SHA-256", 128), HS384 |-> JwtHmac("SHA-384", 192),
   HS512  |-> JwtHmac("SHA-512", 256),
   RS256  |-> JwtRsa("pkcs1v15"), RS384 |-> JwtRsa("pkcs1v15"), RS512 |-> JwtRsa("pkcs1v15"),
   PS256  |-> JwtRsa("other"), PS384 |-> JwtRsa("other"), PS512 |-> JwtRsa("other"),
   ES256  |-> JwtEc("ECDSA", "SECP256R1", 128), ES256K |-> JwtEc("ECDSA", "SECP256K1", 128),
   ES384  |-> JwtEc("ECDSA", "SECP384R1", 192), ES512  |-> JwtEc("ECDSA", "SECP521R1", 256),
   EdDSA  |-> JwtEc("Ed25519", "Ed25519", 128),
   none   |-> AlgorithmSpec(<<"none">>, "other", "digital_signature", {}, "unknown", None, 0)]

\* name -> <<algorithm, primitive, level>>
CipherAlgorithms ==
  LET Class(name) == <<"PYCA_CIPHERS", "algorithms", name>>
  IN Dict({<<Class("AES"), <<"AES", "block-cipher", None>>>>,
           <<Class("AES128"), <<"AES-128", "block-cipher", 128>>>>,
           <<Class("AES256"), <<"AES-256", "block-cipher", 256>>>>,
           <<Class("Camellia"), <<"Camellia", "block-cipher", None>>>>,
           <<Class("TripleDES"), <<"3DES", "block-cipher", 112>>>>,
           <<Class("Blowfish"), <<"Blowfish", "block-cipher", None>>>>,
           <<Class("CAST5"), <<"CAST5", "block-cipher", None>>>>,
           <<Class("IDEA"), <<"IDEA", "block-cipher", None>>>>,
           <<Class("SEED"), <<"SEED", "block-cipher", 128>>>>,
           <<Class("ARC4"), <<"RC4", "stream-cipher", None>>>>,
           <<Class("ChaCha20"), <<"ChaCha20", "stream-cipher", 256>>>>})

CipherModes ==
  [m \in {<<"PYCA_CIPHERS", "modes", n>> : n \in {"CBC", "CCM", "CFB", "CFB8", "CTR", "ECB",
                                          "GCM", "OFB", "XTS"}} |->
     CASE m[3] = "CBC" -> "cbc" [] m[3] = "CCM" -> "ccm" [] m[3] \in {"CFB", "CFB8"} -> "cfb"
       [] m[3] = "CTR" -> "ctr" [] m[3] = "ECB" -> "ecb" [] m[3] = "GCM" -> "gcm"
       [] m[3] = "OFB" -> "ofb" [] m[3] = "XTS" -> "other"]

\* name -> <<curve, level>>
Curves ==
  LET Class(name) == <<"PYCA_ASYM", "ec", name>>
  IN Dict({<<Class("SECP192R1"), <<"SECP192R1", 96>>>>, <<Class("SECP224R1"), <<"SECP224R1", 112>>>>,
           <<Class("SECP256K1"), <<"SECP256K1", 128>>>>, <<Class("SECP256R1"), <<"SECP256R1", 128>>>>,
           <<Class("SECP384R1"), <<"SECP384R1", 192>>>>, <<Class("SECP521R1"), <<"SECP521R1", 256>>>>,
           <<Class("BrainpoolP256R1"), <<"brainpoolP256r1", 128>>>>,
           <<Class("BrainpoolP384R1"), <<"brainpoolP384r1", 192>>>>})

HashStrength ==
  Dict({<<"SHA-224", 112>>, <<"SHA-256", 128>>, <<"SHA-384", 192>>, <<"SHA-512", 256>>,
        <<"SHA3-256", 128>>, <<"SHA3-384", 192>>, <<"SHA3-512", 256>>,
        <<"BLAKE2b", 256>>, <<"BLAKE2s", 128>>, <<"MD5", None>>, <<"SHA-1", None>>})

RsaStrength ==
  Dict({<<1024, 80>>, <<2048, 112>>, <<3072, 128>>, <<4096, 152>>, <<7680, 192>>, <<15360, 256>>})

-----------------------------------------------------------------------------
(***************************************************************************)
(* Families                                                                *)
(***************************************************************************)

\* <<attribute, algorithm, level>>; detector: how the family is reported.
HashFamily(package, detector, table) ==
  [i \in DOMAIN table |->
     [level |-> table[i][3]] ++
     Rule(package \o <<table[i][1]>>, <<table[i][2]>>, "hash", "hashing", {"digest"},
          detector \o "." \o table[i][1])]

HASHLIB ==
  << <<"md5", "MD5", None>>, <<"sha1", "SHA-1", None>>, <<"sha224", "SHA-224", 112>>,
     <<"sha256", "SHA-256", 128>>, <<"sha384", "SHA-384", 192>>,
     <<"sha512", "SHA-512", 256>>, <<"sha3_224", "SHA3-224", 112>>,
     <<"sha3_256", "SHA3-256", 128>>, <<"sha3_384", "SHA3-384", 192>>,
     <<"sha3_512", "SHA3-512", 256>>, <<"blake2b", "BLAKE2b", 256>>,
     <<"blake2s", "BLAKE2s", 128>> >>

PYCA_HASHES ==
  << <<"MD5", "MD5", None>>, <<"SHA1", "SHA-1", None>>, <<"SHA224", "SHA-224", 112>>,
     <<"SHA256", "SHA-256", 128>>, <<"SHA384", "SHA-384", 192>>,
     <<"SHA512", "SHA-512", 256>>, <<"SHA3_256", "SHA3-256", 128>>,
     <<"SHA3_512", "SHA3-512", 256>>, <<"BLAKE2b", "BLAKE2b", 256>>,
     <<"BLAKE2s", "BLAKE2s", 128>> >>

HashRules ==
  HashFamily(<<"hashlib">>, "hashlib", HASHLIB)
    \o HashFamily(<<"PYCA", "hashes">>, "pyca.hashes", PYCA_HASHES)

JwtRules(module) ==
  LET Jwt(call, algorithm, functions, detector) ==
        Rule(module \o <<call>>, <<algorithm>>, "signature", "digital_signature",
             functions, detector)
      Unverified == Jwt("decode", "JWT-unverified", {"verify"}, "jwt.verification_disabled")
  IN << Consuming([nameKwarg |-> "algorithm", nameArg |-> 3, specTable |-> JwtAlgorithms]
                  ++ Jwt("encode", "JWT", {"sign"}, "jwt.encode")),
        Consuming([nameKwarg |-> "algorithms", specTable |-> JwtAlgorithms]
                  ++ Jwt("decode", "JWT", {"verify"}, "jwt.decode")),
        [valueKwarg |-> "verify", valueEquals |-> <<"bool", FALSE>>] ++ Unverified,
        [valueKwarg |-> "options", valueKey |-> "verify_signature",
         valueEquals |-> <<"bool", FALSE>>] ++ Unverified >>

CipherRules ==
  << Consuming([algorithmArg |-> 0, modeArg |-> 1] ++
       Rule(<<"PYCA_CIPHERS", "Cipher">>, <<"unknown">>, "block-cipher", "encryption",
            {"encrypt", "decrypt"}, "pyca.cipher")) >>
  \o LET Class(name) == <<"PYCA_CIPHERS", "algorithms", name>>
         names == <<"AES", "AES128", "AES256", "Camellia", "TripleDES", "Blowfish",
                    "CAST5", "IDEA", "SEED", "ARC4", "ChaCha20">>
     IN [i \in DOMAIN names |->
           LET c == CipherAlgorithms[Class(names[i])] IN
           [level |-> c[3]] ++
           Rule(Class(names[i]), <<c[1]>>, c[2], "encryption", {"encrypt"},
                "pyca.cipher.algorithm")]

DigestRules ==
  << Consuming([nameArg |-> 0] ++
       Rule(<<"hashlib", "new">>, <<"unknown">>, "hash", "hashing", {"digest"}, "hashlib.new")),
     Consuming([digestArg |-> 2, digestKwarg |-> "digestmod"] ++
       Rule(<<"hmac", "new">>, <<"HMAC">>, "mac", "mac", {"tag"}, "hmac.new")),
     Consuming([digestArg |-> 1] ++
       Rule(<<"PYCA", "hmac", "HMAC">>, <<"HMAC">>, "mac", "mac", {"tag"}, "pyca.hmac")),
     Consuming([digestArg |-> 0] ++
       Rule(<<"hashlib", "pbkdf2_hmac">>, <<"PBKDF2">>, "kdf", "key_derivation",
            {"keyderive"}, "hashlib.pbkdf2")),
     Rule(<<"hashlib", "scrypt">>, <<"scrypt">>, "kdf", "key_derivation", {"keyderive"},
          "hashlib.scrypt"),
     Consuming(Rule(<<"PYCA", "kdf", "pbkdf2", "PBKDF2HMAC">>, <<"PBKDF2">>, "kdf",
                    "key_derivation", {"keyderive"}, "pyca.pbkdf2")) >>

AeadRules ==
  LET Ae(match, algorithm, functions, detector) ==
        Rule(match, <<algorithm>>, "ae", "encryption", functions, detector)
      Both == {"encrypt", "decrypt"}
      Aead(name) == <<"PYCA_CIPHERS", "aead", name>>
      Fernet(call, functions, detector) ==
        [mode |-> "cbc", keySize |-> 128, level |-> 128] ++
        Ae(<<"cryptography", "fernet">> \o call, "Fernet", functions, detector)
  IN << Fernet(<<"Fernet">>, Both, "pyca.fernet"),
        Fernet(<<"Fernet", "generate_key">>, {"keygen"}, "pyca.fernet.keygen"),
        Fernet(<<"MultiFernet">>, Both, "pyca.fernet.multi"),
        [mode |-> "gcm"] ++ Ae(Aead("AESGCM"), "AES-GCM", Both, "pyca.aead.aesgcm"),
        [mode |-> "gcm", keySizeKwarg |-> "bit_length", keySizeArg |-> 0] ++
          Ae(Aead("AESGCM") \o <<"generate_key">>, "AES-GCM", {"keygen"},
             "pyca.aead.aesgcm.keygen"),
        [mode |-> "ccm"] ++ Ae(Aead("AESCCM"), "AES-CCM", Both, "pyca.aead.aesccm"),
        Ae(Aead("AESSIV"), "AES-SIV", Both, "pyca.aead.aessiv"),
        [level |-> 256] ++ Ae(Aead("ChaCha20Poly1305"), "ChaCha20-Poly1305", Both,
                              "pyca.aead.chacha20poly1305"),
        [level |-> 256] ++ Ae(Aead("ChaCha20Poly1305") \o <<"generate_key">>,
                              "ChaCha20-Poly1305", {"keygen"},
                              "pyca.aead.chacha20poly1305.keygen") >>

CertificateRules ==
  LET Load(form, detector) ==
        [assetType |-> "certificate", confidence |-> OpaqueArtifactConfidence,
         extra |-> [artifact |-> "x509_certificate"]] ++
        Rule(<<"cryptography", "x509", form>>, <<"X.509">>, "unknown", "unknown", {}, detector)
  IN << Load("load_pem_x509_certificate", "pyca.x509.load_pem"),
        Load("load_der_x509_certificate", "pyca.x509.load_der") >>

RsaRules ==
  LET Padding(name, primitive, purpose, functions, padding, detector) ==
        [padding |-> padding] ++
        Rule(<<"PYCA_ASYM", "padding", name>>, <<"RSA">>, primitive, purpose, functions, detector)
  IN << [keySizeKwarg |-> "key_size", keySizeArg |-> 1, resolvePurpose |-> TRUE] ++
          Rule(<<"PYCA_ASYM", "rsa", "generate_private_key">>, <<"RSA">>, "pke", "unknown",
               {"keygen"}, "pyca.rsa.keygen"),
        Consuming(Rule(<<"PYCA_ASYM", "rsa", "generate_private_key", "sign">>, <<"RSA">>,
                       "signature", "digital_signature", {"sign"}, "pyca.rsa.sign")),
        Consuming([emits |-> FALSE] ++
          Rule(<<"PYCA_ASYM", "padding", "MGF1">>, <<"MGF1">>, "other", "unknown", {},
               "pyca.rsa.mgf1")),
        Consuming(Padding("PSS", "signature", "digital_signature", {"sign"}, "other",
                          "pyca.rsa.pss")),
        Consuming(Padding("OAEP", "pke", "key_establishment", {"encrypt"}, "oaep",
                          "pyca.rsa.oaep")),
        [resolvePurpose |-> TRUE] ++
          Padding("PKCS1v15", "pke", "unknown", {}, "pkcs1v15", "pyca.rsa.pkcs1v15"),
        [padding |-> "pkcs7"] ++
          Rule(<<"PYCA", "padding", "PKCS7">>, <<"PKCS7">>, "other", "encryption",
               {}, "pyca.padding.pkcs7") >>

CurveRules ==
  LET Named(class, algorithm, primitive, purpose, functions, level, detector) ==
        [parameterSet |-> algorithm, level |-> level] ++
        Rule(<<"PYCA_ASYM">> \o class \o <<"generate">>, <<algorithm>>, primitive, purpose,
             functions, detector)
      Signs(class, algorithm, level, detector) ==
        Named(class, algorithm, "signature", "digital_signature", {"keygen", "sign"}, level,
              detector)
  IN << Consuming([curveArg |-> 0, resolvePurpose |-> TRUE] ++
          Rule(<<"PYCA_ASYM", "ec", "generate_private_key">>, <<"EC">>, "unknown", "unknown",
               {"keygen"}, "pyca.ec.keygen")),
        Consuming([digestArg |-> 0, digestKwarg |-> "algorithm"] ++
          Rule(<<"PYCA_ASYM", "ec", "ECDSA">>, <<"ECDSA">>, "signature", "digital_signature",
               {"sign"}, "pyca.ecdsa")),
        Rule(<<"PYCA_ASYM", "ec", "ECDH">>, <<"ECDH">>, "key-agree", "key_establishment",
             {"encapsulate"}, "pyca.ecdh"),
        Signs(<<"ed25519", "Ed25519PrivateKey">>, "Ed25519", 128, "pyca.ed25519"),
        Signs(<<"ed448", "Ed448PrivateKey">>, "Ed448", 224, "pyca.ed448"),
        Named(<<"x25519", "X25519PrivateKey">>, "X25519", "key-agree", "key_establishment",
              {"keygen"}, 128, "pyca.x25519"),
        [keySizeKwarg |-> "key_size"] ++
          Rule(<<"PYCA_ASYM", "dh", "generate_parameters">>, <<"DH">>, "key-agree",
               "key_establishment", {"keygen"}, "pyca.dh"),
        [keySizeKwarg |-> "key_size", keySizeArg |-> 0] ++
          Rule(<<"PYCA_ASYM", "dsa", "generate_private_key">>, <<"DSA">>, "signature",
               "digital_signature", {"keygen"}, "pyca.dsa") >>

RandomRules ==
  LET Source(name, algorithm, detector) ==
        Rule(name, <<algorithm>>, "drbg", "random", {"generate"}, detector)
  IN << Source(<<"secrets", "token_bytes">>, "CSPRNG", "secrets.token_bytes"),
        Source(<<"secrets", "token_hex">>, "CSPRNG", "secrets.token_hex"),
        Source(<<"secrets", "token_urlsafe">>, "CSPRNG", "secrets.token_urlsafe"),
        Source(<<"os", "urandom">>, "CSPRNG", "os.urandom"),
        Source(<<"random", "random">>, "Mersenne Twister", "random.insecure"),
        Source(<<"random", "randint">>, "Mersenne Twister", "random.insecure") >>

TlsRules ==
  LET Tls(match, algorithm, detector) ==
        [assetType |-> "protocol"] ++
        Rule(match, <<algorithm>>, "other", "key_establishment", {}, detector)
  IN << Tls(<<"ssl", "create_default_context">>, "TLS", "ssl.default_context"),
        Tls(<<"ssl", "SSLContext">>, "TLS", "ssl.context"),
        Tls(<<"ssl", "_create_unverified_context">>, "TLS-unverified", "ssl.unverified_context"),
        [valueName |-> <<"ssl", "CERT_NONE">>] ++
          Tls(<<"<assign>", "verify_mode">>, "TLS-unverified", "ssl.verification_disabled"),
        [valueEquals |-> <<"bool", FALSE>>] ++
          Tls(<<"<assign>", "check_hostname">>, "TLS-unverified-hostname",
              "ssl.hostname_check_disabled") >>

RuleTable ==
  HashRules \o CipherRules \o JwtRules(<<"jwt">>) \o JwtRules(<<"jose", "jwt">>)
  \o DigestRules \o AeadRules \o CertificateRules
  \o << Consuming([digestArg |-> 0, digestKwarg |-> "algorithm"] ++
          Rule(<<"PYCA", "kdf", "hkdf", "HKDF">>, <<"HKDF">>, "kdf", "key_derivation",
               {"keyderive"}, "pyca.hkdf")) >>
  \o RsaRules \o CurveRules
  \o << [assetType |-> "related-crypto-material", confidence |-> OpaqueArtifactConfidence,
         extra |-> [artifact |-> "private-key"]] ++
          Rule(<<"PYCA", "serialization", "load_pem_private_key">>, <<"unknown">>, "unknown",
               "unknown", {"other"}, "pyca.load_private_key") >>
  \o RandomRules
  \o << [valueName |-> <<"hashlib">>, confidence |-> 30] ++
          Rule(<<"getattr">>, <<"unknown">>, "unknown", "unknown", {},
               "dynamic.getattr.hashlib") >>
  \o TlsRules
=============================================================================
