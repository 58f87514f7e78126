------------------------------ MODULE Normalize ------------------------------
(***************************************************************************)
(* Canonical algorithm names.  The code folds case and drops separators    *)
(* before it looks a name up; the table lists the spellings that occur in  *)
(* the programs the models read, by what they fold to.  An algorithm is    *)
(* the tuple of its parts (see Model).                                     *)
(***************************************************************************)
EXTENDS Sequences, TLC

\* spelling -> canonical name, for the spellings that are not canonical already.
Spelling ==
  [md5 |-> "MD5", sha1 |-> "SHA-1", SHA1 |-> "SHA-1", sha |-> "SHA-1",
   sha224 |-> "SHA-224", SHA224 |-> "SHA-224", sha256 |-> "SHA-256", SHA256 |-> "SHA-256",
   sha384 |-> "SHA-384", SHA384 |-> "SHA-384", sha512 |-> "SHA-512", SHA512 |-> "SHA-512",
   SHA3_256 |-> "SHA3-256", SHA3_512 |-> "SHA3-512", TripleDES |-> "3DES",
   des3 |-> "3DES", ARC4 |-> "RC4", rsa |-> "RSA", hmac |-> "HMAC"]

CanonicalName ==
  {Spelling[s] : s \in DOMAIN Spelling} \cup
  {"MD2", "MD4", "SHA-512/224", "SHA-512/256", "SHA3-224", "SHA3-384", "SHAKE128",
   "SHAKE256", "BLAKE2b", "BLAKE2s", "RIPEMD-160", "AES", "AES-128", "AES-192",
   "AES-256", "DES", "Blowfish", "Camellia", "CAST5", "IDEA", "SEED", "RC2",
   "ChaCha20", "DSA", "DH", "ECDH", "ECDSA", "EdDSA", "Ed25519", "Ed448", "X25519",
   "X448", "PBKDF2", "HKDF", "scrypt", "Argon2", "ML-KEM", "ML-DSA", "SLH-DSA"}

Known(part) == part \in DOMAIN Spelling \cup CanonicalName

Respelled(part) == IF part \in DOMAIN Spelling THEN Spelling[part] ELSE part

\* A name of two parts is looked up as a pair, and kept as it is written unless
\* both parts are known.
NormalizeAlgorithm(name) ==
  IF name = <<>> THEN <<"unknown">>
  ELSE IF Len(name) = 2 /\ (~Known(name[1]) \/ ~Known(name[2])) THEN name
  ELSE [i \in DOMAIN name |-> Respelled(name[i])]

\* The parts are normalised one by one, then joined.
NormalizeComposite(head, digest) == NormalizeAlgorithm(head) \o NormalizeAlgorithm(<<digest>>)
=============================================================================
