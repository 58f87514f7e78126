------------------------------- MODULE MCCerts -------------------------------
(***************************************************************************)
(* Files of one or two blocks: certificates that both libraries read, that *)
(* only one reads, or whose key is beyond one of them; keys with a label,  *)
(* with a wrong one and without; blocks that raise; malformed armour.      *)
(***************************************************************************)
EXTENDS Certs

Rsa(size) == [oid |-> <<"RSA">>, size |-> size, curve |-> None]
Other(oid) == [oid |-> oid, size |-> 256, curve |-> None]
Ec(curve) == [oid |-> <<"EC">>, size |-> 384, curve |-> curve]

\* Serial numbers are unique: the serial of a certificate is what is not in its name.
Used(key, usage) ==
  [form |-> "certificate", key |-> key, signature |-> <<"RSA", "SHA-256">>, subject |-> key,
   issuer |-> "ca", serial |-> <<usage>>, notAfter |-> QuantumDeprecation, ca |-> FALSE, usage |-> usage,
   hidden |-> {}, pyca |-> "all", asn1 |-> "all"]

Certificate(key) == Used(key, None)

KeyOf(form, key) == [Certificate(key) EXCEPT !.form = form, !.signature = None, !.notAfter = None]

\* The same object for a library that gets no further, and for one that does
\* (a TRUSTED CERTIFICATE has a trailer that cryptography refuses).
Both(o) == {o, [o EXCEPT !.pyca = "nothing"], [o EXCEPT !.pyca = "keyless"]}

KeyUsage == {{"digital_signature", "key_encipherment"}, {"content_commitment", "key_encipherment"},
             {"key_cert_sign", "crl_sign"}, {"key_agreement", "encipher_only"},
             {"digital_signature", "encipher_only"}, {"data_encipherment"}}

SlhKey == Other(<<"SLH-DSA", "SHA2", "s128">>)
MlKey == Other(<<"ML-DSA-65">>)
GostKey == Other(<<"GOST">>)

CertificateObject ==
  Both(Certificate(Rsa(1024)))
    \cup Both(Certificate(Ec("secp384r1"))) \cup Both(Certificate(Ec("sect283k1")))
    \cup Both(Used(Rsa(3072), {"content_commitment", "key_encipherment"}))
    \cup UNION {{Used(k, u), [Used(k, u) EXCEPT !.pyca = "nothing"]} :
                  k \in {Ec("secp192r1"), Rsa(3072)}, u \in KeyUsage}
    \cup Both(Certificate(Other(<<"RSASSA-PSS">>))) \cup Both(Certificate(Other(<<"DSA">>)))
    \cup Both(Certificate(MlKey))
    \cup {[o EXCEPT !.pyca = "keyless"] :
            o \in {Certificate(SlhKey), Certificate(GostKey), [Certificate(Rsa(3072)) EXCEPT !.asn1 = "keyless"],
                   [Certificate(MlKey) EXCEPT !.asn1 = "nothing", !.signature = <<"GOST">>]}}
    \cup {[Certificate(Rsa(2048)) EXCEPT !.hidden = {"subject", "dates", "signature"}],
          \* What asn1crypto makes of a certificate request.
          [Certificate(Rsa(2048)) EXCEPT !.pyca = "nothing", !.asn1 = "keyless",
             !.hidden = {"subject", "issuer", "serial", "dates"}]}

KeyObject ==
  {KeyOf(form, key) : form \in {"public key", "private key"},
                      key \in {Rsa(1024), Ec("secp384r1"), Other(<<"DH">>), Other(<<"X25519">>), GostKey}}

PrivateKey == KeyOf("private key", Ec("secp384r1"))

Rubbish == [Certificate(Rsa(1024)) EXCEPT !.form = "rubbish"]

\* A private key that raises.
Garbled == [PrivateKey EXCEPT !.pyca = "nothing", !.asn1 = "keyless"]

Labelling(o) == [label |-> o.form, object |-> o]
Bare(o) == [label |-> None, object |-> o]

Block ==
  {Labelling(o) : o \in CertificateObject \cup UNION {Both(o) : o \in KeyObject} \cup {Garbled}}
    \cup {[label |-> l, object |-> Rubbish] :
            l \in {"certificate", "private key", "encrypted private key", "other", "broken"}}

Pem(content) == [readable |-> TRUE, content |-> content]

BareFile == {Pem(<<Bare(o)>>) : o \in CertificateObject \cup KeyObject \cup {Rubbish, Garbled}}

\* Two files, so that any two blocks meet; blocks that fail before and after one
\* that does not.
MCArtifacts ==
  {<<Pem(<<a>>), Pem(<<b>>)>> : a \in Block, b \in Block}
    \cup {<<Pem(<<a, b, c>>)>> :
            a \in {Labelling(Garbled), Labelling(PrivateKey)},
            b \in {Labelling(Garbled), [label |-> "broken", object |-> Rubbish],
                   [label |-> "certificate", object |-> Rubbish]},
            c \in Block}
    \cup {<<a, Pem(<<Labelling(PrivateKey)>>)>> :
            a \in BareFile \cup {[readable |-> FALSE, content |-> <<Labelling(PrivateKey)>>]}}

-----------------------------------------------------------------------------
(***************************************************************************)
(* A certificate and its renewal: the same name and key, another serial.   *)
(***************************************************************************)
Renewed(o) == {o, [o EXCEPT !.serial = <<"renewed">>, !.notAfter = QuantumProhibition]}

MCRenewals ==
  {<<Pem(<<Labelling(a)>>), Pem(<<Labelling(b), Labelling(c)>>)>> :
     a \in Renewed(Certificate(Rsa(3072))) \cup Renewed([Certificate(SlhKey) EXCEPT !.pyca = "keyless"]),
     b \in Renewed(Certificate(Rsa(3072))),
     c \in Renewed([Certificate(SlhKey) EXCEPT !.pyca = "keyless"])}

Agg == INSTANCE Aggregate WITH
         Finding <- {}, MaxFindings <- 0, Canonical <- NormalizeAlgorithm,
         next <- 1, assets <- <<>>, sorted <- {}

\* Two different certificates are two assets (aggregate.py:215-216, "Two RSA-2048
\* certificates are two certificates, and merging them would discard the subject
\* of one", and :218, "subject, issuer and serial -- the X.509 definition").
CertificatesStayApart ==
  \A i, j \in DOMAIN findings :
    /\ findings[i].assetType = "certificate" /\ findings[j].assetType = "certificate"
    /\ Agg!AssetKey(findings[i]) = Agg!AssetKey(findings[j])
    => origin[i].issuer = origin[j].issuer /\ origin[i].serial = origin[j].serial
=============================================================================
