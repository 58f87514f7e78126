------------------------------ MODULE Programs ------------------------------
(***************************************************************************)
(* Statements of analysed programs, each the usages its calls become: a    *)
(* call first, the calls nested in it after it.  A line holds one.         *)
(***************************************************************************)
EXTENDS Detection

Named(name) == [name |-> name, value |-> None]
Literal(type, v) == [name |-> None, value |-> <<type, v>>]

Call(name, args) ==
  [name |-> name, args |-> args, kwargs |-> <<>>, confidence |-> 100, parent |-> None]

\* The calls nested in a call.
Inside(parent, calls) == [i \in DOMAIN calls |-> [calls[i] EXCEPT !.parent = parent]]

Hashes(name) == <<"PYCA", "hashes", name>>
Padding(name) == <<"PYCA_ASYM", "padding", name>>
RsaKeygen == <<"PYCA_ASYM", "rsa", "generate_private_key">>
EcKeygen == <<"PYCA_ASYM", "ec", "generate_private_key">>
Sha1 == Call(Hashes("SHA1"), <<>>)
Pkcs1v15 == Call(Padding("PKCS1v15"), <<>>)

\* key = rsa.generate_private_key(65537, 2048); the same with key_size=bits, where
\* rsa is imported conditionally (confidence 60)
NewRsa == <<Call(RsaKeygen, <<Literal("int", 65537), Literal("int", 2048)>>)>>
NewRsaKw == <<[Call(RsaKeygen, <<>>) EXCEPT !.kwargs = [key_size |-> Named(None)],
                                            !.confidence = 60]>>

\* key.sign(m, padding.PKCS1v15(), hashes.SHA1())
RsaSign ==
  LET sign == RsaKeygen \o <<"sign">> IN
  <<Call(sign, <<Named(None), Named(Padding("PKCS1v15")), Named(Hashes("SHA1"))>>)>>
    \o Inside(sign, <<Pkcs1v15, Sha1>>)

\* key.public_key().encrypt(m, padding.PKCS1v15())
RsaEncrypt ==
  LET encrypt == RsaKeygen \o <<"public_key", "encrypt">> IN
  <<Call(encrypt, <<Named(None), Named(Padding("PKCS1v15"))>>)>>
    \o Inside(encrypt, <<Call(RsaKeygen \o <<"public_key">>, <<>>), Pkcs1v15>>)

\* key.decrypt(m, p) with a padding built elsewhere, and that padding
RsaDecrypt == <<Call(RsaKeygen \o <<"decrypt">>, <<Named(None), Named(None)>>)>>
BarePadding == <<Pkcs1v15>>

\* padding.OAEP(padding.MGF1(hashes.SHA1()), hashes.SHA1())
Oaep ==
  <<Call(Padding("OAEP"), <<Named(Padding("MGF1")), Named(Hashes("SHA1"))>>)>>
    \o Inside(Padding("OAEP"), <<Call(Padding("MGF1"), <<Named(Hashes("SHA1"))>>)>>)
    \o Inside(Padding("MGF1"), <<Sha1>>) \o Inside(Padding("OAEP"), <<Sha1>>)

\* key = ec.generate_private_key(ec.SECP224R1())
NewEc ==
  LET curve == <<"PYCA_ASYM", "ec", "SECP224R1">> IN
  <<Call(EcKeygen, <<Named(curve)>>)>> \o Inside(EcKeygen, <<Call(curve, <<>>)>>)

\* key.sign(m, ec.ECDSA(hashes.SHA1())) and key.exchange(ec.ECDH(), peer)
EcSign ==
  LET ecdsa == <<"PYCA_ASYM", "ec", "ECDSA">> IN
  <<Call(EcKeygen \o <<"sign">>, <<Named(None), Named(ecdsa)>>)>>
    \o Inside(EcKeygen \o <<"sign">>, <<Call(ecdsa, <<Named(Hashes("SHA1"))>>)>>)
    \o Inside(ecdsa, <<Sha1>>)

EcExchange ==
  LET ecdh == <<"PYCA_ASYM", "ec", "ECDH">> IN
  <<Call(EcKeygen \o <<"exchange">>, <<Named(ecdh), Named(None)>>)>>
    \o Inside(EcKeygen \o <<"exchange">>, <<Call(ecdh, <<>>)>>)

\* hmac.new(k, m, hashlib.sha1()), Cipher(AES(k), ECB()), hashlib.new("sha256"),
\* PBKDF2HMAC(hashes.SHA1())
HmacNew ==
  <<Call(<<"hmac", "new">>, <<Named(None), Named(None), Named(<<"hashlib", "sha1">>)>>)>>
    \o Inside(<<"hmac", "new">>, <<Call(<<"hashlib", "sha1">>, <<>>)>>)

EcbCipher ==
  LET cipher == <<"PYCA_CIPHERS", "Cipher">>
      aes    == <<"PYCA_CIPHERS", "algorithms", "AES">>
      ecb    == <<"PYCA_CIPHERS", "modes", "ECB">>
  IN <<Call(cipher, <<Named(aes), Named(ecb)>>)>>
       \o Inside(cipher, <<Call(aes, <<Named(None)>>), Call(ecb, <<>>)>>)

HashNew == <<Call(<<"hashlib", "new">>, <<Literal("str", "sha256")>>)>>

Pbkdf2 ==
  LET pbkdf2 == <<"PYCA", "kdf", "pbkdf2", "PBKDF2HMAC">> IN
  <<Call(pbkdf2, <<Named(Hashes("SHA1"))>>)>> \o Inside(pbkdf2, <<Sha1>>)

\* jwt.decode(t, k, algorithms=["HS256", "none"], options={"verify_signature": False})
JwtDecode ==
  <<[Call(<<"jwt", "decode">>, <<Named(None), Named(None)>>) EXCEPT !.kwargs =
       [algorithms |-> Literal("list", <<"HS256", "none">>),
        options |-> Literal("dict", [verify_signature |-> <<"bool", FALSE>>])]]>>

\* A call that could not be resolved, and an attribute set to False.
Dynamic == <<[Call(None, <<>>) EXCEPT !.confidence = 20]>>
NoHostname == <<Call(<<"<assign>", "check_hostname">>, <<Literal("bool", FALSE)>>)>>

\* The calls of a statement at a line of a file.
At(statement, file, line) ==
  [i \in DOMAIN statement |-> [file |-> file, line |-> line] @@ statement[i]]
=============================================================================
