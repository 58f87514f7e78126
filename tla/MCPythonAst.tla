----------------------------- MODULE MCPythonAst -----------------------------
(***************************************************************************)
(* Small files over one module, hashlib, one local name and one attribute  *)
(* of self, with functions, classes and guarded imports nested in each     *)
(* other; and the files whose usages the model of the detector is run on.  *)
(***************************************************************************)
EXTENDS PythonAst, Programs

NameOf(parts) == [kind |-> "name", parts |-> parts, body |-> <<>>]
Value(type, v) == [kind |-> "literal", value |-> <<type, v>>, body |-> <<>>]
Unknown == NameOf(<<"unknown">>)

IsCall(node) == node.kind = "call"

\* parts(args), and receiver.method(args) for a receiver that is a call.
CallOf(parts, args) ==
  [kind |-> "call", func |-> [parts |-> parts, via |-> <<>>], args |-> args, kwargs |-> <<>>,
   body |-> args]

Method(receiver, name, args) ==
  [kind |-> "call", func |-> [receiver.func EXCEPT !.via = Append(@, name)],
   args |-> args, kwargs |-> <<>>, body |-> <<receiver>> \o args]

Import(name, as) == [kind |-> "import", name |-> name, as |-> as]
From(level, module, name, as) ==
  [kind |-> "from", level |-> level, module |-> module, name |-> name, as |-> as]
Assign(kind, name, value) ==
  [kind |-> "assign", targets |-> <<[kind |-> kind, name |-> name]>>, value |-> value]
Function(body) == [kind |-> "function", body |-> body]
Class(name, body) == [kind |-> "class", name |-> name, body |-> body]
Try(body, catches, handlers) ==
  [kind |-> "try", body |-> body, catches |-> catches, handlers |-> handlers]

-----------------------------------------------------------------------------
(***************************************************************************)
(* Small files                                                             *)
(***************************************************************************)
Hashlib == Import(<<"hashlib">>, None)
Md5 == <<"hashlib", "md5">>

Simple ==
  { Hashlib,
    Import(<<"hashlib">>, "x"),
    From(0, <<"hashlib">>, "md5", "x"),
    From(0, <<"hashlib">>, "*", None),
    From(1, <<>>, "md5", None),
    From(3, <<"up">>, "md5", "x"),
    Assign("name", "x", NameOf(Md5)),
    Assign("name", "x", Unknown),
    Assign("name", "x", CallOf(<<"x">>, <<CallOf(<<"md5">>, <<>>)>>)),
    Assign("self", "x", NameOf(<<"x">>)),
    Assign("attribute", "verify_mode", CallOf(Md5, <<>>)),
    CallOf(<<"x">>, <<>>),
    CallOf(<<"md5">>, <<>>),
    CallOf(<<"self", "x">>, <<NameOf(<<"self", "x">>)>>),
    Method(CallOf(Md5, <<CallOf(<<"x">>, <<>>)>>), "update", <<CallOf(<<"open">>, <<>>)>>),
    Method(CallOf(<<"unknown">>, <<>>), "update", <<>>) }

Guarded(node) ==
  { Try(<<node>>, "import_error", <<From(0, <<"backport">>, "md5", "x")>>),
    Try(<<Function(<<node>>)>>, "import_error", <<Hashlib>>),
    Try(<<Hashlib, Try(<<node>>, "other", <<>>)>>, "everything", <<node>>) }

Compound ==
  {Function(<<s, t>>) : s, t \in Simple}
    \cup {Class(c, <<Function(<<s>>), Function(<<CallOf(<<"self", "x">>, <<>>)>>)>>) :
            c \in {"A", "B"}, s \in Simple}
    \cup {Class("A", <<Class("B", <<s>>), s, Function(<<Assign("self", "x", NameOf(Md5)), s>>)>>) :
            s \in Simple}
    \cup UNION {Guarded(s) : s \in Simple}

Small ==
  {<<Hashlib, c, s>> : c \in Compound, s \in Simple}
    \cup {<<g, Assign("name", "x", NameOf(Md5)), s>> : g \in UNION {Guarded(t) : t \in Simple},
                                                     s \in Simple}
    \cup {<<f, Class("A", <<Function(<<Assign("self", "x", NameOf(Md5))>>)>>), c>> :
            f \in Simple, c \in {d \in Compound : d.kind = "class"}}

-----------------------------------------------------------------------------
(***************************************************************************)
(* The statements of the module Programs, as trees                         *)
(***************************************************************************)
Hash(name) == CallOf(<<"hashes", name>>, <<>>)
Pkcs == CallOf(<<"padding", "PKCS1v15">>, <<>>)
KeyFrom(module, args) == Assign("name", "key", CallOf(<<module, "generate_private_key">>, args))
Rsa == KeyFrom("rsa", <<Value("int", 65537), Value("int", 2048)>>)
Ec == KeyFrom("ec", <<CallOf(<<"ec", "SECP224R1">>, <<>>)>>)
WithKw(call, kwargs) ==
  [call EXCEPT !.kwargs = kwargs, !.body = @ \o SetToSeq({kwargs[k] : k \in DOMAIN kwargs})]
KeySizeOnly == Assign("name", "key", WithKw(CallOf(<<"rsa", "generate_private_key">>, <<>>),
                                            [key_size |-> NameOf(<<"bits">>)]))

Header ==
  << From(0, <<"PYCA">>, "hashes", None), From(0, <<"PYCA_ASYM">>, "padding", None),
     From(0, <<"PYCA_ASYM">>, "ec", None), Hashlib, Import(<<"hmac">>, None),
     Import(<<"jwt">>, None), From(0, <<"PYCA", "kdf", "pbkdf2">>, "PBKDF2HMAC", None),
     From(0, <<"PYCA_CIPHERS">>, "Cipher", None), From(0, <<"PYCA_CIPHERS">>, "algorithms", None),
     From(0, <<"PYCA_CIPHERS">>, "modes", None) >>

DirectRsa == <<From(0, <<"PYCA_ASYM">>, "rsa", None)>>
GuardedRsa == <<Try(DirectRsa, "import_error", <<>>)>>

M == NameOf(<<"m">>)

\* The source of a statement and the usages it becomes.
Detections ==
  { <<GuardedRsa \o <<KeySizeOnly>>, NewRsaKw>>,
    <<DirectRsa \o <<Rsa, CallOf(<<"key", "sign">>, <<M, Pkcs, Hash("SHA1")>>)>>,
      NewRsa \o RsaSign>>,
    <<DirectRsa \o <<Rsa, Method(CallOf(<<"key", "public_key">>, <<>>), "encrypt", <<M, Pkcs>>)>>,
      NewRsa \o RsaEncrypt>>,
    <<DirectRsa \o <<Rsa, Assign("name", "p", Pkcs), CallOf(<<"key", "decrypt">>, <<M, M>>)>>,
      NewRsa \o BarePadding \o RsaDecrypt>>,
    <<<<CallOf(<<"padding", "OAEP">>, <<CallOf(<<"padding", "MGF1">>, <<Hash("SHA1")>>),
                                        Hash("SHA1")>>)>>, Oaep>>,
    <<<<Ec, CallOf(<<"key", "sign">>, <<M, CallOf(<<"ec", "ECDSA">>, <<Hash("SHA1")>>)>>),
        CallOf(<<"key", "exchange">>, <<CallOf(<<"ec", "ECDH">>, <<>>), M>>)>>,
      NewEc \o EcSign \o EcExchange>>,
    <<<<CallOf(<<"hmac", "new">>, <<M, M, CallOf(<<"hashlib", "sha1">>, <<>>)>>)>>, HmacNew>>,
    <<<<CallOf(<<"Cipher">>, <<CallOf(<<"algorithms", "AES">>, <<M>>),
                               CallOf(<<"modes", "ECB">>, <<>>)>>)>>, EcbCipher>>,
    <<<<CallOf(<<"hashlib", "new">>, <<Value("str", "sha256")>>)>>, HashNew>>,
    <<<<CallOf(<<"PBKDF2HMAC">>, <<Hash("SHA1")>>)>>, Pbkdf2>>,
    <<<<WithKw(CallOf(<<"jwt", "decode">>, <<M, M>>),
               [algorithms |-> Value("list", <<"HS256", "none">>),
                options |-> Value("dict", [verify_signature |-> <<"bool", FALSE>>])])>>,
      JwtDecode>>,
    <<<<CallOf(None, <<>>)>>, Dynamic>>,
    <<<<Assign("attribute", "check_hostname", Value("bool", FALSE))>>, NoHostname>> }

MCModule == Small \cup {Header \o d[1] : d \in Detections}
\* The nodes of those files, which are nested four deep below the statements.
Below(nodes) == UNION {ToSet(Children(n)) : n \in nodes}
Statement == UNION {ToSet(body) : body \in MCModule}
Inner == Statement \cup Below(Statement)
Deeper == Inner \cup Below(Inner)
Deepest == Deeper \cup Below(Deeper)
MCNodes == Deepest \cup Below(Deepest)

MCPackage == <<"pkg">>
MCCryptoName == {"md5", "sha1"}

\* hashlib.md5 comes before pkg.md5, and whatever is shorter before what goes on.
Names == << <<"backport", "md5">>, <<"hashlib">>, Md5, <<"hashlib", "md5", "md5">>, <<"pkg", "md5">> >>
MCGreatest(names) ==
  IF \E n \in names : names = {n} THEN CHOOSE n \in names : TRUE
  ELSE Names[CHOOSE i \in DOMAIN Names : Names[i] \in names
               /\ \A j \in i + 1..Len(Names) : Names[j] \notin names]

-----------------------------------------------------------------------------
\* The usages the detector is checked on are those the analyzer makes of their
\* sources (python_ast.py, analyze_source; engine.py, detect).
FeedsDetector ==
  Len(frames) = 1 /\ Top.rest = <<>> =>
    \A d \in Detections : Top.node.body = Header \o d[1] =>
      [i \in DOMAIN usages |->
         [name |-> usages[i].name, args |-> usages[i].args, kwargs |-> usages[i].kwargs,
          confidence |-> usages[i].confidence, parent |-> usages[i].parent]] = d[2]
=============================================================================
