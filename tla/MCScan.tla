------------------------------- MODULE MCScan -------------------------------
(***************************************************************************)
(* Projects of at most two source files and two artifacts, read by the     *)
(* real detector rules.  In some the findings have ids of their own, in    *)
(* others they share one: two keys on a line, a bundle of certificates     *)
(* (every finding of an artifact is at line 0).                            *)
(***************************************************************************)
EXTENDS Scan, Programs

RsaKey(bits) == <<Call(RsaKeygen, <<Literal("int", 65537), Literal("int", bits)>>)>>

MCAnalyzed(file) ==
  CASE file = 1 -> At(RsaKey(2048), 1, 1) \o At(HashNew, 1, 2)
    [] file = 2 -> At(NewEc, 2, 1) \o At(EcExchange, 2, 2)
    [] file = 3 -> At(RsaKey(512), 3, 1) \o At(RsaKey(4096), 3, 1)
    [] OTHER    -> <<>>

\* What the detector makes of all that can be collected, tabulated once.
FindingsIn ==
  [usages \in {MCAnalyzed(file) : file \in 1..4} \cup {MCAnalyzed(1) \o MCAnalyzed(2)} |->
     Detect(usages)]

MCDetected(usages) == FindingsIn[usages]

Certificate(file, subject, notAfter) ==
  [file |-> file, line |-> 0, algorithm |-> <<"RSA">>, purpose |-> "digital_signature",
   detector |-> "certs.certificate", assetType |-> "certificate", primitive |-> "signature",
   mode |-> "unknown", padding |-> "unknown", functions |-> {}, parameterSet |-> None,
   curve |-> None, keySize |-> 4096, oid |-> "1.2.840.113549.1.1.1", status |-> "classical",
   level |-> 152, confidence |-> 100, extra |-> [subject |-> subject, not_after |-> notAfter]]

\* Two certificates that do not say what their key is for: one on a curve that is
\* known, one on a curve that no table has and only the fallback reads.
OnCurve(subject, curve, level) ==
  [Certificate(8, subject, 5) EXCEPT
     !.algorithm = <<"EC">>, !.purpose = "unknown", !.primitive = "unknown",
     !.curve = curve, !.parameterSet = curve, !.level = level,
     !.keySize = IF curve = None THEN None ELSE 256,
     !.oid = IF curve = None THEN "1.2.840.10045.2.1" ELSE None,
     !.confidence = IF curve = None THEN 80 ELSE 100]

\* A bundle of an expired and a valid certificate, one certificate alone, and the
\* bundle of the two curves.  The findings of their signatures are left out.
MCParsed(file) ==
  CASE file = 6 -> <<Certificate(6, "a", -1), Certificate(6, "b", 5)>>
    [] file = 7 -> <<Certificate(7, "a", 5)>>
    [] file = 8 -> <<OnCurve("a", "SECP256R1", 128), OnCurve("b", None, None)>>
    [] OTHER    -> <<>>

MCProject ==
  [sources : {<<>>, <<1>>, <<3>>, <<1, 2>>}, artifacts : {<<>>, <<7>>, <<6, 7>>, <<8>>}]

MCOptions ==
  [root : {"directory", "file", "missing"}, artifacts : BOOLEAN,
   failOn : {"critical", "high", "medium", "info", "never"}, output : {"stdout", "file"}]

MCMoment == {0, 5}
=============================================================================
