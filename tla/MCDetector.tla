----------------------------- MODULE MCDetector -----------------------------
(***************************************************************************)
(* Programs of a few statements, in one file or in two.                    *)
(***************************************************************************)
EXTENDS Detector, Programs

CONSTANT MaxStatements   \* bounds the length of a program

Statement ==
  {NewRsa, NewRsaKw, RsaSign, RsaEncrypt, RsaDecrypt, BarePadding, Oaep, NewEc, EcSign,
   EcExchange, HmacNew, EcbCipher, HashNew, Pbkdf2, JwtDecode, Dynamic, NoHostname}

\* The first k statements are those of file 1, the others those of file 2.
Assembled(statements, k) ==
  FlattenSeq([l \in DOMAIN statements |-> At(statements[l], IF l <= k THEN 1 ELSE 2, l)])

MCProgram ==
  UNION {{Assembled(s, k) : s \in [1..n -> Statement], k \in 0..n} : n \in 1..MaxStatements}
=============================================================================
