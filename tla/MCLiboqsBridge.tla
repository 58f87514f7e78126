--------------------------- MODULE MCLiboqsBridge ---------------------------
(***************************************************************************)
(* A catalogue of a KEM, a signature and a mechanism that liboqs has no    *)
(* name for; libraries that have all, some or none of it, that claim       *)
(* another category, or that cannot list what they have.                   *)
(***************************************************************************)
EXTENDS LiboqsBridge, FiniteSets

MCCatalog ==
  [kem |-> [liboqsName |-> "ML-KEM-768", kind |-> "kem", category |-> 3],
   sig |-> [liboqsName |-> "Falcon-512", kind |-> "signature", category |-> 1],
   new |-> [liboqsName |-> None, kind |-> "signature", category |-> 1]]

With(kems, sigs) ==
  [kems |-> DOMAIN kems, sigs |-> DOMAIN sigs, handles |-> [kem |-> kems, signature |-> sigs]]

AllKems == [n \in {"ML-KEM-768"} |-> 3]
AllSigs == [n \in {"Falcon-512"} |-> 1]

MCLibrary ==
  [full      |-> With(AllKems, AllSigs),
   kemsOnly  |-> With(AllKems, <<>>),
   elsewhere |-> With(<<>>, [AllSigs EXCEPT !["Falcon-512"] = 2]),
   mute      |-> [With(AllKems, AllSigs) EXCEPT !.sigs = None]]
=============================================================================
