--------------------------- MODULE MCRiskOverTime ---------------------------
(***************************************************************************)
(* Findings that reach every branch of the risk engine: broken and sound   *)
(* algorithms, alone and composed, on both sides of every threshold.       *)
(***************************************************************************)
EXTENDS RiskOverTime

Base == [file |-> 1, line |-> 0, algorithm |-> <<"AES">>, purpose |-> "encryption",
         detector |-> "d", assetType |-> "algorithm", primitive |-> "block-cipher",
         mode |-> "gcm", padding |-> "unknown", curve |-> None, keySize |-> None,
         status |-> "classical", level |-> 128, extra |-> <<>>]

Hashes == {[Base EXCEPT !.algorithm = a, !.primitive = p[1], !.purpose = p[2]] :
             a \in {<<"MD4">>, <<"MD5">>, <<"RIPEMD-160">>, <<"SHA-256">>,
                    <<"RSA", "MD5">>, <<"HMAC", "MD5">>},
             p \in {<<"hash", "hashing">>, <<"mac", "mac">>}}

Ciphers == {[Base EXCEPT !.mode = m, !.level = l, !.status = s] :
              m \in {"ecb", "gcm"}, l \in {0, 127, 128, None},
              s \in {"classical", "pqc", "unknown"}}

Keys == {[Base EXCEPT !.algorithm = <<"RSA">>, !.purpose = p, !.primitive = "pke",
                      !.padding = d, !.keySize = k,
                      !.level = IF k \in DOMAIN Strength THEN Strength[k] ELSE None] :
           p \in {"encryption", "digital_signature", "unknown"},
           d \in {"pkcs1v15", "oaep"}, k \in {1023, 1024, 2047, 2048, 3072, None}}

Curves == {[Base EXCEPT !.algorithm = <<"ECDSA">>, !.purpose = "digital_signature",
                        !.primitive = "signature", !.curve = "P", !.level = l] :
             l \in {127, 128, None}}

Certificates == {[Base EXCEPT !.algorithm = a, !.assetType = "certificate",
                              !.primitive = "signature", !.purpose = p, !.status = s,
                              !.level = 128, !.extra = [not_after |-> t]] :
                   a \in {<<"RSA">>, <<"ECDSA", "SHA-1">>},
                   p \in {"digital_signature", "key_establishment", "unknown"},
                   s \in {"classical", "pqc", "unknown"}, t \in 0..Horizon}

Disabled == {[Base EXCEPT !.detector = "ssl.unverified_context", !.level = 0]}

MCFinding == Hashes \cup Ciphers \cup Keys \cup Curves \cup Certificates \cup Disabled
=============================================================================
