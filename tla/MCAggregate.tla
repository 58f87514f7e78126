----------------------------- MODULE MCAggregate -----------------------------
(***************************************************************************)
(* Findings that collide on every part of the key and differ on everything *)
(* that is not: two places, two files, two ways to spell an algorithm,     *)
(* known and unknown facts (test_cbom_aggregate.py merges an unknown       *)
(* status), certificates with the same subject and with different ones.    *)
(***************************************************************************)
EXTENDS Aggregate, Normalize

Hash == [file |-> 1, line |-> 1, algorithm |-> <<"SHA-256">>, purpose |-> "hashing",
         detector |-> "hashlib", assetType |-> "algorithm", primitive |-> "hash",
         mode |-> "unknown", padding |-> "unknown", parameterSet |-> None, curve |-> None,
         keySize |-> None, oid |-> None, status |-> "classical", level |-> 128,
         confidence |-> 10, functions |-> {"digest"}, extra |-> <<>>]

Certificate == [Hash EXCEPT !.algorithm = <<"RSA">>, !.assetType = "certificate", !.line = 0,
                            !.primitive = "pke", !.purpose = "unknown", !.level = None,
                            !.detector = "certs"]

MCFinding ==
  { Hash,
    [Hash EXCEPT !.file = 2],
    [Hash EXCEPT !.line = 2, !.algorithm = <<"sha256">>, !.functions = {"tag"}],
    [Hash EXCEPT !.file = 2, !.detector = "hashlib.new", !.level = None],
    [Hash EXCEPT !.line = 2, !.status = "unknown", !.level = None],
    [Certificate EXCEPT !.extra = [subject |-> "a", not_after |-> 5]],
    [Certificate EXCEPT !.file = 2, !.status = "unknown", !.extra = [subject |-> "a", sans |-> "s"]],
    [Certificate EXCEPT !.extra = [subject |-> "b"]],
    [Certificate EXCEPT !.assetType = "related-crypto-material", !.parameterSet = "P",
                        !.curve = "P", !.extra = [artifact |-> "key"]],
    [Certificate EXCEPT !.assetType = "related-crypto-material", !.curve = "P",
                        !.extra = [artifact |-> "key"]] }

=============================================================================
