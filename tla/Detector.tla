------------------------------ MODULE Detector ------------------------------
(***************************************************************************)
(* One run of the detector engine over the usages of every source file, in *)
(* two passes: the first indexes the methods called on each receiver, the  *)
(* second turns each usage into findings with the whole index at hand.     *)
(***************************************************************************)
EXTENDS Detection

CONSTANT Program   \* the sequences of usages the analyzer may hand over

VARIABLES
  usages,      \* the usages of all files, one file after the other
  indexed,     \* how many of them are in the index
  context,     \* the index: <<file, receiver, method>>
  detected,    \* how many of them have been turned into findings
  findings,
  origin       \* of each finding, the usage it was made of (history)

\* The usages are a list, and what the analyzer makes of a file (PythonAst).
ASSUME ProgramAssumption ==
  \A p \in Program : p \in Seq(ToSet(p)) /\ \A u \in ToSet(p) : WellFormed(u)

vars == <<usages, indexed, context, detected, findings, origin>>

Init ==
  /\ usages \in Program
  /\ indexed = 0
  /\ context = {}
  /\ detected = 0
  /\ findings = <<>>
  /\ origin = <<>>

Index ==
  /\ indexed < Len(usages)
  /\ indexed' = indexed + 1
  /\ context' = context \cup MethodsCalled(usages[indexed'])
  /\ UNCHANGED <<usages, detected, findings, origin>>

\* Mutant: a usage is turned into findings as soon as it is indexed itself.
MutIndexSoFar == indexed > detected

IndexComplete == indexed = Len(usages)

DetectNext ==
  /\ IndexComplete
  /\ detected < Len(usages)
  /\ detected' = detected + 1
  /\ LET found == DetectUsage(usages[detected'], context)
     IN /\ findings' = findings \o found
        /\ origin' = origin \o [k \in DOMAIN found |-> detected']
  /\ UNCHANGED <<usages, indexed, context>>

Next == Index \/ DetectNext

Spec == Init /\ [][Next]_vars

Returned == detected = Len(usages)

-----------------------------------------------------------------------------
(***************************************************************************)
(* What the findings must satisfy                                          *)
(***************************************************************************)

\* No finding is built before the index is complete, and each says what it is
\* about: a name, a purpose, a strength that is a number where it is known.
TypeOK ==
  /\ indexed \in 0..Len(usages)
  /\ detected \in 0..indexed
  /\ detected > 0 => indexed = Len(usages)
  /\ \A i \in DOMAIN findings :
       /\ findings[i].algorithm # <<>>
       /\ findings[i].purpose \in Purpose
       /\ findings[i].level \in Nat \cup {None}
       /\ findings[i].keySize \in Int \cup {None}
       /\ findings[i].confidence \in 1..100

\* The elements of s that are of a file.
OfFile(s, file) == FlattenSeq([n \in DOMAIN s |-> IF s[n].file = file THEN <<s[n]>> ELSE <<>>])

\* What is found in a file does not depend on the other files of the scan,
\* although one index serves them all (engine.py, UsageContext, "file-scoped").
FilesIndependent ==
  Returned => \A file \in {usages[n].file : n \in DOMAIN usages} :
    OfFile(findings, file) = Detect(OfFile(usages, file))

\* A use tells what a key is for wherever it stands: reading the calls of a
\* project backwards finds the same things (engine.py, detect).
OrderIrrelevant ==
  Returned => ToBag(findings) = ToBag(Detect(Reverse(usages)))

\* The purpose a method name stands for and the primitive that goes with it, as a
\* set of none or one.
Implied(name) ==
  IF name # None /\ Last(name) \in DOMAIN PurposeByMethod
  THEN {PurposeByMethod[Last(name)]} ELSE {}

\* What the calls on the result of u, or on a key taken from it, anywhere in the
\* file of u, imply.
SaidInFile(u) ==
  UNION {Implied(usages[n].name) : n \in {m \in DOMAIN usages :
    /\ usages[m].file = u.file
    /\ usages[m].name # None
    /\ \E accessor \in {<<>>, <<"public_key">>, <<"private_key">>} :
         /\ Len(usages[m].name) = Len(u.name) + Len(accessor) + 1
         /\ Front(usages[m].name) = u.name \o accessor}}

\* No purpose is guessed.  One that the call around it settles is certain; one
\* that the rest of the file settles is the only one the file suggests, at
\* reduced confidence; otherwise the purpose stays unknown, whatever the order
\* and the number of the calls (engine.py, _purpose_from_usage, "Neither tier
\* guesses").  The primitive goes with the purpose.
NeverGuesses ==
  \A i \in DOMAIN findings :
    LET f    == findings[i]
        u    == usages[origin[i]]
        said == <<f.purpose, f.primitive>>
    IN (\E rule \in ToSet(RulesFor(u.name)) : rule.resolvePurpose /\ rule.detector = f.detector)
       => IF Implied(u.parent) # {} THEN Implied(u.parent) = {said}
          ELSE IF f.purpose # "unknown"
          THEN SaidInFile(u) = {said} /\ f.confidence <= PurposeFromUsageCap
          ELSE Cardinality(SaidInFile(u)) # 1 /\ f.confidence <= PurposeAmbiguousCap

\* The calls that construct a hash or a cipher.
Constructs(u) ==
  \E rule \in ToSet(RulesFor(u.name)) :
    /\ rule.primitive \in {"hash", "block-cipher", "stream-cipher"}
    /\ ~rule.consumesArgs

\* The findings at the place of u that name what u constructs.
Naming(u) ==
  {i \in DOMAIN findings :
     /\ findings[i].file = u.file /\ findings[i].line = u.line
     /\ RulesFor(u.name)[1].algorithm[1] \in ToSet(findings[i].algorithm)}

\* The calls that take a hash and do not read it: the rule has consumes_args and
\* no digest argument (rules.py:410-418, 548-584).
Unread ==
  {<<"PYCA", "kdf", "pbkdf2", "PBKDF2HMAC">>,
   <<"PYCA_ASYM", "rsa", "generate_private_key", "sign">>,
   <<"PYCA_ASYM", "padding", "MGF1">>, <<"PYCA_ASYM", "padding", "OAEP">>}

\* A hash or a cipher given to another call is counted once: by a finding of
\* its own or in the finding of the call that reads it, never in both
\* (test_detectors.py, "not reported twice").
CountedOnce ==
  Returned => \A n \in DOMAIN usages :
    Constructs(usages[n]) /\ usages[n].parent \notin Unread
      => Cardinality(Naming(usages[n])) = 1

\* What an enclosing call suppresses it reports itself (test_detectors.py:69,
\* "an argument consumed by its parent is not reported twice"; only MGF1 is
\* there "to stop its hash argument being counted", test_detectors.py:89).
SuppressedIsReported ==
  Returned => \A n \in DOMAIN usages :
    Constructs(usages[n]) /\ usages[n].parent # <<"PYCA_ASYM", "padding", "MGF1">>
      => Naming(usages[n]) # {}
=============================================================================
