------------------------------ MODULE Detection ------------------------------
(***************************************************************************)
(* What the detector engine makes of the calls the analyzer resolved.      *)
(***************************************************************************)
EXTENDS Rules, Normalize, Usages, FiniteSets

\* The rules by the name they match, each list in the order of the table.
ByName(table) ==
  [name \in {table[i].match : i \in DOMAIN table} |->
     FlattenSeq([i \in DOMAIN table |->
       IF table[i].match = name THEN <<table[i]>> ELSE <<>>])]

RulesByName == ByName(RuleTable)

Listed(dict, key) == IF key \in DOMAIN dict THEN dict[key] ELSE <<>>

RulesFor(name) == Listed(RulesByName, name)

(***************************************************************************)
(* The usage context: which methods are called on which receiver, in which *)
(* file.  A method called on key.public_key() counts for key as well.      *)
(***************************************************************************)

\* Mutant: the index forgets the file.
MutMethodsAnywhere(u) ==
  IF u.name = None \/ Len(u.name) < 2 THEN {}
  ELSE LET base == Front(u.name)
           bases == {base} \cup IF Len(base) > 1 /\ Last(base) \in KeyAccessors
                                THEN {Front(base)} ELSE {}
       IN {<<file, b, Last(u.name)>> : file \in 1..2, b \in bases}

MethodsCalled(u) ==
  IF u.name = None \/ Len(u.name) < 2 THEN {}
  ELSE LET base == Front(u.name)
           bases == {base} \cup IF Len(base) > 1 /\ Last(base) \in KeyAccessors
                                THEN {Front(base)} ELSE {}
       IN {<<u.file, b, Last(u.name)>> : b \in bases}

ContextOf(usages) == UNION {MethodsCalled(usages[n]) : n \in DOMAIN usages}

MethodsOn(context, file, base) == {m[3] : m \in {c \in context : c[1] = file /\ c[2] = base}}

(***************************************************************************)
(* What a key is for                                                       *)
(***************************************************************************)

Purposes(methods) == {PurposeByMethod[m] : m \in methods \cap DOMAIN PurposeByMethod}

Resolved(p, cap) == [purpose |-> p[1], primitive |-> p[2], cap |-> cap]

\* Mutant: when the calls of the file disagree, one of them is picked.
MutPickOne(rule, u, context, primitive) ==
  LET exact == IF u.parent = None THEN {} ELSE Purposes({Last(u.parent)})
      used  == Purposes(MethodsOn(context, u.file, rule.match))
  IN IF exact # {} THEN Resolved(CHOOSE p \in exact : TRUE, 100)
     ELSE IF used # {} THEN Resolved(CHOOSE p \in used : TRUE, PurposeFromUsageCap)
     ELSE Resolved(<<"unknown", primitive>>, PurposeAmbiguousCap)

\* First the call the result is passed to, then every method called on the same
\* kind of key in the file.
PurposeFromUsage(rule, u, context, primitive) ==
  LET exact == IF u.parent = None THEN {} ELSE Purposes({Last(u.parent)})
      used  == Purposes(MethodsOn(context, u.file, rule.match))
  IN IF exact # {} THEN Resolved(CHOOSE p \in exact : TRUE, 100)
     ELSE IF Cardinality(used) = 1
     THEN Resolved(CHOOSE p \in used : TRUE, PurposeFromUsageCap)
     ELSE Resolved(<<"unknown", primitive>>, PurposeAmbiguousCap)

(***************************************************************************)
(* Arguments                                                               *)
(***************************************************************************)

NoArgument == [name |-> None, value |-> None]

Argument(u, index) ==
  IF index # None /\ index < Len(u.args) THEN u.args[index + 1] ELSE NoArgument

Keyword(u, name) == IF name \in DOMAIN u.kwargs THEN u.kwargs[name] ELSE NoArgument

\* A keyword that is given hides the position.
ArgumentOf(u, name, index) ==
  IF name \in DOMAIN u.kwargs THEN u.kwargs[name] ELSE Argument(u, index)

\* str of a literal: of the types other than str, only that it names nothing.
Text(value) == IF IsA("str", value) THEN value[2] ELSE "literal"

NamedValues(u, rule) ==
  LET v == ArgumentOf(u, rule.nameKwarg, rule.nameArg).value
  IN IF IsA("str", v) THEN <<v[2]>> ELSE IF IsA("list", v) THEN v[2] ELSE <<>>

Digest(u, rule) ==
  LET a == ArgumentOf(u, rule.digestKwarg, rule.digestArg)
  IN IF a.name # None THEN Last(a.name)
     ELSE IF a.value # None THEN Text(a.value) ELSE None

\* Here a keyword that is no integer does not hide the position.
KeySize(u, rule) ==
  LET kw == Keyword(u, rule.keySizeKwarg).value
      v  == IF IsA("int", kw) THEN kw ELSE Argument(u, rule.keySizeArg).value
  IN IF IsA("int", v) THEN v[2] ELSE None

(***************************************************************************)
(* Building a finding.  Each step takes the facts so far, f, and returns   *)
(* them with what one argument adds; f starts as the rule's own.           *)
(***************************************************************************)

Facts(rule) == [curve |-> None] ++ rule

FromSpec(f, u, rule, spec) ==
  IF spec # None
  THEN [spec EXCEPT !.functions = IF @ = {} THEN rule.functions ELSE @] ++ f
  ELSE LET named == Argument(u, rule.nameArg).value IN
       IF rule.specTable = None /\ named # None
       THEN [f EXCEPT !.algorithm = NormalizeAlgorithm(<<Text(named)>>)] ELSE f

FromCipher(f, u, rule) ==
  LET class == Argument(u, rule.algorithmArg).name IN
  IF class \notin DOMAIN CipherAlgorithms THEN f
  ELSE LET c == CipherAlgorithms[class]
       IN [f EXCEPT !.algorithm = <<c[1]>>, !.primitive = c[2], !.level = c[3]]

FromMode(f, u, rule) ==
  LET class == Argument(u, rule.modeArg).name IN
  IF rule.modeArg = None THEN f
  ELSE [f EXCEPT !.mode = IF class \in DOMAIN CipherModes THEN CipherModes[class]
                          ELSE "unknown"]

FromCurve(f, u, rule) ==
  LET class == Argument(u, rule.curveArg).name IN
  IF class \notin DOMAIN Curves THEN f
  ELSE LET c == Curves[class]
       IN [f EXCEPT !.parameterSet = c[1], !.curve = c[1], !.level = c[2]]

\* The composite is built on the rule's own algorithm.
FromDigest(f, u, rule) ==
  LET digest == Digest(u, rule) IN
  IF digest = None THEN f
  ELSE LET hash == NormalizeAlgorithm(<<digest>>)[1]
           strength == IF hash \in DOMAIN HashStrength THEN HashStrength[hash] ELSE None
       IN [f EXCEPT !.algorithm = NormalizeComposite(rule.algorithm, digest),
                    !.level = IF @ = None THEN strength ELSE @]

FromKeySize(f, u, rule) ==
  LET size == IF f.keySize # None THEN f.keySize ELSE KeySize(u, rule)
  IN [f EXCEPT !.keySize = size,
               !.level = IF rule.algorithm = <<"RSA">> /\ size \in DOMAIN RsaStrength
                         THEN RsaStrength[size] ELSE @]

Lowest(a, b) == IF a <= b THEN a ELSE b

Build(rule, u, spec, context) ==
  LET f1 == FromMode(FromCipher(FromSpec(Facts(rule), u, rule, spec), u, rule), u, rule)
      f  == FromKeySize(FromDigest(FromCurve(f1, u, rule), u, rule), u, rule)
      p  == IF rule.resolvePurpose /\ f.purpose = "unknown"
            THEN PurposeFromUsage(rule, u, context, f.primitive)
            ELSE Resolved(<<f.purpose, f.primitive>>, 100)
  IN [file |-> u.file, line |-> u.line, algorithm |-> NormalizeAlgorithm(f.algorithm),
      purpose |-> p.purpose, primitive |-> p.primitive, detector |-> rule.detector,
      assetType |-> rule.assetType, mode |-> f.mode, padding |-> f.padding,
      functions |-> f.functions, parameterSet |-> f.parameterSet, curve |-> f.curve,
      keySize |-> f.keySize, oid |-> None, status |-> f.status, level |-> f.level,
      confidence |-> Lowest(Lowest(u.confidence, rule.confidence), p.cap),
      extra |-> rule.extra]

\* One finding for each of the names that the specs of the rule know.
BuildEach(names, rule, u, context) ==
  FlattenSeq([i \in DOMAIN names |->
    IF names[i] \in DOMAIN rule.specTable
    THEN <<Build(rule, u, rule.specTable[names[i]], context)>> ELSE <<>>])

OrElse(built, other) == IF built = <<>> THEN <<other>> ELSE built

BuildAll(rule, u, context) ==
  LET names == IF rule.specTable = None THEN <<>> ELSE NamedValues(u, rule)
  IN OrElse(BuildEach(names, rule, u, context), Build(rule, u, None, context))

(***************************************************************************)
(* One usage                                                               *)
(***************************************************************************)

ValueMatches(rule, u) ==
  LET a == IF rule.valueKwarg # None THEN Keyword(u, rule.valueKwarg) ELSE Argument(u, 0)
      value == IF rule.valueKey = None THEN a.value
               ELSE IF IsA("dict", a.value) /\ rule.valueKey \in DOMAIN a.value[2]
               THEN a.value[2][rule.valueKey] ELSE None
  IN CASE rule.valueName # None   -> a.name = rule.valueName
       [] rule.valueEquals # None -> value = rule.valueEquals
       [] OTHER                   -> TRUE

ConsumedByParent(u) ==
  \E rule \in ToSet(RulesFor(u.parent)) : rule.consumesArgs

FiredOf(rules, u, context) ==
  FlattenSeq([i \in DOMAIN rules |->
    IF rules[i].emits /\ ValueMatches(rules[i], u) THEN BuildAll(rules[i], u, context)
    ELSE <<>>])

Fired(u, context) == FiredOf(RulesFor(u.name), u, context)

\* Mutant: an argument is reported besides the call that reads it.
MutNeverConsumed(u, context) == Fired(u, context)

DetectUsage(u, context) == IF ConsumedByParent(u) THEN <<>> ELSE Fired(u, context)

Detect(usages) ==
  FlattenSeq([n \in DOMAIN usages |-> DetectUsage(usages[n], ContextOf(usages))])
=============================================================================
