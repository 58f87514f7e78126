-------------------------------- MODULE Scan --------------------------------
(***************************************************************************)
(* One run of the command: discover and read the sources, detect, read the *)
(* certificates and keys, deduplicate, assess, report, exit.  Reading a    *)
(* file may give something, give nothing (the reader caught its error) or  *)
(* raise.  The deduplication is the module Aggregate, on the same          *)
(* findings; the assessment and the recommendations are Risk and Pqc.      *)
(***************************************************************************)
EXTENDS Risk, Pqc, FiniteSets, SequencesExt

CONSTANTS
  Project,        \* projects: [sources |-> sequence of files, artifacts |-> the same]
  Options,        \* what the command line may ask for
  Moment,         \* when the scan may run
  Analyzed(_),    \* the usages in a source file
  Detected(_),    \* the findings the detector makes of a sequence of usages
  Parsed(_),      \* the findings in a certificate or key file
  Canonical(_)    \* normalize_algorithm

VARIABLES
  project, options, moment,
  stage,             \* how far the run is
  todo,              \* the files still to read
  collected,         \* what _read_each has collected
  skipped,           \* the files whose reader raised
  filesScanned,
  findings, next, assets, sorted,    \* shared with Aggregate
  assessed,          \* how many findings have been assessed
  assessments,       \* finding id -> assessment
  recommendations,   \* finding id -> mechanisms
  exit,              \* the exit code, None while the command runs
  outcome            \* file -> how reading it ended (history)

input == <<project, options, moment>>
reading == <<todo, collected, skipped, filesScanned, outcome>>
aggregation == <<next, assets, sorted>>
assessing == <<assessed, assessments, recommendations>>

vars == <<input, stage, reading, findings, aggregation, assessing, exit>>

\* The walk takes no file twice, and no file is both a source and an artifact.
ASSUME ProjectAssumption ==
  \A p \in Project :
    /\ \A s \in {p.sources, p.artifacts} :
         /\ s \in Seq({s[i] : i \in DOMAIN s})
         /\ \A i, j \in DOMAIN s : s[i] = s[j] => i = j
    /\ \A i \in DOMAIN p.sources : \A j \in DOMAIN p.artifacts : p.sources[i] # p.artifacts[j]

\* A list of findings, each of a strength that is a number where it is known.
ListOfFindings(s) ==
  /\ s \in Seq(ToSet(s))
  /\ \A f \in ToSet(s) : f.level \in Int \cup {None}

\* The analyzer gives lists.  The engine makes findings of them, whichever of the
\* source files can be read, and the parser makes findings of artifacts.
ASSUME ReadersAssumption ==
  \A p \in Project :
    /\ \A i \in DOMAIN p.sources : Analyzed(p.sources[i]) \in Seq(ToSet(Analyzed(p.sources[i])))
    /\ \A read \in SUBSET DOMAIN p.sources :
         ListOfFindings(Detected(FlattenSeq([i \in DOMAIN p.sources |->
           IF i \in read THEN Analyzed(p.sources[i]) ELSE <<>>])))
    /\ \A i \in DOMAIN p.artifacts : ListOfFindings(Parsed(p.artifacts[i]))

\* --fail-on takes a level or "never".
ASSUME OptionsAssumption == \A o \in Options : o.failOn \in RiskLevel \cup {"never"}

\* The constants of Aggregate's own Init are not used here.
Agg == INSTANCE Aggregate WITH Finding <- {}, MaxFindings <- 0

Files == project.sources \o IF options.artifacts THEN project.artifacts ELSE <<>>

-----------------------------------------------------------------------------
Init ==
  /\ project \in Project
  /\ options \in Options
  /\ moment \in Moment
  /\ stage = "start"
  /\ todo = <<>> /\ collected = <<>> /\ skipped = <<>> /\ filesScanned = 0
  /\ outcome = <<>>
  /\ findings = <<>> /\ next = 1 /\ assets = <<>> /\ sorted = {}
  /\ assessed = 0 /\ assessments = <<>> /\ recommendations = <<>>
  /\ exit = None

ExitFindings == 1
ExitError == 2

\* None is no number.
ASSUME NoneAssumption == None \notin Int

\* The path does not exist or is not a directory.
Refuse ==
  /\ stage = "start"
  /\ options.root # "directory"
  /\ stage' = "done"
  /\ exit' = ExitError
  /\ UNCHANGED <<input, reading, findings, aggregation, assessing>>

Start ==
  /\ stage = "start"
  /\ options.root = "directory"
  /\ stage' = "sources"
  /\ todo' = project.sources
  /\ filesScanned' = Len(project.sources)
  /\ UNCHANGED <<input, collected, skipped, outcome, findings, aggregation, assessing, exit>>

\* dict[key] = value
Put(dict, key, value) ==
  [k \in DOMAIN dict \cup {key} |-> IF k = key THEN value ELSE dict[k]]

Outcome == {"read", "nothing", "raised"}

\* The files left after one whose reading ended with result.  Mutant: the first
\* reader that raises ends the loop.
MutGiveUp(result) == IF result = "raised" THEN <<>> ELSE Tail(todo)

Rest(result) == Tail(todo)

\* One turn of _read_each.
Read(content, result) ==
  /\ todo' = Rest(result)
  /\ outcome' = Put(outcome, Head(todo), result)
  /\ collected' = IF result = "read" THEN collected \o content ELSE collected
  /\ skipped' = IF result = "raised" THEN Append(skipped, Head(todo)) ELSE skipped
  /\ UNCHANGED <<input, stage, filesScanned, findings, aggregation, assessing, exit>>

ReadSource(result) ==
  /\ stage = "sources"
  /\ todo # <<>>
  /\ Read(Analyzed(Head(todo)), result)

DetectSources ==
  /\ stage = "sources"
  /\ todo = <<>>
  /\ findings' = findings \o Detected(collected)
  /\ collected' = <<>>
  /\ IF options.artifacts
     THEN /\ stage' = "artifacts"
          /\ todo' = project.artifacts
          /\ filesScanned' = filesScanned + Len(project.artifacts)
     ELSE /\ stage' = "aggregate"
          /\ UNCHANGED <<todo, filesScanned>>
  /\ UNCHANGED <<input, skipped, outcome, aggregation, assessing, exit>>

ReadArtifact(result) ==
  /\ stage = "artifacts"
  /\ todo # <<>>
  /\ Read(Parsed(Head(todo)), result)

CollectArtifacts ==
  /\ stage = "artifacts"
  /\ todo = <<>>
  /\ findings' = findings \o collected
  /\ collected' = <<>>
  /\ stage' = "aggregate"
  /\ UNCHANGED <<input, todo, skipped, filesScanned, outcome, aggregation, assessing, exit>>

AggregateStep ==
  /\ stage = "aggregate"
  /\ Agg!Next
  /\ UNCHANGED <<input, stage, reading, assessing, exit>>

\* Mutant: a scan that found nothing is not finished.
MutWaitsForAssets == Agg!Returned /\ DOMAIN assets # {}

AggregateDone == Agg!Returned

AggregateReturns ==
  /\ stage = "aggregate"
  /\ AggregateDone
  /\ stage' = "assess"
  /\ UNCHANGED <<input, reading, findings, aggregation, assessing, exit>>

\* Findings with the same id share an entry: the last assessment stays, and a
\* recommendation stays although a later finding of that id needs none.
AssessNext ==
  /\ stage = "assess"
  /\ assessed < Len(findings)
  /\ LET f == findings[assessed + 1] IN
     /\ assessments' = Put(assessments, FindingId(f), Assess(f, moment))
     /\ recommendations' = IF Recommend(f) = None THEN recommendations
                           ELSE Put(recommendations, FindingId(f), Recommend(f))
  /\ assessed' = assessed + 1
  /\ UNCHANGED <<input, stage, reading, findings, aggregation, exit>>

\* Mutant: the last finding is forgotten.
MutLastForgotten == assessed >= Len(findings) - 1

AllAssessed == assessed = Len(findings)

Render ==
  /\ stage = "assess"
  /\ AllAssessed
  /\ stage' = "report"
  /\ UNCHANGED <<input, reading, findings, aggregation, assessing, exit>>

\* findings_at_or_above is not empty.  Mutants: the threshold itself passes; the
\* quantum axis is not looked at.
MutStrictlyAbove(threshold) ==
  \E n \in DOMAIN findings :
    Rank[OverallRisk(assessments[FindingId(findings[n])])] > Rank[threshold]

MutClassicalOnly(threshold) ==
  \E n \in DOMAIN findings :
    AtLeast(assessments[FindingId(findings[n])].classicalRisk, threshold)

AnyAtOrAbove(threshold) ==
  \E n \in DOMAIN findings :
    AtLeast(OverallRisk(assessments[FindingId(findings[n])]), threshold)

ExitCode ==
  IF options.failOn # "never" /\ AnyAtOrAbove(options.failOn) THEN ExitFindings ELSE 0

\* The report is written to a file, which may fail, or to the standard output.
Emit(written) ==
  /\ stage = "report"
  /\ written \/ options.output = "file"
  /\ stage' = "done"
  /\ exit' = IF written THEN ExitCode ELSE ExitError
  /\ UNCHANGED <<input, reading, findings, aggregation, assessing>>

Next ==
  \/ Refuse \/ Start
  \/ \E result \in Outcome : ReadSource(result) \/ ReadArtifact(result)
  \/ DetectSources \/ CollectArtifacts
  \/ AggregateStep \/ AggregateReturns
  \/ AssessNext \/ Render
  \/ \E written \in BOOLEAN : Emit(written)

\* A single thread that nothing blocks: the run goes on until it exits.
Fairness == WF_vars(Next)

Spec == Init /\ [][Next]_vars /\ Fairness

-----------------------------------------------------------------------------
(***************************************************************************)
(* What the scan must satisfy                                              *)
(***************************************************************************)

\* Every file is accounted for (read, or still to be read), what was skipped is
\* what raised, and the dicts hold the findings met so far and no others.
TypeOK ==
  /\ stage \in {"start", "sources", "artifacts", "aggregate", "assess", "report", "done"}
  /\ filesScanned = Len(todo) + Cardinality(DOMAIN outcome)
  /\ {skipped[i] : i \in DOMAIN skipped} = {p \in DOMAIN outcome : outcome[p] = "raised"}
  /\ assessed \in 0..Len(findings)
  /\ DOMAIN assessments = {FindingId(findings[n]) : n \in 1..assessed}
  /\ DOMAIN recommendations \subseteq DOMAIN assessments
  /\ exit \in {None, 0, ExitFindings, ExitError}
  /\ exit # None <=> stage = "done"

Finished == stage = "done" /\ options.root = "directory"

\* What one file adds: nothing, unless it was read.
Gives(file, content(_)) == IF outcome[file] = "read" THEN content(file) ELSE <<>>

\* All that the files add, in their order.
AllOf(files, content(_)) == FlattenSeq([i \in DOMAIN files |-> Gives(files[i], content)])

\* A file that cannot be read costs only itself: the findings are those of a
\* project without it, and no file is dropped in silence (scan.py, _read_each,
\* "let one unreadable file cost only itself").
FailureCostsOnlyItself ==
  Finished =>
    /\ DOMAIN outcome = {Files[i] : i \in DOMAIN Files}
    /\ filesScanned = Len(Files)
    /\ findings = Detected(AllOf(project.sources, Analyzed))
                    \o IF options.artifacts THEN AllOf(project.artifacts, Parsed)
                       ELSE <<>>

\* The report never looks up a finding that was not assessed: through the
\* findings the lookup would raise (scan.py, ranked_findings), through the
\* occurrences of an asset it would be left out in silence (aggregate.py, risk).
EveryLookupSucceeds ==
  stage \in {"report", "done"} /\ options.root = "directory" =>
    /\ \A n \in DOMAIN findings : FindingId(findings[n]) \in DOMAIN assessments
    /\ \A k \in DOMAIN assets : \A i \in DOMAIN assets[k].occurrences :
         assets[k].occurrences[i].id \in DOMAIN assessments

\* An occurrence without an assessment does not count.
AssetRisk(a) ==
  LET ids == {a.occurrences[i].id : i \in DOMAIN a.occurrences}
  IN MaxRisk({OverallRisk(assessments[id]) : id \in ids \cap DOMAIN assessments})

WorstRisk == MaxRisk({OverallRisk(assessments[id]) : id \in DOMAIN assessments})

\* The summary, the assets and the exit code tell one story: the worst asset is
\* as bad as the worst finding, and the gate closes exactly when that reaches
\* the threshold (scan.py, worst_risk; aggregate.py, risk; cli.py, _exit_code).
ReportsAgree ==
  Finished =>
    /\ WorstRisk = MaxRisk({AssetRisk(assets[k]) : k \in DOMAIN assets})
    /\ exit # ExitError /\ options.failOn # "never" /\ findings # <<>> =>
         (exit = ExitFindings <=> AtLeast(WorstRisk, options.failOn))

\* Findings of one id are findings of one assessment and one recommendation.
IdsDecide ==
  \A m, n \in DOMAIN findings :
    FindingId(findings[m]) = FindingId(findings[n]) =>
      /\ Assess(findings[m], moment) = Assess(findings[n], moment)
      /\ Recommend(findings[m]) = Recommend(findings[n])

GateExact ==
  exit = ExitFindings <=>
    \E n \in DOMAIN findings : AtLeast(OverallRisk(Assess(findings[n], moment)), options.failOn)

\* Where ids decide, the gate is exact: exit code 1 if and only if some finding
\* reaches the threshold (README, "exit 1 if anything reaches HIGH").
GateExactWhereIdsDecide ==
  Finished /\ exit # ExitError /\ options.failOn # "never" /\ IdsDecide => GateExact

\* The gate is exact for every scan, as the README has it ("exit 1 if anything
\* reaches HIGH"): whether or not findings share an id (scan.py, scan; cli.py,
\* _exit_code).
GateCatchesEveryFinding ==
  Finished /\ exit # ExitError /\ options.failOn # "never" => GateExact

\* Where ids decide, the advice fits the assessment although two engines gave
\* them: a finding has a recommendation exactly if it is quantum vulnerable, a
\* scheduled signature is replaced by a signature scheme, what can be recorded
\* today by a KEM, and nothing by less than it offered (README, "Why purpose
\* matters"; catalog.py, recommend).
AdviceFitsAssessment ==
  Finished /\ IdsDecide =>
    \A n \in DOMAIN findings :
      LET f == findings[n]
          a == assessments[FindingId(f)]
      IN /\ FindingId(f) \in DOMAIN recommendations
              <=> \E r \in a.reasons : r.weakness \in
                    {"harvest_now_decrypt_later", "quantum_vulnerable_signature",
                     "quantum_vulnerable_unknown_purpose"}
         /\ FindingId(f) \in DOMAIN recommendations =>
              LET advice == recommendations[FindingId(f)] IN
              /\ HasWeakness(a.reasons, "quantum_vulnerable_signature")
                   => Primary(advice).purpose = "digital_signature"
              /\ HasWeakness(a.reasons, "harvest_now_decrypt_later")
                   => Primary(advice).purpose = "key_establishment"
              /\ \A i \in DOMAIN advice : f.level # None /\ f.level <= 256
                                            => advice[i].level >= f.level

\* Every run ends, with one of the three exit codes.
Terminates == <>(exit # None)
=============================================================================
