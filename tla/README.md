# CryptoLens in TLA+

CryptoLens (`src/src/cryptolens`) is a static analyser. `cryptolens scan DIR` reads the Python
sources and the certificate and key files under a directory, lists the cryptography they use,
says how risky each use is today and under a quantum computer, and what to migrate it to.
`--fail-on LEVEL` turns that into a gate: exit code 1 if anything reaches the level.

The program is sequential. What makes it hard to test is not threads but long chains of
order-dependent folds over data that collides: one index shared by all files, findings merged
under a key, assessments filed under an id, advice computed by a second engine that must agree
with the first, thresholds on a calendar that moves between two scans, and readers that may fail
anywhere in the loop. And it is not alone: other programs change the disk while it is walked, an
optional library does as it likes while it is imported, and the user may press Ctrl-C. The modules
below take these apart.

## 1. Inventory

Paths are relative to `src/src/cryptolens` unless they start with `src/`.

| Component | State it keeps | Operations | What could go wrong |
|---|---|---|---|
| Vocabulary, `model.py` | none (a finding is a record) | `finding_id`, `migration_status`, `max_risk` | the id leaves out what tells two findings apart; the order of the tests in `migration_status` |
| Discovery, `discovery/` | the ignore set of a walk, the directories in hand | `walk_files`, `discover_source_files`, `discover_artifact_files` | directories that cannot be listed, files that vanish between two system calls |
| Symbol table, `analyzers/symbol_table.py` | scopes, bindings, class stack, class attributes | `bind`, `lookup`, `resolve`, the walker | attributes kept under a bare class name; several bindings of one name |
| Analyzer, `analyzers/python_ast.py` | the stack of calls around a node | `analyze_file` | which call is the parent of which; errors swallowed |
| Detector rules, `detectors/rules.py`, `normalize.py` | none (a table) | lookup by qualified name | two rules for a name, tables that disagree |
| Detector engine, `detectors/engine.py` | the index of methods per file and receiver | `UsageContext.from_usages`, `detect_usage`, `_build`, `_purpose_from_usage` | an index used before it is complete or across files; a purpose guessed; an argument counted twice or never |
| Certificates and keys, `certs/` | none | `parse_artifact`, with a fallback parser | the fallback knows less than the first parser; a block that raises costs its neighbours |
| Deduplication, `cbom/aggregate.py` | a dict of assets under construction | `aggregate`, `_merge`, two sorts | an occurrence lost, a known fact replaced, an unstable order |
| Risk engine, `risk/` | none (but `now` moves between scans) | `assess` | thresholds off by one, precedence of reasons, risk that drops as time passes |
| Catalogue, `pqc/catalog.py` | none (ladders) | `recommend` | advice that does not fit the assessment, a mechanism that is too weak |
| liboqs bridge, `pqc/liboqs_bridge.py` | a cached probe, redirected descriptors | `_guarded_import` and queries | output not restored when the import exits |
| Scan, `scan.py` | `ScanResult`: findings, assets, two dicts keyed by finding id, counters | `scan`, `_read_each`, the queries of the reports | a file that stops the loop, an entry overwritten, a lookup that fails |
| Command line, `cli.py` | none | `scan_path`, `_emit`, `_exit_code` | the gate disagrees with the report; a failure that exits clean |
| CBOM generator, `cbom/generator.py`, reports, `reports/` | a document | `build_bom`, `render` | references that do not resolve |
| Evaluation, `src/tools/evaluate.py` | none | scores a scan against labels | (development tool) |

How they interact: `scan` calls discovery, then `_read_each` over the sources (analyzer), then the
engine once over all usages; then discovery and `_read_each` over the artifacts (parser); then
`aggregate` over the concatenated findings; then, finding by finding, `assess` and `recommend`,
filed under `finding_id`. The reports and the gate read the result by three routes: the findings,
the assessments, and the occurrences of the assets.

What makes each modelled part correct, in short:

* discovery: every file that was there to be found all the time is found, no file twice, none outside
  the project; the walk ends;
* symbol table and analyzer: a name means what it means in the source, confidence is never gained on
  the way from an import to a call, and the parent of a call is the call around it;
* certificates: what either library can read is reported, and the two readers lead to one risk;
* liboqs bridge: whatever the import does, the output comes back; no answer is taken back;
* risk engine: the priority is what the facts and the deadlines make it; an untouched finding
  never becomes less risky as time passes; no certificate goes from valid to expired unannounced;
* deduplication: every finding is recorded exactly once, on the asset of its key; a known fact is
  never replaced, a missing one always filled; the order is that of the places;
* engine: files do not influence each other; the order of the calls does not matter; no purpose is
  guessed; a nested call is counted once;
* scan: a failure costs only its file; every lookup succeeds; the reports, the advice and the exit
  code tell one story; every run ends.

## 2. Modules

| Module | Models | State and actions |
|---|---|---|
| `Search` | what discovery promises (no code of its own) | `eligible`, `due`, `taken`, `finished`; actions `Change`, `Take`, `Finish` |
| `Discovery` | `discovery/walk.py`, `source_files.py`, `artifact_files.py`, with `os.walk` as external code | `tree`, `ignoreDirs`, `sought`, the walk (`todo`, `here`, `names`, `directories`, `sniffing`), `found`, and the history `changes`, `disturbed`; actions `ListDirectory`, `LookAt`, `Sniff`, `Descend`, and `Remove`, `Restore` of other programs |
| `SymbolTable` | `analyzers/symbol_table.py`, the table | `scopes`, `classAttributes`, `classStack`, `wildcards`; operators: `Bound`, `Lookup`, `Resolve`, `Extend`, `AbsoluteModule` and so on |
| `PythonAst` | `analyzers/python_ast.py` and the walker of the symbol table | `frames` (the call stack of the recursive visitor), `importKind`, `parents`, `usages`, and the history `made`; an action on entering and one on leaving each kind of node |
| `Usages` | the records that the analyzer hands to the detector | operators: `WellFormed`, `IsA` |
| `Certs` | `certs/parser.py`, `certs/oids.py` | `artifacts`, `file`, `blocks`, `findings`, and the history `origin`; actions `OpenArtifact` and `ReadBlock` |
| `LiboqsBridge` | `pqc/liboqs_bridge.py` | `output` and `saved` (the descriptors and their copies), `probe` (the cache), the call in progress, `answered`, `escaped`; actions `Start`, `SaveOutput`, `NoSink`, `Redirect`, `Import`, `RestoreOutput`, `Settle`, `Answer`, `Interrupt` |
| `Python` | the value `None`, the absent value of all modules | a constant |
| `Model` | `model.py` | operators: `Rank`, `MaxRisk`, `Migration`, `FindingId` |
| `Risk` | `risk/engine.py`, `risk/rules.py` | operators: one per group of reasons, `PriorityOf`, `Assess` |
| `RiskOverTime` | `assess`, called by one scan after another | `finding`, `now`, `assessment`; action `Rescan(gap)` |
| `Aggregate` | `cbom/aggregate.py` | `findings`, `next`, `assets`, `sorted`; actions `Collect` (one turn of the first loop, with the merge) and `SortAsset` (one turn of the second); the refinement mapping to `Inventory` |
| `Inventory` | what deduplication promises (no code of its own) | `waiting`, `filed`; action `File` |
| `Normalize` | `detectors/normalize.py` | operators |
| `Rules` | `detectors/rules.py` | the whole rule table, all 88 rules |
| `Detection` | `detectors/engine.py`, one usage | operators: accessors, one per paragraph of `_build`, `PurposeFromUsage`, `DetectUsage` |
| `Detector` | `DetectorEngine.detect`, one run | `usages`, `indexed`, `context`, `detected`, `findings`, and the history `origin`; actions `Index`, `DetectNext` |
| `Programs` | the usages of seventeen statements, as the analyzer gives them | constants of the models |
| `Pqc` | `pqc/catalog.py` | operators: the ladders, `Recommend` |
| `Scan` | `scan.py`, `cli.py`; composes `Risk`, `Pqc` and an instance of `Aggregate` | one variable per field of `ScanResult`, a stage, and the file loop; actions `Refuse`, `Start`, `ReadSource`, `DetectSources`, `ReadArtifact`, `CollectArtifacts`, `AggregateStep`, `AggregateReturns`, `AssessNext`, `Render`, `Emit` |
| `MC...` | | instances for TLC |
| `RiskOverTimeProofs`, `AggregateProofs`, `DetectorProofs`, `PythonAstProofs`, `CertsProofs`, `ScanProofs` | | theorems and proofs about the module of that name |
| `EnvironmentProofs` | | theorems about `Discovery` and `LiboqsBridge` together, the two parts that meet what the program does not control: other programs, and a library at import |
| `Lemmas` | | what several of these rest on: induction over numbers and lists, lists of unknown elements, `FlattenSeq`, bags, levels, `assess` |

`PROJECT.json` gives, for every definition, the lines it stands for.

### How the data is abstracted

* A finding is a record with the fields of `CryptoFinding` that any code here reads. Evidence,
  column and wording are left out. `nist_quantum_security_level` is left out: it is filled and
  merged exactly as `classical_security_level`, and nothing else reads it.
* An algorithm is the tuple of the parts of its name (`<<"RSA", "SHA-1">>`); a qualified Python
  name is the tuple of its segments. Joining and splitting are then visible, characters are not.
  `Normalize` lists the spellings the rules and the programs use, by what the code folds them to.
* `finding_id` and the digest of a key are hashes of a few fields. The model takes a hash to be
  injective on those fields, so that only the choice of the fields can make two ids collide. (The
  digest of a key also joins its fields with a bar, which is not injective; only the CBOM
  generator uses it, see section 6.)
* A confidence is a percentage. A date is a number of ticks, `Day` ticks to a day, so that the
  rounding of `(not_after - now).days` is modelled. A date that cannot be parsed is no date.
* `Scan` stands above the models of its readers: it takes from outside what a file contains (`Analyzed`, `Parsed`) and what the engine makes
  of it (`Detected`). `MCScan` gives the real engine of `Detection` for the latter. The file loop
  chooses for each file whether it is read, gives nothing (the reader caught its own error) or
  raises.
* **Syntax trees.** A file is a sequence of nodes of the kinds that the visitors tell apart, with the
  children of every other kind in the order of `generic_visit`. An import has one alias per node.
  Parameters and loop variables are not bound, as in the code, so a function is its body (decorators
  and defaults come first in it and are visited inside its scope, as the code does).
  `PathOf(depth)` says where a node is, for the histories only.
* **The disk.** What can be at a path is fixed, and other programs remove and restore it: a file, a
  directory, one that cannot be listed or not be looked into, a pipe, links of every kind. A system call
  is one action, or part of one where nothing between two calls could tell: the listing and its `is_dir`,
  the two tests of the ignore set and `is_file`. `os.walk` is that of Python 3.12, which looks at the
  links when the caller is done with the names. A file that is replaced by a pipe between `is_file` and
  `open` is not modelled (the open would block), nor is one replaced by other content.
* **Certificates.** A block is a record of what is true of it and of how far each library gets with it
  (`"all"`, `"keyless"`, `"nothing"`); `hidden` lists facts that no library can read. The subject, issuer and
  serial number of a certificate are one entry of `extra`, since `aggregate` compares them together. A
  file whose size changes between `stat` and `read` is not modelled.
* **The bridge.** `saved` and `output` are the two descriptors; what the build prints is only readable or
  not. `sys.stdout.flush` raising among the restores is not modelled.
* `aggregate` returns its assets sorted. No property depends on that order, and the variable
  `assets` is the dict itself.
* The models are deterministic except for the inputs, the readers' outcomes and whether the report
  file can be written. Where an operator says `CHOOSE`, the choice is unique.

The data operators have been compared with the running code: the rule table and its tables field by
field; the usages that `PythonAst` computes with those of the real analyzer on 750 random programs (some
5700 usages); the usages of `Programs` with what `analyze_source` gives for the statements; findings,
assessments, migration status and recommendations on all 901 programs of up to two statements (1768
findings); `Assess` on every pair of a finding and a moment of `MCRiskOverTime` (4030). There is no
difference. The readers of certificates could not be compared in this way, for want of the two libraries;
`Certs` was translated by reading.

## 3. Runs

| Run | Module | Shows |
|---|---|---|
| `risk_over_time` | `MCRiskOverTime` | five properties of assessments over a moving calendar |
| `aggregate` | `MCAggregate` | the fold, the merge and the sort; refinement of `Inventory` |
| `detector` | `MCDetector` | all programs of up to three statements through the whole rule table |
| `detector_suppressed` | `MCDetector` | a violation: a hash that nobody reports |
| `python_ast` | `MCPythonAst` | the analyzer on small files with every nesting; its usages are those `detector` starts from |
| `discovery` | `MCDiscovery` | the walk while other programs remove and restore paths; refinement of `Search`; it ends |
| `certs` | `MCCerts` | certificates and keys through both readers, with blocks that fail |
| `certs_merge` | `MCCerts` | a violation: two certificates that are one asset |
| `liboqs_bridge` | `MCLiboqsBridge` | any calls, any end of the import, interrupts anywhere |
| `liboqs_swallows` | `MCLiboqsBridge` | a violation: an import that does not swallow everything |
| `scan` | `MCScan` | whole runs of the command, with failures; they end |
| `scan_gate` | `MCScan` | a violation: a gate that passes although a finding reaches the level |

**`risk_over_time`.** `UrgencyFollowsExposure` states the priority in terms of the facts of the
finding and the two deadlines, never through the list of reasons from which the code computes it.
`KeySizesWeighed` compares the assessment of an RSA key with that of the same key at any other size: a
longer key is never worse, whatever else is wrong with it; and the thresholds of the engine fit the strengths
that the detectors give (a key is weak exactly below 112 bits of strength), two tables that are kept apart.
`RiskNeverDrops` is an action property over two scans: at the moment a
certificate expires, its quantum deadline is withdrawn, its warning is replaced, and the sum must
not look better. `ExpiryAnnounced` is another: two scans at most `ExpiryWarningDays + 1` days
apart cannot see "valid, no warning" and then "expired". (One day more than the warning window is
the exact bound: the code rounds the remaining days down and includes the last one.)

**`aggregate`.** `OneOccurrencePerFinding` and `OccurrencesInOrder` speak of the fold at every
point and not only of its result; `FirstKnownWins` says of each fact that an asset tells what the
first of its findings to know it said. `ImplementsInventory` is the refinement: with
`waiting` the bag of findings not yet collected and `filed` the bags of occurrences, `Collect` is
a `File` step and `SortAsset` stutters.

**`detector_suppressed`**, **`scan_gate`**, **`certs_merge`** and **`liboqs_swallows`** check what a doc, a comment or
a test of the repository says and the code does not do:

* `src/tests/unit/test_detectors.py:69` has suppression as "an argument consumed by its parent is
  not reported twice". A rule may suppress its arguments without reading them: SHA-1 in
  `PBKDF2HMAC(hashes.SHA1(), ...)` or in `key.sign(data, padding.PKCS1v15(), hashes.SHA1())` is
  reported by nobody. Only for `MGF1` is that intended (`test_detectors.py:89`).
* `src/README.md:32` says `--fail-on high` exits with 1 "if anything reaches HIGH". The
  assessments are filed under `finding_id`, and two RSA keys on one line, or two certificates of a
  PEM bundle (all at line 0), share one. If the worse comes first it is overwritten and the gate
  passes.
* `src/src/cryptolens/cbom/aggregate.py:215-218` says that two certificates are two assets, told apart by
  "subject, issuer and serial". The fallback reader (`certs/parser.py:298`) records no serial number: a
  certificate that only it can read, SLH-DSA for one, and its renewal are one asset.
* `src/src/cryptolens/pqc/liboqs_bridge.py:31` says that `oqs` is imported "swallowing anything it does on the way
  in". What its build prints is read back as UTF-8 outside the `try` (line 52), and output in another encoding raises
  out of every query of the bridge.

Two more were met on the way and have no run. Recommendations are filed under the same id as assessments and
never withdrawn, although `src/tests/unit/test_scan.py:36` has them for quantum vulnerable findings only: in a bundle of
two certificates whose keys may be for anything, one on P-256 and one on a curve that no table has (file 8 of
`MCScan`), the second needs review and is shown the recommendation of the first. And findings of one asset may
disagree on the migration status, which `src/tests/unit/test_cbom_aggregate.py:310` thinks they should not, "since the dedupe
key fixes algorithm and purpose": `hashlib.sha256()` is quantum safe, while `hashlib.new("sha256")`, the same asset, has no
level and needs review. The code provides for that, and says that the asset needs review.

**`detector`.** `FilesIndependent`: the findings of a file are those of a scan of that file alone,
although one index serves all. `OrderIrrelevant`: reading all calls backwards finds the same bag.
`NeverGuesses`: a purpose is certain if the call around it settles it, the only candidate of its
file at reduced confidence, or unknown. The history `origin` names the usage that each finding was made of, and what its
file suggests is read off the usages, not off the index. A purpose is compared with its primitive, since
two kinds of call establish a key by different primitives. `CountedOnce`: a hash or cipher inside another call is
counted in exactly one place, where the parent reads its argument.

**`python_ast`.** The code keeps three stacks and a flag beside the recursion of two visitors. The
history `made` records which block made which binding, and against it `LookupIsLexical` says that the
stack of dicts is lexical scoping, `AttributesStayInClass` that an attribute of `self` is that of the class
around it. (Two classes of one name in a file share their attributes; the code keeps them under the
bare name, and the property excepts the case.) `KindFollowsNesting`: imports are conditional exactly inside
a `try` that guards one, however tries and functions nest. `TracedToImport`: no name out of nothing, and none
with more confidence than the import it comes from. `AmbiguityIsNeverCertain`: a call of two things is
certainly neither. `ParentIsEnclosingCall` looks at the stack of parents while the arguments are visited.
`FeedsDetector` joins this model to the next: for each of thirteen sources the usages are those that
`Programs` states.

**`discovery`.** `ImplementsSearch` is the refinement, and the point of the model: with `eligible` the files that
the walk would take if it looked at them now, and `due` those that were eligible and reachable through
steady directories all the time, a step of the walk takes one eligible file that was not taken yet, or
finishes with nothing due left, or stutters. `StaysInProject` excepts only links that come or go during the
walk: a link made between the listing and the look at the links can be followed. `Terminates`: a directory is
tried once, also if it could not be listed, and does not return to the walk when it returns to the disk. It says
nothing of links in a circle. A link that resolves to no place is one that the operating system gives up on (`loop`
on the disk of the run), and a link back to a directory above would be a circle only for a walk that follows it. That
walk ends too, after the forty links that a path may have on the usual systems; what is wrong with it is what
it finds on the way, and `StaysInProject` is the property for that.

**`certs`.** `NothingLegibleIsLost`: a block that either library can read is reported, whatever its neighbours
do. `ReadersAgree`: of two findings of the same object, read by different libraries, migration status and
assessment agree at every relevant moment, except where the libraries lack the words (`SameWords`: a curve
outside the table, an RSA key restricted to PSS, a private key, and the flag that asn1crypto calls
`non_repudiation`, which the code does not recognise as a signing usage). `PurposeFromOneUse`: a key that
could be for anything gets the use its certificate states if that is one, and no other.

**`liboqs_bridge`.** `ImportContained`: between calls descriptors 1 and 2 lead to the user, and of all the
import may do nothing comes out but an interrupt and chatter that is not UTF-8 (`oqs` calling `exit`
does not end the program). It excepts what the code does not cover: Ctrl-C between the first `dup2` and the
`try`, or among the restores (`torn`). `AnswersStand`: no answer is taken back, however many imports
were interrupted before one ended. `VerifyAgreesWithDescribe`: of two ways to ask for a mechanism, one goes through
the listings and one through a handle. `verify_catalog` never misses a mechanism that `describe` cannot find, even if a
listing raises, and complains of no other unless one did. Deadlock is checked: a call can always go on.
`liboqs_swallows` shows the chatter that is not UTF-8 as what it is, an exception that the docstring excludes.

**`scan`.** `FailureCostsOnlyItself`: the findings are those of the project without the files that
failed, and the counters account for every file. `EveryLookupSucceeds`, `ReportsAgree`: the three
routes to the worst risk agree, also when ids collide. `GateExactWhereIdsDecide` is the gate's
promise under the condition that findings of one id are assessed alike; `scan_gate` shows that the
condition cannot be dropped. `AdviceFitsAssessment` relates the two engines under the same condition.
`Terminates` is liveness.

### Bounds, and why they are enough

* `MCRiskOverTime`: `Day = 2` (so that rounding matters), `ExpiryWarningDays = 1`, deadlines at 6
  and 9, `Horizon = 12`, scans at most `MaxGap = 5` ticks apart, which is more than the warning window
  plus a day: gaps on both sides of the bound of `ExpiryAnnounced` occur. Certificates expire at every
  tick from 0 to 12, before, between and after the deadlines, and every other threshold of
  `risk/rules.py` has findings on both sides of it; RSA keys are compared with the same key at each size that the
detectors know or the run has. The theorems of section 5 remove these bounds.
* `MCAggregate`: every sequence of up to `MaxFindings = 4` of ten findings which collide on the key in
  all ways (spelling, parameter set or curve, subject, file). Four findings make an asset of four
  occurrences, two assets of two, and ties in the order of places. The theorems remove the bound.
* `MCDetector`: programs of `MaxStatements = 3` statements out of seventeen, split over at most two
  files. The index joins two calls (a key and its use); the third is what disturbs them.
* `MCScan`: at most two source files and two artifacts, each read, empty or raising, in every
  combination of options. Two files are enough for a failure before and after a success. The
  certificates of a bundle and the two keys of a line give shared ids, between findings that differ in their
  assessment and, in the bundle of two curves, in their migration status.

* `MCPythonAst`: files of three statements over one module, one local name, one attribute of `self` and
  two class names, with functions, classes and guarded imports nested two and three deep, and every simple
  statement in each place; 122,813 states. One name suffices because bindings of different names do not
  meet; what meets is the same name in several blocks.
* `MCDiscovery`: a disk of fourteen paths with each kind of entry, complete or without its largest
  directory when the walk begins, and `MaxChanges = 2`: something goes and comes back, or two
  things go; 39,826 states. The theorems of section 5 remove the bounds from the two safety properties.
* `MCCerts`: any two of 85 blocks in two files, so that each pair of readings of one object meets, and
  files of three blocks with failures before and after the others; 38,470 states. Blocks meet only in the list of findings.
* `MCLiboqsBridge`: a KEM, a signature and a mechanism without a name at liboqs; four libraries: complete,
  partial, of another opinion, and one whose listing raises. The calls are not bounded.

`CHECK_DEADLOCK FALSE` in all configurations but the two of the bridge: a walk, a scan, a fold and a pass
over the usages end, and the calendar ends at `Horizon`.

### Fairness

`Scan` assumes `WF_vars(Next)`: a single thread that nothing blocks keeps running. Every loop of the code
is over a list fixed before the loop starts, and reading a file is assumed to return or to raise.
`Discovery` assumes `WF_vars(Step)` of the walk and nothing of other programs: no system call of the walk
blocks, because `is_file` keeps it from opening a pipe. That other programs stop interfering is the
bound `MaxChanges`; a program that makes directories faster than they are listed can keep any walk busy.
No other liveness is claimed.

## 4. Mutants

Each property of a passing run has a mutant: a variant of one definition (`Mut...`, beside the
definition it varies) with a plausible bug, under which TLC finds that property violated. Among them:
a reader that raises ends the loop, a threshold of the gate that is strict, a threshold of key sizes that is not, an index that forgets the file, a
finding reported as soon as it is indexed, a merge in which the last finding wins, a scope that is not
popped, links that are followed, a directory tried again after it failed, a purpose taken from the first
flag, an import without its `finally`, a failure that is not remembered.

## 5. Proofs

TLAPS proves, for every value of the constants that satisfies the named assumptions:

| Theorem | Says |
|---|---|
| `RiskOverTimeProofs!Fresh` | the inductive invariant: the assessment is the one of the unchanged finding at `now` |
| `TypeCorrect`, `Urgency` | `TypeOK`, `UrgencyFollowsExposure` |
| `KeysWeighed` | `KeySizesWeighed` |
| `Monotone` | `RiskNeverDrops` |
| `ExpiryIsAnnounced` | `ExpiryAnnounced` |
| `AggregateProofs!Filing` | the inductive invariant of the fold |
| `TypeCorrect`, `Order`, `NothingLost` | `TypeOK`, `OccurrencesInOrder`, `OneOccurrencePerFinding` |
| `Belief` | `FirstKnownWins` |
| `FilesEachOnce` | `ImplementsInventory` |
| `DetectorProofs!DetectorTypeCorrect` | `TypeOK` |
| `FilesAreIndependent` | `FilesIndependent` |
| `OrderIsIrrelevant` | `OrderIrrelevant` |
| `PurposesAreNotGuessed` | `NeverGuesses` |
| `PythonAstProofs!TypeCorrect`, `KindSettled` | `TypeOK`, `KindFollowsNesting` |
| `UsagesAreGrounded` | `TracedToImport` |
| `TableIsLexical` | `LookupIsLexical` |
| `SelfIsOfItsClass` | `AttributesStayInClass` |
| `AmbiguityIsToldOf` | `AmbiguityIsNeverCertain` |
| `ParentIsTheEnclosingCall` | `ParentIsEnclosingCall` |
| `DetectorIsServed` | what the analyzer hands over is what the detector assumes (`Usages!WellFormed`) |
| `CertsProofs!ParsingIsInvariant` | the inductive invariant of the parser |
| `LegibleIsReported` | `NothingLegibleIsLost` |
| `ReadersGiveOneRisk` | `ReadersAgree` |
| `PurposeIsOfOneUse` | `PurposeFromOneUse` |
| `EnvironmentProofs!TypeCorrect`, `Stays` | `TypeOK` of the walk, `StaysInProject` |
| `Refines` | `ImplementsSearch` |
| `Contained` | `ImportContained` |
| `Stand` | `AnswersStand` |
| `VerifyAgrees` | `VerifyAgreesWithDescribe` |
| `ScanProofs!Running` | the inductive invariant of a run |
| `FilesCounted` | the inductive invariant of the file loop |
| `TypeCorrect`, `LookupsSucceed` | `TypeOK`, `EveryLookupSucceeds` |
| `FailuresContained` | `FailureCostsOnlyItself` |
| `OneStory`, `GateExactly` | `ReportsAgree`, `GateExactWhereIdsDecide` |
| `AdviceFits` | `AdviceFitsAssessment` |

**Assumptions.** `CalendarAssumption` (a day has at least one tick, deprecation does not come after
prohibition), `RescanAssumption` (the bounds are numbers), `FindingAssumption` (a finding has the fields
that the engine reads; the size of its key and its expiry are numbers or absent), `MaxFindingsAssumption`, `ExtraAssumption` (`extra` holds no field whose value is the
absent value, which is true of every place that fills it), `DiskAssumption` and `ProjectAssumption` (paths are
sequences, and the disk holds the directory of whatever it holds), `MaxChangesAssumption`, and of the bridge
`NoneAssumption` and `LibraryAssumption` (values that are told apart), `CatalogAssumption`, and `ListingAssumption`: a library
lists exactly the names it has handles for, if it lists anything, and no name is both a KEM and a
signature. That one is about liboqs, and only `VerifyAgrees` needs its first half. Of the analyzer, `TreeAssumption`
says what the parser of Python sees to (the parts of a node and the arguments of a call are nodes, a class has a name, an imported name has a
part or more, the value of an integer literal is a number) for the nodes of any set `Nodes`, and `PackageAssumption` that a package is a list of names; of the detector, `ProgramAssumption`
that the usages are a list, with a part or more in each resolved name, confidences on the scale and lists where the analyzer gives lists (this is what `PythonAstProofs!DetectorIsServed` shows of each file); of the parser of certificates, `ArtifactAssumption` that
files and their blocks are lists of records, and `NoneAssumption`. `Scan` has a
`ProjectAssumption` of its own: no file occurs twice in a project, and none is both a source and an artifact. That is what
`EnvironmentProofs!Refines` shows of each walk (`Take` takes something new), and the two walks look for different
extensions. `OptionsAssumption` (`--fail-on` takes a level or `never`), `NoneAssumption` and
`AdviceAssumption` (no value is taken for the absent one) and `ReadersAssumption` are the others. The last is about the
operators of `Scan` that stand for the readers: files are read into lists, and findings have a level that is a number or absent, whichever
of the source files can be read. (Of the engine itself `DetectorTypeCorrect` proves that.) TLC
evaluates all of them in the runs of their modules.

**Risk.** The invariant only ties the assessment to the finding and the time, because `assess` is a
function of the two. The substance is in lemmas about that function. `QuantumFacts` lists what the
quantum reasons can say, from which `Urgency` follows by the cases of `_priority`.
`AssessMonotone` compares two moments in three cases: the finding has no date or had already expired
(`AssessConstant`), it is still valid (`AssessStillValid`: the quantum reasons are the same and the
warning can only appear), it expired in between (`AssessExpired`: the deadline may go, but expiry is
high on the classical axis, so the priority is immediate). `KeysWeighed` compares two sizes at one moment
instead: the size of a key speaks through one reason only (`OtherFields`, `OnlyTheSizeSpeaks`), which is the graver the
shorter the key (`ShorterIsWeaker`), so that neither maximum nor priority can be better (`LongerIsNoWorse`); that the two
tables agree is a matter of their entries (`StrengthFacts`, `ThresholdsAgree`). `ExpiryIsAnnounced` needs `DivWithin`, the
one fact about rounding.

**Deduplication.** Neither property of the occurrences is inductive: that nothing is lost in the next
step depends on the shape of the assets, on every key filed so far having an asset, and on no asset being
sorted before all findings are in. `IInv` states these together with the existence, for each asset,
of one map from its occurrences to the findings they record, which is one-to-one, onto, and in order.
`Collect` extends the map by one (`RecordedAppend`); `SortAsset` composes it with the permutation of the
sort, and stability gives the order of ties (`RecordedSorted`). `BInv` restates `FirstKnownWins` fact by
fact (`Told`), is preserved by a merge because a fact is heard only while it is unknown (`ToldNext`), and
is untouched by sorting.

`FilesEachOnce` follows the refinement step by step. `Collect` is `File`: the finding was waiting at least once and waits once
less (`WaitingNext`), and what it adds to an asset adds one copy to the bag of its occurrences, under its key and no other
(`BagAppend`). `SortAsset` stutters: the sort composes the occurrences with a permutation of their positions,
and so changes no count (`CopiesPermuted`).

**The detector.** `DInv` says that the index holds the methods of the calls read so far and nothing else, that no finding is
built before it holds all, and that the findings so far are what the calls so far give *with the whole index*
(`Pieces(Given, detected)`). That last conjunct is what an index used too early would break. So a run computes `Detect`, and the two properties become
facts about `Detect`. A call asks the index only for its own file (`SameContext`), the index of a file's calls answers
for that file as the whole index does (`FileContext`), and restricting to a file commutes with
mapping each call to its findings (`MappedTwice`): the files are independent. Reversed calls have the same index and give
the same bag (`MappedReverse`, `SameBag`). Type correctness goes through the whole rule table: every one of the 88
rules, and every entry of the tables it refers to, has a name, a purpose and numbers (`TableGood`), and each paragraph of
`_build` keeps this (`BuildGood`).

`NeverGuesses` needs one more invariant, `Traced`: each finding is one of those that the usage named by `origin` gives *with the whole
index at hand*. What remains is a statement about one usage. Of the rule table (`ProperRule`): a rule either resolves the purpose
of its finding and then states none, or states one; and a name that has a rule of the first kind
has none of the second (`Apart`). So every finding of such a call was built by a rule that resolves (`AskingBuilds`), and no later paragraph
of `_build` touches the purpose (`BuildAsks`). Of the index: what it holds about a name, over the three ways to reach the key, is what the
calls of the file say (`SaidIs`), because a receiver and a method make up a name in one way only (`NameParts`, `ToldBy`).
`AskedOfUse` then follows the tiers of `_purpose_from_usage`.

**Discovery.** The refinement needs two facts of every state. `Apart`: a file is in at most one place,
taken, in hand, or below a directory that is still to be listed or descended into, and these directories do not lie below
each other. It makes `Take` take something new, and it is why links must not be followed: with them two
ways could lead to one file. `Complete`: a file that is due and not taken is in one of these places, so
nothing due is left when there is no place any more. `Inside` (none of the directories still to list lies behind a steady link, and a
link in hand is one that the walk can see to be one) gives `Stays`. Other programs preserve all three because `due` shrinks with
`disturbed`.

**The bridge.** `Kept`: the saved descriptors are the user's, and the output leads to the user wherever
nothing is saved and no interrupt tore it. `Safe` limits what can be in flight, `Cached` says that
each answer given is the answer of the cached library; as the cache is filled once and the queries depend on nothing
else, answers stand, and `VerifyAgrees` compares two functions of one library: a name that is listed is a
name that has a handle (`ListedAndFound`).

**The walk of a tree.** A visitor changes a flag on entering a `try` and puts the old value back on leaving
it; that this is right depends on every frame below. `Nested` states it for all of them at once: the kind in force says whether some open
`try` guards an import, and the kind saved in a frame says it of the frames under that one. `Mirrored` gives the
heights of the three stacks as the numbers of open nodes of the kinds that push on them, so that each exit finds
what its entry pushed.

The bindings need three invariants, each on top of the one before. `Grounded` adds that the frames are a way down the
tree (`Walk`), that each binding in any scope, in the attributes of any class and in the history stands for a name that some
import visited vouches for, at no more than the confidence of that import (`Holds`, `Vouched`), and that the
same is true of each usage (`Reported`): an assignment passes on what its value stands for, with no more confidence than that has. `Tabled` adds that the scope of each open block holds exactly what the history says was made in it
(`Lexical`). This is inductive only with `Past`: no entry of the history is of a block that the walk has yet to come to,
so that a scope just pushed has, as it should, no entries. (The paths of `made` are compared with the positions of the
frames, `Behind`.) `Classed` says the same of the attributes, which are kept under names of classes instead
of blocks: that is why `AttributesStayInClass` excepts two classes of one name.
`Reporting` is of the usages: they lie where the walk has been (`Placed`), of several at one place none is certain (`Doubtful`), and each
entry of the stack of parents is the name of the first usage at the call it belongs to (`Answering`), which later usages do not change
because they are reported elsewhere.

`DetectorIsServed` joins the two halves of the detection: whatever the tree, each usage is `WellFormed`, which is all that
`ProgramAssumption` asks of it. It rests on `Holds`: no usage takes its name and confidence from a binding that says nothing
(`Opaque`, `UnresolvedRelative`: no confidence, no name to speak of). So the theorems about the detector are about the usages of real files.

**Certificates.** `Parsing` says what the findings so far were read from (`ReadFrom`), that the blocks left over are those of
the file (`Reading`), and that nothing legible among those passed is missing. `NothingLegibleIsLost` is by itself inductive only with
`Reading`. That the readers agree is shown in three steps. What the two make of a public key are the
`SameFacts`, by cases over the tables of object identifiers, whose entries carry the names they are filed
under (`Titled`, `BothMakeTheSame`). Then what a certificate or a key means (`Means`) is the same whoever read it, with its
purpose refined by the flags that both know (`CertificateMeans`, `KeyFindingMeans`). Last, findings that are `Alike`
have one migration status and one assessment, at any moment (`AlikeAssessed`). `PurposeIsOfOneUse` looks at the refinement of
the purpose alone (`RefinedPurpose`).

**The command.** `Running` is an invariant in five parts: `LInv` (below), `Course` (what each stage leaves done to the next), `Lists`
(what is collected are lists of findings), `Filed` (the occurrences of the assets name findings, and every
finding collected so far is named) and `Assessed` (the dicts have an entry for exactly the findings assessed so far, and where ids decide, each
finding finds its own, because whoever overwrote it wrote the same). `Filed` is proved through the merge and the
sort of `Aggregate`, the composed module. `LookupsSucceed` follows at once. For `OneStory` the worst of the
findings' assessments and the worst of the assets' range over the same ids, and levels are linearly ordered. `GateExactly` adds
that the maximum reaches a threshold if and only if some assessment does. `AdviceFits` needs what the two engines compute: which ladder
`recommend` climbs, how far a climb goes, and which weaknesses each purpose can have. The files are counted by an invariant of their own, `FInv`: what
waits to be read has no outcome yet (`Waiting`), so that no outcome is overwritten, and waiting files and outcomes add up to
`files_scanned` (`Counted`).

That the findings are those of a project without the failed files is `FailuresContained`. Its invariant `LInv` says of each stage how many
files have had their turn and that what is collected is, in order, what those of them gave that were read
(`Pieces`), so that it is at the end what all of them gave, and the engine is only ever asked about what some of the source files gave.

**Only model-checked.** `CountedOnce` of `Detector`, which depends on the program being one that the analyzer can produce: it counts the
findings at a place by the algorithm they name, and two unrelated calls at one place, which the constant `Program` does not exclude, are
counted together. It also excepts the calls that the code takes a hash for and does not read (`Unread`), so it is a table
of what the code does more than a promise. `FeedsDetector`, which compares the usages of thirteen files. The two `Terminates`, since liveness under fairness is out of
TLAPS's reach. The four violations. The theorems of the library that take an operator as a parameter, induction among them, cannot be instantiated
by the provers at hand. Where a proof needs induction over numbers or lists it goes through a set
and its least element (`LeastNumber`, `NumberInduction`, `ListInduction` in `Lemmas`), and recursion is
only met inside `FlattenSeq`, whose equations `Lemmas` derives (`FlattenIs`, `FlattenAppend`). No module declares a
`RECURSIVE` operator.

## 6. What is not modelled, and why

* The CBOM generator, `cbom/generator.py`: a pure translation of the list of assets to a document, without
  state. Two things in it are worth a look and are listed as hazards: it joins the fields of a key with a bar
  before hashing, and it looks for the artifact "encrypted private key" where the parser writes
  "encrypted-private-key".
* The reports' layout, logging, rationale texts, `display_name`, the `version` command.
* Standard output that cannot be written, and exceptions no handler of the program catches. Such an
  exception ends Python with exit code 1, the code of a failed gate; the detector, the fold and the
  assessment raise on nothing the models reach.
* `src/tools/evaluate.py`, a development tool.

## 7. Hazards

`PROJECT.json` lists them at their lines, each with the properties that would catch it going wrong, or
with the reason why no property does yet.

## 8. Plan

Done: every component but the CBOM generator, the reports and the evaluation tool, and the theorems above. What
could follow, in this order:

1. `CountedOnce`, with an assumption on `Program` that says which calls may share a place; the
   invariants to rest it on are `Traced` and the lemmas on the rule table.
2. `Cbom`: references and dependencies of the document resolve; equal digests of different keys.
3. `Certs` composed with `Scan`, in place of the findings that `MCScan` states.
