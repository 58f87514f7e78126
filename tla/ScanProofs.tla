------------------------------ MODULE ScanProofs ------------------------------
(***************************************************************************)
(* Theorems about a run of the command, for every project, every content   *)
(* of its files, every choice of options and every way the readers fail.   *)
(***************************************************************************)
EXTENDS Scan, Lemmas, FiniteSetTheorems

(***************************************************************************)
(* Lists of findings                                                       *)
(***************************************************************************)

GivesFindings(s) == IsSequence(s) /\ \A n \in 1..Len(s) : s[n].level \in Int \cup {None}

\* Two lists of findings make one.
LEMMA FindingsJoined ==
  ASSUME NEW s, GivesFindings(s), NEW t, GivesFindings(t)
  PROVE  GivesFindings(s \o t)
<1>1. IsSequence(s \o t)
  BY Joined DEF GivesFindings
<1>2. PICK S, T : s \in Seq(S) /\ t \in Seq(T)
  BY DEF GivesFindings, IsSequence
<1>3. s \in Seq(S \cup T) /\ t \in Seq(S \cup T)
  BY <1>2
<1>4. /\ Len(s \o t) = Len(s) + Len(t) /\ Len(s) \in Nat /\ Len(t) \in Nat
      /\ \A n \in 1..Len(s \o t) : (s \o t)[n] = IF n <= Len(s) THEN s[n] ELSE t[n - Len(s)]
  BY <1>3
<1> SUFFICES ASSUME NEW n \in 1..Len(s \o t)
             PROVE  (s \o t)[n].level \in Int \cup {None}
  BY <1>1 DEF GivesFindings
<1>5. CASE n <= Len(s)
  BY <1>4, <1>5 DEF GivesFindings
<1>6. CASE n > Len(s)
  <2>1. n - Len(s) \in 1..Len(t) /\ (s \o t)[n] = t[n - Len(s)]
    BY <1>4, <1>6
  <2> QED BY <2>1 DEF GivesFindings
<1> QED BY <1>4, <1>5, <1>6

\* No finding at all is a list of findings.
LEMMA NoFindings == GivesFindings(<<>>)
<1>1. <<>> \in Seq({})
  OBVIOUS
<1> QED BY <1>1 DEF GivesFindings, IsSequence

\* What the readers make of the files of a project.
LEMMA ReadersGive ==
  ASSUME NEW p \in Project
  PROVE  /\ \A i \in DOMAIN p.sources : IsSequence(Analyzed(p.sources[i]))
         /\ \A i \in DOMAIN p.artifacts : GivesFindings(Parsed(p.artifacts[i]))
         /\ \A read \in SUBSET DOMAIN p.sources :
              GivesFindings(Detected(FlattenSeq([i \in DOMAIN p.sources |->
                IF i \in read THEN Analyzed(p.sources[i]) ELSE <<>>])))
<1>1. ASSUME NEW s, ListOfFindings(s) PROVE GivesFindings(s)
  <2>1. s \in Seq(ToSet(s)) /\ \A f \in ToSet(s) : f.level \in Int \cup {None}
    BY <1>1 DEF ListOfFindings
  <2>2. \A n \in DOMAIN s : s[n] \in ToSet(s)
    BY DEF ToSet
  <2>3. DOMAIN s = 1..Len(s)
    BY <2>1
  <2> QED BY <2>1, <2>2, <2>3 DEF GivesFindings, IsSequence
<1>2. /\ \A i \in DOMAIN p.sources : Analyzed(p.sources[i]) \in Seq(ToSet(Analyzed(p.sources[i])))
      /\ \A read \in SUBSET DOMAIN p.sources :
           ListOfFindings(Detected(FlattenSeq([i \in DOMAIN p.sources |->
             IF i \in read THEN Analyzed(p.sources[i]) ELSE <<>>])))
      /\ \A i \in DOMAIN p.artifacts : ListOfFindings(Parsed(p.artifacts[i]))
  BY ReadersAssumption
<1> QED BY <1>1, <1>2 DEF IsSequence

(***************************************************************************)
(* The files                                                               *)
(***************************************************************************)

Stages == {"start", "sources", "artifacts", "aggregate", "assess", "report", "done"}

Reading == {"start", "sources", "artifacts"}

Distinct(s) == \A i, j \in DOMAIN s : s[i] = s[j] => i = j

\* No file waits twice, none that was read waits, and the artifacts wait for the
\* sources to be done.
Waiting ==
  /\ IsSequence(todo) /\ Distinct(todo)
  /\ IsFiniteSet(DOMAIN outcome)
  /\ \A i \in DOMAIN todo : todo[i] \notin DOMAIN outcome
  /\ stage = "start" => todo = <<>> /\ DOMAIN outcome = {}
  /\ stage = "sources" => \A j \in DOMAIN project.artifacts :
       /\ project.artifacts[j] \notin DOMAIN outcome
       /\ \A i \in DOMAIN todo : todo[i] # project.artifacts[j]

Counted ==
  /\ filesScanned = Len(todo) + Cardinality(DOMAIN outcome)
  /\ IsSequence(skipped)
  /\ {skipped[i] : i \in DOMAIN skipped} = {p \in DOMAIN outcome : outcome[p] = "raised"}

FInv == project \in Project /\ stage \in Stages /\ Waiting /\ Counted

\* What a project promises of its files.
LEMMA ProjectFacts ==
  ASSUME project \in Project
  PROVE  /\ IsSequence(project.sources) /\ Distinct(project.sources)
         /\ IsSequence(project.artifacts) /\ Distinct(project.artifacts)
         /\ \A i \in DOMAIN project.sources : \A j \in DOMAIN project.artifacts :
              project.sources[i] # project.artifacts[j]
<1>1. \A s \in {project.sources, project.artifacts} :
        s \in Seq({s[i] : i \in DOMAIN s}) /\ \A i, j \in DOMAIN s : s[i] = s[j] => i = j
  BY ProjectAssumption
<1>2. IsSequence(project.sources) /\ IsSequence(project.artifacts)
  BY <1>1 DEF IsSequence
<1>3. Distinct(project.sources) /\ Distinct(project.artifacts)
  BY <1>1 DEF Distinct
<1> QED BY <1>2, <1>3, ProjectAssumption

\* What is left of a list after its head.
LEMMA TailFacts ==
  ASSUME NEW s, IsSequence(s), s # <<>>, Distinct(s)
  PROVE  /\ IsSequence(Tail(s)) /\ Distinct(Tail(s)) /\ Len(Tail(s)) = Len(s) - 1
         /\ \A i \in DOMAIN Tail(s) : \E j \in DOMAIN s : Tail(s)[i] = s[j] /\ s[j] # Head(s)
         /\ \E j \in DOMAIN s : Head(s) = s[j]
<1>1. PICK S : s \in Seq(S)
  BY DEF IsSequence
<1>2. /\ Head(s) = s[1] /\ Tail(s) \in Seq(S) /\ Len(Tail(s)) = Len(s) - 1
      /\ \A i \in 1..Len(s) - 1 : Tail(s)[i] = s[i + 1]
  BY <1>1, HeadTailProperties
<1>3. /\ Len(s) \in Nat /\ Len(s) # 0 /\ DOMAIN s = 1..Len(s)
      /\ DOMAIN Tail(s) = 1..Len(s) - 1
  BY <1>1, <1>2
<1>4. IsSequence(Tail(s))
  BY <1>2 DEF IsSequence
<1> DEFINE t == Tail(s)
<1>5. t = Tail(s)
  OBVIOUS
<1> HIDE DEF t
<1>6. Distinct(t)
  <2> SUFFICES ASSUME NEW i \in DOMAIN t, NEW j \in DOMAIN t, t[i] = t[j] PROVE i = j
    BY DEF Distinct
  <2>1. s[i + 1] = s[j + 1] /\ i + 1 \in DOMAIN s /\ j + 1 \in DOMAIN s
    BY <1>2, <1>3, <1>5
  <2>2. i + 1 = j + 1
    BY <2>1 DEF Distinct
  <2> QED BY <1>3, <1>5, <2>2
<1>7. ASSUME NEW i \in DOMAIN t PROVE \E j \in DOMAIN s : t[i] = s[j] /\ s[j] # Head(s)
  <2>1. i + 1 \in DOMAIN s /\ 1 \in DOMAIN s /\ i + 1 # 1 /\ t[i] = s[i + 1]
    BY <1>2, <1>3, <1>5
  <2>2. s[i + 1] # Head(s)
    BY <1>2, <2>1 DEF Distinct
  <2> QED BY <2>1, <2>2
<1>8. 1 \in DOMAIN s
  BY <1>3
<1> QED BY <1>2, <1>4, <1>5, <1>6, <1>7, <1>8

\* One file is read: it waits no longer, and is skipped if its reader raised.
LEMMA FilesRead ==
  ASSUME FInv, NEW content, NEW result \in Outcome, todo # <<>>, Read(content, result)
  PROVE  Waiting' /\ Counted'
<1> DEFINE p == Head(todo)
<1>1. /\ todo' = Tail(todo) /\ outcome' = Put(outcome, p, result)
      /\ skipped' = IF result = "raised" THEN Append(skipped, p) ELSE skipped
      /\ filesScanned' = filesScanned /\ stage' = stage /\ project' = project
  BY DEF Read, Rest, input
<1>2. /\ IsSequence(todo) /\ Distinct(todo) /\ IsSequence(skipped)
      /\ IsFiniteSet(DOMAIN outcome)
  BY DEF FInv, Waiting, Counted
<1>3. /\ IsSequence(Tail(todo)) /\ Distinct(Tail(todo)) /\ Len(Tail(todo)) = Len(todo) - 1
      /\ \A i \in DOMAIN Tail(todo) : \E j \in DOMAIN todo : Tail(todo)[i] = todo[j] /\ todo[j] # p
      /\ \E j \in DOMAIN todo : p = todo[j]
  BY <1>2, TailFacts
<1> HIDE DEF p
<1>4. p \notin DOMAIN outcome
  BY <1>3 DEF FInv, Waiting
<1>5. /\ DOMAIN outcome' = DOMAIN outcome \cup {p}
      /\ outcome'[p] = result
      /\ \A q \in DOMAIN outcome : outcome'[q] = outcome[q]
  BY <1>1, <1>4 DEF Put
<1>6. /\ IsFiniteSet(DOMAIN outcome')
      /\ Cardinality(DOMAIN outcome') = Cardinality(DOMAIN outcome) + 1
      /\ Cardinality(DOMAIN outcome) \in Nat
  BY <1>2, <1>4, <1>5, FS_AddElement, FS_CardinalityType
<1>7. Waiting'
  <2>1. \A i \in DOMAIN todo' : todo'[i] \notin DOMAIN outcome'
    BY <1>1, <1>3, <1>5 DEF FInv, Waiting
  <2>2. IsSequence(todo') /\ Distinct(todo')
    BY <1>1, <1>3 DEF Distinct
  <2>3. stage' # "start"
    BY <1>1 DEF FInv, Waiting
  <2>4. ASSUME stage = "sources", NEW j \in DOMAIN project.artifacts
        PROVE  /\ project.artifacts[j] \notin DOMAIN outcome'
               /\ \A i \in DOMAIN todo' : todo'[i] # project.artifacts[j]
    BY <1>1, <1>3, <1>5, <2>4 DEF FInv, Waiting
  <2> QED BY <1>1, <1>6, <2>1, <2>2, <2>3, <2>4 DEF Waiting
<1>8. Counted'
  <2>1. filesScanned' = Len(todo') + Cardinality(DOMAIN outcome')
    BY <1>1, <1>2, <1>3, <1>6, SequenceFacts DEF FInv, Counted
  <2> DEFINE raised == {q \in DOMAIN outcome : outcome[q] = "raised"}
             names(s) == {s[i] : i \in DOMAIN s}
  <2>2. names(skipped) = raised
    BY DEF FInv, Counted
  <2>3. CASE result = "raised"
    <3> DEFINE grown == Append(skipped, p)
    <3>1. /\ Len(grown) = Len(skipped) + 1 /\ grown[Len(skipped) + 1] = p
          /\ \A i \in 1..Len(skipped) : grown[i] = skipped[i]
      BY <1>2, Appended
    <3>2. IsSequence(grown)
      BY <1>2, Appended
    <3> HIDE DEF grown
    <3>3. DOMAIN skipped = 1..Len(skipped) /\ DOMAIN grown = 1..Len(skipped) + 1 /\ Len(skipped) \in Nat
      BY <1>2, <3>1, <3>2, SequenceFacts
    <3>4. names(grown) = names(skipped) \cup {p}
      BY <3>1, <3>3
    <3>5. {q \in DOMAIN outcome' : outcome'[q] = "raised"} = raised \cup {p}
      BY <1>4, <1>5, <2>3
    <3>6. skipped' = grown
      BY <1>1, <2>3 DEF grown
    <3>7. {skipped'[i] : i \in DOMAIN skipped'} = {q \in DOMAIN outcome' : outcome'[q] = "raised"}
      BY <2>2, <3>4, <3>5, <3>6
    <3> QED BY <2>1, <3>2, <3>6, <3>7 DEF Counted
  <2>4. CASE result # "raised"
    <3>1. skipped' = skipped
      BY <1>1, <2>4
    <3>2. {q \in DOMAIN outcome' : outcome'[q] = "raised"} = raised
      BY <1>4, <1>5, <2>4
    <3>3. {skipped'[i] : i \in DOMAIN skipped'} = {q \in DOMAIN outcome' : outcome'[q] = "raised"}
      BY <2>2, <3>1, <3>2
    <3> QED BY <1>2, <2>1, <3>1, <3>3 DEF Counted
  <2> QED BY <2>3, <2>4
<1> QED BY <1>7, <1>8

\* Every file is counted once, whatever its reader does.
THEOREM FilesCounted == Spec => []FInv
<1>1. Init => FInv
  <2>1. Len(<<>>) = 0 /\ DOMAIN <<>> = {} /\ <<>> \in Seq({})
    OBVIOUS
  <2>2. IsSequence(<<>>)
    BY <2>1 DEF IsSequence
  <2>3. IsFiniteSet({}) /\ Cardinality({}) = 0
    BY FS_EmptySet
  <2> SUFFICES ASSUME Init PROVE FInv
    OBVIOUS
  <2>4. Waiting
    BY <2>1, <2>2, <2>3 DEF Init, Waiting, Distinct
  <2>5. Counted
    BY <2>1, <2>2, <2>3 DEF Init, Counted
  <2> QED BY <2>4, <2>5 DEF Init, FInv, Stages
<1>2. FInv /\ [Next]_vars => FInv'
  <2> SUFFICES ASSUME FInv, [Next]_vars PROVE FInv'
    OBVIOUS
  <2>1. project' = project /\ stage' \in Stages
    <3>1. CASE AggregateStep
      BY <3>1 DEF AggregateStep, input, FInv
    <3>2. CASE AggregateReturns \/ AssessNext \/ Render \/ Refuse \/ Start
      BY <3>2 DEF AggregateReturns, AssessNext, Render, Refuse, Start, input, FInv, Stages
    <3>3. CASE DetectSources \/ CollectArtifacts
      BY <3>3 DEF DetectSources, CollectArtifacts, input, FInv, Stages
    <3>4. CASE \E result \in Outcome : ReadSource(result) \/ ReadArtifact(result)
      BY <3>4 DEF ReadSource, ReadArtifact, Read, input, FInv
    <3>5. CASE (\E written \in BOOLEAN : Emit(written)) \/ UNCHANGED vars
      BY <3>5 DEF Emit, vars, input, FInv, Stages
    <3> QED BY <3>1, <3>2, <3>3, <3>4, <3>5 DEF Next
  <2>2. ASSUME UNCHANGED reading,
               stage' \in {"start", "sources"} => stage' = stage
        PROVE  Waiting' /\ Counted'
    BY <2>1, <2>2 DEF FInv, Waiting, Counted, Distinct, reading
  <2>3. ASSUME NEW s, IsSequence(s), Distinct(s), todo = <<>>,
               todo' = s, filesScanned' = filesScanned + Len(s), UNCHANGED <<skipped, outcome>>,
               \A i \in DOMAIN s : s[i] \notin DOMAIN outcome,
               stage' # "start",
               stage' = "sources" => \A j \in DOMAIN project.artifacts :
                 /\ project.artifacts[j] \notin DOMAIN outcome
                 /\ \A i \in DOMAIN s : s[i] # project.artifacts[j]
        PROVE  Waiting' /\ Counted'
    <3>1. Len(s) \in Nat /\ Len(todo) = 0 /\ Cardinality(DOMAIN outcome) \in Nat
      BY <2>3, SequenceFacts, FS_CardinalityType DEF FInv, Waiting
    <3>2. Waiting'
      BY <2>1, <2>3 DEF FInv, Waiting, Distinct
    <3>3. Counted'
      BY <2>3, <3>1 DEF FInv, Counted
    <3> QED BY <3>2, <3>3
  <2>4. CASE Start
    <3>1. /\ todo = <<>> /\ DOMAIN outcome = {} /\ todo' = project.sources
          /\ UNCHANGED <<skipped, outcome>> /\ stage' = "sources"
          /\ filesScanned' = Len(project.sources)
      BY <2>4 DEF Start, FInv, Waiting
    <3>2. filesScanned = 0
      BY <3>1, FS_EmptySet DEF FInv, Counted
    <3>3. /\ IsSequence(project.sources) /\ Distinct(project.sources)
          /\ \A i \in DOMAIN project.sources : \A j \in DOMAIN project.artifacts :
               project.sources[i] # project.artifacts[j]
      BY ProjectFacts DEF FInv
    <3>4. Len(project.sources) \in Nat
      BY <3>3, SequenceFacts
    <3> QED BY <2>1, <2>3, <3>1, <3>2, <3>3, <3>4 DEF FInv
  <2>5. CASE DetectSources
    <3>1. /\ stage = "sources" /\ todo = <<>> /\ UNCHANGED <<skipped, outcome>>
          /\ options.artifacts => /\ todo' = project.artifacts /\ stage' = "artifacts"
                                 /\ filesScanned' = filesScanned + Len(project.artifacts)
          /\ ~options.artifacts => stage' = "aggregate" /\ UNCHANGED <<todo, filesScanned>>
      BY <2>5 DEF DetectSources
    <3>2. IsSequence(project.artifacts) /\ Distinct(project.artifacts)
      BY ProjectFacts DEF FInv
    <3>3. CASE options.artifacts
      BY <2>1, <2>3, <3>1, <3>2, <3>3 DEF FInv, Waiting
    <3>4. CASE ~options.artifacts
      BY <2>1, <3>1, <3>4 DEF FInv, Waiting, Counted, Distinct, reading
    <3> QED BY <2>1, <3>3, <3>4 DEF FInv
  <2>6. CASE CollectArtifacts
    BY <2>1, <2>6 DEF CollectArtifacts, FInv, Waiting, Counted, Distinct
  <2>7. ASSUME NEW result \in Outcome, ReadSource(result) \/ ReadArtifact(result) PROVE FInv'
    BY <2>1, <2>7, FilesRead DEF ReadSource, ReadArtifact, FInv
  <2>8. CASE AggregateStep \/ AggregateReturns \/ AssessNext \/ Render \/ Refuse
    BY <2>1, <2>2, <2>8 DEF AggregateStep, AggregateReturns, AssessNext, Render, Refuse, FInv
  <2>9. ASSUME NEW written \in BOOLEAN, Emit(written) PROVE FInv'
    BY <2>1, <2>2, <2>9 DEF Emit, FInv
  <2>10. CASE UNCHANGED vars
    BY <2>1, <2>2, <2>10 DEF vars, FInv
  <2> QED BY <2>4, <2>5, <2>6, <2>7, <2>8, <2>9, <2>10 DEF Next
<1> QED BY <1>1, <1>2, PTL DEF Spec

(***************************************************************************)
(* What an unreadable file costs                                           *)
(***************************************************************************)

\* What the files add, one after the other.
Source == [i \in DOMAIN project.sources |-> Gives(project.sources[i], Analyzed)]

Artifact == [i \in DOMAIN project.artifacts |-> Gives(project.artifacts[i], Parsed)]

FromSources == AllOf(project.sources, Analyzed)

FromArtifacts == IF options.artifacts THEN AllOf(project.artifacts, Parsed) ELSE <<>>

FirstOf(files, n) == {files[i] : i \in 1..n}

\* n files have been read, and the others are waiting in their order.
ReadOf(files, n) ==
  /\ n \in 0..Len(files)
  /\ IsSequence(todo) /\ Len(todo) = Len(files) - n
  /\ \A i \in 1..Len(todo) : todo[i] = files[n + i]

\* Nothing is known before the first file, then what the first n files add is
\* collected, and in the end everything is found.
Losses ==
  /\ stage = "start" => DOMAIN outcome = {} /\ collected = <<>> /\ findings = <<>>
  /\ stage = "sources" => \E n \in Nat :
       /\ ReadOf(project.sources, n)
       /\ DOMAIN outcome = FirstOf(project.sources, n)
       /\ filesScanned = Len(project.sources)
       /\ collected = Pieces(Source, n)
       /\ findings = <<>>
  /\ stage = "artifacts" => \E n \in Nat :
       /\ options.artifacts
       /\ ReadOf(project.artifacts, n)
       /\ DOMAIN outcome = FirstOf(project.sources, Len(project.sources))
                             \cup FirstOf(project.artifacts, n)
       /\ filesScanned = Len(project.sources) + Len(project.artifacts)
       /\ collected = Pieces(Artifact, n)
       /\ findings = Detected(FromSources)
  /\ stage \in {"aggregate", "assess", "report"} \/ Finished =>
       /\ DOMAIN outcome = {Files[i] : i \in DOMAIN Files}
       /\ filesScanned = Len(Files)
       /\ findings = Detected(FromSources) \o FromArtifacts

LInv == project \in Project /\ stage \in Stages /\ Losses

\* The files are lists without repetition.
LEMMA PieceFacts ==
  ASSUME project \in Project
  PROVE  /\ Len(project.sources) \in Nat /\ DOMAIN project.sources = 1..Len(project.sources)
         /\ Len(project.artifacts) \in Nat /\ DOMAIN project.artifacts = 1..Len(project.artifacts)
         /\ \A i \in 1..Len(project.sources) : IsSequence(Source[i])
         /\ \A i \in 1..Len(project.artifacts) : IsSequence(Artifact[i])
         /\ FromSources = Pieces(Source, Len(project.sources))
         /\ AllOf(project.artifacts, Parsed) = Pieces(Artifact, Len(project.artifacts))
         /\ FromArtifacts = IF options.artifacts THEN Pieces(Artifact, Len(project.artifacts)) ELSE <<>>
<1>1. IsSequence(project.sources) /\ IsSequence(project.artifacts)
  BY ProjectFacts
<1>2. /\ Len(project.sources) \in Nat /\ DOMAIN project.sources = 1..Len(project.sources)
      /\ Len(project.artifacts) \in Nat /\ DOMAIN project.artifacts = 1..Len(project.artifacts)
  BY <1>1, SequenceFacts
<1>3. /\ \A i \in 1..Len(project.sources) : IsSequence(Gives(project.sources[i], Analyzed))
      /\ \A i \in 1..Len(project.artifacts) : IsSequence(Gives(project.artifacts[i], Parsed))
  BY <1>2, ReadersGive, NoFindings DEF GivesFindings, Gives
<1>4. /\ \A i \in 1..Len(project.sources) : Source[i] = Gives(project.sources[i], Analyzed)
      /\ \A i \in 1..Len(project.artifacts) : Artifact[i] = Gives(project.artifacts[i], Parsed)
  BY <1>2 DEF Source, Artifact
<1>5. /\ \A i \in 1..Len(project.sources) : IsSequence(Source[i])
      /\ \A i \in 1..Len(project.artifacts) : IsSequence(Artifact[i])
  BY <1>3, <1>4
<1>6. Source = [i \in 1..Len(project.sources) |-> Source[i]]
  BY <1>2 DEF Source
<1>7. Artifact = [i \in 1..Len(project.artifacts) |-> Artifact[i]]
  BY <1>2 DEF Artifact
<1>8. FromSources = FlattenSeq(Source) /\ AllOf(project.artifacts, Parsed) = FlattenSeq(Artifact)
  BY Zenon DEF FromSources, AllOf, Source, Artifact
<1>9. FromSources = Pieces(Source, Len(project.sources))
  BY <1>6, <1>8, Zenon DEF Pieces
<1>10. AllOf(project.artifacts, Parsed) = Pieces(Artifact, Len(project.artifacts))
  BY <1>7, <1>8, Zenon DEF Pieces
<1> QED BY <1>2, <1>5, <1>9, <1>10 DEF FromArtifacts

\* What was read stays read: an outcome more says nothing new of the first files.
LEMMA PiecesKept ==
  ASSUME NEW p, NEW q, NEW n \in Nat, \A i \in 1..n : p[i] = q[i]
  PROVE  Pieces(p, n) = Pieces(q, n)
<1>1. [i \in 1..n |-> p[i]] = [i \in 1..n |-> q[i]]
  OBVIOUS
<1> QED BY <1>1 DEF Pieces

\* One turn of _read_each: the next file leaves the list.
LEMMA TurnFacts ==
  ASSUME NEW files, IsSequence(files), NEW n \in Nat, ReadOf(files, n), todo # <<>>, todo' = Tail(todo)
  PROVE  /\ Head(todo) = files[n + 1] /\ n + 1 \in 1..Len(files)
         /\ ReadOf(files, n + 1)'
<1>1. Len(todo) \in Nat /\ Len(todo) # 0 /\ Len(files) \in Nat
  BY SequenceFacts DEF ReadOf
<1>2. PICK S : todo \in Seq(S)
  BY DEF ReadOf, IsSequence
<1>3. Head(todo) = todo[1] /\ Tail(todo) \in Seq(S) /\ Len(Tail(todo)) = Len(todo) - 1
      /\ \A i \in 1..Len(todo) - 1 : Tail(todo)[i] = todo[i + 1]
  BY <1>2, <1>1
<1>4. Head(todo) = files[n + 1] /\ n + 1 \in 1..Len(files)
  BY <1>1, <1>3 DEF ReadOf
<1>5. \A i \in 1..Len(todo) - 1 : i + 1 \in 1..Len(todo) /\ todo[i + 1] = files[n + (i + 1)]
  BY <1>1 DEF ReadOf
<1>6. \A i \in 1..Len(todo') : todo'[i] = files[(n + 1) + i]
  <2> SUFFICES ASSUME NEW i \in 1..Len(todo') PROVE todo'[i] = files[(n + 1) + i]
    OBVIOUS
  <2>1. i \in 1..Len(todo) - 1 /\ n + (i + 1) = (n + 1) + i
    BY <1>1, <1>3
  <2> QED BY <1>3, <1>5, <2>1
<1> QED BY <1>1, <1>3, <1>4, <1>6 DEF ReadOf, IsSequence

\* A turn on a source file.
LEMMA LossesSource ==
  ASSUME LInv, NEW result \in Outcome, ReadSource(result)
  PROVE  LInv'
<1> DEFINE files == project.sources
<1>1. /\ stage = "sources" /\ stage' = stage /\ project' = project /\ todo # <<>>
      /\ todo' = Tail(todo) /\ filesScanned' = filesScanned /\ findings' = findings
      /\ outcome' = Put(outcome, Head(todo), result)
      /\ collected' = IF result = "read" THEN collected \o Analyzed(Head(todo)) ELSE collected
  BY DEF ReadSource, Read, Rest, input
<1>2. PICK n \in Nat : /\ ReadOf(files, n) /\ DOMAIN outcome = FirstOf(files, n)
                       /\ filesScanned = Len(files)
                       /\ collected = Pieces(Source, n)
                       /\ findings = <<>>
  BY <1>1 DEF LInv, Losses
<1>3. IsSequence(files) /\ Distinct(files) /\ Len(files) \in Nat /\ DOMAIN files = 1..Len(files)
  BY ProjectFacts, PieceFacts DEF LInv
<1>4. Head(todo) = files[n + 1] /\ n + 1 \in 1..Len(files) /\ ReadOf(files, n + 1)'
  BY <1>1, <1>2, <1>3, TurnFacts
<1>5. \A i \in 1..n : files[i] # files[n + 1] /\ i \in DOMAIN files
  BY <1>3, <1>4 DEF Distinct
<1>6. /\ \A i \in 1..n : outcome'[files[i]] = outcome[files[i]]
      /\ outcome'[files[n + 1]] = result
      /\ DOMAIN outcome' = DOMAIN outcome \cup {files[n + 1]}
  BY <1>1, <1>2, <1>4, <1>5 DEF Put, FirstOf
<1>7. DOMAIN outcome' = FirstOf(files, n + 1)
  BY <1>2, <1>6 DEF FirstOf
<1>8. \A i \in 1..Len(files) :
        /\ Source[i] = IF outcome[files[i]] = "read" THEN Analyzed(files[i]) ELSE <<>>
        /\ Source'[i] = IF outcome'[files[i]] = "read" THEN Analyzed(files[i]) ELSE <<>>
  BY <1>1, <1>3 DEF Source, Gives
<1>9. \A i \in 1..n : Source'[i] = Source[i]
  BY <1>3, <1>4, <1>6, <1>8
<1>10. Source'[n + 1] = IF result = "read" THEN Analyzed(files[n + 1]) ELSE <<>>
  BY <1>4, <1>6, <1>8
<1>11. \A i \in 1..n + 1 : IsSequence(Source'[i])
  <2>1. project' \in Project
    BY <1>1 DEF LInv
  <2>2. \A i \in 1..n : IsSequence(Source'[i])
    BY <1>3, <1>4, <1>9, PieceFacts DEF LInv
  <2>3. IsSequence(Source'[n + 1])
    <3>1. IsSequence(Analyzed(files[n + 1]))
      BY <1>3, <1>4, ReadersGive DEF LInv, GivesFindings
    <3> QED BY <1>10, <3>1, NoFindings DEF GivesFindings
  <2> QED BY <2>2, <2>3
<1>12. Pieces(Source', n + 1) = Pieces(Source', n) \o Source'[n + 1] /\ IsSequence(Pieces(Source', n))
  BY <1>11, OnePieceMore
<1>13. Pieces(Source', n) = Pieces(Source, n)
  BY <1>9, PiecesKept
<1>14. collected' = Pieces(Source', n + 1)
  <2>1. CASE result = "read"
    BY <1>1, <1>2, <1>4, <1>10, <1>12, <1>13, <2>1
  <2>2. CASE result # "read"
    <3>1. Pieces(Source, n) \o <<>> = Pieces(Source, n)
      BY <1>12, <1>13 DEF IsSequence
    <3> QED BY <1>1, <1>2, <1>10, <1>12, <1>13, <2>2, <3>1
  <2> QED BY <2>1, <2>2
<1>15. collected' = Pieces(Source, n + 1)'
  BY <1>14 DEF Pieces
<1>16. n + 1 \in Nat
  OBVIOUS
<1> QED BY <1>1, <1>2, <1>4, <1>7, <1>15, <1>16 DEF LInv, Losses, FirstOf, Finished

\* A turn on an artifact: what the sources gave stays as it is.
LEMMA LossesArtifact ==
  ASSUME LInv, NEW result \in Outcome, ReadArtifact(result)
  PROVE  LInv'
<1> DEFINE files == project.artifacts
           sources == project.sources
<1>1. /\ stage = "artifacts" /\ stage' = stage /\ project' = project /\ todo # <<>>
      /\ todo' = Tail(todo) /\ filesScanned' = filesScanned /\ findings' = findings
      /\ options' = options
      /\ outcome' = Put(outcome, Head(todo), result)
      /\ collected' = IF result = "read" THEN collected \o Parsed(Head(todo)) ELSE collected
  BY DEF ReadArtifact, Read, Rest, input
<1>2. PICK n \in Nat : /\ options.artifacts
                       /\ ReadOf(files, n)
                       /\ DOMAIN outcome = FirstOf(sources, Len(sources)) \cup FirstOf(files, n)
                       /\ filesScanned = Len(sources) + Len(files)
                       /\ collected = Pieces(Artifact, n)
                       /\ findings = Detected(FromSources)
  BY <1>1 DEF LInv, Losses
<1>3. /\ IsSequence(files) /\ Distinct(files) /\ Len(files) \in Nat /\ DOMAIN files = 1..Len(files)
      /\ Len(sources) \in Nat /\ DOMAIN sources = 1..Len(sources)
      /\ \A i \in DOMAIN sources : \A j \in DOMAIN files : sources[i] # files[j]
  BY ProjectFacts, PieceFacts DEF LInv
<1>4. Head(todo) = files[n + 1] /\ n + 1 \in 1..Len(files) /\ ReadOf(files, n + 1)'
  BY <1>1, <1>2, <1>3, TurnFacts
<1>5. \A i \in 1..n : files[i] # files[n + 1] /\ i \in DOMAIN files
  BY <1>3, <1>4 DEF Distinct
<1>6. /\ \A i \in 1..n : outcome'[files[i]] = outcome[files[i]]
      /\ \A i \in 1..Len(sources) : outcome'[sources[i]] = outcome[sources[i]]
      /\ outcome'[files[n + 1]] = result
      /\ DOMAIN outcome' = DOMAIN outcome \cup {files[n + 1]}
  BY <1>1, <1>2, <1>3, <1>4, <1>5 DEF Put, FirstOf
<1>7. DOMAIN outcome' = FirstOf(sources, Len(sources)) \cup FirstOf(files, n + 1)
  BY <1>2, <1>6 DEF FirstOf
<1>8. \A i \in 1..Len(files) :
        /\ Artifact[i] = IF outcome[files[i]] = "read" THEN Parsed(files[i]) ELSE <<>>
        /\ Artifact'[i] = IF outcome'[files[i]] = "read" THEN Parsed(files[i]) ELSE <<>>
  BY <1>1, <1>3 DEF Artifact, Gives
<1>9. \A i \in 1..n : Artifact'[i] = Artifact[i]
  BY <1>3, <1>4, <1>6, <1>8
<1>10. Artifact'[n + 1] = IF result = "read" THEN Parsed(files[n + 1]) ELSE <<>>
  BY <1>4, <1>6, <1>8
<1>11. \A i \in 1..n + 1 : IsSequence(Artifact'[i])
  <2>1. \A i \in 1..n : IsSequence(Artifact'[i])
    BY <1>3, <1>4, <1>9, PieceFacts DEF LInv
  <2>2. IsSequence(Artifact'[n + 1])
    <3>1. IsSequence(Parsed(files[n + 1]))
      BY <1>3, <1>4, ReadersGive DEF LInv, GivesFindings
    <3> QED BY <1>10, <3>1, NoFindings DEF GivesFindings
  <2> QED BY <2>1, <2>2
<1>12. Pieces(Artifact', n + 1) = Pieces(Artifact', n) \o Artifact'[n + 1]
       /\ IsSequence(Pieces(Artifact', n))
  BY <1>11, OnePieceMore
<1>13. Pieces(Artifact', n) = Pieces(Artifact, n)
  BY <1>9, PiecesKept
<1>14. collected' = Pieces(Artifact', n + 1)
  <2>1. CASE result = "read"
    BY <1>1, <1>2, <1>4, <1>10, <1>12, <1>13, <2>1
  <2>2. CASE result # "read"
    <3>1. Pieces(Artifact, n) \o <<>> = Pieces(Artifact, n)
      BY <1>12, <1>13 DEF IsSequence
    <3> QED BY <1>1, <1>2, <1>10, <1>12, <1>13, <2>2, <3>1
  <2> QED BY <2>1, <2>2
<1>15. collected' = Pieces(Artifact, n + 1)'
  BY <1>14 DEF Pieces
<1>16. FromSources' = FromSources
  <2>1. \A i \in DOMAIN sources : Gives(sources[i], Analyzed)' = Gives(sources[i], Analyzed)
    BY <1>1, <1>3, <1>6 DEF Gives
  <2>2. Source' = Source
    BY <1>1, <2>1 DEF Source
  <2>3. FromSources = FlattenSeq(Source) /\ FromSources' = FlattenSeq(Source')
    BY Zenon DEF FromSources, AllOf, Source
  <2> QED BY <2>2, <2>3
<1>17. n + 1 \in Nat /\ (FirstOf(sources, Len(sources)))' = FirstOf(sources, Len(sources))
  BY <1>1 DEF FirstOf
<1> QED BY <1>1, <1>2, <1>4, <1>7, <1>15, <1>16, <1>17 DEF LInv, Losses, FirstOf, Finished

\* All of a list of files has been read when nothing is left to read.
LEMMA AllRead ==
  ASSUME NEW files, Len(files) \in Nat, NEW n \in Nat, ReadOf(files, n), todo = <<>>
  PROVE  n = Len(files)
<1>1. Len(todo) = 0
  OBVIOUS
<1> QED BY <1>1 DEF ReadOf

\* None has been read at first.
LEMMA NoneRead ==
  ASSUME NEW files, IsSequence(files), todo' = files
  PROVE  ReadOf(files, 0)'
  BY SequenceFacts DEF ReadOf

\* The files of the scan are those of its project, sources first.
LEMMA FilesFacts ==
  ASSUME project \in Project
  PROVE  /\ Len(Files) = Len(project.sources)
                           + IF options.artifacts THEN Len(project.artifacts) ELSE 0
         /\ {Files[i] : i \in DOMAIN Files}
              = FirstOf(project.sources, Len(project.sources))
                  \cup IF options.artifacts THEN FirstOf(project.artifacts, Len(project.artifacts)) ELSE {}
<1> DEFINE more == IF options.artifacts THEN project.artifacts ELSE <<>>
<1>1. IsSequence(project.sources) /\ IsSequence(more)
  BY ProjectFacts, NoFindings DEF GivesFindings
<1>2. Files = project.sources \o more
  BY DEF Files
<1>3. /\ Len(project.sources) \in Nat /\ DOMAIN project.sources = 1..Len(project.sources)
      /\ Len(more) \in Nat /\ DOMAIN more = 1..Len(more)
  BY <1>1, SequenceFacts
<1>4. Len(more) = IF options.artifacts THEN Len(project.artifacts) ELSE 0
  OBVIOUS
<1>5. FirstOf(more, Len(more))
        = IF options.artifacts THEN FirstOf(project.artifacts, Len(project.artifacts)) ELSE {}
  BY DEF FirstOf
<1> HIDE DEF more
<1>6. Len(Files) = Len(project.sources) + Len(more)
  BY <1>1, <1>2 DEF IsSequence
<1>7. \A x : Has(Files, x) <=> Has(project.sources, x) \/ Has(more, x)
  BY <1>1, <1>2, HasJoin
<1>8. {Files[i] : i \in DOMAIN Files}
        = FirstOf(project.sources, Len(project.sources)) \cup FirstOf(more, Len(more))
  BY <1>3, <1>7 DEF Has, FirstOf
<1> QED BY <1>4, <1>5, <1>6, <1>8

\* When all sources are read, what is collected is what they gave,
LEMMA AllCollected ==
  ASSUME LInv, stage = "sources", todo = <<>>
  PROVE  collected = FromSources
<1>1. PICK n \in Nat : ReadOf(project.sources, n) /\ collected = Pieces(Source, n)
  BY DEF LInv, Losses
<1>2. n = Len(project.sources)
  BY <1>1, AllRead, PieceFacts DEF LInv
<1> QED BY <1>1, <1>2, PieceFacts DEF LInv

\* of which the engine makes findings.
LEMMA DetectedGives ==
  ASSUME project \in Project
  PROVE  GivesFindings(Detected(FromSources))
<1> DEFINE sources == project.sources
           read == {i \in DOMAIN sources : outcome[sources[i]] = "read"}
           gives == [i \in DOMAIN sources |-> IF i \in read THEN Analyzed(sources[i]) ELSE <<>>]
<1>1. FromSources = FlattenSeq(Source)
  BY Zenon DEF FromSources, AllOf, Source
<1>2. gives = Source
  BY DEF Source, Gives
<1>3. read \in SUBSET DOMAIN sources
  OBVIOUS
<1>4. GivesFindings(Detected(FlattenSeq(gives)))
  BY <1>3, ReadersGive
<1> HIDE DEF gives
<1> QED BY <1>1, <1>2, <1>4

\* The invariant holds of the initial states,
LEMMA LossesInit == Init => LInv
  BY DEF Init, LInv, Losses, Finished, Stages

\* and every step preserves it.
LEMMA LossesNext ==
  ASSUME LInv, [Next]_vars
  PROVE  LInv'
<1>1. /\ IsSequence(project.sources) /\ IsSequence(project.artifacts)
      /\ Len(project.sources) \in Nat /\ Len(project.artifacts) \in Nat
  BY ProjectFacts, PieceFacts DEF LInv
<1>2. CASE Refuse
  BY <1>2 DEF Refuse, LInv, Losses, Finished, Stages, input
<1>3. CASE Start
  <2>1. /\ stage = "start" /\ stage' = "sources" /\ project' = project /\ todo' = project.sources
        /\ filesScanned' = Len(project.sources) /\ UNCHANGED <<outcome, collected, findings>>
    BY <1>3 DEF Start, input
  <2>2. DOMAIN outcome = {} /\ collected = <<>> /\ findings = <<>>
    BY <2>1 DEF LInv, Losses
  <2>3. ReadOf(project.sources, 0)'
    BY <1>1, <2>1, NoneRead
  <2>4. Pieces(Source, 0)' = <<>>
    BY NoPieces, Zenon
  <2>5. FirstOf(project.sources, 0)' = {}
    BY DEF FirstOf
  <2>6. Losses'
    BY <2>1, <2>2, <2>3, <2>4, <2>5 DEF Losses, Finished
  <2> QED BY <2>1, <2>6 DEF LInv, Stages
<1>4. CASE DetectSources
  <2>1. /\ stage = "sources" /\ todo = <<>> /\ findings' = findings \o Detected(collected)
        /\ collected' = <<>> /\ outcome' = outcome /\ project' = project /\ options' = options
        /\ options.artifacts => /\ stage' = "artifacts" /\ todo' = project.artifacts
                                /\ filesScanned' = filesScanned + Len(project.artifacts)
        /\ ~options.artifacts => stage' = "aggregate" /\ filesScanned' = filesScanned
    BY <1>4 DEF DetectSources, input
  <2>2. /\ DOMAIN outcome = FirstOf(project.sources, Len(project.sources))
        /\ filesScanned = Len(project.sources)
        /\ collected = Pieces(Source, Len(project.sources)) /\ findings = <<>>
    BY <1>1, <2>1, AllRead DEF LInv, Losses
  <2>3. collected = FromSources
    BY <2>1, AllCollected
  <2>4. IsSequence(Detected(collected))
    BY <2>3, DetectedGives DEF LInv, GivesFindings
  <2>5. findings' = Detected(FromSources) /\ findings' \o <<>> = findings'
    BY <2>1, <2>2, <2>3, <2>4 DEF IsSequence
  <2>6. FromSources' = FromSources
    BY <2>1 DEF FromSources, AllOf, Gives
  <2>7. CASE options.artifacts
    <3>1. ReadOf(project.artifacts, 0)'
      BY <1>1, <2>1, <2>7, NoneRead
    <3>2. Pieces(Artifact, 0)' = <<>>
      BY NoPieces, Zenon
    <3>3. FirstOf(project.artifacts, 0)' = {}
      BY DEF FirstOf
    <3>4. FirstOf(project.sources, Len(project.sources))' = FirstOf(project.sources, Len(project.sources))
      BY <2>1 DEF FirstOf
    <3>5. Losses'
      BY <2>1, <2>2, <2>5, <2>6, <2>7, <3>1, <3>2, <3>3, <3>4 DEF Losses, Finished
    <3> QED BY <2>1, <2>7, <3>5 DEF LInv, Stages
  <2>8. CASE ~options.artifacts
    <3>1. FromArtifacts' = <<>> /\ Files' = Files
      BY <2>1, <2>8 DEF FromArtifacts, Files
    <3>2. DOMAIN outcome = {Files[i] : i \in DOMAIN Files} /\ filesScanned = Len(Files)
      BY <1>1, <2>2, <2>8, FilesFacts DEF LInv
    <3>3. Losses'
      BY <2>1, <2>5, <2>6, <2>8, <3>1, <3>2 DEF Losses, Finished
    <3> QED BY <2>1, <2>8, <3>3 DEF LInv, Stages
  <2> QED BY <2>7, <2>8
<1>5. CASE CollectArtifacts
  <2>1. /\ stage = "artifacts" /\ todo = <<>> /\ findings' = findings \o collected
        /\ stage' = "aggregate"
        /\ UNCHANGED <<outcome, project, options, filesScanned>>
    BY <1>5 DEF CollectArtifacts, input
  <2>2. /\ options.artifacts
        /\ DOMAIN outcome = FirstOf(project.sources, Len(project.sources))
                              \cup FirstOf(project.artifacts, Len(project.artifacts))
        /\ filesScanned = Len(project.sources) + Len(project.artifacts)
        /\ collected = Pieces(Artifact, Len(project.artifacts))
        /\ findings = Detected(FromSources)
    BY <1>1, <2>1, AllRead DEF LInv, Losses
  <2>3. collected = FromArtifacts
    BY <2>2, PieceFacts DEF LInv
  <2>4. FromSources' = FromSources /\ FromArtifacts' = FromArtifacts /\ Files' = Files
    BY <2>1 DEF FromSources, FromArtifacts, AllOf, Gives, Files
  <2>5. DOMAIN outcome = {Files[i] : i \in DOMAIN Files} /\ filesScanned = Len(Files)
    BY <1>1, <2>2, FilesFacts DEF LInv
  <2>6. Losses'
    BY <2>1, <2>2, <2>3, <2>4, <2>5 DEF Losses, Finished
  <2> QED BY <2>1, <2>6 DEF LInv, Stages
<1>6. ASSUME UNCHANGED <<project, options, outcome, filesScanned, findings, collected, todo>>,
             \/ stage' = stage
             \/ /\ stage \in {"aggregate", "assess", "report"}
                /\ stage' \in {"assess", "report", "done"}
      PROVE  LInv'
  <2>1. /\ FromSources' = FromSources /\ FromArtifacts' = FromArtifacts /\ Files' = Files
        /\ Source' = Source /\ Artifact' = Artifact
    BY <1>6 DEF FromSources, FromArtifacts, AllOf, Gives, Files, Source, Artifact
  <2>2. CASE stage' = stage
    <3>1. \A n : /\ ReadOf(project.sources, n)' <=> ReadOf(project.sources, n)
                 /\ ReadOf(project.artifacts, n)' <=> ReadOf(project.artifacts, n)
                 /\ FirstOf(project.sources, n)' = FirstOf(project.sources, n)
                 /\ FirstOf(project.artifacts, n)' = FirstOf(project.artifacts, n)
                 /\ Pieces(Source, n)' = Pieces(Source, n)
                 /\ Pieces(Artifact, n)' = Pieces(Artifact, n)
      BY <1>6, <2>1 DEF ReadOf, FirstOf, Pieces
    <3>2. FirstOf(project.sources, Len(project.sources))' = FirstOf(project.sources, Len(project.sources))
      BY <1>6 DEF FirstOf
    <3>3. project' = project /\ (Finished' <=> Finished) /\ stage' = stage
      BY <1>6, <2>2 DEF Finished
    <3>4. Losses'
      BY <1>6, <2>1, <3>1, <3>2, <3>3 DEF LInv, Losses
    <3> QED BY <3>3, <3>4 DEF LInv
  <2>3. CASE stage \in {"aggregate", "assess", "report"} /\ stage' \in {"assess", "report", "done"}
    BY <1>6, <2>1, <2>3 DEF LInv, Losses, Finished, Stages
  <2> QED BY <1>6, <2>2, <2>3
<1>7. CASE AggregateStep
  BY <1>6, <1>7 DEF AggregateStep, Agg!Next, Agg!Collect, Agg!SortAsset, reading, input
<1>8. CASE AggregateReturns \/ AssessNext \/ Render
  BY <1>6, <1>8 DEF AggregateReturns, AssessNext, Render, reading, input
<1>9. ASSUME NEW written \in BOOLEAN, Emit(written) PROVE LInv'
  BY <1>6, <1>9 DEF Emit, reading, input
<1>10. CASE UNCHANGED vars
  BY <1>6, <1>10 DEF vars, reading, input
<1>11. ASSUME NEW result \in Outcome, ReadSource(result) \/ ReadArtifact(result) PROVE LInv'
  BY <1>11, LossesSource, LossesArtifact
<1> QED BY <1>2, <1>3, <1>4, <1>5, <1>7, <1>8, <1>9, <1>10, <1>11 DEF Next

\* A file that cannot be read costs only itself: the findings are those of a project
\* without it, and no file is dropped in silence, whatever the files give and
\* whichever readers fail (scan.py, _read_each).
THEOREM FailuresContained == Spec => []FailureCostsOnlyItself
<1>1. LInv => FailureCostsOnlyItself
  <2> SUFFICES ASSUME LInv, Finished PROVE FailureCostsOnlyItself
    BY DEF FailureCostsOnlyItself
  <2>1. /\ DOMAIN outcome = {Files[i] : i \in DOMAIN Files} /\ filesScanned = Len(Files)
        /\ findings = Detected(FromSources) \o FromArtifacts
    BY DEF LInv, Losses
  <2> QED BY <2>1, Zenon DEF FailureCostsOnlyItself, FromSources, FromArtifacts
<1>2. LInv /\ [Next]_vars => LInv'
  BY LossesNext
<1> QED BY <1>1, <1>2, LossesInit, PTL DEF Spec

(***************************************************************************)
(* The inductive invariant, in parts                                       *)
(***************************************************************************)

\* What each stage finds done and leaves undone.
Course ==
  /\ stage \in Stages
  /\ stage \notin {"start", "done"} => options.root = "directory"
  /\ stage \in Reading => next = 1 /\ DOMAIN assets = {}
  /\ stage \in Reading \cup {"aggregate"} =>
       assessed = 0 /\ DOMAIN assessments = {} /\ DOMAIN recommendations = {}
  /\ stage \in {"assess", "report"} \/ Finished => next = Len(findings) + 1
  /\ stage = "report" \/ Finished => assessed = Len(findings)
  /\ stage = "done" <=> exit # None
  /\ exit \in {None, 0, ExitFindings, ExitError}
  /\ Finished => exit \in {ExitError, ExitCode}

\* What is found is a list of findings, and what is collected of the artifacts.
Lists ==
  /\ stage = "artifacts" => GivesFindings(collected)
  /\ GivesFindings(findings)

Fields == {"status", "curve", "level", "details", "functions", "occurrences"}

IsAsset(a) == a = [n \in Fields |-> a[n]] /\ IsSequence(a.occurrences)

Ids == {FindingId(findings[n]) : n \in 1..Len(findings)}

\* The occurrences of the assets name findings, and every finding collected.
Filed ==
  /\ next \in 1..(Len(findings) + 1)
  /\ \A k \in DOMAIN assets :
       /\ IsAsset(assets[k])
       /\ \A i \in 1..Len(assets[k].occurrences) : assets[k].occurrences[i].id \in Ids
  /\ \A n \in 1..(next - 1) : \E k \in DOMAIN assets : \E i \in 1..Len(assets[k].occurrences) :
       assets[k].occurrences[i].id = FindingId(findings[n])

\* The dicts hold what the findings assessed so far give; where ids decide, each
\* finding finds its own there.
Assessed ==
  /\ assessed \in 0..Len(findings)
  /\ DOMAIN assessments = {FindingId(findings[n]) : n \in 1..assessed}
  /\ DOMAIN recommendations \subseteq DOMAIN assessments
  /\ \A id \in DOMAIN assessments : assessments[id] \in Assessment
  /\ IdsDecide => \A n \in 1..assessed :
       LET f == findings[n] IN
       /\ assessments[FindingId(f)] = Assess(f, moment)
       /\ FindingId(f) \in DOMAIN recommendations <=> Recommend(f) # None
       /\ Recommend(f) # None => recommendations[FindingId(f)] = Recommend(f)

(***************************************************************************)
(* What is collected                                                       *)
(***************************************************************************)

\* Nothing is collected at first,
LEMMA ListsInit == Init => Lists
  BY NoFindings DEF Init, Lists, GivesFindings

\* and every step leaves lists of findings.
LEMMA ListsNext ==
  ASSUME LInv, Lists, [Next]_vars
  PROVE  Lists'
<1>1. ASSUME NEW result, ReadSource(result) PROVE Lists'
  BY <1>1 DEF ReadSource, Read, Lists, GivesFindings
<1>2. ASSUME NEW result, ReadArtifact(result) PROVE Lists'
  <2>1. /\ collected' = IF result = "read" THEN collected \o Parsed(Head(todo)) ELSE collected
        /\ stage = "artifacts" /\ stage' = "artifacts" /\ findings' = findings
        /\ todo # <<>> /\ todo' = Tail(todo)
    BY <1>2 DEF ReadArtifact, Read, Rest
  <2>2. PICK n \in Nat : ReadOf(project.artifacts, n)
    BY <2>1 DEF LInv, Losses
  <2>3. Head(todo) = project.artifacts[n + 1] /\ n + 1 \in DOMAIN project.artifacts
    BY <2>1, <2>2, TurnFacts, ProjectFacts, SequenceFacts DEF LInv
  <2>4. GivesFindings(collected) /\ GivesFindings(Parsed(Head(todo)))
    BY <2>1, <2>3, ReadersGive DEF Lists, LInv
  <2>5. GivesFindings(collected \o Parsed(Head(todo)))
    BY <2>4, FindingsJoined
  <2>6. GivesFindings(collected') /\ GivesFindings(findings')
    BY <2>1, <2>4, <2>5 DEF Lists, GivesFindings
  <2> QED BY <2>6 DEF Lists, GivesFindings
<1>3. CASE DetectSources
  <2>1. findings' = findings \o Detected(collected) /\ collected' = <<>> /\ stage = "sources" /\ todo = <<>>
    BY <1>3 DEF DetectSources
  <2>2. GivesFindings(findings) /\ GivesFindings(Detected(collected))
    BY <2>1, AllCollected, DetectedGives DEF Lists, LInv
  <2>3. GivesFindings(findings \o Detected(collected))
    BY <2>2, FindingsJoined
  <2> QED BY <2>1, <2>3, NoFindings DEF Lists, GivesFindings
<1>4. CASE CollectArtifacts
  <2>1. findings' = findings \o collected /\ collected' = <<>> /\ stage = "artifacts"
    BY <1>4 DEF CollectArtifacts
  <2>2. GivesFindings(findings \o collected)
    BY <2>1, FindingsJoined DEF Lists
  <2> QED BY <2>1, <2>2, NoFindings DEF Lists, GivesFindings
<1>5. ASSUME UNCHANGED <<findings, collected>>, stage' = "artifacts" => stage = "artifacts"
      PROVE  Lists'
  BY <1>5 DEF Lists, GivesFindings
<1>6. CASE AggregateStep
  BY <1>5, <1>6 DEF AggregateStep, Agg!Next, Agg!Collect, Agg!SortAsset, reading
<1>7. CASE Refuse \/ Start \/ AggregateReturns \/ AssessNext \/ Render
  BY <1>5, <1>7 DEF Refuse, Start, AggregateReturns, AssessNext, Render, reading
<1>8. ASSUME NEW written, Emit(written) PROVE Lists'
  BY <1>5, <1>8 DEF Emit, reading
<1>9. CASE UNCHANGED vars
  BY <1>5, <1>9 DEF vars, reading
<1> QED BY <1>1, <1>2, <1>3, <1>4, <1>6, <1>7, <1>8, <1>9 DEF Next

(***************************************************************************)
(* The assets                                                              *)
(***************************************************************************)

\* What the fold makes of the asset of a finding: one occurrence more.
LEMMA AssetGrows ==
  ASSUME NEW f, LET k == Agg!AssetKey(f) IN k \in DOMAIN assets => IsAsset(assets[k])
  PROVE  LET k   == Agg!AssetKey(f)
             old == IF k \in DOMAIN assets THEN assets[k].occurrences ELSE <<>>
             a   == Agg!AssetAfter(f)
         IN /\ IsSequence(old) /\ IsAsset(a)
            /\ Len(a.occurrences) = Len(old) + 1
            /\ a.occurrences[Len(old) + 1].id = FindingId(f)
            /\ \A i \in 1..Len(old) : a.occurrences[i] = old[i]
<1> DEFINE k == Agg!AssetKey(f)
           old == IF k \in DOMAIN assets THEN assets[k].occurrences ELSE <<>>
           base == IF k \in DOMAIN assets THEN Agg!Merge(assets[k], f) ELSE Agg!NewAsset(f)
<1>1. IsSequence(old)
  <2>1. <<>> \in Seq({})
    OBVIOUS
  <2> QED BY <2>1 DEF IsAsset, IsSequence
<1>2. base = [n \in Fields |-> base[n]] /\ base.occurrences = old
  <2>1. CASE k \in DOMAIN assets
    <3>1. assets[k] = [n \in Fields |-> assets[k][n]]
      BY <2>1 DEF IsAsset
    <3> QED BY <2>1, <3>1 DEF Agg!Merge, Fields
  <2>2. CASE k \notin DOMAIN assets
    BY <2>2 DEF Agg!NewAsset, Fields
  <2> QED BY <2>1, <2>2
<1>3. Agg!AssetAfter(f) = Agg!Record(base, f)
  BY DEF Agg!AssetAfter
<1> HIDE DEF base, old
<1>4. /\ Agg!Record(base, f) = [n \in Fields |-> Agg!Record(base, f)[n]]
      /\ Agg!Record(base, f).occurrences = Append(old, Agg!OccurrenceOf(f))
  BY <1>2 DEF Agg!Record, Fields
<1>5. Agg!OccurrenceOf(f).id = FindingId(f)
  BY DEF Agg!OccurrenceOf, Agg!FindingId, FindingId
<1> DEFINE r == Agg!Record(base, f)
<1>6. /\ IsSequence(r.occurrences)
      /\ Len(r.occurrences) = Len(old) + 1
      /\ r.occurrences[Len(old) + 1].id = FindingId(f)
      /\ \A i \in 1..Len(old) : r.occurrences[i] = old[i]
  <2> DEFINE o == Agg!OccurrenceOf(f)
             grown == Append(old, o)
  <2>1. r.occurrences = grown
    BY <1>4
  <2> HIDE DEF r, o
  <2>2. IsSequence(grown)
    BY <1>1, Appended
  <2>3. /\ Len(grown) = Len(old) + 1
        /\ grown[Len(old) + 1] = o
        /\ \A i \in 1..Len(old) : grown[i] = old[i]
    BY <1>1, Appended
  <2>4. o.id = FindingId(f)
    BY <1>5 DEF o
  <2> HIDE DEF grown
  <2> QED BY <2>1, <2>2, <2>3, <2>4
<1>7. IsAsset(r)
  BY <1>4, <1>6 DEF IsAsset
<1> HIDE DEF r
<1>8. Agg!AssetAfter(f) = r
  BY <1>3 DEF r
<1> QED BY <1>1, <1>6, <1>7, <1>8 DEF old

\* What Filed says of one asset.
Names(a, ids) == IsAsset(a) /\ \A i \in 1..Len(a.occurrences) : a.occurrences[i].id \in ids

Named(id, as) ==
  \E k \in DOMAIN as : \E i \in 1..Len(as[k].occurrences) : as[k].occurrences[i].id = id

\* Filed, asset by asset and finding by finding.
LEMMA FiledIsNamed ==
  Filed <=> /\ next \in 1..(Len(findings) + 1)
            /\ \A k \in DOMAIN assets : Names(assets[k], Ids)
            /\ \A n \in 1..(next - 1) : Named(FindingId(findings[n]), assets)
  BY DEF Filed, Names, Named

\* The fold takes one finding.
LEMMA FiledCollect ==
  ASSUME GivesFindings(findings), Filed, Agg!Collect
  PROVE  Filed'
<1> DEFINE f == findings[next]
           k == Agg!AssetKey(f)
           a == Agg!AssetAfter(f)
           old == IF k \in DOMAIN assets THEN assets[k].occurrences ELSE <<>>
<1>1. /\ next \in 1..Len(findings) /\ next' = next + 1 /\ findings' = findings
      /\ assets' = [m \in DOMAIN assets \cup {k} |-> IF m = k THEN a ELSE assets[m]]
      /\ Len(findings) \in Nat
  BY SequenceFacts DEF Agg!Collect, Filed, GivesFindings
<1>2. /\ IsSequence(old) /\ IsAsset(a)
      /\ Len(a.occurrences) = Len(old) + 1
      /\ a.occurrences[Len(old) + 1].id = FindingId(f)
      /\ \A i \in 1..Len(old) : a.occurrences[i] = old[i]
  BY AssetGrows DEF Filed
<1>3. \A i \in 1..Len(old) : old[i].id \in Ids
  <2>1. CASE k \in DOMAIN assets
    BY <2>1 DEF Filed
  <2>2. CASE k \notin DOMAIN assets
    <3>1. old = <<>> /\ Len(old) = 0
      BY <2>2
    <3> QED BY <3>1
  <2> QED BY <2>1, <2>2
<1>4. FindingId(f) \in Ids
  BY <1>1 DEF Ids
<1>5. Len(old) \in Nat
  BY <1>2, SequenceFacts
<1>6. Names(a, Ids)
  <2> SUFFICES ASSUME NEW i \in 1..Len(a.occurrences) PROVE a.occurrences[i].id \in Ids
    BY <1>2 DEF Names
  <2>1. CASE i = Len(old) + 1
    BY <2>1, <1>2, <1>4
  <2>2. CASE i \in 1..Len(old)
    BY <2>2, <1>2, <1>3
  <2> QED BY <2>1, <2>2, <1>2, <1>5
<1>7. Named(FindingId(f), assets')
  <2>1. k \in DOMAIN assets' /\ assets'[k] = a
    BY <1>1
  <2>2. Len(old) + 1 \in 1..Len(a.occurrences)
    BY <1>2, <1>5
  <2> QED BY <2>1, <2>2, <1>2 DEF Named
<1>8. ASSUME NEW n \in 1..(next - 1) PROVE Named(FindingId(findings[n]), assets')
  <2>1. PICK m \in DOMAIN assets : \E i \in 1..Len(assets[m].occurrences) :
          assets[m].occurrences[i].id = FindingId(findings[n])
    BY DEF Filed
  <2>2. CASE m # k
    <3>1. m \in DOMAIN assets' /\ assets'[m] = assets[m]
      BY <1>1, <2>2
    <3> QED BY <2>1, <3>1 DEF Named
  <2>3. CASE m = k
    <3>1. k \in DOMAIN assets' /\ assets'[k] = a
      BY <1>1
    <3>2. PICK i \in 1..Len(old) : old[i].id = FindingId(findings[n])
      BY <2>1, <2>3
    <3>3. i \in 1..Len(a.occurrences) /\ a.occurrences[i].id = FindingId(findings[n])
      BY <3>2, <1>2, <1>5
    <3> QED BY <3>1, <3>3 DEF Named
  <2> QED BY <2>2, <2>3
<1> HIDE DEF a, old
<1>9. \A m \in DOMAIN assets' : Names(assets'[m], Ids)
  <2>1. \A m \in DOMAIN assets : Names(assets[m], Ids)
    BY FiledIsNamed
  <2> QED BY <1>1, <1>6, <2>1
<1>10. \A n \in 1..(next' - 1) : Named(FindingId(findings'[n]), assets')
  <2> SUFFICES ASSUME NEW n \in 1..(next' - 1) PROVE Named(FindingId(findings[n]), assets')
    BY <1>1
  <2>1. CASE n = next
    BY <1>7, <2>1
  <2>2. CASE n # next
    <3>1. n \in 1..(next - 1)
      BY <1>1, <2>2
    <3> QED BY <1>8, <3>1
  <2> QED BY <2>1, <2>2
<1>11. next' \in 1..(Len(findings') + 1) /\ Ids' = Ids
  BY <1>1 DEF Ids
<1>12. \A m \in DOMAIN assets' : Names(assets'[m], Ids')
  BY <1>9, <1>11
<1> QED BY <1>10, <1>11, <1>12 DEF Filed, Names, Named

\* A one-to-one map of the positions of a list to themselves misses none.
LEMMA Onto ==
  ASSUME NEW n \in Nat, NEW p \in [1..n -> 1..n], \A i, j \in 1..n : p[i] = p[j] => i = j
  PROVE  \A m \in 1..n : \E i \in 1..n : p[i] = m
<1>1. p \in Injection(1..n, 1..n)
  BY DEF Injection, IsInjective
<1>2. IsFiniteSet(1..n)
  BY FS_Interval
<1>3. p \in Surjection(1..n, 1..n)
  BY <1>1, <1>2, FS_Injection
<1> QED BY <1>3 DEF Surjection

\* One asset is sorted: the same occurrences in another order.
LEMMA FiledSortAsset ==
  ASSUME Filed, NEW k \in DOMAIN assets, Agg!SortAsset(k)
  PROVE  Filed'
<1> DEFINE s == assets[k].occurrences
<1>1. PICK p \in [DOMAIN s -> DOMAIN s] :
        /\ Agg!SortsStably(p, s)
        /\ assets' = [assets EXCEPT ![k].occurrences = Agg!Rearranged(s, p)]
  BY DEF Agg!SortAsset
<1>2. next' = next /\ findings' = findings
  BY DEF Agg!SortAsset
<1> DEFINE t == Agg!Rearranged(s, p)
           b == assets'[k]
<1>3. IsSequence(s) /\ IsAsset(assets[k])
  BY DEF Filed, IsAsset
<1>4. DOMAIN s = 1..Len(s) /\ Len(s) \in Nat
  BY <1>3, SequenceFacts
<1>5. t = [i \in DOMAIN s |-> s[p[i]]]
  BY DEF Agg!Rearranged
<1>6. DOMAIN assets' = DOMAIN assets /\ \A m \in DOMAIN assets : m # k => assets'[m] = assets[m]
  BY <1>1
<1>7. b = [n \in Fields |-> b[n]] /\ b.occurrences = t
  <2>1. assets[k] = [n \in Fields |-> assets[k][n]]
    BY <1>3 DEF IsAsset
  <2>2. b = [assets[k] EXCEPT !.occurrences = t]
    BY <1>1
  <2> HIDE DEF b, t, s
  <2> QED BY <2>1, <2>2 DEF Fields
<1> HIDE DEF b, s
<1>8. IsSequence(t)
  BY <1>3, <1>5, Reordered
<1>9. DOMAIN t = DOMAIN s /\ DOMAIN t = 1..Len(t) /\ Len(t) \in Nat
  BY <1>5, <1>8, SequenceFacts
<1>10. Len(t) = Len(s)
  BY <1>4, <1>9
<1>11. \A i \in 1..Len(t) : p[i] \in 1..Len(s) /\ t[i] = s[p[i]]
  BY <1>4, <1>5, <1>10
<1>12. \A j \in 1..Len(s) : \E i \in 1..Len(t) : t[i] = s[j]
  <2>1. \A i, j \in 1..Len(s) : p[i] = p[j] => i = j
    BY <1>1, <1>4 DEF Agg!SortsStably
  <2>2. p \in [1..Len(s) -> 1..Len(s)]
    BY <1>4
  <2>3. \A j \in 1..Len(s) : \E i \in 1..Len(s) : p[i] = j
    BY <1>4, <2>1, <2>2, Onto
  <2> QED BY <1>10, <1>11, <2>3
<1> HIDE DEF t
<1>13. Names(b, Ids)
  <2>1. \A j \in 1..Len(s) : s[j].id \in Ids
    BY DEF Filed, s
  <2> QED BY <1>7, <1>8, <1>11, <2>1 DEF Names, IsAsset
<1>14. ASSUME NEW id, Named(id, assets) PROVE Named(id, assets')
  <2>1. PICK m \in DOMAIN assets : \E j \in 1..Len(assets[m].occurrences) :
          assets[m].occurrences[j].id = id
    BY <1>14 DEF Named
  <2>2. CASE m # k
    BY <1>6, <2>1, <2>2 DEF Named
  <2>3. CASE m = k
    <3>1. PICK j \in 1..Len(s) : s[j].id = id
      BY <2>1, <2>3 DEF s
    <3>4. PICK i \in 1..Len(t) : t[i] = s[j]
      BY <1>12
    <3>2. k \in DOMAIN assets' /\ assets'[k].occurrences = t
      BY <1>6, <1>7 DEF b
    <3>3. t[i].id = id
      BY <3>1, <3>4
    <3> QED BY <3>2, <3>3 DEF Named
  <2> QED BY <2>2, <2>3
<1>15. Ids' = Ids
  BY <1>2 DEF Ids
<1>16. \A m \in DOMAIN assets' : Names(assets'[m], Ids')
  <2>1. \A m \in DOMAIN assets : Names(assets[m], Ids)
    BY FiledIsNamed
  <2> QED BY <1>6, <1>13, <1>15, <2>1 DEF b
<1>17. \A n \in 1..(next' - 1) : Named(FindingId(findings'[n]), assets')
  BY <1>2, <1>14, FiledIsNamed
<1> QED BY <1>2, <1>16, <1>17 DEF Filed, Names, Named

\* No finding is filed at first,
LEMMA FiledInit == Init => Filed
<1>1. Init => next = 1 /\ findings = <<>> /\ assets = <<>>
  BY DEF Init
<1>2. Len(<<>>) = 0 /\ DOMAIN <<>> = {}
  OBVIOUS
<1> QED BY <1>1, <1>2 DEF Filed

\* Every step files what it passes.
LEMMA FiledNext ==
  ASSUME Course, Lists, Lists', Filed, [Next]_vars
  PROVE  Filed'
<1>1. ASSUME findings' = findings, next' = next, assets' = assets
      PROVE  Filed'
  BY <1>1 DEF Filed, Ids
<1>2. CASE DetectSources \/ CollectArtifacts
  <2>1. next = 1 /\ DOMAIN assets = {} /\ next' = next /\ assets' = assets
    BY <1>2 DEF DetectSources, CollectArtifacts, aggregation, Course, Reading
  <2>2. next' = 1 /\ DOMAIN assets' = {} /\ GivesFindings(findings')
    BY <2>1 DEF Lists, GivesFindings
  <2>3. Len(findings') \in Nat
    BY <2>2, SequenceFacts DEF GivesFindings
  <2> QED BY <2>2, <2>3 DEF Filed
<1>3. CASE AggregateStep
  <2>1. GivesFindings(findings)
    BY DEF Lists
  <2>2. CASE Agg!Collect
    BY <2>1, <2>2, FiledCollect
  <2>3. ASSUME NEW k \in DOMAIN assets, Agg!SortAsset(k) PROVE Filed'
    BY <2>3, FiledSortAsset
  <2> QED BY <1>3, <2>2, <2>3 DEF AggregateStep, Agg!Next
<1>4. ASSUME NEW result, ReadSource(result) \/ ReadArtifact(result) PROVE Filed'
  BY <1>1, <1>4 DEF ReadSource, ReadArtifact, Read, aggregation
<1>5. ASSUME NEW written, Emit(written) PROVE Filed'
  BY <1>1, <1>5 DEF Emit, aggregation
<1>6. CASE Refuse \/ Start
  BY <1>1, <1>6 DEF Refuse, Start, aggregation
<1>7. CASE AggregateReturns \/ AssessNext \/ Render
  BY <1>1, <1>7 DEF AggregateReturns, AssessNext, Render, aggregation
<1>8. CASE UNCHANGED vars
  BY <1>1, <1>8 DEF vars, aggregation
<1> QED BY <1>2, <1>3, <1>4, <1>5, <1>6, <1>7, <1>8 DEF Next

(***************************************************************************)
(* The course of the run                                                   *)
(***************************************************************************)

\* At first nothing is done,
LEMMA CourseInit == Init => Course
<1>1. Len(<<>>) = 0 /\ DOMAIN <<>> = {}
  OBVIOUS
<1> QED BY <1>1 DEF Init, Course, Stages, Finished

\* The steps that read, and the fold, leave everything after them undone.
LEMMA CourseReads ==
  ASSUME Course, stage \in Reading \cup {"aggregate"}, options.root = "directory",
         stage' \in {"sources", "artifacts", "aggregate"},
         stage' \in Reading => next' = 1 /\ DOMAIN assets' = {},
         UNCHANGED <<input, assessing, exit>>
  PROVE  Course'
  BY DEF Course, Reading, Stages, Finished, assessing, input

\* and no stage is left before its work is done.
LEMMA CourseNext ==
  ASSUME Course, Lists, Filed, Assessed, [Next]_vars
  PROVE  Course'
<1>1. CASE Refuse
  BY <1>1, NoneAssumption DEF Refuse, Course, Stages, Reading, Finished, ExitError, input, aggregation, assessing
<1>2. CASE Start \/ DetectSources \/ CollectArtifacts
  <2>1. /\ stage \in Reading /\ options.root = "directory"
        /\ stage' \in {"sources", "artifacts", "aggregate"}
        /\ next' = next /\ assets' = assets
        /\ UNCHANGED <<input, assessing, exit>>
    BY <1>2 DEF Start, DetectSources, CollectArtifacts, Reading, aggregation, Course
  <2>2. next' = 1 /\ DOMAIN assets' = {}
    BY <2>1 DEF Course
  <2> QED BY <2>1, <2>2, CourseReads
<1>3. ASSUME NEW result, ReadSource(result) \/ ReadArtifact(result) PROVE Course'
  <2>1. /\ stage \in {"sources", "artifacts"} /\ stage' = stage
        /\ next' = next /\ assets' = assets
        /\ UNCHANGED <<input, assessing, exit>>
    BY <1>3 DEF ReadSource, ReadArtifact, Read, aggregation
  <2>2. next' = 1 /\ DOMAIN assets' = {} /\ options.root = "directory"
    BY <2>1 DEF Course, Reading
  <2> QED BY <2>1, <2>2, CourseReads DEF Reading
<1>4. CASE AggregateStep
  <2>1. stage = "aggregate" /\ stage' = "aggregate" /\ UNCHANGED <<input, assessing, exit>>
    BY <1>4 DEF AggregateStep
  <2> QED BY <2>1, CourseReads DEF Course, Reading
<1>5. CASE AggregateReturns
  <2>1. next = Len(findings) + 1
    <3>1. next > Len(findings) /\ Len(findings) \in Nat
      BY <1>5, SequenceFacts DEF AggregateReturns, AggregateDone, Agg!Returned, Lists, GivesFindings
    <3> QED BY <3>1 DEF Filed
  <2> QED BY <1>5, <2>1 DEF AggregateReturns, Course, Stages, Reading, Finished, input, aggregation, assessing
<1>6. CASE AssessNext \/ Render
  BY <1>6 DEF AssessNext, Render, AllAssessed, Course, Stages, Reading, Finished, input, aggregation, assessing
<1>7. ASSUME NEW written \in BOOLEAN, Emit(written) PROVE Course'
  <2>1. /\ stage = "report" /\ stage' = "done" /\ exit' \in {ExitError, ExitCode}
        /\ UNCHANGED <<input, findings, aggregation, assessing>>
    BY <1>7 DEF Emit
  <2>2. ExitCode' = ExitCode
    BY <2>1 DEF ExitCode, AnyAtOrAbove, AtLeast, input, assessing
  <2>3. exit' \in {0, ExitFindings, ExitError}
    BY <2>1 DEF ExitCode
  <2>4. exit' # None
    BY <2>3, NoneAssumption DEF ExitFindings, ExitError
  <2> QED BY <2>1, <2>2, <2>3, <2>4 DEF Course, Stages, Reading, Finished, aggregation, assessing, input
<1>8. CASE UNCHANGED vars
  <2>1. ExitCode' = ExitCode
    BY <1>8 DEF ExitCode, AnyAtOrAbove, AtLeast, vars, input, assessing
  <2> QED BY <1>8, <2>1 DEF vars, Course, Finished, input, aggregation, assessing
<1> QED BY <1>1, <1>2, <1>3, <1>4, <1>5, <1>6, <1>7, <1>8 DEF Next

(***************************************************************************)
(* The assessments                                                         *)
(***************************************************************************)

\* Nothing is assessed at first,
LEMMA AssessedInit == Init => Assessed
<1>1. Len(<<>>) = 0 /\ DOMAIN <<>> = {}
  OBVIOUS
<1> QED BY <1>1 DEF Init, Assessed

\* nor by the steps before;
LEMMA AssessedReads ==
  ASSUME Course, Lists', stage \in Reading \cup {"aggregate"}, UNCHANGED assessing
  PROVE  Assessed'
<1>1. /\ assessed' = 0 /\ DOMAIN assessments' = {} /\ DOMAIN recommendations' = {}
      /\ GivesFindings(findings')
  BY DEF Course, assessing, Lists, GivesFindings
<1>2. Len(findings') \in Nat
  BY <1>1, SequenceFacts DEF GivesFindings
<1> QED BY <1>1, <1>2 DEF Assessed

\* One finding is assessed.  Where ids decide, an entry that is overwritten is
\* overwritten by itself.
LEMMA AssessedAssessNext ==
  ASSUME GivesFindings(findings), Assessed, AssessNext
  PROVE  Assessed'
<1> DEFINE f == findings[assessed + 1]
           id == FindingId(f)
<1>1. /\ assessed < Len(findings) /\ assessed' = assessed + 1
      /\ findings' = findings /\ moment' = moment
      /\ assessments' = Put(assessments, id, Assess(f, moment))
      /\ recommendations' = IF Recommend(f) = None THEN recommendations
                            ELSE Put(recommendations, id, Recommend(f))
  BY DEF AssessNext, input
<1>2. Len(findings) \in Nat
  BY SequenceFacts DEF GivesFindings
<1>3. assessed \in 0..Len(findings) /\ assessed' \in 0..Len(findings')
  BY <1>1, <1>2 DEF Assessed
<1>4. /\ DOMAIN assessments' = DOMAIN assessments \cup {id}
      /\ assessments'[id] = Assess(f, moment)
      /\ \A x \in DOMAIN assessments : x # id => assessments'[x] = assessments[x]
  <2>1. assessments' = Put(assessments, id, Assess(f, moment))
    BY <1>1
  <2> HIDE DEF f, id
  <2> QED BY <2>1 DEF Put
<1>5. /\ DOMAIN recommendations' = DOMAIN recommendations \cup
                                     (IF Recommend(f) = None THEN {} ELSE {id})
      /\ Recommend(f) # None => recommendations'[id] = Recommend(f)
      /\ \A x \in DOMAIN recommendations : x # id => recommendations'[x] = recommendations[x]
  <2>1. CASE Recommend(f) = None
    BY <1>1, <2>1
  <2>2. CASE Recommend(f) # None
    <3>1. recommendations' = Put(recommendations, id, Recommend(f))
      BY <1>1, <2>2
    <3> HIDE DEF f, id
    <3> QED BY <2>2, <3>1 DEF Put
  <2> QED BY <2>1, <2>2
<1>6. DOMAIN assessments' = {FindingId(findings'[n]) : n \in 1..assessed'}
  <2>1. 1..assessed' = 1..assessed \cup {assessed + 1}
    BY <1>1, <1>3
  <2> QED BY <1>1, <1>4, <2>1 DEF Assessed
<1>7. DOMAIN recommendations' \subseteq DOMAIN assessments'
  BY <1>4, <1>5 DEF Assessed
<1>8. \A x \in DOMAIN assessments' : assessments'[x] \in Assessment
  BY <1>4, AssessType DEF Assessed
<1>9. ASSUME IdsDecide, NEW n \in 1..assessed'
      PROVE  LET g == findings[n] IN
             /\ assessments'[FindingId(g)] = Assess(g, moment)
             /\ FindingId(g) \in DOMAIN recommendations' <=> Recommend(g) # None
             /\ Recommend(g) # None => recommendations'[FindingId(g)] = Recommend(g)
  <2> DEFINE g == findings[n]
  <2>1. n \in DOMAIN findings /\ assessed + 1 \in DOMAIN findings
    BY <1>1, <1>2, <1>3, SequenceFacts DEF GivesFindings
  <2>2. CASE FindingId(g) = id
    <3>1. Assess(g, moment) = Assess(f, moment) /\ Recommend(g) = Recommend(f)
      BY <1>9, <2>1, <2>2 DEF IdsDecide
    <3>2. id \in DOMAIN recommendations => Recommend(f) # None
      <4> SUFFICES ASSUME id \in DOMAIN recommendations PROVE Recommend(f) # None
        OBVIOUS
      <4>1. PICK m \in 1..assessed : FindingId(findings[m]) = id
        BY DEF Assessed
      <4>2. Recommend(findings[m]) # None
        BY <1>9, <4>1 DEF Assessed
      <4>3. m \in DOMAIN findings
        BY <1>2, <1>3, SequenceFacts DEF GivesFindings
      <4> QED BY <1>9, <2>1, <4>1, <4>2, <4>3 DEF IdsDecide
    <3> HIDE DEF f, id
    <3> QED BY <1>4, <1>5, <2>2, <3>1, <3>2
  <2>3. CASE FindingId(g) # id
    <3>1. n \in 1..assessed
      BY <1>1, <1>3, <2>3
    <3>2. /\ assessments[FindingId(g)] = Assess(g, moment)
          /\ FindingId(g) \in DOMAIN recommendations <=> Recommend(g) # None
          /\ Recommend(g) # None => recommendations[FindingId(g)] = Recommend(g)
          /\ FindingId(g) \in DOMAIN assessments
      BY <1>9, <3>1 DEF Assessed
    <3> HIDE DEF f, id
    <3> QED BY <1>4, <1>5, <2>3, <3>2
  <2> QED BY <2>2, <2>3
<1>10. IdsDecide' = IdsDecide
  BY <1>1 DEF IdsDecide
<1> HIDE DEF f, id
<1>11. IdsDecide' => \A n \in 1..assessed' :
         LET g == findings'[n] IN
         /\ assessments'[FindingId(g)] = Assess(g, moment')
         /\ FindingId(g) \in DOMAIN recommendations' <=> Recommend(g) # None
         /\ Recommend(g) # None => recommendations'[FindingId(g)] = Recommend(g)
  BY <1>1, <1>9, <1>10
<1> QED BY <1>3, <1>6, <1>7, <1>8, <1>11 DEF Assessed

\* every step keeps the dicts to what was assessed.
LEMMA AssessedNext ==
  ASSUME Course, Lists, Lists', Assessed, [Next]_vars
  PROVE  Assessed'
<1>1. CASE Start \/ DetectSources \/ CollectArtifacts \/ AggregateStep \/ AggregateReturns
  BY <1>1, AssessedReads
     DEF Start, DetectSources, CollectArtifacts, AggregateStep, AggregateReturns, Reading
<1>2. ASSUME NEW result, ReadSource(result) \/ ReadArtifact(result) PROVE Assessed'
  BY <1>2, AssessedReads DEF ReadSource, ReadArtifact, Read, Reading
<1>3. CASE AssessNext
  BY <1>3, AssessedAssessNext DEF Lists
<1>4. ASSUME UNCHANGED <<input, findings, assessing>> PROVE Assessed'
  <2>1. IdsDecide' = IdsDecide
    BY <1>4 DEF IdsDecide, input
  <2> QED BY <1>4, <2>1 DEF Assessed, input, assessing
<1>5. CASE Refuse \/ Render
  BY <1>4, <1>5 DEF Refuse, Render
<1>6. ASSUME NEW written, Emit(written) PROVE Assessed'
  BY <1>4, <1>6 DEF Emit
<1>7. CASE UNCHANGED vars
  BY <1>4, <1>7 DEF vars
<1> QED BY <1>1, <1>2, <1>3, <1>5, <1>6, <1>7 DEF Next

(***************************************************************************)
(* The invariant                                                           *)
(***************************************************************************)

IInv == options \in Options /\ LInv /\ Course /\ Lists /\ Filed /\ Assessed

\* At every moment of a run, whatever the readers do, the lists are lists, the
\* assets name what was collected and the dicts hold what was assessed.
THEOREM Running == Spec => []IInv
<1>1. Init => IInv
  <2>1. Init => options \in Options
    BY DEF Init
  <2> QED BY <2>1, LossesInit, CourseInit, ListsInit, FiledInit, AssessedInit DEF IInv
<1>2. IInv /\ [Next]_vars => IInv'
  <2> SUFFICES ASSUME IInv, [Next]_vars PROVE IInv'
    OBVIOUS
  <2>1. Lists'
    BY ListsNext DEF IInv
  <2>2. Course'
    BY CourseNext DEF IInv
  <2>3. Filed'
    BY <2>1, FiledNext DEF IInv
  <2>4. Assessed'
    BY <2>1, AssessedNext DEF IInv
  <2>5. options' = options
    <3>1. CASE Agg!Next /\ UNCHANGED <<input, stage, reading, assessing, exit>>
      BY <3>1 DEF input
    <3>2. CASE UNCHANGED input
      BY <3>2 DEF input
    <3> QED BY <3>1, <3>2 DEF Next, vars, Refuse, Start, ReadSource, ReadArtifact, Read, DetectSources,
          CollectArtifacts, AggregateStep, AggregateReturns, AssessNext, Render, Emit
  <2>6. LInv'
    BY LossesNext DEF IInv
  <2> QED BY <2>1, <2>2, <2>3, <2>4, <2>5, <2>6 DEF IInv
<1> QED BY <1>1, <1>2, PTL DEF Spec

(***************************************************************************)
(* Lookups                                                                 *)
(***************************************************************************)

\* When all is assessed, the ids of the findings are the ids of the assessments.
LEMMA AllIds ==
  ASSUME IInv, stage = "report" \/ Finished
  PROVE  /\ DOMAIN findings = 1..Len(findings) /\ Len(findings) \in Nat
         /\ assessed = Len(findings) /\ next = Len(findings) + 1
         /\ DOMAIN assessments = Ids
<1>1. DOMAIN findings = 1..Len(findings) /\ Len(findings) \in Nat
  BY SequenceFacts DEF IInv, Lists, GivesFindings
<1>2. assessed = Len(findings) /\ next = Len(findings) + 1
  BY DEF IInv, Course
<1> QED BY <1>1, <1>2 DEF IInv, Assessed, Ids

\* Every finding that a report looks up has been assessed, through the list and
\* through the assets (scan.py, ranked_findings; aggregate.py, risk).
THEOREM LookupsSucceed == Spec => []EveryLookupSucceeds
<1>1. IInv => EveryLookupSucceeds
  <2> SUFFICES ASSUME IInv, stage \in {"report", "done"}, options.root = "directory"
               PROVE  /\ \A n \in DOMAIN findings : FindingId(findings[n]) \in DOMAIN assessments
                      /\ \A k \in DOMAIN assets : \A i \in DOMAIN assets[k].occurrences :
                           assets[k].occurrences[i].id \in DOMAIN assessments
    BY DEF EveryLookupSucceeds
  <2>1. DOMAIN assessments = Ids /\ DOMAIN findings = 1..Len(findings)
    BY AllIds DEF Finished
  <2>2. \A n \in DOMAIN findings : FindingId(findings[n]) \in DOMAIN assessments
    BY <2>1 DEF Ids
  <2>3. ASSUME NEW k \in DOMAIN assets, NEW i \in DOMAIN assets[k].occurrences
        PROVE  assets[k].occurrences[i].id \in DOMAIN assessments
    <3>1. i \in 1..Len(assets[k].occurrences)
      BY SequenceFacts DEF IInv, Filed, IsAsset
    <3> QED BY <2>1, <3>1 DEF IInv, Filed
  <2> QED BY <2>2, <2>3
<1> QED BY <1>1, Running, PTL

(***************************************************************************)
(* The worst of a run                                                      *)
(***************************************************************************)

\* A level that no level of a set exceeds is not exceeded by the highest.
LEMMA MaxRiskBounded ==
  ASSUME NEW A \in SUBSET RiskLevel, NEW bound \in RiskLevel,
         \A l \in A : Rank[l] <= Rank[bound]
  PROVE  Rank[MaxRisk(A)] <= Rank[bound]
<1>1. CASE A = {}
  <2>1. MaxRisk(A) = "info" /\ Rank["info"] = 0
    BY <1>1 DEF MaxRisk, Rank
  <2>2. Rank[bound] \in 0..4
    BY RankType
  <2> QED BY <2>1, <2>2
<1>2. CASE A # {}
  BY <1>2, MaxRiskOfNonempty
<1> QED BY <1>1, <1>2

\* Levels of one rank are one level.
LEMMA RankDecides == \A l, m \in RiskLevel : Rank[l] = Rank[m] => l = m
  BY DEF RiskLevel, Rank

\* The overall risk of an assessment is a level,
LEMMA OverallType ==
  ASSUME IInv, NEW id \in DOMAIN assessments
  PROVE  OverallRisk(assessments[id]) \in RiskLevel
<1>1. assessments[id] \in Assessment
  BY DEF IInv, Assessed
<1>2. {assessments[id].classicalRisk, assessments[id].quantumRisk} \in SUBSET RiskLevel
  BY <1>1 DEF Assessment
<1> QED BY <1>2, MaxRiskType DEF OverallRisk

\* and the worst of them is one that no other exceeds.
LEMMA WorstRiskType ==
  ASSUME IInv
  PROVE  /\ WorstRisk \in RiskLevel
         /\ \A id \in DOMAIN assessments : Rank[OverallRisk(assessments[id])] <= Rank[WorstRisk]
         /\ DOMAIN assessments # {} =>
              \E id \in DOMAIN assessments : OverallRisk(assessments[id]) = WorstRisk
<1> DEFINE L == {OverallRisk(assessments[id]) : id \in DOMAIN assessments}
<1>1. L \in SUBSET RiskLevel
  BY OverallType
<1>2. MaxRisk(L) \in RiskLevel
  BY <1>1, MaxRiskType
<1>3. L # {} => MaxRisk(L) \in L /\ \A m \in L : Rank[m] <= Rank[MaxRisk(L)]
  BY <1>1, MaxRiskOfNonempty
<1>4. WorstRisk = MaxRisk(L)
  BY DEF WorstRisk
<1>5. \A id \in DOMAIN assessments : OverallRisk(assessments[id]) \in L
  OBVIOUS
<1>6. ASSUME DOMAIN assessments # {}
      PROVE  \E id \in DOMAIN assessments : OverallRisk(assessments[id]) = MaxRisk(L)
  <2>1. MaxRisk(L) \in L
    BY <1>3, <1>6
  <2> QED BY <2>1
<1> HIDE DEF L
<1> QED BY <1>2, <1>3, <1>4, <1>5, <1>6

\* The worst of an asset is not worse than the worst of the run, and not better
\* than any of its occurrences.
LEMMA AssetRiskFacts ==
  ASSUME IInv, stage = "report" \/ Finished, NEW k \in DOMAIN assets
  PROVE  /\ AssetRisk(assets[k]) \in RiskLevel
         /\ Rank[AssetRisk(assets[k])] <= Rank[WorstRisk]
         /\ \A i \in 1..Len(assets[k].occurrences) :
              Rank[OverallRisk(assessments[assets[k].occurrences[i].id])]
                <= Rank[AssetRisk(assets[k])]
<1> DEFINE a == assets[k]
           ids == {a.occurrences[i].id : i \in DOMAIN a.occurrences}
           L == {OverallRisk(assessments[id]) : id \in ids \cap DOMAIN assessments}
<1>1. AssetRisk(a) = MaxRisk(L)
  BY DEF AssetRisk
<1>2. L \in SUBSET RiskLevel
  BY OverallType
<1>3. \A l \in L : Rank[l] <= Rank[WorstRisk]
  BY WorstRiskType
<1>4. WorstRisk \in RiskLevel
  BY WorstRiskType
<1>5. ASSUME NEW i \in 1..Len(a.occurrences)
      PROVE  OverallRisk(assessments[a.occurrences[i].id]) \in L
  <2>1. i \in DOMAIN a.occurrences
    BY SequenceFacts DEF IInv, Filed, IsAsset
  <2>2. a.occurrences[i].id \in DOMAIN assessments
    BY AllIds DEF IInv, Filed
  <2>3. a.occurrences[i].id \in ids
    BY <2>1
  <2> QED BY <2>2, <2>3
<1> HIDE DEF L
<1>6. MaxRisk(L) \in RiskLevel /\ Rank[MaxRisk(L)] <= Rank[WorstRisk]
  BY <1>2, <1>3, <1>4, MaxRiskType, MaxRiskBounded
<1>7. \A l \in L : Rank[l] <= Rank[MaxRisk(L)]
  BY <1>2, MaxRiskOfNonempty
<1> QED BY <1>1, <1>5, <1>6, <1>7

\* The worst of the run is the worst of its assets: every finding is on one of them.
LEMMA WorstOfAssets ==
  ASSUME IInv, Finished
  PROVE  WorstRisk = MaxRisk({AssetRisk(assets[k]) : k \in DOMAIN assets})
<1> DEFINE R == {AssetRisk(assets[k]) : k \in DOMAIN assets}
           L == {OverallRisk(assessments[id]) : id \in DOMAIN assessments}
<1>1. R \in SUBSET RiskLevel /\ \A r \in R : Rank[r] <= Rank[WorstRisk]
  BY AssetRiskFacts
<1>2. L \in SUBSET RiskLevel
  BY OverallType
<1>3. ASSUME NEW l \in L PROVE \E r \in R : Rank[l] <= Rank[r]
  <2>1. PICK id \in DOMAIN assessments : l = OverallRisk(assessments[id])
    OBVIOUS
  <2>2. PICK n \in 1..Len(findings) : id = FindingId(findings[n])
    BY AllIds DEF Ids
  <2>3. n \in 1..(next - 1)
    BY AllIds
  <2>4. PICK k \in DOMAIN assets : \E i \in 1..Len(assets[k].occurrences) :
          assets[k].occurrences[i].id = id
    BY <2>2, <2>3 DEF IInv, Filed
  <2>5. PICK i \in 1..Len(assets[k].occurrences) : assets[k].occurrences[i].id = id
    BY <2>4
  <2>6. Rank[l] <= Rank[AssetRisk(assets[k])]
    BY <2>1, <2>5, AssetRiskFacts
  <2> QED BY <2>6
<1>4. WorstRisk = MaxRisk(L) /\ WorstRisk \in RiskLevel
  BY WorstRiskType DEF WorstRisk
<1> HIDE DEF R, L
<1>5. Rank[MaxRisk(R)] <= Rank[WorstRisk] /\ MaxRisk(R) \in RiskLevel
  BY <1>1, <1>4, MaxRiskBounded, MaxRiskType
<1>6. Rank[WorstRisk] <= Rank[MaxRisk(R)]
  BY <1>1, <1>2, <1>3, <1>4, MaxRiskMonotone
<1>7. Rank[WorstRisk] = Rank[MaxRisk(R)]
  <2>1. Rank[WorstRisk] \in 0..4 /\ Rank[MaxRisk(R)] \in 0..4
    BY <1>4, <1>5, RankType
  <2> QED BY <1>5, <1>6, <2>1
<1>8. WorstRisk = MaxRisk(R)
  BY <1>4, <1>5, <1>7, RankDecides
<1> QED BY <1>8 DEF R

\* The gate looks at every finding, by its id.
LEMMA GateReads ==
  ASSUME IInv, Finished, exit # ExitError, options.failOn # "never"
  PROVE  /\ exit = ExitFindings <=> AnyAtOrAbove(options.failOn)
         /\ options.failOn \in RiskLevel
<1>1. exit = ExitCode
  BY DEF IInv, Course
<1> QED BY <1>1, OptionsAssumption DEF ExitCode, ExitFindings, IInv

\* The summary, the assets and the exit code tell one story, also where findings
\* share an id (scan.py, worst_risk; aggregate.py, risk; cli.py, _exit_code).
THEOREM OneStory == Spec => []ReportsAgree
<1>1. ASSUME IInv, Finished, exit # ExitError, options.failOn # "never", findings # <<>>
      PROVE  exit = ExitFindings <=> AtLeast(WorstRisk, options.failOn)
  <2>1. (exit = ExitFindings <=> AnyAtOrAbove(options.failOn)) /\ options.failOn \in RiskLevel
    BY <1>1, GateReads
  <2>2. DOMAIN findings = 1..Len(findings) /\ Len(findings) \in Nat /\ DOMAIN assessments = Ids
    BY <1>1, AllIds
  <2>3. ASSUME AnyAtOrAbove(options.failOn) PROVE AtLeast(WorstRisk, options.failOn)
    <3>1. PICK n \in DOMAIN findings :
            AtLeast(OverallRisk(assessments[FindingId(findings[n])]), options.failOn)
      BY <2>3 DEF AnyAtOrAbove
    <3> DEFINE id == FindingId(findings[n])
    <3>2. id \in DOMAIN assessments
      BY <2>2 DEF Ids
    <3> HIDE DEF id
    <3>3. /\ Rank[OverallRisk(assessments[id])] \in 0..4
          /\ Rank[WorstRisk] \in 0..4 /\ Rank[options.failOn] \in 0..4
          /\ Rank[OverallRisk(assessments[id])] <= Rank[WorstRisk]
      BY <1>1, <2>1, <3>2, OverallType, WorstRiskType, RankType
    <3>4. Rank[OverallRisk(assessments[id])] >= Rank[options.failOn]
      BY <3>1 DEF AtLeast, id
    <3> QED BY <3>3, <3>4 DEF AtLeast
  <2>4. ASSUME AtLeast(WorstRisk, options.failOn) PROVE AnyAtOrAbove(options.failOn)
    <3>1. 1 \in DOMAIN findings
      BY <1>1, <2>2, SequenceFacts DEF IInv, Lists, GivesFindings
    <3>2. DOMAIN assessments # {}
      BY <2>2, <3>1 DEF Ids
    <3>3. PICK id \in DOMAIN assessments : OverallRisk(assessments[id]) = WorstRisk
      BY <1>1, <3>2, WorstRiskType
    <3>4. PICK n \in DOMAIN findings : id = FindingId(findings[n])
      BY <2>2 DEF Ids
    <3> QED BY <2>4, <3>3, <3>4 DEF AnyAtOrAbove
  <2> QED BY <2>1, <2>3, <2>4
<1>2. IInv => ReportsAgree
  BY <1>1, WorstOfAssets DEF ReportsAgree
<1> QED BY <1>2, Running, PTL

\* Where ids decide, exit code 1 if and only if some finding reaches the threshold
\* (README, "exit 1 if anything reaches HIGH").
THEOREM GateExactly == Spec => []GateExactWhereIdsDecide
<1>1. IInv => GateExactWhereIdsDecide
  <2> SUFFICES ASSUME IInv, Finished, exit # ExitError, options.failOn # "never", IdsDecide
               PROVE  GateExact
    BY DEF GateExactWhereIdsDecide
  <2>1. exit = ExitFindings <=> AnyAtOrAbove(options.failOn)
    BY GateReads
  <2>2. \A n \in DOMAIN findings : assessments[FindingId(findings[n])] = Assess(findings[n], moment)
    BY AllIds DEF IInv, Assessed
  <2> QED BY <2>1, <2>2 DEF AnyAtOrAbove, GateExact
<1> QED BY <1>1, Running, PTL

(***************************************************************************)
(* The advice                                                              *)
(***************************************************************************)

Mechanism == UNION {{ladder[i] : i \in DOMAIN ladder} : ladder \in AllLadders}

\* What the rungs of a ladder have in common, and how high it goes.
IsLadder(ladder, purpose, n) ==
  /\ DOMAIN ladder = 1..n /\ Len(ladder) = n
  /\ \A i \in 1..n : ladder[i].purpose = purpose /\ ladder[i].level \in Int
  /\ ladder[n].level = 256

\* Every ladder is of one purpose and ends at the highest level.
LEMMA LaddersFacts ==
  /\ IsLadder(KeyEstablishmentLadder, "key_establishment", 3)
  /\ IsLadder(BackupKemLadder, "key_establishment", 3)
  /\ IsLadder(SignatureLadder, "digital_signature", 3)
  /\ IsLadder(ConservativeLadder, "digital_signature", 3)
  /\ IsLadder(CompactLadder, "digital_signature", 2)
<1>1. IsLadder(KeyEstablishmentLadder, "key_establishment", 3)
  BY DEF IsLadder, KeyEstablishmentLadder, Kem
<1>2. IsLadder(BackupKemLadder, "key_establishment", 3)
  BY DEF IsLadder, BackupKemLadder, Kem
<1>3. IsLadder(SignatureLadder, "digital_signature", 3)
  BY DEF IsLadder, SignatureLadder, Signature
<1>4. IsLadder(ConservativeLadder, "digital_signature", 3)
  BY DEF IsLadder, ConservativeLadder, Signature
<1>5. IsLadder(CompactLadder, "digital_signature", 2)
  BY DEF IsLadder, CompactLadder, Signature
<1> QED BY <1>1, <1>2, <1>3, <1>4, <1>5

\* A climb ends on a rung, and no lower than asked where the ladder goes so high.
LEMMA ClimbFacts ==
  ASSUME NEW ladder, NEW purpose, NEW n \in {2, 3}, IsLadder(ladder, purpose, n),
         NEW target \in Int
  PROVE  /\ \E i \in DOMAIN ladder : Climb(ladder, target) = ladder[i]
         /\ Climb(ladder, target).purpose = purpose
         /\ target <= 256 => Climb(ladder, target).level >= target
<1> DEFINE enough == {i \in DOMAIN ladder : ladder[i].level >= target}
           c == CHOOSE i \in enough : \A j \in enough : i <= j
<1>1. DOMAIN ladder = 1..n /\ Len(ladder) = n
  BY DEF IsLadder
<1>2. CASE enough = {}
  <2>1. Climb(ladder, target) = ladder[n]
    BY <1>1, <1>2 DEF Climb
  <2>2. n \in DOMAIN ladder /\ n \notin enough
    BY <1>1, <1>2
  <2>3. ~(target <= 256)
    BY <2>2 DEF IsLadder
  <2> QED BY <1>1, <2>1, <2>2, <2>3 DEF IsLadder
<1>3. CASE enough # {}
  <2>1. \E i \in enough : \A j \in enough : i <= j
    <3>1. enough \subseteq {1, 2, 3}
      BY <1>1
    <3> HIDE DEF enough
    <3>2. CASE 1 \in enough
      BY <3>1, <3>2
    <3>3. CASE 1 \notin enough /\ 2 \in enough
      BY <3>1, <3>3
    <3>4. CASE 1 \notin enough /\ 2 \notin enough
      <4>1. PICK e : e \in enough
        BY <1>3
      <4>2. \A j \in enough : j = 3
        BY <3>1, <3>4
      <4> QED BY <4>1, <4>2
    <3> QED BY <3>2, <3>3, <3>4
  <2>2. c \in enough
    BY <2>1
  <2>3. Climb(ladder, target) = ladder[c]
    BY <1>3 DEF Climb
  <2> HIDE DEF c
  <2> QED BY <1>1, <2>2, <2>3 DEF IsLadder
<1> QED BY <1>2, <1>3

\* The ladders for a purpose, and what stands on them.
LadderPurposes(purpose) ==
  CASE purpose = "key_establishment" -> {"key_establishment"}
    [] purpose = "digital_signature" -> {"digital_signature"}
    [] purpose = "encryption"        -> {"key_establishment"}
    [] OTHER                         -> {"key_establishment", "digital_signature"}

\* For each purpose there are ladders, of the purposes it may mean.
LEMMA LaddersOf ==
  ASSUME NEW purpose
  PROVE  \E m \in 1..3 :
           /\ DOMAIN Ladders(purpose) = 1..m
           /\ \A i \in 1..m :
                /\ Ladders(purpose)[i] \in AllLadders
                /\ \E p \in LadderPurposes(purpose), n \in {2, 3} :
                     IsLadder(Ladders(purpose)[i], p, n)
<1> DEFINE K == KeyEstablishmentLadder
           B == BackupKemLadder
           S == SignatureLadder
           C == ConservativeLadder
           D == CompactLadder
<1>1. {K, B, S, C, D} \subseteq AllLadders
  BY DEF AllLadders
<1>2. /\ IsLadder(K, "key_establishment", 3) /\ IsLadder(B, "key_establishment", 3)
      /\ IsLadder(S, "digital_signature", 3) /\ IsLadder(C, "digital_signature", 3)
      /\ IsLadder(D, "digital_signature", 2)
  BY LaddersFacts
<1>3. /\ purpose = "key_establishment" => Ladders(purpose) = <<K, B>>
      /\ purpose = "digital_signature" => Ladders(purpose) = <<S, C, D>>
      /\ purpose = "encryption" => Ladders(purpose) = <<K>>
      /\ purpose \notin {"key_establishment", "digital_signature", "encryption"} =>
           Ladders(purpose) = <<K, S>>
  BY DEF Ladders
<1>4. /\ purpose \in {"key_establishment", "encryption"} =>
           LadderPurposes(purpose) = {"key_establishment"}
      /\ purpose = "digital_signature" => LadderPurposes(purpose) = {"digital_signature"}
      /\ purpose \notin {"key_establishment", "digital_signature", "encryption"} =>
           LadderPurposes(purpose) = {"key_establishment", "digital_signature"}
  BY DEF LadderPurposes
<1> HIDE DEF K, B, S, C, D
<1>5. CASE purpose = "key_establishment"
  <2>1. DOMAIN Ladders(purpose) = 1..2
    BY <1>3, <1>5
  <2>2. \A i \in 1..2 : /\ Ladders(purpose)[i] \in AllLadders
                        /\ IsLadder(Ladders(purpose)[i], "key_establishment", 3)
    BY <1>1, <1>2, <1>3, <1>5
  <2> QED BY <1>4, <1>5, <2>1, <2>2
<1>6. CASE purpose = "digital_signature"
  <2>1. DOMAIN Ladders(purpose) = 1..3
    BY <1>3, <1>6
  <2>2. \A i \in 1..3 : /\ Ladders(purpose)[i] \in AllLadders
                        /\ \E n \in {2, 3} : IsLadder(Ladders(purpose)[i], "digital_signature", n)
    BY <1>1, <1>2, <1>3, <1>6
  <2> QED BY <1>4, <1>6, <2>1, <2>2
<1>7. CASE purpose = "encryption"
  <2>1. DOMAIN Ladders(purpose) = 1..1
    BY <1>3, <1>7
  <2>2. \A i \in 1..1 : /\ Ladders(purpose)[i] \in AllLadders
                        /\ IsLadder(Ladders(purpose)[i], "key_establishment", 3)
    BY <1>1, <1>2, <1>3, <1>7
  <2> QED BY <1>4, <1>7, <2>1, <2>2
<1>8. CASE purpose \notin {"key_establishment", "digital_signature", "encryption"}
  <2>1. DOMAIN Ladders(purpose) = 1..2
    BY <1>3, <1>8
  <2>2. \A i \in 1..2 : /\ Ladders(purpose)[i] \in AllLadders
                        /\ \E p \in LadderPurposes(purpose) : IsLadder(Ladders(purpose)[i], p, 3)
    BY <1>1, <1>2, <1>3, <1>4, <1>8
  <2> QED BY <1>8, <2>1, <2>2
<1> QED BY <1>5, <1>6, <1>7, <1>8

\* Advice is given where there is something to migrate, for the purposes that the
\* finding may have, and by nothing weaker than what it replaces.
LEMMA RecommendFacts ==
  ASSUME NEW f, f.level \in Int \cup {None}, Migration(f) = "quantum_vulnerable"
  PROVE  /\ Recommend(f) # None
         /\ 1 \in DOMAIN Recommend(f)
         /\ \A i \in DOMAIN Recommend(f) :
              /\ Recommend(f)[i].purpose \in LadderPurposes(f.purpose)
              /\ f.level # None /\ f.level <= 256 => Recommend(f)[i].level >= f.level
<1> DEFINE L == Ladders(f.purpose)
           t == TargetStrength(f)
<1>1. PICK m \in 1..3 :
        /\ DOMAIN L = 1..m
        /\ \A i \in 1..m :
             /\ L[i] \in AllLadders
             /\ \E p \in LadderPurposes(f.purpose), n \in {2, 3} : IsLadder(L[i], p, n)
  BY LaddersOf
<1>2. /\ t \in Int
      /\ f.level # None => f.level <= t
      /\ f.level # None /\ f.level <= 256 => t <= 256
  BY DEF TargetStrength, MinimumClassicalStrength
<1>3. Recommend(f) = [i \in 1..m |-> Climb(L[i], t)]
  BY <1>1 DEF Recommend
<1> HIDE DEF L, t
<1>4. ASSUME NEW i \in 1..m
      PROVE  /\ Climb(L[i], t) \in Mechanism
             /\ Climb(L[i], t).purpose \in LadderPurposes(f.purpose)
             /\ f.level # None /\ f.level <= 256 => Climb(L[i], t).level >= f.level
  <2>1. PICK p \in LadderPurposes(f.purpose), n \in {2, 3} : IsLadder(L[i], p, n)
    BY <1>1
  <2> DEFINE c == Climb(L[i], t)
  <2>2. /\ \E j \in DOMAIN L[i] : c = L[i][j]
        /\ c.purpose = p
        /\ t <= 256 => c.level >= t
    BY <1>2, <2>1, ClimbFacts
  <2> HIDE DEF c
  <2>3. c \in Mechanism
    BY <1>1, <2>2 DEF Mechanism
  <2>4. PICK j \in DOMAIN L[i] : c = L[i][j]
    BY <2>2
  <2>5. c.level \in Int
    BY <2>1, <2>4 DEF IsLadder
  <2>6. f.level # None /\ f.level <= 256 => c.level >= f.level
    BY <1>2, <2>2, <2>5
  <2> QED BY <2>2, <2>3, <2>6 DEF c
<1>5. Recommend(f) \in [1..m -> Mechanism]
  BY <1>3, <1>4
<1>6. Recommend(f) # None
  BY <1>5, AdviceAssumption DEF Mechanism
<1>7. DOMAIN Recommend(f) = 1..m /\ \A i \in 1..m : Recommend(f)[i] = Climb(L[i], t)
  BY <1>3
<1> QED BY <1>4, <1>6, <1>7

\* The classical axis never speaks of quantum computers.
LEMMA ClassicalWeaknesses ==
  ASSUME NEW f, NEW t
  PROVE  \A r \in ClassicalReasons(f, t) : r.weakness \in TimelessWeakness \cup Expiry
<1> DEFINE W == TimelessWeakness \cup Expiry
           Found == IF Len(f.algorithm) = 1 THEN BrokenAlgorithm(f.algorithm[1])
                                            ELSE BrokenComposite(f.algorithm)
<1>1. \A name : \A r \in BrokenAlgorithm(name) : r.weakness \in W
  BY DEF BrokenAlgorithm, Reason, TimelessWeakness
<1>2. \A r \in Found : r.weakness \in W
  BY <1>1 DEF BrokenComposite
<1>3. \A r \in BrokenReasons(f) : r.weakness \in W
  <2> SUFFICES ASSUME NEW r \in BrokenReasons(f) PROVE r.weakness \in W
    OBVIOUS
  <2>1. PICK q \in Found : r = IF q.weakness = "broken_algorithm" /\ IsSecurityCritical(f)
                               THEN Reason(q.weakness, Escalate(q.level)) ELSE q
    BY DEF BrokenReasons
  <2>2. q.weakness \in W
    BY <1>2
  <2> HIDE DEF W, Found
  <2> QED BY <2>1, <2>2 DEF Reason
<1>4. /\ \A r \in VerificationReasons(f) : r.weakness \in W
      /\ \A r \in ModeReasons(f) : r.weakness \in W
      /\ \A r \in PaddingReasons(f) : r.weakness \in W
      /\ \A r \in KeySizeReasons(f) : r.weakness \in W
  BY DEF VerificationReasons, ModeReasons, PaddingReasons, KeySizeReasons, Reason, TimelessWeakness
<1>5. \A r \in ExpiryReasons(f, t) : r.weakness \in W
  BY DEF ExpiryReasons, Reason, Expiry
<1> HIDE DEF W
<1>6. \A r \in ClassicalReasons(f, t) : r.weakness \in W
  BY <1>3, <1>4, <1>5 DEF ClassicalReasons
<1> QED BY <1>6 DEF W

Exposures == {"harvest_now_decrypt_later", "quantum_vulnerable_signature",
              "quantum_vulnerable_unknown_purpose"}

\* What an assessment says of quantum computers follows from the migration status
\* and the purpose.
LEMMA AssessedExposure ==
  ASSUME NEW f, NEW t
  PROVE  LET reasons == Assess(f, t).reasons IN
         /\ (\E r \in reasons : r.weakness \in Exposures) <=> Migration(f) = "quantum_vulnerable"
         /\ HasWeakness(reasons, "quantum_vulnerable_signature") => f.purpose = "digital_signature"
         /\ HasWeakness(reasons, "harvest_now_decrypt_later") =>
              f.purpose \in {"key_establishment", "encryption"}
<1> DEFINE C == ClassicalReasons(f, t)
           Q == QuantumReasons(f, t)
           q == QuantumRisk(f.purpose)
<1>1. Assess(f, t).reasons = C \cup Q
  BY DEF Assess
<1>2. \A r \in C : r.weakness \notin Exposures
  BY ClassicalWeaknesses DEF TimelessWeakness, Expiry, Exposures
<1>3. /\ q.weakness \in Exposures
      /\ q.weakness = "quantum_vulnerable_signature" => f.purpose = "digital_signature"
      /\ q.weakness = "harvest_now_decrypt_later" => f.purpose \in {"key_establishment", "encryption"}
  BY DEF QuantumRisk, Reason, Exposures
<1>4. \A r \in OutlivedDeadline(f, t) : r.weakness \notin Exposures
  BY DEF OutlivedDeadline, Reason, Exposures
<1>5. CASE Migration(f) = "quantum_vulnerable"
  <2>1. Q = {q} \cup OutlivedDeadline(f, t)
    BY <1>5 DEF QuantumReasons
  <2> HIDE DEF C, Q, q
  <2>2. \A r \in C \cup Q : r.weakness \in Exposures => r = q
    BY <1>2, <1>4, <2>1
  <2>3. q \in C \cup Q
    BY <2>1
  <2>4. {"quantum_vulnerable_signature", "harvest_now_decrypt_later"} \subseteq Exposures
    BY DEF Exposures
  <2> QED BY <1>1, <1>3, <1>5, <2>2, <2>3, <2>4 DEF HasWeakness
<1>6. CASE Migration(f) # "quantum_vulnerable"
  <2>1. \A r \in Q : r.weakness \notin Exposures
    BY <1>6 DEF QuantumReasons, Reason, Exposures
  <2> HIDE DEF C, Q
  <2>2. \A r \in C \cup Q : r.weakness \notin Exposures
    BY <1>2, <2>1
  <2>3. {"quantum_vulnerable_signature", "harvest_now_decrypt_later"} \subseteq Exposures
    BY DEF Exposures
  <2> QED BY <1>1, <1>6, <2>2, <2>3 DEF HasWeakness
<1> QED BY <1>5, <1>6

\* Where ids decide, a finding has a recommendation exactly if it is quantum
\* vulnerable; it is of the kind that the assessment asks for, and not weaker than
\* what it replaces (README, "Why purpose matters"; catalog.py, recommend).
THEOREM AdviceFits == Spec => []AdviceFitsAssessment
<1>1. IInv => AdviceFitsAssessment
  <2> SUFFICES ASSUME IInv, Finished, IdsDecide, NEW n \in DOMAIN findings
               PROVE  LET f == findings[n]
                          a == assessments[FindingId(f)]
                      IN /\ FindingId(f) \in DOMAIN recommendations
                              <=> \E r \in a.reasons : r.weakness \in
                                    {"harvest_now_decrypt_later", "quantum_vulnerable_signature",
                                     "quantum_vulnerable_unknown_purpose"}
                         /\ FindingId(f) \in DOMAIN recommendations =>
                              LET advice == recommendations[FindingId(f)] IN
                              /\ HasWeakness(a.reasons, "quantum_vulnerable_signature")
                                   => Primary(advice).purpose = "digital_signature"
                              /\ HasWeakness(a.reasons, "harvest_now_decrypt_later")
                                   => Primary(advice).purpose = "key_establishment"
                              /\ \A i \in DOMAIN advice : f.level # None /\ f.level <= 256
                                                            => advice[i].level >= f.level
    BY DEF AdviceFitsAssessment
  <2> DEFINE f == findings[n]
             a == assessments[FindingId(f)]
             advice == recommendations[FindingId(f)]
  <2>1. n \in 1..assessed /\ n \in 1..Len(findings)
    BY AllIds
  <2>2. /\ a = Assess(f, moment)
        /\ FindingId(f) \in DOMAIN recommendations <=> Recommend(f) # None
        /\ Recommend(f) # None => advice = Recommend(f)
    BY <2>1 DEF IInv, Assessed
  <2>3. f.level \in Int \cup {None}
    BY <2>1 DEF IInv, Lists, GivesFindings
  <2>4. /\ (\E r \in a.reasons : r.weakness \in Exposures) <=> Migration(f) = "quantum_vulnerable"
        /\ HasWeakness(a.reasons, "quantum_vulnerable_signature") => f.purpose = "digital_signature"
        /\ HasWeakness(a.reasons, "harvest_now_decrypt_later") =>
             f.purpose \in {"key_establishment", "encryption"}
    BY <2>2, AssessedExposure
  <2>5. Migration(f) # "quantum_vulnerable" => Recommend(f) = None
    BY DEF Recommend
  <2> HIDE DEF f, a, advice
  <2>6. FindingId(f) \in DOMAIN recommendations
          <=> \E r \in a.reasons : r.weakness \in Exposures
    BY <2>2, <2>3, <2>4, <2>5, RecommendFacts
  <2>7. ASSUME FindingId(f) \in DOMAIN recommendations
        PROVE  /\ 1 \in DOMAIN advice
               /\ \A i \in DOMAIN advice :
                    /\ advice[i].purpose \in LadderPurposes(f.purpose)
                    /\ f.level # None /\ f.level <= 256 => advice[i].level >= f.level
    BY <2>2, <2>3, <2>5, <2>7, RecommendFacts
  <2>8. ASSUME NEW p, LadderPurposes(f.purpose) = {p}, FindingId(f) \in DOMAIN recommendations
        PROVE  Primary(advice).purpose = p
    BY <2>7, <2>8 DEF Primary, Ambiguous
  <2>9. ASSUME FindingId(f) \in DOMAIN recommendations
        PROVE  /\ HasWeakness(a.reasons, "quantum_vulnerable_signature")
                    => Primary(advice).purpose = "digital_signature"
               /\ HasWeakness(a.reasons, "harvest_now_decrypt_later")
                    => Primary(advice).purpose = "key_establishment"
    <3>1. /\ f.purpose = "digital_signature" => LadderPurposes(f.purpose) = {"digital_signature"}
          /\ f.purpose \in {"key_establishment", "encryption"} =>
               LadderPurposes(f.purpose) = {"key_establishment"}
      BY DEF LadderPurposes
    <3> QED BY <2>4, <2>8, <2>9, <3>1
  <2> QED BY <2>6, <2>7, <2>9 DEF f, a, advice, Exposures
<1> QED BY <1>1, Running, PTL

(***************************************************************************)
(* The counters and the dicts                                              *)
(***************************************************************************)

\* Every file is accounted for, what was skipped is what raised, and the dicts hold
\* the findings met so far and no others (scan.py, _read_each and scan).
THEOREM TypeCorrect == Spec => []TypeOK
<1>1. IInv /\ FInv => TypeOK
  BY DEF IInv, Course, Assessed, FInv, Counted, Stages, TypeOK
<1> QED BY <1>1, Running, FilesCounted, PTL
=============================================================================
