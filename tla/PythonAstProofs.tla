--------------------------- MODULE PythonAstProofs ---------------------------
(***************************************************************************)
(* Theorems about the walk of a syntax tree, for every tree: the stacks    *)
(* beside the recursion mirror it, and the kind of an import is settled by *)
(* the tries around it.                                                    *)
(***************************************************************************)
EXTENDS PythonAst, Lemmas, FiniteSetTheorems, TLAPS

(***************************************************************************)
(* How many open nodes there are of some kinds                             *)
(***************************************************************************)

Height(f, kinds) == Cardinality({i \in DOMAIN f : f[i].node.kind \in kinds})

\* The open nodes can be counted.
LEMMA HeightIsNumber ==
  ASSUME NEW f, IsSequence(f), NEW kinds
  PROVE  /\ IsFiniteSet({i \in DOMAIN f : f[i].node.kind \in kinds})
         /\ Height(f, kinds) \in Nat
<1>1. IsFiniteSet(1..Len(f))
  BY SequenceFacts, FS_Interval
<1>2. IsFiniteSet({i \in DOMAIN f : f[i].node.kind \in kinds})
  BY <1>1, SequenceFacts, FS_Subset
<1> QED BY <1>2, FS_CardinalityType DEF Height

\* One node is entered, or left.
LEMMA HeightGrows ==
  ASSUME NEW f, IsSequence(f), NEW g, IsSequence(g), NEW kinds,
         Len(g) = Len(f) + 1,
         \A i \in 1..Len(f) : g[i].node.kind = f[i].node.kind
  PROVE  Height(g, kinds) = Height(f, kinds) +
                            (IF g[Len(g)].node.kind \in kinds THEN 1 ELSE 0)
<1> DEFINE F == {i \in DOMAIN f : f[i].node.kind \in kinds}
           G == {i \in DOMAIN g : g[i].node.kind \in kinds}
<1>1. Len(f) \in Nat /\ DOMAIN f = 1..Len(f) /\ DOMAIN g = 1..Len(f) + 1
  BY SequenceFacts
<1>2. Len(g) \notin F
  BY <1>1
<1>3. IsFiniteSet(F) /\ Cardinality(F) \in Nat
  BY HeightIsNumber DEF Height
<1>4. Height(f, kinds) = Cardinality(F) /\ Height(g, kinds) = Cardinality(G)
  BY DEF Height
<1>5. g[Len(g)].node.kind \in kinds => G = F \cup {Len(g)}
  BY <1>1
<1>6. g[Len(g)].node.kind \notin kinds => G = F
  BY <1>1
<1> HIDE DEF F, G
<1>7. Cardinality(F \cup {Len(g)}) = Cardinality(F) + 1
  BY <1>2, <1>3, FS_AddElement
<1>8. CASE g[Len(g)].node.kind \in kinds
  BY <1>4, <1>5, <1>7, <1>8
<1>9. CASE g[Len(g)].node.kind \notin kinds
  <2>1. Cardinality(G) = Cardinality(F)
    BY <1>6, <1>9
  <2> QED BY <1>3, <1>4, <1>9, <2>1
<1> QED BY <1>8, <1>9

\* Nodes of the same kinds count the same.
LEMMA HeightKept ==
  ASSUME NEW f, IsSequence(f), NEW g, IsSequence(g), NEW kinds,
         Len(g) = Len(f),
         \A i \in 1..Len(f) : g[i].node.kind \in kinds <=> f[i].node.kind \in kinds
  PROVE  Height(g, kinds) = Height(f, kinds)
<1>1. DOMAIN f = 1..Len(f) /\ DOMAIN g = 1..Len(f)
  BY SequenceFacts
<1>2. {i \in DOMAIN f : f[i].node.kind \in kinds} = {i \in DOMAIN g : g[i].node.kind \in kinds}
  BY <1>1
<1> QED BY <1>2 DEF Height

(***************************************************************************)
(* The moves of the walk                                                   *)
(***************************************************************************)

ShapeOf(frame) == {"node", "rest", "saved"} \subseteq DOMAIN frame

Stack == IsSequence(frames) /\ \A i \in 1..Len(frames) : ShapeOf(frames[i])

\* The innermost frame is replaced.
LEMMA TopReplaced ==
  ASSUME Stack, frames # <<>>, NEW e
  PROVE  /\ IsSequence([frames EXCEPT ![Len(frames)] = e])
         /\ Len([frames EXCEPT ![Len(frames)] = e]) = Len(frames)
         /\ \A i \in 1..Len(frames) :
              [frames EXCEPT ![Len(frames)] = e][i] = IF i = Len(frames) THEN e ELSE frames[i]
<1> DEFINE n == Len(frames)
<1>1. n \in 1..Len(frames) /\ IsSequence(frames)
  BY SequenceFacts DEF Stack
<1> HIDE DEF n
<1>2. /\ IsSequence([frames EXCEPT ![n] = e])
      /\ Len([frames EXCEPT ![n] = e]) = Len(frames)
      /\ \A i \in 1..Len(frames) : [frames EXCEPT ![n] = e][i] = IF i = n THEN e ELSE frames[i]
  BY <1>1, Replaced
<1> QED BY <1>2 DEF n

\* The next child of the top node is due,
LEMMA AdvancedFacts ==
  ASSUME Stack, frames # <<>>
  PROVE  /\ IsSequence(Advanced)
         /\ Len(Advanced) = Len(frames)
         /\ \A i \in 1..Len(frames) : /\ ShapeOf(Advanced[i])
                                      /\ Advanced[i].node = frames[i].node
                                      /\ Advanced[i].saved = frames[i].saved
<1> DEFINE e == [frames[Len(frames)] EXCEPT !.rest = Tail(@)]
<1>1. Len(frames) \in 1..Len(frames)
  BY SequenceFacts DEF Stack
<1>2. Advanced = [frames EXCEPT ![Len(frames)] = e]
  BY DEF Advanced
<1>3. /\ ShapeOf(e)
      /\ e.node = frames[Len(frames)].node
      /\ e.saved = frames[Len(frames)].saved
  BY <1>1 DEF Stack, ShapeOf
<1> HIDE DEF e
<1>4. /\ IsSequence(Advanced)
      /\ Len(Advanced) = Len(frames)
      /\ \A i \in 1..Len(frames) : Advanced[i] = IF i = Len(frames) THEN e ELSE frames[i]
  BY <1>2, TopReplaced
<1> QED BY <1>3, <1>4 DEF Stack

\* a child is entered above the nodes that are open,
LEMMA EnteredFacts ==
  ASSUME Stack, frames # <<>>
  PROVE  /\ IsSequence(Entered)
         /\ Len(Entered) = Len(frames) + 1
         /\ \A i \in 1..Len(frames) + 1 : ShapeOf(Entered[i])
         /\ \A i \in 1..Len(frames) : /\ Entered[i].node = frames[i].node
                                      /\ Entered[i].saved = frames[i].saved
         /\ Entered[Len(frames) + 1].node = Node
         /\ Entered[Len(frames) + 1].saved = importKind
<1> DEFINE e == Frame(Node, importKind)
<1>1. ShapeOf(e) /\ e.node = Node /\ e.saved = importKind
  BY DEF Frame, ShapeOf
<1>2. Entered = Append(Advanced, e)
  BY DEF Entered
<1> HIDE DEF e
<1>3. /\ IsSequence(Entered)
      /\ Len(Entered) = Len(frames) + 1
      /\ Entered[Len(frames) + 1] = e
      /\ \A i \in 1..Len(frames) : Entered[i] = Advanced[i]
  BY <1>2, AdvancedFacts, Appended
<1>4. Len(frames) \in Nat
  BY SequenceFacts DEF Stack
<1> QED BY <1>1, <1>3, <1>4, AdvancedFacts

\* the top node is left,
LEMMA LeftFacts ==
  ASSUME Stack, frames # <<>>
  PROVE  /\ IsSequence(Left)
         /\ Len(Left) = Len(frames) - 1
         /\ \A i \in 1..Len(frames) - 1 : Left[i] = frames[i]
BY Shortened DEF Left, Stack

\* and there is a top node as long as there are frames.
LEMMA TopFacts ==
  ASSUME Stack, frames # <<>>
  PROVE  Len(frames) \in Nat \ {0} /\ Top = frames[Len(frames)]
BY SequenceFacts DEF Stack, Top

\* An assignment whose value has been visited.
LEMMA AssignedFacts ==
  ASSUME Stack, frames # <<>>, frames' = [frames EXCEPT ![Len(frames)].node = Assigned(@)]
  PROVE  /\ IsSequence(frames')
         /\ Len(frames') = Len(frames)
         /\ \A i \in 1..Len(frames) : /\ ShapeOf(frames'[i])
                                      /\ frames'[i].saved = frames[i].saved
         /\ \A i \in 1..Len(frames) - 1 : frames'[i].node = frames[i].node
         /\ frames'[Len(frames)].node.kind = "assigned"
<1> DEFINE e == [frames[Len(frames)] EXCEPT !.node = Assigned(@)]
<1>1. Len(frames) \in 1..Len(frames) /\ Len(frames) \in Nat
  BY SequenceFacts DEF Stack
<1>2. frames' = [frames EXCEPT ![Len(frames)] = e]
  OBVIOUS
<1>3. /\ ShapeOf(e)
      /\ e.node = Assigned(frames[Len(frames)].node)
      /\ e.saved = frames[Len(frames)].saved
  BY <1>1 DEF Stack, ShapeOf
<1>4. e.node.kind = "assigned"
  BY <1>3 DEF Assigned
<1> HIDE DEF e
<1>5. /\ IsSequence(frames')
      /\ Len(frames') = Len(frames)
      /\ \A i \in 1..Len(frames) : frames'[i] = IF i = Len(frames) THEN e ELSE frames[i]
  BY <1>2, TopReplaced
<1> QED BY <1>1, <1>3, <1>4, <1>5 DEF Stack

(***************************************************************************)
(* The kind of an import                                                   *)
(***************************************************************************)

Guarding(node) == node.kind = "try" /\ IsConditionalImport(node)

\* One of the n outermost frames of f is a try that guards an import.
Guarded(f, n) == \E i \in 1..n : Guarding(f[i].node)

ImportKinds == {"import", "conditional_import"}

\* The kind in force is settled by the open tries, and so is each that was put
\* aside, by the tries open at that time.
Nested ==
  /\ Stack
  /\ importKind \in ImportKinds
  /\ importKind = "conditional_import" <=> Guarded(frames, Len(frames))
  /\ \A n \in 1..Len(frames) :
       /\ frames[n].saved \in ImportKinds
       /\ frames[n].saved = "conditional_import" <=> Guarded(frames, n - 1)

\* No kind is saved at first,
LEMMA NestedInit == Init => Nested
<1> SUFFICES ASSUME Init PROVE Nested
  OBVIOUS
<1>1. PICK body \in Module :
        frames = <<Frame([kind |-> "module", body |-> body], "import")>>
  BY DEF Init
<1> DEFINE e == Frame([kind |-> "module", body |-> body], "import")
<1>2. ShapeOf(e) /\ e.saved = "import" /\ e.node.kind = "module"
  BY DEF ShapeOf, Frame
<1>3. frames = <<e>>
  BY <1>1
<1> HIDE DEF e
<1>4. frames \in Seq({e})
  BY <1>3
<1>5. Len(frames) = 1 /\ frames[1] = e
  BY <1>3
<1>6. Stack
  BY <1>2, <1>4, <1>5 DEF Stack, IsSequence
<1>7. ~Guarded(frames, 1) /\ ~Guarded(frames, 0)
  BY <1>2, <1>5 DEF Guarded, Guarding
<1>8. importKind = "import"
  BY DEF Init
<1> QED BY <1>2, <1>5, <1>6, <1>7, <1>8 DEF Nested, ImportKinds

\* A node without children is passed.
LEMMA NestedAdvanced ==
  ASSUME Nested, frames # <<>>, frames' = Advanced, importKind' = importKind
  PROVE  Nested'
<1>1. Stack /\ Len(frames) \in Nat
  BY SequenceFacts DEF Nested, Stack
<1>2. /\ IsSequence(frames')
      /\ Len(frames') = Len(frames)
      /\ \A i \in 1..Len(frames) : /\ ShapeOf(frames'[i])
                                   /\ frames'[i].node = frames[i].node
                                   /\ frames'[i].saved = frames[i].saved
  BY <1>1, AdvancedFacts
<1>3. \A n \in 0..Len(frames) : Guarded(frames', n) <=> Guarded(frames, n)
  BY <1>1, <1>2 DEF Guarded
<1>4. Stack'
  BY <1>2 DEF Stack
<1>5. ASSUME NEW n \in 1..Len(frames)
      PROVE  /\ frames'[n].saved \in ImportKinds
             /\ frames'[n].saved = "conditional_import" <=> Guarded(frames', n - 1)
  <2>1. n - 1 \in 0..Len(frames) /\ frames'[n].saved = frames[n].saved
    BY <1>1, <1>2
  <2>2. Guarded(frames', n - 1) <=> Guarded(frames, n - 1)
    BY <1>3, <2>1
  <2> QED BY <2>1, <2>2 DEF Nested
<1>6. /\ importKind' \in ImportKinds
      /\ importKind' = "conditional_import" <=> Guarded(frames', Len(frames'))
  BY <1>1, <1>2, <1>3 DEF Nested
<1> QED BY <1>2, <1>4, <1>5, <1>6 DEF Nested

\* A node is entered.
LEMMA NestedEntered ==
  ASSUME Nested, frames # <<>>, frames' = Entered,
         importKind' = IF Guarding(Node) THEN "conditional_import" ELSE importKind
  PROVE  Nested'
<1>1. Stack /\ Len(frames) \in Nat
  BY SequenceFacts DEF Nested, Stack
<1> DEFINE m == Len(frames) + 1
<1>2. /\ IsSequence(frames')
      /\ Len(frames') = m
      /\ \A i \in 1..m : ShapeOf(frames'[i])
      /\ \A i \in 1..Len(frames) : /\ frames'[i].node = frames[i].node
                                   /\ frames'[i].saved = frames[i].saved
      /\ frames'[m].node = Node
      /\ frames'[m].saved = importKind
  BY <1>1, EnteredFacts
<1>3. \A n \in 0..Len(frames) : Guarded(frames', n) <=> Guarded(frames, n)
  BY <1>1, <1>2 DEF Guarded
<1>4. Guarded(frames', m) <=> Guarded(frames, Len(frames)) \/ Guarding(Node)
  BY <1>1, <1>2, <1>3 DEF Guarded
<1>5. Stack'
  BY <1>2 DEF Stack
<1>6. ASSUME NEW n \in 1..m
      PROVE  /\ frames'[n].saved \in ImportKinds
             /\ frames'[n].saved = "conditional_import" <=> Guarded(frames', n - 1)
  BY <1>1, <1>2, <1>3 DEF Nested
<1>7. /\ importKind' \in ImportKinds
      /\ importKind' = "conditional_import" <=> Guarded(frames', m)
  BY <1>4 DEF Nested, ImportKinds
<1> QED BY <1>2, <1>5, <1>6, <1>7 DEF Nested

\* A node is left; a try puts back what it had put aside.
LEMMA NestedLeft ==
  ASSUME Nested, frames # <<>>, frames' = Left,
         \/ importKind' = Top.saved
         \/ importKind' = importKind /\ ~Guarding(Top.node)
  PROVE  Nested'
<1>1. Stack /\ Len(frames) \in Nat \ {0} /\ Top = frames[Len(frames)]
  BY TopFacts DEF Nested
<1> DEFINE m == Len(frames) - 1
<1>2. /\ IsSequence(frames')
      /\ Len(frames') = m
      /\ \A i \in 1..m : frames'[i] = frames[i]
  BY <1>1, LeftFacts
<1>3. \A n \in 0..m : Guarded(frames', n) <=> Guarded(frames, n)
  BY <1>1, <1>2 DEF Guarded
<1>4. Guarded(frames, Len(frames)) <=> Guarded(frames, m) \/ Guarding(Top.node)
  BY <1>1 DEF Guarded
<1>5. Stack'
  BY <1>1, <1>2 DEF Stack
<1>6. ASSUME NEW n \in 1..m
      PROVE  /\ frames'[n].saved \in ImportKinds
             /\ frames'[n].saved = "conditional_import" <=> Guarded(frames', n - 1)
  <2>1. n \in 1..Len(frames) /\ n - 1 \in 0..m
    BY <1>1
  <2>2. frames'[n].saved = frames[n].saved
    BY <1>2
  <2>3. Guarded(frames', n - 1) <=> Guarded(frames, n - 1)
    BY <1>3, <2>1
  <2> QED BY <2>1, <2>2, <2>3 DEF Nested
<1>7. /\ importKind' \in ImportKinds
      /\ importKind' = "conditional_import" <=> Guarded(frames', m)
  BY <1>1, <1>3, <1>4 DEF Nested
<1> QED BY <1>2, <1>5, <1>6, <1>7 DEF Nested

\* The targets of an assignment are bound.
LEMMA NestedAssigned ==
  ASSUME Nested, frames # <<>>, Top.node.kind = "assign", importKind' = importKind,
         frames' = [frames EXCEPT ![Len(frames)].node = Assigned(@)]
  PROVE  Nested'
<1>1. Stack /\ Len(frames) \in Nat \ {0} /\ Top = frames[Len(frames)]
  BY TopFacts DEF Nested
<1>2. /\ IsSequence(frames')
      /\ Len(frames') = Len(frames)
      /\ \A i \in 1..Len(frames) : /\ ShapeOf(frames'[i])
                                   /\ frames'[i].saved = frames[i].saved
      /\ \A i \in 1..Len(frames) - 1 : frames'[i].node = frames[i].node
      /\ frames'[Len(frames)].node.kind = "assigned"
  BY <1>1, AssignedFacts
<1>3. \A i \in 1..Len(frames) : Guarding(frames'[i].node) <=> Guarding(frames[i].node)
  <2> SUFFICES ASSUME NEW i \in 1..Len(frames)
               PROVE  Guarding(frames'[i].node) <=> Guarding(frames[i].node)
    OBVIOUS
  <2>1. CASE i = Len(frames)
    BY <1>1, <1>2, <2>1 DEF Guarding
  <2>2. CASE i # Len(frames)
    BY <1>1, <1>2, <2>2
  <2> QED BY <2>1, <2>2
<1>4. \A n \in 0..Len(frames) : Guarded(frames', n) <=> Guarded(frames, n)
  BY <1>1, <1>3 DEF Guarded
<1>5. Stack'
  BY <1>2 DEF Stack
<1>6. ASSUME NEW n \in 1..Len(frames)
      PROVE  /\ frames'[n].saved \in ImportKinds
             /\ frames'[n].saved = "conditional_import" <=> Guarded(frames', n - 1)
  <2>1. n - 1 \in 0..Len(frames) /\ frames'[n].saved = frames[n].saved
    BY <1>1, <1>2
  <2>2. Guarded(frames', n - 1) <=> Guarded(frames, n - 1)
    BY <1>4, <2>1
  <2> QED BY <2>1, <2>2 DEF Nested
<1>7. /\ importKind' \in ImportKinds
      /\ importKind' = "conditional_import" <=> Guarded(frames', Len(frames'))
  <2>1. Len(frames) \in 0..Len(frames) /\ Len(frames') = Len(frames)
    BY <1>1, <1>2
  <2>2. Guarded(frames', Len(frames)) <=> Guarded(frames, Len(frames))
    BY <1>4, <2>1
  <2> QED BY <2>1, <2>2 DEF Nested
<1> QED BY <1>2, <1>5, <1>6, <1>7 DEF Nested

\* a try saves the kind around it and gives it back, and no other step touches either,
LEMMA NestedNext == Nested /\ [Next]_vars => Nested'
<1> SUFFICES ASSUME Nested, [Next]_vars PROVE Nested'
  OBVIOUS
<1>1. CASE VisitImport
  BY <1>1, NestedAdvanced DEF VisitImport, Meets
<1>2. CASE VisitImportFrom
  BY <1>2, NestedAdvanced DEF VisitImportFrom, Meets
<1>3. CASE VisitTry
  BY <1>3, NestedEntered DEF VisitTry, Meets, Guarding
<1>4. CASE LeaveTry
  BY <1>4, NestedLeft DEF LeaveTry, Leaves, KindBefore
<1>5. CASE VisitFunctionDef
  BY <1>5, NestedEntered DEF VisitFunctionDef, Meets, Guarding
<1>6. CASE LeaveFunctionDef
  BY <1>6, NestedLeft DEF LeaveFunctionDef, Leaves, Guarding
<1>7. CASE VisitClassDef
  BY <1>7, NestedEntered DEF VisitClassDef, Meets, Guarding
<1>8. CASE LeaveClassDef
  BY <1>8, NestedLeft DEF LeaveClassDef, Leaves, Guarding
<1>9. CASE VisitCall
  BY <1>9, NestedEntered DEF VisitCall, Meets, Guarding
<1>10. CASE LeaveCall
  BY <1>10, NestedLeft DEF LeaveCall, Leaves, Guarding
<1>11. CASE LeaveAssign
  BY <1>11, NestedAssigned DEF LeaveAssign, Leaves
<1>12. CASE LeaveAssigned
  BY <1>12, NestedLeft DEF LeaveAssigned, Leaves, Guarding
<1>13. CASE VisitOther
  BY <1>13, NestedEntered DEF VisitOther, Meets, Guarding
<1>14. CASE LeaveOther
  BY <1>14, NestedLeft DEF LeaveOther, Leaves, Guarding
<1>15. CASE UNCHANGED vars
  BY <1>15 DEF vars, Nested, Stack, Guarded
<1> QED
  BY <1>1, <1>2, <1>3, <1>4, <1>5, <1>6, <1>7, <1>8, <1>9, <1>10, <1>11, <1>12, <1>13,
     <1>14, <1>15 DEF Next

\* and the kind in force is the one that the open tries settle.
LEMMA NestedKind == Nested => KindFollowsNesting
<1> SUFFICES ASSUME Nested PROVE KindFollowsNesting
  OBVIOUS
<1>1. DOMAIN frames = 1..Len(frames)
  BY SequenceFacts DEF Nested, Stack
<1> QED BY <1>1 DEF Nested, Guarded, Guarding, KindFollowsNesting

\* KindFollowsNesting, for every tree: an import is conditional exactly inside a
\* try that guards an import (symbol_table.py, visit_Try).
THEOREM KindSettled == Spec => []KindFollowsNesting
<1>1. Init => Nested
  BY NestedInit
<1>2. Nested /\ [Next]_vars => Nested'
  BY NestedNext
<1>3. Nested => KindFollowsNesting
  BY NestedKind
<1> QED BY <1>1, <1>2, <1>3, PTL DEF Spec

(***************************************************************************)
(* The stacks                                                              *)
(***************************************************************************)

\* Going on to the next child opens nothing,
LEMMA HeightAdvanced ==
  ASSUME Stack, frames # <<>>, NEW kinds
  PROVE  Height(Advanced, kinds) = Height(frames, kinds)
<1>1. IsSequence(frames)
  BY DEF Stack
<1> QED BY <1>1, AdvancedFacts, HeightKept

\* entering opens one node of the child's kind,
LEMMA HeightEntered ==
  ASSUME Stack, frames # <<>>, NEW kinds
  PROVE  Height(Entered, kinds) = Height(frames, kinds) + (IF Node.kind \in kinds THEN 1 ELSE 0)
<1>1. IsSequence(frames)
  BY DEF Stack
<1> QED BY <1>1, EnteredFacts, HeightGrows

\* leaving closes one of the top's kind,
LEMMA HeightLeft ==
  ASSUME Stack, frames # <<>>, NEW kinds
  PROVE  /\ Height(Left, kinds) \in Nat
         /\ Height(frames, kinds) = Height(Left, kinds) +
                                    (IF Top.node.kind \in kinds THEN 1 ELSE 0)
<1>1. IsSequence(frames) /\ IsSequence(Left)
  BY LeftFacts DEF Stack
<1>2. Len(frames) = Len(Left) + 1 /\ Top = frames[Len(frames)]
  BY LeftFacts, TopFacts
<1>3. \A i \in 1..Len(Left) : frames[i].node.kind = Left[i].node.kind
  BY <1>2, LeftFacts, TopFacts
<1>4. Height(frames, kinds) = Height(Left, kinds) +
                              (IF frames[Len(frames)].node.kind \in kinds THEN 1 ELSE 0)
  BY <1>1, <1>2, <1>3, HeightGrows
<1> QED BY <1>1, <1>2, <1>4, HeightIsNumber

\* and an assignment is no block before and after its value.
LEMMA HeightAssigned ==
  ASSUME Stack, frames # <<>>, Top.node.kind = "assign",
         frames' = [frames EXCEPT ![Len(frames)].node = Assigned(@)],
         NEW kinds, "assign" \notin kinds, "assigned" \notin kinds
  PROVE  Height(frames', kinds) = Height(frames, kinds)
<1>1. IsSequence(frames) /\ IsSequence(frames') /\ Len(frames') = Len(frames)
  BY AssignedFacts DEF Stack
<1>2. \A i \in 1..Len(frames) :
        frames'[i].node.kind \in kinds <=> frames[i].node.kind \in kinds
  <2> SUFFICES ASSUME NEW i \in 1..Len(frames)
               PROVE  frames'[i].node.kind \in kinds <=> frames[i].node.kind \in kinds
    OBVIOUS
  <2>1. CASE i = Len(frames)
    BY <2>1, AssignedFacts, TopFacts
  <2>2. CASE i # Len(frames)
    <3>1. i \in 1..Len(frames) - 1
      BY <2>2, TopFacts
    <3> QED BY <3>1, AssignedFacts
  <2> QED BY <2>1, <2>2
<1> QED BY <1>1, <1>2, HeightKept

Blocks == {"function", "class"}

\* TypeOK, with what the stacks are.
Mirrored ==
  /\ IsSequence(scopes) /\ Len(scopes) = 1 + Height(frames, Blocks)
  /\ IsSequence(classStack) /\ Len(classStack) = Height(frames, {"class"})
  /\ IsSequence(parents) /\ Len(parents) = Height(frames, {"call"})
  /\ \A i \in 1..Len(classStack) : classStack[i] \in DOMAIN classAttributes

\* At the start the stacks mirror the nodes.
LEMMA MirroredInit == Init => Mirrored
<1> SUFFICES ASSUME Init PROVE Mirrored
  OBVIOUS
<1>1. PICK body \in Module :
        frames = <<Frame([kind |-> "module", body |-> body], "import")>>
  BY DEF Init
<1>2. DOMAIN frames = {1} /\ frames[1].node.kind = "module"
  BY <1>1 DEF Frame
<1>3. \A kinds : "module" \notin kinds => {i \in DOMAIN frames : frames[i].node.kind \in kinds} = {}
  BY <1>2
<1>4. Height(frames, Blocks) = 0 /\ Height(frames, {"class"}) = 0 /\ Height(frames, {"call"}) = 0
  BY <1>3, FS_EmptySet DEF Height, Blocks
<1>5. /\ scopes = << <<>> >> /\ classStack = <<>> /\ parents = <<>>
  BY DEF Init, InitTable
<1>6. /\ scopes \in Seq({<<>>}) /\ Len(scopes) = 1
      /\ classStack \in Seq({}) /\ Len(classStack) = 0
      /\ parents \in Seq({}) /\ Len(parents) = 0
  BY <1>5
<1>7. IsSequence(scopes) /\ IsSequence(classStack) /\ IsSequence(parents)
  BY <1>6 DEF IsSequence
<1> QED BY <1>4, <1>6, <1>7 DEF Mirrored

\* Every height is a number.
LEMMA Heights ==
  ASSUME Stack
  PROVE  \A kinds : Height(frames, kinds) \in Nat
BY HeightIsNumber DEF Stack

\* Binding changes neither how many scopes there are nor which classes have
\* attributes.
LEMMA BoundFacts ==
  ASSUME Mirrored, Stack, NEW names, NEW bindings
  PROVE  /\ IsSequence(Bound(names, bindings))
         /\ Len(Bound(names, bindings)) = Len(scopes)
<1> DEFINE n == Len(scopes)
           e == Extended(scopes[n], names, bindings)
<1>1. n \in 1..Len(scopes) /\ IsSequence(scopes)
  BY Heights DEF Mirrored
<1>2. Bound(names, bindings) = [scopes EXCEPT ![n] = e]
  BY DEF Bound
<1> HIDE DEF n, e
<1>3. /\ IsSequence([scopes EXCEPT ![n] = e])
      /\ Len([scopes EXCEPT ![n] = e]) = Len(scopes)
  BY <1>1, Replaced
<1> QED BY <1>2, <1>3

\* Nor does setting an attribute.
LEMMA AttributesBoundFacts ==
  ASSUME NEW names, NEW bindings
  PROVE  DOMAIN AttributesBound(names, bindings) = DOMAIN classAttributes
BY DEF AttributesBound

\* An import binds, or remembers a star, and is passed.
LEMMA MirroredImport ==
  ASSUME Mirrored, Stack, frames # <<>>, frames' = Advanced,
         \/ UNCHANGED scopes
         \/ \E names, bindings : scopes' = Bound(names, bindings),
         UNCHANGED <<classAttributes, classStack, parents>>
  PROVE  Mirrored'
<1>1. \A kinds : Height(frames', kinds) = Height(frames, kinds)
  BY HeightAdvanced
<1>2. IsSequence(scopes') /\ Len(scopes') = Len(scopes)
  BY BoundFacts DEF Mirrored
<1> QED BY <1>1, <1>2 DEF Mirrored

\* A node of no stack is entered, or left.
LEMMA MirroredEntered ==
  ASSUME Mirrored, Stack, frames # <<>>, frames' = Entered,
         Node.kind \notin Blocks \cup {"call"},
         UNCHANGED <<scopes, classAttributes, classStack, parents>>
  PROVE  Mirrored'
<1>1. \A kinds : Node.kind \notin kinds => Height(frames', kinds) = Height(frames, kinds)
  BY HeightEntered, Heights
<1>2. Node.kind \notin Blocks /\ Node.kind \notin {"class"} /\ Node.kind \notin {"call"}
  BY DEF Blocks
<1> QED BY <1>1, <1>2 DEF Mirrored

\* A node that is no block, class or call is left,
LEMMA MirroredLeft ==
  ASSUME Mirrored, Stack, frames # <<>>, frames' = Left,
         Top.node.kind \notin Blocks \cup {"call"},
         UNCHANGED <<scopes, classAttributes, classStack, parents>>
  PROVE  Mirrored'
<1>1. \A kinds : Top.node.kind \notin kinds => Height(frames', kinds) = Height(frames, kinds)
  BY HeightLeft
<1>2. Top.node.kind \notin Blocks /\ Top.node.kind \notin {"class"}
        /\ Top.node.kind \notin {"call"}
  BY DEF Blocks
<1> QED BY <1>1, <1>2 DEF Mirrored

\* an assignment is reported,
LEMMA MirroredAssign ==
  ASSUME Mirrored, Stack, LeaveAssign
  PROVE  Mirrored'
<1>1. frames # <<>> /\ Top.node.kind = "assign"
        /\ frames' = [frames EXCEPT ![Len(frames)].node = Assigned(@)]
  BY DEF LeaveAssign, Leaves
<1>2. PICK names, bindings : scopes' = Bound(names, bindings)
  BY DEF LeaveAssign
<1>3. PICK attributes, values : classAttributes' = AttributesBound(attributes, values)
  BY DEF LeaveAssign
<1>4. classStack' = classStack /\ parents' = parents
  BY DEF LeaveAssign
<1>5. /\ Height(frames', Blocks) = Height(frames, Blocks)
      /\ Height(frames', {"class"}) = Height(frames, {"class"})
      /\ Height(frames', {"call"}) = Height(frames, {"call"})
  BY <1>1, HeightAssigned DEF Blocks
<1>6. IsSequence(scopes') /\ Len(scopes') = Len(scopes)
  BY <1>2, BoundFacts
<1>7. DOMAIN classAttributes' = DOMAIN classAttributes
  BY <1>3, AttributesBoundFacts
<1> QED BY <1>4, <1>5, <1>6, <1>7 DEF Mirrored

\* a function is entered or left,
LEMMA MirroredFunction ==
  ASSUME Mirrored, Stack, VisitFunctionDef \/ LeaveFunctionDef
  PROVE  Mirrored'
<1>1. CASE VisitFunctionDef
  <2>1. frames # <<>> /\ Node.kind = "function" /\ frames' = Entered
    BY <1>1 DEF VisitFunctionDef, Meets
  <2>2. /\ Height(frames', Blocks) = Height(frames, Blocks) + 1
        /\ Height(frames', {"class"}) = Height(frames, {"class"})
        /\ Height(frames', {"call"}) = Height(frames, {"call"})
    BY <2>1, HeightEntered, Heights DEF Blocks
  <2>3. IsSequence(scopes') /\ Len(scopes') = Len(scopes) + 1
    BY <1>1, Appended DEF VisitFunctionDef, Pushed, Mirrored
  <2> QED BY <1>1, <2>2, <2>3, Heights DEF VisitFunctionDef, Mirrored
<1>2. CASE LeaveFunctionDef
  <2>1. frames # <<>> /\ Top.node.kind = "function" /\ frames' = Left
    BY <1>2 DEF LeaveFunctionDef, Leaves
  <2>2. /\ Height(frames', Blocks) \in Nat
        /\ Height(frames, Blocks) = Height(frames', Blocks) + 1
        /\ Height(frames', {"class"}) = Height(frames, {"class"})
        /\ Height(frames', {"call"}) = Height(frames, {"call"})
    BY <2>1, HeightLeft DEF Blocks
  <2>3. scopes' = SubSeq(scopes, 1, Len(scopes) - 1) /\ scopes # <<>>
    BY <1>2, <2>2, SequenceFacts DEF LeaveFunctionDef, Popped, Mirrored
  <2>4. IsSequence(scopes') /\ Len(scopes') = Len(scopes) - 1
    BY <2>3, Shortened DEF Mirrored
  <2> QED BY <1>2, <2>2, <2>4 DEF LeaveFunctionDef, Mirrored
<1> QED BY <1>1, <1>2

\* a class is entered,
LEMMA MirroredClassEntered ==
  ASSUME Mirrored, Stack, VisitClassDef
  PROVE  Mirrored'
<1>1. frames # <<>> /\ Node.kind = "class" /\ frames' = Entered
  BY DEF VisitClassDef, Meets
<1>2. /\ Height(frames', Blocks) = Height(frames, Blocks) + 1
      /\ Height(frames', {"class"}) = Height(frames, {"class"}) + 1
      /\ Height(frames', {"call"}) = Height(frames, {"call"})
  BY <1>1, HeightEntered, Heights DEF Blocks
<1>3. IsSequence(scopes') /\ Len(scopes') = Len(scopes) + 1
  BY Appended DEF VisitClassDef, Pushed, Mirrored
<1>4. /\ IsSequence(classStack')
      /\ Len(classStack') = Len(classStack) + 1
      /\ classStack'[Len(classStack) + 1] = Node.name
      /\ \A i \in 1..Len(classStack) : classStack'[i] = classStack[i]
  BY Appended DEF VisitClassDef, Mirrored
<1>5. DOMAIN classAttributes' = DOMAIN classAttributes \cup {Node.name}
  BY DEF VisitClassDef, ClassEntered
<1>6. Len(classStack) \in Nat
  BY Heights DEF Mirrored
<1>7. \A i \in 1..Len(classStack') : classStack'[i] \in DOMAIN classAttributes'
  <2> SUFFICES ASSUME NEW i \in 1..Len(classStack')
               PROVE  classStack'[i] \in DOMAIN classAttributes'
    OBVIOUS
  <2>1. CASE i = Len(classStack) + 1
    BY <1>4, <1>5, <2>1
  <2>2. CASE i # Len(classStack) + 1
    <3>1. i \in 1..Len(classStack)
      BY <1>4, <1>6, <2>2
    <3> QED BY <1>4, <1>5, <3>1 DEF Mirrored
  <2> QED BY <2>1, <2>2
<1>8. parents' = parents
  BY DEF VisitClassDef
<1> QED BY <1>2, <1>3, <1>4, <1>6, <1>7, <1>8, Heights DEF Mirrored

\* a class is left,
LEMMA MirroredClassLeft ==
  ASSUME Mirrored, Stack, LeaveClassDef
  PROVE  Mirrored'
<1>1. frames # <<>> /\ Top.node.kind = "class" /\ frames' = Left
  BY DEF LeaveClassDef, Leaves
<1>2. /\ Height(frames', Blocks) \in Nat
      /\ Height(frames, Blocks) = Height(frames', Blocks) + 1
      /\ Height(frames', {"class"}) \in Nat
      /\ Height(frames, {"class"}) = Height(frames', {"class"}) + 1
      /\ Height(frames', {"call"}) = Height(frames, {"call"})
  BY <1>1, HeightLeft DEF Blocks
<1>3. /\ scopes' = SubSeq(scopes, 1, Len(scopes) - 1) /\ scopes # <<>>
      /\ classStack' = SubSeq(classStack, 1, Len(classStack) - 1) /\ classStack # <<>>
  BY <1>2, SequenceFacts DEF LeaveClassDef, Popped, ClassExited, Mirrored
<1>4. IsSequence(scopes') /\ Len(scopes') = Len(scopes) - 1
  BY <1>3, Shortened DEF Mirrored
<1>5. /\ IsSequence(classStack')
      /\ Len(classStack') = Len(classStack) - 1
      /\ \A i \in 1..Len(classStack) - 1 : classStack'[i] = classStack[i]
  BY <1>3, Shortened DEF Mirrored
<1>6. Len(classStack) \in Nat
  BY Heights DEF Mirrored
<1>7. \A i \in 1..Len(classStack') : classStack'[i] \in DOMAIN classAttributes
  BY <1>5, <1>6 DEF Mirrored
<1>8. parents' = parents /\ classAttributes' = classAttributes
  BY DEF LeaveClassDef
<1> QED BY <1>2, <1>4, <1>5, <1>7, <1>8 DEF Mirrored

\* a call is entered or left,
LEMMA MirroredCall ==
  ASSUME Mirrored, Stack, VisitCall \/ LeaveCall
  PROVE  Mirrored'
<1>1. CASE VisitCall
  <2>1. frames # <<>> /\ Node.kind = "call" /\ frames' = Entered
    BY <1>1 DEF VisitCall, Meets
  <2>2. /\ Height(frames', Blocks) = Height(frames, Blocks)
        /\ Height(frames', {"class"}) = Height(frames, {"class"})
        /\ Height(frames', {"call"}) = Height(frames, {"call"}) + 1
    BY <2>1, HeightEntered, Heights DEF Blocks
  <2>3. IsSequence(parents') /\ Len(parents') = Len(parents) + 1
    BY <1>1, Appended DEF VisitCall, Mirrored
  <2> QED BY <1>1, <2>2, <2>3, Heights DEF VisitCall, table, Mirrored
<1>2. CASE LeaveCall
  <2>1. frames # <<>> /\ Top.node.kind = "call" /\ frames' = Left
    BY <1>2 DEF LeaveCall, Leaves
  <2>2. /\ Height(frames', {"call"}) \in Nat
        /\ Height(frames, {"call"}) = Height(frames', {"call"}) + 1
        /\ Height(frames', Blocks) = Height(frames, Blocks)
        /\ Height(frames', {"class"}) = Height(frames, {"class"})
    BY <2>1, HeightLeft DEF Blocks
  <2>3. parents' = SubSeq(parents, 1, Len(parents) - 1) /\ parents # <<>>
    BY <1>2, <2>2, SequenceFacts DEF LeaveCall, ParentLeft, Mirrored
  <2>4. IsSequence(parents') /\ Len(parents') = Len(parents) - 1
    BY <2>3, Shortened DEF Mirrored
  <2> QED BY <1>2, <2>2, <2>4 DEF LeaveCall, table, Mirrored
<1> QED BY <1>1, <1>2

\* and so every step keeps the stacks mirroring the nodes,
LEMMA MirroredNext == Mirrored /\ Stack /\ [Next]_vars => Mirrored'
<1> SUFFICES ASSUME Mirrored, Stack, [Next]_vars PROVE Mirrored'
  OBVIOUS
<1>1. CASE VisitImport
  BY <1>1, MirroredImport DEF VisitImport, Meets, BindNames
<1>2. CASE VisitImportFrom
  <2>1. \/ UNCHANGED scopes
        \/ \E names, bindings : scopes' = Bound(names, bindings)
    BY <1>2 DEF VisitImportFrom, BindNames
  <2> QED BY <1>2, <2>1, MirroredImport DEF VisitImportFrom, Meets
<1>3. CASE VisitTry \/ VisitOther
  BY <1>3, MirroredEntered DEF VisitTry, VisitOther, Meets, Blocks, table
<1>4. CASE LeaveTry \/ LeaveOther \/ LeaveAssigned
  BY <1>4, MirroredLeft DEF LeaveTry, LeaveOther, LeaveAssigned, Leaves, Blocks, table
<1>5. CASE VisitFunctionDef \/ LeaveFunctionDef
  BY <1>5, MirroredFunction
<1>6. CASE VisitClassDef
  BY <1>6, MirroredClassEntered
<1>7. CASE LeaveClassDef
  BY <1>7, MirroredClassLeft
<1>8. CASE VisitCall \/ LeaveCall
  BY <1>8, MirroredCall
<1>9. CASE LeaveAssign
  BY <1>9, MirroredAssign
<1>10. CASE UNCHANGED vars
  BY <1>10 DEF vars, table, Mirrored
<1> QED
  BY <1>1, <1>2, <1>3, <1>4, <1>5, <1>6, <1>7, <1>8, <1>9, <1>10 DEF Next

\* which is what the type invariant says of them.
LEMMA MirroredType == Mirrored /\ Nested => TypeOK
<1> SUFFICES ASSUME Mirrored, Nested PROVE TypeOK
  OBVIOUS
<1>1. DOMAIN classStack = 1..Len(classStack)
  BY SequenceFacts DEF Mirrored
<1>2. \A kinds : Count(kinds) = Height(frames, kinds)
  BY DEF Count, Height
<1> QED BY <1>1, <1>2 DEF Mirrored, Nested, ImportKinds, TypeOK, Blocks

\* TypeOK, for every tree: the scopes, the classes and the calls on the stacks are
\* those being visited, so that at the end none is left open and no exit finds its
\* stack empty (symbol_table.py, visit_FunctionDef, visit_ClassDef; python_ast.py,
\* visit_Call).
THEOREM TypeCorrect == Spec => []TypeOK
<1>1. Init => Mirrored /\ Nested
  BY MirroredInit, NestedInit
<1>2. Mirrored /\ Nested /\ [Next]_vars => Mirrored' /\ Nested'
  BY MirroredNext, NestedNext DEF Nested
<1>3. Mirrored /\ Nested => TypeOK
  BY MirroredType
<1> QED BY <1>1, <1>2, <1>3, PTL DEF Spec


(***************************************************************************)
(* Names                                                                   *)
(***************************************************************************)

\* A list starts with itself.
LEMMA StartsWithItself ==
  ASSUME NEW s, IsSequence(s)
  PROVE  StartsWith(s, s)
<1>1. PICK S : s \in Seq(S)
  BY DEF IsSequence
<1>2. SubSeq(s, 1, Len(s)) = s /\ Len(s) <= Len(s)
  BY <1>1
<1> QED BY <1>2 DEF StartsWith

\* Nor does what follows change the start of a name.
LEMMA StartsWithLonger ==
  ASSUME NEW p, NEW s, IsSequence(s), NEW r, IsSequence(r), IsSequence(p), StartsWith(p, s)
  PROVE  StartsWith(p, s \o r)
<1>1. PICK S : s \in Seq(S)
  BY DEF IsSequence
<1>2. PICK R : r \in Seq(R)
  BY DEF IsSequence
<1> DEFINE n == Len(p)
           j == s \o r
<1>3. n \in Nat /\ n <= Len(s) /\ Len(s) \in Nat /\ Len(r) \in Nat
  BY <1>1, <1>2, SequenceFacts DEF StartsWith
<1>4. /\ j \in Seq(S \cup R) /\ Len(j) = Len(s) + Len(r)
      /\ \A i \in 1..Len(s) : j[i] = s[i]
  <2>1. s \in Seq(S \cup R) /\ r \in Seq(S \cup R)
    BY <1>1, <1>2
  <2> QED BY <2>1, ConcatProperties
<1> HIDE DEF j, n
<1>5. SubSeq(j, 1, n) = [i \in 1..n |-> j[i]] /\ SubSeq(s, 1, n) = [i \in 1..n |-> s[i]]
  BY <1>1, <1>3, <1>4
<1>6. SubSeq(j, 1, n) = SubSeq(s, 1, n)
  BY <1>3, <1>4, <1>5
<1>7. n <= Len(j)
  BY <1>3, <1>4
<1> QED BY <1>6, <1>7 DEF StartsWith, n, j

\* A dotted name.
IsDotted(parts) == IsSequence(parts) /\ parts # <<>>

\* What comes of a dotted name.
LEMMA DottedFacts ==
  ASSUME NEW parts, IsDotted(parts)
  PROVE  /\ IsSequence(Tail(parts))
         /\ IsSequence(SubSeq(parts, 3, Len(parts)))
         /\ IsDotted(SubSeq(parts, 1, 1))
         /\ \A r : IsSequence(r) => /\ IsDotted(parts \o r) /\ Head(parts \o r) = Head(parts)
                                    /\ IsDotted(r \o parts)
<1>1. PICK S : parts \in Seq(S)
  BY DEF IsSequence, IsDotted
<1>2. Len(parts) \in Nat \ {0} /\ Head(parts) = parts[1]
  BY <1>1 DEF IsDotted
<1>3. Tail(parts) \in Seq(S)
  BY <1>1, <1>2
<1>4. SubSeq(parts, 3, Len(parts)) \in Seq(S)
  BY <1>1, <1>2
<1>5. SubSeq(parts, 1, 1) \in Seq(S) /\ Len(SubSeq(parts, 1, 1)) = 1
  BY <1>1, <1>2
<1>6. ASSUME NEW r, IsSequence(r)
      PROVE  IsDotted(parts \o r) /\ Head(parts \o r) = Head(parts) /\ IsDotted(r \o parts)
  <2>1. PICK R : r \in Seq(R)
    BY <1>6 DEF IsSequence
  <2>2. parts \in Seq(S \cup R) /\ r \in Seq(S \cup R)
    BY <1>1, <2>1
  <2>3. parts \o r \in Seq(S \cup R) /\ Len(parts \o r) = Len(parts) + Len(r) /\ (parts \o r)[1] = parts[1]
    BY <1>2, <2>2, ConcatProperties
  <2>4. Len(r) \in Nat
    BY <2>1
  <2>5. parts \o r # <<>>
    BY <1>2, <2>3, <2>4
  <2>6. Head(parts \o r) = (parts \o r)[1]
    BY <2>3, <2>5
  <2>7. r \o parts \in Seq(S \cup R) /\ Len(r \o parts) = Len(r) + Len(parts)
    BY <2>2, ConcatProperties
  <2>8. r \o parts # <<>>
    BY <1>2, <2>4, <2>7
  <2> QED BY <1>2, <2>3, <2>5, <2>6, <2>7, <2>8 DEF IsDotted, IsSequence
<1>7. SubSeq(parts, 1, 1) # <<>>
  <2> DEFINE first == SubSeq(parts, 1, 1)
  <2>1. IsSequence(first) /\ Len(first) = 1
    BY <1>5 DEF IsSequence
  <2> HIDE DEF first
  <2>2. first # <<>>
    BY <2>1, SequenceFacts
  <2> QED BY <2>2 DEF first
<1>8. IsDotted(SubSeq(parts, 1, 1))
  BY <1>5, <1>7 DEF IsDotted, IsSequence
<1>9. IsSequence(Tail(parts)) /\ IsSequence(SubSeq(parts, 3, Len(parts)))
  BY <1>3, <1>4 DEF IsSequence
<1> QED BY <1>6, <1>8, <1>9

\* The assumption about the trees in the words of the proofs.
LEMMA DottedIs == \A parts : Dotted(parts) => IsDotted(parts)
BY DEF Dotted, IsDotted, IsSequence

(***************************************************************************)
(* What a binding is worth                                                 *)
(***************************************************************************)

\* The imports m and the star imports w vouch for a name.
Vouched(m, w, name, confidence) ==
  \/ \E i \in DOMAIN m : \E j \in DOMAIN m[i].bindings :
       /\ m[i].bindings[j].kind \in ImportKinds
       /\ StartsWith(m[i].bindings[j].name, name)
       /\ IsSequence(m[i].bindings[j].name)
       /\ confidence <= m[i].bindings[j].confidence
       /\ m[i].bindings[j].confidence \in Nat
  \/ \E i \in DOMAIN w : StartsWith(w[i], name) /\ confidence <= Wildcard /\ IsSequence(w[i])

Scale == {Direct, Conditional, Multiple, Wildcard}

Named(b) == b.kind \notin {"opaque", "unresolved_relative"}

\* A binding that says something stands for a name an import vouches for.
Sound(b, m, w) ==
  /\ {"name", "kind", "confidence"} \subseteq DOMAIN b
  /\ Named(b) => /\ IsDotted(b.name)
                 /\ b.confidence \in Scale
                 /\ b.kind = "conditional_import" => b.confidence <= Conditional
                 /\ Vouched(m, w, b.name, b.confidence)

SoundList(bs, m, w) == IsSequence(bs) /\ \A x : Has(bs, x) => Sound(x, m, w)

\* What a name resolves to: nothing that does not say something, and if it is
\* several things, none for certain.
Answers(bs, m, w) ==
  /\ SoundList(bs, m, w)
  /\ \A x : Has(bs, x) => Named(x)
  /\ Len(bs) > 1 => \A x : Has(bs, x) => x.confidence <= Conditional

SoundDict(dict, m, w) == \A k \in DOMAIN dict : SoundList(dict[k], m, w)

\* Whatever the table holds is sound.
Stored(m, w) ==
  /\ IsSequence(m) /\ IsSequence(w)
  /\ \A i \in DOMAIN w : IsSequence(w[i])
  /\ \A k \in DOMAIN scopes : SoundDict(scopes[k], m, w)
  /\ \A c \in DOMAIN classAttributes : SoundDict(classAttributes[c], m, w)

\* A name that goes on is vouched for as it was, and so it is with less confidence.
LEMMA VouchedLonger ==
  ASSUME NEW m, NEW w, NEW name, NEW rest, IsSequence(name), IsSequence(rest),
         NEW c \in Nat, NEW d \in Nat, d <= c, Vouched(m, w, name, c)
  PROVE  Vouched(m, w, name \o rest, d)
<1>1. \A p : IsSequence(p) /\ StartsWith(p, name) => StartsWith(p, name \o rest)
  BY StartsWithLonger
<1> HIDE DEF StartsWith
<1>2. CASE \E i \in DOMAIN w : StartsWith(w[i], name) /\ c <= Wildcard /\ IsSequence(w[i])
  BY <1>1, <1>2 DEF Vouched, Wildcard
<1>3. CASE \E i \in DOMAIN m : \E j \in DOMAIN m[i].bindings :
             /\ m[i].bindings[j].kind \in ImportKinds
             /\ StartsWith(m[i].bindings[j].name, name)
             /\ IsSequence(m[i].bindings[j].name)
             /\ c <= m[i].bindings[j].confidence
             /\ m[i].bindings[j].confidence \in Nat
  <2>0. PICK i \in DOMAIN m : \E j \in DOMAIN m[i].bindings :
             /\ m[i].bindings[j].kind \in ImportKinds
             /\ StartsWith(m[i].bindings[j].name, name)
             /\ IsSequence(m[i].bindings[j].name)
             /\ c <= m[i].bindings[j].confidence
             /\ m[i].bindings[j].confidence \in Nat
    BY <1>3
  <2>1. PICK j \in DOMAIN m[i].bindings :
             /\ m[i].bindings[j].kind \in ImportKinds
             /\ StartsWith(m[i].bindings[j].name, name)
             /\ IsSequence(m[i].bindings[j].name)
             /\ c <= m[i].bindings[j].confidence
             /\ m[i].bindings[j].confidence \in Nat
    BY <2>0
  <2>2. StartsWith(m[i].bindings[j].name, name \o rest) /\ d <= m[i].bindings[j].confidence
    BY <1>1, <2>1
  <2> QED BY <2>1, <2>2 DEF Vouched
<1> QED BY <1>2, <1>3 DEF Vouched

\* A list of one.
LEMMA One == \A y : IsSequence(<<y>>) /\ Len(<<y>>) = 1 /\ \A z : Has(<<y>>, z) <=> z = y
<1>1. \A y : DOMAIN <<y>> = {1} /\ <<y>>[1] = y /\ <<y>> \in Seq({y}) /\ Len(<<y>>) = 1
  OBVIOUS
<1> QED BY <1>1 DEF Has, IsSequence

\* The empty list.
LEMMA Nothing == IsSequence(<<>>) /\ Len(<<>>) = 0 /\ \A z : ~Has(<<>>, z)
<1>1. <<>> \in Seq({}) /\ Len(<<>>) = 0 /\ DOMAIN <<>> = {}
  OBVIOUS
<1> QED BY <1>1 DEF IsSequence, Has

\* A list given by its elements.
LEMMA Listed ==
  ASSUME NEW n \in Nat, NEW e, e = [i \in 1..n |-> e[i]]
  PROVE  /\ IsSequence(e) /\ Len(e) = n /\ DOMAIN e = 1..n
         /\ \A x : Has(e, x) <=> \E i \in 1..n : e[i] = x
<1>1. DOMAIN e = 1..n
  OBVIOUS
<1>2. \A i \in 1..n : e[i] \in {e[k] : k \in 1..n}
  OBVIOUS
<1>3. e \in [1..n -> {e[i] : i \in 1..n}]
  BY <1>2
<1>4. e \in Seq({e[i] : i \in 1..n})
  BY <1>3
<1>5. Len(e) = n
  BY <1>1, <1>4
<1> QED BY <1>1, <1>4, <1>5 DEF IsSequence, Has

\* The resolvable ones of a list.
LEMMA UsableFacts ==
  ASSUME NEW bs, NEW m, NEW w, SoundList(bs, m, w)
  PROVE  /\ IsSequence(Usable(bs))
         /\ \A x : Has(Usable(bs), x) => Sound(x, m, w) /\ Named(x)
<1> DEFINE n == Len(bs)
           one(i) == IF Resolvable(bs[i]) THEN <<bs[i]>> ELSE <<>>
           p == [i \in 1..n |-> one(i)]
<1>1. n \in Nat /\ DOMAIN bs = 1..n
  BY SequenceFacts DEF SoundList
<1>2. \A i \in 1..n : /\ IsSequence(one(i))
                      /\ \A x : Has(one(i), x) => Named(x) /\ x = bs[i]
  <2> SUFFICES ASSUME NEW i \in 1..n
               PROVE  IsSequence(one(i)) /\ \A x : Has(one(i), x) => Named(x) /\ x = bs[i]
    OBVIOUS
  <2>1. CASE Resolvable(bs[i])
    BY <2>1, One DEF Resolvable, Named
  <2>2. CASE ~Resolvable(bs[i])
    BY <2>2, Nothing
  <2> QED BY <2>1, <2>2
<1>3. /\ p = [i \in 1..n |-> p[i]]
      /\ \A i \in 1..n : IsSequence(p[i]) /\ \A x : Has(p[i], x) => Named(x) /\ x = bs[i]
  BY <1>2
<1>4. Usable(bs) = FlattenSeq(p)
  BY <1>1 DEF Usable
<1> HIDE DEF n, p
<1>5. /\ IsSequence(FlattenSeq(p))
      /\ \A x : Has(FlattenSeq(p), x) <=> \E i \in 1..n : Has(p[i], x)
  BY <1>1, <1>3, FlattenLists
<1>6. \A i \in 1..n : Has(bs, bs[i])
  BY <1>1 DEF Has
<1>7. ASSUME NEW x, Has(Usable(bs), x) PROVE Sound(x, m, w) /\ Named(x)
  <2>1. PICK i \in 1..n : Has(p[i], x)
    BY <1>4, <1>5, <1>7
  <2>2. Named(x) /\ x = bs[i]
    BY <1>3, <2>1
  <2> QED BY <1>6, <2>2 DEF SoundList
<1> QED BY <1>4, <1>5, <1>7

\* A found name goes on with the rest of the expression.
LEMMA ExtendGood ==
  ASSUME NEW bs, NEW m, NEW w, SoundList(bs, m, w), NEW rest, IsSequence(rest)
  PROVE  Answers(Extend(bs, rest), m, w)
<1> DEFINE usable == Usable(bs)
           n == Len(usable)
           ambiguous == /\ n > 1
                        /\ \E i \in DOMAIN usable : usable[i].kind # "conditional_import"
           one(i) == Binding(usable[i].name \o rest, usable[i].kind,
                             IF ambiguous THEN Capped(usable[i].confidence) ELSE usable[i].confidence)
           e == [i \in 1..n |-> one(i)]
<1>1. /\ n \in Nat /\ DOMAIN usable = 1..n
      /\ \A i \in 1..n : Sound(usable[i], m, w) /\ Named(usable[i])
  BY UsableFacts, SequenceFacts DEF Has
<1>2. Extend(bs, rest) = e
  BY <1>1 DEF Extend
<1>3. ASSUME NEW i \in 1..n
      PROVE  /\ Sound(one(i), m, w) /\ Named(one(i))
             /\ n > 1 => one(i).confidence <= Conditional
  <2> DEFINE u == usable[i]
             c == IF ambiguous THEN Capped(u.confidence) ELSE u.confidence
  <2>1. /\ IsDotted(u.name) /\ u.confidence \in Scale /\ Vouched(m, w, u.name, u.confidence)
        /\ u.kind = "conditional_import" => u.confidence <= Conditional
        /\ u.kind \notin {"opaque", "unresolved_relative"}
    BY <1>1 DEF Sound, Named
  <2>2. c \in Scale /\ c <= u.confidence /\ c \in Nat /\ u.confidence \in Nat
        /\ (ambiguous => c <= Multiple)
    <3> HIDE DEF u, ambiguous
    <3> QED BY <2>1 DEF Capped, Scale, Direct, Conditional, Multiple, Wildcard
  <2>3. n > 1 => c <= Conditional
    <3>1. CASE ambiguous
      <4> HIDE DEF c
      <4> QED BY <2>2, <3>1 DEF Multiple, Conditional
    <3>2. CASE ~ambiguous
      <4>1. n > 1 => u.kind = "conditional_import"
        BY <1>1, <3>2
      <4>2. c = u.confidence
        BY <3>2
      <4> QED BY <2>1, <4>1, <4>2
    <3> QED BY <3>1, <3>2
  <2>4. one(i) = [name |-> u.name \o rest, kind |-> u.kind, confidence |-> c]
    BY DEF Binding
  <2> DEFINE v == one(i)
             long == u.name \o rest
  <2>5. Vouched(m, w, long, c)
    <3> HIDE DEF u, c
    <3> QED BY <2>1, <2>2, VouchedLonger DEF IsDotted
  <2>6. IsDotted(long)
    <3> HIDE DEF u
    <3> QED BY <2>1, DottedFacts
  <2>7. u.kind = "conditional_import" => c <= Conditional
    <3> HIDE DEF c, u
    <3> QED BY <2>1, <2>2 DEF Conditional, Scale, Direct, Multiple, Wildcard
  <2> HIDE DEF c, u, long, usable, n, one, ambiguous
  <2>8. v = [name |-> long, kind |-> u.kind, confidence |-> c]
    BY <2>4 DEF long, v
  <2> HIDE DEF v
  <2>9. DOMAIN v = {"name", "kind", "confidence"} /\ v.name = long /\ v.kind = u.kind /\ v.confidence = c
    BY <2>8
  <2>10. Sound(v, m, w) /\ Named(v) /\ (n > 1 => v.confidence <= Conditional)
    BY <2>1, <2>2, <2>3, <2>5, <2>6, <2>7, <2>9 DEF Sound, Named
  <2> QED BY <2>10 DEF v
<1>4. /\ e = [i \in 1..n |-> e[i]]
      /\ \A i \in 1..n : e[i] = one(i)
  OBVIOUS
<1> HIDE DEF e, one, n
<1>5. IsSequence(e) /\ Len(e) = n /\ \A x : Has(e, x) <=> \E i \in 1..n : e[i] = x
  BY <1>1, <1>4, Listed
<1>6. ASSUME NEW x, Has(e, x)
      PROVE  Sound(x, m, w) /\ Named(x) /\ (n > 1 => x.confidence <= Conditional)
  <2>1. PICK i \in 1..n : e[i] = x
    BY <1>5, <1>6
  <2>2. x = one(i)
    BY <1>4, <2>1
  <2> QED BY <1>3, <2>2
<1>7. Answers(e, m, w)
  BY <1>5, <1>6 DEF Answers, SoundList
<1> QED BY <1>2, <1>7

\* The greatest of some positions.
LEMMA GreatestNumber ==
  ASSUME NEW n \in Nat, NEW S, S \subseteq 1..n, S # {}
  PROVE  \E m \in S : \A k \in S : k <= m
<1> DEFINE T == {n - k : k \in S}
<1>1. T \subseteq Nat /\ T # {}
  <2>1. \A k \in 1..n : n - k \in Nat
    OBVIOUS
  <2> QED BY <2>1
<1>2. PICK l \in T : \A j \in T : l <= j
  BY <1>1, LeastNumber
<1>3. PICK m \in S : l = n - m
  BY <1>2
<1>4. \A k \in S : l <= n - k
  BY <1>2
<1>5. \A k \in S : k \in Int
  OBVIOUS
<1> QED BY <1>3, <1>4, <1>5

\* Something that is said with a confidence of the scale.
LEMMA ScaleFacts == Scale \subseteq Nat /\ \A c \in Scale : c <= Direct /\ Capped(c) <= Multiple
BY DEF Scale, Direct, Conditional, Multiple, Wildcard, Capped

\* No bindings are sound, whatever is looked up.
LEMMA NothingGood == \A m, w : Answers(<<>>, m, w) /\ SoundList(<<>>, m, w)
BY Nothing DEF Answers, SoundList

\* Looking a key up in a sound dict gives a sound list.
LEMMA GetGood ==
  ASSUME NEW dict, NEW m, NEW w, SoundDict(dict, m, w), NEW key
  PROVE  SoundList(Get(dict, key), m, w)
<1>1. SoundList(<<>>, m, w)
  BY NothingGood
<1> QED BY <1>1 DEF Get, SoundDict

\* A name looked up in the table.
LEMMA LookupGood ==
  ASSUME NEW m, NEW w, Stored(m, w), IsSequence(scopes), NEW name
  PROVE  SoundList(Lookup(name), m, w)
<1> DEFINE holders == {i \in DOMAIN scopes : name \in DOMAIN scopes[i]}
<1>1. CASE holders = {}
  BY <1>1, NothingGood DEF Lookup
<1>2. CASE holders # {}
  <2>1. Len(scopes) \in Nat /\ holders \subseteq 1..Len(scopes)
    BY SequenceFacts
  <2>2. \E i \in holders : \A j \in holders : j <= i
    BY <1>2, <2>1, GreatestNumber
  <2> DEFINE i == CHOOSE i \in holders : \A j \in holders : j <= i
  <2>3. i \in holders
    BY <2>2
  <2>4. Lookup(name) = scopes[i][name]
    BY <1>2 DEF Lookup
  <2> HIDE DEF i
  <2> QED BY <2>3, <2>4 DEF Stored, SoundDict
<1> QED BY <1>1, <1>2

\* The modules imported with a star.
LEMMA ThroughWildcardGood ==
  ASSUME NEW m, Stored(m, wildcards), NEW parts, IsDotted(parts)
  PROVE  Answers(ThroughWildcard(parts), m, wildcards)
<1>1. CASE Head(parts) \notin CryptoName
  BY <1>1, NothingGood DEF ThroughWildcard
<1>2. CASE Head(parts) \in CryptoName
  <2> DEFINE n == Len(wildcards)
             one(i) == Binding(wildcards[i] \o parts, "wildcard", Wildcard)
             e == [i \in 1..n |-> one(i)]
  <2>1. n \in Nat /\ DOMAIN wildcards = 1..n
    BY SequenceFacts DEF Stored
  <2>2. ThroughWildcard(parts) = e
    BY <1>2, <2>1 DEF ThroughWildcard
  <2>3. ASSUME NEW i \in 1..n
        PROVE  Sound(one(i), m, wildcards) /\ Named(one(i)) /\ one(i).confidence <= Conditional
    <3> DEFINE long == wildcards[i] \o parts
               v == one(i)
    <3>1. IsSequence(wildcards[i]) /\ IsSequence(parts)
      BY <2>1 DEF Stored, IsDotted
    <3>2. IsDotted(long)
      BY <3>1, DottedFacts
    <3>3. StartsWith(wildcards[i], long)
      BY <3>1, StartsWithItself, StartsWithLonger
    <3>4. Vouched(m, wildcards, long, Wildcard)
      <4> HIDE DEF long
      <4>1. Wildcard <= Wildcard
        BY DEF Wildcard
      <4> QED BY <2>1, <3>1, <3>3, <4>1 DEF Vouched
    <3>5. v = [name |-> long, kind |-> "wildcard", confidence |-> Wildcard]
      BY DEF Binding
    <3> HIDE DEF v, long, n
    <3>6. /\ DOMAIN v = {"name", "kind", "confidence"}
          /\ v.name = long /\ v.kind = "wildcard" /\ v.confidence = Wildcard
      BY <3>5
    <3>7. Wildcard \in Scale /\ Wildcard <= Conditional
      BY DEF Wildcard, Scale, Conditional
    <3>8. Sound(v, m, wildcards) /\ Named(v) /\ v.confidence <= Conditional
      BY <3>2, <3>4, <3>6, <3>7 DEF Sound, Named
    <3> QED BY <3>8 DEF v
  <2>4. e = [i \in 1..n |-> e[i]] /\ \A i \in 1..n : e[i] = one(i)
    OBVIOUS
  <2> HIDE DEF e, one, n
  <2>5. IsSequence(e) /\ \A x : Has(e, x) <=> \E i \in 1..n : e[i] = x
    BY <2>1, <2>4, Listed
  <2>6. ASSUME NEW x, Has(e, x)
        PROVE  Sound(x, m, wildcards) /\ Named(x) /\ x.confidence <= Conditional
    <3>1. PICK i \in 1..n : e[i] = x
      BY <2>5, <2>6
    <3>2. x = one(i)
      BY <2>4, <3>1
    <3> QED BY <2>3, <3>2
  <2>7. Answers(e, m, wildcards)
    BY <2>5, <2>6 DEF Answers, SoundList
  <2> QED BY <2>2, <2>7
<1> QED BY <1>1, <1>2

\* Whatever a name resolves to comes from an import.
LEMMA ResolveGood ==
  ASSUME Mirrored, Stored(made, wildcards), NEW parts, parts # None => IsDotted(parts)
  PROVE  Answers(Resolve(parts), made, wildcards)
<1>1. CASE parts = None
  BY <1>1, NothingGood DEF Resolve
<1>2. CASE parts # None /\ OnSelf(parts)
  <2> DEFINE class == classStack[Len(classStack)]
             found == Get(classAttributes[class], parts[2])
             rest == SubSeq(parts, 3, Len(parts))
  <2>1. class \in DOMAIN classAttributes
    <3>1. Len(classStack) \in 1..Len(classStack)
      BY <1>2, SequenceFacts DEF OnSelf, Mirrored
    <3> QED BY <3>1 DEF Mirrored
  <2>2. SoundList(found, made, wildcards)
    <3>1. SoundDict(classAttributes[class], made, wildcards)
      BY <2>1 DEF Stored
    <3> QED BY <3>1, GetGood
  <2>3. IsSequence(rest)
    BY <1>2, DottedFacts
  <2>4. Resolve(parts) = Extend(found, rest)
    BY <1>2 DEF Resolve
  <2> HIDE DEF found, rest
  <2> QED BY <2>2, <2>3, <2>4, ExtendGood
<1>3. CASE parts # None /\ ~OnSelf(parts)
  <2> DEFINE found == Lookup(Head(parts))
             rest == Tail(parts)
  <2>1. SoundList(found, made, wildcards)
    BY LookupGood DEF Mirrored
  <2>2. IsSequence(rest)
    BY <1>3, DottedFacts
  <2>3. Resolve(parts) = IF found = <<>> THEN ThroughWildcard(parts) ELSE Extend(found, rest)
    BY <1>3 DEF Resolve
  <2>4. Answers(ThroughWildcard(parts), made, wildcards)
    BY <1>3, ThroughWildcardGood
  <2> HIDE DEF found, rest
  <2>5. Answers(Extend(found, rest), made, wildcards)
    BY <2>1, <2>2, ExtendGood
  <2> QED BY <2>3, <2>4, <2>5
<1> QED BY <1>1, <1>2, <1>3

(***************************************************************************)
(* What is called, and what is assigned                                    *)
(***************************************************************************)

\* A call may be of a builtin, too.
Known(b, m, w) ==
  /\ IsDotted(b.name)
  /\ b.confidence \in Scale
  /\ Vouched(m, w, b.name, b.confidence) \/ Head(b.name) \in BuiltinsOfInterest

\* What a call may be of.
Callees(bs, m, w) ==
  /\ IsSequence(bs)
  /\ \A x : Has(bs, x) => Known(x, m, w)
  /\ Len(bs) > 1 => \A x : Has(bs, x) => x.confidence <= Conditional

\* The bindings of what is called were made for it: the value of a call that is
\* followed, or the names that lead to it.
LEMMA TargetGood ==
  ASSUME Mirrored, Stored(made, wildcards), NEW func, func.parts # None => IsDotted(func.parts),
         IsSequence(func.via)
  PROVE  Callees(TargetBindings(func), made, wildcards)
<1> DEFINE found == Resolve(func.parts)
           builtin == /\ found = <<>> /\ func.parts # None /\ Len(func.parts) = 1
                      /\ Head(func.parts) \in BuiltinsOfInterest
           base == IF builtin THEN <<Binding(func.parts, "import", Direct)>> ELSE found
           n == Len(base)
           one(i) == Binding(base[i].name \o func.via, "instance", base[i].confidence)
           e == [i \in 1..n |-> one(i)]
<1>1. Answers(found, made, wildcards)
  BY ResolveGood
<1>2. Callees(base, made, wildcards)
  <2>1. CASE builtin
    <3> DEFINE b == Binding(func.parts, "import", Direct)
    <3>1. b.name = func.parts /\ b.confidence = Direct
      BY DEF Binding
    <3>2. Direct \in Scale
      BY DEF Scale
    <3>3. Known(b, made, wildcards)
      BY <2>1, <3>1, <3>2 DEF Known
    <3>4. base = <<b>>
      BY <2>1
    <3> HIDE DEF b, base
    <3> QED BY <3>3, <3>4, One DEF Callees
  <2>2. CASE ~builtin
    <3>1. base = found
      BY <2>2
    <3> HIDE DEF base, found
    <3> QED BY <1>1, <3>1 DEF Answers, SoundList, Sound, Callees, Known
  <2> QED BY <2>1, <2>2
<1>3. TargetBindings(func) = IF func.via = <<>> THEN base ELSE [i \in DOMAIN base |-> one(i)]
  BY DEF TargetBindings
<1> HIDE DEF base
<1>4. n \in Nat /\ DOMAIN base = 1..n /\ \A i \in 1..n : Has(base, base[i])
  BY <1>2, SequenceFacts DEF Callees, Has
<1>5. ASSUME NEW i \in 1..n
      PROVE  Known(one(i), made, wildcards) /\ (n > 1 => one(i).confidence <= Conditional)
  <2> DEFINE b == base[i]
             long == b.name \o func.via
             v == one(i)
  <2>1. Known(b, made, wildcards) /\ (n > 1 => b.confidence <= Conditional)
    BY <1>2, <1>4 DEF Callees
  <2>2. v.name = long /\ v.confidence = b.confidence
    BY DEF Binding
  <2> HIDE DEF b
  <2>3. IsDotted(long) /\ Head(long) = Head(b.name)
    BY <2>1, DottedFacts DEF Known
  <2>4. b.confidence \in Nat /\ b.confidence <= b.confidence
    <3>1. b.confidence \in Nat
      BY <2>1, ScaleFacts DEF Known
    <3> QED BY <3>1
  <2>5. ASSUME Vouched(made, wildcards, b.name, b.confidence)
        PROVE  Vouched(made, wildcards, long, b.confidence)
    BY <2>1, <2>4, <2>5, VouchedLonger DEF Known, IsDotted
  <2> HIDE DEF long, v, one, n
  <2>6. Known(v, made, wildcards) /\ (n > 1 => v.confidence <= Conditional)
    BY <2>1, <2>2, <2>3, <2>5 DEF Known
  <2> QED BY <2>6 DEF v
<1>6. e = [i \in 1..n |-> e[i]] /\ \A i \in 1..n : e[i] = one(i)
  OBVIOUS
<1>7. TargetBindings(func) = IF func.via = <<>> THEN base ELSE e
  BY <1>3, <1>4
<1> HIDE DEF e, one, n
<1>8. IsSequence(e) /\ Len(e) = n /\ \A x : Has(e, x) <=> \E i \in 1..n : e[i] = x
  BY <1>4, <1>6, Listed
<1>9. ASSUME NEW x, Has(e, x)
      PROVE  Known(x, made, wildcards) /\ (n > 1 => x.confidence <= Conditional)
  <2>1. PICK i \in 1..n : e[i] = x
    BY <1>8, <1>9
  <2>2. x = one(i)
    BY <1>6, <2>1
  <2> QED BY <1>5, <2>2
<1>10. Callees(e, made, wildcards)
  BY <1>8, <1>9 DEF Callees
<1> QED BY <1>2, <1>7, <1>10

\* What is assigned keeps its confidence; a target is bound to something even
\* where the value is not known.
LEMMA CarriedGood ==
  ASSUME NEW bs, NEW m, NEW w, SoundList(bs, m, w), \A x : Has(bs, x) => Named(x),
         NEW kind, kind \in {"assignment", "class_attribute"}
  PROVE  SoundList(Carried(bs, kind), m, w)
<1>1. CASE bs = <<>>
  <2>1. Sound(Opaque, m, w)
    <3> DEFINE v == Opaque
    <3>1. DOMAIN v = {"name", "kind", "confidence"} /\ v.kind = "opaque"
      BY DEF Opaque, Binding
    <3> HIDE DEF v
    <3>2. Sound(v, m, w)
      BY <3>1 DEF Sound, Named
    <3> QED BY <3>2 DEF v
  <2>2. Carried(bs, kind) = <<Opaque>>
    BY <1>1 DEF Carried
  <2> QED BY <2>1, <2>2, One DEF SoundList
<1>2. CASE bs # <<>>
  <2> DEFINE n == Len(bs)
             one(i) == [bs[i] EXCEPT !.kind = IF @ = "instance" THEN @ ELSE kind]
             e == [i \in 1..n |-> one(i)]
  <2>1. n \in Nat /\ DOMAIN bs = 1..n /\ \A i \in 1..n : Sound(bs[i], m, w) /\ Named(bs[i])
    BY SequenceFacts DEF SoundList, Has
  <2>2. Carried(bs, kind) = e
    BY <1>2, <2>1 DEF Carried
  <2>3. ASSUME NEW i \in 1..n PROVE Sound(one(i), m, w)
    <3> DEFINE b == bs[i]
               v == one(i)
    <3>1. Sound(b, m, w) /\ Named(b)
      BY <2>1
    <3>2. /\ DOMAIN v = DOMAIN b
          /\ {"name", "kind", "confidence"} \subseteq DOMAIN b
          /\ v.name = b.name /\ v.confidence = b.confidence
          /\ v.kind = IF b.kind = "instance" THEN b.kind ELSE kind
      BY <3>1 DEF Sound
    <3>3. v.kind # "conditional_import"
      BY <3>2
    <3> HIDE DEF v, b, n
    <3>4. Sound(v, m, w)
      BY <3>1, <3>2, <3>3 DEF Sound
    <3> QED BY <3>4 DEF v
  <2>4. e = [i \in 1..n |-> e[i]] /\ \A i \in 1..n : e[i] = one(i)
    OBVIOUS
  <2> HIDE DEF e, one, n
  <2>5. IsSequence(e) /\ \A x : Has(e, x) <=> \E i \in 1..n : e[i] = x
    BY <2>1, <2>4, Listed
  <2>6. ASSUME NEW x, Has(e, x) PROVE Sound(x, m, w)
    <3>1. PICK i \in 1..n : e[i] = x
      BY <2>5, <2>6
    <3>2. x = one(i)
      BY <2>4, <3>1
    <3> QED BY <2>3, <3>2
  <2> QED BY <2>2, <2>5, <2>6 DEF SoundList
<1> QED BY <1>1, <1>2

\* The value of an assignment.
LEMMA ValueGood ==
  ASSUME Mirrored, Stored(made, wildcards), NEW value \in Nodes
  PROVE  /\ SoundList(ValueBindings(value), made, wildcards)
         /\ \A x : Has(ValueBindings(value), x) => Named(x)
<1> DEFINE found == Resolve(DottedName(value))
           n == Len(found)
           one(i) == Binding(found[i].name, "instance", found[i].confidence)
           e == [i \in 1..n |-> one(i)]
<1>1. DottedName(value) # None => IsDotted(DottedName(value))
  <2>1. /\ value.kind = "name" /\ value.parts # None => Dotted(value.parts)
        /\ value.kind = "call" /\ value.func.parts # None => Dotted(value.func.parts)
    BY TreeAssumption
  <2> QED BY <2>1, DottedIs DEF DottedName
<1>2. Answers(found, made, wildcards)
  BY <1>1, ResolveGood
<1>3. ValueBindings(value) = IF value.kind # "call" THEN found ELSE [i \in DOMAIN found |-> one(i)]
  BY DEF ValueBindings
<1> HIDE DEF found
<1>4. n \in Nat /\ DOMAIN found = 1..n
      /\ \A i \in 1..n : Sound(found[i], made, wildcards) /\ Named(found[i])
  BY <1>2, SequenceFacts DEF Answers, SoundList, Has
<1>5. ASSUME NEW i \in 1..n PROVE Sound(one(i), made, wildcards) /\ Named(one(i))
  <2> DEFINE b == found[i]
             v == one(i)
  <2>1. Sound(b, made, wildcards) /\ Named(b)
    BY <1>4
  <2>2. /\ DOMAIN v = {"name", "kind", "confidence"}
        /\ v.name = b.name /\ v.confidence = b.confidence /\ v.kind = "instance"
    BY DEF Binding
  <2> HIDE DEF v, b, n
  <2>3. Sound(v, made, wildcards) /\ Named(v)
    BY <2>1, <2>2 DEF Sound, Named
  <2> QED BY <2>3 DEF v
<1>6. e = [i \in 1..n |-> e[i]] /\ \A i \in 1..n : e[i] = one(i)
  OBVIOUS
<1>7. ValueBindings(value) = IF value.kind # "call" THEN found ELSE e
  BY <1>3, <1>4
<1> HIDE DEF e, one, n
<1>8. IsSequence(e) /\ \A x : Has(e, x) <=> \E i \in 1..n : e[i] = x
  BY <1>4, <1>6, Listed
<1>9. ASSUME NEW x, Has(e, x) PROVE Sound(x, made, wildcards) /\ Named(x)
  <2>1. PICK i \in 1..n : e[i] = x
    BY <1>8, <1>9
  <2>2. x = one(i)
    BY <1>6, <2>1
  <2> QED BY <1>5, <2>2
<1> QED BY <1>2, <1>7, <1>8, <1>9 DEF Answers, SoundList

(***************************************************************************)
(* The history only grows                                                  *)
(***************************************************************************)

Grown(m, n) == \A i \in DOMAIN m : i \in DOMAIN n /\ n[i] = m[i]

\* What was sound once stays sound.
LEMMA SoundGrown ==
  ASSUME NEW m, NEW m2, NEW w, NEW w2, Grown(m, m2), Grown(w, w2)
  PROVE  /\ \A name, c : Vouched(m, w, name, c) => Vouched(m2, w2, name, c)
         /\ \A bs : SoundList(bs, m, w) => SoundList(bs, m2, w2)
         /\ \A dict : SoundDict(dict, m, w) => SoundDict(dict, m2, w2)
<1>1. ASSUME NEW name, NEW c, Vouched(m, w, name, c) PROVE Vouched(m2, w2, name, c)
  <2>1. ASSUME NEW i \in DOMAIN m, NEW j \in DOMAIN m[i].bindings,
               m[i].bindings[j].kind \in ImportKinds,
               StartsWith(m[i].bindings[j].name, name),
               IsSequence(m[i].bindings[j].name),
               c <= m[i].bindings[j].confidence,
               m[i].bindings[j].confidence \in Nat
        PROVE  Vouched(m2, w2, name, c)
    <3>1. i \in DOMAIN m2 /\ m2[i] = m[i]
      BY DEF Grown
    <3> HIDE DEF StartsWith
    <3> QED BY <2>1, <3>1 DEF Vouched
  <2>2. ASSUME NEW i \in DOMAIN w, StartsWith(w[i], name), c <= Wildcard, IsSequence(w[i])
        PROVE  Vouched(m2, w2, name, c)
    <3>1. i \in DOMAIN w2 /\ w2[i] = w[i]
      BY DEF Grown
    <3> HIDE DEF StartsWith
    <3> QED BY <2>2, <3>1 DEF Vouched
  <2> HIDE DEF StartsWith
  <2> QED BY <1>1, <2>1, <2>2 DEF Vouched
<1>2. \A b : Sound(b, m, w) => Sound(b, m2, w2)
  BY <1>1 DEF Sound
<1>3. \A bs : SoundList(bs, m, w) => SoundList(bs, m2, w2)
  BY <1>2 DEF SoundList
<1> QED BY <1>1, <1>3 DEF SoundDict

\* The history of bindings and the modules imported with a star grow.
LEMMA AppendGrown ==
  ASSUME NEW m, IsSequence(m), NEW e
  PROVE  Grown(m, Append(m, e)) /\ IsSequence(Append(m, e)) /\ Len(m) + 1 \in DOMAIN Append(m, e)
<1> DEFINE a == Append(m, e)
<1>1. /\ IsSequence(a) /\ Len(a) = Len(m) + 1 /\ \A i \in 1..Len(m) : a[i] = m[i]
      /\ Len(m) \in Nat /\ DOMAIN m = 1..Len(m)
  BY Appended, SequenceFacts
<1> HIDE DEF a
<1>2. DOMAIN a = 1..Len(m) + 1
  BY <1>1, SequenceFacts
<1>3. Grown(m, a) /\ IsSequence(a) /\ Len(m) + 1 \in DOMAIN a
  BY <1>1, <1>2 DEF Grown
<1> QED BY <1>3 DEF a

\* A history grows by what is added at its end, ...
LEMMA JoinGrown ==
  ASSUME NEW m, IsSequence(m), NEW n, IsSequence(n)
  PROVE  Grown(m, m \o n) /\ IsSequence(m \o n)
<1>1. PICK S : m \in Seq(S)
  BY DEF IsSequence
<1>2. PICK T : n \in Seq(T)
  BY DEF IsSequence
<1>3. m \in Seq(S \cup T) /\ n \in Seq(S \cup T)
  BY <1>1, <1>2
<1>4. /\ Len(m) \in Nat /\ Len(n) \in Nat /\ DOMAIN m = 1..Len(m)
      /\ DOMAIN (m \o n) = 1..Len(m) + Len(n)
      /\ \A i \in 1..Len(m) : (m \o n)[i] = m[i]
  BY <1>3, ConcatProperties
<1> QED BY <1>4, Joined DEF Grown

\* ... or not at all.
LEMMA NotGrown == \A m : Grown(m, m)
BY DEF Grown

(***************************************************************************)
(* The table                                                               *)
(***************************************************************************)

\* Names are bound in a dict.
LEMMA ExtendedGood ==
  ASSUME NEW m, NEW w, NEW dict, SoundDict(dict, m, w), NEW keys, NEW bs, SoundList(bs, m, w)
  PROVE  SoundDict(Extended(dict, keys, bs), m, w)
<1> DEFINE more(k) == IF k \in keys THEN bs ELSE <<>>
<1>1. ASSUME NEW k PROVE SoundList(Get(dict, k) \o more(k), m, w)
  <2> DEFINE s == Get(dict, k)
             t == more(k)
  <2>1. SoundList(s, m, w) /\ SoundList(t, m, w)
    BY GetGood, NothingGood
  <2> HIDE DEF s, t
  <2>2. IsSequence(s \o t) /\ \A x : Has(s \o t, x) <=> Has(s, x) \/ Has(t, x)
    BY <2>1, Joined, HasJoin DEF SoundList
  <2>3. SoundList(s \o t, m, w)
    BY <2>1, <2>2 DEF SoundList
  <2> QED BY <2>3 DEF s, t
<1>2. Extended(dict, keys, bs) = [k \in DOMAIN dict \cup keys |-> Get(dict, k) \o more(k)]
  BY DEF Extended
<1> HIDE DEF more
<1> QED BY <1>1, <1>2 DEF SoundDict

\* Names are bound in the innermost scope,
LEMMA BoundGood ==
  ASSUME Mirrored, Stack, NEW m, NEW w, Stored(m, w), NEW names, NEW bs, SoundList(bs, m, w),
         scopes' = Bound(names, bs)
  PROVE  \A k \in DOMAIN scopes' : SoundDict(scopes'[k], m, w)
<1> DEFINE n == Len(scopes)
           e == Extended(scopes[n], names, bs)
<1>1. n \in 1..Len(scopes) /\ IsSequence(scopes) /\ DOMAIN scopes = 1..Len(scopes)
  BY Heights, SequenceFacts DEF Mirrored
<1>2. scopes' = [scopes EXCEPT ![n] = e]
  BY DEF Bound
<1>3. SoundDict(e, m, w)
  BY <1>1, ExtendedGood DEF Stored
<1> HIDE DEF n, e
<1> QED BY <1>1, <1>2, <1>3 DEF Stored

\* and attributes in the innermost class.
LEMMA AttributesBoundGood ==
  ASSUME Mirrored, NEW m, NEW w, Stored(m, w), NEW names, NEW bs, SoundList(bs, m, w),
         classAttributes' = AttributesBound(names, bs)
  PROVE  \A c \in DOMAIN classAttributes' : SoundDict(classAttributes'[c], m, w)
<1>1. CASE classStack = <<>>
  BY <1>1 DEF AttributesBound, Stored
<1>2. CASE classStack # <<>>
  <2> DEFINE class == classStack[Len(classStack)]
             e == Extended(classAttributes[class], names, bs)
  <2>1. class \in DOMAIN classAttributes
    <3>1. Len(classStack) \in 1..Len(classStack)
      BY <1>2, SequenceFacts DEF Mirrored
    <3> QED BY <3>1 DEF Mirrored
  <2>2. classAttributes' = [classAttributes EXCEPT ![class] = e]
    BY <1>2 DEF AttributesBound
  <2>3. SoundDict(e, m, w)
    BY <2>1, ExtendedGood DEF Stored
  <2> HIDE DEF class, e
  <2> QED BY <2>1, <2>2, <2>3 DEF Stored
<1> QED BY <1>1, <1>2

(***************************************************************************)
(* The nodes being visited                                                 *)
(***************************************************************************)

GoodNode(node) ==
  \/ node.kind = "module"
  \/ node.kind = "assigned" /\ node.value \in Nodes /\ IsSequence(node.targets)
  \/ node \in Nodes

GoodFrame(e) ==
  /\ ShapeOf(e)
  /\ Children(e.node) \in Seq(Nodes)
  /\ e.rest \in Seq(Nodes)
  /\ Len(e.rest) <= Len(Children(e.node))
  /\ GoodNode(e.node)

\* How many children of the i-th node have been visited, or are being visited.
Taken(f, i) == Len(Children(f[i].node)) - Len(f[i].rest)

\* The frames are of a module and of nodes nested in each other.
Walk ==
  /\ Stack
  /\ \A i \in 1..Len(frames) :
       /\ GoodFrame(frames[i])
       /\ i < Len(frames) => Taken(frames, i) >= 1
       /\ frames[i].node.kind = "module" <=> i = 1

\* What the nodes of a tree are.
LEMMA NodeFacts ==
  ASSUME NEW n \in Nodes
  PROVE  /\ Children(n) \in Seq(Nodes)
         /\ n.kind \notin {"module", "assigned"}
         /\ n.kind = "import" => IsDotted(n.name)
         /\ n.kind = "from" => n.level \in Nat /\ IsSequence(n.module)
         /\ n.kind = "class" => n.name # None
         /\ n.kind = "assign" => n.value \in Nodes /\ IsSequence(n.targets)
         /\ n.kind = "call" => /\ n.func.parts # None => IsDotted(n.func.parts)
                               /\ IsSequence(n.func.via)
<1>1. /\ Children(n) \in Seq(Nodes)
      /\ n.kind \notin {"module", "assigned"}
      /\ n.kind = "import" => Dotted(n.name)
      /\ n.kind = "from" => n.level \in Nat /\ n.module \in Seq(ToSet(n.module))
      /\ n.kind = "class" => n.name # None
      /\ n.kind = "assign" => n.value \in Nodes /\ n.targets \in Seq(ToSet(n.targets))
      /\ n.kind = "call" => /\ n.func.parts # None => Dotted(n.func.parts)
                            /\ n.func.via \in Seq(ToSet(n.func.via))
  BY TreeAssumption
<1> QED BY <1>1, DottedIs DEF IsSequence

\* The node that is due.
LEMMA DueFacts ==
  ASSUME Walk, frames # <<>>, Top.rest # <<>>
  PROVE  /\ Node \in Nodes /\ Tail(Top.rest) \in Seq(Nodes)
         /\ Len(Tail(Top.rest)) = Len(Top.rest) - 1 /\ Len(Top.rest) \in Nat \ {0}
         /\ Len(Children(Top.node)) \in Nat /\ Len(Top.rest) <= Len(Children(Top.node))
<1>1. GoodFrame(Top)
  BY TopFacts DEF Walk
<1>2. Top.rest \in Seq(Nodes) /\ Children(Top.node) \in Seq(Nodes)
      /\ Len(Top.rest) <= Len(Children(Top.node))
  BY <1>1 DEF GoodFrame
<1> DEFINE r == Top.rest
           c == Children(Top.node)
<1> HIDE DEF r, c
<1>3. r \in Seq(Nodes) /\ c \in Seq(Nodes) /\ r # <<>>
  BY <1>2 DEF r, c
<1>4. Head(r) \in Nodes /\ Tail(r) \in Seq(Nodes) /\ Len(Tail(r)) = Len(r) - 1
      /\ Len(r) \in Nat \ {0} /\ Len(c) \in Nat
  BY <1>3
<1> QED BY <1>2, <1>4 DEF Node, r, c

\* What is to be visited yet, when the next child is due,
LEMMA AdvancedRest ==
  ASSUME Stack, frames # <<>>
  PROVE  \A i \in 1..Len(frames) :
           Advanced[i].rest = IF i = Len(frames) THEN Tail(Top.rest) ELSE frames[i].rest
<1> DEFINE e == [frames[Len(frames)] EXCEPT !.rest = Tail(@)]
<1>1. Advanced = [frames EXCEPT ![Len(frames)] = e]
  BY DEF Advanced
<1>2. e.rest = Tail(Top.rest)
  BY TopFacts DEF Stack, ShapeOf, Top
<1> HIDE DEF e
<1>3. \A i \in 1..Len(frames) : Advanced[i] = IF i = Len(frames) THEN e ELSE frames[i]
  BY <1>1, TopReplaced
<1> QED BY <1>2, <1>3

\* when it is entered,
LEMMA EnteredRest ==
  ASSUME Stack, frames # <<>>
  PROVE  /\ Entered[Len(frames) + 1].rest = Children(Node)
         /\ \A i \in 1..Len(frames) :
              Entered[i].rest = IF i = Len(frames) THEN Tail(Top.rest) ELSE frames[i].rest
<1> DEFINE e == Frame(Node, importKind)
<1>1. e.rest = Children(Node)
  BY DEF Frame
<1>2. Entered = Append(Advanced, e)
  BY DEF Entered
<1> HIDE DEF e
<1>3. /\ Entered[Len(frames) + 1] = e
      /\ \A i \in 1..Len(frames) : Entered[i] = Advanced[i]
  BY <1>2, AdvancedFacts, Appended
<1> QED BY <1>1, <1>3, AdvancedRest

\* and when the targets of an assignment are bound.
LEMMA AssignedRest ==
  ASSUME Stack, frames # <<>>, frames' = [frames EXCEPT ![Len(frames)].node = Assigned(@)]
  PROVE  /\ frames'[Len(frames)].node = Assigned(Top.node)
         /\ \A i \in 1..Len(frames) : frames'[i].rest = frames[i].rest
         /\ \A i \in 1..Len(frames) - 1 : frames'[i].node = frames[i].node
<1> DEFINE e == [frames[Len(frames)] EXCEPT !.node = Assigned(@)]
<1>1. frames' = [frames EXCEPT ![Len(frames)] = e]
  OBVIOUS
<1>2. e.node = Assigned(Top.node) /\ e.rest = frames[Len(frames)].rest
  BY TopFacts DEF Stack, ShapeOf, Top
<1> HIDE DEF e
<1>3. \A i \in 1..Len(frames) : frames'[i] = IF i = Len(frames) THEN e ELSE frames[i]
  BY <1>1, TopReplaced
<1> QED BY <1>2, <1>3, TopFacts

(***************************************************************************)
(* The four moves: on to the next child, into it, out of a node, and from  *)
(* the value of an assignment to its targets                               *)
(***************************************************************************)

\* The nodes below the top, and how far each is, stay.
SameBelow(n) ==
  \A i \in 1..n : frames'[i].node = frames[i].node /\ Taken(frames', i) = Taken(frames, i)

Advances ==
  /\ frames # <<>> /\ Walk /\ Node \in Nodes
  /\ Len(frames') = Len(frames)
  /\ SameBelow(Len(frames) - 1)
  /\ frames'[Len(frames)].node = Top.node
  /\ Taken(frames', Len(frames)) = Taken(frames, Len(frames)) + 1

Enters ==
  /\ frames # <<>> /\ Walk /\ Node \in Nodes
  /\ Len(frames') = Len(frames) + 1
  /\ SameBelow(Len(frames) - 1)
  /\ frames'[Len(frames)].node = Top.node
  /\ Taken(frames', Len(frames)) = Taken(frames, Len(frames)) + 1
  /\ frames'[Len(frames) + 1].node = Node
  /\ Taken(frames', Len(frames) + 1) = 0

Leaving ==
  /\ frames # <<>> /\ Walk
  /\ Len(frames') = Len(frames) - 1
  /\ SameBelow(Len(frames) - 1)

Turning ==
  /\ frames # <<>> /\ Walk
  /\ Len(frames') = Len(frames)
  /\ SameBelow(Len(frames) - 1)
  /\ Top.node.kind = "assign"
  /\ frames'[Len(frames)].node = Assigned(Top.node)
  /\ Taken(frames', Len(frames)) = Taken(frames, Len(frames))

\* A frame some children later.
LEMMA LaterFrame ==
  ASSUME NEW e, NEW f, GoodFrame(e), ShapeOf(f), f.node = e.node,
         e.rest # <<>>, f.rest = Tail(e.rest)
  PROVE  /\ GoodFrame(f)
         /\ Len(Children(f.node)) - Len(f.rest) = Len(Children(e.node)) - Len(e.rest) + 1
         /\ Len(Children(f.node)) - Len(f.rest) >= 1
<1> DEFINE r == e.rest
           c == Children(e.node)
<1>1. r \in Seq(Nodes) /\ c \in Seq(Nodes) /\ r # <<>> /\ Len(r) <= Len(c)
  BY DEF GoodFrame
<1> HIDE DEF r, c
<1>2. Tail(r) \in Seq(Nodes) /\ Len(Tail(r)) = Len(r) - 1 /\ Len(r) \in Nat \ {0} /\ Len(c) \in Nat
  BY <1>1
<1>3. f.rest = Tail(r) /\ Children(f.node) = c
  BY DEF r, c
<1>4. GoodFrame(f)
  BY <1>1, <1>2, <1>3 DEF GoodFrame, c
<1>5. Len(c) - Len(Tail(r)) = Len(c) - Len(r) + 1 /\ Len(c) - Len(Tail(r)) >= 1
  BY <1>1, <1>2
<1> QED BY <1>3, <1>4, <1>5 DEF r, c

\* A frame that is as far as it was.
LEMMA SameFrame ==
  ASSUME NEW e, NEW f, GoodFrame(e), ShapeOf(f), f.node = e.node, f.rest = e.rest
  PROVE  GoodFrame(f)
BY DEF GoodFrame

\* Below the top nothing moves.
LEMMA Below ==
  ASSUME Walk, frames # <<>>,
         \A i \in 1..Len(frames) - 1 : /\ frames'[i].node = frames[i].node
                                       /\ frames'[i].rest = frames[i].rest
                                       /\ ShapeOf(frames'[i])
  PROVE  \A i \in 1..Len(frames) - 1 : /\ Taken(frames', i) = Taken(frames, i)
                                       /\ Taken(frames', i) >= 1
                                       /\ GoodFrame(frames'[i])
                                       /\ i \in 1..Len(frames) /\ i < Len(frames)
<1> SUFFICES ASSUME NEW i \in 1..Len(frames) - 1
             PROVE  /\ Taken(frames', i) = Taken(frames, i)
                    /\ Taken(frames', i) >= 1
                    /\ GoodFrame(frames'[i])
                    /\ i \in 1..Len(frames) /\ i < Len(frames)
  OBVIOUS
<1>1. i \in 1..Len(frames) /\ i < Len(frames)
  BY TopFacts DEF Walk
<1>2. Taken(frames', i) = Taken(frames, i)
  BY DEF Taken
<1>3. Taken(frames, i) >= 1 /\ GoodFrame(frames[i])
  BY <1>1 DEF Walk
<1>4. GoodFrame(frames'[i])
  BY <1>3, SameFrame
<1> QED BY <1>1, <1>2, <1>3, <1>4

\* On to the next child.
LEMMA AdvanceMove ==
  ASSUME Walk, frames # <<>>, Top.rest # <<>>, frames' = Advanced
  PROVE  Walk' /\ Advances
<1> DEFINE n == Len(frames)
<1>1. Stack /\ n \in Nat \ {0} /\ Top = frames[n]
  BY TopFacts DEF Walk
<1>2. /\ IsSequence(frames') /\ Len(frames') = n
      /\ \A i \in 1..n : ShapeOf(frames'[i]) /\ frames'[i].node = frames[i].node
      /\ \A i \in 1..n : frames'[i].rest = IF i = n THEN Tail(Top.rest) ELSE frames[i].rest
  BY <1>1, AdvancedFacts, AdvancedRest
<1>3. /\ GoodFrame(frames'[n])
      /\ Taken(frames', n) = Taken(frames, n) + 1 /\ Taken(frames', n) >= 1
  <2> DEFINE e == frames[n]
             f == frames'[n]
  <2>1. n \in 1..n
    BY <1>1
  <2>2. GoodFrame(e) /\ ShapeOf(f) /\ f.node = e.node /\ f.rest = Tail(e.rest) /\ e.rest # <<>>
    BY <1>1, <1>2, <2>1 DEF Walk
  <2> HIDE DEF e, f, n
  <2>3. /\ GoodFrame(f)
        /\ Len(Children(f.node)) - Len(f.rest) = Len(Children(e.node)) - Len(e.rest) + 1
        /\ Len(Children(f.node)) - Len(f.rest) >= 1
    BY <2>2, LaterFrame
  <2> QED BY <2>3 DEF Taken, e, f
<1>4. \A i \in 1..n - 1 : /\ frames'[i].node = frames[i].node /\ frames'[i].rest = frames[i].rest
                          /\ ShapeOf(frames'[i])
  BY <1>1, <1>2
<1>5. \A i \in 1..n - 1 : Taken(frames', i) = Taken(frames, i)
  BY <1>4, Below
<1>6. \A i \in 1..n - 1 : GoodFrame(frames'[i]) /\ Taken(frames', i) >= 1
  BY <1>4, Below
<1>7. Stack'
  BY <1>2 DEF Stack
<1>8. \A i \in 1..n : GoodFrame(frames'[i]) /\ Taken(frames', i) >= 1
  BY <1>1, <1>3, <1>6
<1>9. \A i \in 1..n : frames'[i].node.kind = "module" <=> i = 1
  BY <1>2 DEF Walk
<1>10. Walk'
  BY <1>2, <1>7, <1>8, <1>9 DEF Walk
<1>11. Node \in Nodes
  BY DueFacts
<1> QED BY <1>1, <1>2, <1>3, <1>4, <1>5, <1>10, <1>11 DEF Advances, SameBelow

\* Into a child.
LEMMA EnterMove ==
  ASSUME Walk, frames # <<>>, Top.rest # <<>>, frames' = Entered
  PROVE  Walk' /\ Enters
<1> DEFINE n == Len(frames)
<1>1. Stack /\ n \in Nat \ {0} /\ Top = frames[n]
  BY TopFacts DEF Walk
<1>2. /\ IsSequence(frames') /\ Len(frames') = n + 1
      /\ \A i \in 1..n + 1 : ShapeOf(frames'[i])
      /\ \A i \in 1..n : frames'[i].node = frames[i].node
      /\ \A i \in 1..n : frames'[i].rest = IF i = n THEN Tail(Top.rest) ELSE frames[i].rest
      /\ frames'[n + 1].node = Node /\ frames'[n + 1].rest = Children(Node)
  BY <1>1, EnteredFacts, EnteredRest
<1>3. /\ GoodFrame(frames'[n])
      /\ Taken(frames', n) = Taken(frames, n) + 1 /\ Taken(frames', n) >= 1
  <2> DEFINE e == frames[n]
             f == frames'[n]
  <2>1. n \in 1..n
    BY <1>1
  <2>2. GoodFrame(e) /\ ShapeOf(f) /\ f.node = e.node /\ f.rest = Tail(e.rest) /\ e.rest # <<>>
    BY <1>1, <1>2, <2>1 DEF Walk
  <2> HIDE DEF e, f, n
  <2>3. /\ GoodFrame(f)
        /\ Len(Children(f.node)) - Len(f.rest) = Len(Children(e.node)) - Len(e.rest) + 1
        /\ Len(Children(f.node)) - Len(f.rest) >= 1
    BY <2>2, LaterFrame
  <2> QED BY <2>3 DEF Taken, e, f
<1>4. \A i \in 1..n - 1 : /\ frames'[i].node = frames[i].node /\ frames'[i].rest = frames[i].rest
                          /\ ShapeOf(frames'[i])
  BY <1>1, <1>2
<1>5. \A i \in 1..n - 1 : Taken(frames', i) = Taken(frames, i)
  BY <1>4, Below
<1>6. \A i \in 1..n - 1 : GoodFrame(frames'[i]) /\ Taken(frames', i) >= 1
  BY <1>4, Below
<1>7. Stack'
  BY <1>2 DEF Stack
<1>8. \A i \in 1..n : GoodFrame(frames'[i]) /\ Taken(frames', i) >= 1
  BY <1>1, <1>3, <1>6
<1>9. \A i \in 1..n : frames'[i].node.kind = "module" <=> i = 1
  BY <1>2 DEF Walk
<1>10. Node \in Nodes /\ Children(Node) \in Seq(Nodes) /\ Node.kind # "module"
  BY DueFacts, NodeFacts
<1>11. Len(Children(Node)) \in Nat
  BY <1>10
<1>12. GoodFrame(frames'[n + 1]) /\ Taken(frames', n + 1) = 0 /\ frames'[n + 1].node.kind # "module"
  <2>1. Len(Children(Node)) - Len(Children(Node)) = 0 /\ Len(Children(Node)) <= Len(Children(Node))
    BY <1>11
  <2>2. n + 1 \in 1..n + 1
    BY <1>1
  <2> QED BY <1>2, <1>10, <2>1, <2>2 DEF GoodFrame, GoodNode, Taken
<1>13. \A i \in 1..n + 1 : i \in 1..n \/ i = n + 1
  BY <1>1
<1>14. Walk'
  <2> SUFFICES ASSUME NEW i \in 1..n + 1
               PROVE  /\ GoodFrame(frames'[i])
                      /\ i < n + 1 => Taken(frames', i) >= 1
                      /\ frames'[i].node.kind = "module" <=> i = 1
    BY <1>2, <1>7 DEF Walk
  <2>1. CASE i \in 1..n
    BY <1>8, <1>9, <2>1
  <2>2. CASE i = n + 1
    BY <1>1, <1>12, <2>2
  <2> QED BY <1>13, <2>1, <2>2
<1> QED BY <1>1, <1>2, <1>3, <1>4, <1>5, <1>10, <1>12, <1>14 DEF Enters, SameBelow

\* Out of a node.
LEMMA LeaveMove ==
  ASSUME Walk, frames # <<>>, frames' = Left
  PROVE  Walk' /\ Leaving
<1> DEFINE n == Len(frames)
<1>1. Stack /\ n \in Nat \ {0} /\ Top = frames[n]
  BY TopFacts DEF Walk
<1>2. /\ IsSequence(frames') /\ Len(frames') = n - 1
      /\ \A i \in 1..n - 1 : frames'[i] = frames[i]
  BY <1>1, LeftFacts
<1>3. \A i \in 1..n - 1 : Taken(frames', i) = Taken(frames, i)
  BY <1>2 DEF Taken
<1>4. \A i \in 1..n - 1 : i \in 1..n /\ i < n
  BY <1>1
<1>5. Walk'
  BY <1>2, <1>3, <1>4 DEF Walk, Stack, GoodFrame
<1> QED BY <1>1, <1>2, <1>3, <1>5 DEF Leaving, SameBelow

\* From the value to the targets.
LEMMA TurnMove ==
  ASSUME Walk, frames # <<>>, Top.node.kind = "assign",
         frames' = [frames EXCEPT ![Len(frames)].node = Assigned(@)]
  PROVE  Walk' /\ Turning
<1> DEFINE n == Len(frames)
           t == Top.node
<1>1. Stack /\ n \in Nat \ {0} /\ Top = frames[n] /\ n \in 1..n
  BY TopFacts DEF Walk
<1>2. /\ IsSequence(frames') /\ Len(frames') = n
      /\ \A i \in 1..n : ShapeOf(frames'[i])
      /\ \A i \in 1..n : frames'[i].rest = frames[i].rest
      /\ \A i \in 1..n - 1 : frames'[i].node = frames[i].node
      /\ frames'[n].node = Assigned(t)
  BY <1>1, AssignedFacts, AssignedRest
<1>3. GoodFrame(Top) /\ t \in Nodes
  BY <1>1 DEF Walk, GoodFrame, GoodNode
<1>4. t.value \in Nodes /\ IsSequence(t.targets)
  BY <1>3, NodeFacts
<1>5. Children(t) = <<t.value>> /\ Children(Assigned(t)) = <<t.value>>
      /\ Assigned(t).kind = "assigned" /\ Assigned(t).value = t.value
      /\ Assigned(t).targets = t.targets
  BY DEF Children, Assigned
<1>6. GoodFrame(frames'[n]) /\ Taken(frames', n) = Taken(frames, n)
  <2>1. GoodNode(Assigned(t))
    BY <1>4, <1>5 DEF GoodNode
  <2>2. frames'[n].rest = Top.rest /\ ShapeOf(frames'[n]) /\ frames'[n].node = Assigned(t)
    BY <1>1, <1>2
  <2>3. Children(frames'[n].node) = Children(Top.node)
    BY <1>5, <2>2
  <2>4. Taken(frames', n) = Taken(frames, n)
    BY <1>1, <2>2, <2>3 DEF Taken
  <2> HIDE DEF n, t
  <2>5. GoodFrame(frames'[n])
    BY <1>3, <2>1, <2>2, <2>3 DEF GoodFrame
  <2> QED BY <2>4, <2>5
<1>7. \A i \in 1..n - 1 : /\ frames'[i].node = frames[i].node /\ frames'[i].rest = frames[i].rest
                          /\ ShapeOf(frames'[i])
  BY <1>1, <1>2
<1>8. \A i \in 1..n - 1 : /\ i \in 1..n /\ i < n /\ GoodFrame(frames'[i])
                          /\ Taken(frames', i) = Taken(frames, i) /\ Taken(frames', i) >= 1
  BY <1>7, Below
<1>9. Stack'
  BY <1>2 DEF Stack
<1>10. frames'[n].node.kind # "module" /\ frames[n].node.kind # "module" /\ n # 1
  BY <1>1, <1>2, <1>5 DEF Walk
<1>11. Walk'
  <2> SUFFICES ASSUME NEW i \in 1..n
               PROVE  /\ GoodFrame(frames'[i])
                      /\ i < n => Taken(frames', i) >= 1
                      /\ frames'[i].node.kind = "module" <=> i = 1
    BY <1>2, <1>9 DEF Walk
  <2>1. CASE i = n
    BY <1>1, <1>6, <1>10, <2>1
  <2>2. CASE i # n
    <3>1. i \in 1..n - 1
      BY <1>1, <2>2
    <3> QED BY <1>2, <1>8, <3>1 DEF Walk
  <2> QED BY <2>1, <2>2
<1> QED BY <1>1, <1>2, <1>6, <1>7, <1>8, <1>11 DEF Turning, SameBelow

\* At the start there is the module.
LEMMA WalkInit == Init => Walk
<1> SUFFICES ASSUME Init PROVE Walk
  OBVIOUS
<1>1. PICK body \in Module :
        frames = <<Frame([kind |-> "module", body |-> body], "import")>>
  BY DEF Init
<1> DEFINE m == [kind |-> "module", body |-> body]
           e == Frame(m, "import")
<1>2. body \in Seq(Nodes)
  BY TreeAssumption
<1>3. Children(m) = body /\ m.kind = "module"
  BY DEF Children
<1>4. ShapeOf(e) /\ e.rest = body /\ e.node = m
  BY <1>3 DEF Frame, ShapeOf
<1>5. frames = <<e>>
  BY <1>1
<1> HIDE DEF e, m
<1>6. Len(body) <= Len(body)
  BY <1>2
<1>7. GoodFrame(e) /\ e.node.kind = "module"
  BY <1>2, <1>3, <1>4, <1>6 DEF GoodFrame, GoodNode
<1>8. frames \in Seq({e}) /\ Len(frames) = 1 /\ frames[1] = e
  BY <1>5
<1>9. Stack
  BY <1>4, <1>8 DEF Stack, IsSequence
<1> QED BY <1>7, <1>8, <1>9 DEF Walk

\* Every step is one of the moves.
LEMMA WalkNext == Walk /\ [Next]_vars => Walk'
<1> SUFFICES ASSUME Walk, [Next]_vars PROVE Walk'
  OBVIOUS
<1>1. CASE VisitImport \/ VisitImportFrom
  BY <1>1, AdvanceMove DEF VisitImport, VisitImportFrom, Meets
<1>2. CASE VisitTry \/ VisitFunctionDef \/ VisitClassDef \/ VisitCall \/ VisitOther
  BY <1>2, EnterMove DEF VisitTry, VisitFunctionDef, VisitClassDef, VisitCall, VisitOther, Meets
<1>3. CASE LeaveTry \/ LeaveFunctionDef \/ LeaveClassDef \/ LeaveCall \/ LeaveOther \/ LeaveAssigned
  BY <1>3, LeaveMove DEF LeaveTry, LeaveFunctionDef, LeaveClassDef, LeaveCall, LeaveOther,
     LeaveAssigned, Leaves
<1>4. CASE LeaveAssign
  BY <1>4, TurnMove DEF LeaveAssign, Leaves
<1>5. CASE UNCHANGED vars
  BY <1>5 DEF vars, Walk, Stack, Taken, GoodFrame
<1> QED BY <1>1, <1>2, <1>3, <1>4, <1>5 DEF Next

(***************************************************************************)
(* Every step leaves the table sound                                       *)
(***************************************************************************)

\* The table knows no more than the imports so far vouch for.
Holds == Stored(made, wildcards)

\* Names are bound, and it is remembered.
LEMMA HoldsBound ==
  ASSUME Mirrored, Stack, Holds, NEW names, NEW bs, BindNames(names, bs),
         wildcards' = wildcards, classAttributes' = classAttributes,
         SoundList(bs, made', wildcards)
  PROVE  Holds'
<1>1. Grown(made, made') /\ IsSequence(made')
  BY AppendGrown DEF BindNames, Holds, Stored
<1>2. Stored(made', wildcards)
  <2>1. Grown(wildcards, wildcards)
    BY NotGrown
  <2>2. \A dict : SoundDict(dict, made, wildcards) => SoundDict(dict, made', wildcards)
    BY <1>1, <2>1, SoundGrown
  <2> QED BY <1>1, <2>2 DEF Holds, Stored
<1>3. \A k \in DOMAIN scopes' : SoundDict(scopes'[k], made', wildcards)
  <2>1. scopes' = Bound(names, bs)
    BY DEF BindNames
  <2> QED BY <1>2, <2>1, BoundGood
<1> QED BY <1>2, <1>3 DEF Holds, Stored

\* An import vouches for itself.
LEMMA ImportSound ==
  ASSUME Holds, importKind \in ImportKinds, NEW name, IsDotted(name), NEW names,
         NEW b, b = Binding(name, importKind, ImportConfidence(importKind)),
         BindNames(names, <<b>>)
  PROVE  SoundList(<<b>>, made', wildcards)
<1> DEFINE e == Made(ScopeKinds, names, <<b>>)
           k == Len(made) + 1
<1>1. /\ DOMAIN b = {"name", "kind", "confidence"}
      /\ b.name = name /\ b.kind = importKind /\ b.confidence = ImportConfidence(importKind)
  BY DEF Binding
<1>2. b.confidence \in Scale /\ b.confidence \in Nat /\ b.confidence <= b.confidence
      /\ (b.kind = "conditional_import" => b.confidence <= Conditional)
  BY <1>1 DEF ImportConfidence, Scale, Direct, Conditional
<1>3. e.bindings = <<b>>
  BY DEF Made
<1>4. made' = Append(made, e)
  BY DEF BindNames
<1> HIDE DEF e
<1>5. k \in DOMAIN made' /\ made'[k] = e
  BY <1>4, AppendGrown, Appended DEF Holds, Stored
<1>6. 1 \in DOMAIN <<b>> /\ <<b>>[1] = b
  OBVIOUS
<1>7. StartsWith(name, name) /\ IsSequence(name)
  BY StartsWithItself DEF IsDotted
<1> HIDE DEF k
<1>8. k \in DOMAIN made' /\ 1 \in DOMAIN made'[k].bindings /\ made'[k].bindings[1] = b
  BY <1>3, <1>5, <1>6
<1>9. Vouched(made', wildcards, name, b.confidence)
  <2> HIDE DEF StartsWith
  <2> QED BY <1>1, <1>2, <1>7, <1>8 DEF Vouched
<1>10. Sound(b, made', wildcards)
  BY <1>1, <1>2, <1>9 DEF Sound
<1> QED BY <1>10, One DEF SoundList

\* The table stays sound when an import binds its names, ...
LEMMA HoldsImport ==
  ASSUME Mirrored, Nested, Walk, Holds, VisitImport
  PROVE  Holds'
<1> DEFINE n == Node
           name == IF n.as # None THEN n.name ELSE SubSeq(n.name, 1, 1)
           b == Binding(name, importKind, ImportConfidence(importKind))
           names == {IF n.as # None THEN n.as ELSE Head(n.name)}
<1>1. BindNames(names, <<b>>) /\ wildcards' = wildcards /\ classAttributes' = classAttributes
  BY DEF VisitImport
<1>2. n \in Nodes /\ n.kind = "import"
  BY DueFacts DEF VisitImport, Meets
<1>3. IsDotted(name)
  BY <1>2, NodeFacts, DottedFacts
<1>4. importKind \in ImportKinds /\ Stack
  BY DEF Nested
<1> HIDE DEF names, name
<1>5. b = Binding(name, importKind, ImportConfidence(importKind))
  OBVIOUS
<1> HIDE DEF b
<1>6. SoundList(<<b>>, made', wildcards)
  BY <1>1, <1>3, <1>4, <1>5, ImportSound
<1> QED BY <1>1, <1>4, <1>6, HoldsBound

\* The module an import from names is a path, if any.
LEMMA AbsoluteModuleIs ==
  ASSUME NEW level \in Nat, NEW module, IsSequence(module),
         AbsoluteModule(level, module) # None
  PROVE  IsSequence(AbsoluteModule(level, module))
<1>1. CASE level = 0
  BY <1>1 DEF AbsoluteModule
<1>2. CASE level # 0
  <2>1. Package # None /\ level - 1 <= Len(Package)
    BY <1>2 DEF AbsoluteModule
  <2>2. Package \in Seq(ToSet(Package))
    BY <2>1, PackageAssumption
  <2> DEFINE p == Len(Package) - (level - 1)
             front == SubSeq(Package, 1, p)
             full == front \o module
  <2>3. p \in Nat /\ p <= Len(Package)
    BY <1>2, <2>1, <2>2
  <2>4. front \in Seq(ToSet(Package))
    BY <2>2, <2>3
  <2>5. IsSequence(full)
    BY <2>4, Joined DEF IsSequence
  <2>6. AbsoluteModule(level, module) = full
    BY <1>2, <2>1 DEF AbsoluteModule
  <2> QED BY <2>5, <2>6
<1> QED BY <1>1, <1>2

\* A path with one name more is a dotted name.
LEMMA AppendDotted ==
  ASSUME NEW s, IsSequence(s), NEW e
  PROVE  IsDotted(Append(s, e))
<1> DEFINE a == Append(s, e)
<1>1. IsSequence(a) /\ Len(a) = Len(s) + 1 /\ Len(s) \in Nat
  BY Appended, SequenceFacts
<1> HIDE DEF a
<1>2. a # <<>>
  BY <1>1, SequenceFacts
<1>3. IsDotted(a)
  BY <1>1, <1>2 DEF IsDotted
<1> QED BY <1>3 DEF a

\* ... when a from-import does, ...
LEMMA HoldsImportFrom ==
  ASSUME Mirrored, Nested, Walk, Holds, VisitImportFrom
  PROVE  Holds'
<1> DEFINE n == Node
           module == AbsoluteModule(n.level, n.module)
           bound == IF n.as # None THEN n.as ELSE n.name
           names == {bound}
<1>1. n \in Nodes /\ n.kind = "from" /\ classAttributes' = classAttributes
  BY DueFacts DEF VisitImportFrom, Meets
<1>2. module # None => IsSequence(module)
  BY <1>1, NodeFacts, AbsoluteModuleIs
<1>3. importKind \in ImportKinds /\ Stack
  BY DEF Nested
<1>4. CASE n.name = "*" /\ module # None
  <2>1. /\ \/ wildcards' = wildcards
           \/ wildcards' = Append(wildcards, module)
        /\ UNCHANGED <<scopes, made>>
    BY <1>4 DEF VisitImportFrom
  <2>2. Grown(made, made') /\ IsSequence(made')
    BY <2>1, NotGrown DEF Holds, Stored
  <2>3. /\ Grown(wildcards, wildcards') /\ IsSequence(wildcards')
        /\ \A i \in DOMAIN wildcards' : IsSequence(wildcards'[i])
    <3>1. CASE wildcards' = wildcards
      BY <3>1, NotGrown DEF Holds, Stored
    <3>2. CASE wildcards' = Append(wildcards, module)
      <4>1. /\ IsSequence(wildcards) /\ Len(wildcards) \in Nat
            /\ DOMAIN wildcards = 1..Len(wildcards)
            /\ \A i \in DOMAIN wildcards : IsSequence(wildcards[i])
        BY SequenceFacts DEF Holds, Stored
      <4> HIDE DEF module
      <4>2. /\ Grown(wildcards, wildcards') /\ IsSequence(wildcards')
            /\ Len(wildcards') = Len(wildcards) + 1
            /\ wildcards'[Len(wildcards) + 1] = module
            /\ \A i \in 1..Len(wildcards) : wildcards'[i] = wildcards[i]
        BY <3>2, <4>1, AppendGrown, Appended
      <4>3. DOMAIN wildcards' = 1..Len(wildcards) + 1
        BY <4>2, SequenceFacts
      <4>4. \A i \in DOMAIN wildcards' : i \in 1..Len(wildcards) \/ i = Len(wildcards) + 1
        BY <4>1, <4>3
      <4> QED BY <1>2, <1>4, <4>1, <4>2, <4>4
    <3> QED BY <2>1, <3>1, <3>2
  <2>4. \A dict : SoundDict(dict, made, wildcards) => SoundDict(dict, made', wildcards')
    BY <2>2, <2>3, SoundGrown
  <2> QED BY <1>1, <2>1, <2>2, <2>3, <2>4 DEF Holds, Stored
<1>5. CASE ~(n.name = "*" /\ module # None)
  <2> DEFINE name == Append(module, n.name)
             b == Binding(name, importKind, ImportConfidence(importKind))
             bs == <<IF module = None THEN UnresolvedRelative ELSE b>>
  <2>1. BindNames(names, bs) /\ wildcards' = wildcards
    BY <1>5 DEF VisitImportFrom
  <2>2. SoundList(bs, made', wildcards)
    <3>1. CASE module = None
      <4> DEFINE v == UnresolvedRelative
      <4>1. DOMAIN v = {"name", "kind", "confidence"} /\ v.kind = "unresolved_relative"
        BY DEF UnresolvedRelative, Binding
      <4> HIDE DEF v
      <4>2. Sound(v, made', wildcards)
        BY <4>1 DEF Sound, Named
      <4>3. bs = <<v>>
        BY <3>1 DEF v
      <4> QED BY <4>2, <4>3, One DEF SoundList
    <3>2. CASE module # None
      <4>1. IsDotted(name)
        BY <1>2, <3>2, AppendDotted
      <4>2. bs = <<b>>
        BY <3>2
      <4> HIDE DEF name
      <4>3. b = Binding(name, importKind, ImportConfidence(importKind))
        OBVIOUS
      <4> HIDE DEF bs, names, b
      <4>4. SoundList(<<b>>, made', wildcards)
        BY <1>3, <2>1, <4>1, <4>2, <4>3, ImportSound
      <4> QED BY <4>2, <4>4
    <3> QED BY <3>1, <3>2
  <2> HIDE DEF names, bs
  <2> QED BY <1>1, <1>3, <2>1, <2>2, HoldsBound
<1> QED BY <1>4, <1>5

\* The targets of an assignment are bound to what its value is.
LEMMA HoldsAssign ==
  ASSUME Mirrored, Walk, Holds, LeaveAssign
  PROVE  Holds'
<1> DEFINE targets    == Top.node.targets
           names      == {targets[i].name : i \in {j \in DOMAIN targets : targets[j].kind = "name"}}
           attributes == {targets[i].name : i \in {j \in DOMAIN targets : targets[j].kind = "self"}}
           found      == ValueBindings(Top.node.value)
           toNames    == Carried(found, "assignment")
           toSelf     == Carried(found, "class_attribute")
           two        == <<Made(ScopeKinds, names, toNames), Made({"class"}, attributes, toSelf)>>
<1>1. /\ scopes' = Bound(names, toNames)
      /\ classAttributes' = AttributesBound(attributes, toSelf)
      /\ made' = made \o two
      /\ wildcards' = wildcards
  BY DEF LeaveAssign
<1>2. Top.node.value \in Nodes
  <2>1. frames # <<>> /\ Top.node.kind = "assign"
    BY DEF LeaveAssign, Leaves
  <2>2. GoodNode(Top.node)
    BY <2>1, TopFacts DEF Walk, GoodFrame
  <2> QED BY <2>1, <2>2, NodeFacts DEF GoodNode
<1>3. SoundList(toNames, made, wildcards) /\ SoundList(toSelf, made, wildcards)
  BY <1>2, ValueGood, CarriedGood DEF Holds
<1>4. Grown(made, made') /\ IsSequence(made')
  <2> HIDE DEF names, attributes, toNames, toSelf
  <2>1. two \in Seq({two[1], two[2]})
    OBVIOUS
  <2>2. IsSequence(two) /\ IsSequence(made)
    BY <2>1 DEF IsSequence, Holds, Stored
  <2> HIDE DEF two
  <2> QED BY <1>1, <2>2, JoinGrown
<1> HIDE DEF names, attributes, toNames, toSelf
<1>5. /\ \A dict : SoundDict(dict, made, wildcards) => SoundDict(dict, made', wildcards)
      /\ SoundList(toNames, made', wildcards) /\ SoundList(toSelf, made', wildcards)
  BY <1>3, <1>4, NotGrown, SoundGrown
<1>6. Stored(made', wildcards)
  BY <1>4, <1>5 DEF Holds, Stored
<1>7. Stack
  BY DEF Walk
<1>8. \A k \in DOMAIN scopes' : SoundDict(scopes'[k], made', wildcards)
  BY <1>1, <1>5, <1>6, <1>7, BoundGood
<1>9. \A c \in DOMAIN classAttributes' : SoundDict(classAttributes'[c], made', wildcards)
  BY <1>1, <1>5, <1>6, AttributesBoundGood
<1> QED BY <1>1, <1>6, <1>8, <1>9 DEF Holds, Stored

\* Scopes and classes come and go.
LEMMA HoldsBlocks ==
  ASSUME Mirrored, Holds,
         VisitFunctionDef \/ LeaveFunctionDef \/ VisitClassDef \/ LeaveClassDef
  PROVE  Holds'
<1>1. made' = made /\ wildcards' = wildcards
  BY DEF VisitFunctionDef, LeaveFunctionDef, VisitClassDef, LeaveClassDef
<1>2. \A k \in DOMAIN scopes' : SoundDict(scopes'[k], made, wildcards)
  <2>1. IsSequence(scopes) /\ DOMAIN scopes = 1..Len(scopes) /\ Len(scopes) \in Nat
    BY SequenceFacts DEF Mirrored
  <2>2. SoundDict(<<>>, made, wildcards)
    BY DEF SoundDict
  <2>3. CASE scopes' = Append(scopes, <<>>)
    <3>1. /\ IsSequence(scopes') /\ Len(scopes') = Len(scopes) + 1
          /\ scopes'[Len(scopes) + 1] = <<>>
          /\ \A i \in 1..Len(scopes) : scopes'[i] = scopes[i]
      BY <2>1, <2>3, Appended
    <3>2. DOMAIN scopes' = 1..Len(scopes) + 1
      BY <3>1, SequenceFacts
    <3>3. \A k \in DOMAIN scopes' : k \in 1..Len(scopes) \/ k = Len(scopes) + 1
      BY <2>1, <3>2
    <3> QED BY <2>1, <2>2, <3>1, <3>3 DEF Holds, Stored
  <2>4. CASE scopes' = Popped
    <3>1. CASE Len(scopes) > 1
      <4>1. scopes' = SubSeq(scopes, 1, Len(scopes) - 1) /\ scopes # <<>>
        BY <2>1, <2>4, <3>1, SequenceFacts DEF Popped
      <4>2. /\ IsSequence(scopes') /\ Len(scopes') = Len(scopes) - 1
            /\ \A i \in 1..Len(scopes) - 1 : scopes'[i] = scopes[i]
        BY <2>1, <4>1, Shortened
      <4>3. DOMAIN scopes' = 1..Len(scopes) - 1
        BY <4>2, SequenceFacts
      <4> QED BY <2>1, <4>2, <4>3 DEF Holds, Stored
    <3>2. CASE ~(Len(scopes) > 1)
      BY <2>4, <3>2 DEF Popped, Holds, Stored
    <3> QED BY <3>1, <3>2
  <2> QED BY <2>3, <2>4 DEF VisitFunctionDef, LeaveFunctionDef, VisitClassDef, LeaveClassDef, Pushed
<1>3. \A c \in DOMAIN classAttributes' : SoundDict(classAttributes'[c], made, wildcards)
  <2>1. CASE VisitClassDef
    <3>1. classAttributes' = [c \in DOMAIN classAttributes \cup {Node.name} |->
                                Get(classAttributes, c)]
      BY <2>1 DEF VisitClassDef, ClassEntered
    <3>2. \A c : SoundDict(Get(classAttributes, c), made, wildcards)
      BY DEF Get, Holds, Stored, SoundDict
    <3> QED BY <3>1, <3>2
  <2>2. CASE ~VisitClassDef
    BY <2>2 DEF VisitFunctionDef, LeaveFunctionDef, LeaveClassDef, Holds, Stored
  <2> QED BY <2>1, <2>2
<1> QED BY <1>1, <1>2, <1>3 DEF Holds, Stored

\* It is sound at the start, ...
LEMMA HoldsInit == Init => Holds
<1> SUFFICES ASSUME Init PROVE Holds
  OBVIOUS
<1>1. scopes = << <<>> >> /\ classAttributes = <<>> /\ wildcards = <<>> /\ made = <<>>
  BY DEF Init, InitTable
<1>2. DOMAIN scopes = {1} /\ scopes[1] = <<>> /\ DOMAIN classAttributes = {}
      /\ DOMAIN wildcards = {} /\ DOMAIN <<>> = {}
  BY <1>1
<1>3. SoundDict(<<>>, made, wildcards)
  BY <1>2 DEF SoundDict
<1>4. IsSequence(made) /\ IsSequence(wildcards)
  BY <1>1, Nothing
<1> QED BY <1>2, <1>3, <1>4 DEF Holds, Stored

\* ... and every step keeps it so.
LEMMA HoldsNext == Mirrored /\ Nested /\ Walk /\ Holds /\ [Next]_vars => Holds'
<1> SUFFICES ASSUME Mirrored, Nested, Walk, Holds, [Next]_vars PROVE Holds'
  OBVIOUS
<1>1. CASE VisitImport
  BY <1>1, HoldsImport
<1>2. CASE VisitImportFrom
  BY <1>2, HoldsImportFrom
<1>3. CASE VisitFunctionDef \/ LeaveFunctionDef \/ VisitClassDef \/ LeaveClassDef
  BY <1>3, HoldsBlocks
<1>4. CASE LeaveAssign
  BY <1>4, HoldsAssign
<1>5. CASE VisitTry \/ LeaveTry \/ VisitCall \/ LeaveCall \/ LeaveAssigned \/ VisitOther
           \/ LeaveOther \/ UNCHANGED vars
  BY <1>5 DEF VisitTry, LeaveTry, VisitCall, LeaveCall, LeaveAssigned, VisitOther, LeaveOther,
     vars, table, Holds, Stored
<1> QED BY <1>1, <1>2, <1>3, <1>4, <1>5 DEF Next

(***************************************************************************)
(* What is reported                                                        *)
(***************************************************************************)

Traced(u, m, w) ==
  \/ u.name = None
  \/ Head(u.name) = "<assign>"
  \/ Head(u.name) \in BuiltinsOfInterest
  \/ Vouched(m, w, u.name, u.confidence)

Reported(m, w) ==
  /\ IsSequence(usages)
  /\ \A x : Has(usages, x) => Traced(x, m, w) /\ x.confidence \in Scale \cup {DynamicConfidence}

\* The usages of one call.
Batch(node) ==
  /\ IsSequence(Recorded(node))
  /\ \A x : Has(Recorded(node), x) =>
       /\ Traced(x, made, wildcards)
       /\ x.confidence \in Scale \cup {DynamicConfidence}
       /\ x.at = Here
  /\ Len(Recorded(node)) > 1 => \A x : Has(Recorded(node), x) => x.confidence <= Conditional

\* The usages a call reports are a batch: about one place, with one confidence.
LEMMA RecordedGood ==
  ASSUME Mirrored, Holds, NEW node \in Nodes, node.kind = "call"
  PROVE  Batch(node)
<1> DEFINE found == TargetBindings(node.func)
           n == Len(found)
           one(i) == Usage(found[i].name, found[i].confidence, node)
           e == [i \in 1..n |-> one(i)]
           dynamic == Usage(None, DynamicConfidence, node)
<1>1. \A name, c : /\ Usage(name, c, node).name = name /\ Usage(name, c, node).confidence = c
                   /\ Usage(name, c, node).at = Here
  BY DEF Usage
<1>2. Callees(found, made, wildcards)
  BY NodeFacts, TargetGood DEF Holds
<1>3. n \in Nat /\ DOMAIN found = 1..n /\ \A i \in 1..n : Has(found, found[i])
  BY <1>2, SequenceFacts DEF Callees, Has
<1>4. Recorded(node) = IF found # <<>> THEN e
                       ELSE IF IsDynamic(node.func) THEN <<dynamic>> ELSE <<>>
  BY <1>3 DEF Recorded
<1>5. e = [i \in 1..n |-> e[i]] /\ \A i \in 1..n : e[i] = one(i)
  OBVIOUS
<1>6. ASSUME NEW i \in 1..n
      PROVE  /\ Traced(one(i), made, wildcards) /\ one(i).confidence \in Scale
             /\ one(i).at = Here
             /\ n > 1 => one(i).confidence <= Conditional
  <2> DEFINE b == found[i]
             v == one(i)
  <2>1. Known(b, made, wildcards) /\ (n > 1 => b.confidence <= Conditional)
    BY <1>2, <1>3 DEF Callees
  <2>2. v.name = b.name /\ v.confidence = b.confidence /\ v.at = Here
    BY <1>1
  <2> HIDE DEF v, b, n
  <2>3. Traced(v, made, wildcards) /\ v.confidence \in Scale /\ v.at = Here
        /\ (n > 1 => v.confidence <= Conditional)
    BY <2>1, <2>2 DEF Known, Traced
  <2> QED BY <2>3 DEF v
<1>7. dynamic.name = None /\ dynamic.confidence = DynamicConfidence /\ dynamic.at = Here
  BY <1>1
<1> HIDE DEF e, one, n, dynamic
<1>8. IsSequence(e) /\ Len(e) = n /\ \A x : Has(e, x) <=> \E i \in 1..n : e[i] = x
  BY <1>3, <1>5, Listed
<1>9. CASE found # <<>>
  <2>1. ASSUME NEW x, Has(e, x)
        PROVE  /\ Traced(x, made, wildcards) /\ x.confidence \in Scale /\ x.at = Here
               /\ n > 1 => x.confidence <= Conditional
    <3>1. PICK i \in 1..n : e[i] = x
      BY <1>8, <2>1
    <3>2. x = one(i)
      BY <1>5, <3>1
    <3> QED BY <1>6, <3>2
  <2>2. Recorded(node) = e
    BY <1>4, <1>9
  <2> QED BY <1>8, <2>1, <2>2 DEF Batch
<1>10. CASE found = <<>> /\ IsDynamic(node.func)
  <2>1. Recorded(node) = <<dynamic>>
    BY <1>4, <1>10
  <2>2. Traced(dynamic, made, wildcards)
    BY <1>7 DEF Traced
  <2> QED BY <1>7, <2>1, <2>2, One DEF Batch
<1>11. CASE found = <<>> /\ ~IsDynamic(node.func)
  <2>1. Recorded(node) = <<>>
    BY <1>4, <1>11
  <2> QED BY <2>1, Nothing DEF Batch
<1> QED BY <1>9, <1>10, <1>11

\* The usages of an assignment.
Settings ==
  LET argument == Described(Top.node.value)
      Told(target) ==
        /\ target.kind \in {"self", "attribute"}
        /\ argument.name # None \/ target.name \in AttributesOfInterest
      targets == Top.node.targets
  IN [i \in DOMAIN targets |->
        IF Told(targets[i])
        THEN <<[name |-> <<"<assign>", targets[i].name>>, confidence |-> Direct,
                at |-> Append(PathOf(Len(frames)), -i), args |-> <<argument>>,
                kwargs |-> <<>>, parent |-> None]>>
        ELSE <<>>]

\* The usages an assignment reports: at most one per target, each at a place of its own.
LEMMA SettingsGood ==
  ASSUME Walk, frames # <<>>, Top.node.kind = "assigned"
  PROVE  /\ Len(Top.node.targets) \in Nat /\ DOMAIN Top.node.targets = 1..Len(Top.node.targets)
         /\ Settings = [i \in 1..Len(Top.node.targets) |-> Settings[i]]
         /\ \A i \in 1..Len(Top.node.targets) :
              /\ IsSequence(Settings[i]) /\ Len(Settings[i]) <= 1
              /\ \A x : Has(Settings[i], x) =>
                   /\ Head(x.name) = "<assign>" /\ x.confidence = Direct
                   /\ x.at = Append(PathOf(Len(frames)), -i)
<1> DEFINE argument == Described(Top.node.value)
           Told(target) ==
             /\ target.kind \in {"self", "attribute"}
             /\ argument.name # None \/ target.name \in AttributesOfInterest
           targets == Top.node.targets
           n == Len(targets)
           u(i) == [name |-> <<"<assign>", targets[i].name>>, confidence |-> Direct,
                    at |-> Append(PathOf(Len(frames)), -i), args |-> <<argument>>,
                    kwargs |-> <<>>, parent |-> None]
           one(i) == IF Told(targets[i]) THEN <<u(i)>> ELSE <<>>
<1>1. GoodNode(Top.node)
  BY TopFacts DEF Walk, GoodFrame
<1>2. Top.node \notin Nodes
  BY NodeFacts
<1>3. n \in Nat /\ DOMAIN targets = 1..n
  BY <1>1, <1>2, SequenceFacts DEF GoodNode
<1>4. Settings = [i \in 1..n |-> one(i)]
  BY <1>3 DEF Settings
<1>5. \A i : /\ Head(u(i).name) = "<assign>" /\ u(i).confidence = Direct
             /\ u(i).at = Append(PathOf(Len(frames)), -i)
  OBVIOUS
<1> HIDE DEF Told, u, n
<1>6. \A i : /\ IsSequence(one(i)) /\ Len(one(i)) <= 1
             /\ \A x : Has(one(i), x) => x = u(i)
  <2> SUFFICES ASSUME NEW i
               PROVE  IsSequence(one(i)) /\ Len(one(i)) <= 1 /\ \A x : Has(one(i), x) => x = u(i)
    OBVIOUS
  <2>1. CASE Told(targets[i])
    <3>1. one(i) = <<u(i)>>
      BY <2>1
    <3> HIDE DEF one
    <3> QED BY <3>1, One
  <2>2. CASE ~Told(targets[i])
    <3>1. one(i) = <<>>
      BY <2>2
    <3> HIDE DEF one
    <3> QED BY <3>1, Nothing
  <2> QED BY <2>1, <2>2
<1> HIDE DEF one
<1>7. Settings = [i \in 1..n |-> Settings[i]] /\ \A i \in 1..n : Settings[i] = one(i)
  BY <1>4
<1>8. ASSUME NEW i \in 1..n
      PROVE  /\ IsSequence(Settings[i]) /\ Len(Settings[i]) <= 1
             /\ \A x : Has(Settings[i], x) =>
                  /\ Head(x.name) = "<assign>" /\ x.confidence = Direct
                  /\ x.at = Append(PathOf(Len(frames)), -i)
  BY <1>5, <1>6, <1>7
<1> QED BY <1>3, <1>7, <1>8 DEF n

\* What is reported was vouched for.
LEMMA ReportedNext ==
  ASSUME Mirrored, Walk, Holds, Holds', Reported(made, wildcards), [Next]_vars
  PROVE  Reported(made, wildcards)'
<1>1. Grown(made, made') /\ Grown(wildcards, wildcards')
  <2>1. \/ made' = made
        \/ \E e : made' = Append(made, e)
        \/ \E a, b : made' = made \o <<a, b>>
    BY Zenon DEF Next, VisitImport, VisitImportFrom, VisitTry, LeaveTry, VisitFunctionDef, LeaveFunctionDef,
       VisitClassDef, LeaveClassDef, VisitCall, LeaveCall, LeaveAssign, LeaveAssigned, VisitOther,
       LeaveOther, BindNames, vars, table
  <2>2. \/ wildcards' = wildcards
        \/ \E e : wildcards' = Append(wildcards, e)
    BY DEF Next, VisitImport, VisitImportFrom, VisitTry, LeaveTry, VisitFunctionDef, LeaveFunctionDef,
       VisitClassDef, LeaveClassDef, VisitCall, LeaveCall, LeaveAssign, LeaveAssigned, VisitOther,
       LeaveOther, BindNames, vars, table
  <2>3. IsSequence(made) /\ IsSequence(wildcards)
    BY DEF Holds, Stored
  <2>4. \A a, b : IsSequence(<<a, b>>)
    <3>1. \A a, b : <<a, b>> \in Seq({a, b})
      OBVIOUS
    <3> QED BY <3>1 DEF IsSequence
  <2> QED BY <2>1, <2>2, <2>3, <2>4, AppendGrown, JoinGrown, NotGrown
<1>2. \A x : Traced(x, made, wildcards) => Traced(x, made', wildcards')
  BY <1>1, SoundGrown DEF Traced
<1>3. Reported(made', wildcards')
  BY <1>2 DEF Reported
<1>4. CASE usages' = usages
  BY <1>3, <1>4 DEF Reported
<1>5. CASE VisitCall
  <2> DEFINE r == Recorded(Node)
  <2>1. Node \in Nodes /\ Node.kind = "call"
    BY <1>5, DueFacts DEF VisitCall, Meets
  <2>2. /\ IsSequence(r) /\ IsSequence(usages)
        /\ \A x : Has(r, x) => /\ Traced(x, made', wildcards')
                               /\ x.confidence \in Scale \cup {DynamicConfidence}
    BY <1>2, <2>1, RecordedGood DEF Batch, Reported
  <2>3. usages' = usages \o r
    BY <1>5 DEF VisitCall
  <2> HIDE DEF r
  <2> QED BY <1>3, <2>2, <2>3, Joined, HasJoin DEF Reported
<1>6. CASE LeaveAssigned
  <2> DEFINE r == FlattenSeq(Settings)
             n == Len(Top.node.targets)
  <2>1. frames # <<>> /\ Top.node.kind = "assigned"
    BY <1>6 DEF LeaveAssigned, Leaves
  <2>2. /\ n \in Nat
        /\ Settings = [i \in 1..n |-> Settings[i]]
        /\ \A i \in 1..n : /\ IsSequence(Settings[i])
                           /\ \A x : Has(Settings[i], x) =>
                                Head(x.name) = "<assign>" /\ x.confidence = Direct
    BY <2>1, SettingsGood
  <2> HIDE DEF n
  <2>3. IsSequence(r) /\ \A x : Has(r, x) <=> \E i \in 1..n : Has(Settings[i], x)
    BY <2>2, FlattenLists
  <2>4. usages' = usages \o r
    BY <1>6 DEF LeaveAssigned, Settings
  <2> HIDE DEF r
  <2>5. \A x : Has(r, x) => /\ Traced(x, made', wildcards')
                            /\ x.confidence \in Scale \cup {DynamicConfidence}
    BY <2>2, <2>3 DEF Traced, Scale
  <2>6. IsSequence(usages)
    BY DEF Reported
  <2> QED BY <1>3, <2>3, <2>4, <2>5, <2>6, Joined, HasJoin DEF Reported
<1>7. VisitCall \/ LeaveAssigned \/ usages' = usages
  BY DEF Next, VisitImport, VisitImportFrom, VisitTry, LeaveTry, VisitFunctionDef, LeaveFunctionDef,
     VisitClassDef, LeaveClassDef, LeaveCall, LeaveAssign, VisitOther, LeaveOther, vars
<1> QED BY <1>4, <1>5, <1>6, <1>7

\* What the walk keeps of the table and of what it reports.
Grounded == Mirrored /\ Nested /\ Walk /\ Holds /\ Reported(made, wildcards)

\* The invariant holds at the start, ...
LEMMA GroundedInit == Init => Grounded
<1> SUFFICES ASSUME Init PROVE Grounded
  OBVIOUS
<1>1. usages = <<>>
  BY DEF Init
<1>2. Reported(made, wildcards)
  BY <1>1, Nothing DEF Reported
<1> QED BY <1>2, MirroredInit, NestedInit, WalkInit, HoldsInit DEF Grounded

\* ... every step keeps it, ...
LEMMA GroundedNext == Grounded /\ [Next]_vars => Grounded'
<1> SUFFICES ASSUME Grounded, [Next]_vars PROVE Grounded'
  OBVIOUS
<1>1. Mirrored' /\ Nested' /\ Walk' /\ Holds'
  BY MirroredNext, NestedNext, WalkNext, HoldsNext DEF Grounded, Walk
<1>2. Reported(made, wildcards)'
  BY <1>1, ReportedNext DEF Grounded
<1> QED BY <1>1, <1>2 DEF Grounded

\* ... and it makes every usage go back to an import.
LEMMA GroundedTraced == Grounded => TracedToImport
<1> SUFFICES ASSUME Grounded PROVE TracedToImport
  OBVIOUS
<1> HIDE DEF StartsWith
<1>1. \A x : Has(usages, x) => Traced(x, made, wildcards)
  BY DEF Grounded, Reported
<1>2. \A i \in DOMAIN usages : Traced(usages[i], made, wildcards)
  BY <1>1 DEF Has
<1>3. ASSUME NEW u, Vouched(made, wildcards, u.name, u.confidence)
      PROVE  \/ \E i \in DOMAIN made : \E j \in DOMAIN made[i].bindings :
                  LET b == made[i].bindings[j]
                  IN /\ b.kind \in {"import", "conditional_import"}
                     /\ StartsWith(b.name, u.name)
                     /\ u.confidence <= b.confidence
             \/ \E i \in DOMAIN wildcards :
                  StartsWith(wildcards[i], u.name) /\ u.confidence <= Wildcard
  BY <1>3 DEF Vouched, ImportKinds
<1> QED BY <1>2, <1>3 DEF Traced, TracedToImport

\* TracedToImport, for every tree: a usage with a name is of a builtin, or comes
\* from an import visited before it and is trusted no more than that import
\* (symbol_table.py, resolve, _extend; python_ast.py, _carried_kind).
THEOREM UsagesAreGrounded == Spec => []TracedToImport
<1>1. Init => Grounded
  BY GroundedInit
<1>2. Grounded /\ [Next]_vars => Grounded'
  BY GroundedNext
<1>3. Grounded => TracedToImport
  BY GroundedTraced
<1> QED BY <1>1, <1>2, <1>3, PTL DEF Spec

(***************************************************************************)
(* How deep a frame is among those of its kind                             *)
(***************************************************************************)

Nesting(f, kinds, d) == Cardinality({i \in 1..d : f[i].node.kind \in kinds})

\* The frames up to one can be counted,
LEMMA NestingType ==
  ASSUME NEW f, NEW kinds, NEW d \in Nat
  PROVE  /\ IsFiniteSet({i \in 1..d : f[i].node.kind \in kinds})
         /\ Nesting(f, kinds, d) \in Nat
<1>1. IsFiniteSet(1..d)
  BY FS_Interval
<1>2. IsFiniteSet({i \in 1..d : f[i].node.kind \in kinds})
  BY <1>1, FS_Subset
<1> QED BY <1>2, FS_CardinalityType DEF Nesting

\* from none,
LEMMA NestingZero ==
  ASSUME NEW f, NEW kinds
  PROVE  Nesting(f, kinds, 0) = 0
<1>1. {i \in 1..0 : f[i].node.kind \in kinds} = {}
  OBVIOUS
<1> QED BY <1>1, FS_EmptySet DEF Nesting

\* one at a time;
LEMMA NestingStep ==
  ASSUME NEW f, NEW kinds, NEW d \in Nat
  PROVE  Nesting(f, kinds, d + 1) = Nesting(f, kinds, d)
                                    + (IF f[d + 1].node.kind \in kinds THEN 1 ELSE 0)
<1> DEFINE S == {i \in 1..d : f[i].node.kind \in kinds}
           T == {i \in 1..d + 1 : f[i].node.kind \in kinds}
           n == d + 1
<1>1. IsFiniteSet(S) /\ Cardinality(S) \in Nat
  BY NestingType DEF Nesting
<1>2. n \notin S
  OBVIOUS
<1>3. Nesting(f, kinds, d) = Cardinality(S) /\ Nesting(f, kinds, d + 1) = Cardinality(T)
  BY DEF Nesting
<1>4. CASE f[n].node.kind \in kinds
  <2>1. T = S \cup {n}
    BY <1>4
  <2> HIDE DEF S, T, n
  <2>2. Cardinality(T) = Cardinality(S) + 1
    BY <1>1, <1>2, <2>1, FS_AddElement
  <2> QED BY <1>3, <1>4, <2>2 DEF n
<1>5. CASE f[n].node.kind \notin kinds
  <2>1. T = S
    BY <1>5
  <2> HIDE DEF S, T
  <2> QED BY <1>1, <1>3, <1>5, <2>1
<1> QED BY <1>4, <1>5

\* frames of the same kinds count the same,
LEMMA NestingSame ==
  ASSUME NEW f, NEW g, NEW kinds, NEW d \in Nat,
         \A i \in 1..d : g[i].node.kind \in kinds <=> f[i].node.kind \in kinds
  PROVE  Nesting(g, kinds, d) = Nesting(f, kinds, d)
<1>1. {i \in 1..d : g[i].node.kind \in kinds} = {i \in 1..d : f[i].node.kind \in kinds}
  OBVIOUS
<1> QED BY <1>1 DEF Nesting

\* and a frame is deeper than those below it.
LEMMA NestingDeeper ==
  ASSUME NEW f, NEW kinds, NEW d \in Nat, NEW e \in Nat, d <= e
  PROVE  /\ Nesting(f, kinds, d) <= Nesting(f, kinds, e)
         /\ d < e /\ f[e].node.kind \in kinds => Nesting(f, kinds, d) < Nesting(f, kinds, e)
<1> DEFINE S(n) == {i \in 1..n : f[i].node.kind \in kinds}
<1>1. \A n \in Nat : IsFiniteSet(S(n)) /\ Nesting(f, kinds, n) = Cardinality(S(n))
                     /\ Nesting(f, kinds, n) \in Nat
  BY NestingType DEF Nesting
<1>2. \A m, n \in Nat : m <= n => S(m) \subseteq S(n)
  OBVIOUS
<1> HIDE DEF S
<1>3. \A m, n \in Nat : m <= n => Nesting(f, kinds, m) <= Nesting(f, kinds, n)
  BY <1>1, <1>2, FS_Subset
<1>4. ASSUME d < e, f[e].node.kind \in kinds
      PROVE  Nesting(f, kinds, d) < Nesting(f, kinds, e)
  <2> DEFINE b == e - 1
  <2>1. b \in Nat /\ d <= b /\ e = b + 1
    BY <1>4
  <2> HIDE DEF b
  <2>2. Nesting(f, kinds, e) = Nesting(f, kinds, b) + 1
    BY <1>4, <2>1, NestingStep
  <2>3. Nesting(f, kinds, d) <= Nesting(f, kinds, b)
    BY <1>3, <2>1
  <2> QED BY <1>1, <2>1, <2>2, <2>3
<1> QED BY <1>3, <1>4

\* Every depth is that of a frame.
LEMMA NestingReached ==
  ASSUME NEW f, NEW kinds, NEW n \in Nat, NEW k \in 1..Nesting(f, kinds, n)
  PROVE  \E d \in 1..n : f[d].node.kind \in kinds /\ Nesting(f, kinds, d) = k
<1> DEFINE T == {d \in 0..n : k <= Nesting(f, kinds, d)}
<1>1. Nesting(f, kinds, n) \in Nat
  BY NestingType
<1>2. n \in T /\ T \subseteq Nat
  BY <1>1
<1>3. PICK d \in T : \A e \in T : d <= e
  BY <1>2, LeastNumber
<1>4. d # 0 /\ d \in 0..n /\ k <= Nesting(f, kinds, d)
  BY <1>3, NestingZero
<1> DEFINE b == d - 1
<1>5. b \in Nat /\ b \in 0..n /\ d = b + 1 /\ b \notin T
  BY <1>3, <1>4
<1>6. ~(k <= Nesting(f, kinds, b))
  BY <1>5
<1> HIDE DEF b
<1>7. Nesting(f, kinds, d) = Nesting(f, kinds, b) + (IF f[d].node.kind \in kinds THEN 1 ELSE 0)
  BY <1>5, NestingStep
<1>8. Nesting(f, kinds, b) \in Nat /\ Nesting(f, kinds, d) \in Nat
  <2>1. d \in Nat
    BY <1>4
  <2> QED BY <1>5, <2>1, NestingType
<1>9. f[d].node.kind \in kinds /\ Nesting(f, kinds, d) = k
  BY <1>4, <1>6, <1>7, <1>8
<1> QED BY <1>4, <1>9

\* The innermost of all is as deep as there are frames.
LEMMA NestingHeight ==
  ASSUME Stack, NEW kinds
  PROVE  Nesting(frames, kinds, Len(frames)) = Height(frames, kinds)
BY SequenceFacts DEF Stack, Nesting, Height

\* The scopes are those of the module and of the blocks.
LEMMA ScopesHeight ==
  ASSUME Walk, frames # <<>>
  PROVE  Height(frames, ScopeKinds) = 1 + Height(frames, Blocks)
<1> DEFINE S == {i \in DOMAIN frames : frames[i].node.kind \in Blocks}
           T == {i \in DOMAIN frames : frames[i].node.kind \in ScopeKinds}
<1>1. DOMAIN frames = 1..Len(frames) /\ 1 \in DOMAIN frames
  BY TopFacts, SequenceFacts DEF Walk, Stack
<1>2. \A i \in DOMAIN frames : frames[i].node.kind = "module" <=> i = 1
  BY <1>1 DEF Walk
<1>3. T = S \cup {1} /\ 1 \notin S
  BY <1>1, <1>2 DEF ScopeKinds, Blocks
<1>4. IsFiniteSet(S) /\ Height(frames, Blocks) = Cardinality(S)
      /\ Height(frames, ScopeKinds) = Cardinality(T) /\ Cardinality(S) \in Nat
  BY HeightIsNumber DEF Height, Walk, Stack
<1> HIDE DEF S, T
<1>5. Cardinality(S \cup {1}) = Cardinality(S) + 1
  BY <1>3, <1>4, FS_AddElement
<1> QED BY <1>3, <1>4, <1>5

(***************************************************************************)
(* Places: a path tells, of each open node, which child is being visited   *)
(***************************************************************************)

PathIn(f, d) == [i \in 1..d - 1 |-> Taken(f, i)]

\* A path is not one that the walk is yet to come to.
Behind(p, f) ==
  /\ IsSequence(p)
  /\ \A j \in 1..Len(p) :
       j <= Len(f) /\ (\A i \in 1..j - 1 : p[i] = Taken(f, i)) => p[j] \in 1..Taken(f, j)

Moves == Advances \/ Enters \/ Leaving \/ Turning

\* How far the frames are, is a number.
LEMMA TakenType ==
  ASSUME Walk
  PROVE  /\ Len(frames) \in Nat
         /\ \A i \in 1..Len(frames) : Taken(frames, i) \in Nat
         /\ \A i \in 1..Len(frames) - 1 : Taken(frames, i) >= 1
<1>1. Len(frames) \in Nat
  BY SequenceFacts DEF Walk, Stack
<1>2. ASSUME NEW i \in 1..Len(frames) PROVE Taken(frames, i) \in Nat
  <2> DEFINE c == Children(frames[i].node)
             r == frames[i].rest
  <2>1. c \in Seq(Nodes) /\ r \in Seq(Nodes) /\ Len(r) <= Len(c)
    BY DEF Walk, GoodFrame
  <2> HIDE DEF c, r
  <2>2. Len(c) - Len(r) \in Nat
    BY <2>1
  <2> QED BY <2>2 DEF c, r, Taken
<1>3. \A i \in 1..Len(frames) - 1 : i \in 1..Len(frames) /\ i < Len(frames)
  BY <1>1
<1> QED BY <1>1, <1>2, <1>3 DEF Walk

\* A path as a list.
LEMMA PathType ==
  ASSUME NEW f, NEW d \in Nat
  PROVE  /\ IsSequence(PathIn(f, d))
         /\ d >= 1 => Len(PathIn(f, d)) = d - 1
         /\ \A i \in 1..d - 1 : PathIn(f, d)[i] = Taken(f, i)
         /\ PathIn(f, 0) = <<>>
<1>1. CASE d = 0
  <2>1. 1..d - 1 = {} /\ PathIn(f, d) = <<>>
    BY <1>1 DEF PathIn
  <2> QED BY <1>1, <2>1, Nothing
<1>2. CASE d # 0
  <2> DEFINE n == d - 1
             p == PathIn(f, d)
  <2>1. n \in Nat
    BY <1>2
  <2>2. p = [i \in 1..n |-> p[i]] /\ \A i \in 1..n : p[i] = Taken(f, i)
    BY DEF PathIn
  <2> HIDE DEF p, n
  <2>3. IsSequence(p) /\ Len(p) = n
    BY <2>1, <2>2, Listed
  <2>4. PathIn(f, 0) = <<>>
    BY DEF PathIn
  <2> QED BY <2>2, <2>3, <2>4 DEF p, n
<1> QED BY <1>1, <1>2

\* The paths of the properties.
LEMMA PathIs ==
  /\ \A d : PathOf(d) = PathIn(frames, d)
  /\ Here = Append(PathIn(frames, Len(frames)), Taken(frames, Len(frames)) + 1) \/ frames = <<>>
<1>1. \A d : PathOf(d) = PathIn(frames, d)
  BY DEF PathOf, PathIn, Taken
<1>2. Here = Append(PathIn(frames, Len(frames)), Taken(frames, Len(frames)) + 1)
  BY <1>1 DEF Here, Taken, Top
<1> QED BY <1>1, <1>2

\* The frames below the top are where they were, and what is open below it is
\* open still.
LEMMA MovesBelow ==
  ASSUME Moves
  PROVE  /\ Len(frames) \in Nat \ {0} /\ Len(frames') \in Nat
         /\ \A i \in 1..Len(frames) - 1 : /\ frames'[i].node = frames[i].node
                                          /\ Taken(frames', i) = Taken(frames, i)
         /\ \/ Len(frames') = Len(frames) - 1
            \/ /\ Len(frames) \in 1..Len(frames')
               /\ Taken(frames', Len(frames)) \in
                    {Taken(frames, Len(frames)), Taken(frames, Len(frames)) + 1}
<1>1. Walk /\ frames # <<>> /\ SameBelow(Len(frames) - 1)
  BY DEF Moves, Advances, Enters, Leaving, Turning
<1>2. Len(frames) \in Nat \ {0}
  BY <1>1, TopFacts DEF Walk
<1>3. \/ Len(frames') = Len(frames) - 1
      \/ /\ Len(frames') = Len(frames) \/ Len(frames') = Len(frames) + 1
         /\ Taken(frames', Len(frames)) \in
              {Taken(frames, Len(frames)), Taken(frames, Len(frames)) + 1}
  BY DEF Moves, Advances, Enters, Leaving, Turning
<1>4. Len(frames') \in Nat
  BY <1>2, <1>3
<1>5. Len(frames') = Len(frames) \/ Len(frames') = Len(frames) + 1
        => Len(frames) \in 1..Len(frames')
  BY <1>2, <1>4
<1>6. \A i \in 1..Len(frames) - 1 : /\ frames'[i].node = frames[i].node
                                    /\ Taken(frames', i) = Taken(frames, i)
  BY <1>1 DEF SameBelow
<1>7. \/ Len(frames') = Len(frames) - 1
      \/ /\ Len(frames) \in 1..Len(frames')
         /\ Taken(frames', Len(frames)) \in
              {Taken(frames, Len(frames)), Taken(frames, Len(frames)) + 1}
  BY <1>3, <1>5, Zenon
<1> QED BY <1>2, <1>4, <1>6, <1>7

\* A path stays that of its frame,
LEMMA PathKept ==
  ASSUME Moves, NEW d \in 0..Len(frames)
  PROVE  PathIn(frames', d) = PathIn(frames, d)
<1>1. \A i \in 1..d - 1 : i \in 1..Len(frames) - 1
  BY MovesBelow
<1>2. \A i \in 1..d - 1 : Taken(frames', i) = Taken(frames, i)
  BY <1>1, MovesBelow
<1> QED BY <1>2 DEF PathIn

\* and a frame of a kind that is not the assignment's stays what it was.
LEMMA FrameKept ==
  ASSUME Moves, NEW d \in 1..Len(frames), d <= Len(frames'), NEW kinds,
         "assign" \notin kinds, "assigned" \notin kinds
  PROVE  /\ frames'[d].node.kind \in kinds <=> frames[d].node.kind \in kinds
         /\ frames[d].node.kind \in kinds => frames'[d].node = frames[d].node
         /\ Nesting(frames', kinds, d) = Nesting(frames, kinds, d)
<1>1. ASSUME NEW i \in 1..d
      PROVE  /\ frames'[i].node.kind \in kinds <=> frames[i].node.kind \in kinds
             /\ frames[i].node.kind \in kinds => frames'[i].node = frames[i].node
  <2>1. Len(frames) \in Nat \ {0} /\ Len(frames') \in Nat
    BY MovesBelow
  <2>2. CASE i # Len(frames)
    <3>1. i \in 1..Len(frames) - 1
      BY <2>1, <2>2
    <3> QED BY <3>1, MovesBelow
  <2>3. CASE i = Len(frames)
    <3>1. ~Leaving
      BY <2>1, <2>3 DEF Leaving
    <3>2. CASE Advances \/ Enters
      <4>1. frames'[i].node = frames[i].node
        BY <2>3, <3>2 DEF Advances, Enters, Top
      <4> QED BY <4>1
    <3>3. CASE Turning
      <4>1. frames[i].node.kind = "assign" /\ frames'[i].node = Assigned(frames[i].node)
        BY <2>3, <3>3 DEF Turning, Top
      <4>2. frames'[i].node.kind = "assigned"
        BY <4>1 DEF Assigned
      <4> QED BY <4>1, <4>2
    <3> QED BY <3>1, <3>2, <3>3 DEF Moves
  <2> QED BY <2>2, <2>3
<1>2. d \in Nat /\ d \in 1..d
  OBVIOUS
<1>3. Nesting(frames', kinds, d) = Nesting(frames, kinds, d)
  BY <1>1, <1>2, NestingSame
<1> QED BY <1>1, <1>2, <1>3

\* What is behind the walk stays behind it,
LEMMA BehindKept ==
  ASSUME Moves, NEW p, Behind(p, frames)
  PROVE  Behind(p, frames')
<1> DEFINE n == Len(frames)
           t == Taken(frames, n)
<1>1. Walk /\ frames # <<>>
  BY DEF Moves, Advances, Enters, Leaving, Turning
<1>2. n \in Nat \ {0} /\ Len(frames') \in Nat /\ t \in Nat
  BY <1>1, MovesBelow, TakenType
<1>3. \A i \in 1..n - 1 : Taken(frames', i) = Taken(frames, i)
  BY MovesBelow
<1> SUFFICES ASSUME NEW j \in 1..Len(p), j <= Len(frames'),
                    \A i \in 1..j - 1 : p[i] = Taken(frames', i)
             PROVE  p[j] \in 1..Taken(frames', j)
  BY DEF Behind
<1>4. j \in Nat \ {0}
  OBVIOUS
<1>5. CASE j < n
  <2>1. j \in 1..n - 1 /\ j <= n /\ \A i \in 1..j - 1 : i \in 1..n - 1
    BY <1>2, <1>4, <1>5
  <2>2. \A i \in 1..j - 1 : p[i] = Taken(frames, i)
    BY <1>3, <2>1
  <2>3. p[j] \in 1..Taken(frames, j)
    BY <2>1, <2>2 DEF Behind
  <2> QED BY <1>3, <2>1, <2>3
<1>6. CASE j = n
  <2>1. \A i \in 1..j - 1 : p[i] = Taken(frames, i)
    BY <1>3, <1>6
  <2>2. p[j] \in 1..Taken(frames, j)
    BY <1>2, <1>6, <2>1 DEF Behind
  <2>3. Taken(frames', j) \in {t, t + 1}
    BY <1>2, <1>6, MovesBelow
  <2>4. t <= Taken(frames', j)
    BY <1>2, <2>3
  <2> QED BY <1>2, <1>6, <2>2, <2>3, <2>4
<1>7. CASE j > n
  <2>1. Enters /\ j = n + 1
    BY <1>2, <1>4, <1>7 DEF Moves, Advances, Enters, Leaving, Turning
  <2>2. n \in 1..j - 1 /\ n \in 1..Len(p) /\ \A i \in 1..n - 1 : i \in 1..j - 1
    BY <1>2, <1>4, <1>7
  <2>3. p[n] = Taken(frames', n) /\ Taken(frames', n) = t + 1
    BY <2>1, <2>2 DEF Enters
  <2>4. \A i \in 1..n - 1 : p[i] = Taken(frames, i)
    BY <1>3, <2>2
  <2>5. p[n] \in 1..t
    BY <1>2, <2>2, <2>4 DEF Behind
  <2> QED BY <1>2, <2>3, <2>5
<1> QED BY <1>2, <1>4, <1>5, <1>6, <1>7

\* so is any path of an open node,
LEMMA OpenBehind ==
  ASSUME NEW f, Len(f) \in Nat, \A i \in 1..Len(f) - 1 : Taken(f, i) \in Nat \ {0},
         NEW d \in 0..Len(f)
  PROVE  Behind(PathIn(f, d), f)
<1> DEFINE p == PathIn(f, d)
<1>1. IsSequence(p) /\ d \in Nat
  BY PathType
<1>2. ASSUME NEW j \in 1..Len(p) PROVE p[j] \in 1..Taken(f, j)
  <2>1. d # 0
    BY <1>1, PathType
  <2>2. j \in 1..d - 1 /\ p[j] = Taken(f, j)
    BY <1>1, <2>1, PathType
  <2>3. j \in 1..Len(f) - 1
    BY <1>1, <2>2
  <2>4. Taken(f, j) \in Nat \ {0}
    BY <2>3
  <2> QED BY <2>2, <2>4
<1> HIDE DEF p
<1>3. Behind(p, f)
  BY <1>1, <1>2 DEF Behind
<1> QED BY <1>3 DEF p

\* but not the path of a node that is entered,
LEMMA HereFresh ==
  ASSUME Walk, Walk', Enters
  PROVE  /\ PathIn(frames', Len(frames')) = Here
         /\ Behind(Here, frames')
         /\ ~Behind(Here, frames)
         /\ Len(Here) = Len(frames)
<1> DEFINE n == Len(frames)
           t == Taken(frames, n)
           q == PathIn(frames, n)
<1>1. n \in Nat \ {0} /\ Len(frames') = n + 1 /\ frames # <<>> /\ t \in Nat
  BY TakenType, TopFacts DEF Enters, Walk
<1>2. Here = Append(q, t + 1) /\ IsSequence(q) /\ Len(q) = n - 1
      /\ \A i \in 1..n - 1 : q[i] = Taken(frames, i)
  <2>1. Here = Append(q, t + 1)
    BY <1>1, PathIs
  <2>2. n \in Nat /\ n >= 1
    BY <1>1
  <2> HIDE DEF n
  <2> QED BY <2>1, <2>2, PathType
<1> HIDE DEF q
<1>3. /\ IsSequence(Here) /\ Len(Here) = n /\ Here[n] = t + 1
      /\ \A i \in 1..n - 1 : Here[i] = Taken(frames, i)
  <2>1. /\ IsSequence(Here) /\ Len(Here) = Len(q) + 1 /\ Here[Len(q) + 1] = t + 1
        /\ \A i \in 1..Len(q) : Here[i] = q[i]
    BY <1>2, Appended
  <2> QED BY <1>1, <1>2, <2>1
<1>4. \A i \in 1..n - 1 : Taken(frames', i) = Taken(frames, i)
  BY MovesBelow DEF Moves
<1>5. Taken(frames', n) = t + 1
  BY DEF Enters
<1>6. ~Behind(Here, frames)
  <2> SUFFICES ASSUME Behind(Here, frames) PROVE FALSE
    OBVIOUS
  <2>1. n \in 1..Len(Here) /\ n <= Len(frames)
    BY <1>1, <1>3
  <2>2. Here[n] \in 1..t
    BY <1>3, <2>1 DEF Behind
  <2> QED BY <1>1, <1>3, <2>2
<1>7. PathIn(frames', n + 1) = Here
  <2> DEFINE p == PathIn(frames', n + 1)
  <2>1. IsSequence(p) /\ Len(p) = n /\ \A i \in 1..n : p[i] = Taken(frames', i)
    BY <1>1, PathType
  <2>2. \A i \in 1..n : p[i] = Here[i]
    BY <1>1, <1>3, <1>4, <1>5, <2>1
  <2> HIDE DEF p
  <2>3. p = [i \in 1..n |-> p[i]] /\ Here = [i \in 1..n |-> Here[i]]
    BY <1>3, <2>1 DEF IsSequence
  <2>4. p = Here
    BY <2>2, <2>3
  <2> QED BY <2>4 DEF p
<1>8. Behind(Here, frames')
  <2>1. \A i \in 1..n : Taken(frames', i) \in Nat \ {0}
    <3>1. \A i \in 1..n - 1 : Taken(frames, i) >= 1 /\ i \in 1..n
      BY <1>1, TakenType
    <3>2. \A i \in 1..n - 1 : Taken(frames, i) \in Nat
      BY <3>1, TakenType
    <3>3. \A i \in 1..n : i \in 1..n - 1 \/ i = n
      BY <1>1
    <3>4. t + 1 \in Nat \ {0}
      BY <1>1
    <3>5. \A i \in 1..n - 1 : Taken(frames', i) \in Nat \ {0}
      BY <1>4, <3>1, <3>2
    <3> QED BY <1>5, <3>3, <3>4, <3>5
  <2>2. n + 1 \in 0..n + 1 /\ n + 1 \in Nat /\ n + 1 - 1 = n
    BY <1>1
  <2> HIDE DEF n, t
  <2> QED BY <1>1, <1>7, <2>1, <2>2, OpenBehind
<1> QED BY <1>1, <1>3, <1>6, <1>7, <1>8

(***************************************************************************)
(* The history, read by block and by class                                 *)
(***************************************************************************)

MadeOf(ms, kinds, block, name) ==
  FlattenSeq([n \in DOMAIN ms |->
    IF ms[n].kinds = kinds /\ ms[n].block = block /\ name \in ms[n].names
    THEN ms[n].bindings ELSE <<>>])

MadeFor(ms, class, name) ==
  FlattenSeq([n \in DOMAIN ms |->
    IF ms[n].kinds = {"class"} /\ ms[n].class = class /\ name \in ms[n].names
    THEN ms[n].bindings ELSE <<>>])

\* What was made is lists of bindings.
Lists(ms) == IsSequence(ms) /\ \A i \in 1..Len(ms) : IsSequence(ms[i].bindings)

\* What was made in a block, with one thing more,
LEMMA MadeMore ==
  ASSUME NEW ms, Lists(ms), NEW e, IsSequence(e.bindings), NEW kinds, NEW block, NEW name
  PROVE  /\ MadeOf(Append(ms, e), kinds, block, name) =
              MadeOf(ms, kinds, block, name)
                \o (IF e.kinds = kinds /\ e.block = block /\ name \in e.names
                    THEN e.bindings ELSE <<>>)
         /\ IsSequence(MadeOf(ms, kinds, block, name))
         /\ Lists(Append(ms, e))
<1> DEFINE one(m) == IF m.kinds = kinds /\ m.block = block /\ name \in m.names
                     THEN m.bindings ELSE <<>>
           a == Append(ms, e)
           m == Len(ms)
           p == [i \in 1..m + 1 |-> one(a[i])]
<1>1. m \in Nat /\ DOMAIN ms = 1..m
  BY SequenceFacts DEF Lists
<1>2. /\ IsSequence(a) /\ Len(a) = m + 1 /\ a[m + 1] = e /\ \A i \in 1..m : a[i] = ms[i]
  BY Appended DEF Lists
<1>3. DOMAIN a = 1..m + 1
  BY <1>2, SequenceFacts
<1>4. \A i \in 1..m + 1 : IsSequence(a[i].bindings)
  <2>1. \A i \in 1..m + 1 : i \in 1..m \/ i = m + 1
    BY <1>1
  <2> QED BY <1>2, <2>1 DEF Lists
<1>5. MadeOf(a, kinds, block, name) = FlattenSeq([i \in 1..m + 1 |-> one(a[i])])
      /\ MadeOf(ms, kinds, block, name) = FlattenSeq([i \in 1..m |-> one(ms[i])])
  BY <1>1, <1>3 DEF MadeOf
<1> HIDE DEF a, m
<1>6. \A i \in 1..m + 1 : IsSequence(one(a[i]))
  BY <1>4, Nothing
<1>7. p[m + 1] = one(e) /\ (\A i \in 1..m : p[i] = one(ms[i])) /\ \A i \in 1..m + 1 : p[i] = one(a[i])
  BY <1>1, <1>2
<1> HIDE DEF one
<1>8. [i \in 1..m + 1 |-> one(a[i])] = [i \in 1..m + 1 |-> p[i]]
      /\ [i \in 1..m |-> one(ms[i])] = [i \in 1..m |-> p[i]]
  BY <1>7
<1> HIDE DEF p
<1>9. Pieces(p, m + 1) = Pieces(p, m) \o p[m + 1] /\ IsSequence(Pieces(p, m))
  BY <1>1, <1>6, <1>7, OnePieceMore
<1>10. MadeOf(a, kinds, block, name) = MadeOf(ms, kinds, block, name) \o one(e)
       /\ IsSequence(MadeOf(ms, kinds, block, name))
  BY <1>5, <1>7, <1>8, <1>9 DEF Pieces
<1>11. Lists(a)
  BY <1>2, <1>4 DEF Lists
<1> QED BY <1>10, <1>11 DEF one, a

\* or in the classes of a name.
LEMMA MadeForMore ==
  ASSUME NEW ms, Lists(ms), NEW e, IsSequence(e.bindings), NEW class, NEW name
  PROVE  /\ MadeFor(Append(ms, e), class, name) =
              MadeFor(ms, class, name)
                \o (IF e.kinds = {"class"} /\ e.class = class /\ name \in e.names
                    THEN e.bindings ELSE <<>>)
         /\ IsSequence(MadeFor(ms, class, name))
<1> DEFINE one(m) == IF m.kinds = {"class"} /\ m.class = class /\ name \in m.names
                     THEN m.bindings ELSE <<>>
           a == Append(ms, e)
           m == Len(ms)
           p == [i \in 1..m + 1 |-> one(a[i])]
<1>1. m \in Nat /\ DOMAIN ms = 1..m
  BY SequenceFacts DEF Lists
<1>2. /\ IsSequence(a) /\ Len(a) = m + 1 /\ a[m + 1] = e /\ \A i \in 1..m : a[i] = ms[i]
  BY Appended DEF Lists
<1>3. DOMAIN a = 1..m + 1
  BY <1>2, SequenceFacts
<1>4. \A i \in 1..m + 1 : IsSequence(a[i].bindings)
  <2>1. \A i \in 1..m + 1 : i \in 1..m \/ i = m + 1
    BY <1>1
  <2> QED BY <1>2, <2>1 DEF Lists
<1>5. MadeFor(a, class, name) = FlattenSeq([i \in 1..m + 1 |-> one(a[i])])
      /\ MadeFor(ms, class, name) = FlattenSeq([i \in 1..m |-> one(ms[i])])
  BY <1>1, <1>3 DEF MadeFor
<1> HIDE DEF a, m
<1>6. \A i \in 1..m + 1 : IsSequence(one(a[i]))
  BY <1>4, Nothing
<1>7. p[m + 1] = one(e) /\ (\A i \in 1..m : p[i] = one(ms[i])) /\ \A i \in 1..m + 1 : p[i] = one(a[i])
  BY <1>1, <1>2
<1> HIDE DEF one
<1>8. [i \in 1..m + 1 |-> one(a[i])] = [i \in 1..m + 1 |-> p[i]]
      /\ [i \in 1..m |-> one(ms[i])] = [i \in 1..m |-> p[i]]
  BY <1>7
<1> HIDE DEF p
<1>9. Pieces(p, m + 1) = Pieces(p, m) \o p[m + 1] /\ IsSequence(Pieces(p, m))
  BY <1>1, <1>6, <1>7, OnePieceMore
<1>10. MadeFor(a, class, name) = MadeFor(ms, class, name) \o one(e)
       /\ IsSequence(MadeFor(ms, class, name))
  BY <1>5, <1>7, <1>8, <1>9 DEF Pieces
<1> QED BY <1>10 DEF one, a

\* A list without elements is the empty one.
LEMMA NothingIn ==
  ASSUME NEW s, IsSequence(s), \A x : ~Has(s, x)
  PROVE  s = <<>>
<1>1. Len(s) \in Nat /\ DOMAIN s = 1..Len(s) /\ (s = <<>> <=> Len(s) = 0)
  BY SequenceFacts
<1>2. \A i \in 1..Len(s) : Has(s, s[i])
  BY <1>1 DEF Has
<1> QED BY <1>1, <1>2

\* Nothing was made in a block that was never open.
LEMMA MadeNothing ==
  ASSUME NEW ms, Lists(ms), NEW kinds, NEW block, \A i \in 1..Len(ms) : ms[i].block # block,
         NEW name
  PROVE  MadeOf(ms, kinds, block, name) = <<>>
<1> DEFINE n == Len(ms)
           p == [i \in 1..n |-> IF ms[i].kinds = kinds /\ ms[i].block = block /\ name \in ms[i].names
                                THEN ms[i].bindings ELSE <<>>]
<1>1. n \in Nat /\ DOMAIN ms = 1..n
  BY SequenceFacts DEF Lists
<1>2. MadeOf(ms, kinds, block, name) = FlattenSeq(p)
  BY <1>1 DEF MadeOf
<1>3. p = [i \in 1..n |-> p[i]] /\ \A i \in 1..n : p[i] = <<>>
  OBVIOUS
<1> HIDE DEF p, n
<1>4. IsSequence(FlattenSeq(p)) /\ \A x : Has(FlattenSeq(p), x) <=> \E i \in 1..n : Has(p[i], x)
  BY <1>1, <1>3, Nothing, FlattenLists
<1> QED BY <1>2, <1>3, <1>4, Nothing, NothingIn

\* The same in other words.
LEMMA MadeInIs == \A kinds, block, name : MadeIn(kinds, block, name) = MadeOf(made, kinds, block, name)
BY DEF MadeIn, MadeOf

(***************************************************************************)
(* Lexical scoping                                                         *)
(***************************************************************************)

\* A history lists what was made in blocks the walk has come to.
Past(ms, f) == Lists(ms) /\ \A i \in 1..Len(ms) : Behind(ms[i].block, f)

\* A dict of bindings: no name is bound to nothing.
Filled(dict) == \A k \in DOMAIN dict : IsSequence(dict[k]) /\ dict[k] # <<>>

\* The scopes of the open blocks hold what was made in them.
Lexical(f, sc, ms) ==
  \A d \in 1..Len(f) : f[d].node.kind \in ScopeKinds =>
    \A name : Get(sc[Nesting(f, ScopeKinds, d)], name)
                = MadeOf(ms, ScopeKinds, PathIn(f, d), name)

Scoped ==
  /\ \A k \in 1..Len(scopes) : Filled(scopes[k])
  /\ Lexical(frames, scopes, made)

\* There is a scope for each open block.
LEMMA ScopesAre ==
  ASSUME Mirrored, Walk, frames # <<>>
  PROVE  /\ IsSequence(scopes) /\ Len(scopes) \in Nat \ {0} /\ DOMAIN scopes = 1..Len(scopes)
         /\ Len(scopes) = Nesting(frames, ScopeKinds, Len(frames))
         /\ \A d \in 1..Len(frames) : frames[d].node.kind \in ScopeKinds =>
              Nesting(frames, ScopeKinds, d) \in 1..Len(scopes)
<1>1. IsSequence(scopes) /\ Len(scopes) = Nesting(frames, ScopeKinds, Len(frames))
  BY ScopesHeight, NestingHeight DEF Mirrored, Walk
<1>2. Len(frames) \in Nat
  BY TakenType
<1>3. ASSUME NEW d \in 1..Len(frames), frames[d].node.kind \in ScopeKinds
      PROVE  Nesting(frames, ScopeKinds, d) \in 1..Len(scopes)
  <2>1. d \in Nat /\ d <= Len(frames) /\ 0 <= d /\ 0 < d
    BY <1>2
  <2>2. Nesting(frames, ScopeKinds, d) \in Nat
    BY <2>1, NestingType
  <2>3. Nesting(frames, ScopeKinds, d) <= Nesting(frames, ScopeKinds, Len(frames))
    BY <1>2, <2>1, NestingDeeper
  <2>4. Nesting(frames, ScopeKinds, 0) < Nesting(frames, ScopeKinds, d)
    BY <1>3, <2>1, NestingDeeper
  <2> QED BY <1>1, <2>2, <2>3, <2>4, NestingZero
<1>4. Len(scopes) \in Nat \ {0} /\ DOMAIN scopes = 1..Len(scopes)
  BY <1>1, SequenceFacts, Heights DEF Mirrored, Walk
<1> QED BY <1>1, <1>3, <1>4

\* The innermost of the open frames of some kinds.
LEMMA InnermostIs ==
  ASSUME Walk, NEW kinds
  PROVE  /\ Innermost(kinds) \in 0..Len(frames)
         /\ Innermost(kinds) = 0 => \A d \in 1..Len(frames) : frames[d].node.kind \notin kinds
         /\ Innermost(kinds) # 0 =>
              /\ frames[Innermost(kinds)].node.kind \in kinds
              /\ \A d \in 1..Len(frames) : frames[d].node.kind \in kinds => d <= Innermost(kinds)
         /\ Nesting(frames, kinds, Innermost(kinds)) = Nesting(frames, kinds, Len(frames))
<1> DEFINE open == {i \in DOMAIN frames : frames[i].node.kind \in kinds}
           n == Len(frames)
<1>1. n \in Nat /\ DOMAIN frames = 1..n
  BY SequenceFacts DEF Walk, Stack
<1>2. CASE open = {}
  <2>1. Innermost(kinds) = 0
    BY <1>2 DEF Innermost
  <2>2. \A d \in 1..n : frames[d].node.kind \notin kinds
    BY <1>1, <1>2
  <2>3. Nesting(frames, kinds, n) = 0
    <3>1. {i \in 1..n : frames[i].node.kind \in kinds} = {}
      BY <2>2
    <3> QED BY <3>1, FS_EmptySet DEF Nesting
  <2> QED BY <1>1, <2>1, <2>2, <2>3, NestingZero
<1>3. CASE open # {}
  <2> DEFINE o == CHOOSE i \in open : \A j \in open : j <= i
  <2>1. \E i \in open : \A j \in open : j <= i
    <3>1. open \subseteq 1..n
      BY <1>1
    <3> HIDE DEF open, n
    <3> QED BY <1>1, <1>3, <3>1, GreatestNumber
  <2>2. o \in open /\ \A j \in open : j <= o
    BY <2>1
  <2>3. Innermost(kinds) = o
    BY <1>3 DEF Innermost
  <2> HIDE DEF o
  <2>4. o \in 1..n /\ frames[o].node.kind \in kinds
        /\ \A d \in 1..n : frames[d].node.kind \in kinds => d <= o
    BY <1>1, <2>2
  <2>5. Nesting(frames, kinds, o) = Nesting(frames, kinds, n)
    <3>1. o \in Nat /\ o <= n /\ 0 \in Nat /\ 0 <= o /\ 0 < o
      BY <1>1, <2>4
    <3>2. /\ Nesting(frames, kinds, o) \in Nat /\ Nesting(frames, kinds, n) \in Nat
          /\ Nesting(frames, kinds, o) <= Nesting(frames, kinds, n)
          /\ Nesting(frames, kinds, 0) < Nesting(frames, kinds, o)
          /\ Nesting(frames, kinds, 0) = 0
      <4> HIDE DEF n
      <4> QED BY <1>1, <2>4, <3>1, NestingType, NestingDeeper, NestingZero
    <3>3. Nesting(frames, kinds, n) \in 1..Nesting(frames, kinds, n)
      BY <3>2
    <3>4. PICK d \in 1..n : frames[d].node.kind \in kinds
                            /\ Nesting(frames, kinds, d) = Nesting(frames, kinds, n)
      <4> HIDE DEF n
      <4> QED BY <1>1, <3>3, NestingReached
    <3>5. d \in Nat /\ d <= o
      BY <2>4, <3>4
    <3>6. Nesting(frames, kinds, d) <= Nesting(frames, kinds, o)
      BY <3>1, <3>5, NestingDeeper
    <3> QED BY <3>2, <3>4, <3>6
  <2>6. o # 0 /\ o \in 0..n
    BY <1>1, <2>4
  <2> QED BY <2>3, <2>4, <2>5, <2>6
<1> QED BY <1>2, <1>3

\* Joining nothing changes nothing; joining something makes something.
LEMMA JoinEmpty ==
  ASSUME NEW s, IsSequence(s)
  PROVE  /\ s \o <<>> = s /\ <<>> \o s = s
         /\ \A t : IsSequence(t) /\ (s # <<>> \/ t # <<>>) => s \o t # <<>>
<1>1. PICK S : s \in Seq(S)
  BY DEF IsSequence
<1>2. s \o <<>> = s /\ <<>> \o s = s
  BY <1>1
<1>3. ASSUME NEW t, IsSequence(t), s # <<>> \/ t # <<>> PROVE s \o t # <<>>
  <2>1. PICK x : Has(s, x) \/ Has(t, x)
    BY <1>3, NothingIn
  <2>2. Has(s \o t, x)
    BY <1>3, <2>1, HasJoin
  <2> QED BY <2>2, Nothing
<1> QED BY <1>2, <1>3

\* A dict of lists.
ListDict(dict) == \A k \in DOMAIN dict : IsSequence(dict[k])

\* What the names are bound to in an extended dict, and the other names.
LEMMA GetMore ==
  ASSUME NEW dict, ListDict(dict), NEW keys,
         NEW bs, IsSequence(bs), NEW e,
         e = Extended(dict, keys, bs), NEW name
  PROVE  /\ IsSequence(Get(dict, name))
         /\ name \in keys => Get(e, name) = Get(dict, name) \o bs
         /\ name \notin keys => Get(e, name) = Get(dict, name)
<1> DEFINE v(k) == Get(dict, k) \o (IF k \in keys THEN bs ELSE <<>>)
<1>1. IsSequence(Get(dict, name))
  BY Nothing DEF Get, ListDict
<1>2. DOMAIN e = DOMAIN dict \cup keys /\ \A k \in DOMAIN e : e[k] = v(k)
  BY DEF Extended
<1>3. name \in keys => v(name) = Get(dict, name) \o bs
  OBVIOUS
<1>4. name \notin keys => v(name) = Get(dict, name)
  <2>1. name \notin keys => v(name) = Get(dict, name) \o <<>>
    OBVIOUS
  <2>2. Get(dict, name) \o <<>> = Get(dict, name)
    BY <1>1, JoinEmpty
  <2> QED BY <2>1, <2>2
<1> HIDE DEF v
<1>5. name \in DOMAIN e => Get(e, name) = v(name)
  BY <1>2 DEF Get
<1>6. name \notin DOMAIN e => Get(e, name) = <<>> /\ Get(dict, name) = <<>> /\ name \notin keys
  BY <1>2 DEF Get
<1> QED BY <1>1, <1>2, <1>3, <1>4, <1>5, <1>6

\* A block that stays open keeps its scope.
LEMMA LexicalKept ==
  ASSUME Moves, NEW sc, NEW sc2, NEW ms, Lexical(frames, sc, ms),
         \A d \in 1..Len(frames) : d <= Len(frames') /\ frames[d].node.kind \in ScopeKinds =>
           sc2[Nesting(frames, ScopeKinds, d)] = sc[Nesting(frames, ScopeKinds, d)],
         NEW d \in 1..Len(frames'), d <= Len(frames), frames'[d].node.kind \in ScopeKinds, NEW name
  PROVE  Get(sc2[Nesting(frames', ScopeKinds, d)], name)
           = MadeOf(ms, ScopeKinds, PathIn(frames', d), name)
<1>1. Len(frames) \in Nat /\ Len(frames') \in Nat
  BY MovesBelow
<1>2. d \in 1..Len(frames) /\ d \in 0..Len(frames) /\ d <= Len(frames')
  BY <1>1
<1>3. "assign" \notin ScopeKinds /\ "assigned" \notin ScopeKinds
  BY DEF ScopeKinds
<1>4. frames[d].node.kind \in ScopeKinds
      /\ Nesting(frames', ScopeKinds, d) = Nesting(frames, ScopeKinds, d)
  BY <1>2, <1>3, FrameKept
<1>5. PathIn(frames', d) = PathIn(frames, d)
  BY <1>2, PathKept
<1>6. Get(sc[Nesting(frames, ScopeKinds, d)], name) = MadeOf(ms, ScopeKinds, PathIn(frames, d), name)
  BY <1>2, <1>4 DEF Lexical
<1>7. sc2[Nesting(frames, ScopeKinds, d)] = sc[Nesting(frames, ScopeKinds, d)]
  BY <1>2, <1>4
<1> QED BY <1>4, <1>5, <1>6, <1>7

\* The length of a path tells its frame.
LEMMA PathsDiffer ==
  ASSUME NEW f, NEW d \in Nat, NEW e \in Nat, d >= 1, e >= 1, d # e
  PROVE  PathIn(f, d) # PathIn(f, e)
<1>1. Len(PathIn(f, d)) = d - 1 /\ Len(PathIn(f, e)) = e - 1
  BY PathType
<1>2. d - 1 # e - 1
  OBVIOUS
<1> QED BY <1>1, <1>2

\* Names are bound in the innermost block, and in no other.
LEMMA ScopedBound ==
  ASSUME Mirrored, Walk, frames # <<>>, Past(made, frames), Scoped, NEW names,
         NEW bs, IsSequence(bs), bs # <<>>, scopes' = Bound(names, bs)
  PROVE  /\ \A k \in 1..Len(scopes') : Filled(scopes'[k])
         /\ Lexical(frames, scopes', Append(made, Made(ScopeKinds, names, bs)))
<1> DEFINE e == Made(ScopeKinds, names, bs)
           o == Innermost(ScopeKinds)
           l == Len(scopes)
           dict == scopes[l]
           more == Extended(dict, names, bs)
<1>1. /\ IsSequence(scopes) /\ l \in Nat \ {0} /\ l \in 1..l
      /\ l = Nesting(frames, ScopeKinds, Len(frames))
      /\ \A d \in 1..Len(frames) : frames[d].node.kind \in ScopeKinds =>
           Nesting(frames, ScopeKinds, d) \in 1..l
  BY ScopesAre
<1>2. scopes' = [scopes EXCEPT ![l] = more]
  BY DEF Bound
<1>3. Filled(dict)
  BY <1>1 DEF Scoped
<1>4. e.kinds = ScopeKinds /\ e.block = PathIn(frames, o) /\ e.names = names /\ e.bindings = bs
  BY PathIs DEF Made
<1>5. /\ o \in 0..Len(frames)
      /\ o = 0 => \A d \in 1..Len(frames) : frames[d].node.kind \notin ScopeKinds
      /\ o # 0 => /\ frames[o].node.kind \in ScopeKinds
                  /\ \A d \in 1..Len(frames) : frames[d].node.kind \in ScopeKinds => d <= o
      /\ Nesting(frames, ScopeKinds, o) = l
  BY <1>1, InnermostIs
<1>6. Len(frames) \in Nat \ {0}
  BY TopFacts DEF Walk
<1>7. o \in 1..Len(frames)
  <2>1. 1 \in 1..Len(frames) /\ frames[1].node.kind = "module"
    BY <1>6 DEF Walk
  <2>2. frames[1].node.kind \in ScopeKinds
    BY <2>1 DEF ScopeKinds
  <2> QED BY <1>5, <2>1, <2>2
<1> HIDE DEF o, e
<1>8. \A name : /\ IsSequence(Get(dict, name))
                /\ name \in names => Get(more, name) = Get(dict, name) \o bs
                /\ name \notin names => Get(more, name) = Get(dict, name)
  <2>1. more = Extended(dict, names, bs)
    OBVIOUS
  <2>2. ListDict(dict)
    BY <1>3 DEF Filled, ListDict
  <2> HIDE DEF more, dict
  <2> QED BY <2>1, <2>2, GetMore
<1>9. Filled(more)
  <2> SUFFICES ASSUME NEW k \in DOMAIN more PROVE IsSequence(more[k]) /\ more[k] # <<>>
    BY DEF Filled
  <2>1. k \in DOMAIN dict \cup names
    BY DEF Extended
  <2>2. Get(more, k) = more[k]
    BY DEF Get
  <2>3. CASE k \in names
    <3>1. more[k] = Get(dict, k) \o bs /\ IsSequence(Get(dict, k))
      BY <1>8, <2>2, <2>3
    <3> HIDE DEF more, dict
    <3> QED BY <3>1, JoinEmpty, Joined
  <2>4. CASE k \notin names
    <3>1. more[k] = Get(dict, k) /\ IsSequence(Get(dict, k))
      BY <1>8, <2>2, <2>4
    <3>2. Get(dict, k) # <<>>
      BY <1>3, <2>1, <2>4 DEF Filled, Get
    <3> QED BY <3>1, <3>2
  <2> QED BY <2>3, <2>4
<1> HIDE DEF more, dict, l
<1>10. /\ IsSequence(scopes') /\ Len(scopes') = l
       /\ \A k \in 1..l : scopes'[k] = IF k = l THEN more ELSE scopes[k]
  <2>1. l \in 1..Len(scopes) /\ IsSequence(scopes)
    BY <1>1 DEF l
  <2>2. /\ IsSequence(scopes') /\ Len(scopes') = Len(scopes) /\ scopes'[l] = more
        /\ \A k \in 1..Len(scopes) : k # l => scopes'[k] = scopes[k]
    <3>1. PICK S : scopes \in Seq(S)
      BY <2>1 DEF IsSequence
    <3>2. scopes \in Seq(S \cup {more}) /\ more \in S \cup {more}
      BY <3>1
    <3>3. /\ scopes' \in Seq(S \cup {more})
          /\ Len(scopes') = Len(scopes)
          /\ \A k \in 1..Len(scopes) : scopes'[k] = IF k = l THEN more ELSE scopes[k]
      BY <1>2, <2>1, <3>2, ExceptSeq
    <3>4. IsSequence(scopes')
      BY <3>3 DEF IsSequence
    <3> QED BY <2>1, <3>3, <3>4
  <2>3. Len(scopes) = l
    BY DEF l
  <2> QED BY <2>2, <2>3
<1>11. \A k \in 1..Len(scopes') : Filled(scopes'[k])
  BY <1>9, <1>10 DEF Scoped, l
<1>12. ASSUME NEW d \in 1..Len(frames), frames[d].node.kind \in ScopeKinds, NEW name
       PROVE  Get(scopes'[Nesting(frames, ScopeKinds, d)], name)
                = MadeOf(Append(made, e), ScopeKinds, PathIn(frames, d), name)
  <2> DEFINE p == PathIn(frames, d)
             before == MadeOf(made, ScopeKinds, p, name)
             k == Nesting(frames, ScopeKinds, d)
  <2>1. /\ MadeOf(Append(made, e), ScopeKinds, p, name) =
              before \o (IF e.kinds = ScopeKinds /\ e.block = p /\ name \in e.names
                         THEN e.bindings ELSE <<>>)
        /\ IsSequence(before)
    <3>1. Lists(made) /\ IsSequence(e.bindings)
      BY <1>4 DEF Past
    <3> QED BY <3>1, MadeMore
  <2>2. Get(scopes[k], name) = before
    BY <1>12 DEF Scoped, Lexical
  <2>3. k \in 1..l
    BY <1>1, <1>12
  <2>4. CASE d = o
    <3>1. e.block = p /\ k = l
      BY <1>4, <1>5, <2>4
    <3>2. MadeOf(Append(made, e), ScopeKinds, p, name) = IF name \in names THEN before \o bs ELSE before
      BY <1>4, <2>1, <3>1, JoinEmpty
    <3>3. scopes'[k] = more /\ scopes[k] = dict
      BY <1>10, <2>3, <3>1 DEF dict
    <3> QED BY <1>8, <2>2, <3>2, <3>3
  <2>5. CASE d # o
    <3>1. d \in Nat /\ o \in Nat /\ d < o /\ d <= o /\ d >= 1 /\ o >= 1
      BY <1>5, <1>6, <1>7, <1>12, <2>5
    <3>2. e.block # p
      BY <1>4, <2>5, <3>1, PathsDiffer
    <3>3. k < l
      BY <1>5, <1>7, <3>1, NestingDeeper
    <3> HIDE DEF k, p, before
    <3>4. scopes'[k] = scopes[k]
      BY <1>10, <2>3, <3>3
    <3>5. MadeOf(Append(made, e), ScopeKinds, p, name) = before \o <<>>
      BY <2>1, <3>2
    <3>6. before \o <<>> = before
      BY <2>1, JoinEmpty
    <3> QED BY <2>2, <3>4, <3>5, <3>6 DEF k, p
  <2> QED BY <2>4, <2>5
<1> QED BY <1>11, <1>12 DEF Lexical, e

\* Nothing is opened or closed.
LEMMA ScopedStays ==
  ASSUME Advances \/ Turning, NEW ms, Lexical(frames, scopes', ms)
  PROVE  Lexical(frames', scopes', ms)
<1>1. Moves /\ Len(frames') = Len(frames)
  BY DEF Moves, Advances, Turning
<1>2. Len(frames) \in Nat
  BY <1>1, MovesBelow
<1> SUFFICES ASSUME NEW d \in 1..Len(frames'), frames'[d].node.kind \in ScopeKinds, NEW name
             PROVE  Get(scopes'[Nesting(frames', ScopeKinds, d)], name)
                      = MadeOf(ms, ScopeKinds, PathIn(frames', d), name)
  BY DEF Lexical
<1>3. d <= Len(frames)
  BY <1>1, <1>2
<1> QED BY <1>1, <1>3, LexicalKept

\* A node is entered that is no block, or left.
LEMMA ScopedEntered ==
  ASSUME Enters, Node.kind \notin ScopeKinds, Scoped, scopes' = scopes, made' = made
  PROVE  Scoped'
<1>1. Moves /\ Len(frames') = Len(frames) + 1 /\ frames'[Len(frames) + 1].node = Node
  BY DEF Moves, Enters
<1>2. Len(frames) \in Nat
  BY <1>1, MovesBelow
<1>3. ASSUME NEW d \in 1..Len(frames'), frames'[d].node.kind \in ScopeKinds, NEW name
      PROVE  Get(scopes'[Nesting(frames', ScopeKinds, d)], name)
               = MadeOf(made', ScopeKinds, PathIn(frames', d), name)
  <2>1. d # Len(frames) + 1
    BY <1>1, <1>3
  <2>2. d <= Len(frames)
    BY <1>1, <1>2, <2>1
  <2> QED BY <1>1, <1>3, <2>2, LexicalKept DEF Scoped
<1> QED BY <1>3 DEF Scoped, Lexical

\* The dicts still hold what the history says when a block that made no scope is left, ...
LEMMA ScopedLeft ==
  ASSUME Leaving, Scoped, scopes' = scopes, made' = made
  PROVE  Scoped'
<1>1. Moves /\ Len(frames') = Len(frames) - 1
  BY DEF Moves, Leaving
<1>2. Len(frames) \in Nat
  BY <1>1, MovesBelow
<1>3. ASSUME NEW d \in 1..Len(frames'), frames'[d].node.kind \in ScopeKinds, NEW name
      PROVE  Get(scopes'[Nesting(frames', ScopeKinds, d)], name)
               = MadeOf(made', ScopeKinds, PathIn(frames', d), name)
  <2>1. d <= Len(frames)
    BY <1>1, <1>2
  <2> QED BY <1>1, <1>3, <2>1, LexicalKept DEF Scoped
<1> QED BY <1>3 DEF Scoped, Lexical

\* A block is entered: nothing was ever bound in it.
LEMMA ScopedBlockEntered ==
  ASSUME Mirrored, Walk, Walk', Past(made, frames), Enters, Node.kind \in ScopeKinds, Scoped,
         scopes' = Pushed, made' = made
  PROVE  Scoped'
<1> DEFINE n == Len(frames)
           l == Len(scopes)
<1>1. Moves /\ Len(frames') = n + 1 /\ frames'[n + 1].node = Node /\ frames # <<>>
  BY DEF Moves, Enters
<1>2. n \in Nat \ {0}
  BY <1>1, MovesBelow
<1>3. /\ IsSequence(scopes) /\ l \in Nat \ {0} /\ DOMAIN scopes = 1..l
      /\ l = Nesting(frames, ScopeKinds, n)
      /\ \A d \in 1..n : frames[d].node.kind \in ScopeKinds => Nesting(frames, ScopeKinds, d) \in 1..l
  BY <1>1, ScopesAre
<1> HIDE DEF n, l
<1>4. /\ IsSequence(scopes') /\ Len(scopes') = l + 1 /\ scopes'[l + 1] = <<>>
      /\ \A k \in 1..l : scopes'[k] = scopes[k]
  BY <1>3, Appended DEF Pushed, l
<1>5. \A k \in 1..Len(scopes') : Filled(scopes'[k])
  <2>1. Filled(<<>>)
    BY DEF Filled
  <2>2. \A k \in 1..l + 1 : k \in 1..l \/ k = l + 1
    BY <1>3
  <2> QED BY <1>4, <2>1, <2>2 DEF Scoped, l
<1>6. Nesting(frames', ScopeKinds, n + 1) = l + 1
  <2>1. Nesting(frames', ScopeKinds, n + 1) = Nesting(frames', ScopeKinds, n) + 1
    BY <1>1, <1>2, NestingStep
  <2>2. n \in 1..Len(frames) /\ n <= Len(frames') /\ "assign" \notin ScopeKinds /\ "assigned" \notin ScopeKinds
    BY <1>1, <1>2 DEF n, ScopeKinds
  <2>3. Nesting(frames', ScopeKinds, n) = Nesting(frames, ScopeKinds, n)
    BY <1>1, <2>2, FrameKept
  <2> QED BY <1>3, <2>1, <2>3
<1>7. ASSUME NEW d \in 1..Len(frames'), frames'[d].node.kind \in ScopeKinds, NEW name
      PROVE  Get(scopes'[Nesting(frames', ScopeKinds, d)], name)
               = MadeOf(made', ScopeKinds, PathIn(frames', d), name)
  <2>1. CASE d <= Len(frames)
    <3>1. \A c \in 1..Len(frames) : c <= Len(frames') /\ frames[c].node.kind \in ScopeKinds =>
            scopes'[Nesting(frames, ScopeKinds, c)] = scopes[Nesting(frames, ScopeKinds, c)]
      BY <1>3, <1>4 DEF n
    <3> QED BY <1>1, <1>7, <2>1, <3>1, LexicalKept DEF Scoped
  <2>2. CASE ~(d <= Len(frames))
    <3>1. d = n + 1
      BY <1>1, <1>2, <2>2 DEF n
    <3>2. PathIn(frames', n + 1) = Here /\ ~Behind(Here, frames)
      BY <1>1, HereFresh
    <3>3. \A i \in 1..Len(made) : made[i].block # Here
      BY <3>2 DEF Past
    <3>4. MadeOf(made', ScopeKinds, PathIn(frames', d), name) = <<>>
      BY <3>1, <3>2, <3>3, MadeNothing DEF Past
    <3>5. Get(<<>>, name) = <<>>
      BY DEF Get
    <3> QED BY <1>4, <1>6, <3>1, <3>4, <3>5
  <2> QED BY <2>1, <2>2
<1> QED BY <1>5, <1>7 DEF Scoped, Lexical

\* A block is left: the others keep their scopes.
LEMMA ScopedBlockLeft ==
  ASSUME Mirrored, Walk, Leaving, Top.node.kind \in Blocks, Scoped, scopes' = Popped, made' = made
  PROVE  Scoped'
<1> DEFINE n == Len(frames)
           l == Len(scopes)
<1>1. Moves /\ Len(frames') = n - 1 /\ frames # <<>>
  BY DEF Moves, Leaving
<1>2. n \in Nat \ {0} /\ Top = frames[n]
  BY <1>1, TopFacts DEF Walk
<1>3. /\ IsSequence(scopes) /\ l \in Nat \ {0}
      /\ l = Nesting(frames, ScopeKinds, n)
      /\ \A d \in 1..n : frames[d].node.kind \in ScopeKinds => Nesting(frames, ScopeKinds, d) \in 1..l
  BY <1>1, ScopesAre
<1>4. frames[n].node.kind \in ScopeKinds /\ frames[n].node.kind # "module" /\ n > 1
  <2>1. frames[n].node.kind \in ScopeKinds /\ frames[n].node.kind # "module"
    BY <1>2 DEF Blocks, ScopeKinds
  <2>2. frames[1].node.kind = "module"
    BY <1>2 DEF Walk
  <2> QED BY <1>2, <2>1, <2>2
<1>5. l > 1
  <2>1. 1 \in 1..n /\ frames[1].node.kind \in ScopeKinds
    BY <1>2 DEF Walk, ScopeKinds
  <2>2. Nesting(frames, ScopeKinds, 1) \in 1..l
    BY <1>3, <2>1
  <2>3. Nesting(frames, ScopeKinds, 1) < Nesting(frames, ScopeKinds, n)
    <3>1. 1 \in Nat /\ n \in Nat /\ 1 <= n /\ 1 < n
      BY <1>2, <1>4
    <3> QED BY <1>4, <3>1, NestingDeeper
  <2> QED BY <1>3, <2>2, <2>3
<1>6. scopes' = SubSeq(scopes, 1, l - 1) /\ scopes # <<>>
  BY <1>3, <1>5, SequenceFacts DEF Popped
<1>7. /\ IsSequence(scopes') /\ Len(scopes') = l - 1
      /\ \A k \in 1..l - 1 : scopes'[k] = scopes[k]
  BY <1>3, <1>6, Shortened
<1>8. \A k \in 1..Len(scopes') : Filled(scopes'[k])
  BY <1>3, <1>7 DEF Scoped
<1>9. \A c \in 1..Len(frames) : c <= Len(frames') /\ frames[c].node.kind \in ScopeKinds =>
        scopes'[Nesting(frames, ScopeKinds, c)] = scopes[Nesting(frames, ScopeKinds, c)]
  <2> SUFFICES ASSUME NEW c \in 1..n, c <= n - 1, frames[c].node.kind \in ScopeKinds
               PROVE  Nesting(frames, ScopeKinds, c) \in 1..l - 1
    BY <1>1, <1>7
  <2>1. Nesting(frames, ScopeKinds, c) \in 1..l
    BY <1>3
  <2>2. c \in Nat /\ c <= n /\ c < n /\ n \in Nat
    BY <1>2
  <2>3. Nesting(frames, ScopeKinds, c) < Nesting(frames, ScopeKinds, n)
    BY <1>4, <2>2, NestingDeeper
  <2> QED BY <1>3, <2>1, <2>3
<1>10. ASSUME NEW d \in 1..Len(frames'), frames'[d].node.kind \in ScopeKinds, NEW name
       PROVE  Get(scopes'[Nesting(frames', ScopeKinds, d)], name)
                = MadeOf(made', ScopeKinds, PathIn(frames', d), name)
  <2>1. d <= Len(frames)
    BY <1>1, <1>2
  <2> QED BY <1>1, <1>9, <1>10, <2>1, LexicalKept DEF Scoped
<1> QED BY <1>8, <1>10 DEF Scoped, Lexical

\* What is made is remembered with the block it was made in.
LEMMA PastMore ==
  ASSUME Walk, NEW ms, Past(ms, frames), NEW kinds, NEW names, NEW bs, IsSequence(bs)
  PROVE  Past(Append(ms, Made(kinds, names, bs)), frames)
<1> DEFINE e == Made(kinds, names, bs)
           m == Len(ms)
           a == Append(ms, e)
<1>1. e.block = PathIn(frames, Innermost(kinds)) /\ e.bindings = bs
  BY PathIs DEF Made
<1>2. Behind(e.block, frames)
  <2>1. Len(frames) \in Nat /\ \A i \in 1..Len(frames) - 1 : i \in 1..Len(frames)
    BY TakenType
  <2>2. \A i \in 1..Len(frames) - 1 : Taken(frames, i) \in Nat \ {0}
    <3>1. \A i \in 1..Len(frames) - 1 : Taken(frames, i) \in Nat /\ Taken(frames, i) >= 1
      BY <2>1, TakenType
    <3> QED BY <3>1
  <2>3. Innermost(kinds) \in 0..Len(frames)
    BY InnermostIs
  <2> QED BY <1>1, <2>1, <2>2, <2>3, OpenBehind
<1> HIDE DEF e
<1>3. /\ IsSequence(a) /\ Len(a) = m + 1 /\ m \in Nat /\ a[m + 1] = e
      /\ \A i \in 1..m : a[i] = ms[i]
  BY Appended, SequenceFacts DEF Past, Lists
<1> HIDE DEF a, m
<1>4. \A i \in 1..m + 1 : i \in 1..m \/ i = m + 1
  BY <1>3
<1>5. \A i \in 1..m : IsSequence(ms[i].bindings) /\ Behind(ms[i].block, frames)
  BY DEF Past, Lists, m
<1>6. Past(a, frames)
  BY <1>1, <1>2, <1>3, <1>4, <1>5 DEF Past, Lists
<1> QED BY <1>6 DEF a, e

\* What is remembered stays so.
LEMMA PastKept ==
  ASSUME Moves, NEW ms, Past(ms, frames)
  PROVE  Past(ms, frames')
BY BehindKept DEF Past

\* Names are bound in passing.
LEMMA ScopedNames ==
  ASSUME Mirrored, Walk, Past(made, frames), Scoped, Advances,
         NEW names, NEW bs, IsSequence(bs), bs # <<>>, BindNames(names, bs)
  PROVE  Past(made, frames)' /\ Scoped'
<1> DEFINE e == Made(ScopeKinds, names, bs)
<1>1. scopes' = Bound(names, bs) /\ made' = Append(made, e) /\ frames # <<>> /\ Moves
  BY DEF BindNames, Advances, Moves
<1>2. /\ \A k \in 1..Len(scopes') : Filled(scopes'[k])
      /\ Lexical(frames, scopes', made')
  BY <1>1, ScopedBound
<1>3. Past(made', frames')
  BY <1>1, PastMore, PastKept
<1>4. Lexical(frames', scopes', made')
  BY <1>2, ScopedStays
<1> QED BY <1>2, <1>3, <1>4 DEF Scoped, Lexical, Past

\* An import binds one name to one thing, a star import none.
LEMMA ScopedImport ==
  ASSUME Mirrored, Walk, Past(made, frames), Scoped, VisitImport \/ VisitImportFrom
  PROVE  Past(made, frames)' /\ Scoped'
<1>1. Advances
  BY AdvanceMove DEF VisitImport, VisitImportFrom, Meets
<1>2. \A b : IsSequence(<<b>>) /\ <<b>> # <<>>
  BY One, Nothing
<1>3. CASE \E names, b : BindNames(names, <<b>>)
  BY <1>1, <1>2, <1>3, ScopedNames
<1>4. CASE UNCHANGED <<scopes, made>>
  <2>1. Past(made', frames')
    BY <1>1, <1>4, PastKept DEF Moves
  <2>2. Lexical(frames', scopes', made')
    BY <1>1, <1>4, ScopedStays DEF Scoped
  <2> QED BY <1>4, <2>1, <2>2 DEF Scoped, Lexical, Past
<1>5. CASE VisitImport
  <2>1. \E names, b : BindNames(names, <<b>>)
    BY <1>5 DEF VisitImport
  <2> QED BY <1>3, <2>1
<1>6. CASE VisitImportFrom
  <2>1. (\E names, b : BindNames(names, <<b>>)) \/ UNCHANGED <<scopes, made>>
    BY <1>6 DEF VisitImportFrom
  <2> QED BY <1>3, <1>4, <2>1
<1> QED BY <1>5, <1>6

\* A value is bound to something, if only to what says nothing.
LEMMA CarriedSome ==
  ASSUME NEW bs, IsSequence(bs), NEW kind
  PROVE  IsSequence(Carried(bs, kind)) /\ Carried(bs, kind) # <<>>
<1> DEFINE one(i) == [bs[i] EXCEPT !.kind = IF @ = "instance" THEN @ ELSE kind]
           n == Len(bs)
           e == [i \in 1..n |-> one(i)]
<1>1. CASE bs = <<>>
  <2>1. Carried(bs, kind) = <<Opaque>>
    BY <1>1 DEF Carried
  <2> QED BY <2>1, One, Nothing
<1>2. CASE bs # <<>>
  <2>1. n \in Nat \ {0} /\ DOMAIN bs = 1..n
    BY <1>2, SequenceFacts
  <2>2. Carried(bs, kind) = e
    BY <1>2, <2>1 DEF Carried
  <2>3. e = [i \in 1..n |-> e[i]]
    OBVIOUS
  <2> HIDE DEF e, n
  <2>4. IsSequence(e) /\ Len(e) = n
    BY <2>1, <2>3, Listed
  <2> QED BY <2>1, <2>2, <2>4, SequenceFacts
<1> QED BY <1>1, <1>2

\* Two things more, one after the other.
LEMMA TwoMore ==
  ASSUME NEW s, IsSequence(s), NEW a, NEW b
  PROVE  s \o <<a, b>> = Append(Append(s, a), b)
<1>1. PICK S : s \in Seq(S)
  BY DEF IsSequence
<1>2. s \in Seq(S \cup {a, b}) /\ a \in S \cup {a, b} /\ b \in S \cup {a, b}
  BY <1>1
<1> QED BY <1>2

\* An assignment makes one thing of its names, and one of its attributes of self.
LEMMA AssignMakes ==
  ASSUME Mirrored, Walk, Holds, LeaveAssign
  PROVE  \E names, attributes, toNames, toSelf :
           /\ IsSequence(toNames) /\ toNames # <<>> /\ IsSequence(toSelf)
           /\ scopes' = Bound(names, toNames)
           /\ classAttributes' = AttributesBound(attributes, toSelf)
           /\ made' = Append(Append(made, Made(ScopeKinds, names, toNames)),
                             Made({"class"}, attributes, toSelf))
<1> DEFINE targets    == Top.node.targets
           names      == {targets[i].name : i \in {j \in DOMAIN targets : targets[j].kind = "name"}}
           attributes == {targets[i].name : i \in {j \in DOMAIN targets : targets[j].kind = "self"}}
           found      == ValueBindings(Top.node.value)
           toNames    == Carried(found, "assignment")
           toSelf     == Carried(found, "class_attribute")
<1>1. /\ scopes' = Bound(names, toNames)
      /\ classAttributes' = AttributesBound(attributes, toSelf)
      /\ made' = made \o <<Made(ScopeKinds, names, toNames), Made({"class"}, attributes, toSelf)>>
  BY DEF LeaveAssign
<1>2. Top.node.value \in Nodes
  <2>1. frames # <<>> /\ Top.node.kind = "assign"
    BY DEF LeaveAssign, Leaves
  <2>2. GoodNode(Top.node)
    BY <2>1, TopFacts DEF Walk, GoodFrame
  <2> QED BY <2>1, <2>2, NodeFacts DEF GoodNode
<1>3. IsSequence(found)
  BY <1>2, ValueGood DEF Holds, SoundList
<1> HIDE DEF found
<1>4. IsSequence(toNames) /\ toNames # <<>> /\ IsSequence(toSelf)
  BY <1>3, CarriedSome
<1> HIDE DEF names, attributes, toNames, toSelf
<1>5. made' = Append(Append(made, Made(ScopeKinds, names, toNames)),
                     Made({"class"}, attributes, toSelf))
  BY <1>1, TwoMore DEF Holds, Stored
<1> QED BY <1>1, <1>4, <1>5

\* ... and when an assignment binds its targets.
LEMMA ScopedAssign ==
  ASSUME Mirrored, Walk, Holds, Past(made, frames), Scoped, LeaveAssign
  PROVE  Past(made, frames)' /\ Scoped'
<1>1. Turning /\ Moves /\ frames # <<>>
  BY TurnMove DEF LeaveAssign, Leaves, Moves
<1>2. PICK names, attributes, toNames, toSelf :
           /\ IsSequence(toNames) /\ toNames # <<>> /\ IsSequence(toSelf)
           /\ scopes' = Bound(names, toNames)
           /\ classAttributes' = AttributesBound(attributes, toSelf)
           /\ made' = Append(Append(made, Made(ScopeKinds, names, toNames)),
                             Made({"class"}, attributes, toSelf))
  BY AssignMakes
<1> DEFINE a == Made(ScopeKinds, names, toNames)
           b == Made({"class"}, attributes, toSelf)
           some == Append(made, a)
<1>3. /\ \A k \in 1..Len(scopes') : Filled(scopes'[k])
      /\ Lexical(frames, scopes', some)
  BY <1>1, <1>2, ScopedBound
<1>4. Past(some, frames)
  BY <1>2, PastMore
<1>5. b.kinds = {"class"} /\ b.bindings = toSelf
  BY DEF Made
<1>6. {"class"} # ScopeKinds
  BY DEF ScopeKinds
<1> HIDE DEF some, a
<1>7. Past(made', frames')
  BY <1>1, <1>2, <1>4, PastMore, PastKept DEF some, a
<1>8. \A block, name : MadeOf(Append(some, b), ScopeKinds, block, name)
                         = MadeOf(some, ScopeKinds, block, name)
  <2> SUFFICES ASSUME NEW block, NEW name
               PROVE  MadeOf(Append(some, b), ScopeKinds, block, name)
                         = MadeOf(some, ScopeKinds, block, name)
    OBVIOUS
  <2> DEFINE before == MadeOf(some, ScopeKinds, block, name)
  <2> HIDE DEF b
  <2>1. Lists(some) /\ IsSequence(b.bindings) /\ b.kinds # ScopeKinds
    BY <1>2, <1>4, <1>5, <1>6 DEF Past
  <2>2. /\ MadeOf(Append(some, b), ScopeKinds, block, name)
             = before \o (IF b.kinds = ScopeKinds /\ b.block = block /\ name \in b.names
                          THEN b.bindings ELSE <<>>)
        /\ IsSequence(before)
    BY <2>1, MadeMore
  <2> HIDE DEF before
  <2>3. before \o <<>> = before
    BY <2>2, JoinEmpty
  <2> QED BY <2>1, <2>2, <2>3 DEF before
<1> HIDE DEF b
<1>9. Lexical(frames, scopes', made')
  BY <1>2, <1>3, <1>8 DEF Lexical, some, a, b
<1>10. Lexical(frames', scopes', made')
  BY <1>1, <1>9, ScopedStays
<1> QED BY <1>3, <1>7, <1>10 DEF Scoped, Lexical, Past

\* Before the walk nothing is bound.
LEMMA ScopedInit == Init => Past(made, frames) /\ Scoped
<1> SUFFICES ASSUME Init PROVE Past(made, frames) /\ Scoped
  OBVIOUS
<1>1. PICK body \in Module :
        frames = <<Frame([kind |-> "module", body |-> body], "import")>>
  BY DEF Init
<1>2. made = <<>> /\ scopes = <<<<>>>> /\ Len(frames) = 1
  BY <1>1 DEF Init, InitTable
<1>3. Lists(made) /\ Len(made) = 0
  BY <1>2, Nothing DEF Lists
<1>4. Len(scopes) = 1 /\ scopes[1] = <<>>
  BY <1>2
<1>5. Filled(<<>>)
  BY DEF Filled
<1>6. ASSUME NEW d \in 1..Len(frames), frames[d].node.kind \in ScopeKinds, NEW name
      PROVE  Get(scopes[Nesting(frames, ScopeKinds, d)], name)
               = MadeOf(made, ScopeKinds, PathIn(frames, d), name)
  <2>1. d = 1 /\ 0 + 1 = 1 /\ 0 \in Nat
    BY <1>2
  <2>5. Nesting(frames, ScopeKinds, 0 + 1)
          = Nesting(frames, ScopeKinds, 0) + (IF frames[0 + 1].node.kind \in ScopeKinds THEN 1 ELSE 0)
    BY <2>1, NestingStep
  <2>2. Nesting(frames, ScopeKinds, d) = 1
    BY <1>6, <2>1, <2>5, NestingZero
  <2>3. MadeOf(made, ScopeKinds, PathIn(frames, d), name) = <<>>
    BY <1>3, MadeNothing
  <2>4. Get(<<>>, name) = <<>>
    BY DEF Get
  <2> QED BY <1>4, <2>2, <2>3, <2>4
<1>7. \A k \in 1..Len(scopes) : Filled(scopes[k])
  BY <1>4, <1>5
<1> QED BY <1>3, <1>6, <1>7 DEF Past, Scoped, Lexical

\* The scopes of the open blocks hold what was made in them.
LEMMA ScopedNext ==
  ASSUME Mirrored, Walk, Walk', Holds, Past(made, frames), Scoped, [Next]_vars
  PROVE  Past(made, frames)' /\ Scoped'
<1>1. CASE VisitImport \/ VisitImportFrom
  BY <1>1, ScopedImport
<1>2. CASE LeaveAssign
  BY <1>2, ScopedAssign
<1>3. CASE VisitFunctionDef \/ VisitClassDef
  <2>1. Enters /\ Node.kind \in ScopeKinds /\ scopes' = Pushed /\ made' = made
    BY <1>3, EnterMove DEF VisitFunctionDef, VisitClassDef, Meets, ScopeKinds
  <2>2. Past(made, frames')
    BY <2>1, PastKept DEF Moves
  <2> QED BY <2>1, <2>2, ScopedBlockEntered DEF Past
<1>4. CASE LeaveFunctionDef \/ LeaveClassDef
  <2>1. Leaving /\ Top.node.kind \in Blocks /\ scopes' = Popped /\ made' = made
    BY <1>4, LeaveMove DEF LeaveFunctionDef, LeaveClassDef, Leaves, Blocks
  <2>2. Past(made, frames')
    BY <2>1, PastKept DEF Moves
  <2> QED BY <2>1, <2>2, ScopedBlockLeft DEF Past
<1>5. CASE VisitTry \/ VisitCall \/ VisitOther
  <2>1. Enters /\ Node.kind \notin ScopeKinds /\ scopes' = scopes /\ made' = made
    BY <1>5, EnterMove DEF VisitTry, VisitCall, VisitOther, Meets, ScopeKinds, table
  <2>2. Past(made, frames')
    BY <2>1, PastKept DEF Moves
  <2> QED BY <2>1, <2>2, ScopedEntered DEF Past
<1>6. CASE LeaveTry \/ LeaveCall \/ LeaveOther \/ LeaveAssigned
  <2>1. Leaving /\ scopes' = scopes /\ made' = made
    BY <1>6, LeaveMove DEF LeaveTry, LeaveCall, LeaveOther, LeaveAssigned, Leaves, table
  <2>2. Past(made, frames')
    BY <2>1, PastKept DEF Moves
  <2> QED BY <2>1, <2>2, ScopedLeft DEF Past
<1>7. CASE UNCHANGED vars
  <2>1. frames' = frames /\ made' = made /\ scopes' = scopes
    BY <1>7 DEF vars, table
  <2>2. /\ \A p : Behind(p, frames') <=> Behind(p, frames)
        /\ \A d : Nesting(frames', ScopeKinds, d) = Nesting(frames, ScopeKinds, d)
        /\ \A d : PathIn(frames', d) = PathIn(frames, d)
    BY <2>1, Zenon
  <2> QED BY <2>1, <2>2 DEF Past, Scoped, Lexical
<1> QED BY <1>1, <1>2, <1>3, <1>4, <1>5, <1>6, <1>7 DEF Next

\* So a name is looked up in the innermost open block that has bound it.
LEMMA LookupIs ==
  ASSUME Mirrored, Walk, frames # <<>>, Scoped, NEW name
  PROVE  LET holders == {i \in DOMAIN frames : frames[i].node.kind \in ScopeKinds
                                               /\ MadeOf(made, ScopeKinds, PathIn(frames, i), name) # <<>>}
             holder == CHOOSE i \in holders : \A j \in holders : j <= i
         IN Lookup(name) = IF holders = {} THEN <<>>
                           ELSE MadeOf(made, ScopeKinds, PathIn(frames, holder), name)
<1> DEFINE Of(i) == MadeOf(made, ScopeKinds, PathIn(frames, i), name)
           At(i) == Nesting(frames, ScopeKinds, i)
           n == Len(frames)
           l == Len(scopes)
           H == {i \in DOMAIN frames : frames[i].node.kind \in ScopeKinds /\ Of(i) # <<>>}
           K == {k \in DOMAIN scopes : name \in DOMAIN scopes[k]}
           h == CHOOSE i \in H : \A j \in H : j <= i
           k == CHOOSE i \in K : \A j \in K : j <= i
<1>1. /\ l \in Nat \ {0} /\ DOMAIN scopes = 1..l /\ l = At(n)
      /\ \A d \in 1..n : frames[d].node.kind \in ScopeKinds => At(d) \in 1..l
  BY ScopesAre
<1>2. n \in Nat /\ DOMAIN frames = 1..n
  BY SequenceFacts DEF Walk, Stack
<1>3. \A i \in 1..l : /\ name \in DOMAIN scopes[i] <=> Get(scopes[i], name) # <<>>
                      /\ name \in DOMAIN scopes[i] => scopes[i][name] = Get(scopes[i], name)
  BY DEF Get, Scoped, Filled
<1>4. \A i \in 1..n : frames[i].node.kind \in ScopeKinds => Get(scopes[At(i)], name) = Of(i)
  BY DEF Scoped, Lexical
<1>5. \A i \in 1..n : i \in H <=> frames[i].node.kind \in ScopeKinds /\ Of(i) # <<>>
  BY <1>2
<1>6. \A i \in H : i \in 1..n /\ i \in Nat
  BY <1>2
<1>7. \A i \in 1..l : i \in K <=> name \in DOMAIN scopes[i]
  BY <1>1
<1>8. \A i \in K : i \in 1..l
  BY <1>1
<1>9. Lookup(name) = IF K = {} THEN <<>> ELSE scopes[k][name]
  BY DEF Lookup
<1>10. \A i \in 1..n, j \in 1..n : i <= j => At(i) <= At(j)
  BY <1>2, NestingDeeper
<1>11. \A i \in 1..l : \E d \in 1..n : frames[d].node.kind \in ScopeKinds /\ At(d) = i
  <2> SUFFICES ASSUME NEW i \in 1..l
               PROVE  \E d \in 1..n : frames[d].node.kind \in ScopeKinds /\ At(d) = i
    OBVIOUS
  <2>1. i \in 1..At(n)
    BY <1>1
  <2> HIDE DEF n
  <2> QED BY <1>2, <2>1, NestingReached
<1>12. (\E i \in H : \A j \in H : j <= i) \/ H = {}
  <2>1. H \subseteq 1..n
    BY <1>2
  <2> HIDE DEF H, n
  <2> QED BY <1>2, <2>1, GreatestNumber
<1>13. (\E i \in K : \A j \in K : j <= i) \/ K = {}
  <2>1. K \subseteq 1..l /\ l \in Nat
    BY <1>1
  <2> HIDE DEF K, l
  <2> QED BY <2>1, GreatestNumber
<1>14. H # {} => h \in H /\ \A j \in H : j <= h
  BY <1>12
<1>15. K # {} => k \in K /\ \A j \in K : j <= k
  BY <1>13
<1>16. /\ H = {} => Lookup(name) = <<>>
       /\ H # {} => Lookup(name) = Of(h)
  <2> HIDE DEF H, K, h, k, Of, At, n, l
  <2>1. ASSUME NEW i \in H PROVE At(i) \in K
    <3>1. i \in 1..n /\ frames[i].node.kind \in ScopeKinds /\ Of(i) # <<>>
      BY <1>5, <1>6
    <3> QED BY <1>1, <1>3, <1>4, <1>7, <3>1
  <2>2. ASSUME NEW i \in K PROVE \E d \in H : At(d) = i
    <3>1. i \in 1..l /\ Get(scopes[i], name) # <<>>
      BY <1>3, <1>7, <1>8
    <3>2. PICK d \in 1..n : frames[d].node.kind \in ScopeKinds /\ At(d) = i
      BY <1>11, <3>1
    <3>3. Of(d) # <<>>
      BY <1>4, <3>1, <3>2
    <3> QED BY <1>5, <3>2, <3>3
  <2>3. CASE H = {}
    <3>1. K = {}
      BY <2>2, <2>3
    <3> QED BY <1>9, <2>3, <3>1
  <2>4. CASE H # {}
    <3>1. h \in H /\ h \in 1..n /\ frames[h].node.kind \in ScopeKinds /\ At(h) \in K
      BY <1>5, <1>6, <1>14, <2>1, <2>4
    <3>2. k \in K /\ k \in 1..l /\ At(h) <= k
      BY <1>8, <1>15, <3>1
    <3>3. PICK i \in H : At(i) = k
      BY <2>2, <3>2
    <3>4. i \in 1..n /\ i <= h
      BY <1>6, <1>14, <2>4, <3>3
    <3>5. k <= At(h)
      BY <1>10, <3>1, <3>3, <3>4
    <3>6. At(h) \in 1..l
      BY <1>1, <3>1
    <3>7. k = At(h)
      BY <1>1, <3>2, <3>5, <3>6
    <3>8. scopes[k][name] = Of(h)
      BY <1>3, <1>4, <1>7, <3>1, <3>2, <3>7
    <3>9. K # {}
      BY <3>2
    <3> QED BY <1>9, <2>4, <3>8, <3>9
  <2> QED BY <2>3, <2>4
<1> QED BY <1>16

\* The table implements lexical scoping.
LEMMA LookupLexical == Mirrored /\ Walk /\ Scoped => LookupIsLexical
<1> SUFFICES ASSUME Mirrored, Walk, Scoped PROVE LookupIsLexical
  OBVIOUS
<1>1. ASSUME NEW name, frames # <<>>
      PROVE  LET holders == {i \in DOMAIN frames : frames[i].node.kind \in ScopeKinds
                                          /\ MadeIn(ScopeKinds, PathOf(i), name) # <<>>}
                 holder == CHOOSE i \in holders : \A j \in holders : j <= i
             IN Lookup(name) = IF holders = {} THEN <<>>
                               ELSE MadeIn(ScopeKinds, PathOf(holder), name)
  <2>1. \A i : MadeIn(ScopeKinds, PathOf(i), name) = MadeOf(made, ScopeKinds, PathIn(frames, i), name)
    BY MadeInIs, PathIs
  <2> QED BY <1>1, <2>1, LookupIs, Zenon
<1> HIDE DEF Lookup, MadeIn
<1> QED BY <1>1 DEF LookupIsLexical

\* What the table is, at every step.
Tabled == Grounded /\ Past(made, frames) /\ Scoped

\* Every step keeps the table and its history together.
LEMMA TabledNext == Tabled /\ [Next]_vars => Tabled'
<1> SUFFICES ASSUME Tabled, [Next]_vars PROVE Tabled'
  OBVIOUS
<1>1. Grounded'
  BY GroundedNext DEF Tabled
<1>2. Past(made, frames)' /\ Scoped'
  BY <1>1, ScopedNext DEF Tabled, Grounded
<1> QED BY <1>1, <1>2 DEF Tabled

\* The stack of dicts implements lexical scoping: a name means what the innermost
\* open block that has bound it so far has bound it to, and nothing that was
\* bound in a block since closed (symbol_table.py, lookup), whatever the file
\* nests in what.
THEOREM TableIsLexical == Spec => []LookupIsLexical
<1>1. Init => Tabled
  BY GroundedInit, ScopedInit DEF Tabled
<1>2. Tabled /\ [Next]_vars => Tabled'
  BY TabledNext
<1>3. Tabled => LookupIsLexical
  BY LookupLexical DEF Tabled, Grounded
<1> QED BY <1>1, <1>2, <1>3, PTL DEF Spec

(***************************************************************************)
(* The classes: a stack of their names, and the attributes by name         *)
(***************************************************************************)

\* A frame that was not there before is that of the node entered.
LEMMA NewFrame ==
  ASSUME Moves, NEW d \in 1..Len(frames'), ~(d <= Len(frames))
  PROVE  Enters /\ d = Len(frames) + 1 /\ Len(frames') = Len(frames) + 1 /\ frames'[d].node = Node
<1>1. Len(frames) \in Nat \ {0} /\ Len(frames') \in Nat /\ d \in Nat
  BY MovesBelow
<1>2. Len(frames') > Len(frames)
  BY <1>1
<1>3. Enters
  BY <1>1, <1>2 DEF Moves, Advances, Leaving, Turning
<1> QED BY <1>1, <1>3 DEF Enters

\* A stack that has one thing for each frame of some kinds: what is there for a
\* frame stays,
LEMMA StackKept ==
  ASSUME Walk, Moves, NEW kinds, "assign" \notin kinds, "assigned" \notin kinds,
         NEW s, IsSequence(s), Len(s) = Nesting(frames, kinds, Len(frames)),
         NEW t, \/ t = s
                \/ \E v : t = Append(s, v)
                \/ Leaving /\ Top.node.kind \in kinds /\ t = SubSeq(s, 1, Len(s) - 1),
         NEW d \in 1..Len(frames'), d <= Len(frames), frames'[d].node.kind \in kinds
  PROVE  /\ frames[d].node.kind \in kinds /\ frames'[d].node = frames[d].node
         /\ PathIn(frames', d) = PathIn(frames, d)
         /\ t[Nesting(frames', kinds, d)] = s[Nesting(frames, kinds, d)]
<1> DEFINE k == Nesting(frames, kinds, d)
           n == Len(frames)
<1>1. n \in Nat \ {0} /\ Len(frames') \in Nat /\ d \in 1..n /\ d \in 0..n /\ d <= Len(frames')
  BY MovesBelow
<1>2. /\ frames[d].node.kind \in kinds /\ frames'[d].node = frames[d].node
      /\ Nesting(frames', kinds, d) = k /\ PathIn(frames', d) = PathIn(frames, d)
  BY <1>1, FrameKept, PathKept
<1>3. k \in 1..Len(s)
  <2>1. d \in Nat /\ n \in Nat /\ d <= n /\ 0 <= d /\ 0 < d /\ 0 \in Nat
    BY <1>1
  <2>2. k \in Nat /\ Len(s) \in Nat
    BY <2>1, NestingType
  <2>3. k <= Len(s) /\ Nesting(frames, kinds, 0) < k
    BY <1>2, <2>1, NestingDeeper
  <2> QED BY <2>2, <2>3, NestingZero
<1> HIDE DEF k
<1>4. t[k] = s[k]
  <2>1. CASE \E v : t = Append(s, v)
    BY <1>3, <2>1, Appended
  <2>2. CASE Leaving /\ Top.node.kind \in kinds /\ t = SubSeq(s, 1, Len(s) - 1)
    <3>1. Len(frames') = n - 1 /\ Top = frames[n]
      BY <1>1, <2>2 DEF Leaving, Top
    <3>2. d \in Nat /\ n \in Nat /\ d <= n /\ d < n /\ frames[n].node.kind \in kinds
      BY <1>1, <2>2, <3>1
    <3>3. k < Len(s)
      BY <3>2, NestingDeeper DEF k
    <3>4. k \in 1..Len(s) - 1 /\ s # <<>>
      BY <1>3, <3>3, SequenceFacts
    <3> QED BY <2>2, <3>4, Shortened
  <2> QED BY <2>1, <2>2
<1> QED BY <1>2, <1>4 DEF k

\* and a frame that is entered is one deeper.
LEMMA NestingEntered ==
  ASSUME Walk, Enters, NEW kinds, "assign" \notin kinds, "assigned" \notin kinds,
         Node.kind \in kinds
  PROVE  Nesting(frames', kinds, Len(frames')) = Nesting(frames, kinds, Len(frames)) + 1
<1> DEFINE n == Len(frames)
<1>1. n \in Nat \ {0} /\ frames'[n + 1].node = Node /\ Len(frames') = n + 1 /\ Moves
  BY MovesBelow DEF Moves, Enters
<1>2. Nesting(frames', kinds, n + 1) = Nesting(frames', kinds, n) + 1
  BY <1>1, NestingStep
<1>3. Nesting(frames', kinds, n) = Nesting(frames, kinds, n)
  <2>1. n \in 1..n /\ n <= Len(frames')
    BY <1>1
  <2> QED BY <1>1, <2>1, FrameKept
<1> QED BY <1>1, <1>2, <1>3

\* The classes by their names,
ClassNames(f, cs) ==
  \A d \in 1..Len(f) : f[d].node.kind = "class" => cs[Nesting(f, {"class"}, d)] = f[d].node.name

\* what was made in one, told by its name too,
ClassBlocks(f, ms) ==
  \A i \in 1..Len(ms) : ms[i].kinds = {"class"} =>
    \A d \in 1..Len(f) :
      f[d].node.kind = "class" /\ PathIn(f, d) = ms[i].block => ms[i].class = f[d].node.name

\* and held by it.
Attributes(ca, ms) ==
  \A c, name : c # None => Get(Get(ca, c), name) = MadeFor(ms, c, name)

Classed ==
  /\ ClassNames(frames, classStack)
  /\ ClassBlocks(frames, made)
  /\ Attributes(classAttributes, made)

\* There is a name for each open class.
LEMMA ClassesAre ==
  ASSUME Mirrored, Walk
  PROVE  /\ IsSequence(classStack)
         /\ Len(classStack) = Nesting(frames, {"class"}, Len(frames))
         /\ Len(classStack) = Nesting(frames, {"class"}, Innermost({"class"}))
         /\ classStack = <<>> <=> Innermost({"class"}) = 0
<1> DEFINE o == Innermost({"class"})
<1>1. IsSequence(classStack) /\ Len(classStack) = Nesting(frames, {"class"}, Len(frames))
  BY NestingHeight DEF Mirrored, Walk
<1>2. /\ o \in 0..Len(frames)
      /\ o # 0 => frames[o].node.kind \in {"class"}
      /\ Nesting(frames, {"class"}, o) = Nesting(frames, {"class"}, Len(frames))
  BY InnermostIs
<1>3. Len(frames) \in Nat
  BY TakenType
<1> HIDE DEF o
<1>4. ASSUME o # 0 PROVE Nesting(frames, {"class"}, o) # 0
  <2>1. o \in Nat /\ 0 \in Nat /\ 0 <= o /\ 0 < o
    BY <1>2, <1>3, <1>4
  <2>2. Nesting(frames, {"class"}, 0) < Nesting(frames, {"class"}, o)
    BY <1>2, <1>4, <2>1, NestingDeeper
  <2> QED BY <2>2, NestingZero
<1>5. o = 0 => Nesting(frames, {"class"}, o) = 0
  BY NestingZero
<1> QED BY <1>1, <1>2, <1>4, <1>5, SequenceFacts DEF o

\* The stack of names follows the classes.
LEMMA ClassNamesNext ==
  ASSUME Mirrored, Walk, Moves, ClassNames(frames, classStack),
         \/ classStack' = classStack /\ ~(Enters /\ Node.kind = "class")
         \/ Enters /\ Node.kind = "class" /\ classStack' = Append(classStack, Node.name)
         \/ Leaving /\ Top.node.kind = "class" /\ classStack' = ClassExited
  PROVE  ClassNames(frames', classStack')
<1> SUFFICES ASSUME NEW d \in 1..Len(frames'), frames'[d].node.kind = "class"
             PROVE  classStack'[Nesting(frames', {"class"}, d)] = frames'[d].node.name
  BY DEF ClassNames
<1>1. "assign" \notin {"class"} /\ "assigned" \notin {"class"}
  OBVIOUS
<1>2. IsSequence(classStack) /\ Len(classStack) = Nesting(frames, {"class"}, Len(frames))
  BY ClassesAre
<1>3. CASE d <= Len(frames)
  <2>1. \/ classStack' = classStack
        \/ \E v : classStack' = Append(classStack, v)
        \/ Leaving /\ Top.node.kind \in {"class"}
           /\ classStack' = SubSeq(classStack, 1, Len(classStack) - 1)
    BY DEF ClassExited
  <2>2. /\ frames[d].node.kind \in {"class"} /\ frames'[d].node = frames[d].node
        /\ classStack'[Nesting(frames', {"class"}, d)] = classStack[Nesting(frames, {"class"}, d)]
    BY <1>1, <1>2, <1>3, <2>1, StackKept
  <2>3. d \in 1..Len(frames)
    BY <1>3, MovesBelow
  <2> QED BY <2>2, <2>3 DEF ClassNames
<1>4. CASE ~(d <= Len(frames))
  <2>1. Enters /\ d = Len(frames) + 1 /\ frames'[d].node = Node
    BY <1>4, NewFrame
  <2>2. classStack' = Append(classStack, Node.name)
    BY <2>1 DEF Leaving, Enters
  <2>3. Node.kind \in {"class"}
    BY <2>1
  <2>4. Nesting(frames', {"class"}, d) = Len(classStack) + 1
    BY <1>1, <1>2, <2>1, <2>3, NestingEntered DEF Enters
  <2> QED BY <1>2, <2>1, <2>2, <2>4, Appended
<1> QED BY <1>3, <1>4

\* A class that is entered is a new one, whatever its name.
LEMMA ClassBlocksKept ==
  ASSUME Walk, Walk', Moves, NEW ms, Past(ms, frames), ClassBlocks(frames, ms)
  PROVE  ClassBlocks(frames', ms)
<1> SUFFICES ASSUME NEW i \in 1..Len(ms), ms[i].kinds = {"class"}, NEW d \in 1..Len(frames'),
                    frames'[d].node.kind = "class", PathIn(frames', d) = ms[i].block
             PROVE  ms[i].class = frames'[d].node.name
  BY DEF ClassBlocks
<1>1. CASE d <= Len(frames)
  <2>1. d \in 1..Len(frames) /\ d \in 0..Len(frames) /\ d <= Len(frames')
    BY <1>1, MovesBelow
  <2>2. frames[d].node.kind \in {"class"} /\ frames'[d].node = frames[d].node
    <3>1. "assign" \notin {"class"} /\ "assigned" \notin {"class"}
      OBVIOUS
    <3> QED BY <2>1, <3>1, FrameKept
  <2>3. PathIn(frames', d) = PathIn(frames, d)
    BY <2>1, PathKept
  <2> QED BY <2>1, <2>2, <2>3 DEF ClassBlocks
<1>2. CASE ~(d <= Len(frames))
  <2>1. Enters /\ d = Len(frames')
    BY <1>2, NewFrame
  <2>2. ~Behind(ms[i].block, frames)
    BY <2>1, HereFresh
  <2> QED BY <2>2 DEF Past
<1> QED BY <1>1, <1>2

\* What is bound in a class is remembered by its name.
LEMMA ClassBlocksMore ==
  ASSUME Walk, NEW ms, IsSequence(ms), ClassBlocks(frames, ms), NEW kinds, NEW names, NEW bs
  PROVE  ClassBlocks(frames, Append(ms, Made(kinds, names, bs)))
<1> DEFINE e == Made(kinds, names, bs)
           a == Append(ms, e)
           o == Innermost({"class"})
           m == Len(ms)
<1>1. /\ e.kinds = kinds /\ e.block = PathIn(frames, Innermost(kinds))
      /\ kinds = {"class"} /\ o # 0 => e.class = frames[o].node.name
  BY PathIs DEF Made
<1>2. /\ o \in 0..Len(frames)
      /\ o = 0 => \A d \in 1..Len(frames) : frames[d].node.kind \notin {"class"}
  BY InnermostIs
<1>3. Len(frames) \in Nat
  BY TakenType
<1>4. Len(a) = m + 1 /\ m \in Nat /\ a[m + 1] = e /\ \A i \in 1..m : a[i] = ms[i]
  BY Appended, SequenceFacts
<1> HIDE DEF e, a, o
<1>5. ASSUME kinds = {"class"}, NEW d \in 1..Len(frames), frames[d].node.kind = "class",
             PathIn(frames, d) = e.block
      PROVE  e.class = frames[d].node.name
  <2>1. o # 0 /\ e.block = PathIn(frames, o)
    BY <1>1, <1>2, <1>5 DEF o
  <2>2. d \in Nat /\ d >= 1 /\ o \in Nat /\ o >= 1
    BY <1>2, <1>3, <2>1
  <2>3. d = o
    BY <1>5, <2>1, <2>2, PathsDiffer
  <2> QED BY <1>1, <1>5, <2>1, <2>3
<1>6. ASSUME NEW i \in 1..m + 1, a[i].kinds = {"class"}, NEW d \in 1..Len(frames),
             frames[d].node.kind = "class", PathIn(frames, d) = a[i].block
      PROVE  a[i].class = frames[d].node.name
  <2>1. CASE i = m + 1
    BY <1>1, <1>4, <1>5, <1>6, <2>1
  <2>2. CASE i # m + 1
    <3>1. i \in 1..m /\ a[i] = ms[i]
      BY <1>4, <2>2
    <3> QED BY <1>6, <3>1 DEF ClassBlocks, m
  <2> QED BY <2>1, <2>2
<1>7. ClassBlocks(frames, a)
  BY <1>4, <1>6 DEF ClassBlocks
<1> QED BY <1>7 DEF a, e

\* What is bound outside a class is no attribute.
LEMMA AttributesScoped ==
  ASSUME NEW ms, Lists(ms), Attributes(classAttributes, ms), NEW names, NEW bs, IsSequence(bs)
  PROVE  Attributes(classAttributes, Append(ms, Made(ScopeKinds, names, bs)))
<1> DEFINE e == Made(ScopeKinds, names, bs)
<1>1. e.kinds = ScopeKinds /\ e.bindings = bs /\ ScopeKinds # {"class"}
  BY DEF Made, ScopeKinds
<1> HIDE DEF e
<1>2. ASSUME NEW c, NEW name
      PROVE  MadeFor(Append(ms, e), c, name) = MadeFor(ms, c, name)
  <2> DEFINE before == MadeFor(ms, c, name)
  <2>1. /\ MadeFor(Append(ms, e), c, name)
             = before \o (IF e.kinds = {"class"} /\ e.class = c /\ name \in e.names
                          THEN e.bindings ELSE <<>>)
        /\ IsSequence(before)
    BY <1>1, MadeForMore
  <2> HIDE DEF before
  <2>2. before \o <<>> = before
    BY <2>1, JoinEmpty
  <2> QED BY <1>1, <2>1, <2>2 DEF before
<1> QED BY <1>2 DEF Attributes, e

\* What is bound to self is one of the innermost class.
LEMMA AttributesMore ==
  ASSUME Mirrored, Walk, Holds, ClassNames(frames, classStack),
         NEW ms, Lists(ms), Attributes(classAttributes, ms),
         NEW names, NEW bs, IsSequence(bs)
  PROVE  Attributes(AttributesBound(names, bs), Append(ms, Made({"class"}, names, bs)))
<1> DEFINE e == Made({"class"}, names, bs)
           o == Innermost({"class"})
           ca == AttributesBound(names, bs)
           all == Append(ms, e)
<1>1. /\ e.kinds = {"class"} /\ e.bindings = bs /\ e.names = names
      /\ e.class = IF o # 0 THEN frames[o].node.name ELSE None
  BY DEF Made
<1>2. /\ o \in 0..Len(frames)
      /\ o # 0 => frames[o].node.kind = "class"
  BY InnermostIs
<1>3. /\ IsSequence(classStack) /\ (classStack = <<>> <=> o = 0)
      /\ Len(classStack) = Nesting(frames, {"class"}, o)
  BY ClassesAre
<1>4. Len(frames) \in Nat
  BY TakenType
<1> HIDE DEF e, o, all
<1>5. ASSUME NEW c, NEW name
      PROVE  /\ MadeFor(all, c, name)
                  = MadeFor(ms, c, name)
                      \o (IF e.kinds = {"class"} /\ e.class = c /\ name \in e.names
                          THEN e.bindings ELSE <<>>)
             /\ IsSequence(MadeFor(ms, c, name))
  BY <1>1, MadeForMore DEF all
<1>6. ASSUME NEW c, c # None, NEW name PROVE Get(Get(ca, c), name) = MadeFor(all, c, name)
  <2> DEFINE before == MadeFor(ms, c, name)
             dict == Get(classAttributes, c)
  <2>1. Get(dict, name) = before
    BY <1>6 DEF Attributes
  <2>2. /\ MadeFor(all, c, name)
             = before \o (IF e.class = c /\ name \in names THEN bs ELSE <<>>)
        /\ IsSequence(before)
    BY <1>1, <1>5
  <2> HIDE DEF before
  <2>3. before \o <<>> = before
    BY <2>2, JoinEmpty
  <2>4. CASE o = 0
    <3>1. ca = classAttributes /\ e.class = None
      BY <1>1, <1>3, <2>4 DEF AttributesBound
    <3> HIDE DEF ca
    <3> QED BY <1>6, <2>1, <2>2, <2>3, <3>1
  <2>5. CASE o # 0
    <3> DEFINE top == classStack[Len(classStack)]
               more == Extended(classAttributes[top], names, bs)
    <3>1. o \in 1..Len(frames)
      BY <1>2, <1>4, <2>5
    <3>2. top = e.class
      BY <1>1, <1>2, <1>3, <2>5, <3>1 DEF ClassNames
    <3>3. top \in DOMAIN classAttributes
      <4>1. Len(classStack) \in 1..Len(classStack)
        BY <1>3, <2>5, SequenceFacts
      <4> QED BY <4>1 DEF Mirrored
    <3>4. ca = [classAttributes EXCEPT ![top] = more]
      BY <1>3, <2>5 DEF AttributesBound
    <3> HIDE DEF top
    <3>5. CASE c = top
      <4>1. dict = classAttributes[top]
        BY <3>3, <3>5 DEF Get
      <4>2. Get(ca, c) = more
        BY <3>3, <3>4, <3>5 DEF Get
      <4>3. more = Extended(dict, names, bs)
        BY <4>1
      <4>4. ListDict(dict)
        BY <3>3, <4>1 DEF Holds, Stored, SoundDict, SoundList, ListDict
      <4> HIDE DEF more, dict
      <4>5. /\ name \in names => Get(more, name) = Get(dict, name) \o bs
            /\ name \notin names => Get(more, name) = Get(dict, name)
        BY <4>3, <4>4, GetMore
      <4>6. e.class = c
        BY <3>2, <3>5
      <4> HIDE DEF ca
      <4> QED BY <2>1, <2>2, <2>3, <4>2, <4>5, <4>6
    <3>6. CASE c # top
      <4>1. Get(ca, c) = dict
        BY <3>4, <3>6 DEF Get
      <4>2. e.class # c
        BY <3>2, <3>6
      <4> HIDE DEF ca, dict
      <4> QED BY <2>1, <2>2, <2>3, <4>1, <4>2
    <3> QED BY <3>5, <3>6
  <2> QED BY <2>4, <2>5
<1> HIDE DEF ca
<1>7. Attributes(ca, all)
  BY <1>6 DEF Attributes
<1> QED BY <1>7 DEF ca, all, e

\* Where the classes are what they were.
LEMMA ClassedStays ==
  ASSUME Mirrored, Walk, Walk', Past(made, frames), Classed, Moves,
         ~(Enters /\ Node.kind = "class"), classStack' = classStack,
         classAttributes' = classAttributes, made' = made
  PROVE  Classed'
<1>1. ClassNames(frames', classStack')
  BY ClassNamesNext DEF Classed
<1>2. ClassBlocks(frames', made')
  BY ClassBlocksKept DEF Classed
<1> QED BY <1>1, <1>2 DEF Classed, ClassNames, ClassBlocks, Attributes

\* The attributes stay with their class when a name is imported, ...
LEMMA ClassedImport ==
  ASSUME Mirrored, Walk, Walk', Past(made, frames), Classed, VisitImport \/ VisitImportFrom
  PROVE  Classed'
<1>1. /\ Advances /\ classStack' = classStack /\ classAttributes' = classAttributes
  BY AdvanceMove DEF VisitImport, VisitImportFrom, Meets
<1>2. Moves /\ ~Enters
  <2>1. Len(frames) \in Nat
    BY TakenType
  <2> QED BY <1>1, <2>1 DEF Moves, Advances, Enters
<1>3. (\E names, b : made' = Append(made, Made(ScopeKinds, names, <<b>>))) \/ made' = made
  BY <1>2 DEF VisitImport, VisitImportFrom, BindNames
<1>4. CASE \E names, b : made' = Append(made, Made(ScopeKinds, names, <<b>>))
  <2>1. PICK names, b : made' = Append(made, Made(ScopeKinds, names, <<b>>))
    BY <1>4
  <2> DEFINE bs == <<b>>
  <2>2. IsSequence(bs) /\ IsSequence(made) /\ Lists(made)
    BY One DEF Past, Lists
  <2> HIDE DEF bs
  <2>3. made' = Append(made, Made(ScopeKinds, names, bs))
    BY <2>1 DEF bs
  <2>4. ClassBlocks(frames, made') /\ Past(made', frames) /\ Attributes(classAttributes, made')
    BY <2>2, <2>3, ClassBlocksMore, PastMore, AttributesScoped DEF Classed
  <2>5. ClassNames(frames', classStack') /\ ClassBlocks(frames', made')
    BY <1>1, <1>2, <2>4, ClassNamesNext, ClassBlocksKept DEF Classed
  <2> QED BY <1>1, <2>4, <2>5 DEF Classed, ClassNames, ClassBlocks, Attributes
<1> QED BY <1>1, <1>2, <1>3, <1>4, ClassedStays

\* ... when a target is bound, ...
LEMMA ClassedAssign ==
  ASSUME Mirrored, Walk, Walk', Holds, Past(made, frames), Classed, LeaveAssign
  PROVE  Classed'
<1>1. Turning /\ Moves /\ classStack' = classStack /\ ~Enters
  <2>1. Turning /\ classStack' = classStack
    BY TurnMove DEF LeaveAssign, Leaves
  <2>2. Len(frames) \in Nat
    BY TakenType
  <2> QED BY <2>1, <2>2 DEF Turning, Moves, Enters
<1>2. PICK names, attributes, toNames, toSelf :
           /\ IsSequence(toNames) /\ toNames # <<>> /\ IsSequence(toSelf)
           /\ scopes' = Bound(names, toNames)
           /\ classAttributes' = AttributesBound(attributes, toSelf)
           /\ made' = Append(Append(made, Made(ScopeKinds, names, toNames)),
                             Made({"class"}, attributes, toSelf))
  BY AssignMakes
<1> DEFINE some == Append(made, Made(ScopeKinds, names, toNames))
<1>3. Past(some, frames) /\ ClassBlocks(frames, some) /\ Attributes(classAttributes, some)
  <2>1. IsSequence(made) /\ Lists(made)
    BY DEF Past, Lists
  <2> QED BY <1>2, <2>1, ClassBlocksMore, PastMore, AttributesScoped DEF Classed
<1> HIDE DEF some
<1>4. made' = Append(some, Made({"class"}, attributes, toSelf))
  BY <1>2 DEF some
<1>5. Past(made', frames) /\ ClassBlocks(frames, made') /\ Attributes(classAttributes', made')
  <2>1. IsSequence(some) /\ Lists(some)
    BY <1>3 DEF Past, Lists
  <2>2. Past(made', frames) /\ ClassBlocks(frames, made')
    BY <1>2, <1>3, <1>4, <2>1, ClassBlocksMore, PastMore
  <2>3. Attributes(AttributesBound(attributes, toSelf), Append(some, Made({"class"}, attributes, toSelf)))
    BY <1>2, <1>3, <2>1, AttributesMore DEF Classed
  <2> QED BY <1>2, <1>4, <2>2, <2>3
<1>6. ClassNames(frames', classStack') /\ ClassBlocks(frames', made')
  BY <1>1, <1>5, ClassNamesNext, ClassBlocksKept DEF Classed
<1> QED BY <1>5, <1>6 DEF Classed, ClassNames, ClassBlocks, Attributes

\* ... when a class is entered, ...
LEMMA ClassedEntered ==
  ASSUME Mirrored, Walk, Walk', Past(made, frames), Classed, VisitClassDef
  PROVE  Classed'
<1>1. /\ Enters /\ Node.kind = "class" /\ classStack' = Append(classStack, Node.name)
      /\ classAttributes' = ClassEntered(Node.name) /\ made' = made
  BY EnterMove DEF VisitClassDef, Meets
<1>2. ClassNames(frames', classStack') /\ ClassBlocks(frames', made')
  BY <1>1, ClassNamesNext, ClassBlocksKept DEF Classed, Moves
<1>3. \A c : Get(classAttributes', c) = Get(classAttributes, c)
  BY <1>1 DEF ClassEntered, Get
<1>4. Attributes(classAttributes', made')
  BY <1>1, <1>3 DEF Classed, Attributes
<1> QED BY <1>2, <1>4 DEF Classed, ClassNames, ClassBlocks, Attributes

\* ... when one is left, ...
LEMMA ClassedLeft ==
  ASSUME Mirrored, Walk, Walk', Past(made, frames), Classed, LeaveClassDef
  PROVE  Classed'
<1>1. /\ Leaving /\ Top.node.kind = "class" /\ classStack' = ClassExited
      /\ classAttributes' = classAttributes /\ made' = made
  BY LeaveMove DEF LeaveClassDef, Leaves
<1>2. ClassNames(frames', classStack') /\ ClassBlocks(frames', made')
  BY <1>1, ClassNamesNext, ClassBlocksKept DEF Classed, Moves
<1> QED BY <1>1, <1>2 DEF Classed, ClassNames, ClassBlocks, Attributes

\* ... and so in every step.
LEMMA ClassedNext ==
  ASSUME Mirrored, Walk, Walk', Holds, Past(made, frames), Classed, [Next]_vars
  PROVE  Classed'
<1>1. Len(frames) \in Nat
  BY TakenType
<1>2. CASE VisitFunctionDef \/ VisitTry \/ VisitCall \/ VisitOther
  <2>1. /\ Enters /\ Node.kind # "class" /\ classStack' = classStack
        /\ classAttributes' = classAttributes /\ made' = made
    BY <1>2, EnterMove DEF VisitFunctionDef, VisitTry, VisitCall, VisitOther, Meets, table
  <2> QED BY <2>1, ClassedStays DEF Moves
<1>3. CASE LeaveFunctionDef \/ LeaveTry \/ LeaveCall \/ LeaveOther \/ LeaveAssigned
  <2>1. /\ Leaving /\ classStack' = classStack
        /\ classAttributes' = classAttributes /\ made' = made
    BY <1>3, LeaveMove DEF LeaveFunctionDef, LeaveTry, LeaveCall, LeaveOther, LeaveAssigned, Leaves,
       table
  <2>2. ~Enters /\ Moves
    BY <1>1, <2>1 DEF Leaving, Enters, Moves
  <2> QED BY <2>1, <2>2, ClassedStays
<1>4. CASE UNCHANGED vars
  <2>1. /\ frames' = frames /\ made' = made /\ classStack' = classStack
        /\ classAttributes' = classAttributes
    BY <1>4 DEF vars, table
  <2>2. /\ \A d : Nesting(frames', {"class"}, d) = Nesting(frames, {"class"}, d)
        /\ \A d : PathIn(frames', d) = PathIn(frames, d)
    BY <2>1, Zenon
  <2> QED BY <2>1, <2>2 DEF Classed, ClassNames, ClassBlocks, Attributes
<1> QED BY <1>2, <1>3, <1>4, ClassedImport, ClassedAssign, ClassedEntered, ClassedLeft DEF Next

\* At the start there is no class and no attribute.
LEMMA ClassedInit == Init => Classed
<1> SUFFICES ASSUME Init PROVE Classed
  OBVIOUS
<1>1. PICK body \in Module :
        frames = <<Frame([kind |-> "module", body |-> body], "import")>>
  BY DEF Init
<1>2. made = <<>> /\ classAttributes = <<>> /\ Len(frames) = 1 /\ frames[1].node.kind = "module"
  BY <1>1 DEF Init, InitTable, Frame
<1>3. \A c, name : Get(Get(<<>>, c), name) = <<>>
  BY DEF Get
<1>4. \A c, name : MadeFor(<<>>, c, name) = <<>>
  BY FlattenEmpty DEF MadeFor
<1>5. Attributes(classAttributes, made)
  BY <1>2, <1>3, <1>4 DEF Attributes
<1>6. \A d \in 1..Len(frames) : frames[d].node.kind # "class"
  BY <1>2
<1> QED BY <1>2, <1>5, <1>6 DEF Classed, ClassNames, ClassBlocks

\* An attribute of self has the bindings made in the innermost class.
LEMMA HeldIsOfClass ==
  ASSUME Mirrored, Walk, Past(made, frames), Classed
  PROVE  AttributesStayInClass
<1> DEFINE open == Innermost({"class"})
           Held(name) == IF classStack = <<>> THEN <<>>
                         ELSE Get(classAttributes[classStack[Len(classStack)]], name)
           Shared(m) == m.class = frames[open].node.name /\ m.block # PathOf(open)
<1>1. /\ open \in 0..Len(frames)
      /\ open # 0 => frames[open].node.kind = "class"
  BY InnermostIs
<1>2. /\ IsSequence(classStack) /\ (classStack = <<>> <=> open = 0)
      /\ Len(classStack) = Nesting(frames, {"class"}, open)
  BY ClassesAre
<1>3. ASSUME NEW name, open = 0 PROVE Held(name) = <<>>
  BY <1>2, <1>3
<1>4. ASSUME NEW name, open # 0, \A i \in DOMAIN made : ~Shared(made[i])
      PROVE  Held(name) = MadeIn({"class"}, PathOf(open), name)
  <2> DEFINE top == classStack[Len(classStack)]
  <2>1. open \in 1..Len(frames)
    BY <1>1, <1>4, TakenType
  <2>2. top = frames[open].node.name
    BY <1>1, <1>2, <1>4, <2>1 DEF Classed, ClassNames
  <2>3. top # None
    <3>1. GoodNode(frames[open].node)
      BY <2>1 DEF Walk, GoodFrame
    <3> QED BY <1>1, <1>4, <2>2, <3>1, NodeFacts DEF GoodNode
  <2>4. top \in DOMAIN classAttributes
    <3>1. Len(classStack) \in 1..Len(classStack)
      BY <1>2, <1>4, SequenceFacts
    <3> QED BY <3>1 DEF Mirrored
  <2>5. Held(name) = Get(Get(classAttributes, top), name)
    BY <1>2, <1>4, <2>4 DEF Get
  <2>6. Held(name) = MadeFor(made, top, name)
    BY <2>3, <2>5 DEF Classed, Attributes
  <2> HIDE DEF top
  <2>7. DOMAIN made = 1..Len(made)
    BY SequenceFacts DEF Past, Lists
  <2>8. ASSUME NEW i \in DOMAIN made, made[i].kinds = {"class"}
        PROVE  made[i].class = top <=> made[i].block = PathOf(open)
    <3>1. made[i].class = top => made[i].block = PathOf(open)
      BY <1>4, <2>2
    <3>2. PathOf(open) = PathIn(frames, open)
      BY PathIs
    <3>3. made[i].block = PathOf(open) => made[i].class = top
      BY <1>1, <1>4, <2>1, <2>2, <2>7, <2>8, <3>2 DEF Classed, ClassBlocks
    <3> QED BY <3>1, <3>3
  <2>9. MadeFor(made, top, name) = MadeIn({"class"}, PathOf(open), name)
    <3> DEFINE one(m) == IF m.kinds = {"class"} /\ m.class = top /\ name \in m.names
                         THEN m.bindings ELSE <<>>
               two(m) == IF m.kinds = {"class"} /\ m.block = PathOf(open) /\ name \in m.names
                         THEN m.bindings ELSE <<>>
    <3>1. \A i \in DOMAIN made : one(made[i]) = two(made[i])
      BY <2>8
    <3>2. MadeFor(made, top, name) = FlattenSeq([i \in DOMAIN made |-> one(made[i])])
      BY DEF MadeFor
    <3>3. MadeIn({"class"}, PathOf(open), name) = FlattenSeq([i \in DOMAIN made |-> two(made[i])])
      BY DEF MadeIn
    <3> HIDE DEF one, two
    <3>4. [i \in DOMAIN made |-> one(made[i])] = [i \in DOMAIN made |-> two(made[i])]
      BY <3>1
    <3> QED BY <3>2, <3>3, <3>4
  <2> QED BY <2>6, <2>9
<1> QED BY <1>3, <1>4 DEF AttributesStayInClass

\* Outside a class self means nothing; inside one, an attribute of self has the
\* bindings made in this class and no others, in a file where no other class of
\* the same name has bound attributes (symbol_table.py, bind_class_attribute;
\* python_ast.py, visit_ClassDef).
THEOREM SelfIsOfItsClass == Spec => []AttributesStayInClass
<1>1. Init => Tabled /\ Classed
  BY GroundedInit, ScopedInit, ClassedInit DEF Tabled
<1>2. Tabled /\ Classed /\ [Next]_vars => (Tabled /\ Classed)'
  <2> SUFFICES ASSUME Tabled, Classed, [Next]_vars PROVE Tabled' /\ Classed'
    OBVIOUS
  <2>1. Tabled'
    BY TabledNext
  <2>2. Walk'
    BY <2>1 DEF Tabled, Grounded
  <2> QED BY <2>1, <2>2, ClassedNext DEF Tabled, Grounded
<1>3. Tabled /\ Classed => AttributesStayInClass
  BY HeldIsOfClass DEF Tabled, Grounded
<1> QED BY <1>1, <1>2, <1>3, PTL DEF Spec

(***************************************************************************)
(* What was reported where                                                 *)
(***************************************************************************)

\* Where the usages are, the walk has been.
Placed(us, f) == IsSequence(us) /\ \A i \in 1..Len(us) : Behind(us[i].at, f)

\* Of several usages at one place none is certain.
Doubtful(us) ==
  \A i, j \in 1..Len(us) : i # j /\ us[i].at = us[j].at => us[i].confidence <= Conditional

\* The name of the first usage at a place.
FirstName(us, p) ==
  LET there == {i \in DOMAIN us : us[i].at = p}
  IN IF there = {} THEN None ELSE us[CHOOSE i \in there : \A j \in there : i <= j].name

\* The parents are the open calls, by what was reported of them.
Answering(f, ps, us) ==
  \A d \in 1..Len(f) : f[d].node.kind = "call" =>
    ps[Nesting(f, {"call"}, d)] = FirstName(us, PathIn(f, d))

\* More usages, none of them at a place, leave its name;
LEMMA FirstNameKept ==
  ASSUME NEW us, IsSequence(us), NEW r, IsSequence(r), NEW p, \A i \in 1..Len(r) : r[i].at # p,
         NEW all, all = us \o r
  PROVE  FirstName(all, p) = FirstName(us, p)
<1> DEFINE R == {i \in DOMAIN us : us[i].at = p}
           Q == {i \in DOMAIN all : all[i].at = p}
           first == CHOOSE i \in R : \A j \in R : i <= j
<1>1. /\ Len(us) \in Nat /\ Len(r) \in Nat /\ DOMAIN us = 1..Len(us)
      /\ DOMAIN all = 1..Len(us) + Len(r) /\ Len(all) = Len(us) + Len(r)
      /\ \A i \in 1..Len(us) : all[i] = us[i]
      /\ \A i \in 1..Len(all) : i \in 1..Len(us)
           \/ \E j \in 1..Len(r) : i = Len(us) + j /\ all[i] = r[j]
  BY JoinedAt, SequenceFacts
<1>2. Q = R
  <2>1. \A i \in Q : i \in R
    BY <1>1
  <2>2. \A i \in R : i \in Q
    BY <1>1
  <2> QED BY <2>1, <2>2
<1>3. FirstName(us, p) = IF R = {} THEN None ELSE us[first].name
  BY DEF FirstName
<1>4. FirstName(all, p) = IF R = {} THEN None ELSE all[first].name
  <2> DEFINE one == CHOOSE i \in Q : \A j \in Q : i <= j
  <2>1. FirstName(all, p) = IF Q = {} THEN None ELSE all[one].name
    BY DEF FirstName
  <2> HIDE DEF Q, R
  <2>2. one = first
    BY <1>2
  <2> HIDE DEF one, first
  <2> QED BY <1>2, <2>1, <2>2
<1>5. R # {} => first \in R
  <2>1. R \subseteq Nat
    BY <1>1
  <2>2. R # {} => \E i \in R : \A j \in R : i <= j
    <3> HIDE DEF R
    <3> QED BY <2>1, LeastNumber
  <2> QED BY <2>2
<1>6. \A i \in R : all[i] = us[i]
  BY <1>1
<1> HIDE DEF R, first
<1> QED BY <1>3, <1>4, <1>5, <1>6

\* the first ones there make it.
LEMMA FirstNameMade ==
  ASSUME NEW us, IsSequence(us), NEW r, IsSequence(r), NEW p,
         \A i \in 1..Len(us) : us[i].at # p, \A i \in 1..Len(r) : r[i].at = p
  PROVE  FirstName(us \o r, p) = IF r = <<>> THEN None ELSE r[1].name
<1> DEFINE all == us \o r
           Q == {i \in DOMAIN all : all[i].at = p}
           first == CHOOSE i \in Q : \A j \in Q : i <= j
           m == Len(us) + 1
<1>1. /\ Len(us) \in Nat /\ Len(r) \in Nat /\ (r = <<>> <=> Len(r) = 0)
      /\ DOMAIN all = 1..Len(us) + Len(r) /\ Len(all) = Len(us) + Len(r)
      /\ \A i \in 1..Len(us) : all[i] = us[i]
      /\ \A i \in 1..Len(r) : all[Len(us) + i] = r[i]
  BY JoinedAt, SequenceFacts
<1>2. \A i \in Q : i \in Nat /\ m <= i /\ r # <<>>
  BY <1>1
<1>3. FirstName(all, p) = IF Q = {} THEN None ELSE all[first].name
  BY DEF FirstName
<1> SUFFICES FirstName(all, p) = IF r = <<>> THEN None ELSE r[1].name
  OBVIOUS
<1> HIDE DEF all
<1>4. CASE r = <<>>
  <2>1. Q = {}
    BY <1>2, <1>4
  <2> QED BY <1>3, <1>4, <2>1
<1>5. CASE r # <<>>
  <2>1. 1 \in 1..Len(r) /\ m \in DOMAIN all
    BY <1>1, <1>5
  <2>2. all[m] = r[1]
    BY <1>1, <2>1
  <2>3. m \in Q /\ m \in Nat
    BY <1>1, <2>1, <2>2
  <2> HIDE DEF Q, m
  <2>7. \E i \in Q : \A j \in Q : i <= j
    BY <1>2, <2>3
  <2>4. first \in Q /\ \A j \in Q : first <= j
    BY <2>7
  <2> HIDE DEF first
  <2>5. first = m
    BY <1>2, <2>3, <2>4
  <2>6. Q # {}
    BY <2>3
  <2> QED BY <1>3, <1>5, <2>2, <2>5, <2>6
<1> QED BY <1>4, <1>5

\* Usages at places of their own, the first m of some.
Spread(us, place, m) ==
  /\ IsSequence(us)
  /\ \A i \in 1..Len(us) : \E k \in 1..m : us[i].at = place[k]
  /\ \A i, j \in 1..Len(us) : i # j => us[i].at # us[j].at

\* One usage more, or none, at the next place.
LEMMA SpreadMore ==
  ASSUME NEW s, NEW t, IsSequence(t), Len(t) <= 1, NEW u, u = s \o t,
         NEW place, NEW m \in Nat, Spread(s, place, m),
         \A j \in 1..Len(t) : t[j].at = place[m + 1],
         \A k \in 1..m : place[k] # place[m + 1]
  PROVE  Spread(u, place, m + 1)
<1> DEFINE l == m + 1
<1>1. IsSequence(s) /\ Len(t) \in Nat /\ Len(s) \in Nat
  BY SequenceFacts DEF Spread
<1>9. u = s \o t
  OBVIOUS
<1>2. IsSequence(u) /\ \A i \in 1..Len(s) : u[i] = s[i]
  <2>1. IsSequence(u)
    BY <1>1, <1>9, Joined
  <2>2. ASSUME NEW i \in 1..Len(s) PROVE u[i] = s[i]
    BY <1>1, <1>9, JoinedAt
  <2> QED BY <2>1, <2>2
<1>8. \A i \in 1..Len(u) : i \in 1..Len(s)
        \/ \E j \in 1..Len(t) : i = Len(s) + j /\ u[i] = t[j]
  BY <1>1, JoinedAt
<1>3. \A i \in 1..Len(s) : \E k \in 1..m : u[i].at = place[k]
  BY <1>2 DEF Spread
<1>4. ASSUME NEW i \in 1..Len(u), i \notin 1..Len(s) PROVE i = Len(s) + 1 /\ u[i].at = place[l]
  <2>1. PICK j \in 1..Len(t) : i = Len(s) + j /\ u[i] = t[j]
    BY <1>8, <1>4
  <2>2. j = 1
    BY <1>1, <2>1
  <2> QED BY <2>1, <2>2
<1>5. l \in 1..l /\ \A k \in 1..m : k \in 1..l /\ place[k] # place[l]
  OBVIOUS
<1> HIDE DEF l
<1>6. \A i \in 1..Len(u) : \E k \in 1..l : u[i].at = place[k]
  BY <1>3, <1>4, <1>5
<1>7. ASSUME NEW i \in 1..Len(u), NEW j \in 1..Len(u), i # j PROVE u[i].at # u[j].at
  <2>1. CASE i \in 1..Len(s) /\ j \in 1..Len(s)
    BY <1>2, <1>7, <2>1 DEF Spread
  <2>2. CASE i \in 1..Len(s) /\ j \notin 1..Len(s)
    BY <1>3, <1>4, <1>5, <2>2
  <2>3. CASE i \notin 1..Len(s) /\ j \in 1..Len(s)
    BY <1>3, <1>4, <1>5, <2>3
  <2>4. CASE i \notin 1..Len(s) /\ j \notin 1..Len(s)
    BY <1>4, <1>7, <2>4
  <2> QED BY <2>1, <2>2, <2>3, <2>4
<1> QED BY <1>2, <1>6, <1>7 DEF Spread, l

\* Lists of one usage or none, each at a place of its own, joined.
LEMMA ShortPieces ==
  ASSUME NEW n \in Nat, NEW p, p = [i \in 1..n |-> p[i]],
         \A i \in 1..n : IsSequence(p[i]) /\ Len(p[i]) <= 1,
         NEW place, \A i \in 1..n : \A x : Has(p[i], x) => x.at = place[i],
         \A i, j \in 1..n : i # j => place[i] # place[j]
  PROVE  Spread(FlattenSeq(p), place, n)
<1> DEFINE T == {m \in Nat : m <= n => Spread(Pieces(p, m), place, m)}
<1>1. 0 \in T
  <2>1. 1..Len(<<>>) = {} /\ IsSequence(<<>>)
    BY Nothing
  <2>2. Spread(<<>>, place, 0)
    BY <2>1 DEF Spread
  <2>3. Spread(Pieces(p, 0), place, 0)
    BY <2>2, NoPieces
  <2> QED BY <2>3
<1>2. ASSUME NEW m \in Nat, m \in T PROVE m + 1 \in T
  <2>1. ASSUME m + 1 <= n PROVE Spread(Pieces(p, m + 1), place, m + 1)
    <3> DEFINE t == p[m + 1]
               l == m + 1
    <3>1. l \in 1..n /\ \A i \in 1..l : i \in 1..n
      BY <2>1
    <3>2. Spread(Pieces(p, m), place, m)
      BY <1>2, <2>1
    <3>3. Pieces(p, m + 1) = Pieces(p, m) \o t
      BY <3>1, OnePieceMore
    <3>4. IsSequence(t) /\ Len(t) <= 1
      BY <3>1
    <3>5. \A j \in 1..Len(t) : t[j].at = place[m + 1]
      <4>1. \A x : Has(t, x) => x.at = place[l]
        BY <3>1
      <4> HIDE DEF t
      <4>2. \A j \in 1..Len(t) : Has(t, t[j])
        BY <3>4, SequenceFacts DEF Has
      <4> QED BY <4>1, <4>2
    <3>6. \A k \in 1..m : place[k] # place[m + 1]
      <4>1. \A k \in 1..m : k \in 1..n /\ k # l
        BY <3>1
      <4> QED BY <3>1, <4>1
    <3> HIDE DEF t
    <3> QED BY <3>2, <3>3, <3>4, <3>5, <3>6, SpreadMore
  <2>2. m + 1 \in Nat
    OBVIOUS
  <2> QED BY <2>1, <2>2
<1>3. T \subseteq Nat /\ Nat \subseteq T
  <2>1. T \subseteq Nat
    OBVIOUS
  <2> HIDE DEF T
  <2>2. Nat \subseteq T
    BY <1>1, <1>2, NumberInduction
  <2> QED BY <2>1, <2>2
<1>4. Spread(Pieces(p, n), place, n)
  BY <1>3
<1>5. Pieces(p, n) = FlattenSeq(p)
  BY DEF Pieces
<1> QED BY <1>4, <1>5

\* What was reported, at every step.
Reporting ==
  /\ Placed(usages, frames)
  /\ Doubtful(usages)
  /\ Answering(frames, parents, usages)

\* There is a parent for each open call.
LEMMA ParentsAre ==
  ASSUME Mirrored, Walk
  PROVE  IsSequence(parents) /\ Len(parents) = Nesting(frames, {"call"}, Len(frames))
BY NestingHeight DEF Mirrored, Walk

\* An open call keeps its parent, where nothing more is reported of it.
LEMMA ParentKept ==
  ASSUME Mirrored, Walk, Moves, Answering(frames, parents, usages),
         NEW ps, \/ ps = parents
                 \/ \E v : ps = Append(parents, v)
                 \/ Leaving /\ Top.node.kind = "call" /\ ps = ParentLeft,
         NEW us, NEW d \in 1..Len(frames'), d <= Len(frames), frames'[d].node.kind = "call",
         FirstName(us, PathIn(frames, d)) = FirstName(usages, PathIn(frames, d))
  PROVE  ps[Nesting(frames', {"call"}, d)] = FirstName(us, PathIn(frames', d))
<1>1. "assign" \notin {"call"} /\ "assigned" \notin {"call"}
  OBVIOUS
<1>2. IsSequence(parents) /\ Len(parents) = Nesting(frames, {"call"}, Len(frames))
  BY ParentsAre
<1>3. \/ ps = parents
      \/ \E v : ps = Append(parents, v)
      \/ Leaving /\ Top.node.kind \in {"call"} /\ ps = SubSeq(parents, 1, Len(parents) - 1)
  BY DEF ParentLeft
<1>4. /\ frames[d].node.kind \in {"call"} /\ PathIn(frames', d) = PathIn(frames, d)
      /\ ps[Nesting(frames', {"call"}, d)] = parents[Nesting(frames, {"call"}, d)]
  BY <1>1, <1>2, <1>3, StackKept
<1>5. d \in 1..Len(frames)
  BY MovesBelow
<1>6. parents[Nesting(frames, {"call"}, d)] = FirstName(usages, PathIn(frames, d))
  BY <1>4, <1>5 DEF Answering
<1> QED BY <1>4, <1>6

\* Where nothing is reported, and no call is entered.
LEMMA ReportingStays ==
  ASSUME Mirrored, Walk, Moves, Reporting, ~(Enters /\ Node.kind = "call"),
         \/ parents' = parents
         \/ Leaving /\ Top.node.kind = "call" /\ parents' = ParentLeft,
         usages' = usages
  PROVE  Reporting'
<1>1. Placed(usages', frames')
  BY BehindKept DEF Reporting, Placed
<1>2. ASSUME NEW d \in 1..Len(frames'), frames'[d].node.kind = "call"
      PROVE  parents'[Nesting(frames', {"call"}, d)] = FirstName(usages', PathIn(frames', d))
  <2>1. d <= Len(frames)
    BY <1>2, NewFrame
  <2> QED BY <1>2, <2>1, ParentKept DEF Reporting
<1>3. Answering(frames', parents', usages')
  BY <1>2 DEF Answering
<1>4. Doubtful(usages')
  BY DEF Reporting
<1> QED BY <1>1, <1>3, <1>4 DEF Reporting, Placed, Doubtful, Answering, FirstName

\* A call is reported where it is entered, for the first time.
LEMMA ReportingCall ==
  ASSUME Mirrored, Walk, Walk', Holds, Reporting, VisitCall
  PROVE  Reporting'
<1> DEFINE r == Recorded(Node)
           n == Len(frames)
           m == Len(usages)
<1>1. Enters /\ Node.kind = "call" /\ Node \in Nodes /\ Moves
  BY EnterMove DEF VisitCall, Meets, Enters, Moves
<1>2. usages' = usages \o r /\ parents' = Append(parents, ParentName(Node))
  BY DEF VisitCall
<1>3. /\ IsSequence(r)
      /\ \A x : Has(r, x) => x.at = Here
      /\ Len(r) > 1 => \A x : Has(r, x) => x.confidence <= Conditional
  BY <1>1, RecordedGood DEF Batch
<1>4. /\ PathIn(frames', Len(frames')) = Here /\ Behind(Here, frames')
      /\ ~Behind(Here, frames) /\ Len(Here) = n
  BY <1>1, HereFresh
<1>5. ParentName(Node) = IF r = <<>> THEN None ELSE r[1].name
  BY DEF ParentName
<1>6. IsSequence(usages) /\ \A i \in 1..m : Behind(usages[i].at, frames)
  BY DEF Reporting, Placed
<1> HIDE DEF r, m
<1>7. \A i \in 1..Len(r) : /\ r[i].at = Here
                           /\ Len(r) > 1 => r[i].confidence <= Conditional
  BY <1>3, SequenceFacts DEF Has
<1>8. \A i \in 1..m : usages[i].at # Here
  BY <1>4, <1>6
<1>9. IsSequence(usages') /\ Len(usages') = m + Len(r) /\ m \in Nat /\ Len(r) \in Nat
  BY <1>2, <1>3, <1>6, JoinedAt, SequenceFacts DEF m
<1>10. \A i \in 1..m : usages'[i] = usages[i]
  BY <1>2, <1>3, <1>6, JoinedAt DEF m
<1>11. \A i \in 1..Len(usages') : i \in 1..m \/ \E j \in 1..Len(r) : i = m + j /\ usages'[i] = r[j]
  BY <1>2, <1>3, <1>6, JoinedAt DEF m
<1>12. ASSUME NEW i \in 1..Len(usages'), i \notin 1..m
       PROVE  usages'[i].at = Here /\ (Len(r) > 1 => usages'[i].confidence <= Conditional)
  BY <1>7, <1>11, <1>12
<1>13. Placed(usages', frames')
  <2>1. \A i \in 1..Len(usages') : Behind(usages'[i].at, frames')
    BY <1>1, <1>4, <1>6, <1>10, <1>12, BehindKept
  <2> QED BY <1>9, <2>1 DEF Placed
<1>14. ASSUME NEW i \in 1..Len(usages'), NEW j \in 1..Len(usages'), i # j,
              usages'[i].at = usages'[j].at
       PROVE  usages'[i].confidence <= Conditional
  <2>1. CASE i \in 1..m /\ j \in 1..m
    BY <1>10, <1>14, <2>1 DEF Reporting, Doubtful, m
  <2>2. CASE i \notin 1..m /\ j \notin 1..m
    <3>1. Len(r) > 1
      BY <1>9, <1>14, <2>2
    <3> QED BY <1>12, <2>2, <3>1
  <2>3. CASE i \in 1..m /\ j \notin 1..m
    BY <1>8, <1>10, <1>12, <1>14, <2>3
  <2>4. CASE i \notin 1..m /\ j \in 1..m
    BY <1>8, <1>10, <1>12, <1>14, <2>4
  <2> QED BY <2>1, <2>2, <2>3, <2>4
<1>15. ASSUME NEW d \in 1..Len(frames'), frames'[d].node.kind = "call"
       PROVE  parents'[Nesting(frames', {"call"}, d)] = FirstName(usages', PathIn(frames', d))
  <2>1. CASE d <= n
    <3>1. Len(PathIn(frames, d)) = d - 1 /\ n \in Nat
      BY PathType, TakenType
    <3>2. \A i \in 1..Len(r) : r[i].at # PathIn(frames, d)
      BY <1>4, <1>7, <2>1, <3>1
    <3>3. FirstName(usages', PathIn(frames, d)) = FirstName(usages, PathIn(frames, d))
      BY <1>2, <1>3, <1>6, <3>2, FirstNameKept
    <3>4. \E v : parents' = Append(parents, v)
      BY <1>2
    <3> QED BY <1>1, <1>15, <2>1, <3>3, <3>4, ParentKept DEF Reporting
  <2>2. CASE ~(d <= n)
    <3>1. d = Len(frames') /\ PathIn(frames', d) = Here
      BY <1>1, <1>4, <2>2, NewFrame
    <3>2. FirstName(usages', Here) = ParentName(Node)
      <4>1. /\ \A i \in 1..Len(usages) : usages[i].at # Here
            /\ \A i \in 1..Len(r) : r[i].at = Here
            /\ IsSequence(usages) /\ IsSequence(r) /\ usages' = usages \o r
        BY <1>2, <1>3, <1>6, <1>7, <1>8 DEF m
      <4>2. FirstName(usages \o r, Here) = IF r = <<>> THEN None ELSE r[1].name
        BY <4>1, FirstNameMade
      <4> QED BY <1>5, <4>1, <4>2
    <3>3. Node.kind \in {"call"} /\ "assign" \notin {"call"} /\ "assigned" \notin {"call"}
      BY <1>1
    <3>4. IsSequence(parents) /\ Len(parents) = Nesting(frames, {"call"}, n)
      BY ParentsAre
    <3>5. Nesting(frames', {"call"}, d) = Len(parents) + 1
      BY <1>1, <3>1, <3>3, <3>4, NestingEntered
    <3>6. parents'[Len(parents) + 1] = ParentName(Node)
      BY <1>2, <3>4, Appended
    <3> QED BY <3>1, <3>2, <3>5, <3>6
  <2> QED BY <2>1, <2>2
<1>16. Answering(frames', parents', usages')
  BY <1>15 DEF Answering
<1>17. Doubtful(usages')
  BY <1>14 DEF Doubtful
<1> QED BY <1>13, <1>16, <1>17 DEF Reporting, Placed, Doubtful, Answering, FirstName

\* The places of the targets of an assignment are no places of calls.
LEMMA TargetPlaces ==
  ASSUME Walk, Leaving, NEW k \in Nat, k >= 1
  PROVE  LET q == Append(PathIn(frames, Len(frames)), -k)
         IN /\ Len(q) = Len(frames) /\ q[Len(frames)] = -k
            /\ ~Behind(q, frames)
            /\ Behind(q, frames')
<1> DEFINE n == Len(frames)
           p == PathIn(frames, n)
           q == Append(p, -k)
<1>1. n \in Nat \ {0} /\ Len(frames') = n - 1 /\ Moves
  BY MovesBelow DEF Leaving, Moves
<1>2. IsSequence(p) /\ Len(p) = n - 1 /\ \A i \in 1..n - 1 : p[i] = Taken(frames, i)
  <2>1. n \in Nat /\ n >= 1
    BY <1>1
  <2> HIDE DEF n
  <2> QED BY <2>1, PathType
<1>3. /\ IsSequence(q) /\ Len(q) = Len(p) + 1 /\ q[Len(p) + 1] = -k
      /\ \A i \in 1..Len(p) : q[i] = p[i]
  <2> HIDE DEF p
  <2> QED BY <1>2, Appended
<1> HIDE DEF p, q
<1>4. /\ Len(q) = n /\ q[n] = -k
      /\ \A i \in 1..n - 1 : q[i] = Taken(frames, i)
  BY <1>1, <1>2, <1>3
<1>5. ~Behind(q, frames)
  <2> SUFFICES ASSUME Behind(q, frames) PROVE FALSE
    OBVIOUS
  <2>1. n \in 1..Len(q) /\ n <= Len(frames)
    BY <1>1, <1>4
  <2>2. q[n] \in 1..Taken(frames, n)
    BY <1>4, <2>1 DEF Behind
  <2>3. -k >= 1
    BY <1>4, <2>2
  <2> QED BY <2>3
<1>6. Behind(q, frames')
  <2> SUFFICES ASSUME NEW j \in 1..Len(q), j <= Len(frames') PROVE q[j] \in 1..Taken(frames', j)
    BY <1>3 DEF Behind
  <2>1. j \in 1..n - 1 /\ j \in 1..n
    BY <1>1, <1>4
  <2>2. q[j] = Taken(frames, j) /\ Taken(frames', j) = Taken(frames, j)
    BY <1>1, <1>4, <2>1, MovesBelow
  <2>3. Taken(frames, j) \in Nat /\ Taken(frames, j) >= 1
    BY <2>1, TakenType
  <2> QED BY <2>2, <2>3
<1> QED BY <1>4, <1>5, <1>6 DEF p, q

\* The reports stay in order when an assignment to a setting is left, ...
LEMMA ReportingAssigned ==
  ASSUME Mirrored, Walk, Reporting, LeaveAssigned
  PROVE  Reporting'
<1> DEFINE r == FlattenSeq(Settings)
           n == Len(frames)
           m == Len(usages)
           l == Len(Top.node.targets)
           q(k) == Append(PathIn(frames, n), -k)
           place == [k \in 1..l |-> q(k)]
<1>1. Leaving /\ Moves /\ frames # <<>> /\ Top.node.kind = "assigned"
  BY LeaveMove DEF LeaveAssigned, Leaves, Moves
<1>2. usages' = usages \o r /\ parents' = parents
  BY DEF LeaveAssigned, Settings
<1>3. /\ l \in Nat
      /\ Settings = [i \in 1..l |-> Settings[i]]
      /\ \A i \in 1..l : /\ IsSequence(Settings[i]) /\ Len(Settings[i]) <= 1
                         /\ \A x : Has(Settings[i], x) => x.at = q(i)
  BY <1>1, SettingsGood, PathIs
<1>4. n \in Nat \ {0} /\ Len(frames') = n - 1
  BY <1>1, MovesBelow DEF Leaving
<1> HIDE DEF l
<1>5. \A k \in 1..l : /\ Len(q(k)) = n /\ q(k)[n] = -k
                      /\ ~Behind(q(k), frames) /\ Behind(q(k), frames')
  <2> SUFFICES ASSUME NEW k \in 1..l
               PROVE  /\ Len(q(k)) = n /\ q(k)[n] = -k
                      /\ ~Behind(q(k), frames) /\ Behind(q(k), frames')
    OBVIOUS
  <2>1. k \in Nat /\ k >= 1
    BY <1>3
  <2> QED BY <1>1, <2>1, TargetPlaces
<1>6. \A k \in 1..l : place[k] = q(k)
  OBVIOUS
<1> HIDE DEF q, place, r, m
<1>7. \A i, j \in 1..l : i # j => place[i] # place[j]
  <2> SUFFICES ASSUME NEW i \in 1..l, NEW j \in 1..l, i # j PROVE place[i] # place[j]
    OBVIOUS
  <2>1. -i # -j
    BY <1>3
  <2> QED BY <1>5, <1>6, <2>1
<1>8. Spread(r, place, l)
  <2>1. \A i \in 1..l : IsSequence(Settings[i]) /\ Len(Settings[i]) <= 1
    BY <1>3
  <2>2. \A i \in 1..l : \A x : Has(Settings[i], x) => x.at = place[i]
    BY <1>3, <1>6
  <2> HIDE DEF Settings
  <2> QED BY <1>3, <1>7, <2>1, <2>2, ShortPieces DEF r
<1>9. IsSequence(r) /\ IsSequence(usages) /\ \A i \in 1..m : Behind(usages[i].at, frames)
  BY <1>8 DEF Reporting, Placed, Spread, m
<1>10. \A i \in 1..Len(r) : /\ Len(r[i].at) = n /\ ~Behind(r[i].at, frames) /\ Behind(r[i].at, frames')
  BY <1>5, <1>6, <1>8 DEF Spread
<1>11. IsSequence(usages') /\ Len(usages') = m + Len(r) /\ m \in Nat /\ Len(r) \in Nat
  BY <1>2, <1>9, JoinedAt, SequenceFacts DEF m
<1>12. \A i \in 1..m : usages'[i] = usages[i]
  BY <1>2, <1>9, JoinedAt DEF m
<1>13. \A i \in 1..Len(usages') : i \in 1..m \/ \E j \in 1..Len(r) : i = m + j /\ usages'[i] = r[j]
  BY <1>2, <1>9, JoinedAt DEF m
<1>14. ASSUME NEW i \in 1..Len(usages') PROVE Behind(usages'[i].at, frames')
  <2>1. CASE i \in 1..m
    BY <1>1, <1>9, <1>12, <2>1, BehindKept
  <2>2. CASE i \notin 1..m
    BY <1>10, <1>13, <2>2
  <2> QED BY <2>1, <2>2
<1>15. Placed(usages', frames')
  BY <1>11, <1>14 DEF Placed
<1>16. ASSUME NEW i \in 1..Len(usages'), NEW j \in 1..Len(usages'), i # j,
              usages'[i].at = usages'[j].at
       PROVE  usages'[i].confidence <= Conditional
  <2>1. CASE i \in 1..m /\ j \in 1..m
    BY <1>12, <1>16, <2>1 DEF Reporting, Doubtful, m
  <2>2. CASE i \notin 1..m /\ j \notin 1..m
    <3>1. PICK a \in 1..Len(r) : i = m + a /\ usages'[i] = r[a]
      BY <1>13, <2>2
    <3>2. PICK b \in 1..Len(r) : j = m + b /\ usages'[j] = r[b]
      BY <1>13, <2>2
    <3>3. a # b
      BY <1>16, <3>1, <3>2
    <3>4. r[a].at # r[b].at
      BY <1>8, <3>3 DEF Spread
    <3> QED BY <1>16, <3>1, <3>2, <3>4
  <2>3. CASE i \in 1..m /\ j \notin 1..m
    BY <1>9, <1>10, <1>12, <1>13, <1>16, <2>3
  <2>4. CASE i \notin 1..m /\ j \in 1..m
    BY <1>9, <1>10, <1>12, <1>13, <1>16, <2>4
  <2> QED BY <2>1, <2>2, <2>3, <2>4
<1>17. ASSUME NEW d \in 1..Len(frames'), frames'[d].node.kind = "call"
       PROVE  parents'[Nesting(frames', {"call"}, d)] = FirstName(usages', PathIn(frames', d))
  <2>1. d <= n /\ d \in Nat /\ d >= 1 /\ d - 1 # n
    BY <1>4
  <2>2. Len(PathIn(frames, d)) = d - 1
    BY <2>1, PathType
  <2>3. \A i \in 1..Len(r) : r[i].at # PathIn(frames, d)
    BY <1>10, <2>1, <2>2
  <2>4. FirstName(usages', PathIn(frames, d)) = FirstName(usages, PathIn(frames, d))
    BY <1>2, <1>9, <2>3, FirstNameKept
  <2> QED BY <1>1, <1>2, <1>17, <2>1, <2>4, ParentKept DEF Reporting
<1>18. Answering(frames', parents', usages')
  BY <1>17 DEF Answering
<1>19. Doubtful(usages')
  BY <1>16 DEF Doubtful
<1> QED BY <1>15, <1>18, <1>19 DEF Reporting, Placed, Doubtful, Answering, FirstName

\* ... and so in every step.
LEMMA ReportingNext ==
  ASSUME Mirrored, Walk, Walk', Holds, Reporting, [Next]_vars
  PROVE  Reporting'
<1>1. Len(frames) \in Nat
  BY TakenType
<1>2. CASE VisitImport \/ VisitImportFrom
  <2>1. Advances /\ parents' = parents /\ usages' = usages
    BY <1>2, AdvanceMove DEF VisitImport, VisitImportFrom, Meets
  <2>2. ~Enters /\ Moves
    BY <1>1, <2>1 DEF Advances, Enters, Moves
  <2> QED BY <2>1, <2>2, ReportingStays
<1>3. CASE VisitTry \/ VisitFunctionDef \/ VisitClassDef \/ VisitOther
  <2>1. Enters /\ Node.kind # "call" /\ parents' = parents /\ usages' = usages
    BY <1>3, EnterMove DEF VisitTry, VisitFunctionDef, VisitClassDef, VisitOther, Meets
  <2> QED BY <2>1, ReportingStays DEF Moves
<1>4. CASE LeaveTry \/ LeaveFunctionDef \/ LeaveClassDef \/ LeaveOther
  <2>1. Leaving /\ parents' = parents /\ usages' = usages
    BY <1>4, LeaveMove DEF LeaveTry, LeaveFunctionDef, LeaveClassDef, LeaveOther, Leaves
  <2>2. ~Enters /\ Moves
    BY <1>1, <2>1 DEF Leaving, Enters, Moves
  <2> QED BY <2>1, <2>2, ReportingStays
<1>5. CASE LeaveCall
  <2>1. Leaving /\ Top.node.kind = "call" /\ parents' = ParentLeft /\ usages' = usages
    BY <1>5, LeaveMove DEF LeaveCall, Leaves
  <2>2. ~Enters /\ Moves
    BY <1>1, <2>1 DEF Leaving, Enters, Moves
  <2> QED BY <2>1, <2>2, ReportingStays
<1>6. CASE LeaveAssign
  <2>1. Turning /\ parents' = parents /\ usages' = usages
    BY <1>6, TurnMove DEF LeaveAssign, Leaves
  <2>2. ~Enters /\ Moves
    BY <1>1, <2>1 DEF Turning, Enters, Moves
  <2> QED BY <2>1, <2>2, ReportingStays
<1>7. CASE UNCHANGED vars
  <2>1. frames' = frames /\ usages' = usages /\ parents' = parents
    BY <1>7 DEF vars
  <2>2. /\ \A d : Nesting(frames', {"call"}, d) = Nesting(frames, {"call"}, d)
        /\ \A d : PathIn(frames', d) = PathIn(frames, d)
        /\ \A p : Behind(p, frames') <=> Behind(p, frames)
        /\ \A p : FirstName(usages', p) = FirstName(usages, p)
    BY <2>1, Zenon
  <2> QED BY <2>1, <2>2 DEF Reporting, Placed, Doubtful, Answering
<1> QED BY <1>2, <1>3, <1>4, <1>5, <1>6, <1>7, ReportingCall, ReportingAssigned DEF Next

\* Before the walk nothing is reported.
LEMMA ReportingInit == Init => Reporting
<1> SUFFICES ASSUME Init PROVE Reporting
  OBVIOUS
<1>1. PICK body \in Module :
        frames = <<Frame([kind |-> "module", body |-> body], "import")>>
  BY DEF Init
<1>2. usages = <<>> /\ Len(frames) = 1 /\ frames[1].node.kind = "module"
  BY <1>1 DEF Init, Frame
<1>3. \A d \in 1..Len(frames) : frames[d].node.kind # "call"
  BY <1>2
<1>4. IsSequence(usages) /\ Len(usages) = 0
  BY <1>2, Nothing
<1> QED BY <1>3, <1>4 DEF Reporting, Placed, Doubtful, Answering

\* What is reported is as certain as it may be,
LEMMA ReportedCertainty == Grounded /\ Reporting => AmbiguityIsNeverCertain
<1> SUFFICES ASSUME Grounded, Reporting PROVE AmbiguityIsNeverCertain
  OBVIOUS
<1>1. DOMAIN usages = 1..Len(usages)
  BY SequenceFacts DEF Reporting, Placed
<1>2. \A i \in DOMAIN usages : Has(usages, usages[i])
  BY DEF Has
<1>3. \A i \in DOMAIN usages :
        usages[i].confidence \in {Direct, Conditional, Multiple, Wildcard, DynamicConfidence}
  BY <1>2 DEF Grounded, Reported, Scale
<1>4. \A i, j \in DOMAIN usages :
        i # j /\ usages[i].at = usages[j].at => usages[i].confidence <= Conditional
  BY <1>1 DEF Reporting, Doubtful
<1> QED BY <1>3, <1>4 DEF AmbiguityIsNeverCertain

\* and under the call it is an argument of.
LEMMA ReportedParent == Walk /\ Reporting => ParentIsEnclosingCall
<1> SUFFICES ASSUME Walk, Reporting, NEW d \in DOMAIN frames, frames[d].node.kind = "call"
             PROVE  LET k == Cardinality({i \in 1..d : frames[i].node.kind = "call"})
                        reported == {i \in DOMAIN usages : usages[i].at = PathOf(d)}
                    IN parents[k] = IF reported = {} THEN None
                         ELSE usages[CHOOSE i \in reported : \A j \in reported : i <= j].name
  BY Zenon DEF ParentIsEnclosingCall
<1>1. d \in 1..Len(frames)
  BY SequenceFacts DEF Walk, Stack
<1>2. parents[Nesting(frames, {"call"}, d)] = FirstName(usages, PathIn(frames, d))
  BY <1>1 DEF Reporting, Answering
<1>3. PathOf(d) = PathIn(frames, d)
  BY PathIs
<1>4. {i \in 1..d : frames[i].node.kind \in {"call"}} = {i \in 1..d : frames[i].node.kind = "call"}
  OBVIOUS
<1> QED BY <1>2, <1>3, <1>4 DEF FirstName, Nesting

\* The invariant of the reports, with what it rests on.
LEMMA ReportingInvariant == Spec => [](Grounded /\ Reporting)
<1>1. Init => Grounded /\ Reporting
  BY GroundedInit, ReportingInit
<1>2. Grounded /\ Reporting /\ [Next]_vars => (Grounded /\ Reporting)'
  <2> SUFFICES ASSUME Grounded, Reporting, [Next]_vars PROVE Grounded' /\ Reporting'
    OBVIOUS
  <2>1. Grounded'
    BY GroundedNext
  <2> QED BY <2>1, ReportingNext DEF Grounded
<1> QED BY <1>1, <1>2, PTL DEF Spec

\* A call that may be of two things is certainly of neither, and no confidence is
\* out of the scale (symbol_table.py, CONFIDENCE_MULTIPLE; python_ast.py,
\* visit_Call): the usages of a place are all of one call, made at once.
THEOREM AmbiguityIsToldOf == Spec => []AmbiguityIsNeverCertain
BY ReportingInvariant, ReportedCertainty, PTL

\* The parent of a call is the call it is an argument of, or a method of, as that
\* was reported when it was entered (python_ast.py, visit_Call).
THEOREM ParentIsTheEnclosingCall == Spec => []ParentIsEnclosingCall
<1>1. Grounded /\ Reporting => ParentIsEnclosingCall
  BY ReportedParent DEF Grounded
<1> QED BY <1>1, ReportingInvariant, PTL

(***************************************************************************)
(* What the detector is given                                              *)
(***************************************************************************)

\* What Detector assumes of the usages of a file.
ServesDetector == usages \in Seq(ToSet(usages)) /\ \A u \in ToSet(usages) : WellFormed(u)

\* The usages are as the detector needs them.
Delivered == IsSequence(usages) /\ \A x : Has(usages, x) => WellFormed(x)

\* A sequence is one of its own elements.
LEMMA OfItsOwn == \A s : IsSequence(s) => s \in Seq(ToSet(s))
<1> SUFFICES ASSUME NEW s, IsSequence(s) PROVE s \in Seq(ToSet(s))
  OBVIOUS
<1>1. PICK S : s \in Seq(S)
  BY DEF IsSequence
<1>2. \A i \in 1..Len(s) : s[i] \in ToSet(s)
  BY <1>1 DEF ToSet
<1>3. s = [i \in 1..Len(s) |-> s[i]] /\ Len(s) \in Nat
  BY <1>1
<1> QED BY <1>2, <1>3

\* The arguments of a call are nodes, and a literal has a value.
LEMMA ArgumentFacts ==
  ASSUME NEW n \in Nodes
  PROVE  /\ n.kind = "literal" => WellFormedValue(n.value)
         /\ n.kind = "call" => /\ n.args \in Seq(Nodes)
                               /\ \A k \in DOMAIN n.kwargs : n.kwargs[k] \in Nodes
BY TreeAssumption

\* What is said of an argument is what the detector can read.
LEMMA DescribedGood == \A n \in Nodes : WellFormedValue(Described(n).value)
<1> SUFFICES ASSUME NEW n \in Nodes PROVE WellFormedValue(Described(n).value)
  OBVIOUS
<1>1. Described(n).value = IF n.kind = "literal" THEN n.value ELSE None
  BY DEF Described
<1>2. WellFormedValue(None)
  BY DEF WellFormedValue, IsA
<1> QED BY <1>1, <1>2, ArgumentFacts

\* A usage of a call, with a name of parts or none.
LEMMA UsageGood ==
  ASSUME NEW node \in Nodes, node.kind = "call",
         NEW name, name # None => IsDotted(name), NEW confidence \in 1..100
  PROVE  WellFormed(Usage(name, confidence, node))
<1> DEFINE u == Usage(name, confidence, node)
           said == [i \in DOMAIN node.args |-> Described(node.args[i])]
<1>1. /\ u.name = name /\ u.confidence = confidence /\ u.args = said
      /\ u.kwargs = [k \in DOMAIN node.kwargs |-> Described(node.kwargs[k])]
  BY DEF Usage
<1>2. node.args \in Seq(Nodes) /\ \A k \in DOMAIN node.kwargs : node.kwargs[k] \in Nodes
  BY ArgumentFacts
<1>3. /\ Len(node.args) \in Nat /\ DOMAIN node.args = 1..Len(node.args)
      /\ \A i \in 1..Len(node.args) : node.args[i] \in Nodes
  BY <1>2
<1>4. IsSequence(said)
  <2>1. said = [i \in 1..Len(node.args) |-> said[i]]
    BY <1>3
  <2> HIDE DEF said
  <2> QED BY <1>3, <2>1, Listed
<1>5. said \in Seq(ToSet(said))
  BY <1>4, OfItsOwn
<1>6. \A i \in DOMAIN said : WellFormedValue(said[i].value)
  BY <1>3, DescribedGood
<1>7. \A k \in DOMAIN u.kwargs : WellFormedValue(u.kwargs[k].value)
  BY <1>1, <1>2, DescribedGood
<1>8. u.name # None => Dotted(u.name)
  BY <1>1, OfItsOwn DEF IsDotted, Dotted
<1> HIDE DEF u, said
<1>9. WellFormed(u)
  BY <1>1, <1>5, <1>6, <1>7, <1>8 DEF WellFormed
<1> QED BY <1>9 DEF u

\* The usages of one call ...
LEMMA RecordedDelivered ==
  ASSUME Mirrored, Holds, NEW node \in Nodes, node.kind = "call"
  PROVE  \A x : Has(Recorded(node), x) => WellFormed(x)
<1> DEFINE found == TargetBindings(node.func)
           n == Len(found)
           e == [i \in DOMAIN found |-> Usage(found[i].name, found[i].confidence, node)]
           dynamic == Usage(None, DynamicConfidence, node)
<1>1. Callees(found, made, wildcards)
  BY NodeFacts, TargetGood DEF Holds
<1>2. \A i \in DOMAIN found : Known(found[i], made, wildcards)
  BY <1>1 DEF Callees, Has
<1>3. Scale \subseteq 1..100 /\ DynamicConfidence \in 1..100
  BY DEF Scale, Direct, Conditional, Multiple, Wildcard, DynamicConfidence
<1>4. Recorded(node) = IF found # <<>> THEN e
                       ELSE IF IsDynamic(node.func) THEN <<dynamic>> ELSE <<>>
  BY DEF Recorded
<1>5. \A i \in DOMAIN e : WellFormed(e[i])
  <2> SUFFICES ASSUME NEW i \in DOMAIN found
               PROVE  WellFormed(Usage(found[i].name, found[i].confidence, node))
    OBVIOUS
  <2> DEFINE b == found[i]
  <2>1. IsDotted(b.name) /\ b.confidence \in 1..100
    BY <1>2, <1>3 DEF Known
  <2> HIDE DEF b
  <2>2. WellFormed(Usage(b.name, b.confidence, node))
    BY <2>1, UsageGood
  <2> QED BY <2>2 DEF b
<1>6. WellFormed(dynamic)
  BY <1>3, UsageGood
<1> HIDE DEF e, dynamic, found
<1>7. \A x : Has(e, x) => WellFormed(x)
  BY <1>5 DEF Has
<1>8. \A x : Has(<<dynamic>>, x) => WellFormed(x)
  BY <1>6, One
<1>9. \A x : ~Has(<<>>, x)
  BY Nothing
<1> QED BY <1>4, <1>7, <1>8, <1>9

\* ... and of an assignment.
LEMMA SettingsDelivered ==
  ASSUME Walk, frames # <<>>, Top.node.kind = "assigned"
  PROVE  \A i \in 1..Len(Top.node.targets) : \A x : Has(Settings[i], x) => WellFormed(x)
<1> DEFINE argument == Described(Top.node.value)
           Told(target) ==
             /\ target.kind \in {"self", "attribute"}
             /\ argument.name # None \/ target.name \in AttributesOfInterest
           targets == Top.node.targets
           u(i) == [name |-> <<"<assign>", targets[i].name>>, confidence |-> Direct,
                    at |-> Append(PathOf(Len(frames)), -i), args |-> <<argument>>,
                    kwargs |-> <<>>, parent |-> None]
<1>1. GoodNode(Top.node) /\ Top.node \notin Nodes
  BY NodeFacts, TopFacts DEF Walk, GoodFrame
<1>2. WellFormedValue(argument.value)
  BY <1>1, DescribedGood DEF GoodNode
<1>3. \A i \in 1..Len(targets) : Settings[i] = IF Told(targets[i]) THEN <<u(i)>> ELSE <<>>
  <2>1. DOMAIN targets = 1..Len(targets)
    BY <1>1, SequenceFacts DEF GoodNode
  <2> QED BY <2>1 DEF Settings
<1>4. \A i : /\ u(i).name = <<"<assign>", targets[i].name>> /\ u(i).confidence = Direct
             /\ u(i).args = <<argument>> /\ u(i).kwargs = <<>>
  OBVIOUS
<1> HIDE DEF Told, argument
<1>5. \A i : WellFormed(u(i))
  <2> SUFFICES ASSUME NEW i PROVE WellFormed(u(i))
    BY Zenon
  <2> HIDE DEF u
  <2>2. Dotted(u(i).name)
    <3> DEFINE p == <<"<assign>", targets[i].name>>
    <3>1. p \in Seq({"<assign>", targets[i].name}) /\ p # <<>>
      OBVIOUS
    <3> HIDE DEF p
    <3>2. Dotted(p)
      BY <3>1, OfItsOwn DEF Dotted, IsSequence
    <3> QED BY <1>4, <3>2 DEF p
  <2>3. /\ u(i).args \in Seq(ToSet(u(i).args))
        /\ \A j \in DOMAIN u(i).args : WellFormedValue(u(i).args[j].value)
    <3> DEFINE said == <<argument>>
    <3>1. DOMAIN said = {1} /\ said[1] = argument
      OBVIOUS
    <3>2. IsSequence(said)
      BY One
    <3> HIDE DEF said
    <3>3. said \in Seq(ToSet(said)) /\ \A j \in DOMAIN said : WellFormedValue(said[j].value)
      BY <1>2, <3>1, <3>2, OfItsOwn
    <3> QED BY <1>4, <3>3 DEF said
  <2>4. \A k \in DOMAIN u(i).kwargs : WellFormedValue(u(i).kwargs[k].value)
    BY <1>4
  <2> QED BY <1>4, <2>2, <2>3, <2>4 DEF WellFormed, Direct
<1> HIDE DEF u
<1>6. \A i : \A x : Has(<<u(i)>>, x) => WellFormed(x)
  BY <1>5, One
<1>7. \A x : ~Has(<<>>, x)
  BY Nothing
<1> QED BY <1>3, <1>6, <1>7

\* No step reports anything else.
LEMMA DeliveredNext ==
  ASSUME Mirrored, Walk, Holds, Delivered, [Next]_vars
  PROVE  Delivered'
<1>1. CASE usages' = usages
  BY <1>1 DEF Delivered
<1>2. CASE VisitCall
  <2> DEFINE r == Recorded(Node)
  <2>1. Node \in Nodes /\ Node.kind = "call"
    BY <1>2, DueFacts DEF VisitCall, Meets
  <2>2. IsSequence(r) /\ IsSequence(usages) /\ \A x : Has(r, x) => WellFormed(x)
    BY <2>1, RecordedGood, RecordedDelivered DEF Batch, Delivered
  <2>3. usages' = usages \o r
    BY <1>2 DEF VisitCall
  <2> HIDE DEF r
  <2> QED BY <2>2, <2>3, Joined, HasJoin DEF Delivered
<1>3. CASE LeaveAssigned
  <2> DEFINE r == FlattenSeq(Settings)
             n == Len(Top.node.targets)
  <2>1. frames # <<>> /\ Top.node.kind = "assigned"
    BY <1>3 DEF LeaveAssigned, Leaves
  <2>2. /\ n \in Nat
        /\ Settings = [i \in 1..n |-> Settings[i]]
        /\ \A i \in 1..n : IsSequence(Settings[i]) /\ \A x : Has(Settings[i], x) => WellFormed(x)
    BY <2>1, SettingsGood, SettingsDelivered
  <2> HIDE DEF n
  <2>3. IsSequence(r) /\ \A x : Has(r, x) <=> \E i \in 1..n : Has(Settings[i], x)
    BY <2>2, FlattenLists
  <2>4. usages' = usages \o r
    BY <1>3 DEF LeaveAssigned, Settings
  <2> HIDE DEF r
  <2>5. IsSequence(usages) /\ \A x : Has(r, x) => WellFormed(x)
    BY <2>2, <2>3 DEF Delivered
  <2> QED BY <2>3, <2>4, <2>5, Joined, HasJoin DEF Delivered
<1>4. VisitCall \/ LeaveAssigned \/ usages' = usages
  BY DEF Next, VisitImport, VisitImportFrom, VisitTry, LeaveTry, VisitFunctionDef, LeaveFunctionDef,
     VisitClassDef, LeaveClassDef, LeaveCall, LeaveAssign, VisitOther, LeaveOther, vars
<1> QED BY <1>1, <1>2, <1>3, <1>4

\* What the analyzer hands over is what the detector takes for granted
\* (ProgramAssumption of Detector), for every tree: the theorems about the
\* detector are about the usages of real files (python_ast.py, analyze_source;
\* engine.py, detect).
THEOREM DetectorIsServed == Spec => []ServesDetector
<1>1. Init => Grounded /\ Delivered
  <2>1. Init => Delivered
    BY Nothing DEF Init, Delivered
  <2> QED BY <2>1, GroundedInit
<1>2. Grounded /\ Delivered /\ [Next]_vars => Grounded' /\ Delivered'
  BY GroundedNext, DeliveredNext DEF Grounded
<1>3. Delivered => ServesDetector
  <2> SUFFICES ASSUME Delivered PROVE ServesDetector
    OBVIOUS
  <2>1. usages \in Seq(ToSet(usages))
    BY OfItsOwn DEF Delivered
  <2>2. \A u \in ToSet(usages) : Has(usages, u)
    BY DEF ToSet, Has
  <2> QED BY <2>1, <2>2 DEF Delivered, ServesDetector
<1> QED BY <1>1, <1>2, <1>3, PTL DEF Spec
=============================================================================
