------------------------------ MODULE PythonAst ------------------------------
(***************************************************************************)
(* The walk of the syntax tree of one file: it fills the symbol table and  *)
(* reports a usage for every call it can say something about.  The visitor *)
(* is recursive; frames is its call stack, a frame for each node whose     *)
(* children are being visited.                                             *)
(*                                                                         *)
(* A statement or expression is a record with the fields its kind has:     *)
(*   import    as, name              from    level, module, name, as       *)
(*   assign    targets, value        try     body, catches, handlers       *)
(*   function  body                  class   name, body                    *)
(*   call      func, args, kwargs, body                                    *)
(*   name      parts, body           literal value, body                   *)
(*   other     body                                                        *)
(* body is what generic_visit goes through, in its order.  func is         *)
(* [parts, via]: a dotted name (None for anything else) and the methods    *)
(* chained on the calls that follow it, a.b().c().d having via <<c, d>>.   *)
(* import a, b is a node for each name.                                    *)
(***************************************************************************)
EXTENDS SymbolTable, Usages, FiniteSets

CONSTANTS
  Nodes,        \* the statements and expressions of the files
  Module,       \* the files that may be analysed, each the body of its tree
  Greatest(_)   \* the last, in the order of strings, of a set of qualified names

VARIABLES
  frames,       \* the nodes being visited, the innermost last
  importKind,   \* _import_kind
  parents,      \* _parents
  usages,
  made          \* the bindings made, and where (history)

vars == <<table, frames, importKind, parents, usages, made>>

DynamicConfidence == 20

AttributesOfInterest ==
  {"verify_mode", "check_hostname", "minimum_version", "maximum_version", "protocol"}

BuiltinsOfInterest == {"eval", "exec", "compile", "getattr", "setattr", "open", "__import__"}

-----------------------------------------------------------------------------
(***************************************************************************)
(* The stack                                                               *)
(***************************************************************************)

Children(node) ==
  CASE node.kind \in {"assign", "assigned"} -> <<node.value>>
    [] node.kind = "try"                    -> node.body \o node.handlers
    [] node.kind \in {"import", "from"}     -> <<>>
    [] OTHER                                -> node.body

\* What the parser of the language makes sure of.  An expression may have no
\* dotted name.
ASSUME TreeAssumption ==
  /\ Module \subseteq Seq(Nodes)
  /\ \A n \in Nodes :
       /\ Children(n) \in Seq(Nodes)
       /\ n.kind \in {"import", "from", "try", "function", "class", "call", "assign", "name",
                      "literal", "other"}
       /\ n.kind = "import" => Dotted(n.name)
       /\ n.kind = "from" => n.level \in Nat /\ n.module \in Seq(ToSet(n.module))
       /\ n.kind = "class" => n.name # None
       /\ n.kind = "assign" => n.value \in Nodes /\ n.targets \in Seq(ToSet(n.targets))
       /\ n.kind = "name" /\ n.parts # None => Dotted(n.parts)
       /\ n.kind = "call" => /\ n.func.parts # None => Dotted(n.func.parts)
                             /\ n.func.via \in Seq(ToSet(n.func.via))
                             /\ n.args \in Seq(Nodes)
                             /\ \A k \in DOMAIN n.kwargs : n.kwargs[k] \in Nodes
       /\ n.kind = "literal" => WellFormedValue(n.value)

\* The path of a package is a list of names.
ASSUME PackageAssumption == Package # None => Package \in Seq(ToSet(Package))

Frame(node, kind) == [node |-> node, rest |-> Children(node), saved |-> kind]

Top == frames[Len(frames)]
Node == Head(Top.rest)

Meets(kinds) == frames # <<>> /\ Top.rest # <<>> /\ Node.kind \in kinds
Leaves(kinds) == frames # <<>> /\ Top.rest = <<>> /\ Top.node.kind \in kinds

Advanced == [frames EXCEPT ![Len(frames)].rest = Tail(@)]
Entered == Append(Advanced, Frame(Node, importKind))
Left == SubSeq(frames, 1, Len(frames) - 1)

\* Where a frame is in the tree.
PathOf(depth) ==
  [i \in 1..depth - 1 |-> Len(Children(frames[i].node)) - Len(frames[i].rest)]

\* Where the node is that is visited next.
Here == Append(PathOf(Len(frames)), Len(Children(Top.node)) - Len(Top.rest) + 1)

\* The frame of the innermost open block of these kinds, 0 for none.
Innermost(kinds) ==
  LET open == {i \in DOMAIN frames : frames[i].node.kind \in kinds}
  IN IF open = {} THEN 0 ELSE CHOOSE i \in open : \A j \in open : j <= i

ScopeKinds == {"module", "function", "class"}

\* The history of a binding: the block it was made in, a scope or a class.
Made(kinds, names, bindings) ==
  LET open == Innermost(kinds)
  IN [kinds |-> kinds, block |-> PathOf(open), names |-> names, bindings |-> bindings,
      class |-> IF open # 0 /\ kinds = {"class"} THEN frames[open].node.name ELSE None]

-----------------------------------------------------------------------------
(***************************************************************************)
(* What an expression is                                                   *)
(***************************************************************************)

\* A call of a method on the result of a resolved call; a builtin that is not
\* bound; a call of anything else is dynamic only where it has no dotted name.
\* Mutant: chained calls are not followed.
MutChainsLost(func) == IF func.via = <<>> THEN Resolve(func.parts) ELSE <<>>

TargetBindings(func) ==
  LET found == Resolve(func.parts)
      base  == IF found = <<>> /\ func.parts # None /\ Len(func.parts) = 1
                  /\ Head(func.parts) \in BuiltinsOfInterest
               THEN <<Binding(func.parts, "import", Direct)>> ELSE found
  IN IF func.via = <<>> THEN base
     ELSE [i \in DOMAIN base |-> Binding(base[i].name \o func.via, "instance", base[i].confidence)]

IsDynamic(func) ==
  TargetBindings(func) = <<>> /\ (func.parts = None \/ func.via # <<>>)

BestName(parts) ==
  LET found == Resolve(parts)
      best  == {found[i].name : i \in {j \in DOMAIN found :
                  \A k \in DOMAIN found : found[k].confidence <= found[j].confidence}}
  IN IF found = <<>> THEN None ELSE Greatest(best)

\* A dotted name, of an expression or of what it calls.
DottedName(node) ==
  CASE node.kind = "name" -> node.parts
    [] node.kind = "call" /\ node.func.via = <<>> -> node.func.parts
    [] OTHER -> None

Described(node) ==
  [name  |-> BestName(DottedName(node)),
   value |-> IF node.kind = "literal" THEN node.value ELSE None]

Usage(name, confidence, node) ==
  [name |-> name, confidence |-> confidence, at |-> Here,
   args |-> [i \in DOMAIN node.args |-> Described(node.args[i])],
   kwargs |-> [k \in DOMAIN node.kwargs |-> Described(node.kwargs[k])],
   parent |-> IF parents = <<>> THEN None ELSE parents[Len(parents)]]

\* One usage for each binding of what is called.
Recorded(node) ==
  LET found == TargetBindings(node.func)
  IN IF found # <<>>
     THEN [i \in DOMAIN found |-> Usage(found[i].name, found[i].confidence, node)]
     ELSE IF IsDynamic(node.func) THEN <<Usage(None, DynamicConfidence, node)>>
     ELSE <<>>

\* The name a call is the parent of its arguments by: that of its first usage.
\* Mutant: that of its last.
MutLastName(node) ==
  LET all == Recorded(node) IN IF all = <<>> THEN None ELSE all[Len(all)].name

ParentName(node) == IF Recorded(node) = <<>> THEN None ELSE Recorded(node)[1].name

ValueBindings(value) ==
  LET found == Resolve(DottedName(value))
  IN IF value.kind # "call" THEN found
     ELSE [i \in DOMAIN found |-> Binding(found[i].name, "instance", found[i].confidence)]

\* What a target is bound to; the target may be a name or an attribute of self.
\* Mutant: the target is trusted fully.
MutForgetsDoubt(bindings, kind) ==
  IF bindings = <<>> THEN <<Opaque>>
  ELSE [i \in DOMAIN bindings |-> Binding(bindings[i].name, kind, Direct)]

Carried(bindings, kind) ==
  IF bindings = <<>> THEN <<Opaque>>
  ELSE [i \in DOMAIN bindings |->
          [bindings[i] EXCEPT !.kind = IF @ = "instance" THEN @ ELSE kind]]

-----------------------------------------------------------------------------
Init ==
  /\ InitTable
  /\ \E body \in Module :
       frames = <<Frame([kind |-> "module", body |-> body], "import")>>
  /\ importKind = "import"
  /\ parents = <<>>
  /\ usages = <<>>
  /\ made = <<>>

BindNames(names, bindings) ==
  /\ scopes' = Bound(names, bindings)
  /\ made' = Append(made, Made(ScopeKinds, names, bindings))

VisitImport ==
  /\ Meets({"import"})
  /\ frames' = Advanced
  /\ LET n == Node
         binding == Binding(IF n.as # None THEN n.name ELSE SubSeq(n.name, 1, 1),
                            importKind, ImportConfidence(importKind))
     IN BindNames({IF n.as # None THEN n.as ELSE Head(n.name)}, <<binding>>)
  /\ UNCHANGED <<classAttributes, classStack, wildcards, importKind, parents, usages>>

VisitImportFrom ==
  /\ Meets({"from"})
  /\ frames' = Advanced
  /\ LET n == Node
         module == AbsoluteModule(n.level, n.module)
         bound == IF n.as # None THEN n.as ELSE n.name
     IN IF n.name = "*" /\ module # None
        THEN /\ wildcards' = IF \E i \in DOMAIN wildcards : wildcards[i] = module
                             THEN wildcards ELSE Append(wildcards, module)
             /\ UNCHANGED <<scopes, made>>
        ELSE /\ BindNames({bound},
                  <<IF module = None THEN UnresolvedRelative
                    ELSE Binding(Append(module, n.name), importKind,
                                 ImportConfidence(importKind))>>)
             /\ UNCHANGED wildcards
  /\ UNCHANGED <<classAttributes, classStack, importKind, parents, usages>>

\* An import in the body of the try, and a handler for its failure.
IsConditionalImport(node) ==
  /\ \E i \in DOMAIN node.body : node.body[i].kind \in {"import", "from"}
  /\ node.catches \in {"everything", "import_error"}

\* The handlers, and whatever is nested in the try, are visited under its kind.
VisitTry ==
  /\ Meets({"try"})
  /\ frames' = Entered
  /\ importKind' = IF IsConditionalImport(Node) THEN "conditional_import" ELSE importKind
  /\ UNCHANGED <<table, parents, usages, made>>

\* Mutant: the kind is not put back.
MutKindKept == importKind

KindBefore == Top.saved

LeaveTry ==
  /\ Leaves({"try"})
  /\ frames' = Left
  /\ importKind' = KindBefore
  /\ UNCHANGED <<table, parents, usages, made>>

VisitFunctionDef ==
  /\ Meets({"function"})
  /\ frames' = Entered
  /\ scopes' = Pushed
  /\ UNCHANGED <<classAttributes, classStack, wildcards, importKind, parents, usages, made>>

LeaveFunctionDef ==
  /\ Leaves({"function"})
  /\ frames' = Left
  /\ scopes' = Popped
  /\ UNCHANGED <<classAttributes, classStack, wildcards, importKind, parents, usages, made>>

VisitClassDef ==
  /\ Meets({"class"})
  /\ frames' = Entered
  /\ classStack' = Append(classStack, Node.name)
  /\ classAttributes' = ClassEntered(Node.name)
  /\ scopes' = Pushed
  /\ UNCHANGED <<wildcards, importKind, parents, usages, made>>

LeaveClassDef ==
  /\ Leaves({"class"})
  /\ frames' = Left
  /\ scopes' = Popped
  /\ classStack' = ClassExited
  /\ UNCHANGED <<classAttributes, wildcards, importKind, parents, usages, made>>

VisitCall ==
  /\ Meets({"call"})
  /\ frames' = Entered
  /\ usages' = usages \o Recorded(Node)
  /\ parents' = Append(parents, ParentName(Node))
  /\ UNCHANGED <<table, importKind, made>>

\* Mutant: the parent stays.
MutParentKept == parents

ParentLeft == SubSeq(parents, 1, Len(parents) - 1)

LeaveCall ==
  /\ Leaves({"call"})
  /\ frames' = Left
  /\ parents' = ParentLeft
  /\ UNCHANGED <<table, importKind, usages, made>>

\* Everything else is only gone through; an assignment's value is visited before
\* its targets are bound.
VisitOther ==
  /\ Meets({"assign", "name", "literal", "other"})
  /\ frames' = Entered
  /\ UNCHANGED <<table, importKind, parents, usages, made>>

LeaveOther ==
  /\ Leaves({"module", "name", "literal", "other"})
  /\ frames' = Left
  /\ UNCHANGED <<table, importKind, parents, usages, made>>

\* The targets of the assignment are bound; what sets an attribute is still to
\* report.
Assigned(node) == [kind |-> "assigned", targets |-> node.targets, value |-> node.value]

\* The value has been visited; an attribute of another object is not bound, nor
\* is a tuple.
LeaveAssign ==
  /\ Leaves({"assign"})
  /\ frames' = [frames EXCEPT ![Len(frames)].node = Assigned(@)]
  /\ LET targets    == Top.node.targets
         names      == {targets[i].name : i \in {j \in DOMAIN targets : targets[j].kind = "name"}}
         attributes == {targets[i].name : i \in {j \in DOMAIN targets : targets[j].kind = "self"}}
         found      == ValueBindings(Top.node.value)
         toNames    == Carried(found, "assignment")
         toSelf     == Carried(found, "class_attribute")
     IN /\ scopes' = Bound(names, toNames)
        /\ classAttributes' = AttributesBound(attributes, toSelf)
        /\ made' = made \o <<Made(ScopeKinds, names, toNames), Made({"class"}, attributes, toSelf)>>
  /\ UNCHANGED <<classStack, wildcards, importKind, parents, usages>>

\* Setting an attribute is a usage where its value has a name or the attribute
\* is one of interest.  The targets are bound by now.
LeaveAssigned ==
  /\ Leaves({"assigned"})
  /\ frames' = Left
  /\ LET argument == Described(Top.node.value)
         Reported(target) ==
           /\ target.kind \in {"self", "attribute"}
           /\ argument.name # None \/ target.name \in AttributesOfInterest
         targets == Top.node.targets
     IN usages' = usages \o FlattenSeq(
          [i \in DOMAIN targets |->
             IF Reported(targets[i])
             THEN <<[name |-> <<"<assign>", targets[i].name>>, confidence |-> Direct,
                     at |-> Append(PathOf(Len(frames)), -i), args |-> <<argument>>,
                     kwargs |-> <<>>, parent |-> None]>>
             ELSE <<>>])
  /\ UNCHANGED <<table, importKind, parents, made>>

Next ==
  \/ VisitImport \/ VisitImportFrom
  \/ VisitTry \/ LeaveTry
  \/ VisitFunctionDef \/ LeaveFunctionDef
  \/ VisitClassDef \/ LeaveClassDef
  \/ VisitCall \/ LeaveCall
  \/ LeaveAssign \/ LeaveAssigned
  \/ VisitOther \/ LeaveOther

Spec == Init /\ [][Next]_vars

Returned == frames = <<>>

-----------------------------------------------------------------------------
(***************************************************************************)
(* Properties                                                              *)
(***************************************************************************)

Count(kinds) == Cardinality({i \in DOMAIN frames : frames[i].node.kind \in kinds})

\* The stacks mirror the nesting of the nodes being visited, so that at the end
\* nothing is left open (symbol_table.py, visit_FunctionDef, visit_ClassDef;
\* python_ast.py, visit_Call).
TypeOK ==
  /\ Len(scopes) = 1 + Count({"function", "class"})
  /\ Len(classStack) = Count({"class"})
  /\ Len(parents) = Count({"call"})
  /\ \A i \in DOMAIN classStack : classStack[i] \in DOMAIN classAttributes
  /\ importKind \in {"import", "conditional_import"}

\* What was bound to a name in a block, in the order of the source.
MadeIn(kinds, block, name) ==
  FlattenSeq([n \in DOMAIN made |->
    IF made[n].kinds = kinds /\ made[n].block = block /\ name \in made[n].names
    THEN made[n].bindings ELSE <<>>])

NamesMade == UNION {made[i].names : i \in DOMAIN made}

\* The stack of dicts implements lexical scoping: a name means what the innermost
\* open block that has bound it so far has bound it to, and nothing that was
\* bound in a block since closed (symbol_table.py, lookup;
\* test_the_import_is_restored_after_the_shadowing_scope_exits).
LookupIsLexical ==
  \A name \in NamesMade :
    LET holders == {i \in DOMAIN frames : frames[i].node.kind \in ScopeKinds
                                          /\ MadeIn(ScopeKinds, PathOf(i), name) # <<>>}
        holder == CHOOSE i \in holders : \A j \in holders : j <= i
    IN frames # <<>> =>
         Lookup(name) = IF holders = {} THEN <<>>
                        ELSE MadeIn(ScopeKinds, PathOf(holder), name)

\* Outside a class self means nothing; inside one, an attribute of self has the
\* bindings made in this class and no others
\* (test_self_attribute_does_not_leak_across_classes), in a file where no other
\* class of the same name has bound attributes: those are shared.
AttributesStayInClass ==
  LET open == Innermost({"class"})
      Held(name) == IF classStack = <<>> THEN <<>>
                    ELSE Get(classAttributes[classStack[Len(classStack)]], name)
      Shared(m) == m.class = frames[open].node.name /\ m.block # PathOf(open)
  IN \A name \in NamesMade :
       IF open = 0 THEN Held(name) = <<>>
       ELSE (\A i \in DOMAIN made : ~Shared(made[i])) =>
              Held(name) = MadeIn({"class"}, PathOf(open), name)

\* Imports are conditional exactly inside a try that guards an import, however
\* the tries are nested and whatever is defined inside them (visit_Try).
KindFollowsNesting ==
  importKind = "conditional_import" <=>
    \E i \in DOMAIN frames : frames[i].node.kind = "try" /\ IsConditionalImport(frames[i].node)

StartsWith(p, s) == Len(p) <= Len(s) /\ SubSeq(s, 1, Len(p)) = p

\* No name out of nothing: a usage with a name is of a builtin, or comes from an
\* import that was visited before it, through whatever assignments, and is
\* trusted no more than that import (resolve, _extend, _carried_kind).
TracedToImport ==
  \A u \in {usages[i] : i \in DOMAIN usages} :
    \/ u.name = None
    \/ Head(u.name) = "<assign>"
    \/ Head(u.name) \in BuiltinsOfInterest
    \/ \E i \in DOMAIN made : \E j \in DOMAIN made[i].bindings :
         LET b == made[i].bindings[j]
         IN /\ b.kind \in {"import", "conditional_import"}
            /\ StartsWith(b.name, u.name)
            /\ u.confidence <= b.confidence
    \/ \E i \in DOMAIN wildcards :
         StartsWith(wildcards[i], u.name) /\ u.confidence <= Wildcard

\* A call that may be of two things is certainly of neither: no confidence above
\* that of a conditional import; and no confidence is out of the scale
\* (CONFIDENCE_MULTIPLE).
AmbiguityIsNeverCertain ==
  /\ \A i \in DOMAIN usages : usages[i].confidence \in {Direct, Conditional, Multiple, Wildcard,
                                                    DynamicConfidence}
  /\ \A i, j \in DOMAIN usages :
       i # j /\ usages[i].at = usages[j].at =>
         usages[i].confidence <= Conditional

\* The parent of a call is the call it is an argument of, or a method of, as that
\* was reported: the table does not change while an expression is visited
\* (python_ast.py, visit_Call).
ParentIsEnclosingCall ==
  LET At(path) == {i \in DOMAIN usages : usages[i].at = path}
  IN \A d \in DOMAIN frames : frames[d].node.kind = "call" =>
       LET k == Cardinality({i \in 1..d : frames[i].node.kind = "call"})
           reported == At(PathOf(d))
       IN parents[k] = IF reported = {} THEN None
                       ELSE usages[CHOOSE i \in reported : \A j \in reported : i <= j].name
=============================================================================
