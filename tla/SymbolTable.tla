----------------------------- MODULE SymbolTable -----------------------------
(***************************************************************************)
(* The names of one source file: a stack of scopes, the attributes of      *)
(* self, kept under the name of the class, and the modules imported with   *)
(* a star.  A name may have several bindings, in the order they were made: *)
(* nothing is ever replaced, an ambiguous name is resolved to all of them  *)
(* with less confidence.                                                   *)
(*                                                                         *)
(* A qualified name is the tuple of its parts; so is the expression a.b.c. *)
(***************************************************************************)
EXTENDS Model, SequencesExt

CONSTANTS
  Package,      \* the package of the file, None outside the scan root
  CryptoName    \* the names a star import is taken to bring

VARIABLES
  scopes,            \* sequence of: name -> its bindings
  classAttributes,   \* class name -> attribute -> its bindings
  classStack,        \* the classes being visited, by name
  wildcards          \* the modules imported with a star

table == <<scopes, classAttributes, classStack, wildcards>>

Direct == 100
Conditional == 60
Multiple == 50
Wildcard == 40

BindingKind ==
  {"import", "conditional_import", "assignment", "instance", "class_attribute",
   "wildcard", "opaque", "unresolved_relative"}

Binding(name, kind, confidence) == [name |-> name, kind |-> kind, confidence |-> confidence]

Opaque == Binding(None, "opaque", 0)

UnresolvedRelative == Binding(<<"<unresolved-relative>">>, "unresolved_relative", 0)

Resolvable(b) == b.name # None /\ b.kind \notin {"opaque", "unresolved_relative"}

InitTable == scopes = <<<<>>>> /\ classAttributes = <<>> /\ classStack = <<>> /\ wildcards = <<>>

-----------------------------------------------------------------------------
(***************************************************************************)
(* Scopes and classes.  A binding never leaves the innermost scope.        *)
(***************************************************************************)

Get(dict, key) == IF key \in DOMAIN dict THEN dict[key] ELSE <<>>

\* dict[key].extend(bindings) for each of the keys.
Extended(dict, keys, bindings) ==
  [k \in DOMAIN dict \cup keys |-> Get(dict, k) \o (IF k \in keys THEN bindings ELSE <<>>)]

Bound(names, bindings) ==
  [scopes EXCEPT ![Len(scopes)] = Extended(@, names, bindings)]

\* Outside a class nothing is bound.
AttributesBound(names, bindings) ==
  IF classStack = <<>> THEN classAttributes
  ELSE [classAttributes EXCEPT ![classStack[Len(classStack)]] = Extended(@, names, bindings)]

Pushed == Append(scopes, <<>>)

\* Mutant: the scope of a function outlives it.
MutNotPopped == scopes

Popped == IF Len(scopes) > 1 THEN SubSeq(scopes, 1, Len(scopes) - 1) ELSE scopes

\* The attributes of an earlier class of that name are still there.
ClassEntered(name) ==
  [c \in DOMAIN classAttributes \cup {name} |-> Get(classAttributes, c)]

\* Mutant: the name of the outermost class stays.
MutClassKept == SubSeq(classStack, 1, 1)

ClassExited == IF classStack = <<>> THEN <<>> ELSE SubSeq(classStack, 1, Len(classStack) - 1)

-----------------------------------------------------------------------------
(***************************************************************************)
(* Resolution                                                              *)
(***************************************************************************)

\* Innermost scope first.
Lookup(name) ==
  LET holders == {i \in DOMAIN scopes : name \in DOMAIN scopes[i]}
  IN IF holders = {} THEN <<>>
     ELSE scopes[CHOOSE i \in holders : \A j \in holders : j <= i][name]

Capped(confidence) == IF confidence < Multiple THEN confidence ELSE Multiple

Usable(bindings) ==
  FlattenSeq([i \in DOMAIN bindings |-> IF Resolvable(bindings[i]) THEN <<bindings[i]>> ELSE <<>>])

\* More than one binding that can be resolved: no more than half the confidence,
\* unless they are the alternatives of conditional imports.  Mutant: no cap.
MutUncapped(bindings, rest) ==
  LET usable == Usable(bindings)
  IN [i \in DOMAIN usable |-> [usable[i] EXCEPT !.name = @ \o rest]]

Extend(bindings, rest) ==
  LET usable == Usable(bindings)
      ambiguous == /\ Len(usable) > 1
                   /\ \E i \in DOMAIN usable : usable[i].kind # "conditional_import"
  IN [i \in DOMAIN usable |->
        Binding(usable[i].name \o rest, usable[i].kind,
                IF ambiguous THEN Capped(usable[i].confidence) ELSE usable[i].confidence)]

ThroughWildcard(parts) ==
  IF Head(parts) \notin CryptoName THEN <<>>
  ELSE [i \in DOMAIN wildcards |-> Binding(wildcards[i] \o parts, "wildcard", Wildcard)]

OnSelf(parts) == Head(parts) = "self" /\ Len(parts) > 1 /\ classStack # <<>>

\* A name that is bound hides what a star import may have brought, even where
\* its binding says nothing.
Resolve(parts) ==
  IF parts = None THEN <<>>
  ELSE IF OnSelf(parts)
  THEN Extend(Get(classAttributes[classStack[Len(classStack)]], parts[2]),
              SubSeq(parts, 3, Len(parts)))
  ELSE LET found == Lookup(Head(parts))
       IN IF found = <<>> THEN ThroughWildcard(parts) ELSE Extend(found, Tail(parts))

-----------------------------------------------------------------------------
(***************************************************************************)
(* Imports                                                                 *)
(***************************************************************************)

ImportConfidence(kind) == IF kind = "conditional_import" THEN Conditional ELSE Direct

\* The module an import from names: one dot is the package itself, each further
\* dot its parent, and the scan root has no name.
AbsoluteModule(level, module) ==
  IF level = 0 THEN module
  ELSE IF Package = None \/ level - 1 > Len(Package) THEN None
  ELSE LET full == SubSeq(Package, 1, Len(Package) - (level - 1)) \o module
       IN IF full = <<>> THEN None ELSE full
=============================================================================
