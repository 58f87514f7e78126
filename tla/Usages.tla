------------------------------- MODULE Usages -------------------------------
(***************************************************************************)
(* What the analyzer hands to the detector.  A usage is a call: name is    *)
(* its qualified name, a tuple of segments, or None if it could not be     *)
(* resolved; parent is the name of the call it is nested in; args and      *)
(* kwargs say what the analyzer could tell of each argument: the name it   *)
(* resolves to, or its literal value tagged with its type (<<"str", s>>,   *)
(* <<"list", names>>, <<"int", n>>, <<"bool", b>>, <<"dict", function>>).  *)
(* Confidences are percentages.                                            *)
(***************************************************************************)
EXTENDS Python, Integers, SequencesExt

IsA(type, value) == value # None /\ value[1] = type

\* A dotted name has a part or more.
Dotted(parts) == parts \in Seq(ToSet(parts)) /\ parts # <<>>

\* An integer is one, and of a list the strings in it are said.
WellFormedValue(value) ==
  /\ IsA("int", value) => value[2] \in Int
  /\ IsA("list", value) => value[2] \in Seq(ToSet(value[2]))

\* A name that is resolved has parts, and no confidence is out of the scale.
WellFormed(u) ==
  /\ u.name # None => Dotted(u.name)
  /\ u.confidence \in 1..100
  /\ u.args \in Seq(ToSet(u.args))
  /\ \A i \in DOMAIN u.args : WellFormedValue(u.args[i].value)
  /\ \A k \in DOMAIN u.kwargs : WellFormedValue(u.kwargs[k].value)
=============================================================================
