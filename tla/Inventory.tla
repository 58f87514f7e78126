------------------------------ MODULE Inventory ------------------------------
(***************************************************************************)
(* What deduplication promises, without saying how it is done: every       *)
(* finding is filed exactly once, under its key, in some order, and        *)
(* nothing already filed is ever lost or moved.                            *)
(***************************************************************************)
EXTENDS Integers

CONSTANTS
  Finding,
  KeyOf(_),      \* the asset a finding belongs to
  EntryOf(_)     \* what is kept of it

VARIABLES
  waiting,    \* how many copies of each finding are still to be filed
  filed       \* key -> the bag of the entries filed under it

vars == <<waiting, filed>>

\* The bag b with one more e.
With(b, e) ==
  [x \in DOMAIN b \cup {e} |-> (IF x \in DOMAIN b THEN b[x] ELSE 0) + (IF x = e THEN 1 ELSE 0)]

Init ==
  /\ waiting \in [Finding -> Nat]
  /\ filed = <<>>

File(f) ==
  /\ waiting[f] > 0
  /\ waiting' = [waiting EXCEPT ![f] = @ - 1]
  /\ filed' = [k \in DOMAIN filed \cup {KeyOf(f)} |->
                 IF k # KeyOf(f) THEN filed[k]
                 ELSE With(IF k \in DOMAIN filed THEN filed[k] ELSE <<>>, EntryOf(f))]

Next == \E f \in Finding : File(f)

Spec == Init /\ [][Next]_vars
=============================================================================
