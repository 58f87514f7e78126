-------------------------------- MODULE Search --------------------------------
(***************************************************************************)
(* What discovery promises, without saying how a disk is walked: each file *)
(* it takes is one it looks for at the moment it is taken, none is taken   *)
(* twice, and it is not finished before every file is taken that was there *)
(* to be found all the time.                                               *)
(***************************************************************************)
EXTENDS Sequences

CONSTANT File

VARIABLES
  eligible,   \* the files to look for that exist now
  due,        \* those that existed all the time and must be taken
  taken,      \* the files taken, in order
  finished

vars == <<eligible, due, taken, finished>>

Taken == {taken[i] : i \in DOMAIN taken}

Init ==
  /\ eligible \subseteq File
  /\ due \subseteq eligible
  /\ taken = <<>>
  /\ finished = FALSE

\* The world changes; what is new is not due.
Change ==
  /\ ~finished
  /\ eligible' \subseteq File
  /\ due' \subseteq due \cap eligible'
  /\ UNCHANGED <<taken, finished>>

Take(p) ==
  /\ ~finished
  /\ p \in eligible \ Taken
  /\ taken' = Append(taken, p)
  /\ UNCHANGED <<eligible, due, finished>>

Finish ==
  /\ ~finished
  /\ due \subseteq Taken
  /\ finished' = TRUE
  /\ UNCHANGED <<eligible, due, taken>>

Next == Change \/ Finish \/ \E p \in File : Take(p)

Spec == Init /\ [][Next]_vars
=============================================================================
