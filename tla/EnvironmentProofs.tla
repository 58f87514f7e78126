-------------------------- MODULE EnvironmentProofs --------------------------
(***************************************************************************)
(* Theorems about the two parts that meet what the program does not        *)
(* control.  For every disk, every set of names to ignore and any number   *)
(* of changes, the walk is well formed, stays in the project, and          *)
(* implements Search.  For every library, every catalogue and every way an *)
(* import may end, the bridge to liboqs contains it.                       *)
(***************************************************************************)
EXTENDS Discovery, LiboqsBridge, TLAPS

Path == DOMAIN Disk

-----------------------------------------------------------------------------
(***************************************************************************)
(* Paths                                                                   *)
(***************************************************************************)

\* A path is a sequence: it has a length and is determined by its parts.
LEMMA PathIsSequence ==
  ASSUME NEW p \in Path
  PROVE  /\ Len(p) \in Nat
         /\ DOMAIN p = 1..Len(p)
         /\ p \in Seq({p[i] : i \in DOMAIN p})
BY DiskAssumption DEF Path

\* The empty path is the one of length 0.
LEMMA RootIsEmpty ==
  ASSUME NEW p \in Path
  PROVE  p = <<>> <=> Len(p) = 0
BY PathIsSequence

\* The prefix of length n of a path, part by part.
LEMMA PrefixParts ==
  ASSUME NEW p \in Path, NEW n \in 0..Len(p)
  PROVE  /\ Len(SubSeq(p, 1, n)) = n
         /\ \A i \in 1..n : SubSeq(p, 1, n)[i] = p[i]
         /\ SubSeq(p, 1, n) \in Seq({p[i] : i \in DOMAIN p})
BY PathIsSequence

\* Two paths that agree in length and in every part are the same.
LEMMA SamePath ==
  ASSUME NEW S, NEW T, NEW p \in Seq(S), NEW q \in Seq(T), Len(p) = Len(q),
         \A i \in 1..Len(p) : p[i] = q[i]
  PROVE  p = q
<1>1. p \in Seq(S \cup T) /\ q \in Seq(S \cup T)
  OBVIOUS
<1> QED BY <1>1

\* Under, part by part.
LEMMA UnderParts ==
  ASSUME NEW q \in Path, NEW p \in Path
  PROVE  Under(q, p) <=> Len(p) <= Len(q) /\ \A i \in 1..Len(p) : q[i] = p[i]
<1>1. ASSUME Under(q, p)
      PROVE  Len(p) <= Len(q) /\ \A i \in 1..Len(p) : q[i] = p[i]
  <2>1. Len(p) \in 0..Len(q) /\ SubSeq(q, 1, Len(p)) = p
    BY <1>1, PathIsSequence DEF Under
  <2> QED BY <2>1, PrefixParts
<1>2. ASSUME Len(p) <= Len(q), \A i \in 1..Len(p) : q[i] = p[i]
      PROVE  Under(q, p)
  <2>1. Len(p) \in 0..Len(q)
    BY <1>2, PathIsSequence
  <2> DEFINE r == SubSeq(q, 1, Len(p))
  <2>2. /\ r \in Seq({q[i] : i \in DOMAIN q}) /\ Len(r) = Len(p)
        /\ \A i \in 1..Len(p) : r[i] = q[i]
    BY <2>1, PrefixParts
  <2>3. p \in Seq({p[i] : i \in DOMAIN p})
    BY PathIsSequence
  <2> HIDE DEF r
  <2>4. r = p
    BY <1>2, <2>2, <2>3, SamePath
  <2> QED BY <1>2, <2>4 DEF Under, r
<1> QED BY <1>1, <1>2

\* The parent of a path, part by part.
LEMMA ParentParts ==
  ASSUME NEW p \in Path, p # <<>>
  PROVE  /\ Len(Parent(p)) = Len(p) - 1
         /\ \A i \in 1..(Len(p) - 1) : Parent(p)[i] = p[i]
         /\ Parent(p) \in Seq({p[i] : i \in DOMAIN p})
         /\ Len(p) >= 1
<1>1. Len(p) \in Nat /\ Len(p) # 0
  BY PathIsSequence, RootIsEmpty
<1> DEFINE n == Len(p) - 1
<1>2. n \in 0..Len(p)
  BY <1>1
<1> HIDE DEF n
<1>3. /\ Len(SubSeq(p, 1, n)) = n
      /\ \A i \in 1..n : SubSeq(p, 1, n)[i] = p[i]
      /\ SubSeq(p, 1, n) \in Seq({p[i] : i \in DOMAIN p})
  BY <1>2, PrefixParts
<1> QED BY <1>1, <1>3 DEF Parent, n

\* What a path lies under, its parent lies under too, or it is the path itself.
LEMMA UnderChild ==
  ASSUME NEW p \in Path, p # <<>>, NEW d \in Path, Parent(p) = d, NEW e \in Path
  PROVE  /\ Under(p, d)
         /\ Under(p, e) => p = e \/ Under(d, e)
         /\ Under(e, p) => Under(e, d)
         /\ Under(d, e) => Under(p, e)
<1>2. Len(p) \in Nat /\ Len(d) \in Nat /\ Len(e) \in Nat
  BY PathIsSequence
<1>1. Len(p) = Len(d) + 1 /\ \A i \in 1..Len(d) : d[i] = p[i]
  <2>1. /\ Len(d) = Len(p) - 1
        /\ \A i \in 1..(Len(p) - 1) : d[i] = p[i]
    BY ParentParts
  <2> QED BY <1>2, <2>1
<1>3. Under(p, d)
  BY <1>1, <1>2, UnderParts
<1>4. ASSUME Under(p, e), p # e PROVE Under(d, e)
  <2>1. Len(e) <= Len(p) /\ \A i \in 1..Len(e) : p[i] = e[i]
    BY <1>4, UnderParts
  <2>2. Len(e) # Len(p)
    BY <1>4, <2>1, SamePath, PathIsSequence
  <2> QED BY <1>1, <1>2, <2>1, <2>2, UnderParts
<1>5. ASSUME Under(e, p) PROVE Under(e, d)
  BY <1>1, <1>2, <1>5, UnderParts
<1>6. ASSUME Under(d, e) PROVE Under(p, e)
  BY <1>1, <1>2, <1>6, UnderParts
<1> QED BY <1>3, <1>4, <1>5, <1>6

\* Of two entries of one directory neither lies under the other.
LEMMA UnderSibling ==
  ASSUME NEW p \in Path, p # <<>>, NEW q \in Path, q # <<>>,
         NEW d \in Path, Parent(p) = d, Parent(q) = d, Under(p, q)
  PROVE  p = q
<1>1. Len(p) = Len(q)
  <2>1. Len(p) - 1 = Len(q) - 1
    BY ParentParts
  <2> QED BY <2>1, PathIsSequence
<1>2. \A i \in 1..Len(q) : p[i] = q[i]
  BY UnderParts
<1> QED BY <1>1, <1>2, SamePath, PathIsSequence
-----------------------------------------------------------------------------
(***************************************************************************)
(* The walk is well formed                                                 *)
(***************************************************************************)

\* What a sequence holds after an element is appended, and where.
LEMMA AppendType ==
  ASSUME NEW S, NEW s \in Seq(S), NEW x \in S
  PROVE  Append(s, x) \in Seq(S)
OBVIOUS

\* Appending gives what was there and the new element, and nothing else,
LEMMA AppendHolds ==
  ASSUME NEW S, NEW s \in Seq(S), NEW x \in S
  PROVE  \A i \in DOMAIN Append(s, x) :
           Append(s, x)[i] = x \/ (i \in DOMAIN s /\ Append(s, x)[i] = s[i])
OBVIOUS

\* keeps every element at its place,
LEMMA AppendKeeps ==
  ASSUME NEW S, NEW s \in Seq(S), NEW x \in S
  PROVE  \A i \in DOMAIN s : i \in DOMAIN Append(s, x) /\ Append(s, x)[i] = s[i]
OBVIOUS

\* and does add the new one.
LEMMA AppendAdds ==
  ASSUME NEW S, NEW s \in Seq(S), NEW x \in S
  PROVE  \E i \in DOMAIN Append(s, x) : Append(s, x)[i] = x
<1>1. Len(s) + 1 \in DOMAIN Append(s, x) /\ Append(s, x)[Len(s) + 1] = x
  OBVIOUS
<1> QED BY <1>1

\* What has been found after one more file.
LEMMA FoundHolds ==
  ASSUME found \in Seq(Path), NEW p \in Path, found' = Append(found, p)
  PROVE  \A i \in DOMAIN found' : found'[i] = p \/ (i \in DOMAIN found /\ found'[i] = found[i])
BY AppendHolds

\* What was found stays found,
LEMMA FoundKeeps ==
  ASSUME found \in Seq(Path), NEW p \in Path, found' = Append(found, p)
  PROVE  \A i \in DOMAIN found : i \in DOMAIN found' /\ found'[i] = found[i]
BY AppendKeeps

\* and what is taken is found.
LEMMA FoundAdds ==
  ASSUME found \in Seq(Path), NEW p \in Path, found' = Append(found, p)
  PROVE  \E i \in DOMAIN found' : found'[i] = p
BY AppendAdds

\* A directory that can be listed has entries that lie in it.
LEMMA ChildrenLieIn ==
  ASSUME TypeOK, NEW d, NEW p \in Children(d)
  PROVE  p \in Path /\ p # <<>> /\ Parent(p) = d
BY DEF TypeOK, Children, Path

\* Other programs remove whole directories and restore only what has a parent.
LEMMA ChangeKeepsTree ==
  ASSUME TypeOK, NEW p \in Path, Remove(p) \/ Restore(p)
  PROVE  tree' \subseteq Path /\ PrefixClosed(tree')
<1>1. CASE Remove(p)
  <2>1. tree' = tree \ {q \in tree : Under(q, p)} /\ tree' \subseteq Path
    BY <1>1 DEF Remove, Change, TypeOK, Path
  <2>2. ASSUME NEW q \in tree', q # <<>> PROVE Parent(q) \in tree'
    <3>1. q \in tree /\ q \in Path /\ ~Under(q, p)
      BY <2>1, <2>2 DEF TypeOK, Path
    <3>2. Parent(q) \in tree /\ Parent(q) \in Path
      BY <3>1, <2>2 DEF TypeOK, PrefixClosed, Parent, Path
    <3>3. ~Under(Parent(q), p)
      BY <3>1, <3>2, <2>2, UnderChild
    <3> QED BY <2>1, <3>2, <3>3
  <2> QED BY <2>1, <2>2 DEF PrefixClosed, Parent
<1>2. CASE Restore(p)
  <2>1. tree' = tree \cup {p} /\ (p # <<>> => Parent(p) \in tree)
    BY <1>2 DEF Restore, Change, IsDirectory, Is
  <2> QED BY <2>1 DEF TypeOK, PrefixClosed, Parent, Path
<1> QED BY <1>1, <1>2

\* The type invariant holds initially.
LEMMA TypeInit == Init => TypeOK
BY ProjectAssumption, MaxChangesAssumption DEF Init, TypeOK

\* Every step keeps the type invariant.
LEMMA TypeNext == TypeOK /\ [Next]_vars => TypeOK'
<1> SUFFICES ASSUME TypeOK, [Next]_vars PROVE TypeOK'
  OBVIOUS
<1> USE DEF TypeOK
<1>1. ASSUME NEW d \in todo, ListDirectory(d) PROVE TypeOK'
  <2>1. d \in Path /\ d # None
    BY DiskAssumption DEF Path
  <2>2. CASE Listable(d)
    <3>1. names' \cup directories' \subseteq Children(d) /\ here' = d
      BY <1>1, <2>2 DEF ListDirectory
    <3>2. names' \cup directories' \subseteq Path \ {<<>>}
      BY <3>1, ChildrenLieIn DEF Path
    <3>3. sniffing' = None
      BY <1>1 DEF ListDirectory
    <3>4. \A p \in names' \cup directories' \cup ({sniffing'} \ {None}) :
            p # <<>> /\ Parent(p) = here'
      BY <3>1, <3>3, ChildrenLieIn
    <3>5. todo' \subseteq Path
      BY <1>1 DEF ListDirectory, Untried, Path
    <3> QED BY <1>1, <2>1, <3>1, <3>2, <3>3, <3>4, <3>5 DEF ListDirectory, world, Path
  <2>3. CASE ~Listable(d)
    BY <1>1, <2>3 DEF ListDirectory, Untried, world
  <2> QED BY <2>2, <2>3
<1>2. ASSUME NEW p \in names, LookAt(p) PROVE TypeOK'
  <2>1. p \in Path /\ p # <<>> /\ Parent(p) = here
    BY DEF Path
  <2>2. found' \in Seq(Path)
    <3>1. found \in Seq(Path) /\ found' \in {found, Append(found, p)}
      BY <1>2 DEF LookAt, Path
    <3> QED BY <2>1, <3>1, AppendType
  <2> QED BY <1>2, <2>1, <2>2 DEF LookAt, world, Path
<1>3. ASSUME Sniff PROVE TypeOK'
  <2>1. sniffing \in Path
    BY <1>3 DEF Sniff, Path
  <2>2. found' \in Seq(Path)
    <3>1. found \in Seq(Path) /\ found' \in {found, Append(found, sniffing)}
      BY <1>3 DEF Sniff, Path
    <3> QED BY <2>1, <3>1, AppendType
  <2> QED BY <1>3, <2>1, <2>2 DEF Sniff, world, Path
<1>4. ASSUME Descend PROVE TypeOK'
  BY <1>4 DEF Descend, Walked, world
<1>5. ASSUME NEW p \in Path, Remove(p) \/ Restore(p) PROVE TypeOK'
  <2>1. tree' \subseteq Path /\ PrefixClosed(tree')
    BY <1>5, ChangeKeepsTree
  <2>2. /\ UNCHANGED <<walk, sought, ignoreDirs>>
        /\ changes' = changes + 1 /\ changes < MaxChanges
    BY <1>5 DEF Remove, Restore, Change
  <2>3. disturbed' \subseteq Path /\ Path \ tree' \subseteq disturbed'
    BY <1>5 DEF Remove, Restore, Change, Path
  <2>4. changes' \in 0..MaxChanges
    BY <2>2, MaxChangesAssumption
  <2> QED BY <2>1, <2>2, <2>3, <2>4 DEF walk, Path
<1>6. CASE UNCHANGED vars
  BY <1>6 DEF vars, walk, world
<1> QED BY <1>1, <1>2, <1>3, <1>4, <1>5, <1>6 DEF Next, Step, Path

\* The walk has entries in hand only while it is in their directory (walk.py,
\* walk_files): the type invariant of the module.
THEOREM TypeCorrect == Spec => []TypeOK
BY TypeInit, TypeNext, PTL DEF Spec

-----------------------------------------------------------------------------
(***************************************************************************)
(* The walk stays in the project                                           *)
(***************************************************************************)

\* Neither d nor a directory it lies in is a link that was there all the time.
LinkFree(d) ==
  \A a \in Ancestors(d) \cup {d} :
    a # <<>> /\ Steady(a) => Disk[a].kind # "directory link"

\* StaysInProject, and why it stays so: the directories still to walk are free
\* of links, and a link in hand is one that can be seen to be one.
Inside ==
  /\ \A d \in todo \cup ({here} \ {None}) : LinkFree(d)
  /\ \A c \in directories : Disk[c].kind = "directory link" => Disk[here].kind # "sealed"
  /\ sniffing # None => ~IsIgnored(sniffing)
  /\ StaysInProject

\* An entry lies in its directory and in what that lies in.
LEMMA AncestorsOfChild ==
  ASSUME NEW p \in Path, p # <<>>, NEW d \in Path, Parent(p) = d
  PROVE  Ancestors(p) \subseteq Ancestors(d) \cup {d}
<1> SUFFICES ASSUME NEW n \in 0..(Len(p) - 1)
             PROVE  SubSeq(p, 1, n) \in Ancestors(d) \cup {d}
  BY DEF Ancestors
<1>1. Len(p) \in Nat /\ Len(d) \in Nat /\ Len(d) = Len(p) - 1
  BY PathIsSequence, ParentParts
<1>2. CASE n = Len(d)
  BY <1>1, <1>2 DEF Parent
<1>3. CASE n # Len(d)
  <2>1. n \in 0..Len(d) /\ n \in 0..Len(p) /\ n \in 0..(Len(d) - 1)
    BY <1>1, <1>3
  <2> DEFINE q == SubSeq(p, 1, n)  r == SubSeq(d, 1, n)
  <2>2. /\ Len(q) = n /\ q \in Seq({p[i] : i \in DOMAIN p})
        /\ \A i \in 1..n : q[i] = p[i]
    BY <2>1, PrefixParts
  <2>3. /\ Len(r) = n /\ r \in Seq({d[i] : i \in DOMAIN d})
        /\ \A i \in 1..n : r[i] = d[i]
    BY <2>1, PrefixParts
  <2>4. \A i \in 1..n : d[i] = p[i]
    <3>1. \A i \in 1..(Len(p) - 1) : d[i] = p[i]
      BY ParentParts
    <3> QED BY <1>1, <2>1, <3>1
  <2> HIDE DEF q, r
  <2>5. q = r
    BY <2>2, <2>3, <2>4, SamePath
  <2> QED BY <2>1, <2>5 DEF q, r, Ancestors
<1> QED BY <1>2, <1>3

\* What was free of links stays so: fewer and fewer paths were there all the time.
LEMMA LinkFreeStays ==
  ASSUME NEW d, LinkFree(d), disturbed \subseteq disturbed'
  PROVE  LinkFree(d)'
BY DEF LinkFree, Steady, Ancestors

\* A file offered in a directory free of links stays in the project.
LEMMA OfferedStays ==
  ASSUME TypeOK, Inside, NEW p \in Path, p # <<>>, Parent(p) = here, here # None,
         ~IsIgnored(p)
  PROVE  /\ ~IsIgnored(p)
         /\ \A a \in Ancestors(p) : a # <<>> /\ Steady(a) => Disk[a].kind # "directory link"
<1>1. here \in Path /\ LinkFree(here)
  BY DEF TypeOK, Inside, Path
<1>2. Ancestors(p) \subseteq Ancestors(here) \cup {here}
  BY <1>1, AncestorsOfChild
<1> QED BY <1>1, <1>2 DEF LinkFree

\* Collecting one more file that stays in the project.
LEMMA FoundStays ==
  ASSUME TypeOK, StaysInProject, NEW p \in Path, ~IsIgnored(p),
         \A a \in Ancestors(p) : a # <<>> /\ Steady(a) => Disk[a].kind # "directory link",
         found' \in {found, Append(found, p)}, UNCHANGED <<ignoreDirs, disturbed>>
  PROVE  StaysInProject'
<1>1. found \in Seq(Path)
  BY DEF TypeOK, Path
<1>2. CASE found' = found
  BY <1>2 DEF StaysInProject, IsIgnored, Steady
<1>3. CASE found' = Append(found, p)
  <2>1. \A i \in DOMAIN found' :
          found'[i] = p \/ (i \in DOMAIN found /\ found'[i] = found[i])
    BY <1>1, <1>3, FoundHolds
  <2> QED BY <2>1 DEF StaysInProject, IsIgnored, Steady
<1> QED BY <1>2, <1>3

\* Inside holds initially and every step keeps it.
LEMMA InsideInit == Init => Inside
<1> SUFFICES ASSUME Init PROVE Inside
  OBVIOUS
<1>1. Ancestors(<<>>) = {}
  BY DEF Ancestors
<1>2. \A d \in todo \cup ({here} \ {None}) : LinkFree(d)
  BY <1>1 DEF Init, LinkFree
<1>3. StaysInProject
  <2>1. DOMAIN found = {}
    BY DEF Init
  <2> QED BY <2>1 DEF StaysInProject
<1> QED BY <1>2, <1>3 DEF Init, Inside

\* Every step keeps the walk inside,
LEMMA InsideNext == TypeOK /\ Inside /\ [Next]_vars => Inside'
<1> SUFFICES ASSUME TypeOK, Inside, [Next]_vars PROVE Inside'
  OBVIOUS
<1>1. ASSUME NEW d \in todo, ListDirectory(d) PROVE Inside'
  <2>1. d \in Path /\ LinkFree(d) /\ here = None /\ sniffing = None /\ directories = {}
    BY <1>1 DEF ListDirectory, TypeOK, Inside, Path
  <2>2. UNCHANGED <<tree, disturbed, ignoreDirs, found, sniffing>>
    BY <1>1 DEF ListDirectory, world
  <2>3. StaysInProject'
    BY <2>2 DEF Inside, StaysInProject, IsIgnored, Steady
  <2>4. \A e \in todo : LinkFree(e)'
    BY <2>2, LinkFreeStays DEF Inside
  <2>5. todo' \subseteq todo /\ here' \in {d, None}
    BY <1>1, <2>1 DEF ListDirectory, Untried
  <2>6. ASSUME NEW c \in directories', Disk[c].kind = "directory link"
        PROVE  Disk[here'].kind # "sealed"
    <3>1. Listable(d) /\ here' = d /\ c \in Children(d) /\ IsDirectory(c)
      BY <1>1, <2>1, <2>6 DEF ListDirectory
    <3>2. c # <<>> /\ Parent(c) = d
      BY <3>1, ChildrenLieIn
    <3>3. ~Is(d, {"sealed"})
      BY <2>6, <3>1, <3>2 DEF IsDirectory, Is, Reachable
    <3> QED BY <3>1, <3>3 DEF Listable, Is
  <2> QED BY <1>1, <2>1, <2>2, <2>3, <2>4, <2>5, <2>6 DEF Inside
<1>2. ASSUME NEW p \in names, LookAt(p) PROVE Inside'
  <2>1. p \in Path /\ p # <<>> /\ Parent(p) = here /\ here # None
    BY <1>2 DEF LookAt, TypeOK, Path
  <2>2. UNCHANGED <<tree, disturbed, ignoreDirs, todo, here, directories>>
    BY <1>2 DEF LookAt, world
  <2>3. StaysInProject'
    <3>1. CASE IsIgnored(p)
      <4>1. found' = found
        BY <1>2, <3>1 DEF LookAt, Offered
      <4> QED BY <2>2, <4>1 DEF Inside, StaysInProject, IsIgnored, Steady
    <3>2. CASE ~IsIgnored(p)
      <4>1. found' \in {found, Append(found, p)}
        BY <1>2 DEF LookAt
      <4> QED BY <2>1, <2>2, <3>2, <4>1, OfferedStays, FoundStays DEF Inside
    <3> QED BY <3>1, <3>2
  <2>4. (sniffing # None => ~IsIgnored(sniffing))'
    BY <1>2, <2>2 DEF LookAt, Offered, IsIgnored
  <2>5. \A e \in todo' \cup ({here'} \ {None}) : LinkFree(e)'
    BY <2>2, LinkFreeStays DEF Inside
  <2> QED BY <2>2, <2>3, <2>4, <2>5 DEF Inside, IsIgnored
<1>3. ASSUME Sniff PROVE Inside'
  <2>1. sniffing \in Path /\ sniffing # <<>> /\ Parent(sniffing) = here /\ here # None
    BY <1>3 DEF Sniff, TypeOK, Path
  <2>2. UNCHANGED <<tree, disturbed, ignoreDirs, todo, here, directories>> /\ sniffing' = None
    BY <1>3 DEF Sniff, world
  <2>3. ~IsIgnored(sniffing) /\ found' \in {found, Append(found, sniffing)}
    BY <1>3 DEF Sniff, Inside
  <2>4. StaysInProject'
    BY <2>1, <2>2, <2>3, OfferedStays, FoundStays DEF Inside
  <2>5. \A e \in todo' \cup ({here'} \ {None}) : LinkFree(e)'
    BY <2>2, LinkFreeStays DEF Inside
  <2> QED BY <2>2, <2>4, <2>5 DEF Inside
<1>4. ASSUME Descend PROVE Inside'
  <2>1. UNCHANGED <<tree, disturbed, ignoreDirs, found>> /\ here # None
        /\ here' = None /\ directories' = {} /\ sniffing' = None /\ todo' = todo \cup Walked(directories)
    BY <1>4 DEF Descend, world
  <2>2. ASSUME NEW c \in Walked(directories) PROVE LinkFree(c)'
    <3>1. c \in directories /\ ~IsLink(c) /\ c \in Path /\ c # <<>> /\ Parent(c) = here
      BY <2>2 DEF Walked, TypeOK, Path
    <3>2. here \in Path /\ LinkFree(here)
      BY <2>1 DEF TypeOK, Inside, Path
    <3>3. Steady(c) => Disk[c].kind # "directory link"
      BY <3>1 DEF Steady, TypeOK, IsLink, Is, Reachable, Inside, Path
    <3>4. LinkFree(c)
      BY <3>1, <3>2, <3>3, AncestorsOfChild DEF LinkFree
    <3> QED BY <2>1, <3>4, LinkFreeStays
  <2>3. \A e \in todo : LinkFree(e)'
    BY <2>1, LinkFreeStays DEF Inside
  <2>4. StaysInProject'
    BY <2>1 DEF Inside, StaysInProject, IsIgnored, Steady
  <2> QED BY <2>1, <2>2, <2>3, <2>4 DEF Inside
<1>5. ASSUME NEW p \in Path, Remove(p) \/ Restore(p) PROVE Inside'
  <2>1. UNCHANGED <<walk, sought, ignoreDirs>> /\ disturbed \subseteq disturbed'
    BY <1>5 DEF Remove, Restore, Change
  <2>2. \A e \in todo' \cup ({here'} \ {None}) : LinkFree(e)'
    BY <2>1, LinkFreeStays DEF Inside, walk
  <2>3. StaysInProject'
    BY <2>1 DEF Inside, StaysInProject, IsIgnored, Steady, walk
  <2> QED BY <2>1, <2>2, <2>3 DEF Inside, walk, IsIgnored
<1>6. CASE UNCHANGED vars
  BY <1>6 DEF vars, walk, world, Inside, LinkFree, StaysInProject, IsIgnored, Steady
<1> QED BY <1>1, <1>2, <1>3, <1>4, <1>5, <1>6 DEF Next, Step, Path

\* No file is reached through a link or an ignored directory, whatever other
\* programs do meanwhile (walk.py, followlinks=False and the slice assignment).
THEOREM Stays == Spec => []StaysInProject
<1>1. Inside => StaysInProject
  BY DEF Inside
<1> QED BY <1>1, TypeInit, TypeNext, InsideInit, InsideNext, PTL DEF Spec

-----------------------------------------------------------------------------
(***************************************************************************)
(* Nothing is found twice                                                  *)
(***************************************************************************)

\* The parts of the tree still to walk, the directory in hand and what has been
\* found are apart from each other.
Apart ==
  /\ \A d, e \in todo : Under(d, e) => d = e
  /\ here # None => \A d \in todo : ~Under(d, here) /\ ~Under(here, d)
  /\ \A i \in DOMAIN found : \A d \in todo \cup directories : ~Under(found[i], d)
  /\ \A i \in DOMAIN found : found[i] \notin names /\ found[i] # sniffing
  /\ names \cap directories = {}
  /\ sniffing \notin names \cup directories

\* Lying under is transitive.
LEMMA UnderTransitive ==
  ASSUME NEW p \in Path, NEW q \in Path, NEW r \in Path, Under(p, q), Under(q, r)
  PROVE  Under(p, r)
<1>1. Len(p) \in Nat /\ Len(q) \in Nat /\ Len(r) \in Nat
  BY PathIsSequence
<1>2. Len(q) <= Len(p) /\ \A i \in 1..Len(q) : p[i] = q[i]
  BY UnderParts
<1>3. Len(r) <= Len(q) /\ \A i \in 1..Len(r) : q[i] = r[i]
  BY UnderParts
<1> QED BY <1>1, <1>2, <1>3, UnderParts

\* What has been found is on the disk.
LEMMA FoundOnDisk ==
  ASSUME TypeOK
  PROVE  \A i \in DOMAIN found : found[i] \in Path /\ found[i] # None
BY DiskAssumption DEF TypeOK, Path

\* A name of the directory in hand lies under nothing that is still to walk.
LEMMA NameApart ==
  ASSUME TypeOK, Apart, here # None, NEW p \in Path, p # <<>>, Parent(p) = here,
         p \notin directories
  PROVE  \A d \in todo \cup directories : ~Under(p, d)
<1>1. here \in Path
  BY DEF TypeOK, Path
<1>2. ASSUME NEW d \in todo, Under(p, d) PROVE FALSE
  <2>1. d \in Path
    BY DEF TypeOK, Path
  <2>2. Under(p, here) /\ (p = d \/ Under(here, d))
    BY <1>1, <1>2, <2>1, UnderChild
  <2> QED BY <2>2 DEF Apart
<1>3. ASSUME NEW d \in directories, Under(p, d) PROVE FALSE
  <2>1. d \in Path /\ d # <<>> /\ Parent(d) = here
    BY DEF TypeOK, Path
  <2>2. p = d
    BY <1>1, <1>3, <2>1, UnderSibling
  <2> QED BY <2>2
<1> QED BY <1>2, <1>3

\* Collecting a name of the directory in hand keeps what was found apart.
LEMMA FoundApart ==
  ASSUME TypeOK, Apart, here # None, NEW p \in Path, p # <<>>, Parent(p) = here,
         p \notin directories, found' = found \/ found' = Append(found, p),
         UNCHANGED <<todo, directories>>
  PROVE  /\ (\A i \in DOMAIN found : \A d \in todo \cup directories : ~Under(found[i], d))'
         /\ \A i \in DOMAIN found' :
             (found'[i] = p /\ found' = Append(found, p)) \/ (i \in DOMAIN found /\ found'[i] = found[i])
<1>1. CASE found' = found
  BY <1>1 DEF Apart
<1>2. CASE found' = Append(found, p)
  <2>1. \A i \in DOMAIN found' : found'[i] = p \/ (i \in DOMAIN found /\ found'[i] = found[i])
    <3>1. found \in Seq(Path)
      BY DEF TypeOK, Path
    <3> QED BY <1>2, <3>1, FoundHolds
  <2>2. \A d \in todo \cup directories : ~Under(p, d)
    BY NameApart
  <2> QED BY <1>2, <2>1, <2>2 DEF Apart
<1> QED BY <1>1, <1>2

\* Apart holds initially and every step keeps it.
LEMMA ApartInit == Init => Apart
<1> SUFFICES ASSUME Init PROVE Apart
  OBVIOUS
<1>1. DOMAIN found = {}
  BY DEF Init
<1> QED BY <1>1 DEF Init, Apart

\* the places of a file apart,
LEMMA ApartNext == TypeOK /\ Apart /\ [Next]_vars => Apart'
<1> SUFFICES ASSUME TypeOK, Apart, [Next]_vars PROVE Apart'
  OBVIOUS
<1>1. ASSUME NEW d \in todo, ListDirectory(d) PROVE Apart'
  <2>1. d \in Path /\ d # None /\ here = None /\ names = {} /\ directories = {} /\ sniffing = None
    BY <1>1, DiskAssumption DEF ListDirectory, TypeOK, Path
  <2>2. UNCHANGED <<found, sniffing>> /\ todo' = todo \ {d}
    BY <1>1 DEF ListDirectory, Untried
  <2>3. CASE ~Listable(d)
    <3>1. UNCHANGED <<here, names, directories>>
      BY <1>1, <2>3 DEF ListDirectory
    <3> QED BY <2>1, <2>2, <3>1 DEF Apart
  <2>4. CASE Listable(d)
    <3>1. /\ here' = d /\ names' \subseteq Children(d) /\ directories' \subseteq Children(d)
          /\ names' \cap directories' = {}
      BY <1>1, <2>4 DEF ListDirectory
    <3>2. \A p \in names' \cup directories' : p \in Path /\ Under(p, d) /\ p # None
      BY <2>1, <3>1, ChildrenLieIn, UnderChild, DiskAssumption DEF Path
    <3>3. \A i \in DOMAIN found : found[i] \in Path /\ ~Under(found[i], d)
      BY FoundOnDisk DEF Apart
    <3>4. \A i \in DOMAIN found : \A p \in names' \cup directories' : ~Under(found[i], p)
      BY <2>1, <3>2, <3>3, UnderTransitive
    <3>5. \A i \in DOMAIN found : found[i] \notin names' /\ found[i] # sniffing'
      BY <2>1, <2>2, <3>2, <3>3, FoundOnDisk
    <3>6. \A e \in todo' : ~Under(e, d) /\ ~Under(d, e)
      BY <2>2 DEF Apart
    <3>7. sniffing' \notin names' \cup directories'
      BY <2>1, <2>2, <3>2
    <3> QED BY <2>2, <3>1, <3>4, <3>5, <3>6, <3>7 DEF Apart
  <2> QED BY <2>3, <2>4
<1>2. ASSUME NEW p \in names, LookAt(p) PROVE Apart'
  <2>1. p \in Path /\ p # None /\ p # <<>> /\ Parent(p) = here /\ here # None /\ p \notin directories
    BY <1>2, DiskAssumption DEF LookAt, TypeOK, Apart, Path
  <2>2. /\ UNCHANGED <<todo, here, directories>> /\ names' = names \ {p} /\ sniffing = None
        /\ found' = found \/ found' = Append(found, p)
    BY <1>2 DEF LookAt
  <2>3. sniffing' = None \/ (sniffing' = p /\ found' = found)
    BY <1>2 DEF LookAt, Wanted, Doubtful
  <2>4. /\ (\A i \in DOMAIN found : \A d \in todo \cup directories : ~Under(found[i], d))'
        /\ \A i \in DOMAIN found' :
             (found'[i] = p /\ found' = Append(found, p)) \/ (i \in DOMAIN found /\ found'[i] = found[i])
    BY <2>1, <2>2, FoundApart
  <2>5. \A i \in DOMAIN found' : found'[i] \notin names' /\ found'[i] # sniffing'
    <3>1. \A i \in DOMAIN found : found[i] \notin names /\ found[i] # None
      BY FoundOnDisk DEF Apart
    <3> QED BY <2>1, <2>2, <2>3, <2>4, <3>1
  <2>6. sniffing' \notin names' \cup directories'
    BY <2>1, <2>2, <2>3, DiskAssumption DEF TypeOK
  <2> QED BY <2>2, <2>4, <2>5, <2>6 DEF Apart
<1>3. ASSUME Sniff PROVE Apart'
  <2>1. /\ sniffing \in Path /\ sniffing # <<>> /\ Parent(sniffing) = here /\ here # None
        /\ sniffing \notin names \cup directories
    BY <1>3 DEF Sniff, TypeOK, Apart, Path
  <2>2. /\ UNCHANGED <<todo, here, names, directories>> /\ sniffing' = None
        /\ found' = found \/ found' = Append(found, sniffing)
    BY <1>3 DEF Sniff
  <2>3. /\ (\A i \in DOMAIN found : \A d \in todo \cup directories : ~Under(found[i], d))'
        /\ \A i \in DOMAIN found' :
             (found'[i] = sniffing /\ found' = Append(found, sniffing)) \/ (i \in DOMAIN found /\ found'[i] = found[i])
    BY <2>1, <2>2, FoundApart
  <2>4. \A i \in DOMAIN found' : found'[i] \notin names' /\ found'[i] # sniffing'
    <3>1. \A i \in DOMAIN found : found[i] \notin names /\ found[i] # None
      BY FoundOnDisk DEF Apart
    <3>2. sniffing # None
      BY <1>3 DEF Sniff
    <3> QED BY <2>1, <2>2, <2>3, <3>1, <3>2
  <2>5. sniffing' \notin names' \cup directories'
    BY <2>2, DiskAssumption DEF TypeOK
  <2> QED BY <2>2, <2>3, <2>4, <2>5 DEF Apart
<1>4. ASSUME Descend PROVE Apart'
  <2>1. /\ here \in Path /\ here # None /\ here' = None /\ directories' = {} /\ sniffing' = None
        /\ todo' \subseteq todo \cup directories /\ UNCHANGED <<found, names>> /\ names = {}
    BY <1>4 DEF Descend, Walked, TypeOK, Path
  <2>2. ASSUME NEW d \in todo, NEW c \in directories PROVE ~Under(d, c) /\ ~Under(c, d)
    <3>1. d \in Path /\ c \in Path /\ c # <<>> /\ Parent(c) = here
      BY DEF TypeOK, Path
    <3>2. ~Under(d, here) /\ ~Under(here, d)
      BY <2>1 DEF Apart
    <3>3. /\ Under(c, here) /\ (Under(c, d) => c = d \/ Under(here, d))
          /\ Under(d, c) => Under(d, here)
      <4>1. Under(c, here) /\ (Under(c, d) => c = d \/ Under(here, d))
        BY <2>1, <3>1, UnderChild
      <4>2. Under(d, c) => Under(d, here)
        BY <2>1, <3>1, <4>1, UnderTransitive
      <4> QED BY <4>1, <4>2
    <3> QED BY <3>2, <3>3
  <2>3. ASSUME NEW b \in directories, NEW c \in directories, Under(b, c) PROVE b = c
    BY <2>1, <2>3, UnderSibling DEF TypeOK, Path
  <2>4. \A d, e \in todo' : Under(d, e) => d = e
    BY <2>1, <2>2, <2>3 DEF Apart
  <2>5. \A i \in DOMAIN found : found[i] # None
    BY FoundOnDisk
  <2> QED BY <2>1, <2>4, <2>5 DEF Apart
<1>5. ASSUME NEW p \in Path, Remove(p) \/ Restore(p) PROVE Apart'
  BY <1>5 DEF Remove, Restore, Change, walk, Apart
<1>6. CASE UNCHANGED vars
  BY <1>6 DEF vars, walk, Apart
<1> QED BY <1>1, <1>2, <1>3, <1>4, <1>5, <1>6 DEF Next, Step, Path

-----------------------------------------------------------------------------
(***************************************************************************)
(* Nothing is missed                                                       *)
(***************************************************************************)

IsFound(p) == \E i \in DOMAIN found : found[i] = p

\* A file that must be found is found, in hand, or below a directory to walk.
Covered(p) ==
  \/ IsFound(p)
  \/ p \in names
  \/ p = sniffing
  \/ \E d \in todo \cup directories : d \in Ancestors(p)

Complete ==
  /\ sniffing # None => Doubtful(sniffing) /\ ~IsIgnored(sniffing)
  /\ \A p \in Path : Due(p) => Covered(p)

\* The parent of an entry is one of its ancestors.
LEMMA ParentIsAncestor ==
  ASSUME NEW p \in Path, p # <<>>
  PROVE  Parent(p) \in Ancestors(p)
<1>1. Len(p) \in Nat /\ Len(p) # 0
  BY PathIsSequence, RootIsEmpty
<1>2. Len(p) - 1 \in 0..(Len(p) - 1)
  BY <1>1
<1> QED BY <1>2 DEF Parent, Ancestors

\* Below an ancestor d of p lies p itself or another ancestor of p, one longer.
LEMMA NextAncestor ==
  ASSUME NEW p \in Path, NEW d \in Path, d \in Ancestors(p)
  PROVE  \E c : /\ c = p \/ c \in Ancestors(p)
               /\ c # <<>> /\ Parent(c) = d
               /\ \E i \in DOMAIN p : Base(c) = p[i]
<1>1. PICK n \in 0..(Len(p) - 1) : d = SubSeq(p, 1, n)
  BY DEF Ancestors
<1>2. Len(p) \in Nat /\ n \in 0..Len(p) /\ n + 1 \in 0..Len(p) /\ n \in Nat /\ n + 1 \in 1..Len(p)
  BY PathIsSequence
<1> DEFINE m == n + 1
<1> DEFINE c == SubSeq(p, 1, m)
<1>3. /\ Len(c) = m /\ c \in Seq({p[i] : i \in DOMAIN p})
      /\ \A i \in 1..m : c[i] = p[i]
  <2>1. m \in 0..Len(p)
    BY <1>2
  <2> HIDE DEF m
  <2> QED BY <2>1, PrefixParts
<1>4. /\ Len(d) = n /\ d \in Seq({p[i] : i \in DOMAIN p})
      /\ \A i \in 1..n : d[i] = p[i]
  BY <1>1, <1>2, PrefixParts
<1>5. c # <<>>
  BY <1>2, <1>3
<1>6. Parent(c) = d
  <2> DEFINE q == SubSeq(c, 1, n)
  <2>1. Len(c) = n + 1 /\ n \in Nat
    BY <1>2, <1>3
  <2>2. /\ Len(q) = n /\ q \in Seq({p[i] : i \in DOMAIN p})
        /\ \A i \in 1..n : q[i] = c[i]
    <3> HIDE DEF c
    <3> QED BY <1>3, <2>1
  <2>3. \A i \in 1..n : c[i] = p[i]
    BY <1>2, <1>3
  <2>4. Parent(c) = q
    BY <2>1 DEF Parent
  <2> HIDE DEF q, c
  <2>5. q = d
    BY <1>4, <2>2, <2>3, SamePath
  <2> QED BY <2>4, <2>5
<1>7. c = p \/ c \in Ancestors(p)
  <2>1. CASE m = Len(p)
    <3>1. c = p
      <4>1. p \in Seq({p[i] : i \in DOMAIN p})
        BY PathIsSequence
      <4> HIDE DEF c
      <4> QED BY <1>3, <2>1, <4>1, SamePath
    <3> QED BY <3>1
  <2>2. CASE m # Len(p)
    <3>1. m \in 0..(Len(p) - 1)
      BY <1>2, <2>2
    <3> QED BY <3>1 DEF Ancestors
  <2> QED BY <2>1, <2>2
<1>8. \E i \in DOMAIN p : Base(c) = p[i]
  <2>1. m \in 1..Len(p) /\ m \in 1..m
    BY <1>2
  <2>2. Base(c) = p[m]
    BY <1>3, <2>1 DEF Base
  <2>3. m \in DOMAIN p
    BY <2>1, PathIsSequence
  <2> QED BY <2>2, <2>3
<1> QED BY <1>5, <1>6, <1>7, <1>8

\* What must be found now had to be found before.
LEMMA DueShrinks ==
  ASSUME TypeOK, TypeOK', NEW p \in Path, Due(p)', disturbed \subseteq disturbed',
         UNCHANGED <<sought, ignoreDirs>>
  PROVE  Due(p)
<1>1. p \in tree /\ p # <<>> /\ Steady(p)
  BY DEF Due, Steady, TypeOK, Path
<1>2. \A d \in Ancestors(p) : Steady(d) /\ Is(d, {"directory"})
  BY DEF Due, Steady, Ancestors, Is, TypeOK, Path
<1>3. Parent(p) \in Ancestors(p)
  BY <1>1, ParentIsAncestor
<1>4. IsRegular(p)
  BY <1>1, <1>2, <1>3 DEF Due, Eligible, IsRegular, Is, Reachable, Parent
<1>5. Eligible(p)
  BY <1>4 DEF Due, Eligible, IsIgnored, Wanted, Doubtful, Suffix, Base
<1> QED BY <1>1, <1>2, <1>5 DEF Due

\* A file that must be found stays covered when the directory it lies below is
\* listed.
LEMMA ListingCovers ==
  ASSUME TypeOK, NEW d \in todo, ListDirectory(d), NEW p \in Path, Due(p), d \in Ancestors(p)
  PROVE  p \in names' \/ \E c \in directories' : c \in Ancestors(p)
<1>1. d \in Path /\ d \in tree /\ Disk[d].kind = "directory"
  BY DEF TypeOK, Due, Is, Path
<1>2. Listable(d)
  <2>1. d # <<>> => Parent(d) \in Ancestors(p)
    <3> SUFFICES ASSUME d # <<>> PROVE Parent(d) \in Ancestors(p)
      OBVIOUS
    <3>1. PICK n \in 0..(Len(p) - 1) : d = SubSeq(p, 1, n)
      BY DEF Ancestors
    <3>2. Len(p) \in Nat /\ n \in 0..Len(p) /\ n \in Nat
      BY PathIsSequence
    <3>3. Len(d) = n /\ \A i \in 1..n : d[i] = p[i]
      BY <3>1, <3>2, PrefixParts
    <3>4. n # 0
      BY <1>1, <3>3, RootIsEmpty
    <3> DEFINE m == n - 1
    <3> DEFINE q == SubSeq(p, 1, m)
    <3>5. m \in 0..(Len(p) - 1) /\ m \in 0..Len(p)
      BY <3>2, <3>4
    <3>6. /\ Len(q) = m /\ q \in Seq({p[i] : i \in DOMAIN p})
          /\ \A i \in 1..m : q[i] = p[i]
      <4> HIDE DEF m
      <4> QED BY <3>5, PrefixParts
    <3>7. /\ Len(Parent(d)) = m /\ Parent(d) \in Seq({d[i] : i \in DOMAIN d})
          /\ \A i \in 1..m : Parent(d)[i] = d[i]
      BY <1>1, <3>3, ParentParts
    <3>8. \A i \in 1..m : d[i] = p[i]
      BY <3>2, <3>3
    <3> HIDE DEF q, m
    <3>9. Parent(d) = q
      BY <3>6, <3>7, <3>8, SamePath
    <3> QED BY <3>5, <3>9 DEF Ancestors, q
  <2>2. Reachable(d)
    BY <2>1 DEF Reachable, Is, Due
  <2> QED BY <1>1, <2>2 DEF Listable, Is
<1>3. PICK c : /\ c = p \/ c \in Ancestors(p)
               /\ c # <<>> /\ Parent(c) = d
               /\ \E i \in DOMAIN p : Base(c) = p[i]
  BY <1>1, NextAncestor
<1>4. names' = {q \in Children(d) : ~IsDirectory(q)}
      /\ directories' = {q \in Children(d) : IsDirectory(q) /\ ~IsIgnored(<<Base(q)>>)}
  BY <1>2 DEF ListDirectory
<1>5. CASE c = p
  <2>1. p \in Children(d)
    BY <1>3, <1>5 DEF Children, Due, Eligible, IsRegular, Is
  <2>2. ~IsDirectory(p)
    BY DEF IsDirectory, Is, Due, Eligible, IsRegular
  <2> QED BY <1>4, <2>1, <2>2
<1>6. CASE c \in Ancestors(p)
  <2>1. c \in tree /\ Disk[c].kind = "directory"
    BY <1>6 DEF Due, Is
  <2>2. c \in Children(d) /\ IsDirectory(c)
    BY <1>3, <2>1 DEF Children, IsDirectory, Is
  <2>3. ~IsIgnored(<<Base(c)>>)
    <3>1. \A i \in DOMAIN p : ~(p[i] \in ignoreDirs \/ p[i][2] = ".egg-info")
      BY DEF Due, Eligible, IsIgnored
    <3>2. \A i \in DOMAIN <<Base(c)>> : <<Base(c)>>[i] = Base(c)
      OBVIOUS
    <3> QED BY <1>3, <3>1, <3>2 DEF IsIgnored
  <2> QED BY <1>4, <1>6, <2>2, <2>3
<1> QED BY <1>3, <1>5, <1>6

\* A step that leaves the disk alone leaves what must be found as it is.
LEMMA DueUnchanged ==
  ASSUME UNCHANGED <<world, sought, ignoreDirs>>, NEW p
  PROVE  Due(p)' <=> Due(p)
BY DEF world, Due, Eligible, IsRegular, Is, Reachable, IsIgnored, Wanted, Doubtful, Suffix, Base,
       Steady, Ancestors, Parent

\* What is found stays found.
LEMMA FoundStaysFound ==
  ASSUME TypeOK, NEW p \in Path, found' = found \/ found' = Append(found, p),
         NEW q, IsFound(q)
  PROVE  IsFound(q)'
<1>1. CASE found' = found
  BY <1>1 DEF IsFound
<1>2. CASE found' = Append(found, p)
  <2>1. found \in Seq(Path)
    BY DEF TypeOK, Path
  <2>2. \A i \in DOMAIN found : i \in DOMAIN found' /\ found'[i] = found[i]
    BY <1>2, <2>1, FoundKeeps
  <2> QED BY <2>2 DEF IsFound
<1> QED BY <1>1, <1>2

\* Complete holds initially and every step keeps it.
LEMMA CompleteInit == Init => Complete
<1> SUFFICES ASSUME Init, NEW p \in Path, Due(p) PROVE <<>> \in Ancestors(p)
  BY DEF Init, Complete, Covered
<1>1. Len(p) \in Nat /\ Len(p) # 0
  BY PathIsSequence, RootIsEmpty DEF Due
<1>2. 0 \in 0..(Len(p) - 1) /\ SubSeq(p, 1, 0) = <<>>
  BY <1>1, PathIsSequence
<1> QED BY <1>2 DEF Ancestors

\* and every file that is due in one of them.
LEMMA CompleteNext == TypeOK /\ TypeOK' /\ Complete /\ [Next]_vars => Complete'
<1> SUFFICES ASSUME TypeOK, TypeOK', Complete, [Next]_vars PROVE Complete'
  OBVIOUS
<1>1. ASSUME NEW d \in todo, ListDirectory(d) PROVE Complete'
  <2>1. UNCHANGED <<world, sought, ignoreDirs, sniffing, found>> /\ todo' = todo \ {d}
        /\ names = {} /\ directories = {} /\ sniffing = None
    BY <1>1 DEF ListDirectory, Untried, TypeOK
  <2>2. ASSUME NEW p \in Path, Due(p) PROVE Covered(p)'
    <3>1. Covered(p)
      BY <2>2 DEF Complete
    <3>2. CASE d \in Ancestors(p)
      <4>1. p \in names' \/ \E c \in directories' : c \in Ancestors(p)
        BY <1>1, <2>2, <3>2, ListingCovers
      <4> QED BY <4>1 DEF Covered, Ancestors
    <3>3. CASE d \notin Ancestors(p)
      BY <2>1, <3>1, <3>3 DEF Covered, IsFound, Ancestors
    <3> QED BY <3>2, <3>3
  <2> QED BY <2>1, <2>2, DueUnchanged DEF Complete
<1>2. ASSUME NEW q \in names, LookAt(q) PROVE Complete'
  <2>1. UNCHANGED <<world, sought, ignoreDirs, todo, directories>> /\ names' = names \ {q}
        /\ sniffing = None /\ q \in Path /\ (found' = found \/ found' = Append(found, q))
        /\ (sniffing' = IF Offered(q) /\ Doubtful(q) THEN q ELSE None)
    BY <1>2 DEF LookAt, TypeOK, Path
  <2>2. ASSUME NEW p \in Path, Due(p) PROVE Covered(p)'
    <3>1. Covered(p) /\ p # None
      BY <2>2, DiskAssumption DEF Complete, Path
    <3>2. CASE p = q
      <4>1. Offered(p) /\ (Wanted(p) \/ Doubtful(p))
        BY <2>2 DEF Due, Eligible, Offered
      <4>2. CASE Wanted(p)
        <5>1. found' = Append(found, p) /\ found \in Seq(Path)
          BY <1>2, <3>2, <4>1, <4>2 DEF LookAt, TypeOK, Path
        <5>2. IsFound(p)'
          BY <5>1, FoundAdds DEF IsFound
        <5> QED BY <5>2 DEF Covered
      <4>3. CASE Doubtful(p)
        BY <2>1, <3>2, <4>1, <4>3 DEF Covered
      <4> QED BY <4>1, <4>2, <4>3
    <3>3. CASE p # q
      <4>1. IsFound(p) => IsFound(p)'
        BY <2>1, FoundStaysFound
      <4> QED BY <2>1, <3>1, <3>3, <4>1 DEF Covered, Ancestors
    <3> QED BY <3>2, <3>3
  <2>3. (sniffing # None => Doubtful(sniffing) /\ ~IsIgnored(sniffing))'
    BY <2>1 DEF Offered, Doubtful, IsIgnored, Suffix, Base
  <2> QED BY <2>1, <2>2, <2>3, DueUnchanged DEF Complete
<1>3. ASSUME Sniff PROVE Complete'
  <2>1. UNCHANGED <<world, sought, ignoreDirs, todo, names, directories>> /\ sniffing' = None
        /\ sniffing \in Path /\ (found' = found \/ found' = Append(found, sniffing))
    BY <1>3 DEF Sniff, TypeOK, Path
  <2>2. ASSUME NEW p \in Path, Due(p) PROVE Covered(p)'
    <3>1. Covered(p)
      BY <2>2 DEF Complete
    <3>2. CASE p = sniffing
      <4>1. Doubtful(p) /\ IsRegular(p) /\ Disk[p].pem
        BY <1>3, <2>2, <3>2 DEF Sniff, Complete, Due, Eligible, Wanted, Doubtful
      <4>2. found' = Append(found, p) /\ found \in Seq(Path)
        BY <1>3, <3>2, <4>1 DEF Sniff, LooksLikePem, TypeOK, Path
      <4>3. IsFound(p)'
        BY <4>2, FoundAdds DEF IsFound
      <4> QED BY <4>3 DEF Covered
    <3>3. CASE p # sniffing
      <4>1. IsFound(p) => IsFound(p)'
        BY <2>1, FoundStaysFound
      <4> QED BY <2>1, <3>1, <3>3, <4>1 DEF Covered, Ancestors
    <3> QED BY <3>2, <3>3
  <2> QED BY <2>1, <2>2, DueUnchanged DEF Complete
<1>4. ASSUME Descend PROVE Complete'
  <2>1. UNCHANGED <<world, sought, ignoreDirs, found, names, sniffing>> /\ names = {} /\ sniffing = None
        /\ todo' = todo \cup Walked(directories) /\ directories' = {}
    BY <1>4 DEF Descend
  <2>2. ASSUME NEW p \in Path, Due(p) PROVE Covered(p)'
    <3>1. Covered(p) /\ p # None
      BY <2>2, DiskAssumption DEF Complete, Path
    <3>2. \A d \in directories : d \in Ancestors(p) => d \in Walked(directories)
      BY <2>2 DEF Due, Is, Walked, IsLink
    <3> QED BY <2>1, <3>1, <3>2 DEF Covered, IsFound, Ancestors
  <2> QED BY <2>1, <2>2, DueUnchanged DEF Complete
<1>5. ASSUME NEW q \in Path, Remove(q) \/ Restore(q) PROVE Complete'
  <2>1. UNCHANGED <<walk, sought, ignoreDirs>> /\ disturbed \subseteq disturbed'
    BY <1>5 DEF Remove, Restore, Change
  <2>2. ASSUME NEW p \in Path, Due(p)' PROVE Covered(p)'
    <3>1. Due(p)
      BY <2>1, <2>2, DueShrinks
    <3> QED BY <2>1, <3>1 DEF Complete, Covered, IsFound, Ancestors, walk
  <2>3. (sniffing # None => Doubtful(sniffing) /\ ~IsIgnored(sniffing))'
    BY <2>1 DEF Complete, walk, Doubtful, IsIgnored, Suffix, Base
  <2> QED BY <2>2, <2>3 DEF Complete
<1>6. CASE UNCHANGED vars
  <2>1. UNCHANGED <<world, sought, ignoreDirs, walk>>
    BY <1>6 DEF vars
  <2>2. \A p \in Path : Due(p)' <=> Due(p)
    BY <2>1, DueUnchanged
  <2>3. \A p \in Path : Covered(p)' <=> Covered(p)
    BY <2>1 DEF Covered, IsFound, Ancestors, walk
  <2>4. (sniffing # None => Doubtful(sniffing) /\ ~IsIgnored(sniffing))'
    BY <2>1 DEF Complete, walk, Doubtful, IsIgnored, Suffix, Base
  <2> QED BY <2>2, <2>3, <2>4 DEF Complete
<1> QED BY <1>1, <1>2, <1>3, <1>4, <1>5, <1>6 DEF Next, Step, Path

-----------------------------------------------------------------------------
(***************************************************************************)
(* The walk implements Search                                              *)
(***************************************************************************)

\* When the walk has returned, all that must be found is found.
LEMMA ReturnedComplete ==
  TypeOK /\ Complete /\ Returned => \A p \in Path : Due(p) => IsFound(p)
<1> SUFFICES ASSUME TypeOK, Complete, Returned
             PROVE  \A p \in Path : Due(p) => IsFound(p)
  OBVIOUS
<1>1. todo = {} /\ names = {} /\ directories = {} /\ sniffing = None
  BY DEF Returned, TypeOK
<1>2. \A p \in Path : p # None
  BY DiskAssumption DEF Path
<1> QED BY <1>1, <1>2 DEF Complete, Covered

\* The initial states map to initial states.
LEMMA RefineInit == Init => Abs!Init
<1> SUFFICES ASSUME Init PROVE Abs!Init
  OBVIOUS
<1>1. {p \in DOMAIN Disk : Due(p)} \subseteq {p \in DOMAIN Disk : Eligible(p)}
  BY DEF Due
<1>2. found = <<>> /\ ~Returned
  BY DEF Init, Returned
<1> QED BY <1>1, <1>2 DEF Abs!Init

\* A step that leaves the disk alone and collects nothing is a stutter, or the
\* last one.
LEMMA QuietStep ==
  ASSUME TypeOK, TypeOK', Complete', UNCHANGED <<world, sought, ignoreDirs, found>>, ~Returned
  PROVE  [Abs!Next]_(Abs!vars)
<1>1. \A p : Eligible(p)' <=> Eligible(p)
  BY DEF world, Eligible, IsRegular, Is, Reachable, IsIgnored, Wanted, Doubtful, Suffix, Base, Parent
<1>2. \A p : Due(p)' <=> Due(p)
  BY DueUnchanged
<1>3. /\ {p \in DOMAIN Disk : Eligible(p)}' = {p \in DOMAIN Disk : Eligible(p)}
      /\ {p \in DOMAIN Disk : Due(p)}' = {p \in DOMAIN Disk : Due(p)}
  BY <1>1, <1>2
<1>4. CASE ~Returned'
  <2>1. found' = found
    OBVIOUS
  <2>2. Returned' = Returned
    BY <1>4 DEF Returned
  <2> QED BY <1>3, <2>1, <2>2 DEF Abs!vars
<1>5. CASE Returned'
  <2>1. (\A p \in Path : Due(p) => IsFound(p))'
    BY <1>5, ReturnedComplete, PTL
  <2>2. {p \in DOMAIN Disk : Due(p)} \subseteq Abs!Taken
    BY <1>2, <2>1 DEF Abs!Taken, IsFound, Path
  <2>3. Abs!Finish
    BY <1>3, <1>5, <2>2 DEF Abs!Finish
  <2> QED BY <2>3 DEF Abs!Next
<1> QED BY <1>4, <1>5

\* Collecting an eligible file not found before is a Take.
LEMMA TakeStep ==
  ASSUME TypeOK, NEW p \in Path, Eligible(p), ~IsFound(p), found' = Append(found, p),
         UNCHANGED <<world, sought, ignoreDirs, here>>, here # None
  PROVE  Abs!Next
<1>1. \A q : Eligible(q)' <=> Eligible(q)
  BY DEF world, Eligible, IsRegular, Is, Reachable, IsIgnored, Wanted, Doubtful, Suffix, Base, Parent
<1>2. \A q : Due(q)' <=> Due(q)
  BY DueUnchanged
<1>3. /\ {q \in DOMAIN Disk : Eligible(q)}' = {q \in DOMAIN Disk : Eligible(q)}
      /\ {q \in DOMAIN Disk : Due(q)}' = {q \in DOMAIN Disk : Due(q)}
  BY <1>1, <1>2
<1>4. ~Returned /\ ~Returned'
  BY DEF Returned
<1>5. p \notin Abs!Taken
  BY DEF Abs!Taken, IsFound
<1>6. Returned' = Returned
  BY <1>4 DEF Returned
<1>7. Abs!Take(p)
  BY <1>3, <1>4, <1>5, <1>6 DEF Abs!Take, Path
<1> QED BY <1>7 DEF Abs!Next, Path

\* Every step maps to a step of Search or to a stutter.
LEMMA RefineNext ==
  TypeOK /\ TypeOK' /\ Apart /\ Complete /\ Complete' /\ [Next]_vars => [Abs!Next]_(Abs!vars)
<1> SUFFICES ASSUME TypeOK, TypeOK', Apart, Complete, Complete', [Next]_vars
             PROVE  [Abs!Next]_(Abs!vars)
  OBVIOUS
<1>1. ASSUME NEW d \in todo, ListDirectory(d) PROVE [Abs!Next]_(Abs!vars)
  <2>1. UNCHANGED <<world, sought, ignoreDirs, found>> /\ ~Returned
    BY <1>1 DEF ListDirectory, Returned
  <2> QED BY <2>1, QuietStep
<1>2. ASSUME NEW p \in names, LookAt(p) PROVE [Abs!Next]_(Abs!vars)
  <2>1. UNCHANGED <<world, sought, ignoreDirs, here>> /\ here # None /\ p \in Path
    BY <1>2 DEF LookAt, TypeOK, Path
  <2>2. CASE Offered(p) /\ Wanted(p)
    <3>1. found' = Append(found, p) /\ Eligible(p)
      BY <1>2, <2>2 DEF LookAt, Offered, Eligible
    <3>2. ~IsFound(p)
      BY DEF IsFound, Apart
    <3>3. Abs!Next
      BY <2>1, <3>1, <3>2, TakeStep
    <3> QED BY <3>3
  <2>3. CASE ~(Offered(p) /\ Wanted(p))
    <3>1. found' = found /\ ~Returned
      BY <1>2, <2>3 DEF LookAt, Returned
    <3> QED BY <2>1, <3>1, QuietStep
  <2> QED BY <2>2, <2>3
<1>3. ASSUME Sniff PROVE [Abs!Next]_(Abs!vars)
  <2>1. UNCHANGED <<world, sought, ignoreDirs, here>> /\ here # None /\ sniffing \in Path
    BY <1>3 DEF Sniff, TypeOK, Path
  <2>2. CASE LooksLikePem(sniffing)
    <3>1. found' = Append(found, sniffing)
      BY <1>3, <2>2 DEF Sniff
    <3>2. Eligible(sniffing)
      BY <1>3, <2>2 DEF Sniff, LooksLikePem, Eligible, Complete
    <3>3. ~IsFound(sniffing)
      BY DEF IsFound, Apart
    <3>4. Abs!Next
      BY <2>1, <3>1, <3>2, <3>3, TakeStep
    <3> QED BY <3>4
  <2>3. CASE ~LooksLikePem(sniffing)
    <3>1. found' = found /\ ~Returned
      BY <1>3, <2>1, <2>3 DEF Sniff, Returned
    <3> QED BY <2>1, <3>1, QuietStep
  <2> QED BY <2>2, <2>3
<1>4. ASSUME Descend PROVE [Abs!Next]_(Abs!vars)
  <2>1. UNCHANGED <<world, sought, ignoreDirs, found>> /\ ~Returned
    BY <1>4 DEF Descend, Returned
  <2> QED BY <2>1, QuietStep
<1>5. ASSUME NEW q \in Path, Remove(q) \/ Restore(q) PROVE [Abs!Next]_(Abs!vars)
  <2>1. UNCHANGED <<walk, sought, ignoreDirs>> /\ disturbed \subseteq disturbed' /\ ~Returned
    BY <1>5 DEF Remove, Restore, Change
  <2>2. found' = found /\ Returned' = Returned
    BY <2>1 DEF walk, Returned
  <2>3. \A p \in Path : Due(p)' => Due(p) /\ Eligible(p)'
    <3> SUFFICES ASSUME NEW p \in Path, Due(p)' PROVE Due(p) /\ Eligible(p)'
      OBVIOUS
    <3>1. Due(p)
      BY <2>1, DueShrinks
    <3>2. Eligible(p)'
      BY DEF Due
    <3> QED BY <3>1, <3>2
  <2>4. {p \in DOMAIN Disk : Due(p)}'
          \subseteq {p \in DOMAIN Disk : Due(p)} \cap {p \in DOMAIN Disk : Eligible(p)}'
    BY <2>3 DEF Path
  <2>5. {p \in DOMAIN Disk : Eligible(p)}' \subseteq DOMAIN Disk
    OBVIOUS
  <2>6. Abs!Change
    BY <2>1, <2>2, <2>4, <2>5 DEF Abs!Change
  <2> QED BY <2>6 DEF Abs!Next
<1>6. CASE UNCHANGED vars
  <2>1. UNCHANGED <<world, sought, ignoreDirs, walk>>
    BY <1>6 DEF vars
  <2>2. \A p : Eligible(p)' <=> Eligible(p)
    BY <2>1 DEF world, Eligible, IsRegular, Is, Reachable, IsIgnored, Wanted, Doubtful, Suffix, Base,
                Parent
  <2>3. \A p : Due(p)' <=> Due(p)
    BY <2>1, DueUnchanged
  <2>4. found' = found /\ (Returned' <=> Returned)
    BY <2>1 DEF walk, Returned
  <2>5. /\ {p \in DOMAIN Disk : Eligible(p)}' = {p \in DOMAIN Disk : Eligible(p)}
        /\ {p \in DOMAIN Disk : Due(p)}' = {p \in DOMAIN Disk : Due(p)}
    BY <2>2, <2>3
  <2> QED BY <2>4, <2>5 DEF Abs!vars
<1> QED BY <1>1, <1>2, <1>3, <1>4, <1>5, <1>6 DEF Next, Step, Path

\* Every file that was eligible all the time is found, no file that never was,
\* and none twice, however files come and go around the walk (walk.py, walk_files).
THEOREM Refines == Spec => ImplementsSearch
BY TypeInit, TypeNext, ApartInit, ApartNext, CompleteInit, CompleteNext, RefineInit, RefineNext, PTL
   DEF Spec, ImplementsSearch, Abs!Spec

-----------------------------------------------------------------------------
(***************************************************************************)
(* The bridge to liboqs                                                    *)
(***************************************************************************)

Turned == {"redirect1", "redirect2", "import", "restore1", "restore2"}

Before == Turned \cup {"save", "settle"}

Descriptors == [1..2 -> {"user", "sink"}]

(***************************************************************************)
(* The import                                                              *)
(***************************************************************************)

\* The copies exist exactly while the descriptors are turned away, and lead to
\* the user; they are given back one after the other.
Kept ==
  /\ pc \in Before \cup {"idle", "answer"}
  /\ output \in Descriptors
  /\ pc \in Turned <=> saved # None
  /\ saved # None => saved \in Descriptors
  /\ torn \in BOOLEAN
  /\ ~torn => /\ saved # None => saved = User
              /\ pc \notin Turned => output = User
              /\ pc = "restore2" => output[1] = "user"

Safe ==
  /\ Kept
  /\ pc \in {"restore1", "restore2", "settle"} => imported \in Outcome
  /\ NothingEscapes

\* Two descriptors that both lead to the user.
LEMMA BothToUser ==
  ASSUME NEW o \in Descriptors, o[1] = "user", o[2] = "user"
  PROVE  o = User
BY DEF Descriptors, User

\* What leads to the user is a pair of descriptors, and not None.
LEMMA UserIsDescriptors == User \in Descriptors /\ User # None
BY NoneAssumption DEF User, Descriptors

\* Nothing is turned away before the first call,
LEMMA SafeInit == BridgeInit => Safe
BY UserIsDescriptors DEF BridgeInit, Safe, Kept, Before, Turned, NothingEscapes

\* and every step gives back what it has turned away, or still holds it.
LEMMA SafeNext == Safe /\ [BridgeNext]_bridgeVars => Safe'
<1> SUFFICES ASSUME Safe, [BridgeNext]_bridgeVars PROVE Safe'
  OBVIOUS
<1> USE DEF Safe, Kept, Before, Turned
<1>1. ASSUME NEW c \in Calls, Start(c) PROVE Safe'
  BY <1>1 DEF Start, redirection, NothingEscapes
<1>2. CASE SaveOutput
  BY <1>2, NoneAssumption DEF SaveOutput, NothingEscapes, Descriptors
<1>3. CASE NoSink
  BY <1>3 DEF NoSink, Escape, redirection, NothingEscapes
<1>4. ASSUME NEW d \in 1..2, Redirect(d) PROVE Safe'
  <2>1. output' \in Descriptors
    BY <1>4 DEF Redirect, Descriptors
  <2> QED BY <1>4, <2>1 DEF Redirect, NothingEscapes
<1>5. ASSUME NEW d \in 1..2, RestoreOutput(d) PROVE Safe'
  <2>1. saved \in Descriptors /\ output \in Descriptors
    BY <1>5 DEF RestoreOutput
  <2>2. output' \in Descriptors
    BY <1>5, <2>1 DEF RestoreOutput, Descriptors
  <2>3. CASE d = 1
    <3>1. ~torn => output'[1] = "user"
      BY <1>5, <2>1, <2>3 DEF RestoreOutput, Descriptors, User
    <3> QED BY <1>5, <2>2, <2>3, <3>1 DEF RestoreOutput, NothingEscapes
  <2>4. CASE d = 2
    <3>1. RestoreOutput(2)
      BY <1>5, <2>4
    <3>2. pc = "restore2" /\ pc' = "settle" /\ saved' = None
      BY <3>1 DEF RestoreOutput
    <3>3. ~torn => saved = User /\ output[1] = "user"
      BY <3>2
    <3>4. ~torn => output'[1] = "user" /\ output'[2] = "user"
      BY <2>1, <3>1, <3>3 DEF RestoreOutput, Descriptors, User
    <3>5. ~torn => output' = User
      BY <2>2, <3>4, BothToUser
    <3> QED BY <2>2, <3>1, <3>2, <3>5 DEF RestoreOutput, NothingEscapes
  <2>5. d = 1 \/ d = 2
    OBVIOUS
  <2> QED BY <2>3, <2>4, <2>5
<1>6. ASSUME NEW o \in Outcome, Import(o) PROVE Safe'
  BY <1>6 DEF Import, AfterImport, redirection, NothingEscapes
<1>7. CASE Settle
  <2>1. imported \notin Swallowed => imported = "KeyboardInterrupt"
    BY <1>7 DEF Settle, Outcome, Swallowed
  <2> QED BY <1>7, <2>1 DEF Settle, Escape, redirection, NothingEscapes
<1>8. CASE Answer
  BY <1>8 DEF Answer, redirection, NothingEscapes
<1>9. CASE Interrupt
  BY <1>9 DEF Interrupt, Escape, NothingEscapes
<1>10. CASE UNCHANGED bridgeVars
  BY <1>10 DEF bridgeVars, redirection, NothingEscapes
<1> QED BY <1>1, <1>2, <1>3, <1>4, <1>5, <1>6, <1>7, <1>8, <1>9, <1>10 DEF BridgeNext

\* Whatever the import does, the output is restored unless the user interrupted
\* the switching of the descriptors, and nothing but an interrupt, unreadable
\* chatter or a full disk comes out of a call (liboqs_bridge.py, _guarded_import).
THEOREM Contained == BridgeSpec => []ImportContained
<1>1. Safe => ImportContained
  BY DEF Safe, Kept, Turned, ImportContained, OutputRestored
<1> QED BY <1>1, SafeInit, SafeNext, PTL DEF BridgeSpec

-----------------------------------------------------------------------------
(***************************************************************************)
(* The cache                                                               *)
(***************************************************************************)

Cache == {<<l>> : l \in Installed \cup {None}}

\* The library is settled before the first answer, and every answer is what it
\* makes of the call.
Cached ==
  /\ pc \in Before \cup {"idle", "answer"}
  /\ probe = None \/ probe \in Cache
  /\ pc \in Before => probe = None
  /\ pc = "answer" => probe \in Cache
  /\ pc # "idle" => call \in Calls
  /\ answered = [c \in Calls |-> answered[c]]
  /\ \A c \in Calls : answered[c] # None =>
       probe \in Cache /\ answered[c] = <<AnswerTo(c, probe[1])>>

\* A filled cache can be told from an empty one.
LEMMA CacheIsKnown == None \notin Cache
BY NoneAssumption DEF Cache, Installed

\* No answer has been given at first,
LEMMA CachedInit == BridgeInit => Cached
BY DEF BridgeInit, Cached, Before

\* and each one given is the answer of the library in the cache.
LEMMA CachedNext == Cached /\ [BridgeNext]_bridgeVars => Cached'
<1> SUFFICES ASSUME Cached, [BridgeNext]_bridgeVars PROVE Cached'
  OBVIOUS
<1> USE DEF Cached, Before, Turned
<1>1. ASSUME NEW c \in Calls, Start(c) PROVE Cached'
  BY <1>1 DEF Start
<1>2. CASE SaveOutput
  BY <1>2 DEF SaveOutput
<1>3. CASE NoSink
  BY <1>3 DEF NoSink, Escape
<1>4. ASSUME NEW d \in 1..2, Redirect(d) PROVE Cached'
  BY <1>4 DEF Redirect
<1>5. ASSUME NEW d \in 1..2, RestoreOutput(d) PROVE Cached'
  BY <1>5 DEF RestoreOutput
<1>6. ASSUME NEW o \in Outcome, Import(o) PROVE Cached'
  BY <1>6 DEF Import, AfterImport
<1>7. CASE Settle
  <2>1. \A c \in Calls : answered[c] = None
    BY <1>7, CacheIsKnown DEF Settle
  <2>2. probe' = None \/ probe' \in Cache
    BY <1>7 DEF Settle, Remembered, Cache
  <2>3. pc' = "answer" => probe' \in Cache
    BY <1>7 DEF Settle, Escape, Remembered, Cache
  <2> QED BY <1>7, <2>1, <2>2, <2>3 DEF Settle, Escape
<1>8. CASE Answer
  <2>1. probe \in Cache /\ probe # None /\ call \in Calls
    BY <1>8, CacheIsKnown DEF Answer
  <2>2. answered' = [answered EXCEPT ![call] = <<AnswerTo(call, probe[1])>>]
    BY <1>8, <2>1 DEF Answer
  <2>3. UNCHANGED probe
    BY <1>8 DEF Answer
  <2>4. \A c \in Calls : AnswerTo(c, probe[1])' = AnswerTo(c, probe[1])
    BY <2>3 DEF AnswerTo
  <2>5. answered' = [c \in Calls |-> answered'[c]]
    BY <2>2
  <2>6. \A c \in Calls : answered'[c] # None => answered'[c] = <<AnswerTo(c, probe[1])>>
    BY <2>1, <2>2
  <2> QED BY <1>8, <2>1, <2>3, <2>4, <2>5, <2>6 DEF Answer
<1>9. CASE Interrupt
  BY <1>9 DEF Interrupt, Escape
<1>10. CASE UNCHANGED bridgeVars
  BY <1>10 DEF bridgeVars
<1> QED BY <1>1, <1>2, <1>3, <1>4, <1>5, <1>6, <1>7, <1>8, <1>9, <1>10 DEF BridgeNext

\* No answer is ever taken back, however many imports were interrupted before
\* the first that ended (liboqs_bridge.py, _oqs).
THEOREM Stand == BridgeSpec => AnswersStand
<1>1. Cached /\ Cached' /\ [BridgeNext]_bridgeVars
        => [\A c \in Calls : answered[c] # None => answered'[c] = answered[c]]_bridgeVars
  <2> SUFFICES ASSUME Cached, Cached', [BridgeNext]_bridgeVars, NEW c \in Calls, answered[c] # None
               PROVE  answered'[c] = answered[c]
    OBVIOUS
  <2>1. CASE Answer
    <3>1. probe \in Cache /\ probe # None /\ call \in Calls
      BY <2>1, CacheIsKnown DEF Answer, Cached
    <3>2. answered' = [answered EXCEPT ![call] = <<AnswerTo(call, probe[1])>>]
      BY <2>1, <3>1 DEF Answer
    <3>3. answered[c] = <<AnswerTo(c, probe[1])>> /\ answered = [d \in Calls |-> answered[d]]
      BY DEF Cached
    <3> QED BY <3>1, <3>2, <3>3
  <2>2. CASE ~Answer
    BY <2>2 DEF BridgeNext, Start, SaveOutput, NoSink, Redirect, RestoreOutput, Import, Settle, Interrupt, bridgeVars
  <2> QED BY <2>1, <2>2
<1> QED BY <1>1, CachedInit, CachedNext, PTL DEF BridgeSpec, AnswersStand

-----------------------------------------------------------------------------
(***************************************************************************)
(* The two ways to ask for a mechanism                                     *)
(***************************************************************************)

\* A mechanism that is listed is found, and one that is found is listed where both
\* listings work.
LEMMA ListedAndFound ==
  ASSUME NEW l \in Installed, NEW m \in Mechanism
  PROVE  /\ Catalog[m].liboqsName \in EnabledMechanisms(l) => RawDetails(l, m) # None
         /\ None \notin {Library[l].kems, Library[l].sigs} /\ RawDetails(l, m) # None
              => Catalog[m].liboqsName \in EnabledMechanisms(l)
<1>1. l # None /\ Catalog[m].kind \in {"kem", "signature"}
  BY NoneAssumption, CatalogAssumption DEF Installed, Mechanism
<1>2. /\ EnabledMechanisms(l) = Enabled(Library[l].kems) \cup Enabled(Library[l].sigs)
      /\ Enabled(Library[l].kems) \in {{}, DOMAIN Library[l].handles["kem"]}
      /\ Enabled(Library[l].sigs) \in {{}, DOMAIN Library[l].handles["signature"]}
  BY <1>1, ListingAssumption DEF EnabledMechanisms, Enabled, Installed
<1>3. None \notin {Library[l].kems, Library[l].sigs} =>
        EnabledMechanisms(l) = DOMAIN Library[l].handles["kem"] \cup DOMAIN Library[l].handles["signature"]
  BY <1>1, ListingAssumption DEF EnabledMechanisms, Enabled, Installed
<1>4. \A kind \in {"kem", "signature"} :
        Catalog[m].liboqsName \in DOMAIN Library[l].handles[kind] => kind = Catalog[m].kind
  BY ListingAssumption DEF Installed, Mechanism
<1>5. RawDetails(l, m) # None <=> Catalog[m].liboqsName \in DOMAIN Library[l].handles[Catalog[m].kind]
  BY <1>1, ListingAssumption DEF RawDetails, Installed
<1>6. Catalog[m].liboqsName \in EnabledMechanisms(l) =>
        \E kind \in {"kem", "signature"} : Catalog[m].liboqsName \in DOMAIN Library[l].handles[kind]
  BY <1>2
<1>7. Catalog[m].liboqsName \in EnabledMechanisms(l) => RawDetails(l, m) # None
  BY <1>4, <1>5, <1>6
<1>8. None \notin {Library[l].kems, Library[l].sigs} /\ RawDetails(l, m) # None
        => Catalog[m].liboqsName \in EnabledMechanisms(l)
  BY <1>1, <1>3, <1>5
<1> QED BY <1>7, <1>8

\* verify_catalog misses no mechanism that describe cannot find, and complains of no
\* other unless a listing raised (liboqs_bridge.py, verify_catalog and describe).
THEOREM VerifyAgrees == BridgeSpec => []VerifyAgreesWithDescribe
<1>1. Cached => VerifyAgreesWithDescribe
  <2> SUFFICES ASSUME Cached, NEW m \in Mechanism,
                      Known(<<"verify_catalog">>), Known(<<"describe", m>>)
               PROVE  LET described == answered[<<"describe", m>>][1]
                      IN /\ described = "not_mapped" <=> Complains(m, "not_mapped")
                         /\ described = "missing_from_build" => Complains(m, "missing")
                         /\ ListsAll /\ Complains(m, "missing") => described = "missing_from_build"
    BY DEF VerifyAgreesWithDescribe
  <2> DEFINE problems  == answered[<<"verify_catalog">>][1]
             described == answered[<<"describe", m>>][1]
  <2>1. <<"verify_catalog">> \in Calls /\ <<"describe", m>> \in Calls
    BY DEF Calls
  <2>2. PICK l \in Installed \cup {None} : probe = <<l>>
    BY <2>1 DEF Cached, Known, Cache
  <2>3. problems = VerifyCatalog(l) /\ described = Describe(l, m)
    BY <2>1, <2>2 DEF Cached, Known, AnswerTo
  <2>4. \A p : Complains(m, p) <=> m \in DOMAIN problems /\ problems[m] = p
    BY DEF Complains
  <2> HIDE DEF problems, described
  <2>5. CASE l = None
    <3>1. m \notin DOMAIN problems
      BY <2>3, <2>5 DEF VerifyCatalog
    <3>2. described = "unavailable"
      BY <2>3, <2>5 DEF Describe
    <3> QED BY <2>4, <3>1, <3>2 DEF described
  <2>6. CASE l \in Installed
    <3>1. l # None /\ (ListsAll => None \notin {Library[l].kems, Library[l].sigs})
      BY <2>2, <2>6, NoneAssumption DEF Installed, ListsAll
    <3>2. m \in DOMAIN problems /\ problems[m] = "not_mapped" <=> Catalog[m].liboqsName = None
      BY <2>3, <3>1 DEF VerifyCatalog
    <3>3. m \in DOMAIN problems /\ problems[m] = "missing"
            <=> Catalog[m].liboqsName # None /\ Catalog[m].liboqsName \notin EnabledMechanisms(l)
      BY <2>3, <3>1 DEF VerifyCatalog
    <3>4. described = "not_mapped" <=> Catalog[m].liboqsName = None
      BY <2>3, <3>1 DEF Describe
    <3>5. described = "missing_from_build"
            <=> Catalog[m].liboqsName # None /\ RawDetails(l, m) = None
      BY <2>3, <3>1 DEF Describe
    <3> QED BY <2>4, <2>6, <3>1, <3>2, <3>3, <3>4, <3>5, ListedAndFound DEF described
  <2> QED BY <2>5, <2>6 DEF described
<1> QED BY <1>1, CachedInit, CachedNext, PTL DEF BridgeSpec
=============================================================================
