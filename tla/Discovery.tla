------------------------------ MODULE Discovery ------------------------------
(***************************************************************************)
(* One walk over the files of a project, looking for sources or for        *)
(* certificates and keys, while other programs remove and restore files.   *)
(*                                                                         *)
(* A name is the pair of its stem and its suffix; a path is the sequence   *)
(* of the names from the root of the walk, which is <<>>: what lies above  *)
(* the root is never judged.  os.walk goes down one branch before the next *)
(* and lists the names of a directory in the order of the disk; here any   *)
(* directory and any name may come next.  The list that is returned is     *)
(* sorted, which no property depends on.                                   *)
(***************************************************************************)
EXTENDS Python, Integers, Sequences, FiniteSets

CONSTANTS
  Disk,          \* path -> what can be there: [kind, pem]
  Project,       \* the sets of paths that can exist when the walk begins
  ExtraIgnore,   \* the sets of names the user may ask to ignore
  MaxChanges     \* how often other programs interfere, at most (bounds the model)

PrefixClosed(paths) ==
  \A p \in paths : p # <<>> => SubSeq(p, 1, Len(p) - 1) \in paths

ASSUME DiskAssumption ==
  /\ \A p \in DOMAIN Disk : p \in Seq({p[i] : i \in DOMAIN p})
  /\ None \notin DOMAIN Disk

ASSUME ProjectAssumption ==
  \A t \in Project : t \subseteq DOMAIN Disk /\ <<>> \in t /\ PrefixClosed(t)

ASSUME MaxChangesAssumption == MaxChanges \in Nat

VARIABLES
  tree,          \* the paths that exist
  sought,        \* what the walk is for: "source" or "artifact"
  ignoreDirs,    \* the names it passes over
  todo,          \* the directories still to list
  here,          \* the directory being walked, None between two of them
  names,         \* what it holds that is no directory, still to look at
  directories,   \* what it holds that is one
  sniffing,      \* the file about to be opened, None if there is none
  found,         \* what the caller has collected
  changes,       \* how often the disk has changed
  disturbed      \* the paths that did not exist all the time (history)

walk == <<todo, here, names, directories, sniffing, found>>
world == <<tree, changes, disturbed>>

vars == <<walk, world, sought, ignoreDirs>>

-----------------------------------------------------------------------------
(***************************************************************************)
(* Names                                                                   *)
(***************************************************************************)

SourceExtensions == {".py"}
ArtifactExtensions == {".pem", ".crt", ".cer", ".der", ".key", ".pub", ".p12", ".pfx"}
SkipExtensions == {".py", ".md", ".txt", ".json", ".toml", ".yaml", ".yml"}

DefaultIgnoreDirs ==
  {<<".git", "">>, <<"__pycache__", "">>, <<".venv", "">>, <<"venv", "">>, <<"env", "">>,
   <<"build", "">>, <<"dist", "">>, <<"node_modules", "">>, <<".pytest_cache", "">>,
   <<".mypy_cache", "">>, <<".tox", "">>, <<"site-packages", "">>, <<"egg-info", "">>}

IsIgnored(parts) ==
  \E i \in DOMAIN parts : parts[i] \in ignoreDirs \/ parts[i][2] = ".egg-info"

Base(p) == p[Len(p)]

Parent(p) == SubSeq(p, 1, Len(p) - 1)

Suffix(p) == IF p = <<>> THEN "" ELSE Base(p)[2]

\* q is p or lies under it.
Under(q, p) == Len(p) <= Len(q) /\ SubSeq(q, 1, Len(p)) = p

(***************************************************************************)
(* What the operating system answers about a path, now.  A directory may   *)
(* be locked: it cannot be listed; or sealed: it can, but nothing in it    *)
(* can be looked at.  "loose" is a link that leads nowhere or to itself.   *)
(***************************************************************************)

Is(p, kinds) == p \in tree /\ Disk[p].kind \in kinds

\* Nothing in a sealed directory can be looked at.
Reachable(p) == p = <<>> \/ ~Is(Parent(p), {"sealed"})

\* DirEntry.is_dir: the listing tells directories, a link has to be followed.
IsDirectory(p) ==
  \/ Is(p, {"directory", "locked", "sealed"})
  \/ Is(p, {"directory link"}) /\ Reachable(p)

IsLink(p) == Is(p, {"directory link", "file link", "loose"}) /\ Reachable(p)

Listable(p) == Is(p, {"directory", "sealed", "directory link"}) /\ Reachable(p)

\* Mutant: all that lies below, at any depth.
MutAllBelow(d) == {p \in tree : p # d /\ Under(p, d)}

Children(d) == {p \in tree : p # <<>> /\ Parent(p) = d}

\* Path.is_file, which follows links: a pipe is no file.
IsRegular(p) == Is(p, {"file", "file link"}) /\ Reachable(p)

\* A file that vanished or cannot be read looks like nothing.
LooksLikePem(p) == IsRegular(p) /\ Disk[p].pem

-----------------------------------------------------------------------------
Init ==
  /\ tree \in Project
  /\ sought \in {"source", "artifact"}
  /\ \E extra \in ExtraIgnore : ignoreDirs = DefaultIgnoreDirs \cup extra
  /\ todo = {<<>>}
  /\ here = None /\ names = {} /\ directories = {} /\ sniffing = None
  /\ found = <<>>
  /\ changes = 0
  /\ disturbed = DOMAIN Disk \ tree

\* A directory that vanished or cannot be listed is reported and passed over.
\* Mutant: it is tried again.
MutRetried(d) == IF Listable(d) THEN todo \ {d} ELSE todo

Untried(d) == todo \ {d}

ListDirectory(d) ==
  /\ here = None
  /\ d \in todo
  /\ todo' = Untried(d)
  /\ IF Listable(d)
     THEN /\ here' = d
          /\ names' = {p \in Children(d) : ~IsDirectory(p)}
          /\ directories' = {p \in Children(d) : IsDirectory(p) /\ ~IsIgnored(<<Base(p)>>)}
     ELSE UNCHANGED <<here, names, directories>>
  /\ UNCHANGED <<world, sought, ignoreDirs, sniffing, found>>

\* Mutant: whatever a listing does not call a directory is taken for a file.
MutUnchecked(p) == ~IsIgnored(p)

Offered(p) == ~IsIgnored(p) /\ IsRegular(p)

\* The suffix alone settles that p is wanted.
Wanted(p) ==
  \/ sought = "source" /\ Suffix(p) \in SourceExtensions
  \/ sought = "artifact" /\ Suffix(p) \in ArtifactExtensions

\* The suffix does not settle it: the file has to be opened.
Doubtful(p) == sought = "artifact" /\ Suffix(p) \notin ArtifactExtensions \cup SkipExtensions

LookAt(p) ==
  /\ here # None
  /\ sniffing = None
  /\ p \in names
  /\ names' = names \ {p}
  /\ found' = IF Offered(p) /\ Wanted(p) THEN Append(found, p) ELSE found
  /\ sniffing' = IF Offered(p) /\ Doubtful(p) THEN p ELSE None
  /\ UNCHANGED <<world, sought, ignoreDirs, todo, here, directories>>

Sniff ==
  /\ sniffing # None
  /\ found' = IF LooksLikePem(sniffing) THEN Append(found, sniffing) ELSE found
  /\ sniffing' = None
  /\ UNCHANGED <<world, sought, ignoreDirs, todo, here, names, directories>>

\* The subdirectories to walk, looked at once the names are done.  Mutant: links
\* are followed.
MutFollowed(ds) == ds

Walked(ds) == {d \in ds : ~IsLink(d)}

Descend ==
  /\ here # None
  /\ names = {}
  /\ sniffing = None
  /\ todo' = todo \cup Walked(directories)
  /\ here' = None
  /\ directories' = {}
  /\ UNCHANGED <<world, sought, ignoreDirs, names, sniffing, found>>

Returned == todo = {} /\ here = None

Step ==
  \/ \E d \in todo : ListDirectory(d)
  \/ \E p \in names : LookAt(p)
  \/ Sniff
  \/ Descend

(***************************************************************************)
(* Other programs                                                          *)
(***************************************************************************)

Change(gone, back) ==
  /\ changes < MaxChanges
  /\ ~Returned
  /\ changes' = changes + 1
  /\ tree' = (tree \ gone) \cup back
  /\ disturbed' = disturbed \cup gone
  /\ UNCHANGED <<walk, sought, ignoreDirs>>

Remove(p) == p \in tree /\ Change({q \in tree : Under(q, p)}, {})

Restore(p) ==
  /\ p \notin tree
  /\ p # <<>> => IsDirectory(Parent(p))
  /\ Change({}, {p})

Next == Step \/ \E p \in DOMAIN Disk : Remove(p) \/ Restore(p)

\* A single thread that no call blocks: a pipe is never opened.
Fairness == WF_vars(Step)

Spec == Init /\ [][Next]_vars /\ Fairness

-----------------------------------------------------------------------------
(***************************************************************************)
(* What the walk must satisfy                                              *)
(***************************************************************************)

\* Where the walk is: it has entries in hand only while it is in their directory
\* (walk.py, walk_files).
TypeOK ==
  /\ tree \subseteq DOMAIN Disk /\ PrefixClosed(tree)
  /\ sought \in {"source", "artifact"}
  /\ todo \subseteq DOMAIN Disk
  /\ here \in DOMAIN Disk \cup {None}
  /\ names \cup directories \subseteq DOMAIN Disk \ {<<>>}
  /\ sniffing \in DOMAIN Disk \cup {None}
  /\ found \in Seq(DOMAIN Disk)
  /\ changes \in 0..MaxChanges
  /\ disturbed \subseteq DOMAIN Disk /\ DOMAIN Disk \ tree \subseteq disturbed
  /\ here = None => names = {} /\ directories = {} /\ sniffing = None
  /\ \A p \in names \cup directories \cup ({sniffing} \ {None}) :
       p # <<>> /\ Parent(p) = here

\* The proper prefixes of a path: the directories it lies in.
Ancestors(p) == {SubSeq(p, 1, n) : n \in 0..(Len(p) - 1)}

\* p was there all the time.
Steady(p) == p \notin disturbed

\* No file is reached through a link, nor through a directory that the user or
\* the defaults ignore, whatever other programs do; a link that itself comes and
\* goes during the walk can be taken for a directory that went (walk.py,
\* followlinks=False and the slice assignment to directories).
StaysInProject ==
  \A i \in DOMAIN found :
    /\ ~IsIgnored(found[i])
    /\ \A d \in Ancestors(found[i]) :
         d # <<>> /\ Steady(d) => Disk[d].kind # "directory link"

\* p is a file that a walk looks for, now.
Eligible(p) ==
  /\ ~IsIgnored(p) /\ IsRegular(p)
  /\ Wanted(p) \/ (Doubtful(p) /\ Disk[p].pem)

\* p must be found: it was eligible and could be reached all the time.
Due(p) ==
  /\ p # <<>>
  /\ Eligible(p) /\ Steady(p)
  /\ \A d \in Ancestors(p) : Steady(d) /\ Is(d, {"directory"})

\* The walk gives every file that was eligible all the time, no file that never
\* was, and none twice, however files come and go around it (walk.py, walk_files;
\* test_hostile_input.py, "must produce a warning and a continued scan").
Abs == INSTANCE Search WITH
         File     <- DOMAIN Disk,
         eligible <- {p \in DOMAIN Disk : Eligible(p)},
         due      <- {p \in DOMAIN Disk : Due(p)},
         taken    <- found,
         finished <- Returned

ImplementsSearch == Abs!Spec

\* The walk ends: a directory is tried once, whether or not it can be listed, and
\* does not return to the walk although it returns to the disk (walk.py, walk_files
\* and _report; test_hostile_input.py, test_a_symlink_loop_terminates, of the part
\* that is not the operating system's).
Terminates == <>Returned
=============================================================================
