----------------------------- MODULE MCDiscovery -----------------------------
(***************************************************************************)
(* A small disk with everything a walk has to get right: a link to a       *)
(* directory elsewhere, a link in a circle, a pipe with the name of a key, *)
(* a directory that cannot be listed, one that cannot be looked into,      *)
(* ignored names of every kind, a PEM file under another suffix.           *)
(***************************************************************************)
EXTENDS Discovery, TLC

Entry(kind, pem) == [kind |-> kind, pem |-> pem]

src    == <<"src", "">>
egg    == <<"x", ".egg-info">>
shared == <<"shared", "">>
loop   == <<"loop", ".py">>
vault  == <<"vault", "">>
main   == <<"main", ".py">>
key    == <<"server", ".pem">>
backup == <<"server", ".bak">>
env    == <<"env", "">>
vendor == <<"vendor", "">>

\* What the link shows is what it leads to.
MCDisk ==
  (<<>>                   :> Entry("directory", FALSE)) @@
  (<<env>>                :> Entry("file", TRUE)) @@
  (<<src>>                :> Entry("directory", FALSE)) @@
  (<<src, backup>>        :> Entry("file", TRUE)) @@
  (<<src, main>>          :> Entry("file link", FALSE)) @@
  (<<src, key>>           :> Entry("pipe", FALSE)) @@
  (<<src, shared>>        :> Entry("directory link", FALSE)) @@
  (<<src, shared, main>>  :> Entry("file", FALSE)) @@
  (<<src, loop>>          :> Entry("loose", FALSE)) @@
  (<<egg>>                :> Entry("directory", FALSE)) @@
  (<<egg, key>>           :> Entry("file", TRUE)) @@
  (<<vault>>              :> Entry("locked", FALSE)) @@
  (<<vendor>>             :> Entry("sealed", FALSE)) @@
  (<<vendor, key>>        :> Entry("file", TRUE))

\* All of it, or all but the directory where most of it lies.
MCProject ==
  {DOMAIN MCDisk, {q \in DOMAIN MCDisk : ~Under(q, <<src>>)}}

MCExtraIgnore == {{}, {vendor}}
=============================================================================
