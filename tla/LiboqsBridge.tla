---------------------------- MODULE LiboqsBridge ----------------------------
(***************************************************************************)
(* The bridge to liboqs, which need not be installed.  Its first call      *)
(* imports oqs with descriptors 1 and 2 turned into a temporary file; the  *)
(* import may give a library, raise, exit, or be interrupted, and whatever *)
(* the build it starts prints ends in the file.  The outcome is cached and *)
(* the later calls answer from it.                                         *)
(*                                                                         *)
(* A call is <<name>> or <<"describe", m>>.  Of a library the model has    *)
(* kems and sigs, the names it lists (None if the listing raises), and     *)
(* handles, the names it knows, by kind, with the category that it claims. *)
(* Sizes and the version's text are left out.                              *)
(***************************************************************************)
EXTENDS Python, Integers

CONSTANTS
  Library,    \* name of a library that may be installed -> [kems, sigs, handles]
  Catalog     \* mechanism -> [liboqsName, kind, category]

ASSUME NoneAssumption ==
  /\ None \notin DOMAIN Library \cup [1..2 -> {"user", "sink"}]
  /\ \A l \in DOMAIN Library \cup {None} : <<l>> # None

ASSUME LibraryAssumption ==
  {"Exception", "SystemExit", "KeyboardInterrupt"} \cap DOMAIN Library = {}

\* A library lists the names it knows, of each kind its own, and claims a category
\* for each.
ASSUME ListingAssumption ==
  \A l \in DOMAIN Library :
    /\ Library[l].kems \in {None, DOMAIN Library[l].handles["kem"]}
    /\ Library[l].sigs \in {None, DOMAIN Library[l].handles["signature"]}
    /\ \A kind \in {"kem", "signature"} : \A name \in DOMAIN Library[l].handles[kind] :
         Library[l].handles[kind][name] # None
    /\ \A m \in DOMAIN Catalog : \A kind \in {"kem", "signature"} :
         Catalog[m].liboqsName \in DOMAIN Library[l].handles[kind] => kind = Catalog[m].kind

ASSUME CatalogAssumption ==
  \A m \in DOMAIN Catalog : Catalog[m].kind \in {"kem", "signature"}

VARIABLES
  pc,        \* where the call in progress is
  call,      \* the call in progress, None if there is none
  output,    \* where descriptors 1 and 2 lead: "user" or "sink"
  saved,     \* their copies, None if there are none
  imported,  \* how the import ended
  chatter,   \* whether what it printed can be decoded
  probe,     \* the cache: None, or <<library>>, or <<None>>
  answered,  \* call -> its last answer
  escaped,   \* what the last call raised, None if it returned
  torn       \* an interrupt came while the output was turned away (history)

redirection == <<output, saved>>
bridgeVars == <<pc, call, redirection, imported, chatter, probe, answered, escaped, torn>>

Mechanism == DOMAIN Catalog

Installed == DOMAIN Library

Calls == {<<"available">>, <<"verify_catalog">>, <<"category_disagreements">>,
          <<"enabled_mechanisms">>} \cup {<<"describe", m>> : m \in Mechanism}

User == [d \in 1..2 |-> "user"]

-----------------------------------------------------------------------------
(***************************************************************************)
(* The answers, from the library or from None                              *)
(***************************************************************************)

Enabled(names) == IF names = None THEN {} ELSE names

\* A listing that raises lists nothing.  Mutant: signatures are not listed.
MutKemsOnly(library) == IF library = None THEN {} ELSE Enabled(Library[library].kems)

EnabledMechanisms(library) ==
  IF library = None THEN {} ELSE Enabled(Library[library].kems) \cup Enabled(Library[library].sigs)

\* The category claimed for m, None if the library has no such mechanism.
RawDetails(library, m) ==
  LET handles == Library[library].handles[IF Catalog[m].kind = "kem" THEN "kem" ELSE "signature"]
  IN IF Catalog[m].liboqsName \in DOMAIN handles THEN handles[Catalog[m].liboqsName] ELSE None

Describe(library, m) ==
  IF library = None THEN "unavailable"
  ELSE IF Catalog[m].liboqsName = None THEN "not_mapped"
  ELSE IF RawDetails(library, m) = None THEN "missing_from_build"
  ELSE "present"

VerifyCatalog(library) ==
  LET unmapped == {m \in Mechanism : Catalog[m].liboqsName = None}
      missing  == {m \in Mechanism \ unmapped :
                     Catalog[m].liboqsName \notin EnabledMechanisms(library)}
  IN IF library = None THEN <<>>
     ELSE [m \in unmapped \cup missing |-> IF m \in unmapped THEN "not_mapped" ELSE "missing"]

CategoryDisagreements(library) ==
  IF library = None THEN {}
  ELSE {m \in Mechanism :
          /\ Catalog[m].liboqsName # None
          /\ RawDetails(library, m) \notin {None, Catalog[m].category}}

AnswerTo(c, library) ==
  CASE c[1] = "available"              -> library # None
    [] c[1] = "enabled_mechanisms"     -> EnabledMechanisms(library)
    [] c[1] = "verify_catalog"         -> VerifyCatalog(library)
    [] c[1] = "category_disagreements" -> CategoryDisagreements(library)
    [] c[1] = "describe"               -> Describe(library, c[2])

-----------------------------------------------------------------------------
BridgeInit ==
  /\ pc = "idle" /\ call = None
  /\ output = User /\ saved = None
  /\ imported = None /\ chatter = "none"
  /\ probe = None
  /\ answered = [c \in Calls |-> None]
  /\ escaped = None
  /\ torn = FALSE

\* _oqs: the first call imports, the later ones do not.
Start(c) ==
  /\ pc = "idle"
  /\ call' = c
  /\ pc' = IF probe = None THEN "save" ELSE "answer"
  /\ escaped' = None
  /\ UNCHANGED <<redirection, imported, chatter, probe, answered, torn>>

SaveOutput ==
  /\ pc = "save"
  /\ saved' = output
  /\ pc' = "redirect1"
  /\ UNCHANGED <<call, output, imported, chatter, probe, answered, escaped, torn>>

\* The call ends with an exception.
Escape(exception) ==
  /\ escaped' = exception
  /\ pc' = "idle"
  /\ call' = None
  /\ imported' = None /\ chatter' = "none"

\* There is no room for the temporary file.
NoSink ==
  /\ pc = "save"
  /\ Escape("OSError")
  /\ UNCHANGED <<redirection, probe, answered, torn>>

Redirect(d) ==
  /\ pc = IF d = 1 THEN "redirect1" ELSE "redirect2"
  /\ output' = [output EXCEPT ![d] = "sink"]
  /\ pc' = IF d = 1 THEN "redirect2" ELSE "import"
  /\ UNCHANGED <<call, saved, imported, chatter, probe, answered, escaped, torn>>

Outcome == Installed \cup {"Exception", "SystemExit", "KeyboardInterrupt"}

\* The outcomes that are caught.
Swallowed == Installed \cup {"Exception", "SystemExit"}

\* What the interpreter runs after the import.  Mutant: no finally.
MutUnguarded(outcome) == IF outcome \in Installed THEN "restore1" ELSE "settle"

AfterImport(outcome) == "restore1"

\* oqs may clone and build, printing what it likes.
Import(outcome) ==
  /\ pc = "import"
  /\ imported' = outcome
  /\ chatter' \in {"none", "text", "undecodable"}
  /\ pc' = AfterImport(outcome)
  /\ UNCHANGED <<call, redirection, probe, answered, escaped, torn>>

RestoreOutput(d) ==
  /\ pc = IF d = 1 THEN "restore1" ELSE "restore2"
  /\ output' = [output EXCEPT ![d] = saved[d]]
  /\ saved' = IF d = 1 THEN saved ELSE None
  /\ pc' = IF d = 1 THEN "restore2" ELSE "settle"
  /\ UNCHANGED <<call, imported, chatter, probe, answered, escaped, torn>>

\* Mutant: only a library is remembered.
MutForgetsFailure(outcome) == IF outcome \in Installed THEN <<outcome>> ELSE None

Remembered(outcome) == <<IF outcome \in Installed THEN outcome ELSE None>>

\* An outcome that is not caught goes on; chatter that is no UTF-8 raises where
\* it is read, and nothing is remembered.
Settle ==
  /\ pc = "settle"
  /\ \/ imported \notin Swallowed /\ Escape(imported) /\ UNCHANGED probe
     \/ imported \in Swallowed /\ chatter = "undecodable" /\ Escape("UnicodeDecodeError")
        /\ UNCHANGED probe
     \/ /\ imported \in Swallowed /\ chatter # "undecodable"
        /\ probe' = Remembered(imported)
        /\ pc' = "answer"
        /\ imported' = None /\ chatter' = "none"
        /\ UNCHANGED <<call, escaped>>
  /\ UNCHANGED <<redirection, answered, torn>>

Answer ==
  /\ pc = "answer"
  /\ answered' = [answered EXCEPT ![call] = <<AnswerTo(call, IF probe = None THEN None ELSE probe[1])>>]
  /\ pc' = "idle" /\ call' = None
  /\ UNCHANGED <<redirection, imported, chatter, probe, escaped, torn>>

\* Ctrl-C anywhere but in the import: the descriptors stay as they are.
Interrupt ==
  /\ pc \notin {"idle", "import"}
  /\ Escape("KeyboardInterrupt")
  /\ torn' = (torn \/ saved # None)
  /\ saved' = None
  /\ UNCHANGED <<output, probe, answered>>

BridgeNext ==
  \/ \E c \in Calls : Start(c)
  \/ SaveOutput
  \/ NoSink
  \/ \E d \in 1..2 : Redirect(d) \/ RestoreOutput(d)
  \/ \E outcome \in Outcome : Import(outcome)
  \/ Settle
  \/ Answer
  \/ Interrupt

BridgeSpec == BridgeInit /\ [][BridgeNext]_bridgeVars

-----------------------------------------------------------------------------
(***************************************************************************)
(* What the bridge must satisfy                                            *)
(***************************************************************************)

\* Between calls the output leads to the user, unless an interrupt came in the
\* few steps between the first redirection and the try, or among the restores.
OutputRestored == pc = "idle" /\ ~torn => output = User

\* Of all that an import can do to the program, it may only interrupt it, or
\* leave chatter that cannot be read; without room for chatter it is not tried.
NothingEscapes == escaped \in {None, "KeyboardInterrupt", "UnicodeDecodeError", "OSError"}

\* Whatever the import does, the output is restored and the exit of oqs is not
\* the exit of the program (liboqs_bridge.py:31-37, "SystemExit derives from
\* BaseException", and :49, the finally).
ImportContained == OutputRestored /\ NothingEscapes

\* Nothing that oqs does on the way in escapes, but for an interrupt, which is let
\* through on purpose; the OSError comes before oqs is imported (liboqs_bridge.py:31,
\* "Import `oqs` once, swallowing anything it does on the way in").
ImportSwallowsAll == escaped \in {None, "KeyboardInterrupt", "OSError"}

\* An answer stands: no later call is told something else, however many imports
\* were interrupted before the first that ended (liboqs_bridge.py:97, "Probes
\* once, then answers from the cache").
AnswersStand ==
  [][\A c \in Calls : answered[c] # None => answered'[c] = answered[c]]_bridgeVars

Known(c) == answered[c] # None

Complains(m, problem) ==
  LET problems == answered[<<"verify_catalog">>][1]
  IN m \in DOMAIN problems /\ problems[m] = problem

\* Both listings of the library that answers worked.
ListsAll ==
  \A library \in Installed :
    probe = <<library>> => None \notin {Library[library].kems, Library[library].sigs}

\* verify_catalog never misses a mechanism that describe cannot find, even if the
\* library cannot list what it has; it complains of no other, unless a listing
\* raised (liboqs_bridge.py, verify_catalog and describe; test_pqc.py:308, "catch a
\* catalog name that no implementation answers to").
VerifyAgreesWithDescribe ==
  \A m \in Mechanism :
    Known(<<"verify_catalog">>) /\ Known(<<"describe", m>>) =>
      LET described == answered[<<"describe", m>>][1]
      IN /\ described = "not_mapped" <=> Complains(m, "not_mapped")
         /\ described = "missing_from_build" => Complains(m, "missing")
         /\ ListsAll /\ Complains(m, "missing") => described = "missing_from_build"
=============================================================================
