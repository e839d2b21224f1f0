------------------------------ MODULE Lexicon ------------------------------
(***************************************************************************)
(* The lexicon: LanceDBLexiconStore in core/lexicon/lancedb_store.py, with *)
(* the server that holds it, and run_migration in core/lexicon/            *)
(* migration.py, which the command omniscribe-migrate-lexicon runs as a    *)
(* process of its own while the server may be up or down.                  *)
(*                                                                         *)
(* The routes of the server call the store without an await: a call is one *)
(* step.  A call of LanceDB on the table is atomic.  The rows of a         *)
(* glossary are kept per glossary: how often they are in the table, and    *)
(* the values of glossary_enabled and glossary_priority in them.           *)
(*                                                                         *)
(* Left out: a second migration at the same time, --dry-run and            *)
(* --verify-only, which write nothing, the recovery by hand that is asked  *)
(* for, terms, embeddings and queries.                                     *)
(***************************************************************************)
EXTENDS Integers, Sequences, FiniteSets

CONSTANTS
  Glossaries,   \* those in library.json
  Import        \* what stands for a glossary that a user imports

NamesDiffer == Import \notin Glossaries

VARIABLES
  library,      \* whether library.json is in its place
  chroma,       \* whether chroma_db is
  kept,         \* whether library.json is in a backup
  lance,        \* whether the directory lexicon.lance exists
  table,        \* the glossaries in the table, by id
  nextId,       \* ids given out
  store,        \* whether the server has opened the store
  migration     \* what the migration does, and what it has yet to save

vars == <<library, chroma, kept, lance, table, nextId, store, migration>>

files == <<library, chroma, kept>>
contents == <<table, nextId>>

NoMigration == [at |-> "none", todo |-> {}]

Init ==
  /\ library \in BOOLEAN /\ chroma \in BOOLEAN
  /\ kept = FALSE /\ lance = FALSE
  /\ table = [i \in {} |-> 0] /\ nextId = 0
  /\ store = FALSE
  /\ migration = NoMigration

-----------------------------------------------------------------------------
(* The store.                                                              *)

\* save_glossary: a new id, and enabled, whatever it was before.
Save(of, priority) ==
  /\ nextId' = nextId + 1
  /\ table' = [i \in DOMAIN table \cup {nextId'} |->
                 IF i = nextId'
                   THEN [of |-> of, copies |-> 1, enabled |-> {TRUE},
                         priority |-> priority]
                   ELSE table[i]]

\* The server's first use of the lexicon makes the directory.
ServerOpens ==
  /\ store' = TRUE /\ lance' = TRUE
  /\ UNCHANGED <<files, contents, migration>>

\* Only the process ends.
ServerStops == store' = FALSE /\ UNCHANGED <<files, lance, contents, migration>>

ImportGlossary ==
  /\ store
  /\ \E priority \in Int : Save(Import, priority)
  /\ UNCHANGED <<files, lance, store, migration>>

\* What toggle_glossary does when the update raises: all rows of the table are
\* added once more, those of id changed, and then those of id are deleted, old
\* and new.  The second may fail.
AddedAgain(id, value) ==
  [i \in DOMAIN table |->
     [table[i] EXCEPT !.copies = 2 * @,
                      !.enabled = IF i = id THEN @ \cup {value} ELSE @]]

Toggle(id, value) ==
  /\ store /\ id \in DOMAIN table
  /\ \/ table' = [table EXCEPT ![id].enabled = {value}]
     \/ table' = AddedAgain(id, value)
     \/ table' = [i \in DOMAIN table \ {id} |-> AddedAgain(id, value)[i]]
  /\ UNCHANGED <<files, lance, nextId, store, migration>>

\* reorder_glossaries: one update after another, of which any may raise; an id
\* that is named twice keeps the last priority it was given.
Reorder(order) ==
  /\ store
  /\ \A k \in DOMAIN order : order[k] \in DOMAIN table
  /\ \E done \in 0 .. Len(order) :
       \E priority \in [DOMAIN table -> Int] :
         /\ \A i \in DOMAIN table :
              \/ /\ ~\E k \in 1 .. done : order[k] = i
                 /\ priority[i] = table[i].priority
              \/ \E k \in 1 .. done :
                   /\ order[k] = i /\ ~\E l \in k + 1 .. done : order[l] = i
                   /\ priority[i] = Len(order) - k + 1
         /\ table' = [i \in DOMAIN table |->
                        [table[i] EXCEPT !.priority = priority[i]]]
  /\ UNCHANGED <<files, lance, nextId, store, migration>>

Delete(id) ==
  /\ store /\ id \in DOMAIN table
  /\ table' = [i \in DOMAIN table \ {id} |-> table[i]]
  /\ UNCHANGED <<files, lance, nextId, store, migration>>

-----------------------------------------------------------------------------
(* The migration.                                                          *)

At(where, todo) == migration' = [at |-> where, todo |-> todo]

\* There is something to migrate and nowhere it may have gone before; records
\* that cannot be read are skipped, all of them if the file cannot.
Begin ==
  /\ migration = NoMigration
  /\ library \/ chroma
  /\ ~(library /\ lance)
  /\ \E readable \in SUBSET Glossaries :
       At("open", IF library THEN readable ELSE {})
  /\ UNCHANGED <<files, lance, contents, store>>

\* The constructor makes the directory; the backup's is there already.
Open ==
  /\ migration.at = "open"
  /\ lance' = TRUE /\ At("save", migration.todo)
  /\ UNCHANGED <<files, contents, store>>

\* The next glossary.  Ids in the table are new ones, so that none is found
\* under the id it had in the library.
SaveNext ==
  /\ migration.at = "save"
  /\ \E g \in migration.todo, priority \in Int :
       Save(g, priority) /\ At("save", migration.todo \ {g})
  /\ UNCHANGED <<files, lance, store>>

AllSaved ==
  /\ migration.at = "save" /\ migration.todo = {}
  /\ At("library", {})
  /\ UNCHANGED <<files, lance, contents, store>>

\* library.json is moved into the backup, then chroma_db; what fails is a
\* warning.
MoveLibrary ==
  /\ migration.at = "library"
  /\ library' = FALSE /\ kept' = (kept \/ library)
  /\ At("chroma", {})
  /\ UNCHANGED <<chroma, lance, contents, store>>

MoveChroma ==
  /\ migration.at = "chroma"
  /\ chroma' = FALSE
  /\ migration' = NoMigration
  /\ UNCHANGED <<library, kept, lance, contents, store>>

\* An exception at any place, or a crash.
Abandon ==
  /\ migration # NoMigration
  /\ migration' = NoMigration
  /\ UNCHANGED <<files, lance, contents, store>>

-----------------------------------------------------------------------------

Server ==
  \/ ServerOpens \/ ServerStops \/ ImportGlossary
  \/ \E id \in DOMAIN table :
       Delete(id) \/ \E value \in BOOLEAN : Toggle(id, value)
  \/ \E order \in Seq(DOMAIN table) : Reorder(order)

Migrate ==
  \/ Begin \/ Open \/ SaveNext \/ AllSaved
  \/ MoveLibrary \/ MoveChroma \/ Abandon

Next == Server \/ Migrate

Spec == Init /\ [][Next]_vars

-----------------------------------------------------------------------------
(* Properties.                                                             *)

Row == [of : Glossaries \cup {Import}, copies : Nat \ {0},
        enabled : SUBSET BOOLEAN, priority : Int]

TypeOK ==
  /\ {library, chroma, kept, lance, store} \subseteq BOOLEAN
  /\ nextId \in Nat
  /\ DOMAIN table \subseteq 1 .. nextId
  /\ table \in [DOMAIN table -> Row]
  /\ migration \in
       [at : {"none", "open", "save", "library", "chroma"},
        todo : SUBSET Glossaries]

\* However often the migration is run, fails or is killed, and whatever the
\* server does meanwhile, no glossary of the library is in the table under two
\* ids (run_migration's promise not to duplicate existing rows, which it keeps
\* by refusing to run).
MigratedOnce ==
  \A i, k \in DOMAIN table :
    table[i].of = table[k].of /\ table[i].of # Import => i = k

\* The library leaves its place only for a backup, and only after a migration
\* has saved all it could read; then no other is begun with it.
MovedWhenSaved ==
  [][library /\ ~library' => kept' /\ migration.todo = {} /\ lance]_vars

\* A migration that failed after it had opened the table, or came after the
\* server's first use of the lexicon, can never be made up for by running it
\* again: library.json stays where it is.
Stuck == library /\ lance /\ migration = NoMigration

StuckForEver == [][Stuck => Stuck']_vars
=============================================================================
