----------------------------- MODULE CatalogSync -----------------------------
(***************************************************************************)
(* The catalog command: it reads a file, checks it against the baseline,   *)
(* deletes every pipeline and every lineage edge and inserts those of the  *)
(* file, pipeline by pipeline in the order of their keys, in one READ      *)
(* COMMITTED transaction.  Nothing keeps two commands apart but the rows:  *)
(* one that deletes waits for the locks on the rows another is deleting,   *)
(* one that inserts waits for a key another inserted or is deleting, and   *)
(* fails if the key is there afterwards.                                   *)
(*                                                                         *)
(* A pipeline has at least one edge, so the rows of pipelines are those    *)
(* its edges name, and a pipeline's key stands for its DAG id too.  The    *)
(* two DELETE statements are one action: the second sees whatever was      *)
(* committed while the first waited, and takes the edges along.  Edges     *)
(* hang on pipelines the command has inserted, so nothing waits for them:  *)
(* they are written with the commit.                                       *)
(***************************************************************************)
EXTENDS SchemaPolicy, Naturals

CONSTANTS
  Pipelines,  \* pipeline keys
  KeyOrder,   \* the place of a key in the order of strings
  Commands,   \* runs of the catalog command
  Files,      \* what a catalog file can declare: the products of its column sets
  Nobody      \* wrote the catalog before the commands

INSTANCE LineageImpact

ASSUME CatalogAssumption ==
  /\ \A file \in Files : file \subseteq Edge /\ file # {}
  /\ Nobody \notin Commands
  /\ KeyOrder \in [Pipelines -> Nat]
  /\ \A key, other \in Pipelines : KeyOrder[key] = KeyOrder[other] => key = other

VARIABLES
  baseline,  \* expected_columns
  catalog,   \* the committed rows of pipelines and lineage_edges
  command    \* the commands

-----------------------------------------------------------------------------

Row == [edge: Edge, by: Commands \union {Nobody}]

CommandRecord ==
  [pc:   {"started", "checked", "inserting", "committed", "failed"},
   file: SUBSET Edge,        \* the edges of the file
   todo: SUBSET Pipelines,   \* the keys it has still to insert
   gone: SUBSET Row]         \* the rows it deleted

CatalogTypeOK ==
  /\ catalog \subseteq Row
  /\ command \in [Commands -> CommandRecord]

Lineage == {row.edge : row \in catalog}

PipelinesOf(edges) == {e.pipeline : e \in edges}

\* A command that holds locks: on the rows it deleted and the keys it inserted.
Active(c) == command[c].pc = "inserting"

Inserted(c) == PipelinesOf(command[c].file) \ command[c].todo

\* What the file declares is known and no edge is a loop.
Valid(file) ==
  \A e \in file :
    /\ {e.upstream, e.downstream} \subseteq ColumnsOf(baseline)
    /\ e.upstream # e.downstream

\* The first catalog, or none yet.
CatalogInit ==
  /\ catalog \in {{}} \union
       {{[edge |-> e, by |-> Nobody] : e \in file} : file \in {f \in Files : Valid(f)}}
  /\ command = [c \in Commands |->
                  [pc |-> "started", file |-> {}, todo |-> {}, gone |-> {}]]

\* The transaction leaves nothing behind.
RollBack(c) ==
  command' = [command EXCEPT
    ![c] = [pc |-> "failed", file |-> {}, todo |-> {}, gone |-> {}]]

CheckFile(c) ==
  /\ command[c].pc = "started"
  /\ \E file \in Files :
       IF Valid(file)
       THEN command' = [command EXCEPT ![c].pc = "checked", ![c].file = file]
       ELSE RollBack(c)
  /\ UNCHANGED catalog

Deletable_NoWait(c) == TRUE

Deletable(c) ==
  \A other \in Commands \ {c} :
    Active(other) => command[other].gone \intersect catalog = {}

DeleteCatalog(c) ==
  /\ command[c].pc = "checked"
  /\ Deletable(c)
  /\ command' = [command EXCEPT ![c].pc = "inserting",
                                ![c].todo = PipelinesOf(command[c].file),
                                ![c].gone = catalog]
  /\ UNCHANGED catalog

\* The unique key: a row that is visible, ...
KeyTaken_Never(c, key) == FALSE

KeyTaken(c, key) == key \in PipelinesOf({row.edge : row \in catalog \ command[c].gone})

\* ... and one that may become so, or cease to be.
KeyPending(c, key) ==
  \E other \in Commands \ {c} :
    /\ Active(other)
    /\ \/ key \in Inserted(other)
       \/ \E row \in command[other].gone : row.edge.pipeline = key /\ KeyTaken(c, key)

NextKey_AsListed(c, key) == key \in command[c].todo

NextKey(c, key) ==
  /\ key \in command[c].todo
  /\ \A other \in command[c].todo : KeyOrder[key] <= KeyOrder[other]

InsertPipeline(c) ==
  /\ Active(c)
  /\ \E key \in Pipelines :
       /\ NextKey(c, key)
       /\ ~KeyPending(c, key)
       /\ IF KeyTaken(c, key)
          THEN RollBack(c)
          ELSE command' = [command EXCEPT ![c].todo = @ \ {key}]
  /\ UNCHANGED catalog

Written(c) == {[edge |-> e, by |-> c] : e \in command[c].file}

CommitCatalog(c) ==
  /\ Active(c) /\ command[c].todo = {}
  /\ catalog' = (catalog \ command[c].gone) \union Written(c)
  /\ command' = [command EXCEPT ![c].pc = "committed"]

\* The process or its connection dies: the transaction is rolled back.
AbortCommand(c) ==
  /\ command[c].pc \notin {"committed", "failed"}
  /\ RollBack(c)
  /\ UNCHANGED catalog

SyncCatalog(c) ==
  \/ CheckFile(c)
  \/ DeleteCatalog(c)
  \/ InsertPipeline(c)
  \/ CommitCatalog(c)

-----------------------------------------------------------------------------
(* Safety. *)

\* A command that found no catalog to replace.
ReplacedNothing(by) == by \in Commands /\ command[by].gone = {}

\* One pipeline is never declared by two commands, and the catalog is what one
\* file declares unless it was assembled on an empty database: two commands that
\* each replaced a catalog never leave a mixture (catalog.py:76-78), although
\* they may overlap in any way and either may be rolled back.
CatalogsDoNotMix ==
  \A row, other \in catalog : row.by # other.by =>
    /\ row.edge.pipeline # other.edge.pipeline
    /\ ReplacedNothing(row.by) \/ ReplacedNothing(other.by)

-----------------------------------------------------------------------------
(* Liveness. *)

\* Each command ends, although it keeps the keys it has inserted while it waits for
\* the next: two commands insert in one order, that of the sorted keys
\* (catalog_service.py:113, catalog.py:80-90), so neither waits for the other.
CommandsEnd == \A c \in Commands : <>(command[c].pc \in {"committed", "failed"})
=============================================================================
