-------------------------- MODULE PipelineGuardProofs --------------------------
(***************************************************************************)
(* Three safety properties of the guard and the catalog it reads, for any  *)
(* number of DAG runs, catalog commands, scans and acceptances: catalogs   *)
(* do not mix, commands never wait in a circle for keys they have          *)
(* inserted, and a change that blocks a pipeline throughout stops it.      *)
(* None depends on what the policy reports or a change reaches.            *)
(***************************************************************************)
EXTENDS PipelineGuard, SchemaPolicyProofs, WellFoundedInduction, TLAPS

-----------------------------------------------------------------------------
(* Types. *)

\* The rows a command writes.
LEMMA WrittenRows ==
  ASSUME CatalogTypeOK, NEW c \in Commands
  PROVE  Written(c) \subseteq Row /\ \A row \in Written(c) : row.by = c
BY DEF CatalogTypeOK, CommandRecord, Written, Row

LEMMA CatalogTypeInit == CatalogInit => CatalogTypeOK
<1> SUFFICES ASSUME CatalogInit PROVE CatalogTypeOK
  OBVIOUS
<1>1. catalog \subseteq Row
  <2>1. CASE catalog = {}
    BY <2>1
  <2>2. ASSUME NEW file \in Files, catalog = {[edge |-> e, by |-> Nobody] : e \in file}
        PROVE  catalog \subseteq Row
    BY <2>2, CatalogAssumption DEF Row
  <2> QED
    BY <2>1, <2>2 DEF CatalogInit
<1>2. command \in [Commands -> CommandRecord]
  BY DEF CatalogInit, CommandRecord
<1> QED
  BY <1>1, <1>2 DEF CatalogTypeOK

\* Each step of a command keeps the types.
LEMMA CommandKeepsType ==
  ASSUME CatalogTypeOK, NEW c \in Commands, SyncCatalog(c) \/ AbortCommand(c)
  PROVE  CatalogTypeOK'
<1> USE DEF CatalogTypeOK
<1>1. ASSUME RollBack(c) PROVE command' \in [Commands -> CommandRecord]
  BY <1>1 DEF RollBack, CommandRecord
<1>2. CASE CheckFile(c)
  <2>1. PICK file \in Files :
          IF Valid(file)
          THEN command' = [command EXCEPT ![c].pc = "checked", ![c].file = file]
          ELSE RollBack(c)
    BY <1>2 DEF CheckFile
  <2>2. file \in SUBSET Edge
    BY CatalogAssumption
  <2>3. command' \in [Commands -> CommandRecord]
    BY <1>1, <2>1, <2>2 DEF CommandRecord
  <2> QED
    BY <1>2, <2>3 DEF CheckFile
<1>3. CASE DeleteCatalog(c)
  <2>1. PipelinesOf(command[c].file) \subseteq Pipelines
    BY DEF PipelinesOf, CommandRecord, Edge
  <2> QED
    BY <1>3, <2>1 DEF DeleteCatalog, CommandRecord
<1>4. CASE InsertPipeline(c)
  <2>1. PICK key \in Pipelines :
          \/ RollBack(c)
          \/ command' = [command EXCEPT ![c].todo = @ \ {key}]
    BY <1>4 DEF InsertPipeline
  <2>2. command' \in [Commands -> CommandRecord]
    BY <1>1, <2>1 DEF CommandRecord
  <2> QED
    BY <1>4, <2>2 DEF InsertPipeline
<1>5. CASE CommitCatalog(c)
  BY <1>5, WrittenRows DEF CommitCatalog, CommandRecord
<1>6. CASE AbortCommand(c)
  BY <1>1, <1>6 DEF AbortCommand
<1> QED
  BY <1>2, <1>3, <1>4, <1>5, <1>6 DEF SyncCatalog

-----------------------------------------------------------------------------
(* Catalogs do not mix. *)

\* What an active command deletes is still in the catalog, ...
GoneIsVisible == \A c \in Commands : Active(c) => command[c].gone \subseteq catalog

\* ... only one of them deletes anything, ...
OneReplaces ==
  \A c, other \in Commands : c # other /\ Active(c) /\ Active(other) =>
    command[c].gone = {} \/ command[other].gone = {}

\* ... and it deletes everything but what commands wrote that found nothing.
RestReplacedNothing ==
  \A c \in Commands : Active(c) /\ command[c].gone # {} =>
    \A row \in catalog \ command[c].gone : ReplacedNothing(row.by)

\* A row is visible when its command committed.
RowsAreCommitted ==
  \A row \in catalog : row.by \in Commands => command[row.by].pc = "committed"

\* Keys that were inserted are free, and two commands insert different ones.
KeysAreFree ==
  \A c \in Commands : Active(c) => \A key \in Inserted(c) :
    /\ ~KeyTaken(c, key)
    /\ \A other \in Commands \ {c} : Active(other) => key \notin Inserted(other)

CatalogInvariant ==
  /\ GoneIsVisible
  /\ OneReplaces
  /\ RestReplacedNothing
  /\ RowsAreCommitted
  /\ KeysAreFree
  /\ CatalogsDoNotMix

LEMMA CatalogInvInit == CatalogInit => CatalogInvariant
<1> SUFFICES ASSUME CatalogInit PROVE CatalogInvariant
  OBVIOUS
<1>1. \A c \in Commands : ~Active(c)
  BY DEF CatalogInit, Active
<1>2. \A row \in catalog : row.by = Nobody
  BY DEF CatalogInit
<1> QED
  BY <1>1, <1>2, CatalogAssumption
  DEF CatalogInvariant, GoneIsVisible, OneReplaces, RestReplacedNothing,
      RowsAreCommitted, KeysAreFree, CatalogsDoNotMix

\* Nothing but the steps of commands touches the catalog.
LEMMA CatalogInvKept ==
  ASSUME CatalogInvariant, UNCHANGED <<catalog, command>>
  PROVE  CatalogInvariant'
BY DEF CatalogInvariant, GoneIsVisible, OneReplaces, RestReplacedNothing,
       RowsAreCommitted, KeysAreFree, CatalogsDoNotMix, Active, ReplacedNothing,
       KeyTaken, Inserted, PipelinesOf

\* What a step that is not a commit means to another command.
LEMMA OthersKept ==
  ASSUME NEW c \in Commands,
         \A other \in Commands \ {c} : command'[other] = command[other],
         catalog' = catalog
  PROVE  \A other \in Commands \ {c} :
           /\ Active(other)' <=> Active(other)
           /\ Inserted(other)' = Inserted(other)
           /\ \A key : KeyTaken(other, key)' <=> KeyTaken(other, key)
BY DEF Active, Inserted, KeyTaken, PipelinesOf

\* What a step that is not a commit means to the rows: their commands have ended.
LEMMA RowsKept ==
  ASSUME CatalogInvariant, NEW c \in Commands, command[c].pc # "committed",
         \A other \in Commands \ {c} : command'[other] = command[other],
         catalog' = catalog
  PROVE  /\ \A row \in catalog : ReplacedNothing(row.by)' <=> ReplacedNothing(row.by)
         /\ RowsAreCommitted' /\ CatalogsDoNotMix'
<1>1. \A row \in catalog : ReplacedNothing(row.by)' <=> ReplacedNothing(row.by)
  BY DEF ReplacedNothing, CatalogInvariant, RowsAreCommitted
<1>2. RowsAreCommitted'
  BY DEF CatalogInvariant, RowsAreCommitted
<1>3. CatalogsDoNotMix'
  BY <1>1 DEF CatalogInvariant, CatalogsDoNotMix
<1> QED
  BY <1>1, <1>2, <1>3

\* What leaves a command idle without a commit leaves fewer commands active than
\* before, or the same.
LEMMA IdleKeepsInv ==
  ASSUME CatalogInvariant, NEW c \in Commands,
         command[c].pc # "committed", ~Active(c)',
         \A other \in Commands \ {c} : command'[other] = command[other],
         catalog' = catalog
  PROVE  CatalogInvariant'
<1>1. \A other \in Commands \ {c} :
        /\ Active(other)' <=> Active(other)
        /\ Inserted(other)' = Inserted(other)
        /\ \A key : KeyTaken(other, key)' <=> KeyTaken(other, key)
  BY OthersKept
<1>2. /\ \A row \in catalog : ReplacedNothing(row.by)' <=> ReplacedNothing(row.by)
      /\ RowsAreCommitted' /\ CatalogsDoNotMix'
  BY RowsKept
<1>3. GoneIsVisible' /\ OneReplaces' /\ RestReplacedNothing'
  BY <1>1, <1>2 DEF CatalogInvariant, GoneIsVisible, OneReplaces, RestReplacedNothing
<1>4. KeysAreFree'
  BY <1>1 DEF CatalogInvariant, KeysAreFree
<1> QED
  BY <1>2, <1>3, <1>4 DEF CatalogInvariant

\* Being rolled back is such a step.
LEMMA RollBackKeepsInv ==
  ASSUME CatalogTypeOK, CatalogInvariant, NEW c \in Commands,
         command[c].pc # "committed", RollBack(c), catalog' = catalog
  PROVE  CatalogInvariant'
<1>1. \A other \in Commands \ {c} : command'[other] = command[other]
  BY DEF RollBack, CatalogTypeOK
<1>2. ~Active(c)'
  BY DEF RollBack, CatalogTypeOK, Active
<1> QED
  BY <1>1, <1>2, IdleKeepsInv

LEMMA CheckKeepsInv ==
  ASSUME CatalogTypeOK, CatalogInvariant, NEW c \in Commands, CheckFile(c)
  PROVE  CatalogInvariant'
<1>1. PICK file \in Files :
        IF Valid(file)
        THEN command' = [command EXCEPT ![c].pc = "checked", ![c].file = file]
        ELSE RollBack(c)
  BY DEF CheckFile
<1>2. command[c].pc # "committed" /\ catalog' = catalog
  BY DEF CheckFile
<1>3. CASE Valid(file)
  <2>1. \A other \in Commands \ {c} : command'[other] = command[other]
    BY <1>1, <1>3 DEF CatalogTypeOK
  <2>2. command'[c].pc = "checked"
    BY <1>1, <1>3 DEF CatalogTypeOK, CommandRecord
  <2> QED
    BY <1>2, <2>1, <2>2, IdleKeepsInv DEF Active
<1> QED
  BY <1>1, <1>2, <1>3, RollBackKeepsInv

\* A command deletes while no other one deletes anything.
LEMMA DeleteKeepsInv ==
  ASSUME CatalogTypeOK, CatalogInvariant, NEW c \in Commands, DeleteCatalog(c)
  PROVE  CatalogInvariant'
<1>1. /\ catalog' = catalog
      /\ \A other \in Commands \ {c} : command'[other] = command[other]
      /\ command'[c].gone = catalog /\ command'[c].pc = "inserting"
      /\ command'[c].file = command[c].file
      /\ command'[c].todo = PipelinesOf(command[c].file)
      /\ command[c].pc = "checked"
  BY DEF DeleteCatalog, CatalogTypeOK, CommandRecord
<1>2. \A other \in Commands \ {c} : Active(other) => command[other].gone = {}
  BY DEF DeleteCatalog, Deletable, CatalogInvariant, GoneIsVisible
<1>3. \A other \in Commands \ {c} :
        /\ Active(other)' <=> Active(other)
        /\ Inserted(other)' = Inserted(other)
        /\ \A key : KeyTaken(other, key)' <=> KeyTaken(other, key)
  BY <1>1, OthersKept
<1>4. /\ \A row \in catalog : ReplacedNothing(row.by)' <=> ReplacedNothing(row.by)
      /\ RowsAreCommitted' /\ CatalogsDoNotMix'
  BY <1>1, RowsKept
<1>5. GoneIsVisible' /\ OneReplaces'
  BY <1>1, <1>2, <1>3 DEF CatalogInvariant, GoneIsVisible, OneReplaces
<1>6. RestReplacedNothing'
  BY <1>1, <1>2, <1>3 DEF RestReplacedNothing
<1>7. Inserted(c)' = {}
  BY <1>1 DEF Inserted
<1>8. KeysAreFree'
  BY <1>3, <1>7 DEF CatalogInvariant, KeysAreFree
<1> QED
  BY <1>4, <1>5, <1>6, <1>8 DEF CatalogInvariant

\* A command inserts a key that nobody has and nobody else is inserting.
LEMMA InsertKeepsInv ==
  ASSUME CatalogTypeOK, CatalogInvariant, NEW c \in Commands, InsertPipeline(c)
  PROVE  CatalogInvariant'
<1>1. PICK key \in Pipelines :
        /\ ~KeyPending(c, key)
        /\ IF KeyTaken(c, key)
           THEN RollBack(c)
           ELSE command' = [command EXCEPT ![c].todo = @ \ {key}]
  BY DEF InsertPipeline
<1>2. Active(c) /\ catalog' = catalog /\ command[c].pc # "committed"
  BY DEF InsertPipeline, Active
<1>3. CASE ~KeyTaken(c, key)
  <2>1. /\ \A other \in Commands \ {c} : command'[other] = command[other]
        /\ command'[c].gone = command[c].gone /\ command'[c].file = command[c].file
        /\ command'[c].pc = command[c].pc /\ command'[c].todo = command[c].todo \ {key}
    BY <1>1, <1>3 DEF CatalogTypeOK, CommandRecord
  <2>2. Active(c)' /\ \A k : KeyTaken(c, k)' <=> KeyTaken(c, k)
    BY <1>2, <2>1 DEF Active, KeyTaken
  <2>3. \A other \in Commands \ {c} :
          /\ Active(other)' <=> Active(other)
          /\ Inserted(other)' = Inserted(other)
          /\ \A k : KeyTaken(other, k)' <=> KeyTaken(other, k)
    BY <1>2, <2>1, OthersKept
  <2>4. /\ \A row \in catalog : ReplacedNothing(row.by)' <=> ReplacedNothing(row.by)
        /\ RowsAreCommitted' /\ CatalogsDoNotMix'
    BY <1>2, <2>1, RowsKept
  <2>5. GoneIsVisible' /\ OneReplaces' /\ RestReplacedNothing'
    BY <1>2, <2>1, <2>2, <2>3, <2>4
    DEF CatalogInvariant, GoneIsVisible, OneReplaces, RestReplacedNothing
  <2>6. Inserted(c)' \subseteq Inserted(c) \union {key}
    BY <2>1 DEF Inserted
  <2>7. \A other \in Commands \ {c} : Active(other) => key \notin Inserted(other)
    BY <1>1 DEF KeyPending
  <2>8. KeysAreFree'
    BY <1>2, <1>3, <2>2, <2>3, <2>6, <2>7 DEF CatalogInvariant, KeysAreFree
  <2> QED
    BY <2>4, <2>5, <2>8 DEF CatalogInvariant
<1> QED
  BY <1>1, <1>2, <1>3, RollBackKeepsInv

\* A commit replaces what was deleted by what was inserted.
LEMMA CommitKeepsInv ==
  ASSUME CatalogTypeOK, CatalogInvariant, NEW c \in Commands, CommitCatalog(c)
  PROVE  CatalogInvariant'
<1>1. /\ catalog' = (catalog \ command[c].gone) \union Written(c)
      /\ \A other \in Commands \ {c} : command'[other] = command[other]
      /\ command'[c].gone = command[c].gone /\ command'[c].file = command[c].file
      /\ Active(c) /\ command[c].todo = {} /\ command'[c].pc = "committed"
  BY DEF CommitCatalog, CatalogTypeOK, CommandRecord
<1>2. Active(c) /\ ~Active(c)' /\ Inserted(c) = PipelinesOf(command[c].file)
  BY <1>1 DEF Active, Inserted
<1>3. \A other \in Commands \ {c} :
        (Active(other)' <=> Active(other)) /\ Inserted(other)' = Inserted(other)
  BY <1>1 DEF Active, Inserted
<1>4. \A by : ReplacedNothing(by)' <=> ReplacedNothing(by)
  BY <1>1 DEF ReplacedNothing
<1>5. \A row \in Written(c) : row.by = c /\ row.edge.pipeline \in PipelinesOf(command[c].file)
  BY DEF Written, PipelinesOf
<1>6. \A other \in Commands \ {c} :
        Active(other) => command[c].gone = {} \/ command[other].gone = {}
  BY <1>2 DEF CatalogInvariant, OneReplaces
<1>7. GoneIsVisible'
  BY <1>1, <1>2, <1>3, <1>6 DEF CatalogInvariant, GoneIsVisible
<1>8. OneReplaces'
  BY <1>1, <1>2, <1>3 DEF CatalogInvariant, OneReplaces
<1>9. command[c].gone = {} => ReplacedNothing(c)
  BY DEF ReplacedNothing
<1>10. RestReplacedNothing'
  <2> SUFFICES ASSUME NEW other \in Commands, Active(other)', command'[other].gone # {},
                      NEW row \in catalog' \ command'[other].gone
               PROVE  ReplacedNothing(row.by)'
    BY DEF RestReplacedNothing
  <2>1. other # c /\ Active(other) /\ command[other].gone # {}
        /\ command'[other].gone = command[other].gone
    BY <1>1, <1>2, <1>3
  <2>2. command[c].gone = {}
    BY <1>6, <2>1
  <2>3. CASE row \in Written(c)
    BY <1>4, <1>5, <1>9, <2>2, <2>3
  <2>4. CASE row \in catalog
    BY <1>4, <2>1, <2>4 DEF CatalogInvariant, RestReplacedNothing
  <2> QED
    BY <1>1, <2>3, <2>4
<1>11. RowsAreCommitted'
  BY <1>1, <1>5 DEF CatalogInvariant, RowsAreCommitted
<1>12. \A row \in catalog \ command[c].gone, new \in Written(c) :
         /\ row.edge.pipeline # new.edge.pipeline
         /\ ReplacedNothing(row.by) \/ ReplacedNothing(new.by)
  <2> SUFFICES ASSUME NEW row \in catalog \ command[c].gone, NEW new \in Written(c)
               PROVE  /\ row.edge.pipeline # new.edge.pipeline
                      /\ ReplacedNothing(row.by) \/ ReplacedNothing(new.by)
    OBVIOUS
  <2>1. row.edge.pipeline \in PipelinesOf({r.edge : r \in catalog \ command[c].gone})
    BY DEF PipelinesOf
  <2>2. row.edge.pipeline \notin PipelinesOf(command[c].file)
    BY <1>2, <2>1 DEF CatalogInvariant, KeysAreFree, KeyTaken
  <2>3. ReplacedNothing(row.by) \/ ReplacedNothing(c)
    BY <1>2, <1>9 DEF CatalogInvariant, RestReplacedNothing
  <2> QED
    BY <1>5, <2>2, <2>3
<1>13. CatalogsDoNotMix'
  <2> SUFFICES ASSUME NEW row \in catalog', NEW other \in catalog', row.by # other.by
               PROVE  /\ row.edge.pipeline # other.edge.pipeline
                      /\ ReplacedNothing(row.by) \/ ReplacedNothing(other.by)
    BY <1>4 DEF CatalogsDoNotMix
  <2>1. CASE row \in catalog /\ other \in catalog
    BY <2>1 DEF CatalogInvariant, CatalogsDoNotMix
  <2>2. CASE row \in catalog \ command[c].gone /\ other \in Written(c)
    BY <1>12, <2>2
  <2>3. CASE other \in catalog \ command[c].gone /\ row \in Written(c)
    BY <1>12, <2>3
  <2>4. CASE row \in Written(c) /\ other \in Written(c)
    BY <1>5, <2>4
  <2> QED
    BY <1>1, <2>1, <2>2, <2>3, <2>4
<1>14. \A other \in Commands \ {c} : Active(other) =>
         \A key \in Inserted(other) : ~KeyTaken(other, key)'
  <2> SUFFICES ASSUME NEW other \in Commands \ {c}, Active(other),
                      NEW row \in catalog' \ command[other].gone
               PROVE  row.edge.pipeline \notin Inserted(other)
    BY <1>1 DEF KeyTaken, PipelinesOf
  <2>1. CASE row \in Written(c)
    <3>1. row.edge.pipeline \in Inserted(c)
      BY <1>2, <1>5, <2>1
    <3> QED
      BY <1>2, <3>1 DEF CatalogInvariant, KeysAreFree
  <2>2. CASE row \in catalog
    <3>1. KeyTaken(other, row.edge.pipeline)
      BY <2>2 DEF KeyTaken, PipelinesOf
    <3> QED
      BY <3>1 DEF CatalogInvariant, KeysAreFree
  <2> QED
    BY <1>1, <2>1, <2>2
<1>15. KeysAreFree'
  BY <1>2, <1>3, <1>14 DEF CatalogInvariant, KeysAreFree
<1> QED
  BY <1>7, <1>8, <1>10, <1>11, <1>13, <1>15 DEF CatalogInvariant

-----------------------------------------------------------------------------
(* Types of the composition. *)

LEMMA TypeInit == Init => TypeOK
<1> SUFFICES ASSUME Init PROVE TypeOK
  OBVIOUS
<1>1. baseline \in Schemas /\ version = 1 /\ open = {} /\ reported = {}
  BY NoColumnsType, GuardAssumption DEF Init
<1>2. run \in [Runs -> RunRecord]
  BY GuardAssumption DEF Init, RunRecord
<1> QED
  BY <1>1, <1>2, CatalogTypeInit DEF Init, TypeOK

\* What scans and acceptances leave is a schema and changes of one.
LEMMA ContractKeepsType ==
  ASSUME TypeOK, Contract!Next
  PROVE  /\ baseline' \in Schemas /\ version' \in Nat \ {0}
         /\ open' \subseteq SchemaChange /\ reported' \subseteq SchemaChange
<1>1. CASE Contract!Establish
  BY <1>1, GuardAssumption DEF Contract!Establish, TypeOK
<1>2. CASE Contract!Drift
  <2>1. PICK observed \in Snapshots :
          \E dependencies : open' = DiffColumns(baseline, observed, dependencies)
    BY <1>2 DEF Contract!Drift
  <2>2. open' \subseteq SchemaChange
    BY <2>1, DiffType, GuardAssumption DEF TypeOK
  <2> QED
    BY <1>2, <2>2 DEF Contract!Drift, TypeOK
<1>3. ASSUME NEW change \in SchemaChange, Contract!Adopt(change)
      PROVE  /\ baseline' \in Schemas /\ version' \in Nat \ {0}
             /\ reported' \subseteq SchemaChange
  <2>1. /\ change.column \in Columns /\ change.kind \in ChangeTypes
        /\ change.before \in ColumnDefinition \union {Absent}
        /\ change.after \in ColumnDefinition \union {Absent}
        /\ Reports(change.kind, change.before, change.after)
    BY DEF SchemaChange
  <2>2. ~CannotApply(change, baseline) /\ baseline' = ApplyChange(change, baseline)
    BY <1>3 DEF Contract!Adopt
  <2>3. baseline' \in Schemas
    BY <2>1, <2>2, ApplyType DEF TypeOK
  <2> QED
    BY <1>3, <2>3 DEF Contract!Adopt, TypeOK
<1>4. ASSUME NEW change \in open, Contract!AcceptOpen(change)
      PROVE  Contract!Adopt(change) /\ change \in SchemaChange /\ open' \subseteq open
  BY <1>4 DEF Contract!AcceptOpen, TypeOK
<1>5. ASSUME NEW change \in reported, Contract!AcceptWithdrawn(change)
      PROVE  Contract!Adopt(change) /\ change \in SchemaChange /\ open' \subseteq open
  BY <1>5 DEF Contract!AcceptWithdrawn, TypeOK
<1> QED
  BY <1>1, <1>2, <1>3, <1>4, <1>5 DEF Contract!Next, TypeOK

\* A run is to be tried only if tries are left.
TriesLeft == \A d \in Runs : run[d].pc = "scheduled" => run[d].attempts < MaxAttempts

\* What one step of a DAG run can make of its record.
LEMMA RunStepRecord ==
  ASSUME TypeOK, TriesLeft, NEW d \in Runs, GuardStep(d)
  PROVE  /\ run' = [run EXCEPT ![d] = run'[d]]
         /\ run'[d] \in RunRecord
         /\ run'[d].pc = "scheduled" => run'[d].attempts < MaxAttempts
         /\ run'[d].attempts = run[d].attempts \/ AskGuard(d)
<1>1. run \in [Runs -> RunRecord] /\ run[d] \in RunRecord
  BY DEF TypeOK
<1>2. Lineage \subseteq Edge
  BY DEF TypeOK, CatalogTypeOK, Lineage, Row
<1>3. Retried(d) \in {"scheduled", "failed"}
      /\ (Retried(d) = "scheduled" => run[d].attempts < MaxAttempts)
  BY DEF Retried
<1>4. Outcome(d) \in {"blocked", "cleared", "scheduled", "failed"}
      /\ (Outcome(d) = "scheduled" => run[d].attempts < MaxAttempts)
  BY <1>3 DEF Outcome
<1> HIDE DEF Retried, Outcome
<1>5. CASE AskGuard(d)
  <2>1. run[d].attempts + 1 \in 0 .. MaxAttempts
    BY <1>1, <1>5, GuardAssumption DEF AskGuard, TriesLeft, RunRecord
  <2> QED
    BY <1>1, <1>5, <2>1 DEF AskGuard, TryNumber, RunRecord
<1>6. ASSUME NEW answer \in {"safe", "conflict", "error"}, Answer(d, answer)
      PROVE  /\ run' = [run EXCEPT ![d] = run'[d]]
             /\ run'[d] \in RunRecord
             /\ run'[d].pc = "answered"
             /\ run'[d].attempts = run[d].attempts
  BY <1>1, <1>6 DEF Answer, RunRecord
<1>7. CASE FindPipeline(d)
  <2>1. CASE PipelineOf[d] \in PipelinesOf(Lineage)
    BY <1>1, <1>7, <2>1 DEF FindPipeline, RunRecord
  <2>2. CASE PipelineOf[d] \notin PipelinesOf(Lineage)
    BY <1>6, <1>7, <2>2 DEF FindPipeline
  <2> QED
    BY <2>1, <2>2
<1>8. CASE ReadLineage(d)
  BY <1>1, <1>2, <1>8 DEF ReadLineage, RunRecord
<1>9. CASE ReadChanges(d) \/ FailRequest(d)
  BY <1>6, <1>9 DEF ReadChanges, FailRequest
<1>10. CASE EndAttempt(d)
  BY <1>1, <1>4, <1>10 DEF EndAttempt, RunRecord
<1>11. CASE LoseRequest(d)
  BY <1>1, <1>3, <1>11 DEF LoseRequest, RunRecord
<1>12. CASE StartAggregate(d) \/ EndAggregate(d)
  BY <1>1, <1>12 DEF StartAggregate, EndAggregate, RunRecord
<1> QED
  BY <1>5, <1>7, <1>8, <1>9, <1>10, <1>11, <1>12 DEF GuardStep, Proceed

\* The history is made of what blocks, now.
LEMMA ObserveStanding ==
  ASSUME Observe, NEW d \in Runs
  PROVE  /\ standing'[d] \subseteq Blocking(d)'
         /\ run'[d].attempts = run[d].attempts => standing'[d] \subseteq standing[d]
BY DEF Observe

LEMMA StandingType ==
  ASSUME Observe, open' \subseteq SchemaChange
  PROVE  standing' \in [Runs -> SUBSET SchemaChange]
BY DEF Observe, Blocking

\* Each step keeps the types, and the number of tries.
LEMMA TypeNext == TypeOK /\ TriesLeft /\ [Next]_vars => TypeOK' /\ TriesLeft'
<1> SUFFICES ASSUME TypeOK, TriesLeft, [Next]_vars PROVE TypeOK' /\ TriesLeft'
  OBVIOUS
<1>1. CASE UNCHANGED vars
  BY <1>1 DEF vars, store, TypeOK, CatalogTypeOK, TriesLeft
<1>2. CASE Next
  <2>1. CASE ScanOrAccept
    <3>1. UNCHANGED <<catalog, command, run>> /\ Contract!Next
      BY <2>1 DEF ScanOrAccept
    <3>2. CatalogTypeOK' /\ TriesLeft'
      BY <3>1 DEF TypeOK, CatalogTypeOK, TriesLeft
    <3> QED
      BY <1>2, <3>1, <3>2, ContractKeepsType, StandingType DEF Next, TypeOK
  <2>2. ASSUME NEW c \in Commands, CatalogStep(c) PROVE TypeOK' /\ TriesLeft'
    <3>1. CatalogTypeOK'
      BY <2>2, CommandKeepsType DEF CatalogStep, TypeOK
    <3>2. UNCHANGED <<store, run>>
      BY <2>2 DEF CatalogStep
    <3> QED
      BY <1>2, <3>1, <3>2, StandingType DEF Next, TypeOK, TriesLeft, store
  <2>3. ASSUME NEW d \in Runs, RunStep(d) PROVE TypeOK' /\ TriesLeft'
    <3>1. GuardStep(d) /\ UNCHANGED <<store, catalog, command>>
      BY <2>3 DEF RunStep
    <3>2. run' \in [Runs -> RunRecord] /\ TriesLeft'
      BY <3>1, RunStepRecord DEF TypeOK, TriesLeft
    <3>3. CatalogTypeOK'
      BY <3>1 DEF TypeOK, CatalogTypeOK
    <3> QED
      BY <1>2, <3>1, <3>2, <3>3, StandingType DEF Next, TypeOK, store
  <2> QED
    BY <1>2, <2>1, <2>2, <2>3 DEF Next
<1> QED
  BY <1>1, <1>2

\* Every variable keeps its type and no run is tried more often than allowed.
THEOREM GuardTyped == Spec => []TypeOK
<1>1. Init => TypeOK /\ TriesLeft
  BY TypeInit, GuardAssumption DEF Init, TriesLeft
<1>2. TypeOK /\ TriesLeft /\ [Next]_vars => TypeOK' /\ TriesLeft'
  BY TypeNext
<1> QED
  BY <1>1, <1>2, PTL DEF Spec

\* Whatever runs beside them: two commands that each replaced a catalog never
\* leave a mixture, and no pipeline is declared twice.
THEOREM CatalogsStayApart == Spec => []CatalogsDoNotMix
<1>1. Init => CatalogInvariant
  BY CatalogInvInit DEF Init
<1>2. TypeOK /\ CatalogInvariant /\ [Next]_vars => CatalogInvariant'
  <2> SUFFICES ASSUME TypeOK, CatalogInvariant, [Next]_vars PROVE CatalogInvariant'
    OBVIOUS
  <2>1. ASSUME NEW c \in Commands, CatalogStep(c) PROVE CatalogInvariant'
    <3>1. CASE AbortCommand(c)
      BY <3>1, RollBackKeepsInv DEF AbortCommand, TypeOK
    <3> QED
      BY <2>1, <3>1, CheckKeepsInv, DeleteKeepsInv, InsertKeepsInv, CommitKeepsInv
      DEF CatalogStep, SyncCatalog, TypeOK
  <2>2. CASE ~\E c \in Commands : CatalogStep(c)
    <3>1. UNCHANGED <<catalog, command>>
      BY <2>2 DEF Next, ScanOrAccept, RunStep, vars
    <3> QED
      BY <3>1, CatalogInvKept
  <2> QED
    BY <2>1, <2>2
<1>3. CatalogInvariant => CatalogsDoNotMix
  BY DEF CatalogInvariant
<1> QED
  BY <1>1, <1>2, <1>3, GuardTyped, PTL DEF Spec

-----------------------------------------------------------------------------
(* The order of the keys. *)

\* What a command has inserted comes before what it has still to insert.
KeysInOrder ==
  \A c \in Commands : Active(c) =>
    \A key \in Inserted(c), other \in command[c].todo : KeyOrder[key] < KeyOrder[other]

LEMMA OrderNext ==
  ASSUME CatalogTypeOK, KeysInOrder, NEW c \in Commands, SyncCatalog(c) \/ AbortCommand(c)
  PROVE  KeysInOrder'
<1>1. ASSUME ~Active(c)',
             \A other \in Commands \ {c} : command'[other] = command[other]
      PROVE  KeysInOrder'
  BY <1>1 DEF KeysInOrder, Active, Inserted
<1>2. ASSUME RollBack(c) PROVE KeysInOrder'
  <2>1. ~Active(c)' /\ \A other \in Commands \ {c} : command'[other] = command[other]
    BY <1>2 DEF RollBack, Active, CatalogTypeOK
  <2> QED
    BY <1>1, <2>1
<1>3. CASE CheckFile(c)
  <2>1. PICK file \in Files :
          IF Valid(file)
          THEN command' = [command EXCEPT ![c].pc = "checked", ![c].file = file]
          ELSE RollBack(c)
    BY <1>3 DEF CheckFile
  <2>2. CASE Valid(file)
    <3>1. command'[c].pc = "checked"
          /\ \A other \in Commands \ {c} : command'[other] = command[other]
      BY <2>1, <2>2 DEF CatalogTypeOK, CommandRecord
    <3> QED
      BY <1>1, <3>1 DEF Active
  <2> QED
    BY <1>2, <2>1, <2>2
<1>4. CASE DeleteCatalog(c)
  <2>1. /\ \A other \in Commands \ {c} : command'[other] = command[other]
        /\ command'[c].file = command[c].file
        /\ command'[c].todo = PipelinesOf(command[c].file)
    BY <1>4 DEF DeleteCatalog, CatalogTypeOK, CommandRecord
  <2> QED
    BY <2>1 DEF KeysInOrder, Active, Inserted
<1>5. CASE InsertPipeline(c)
  <2>1. PICK key \in Pipelines :
          /\ NextKey(c, key)
          /\ RollBack(c) \/ command' = [command EXCEPT ![c].todo = @ \ {key}]
    BY <1>5 DEF InsertPipeline
  <2>2. CASE command' = [command EXCEPT ![c].todo = @ \ {key}]
    <3>1. /\ \A other \in Commands \ {c} : command'[other] = command[other]
          /\ command'[c].file = command[c].file
          /\ command'[c].todo = command[c].todo \ {key}
      BY <2>2 DEF CatalogTypeOK, CommandRecord
    <3>2. Active(c)
      BY <1>5 DEF InsertPipeline
    <3>3. \A k \in Inserted(c)' : k \in Inserted(c) \/ k = key
      BY <3>1 DEF Inserted
    <3>4. ASSUME NEW other \in command'[c].todo PROVE KeyOrder[key] < KeyOrder[other]
      <4>1. /\ other \in Pipelines /\ other # key
            /\ KeyOrder[key] <= KeyOrder[other]
        BY <2>1, <3>1 DEF NextKey, CatalogTypeOK, CommandRecord
      <4>2. KeyOrder[key] \in Nat /\ KeyOrder[other] \in Nat /\ KeyOrder[key] # KeyOrder[other]
        BY <4>1, CatalogAssumption
      <4> QED
        BY <4>1, <4>2
    <3>5. \A k \in Inserted(c)', other \in command'[c].todo : KeyOrder[k] < KeyOrder[other]
      BY <3>1, <3>2, <3>3, <3>4 DEF KeysInOrder
    <3> QED
      BY <3>1, <3>5 DEF KeysInOrder, Active, Inserted
  <2> QED
    BY <1>2, <2>1, <2>2
<1>6. CASE CommitCatalog(c)
  <2>1. command'[c].pc = "committed"
        /\ \A other \in Commands \ {c} : command'[other] = command[other]
    BY <1>6 DEF CommitCatalog, CatalogTypeOK, CommandRecord
  <2> QED
    BY <1>1, <2>1 DEF Active
<1>7. CASE AbortCommand(c)
  BY <1>2, <1>7 DEF AbortCommand
<1> QED
  BY <1>3, <1>4, <1>5, <1>6, <1>7 DEF SyncCatalog

LEMMA OrderHolds == Spec => []KeysInOrder
<1>1. Init => KeysInOrder
  BY DEF Init, CatalogInit, KeysInOrder, Active
<1>2. TypeOK /\ KeysInOrder /\ [Next]_vars => KeysInOrder'
  <2> SUFFICES ASSUME TypeOK, KeysInOrder, [Next]_vars PROVE KeysInOrder'
    OBVIOUS
  <2>1. ASSUME NEW c \in Commands, CatalogStep(c) PROVE KeysInOrder'
    BY <2>1, OrderNext DEF CatalogStep, TypeOK
  <2>2. CASE ~\E c \in Commands : CatalogStep(c)
    <3>1. UNCHANGED <<catalog, command>>
      BY <2>2 DEF Next, ScanOrAccept, RunStep, vars
    <3> QED
      BY <3>1 DEF KeysInOrder, Active, Inserted
  <2> QED
    BY <2>1, <2>2
<1> QED
  BY <1>1, <1>2, GuardTyped, PTL DEF Spec

\* Every command of the circle has inserted a key that one of them is to insert next.
KeyCircle(circle) ==
  /\ circle # {}
  /\ \A c \in circle : \E other \in circle, key \in Pipelines :
       /\ Active(c) /\ key \in Inserted(c)
       /\ Active(other) /\ NextKey(other, key)

\* Every set of natural numbers that is not empty has a least one.
LEMMA LeastNumber ==
  ASSUME NEW numbers \in SUBSET Nat, numbers # {}
  PROVE  \E n \in numbers : \A m \in numbers : n <= m
<1>1. PICK n \in numbers : \A m \in numbers : ~ (<<m, n>> \in OpToRel(<, Nat))
  BY NatLessThanWellFounded, WFMin
<1>2. \A m \in numbers : ~ (m < n)
  BY <1>1 DEF OpToRel
<1> QED
  BY <1>2

\* No commands, however many, wait in a circle for keys they have inserted: the one
\* that is to insert the least of these keys would have inserted a smaller one that
\* another waits for (catalog_service.py:113, catalog.py:80-90).
THEOREM KeysDoNotCircle == Spec => [](\A circle \in SUBSET Commands : ~KeyCircle(circle))
<1>1. KeysInOrder => \A circle \in SUBSET Commands : ~KeyCircle(circle)
  <2> SUFFICES ASSUME KeysInOrder, NEW circle \in SUBSET Commands, KeyCircle(circle)
               PROVE  FALSE
    OBVIOUS
  <2> DEFINE Contested(key) == \E c \in circle : Active(c) /\ NextKey(c, key)
             places == {KeyOrder[key] : key \in {k \in Pipelines : Contested(k)}}
  <2>1. places \in SUBSET Nat /\ places # {}
    BY CatalogAssumption DEF KeyCircle
  <2>2. PICK n \in places : \A m \in places : n <= m
    BY <2>1, LeastNumber
  <2>3. PICK key \in Pipelines : Contested(key) /\ n = KeyOrder[key]
    BY <2>2
  <2>4. PICK c \in circle : Active(c) /\ NextKey(c, key)
    BY <2>3
  <2>5. PICK other \in circle, held \in Pipelines :
          /\ held \in Inserted(c)
          /\ Active(other) /\ NextKey(other, held)
    BY DEF KeyCircle
  <2>6. KeyOrder[held] < KeyOrder[key]
    BY <2>4, <2>5 DEF KeysInOrder, NextKey
  <2>7. KeyOrder[held] \in places
    BY <2>5
  <2>8. n <= KeyOrder[held] /\ KeyOrder[held] \in Nat /\ KeyOrder[key] \in Nat
    BY <2>2, <2>7, CatalogAssumption
  <2> QED
    BY <2>3, <2>6, <2>8
<1> QED
  BY <1>1, OrderHolds, PTL
-----------------------------------------------------------------------------
(* A change that blocks throughout stops the run. *)

\* Under the lineage the request read, a change reaches the run's pipeline.
Reached(d, change, edges) ==
  \E column \in Columns : <<PipelineOf[d], column>> \in Impacts(edges, {change.column})

\* What blocked ever since the attempt began still does; it reaches the pipeline
\* under the lineage that was read, too; and there is none once the answer is
\* that the pipeline is safe.
StandingIsSeen ==
  \A d \in Runs :
    /\ standing[d] \subseteq Blocking(d)
    /\ run[d].pc = "changes" => \A change \in standing[d] : Reached(d, change, run[d].edges)
    /\ run[d].pc = "answered" /\ run[d].answer = "safe" => standing[d] = {}
    /\ run[d].pc \in {"cleared", "aggregating", "done"} => standing[d] = {}
    /\ run[d].pc # "answered" => run[d].answer = "none"

\* What blocks a pipeline is found by the search, ...
LEMMA BlockingIsReached ==
  ASSUME TypeOK, NEW d \in Runs, NEW change \in Blocking(d)
  PROVE  change \in open /\ change.severity = "BREAKING" /\ Reached(d, change, Lineage)
<1>1. PICK e \in Lineage : /\ e.pipeline = PipelineOf[d]
                           /\ e.upstream \in ReachableFrom(Lineage, {change.column})
  BY DEF Blocking
<1>2. e.downstream \in Columns
  BY DEF TypeOK, CatalogTypeOK, Lineage, Row, Edge
<1>3. <<PipelineOf[d], e.downstream>> \in Impacts(Lineage, {change.column})
  BY <1>1 DEF Impacts, Key
<1> QED
  BY <1>2, <1>3 DEF Blocking, Reached

\* ... and what the search finds blocks it.
LEMMA ReachedIsBlocking ==
  ASSUME NEW d \in Runs, NEW change \in open,
         change.severity = "BREAKING", Reached(d, change, Lineage)
  PROVE  change \in Blocking(d)
<1>1. PICK column \in Columns :
        <<PipelineOf[d], column>> \in Impacts(Lineage, {change.column})
  BY DEF Reached
<1>2. PICK e \in Lineage : /\ e.upstream \in ReachableFrom(Lineage, {change.column})
                           /\ <<PipelineOf[d], column>> = <<e.pipeline, e.downstream>>
  BY <1>1 DEF Impacts, Key
<1>3. e.pipeline = PipelineOf[d]
  BY <1>2
<1> QED
  BY <1>2, <1>3 DEF Blocking

\* One run's part of the invariant, with the history after the step.
LEMMA RunKeepsStanding ==
  ASSUME TypeOK, StandingIsSeen, NEW d \in Runs, GuardStep(d),
         run'[d].attempts = run[d].attempts, standing'[d] \subseteq standing[d]
  PROVE  /\ run'[d].pc = "changes" =>
              \A change \in standing'[d] : Reached(d, change, run'[d].edges)
         /\ run'[d].pc = "answered" /\ run'[d].answer = "safe" => standing'[d] = {}
         /\ run'[d].pc \in {"cleared", "aggregating", "done"} => standing'[d] = {}
         /\ run'[d].pc # "answered" => run'[d].answer = "none"
<1>1. /\ run \in [Runs -> RunRecord]
      /\ run[d].pc # "answered" => run[d].answer = "none"
  BY DEF TypeOK, StandingIsSeen
<1>2. CASE AskGuard(d)
  BY <1>1, <1>2 DEF AskGuard, RunRecord
<1>3. CASE FindPipeline(d) \/ FailRequest(d)
  BY <1>1, <1>3 DEF FindPipeline, FailRequest, Answer, RunRecord
<1>4. CASE ReadLineage(d)
  <2>1. \A change \in standing[d] : Reached(d, change, Lineage)
    BY BlockingIsReached DEF StandingIsSeen
  <2>2. run'[d].edges = Lineage /\ run'[d].pc = "changes" /\ run'[d].answer = "none"
    BY <1>1, <1>4 DEF ReadLineage, RunRecord
  <2> QED
    BY <2>1, <2>2
<1>5. CASE ReadChanges(d)
  <2>1. run'[d].pc = "answered"
        /\ (run'[d].answer = "safe" => BlockingChanges(d) = {})
    BY <1>1, <1>5 DEF ReadChanges, Answer, RunRecord
  <2>2. ASSUME NEW change \in standing[d] PROVE change \in BlockingChanges(d)
    <3>1. change \in open /\ change.severity = "BREAKING"
      BY BlockingIsReached DEF StandingIsSeen
    <3>2. Reached(d, change, run[d].edges)
      BY <1>5 DEF ReadChanges, StandingIsSeen
    <3> QED
      BY <3>1, <3>2 DEF BlockingChanges, Reached
  <2> QED
    BY <2>1, <2>2
<1>6. CASE EndAttempt(d)
  <2>1. /\ run'[d].pc = Outcome(d) /\ run'[d].answer = "none"
        /\ run[d].pc = "answered"
    BY <1>1, <1>6 DEF EndAttempt, RunRecord
  <2>2. Outcome(d) # "answered" /\ Outcome(d) # "changes"
    BY DEF Outcome, Retried
  <2>3. Outcome(d) \in {"cleared", "aggregating", "done"} => run[d].answer = "safe"
    BY DEF Outcome, Retried
  <2> QED
    BY <2>1, <2>2, <2>3 DEF StandingIsSeen
<1>7. CASE LoseRequest(d)
  BY <1>1, <1>7 DEF LoseRequest, Retried, RunRecord
<1>8. CASE StartAggregate(d) \/ EndAggregate(d)
  BY <1>1, <1>8 DEF StartAggregate, EndAggregate, StandingIsSeen, RunRecord
<1> QED
  BY <1>2, <1>3, <1>4, <1>5, <1>6, <1>7, <1>8 DEF GuardStep, Proceed

LEMMA StandingInit == Init => StandingIsSeen
BY DEF Init, StandingIsSeen

LEMMA StandingNext ==
  TypeOK /\ TriesLeft /\ StandingIsSeen /\ [Next]_vars => StandingIsSeen'
<1> SUFFICES ASSUME TypeOK, TriesLeft, StandingIsSeen, [Next]_vars PROVE StandingIsSeen'
  OBVIOUS
<1>1. CASE UNCHANGED vars
  BY <1>1 DEF vars, store, StandingIsSeen, Blocking, Lineage, Reached
<1>2. CASE Next
  <2> SUFFICES ASSUME NEW d \in Runs
               PROVE
    /\ standing'[d] \subseteq Blocking(d)'
    /\ run'[d].pc = "changes" =>
         \A change \in standing'[d] : Reached(d, change, run'[d].edges)
    /\ run'[d].pc = "answered" /\ run'[d].answer = "safe" => standing'[d] = {}
    /\ run'[d].pc \in {"cleared", "aggregating", "done"} => standing'[d] = {}
    /\ run'[d].pc # "answered" => run'[d].answer = "none"
    BY DEF StandingIsSeen, Reached
  <2>1. standing'[d] \subseteq Blocking(d)'
    BY <1>2, ObserveStanding DEF Next
  <2>2. run'[d].attempts = run[d].attempts => standing'[d] \subseteq standing[d]
    BY <1>2, ObserveStanding DEF Next
  <2>3. CASE run'[d] = run[d]
    BY <2>1, <2>2, <2>3 DEF StandingIsSeen
  <2>4. CASE run'[d] # run[d]
    <3>1. GuardStep(d)
      <4>1. PICK other \in Runs : RunStep(other)
        BY <1>2, <2>4 DEF Next, ScanOrAccept, CatalogStep
      <4>2. other = d
        BY <2>4, <4>1, RunStepRecord DEF RunStep, TypeOK
      <4> QED
        BY <4>1, <4>2 DEF RunStep
    <3>2. CASE run'[d].attempts = run[d].attempts
      BY <2>1, <2>2, <3>1, <3>2, RunKeepsStanding
    <3>3. CASE run'[d].attempts # run[d].attempts
      <4>1. AskGuard(d) /\ run[d].answer = "none"
        BY <3>1, <3>3, RunStepRecord DEF AskGuard, StandingIsSeen
      <4>2. run'[d].pc = "find" /\ run'[d].answer = "none"
        BY <4>1 DEF AskGuard, TypeOK, RunRecord
      <4> QED
        BY <2>1, <4>2
    <3> QED
      BY <3>2, <3>3
  <2> QED
    BY <2>3, <2>4
<1> QED
  BY <1>1, <1>2

\* For any number of runs, commands, scans and acceptances, however they
\* interleave: nothing that blocked a run's pipeline when it last asked has
\* blocked it ever since if its mart is written.
THEOREM StandingChangesStopRuns == Spec => []StandingChangeStops
<1>1. Init => TypeOK /\ TriesLeft /\ StandingIsSeen
  BY TypeInit, StandingInit, GuardAssumption DEF Init, TriesLeft
<1>2. TypeOK /\ TriesLeft /\ StandingIsSeen /\ [Next]_vars
        => TypeOK' /\ TriesLeft' /\ StandingIsSeen'
  BY TypeNext, StandingNext
<1>3. StandingIsSeen => StandingChangeStops
  BY DEF StandingIsSeen, StandingChangeStops
<1> QED
  BY <1>1, <1>2, <1>3, PTL DEF Spec

\* No run is refused for a change that does not block it, unless a catalog was
\* committed while it was asking.
THEOREM ConflictsHaveReasons == Spec => OnlyBlockedRunsConflict
<1>1. TypeOK /\ TriesLeft /\ StandingIsSeen /\ [Next]_vars => ConflictHasReason
  <2> SUFFICES ASSUME TypeOK, TriesLeft, StandingIsSeen, [Next]_vars, NEW d \in Runs,
                      run[d].pc = "changes", run'[d].answer = "conflict",
                      run[d].edges = Lineage
               PROVE  Blocking(d) # {}
    BY DEF ConflictHasReason
  <2>1. run[d].answer = "none" /\ run'[d] # run[d]
    BY DEF StandingIsSeen
  <2>2. PICK other \in Runs : RunStep(other)
    BY <2>1 DEF Next, ScanOrAccept, CatalogStep, vars
  <2>3. GuardStep(d)
    BY <2>1, <2>2, RunStepRecord DEF RunStep, TypeOK
  <2>4. BlockingChanges(d) # {}
    <3>1. ReadChanges(d) \/ FailRequest(d) \/ LoseRequest(d)
      BY <2>3 DEF GuardStep, Proceed, AskGuard, FindPipeline, ReadLineage,
                  EndAttempt, StartAggregate, EndAggregate
    <3>2. ~FailRequest(d) /\ ~LoseRequest(d)
      BY DEF FailRequest, LoseRequest, Answer, TypeOK, RunRecord
    <3>3. ASSUME BlockingChanges(d) = {} PROVE FALSE
      <4>1. Answer(d, "safe")
        BY <3>1, <3>2, <3>3 DEF ReadChanges
      <4>2. run'[d].answer = "safe"
        BY <4>1 DEF Answer, TypeOK, RunRecord
      <4> QED
        BY <4>2
    <3> QED
      BY <3>3
  <2>5. PICK change \in BlockingChanges(d) : TRUE
    BY <2>4
  <2>6. /\ change \in open /\ change.severity = "BREAKING"
        /\ Reached(d, change, Lineage)
    BY <2>5 DEF BlockingChanges, Reached
  <2> QED
    BY <2>6, ReachedIsBlocking
<1>2. Spec => [](TypeOK /\ TriesLeft /\ StandingIsSeen)
  <2>1. Init => TypeOK /\ TriesLeft /\ StandingIsSeen
    BY TypeInit, StandingInit, GuardAssumption DEF Init, TriesLeft
  <2>2. TypeOK /\ TriesLeft /\ StandingIsSeen /\ [Next]_vars
          => TypeOK' /\ TriesLeft' /\ StandingIsSeen'
    BY TypeNext, StandingNext
  <2> QED
    BY <2>1, <2>2, PTL DEF Spec
<1> QED
  BY <1>1, <1>2, PTL DEF Spec, OnlyBlockedRunsConflict
================================================================================
