--------------------------- MODULE BotPurgeProofs ---------------------------
(***************************************************************************)
(* The start of any number of sidecars beside a migration, and the purge   *)
(* of any bots, with any number of interruptions.                          *)
(***************************************************************************)
EXTENDS BotPurge, FiniteSetTheorems, TLAPS

-----------------------------------------------------------------------------
(* The invariant of the schema. *)

Seen == [legacy : SUBSET Tables, neutral : SUBSET Tables, modules : SUBSET Required]
Start == [at : Places, saw : Seen, next : 1 .. Len(OwnedTables) + 1]

SchemaTypes ==
  /\ legacy \subseteq Tables /\ neutral \subseteq Tables
  /\ odd \subseteq legacy \cup neutral
  /\ modules \subseteq Required
  /\ renamed \subseteq Range(Identifiers)
  /\ updater \in [at : {"waiting", "checked", "renamed", "applied", "refused"},
                  layout : {"fresh", "complete", "neutral", "mixed"},
                  next : 1 .. Len(Identifiers) + 1]
  /\ sidecar \in [Sidecars -> Start]
  /\ cut \in BOOLEAN /\ faults \in 0 .. MaxFaults

\* What the updater found is still so when it renames, and the purge's revision comes after.
Migrating ==
  /\ "purge" \in modules => updater.at = "applied"
  /\ updater.at = "checked" /\ updater.layout # "neutral" => legacy # {} /\ neutral = {}

\* Nobody undoes this.
Ready == legacy = {} /\ modules = Required /\ renamed = Range(Identifiers)

\* What a start has seen is no more than there is, once it has seen the purge's table.
SeenHolds(saw) ==
  /\ saw.modules \subseteq modules
  /\ saw.legacy = {} => legacy = {}
  /\ saw.legacy = {} /\ saw.modules = Required => saw.neutral \subseteq neutral /\ odd \subseteq saw.neutral

Starting(s) ==
  /\ sidecar[s].at \in {"listed", "judged"} => SeenHolds(sidecar[s].saw)
  /\ sidecar[s].at = "judged" =>
       /\ Ready
       /\ sidecar[s].saw.legacy = {} /\ sidecar[s].saw.modules = Required
       /\ "budget" \in sidecar[s].saw.neutral
  /\ sidecar[s].at \in {"creating", "serving"} => Ready /\ "budget" \in neutral /\ odd = {}
  /\ sidecar[s].at = "serving" => neutral = Tables

SchemaInv == SchemaTypes /\ Migrating /\ \A s \in Sidecars : Starting(s)

-----------------------------------------------------------------------------
(* The tables of a schema. *)

\* The first of the tables a start creates is one of the module's.
LEMMA FirstOwned == Head(OwnedTables) \in Owned
<1>1. OwnedTables \in Seq(STRING) /\ OwnedTables # <<>>
  BY SchemaAssumption
<1>2. 1 \in DOMAIN OwnedTables /\ Head(OwnedTables) = OwnedTables[1]
  BY <1>1
<1> QED BY <1>2 DEF Owned, Range

\* A layout the migration goes on from, unless the names are neutral, has nothing neutral.
LEMMA LayoutTells ==
  /\ Layout \in {"fresh", "complete", "neutral", "mixed"}
  /\ Layout \in {"fresh", "complete"} => legacy # {} /\ neutral = {}
<1>1. Tables # {}
  BY DEF Tables
<1>2. CASE legacy = {"budget"} /\ neutral = {}
  <2>1. legacy = Tables => FALSE
    <3>1. Head(OwnedTables) \in Tables /\ Head(OwnedTables) # "budget"
      BY FirstOwned, SchemaAssumption DEF Tables, Owned
    <3> QED BY <1>2, <3>1
  <2> QED BY <1>2, <2>1 DEF Layout
<1>3. CASE legacy = Tables /\ neutral = {}
  BY <1>1, <1>3 DEF Layout
<1>4. CASE legacy = {} /\ neutral = Tables
  BY <1>1, <1>4 DEF Layout
<1>5. CASE /\ ~(legacy = {"budget"} /\ neutral = {})
           /\ ~(legacy = Tables /\ neutral = {})
           /\ ~(legacy = {} /\ neutral = Tables)
  BY <1>5 DEF Layout
<1> QED BY <1>2, <1>3, <1>4, <1>5

\* The orders the tables and the identifiers are taken in are sequences.
LEMMA Lengths == Len(OwnedTables) \in Nat /\ Len(Identifiers) \in Nat /\ MaxFaults \in Nat
                 /\ DOMAIN OwnedTables = 1 .. Len(OwnedTables)
                 /\ DOMAIN Identifiers = 1 .. Len(Identifiers)
BY SchemaAssumption

\* At first nobody migrates or starts.
LEMMA SchemaStarts == SchemaInit => SchemaInv
<1> SUFFICES ASSUME SchemaInit PROVE SchemaInv
    OBVIOUS
<1> USE DEF SchemaInit
<1>1. PICK given \in Given :
        /\ legacy = given.legacy /\ neutral = given.neutral
        /\ renamed = IF "budget" \in given.neutral THEN Range(Identifiers) ELSE {}
        /\ updater = [at |-> IF "budget" \in given.neutral THEN "applied" ELSE "waiting",
                      layout |-> "mixed", next |-> 1]
  OBVIOUS
<1>2. given.legacy \subseteq Tables /\ given.neutral \subseteq Tables
  <2>1. Head(OwnedTables) \in Tables /\ "budget" \in Tables
    BY FirstOwned DEF Tables
  <2> QED BY <2>1 DEF Given
<1>3. sidecar \in [Sidecars -> Start] /\ \A s \in Sidecars : sidecar[s].at = "down"
  BY Lengths DEF Start, Seen, NothingSeen, Places
<1>4. SchemaTypes
  <2>1. odd \subseteq legacy \cup neutral
    OBVIOUS
  <2>3. updater \in [at : {"waiting", "checked", "renamed", "applied", "refused"},
                    layout : {"fresh", "complete", "neutral", "mixed"},
                    next : 1 .. Len(Identifiers) + 1]
    <3>1. 1 \in 1 .. Len(Identifiers) + 1
      BY Lengths
    <3>2. CASE updater = [at |-> "waiting", layout |-> "mixed", next |-> 1]
      BY <3>1, <3>2
    <3>3. CASE updater = [at |-> "applied", layout |-> "mixed", next |-> 1]
      BY <3>1, <3>3
    <3> QED BY <1>1, <3>2, <3>3
  <2>4. renamed \subseteq Range(Identifiers) /\ modules \subseteq Required
    BY <1>1
  <2>5. cut \in BOOLEAN
    OBVIOUS
  <2>6. faults \in 0 .. MaxFaults
    BY Lengths
  <2> QED BY <1>1, <1>2, <1>3, <2>1, <2>3, <2>4, <2>5, <2>6 DEF SchemaTypes
<1>5. Migrating
  BY <1>1 DEF Migrating
<1>6. \A s \in Sidecars : Starting(s)
  BY <1>3 DEF Starting
<1> QED BY <1>4, <1>5, <1>6 DEF SchemaInv

-----------------------------------------------------------------------------
(* The migration and the invariant. *)

\* What a start relies on survives a step that only adds to the modules and the
\* identifiers, and renames tables only before the purge's revision.
LEMMA StartsSurvive ==
  ASSUME SchemaInv, UNCHANGED <<sidecar, odd>>,
         modules \subseteq modules', modules' \subseteq Required,
         renamed \subseteq renamed', renamed' \subseteq Range(Identifiers),
         legacy = {} => legacy' = {},
         \/ UNCHANGED neutral
         \/ "purge" \notin modules /\ UNCHANGED modules
  PROVE  \A s \in Sidecars : Starting(s)'
<1> SUFFICES ASSUME NEW s \in Sidecars PROVE Starting(s)'
    OBVIOUS
<1>1. Starting(s)
  BY DEF SchemaInv
<1>2. modules = Required => modules' = Required /\ neutral' = neutral
  BY DEF Required
<1>3. Ready => Ready' /\ neutral' = neutral
  BY <1>2 DEF Ready
<1>4. ASSUME SeenHolds(sidecar[s].saw) PROVE SeenHolds(sidecar[s].saw)'
  <2>1. sidecar[s].saw.modules = Required => modules = Required
    BY <1>4 DEF SeenHolds, SchemaInv, SchemaTypes
  <2> QED BY <1>2, <1>4, <2>1 DEF SeenHolds
<1> QED BY <1>1, <1>3, <1>4 DEF Starting

\* A statement of the migration only moves the schema on (08_07 and the purge table's
\* revision).
LEMMA MigrationKeeps == ASSUME SchemaInv, MigrationStep PROVE SchemaInv'
<1> USE DEF SchemaInv
<1>1. CASE Preflight
  <2> USE <1>1 DEF Preflight
  <2>1. /\ updater'.at \in {"checked", "refused"} /\ updater'.layout = Layout /\ updater'.next = 1
        /\ updater'.at = "checked" => Layout # "mixed"
    OBVIOUS
  <2>2. SchemaTypes'
    <3>1. updater' \in [at : {"waiting", "checked", "renamed", "applied", "refused"},
                        layout : {"fresh", "complete", "neutral", "mixed"},
                        next : 1 .. Len(Identifiers) + 1]
      BY LayoutTells, Lengths
    <3> QED BY <3>1 DEF SchemaTypes, database
  <2>3. Migrating'
    BY <2>1, LayoutTells DEF Migrating, database
  <2>4. \A s \in Sidecars : Starting(s)'
    BY StartsSurvive DEF database, SchemaTypes
  <2> QED BY <2>2, <2>3, <2>4
<1>2. CASE RenameTables
  <2> USE <1>2 DEF RenameTables
  <2>1. "purge" \notin modules
    BY DEF Migrating
  <2>2. /\ legacy = {} => legacy' = {}
        /\ legacy' \subseteq Tables /\ neutral' \subseteq Tables
        /\ legacy' \cup neutral' = legacy \cup neutral
    BY DEF Migrating, SchemaTypes
  <2>3. SchemaTypes'
    <3>1. updater' \in [at : {"waiting", "checked", "renamed", "applied", "refused"},
                        layout : {"fresh", "complete", "neutral", "mixed"},
                        next : 1 .. Len(Identifiers) + 1]
      BY DEF SchemaTypes
    <3> QED BY <2>2, <3>1 DEF SchemaTypes
  <2>4. Migrating'
    BY <2>1 DEF Migrating, SchemaTypes
  <2>5. \A s \in Sidecars : Starting(s)'
    BY <2>1, <2>2, StartsSurvive DEF SchemaTypes
  <2> QED BY <2>3, <2>4, <2>5
<1>3. CASE RenameIdentifier
  <2> USE <1>3 DEF RenameIdentifier
  <2>1. Identifiers[updater.next] \in Range(Identifiers)
    BY DEF Range
  <2>2. updater' \in [at : {"waiting", "checked", "renamed", "applied", "refused"},
                      layout : {"fresh", "complete", "neutral", "mixed"},
                      next : 1 .. Len(Identifiers) + 1]
    BY Lengths DEF SchemaTypes
  <2>3. SchemaTypes'
    BY <2>1, <2>2 DEF SchemaTypes
  <2>4. Migrating'
    BY DEF Migrating, SchemaTypes
  <2>5. \A s \in Sidecars : Starting(s)'
    BY <2>1, StartsSurvive DEF SchemaTypes
  <2> QED BY <2>3, <2>4, <2>5
<1>4. CASE Applied
  <2> USE <1>4 DEF Applied
  <2>1. SchemaTypes' /\ Migrating'
    BY DEF SchemaTypes, Migrating, database
  <2>2. \A s \in Sidecars : Starting(s)'
    BY StartsSurvive DEF SchemaTypes, database
  <2> QED BY <2>1, <2>2
<1>5. CASE PurgeRevision \/ SocialRevision
  <2> USE <1>5 DEF PurgeRevision, SocialRevision
  <2>1. SchemaTypes' /\ Migrating'
    BY DEF SchemaTypes, Migrating, Required
  <2>2. \A s \in Sidecars : Starting(s)'
    BY <2>1, StartsSurvive DEF SchemaTypes
  <2> QED BY <2>1, <2>2
<1> QED BY <1>1, <1>2, <1>3, <1>4, <1>5 DEF MigrationStep

\* An updater that is cut off leaves what it committed.
LEMMA UpdaterCutKeeps == ASSUME SchemaInv, UpdaterCut PROVE SchemaInv'
<1> USE DEF UpdaterCut, SchemaInv
<1>1. SchemaTypes' /\ Migrating'
  BY Lengths DEF SchemaTypes, Migrating, database
<1>2. \A s \in Sidecars : Starting(s)'
  BY StartsSurvive DEF SchemaTypes, database
<1> QED BY <1>1, <1>2

-----------------------------------------------------------------------------
(* A start and the invariant. *)

\* A step of one start that changes no table leaves the others where they are.
LEMMA OneStart ==
  ASSUME SchemaInv, UNCHANGED <<database, updater>>,
         cut' \in BOOLEAN, faults' \in 0 .. MaxFaults,
         NEW s \in Sidecars, sidecar'[s] \in Start, Starting(s)',
         sidecar' = [sidecar EXCEPT ![s] = sidecar'[s]]
  PROVE  SchemaInv'
<1> USE DEF SchemaInv
<1>1. SchemaTypes'
  BY DEF SchemaTypes, database
<1>2. Migrating'
  BY DEF Migrating, database
<1>3. ASSUME NEW r \in Sidecars PROVE Starting(r)'
  <2>1. CASE r = s
    BY <2>1
  <2>2. CASE r # s
    <3>1. sidecar'[r] = sidecar[r]
      BY <2>2 DEF SchemaTypes
    <3> QED BY <3>1 DEF Starting, SeenHolds, Ready, database
  <2> QED BY <2>1, <2>2
<1> QED BY <1>1, <1>2, <1>3

\* A statement of ensure_schema creates a table only where the migrations have finished.
LEMMA StartStepKeeps == ASSUME SchemaInv, NEW s \in Sidecars, StartStep(s) PROVE SchemaInv'
<1> USE DEF SchemaInv
<1>1. sidecar[s] \in Start /\ Starting(s) /\ cut \in BOOLEAN /\ faults \in 0 .. MaxFaults
  BY DEF SchemaTypes
<1>2. ASSUME NEW place \in Places, Leave(s, place)
      PROVE  /\ sidecar' = [sidecar EXCEPT ![s] = sidecar'[s]]
             /\ sidecar'[s] \in Start /\ sidecar'[s].at = place
  BY <1>2, Lengths DEF Leave, SchemaTypes, Start, Seen, NothingSeen
<1>3. CASE ListTables(s)
  <2> USE <1>3 DEF ListTables
  <2>1. /\ sidecar'[s].at = "listed"
        /\ sidecar'[s].saw = [legacy |-> legacy, neutral |-> neutral, modules |-> modules]
        /\ sidecar'[s] \in Start
        /\ sidecar' = [sidecar EXCEPT ![s] = sidecar'[s]]
    BY Lengths DEF SchemaTypes, Start, Seen, Places
  <2>2. Starting(s)'
    BY <2>1 DEF Starting, SeenHolds, SchemaTypes, database
  <2> QED BY <1>1, <2>1, <2>2, OneStart
<1>4. CASE JudgeNames(s)
  <2> USE <1>4 DEF JudgeNames
  <2>1. CASE Admits(sidecar[s].saw, renamed)
    <3>1. /\ sidecar'[s] = [sidecar[s] EXCEPT !.at = "judged"]
          /\ sidecar' = [sidecar EXCEPT ![s] = sidecar'[s]]
      BY <2>1 DEF At, SchemaTypes
    <3>2. sidecar'[s] \in Start /\ sidecar'[s].at = "judged" /\ sidecar'[s].saw = sidecar[s].saw
      BY <1>1, <3>1 DEF Start, Places
    <3>3. /\ sidecar[s].saw.legacy = {} /\ sidecar[s].saw.modules = Required
          /\ renamed = Range(Identifiers) /\ "budget" \in sidecar[s].saw.neutral
      BY <2>1 DEF Admits, Tables
    <3>4. SeenHolds(sidecar[s].saw) /\ Ready
      BY <1>1, <3>3 DEF Starting, SeenHolds, Ready, SchemaTypes
    <3>5. Starting(s)'
      BY <3>2, <3>3, <3>4 DEF Starting, SeenHolds, Ready, database
    <3> QED BY <1>1, <3>1, <3>2, <3>5, OneStart
  <2>2. CASE ~Admits(sidecar[s].saw, renamed)
    <3>1. Leave(s, "refused")
      BY <2>2
    <3>2. /\ sidecar' = [sidecar EXCEPT ![s] = sidecar'[s]]
          /\ sidecar'[s] \in Start /\ sidecar'[s].at = "refused"
      BY <1>2, <3>1 DEF Places
    <3>3. Starting(s)'
      BY <3>2 DEF Starting
    <3> QED BY <1>1, <3>2, <3>3, OneStart
  <2> QED BY <2>1, <2>2
<1>5. CASE JudgeShapes(s)
  <2> USE <1>5 DEF JudgeShapes
  <2>1. CASE Canonical(sidecar[s].saw.neutral)
    <3>1. /\ sidecar' = [sidecar EXCEPT ![s] = sidecar'[s]]
          /\ sidecar'[s] \in Start /\ sidecar'[s].at = "creating"
      BY <1>2, <2>1 DEF Places
    <3>2. Ready /\ "budget" \in neutral /\ odd \subseteq sidecar[s].saw.neutral
      BY <1>1 DEF Starting, SeenHolds
    <3>3. odd = {}
      BY <2>1, <3>2 DEF Canonical
    <3>4. Starting(s)'
      BY <3>1, <3>2, <3>3 DEF Starting, Ready, database
    <3> QED BY <1>1, <3>1, <3>4, OneStart
  <2>2. CASE ~Canonical(sidecar[s].saw.neutral)
    <3>1. /\ sidecar' = [sidecar EXCEPT ![s] = sidecar'[s]]
          /\ sidecar'[s] \in Start /\ sidecar'[s].at = "refused"
      BY <1>2, <2>2 DEF Places
    <3>2. Starting(s)'
      BY <3>1 DEF Starting
    <3> QED BY <1>1, <3>1, <3>2, OneStart
  <2> QED BY <2>1, <2>2
<1>6. CASE CreateTable(s)
  <2> USE <1>6 DEF CreateTable
  <2>1. OwnedTables[sidecar[s].next] \in Tables
    BY DEF Tables, Owned, Range
  <2> DEFINE further == [sidecar[s] EXCEPT !.next = @ + 1]
  <2>a. sidecar' = [sidecar EXCEPT ![s] = further]
    OBVIOUS
  <2>b. sidecar'[s] = further
    BY <2>a DEF SchemaTypes
  <2>2. /\ sidecar'[s] = [sidecar[s] EXCEPT !.next = @ + 1]
        /\ sidecar' = [sidecar EXCEPT ![s] = sidecar'[s]]
    <3> HIDE DEF further
    <3>1. sidecar' = [sidecar EXCEPT ![s] = sidecar'[s]]
      BY <2>a, <2>b
    <3> QED BY <2>b, <3>1 DEF further
  <2>3. sidecar'[s] \in Start /\ sidecar'[s].at = "creating"
    BY <1>1, <2>2, Lengths DEF Start
  <2>4. SchemaTypes'
    BY <2>1, <2>2, <2>3 DEF SchemaTypes
  <2>5. Migrating'
    <3>1. "purge" \in modules
      BY <1>1 DEF Starting, Ready, Required
    <3> QED BY <3>1 DEF Migrating
  <2>6. ASSUME NEW r \in Sidecars PROVE Starting(r)'
    <3>1. Starting(r)
      OBVIOUS
    <3>2. neutral \subseteq neutral' /\ (neutral = Tables => neutral' = Tables)
      BY <2>1
    <3>3. /\ sidecar'[r].at = sidecar[r].at /\ sidecar'[r].saw = sidecar[r].saw
      BY <1>1, <2>2 DEF SchemaTypes, Start
    <3> QED BY <3>1, <3>2, <3>3 DEF Starting, SeenHolds, Ready
  <2> QED BY <2>4, <2>5, <2>6
<1>7. CASE Serve(s)
  <2> USE <1>7 DEF Serve
  <2>1. CASE Tables \subseteq neutral /\ Canonical(Tables)
    <3>1. /\ sidecar' = [sidecar EXCEPT ![s] = sidecar'[s]]
          /\ sidecar'[s] \in Start /\ sidecar'[s].at = "serving"
      BY <1>2, <2>1 DEF Places
    <3>2. Starting(s)'
      BY <1>1, <2>1, <3>1 DEF Starting, Ready, SchemaTypes, database
    <3> QED BY <1>1, <3>1, <3>2, OneStart
  <2>2. CASE ~(Tables \subseteq neutral /\ Canonical(Tables))
    <3>1. /\ sidecar' = [sidecar EXCEPT ![s] = sidecar'[s]]
          /\ sidecar'[s] \in Start /\ sidecar'[s].at = "refused"
      BY <1>2, <2>2 DEF Places
    <3>2. Starting(s)'
      BY <3>1 DEF Starting
    <3> QED BY <1>1, <3>1, <3>2, OneStart
  <2> QED BY <2>1, <2>2
<1> QED BY <1>3, <1>4, <1>5, <1>6, <1>7 DEF StartStep

\* A sidecar that is cut off leaves what it committed, and forgets what it has seen.
LEMMA SidecarCutKeeps == ASSUME SchemaInv, NEW s \in Sidecars, SidecarCut(s) PROVE SchemaInv'
<1> USE DEF SidecarCut, SchemaInv
<1>1. /\ sidecar' = [sidecar EXCEPT ![s] = sidecar'[s]]
      /\ sidecar'[s] \in Start /\ sidecar'[s].at = "down"
  BY Lengths DEF Leave, SchemaTypes, Start, Seen, NothingSeen, Places
<1>2. Starting(s)'
  BY <1>1 DEF Starting
<1>3. cut' \in BOOLEAN /\ faults' \in 0 .. MaxFaults
  BY Lengths DEF SchemaTypes
<1> QED BY <1>1, <1>2, <1>3, OneStart

\* Every step of the purge is one of the schema, or leaves all of it but the faults alone.
LEMMA SchemaSteps == SchemaInv /\ [PurgeNext]_allVars => SchemaInv'
<1> SUFFICES ASSUME SchemaInv, [PurgeNext]_allVars PROVE SchemaInv'
    OBVIOUS
<1>1. ASSUME UNCHANGED <<database, updater, sidecar, cut>>, faults' \in 0 .. MaxFaults PROVE SchemaInv'
  <2>1. SchemaTypes' /\ Migrating'
    BY <1>1 DEF SchemaInv, SchemaTypes, Migrating, database
  <2>2. \A s \in Sidecars : Starting(s)'
    BY <1>1 DEF SchemaInv, Starting, SeenHolds, Ready, database
  <2> QED BY <2>1, <2>2 DEF SchemaInv
<1>2. faults \in 0 .. MaxFaults /\ (faults < MaxFaults => faults + 1 \in 0 .. MaxFaults)
  BY Lengths DEF SchemaInv, SchemaTypes
<1>3. CASE MigrationStep
  BY <1>3, MigrationKeeps
<1>4. CASE UpdaterCut
  BY <1>4, UpdaterCutKeeps
<1>5. CASE \E s \in Sidecars : StartStep(s) \/ Crash(s)
  BY <1>5, StartStepKeeps, SidecarCutKeeps DEF Crash
<1>6. CASE Prepare \/ InsertsDone \/ Report
  BY <1>1, <1>2, <1>6 DEF Prepare, InsertsDone, Report, schemaVars
<1>7. CASE \E b \in Bots : Insert(b) \/ Check(b)
  BY <1>1, <1>2, <1>7 DEF Insert, Check
<1>8. ASSUME NEW s \in Sidecars, TakeLock(s) \/ PurgeStep(s) \/ PurgeFails(s) PROVE SchemaInv'
  BY <1>1, <1>2, <1>8
     DEF TakeLock, PurgeStep, BeginPurge, SelectPending, DeleteRows, Acknowledge, PurgeFails, schemaVars
<1>9. ASSUME NEW s \in Sidecars, NEW b \in Bots, NEW t \in BotTables, Write(s, b, t) PROVE SchemaInv'
  BY <1>1, <1>2, <1>9 DEF Write, schemaVars
<1>10. CASE UNCHANGED allVars
  BY <1>1, <1>2, <1>10 DEF allVars, schemaVars
<1> QED BY <1>3, <1>4, <1>5, <1>6, <1>7, <1>8, <1>9, <1>10 DEF PurgeNext

\* The invariant of the start, under the purge as well.
LEMMA SchemaInvariant == PurgeSpec => []SchemaInv
<1>1. PurgeInit => SchemaInv
  BY SchemaStarts DEF PurgeInit
<1>2. SchemaInv /\ [PurgeNext]_allVars => SchemaInv'
  BY SchemaSteps
<1> QED BY <1>1, <1>2, PTL DEF PurgeSpec

\* A sidecar serves only from the whole of a migrated schema, however many start, and
\* whoever is interrupted in what.
THEOREM WholeSchemaIsServed == PurgeSpec => []ServesTheWholeSchema
<1>1. SchemaInv => ServesTheWholeSchema
  BY DEF SchemaInv, Starting, Ready, ServesTheWholeSchema, Serving, Migrated, Canonical
<1> QED BY <1>1, SchemaInvariant, PTL

\* A table is created only in a migrated and canonical database.
THEOREM CreatedWhereMigrated == PurgeSpec => CreatesOnlyWhereMigrated
<1>1. SchemaInv /\ [PurgeNext]_allVars
        => [legacy' = legacy /\ neutral' # neutral => Migrated /\ Canonical(neutral)]_schemaVars
  <2> SUFFICES ASSUME SchemaInv, [PurgeNext]_allVars, legacy' = legacy, neutral' # neutral
               PROVE  Migrated /\ Canonical(neutral)
      OBVIOUS
  <2>1. CASE RenameTables
    BY <2>1 DEF RenameTables, SchemaInv, Migrating
  <2>2. ASSUME NEW s \in Sidecars, CreateTable(s) PROVE Migrated /\ Canonical(neutral)
    <3>1. Ready /\ "budget" \in neutral /\ odd = {}
      BY <2>2 DEF CreateTable, SchemaInv, Starting
    <3> QED BY <3>1 DEF Ready, Migrated, Canonical
  <2>3. CASE \/ Preflight \/ RenameIdentifier \/ Applied \/ PurgeRevision \/ SocialRevision \/ UpdaterCut
    BY <2>3 DEF Preflight, RenameIdentifier, Applied, PurgeRevision, SocialRevision, UpdaterCut, database
  <2>4. ASSUME NEW s \in Sidecars, ListTables(s) \/ JudgeNames(s) \/ JudgeShapes(s) \/ Serve(s) \/ Crash(s)
        PROVE  FALSE
    BY <2>4 DEF ListTables, JudgeNames, JudgeShapes, Serve, Crash, SidecarCut, database
  <2>5. CASE Prepare \/ InsertsDone \/ Report \/ \E b \in Bots : Insert(b) \/ Check(b)
    BY <2>5 DEF Prepare, InsertsDone, Report, Insert, Check, schemaVars, database
  <2>6. ASSUME NEW s \in Sidecars, TakeLock(s) \/ PurgeStep(s) \/ PurgeFails(s) PROVE FALSE
    BY <2>6 DEF TakeLock, PurgeStep, BeginPurge, SelectPending, DeleteRows, Acknowledge, PurgeFails,
                schemaVars, database
  <2>7. ASSUME NEW s \in Sidecars, NEW b \in Bots, NEW t \in BotTables, Write(s, b, t) PROVE FALSE
    BY <2>7 DEF Write, schemaVars, database
  <2>8. CASE UNCHANGED allVars
    BY <2>8 DEF allVars, schemaVars, database
  <2> QED BY <2>1, <2>2, <2>3, <2>4, <2>5, <2>6, <2>7, <2>8 DEF PurgeNext, MigrationStep, StartStep
<1> QED BY <1>1, SchemaInvariant, PTL DEF PurgeSpec, CreatesOnlyWhereMigrated

-----------------------------------------------------------------------------
(* The invariant of the purge. *)

Purge == [at : {"idle", "begin", "locked", "deleting"}, bot : Bots \cup {NoBot}, todo : SUBSET BotTables]

PurgeTypes ==
  /\ intents \in [Bots -> {"none", "pending", "acked"}]
  /\ rows \in [Bots -> [BotTables -> {"none", "new", "old"}]]
  /\ publisher \in [at : {"idle", "inserting", "checking", "true", "false"},
                    cohort : SUBSET Bots, todo : SUBSET Bots, failed : BOOLEAN]
  /\ rounds \in 0 .. MaxRounds
  /\ purger \in [Sidecars -> Purge]

\* A purge runs where a sidecar serves; it has a bot while it deletes.
Purging(s) ==
  /\ purger[s].at # "idle" => Serving(s)
  /\ (purger[s].at = "deleting") = (purger[s].bot # NoBot)

Holds(s) == purger[s].at \in {"locked", "deleting"}
OnePurge == \A s, r \in Sidecars : Holds(s) /\ Holds(r) => s = r

PurgerInv == PurgeTypes /\ (\A s \in Sidecars : Purging(s)) /\ OnePurge

\* A bot whose purge is asked for, or done.
SeenTo(b) == b \in Pending \/ Cleared(b)

\* What the publisher has found so far.  An insert may fail, and is checked; when none has
\* failed, a bot that is no longer pending is purged.
Publishing ==
  /\ publisher.at = "inserting" /\ ~publisher.failed =>
       \A b \in publisher.cohort \ publisher.todo : SeenTo(b)
  /\ publisher.at = "checking" =>
       /\ \A b \in publisher.cohort \ publisher.todo : SeenTo(b)
       /\ ~publisher.failed => \A b \in publisher.cohort : SeenTo(b)
       /\ publisher.todo \subseteq publisher.cohort
  /\ VerifiedIsPurged
  /\ RefusalMeansPurged

\* At first no bot is to be purged.
LEMMA PurgeStarts == PurgeInit => PurgerInv /\ Publishing
<1> SUFFICES ASSUME PurgeInit PROVE PurgerInv /\ Publishing
    OBVIOUS
<1> USE DEF PurgeInit
<1>1. PurgeTypes
  BY PurgeAssumption DEF PurgeTypes, Purge, Idle
<1>2. (\A s \in Sidecars : Purging(s)) /\ OnePurge
  BY DEF Purging, OnePurge, Holds, Idle
<1>3. Publishing
  BY DEF Publishing, VerifiedIsPurged, RefusalMeansPurged
<1> QED BY <1>1, <1>2, <1>3 DEF PurgerInv

\* Steps that are none of a purge keep the sidecars that serve serving.
LEMMA ServingStays ==
  ASSUME SchemaInv, UNCHANGED purger, \A s \in Sidecars : Serving(s) => Serving(s)', PurgerInv
  PROVE  (\A s \in Sidecars : Purging(s)') /\ OnePurge'
BY DEF PurgerInv, Purging, OnePurge, Holds

\* A step of one purge.
LEMMA PurgerMoves ==
  ASSUME PurgerInv, UNCHANGED sidecar, NEW s \in Sidecars, NEW p \in Purge,
         purger' = [purger EXCEPT ![s] = p],
         p.at # "idle" => Serving(s),
         (p.at = "deleting") = (p.bot # NoBot),
         p.at \in {"locked", "deleting"} => Holds(s) \/ LockFree
  PROVE  purger' \in [Sidecars -> Purge] /\ (\A r \in Sidecars : Purging(r)') /\ OnePurge'
<1>1. /\ purger' \in [Sidecars -> Purge]
      /\ purger'[s] = p
      /\ \A r \in Sidecars \ {s} : purger'[r] = purger[r]
  BY DEF PurgerInv, PurgeTypes
<1>2. \A r \in Sidecars : Serving(r)' <=> Serving(r)
  BY DEF Serving
<1>3. ASSUME NEW r \in Sidecars PROVE Purging(r)'
  <2>1. CASE r = s
    <3>1. purger'[r].at # "idle" => Serving(r)'
      BY <1>1, <1>2, <2>1
    <3>2. (purger'[r].at = "deleting") = (purger'[r].bot # NoBot)
      BY <1>1, <2>1
    <3> QED BY <3>1, <3>2 DEF Purging
  <2>2. CASE r # s
    <3>1. purger'[r] = purger[r] /\ Purging(r)
      BY <1>1, <2>2 DEF PurgerInv
    <3> QED BY <1>2, <3>1 DEF Purging
  <2> QED BY <2>1, <2>2
<1>4. ASSUME NEW q \in Sidecars, NEW r \in Sidecars, Holds(q)', Holds(r)' PROVE q = r
  <2>1. \A x \in Sidecars \ {s} : Holds(x)' <=> Holds(x)
    BY <1>1 DEF Holds
  <2>2. Holds(s)' => \A x \in Sidecars \ {s} : ~Holds(x)
    BY <1>1 DEF Holds, LockFree, PurgerInv, OnePurge
  <2>3. \A x, y \in Sidecars : Holds(x) /\ Holds(y) => x = y
    BY DEF PurgerInv, OnePurge
  <2> QED BY <1>4, <2>1, <2>2, <2>3
<1> QED BY <1>1, <1>3, <1>4 DEF OnePurge

\* Every step keeps the named lock with one purge, and locks the rows of its bot alone.
LEMMA PurgerSteps == SchemaInv /\ PurgerInv /\ [PurgeNext]_allVars => PurgerInv'
<1> SUFFICES ASSUME SchemaInv, PurgerInv, [PurgeNext]_allVars PROVE PurgerInv'
    OBVIOUS
<1>1. CASE MigrationStep /\ UNCHANGED purgeVars
  <2>1. UNCHANGED sidecar
    BY <1>1 DEF MigrationStep, Preflight, RenameTables, RenameIdentifier, Applied, PurgeRevision,
                SocialRevision
  <2> QED BY <1>1, <2>1 DEF PurgerInv, PurgeTypes, Purging, OnePurge, Holds, Serving, purgeVars
<1>2. CASE UNCHANGED <<sidecar, purgeVars>>
  BY <1>2 DEF PurgerInv, PurgeTypes, Purging, OnePurge, Holds, Serving, purgeVars
<1>3. ASSUME NEW s \in Sidecars, StartStep(s) /\ UNCHANGED purgeVars PROVE PurgerInv'
  <2>1. ~Serving(s)
    BY <1>3 DEF StartStep, ListTables, JudgeNames, JudgeShapes, CreateTable, Serve, Serving
  <2>2. \A r \in Sidecars \ {s} : sidecar'[r] = sidecar[r]
    BY <1>3 DEF StartStep, ListTables, JudgeNames, JudgeShapes, CreateTable, Serve, Leave, At,
                SchemaInv, SchemaTypes
  <2>3. \A r \in Sidecars : Serving(r) => Serving(r)'
    BY <2>1, <2>2 DEF Serving
  <2>4. UNCHANGED <<intents, rows, publisher, rounds, purger>>
    BY <1>3 DEF purgeVars
  <2>5. (\A r \in Sidecars : Purging(r)') /\ OnePurge'
    BY <2>3, <2>4, ServingStays
  <2> QED BY <2>4, <2>5 DEF PurgerInv, PurgeTypes
<1>4. ASSUME NEW s \in Sidecars, Crash(s) PROVE PurgerInv'
  <2> USE <1>4 DEF Crash, SidecarCut
  <2>1. /\ purger'[s] = Idle /\ purger' \in [Sidecars -> Purge]
        /\ \A r \in Sidecars \ {s} : purger'[r] = purger[r] /\ sidecar'[r] = sidecar[r]
    BY DEF PurgerInv, PurgeTypes, Purge, Idle, Leave, SchemaInv, SchemaTypes
  <2>2. \A r \in Sidecars : Purging(r)'
    BY <2>1 DEF PurgerInv, Purging, Serving, Idle
  <2>3. \A r \in Sidecars : Holds(r)' => Holds(r)
    BY <2>1 DEF Holds, Idle
  <2>4. OnePurge'
    BY <2>3 DEF PurgerInv, OnePurge
  <2> QED BY <2>1, <2>2, <2>4 DEF PurgerInv, PurgeTypes
<1>5. ASSUME UNCHANGED <<sidecar, purger>>,
             /\ intents' \in [Bots -> {"none", "pending", "acked"}]
             /\ rows' \in [Bots -> [BotTables -> {"none", "new", "old"}]]
             /\ publisher' \in [at : {"idle", "inserting", "checking", "true", "false"},
                                cohort : SUBSET Bots, todo : SUBSET Bots, failed : BOOLEAN]
             /\ rounds' \in 0 .. MaxRounds
      PROVE  PurgerInv'
  BY <1>5 DEF PurgerInv, PurgeTypes, Purging, OnePurge, Holds, Serving
<1>6. CASE Prepare
  <2> USE <1>6 DEF Prepare, schemaVars
  <2>1. /\ intents' \in [Bots -> {"none", "pending", "acked"}] /\ rounds' \in 0 .. MaxRounds
    BY PurgeAssumption DEF PurgerInv, PurgeTypes
  <2>2. rows' \in [Bots -> [BotTables -> {"none", "new", "old"}]]
    BY DEF PurgerInv, PurgeTypes
  <2>3. publisher' \in [at : {"idle", "inserting", "checking", "true", "false"},
                        cohort : SUBSET Bots, todo : SUBSET Bots, failed : BOOLEAN]
    OBVIOUS
  <2> QED BY <1>5, <2>1, <2>2, <2>3
<1>7. ASSUME NEW b \in Bots, Insert(b) \/ Check(b) PROVE PurgerInv'
  <2>1. publisher' \in [at : {"idle", "inserting", "checking", "true", "false"},
                        cohort : SUBSET Bots, todo : SUBSET Bots, failed : BOOLEAN]
    BY <1>7 DEF Insert, Check, PurgerInv, PurgeTypes
  <2>2. intents' \in [Bots -> {"none", "pending", "acked"}]
    BY <1>7 DEF Insert, Check, Upserted, PurgerInv, PurgeTypes
  <2> QED BY <1>5, <1>7, <2>1, <2>2 DEF Insert, Check, PurgerInv, PurgeTypes
<1>8. CASE InsertsDone \/ Report
  <2>1. publisher' \in [at : {"idle", "inserting", "checking", "true", "false"},
                        cohort : SUBSET Bots, todo : SUBSET Bots, failed : BOOLEAN]
    BY <1>8 DEF InsertsDone, Report, PurgerInv, PurgeTypes
  <2> QED BY <1>5, <1>8, <2>1 DEF InsertsDone, Report, schemaVars, PurgerInv, PurgeTypes
<1>9. ASSUME NEW s \in Sidecars, NEW b \in Bots, NEW t \in BotTables, Write(s, b, t) PROVE PurgerInv'
  <2>1. rows' \in [Bots -> [BotTables -> {"none", "new", "old"}]]
    BY <1>9 DEF Write, PurgerInv, PurgeTypes
  <2> QED BY <1>5, <1>9, <2>1 DEF Write, schemaVars, PurgerInv, PurgeTypes

<1>10. ASSUME NEW s \in Sidecars, TakeLock(s) \/ PurgeStep(s) \/ PurgeFails(s) PROVE PurgerInv'
  <2>1. /\ purger[s] \in Purge /\ Purging(s)
        /\ UNCHANGED <<sidecar, publisher, rounds>>
    BY <1>10 DEF TakeLock, PurgeStep, BeginPurge, SelectPending, DeleteRows, Acknowledge, PurgeFails,
                 schemaVars, PurgerInv, PurgeTypes
  <2>2. /\ intents' \in [Bots -> {"none", "pending", "acked"}]
        /\ rows' \in [Bots -> [BotTables -> {"none", "new", "old"}]]
    BY <1>10 DEF TakeLock, PurgeStep, BeginPurge, SelectPending, DeleteRows, Acknowledge, PurgeFails,
                 PurgerInv, PurgeTypes
  <2>3. ASSUME NEW p \in Purge, purger' = [purger EXCEPT ![s] = p],
               p.at # "idle" => Serving(s),
               (p.at = "deleting") = (p.bot # NoBot),
               p.at \in {"locked", "deleting"} => Holds(s) \/ LockFree
        PROVE  PurgerInv'
    BY <2>1, <2>2, <2>3, PurgerMoves DEF PurgerInv, PurgeTypes
  <2>4. CASE TakeLock(s)
    <3> DEFINE p == [purger[s] EXCEPT !.at = "begin"]
    <3>1. purger' = [purger EXCEPT ![s] = p]
      BY <2>4 DEF TakeLock, PurgerInv, PurgeTypes
    <3>2. p \in Purge /\ p.at = "begin" /\ p.bot = purger[s].bot
      BY <2>1 DEF Purge
    <3>3. Serving(s) /\ purger[s].at = "idle"
      BY <2>4 DEF TakeLock
    <3> HIDE DEF p
    <3>4. (p.at = "deleting") = (p.bot # NoBot)
      BY <2>1, <3>2, <3>3 DEF Purging
    <3> QED BY <2>3, <3>1, <3>2, <3>3, <3>4
  <2>5. CASE BeginPurge(s)
    <3> DEFINE p == [purger[s] EXCEPT !.at = "locked"]
    <3>1. purger' = [purger EXCEPT ![s] = p]
      BY <2>5 DEF BeginPurge, PurgerInv, PurgeTypes
    <3>2. p \in Purge /\ p.at = "locked" /\ p.bot = purger[s].bot
      BY <2>1 DEF Purge
    <3>3. Serving(s) /\ purger[s].at = "begin" /\ LockFree
      BY <2>1, <2>5 DEF BeginPurge, Purging
    <3> HIDE DEF p
    <3>4. (p.at = "deleting") = (p.bot # NoBot)
      BY <2>1, <3>2, <3>3 DEF Purging
    <3> QED BY <2>3, <3>1, <3>2, <3>3, <3>4
  <2>6. CASE SelectPending(s)
    <3>1. CASE purger' = [purger EXCEPT ![s] = Idle]
      <4>1. Idle \in Purge /\ Idle.at = "idle" /\ Idle.bot = NoBot
        BY DEF Idle, Purge
      <4> QED BY <2>3, <3>1, <4>1
    <3>2. ASSUME NEW b \in Pending,
                 purger' = [purger EXCEPT ![s] = [at |-> "deleting", bot |-> b, todo |-> BotTables]]
          PROVE  PurgerInv'
      <4> DEFINE p == [at |-> "deleting", bot |-> b, todo |-> BotTables]
      <4>1. p \in Purge /\ p.at = "deleting" /\ p.bot # NoBot
        BY PurgeAssumption DEF Purge, Pending
      <4>2. Serving(s) /\ Holds(s)
        BY <2>1, <2>6 DEF SelectPending, Purging, Holds
      <4>3. purger' = [purger EXCEPT ![s] = p]
        BY <3>2
      <4> HIDE DEF p
      <4> QED BY <2>3, <4>1, <4>2, <4>3
    <3> QED BY <2>6, <3>1, <3>2 DEF SelectPending
  <2>7. ASSUME NEW t \in BotTables, DeleteRows(s, t) PROVE PurgerInv'
    <3> DEFINE p == [purger[s] EXCEPT !.todo = @ \ {t}]
    <3>1. purger' = [purger EXCEPT ![s] = p]
      BY <2>7 DEF DeleteRows, PurgerInv, PurgeTypes
    <3>2. p \in Purge /\ p.at = purger[s].at /\ p.bot = purger[s].bot
      BY <2>1 DEF Purge
    <3>3. purger[s].at = "deleting"
      BY <2>7 DEF DeleteRows
    <3> HIDE DEF p
    <3>4. Serving(s) /\ Holds(s)
      BY <2>1, <3>3 DEF Purging, Holds
    <3>5. (p.at = "deleting") = (p.bot # NoBot)
      BY <2>1, <3>2 DEF Purging
    <3> QED BY <2>3, <3>1, <3>2, <3>4, <3>5
  <2>8. CASE Acknowledge(s)
    <3> DEFINE p == [Idle EXCEPT !.at = "begin"]
    <3>1. p \in Purge /\ p.at = "begin" /\ p.bot = NoBot
      BY DEF Purge, Idle
    <3>2. Serving(s) /\ purger' = [purger EXCEPT ![s] = p]
      BY <2>1, <2>8 DEF Acknowledge, Purging
    <3> HIDE DEF p
    <3> QED BY <2>3, <3>1, <3>2
  <2>9. CASE PurgeFails(s)
    <3>1. Idle \in Purge /\ Idle.at = "idle" /\ Idle.bot = NoBot
      BY DEF Idle, Purge
    <3> QED BY <2>3, <2>9, <3>1 DEF PurgeFails
  <2> QED BY <1>10, <2>4, <2>5, <2>6, <2>7, <2>8, <2>9 DEF PurgeStep
<1>11. CASE UpdaterCut /\ UNCHANGED purgeVars
  BY <1>2, <1>11 DEF UpdaterCut
<1>12. CASE UNCHANGED allVars
  BY <1>2, <1>12 DEF allVars, schemaVars
<1> QED BY <1>1, <1>3, <1>4, <1>6, <1>7, <1>8, <1>9, <1>10, <1>11, <1>12 DEF PurgeNext

\* A step that leaves the publisher alone and undoes no purge.
LEMMA NothingUndone ==
  ASSUME PurgerInv, Publishing, UNCHANGED publisher,
         \A b \in Bots : SeenTo(b) => SeenTo(b)',
         \A b \in Bots : b \notin Pending /\ Cleared(b) => b \notin Pending' /\ Cleared(b)'
  PROVE  Publishing'
<1>1. publisher.cohort \subseteq Bots
  BY DEF PurgerInv, PurgeTypes
<1>2. VerifiedIsPurged'
  BY <1>1 DEF Publishing, VerifiedIsPurged, SeenTo
<1>3. RefusalMeansPurged'
  BY <1>1 DEF Publishing, RefusalMeansPurged
<1> QED BY <1>1, <1>2, <1>3 DEF Publishing

\* Every step keeps what the publisher has found of a cohort true.
LEMMA PublishingSteps == PurgerInv /\ Publishing /\ [PurgeNext]_allVars => Publishing'
<1> SUFFICES ASSUME PurgerInv, Publishing, [PurgeNext]_allVars PROVE Publishing'
    OBVIOUS
<1>1. /\ publisher.cohort \subseteq Bots /\ publisher.todo \subseteq Bots
      /\ publisher.failed \in BOOLEAN
  BY DEF PurgerInv, PurgeTypes
<1>2. CASE UNCHANGED <<intents, rows, publisher>>
  <2>1. \A b : SeenTo(b)' <=> SeenTo(b)
    BY <1>2 DEF SeenTo, Pending, Cleared
  <2>2. VerifiedIsPurged' /\ RefusalMeansPurged'
    BY <1>2 DEF Publishing, VerifiedIsPurged, RefusalMeansPurged, Pending, Cleared
  <2> QED BY <1>2, <2>1, <2>2 DEF Publishing
<1>3. CASE Prepare
  <2>1. /\ publisher'.at = "inserting" /\ publisher'.cohort = publisher'.todo
    BY <1>3 DEF Prepare
  <2> QED BY <2>1 DEF Publishing, VerifiedIsPurged, RefusalMeansPurged
<1>4. ASSUME NEW b \in Bots, Insert(b) PROVE Publishing'
  <2> USE <1>4 DEF Insert
  <2>1. /\ publisher'.at = "inserting" /\ publisher'.cohort = publisher.cohort
        /\ publisher'.todo = publisher.todo \ {b}
        /\ publisher.failed => publisher'.failed
        /\ ~publisher'.failed => intents' = Upserted(b)
        /\ intents' \in {intents, Upserted(b)} /\ UNCHANGED rows
    BY DEF PurgerInv, PurgeTypes
  <2>2. ASSUME intents' = Upserted(b), NEW c \in Bots
        PROVE  (c = b => SeenTo(c)') /\ (SeenTo(c) => SeenTo(c)')
    <3>1. Upserted(b)[c] = IF c = b THEN "pending" ELSE intents[c]
      BY DEF Upserted, PurgerInv, PurgeTypes
    <3> QED BY <2>1, <2>2, <3>1 DEF SeenTo, Pending, Cleared
  <2>3. ~publisher'.failed => \A c \in publisher'.cohort \ publisher'.todo : SeenTo(c)'
    BY <1>1, <2>1, <2>2 DEF Publishing
  <2> QED BY <2>1, <2>3 DEF Publishing, VerifiedIsPurged, RefusalMeansPurged
<1>5. CASE InsertsDone
  <2> USE <1>5 DEF InsertsDone
  <2>1. /\ publisher'.at = "checking" /\ publisher'.cohort = publisher.cohort
        /\ publisher'.todo = publisher.cohort /\ publisher'.failed = publisher.failed
        /\ publisher.todo = {}
    BY DEF PurgerInv, PurgeTypes
  <2>2. \A c : SeenTo(c)' <=> SeenTo(c)
    BY DEF SeenTo, Pending, Cleared
  <2>3. ~publisher'.failed => \A c \in publisher'.cohort : SeenTo(c)'
    BY <2>1, <2>2 DEF Publishing
  <2> QED BY <2>1, <2>3 DEF Publishing, VerifiedIsPurged, RefusalMeansPurged
<1>6. ASSUME NEW b \in Bots, Check(b) PROVE Publishing'
  <2> USE <1>6 DEF Check
  <2>1. \A c : (SeenTo(c)' <=> SeenTo(c)) /\ (Cleared(c)' <=> Cleared(c)) /\ Pending' = Pending
    BY DEF SeenTo, Pending, Cleared
  <2>2. /\ publisher.at = "checking" /\ b \in publisher.todo /\ b \in publisher.cohort
    BY DEF Publishing
  <2>3. CASE Counted(b) /\ publisher' = [publisher EXCEPT !.todo = @ \ {b}]
    <3>1. /\ publisher'.at = "checking" /\ publisher'.cohort = publisher.cohort
          /\ publisher'.todo = publisher.todo \ {b} /\ publisher'.failed = publisher.failed
      BY <2>2, <2>3 DEF PurgerInv, PurgeTypes
    <3>2. SeenTo(b)
      BY <2>3 DEF SeenTo, Pending, Counted
    <3> QED BY <2>1, <2>2, <3>1, <3>2 DEF Publishing, VerifiedIsPurged, RefusalMeansPurged
  <2>4. CASE ~Counted(b) /\ publisher' = [publisher EXCEPT !.at = "false"]
    <3>1. /\ publisher'.at = "false" /\ publisher'.cohort = publisher.cohort
          /\ publisher'.failed = publisher.failed
      BY <2>4 DEF PurgerInv, PurgeTypes
    <3>2. b \notin Pending
      BY <2>4 DEF Pending, Counted
    <3>3. ~publisher.failed => Cleared(b)
      BY <2>2, <3>2 DEF Publishing, SeenTo
    <3>4. RefusalMeansPurged'
      BY <2>1, <2>2, <3>1, <3>2, <3>3 DEF RefusalMeansPurged
    <3> QED BY <3>1, <3>4 DEF Publishing, VerifiedIsPurged
  <2>5. CASE publisher' = [publisher EXCEPT !.at = "false", !.failed = TRUE]
    <3>1. publisher'.at = "false" /\ publisher'.failed
      BY <2>5 DEF PurgerInv, PurgeTypes
    <3> QED BY <3>1 DEF Publishing, VerifiedIsPurged, RefusalMeansPurged
  <2> QED BY <2>3, <2>4, <2>5
<1>7. CASE Report
  <2> USE <1>7 DEF Report
  <2>1. /\ publisher.at = "checking" /\ publisher.todo = {} /\ publisher'.at = "true"
        /\ publisher'.cohort = publisher.cohort
    BY DEF PurgerInv, PurgeTypes
  <2>2. \A c \in publisher.cohort : SeenTo(c)
    BY <2>1 DEF Publishing
  <2>3. \A c : SeenTo(c)' <=> SeenTo(c)
    BY DEF SeenTo, Pending, Cleared
  <2>4. VerifiedIsPurged'
    BY <2>1, <2>2, <2>3 DEF VerifiedIsPurged, SeenTo
  <2> QED BY <2>1, <2>4 DEF Publishing, RefusalMeansPurged
<1>8. ASSUME NEW s \in Sidecars, Acknowledge(s) PROVE Publishing'
  <2> USE <1>8 DEF Acknowledge
  <2>1. ASSUME NEW b \in Bots
        PROVE  \/ intents'[b] = intents[b] /\ rows'[b] = rows[b]
               \/ intents'[b] = "acked" /\ rows'[b] = [t \in BotTables |-> "none"]
    BY DEF PurgerInv, PurgeTypes
  <2>2. ASSUME NEW b \in Bots
        PROVE  /\ SeenTo(b) => SeenTo(b)'
               /\ b \notin Pending /\ Cleared(b) => b \notin Pending' /\ Cleared(b)'
    <3>1. CASE intents'[b] = intents[b] /\ rows'[b] = rows[b]
      BY <3>1 DEF SeenTo, Pending, Cleared
    <3>2. CASE intents'[b] = "acked" /\ rows'[b] = [t \in BotTables |-> "none"]
      BY <3>2 DEF SeenTo, Pending, Cleared
    <3> QED BY <2>1, <3>1, <3>2
  <2> QED BY <2>2, NothingUndone
<1>9. ASSUME NEW s \in Sidecars, NEW b \in Bots, NEW t \in BotTables, Write(s, b, t) PROVE Publishing'
  <2> USE <1>9 DEF Write
  <2>1. ASSUME NEW c \in Bots, NEW u \in BotTables
        PROVE  rows'[c][u] = "old" => rows[c][u] = "old"
    BY DEF PurgerInv, PurgeTypes
  <2>2. \A c \in Bots : Cleared(c) => Cleared(c)'
    BY <2>1 DEF Cleared
  <2>3. Pending' = Pending
    BY DEF Pending
  <2> QED BY <2>2, <2>3, NothingUndone DEF SeenTo
<1>10. ASSUME NEW s \in Sidecars,
              \/ TakeLock(s) \/ BeginPurge(s) \/ SelectPending(s) \/ PurgeFails(s) \/ Crash(s)
              \/ \E t \in BotTables : DeleteRows(s, t)
       PROVE  Publishing'
  BY <1>2, <1>10 DEF TakeLock, BeginPurge, SelectPending, PurgeFails, Crash, DeleteRows
<1> QED BY <1>2, <1>3, <1>4, <1>5, <1>6, <1>7, <1>8, <1>9, <1>10
        DEF PurgeNext, PurgeStep, purgeVars, allVars

\* The invariant of the start, of the purges and of the publisher.
LEMMA PurgeInvariant == PurgeSpec => [](SchemaInv /\ PurgerInv /\ Publishing)
<1>1. PurgeInit => PurgerInv /\ Publishing
  BY PurgeStarts
<1>2. SchemaInv /\ PurgerInv /\ [PurgeNext]_allVars => PurgerInv'
  BY PurgerSteps
<1>3. PurgerInv /\ Publishing /\ [PurgeNext]_allVars => Publishing'
  BY PublishingSteps
<1> QED BY <1>1, <1>2, <1>3, SchemaInvariant, PTL DEF PurgeSpec

-----------------------------------------------------------------------------
(* Theorems. *)

\* Every variable has its type; a purge runs only where a sidecar serves, and however many
\* sidecars there are, one of them at a time has the named lock.
THEOREM PurgeTypeCorrect == PurgeSpec => []PurgeTypeOK
<1>1. SchemaInv /\ PurgerInv => PurgeTypeOK
  <2> SUFFICES ASSUME SchemaInv, PurgerInv PROVE PurgeTypeOK
      OBVIOUS
  <2>1. Cardinality({s \in Sidecars : purger[s].at \in {"locked", "deleting"}}) <= 1
    <3> DEFINE holders == {s \in Sidecars : purger[s].at \in {"locked", "deleting"}}
    <3>1. ASSUME holders = {} PROVE Cardinality(holders) <= 1
      BY <3>1, FS_EmptySet
    <3>2. ASSUME NEW s \in holders PROVE Cardinality(holders) <= 1
      <4>1. holders = {s}
        BY <3>2 DEF PurgerInv, OnePurge, Holds
      <4>2. Cardinality({s}) = 1
        BY FS_Singleton
      <4> HIDE DEF holders
      <4> QED BY <4>1, <4>2
    <3> HIDE DEF holders
    <3>3. Cardinality(holders) <= 1
      BY <3>1, <3>2
    <3> QED BY <3>3 DEF holders
  <2>2. \A s \in Sidecars : sidecar[s] \in Start /\ Purging(s)
    BY DEF SchemaInv, SchemaTypes, PurgerInv
  <2>3. \A s \in Sidecars : /\ sidecar[s].at \in Places
                            /\ sidecar[s].next \in 1 .. Len(OwnedTables) + 1
                            /\ purger[s].at # "idle" => Serving(s)
                            /\ (purger[s].at = "deleting") = (purger[s].bot # NoBot)
    BY <2>2 DEF Start, Purging
  <2> QED BY <2>1, <2>3 DEF PurgeTypeOK, SchemaInv, SchemaTypes, PurgerInv, PurgeTypes
<1> QED BY <1>1, PurgeInvariant, PTL

\* What the worldserver was told is queued for deletion is deleted, or its intent stands.
THEOREM VerifiedAlwaysPurged == PurgeSpec => []VerifiedIsPurged
<1>1. Publishing => VerifiedIsPurged
  BY DEF Publishing
<1> QED BY <1>1, PurgeInvariant, PTL

\* Unless the database failed it, the worldserver is refused only what is purged already.
THEOREM RefusedAlwaysPurged == PurgeSpec => []RefusalMeansPurged
<1>1. Publishing => RefusalMeansPurged
  BY DEF Publishing
<1> QED BY <1>1, PurgeInvariant, PTL
=============================================================================
