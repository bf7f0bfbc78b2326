---------------------------- MODULE SchemaGuard ----------------------------
(***************************************************************************)
(* The start of a sidecar against a database that somebody else migrates:  *)
(* ensure_schema (schema.py) lists the tables, judges them, and only then  *)
(* creates its own, one CREATE TABLE after another, each of which MySQL    *)
(* commits alone.  The migration (2026_08_07_00_playerbot_llm_tables.sql)  *)
(* renames the tables in one statement and the identifiers of the budget   *)
(* tables one after another.  Several sidecars start at once, everybody    *)
(* may be cut off between two statements, and is then started again.       *)
(*                                                                         *)
(* "budget" stands for the two tables of the ledger, which no statement    *)
(* parts.                                                                  *)
(***************************************************************************)
EXTENDS Naturals, Sequences, Functions

CONSTANTS
  Sidecars,
  OwnedTables,  \* SCHEMA_STATEMENTS, in their order
  Identifiers,  \* NEUTRAL_BUDGET_IDENTIFIERS, in the order they are renamed
  MaxFaults     \* bound: how often anything is cut off or fails

ASSUME SchemaAssumption ==
  /\ OwnedTables \in Seq(STRING) /\ OwnedTables # <<>>
  /\ Identifiers \in Seq(STRING)
  /\ "budget" \notin Range(OwnedTables)
  /\ MaxFaults \in Nat

VARIABLES
  legacy, neutral, \* which tables there are under playerbot_claude_ and _llm_
  modules,         \* which tables of other revisions: the control row, the purge
  renamed,         \* the identifiers that have their neutral names
  odd,             \* tables whose columns, indexes or checks are not canonical
  updater,         \* the worldserver's updater, running the migration
  sidecar,         \* each sidecar's start
  cut,             \* history: what is cut off here nothing can finish
  faults

database == <<legacy, neutral, modules, renamed, odd>>
schemaVars == <<database, updater, sidecar, cut, faults>>

Owned == Range(OwnedTables)
Tables == {"budget"} \cup Owned
Required == {"control", "purge"}

\* The columns, indexes and checks of these tables are those of PROVIDER_*_SHAPES.
Canonical(names) == odd \cap names = {}

-----------------------------------------------------------------------------
(* The migration. *)

\* The layouts it tells apart; it goes on from three.
Layout ==
  CASE legacy = {"budget"} /\ neutral = {} -> "fresh"
    [] legacy = Tables /\ neutral = {} -> "complete"
    [] legacy = {} /\ neutral = Tables -> "neutral"
    [] OTHER -> "mixed"

Preflight ==
  /\ updater.at \in {"waiting", "refused"}
  /\ updater' = [at |-> IF Layout # "mixed" /\ Canonical(legacy \cup neutral)
                        THEN "checked" ELSE "refused",
                 layout |-> Layout, next |-> 1]
  /\ UNCHANGED <<database, sidecar, cut, faults>>

\* One RENAME TABLE moves all of them, or there is nothing to move.
RenameTables ==
  /\ updater.at = "checked"
  /\ updater' = [updater EXCEPT !.at = "renamed"]
  /\ IF updater.layout = "neutral"
     THEN UNCHANGED <<legacy, neutral>>
     ELSE legacy' = {} /\ neutral' = legacy
  /\ UNCHANGED <<modules, renamed, odd, sidecar, cut, faults>>

RenameIdentifier ==
  /\ updater.at = "renamed"
  /\ updater.next \in DOMAIN Identifiers
  /\ renamed' = renamed \cup {Identifiers[updater.next]}
  /\ updater' = [updater EXCEPT !.next = @ + 1]
  /\ UNCHANGED <<legacy, neutral, modules, odd, sidecar, cut, faults>>

\* The updater remembers what it has applied, and goes on to the next revision.
Applied ==
  /\ updater.at = "renamed"
  /\ updater.next \notin DOMAIN Identifiers
  /\ updater' = [updater EXCEPT !.at = "applied"]
  /\ UNCHANGED <<database, sidecar, cut, faults>>

PurgeRevision ==
  /\ updater.at = "applied"
  /\ "purge" \notin modules
  /\ modules' = modules \cup {"purge"}
  /\ UNCHANGED <<legacy, neutral, renamed, odd, updater, sidecar, cut, faults>>

SocialRevision ==
  /\ "control" \notin modules
  /\ modules' = modules \cup {"control"}
  /\ UNCHANGED <<legacy, neutral, renamed, odd, updater, sidecar, cut, faults>>

\* Cut off after its RENAME, the migration of a fresh schema meets two neutral tables
\* without the five others: a layout it refuses, and a sidecar refuses.
UpdaterCut ==
  /\ updater.at \in {"checked", "renamed"}
  /\ faults < MaxFaults
  /\ faults' = faults + 1
  /\ cut' = (cut \/ (updater.at = "renamed" /\ updater.layout = "fresh"))
  /\ updater' = [updater EXCEPT !.at = "waiting"]
  /\ UNCHANGED <<database, sidecar>>

MigrationStep ==
  \/ Preflight
  \/ RenameTables
  \/ RenameIdentifier
  \/ Applied
  \/ PurgeRevision
  \/ SocialRevision

-----------------------------------------------------------------------------
(* A sidecar's start. *)

NothingSeen == [legacy |-> {}, neutral |-> {}, modules |-> {}]
At(s, place) == sidecar' = [sidecar EXCEPT ![s].at = place]
Leave(s, place) == sidecar' = [sidecar EXCEPT ![s] = [at |-> place, saw |-> NothingSeen, next |-> 1]]

\* open_state connects, and ensure_schema asks what is there.
ListTables(s) ==
  /\ sidecar[s].at \in {"down", "refused"}
  /\ sidecar' = [sidecar EXCEPT ![s] =
       [at |-> "listed", next |-> 1,
        saw |-> [legacy |-> legacy, neutral |-> neutral, modules |-> modules]]]
  /\ UNCHANGED <<database, updater, cut, faults>>

\* Mutants: what other revisions own is not asked for; only a complete layout is let
\* through.
AdmitsAlone(saw, names) ==
  /\ saw.legacy = {}
  /\ saw.neutral \in {{"budget"}, Tables}
  /\ names = Range(Identifiers)
AdmitsOnlyComplete(saw, names) ==
  /\ saw.legacy = {}
  /\ saw.neutral = Tables
  /\ names = Range(Identifiers)
  /\ saw.modules = Required

\* What a start is refused for, before it changes anything.
Admits(saw, names) ==
  /\ saw.legacy = {}
  /\ saw.neutral \in {{"budget"}, Tables}
  /\ names = Range(Identifiers)
  /\ saw.modules = Required

\* The identifiers are asked for after the tables; nobody gives one its old name back.
JudgeNames(s) ==
  /\ sidecar[s].at = "listed"
  /\ IF Admits(sidecar[s].saw, renamed) THEN At(s, "judged") ELSE Leave(s, "refused")
  /\ UNCHANGED <<database, updater, cut, faults>>

\* Mutant: the shapes are validated after the tables are created, and only then.
JudgeNoShapes(s) ==
  /\ sidecar[s].at = "judged"
  /\ Leave(s, "creating")
  /\ UNCHANGED <<database, updater, cut, faults>>

\* _validate_provider_table_shapes, of the tables that were listed.
JudgeShapes(s) ==
  /\ sidecar[s].at = "judged"
  /\ Leave(s, IF Canonical(sidecar[s].saw.neutral) THEN "creating" ELSE "refused")
  /\ UNCHANGED <<database, updater, cut, faults>>

\* CREATE TABLE IF NOT EXISTS, which commits itself.
CreateTable(s) ==
  /\ sidecar[s].at = "creating"
  /\ sidecar[s].next \in DOMAIN OwnedTables
  /\ neutral' = neutral \cup {OwnedTables[sidecar[s].next]}
  /\ sidecar' = [sidecar EXCEPT ![s].next = @ + 1]
  /\ UNCHANGED <<legacy, modules, renamed, odd, updater, cut, faults>>

\* All eight tables are validated before the first request is served.
Serve(s) ==
  /\ sidecar[s].at = "creating"
  /\ sidecar[s].next \notin DOMAIN OwnedTables
  /\ Leave(s, IF Tables \subseteq neutral /\ Canonical(Tables) THEN "serving" ELSE "refused")
  /\ UNCHANGED <<database, updater, cut, faults>>

\* The process ends, or its connection does.
SidecarCut(s) ==
  /\ sidecar[s].at \notin {"down", "refused"}
  /\ faults < MaxFaults
  /\ faults' = faults + 1
  /\ cut' = (cut \/ (sidecar[s].at = "creating" /\ neutral \notin {{"budget"}, Tables}))
  /\ Leave(s, "down")
  /\ UNCHANGED <<database, updater>>

StartStep(s) ==
  \/ ListTables(s)
  \/ JudgeNames(s)
  \/ JudgeShapes(s)
  \/ CreateTable(s)
  \/ Serve(s)

-----------------------------------------------------------------------------
(* The databases a worldserver and a sidecar may be given: the layouts the migration  *)
(* knows, one it has been applied to already, one that was never installed, and those *)
(* the tests of the two make by hand.                                                 *)

Given == {[legacy |-> {"budget"}, neutral |-> {}],
          [legacy |-> Tables, neutral |-> {}],
          [legacy |-> {}, neutral |-> {"budget"}],
          [legacy |-> {}, neutral |-> {}],
          [legacy |-> Tables \ {Head(OwnedTables)}, neutral |-> {}],
          [legacy |-> Tables, neutral |-> {Head(OwnedTables)}],
          [legacy |-> {Head(OwnedTables)}, neutral |-> {"budget"}]}

SchemaInit ==
  /\ \E given \in Given :
       /\ legacy = given.legacy
       /\ neutral = given.neutral
       /\ renamed = IF "budget" \in given.neutral THEN Range(Identifiers) ELSE {}
       /\ updater = [at |-> IF "budget" \in given.neutral THEN "applied" ELSE "waiting",
                     layout |-> "mixed", next |-> 1]
  /\ odd \in {{}} \cup {{t} : t \in (legacy \cup neutral) \cap {"budget", Head(OwnedTables)}}
  /\ modules = {}
  /\ sidecar = [s \in Sidecars |-> [at |-> "down", saw |-> NothingSeen, next |-> 1]]
  /\ cut = FALSE
  /\ faults = 0

SchemaNext ==
  \/ MigrationStep
  \/ UpdaterCut
  \/ \E s \in Sidecars : StartStep(s) \/ SidecarCut(s)

SchemaSpec == SchemaInit /\ [][SchemaNext]_schemaVars

-----------------------------------------------------------------------------
Serving(s) == sidecar[s].at = "serving"

\* A database the whole software is made for.
Migrated ==
  /\ legacy = {}
  /\ "budget" \in neutral
  /\ renamed = Range(Identifiers)
  /\ modules = Required

\* A sidecar serves from a database that has all of the schema and nothing of the old one,
\* whoever created, renamed or gave up what in the meantime.
ServesTheWholeSchema ==
  \A s \in Sidecars : Serving(s) => Migrated /\ neutral = Tables /\ Canonical(Tables)

\* "Refusing to touch a database that has not been migrated means not touching it": a table
\* that is created, rather than renamed, is created in a migrated database.
CreatesOnlyWhereMigrated ==
  [][legacy' = legacy /\ neutral' # neutral
     => Migrated /\ Canonical(neutral)]_schemaVars
=============================================================================
