------------------------------ MODULE BotPurge ------------------------------
(***************************************************************************)
(* The purge of deleted bots, from the worldserver that publishes the      *)
(* intents (PlayerbotLLMScripts.cpp) to the sidecars that delete the rows  *)
(* and acknowledge (store.py), over the start of both.  A purge is one     *)
(* transaction of several statements for each bot: what it has deleted is  *)
(* locked until it commits, and comes back when it fails.                  *)
(***************************************************************************)
EXTENDS SchemaGuard, FiniteSets

CONSTANTS
  Bots,       \* guids
  BotTables,  \* the tables with rows of a bot
  NoBot,
  MaxRounds   \* bound: how often the worldserver prepares a purge

ASSUME PurgeAssumption == Bots \subseteq Nat /\ NoBot \notin Bots /\ MaxRounds \in Nat

VARIABLES
  intents,   \* playerbot_llm_bot_purge: none, pending, acknowledged
  rows,      \* by bot and table: none, new, or, as history, old: there are some from
             \* before the worldserver last prepared the purge of this bot
  publisher, \* PrepareBotPurge
  rounds,
  purger     \* by sidecar, its purge_pending_bot_data

purgeVars == <<intents, rows, publisher, rounds, purger>>
allVars == <<schemaVars, purgeVars>>

Idle == [at |-> "idle", bot |-> NoBot, todo |-> {}]
Pending == {b \in Bots : intents[b] = "pending"}

-----------------------------------------------------------------------------
(* The worldserver, which is up once its revisions are applied. *)

Prepare ==
  /\ publisher.at \in {"idle", "true", "false"}
  /\ "purge" \in modules
  /\ rounds < MaxRounds
  /\ rounds' = rounds + 1
  /\ \E cohort \in SUBSET Bots \ {{}} :
       /\ publisher' = [at |-> "inserting", cohort |-> cohort, todo |-> cohort, failed |-> FALSE]
       /\ rows' = [b \in Bots |-> [t \in BotTables |->
                     IF b \in cohort /\ rows[b][t] = "new" THEN "old" ELSE rows[b][t]]]
  /\ UNCHANGED <<schemaVars, intents, purger>>

\* The upsert waits for the row a purge has selected.
RowLocked(b) == \E s \in Sidecars : purger[s].bot = b

\* Mutant: an intent that is there already is left as it is.
InsertedOnce(b) == [intents EXCEPT ![b] = IF @ = "none" THEN "pending" ELSE @]

\* INSERT ... ON DUPLICATE KEY UPDATE acknowledged_at = NULL
Upserted(b) == [intents EXCEPT ![b] = "pending"]

\* DirectExecute says nothing of a statement that failed.
Insert(b) ==
  /\ publisher.at = "inserting"
  /\ b \in publisher.todo
  /\ \/ /\ ~RowLocked(b)
        /\ intents' = Upserted(b)
        /\ publisher' = [publisher EXCEPT !.todo = @ \ {b}]
        /\ UNCHANGED faults
     \/ /\ faults < MaxFaults
        /\ faults' = faults + 1
        /\ publisher' = [publisher EXCEPT !.todo = @ \ {b}, !.failed = TRUE]
        /\ UNCHANGED intents
  /\ UNCHANGED <<database, updater, sidecar, cut, rows, rounds, purger>>

InsertsDone ==
  /\ publisher.at = "inserting"
  /\ publisher.todo = {}
  /\ publisher' = [publisher EXCEPT !.at = "checking", !.todo = publisher.cohort]
  /\ UNCHANGED <<schemaVars, intents, rows, rounds, purger>>

\* Mutant: the count takes acknowledged intents too.
CountedAnyway(b) == intents[b] # "none"

\* SELECT COUNT(*) ... AND acknowledged_at IS NULL, which is to be one.
Counted(b) == intents[b] = "pending"

Check(b) ==
  /\ publisher.at = "checking"
  /\ b \in publisher.todo
  /\ \/ /\ Counted(b)
        /\ publisher' = [publisher EXCEPT !.todo = @ \ {b}]
        /\ UNCHANGED faults
     \/ /\ ~Counted(b)
        /\ publisher' = [publisher EXCEPT !.at = "false"]
        /\ UNCHANGED faults
     \/ /\ faults < MaxFaults
        /\ faults' = faults + 1
        /\ publisher' = [publisher EXCEPT !.at = "false", !.failed = TRUE]
  /\ UNCHANGED <<database, updater, sidecar, cut, intents, rows, rounds, purger>>

Report ==
  /\ publisher.at = "checking"
  /\ publisher.todo = {}
  /\ publisher' = [publisher EXCEPT !.at = "true"]
  /\ UNCHANGED <<schemaVars, intents, rows, rounds, purger>>

-----------------------------------------------------------------------------
(* A sidecar's purge. *)

\* The generation lock of this sidecar is taken, for the worker or a connection.
TakeLock(s) ==
  /\ Serving(s)
  /\ purger[s].at = "idle"
  /\ purger' = [purger EXCEPT ![s].at = "begin"]
  /\ UNCHANGED <<schemaVars, intents, rows, publisher, rounds>>

\* Mutant: the sidecars purge side by side.
NoNamedLock == TRUE

\* The named lock keeps the sidecars apart.
LockFree == \A s \in Sidecars : purger[s].at \in {"idle", "begin"}

BeginPurge(s) ==
  /\ purger[s].at = "begin"
  /\ LockFree
  /\ purger' = [purger EXCEPT ![s].at = "locked"]
  /\ UNCHANGED <<schemaVars, intents, rows, publisher, rounds>>

\* SELECT ... ORDER BY bot_guid LIMIT 1 FOR UPDATE
SelectPending(s) ==
  /\ purger[s].at = "locked"
  /\ \/ /\ Pending = {}
        /\ purger' = [purger EXCEPT ![s] = Idle]
     \/ \E b \in Pending :
          /\ \A other \in Pending : b <= other
          /\ purger' = [purger EXCEPT ![s] = [at |-> "deleting", bot |-> b, todo |-> BotTables]]
  /\ UNCHANGED <<schemaVars, intents, rows, publisher, rounds>>

DeleteRows(s, t) ==
  /\ purger[s].at = "deleting"
  /\ t \in purger[s].todo
  /\ purger' = [purger EXCEPT ![s].todo = @ \ {t}]
  /\ UNCHANGED <<schemaVars, intents, rows, publisher, rounds>>

\* The acknowledgement is the last statement before the commit; then the next bot.
Acknowledge(s) ==
  /\ purger[s].at = "deleting"
  /\ purger[s].todo = {}
  /\ intents' = [intents EXCEPT ![purger[s].bot] = "acked"]
  /\ rows' = [rows EXCEPT ![purger[s].bot] = [t \in BotTables |-> "none"]]
  /\ purger' = [purger EXCEPT ![s] = [Idle EXCEPT !.at = "begin"]]
  /\ UNCHANGED <<schemaVars, publisher, rounds>>

\* Mutant: the transaction is left open, with the named lock.
PurgeFailsOpen(s) ==
  /\ purger[s].at # "idle"
  /\ faults < MaxFaults
  /\ faults' = faults + 1
  /\ purger' = [purger EXCEPT ![s] = [Idle EXCEPT !.at = "open"]]
  /\ UNCHANGED <<database, updater, sidecar, cut, intents, rows, publisher, rounds>>

\* The transaction is rolled back, and the purge deferred to the next poll.
PurgeFails(s) ==
  /\ purger[s].at # "idle"
  /\ faults < MaxFaults
  /\ faults' = faults + 1
  /\ purger' = [purger EXCEPT ![s] = Idle]
  /\ UNCHANGED <<database, updater, sidecar, cut, intents, rows, publisher, rounds>>

PurgeStep(s) ==
  \/ BeginPurge(s)
  \/ SelectPending(s)
  \/ \E t \in BotTables : DeleteRows(s, t)
  \/ Acknowledge(s)

\* A request records something of a bot.  It has this sidecar's generation lock, and waits
\* for rows another sidecar is deleting.
Write(s, b, t) ==
  /\ Serving(s)
  /\ purger[s].at = "idle"
  /\ ~\E r \in Sidecars : purger[r].bot = b /\ t \notin purger[r].todo
  /\ rows[b][t] = "none"
  /\ rows' = [rows EXCEPT ![b][t] = "new"]
  /\ UNCHANGED <<schemaVars, intents, publisher, rounds, purger>>

-----------------------------------------------------------------------------
PurgeInit ==
  /\ SchemaInit
  /\ intents = [b \in Bots |-> "none"]
  /\ rows = [b \in Bots |-> [t \in BotTables |-> "none"]]
  /\ publisher = [at |-> "idle", cohort |-> {}, todo |-> {}, failed |-> FALSE]
  /\ rounds = 0
  /\ purger = [s \in Sidecars |-> Idle]

Crash(s) ==
  /\ SidecarCut(s)
  /\ purger' = [purger EXCEPT ![s] = Idle]
  /\ UNCHANGED <<intents, rows, publisher, rounds>>

PurgeNext ==
  \/ MigrationStep /\ UNCHANGED purgeVars
  \/ UpdaterCut /\ UNCHANGED purgeVars
  \/ Prepare
  \/ InsertsDone
  \/ Report
  \/ \E b \in Bots : Insert(b) \/ Check(b)
  \/ \E s \in Sidecars :
       \/ StartStep(s) /\ UNCHANGED purgeVars
       \/ Crash(s)
       \/ TakeLock(s)
       \/ PurgeStep(s)
       \/ PurgeFails(s)
       \/ \E b \in Bots, t \in BotTables : Write(s, b, t)

\* A sidecar and a worldserver go on while they run, the purge worker polls, and whoever
\* runs them starts them again.
PurgeFairness ==
  /\ WF_allVars(MigrationStep /\ UNCHANGED purgeVars)
  /\ \A s \in Sidecars :
       /\ WF_allVars(StartStep(s) /\ UNCHANGED purgeVars)
       /\ WF_allVars(TakeLock(s))
       /\ WF_allVars(PurgeStep(s))

PurgeSpec == PurgeInit /\ [][PurgeNext]_allVars /\ PurgeFairness

-----------------------------------------------------------------------------
Places == {"down", "listed", "judged", "creating", "serving", "refused"}

\* Type correctness; at most one purge has the named lock, and its bot is the only one
\* whose rows are locked.
PurgeTypeOK ==
  /\ legacy \subseteq Tables /\ neutral \subseteq Tables /\ odd \subseteq Tables
  /\ modules \subseteq Required
  /\ renamed \subseteq Range(Identifiers)
  /\ updater.at \in {"waiting", "checked", "renamed", "applied", "refused"}
  /\ updater.layout \in {"fresh", "complete", "neutral", "mixed"}
  /\ updater.next \in 1 .. Len(Identifiers) + 1
  /\ \A s \in Sidecars : /\ sidecar[s].at \in Places
                         /\ sidecar[s].next \in 1 .. Len(OwnedTables) + 1
                         /\ purger[s].at # "idle" => Serving(s)
                         /\ (purger[s].at = "deleting") = (purger[s].bot # NoBot)
  /\ Cardinality({s \in Sidecars : purger[s].at \in {"locked", "deleting"}}) <= 1
  /\ intents \in [Bots -> {"none", "pending", "acked"}]
  /\ rows \in [Bots -> [BotTables -> {"none", "new", "old"}]]
  /\ publisher \in [at : {"idle", "inserting", "checking", "true", "false"},
                    cohort : SUBSET Bots, todo : SUBSET Bots, failed : BOOLEAN]
  /\ faults \in 0 .. MaxFaults /\ rounds \in 0 .. MaxRounds /\ cut \in BOOLEAN

Cleared(b) == \A t \in BotTables : rows[b][t] # "old"

\* PrepareBotPurge answers true only of bots whose rows from before the call are gone, or
\* have an intent that will see to it: whatever statement failed, and however far a sidecar
\* was with an earlier intent of the same bot.
VerifiedIsPurged ==
  publisher.at = "true" => \A b \in publisher.cohort : b \in Pending \/ Cleared(b)

\* PrepareBotPurge answers false, when the database failed it nothing, only because a
\* sidecar was faster than the check: some bot of the cohort is purged already.
RefusalMeansPurged ==
  publisher.at = "false" /\ ~publisher.failed
  => \E b \in publisher.cohort \ Pending : Cleared(b)

\* A schema the migration is made for, or has been applied to.
Installed ==
  /\ \/ legacy \in {{"budget"}, Tables} /\ neutral = {}
     \/ legacy = {} /\ neutral = {"budget"}
  /\ odd = {}

\* Every sidecar comes to serve an installed schema, in whatever order
\* worldserver and sidecars start and however often they are interrupted, except for two
\* places: a fresh migration after its RENAME, and a sidecar between its first CREATE TABLE
\* and its last.
StartsUnlessCut ==
  Installed /\ [](~cut) => <>[](\A s \in Sidecars : Serving(s))

\* An intent is acknowledged in the end, under the same conditions.
PendingIsPurged ==
  Installed /\ [](~cut) => \A b \in Bots : intents[b] = "pending" ~> intents[b] = "acked"
=============================================================================
