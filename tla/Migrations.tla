----------------------------- MODULE Migrations -----------------------------
(***************************************************************************)
(* A service's database under `npm run migration:run:<service>` and        *)
(* `migration:revert:<service>`.  TypeORM runs the pending migrations in   *)
(* one transaction and reverts the last one in another; PostgreSQL rolls   *)
(* DDL back, so a failure leaves everything as it was.                     *)
(***************************************************************************)
EXTENDS ServiceEntities, Naturals

CONSTANT Services  \* the services whose database is looked at

ASSUME ServicesAssumption == Services \subseteq {"booking", "flight", "payment"}

VARIABLES
  service,  \* whose database it is
  origin,   \* how its tables came about
  schema,
  applied,  \* rows of the table migrations
  outcome,  \* of the last command
  lost      \* columns with data that running migrations has dropped

vars == <<service, origin, schema, applied, outcome, lost>>

Migrations ==
  [booking |-> <<CreateBookingTable, UpdateBookingTable, AddBookingIndexes, AddSagaAndOutbox>>,
   flight |-> <<CreateCitiesTable, CreateAirportsTable, CreateAirplanesTable, CreateSeatsTable,
                CreateFlightsTable, SeedInitialData, UpdateFlightTable, AddProcessedEvent>>,
   payment |-> <<InitialPaymentSchema, UpgradePaymentDomain>>]

All == Migrations[service]

Fresh == [command |-> "none", at |-> 0, ok |-> TRUE]

(* The statements of the migrations after m up to n.                       *)
Ups(m, n) == FoldLeft(LAMBDA all, migration : all \o migration.up, <<>>, SubSeq(All, m + 1, n))

(* Columns the table had before that a statement drops.                    *)
Emptied(s, stmts) ==
  LET columns(stmt) ==
        IF stmt.op = "DropColumns" /\ HasColumns(s, stmt.name, stmt.columns)
          THEN {<<stmt.name, c>> : c \in stmt.columns} ELSE {}
      plain(stmt) == IF stmt.op = "Strict" THEN stmt.statement ELSE stmt
  IN UNION {columns(plain(stmts[i])) : i \in DOMAIN stmts}

-----------------------------------------------------------------------------
TypeOK ==
  /\ service \in Services
  /\ origin \in {"empty", "forgotten", "synchronized", "mixed"}
  /\ applied \in 0 .. Len(All)
  /\ outcome.command \in {"none", "run", "revert"}
  /\ schema # Failed
  /\ \A i \in schema.indexes \cup schema.keys : i.on \in DOMAIN schema.tables

(* A new database, or one on which the service ran with NODE_ENV =         *)
(* development, where TypeORM synchronizes.                                *)
Init ==
  /\ service \in Services
  /\ \/ origin = "empty" /\ schema = Empty
     \/ origin = "synchronized" /\ schema = Synchronized(service)
  /\ applied = 0
  /\ outcome = Fresh
  /\ lost = {}

(* migration:run with a release whose last migration is the n-th.          *)
Run(n) ==
  LET stmts == Ups(applied, n)
      after == ExecuteAll(schema, stmts)
  IN
  /\ applied < n
  /\ outcome' = [command |-> "run", at |-> n, ok |-> after # Failed]
  /\ IF after = Failed
       THEN UNCHANGED <<schema, applied, lost>>
       ELSE /\ schema' = after
            /\ applied' = n
            /\ lost' = lost \cup Emptied(schema, stmts)
  /\ UNCHANGED <<service, origin>>

(* migration:revert.                                                       *)
Revert ==
  LET after == ExecuteAll(schema, All[applied].down) IN
  /\ applied > 0
  /\ outcome' = [command |-> "revert", at |-> applied, ok |-> after # Failed]
  /\ IF after = Failed
       THEN UNCHANGED <<schema, applied>>
       ELSE schema' = after /\ applied' = applied - 1
  /\ origin' = IF origin = "synchronized" THEN "mixed" ELSE origin
  /\ UNCHANGED <<service, lost>>

(* The tables are there and the rows of the table migrations are not: the  *)
(* "relation already exists" of the README.                                *)
Forget ==
  /\ applied > 0
  /\ applied' = 0
  /\ origin' = IF origin = "empty" THEN "forgotten" ELSE origin
  /\ outcome' = Fresh
  /\ UNCHANGED <<service, schema, lost>>

Next == (\E n \in 1 .. Len(All) : Run(n)) \/ Revert \/ Forget

Spec == Init /\ [][Next]_vars

-----------------------------------------------------------------------------
Synced == {"synchronized", "mixed"}

(* Entities that do not fit the tables the migrations make: bookings has   *)
(* 10 characters for a UUID, airports lacks the columns city_denormalized  *)
(* and country_denormalized, refunds still wants a payment_transaction_id  *)
(* and two payment entities forgot the name of a column.                   *)
Misfits == {"bookings", "airports", "refunds", "ledger_entries", "webhook_events"}

SameSchema ==
  applied = Len(All) /\ origin \notin Synced => schema = ExecuteAll(Empty, Ups(0, Len(All)))

DataKept == lost \subseteq {<<"bookings", "seat_numbers">>}

(* Whatever was reverted, forgotten and run again, a database with all     *)
(* migrations ends with the one schema they describe, and has lost no data *)
(* but the seat numbers of the bookings (SafeToRerun).                     *)
RerunsConverge == SameSchema /\ DataKept

(* With all migrations applied, every entity but the misfits can be stored *)
(* and read; after synchronize all of them can, the misfits too: that is   *)
(* why development does not notice.                                        *)
MigratedFits ==
  LET tables(set) == {e.table : e \in set}
      misfits == tables({e \in Entities[service] : ~Fits(schema, e)})
  IN applied = Len(All) =>
       CASE origin = "synchronized" -> misfits = {}
         [] origin = "mixed" -> misfits \subseteq Misfits
         [] OTHER -> misfits = Misfits \cap tables(Entities[service])

(* The README's answer to "relation already exists": "All migrations are   *)
(* idempotent.  Safe to re-run".  Run again, they would succeed and drop   *)
(* nothing.  But UpdateBookingTable drops and adds seat_numbers without    *)
(* looking, and SeedInitialData needs an index of CreateCitiesTable that   *)
(* reverting UpdateFlightTable drops.                                      *)
SafeToRerun == lost = {} /\ (outcome.command = "run" => outcome.ok)
=============================================================================
