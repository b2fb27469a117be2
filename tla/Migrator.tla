------------------------------ MODULE Migrator ------------------------------
(***************************************************************************)
(* The forward-only migrator (apps/stratus-api/src/db/migrate.ts).  It is  *)
(* run by hand (`pnpm db:migrate`) or by the CI, nothing that is deployed  *)
(* runs it; several runs at a time are not prevented, so they are modelled.*)
(* Each file is applied in a transaction of its own together with its row  *)
(* of schema_migrations; the first file that fails ends the run.           *)
(*                                                                         *)
(* A transaction has two statements, the file and its row.  The locks that *)
(* a file takes on the catalogue keep a second migrator waiting until the  *)
(* first one has ended; then the statements of the second find the tables  *)
(* (every CREATE is IF NOT EXISTS), and its row violates the primary key.  *)
(***************************************************************************)
EXTENDS Integers, Sequences

CONSTANTS
  Files,          \* the migrations, in the order of their names
  Migrators,      \* the processes that run migrate.ts
  MaxFailures     \* bound, for each of them: runs that die or fail

ASSUME MigratorAssumption ==
  /\ MaxFailures \in [Migrators -> Nat]
  /\ \A i, j \in 1 .. Len(Files) : Files[i] = Files[j] => i = j

FileSet == {Files[i] : i \in 1 .. Len(Files)}

VARIABLES
  schema,     \* the files whose statements have taken effect
  recorded,   \* the files named in schema_migrations
  run,        \* run[m]: where migrator m is
  applied,    \* applied[m]: the files it has found recorded, or applied
  failures

migration == <<schema, recorded, run, applied, failures>>

MigratorInit ==
  /\ schema = {} /\ recorded = {}
  /\ run = [m \in Migrators |-> "start"]
  /\ applied = [m \in Migrators |-> {}]
  /\ failures = [m \in Migrators |-> 0]

(* CREATE TABLE IF NOT EXISTS schema_migrations, and the files it names.   *)
ReadApplied(m) ==
  /\ run[m] = "start"
  /\ run' = [run EXCEPT ![m] = "files"]
  /\ applied' = [applied EXCEPT ![m] = recorded]
  /\ UNCHANGED <<schema, recorded, failures>>

(* The first file that it has not found, or applied itself.                *)
HasNext(m) == \E i \in 1 .. Len(Files) : Files[i] \notin applied[m]
IsNext(m, f) ==
  \E i \in 1 .. Len(Files) :
    /\ f = Files[i] /\ f \notin applied[m]
    /\ \A j \in 1 .. i - 1 : Files[j] \in applied[m]

(* BEGIN, and the statements of the file, which only the migrator sees     *)
(* until it commits.                                                       *)
ApplyUnlogged(m) ==     \* mutated form: outside of a transaction
  /\ run[m] = "files" /\ \A other \in Migrators : run[other] # "applied"
  /\ run' = [run EXCEPT ![m] = "applied"]
  /\ schema' = schema \cup {f \in FileSet : IsNext(m, f)}
  /\ UNCHANGED <<recorded, applied, failures>>
Apply(m) ==
  /\ run[m] = "files" /\ HasNext(m)
  /\ \A other \in Migrators : run[other] # "applied"
  /\ run' = [run EXCEPT ![m] = "applied"]
  /\ UNCHANGED <<schema, recorded, applied, failures>>

(* The row is inserted and the transaction commits.                        *)
Commit(m) ==
  /\ run[m] = "applied"
  /\ \E f \in FileSet :
       /\ IsNext(m, f) /\ f \notin recorded
       /\ schema' = schema \cup {f}
       /\ recorded' = recorded \cup {f}
       /\ applied' = [applied EXCEPT ![m] = @ \cup {f}]
  /\ run' = [run EXCEPT ![m] = "files"]
  /\ UNCHANGED failures

(* A row with that name exists already: ROLLBACK, exit code 1 and break.   *)
RowExists(m) ==
  /\ run[m] = "applied"
  /\ \E f \in recorded : IsNext(m, f)
  /\ run' = [run EXCEPT ![m] = "failed"]
  /\ applied' = [applied EXCEPT ![m] = {}]
  /\ UNCHANGED <<schema, recorded, failures>>

(* A statement fails, or the process or its connection dies: ROLLBACK.     *)
RunFails(m) ==
  /\ run[m] \in {"files", "applied"} /\ failures[m] < MaxFailures[m]
  /\ failures' = [failures EXCEPT ![m] = @ + 1]
  /\ run' = [run EXCEPT ![m] = "failed"]
  /\ applied' = [applied EXCEPT ![m] = {}]
  /\ UNCHANGED <<schema, recorded>>

(* A failed run is started again.                                          *)
Rerun(m) ==
  /\ run[m] = "failed"
  /\ run' = [run EXCEPT ![m] = "start"]
  /\ UNCHANGED <<schema, recorded, applied, failures>>

MigratorNext ==
  \E m \in Migrators : \/ ReadApplied(m) \/ Apply(m) \/ Commit(m) \/ RowExists(m)
                       \/ RunFails(m) \/ Rerun(m)

MigratorSpec == MigratorInit /\ [][MigratorNext]_migration
-----------------------------------------------------------------------------
MigratorTypeOK ==
  /\ schema \subseteq FileSet
  /\ recorded \subseteq FileSet
  /\ run \in [Migrators -> {"start", "files", "applied", "failed"}]
  /\ applied \in [Migrators -> SUBSET FileSet]
  /\ failures \in [Migrators -> Nat]

(* Whoever races and whatever fails half-way, a file has taken effect      *)
(* exactly when it is recorded, and no file has without those before it.   *)
MigrationsAreWhole ==
  /\ schema = recorded
  /\ \A i, j \in 1 .. Len(Files) :
       i < j /\ Files[j] \in recorded => Files[i] \in recorded
=============================================================================
