----------------------------- MODULE RestoreScript -----------------------------
(***************************************************************************)
(* Restoring an archive into a database and a bucket of its own.  Each     *)
(* step is a command that may fail, before or after it did its work; what  *)
(* an attempt created is left where it is, and another attempt under the   *)
(* same names finds it.                                                    *)
(***************************************************************************)
EXTENDS Integers, FiniteSets

CONSTANTS
    Archives,       \* the archives that are restored
    RowsOf,         \* the rows of an archive
    ObjectsOf,      \* its originals and attachments
    Targets         \* the names given to databases, and to buckets

ASSUME RestoreAssumption ==
    \A a \in Archives :
       /\ IsFiniteSet(RowsOf[a]) /\ IsFiniteSet(ObjectsOf[a])
       /\ "missing" \notin RowsOf[a] \cup ObjectsOf[a]

VARIABLES
    database,   \* of each name: no database, or its rows
    bucket,     \* of each name: no bucket, or its objects
    attempt,    \* the attempt under way
    reported    \* what was reported restored: archive, database and bucket

restoreVars == <<database, bucket, attempt, reported>>

Missing == {"missing"}
Resting == [at |-> "rest"]

RestoreInit ==
    /\ database = [n \in Targets |-> Missing]
    /\ bucket = [n \in Targets |-> Missing]
    /\ attempt = Resting
    /\ reported = {}

\* The archive is inspected and the names are confirmed before anything.
Confirm(a, d, b) ==
    /\ attempt = Resting
    /\ attempt' = [at |-> "database", archive |-> a, d |-> d, b |-> b, put |-> {}]
    /\ UNCHANGED <<database, bucket, reported>>

GoTo(at) == attempt' = [attempt EXCEPT !.at = at]

\* A database or a bucket that exists is not created again: the command fails.
CreateDatabase ==
    /\ attempt.at = "database"
    /\ database[attempt.d] = Missing
    /\ database' = [database EXCEPT ![attempt.d] = {}]
    /\ (GoTo("bucket") \/ attempt' = Resting)
    /\ UNCHANGED <<bucket, reported>>

CreateBucket ==
    /\ attempt.at = "bucket"
    /\ bucket[attempt.b] = Missing
    /\ bucket' = [bucket EXCEPT ![attempt.b] = {}]
    /\ (GoTo("migrations") \/ attempt' = Resting)
    /\ UNCHANGED <<database, reported>>

Migrate ==
    /\ attempt.at = "migrations"
    /\ GoTo("objects")
    /\ UNCHANGED <<database, bucket, reported>>

PutObject ==
    /\ attempt.at = "objects"
    /\ \E o \in ObjectsOf[attempt.archive] \ attempt.put :
          /\ bucket' = [bucket EXCEPT ![attempt.b] = @ \cup {o}]
          /\ \/ attempt' = [attempt EXCEPT !.put = @ \cup {o}]
             \/ attempt' = Resting
    /\ UNCHANGED <<database, reported>>

\* The file of statements may stop half-way, whatever the command says.
ExecuteSql ==
    /\ attempt.at = "objects" /\ attempt.put = ObjectsOf[attempt.archive]
    /\ \E done \in SUBSET RowsOf[attempt.archive] :
          database' = [database EXCEPT ![attempt.d] = @ \cup done]
    /\ (GoTo("count") \/ attempt' = Resting)
    /\ UNCHANGED <<bucket, reported>>

\* Mutant: the command that ran the statements is trusted.
Trusted(d, a) == database[d] # Missing

\* The rows are counted, table by table.
Counts(d, a) == Cardinality(database[d]) = Cardinality(RowsOf[a])

Report ==
    /\ attempt.at = "count"
    /\ reported' = IF Counts(attempt.d, attempt.archive)
                     THEN reported \cup {<<attempt.archive, attempt.d, attempt.b>>} ELSE reported
    /\ attempt' = Resting
    /\ UNCHANGED <<database, bucket>>

Fail ==
    /\ attempt # Resting
    /\ attempt' = Resting
    /\ UNCHANGED <<database, bucket, reported>>

\* What an attempt left is removed by hand.
Discard(n) ==
    /\ attempt = Resting
    /\ \/ database' = [database EXCEPT ![n] = Missing] /\ UNCHANGED bucket
       \/ bucket' = [bucket EXCEPT ![n] = Missing] /\ UNCHANGED database
    /\ reported' = {r \in reported : database'[r[2]] # Missing /\ bucket'[r[3]] # Missing}
    /\ UNCHANGED attempt

RestoreNext ==
    \/ \E a \in Archives, d, b \in Targets : Confirm(a, d, b)
    \/ CreateDatabase \/ CreateBucket \/ Migrate \/ PutObject \/ ExecuteSql \/ Report \/ Fail
    \/ \E n \in Targets : Discard(n)

RestoreSpec == RestoreInit /\ [][RestoreNext]_restoreVars

\* A restoration that was reported holds the archive and nothing else, however
\* many attempts failed before it and with whatever they left.
ReportedIsWhole ==
    \A r \in reported : database[r[2]] = RowsOf[r[1]] /\ bucket[r[3]] = ObjectsOf[r[1]]
=============================================================================
