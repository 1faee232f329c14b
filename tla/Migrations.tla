----------------------------- MODULE Migrations -----------------------------
(***************************************************************************)
(* The migration runner, storage/migrate.py: several runs of it at once,   *)
(* against one PostgreSQL, while files are added and edited and the demo   *)
(* is reset.                                                               *)
(*                                                                         *)
(* A version is the place of its file in the directory, a content stands   *)
(* for a file's SQL and its checksum both.  All DDL of the repository is   *)
(* IF NOT EXISTS, so what a version has built stays as its first content   *)
(* built it.  A run reads the files once and the applied versions once; it *)
(* commits after each migration.                                           *)
(***************************************************************************)
EXTENDS Integers, Sequences

CONSTANTS
    Runners,   \* processes that run the runner
    Contents,  \* contents of a migration file
    Broken,    \* a content PostgreSQL refuses
    Null,
    MaxFiles,  \* bound: migrations
    MaxEdits,  \* bound: files edited
    MaxResets, \* bound: resets of the demo
    MaxRuns,   \* bound: runs started
    MaxKills   \* bound: runs killed or cut off

ASSUME MigrationsAssumption ==
    /\ {MaxFiles, MaxEdits, MaxResets, MaxRuns, MaxKills} \subseteq Nat
    /\ Broken \in Contents /\ Null \notin Contents

Versions == 1..MaxFiles

VARIABLES
    files,    \* the directory, in the order of its versions
    schema,   \* the content that built each version's tables, or Null
    recorded, \* schema_migrations: the checksum of each version, or Null
    run,      \* what each runner is doing
    edits, resets, runs, kills  \* bounds

bounds == <<edits, resets, runs, kills>>
vars == <<files, schema, recorded, run, bounds>>

Nothing == [v \in Versions |-> Null]

\* "planned" and "applied" hold a transaction open; "between" is after a
\* commit.  `wiped` is a ghost: there was a reset since the run began.
NoRun == [phase |-> "idle", files |-> <<>>, pending |-> {}, wiped |-> FALSE]
Runs ==
    [phase : {"idle", "read", "planned", "applied", "between", "done", "failed"},
     files : Seq(Contents), pending : SUBSET Versions, wiped : BOOLEAN]

\* Directory, tables and runners hold what their types allow.
TypeOK ==
    /\ files \in Seq(Contents) /\ Len(files) <= MaxFiles
    /\ schema \in [Versions -> Contents \cup {Null}]
    /\ recorded \in [Versions -> Contents \cup {Null}]
    /\ run \in [Runners -> Runs]
    /\ \A r \in Runners :
          run[r].pending \subseteq DOMAIN run[r].files /\ Len(run[r].files) <= MaxFiles
    /\ {edits, resets, runs, kills} \subseteq Nat

Init ==
    /\ files = <<>>
    /\ schema = Nothing
    /\ recorded = Nothing
    /\ run = [r \in Runners |-> NoRun]
    /\ edits = 0
    /\ resets = 0
    /\ runs = 0
    /\ kills = 0

(***************************************************************************)
(* The directory and the reset.                                            *)
(***************************************************************************)
AddFile ==
    /\ Len(files) < MaxFiles
    /\ \E c \in Contents : files' = Append(files, c)
    /\ UNCHANGED <<schema, recorded, run, bounds>>

EditFile ==
    /\ edits < MaxEdits
    /\ edits' = edits + 1
    /\ \E v \in DOMAIN files, c \in Contents : files' = [files EXCEPT ![v] = c]
    /\ UNCHANGED <<schema, recorded, run, resets, runs, kills>>

\* demo_reset.sh --all truncates every table of the schema, this one among
\* them, and leaves the tables.  It waits for the runners' transactions.
Reset ==
    /\ resets < MaxResets
    /\ resets' = resets + 1
    /\ \A r \in Runners : run[r].phase \notin {"planned", "applied"}
    /\ recorded' = Nothing
    /\ run' = [r \in Runners |-> [run[r] EXCEPT !.wiped = TRUE]]
    /\ UNCHANGED <<files, schema, edits, runs, kills>>

(***************************************************************************)
(* A run.                                                                  *)
(***************************************************************************)
Becomes(r, phase) == run' = [run EXCEPT ![r].phase = phase]

\* discover_migrations: every file, once.
Discover(r) ==
    /\ run[r].phase \in {"idle", "done", "failed"}
    /\ runs < MaxRuns
    /\ runs' = runs + 1
    /\ run' = [run EXCEPT ![r] = [NoRun EXCEPT !.phase = "read", !.files = files]]
    /\ UNCHANGED <<files, schema, recorded, edits, resets, kills>>

\* Mutant: an edited file is not noticed.
DriftedNever(migrations) == FALSE

\* _assert_no_drift: an applied migration's file was edited since.
Drifted(migrations) ==
    \E v \in DOMAIN migrations : recorded[v] \notin {Null, migrations[v]}

\* pending_migrations.
Pending(migrations) == { v \in DOMAIN migrations : recorded[v] = Null }

\* The applied versions are read, and the transaction that read them stays
\* open.  A run without pending versions ends.  Dry run and status end here in
\* any case and change nothing.
Plan(r) ==
    /\ run[r].phase = "read"
    /\ IF Drifted(run[r].files)
       THEN Becomes(r, "failed")
       ELSE run' = [run EXCEPT
              ![r].pending = Pending(run[r].files),
              ![r].phase = IF Pending(run[r].files) = {} THEN "done" ELSE "planned"]
    /\ UNCHANGED <<files, schema, recorded, bounds>>

\* The pending version that comes first in the order of the files.
IsNext(r, v) ==
    v \in run[r].pending /\ \A u \in run[r].pending : v <= u

\* Mutant: schema_migrations has no primary key.
RefusedUnkeyed(v, c) == c = Broken

\* The SQL fails, or the version has been recorded meanwhile: its insert
\* violates the primary key.
Refused(v, c) == c = Broken \/ recorded[v] # Null

\* The runner's open transaction has built v.
HasOpen(r, v) == run[r].phase = "applied" /\ IsNext(r, v)

\* The runner comes to v.  If another one's open transaction has built it, the
\* DDL or the insert waits for that.
ComesTo(r, v) ==
    /\ run[r].phase \in {"planned", "between"}
    /\ IsNext(r, v)
    /\ \A o \in Runners \ {r} : ~HasOpen(o, v)

\* _apply, up to its commit.
Apply(r, v) ==
    /\ ComesTo(r, v)
    /\ ~Refused(v, run[r].files[v])
    /\ Becomes(r, "applied")
    /\ UNCHANGED <<files, schema, recorded, bounds>>

\* The transaction is rolled back, and the migrations before it stay.
ApplyFails(r, v) ==
    /\ ComesTo(r, v)
    /\ Refused(v, run[r].files[v])
    /\ Becomes(r, "failed")
    /\ UNCHANGED <<files, schema, recorded, bounds>>

\* IF NOT EXISTS: tables that are there stay as they are.
Built(v, c) == IF schema[v] = Null THEN c ELSE schema[v]

Commit(r, v) ==
    LET left == run[r].pending \ {v}
    IN  /\ HasOpen(r, v)
        /\ schema' = [schema EXCEPT ![v] = Built(v, run[r].files[v])]
        /\ recorded' = [recorded EXCEPT ![v] = run[r].files[v]]
        /\ run' = [run EXCEPT ![r].pending = left,
                              ![r].phase = IF left = {} THEN "done" ELSE "between"]
        /\ UNCHANGED <<files, bounds>>

\* The process is killed or its connection breaks: what is not committed is
\* gone.
Kill(r) ==
    /\ run[r].phase \in {"read", "planned", "applied", "between"}
    /\ kills < MaxKills
    /\ kills' = kills + 1
    /\ Becomes(r, "failed")
    /\ UNCHANGED <<files, schema, recorded, edits, resets, runs>>

Step(r) ==
    \/ Discover(r) \/ Plan(r) \/ Kill(r)
    \/ \E v \in Versions : Apply(r, v) \/ ApplyFails(r, v) \/ Commit(r, v)

Next == AddFile \/ EditFile \/ Reset \/ \E r \in Runners : Step(r)

Spec == Init /\ [][Next]_vars

(***************************************************************************)
(* Properties.                                                             *)
(***************************************************************************)
\* Versions are built in the order of the files, over any number of runs,
\* failures and resets; and until a reset schema_migrations says what the
\* schema is: each version was built once, whole, and by the content whose
\* checksum is recorded, although two runs plan from the same table and files
\* change under them (migrate.py:60-98, 134-142, 157-177).  This one carries
\* the type invariant.
SchemaIsSound ==
    /\ TypeOK
    /\ \A u, v \in Versions : u < v /\ schema[v] # Null => schema[u] # Null
    /\ resets = 0 => recorded = schema

\* A run that ends well leaves every migration it found recorded with the
\* content it found, applied by it or by another: a file that was edited after
\* it was applied never passes (migrate.py:112-127).
SuccessMeansCurrent ==
    \A r \in Runners :
        run[r].phase = "done" /\ ~run[r].wiped =>
            \A v \in DOMAIN run[r].files : recorded[v] = run[r].files[v]
=============================================================================
