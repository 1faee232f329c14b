-------------------------- MODULE MigrationsProofs --------------------------
(***************************************************************************)
(* The schema is sound for any number of runners, files, edits and resets. *)
(*                                                                         *)
(* SchemaIsSound is not inductive: it says nothing of the runs that are    *)
(* under way.  What a run has left behind it is in the schema and, unless  *)
(* the demo was reset, recorded as the run found it; what it has in an     *)
(* open transaction is not recorded yet, and no other run has the same     *)
(* version open.                                                           *)
(***************************************************************************)
EXTENDS Migrations, TLAPS

UnderWay == {"planned", "applied", "between"}
Behind(r) == DOMAIN run[r].files \ run[r].pending

InOrder == \A u, v \in Versions : u < v /\ schema[v] # Null => schema[u] # Null

RecordedIsBuilt ==
    /\ resets = 0 => recorded = schema
    /\ \A v \in Versions : recorded[v] # Null => schema[v] # Null

\* A run under way has built what is behind it.
RunsAreAhead ==
    \A r \in Runners : run[r].phase \in UnderWay =>
        \A v \in Behind(r) :
            /\ schema[v] # Null
            /\ ~run[r].wiped => recorded[v] = run[r].files[v]

\* A migration in an open transaction is nobody else's, and not recorded.
OpenIsExclusive ==
    \A r \in Runners, v \in Versions : HasOpen(r, v) =>
        /\ recorded[v] = Null
        /\ \A o \in Runners \ {r} : ~HasOpen(o, v)

IInv ==
    /\ TypeOK
    /\ InOrder
    /\ RecordedIsBuilt
    /\ RunsAreAhead
    /\ OpenIsExclusive
    /\ SuccessMeansCurrent

\* Initially nothing is built, and no run is under way.
LEMMA Initially == Init => IInv
  <1> SUFFICES ASSUME Init PROVE IInv
    OBVIOUS
  <1> USE MigrationsAssumption DEF Init, Nothing, NoRun, Versions
  <1>1. TypeOK
    BY DEF TypeOK, Runs
  <1>2. InOrder /\ RecordedIsBuilt
    BY DEF InOrder, RecordedIsBuilt
  <1>3. RunsAreAhead /\ SuccessMeansCurrent
    BY DEF RunsAreAhead, SuccessMeansCurrent, UnderWay
  <1>4. OpenIsExclusive
    BY DEF OpenIsExclusive, HasOpen
  <1> QED
    BY <1>1, <1>2, <1>3, <1>4 DEF IInv

\* Files added and edited concern no table and no run.
LEMMA DirectoryPreserves == IInv /\ (AddFile \/ EditFile) => IInv'
  <1> SUFFICES ASSUME IInv, AddFile \/ EditFile PROVE IInv'
    OBVIOUS
  <1>1. UNCHANGED <<schema, recorded, run, resets>>
    BY DEF AddFile, EditFile, bounds
  <1>2. files' \in Seq(Contents) /\ Len(files') <= MaxFiles
    <2>1. CASE AddFile
      BY <2>1, MigrationsAssumption DEF AddFile, IInv, TypeOK
    <2>2. CASE EditFile
      BY <2>2 DEF EditFile, IInv, TypeOK
    <2> QED
      BY <2>1, <2>2
  <1>3. {edits', resets', runs', kills'} \subseteq Nat
    BY DEF AddFile, EditFile, bounds, IInv, TypeOK
  <1>4. TypeOK'
    BY <1>1, <1>2, <1>3 DEF IInv, TypeOK
  <1>5. (InOrder /\ RecordedIsBuilt)'
    BY <1>1 DEF IInv, InOrder, RecordedIsBuilt
  <1>6. (RunsAreAhead /\ SuccessMeansCurrent)'
    BY <1>1 DEF IInv, RunsAreAhead, Behind, SuccessMeansCurrent
  <1>7. OpenIsExclusive'
    BY <1>1 DEF IInv, OpenIsExclusive, HasOpen, IsNext
  <1> QED
    BY <1>4, <1>5, <1>6, <1>7 DEF IInv

\* A reset forgets what was recorded; the tables stay, and runs that began
\* before it are marked.
LEMMA ResetPreserves == IInv /\ Reset => IInv'
  <1> SUFFICES ASSUME IInv, Reset PROVE IInv'
    OBVIOUS
  <1>1. /\ UNCHANGED <<files, schema>>
        /\ resets' # 0
        /\ \A v \in Versions : recorded'[v] = Null
    BY DEF Reset, Nothing, IInv, TypeOK
  <1>2. \A r \in Runners :
            /\ run'[r].wiped
            /\ run'[r].phase = run[r].phase
            /\ run'[r].files = run[r].files
            /\ run'[r].pending = run[r].pending
    BY DEF Reset, IInv, TypeOK, Runs
  <1>3. TypeOK'
    <2>1. run' \in [Runners -> Runs]
      <3>1. \A r \in Runners : [run[r] EXCEPT !.wiped = TRUE] \in Runs
        BY DEF IInv, TypeOK, Runs
      <3> QED
        BY <3>1 DEF Reset
    <2>2. recorded' \in [Versions -> Contents \cup {Null}]
      BY DEF Reset, Nothing
    <2>3. {edits', resets', runs', kills'} \subseteq Nat
      BY DEF Reset, IInv, TypeOK
    <2> QED
      BY <1>1, <1>2, <2>1, <2>2, <2>3 DEF IInv, TypeOK
  <1>4. (InOrder /\ RecordedIsBuilt)'
    BY <1>1 DEF IInv, InOrder, RecordedIsBuilt
  <1>5. (RunsAreAhead /\ SuccessMeansCurrent)'
    BY <1>1, <1>2 DEF IInv, RunsAreAhead, Behind, SuccessMeansCurrent
  <1>6. OpenIsExclusive'
    BY <1>1, <1>2 DEF Reset, OpenIsExclusive, HasOpen
  <1> QED
    BY <1>3, <1>4, <1>5, <1>6 DEF IInv

\* A run that starts, or ends in failure, changes no table and has nothing
\* open.
LEMMA QuietPreserves ==
    ASSUME NEW r \in Runners, IInv,
           \/ Discover(r) \/ Kill(r)
           \/ \E v \in Versions : ApplyFails(r, v)
    PROVE  IInv'
  <1>1. UNCHANGED <<files, schema, recorded, resets>>
    BY DEF Discover, Kill, ApplyFails, bounds
  <1>2. /\ run' \in [Runners -> Runs]
        /\ run'[r].phase \in {"read", "failed"}
        /\ run'[r].pending \subseteq DOMAIN run'[r].files
        /\ Len(run'[r].files) <= MaxFiles
        /\ \A o \in Runners \ {r} : run'[o] = run[o]
    <2>1. CASE Discover(r)
      BY <2>1 DEF Discover, NoRun, IInv, TypeOK, Runs
    <2>2. CASE Kill(r) \/ \E v \in Versions : ApplyFails(r, v)
      <3>1. run' = [run EXCEPT ![r].phase = "failed"]
        BY <2>2 DEF Kill, ApplyFails, Becomes
      <3> QED
        BY <3>1 DEF IInv, TypeOK, Runs
    <2> QED
      BY <2>1, <2>2
  <1>3. {edits', resets', runs', kills'} \subseteq Nat
    BY DEF Discover, Kill, ApplyFails, bounds, IInv, TypeOK
  <1>4. TypeOK'
    BY <1>1, <1>2, <1>3 DEF IInv, TypeOK
  <1>5. (InOrder /\ RecordedIsBuilt)'
    BY <1>1 DEF IInv, InOrder, RecordedIsBuilt
  <1>6. (RunsAreAhead /\ SuccessMeansCurrent)'
    BY <1>1, <1>2 DEF IInv, RunsAreAhead, Behind, SuccessMeansCurrent, UnderWay
  <1>7. OpenIsExclusive'
    BY <1>1, <1>2 DEF IInv, OpenIsExclusive, HasOpen, IsNext
  <1> QED
    BY <1>4, <1>5, <1>6, <1>7 DEF IInv

\* What is recorded when a run plans is what its files hold, or it fails.
LEMMA PlanPreserves == ASSUME NEW r \in Runners, IInv, Plan(r) PROVE IInv'
  <1>1. UNCHANGED <<files, schema, recorded, bounds>>
    BY DEF Plan
  <1>2. /\ run' \in [Runners -> Runs]
        /\ run'[r].phase \in {"failed", "planned", "done"}
        /\ run'[r].files = run[r].files
        /\ run'[r].pending \subseteq DOMAIN run'[r].files
        /\ \A o \in Runners \ {r} : run'[o] = run[o]
    <2>1. Pending(run[r].files) \subseteq Versions
      BY MigrationsAssumption DEF Pending, IInv, TypeOK, Runs, Versions
    <2>2. Pending(run[r].files) \subseteq DOMAIN run[r].files
      BY DEF Pending
    <2>3. CASE Drifted(run[r].files)
      <3>1. run' = [run EXCEPT ![r].phase = "failed"]
        BY <2>3 DEF Plan, Becomes
      <3> QED
        BY <3>1 DEF IInv, TypeOK, Runs
    <2>4. CASE ~Drifted(run[r].files)
      <3>1. PICK p \in {"planned", "done"} :
                run' = [run EXCEPT ![r].pending = Pending(run[r].files), ![r].phase = p]
        BY <2>4 DEF Plan
      <3> QED
        BY <2>1, <2>2, <3>1 DEF IInv, TypeOK, Runs
    <2> QED
      BY <2>3, <2>4
  <1>3. run'[r].phase \in {"planned", "done"} =>
            /\ ~Drifted(run[r].files)
            /\ run'[r].pending = Pending(run[r].files)
            /\ run'[r].phase = "done" => Pending(run[r].files) = {}
    BY DEF Plan, Becomes, IInv, TypeOK, Runs
  <1>4. run'[r].phase \in {"planned", "done"} =>
            \A v \in Behind(r)' : recorded[v] = run[r].files[v] /\ recorded[v] # Null
    BY <1>2, <1>3 DEF Behind, Drifted, Pending
  <1>5. DOMAIN run[r].files \subseteq Versions
    BY MigrationsAssumption DEF IInv, TypeOK, Runs, Versions
  <1>6. TypeOK'
    BY <1>1, <1>2 DEF IInv, TypeOK, bounds
  <1>7. (InOrder /\ RecordedIsBuilt)'
    BY <1>1 DEF IInv, InOrder, RecordedIsBuilt, bounds
  <1>8. RunsAreAhead'
    BY <1>1, <1>2, <1>4, <1>5 DEF IInv, RunsAreAhead, Behind, UnderWay, RecordedIsBuilt
  <1>9. SuccessMeansCurrent'
    <2>1. run'[r].phase = "done" =>
              \A v \in DOMAIN run'[r].files : recorded'[v] = run'[r].files[v]
      BY <1>1, <1>2, <1>3, <1>4 DEF Behind
    <2> QED
      BY <1>1, <1>2, <2>1 DEF IInv, SuccessMeansCurrent
  <1>10. OpenIsExclusive'
    BY <1>1, <1>2 DEF IInv, OpenIsExclusive, HasOpen, IsNext
  <1> QED
    BY <1>6, <1>7, <1>8, <1>9, <1>10 DEF IInv

\* A run opens a transaction for a version that nobody else has open.
LEMMA ApplyPreserves ==
    ASSUME NEW r \in Runners, NEW v \in Versions, IInv, Apply(r, v)
    PROVE  IInv'
  <1>1. UNCHANGED <<files, schema, recorded, bounds>>
    BY DEF Apply
  <1>2. /\ run' \in [Runners -> Runs]
        /\ run'[r].phase = "applied"
        /\ run[r].phase \in UnderWay
        /\ run'[r].files = run[r].files
        /\ run'[r].pending = run[r].pending
        /\ run'[r].wiped = run[r].wiped
        /\ \A o \in Runners \ {r} : run'[o] = run[o]
    BY DEF Apply, ComesTo, Becomes, IInv, TypeOK, Runs, UnderWay
  <1>3. /\ recorded[v] = Null
        /\ IsNext(r, v)
        /\ \A o \in Runners \ {r} : ~HasOpen(o, v)
    BY DEF Apply, ComesTo, Refused
  <1>4. TypeOK'
    BY <1>1, <1>2 DEF IInv, TypeOK, bounds
  <1>5. (InOrder /\ RecordedIsBuilt)'
    BY <1>1 DEF IInv, InOrder, RecordedIsBuilt, bounds
  <1>6. (RunsAreAhead /\ SuccessMeansCurrent)'
    BY <1>1, <1>2 DEF IInv, RunsAreAhead, Behind, SuccessMeansCurrent, UnderWay
  <1>7. OpenIsExclusive'
    <2>1. \A u \in Versions : HasOpen(r, u)' => u = v
      <3>1. SUFFICES ASSUME NEW u \in Versions, HasOpen(r, u)' PROVE u = v
        OBVIOUS
      <3>2. u <= v /\ v <= u
        BY <1>2, <1>3, <3>1 DEF HasOpen, IsNext
      <3> QED
        BY <3>2 DEF Versions
    <2>2. \A o \in Runners \ {r}, u \in Versions : HasOpen(o, u)' <=> HasOpen(o, u)
      BY <1>2 DEF HasOpen, IsNext
    <2> QED
      BY <1>1, <1>3, <2>1, <2>2 DEF IInv, OpenIsExclusive
  <1> QED
    BY <1>4, <1>5, <1>6, <1>7 DEF IInv

\* A commit builds the next version of a run, over all that are before it.
LEMMA CommitPreserves ==
    ASSUME NEW r \in Runners, NEW v \in Versions, IInv, Commit(r, v)
    PROVE  IInv'
  <1> DEFINE c == run[r].files[v]
  <1>1. /\ run[r].phase = "applied"
        /\ v \in run[r].pending
        /\ \A u \in run[r].pending : v <= u
        /\ HasOpen(r, v)
    BY DEF Commit, HasOpen, IsNext
  <1>2. c \in Contents /\ c # Null
    BY <1>1, MigrationsAssumption DEF IInv, TypeOK, Runs
  <1>3. recorded[v] = Null /\ \A o \in Runners \ {r} : ~HasOpen(o, v)
    BY <1>1 DEF IInv, OpenIsExclusive
  <1>4. /\ UNCHANGED <<files, bounds>>
        /\ schema' \in [Versions -> Contents \cup {Null}]
        /\ recorded' \in [Versions -> Contents \cup {Null}]
        /\ recorded'[v] = c
        /\ schema'[v] = Built(v, c) /\ schema'[v] # Null
        /\ \A u \in Versions \ {v} : schema'[u] = schema[u] /\ recorded'[u] = recorded[u]
    BY <1>2 DEF Commit, Built, IInv, TypeOK
  <1>5. /\ run' \in [Runners -> Runs]
        /\ run'[r].files = run[r].files
        /\ run'[r].wiped = run[r].wiped
        /\ run'[r].pending = run[r].pending \ {v}
        /\ run'[r].phase = IF run'[r].pending = {} THEN "done" ELSE "between"
        /\ \A o \in Runners \ {r} : run'[o] = run[o]
    BY DEF Commit, IInv, TypeOK, Runs
  <1>6. \A o \in Runners : DOMAIN run[o].files \subseteq Versions
    BY MigrationsAssumption DEF IInv, TypeOK, Runs, Versions
  <1>7. /\ \A u \in Behind(r)' : schema'[u] # Null
        /\ ~run[r].wiped => \A u \in Behind(r)' : recorded'[u] = run[r].files[u]
    <2>1. \A u \in Behind(r)' : u = v \/ u \in Behind(r)
      BY <1>5 DEF Behind
    <2>2. \A u \in Behind(r) :
              /\ u \in Versions \ {v}
              /\ schema[u] # Null
              /\ ~run[r].wiped => recorded[u] = run[r].files[u]
      BY <1>1, <1>6 DEF IInv, RunsAreAhead, UnderWay, Behind
    <2> QED
      BY <1>4, <2>1, <2>2
  <1>8. TypeOK'
    BY <1>4, <1>5 DEF IInv, TypeOK, bounds
  <1>9. InOrder'
    <2>1. \A u \in Versions : u < v => u \in Behind(r)
      BY <1>1 DEF Behind, IInv, TypeOK, Runs, Versions
    <2>2. \A u \in Versions : u < v => schema[u] # Null
      BY <1>1, <2>1 DEF IInv, RunsAreAhead, UnderWay
    <2> QED
      BY <1>4, <2>2 DEF IInv, InOrder, Versions
  <1>10. RecordedIsBuilt'
    <2>1. resets = 0 => recorded' = schema'
      <3>1. SUFFICES ASSUME resets = 0 PROVE recorded' = schema'
        OBVIOUS
      <3>2. recorded = schema
        BY <3>1 DEF IInv, RecordedIsBuilt
      <3>3. schema'[v] = c
        BY <1>3, <1>4, <3>2 DEF Built
      <3>4. \A u \in Versions : recorded'[u] = schema'[u]
        BY <1>4, <3>2, <3>3
      <3> QED
        BY <1>4, <3>4
    <2> QED
      BY <1>4, <2>1 DEF IInv, RecordedIsBuilt, bounds
  <1>11. \A o \in Runners \ {r}, u \in Versions :
             recorded[u] # Null => recorded'[u] = recorded[u]
    BY <1>3, <1>4
  <1>12. RunsAreAhead'
    <2>1. SUFFICES ASSUME NEW o \in Runners, run'[o].phase \in UnderWay,
                          NEW u \in Behind(o)'
                   PROVE  /\ schema'[u] # Null
                          /\ ~run'[o].wiped => recorded'[u] = run'[o].files[u]
      BY DEF RunsAreAhead
    <2>2. CASE o = r
      BY <1>5, <1>7, <2>1, <2>2
    <2>3. CASE o # r
      <3>1. run'[o] = run[o] /\ u \in Behind(o) /\ u \in Versions
        BY <1>5, <1>6, <2>1, <2>3 DEF Behind
      <3>2. /\ schema[u] # Null
            /\ ~run[o].wiped => recorded[u] = run[o].files[u]
        BY <2>1, <3>1 DEF IInv, RunsAreAhead
      <3>3. run[o].files[u] # Null
        BY <3>1, MigrationsAssumption DEF Behind, IInv, TypeOK, Runs
      <3> QED
        BY <1>4, <1>3, <3>1, <3>2, <3>3
    <2> QED
      BY <2>2, <2>3
  <1>13. SuccessMeansCurrent'
    <2>1. SUFFICES ASSUME NEW o \in Runners, run'[o].phase = "done", ~run'[o].wiped,
                          NEW u \in DOMAIN run'[o].files
                   PROVE  recorded'[u] = run'[o].files[u]
      BY DEF SuccessMeansCurrent
    <2>2. CASE o = r
      BY <1>5, <1>7, <2>1, <2>2 DEF Behind
    <2>3. CASE o # r
      <3>1. run'[o] = run[o] /\ u \in Versions
        BY <1>5, <1>6, <2>1, <2>3
      <3>2. recorded[u] = run[o].files[u]
        BY <2>1, <3>1 DEF IInv, SuccessMeansCurrent
      <3>3. run[o].files[u] # Null
        BY <2>1, <3>1, MigrationsAssumption DEF IInv, TypeOK, Runs
      <3> QED
        BY <1>3, <1>4, <3>1, <3>2, <3>3
    <2> QED
      BY <2>2, <2>3
  <1>14. OpenIsExclusive'
    <2>1. \A u \in Versions : ~HasOpen(r, u)'
      BY <1>5 DEF HasOpen
    <2>2. \A o \in Runners \ {r}, u \in Versions : HasOpen(o, u)' <=> HasOpen(o, u)
      BY <1>5 DEF HasOpen, IsNext
    <2> QED
      BY <1>3, <1>4, <2>1, <2>2 DEF IInv, OpenIsExclusive
  <1> QED
    BY <1>8, <1>9, <1>10, <1>12, <1>13, <1>14 DEF IInv

\* Every step keeps the invariant.
LEMMA StepPreserves == IInv /\ [Next]_vars => IInv'
  <1> SUFFICES ASSUME IInv, [Next]_vars PROVE IInv'
    OBVIOUS
  <1>1. CASE AddFile \/ EditFile
    BY <1>1, DirectoryPreserves
  <1>2. CASE Reset
    BY <1>2, ResetPreserves
  <1>3. ASSUME NEW r \in Runners, Step(r) PROVE IInv'
    <2>1. CASE Discover(r) \/ Kill(r) \/ \E v \in Versions : ApplyFails(r, v)
      BY <2>1, QuietPreserves
    <2>2. CASE Plan(r)
      BY <2>2, PlanPreserves
    <2>3. ASSUME NEW v \in Versions, Apply(r, v) PROVE IInv'
      BY <2>3, ApplyPreserves
    <2>4. ASSUME NEW v \in Versions, Commit(r, v) PROVE IInv'
      BY <2>4, CommitPreserves
    <2> QED
      BY <1>3, <2>1, <2>2, <2>3, <2>4 DEF Step
  <1>4. CASE UNCHANGED vars
    BY <1>4 DEF vars, bounds, IInv, TypeOK, InOrder, RecordedIsBuilt, RunsAreAhead,
                Behind, OpenIsExclusive, HasOpen, IsNext, SuccessMeansCurrent
  <1> QED
    BY <1>1, <1>2, <1>3, <1>4 DEF Next

\* The inductive invariant, for any runners, contents and bounds.
THEOREM MigrationsInvariant == Spec => []IInv
  <1>1. IInv /\ [Next]_vars => IInv'
    BY StepPreserves
  <1> QED
    BY Initially, <1>1, PTL DEF Spec

\* The schema is built in the order of the files, and is what is recorded
\* until a reset (migrate.py:60-98, 134-142, 157-177).
THEOREM SchemaIsSoundTheorem == Spec => []SchemaIsSound
  <1>1. IInv => SchemaIsSound
    BY DEF IInv, SchemaIsSound, InOrder, RecordedIsBuilt
  <1> QED
    BY <1>1, MigrationsInvariant, PTL

\* A run that ends well leaves its files recorded (migrate.py:112-127).
THEOREM SuccessMeansCurrentTheorem == Spec => []SuccessMeansCurrent
  <1>1. IInv => SuccessMeansCurrent
    BY DEF IInv
  <1> QED
    BY <1>1, MigrationsInvariant, PTL
=============================================================================
