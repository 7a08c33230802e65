--------------------------- MODULE UserDataProofs ---------------------------
(***************************************************************************)
(* Proofs about UserData, for any jobs, tables, deletions and scripts.     *)
(***************************************************************************)
EXTENDS UserData, TLAPS

Uncreated == {"idle", "insert", "inserted", "size", "create"}

\* A layer of a job that has not come to create it is nobody's yet.
NotYetKnown(j) ==
  pc[j] \in Uncreated =>
    j \notin layers /\ j \notin deleting /\ \A d \in Deletes : j \notin listed[d]

\* A folder deletion that deletes rows has no layers left to hurt.
FolderGone ==
  /\ ~folder => layers = {}
  /\ \A d \in Deletes : pc[d] \in {"check", "delete"} => ~folder

\* Whatever a sweep is going to delete is exposed.
SweepsSeeExposed(w) ==
  /\ victims[w] \subseteq exposed
  /\ sweep[w] = "select" =>
       \A l \in Layers : TableOf[l] = table[w] /\ Present(l) => l \in known[w] \cup exposed

\* Rows that went are accounted for, before and after the layer is created.
GoneExplained(l) ==
  rows[l] = "gone" =>
    /\ l \in layers => l \in deleting \cup exposed
    /\ l \in Jobs /\ pc[l] \in Uncreated => l \in exposed

\* Has the sweep of w passed the rows of l?
Passed(w, l) ==
  \/ table[w] > TableOf[l]
  \/ sweep[w] = "drop"
  \/ table[w] = TableOf[l] /\ sweep[w] = "delete" /\ l \notin victims[w]

\* The last clean-up of a job that did not create its layer under one alone.
LastCleanUp(j) ==
  /\ pc[j] = "sweep" <=> sweep[j] # "off"
  /\ pc[j] = "sweep" => left[j] >= 1
  /\ pc[j] = "sweep" /\ left[j] = 1 /\ fate[j] # "late" =>
       /\ j \notin layers
       /\ j \notin known[j]
       /\ Passed(j, j) => rows[j] # "new"
  /\ pc[j] = "failed" => j \notin layers /\ (rows[j] = "new" => fate[j] = "late")

IInv ==
  /\ TypeOK
  /\ FolderGone
  /\ \A j \in Jobs : NotYetKnown(j) /\ LastCleanUp(j)
  /\ \A w \in Sweepers : SweepsSeeExposed(w)
  /\ \A l \in Layers : GoneExplained(l)
----------------------------------------------------------------------------
\* The initial states satisfy the invariant.
LEMMA InitInv == Init => IInv
<1> SUFFICES ASSUME Init PROVE IInv
  OBVIOUS
<1> USE UserDataAssumption DEF Init
<1>1. TypeOK
  BY DEF TypeOK, Layers, Sweepers, Jobs, Tables
<1>2. FolderGone
  BY DEF FolderGone, Sweepers
<1>3. ASSUME NEW j \in Jobs PROVE NotYetKnown(j) /\ LastCleanUp(j)
  BY DEF NotYetKnown, LastCleanUp, Sweepers, Layers
<1>4. ASSUME NEW w \in Sweepers PROVE SweepsSeeExposed(w)
  BY DEF SweepsSeeExposed
<1>5. ASSUME NEW l \in Layers PROVE GoneExplained(l)
  BY DEF GoneExplained
<1> QED BY <1>1, <1>2, <1>3, <1>4, <1>5 DEF IInv

\* A job on its way to its layer keeps the invariant.
LEMMA JobStepInv ==
  ASSUME IInv, NEW j \in Jobs, JobStep(j)
  PROVE  IInv'
<1> USE UserDataAssumption DEF IInv, TypeOK, FolderGone, NotYetKnown, LastCleanUp, SweepsSeeExposed,
        GoneExplained, Passed, Uncreated, Present, Sweepers, Tables, Goto,
        jobVars, sweepVars, cronVars, userVars
<1>0. /\ j \in Sweepers /\ j \in Layers /\ j \notin Deletes /\ j \notin Crons /\ j \notin Existing
      /\ Jobs \subseteq Layers
  BY DEF Layers
<1>StartJob. CASE StartJob(j)
  BY <1>0, <1>StartJob DEF StartJob
<1>Insert. CASE Insert(j)
  BY <1>0, <1>Insert DEF Insert, Looking
<1>SkipInsert. CASE SkipInsert(j)
  BY <1>0, <1>SkipInsert DEF SkipInsert
<1>AfterInsert. CASE AfterInsert(j)
  BY <1>0, <1>AfterInsert DEF AfterInsert
<1>CheckSize. CASE CheckSize(j)
  BY <1>0, <1>CheckSize DEF CheckSize
<1>CreateLayer. CASE CreateLayer(j)
  BY <1>0, <1>CreateLayer DEF CreateLayer
<1>LinkLayer. CASE LinkLayer(j)
  BY <1>0, <1>LinkLayer DEF LinkLayer
<1>Finish. CASE Finish(j)
  BY <1>0, <1>Finish DEF Finish
<1>Fail. CASE Fail(j)
  <2> USE <1>0, <1>Fail DEF Fail, BeginSweep
  <2>1. TypeOK'
    BY DEF InStep, CleanUps
  <2>2. FolderGone'
    OBVIOUS
  <2>3. ASSUME NEW i \in Jobs PROVE NotYetKnown(i)' /\ LastCleanUp(i)'
    BY DEF InStep, CleanUps
  <2>4. ASSUME NEW w \in Sweepers PROVE SweepsSeeExposed(w)'
    OBVIOUS
  <2>5. ASSUME NEW l \in Layers PROVE GoneExplained(l)'
    BY DEF InStep, CleanUps
  <2> QED BY <2>1, <2>2, <2>3, <2>4, <2>5
<1> QED
  BY <1>StartJob, <1>Insert, <1>SkipInsert, <1>AfterInsert, <1>CheckSize, <1>CreateLayer,
     <1>LinkLayer, <1>Finish, <1>Fail DEF JobStep

\* A clean-up, of a failed job, a failed deletion or the script, keeps the invariant.
LEMMA SweepStepInv ==
  ASSUME IInv, NEW w \in Sweepers, SweepStep(w)
  PROVE  IInv'
<1> USE UserDataAssumption DEF IInv, TypeOK, FolderGone, NotYetKnown, LastCleanUp, SweepsSeeExposed,
        GoneExplained, Passed, Uncreated, Present, Sweepers, Tables, Goto,
        jobVars, sweepVars, cronVars, userVars
<1>0. Jobs \subseteq Layers /\ Jobs \subseteq Sweepers
  BY DEF Layers
<1>Snapshot. CASE Snapshot(w)
  BY <1>0, <1>Snapshot, SMTT(40) DEF Snapshot, Orphan
<1>Select. CASE Select(w)
  BY <1>0, <1>Select, SMTT(40) DEF Select, Recent
<1>DeleteVictim. CASE DeleteVictim(w)
  BY <1>0, <1>DeleteVictim, SMTT(40) DEF DeleteVictim
<1>NextTable. CASE NextTable(w)
  <2>1. rows' = rows /\ layers' = layers /\ pc' = pc /\ UNCHANGED <<exposed, left, fate, known, victims>>
    BY <1>NextTable DEF NextTable
  <2>2. TypeOK'
    BY <1>NextTable DEF NextTable
  <2>3. FolderGone' /\ \A j \in Jobs : NotYetKnown(j)'
    BY <1>NextTable DEF NextTable
  <2>4. \A v \in Sweepers : SweepsSeeExposed(v)'
    BY <1>NextTable DEF NextTable
  <2>5. \A l \in Layers : GoneExplained(l)'
    BY <1>NextTable DEF NextTable
  <2>6. ASSUME NEW j \in Jobs PROVE LastCleanUp(j)'
    <3>1. j \in Sweepers /\ j \in Layers
      BY <1>0
    <3>2. CASE j # w
      BY <2>1, <3>1, <3>2, <1>NextTable DEF NextTable
    <3>3. CASE j = w
      <4>1. victims[w] = {} /\ sweep[w] = "delete"
        BY <1>NextTable DEF NextTable
      <4>2. CASE table[w] < NTables
        <5>1. sweep'[j] = "snapshot" /\ table'[j] = table[j] + 1
          BY <1>NextTable, <4>2, <3>1, <3>3 DEF NextTable
        <5>2. Passed(j, j)' => Passed(j, j)
          BY <5>1, <4>1, <3>1, <3>3
        <5> QED BY <2>1, <4>1, <5>1, <5>2, <3>1, <3>3
      <4>3. CASE ~(table[w] < NTables)
        <5>1. sweep'[j] = "drop"
          BY <1>NextTable, <4>3, <3>1, <3>3 DEF NextTable
        <5>2. Passed(j, j)
          BY <4>1, <4>3, <3>1, <3>3
        <5> QED BY <2>1, <4>1, <5>1, <5>2, <3>1, <3>3
      <4> QED BY <4>2, <4>3
    <3> QED BY <3>2, <3>3
  <2> QED BY <2>2, <2>3, <2>4, <2>5, <2>6
<1>DropLayers. CASE DropLayers(w)
  BY <1>0, <1>DropLayers, SMTT(40) DEF DropLayers, BeginSweep
<1>SweepRaises. CASE SweepRaises(w)
  BY <1>0, <1>SweepRaises, SMTT(40) DEF SweepRaises, BeginSweep
<1>Lose. CASE Lose(w)
  BY <1>0, <1>Lose, SMTT(40) DEF Lose
<1> QED
  BY <1>Snapshot, <1>Select, <1>DeleteVictim, <1>NextTable, <1>DropLayers, <1>SweepRaises, <1>Lose DEF SweepStep

\* The start and the end of the script keep the invariant.
LEMMA CronStepInv ==
  ASSUME IInv, NEW c \in Crons, CronStep(c)
  PROVE  IInv'
<1> USE UserDataAssumption DEF IInv, TypeOK, FolderGone, NotYetKnown, LastCleanUp, SweepsSeeExposed,
        GoneExplained, Passed, Uncreated, Present, Sweepers, Tables, Goto,
        jobVars, sweepVars, cronVars, userVars
<1>0. Jobs \subseteq Layers /\ c \in Sweepers /\ c \notin Jobs /\ c \notin Deletes
  BY DEF Layers
<1>StartCron. CASE StartCron(c)
  BY <1>0, <1>StartCron, SMTT(40) DEF StartCron, BeginSweep
<1>EndCron. CASE EndCron(c)
  BY <1>0, <1>EndCron DEF EndCron
<1>CronDies. CASE CronDies(c)
  BY <1>0, <1>CronDies DEF CronDies
<1> QED
  BY <1>StartCron, <1>EndCron, <1>CronDies DEF CronStep

\* A folder deletion keeps the invariant.
LEMMA DeletionStepInv ==
  ASSUME IInv, NEW d \in Deletes, DeletionStep(d)
  PROVE  IInv'
<1> USE UserDataAssumption DEF IInv, TypeOK, FolderGone, NotYetKnown, LastCleanUp, SweepsSeeExposed,
        GoneExplained, Passed, Uncreated, Present, Sweepers, Tables, Goto,
        jobVars, sweepVars, cronVars, userVars
<1>0. Jobs \subseteq Layers /\ d \in Sweepers /\ d \notin Jobs /\ d \notin Crons
  BY DEF Layers
<1>LoadFolder. CASE LoadFolder(d)
  BY <1>0, <1>LoadFolder DEF LoadFolder
<1>RemoveFolder. CASE RemoveFolder(d)
  BY <1>0, <1>RemoveFolder DEF RemoveFolder
<1>AdmitDeletion. CASE AdmitDeletion(d)
  BY <1>0, <1>AdmitDeletion DEF AdmitDeletion
<1>DeleteListed. CASE DeleteListed(d)
  BY <1>0, <1>DeleteListed DEF DeleteListed
<1>EndDeletion. CASE EndDeletion(d)
  BY <1>0, <1>EndDeletion DEF EndDeletion
<1>KillDeletion. CASE KillDeletion(d)
  BY <1>0, <1>KillDeletion, SMTT(40) DEF KillDeletion, BeginSweep
<1>FailDeletion. CASE FailDeletion(d)
  BY <1>0, <1>FailDeletion, SMTT(40) DEF FailDeletion, BeginSweep
<1> QED
  BY <1>LoadFolder, <1>RemoveFolder, <1>AdmitDeletion, <1>DeleteListed, <1>EndDeletion, <1>KillDeletion,
     <1>FailDeletion DEF DeletionStep

\* The deletion of a layer and the passing of time keep the invariant.
LEMMA LayerStepInv ==
  ASSUME IInv, NEW l \in Layers, DeleteData(l) \/ DeleteRow(l) \/ AgeRows(l)
  PROVE  IInv'
<1> USE UserDataAssumption DEF IInv, TypeOK, FolderGone, NotYetKnown, LastCleanUp, SweepsSeeExposed,
        GoneExplained, Passed, Uncreated, Present, Sweepers, Tables, Goto,
        jobVars, sweepVars, cronVars, userVars
<1>0. Jobs \subseteq Layers
  BY DEF Layers
<1>1. CASE DeleteData(l)
  BY <1>0, <1>1 DEF DeleteData
<1>2. CASE DeleteRow(l)
  BY <1>0, <1>2 DEF DeleteRow
<1>3. CASE AgeRows(l)
  BY <1>0, <1>3 DEF AgeRows
<1> QED BY <1>1, <1>2, <1>3

\* Every step keeps the invariant.
LEMMA NextInv == IInv /\ [Next]_vars => IInv'
<1> SUFFICES ASSUME IInv, [Next]_vars PROVE IInv'
  OBVIOUS
<1>1. CASE UNCHANGED vars
  BY <1>1 DEF vars, jobVars, sweepVars, cronVars, userVars, IInv, TypeOK, FolderGone,
     NotYetKnown, LastCleanUp, SweepsSeeExposed, GoneExplained, Passed, Present
<1>2. CASE Next
  BY <1>2, JobStepInv, SweepStepInv, CronStepInv, DeletionStepInv, LayerStepInv DEF Next
<1> QED BY <1>1, <1>2

\* The inductive invariant holds in every reachable state.
THEOREM Invariance == Spec => []IInv
BY InitInv, NextInv, PTL DEF Spec

\* Every variable keeps its type.
THEOREM TypeCorrect == Spec => []TypeOK
<1>1. IInv => TypeOK
  BY DEF IInv
<1> QED BY <1>1, Invariance, PTL

\* For any jobs and any sweeps: a layer that has lost its rows was deleted by its user
\* or was exposed while it was being created.
THEOREM OnlyExposed == Spec => []OnlyExposedRowsAreSwept
<1>1. IInv => OnlyExposedRowsAreSwept
  BY DEF IInv, TypeOK, GoneExplained, OnlyExposedRowsAreSwept
<1> QED BY <1>1, Invariance, PTL

\* For any jobs and any sweeps: a failed job has left no layer, and fresh rows only
\* when no second clean-up followed the first.
THEOREM NothingLeft == Spec => []FailedJobLeavesNothing
<1>1. IInv => FailedJobLeavesNothing
  BY DEF IInv, LastCleanUp, FailedJobLeavesNothing
<1> QED BY <1>1, Invariance, PTL
=============================================================================
