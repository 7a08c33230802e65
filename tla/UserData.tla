------------------------------ MODULE UserData ------------------------------
(***************************************************************************)
(* The rows of a user's layers in the shared tables of the user data       *)
(* schema, and everybody who writes or removes them: jobs that create a    *)
(* layer (core/layer.py, crud/crud_layer.py, core/tool.py), the orphan     *)
(* clean-up that every failing job runs over the whole user (core/job.py), *)
(* the cron script that runs it too (scripts/delete_orphan_data.py), the   *)
(* deletion of a layer and that of a folder.                               *)
(*                                                                         *)
(* A job creates one layer whose id it knows before it inserts the rows,   *)
(* so jobs stand for their layers.  Rows are inserted before the layer row *)
(* exists: until then they look like orphans.  Every action is one         *)
(* statement, committed on its own (AUTOCOMMIT).                           *)
(***************************************************************************)
EXTENDS Naturals

CONSTANTS
  Imports,   \* file imports: rows in a step, the layer after it
  Tools,     \* one-step tools: rows, layer and project link inside the step
  Oevs,      \* the two-step tool, whose layer is made after the steps
  Existing,  \* layers that are there at the start
  Deletes,   \* deletions of the user's folder
  Crons,     \* the cron job running delete_orphan_data
  NTables,   \* number of user tables (four geometry types in the code)
  TableOf    \* the table of a layer's rows

Jobs == Imports \cup Tools \cup Oevs
Layers == Jobs \cup Existing
Sweepers == Jobs \cup Deletes \cup Crons
Tables == 1..NTables

ASSUME UserDataAssumption ==
  /\ NTables \in Nat \ {0}
  /\ TableOf \in [Layers -> Tables]
  /\ Imports \cap Tools = {} /\ (Imports \cup Tools) \cap Oevs = {}
  /\ Jobs \cap (Existing \cup Deletes \cup Crons) = {}
  /\ Deletes \cap (Existing \cup Crons) = {}

VARIABLES
  rows,      \* rows of a layer: never, new (updated < 20 min ago), old, gone
  layers,    \* the layers that have a row in customer.layer
  folder,    \* does the folder of the layers exist?
  pc,        \* where a job, a folder deletion or the script stands
  sweep,     \* where its delete_orphan_data stands
  table,     \* which table that is at
  known,     \* its copy of the layers with rows in that table (temp_layer)
  victims,   \* layer_ids_to_delete
  left,      \* how many clean-ups are left for a failed job
  fate,      \* history: where did the job fail?
  listed,    \* the layers a folder deletion has loaded and not dealt with
  deleting,  \* layers whose data the user has asked to delete
  unseen,    \* rows inserted after the script's last_run
  marked,    \* those of them that were there when the running script started
  exposed    \* history: some sweep may take these rows for orphans

jobVars == <<pc, left, fate>>
sweepVars == <<sweep, table, known, victims>>
cronVars == <<unseen, marked>>
userVars == <<folder, listed, deleting>>
vars == <<rows, layers, exposed, jobVars, sweepVars, cronVars, userVars>>

Present(l) == rows[l] \in {"new", "old"}

Init ==
  /\ rows = [l \in Layers |-> IF l \in Existing THEN "old" ELSE "never"]
  /\ layers = Existing
  /\ folder = TRUE
  /\ pc = [w \in Sweepers |-> "idle"]
  /\ sweep = [w \in Sweepers |-> "off"]
  /\ table = [w \in Sweepers |-> 1]
  /\ known = [w \in Sweepers |-> {}]
  /\ victims = [w \in Sweepers |-> {}]
  /\ left = [w \in Sweepers |-> 0]
  /\ fate = [j \in Jobs |-> "none"]
  /\ listed = [d \in Deletes |-> {}]
  /\ deleting = {}
  /\ unseen = {}
  /\ marked = {}
  /\ exposed = {}

Goto(w, from, to) == pc[w] = from /\ pc' = [pc EXCEPT ![w] = to]

----------------------------------------------------------------------------
(* A job that creates a layer.                                             *)

StartJob(j) ==
  /\ Goto(j, "idle", "insert")
  /\ UNCHANGED <<rows, layers, exposed, left, fate, sweepVars, cronVars, userVars>>

\* A sweep that has copied the layers of a table but not yet looked for orphans
\* will find rows that appear there in between.
Looking(l) == \E w \in Sweepers : sweep[w] = "select" /\ table[w] = TableOf[l]

Insert(j) ==
  /\ Goto(j, "insert", "inserted")
  /\ rows' = [rows EXCEPT ![j] = "new"]
  /\ unseen' = unseen \cup {j}
  /\ exposed' = IF Looking(j) THEN exposed \cup {j} ELSE exposed
  /\ UNCHANGED <<layers, left, fate, sweepVars, marked, userVars>>

\* A kill noticed when the import's migration is about to start: the step's
\* failure function finds no rows, and import_file carries on without any.
SkipInsert(j) ==
  /\ j \in Imports
  /\ Goto(j, "insert", "create")
  /\ UNCHANGED <<rows, layers, exposed, left, fate, sweepVars, cronVars, userVars>>

AfterInsert(j) ==
  /\ Goto(j, "inserted", IF j \in Imports THEN "create" ELSE "size")
  /\ UNCHANGED <<rows, layers, exposed, left, fate, sweepVars, cronVars, userVars>>

\* create_feature_layer_tool raises unless there are rows; create_internal does
\* not look.
CheckSize(j) ==
  /\ Present(j)
  /\ Goto(j, "size", "create")
  /\ UNCHANGED <<rows, layers, exposed, left, fate, sweepVars, cronVars, userVars>>

CreateLayer(j) ==
  /\ folder                       \* foreign key layer.folder_id
  /\ Goto(j, "create", "link")
  /\ layers' = layers \cup {j}
  /\ UNCHANGED <<rows, exposed, left, fate, sweepVars, cronVars, userVars>>

\* crud_layer_project.create raises if the layer has gone meanwhile; an import
\* without a project does not call it.
LinkLayer(j) ==
  /\ j \in layers \cup Imports
  /\ Goto(j, "link", "linked")
  /\ UNCHANGED <<rows, layers, exposed, left, fate, sweepVars, cronVars, userVars>>

Finish(j) ==
  /\ Goto(j, "linked", "done")
  /\ UNCHANGED <<rows, layers, exposed, left, fate, sweepVars, cronVars, userVars>>

----------------------------------------------------------------------------
(* Failing: run_failure_func in job_log, if a step failed, and in job_init.*)

InStep(j) == j \in Tools \/ pc[j] \in {"insert", "inserted"}

\* Where a failing clean-up starts: at the first table.
BeginSweep(w, n) ==
  /\ sweep' = [sweep EXCEPT ![w] = "snapshot"]
  /\ table' = [table EXCEPT ![w] = 1]
  /\ known' = [known EXCEPT ![w] = {}]
  /\ victims' = [victims EXCEPT ![w] = {}]
  /\ left' = [left EXCEPT ![w] = n]

\* How many sweeps follow: one for the failed step, except an import's, and one in
\* job_init, but a tool that was killed before its only step has just the first.
CleanUps(j) ==
  IF ~InStep(j) \/ j \in Imports THEN {1}
  ELSE IF j \in Tools /\ pc[j] = "insert" THEN {1, 2} ELSE {2}

\* An import's step has a failure function of its own, which deletes the rows
\* (unless it raises, which is swallowed); other steps run the common one.
Fail(j) ==
  /\ pc[j] \in {"insert", "inserted", "size", "create", "link", "linked"}
  /\ pc' = [pc EXCEPT ![j] = "sweep"]
  /\ fate' = [fate EXCEPT ![j] = IF InStep(j) THEN "step"
                                 ELSE IF j \in layers THEN "late" ELSE "tail"]
  /\ \E n \in CleanUps(j) : BeginSweep(j, n)
  /\ \/ UNCHANGED rows
     \/ InStep(j) /\ j \in Imports /\ Present(j) /\ rows' = [rows EXCEPT ![j] = "gone"]
  /\ UNCHANGED <<layers, exposed, cronVars, userVars>>

----------------------------------------------------------------------------
(* delete_orphan_data, table by table.                                     *)

Orphan(l) == Present(l) /\ l \notin layers

Snapshot(w) ==
  /\ sweep[w] = "snapshot"
  /\ sweep' = [sweep EXCEPT ![w] = "select"]
  /\ known' = [known EXCEPT ![w] = {l \in layers : TableOf[l] = table[w]}]
  /\ exposed' = exposed \cup {l \in Layers : TableOf[l] = table[w] /\ Orphan(l)}
  /\ UNCHANGED <<rows, layers, jobVars, table, victims, cronVars, userVars>>

\* Mutant of Recent: the comparison is turned around.
RecentTurned(w, l) == IF w \in Crons THEN l \notin unseen ELSE rows[l] = "old"

\* d.updated_at > last_run: the last 20 minutes, or since the script's last run.
Recent(w, l) == IF w \in Crons THEN l \in unseen ELSE rows[l] = "new"

\* Mutant of Select: the join with the copy of the layers is lost.
SelectAll(w) ==
  /\ sweep[w] = "select"
  /\ sweep' = [sweep EXCEPT ![w] = "delete"]
  /\ victims' = [victims EXCEPT ![w] =
       {l \in Layers : TableOf[l] = table[w] /\ Present(l) /\ Recent(w, l)}]
  /\ known' = [known EXCEPT ![w] = {}]
  /\ UNCHANGED <<rows, layers, exposed, jobVars, table, cronVars, userVars>>

\* Select reads the copy, never the layers themselves.
Select(w) ==
  /\ sweep[w] = "select"
  /\ sweep' = [sweep EXCEPT ![w] = "delete"]
  /\ victims' = [victims EXCEPT ![w] =
       {l \in Layers : TableOf[l] = table[w] /\ Present(l) /\ Recent(w, l) /\ l \notin known[w]}]
  /\ known' = [known EXCEPT ![w] = {}]
  /\ UNCHANGED <<rows, layers, exposed, jobVars, table, cronVars, userVars>>

DeleteVictim(w) ==
  /\ sweep[w] = "delete"
  /\ \E l \in victims[w] :
       /\ victims' = [victims EXCEPT ![w] = @ \ {l}]
       /\ rows' = [rows EXCEPT ![l] = "gone"]
  /\ UNCHANGED <<layers, exposed, jobVars, sweep, table, known, cronVars, userVars>>

\* Mutant of NextTable: the loop does not stop at the last table.
NextTableEndless(w) ==
  /\ sweep[w] = "delete"
  /\ victims[w] = {}
  /\ \/ table' = [table EXCEPT ![w] = @ + 1] /\ sweep' = [sweep EXCEPT ![w] = "snapshot"]
     \/ sweep' = [sweep EXCEPT ![w] = "drop"] /\ UNCHANGED table
  /\ UNCHANGED <<rows, layers, exposed, jobVars, known, victims, cronVars, userVars>>

NextTable(w) ==
  /\ sweep[w] = "delete"
  /\ victims[w] = {}
  /\ IF table[w] < NTables
       THEN /\ table' = [table EXCEPT ![w] = @ + 1]
            /\ sweep' = [sweep EXCEPT ![w] = "snapshot"]
       ELSE /\ sweep' = [sweep EXCEPT ![w] = "drop"]
            /\ UNCHANGED table
  /\ UNCHANGED <<rows, layers, exposed, jobVars, known, victims, cronVars, userVars>>

\* Mutant of DropLayers: one clean-up is enough.
DropLayersOnce(w) ==
  /\ w \notin Crons
  /\ sweep[w] = "drop"
  /\ layers' = layers \ {w}
  /\ sweep' = [sweep EXCEPT ![w] = "off"]
  /\ pc' = [pc EXCEPT ![w] = "failed"]
  /\ UNCHANGED <<rows, exposed, fate, table, known, victims, left, cronVars, userVars>>

\* After the sweep, delete_created_layers; then the next clean-up or the end.
DropLayers(w) ==
  /\ w \notin Crons
  /\ sweep[w] = "drop"
  /\ layers' = layers \ {w}
  /\ IF left[w] > 1
       THEN BeginSweep(w, left[w] - 1) /\ UNCHANGED pc
       ELSE /\ sweep' = [sweep EXCEPT ![w] = "off"]
            /\ pc' = [pc EXCEPT ![w] = "failed"]
            /\ UNCHANGED <<table, known, victims, left>>
  /\ UNCHANGED <<rows, exposed, fate, cronVars, userVars>>

\* A statement of a step's clean-up raises: job_init cleans up once more.
SweepRaises(w) ==
  /\ sweep[w] # "off"
  /\ left[w] > 1
  /\ BeginSweep(w, left[w] - 1)
  /\ fate' = [j \in Jobs |-> IF j = w THEN "late" ELSE fate[j]]
  /\ UNCHANGED <<rows, layers, exposed, pc, cronVars, userVars>>

\* The process dies, or a statement of the last clean-up raises.
Lose(w) ==
  /\ w \notin Crons
  /\ pc[w] \notin {"idle", "done", "failed", "refused", "lost"}
  /\ pc' = [pc EXCEPT ![w] = "lost"]
  /\ sweep' = [sweep EXCEPT ![w] = "off"]
  /\ UNCHANGED <<rows, layers, exposed, left, fate, table, known, victims, cronVars, userVars>>

----------------------------------------------------------------------------
(* scripts/delete_orphan_data.py: last_run becomes the time this run began.*)

StartCron(c) ==
  /\ Goto(c, "idle", "sweep")
  /\ BeginSweep(c, 1)
  /\ marked' = unseen
  /\ UNCHANGED <<rows, layers, exposed, fate, unseen, userVars>>

EndCron(c) ==
  /\ c \in Crons
  /\ sweep[c] = "drop"
  /\ Goto(c, "sweep", "idle")
  /\ sweep' = [sweep EXCEPT ![c] = "off"]
  /\ unseen' = unseen \ marked
  /\ UNCHANGED <<rows, layers, exposed, left, fate, table, known, victims, marked, userVars>>

CronDies(c) ==
  /\ Goto(c, "sweep", "idle")
  /\ sweep' = [sweep EXCEPT ![c] = "off"]
  /\ UNCHANGED <<rows, layers, exposed, left, fate, table, known, victims, cronVars, userVars>>

----------------------------------------------------------------------------
(* The user deletes a layer: first its rows, then its row.                 *)

DeleteData(l) ==
  /\ l \in layers \ deleting
  /\ deleting' = deleting \cup {l}
  /\ rows' = [rows EXCEPT ![l] = IF Present(l) THEN "gone" ELSE @]
  /\ UNCHANGED <<layers, exposed, jobVars, sweepVars, cronVars, folder, listed>>

DeleteRow(l) ==
  /\ l \in deleting \cap layers
  /\ layers' = layers \ {l}
  /\ UNCHANGED <<rows, exposed, jobVars, sweepVars, cronVars, userVars>>

(* The user deletes the folder: load its layers, remove it (the layers go  *)
(* with it), then ask for a job, and let the job delete the rows.          *)

LoadFolder(d) ==
  /\ Goto(d, "idle", "remove")
  /\ listed' = [listed EXCEPT ![d] = layers]
  /\ UNCHANGED <<rows, layers, exposed, left, fate, sweepVars, cronVars, folder, deleting>>

RemoveFolder(d) ==
  /\ Goto(d, "remove", "check")
  /\ folder' = FALSE
  /\ layers' = {}
  /\ UNCHANGED <<rows, exposed, left, fate, sweepVars, cronVars, listed, deleting>>

\* check_and_create lets the job in, or raises "You can only run ... jobs".
AdmitDeletion(d) ==
  /\ \/ Goto(d, "check", "delete")
     \/ Goto(d, "check", "refused")
  /\ UNCHANGED <<rows, layers, exposed, left, fate, sweepVars, cronVars, userVars>>

DeleteListed(d) ==
  /\ pc[d] = "delete"
  /\ \E l \in listed[d] :
       /\ listed' = [listed EXCEPT ![d] = @ \ {l}]
       /\ rows' = [rows EXCEPT ![l] = IF Present(l) THEN "gone" ELSE @]
  /\ UNCHANGED <<layers, exposed, jobVars, sweepVars, cronVars, folder, deleting>>

EndDeletion(d) ==
  /\ Goto(d, "delete", "done")
  /\ listed[d] = {}
  /\ UNCHANGED <<rows, layers, exposed, left, fate, sweepVars, cronVars, userVars>>

\* Killed before its step: the failure function runs once, no row is deleted.
KillDeletion(d) ==
  /\ Goto(d, "check", "sweep")
  /\ BeginSweep(d, 1)
  /\ UNCHANGED <<rows, layers, exposed, fate, cronVars, userVars>>

FailDeletion(d) ==
  /\ Goto(d, "delete", "sweep")
  /\ BeginSweep(d, 2)
  /\ UNCHANGED <<rows, layers, exposed, fate, cronVars, userVars>>

\* Twenty minutes pass.
AgeRows(l) ==
  /\ rows[l] = "new"
  /\ rows' = [rows EXCEPT ![l] = "old"]
  /\ UNCHANGED <<layers, exposed, jobVars, sweepVars, cronVars, userVars>>
----------------------------------------------------------------------------
JobStep(j) ==
  \/ StartJob(j) \/ Insert(j) \/ SkipInsert(j) \/ AfterInsert(j) \/ CheckSize(j)
  \/ CreateLayer(j) \/ LinkLayer(j) \/ Finish(j) \/ Fail(j)

SweepStep(w) ==
  \/ Snapshot(w) \/ Select(w) \/ DeleteVictim(w) \/ NextTable(w)
  \/ DropLayers(w) \/ SweepRaises(w) \/ Lose(w)

CronStep(c) == StartCron(c) \/ EndCron(c) \/ CronDies(c)

DeletionStep(d) ==
  \/ LoadFolder(d) \/ RemoveFolder(d) \/ AdmitDeletion(d) \/ DeleteListed(d)
  \/ EndDeletion(d) \/ KillDeletion(d) \/ FailDeletion(d)

Next ==
  \/ \E j \in Jobs : JobStep(j)
  \/ \E w \in Sweepers : SweepStep(w)
  \/ \E c \in Crons : CronStep(c)
  \/ \E d \in Deletes : DeletionStep(d)
  \/ \E l \in Layers : DeleteData(l) \/ DeleteRow(l) \/ AgeRows(l)

Spec == Init /\ [][Next]_vars

----------------------------------------------------------------------------
(* Properties.                                                             *)

\* Type invariant.
TypeOK ==
  /\ rows \in [Layers -> {"never", "new", "old", "gone"}]
  /\ layers \subseteq Layers
  /\ folder \in BOOLEAN
  /\ pc \in [Sweepers ->
       {"idle", "insert", "inserted", "size", "create", "link", "linked", "done",
        "sweep", "failed", "lost", "remove", "check", "delete", "refused"}]
  /\ sweep \in [Sweepers -> {"off", "snapshot", "select", "delete", "drop"}]
  /\ table \in [Sweepers -> Tables]
  /\ known \in [Sweepers -> SUBSET Layers]
  /\ victims \in [Sweepers -> SUBSET Layers]
  /\ left \in [Sweepers -> 0..2]
  /\ fate \in [Jobs -> {"none", "step", "tail", "late"}]
  /\ listed \in [Deletes -> SUBSET Layers]
  /\ deleting \subseteq Layers
  /\ unseen \subseteq Layers
  /\ marked \subseteq Layers
  /\ exposed \subseteq Layers

\* However many jobs fail and however often the script runs, a layer loses its rows
\* only by its user's request, or when some sweep copied the layers of its table
\* before the layer was created and looked for orphans after its rows were.
OnlyExposedRowsAreSwept ==
  \A l \in layers : rows[l] = "gone" => l \in deleting \cup exposed

\* A job that failed has withdrawn its layer, and its rows too unless they are more
\* than 20 minutes old: the first clean-up of a step still finds the layer and leaves
\* its rows, the second finds orphans.  Rows stay behind only when there was no
\* second clean-up after the layer existed.
FailedJobLeavesNothing ==
  \A j \in Jobs :
    pc[j] = "failed" =>
      j \notin layers /\ (rows[j] = "new" => fate[j] = "late")

\* What the comment in run_failure_func says ("Delete all orphan data that is older
\* then 20 minutes"): the clean-up leaves fresh rows alone, so a job that finishes
\* still has the rows it inserted unless the user removed them.
FreshRowsSurviveCleanUp ==
  \A j \in Jobs : pc[j] = "done" /\ rows[j] = "gone" => j \in deleting \/ ~folder

\* What the summary of the folder endpoint says ("Delete a folder and all its
\* contents"): when it has answered, no rows of a layer in the folder are left.
FolderContentsDeleted ==
  \A d \in Deletes :
    pc[d] \in {"done", "refused"} => \A l \in Existing : ~Orphan(l)
============================================================================
