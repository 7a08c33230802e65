---------------------------- MODULE DatasetUpdate ----------------------------
(***************************************************************************)
(* Updating the dataset of a layer (CRUDLayerDatasetUpdate, crud/          *)
(* crud_layer.py): import a new layer under a name of its own, point every *)
(* project's link at it, delete the old layer, give the new one the old    *)
(* name.  Several updates, imports and the user work in one folder, whose  *)
(* layer names are unique.  Each action is one committed statement.        *)
(*                                                                         *)
(* A job creates one layer and stands for it.  A name is the sequence of   *)
(* counters appended to the dataset's name: "roads (1) (2)" is <<1, 2>>.   *)
(***************************************************************************)
EXTENDS Integers, Sequences, FiniteSets

CONSTANTS
  Updates,     \* jobs that update the dataset of a layer
  Imports,     \* jobs that make another layer in the same folder
  Existing,    \* layers that are there at the start
  Deletes,     \* requests of the user that delete a layer
  Links,       \* layer_project rows, each made once
  UserNames    \* names the user gives to layers

Jobs == Updates \cup Imports
Layers == Jobs \cup Existing
Deleters == Updates \cup Deletes
LayerNames == Seq(Nat)

ASSUME DatasetUpdateAssumption ==
  /\ IsFiniteSet(Layers)
  /\ Jobs \cap Existing = {} /\ Updates \cap Imports = {} /\ Deletes \cap Layers = {}
  /\ UserNames \subseteq LayerNames
  /\ "none" \notin Layers /\ "gone" \notin Layers

VARIABLES
  layers,     \* layer rows
  data,       \* layers with rows in the user tables
  name,       \* layer.name of a layer that exists
  link,       \* the layer a link shows, "none" before and "gone" after its life
  pc,         \* where a job or request stands
  target,     \* the layer to be updated or deleted
  original,   \* original_name: the name in the request
  new_name,   \* what check_and_alter_layer_name returned
  doomed,     \* links a session has loaded to delete them with their layer
  skipped,    \* jobs killed before their migration
  removed,    \* history: layers whose rows the user has deleted
  renamed,    \* history: layers that were given another name
  swept,      \* history: layers whose rows a clean-up took before they were there
  excused,    \* history: links that went, or may go, for a known reason
  early       \* history: imports that had chosen its name when an update began

dbVars == <<layers, data, name, link>>
jobVars == <<target, original, new_name, doomed, skipped>>
histVars == <<removed, renamed, swept, excused, early>>
vars == <<dbVars, pc, jobVars, histVars>>

Init ==
  /\ layers = Existing
  /\ data = Existing
  /\ name \in [Layers -> {<<>>} \cup {<<n>> : n \in 1..(Cardinality(Existing) - 1)}]
  /\ \A l \in Layers \ Existing : name[l] = <<>>
  /\ \A l, m \in Existing : name[l] = name[m] => l = m
  /\ link = [i \in Links |-> "none"]
  /\ pc = [w \in Jobs \cup Deletes |-> "idle"]
  /\ target = [w \in Deleters |-> w]
  /\ original = [j \in Jobs |-> <<>>]
  /\ new_name = [j \in Jobs |-> <<>>]
  /\ doomed = [w \in Deleters |-> {}]
  /\ skipped = {}
  /\ removed = {} /\ renamed = {} /\ swept = {} /\ excused = {}
  /\ early = [j \in Updates |-> {}]

Goto(j, from, to) == pc[j] = from /\ pc' = [pc EXCEPT ![j] = to]

Names == {name[l] : l \in layers}
LinksOf(l) == {i \in Links : link[i] = l}

\* UNIQUE (folder_id, name).
NameFree(l, n) == \A m \in layers \ {l} : name[m] # n

\* Links die: with their layer, by cascade, or one by one.
Unlink(ls) == link' = [i \in Links |-> IF i \in ls THEN "gone" ELSE link[i]]

----------------------------------------------------------------------------
(* The import.                                                             *)

AboutToTake(n) == {i \in Imports : pc[i] = "create" /\ new_name[i] = n}

\* Mutant of StartUpdate: the layer's id is remembered for its name.
StartUpdateById(j) ==
  /\ \E l \in layers :
       /\ target' = [target EXCEPT ![j] = l]
       /\ original' = [original EXCEPT ![j] = l]
       /\ early' = [early EXCEPT ![j] = AboutToTake(name[l])]
  /\ Goto(j, "idle", "migrate")
  /\ UNCHANGED <<dbVars, new_name, doomed, skipped, removed, renamed, swept, excused>>

StartUpdate(j) ==
  /\ \E l \in layers :
       /\ target' = [target EXCEPT ![j] = l]
       /\ original' = [original EXCEPT ![j] = name[l]]
       /\ early' = [early EXCEPT ![j] = AboutToTake(name[l])]
  /\ Goto(j, "idle", "migrate")
  /\ UNCHANGED <<dbVars, new_name, doomed, skipped, removed, renamed, swept, excused>>

\* Mutant of Migrate: the rows are inserted under the old layer's id.
MigrateIntoOld(j) ==
  /\ Goto(j, "migrate", "name")
  /\ data' = data \cup {target[j]}
  /\ UNCHANGED <<layers, name, link, jobVars, histVars>>

Migrate(j) ==
  /\ Goto(j, "migrate", "name")
  /\ data' = data \cup {j}
  /\ UNCHANGED <<layers, name, link, jobVars, histVars>>

\* job_log finds the job killed and returns {"status": "killed"}, which nobody
\* looks at before the layer is created.
SkipMigration(j) ==
  /\ Goto(j, "migrate", "name")
  /\ skipped' = skipped \cup {j}
  /\ UNCHANGED <<dbVars, target, original, new_name, doomed, histVars>>

\* The numbers n of the names "base (n)"; highest_num is the highest, or 0.
Numbers(base, names) == {n[Len(n)] : n \in {m \in names \ {<<>>} : m = Append(base, m[Len(m)])}}
IsHighest(highest_num, base, names) ==
  /\ highest_num \in Numbers(base, names) \cup {0}
  /\ \A n \in Numbers(base, names) : n <= highest_num

\* Mutant of AlteredName: numbered names are not looked for when the name is free.
AlteredNameUnlessTaken(base, names, highest_num) ==
  IF base \in names THEN Append(base, highest_num + 1) ELSE base

AlteredName(base, names, highest_num) ==
  IF base \in names \/ highest_num > 0 THEN Append(base, highest_num + 1) ELSE base

check_and_alter_layer_name(j) ==
  /\ Goto(j, "name", "create")
  /\ \E h \in Numbers(original[j], Names) \cup {0} :
       /\ IsHighest(h, original[j], Names)
       /\ new_name' = [new_name EXCEPT ![j] = AlteredName(original[j], Names, h)]
  /\ UNCHANGED <<dbVars, target, original, doomed, skipped, histVars>>

\* Any other job that makes a layer in the folder; its own life is in module Job.
StartImport(j) ==
  /\ \E n \in UserNames : \E h \in Numbers(n, Names) \cup {0} :
       /\ IsHighest(h, n, Names)
       /\ original' = [original EXCEPT ![j] = n]
       /\ new_name' = [new_name EXCEPT ![j] = AlteredName(n, Names, h)]
  /\ Goto(j, "idle", "create")
  /\ data' = data \cup {j}
  /\ UNCHANGED <<layers, name, link, target, doomed, skipped, histVars>>

\* A file with geometry makes a feature layer, for which label_cluster_keep commits; a
\* table layer leaves the session inside a transaction ("begun").
CreateLayer(j) ==
  /\ NameFree(j, new_name[j])
  /\ \/ j \in Imports /\ Goto(j, "create", "done")
     \/ j \in Updates /\ Goto(j, "create", "repoint")
     \/ j \in Updates /\ Goto(j, "create", "begun")
  /\ layers' = layers \cup {j}
  /\ name' = [name EXCEPT ![j] = new_name[j]]
  /\ UNCHANGED <<data, link, jobVars, histVars>>

----------------------------------------------------------------------------
(* The swap.  async_session.begin() raises if a transaction has begun, so  *)
(* at "begun" a job can only fail.                                         *)

\* A link that comes to a layer whose links an update has already moved is too late.
TooLate(l) ==
  \E j \in Updates : target[j] = l /\ pc[j] \in {"find", "delete_row"}

\* Mutant of update_layer_id: the two ids are swapped.
update_layer_idSwapped(j) ==
  /\ Goto(j, "repoint", "find")
  /\ link' = [i \in Links |-> IF link[i] = j THEN target[j] ELSE link[i]]
  /\ UNCHANGED <<layers, data, name, jobVars, histVars>>

update_layer_id(j) ==
  /\ LinksOf(target[j]) # {} => j \in layers        \* foreign key
  /\ Goto(j, "repoint", "find")
  /\ link' = [i \in Links |-> IF link[i] = target[j] THEN j ELSE link[i]]
  /\ excused' = IF TooLate(j) THEN excused \cup LinksOf(target[j]) ELSE excused
  /\ UNCHANGED <<layers, data, name, jobVars, removed, renamed, swept, early>>

StartDelete(d) ==
  /\ \E l \in layers : target' = [target EXCEPT ![d] = l]
  /\ Goto(d, "idle", "find")
  /\ UNCHANGED <<dbVars, original, new_name, doomed, skipped, histVars>>

(* CRUDLayer.delete, for the update's old layer and for the user.  Finding *)
(* the layer, deleting its rows and loading its links (db.delete does, for *)
(* the ORM's cascade) is one action: nobody else's step depends on the     *)
(* rows of a layer, so the three can be taken together at the last one.    *)

DeleteData(w) ==
  /\ target[w] \in layers
  /\ Goto(w, "find", "delete_row")
  /\ data' = data \ {target[w]}
  /\ doomed' = [doomed EXCEPT ![w] = LinksOf(target[w])]
  /\ removed' = IF w \in Deletes THEN removed \cup {target[w]} ELSE removed
  /\ UNCHANGED <<layers, name, link, target, original, new_name, skipped, renamed, swept,
                 excused, early>>

\* The flush deletes the loaded links by id, whatever they show by then, and the layer,
\* with which the database deletes what else shows it.
DeleteRow(w) ==
  /\ Goto(w, "delete_row", IF w \in Updates THEN "rename" ELSE "done")
  /\ layers' = layers \ {target[w]}
  /\ Unlink(doomed[w] \cup LinksOf(target[w]))
  /\ excused' = IF w \in Deletes THEN excused \cup doomed[w] \cup LinksOf(target[w])
                                 ELSE excused
  /\ UNCHANGED <<data, name, jobVars, removed, renamed, swept, early>>

\* No UPDATE is sent when the session already has this name.
Rename(j) ==
  /\ j \in layers
  /\ Goto(j, "rename", "done")
  /\ IF original[j] = new_name[j]
       THEN UNCHANGED <<name, renamed>>
       ELSE /\ NameFree(j, original[j])
            /\ name' = [name EXCEPT ![j] = original[j]]
            /\ renamed' = renamed \cup {j}
  /\ UNCHANGED <<layers, data, link, jobVars, removed, swept, excused, early>>

----------------------------------------------------------------------------
(* Any statement of an update may raise; run_failure_func then deletes     *)
(* recent rows without a layer (the job's or another's: UserData has the   *)
(* statements) and the layers of the job, with the links to them.  A       *)
(* request that raises or a process that dies stops where it is, as every  *)
(* behaviour here may: nothing is fair.                                    *)

Fail(j) ==
  /\ pc[j] \notin {"idle", "done", "clean", "failed"}
  /\ pc' = [pc EXCEPT ![j] = "clean"]
  /\ \E orphans \in SUBSET (data \ layers) :
       data' = data \ orphans /\ swept' = swept \cup orphans
  /\ UNCHANGED <<layers, name, link, jobVars, removed, renamed, excused, early>>

delete_created_layers(j) ==
  /\ Goto(j, "clean", "failed")
  /\ layers' = layers \ {j}
  /\ Unlink(LinksOf(j))
  /\ excused' = excused \cup LinksOf(j)
  /\ UNCHANGED <<data, name, jobVars, removed, renamed, swept, early>>

----------------------------------------------------------------------------
(* The user adds a layer to a project, and renames one.                    *)

AddLink(i, l) ==
  /\ link[i] = "none"
  /\ l \in layers
  /\ link' = [link EXCEPT ![i] = l]
  /\ excused' = IF TooLate(l) THEN excused \cup {i} ELSE excused
  /\ UNCHANGED <<layers, data, name, pc, jobVars, removed, renamed, swept, early>>

RenameLayer(l, n) ==
  /\ l \in layers
  /\ name[l] # n /\ NameFree(l, n)
  /\ name' = [name EXCEPT ![l] = n]
  /\ renamed' = renamed \cup {l}
  /\ UNCHANGED <<layers, data, link, pc, jobVars, removed, swept, excused, early>>
----------------------------------------------------------------------------
Update(j) ==
  \/ StartUpdate(j) \/ Migrate(j) \/ SkipMigration(j) \/ check_and_alter_layer_name(j)
  \/ update_layer_id(j) \/ Rename(j) \/ Fail(j) \/ delete_created_layers(j)

Delete(w) == DeleteData(w) \/ DeleteRow(w)

Next ==
  \/ \E j \in Updates : Update(j)
  \/ \E i \in Imports : StartImport(i)
  \/ \E j \in Jobs : CreateLayer(j)
  \/ \E d \in Deletes : StartDelete(d)
  \/ \E w \in Deleters : Delete(w)
  \/ \E l \in Layers : (\E i \in Links : AddLink(i, l)) \/ (\E n \in UserNames : RenameLayer(l, n))

Spec == Init /\ [][Next]_vars

----------------------------------------------------------------------------
(* Properties.                                                             *)

\* Type invariant.
TypeOK ==
  /\ layers \subseteq Layers
  /\ data \subseteq Layers
  /\ name \in [Layers -> LayerNames]
  /\ link \in [Links -> Layers \cup {"none", "gone"}]
  /\ pc \in [Jobs \cup Deletes ->
       {"idle", "migrate", "name", "create", "begun", "repoint", "find", "delete_row",
        "rename", "done", "clean", "failed"}]
  /\ target \in [Deleters -> Layers \cup Deletes]
  /\ original \in [Jobs -> LayerNames]
  /\ new_name \in [Jobs -> LayerNames]
  /\ doomed \in [Deleters -> SUBSET Links]
  /\ skipped \subseteq Jobs
  /\ removed \subseteq Layers /\ renamed \subseteq Layers /\ swept \subseteq Layers
  /\ excused \subseteq Links /\ early \in [Updates -> SUBSET Imports]

\* A project loses a layer only because its user deleted it, an update failed after it
\* had moved the links, or the link came to the layer (made by the user, or moved by
\* an update whose result is being updated) when an update of that layer was past
\* moving its links.
LinksAreCarriedOver == \A i \in Links : link[i] = "gone" => i \in excused

\* What a project shows exists and has rows: links are moved only when the new rows are
\* there, and the old ones deleted only when the links are moved.  The exceptions are a
\* layer its user has deleted, an update killed before its migration, one that failed
\* with the old rows already deleted, rows that the clean-up of a failing job took
\* before their layer was there, and links that come too late.
ShownLayersHaveRows ==
  \A i \in Links :
    link[i] \in Layers =>
      /\ link[i] \in layers
      /\ \/ link[i] \in data \cup removed \cup skipped \cup swept
         \/ i \in excused
         \/ \E j \in Updates : target[j] = link[i] /\ pc[j] \in {"clean", "failed"}

\* The name an update gives back at its end is kept for it: check_and_alter_layer_name
\* lets no import that asks for this name take it, because first the old layer and then
\* the new one, under a numbered name, stand in the folder.  The exceptions are an import
\* that had chosen the name before the update began, and layers that get another name on
\* the way: by the user, or the updated one from an update that had not ended.
NameIsKept ==
  \A j \in Updates, i \in Imports :
    pc[j] = "rename" /\ {j, i} \subseteq layers
    /\ name[i] = original[j] /\ original[i] = original[j]
    => i \in early[j] \/ {i, j, target[j]} \cap renamed # {}

\* What the docstring of the kill endpoint says ("All data produced by the job will be
\* deleted"): an update that was killed leaves neither its layer nor the damage.
KilledUpdateLeavesNothing ==
  \A j \in Updates : pc[j] = "done" /\ j \in skipped => j \notin layers
=============================================================================
