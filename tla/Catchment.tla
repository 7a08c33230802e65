----------------------------- MODULE Catchment ------------------------------
(***************************************************************************)
(* Jobs that compute a catchment area (crud_catchment_area.py): starting   *)
(* points are saved or read, a routing engine is asked until it answers,   *)
(* and the result becomes layers of the project (create_feature_layer_tool *)
(* in core/tool.py).  On foot, by bicycle and by car the routing service   *)
(* writes the result into the user's table itself; for public transport    *)
(* (PT) the engine's answer is written by the job, one starting point      *)
(* after the other.                                                        *)
(*                                                                         *)
(* Every action is the code between two awaits.  All jobs belong to one    *)
(* user, so that the clean-up of one sweeps rows of the others that no     *)
(* layer owns yet.  Job has the statuses of a job and its kill; here a job *)
(* ends "done" or "failed".                                                *)
(***************************************************************************)
EXTENDS Naturals, FiniteSets

CONSTANTS Runs,                 \* the jobs
          CRUD_NUM_RETRIES,
          MaxPoints             \* bound: starting points of a layer

ASSUME CatchmentAssumption ==
  /\ CRUD_NUM_RETRIES \in Nat \ {0}
  /\ MaxPoints \in Nat \ {0}

VARIABLES job,          \* what each is asked for and where it is
          stored,       \* rows in the user's tables: <<job, layer, point>>,
                        \* point 0: an area that reaches nothing
          layers,       \* rows of the table of layers: <<job, layer>>
          linked,       \* of those, the ones linked to the project
          service,      \* what the routing service makes of a job's request
          projectThere, \* the project exists
          cause         \* history: what could make a job fail

catchmentVars == <<job, stored, layers, linked, service, projectThere, cause>>

Layer == {"area", "points"}

StoredRow == (Runs \X Layer \X (1..MaxPoints)) \cup (Runs \X {"area"} \X {0})

(* The type of the area; to the routing service it makes a difference that *)
(* the job does not see.                                                   *)
Types_of(mode) == IF mode = "pt" THEN {"polygon", "grid"} ELSE {"polygon"}

Kind ==
  {k \in [mode: {"routing", "pt"}, type: {"polygon", "grid"},
          from: {"layer", "coordinates"}, points: 0..MaxPoints] :
     /\ k.type \in Types_of(k.mode)
     /\ k.from = "coordinates" => k.points > 0 /\ (k.mode = "pt" => k.points = 1)}

Causes == {"outside", "slow", "refused", "timeout", "nowhere", "swept", "project"}

PCs == {"idle", "check", "save", "read", "ask", "write", "measure", "create",
        "link", "next", "clean", "drop", "done", "failed"}

JobState == [pc: PCs, kind: Kind, left: 0..MaxPoints, tries: 1..CRUD_NUM_RETRIES,
             layer: Layer]

CatchmentInit ==
  /\ job \in [Runs -> {[pc |-> "idle", kind |-> k, left |-> 0, tries |-> 1,
                        layer |-> "area"] : k \in Kind}]
  /\ stored = {} /\ layers = {} /\ linked = {} /\ projectThere = TRUE
  /\ service = [j \in Runs |-> "idle"]
  /\ cause = [j \in Runs |-> {}]

At(j, pc) == job[j].pc = pc

Move(j, pc) == job' = [job EXCEPT ![j].pc = pc]

Fail(j, why) == Move(j, "clean") /\ cause' = [cause EXCEPT ![j] = @ \cup why]

Own(j, layer) == {r \in stored : r[1] = j /\ r[2] = layer}

HasExtent(j, layer) == \E r \in Own(j, layer) : r[3] # 0

(* What an answer says: where one gets to, or that it is nowhere. *)
SaveAnswer(j, point, reached) ==
  /\ stored' = stored \cup {<<j, "area", IF reached THEN point ELSE 0>>}
  /\ cause' = IF reached THEN cause ELSE [cause EXCEPT ![j] = @ \cup {"nowhere"}]

dataVars == <<stored, layers, linked, service, projectThere>>

-----------------------------------------------------------------------------
(* Starting points: those of a layer as the scenario has them, or          *)
(* coordinates, checked all together, saved, and read back.                *)
get_lats_lons(j) ==
  /\ At(j, "idle")
  /\ Move(j, IF job[j].kind.from = "layer" THEN "read" ELSE "check")
  /\ UNCHANGED <<dataVars, cause>>

CheckGeofence(j) ==
  /\ At(j, "check")
  /\ \/ Move(j, "save") /\ UNCHANGED cause
     \/ Fail(j, {"outside"})
  /\ UNCHANGED dataVars

SavePoints(j) ==
  /\ At(j, "save") /\ Move(j, "read")
  /\ stored' = stored \cup {<<j, "points", i>> : i \in 1..job[j].kind.points}
  /\ UNCHANGED <<layers, linked, service, projectThere, cause>>

(* PT has nothing to do for no points; the service is asked all the same.  *)
ReadPoints(j) ==
  /\ At(j, "read")
  /\ LET n == IF job[j].kind.from = "layer" THEN job[j].kind.points
              ELSE Cardinality(Own(j, "points"))
     IN job' = [job EXCEPT ![j].left = n,
                           ![j].pc = IF job[j].kind.mode = "pt" /\ n = 0 THEN "done" ELSE "ask"]
  /\ UNCHANGED <<dataVars, cause>>

-----------------------------------------------------------------------------
(* One turn of the polling: 202 asks to come again, unless it was the last *)
(* time; another answer, or none in time, ends it.                         *)
ComeAgain(j) ==
  IF job[j].tries = CRUD_NUM_RETRIES THEN Fail(j, {"slow"})
  ELSE job' = [job EXCEPT ![j].tries = @ + 1] /\ UNCHANGED cause

(* Mutant: 202 is taken for the result. *)
call_routing_endpoint_once(j) ==
  /\ At(j, "ask") /\ job[j].kind.mode = "routing"
  /\ service' = [service EXCEPT ![j] = IF @ = "idle" THEN "working" ELSE @]
  /\ job' = [job EXCEPT ![j].pc = "measure", ![j].layer = "area"]
  /\ UNCHANGED <<stored, layers, linked, projectThere, cause>>

call_routing_endpoint(j) ==
  /\ At(j, "ask") /\ job[j].kind.mode = "routing"
  /\ IF service[j] = "written"
     THEN job' = [job EXCEPT ![j].pc = "measure", ![j].layer = "area"] /\ UNCHANGED <<service, cause>>
     ELSE service' = [service EXCEPT ![j] = "working"] /\ ComeAgain(j)
  /\ UNCHANGED <<stored, layers, linked, projectThere>>

ask_r5(j) ==
  /\ At(j, "ask") /\ job[j].kind.mode = "pt"
  /\ \/ job' = [job EXCEPT ![j].pc = "write", ![j].tries = 1] /\ UNCHANGED cause
     \/ ComeAgain(j)
  /\ UNCHANGED dataVars

(* An error, a point in no region, an answer that cannot be read, or none  *)
(* in time from a service that works on it all the same.                   *)
Refused(j) ==
  /\ At(j, "ask") /\ Fail(j, {"refused"})
  /\ service' \in {service, [service EXCEPT ![j] =
                     IF @ = "idle" /\ job[j].kind.mode = "routing" THEN "working" ELSE @]}
  /\ UNCHANGED <<stored, layers, linked, projectThere>>

(* The routing service (not in this repository) writes all of the result   *)
(* at once, whether or not the job still waits for it.                     *)
ServiceWrites(j) ==
  /\ service[j] = "working"
  /\ service' = [service EXCEPT ![j] = "written"]
  /\ \E reached \in BOOLEAN : SaveAnswer(j, 1, reached)
  /\ UNCHANGED <<job, layers, linked, projectThere>>

(* A grid is accepted and computed, and then not written. *)
write_catchment_area_result(j) ==
  /\ At(j, "write")
  /\ IF job[j].kind.type = "polygon"
     THEN \E reached \in BOOLEAN : SaveAnswer(j, job[j].left, reached)
     ELSE UNCHANGED <<stored, cause>>
  /\ job' = [job EXCEPT ![j].pc = "measure", ![j].layer = "area"]
  /\ UNCHANGED <<layers, linked, service, projectThere>>

-----------------------------------------------------------------------------
(* create_feature_layer_tool: the project's folder, a free name, size and  *)
(* extent, which a layer without rows, or that reaches nothing, has not;   *)
(* the layer; its link.                                                    *)
Measure(j) ==
  /\ At(j, "measure")
  /\ IF projectThere /\ HasExtent(j, job[j].layer)
     THEN Move(j, "create") /\ UNCHANGED cause
     ELSE Fail(j, {})
  /\ UNCHANGED dataVars

(* The id of a layer is made once for a job. *)
CreateLayer(j) ==
  /\ At(j, "create")
  /\ IF <<j, job[j].layer>> \in layers
     THEN Fail(j, {}) /\ UNCHANGED layers
     ELSE /\ layers' = layers \cup {<<j, job[j].layer>>}
          /\ Move(j, "link") /\ UNCHANGED cause
  /\ UNCHANGED <<stored, linked, service, projectThere>>

LinkLayer(j) ==
  /\ At(j, "link")
  /\ IF projectThere
     THEN /\ linked' = linked \cup {<<j, job[j].layer>>}
          /\ Move(j, "next") /\ UNCHANGED cause
     ELSE Fail(j, {}) /\ UNCHANGED linked
  /\ UNCHANGED <<stored, layers, service, projectThere>>

(* After the area the starting points, unless they are a layer already;    *)
(* for PT then the next starting point.                                    *)
WantsPoints(j) == job[j].kind.from = "coordinates"

(* Mutant: the starting points are forgotten. *)
Next_area(j) ==
  /\ At(j, "next")
  /\ LET last == job[j].kind.mode = "routing" \/ job[j].left = 1
     IN job' = IF last THEN [job EXCEPT ![j].pc = "done"]
               ELSE [job EXCEPT ![j].pc = "ask", ![j].left = @ - 1]
  /\ UNCHANGED <<dataVars, cause>>

Next_layer(j) ==
  /\ At(j, "next")
  /\ LET last == job[j].kind.mode = "routing" \/ job[j].left = 1
     IN job' = IF job[j].layer = "area" /\ WantsPoints(j)
               THEN [job EXCEPT ![j].pc = "measure", ![j].layer = "points"]
               ELSE IF last THEN [job EXCEPT ![j].pc = "done"]
               ELSE [job EXCEPT ![j].pc = "ask", ![j].left = @ - 1]
  /\ UNCHANGED <<dataVars, cause>>

-----------------------------------------------------------------------------
(* The step's time is over, wherever it is. *)
TimeOut(j) ==
  /\ job[j].pc \in {"check", "save", "read", "ask", "write", "measure", "create", "link", "next"}
  /\ Fail(j, {"timeout"})
  /\ UNCHANGED dataVars

(* A failed job sweeps the user's rows that no layer owns, and then        *)
(* deletes the layers it made; the rows of these stay for another sweep.   *)
delete_orphan_data(j) ==
  LET swept == {r \in stored : <<r[1], r[2]>> \notin layers}
  IN /\ At(j, "clean") /\ Move(j, "drop")
     /\ stored' = stored \ swept
     /\ cause' = [k \in Runs |-> IF \E r \in swept : r[1] = k THEN cause[k] \cup {"swept"} ELSE cause[k]]
     /\ UNCHANGED <<layers, linked, service, projectThere>>

delete_created_layers(j) ==
  /\ At(j, "drop") /\ Move(j, "failed")
  /\ layers' = {l \in layers : l[1] # j} /\ linked' = {l \in linked : l[1] # j}
  /\ UNCHANGED <<stored, service, projectThere, cause>>

(* Somebody deletes the project; its layers stay in their folder.      *)
DeleteProject ==
  /\ projectThere /\ projectThere' = FALSE /\ linked' = {}
  /\ cause' = [j \in Runs |-> cause[j] \cup {"project"}]
  /\ UNCHANGED <<job, stored, layers, service>>

CatchmentNext ==
  \/ DeleteProject
  \/ \E j \in Runs :
       \/ get_lats_lons(j) \/ CheckGeofence(j) \/ SavePoints(j) \/ ReadPoints(j)
       \/ call_routing_endpoint(j) \/ ask_r5(j) \/ Refused(j)
       \/ ServiceWrites(j) \/ write_catchment_area_result(j)
       \/ Measure(j) \/ CreateLayer(j) \/ LinkLayer(j) \/ Next_layer(j)
       \/ TimeOut(j) \/ delete_orphan_data(j) \/ delete_created_layers(j)

CatchmentSpec == CatchmentInit /\ [][CatchmentNext]_catchmentVars

-----------------------------------------------------------------------------
CatchmentTypeOK ==
  /\ job \in [Runs -> JobState]
  /\ stored \subseteq StoredRow
  /\ layers \subseteq Runs \X Layer /\ linked \subseteq layers
  /\ service \in [Runs -> {"idle", "working", "written"}] /\ projectThere \in BOOLEAN
  /\ cause \in [Runs -> SUBSET Causes]

(* A catchment area that is reported as finished is in the project, with   *)
(* its starting points unless they were a layer, and every layer has its   *)
(* data.  Claimed of jobs with starting points, whose project is still     *)
(* there, and none of whose rows the clean-up of another job swept away:   *)
(* that can empty a layer between its measuring and its creation, and for  *)
(* PT it can leave no point to start from, and nothing at all to show.     *)
FinishedCatchmentIsWhole ==
  \A j \in Runs :
    LET wanted == {"area"} \cup (IF WantsPoints(j) THEN {"points"} ELSE {})
    IN At(j, "done") /\ job[j].kind.points > 0 /\ cause[j] \cap {"swept", "project"} = {} =>
         /\ {l[2] : l \in {k \in linked : k[1] = j}} = wanted
         /\ \A l \in wanted : HasExtent(j, l)
         /\ WantsPoints(j) => Cardinality(Own(j, "points")) = job[j].kind.points

(* A job fails only when something happened to it: points outside the      *)
(* geofence, a service that refuses or is slow, an answer that reaches     *)
(* nothing, the time of the step, the project's end, another job's sweep.  *)
(* Two jobs always fail: a PT area with several starting points, for the   *)
(* layer is created for each, under the same id, and the second time is    *)
(* refused; and a PT area as a grid, which nothing writes.                 *)
OnlyAccidentsFail ==
  \A j \in Runs :
    At(j, "clean") /\ cause[j] = {} =>
      job[j].kind.mode = "pt" /\ (job[j].kind.points > 1 \/ job[j].kind.type = "grid")
=============================================================================
