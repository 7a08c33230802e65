-------------------------------- MODULE Job --------------------------------
(***************************************************************************)
(* The life of a background job: check_and_create (crud/crud_job.py), the  *)
(* wrappers job_init and job_log with run_failure_func (core/job.py), the  *)
(* kill endpoint (endpoints/v2/job.py) and the label_failed_jobs script.   *)
(*                                                                         *)
(* The engine runs with isolation_level AUTOCOMMIT, so every statement is  *)
(* durable on its own and rollback() undoes nothing in the database: each  *)
(* action below is the code between two awaits.  All jobs of the model     *)
(* belong to one user.                                                     *)
(***************************************************************************)
EXTENDS Naturals, FiniteSets

CONSTANTS Jobs,          \* the jobs the user submits
          MaxParallel    \* settings.MAX_NUMBER_PARALLEL_JOBS

ASSUME JobAssumption == IsFiniteSet(Jobs) /\ MaxParallel \in Nat \ {0}

VARIABLES
  status_simple,   \* the column job.status_simple ("absent": no row yet)
  step_status,     \* the JSON column job.status: the status of each step
  pc,              \* where the request and then the job's worker stand
  type,            \* which pipeline the job runs
  step,            \* the job_log step the worker is in (one more: the tail)
  result,          \* the status the worker holds: returned, or to be written
  products,        \* what the job has left in the database
  killer,          \* the kill request in flight: has it read the job row?
  killed,          \* history: when did a kill request last write the row?
  aged             \* is the job row older than MAX_JOB_TIME?

vars == <<status_simple, step_status, pc, type, step, result, products,
          killer, killed, aged>>

----------------------------------------------------------------------------
(* The three shapes of pipeline wrapped by job_init.  "import" is          *)
(* import_file_job: steps upload and migration, then create_internal       *)
(* outside of any step.  "oev" is oev_gueteklasse_run: two steps, then     *)
(* create_feature_layer_tool outside.  "tool" is every one-step tool,      *)
(* which creates its layer inside the step.                                *)

Types == {"import", "oev", "tool"}
NumSteps(t) == IF t = "tool" THEN 1 ELSE 2

Product == {"temp", "data", "layer"}
Order == [temp |-> 1, data |-> 2, layer |-> 3]

\* What stage s of a pipeline needs, makes (in this order) and finally drops;
\* the stage after the last step is the tail.
Needs(t, s) ==
  CASE t = "import" /\ s = 2 -> {"temp"}
    [] t = "oev"    /\ s = 3 -> {"data"}
    [] OTHER                 -> {}

Makes(t, s) ==
  CASE t = "import" -> <<{"temp"}, {"data"}, {"layer"}>>[s]
    [] t = "oev"    -> <<{"data"}, {"temp"}, {"layer"}>>[s]
    [] t = "tool"   -> <<Product, {}>>[s]

Drops(t, s) == IF t # "tool" /\ s = 2 THEN {"temp"} ELSE {}

\* Mutant of Swept: delete_created_layers is left out.
SweptKeepsLayers(t, p, k) ==
  p \ ((IF k >= 1 /\ "layer" \notin p THEN {"data"} ELSE {})
       \cup (IF k >= 2 /\ t # "import" THEN {"temp"} ELSE {}))

\* run_failure_func, else branch, after k of its statements: delete_orphan_data
\* (rows without a layer row), delete_temp_tables (schema temporal only: the
\* import's temporary table is in the user data schema), delete_created_layers.
Swept(t, p, k) ==
  p \ ((IF k >= 1 /\ "layer" \notin p THEN {"data"} ELSE {})
       \cup (IF k >= 2 /\ t # "import" THEN {"temp"} ELSE {})
       \cup (IF k >= 3 THEN {"layer"} ELSE {}))

\* upload_ogr2ogr_fail and migrate_target_table_fail after k statements.
Undone(s, p, k) ==
  p \ ((IF k >= 1 THEN {"temp"} ELSE {}) \cup (IF k >= 2 /\ s = 2 THEN {"data"} ELSE {}))

Status == {"pending", "running", "finished", "failed", "timeout", "killed"}
Killable == {"pending", "running"}

PC == {"none", "counted", "init", "start", "start_refresh", "clean_killed",
       "exec", "clean_failed", "mark_failed", "check", "log", "log_refresh",
       "clean_step", "tail", "finish", "drop_temp", "clean_init", "fail",
       "returned", "failed", "lost"}
Ended == {"returned", "failed", "lost"}
Alive == PC \ (Ended \cup {"none", "counted"})
----------------------------------------------------------------------------
Init ==
  /\ status_simple = [j \in Jobs |-> "absent"]
  /\ step_status = [j \in Jobs |-> [s \in 1..2 |-> "pending"]]
  /\ pc = [j \in Jobs |-> "none"]
  /\ type \in [Jobs -> Types]
  /\ step = [j \in Jobs |-> 1]
  /\ result = [j \in Jobs |-> "none"]
  /\ products = [j \in Jobs |-> {}]
  /\ killer = [j \in Jobs |-> "idle"]
  /\ killed = [j \in Jobs |-> "never"]
  /\ aged = [j \in Jobs |-> FALSE]

Goto(j, from, to) == pc[j] = from /\ pc' = [pc EXCEPT ![j] = to]

requestVars == <<type, killer, killed, aged>>

(* CRUDJob.update_status: the row is expired and read again, but whatever  *)
(* status_simple holds is overwritten; a finished step leaves it running.  *)
update_status(j, st) ==
  /\ step_status' = [step_status EXCEPT ![j][step[j]] = st]
  /\ status_simple' = [status_simple EXCEPT ![j] = IF st = "finished" THEN "running" ELSE st]

----------------------------------------------------------------------------
(* The request: check_and_create counts, then inserts.                     *)

RunningJobs == {j \in Jobs : status_simple[j] = "running"}

CountRunning(j) ==
  /\ Cardinality(RunningJobs) < MaxParallel
  /\ Goto(j, "none", "counted")
  /\ UNCHANGED <<status_simple, step_status, step, result, products, requestVars>>

CreateJob(j) ==
  /\ Goto(j, "counted", "init")
  /\ status_simple' = [status_simple EXCEPT ![j] = "pending"]
  /\ UNCHANGED <<step_status, step, result, products, requestVars>>

----------------------------------------------------------------------------
(* job_init, up to the first step: the row is set to running unseen.       *)
JobInit(j) ==
  /\ Goto(j, "init", "start")
  /\ status_simple' = [status_simple EXCEPT ![j] = "running"]
  /\ UNCHANGED <<step_status, step, result, products, requestVars>>

\* The code around the wrapped function raises (a check of the tool's
\* parameters, a lost connection): only job_init sees it.
OutsideStepRaises(j) ==
  /\ pc[j] \in {"start", "start_refresh", "mark_failed", "check", "log", "log_refresh", "tail"}
  /\ pc' = [pc EXCEPT ![j] = "clean_init"]
  /\ UNCHANGED <<status_simple, step_status, step, result, products, requestVars>>

(* job_log: commit "running", refresh, and only then look for a kill.      *)
StartStep(j) ==
  /\ Goto(j, "start", "start_refresh")
  /\ update_status(j, "running")
  /\ UNCHANGED <<step, result, products, requestVars>>

StartRefresh(j) ==
  /\ Goto(j, "start_refresh",
          IF status_simple[j] = "killed" THEN "clean_killed" ELSE "exec")
  /\ UNCHANGED <<status_simple, step_status, step, result, products, requestVars>>

\* Mutant of AfterStep: the last step is not recognised.
AfterStepNoLast(j) == "start"

\* Where the pipeline goes after a step has returned, whatever it returned.
AfterStep(j) == IF step[j] < NumSteps(type[j]) THEN "start" ELSE "tail"

\* run_failure_func for a step: the import has a function of its own, whose
\* exceptions are swallowed; an exception of the common one reaches job_init.
StepFailureFunc(j, from, to) ==
  /\ \E k \in 0..3 :
       /\ products' = [products EXCEPT ![j] =
                         IF type[j] = "import" THEN Undone(step[j], @, k)
                                               ELSE Swept(type[j], @, k)]
       /\ Goto(j, from, IF type[j] = "import" \/ k = 3 THEN to ELSE "clean_init")
  /\ UNCHANGED <<status_simple, step_status, requestVars>>

\* Killed before starting: clean up and return {"status": "killed"}.
CleanKilled(j) ==
  /\ StepFailureFunc(j, "clean_killed", AfterStep(j))
  /\ result' = [result EXCEPT ![j] = "killed"]
  /\ step' = [step EXCEPT ![j] = @ + 1]

----------------------------------------------------------------------------
(* The wrapped function: durable statements, then return, raise or time    *)
(* out.  It raises when what it needs is not there.                        *)
Ready(j) == Needs(type[j], step[j]) \subseteq products[j]
Missing(j) == Makes(type[j], step[j]) \ products[j]

DoWork(j) ==
  /\ Ready(j)
  /\ \E x \in Missing(j) :
       /\ \A y \in Missing(j) : Order[x] <= Order[y]
       /\ products' = [products EXCEPT ![j] = @ \cup {x}]
  /\ UNCHANGED <<status_simple, step_status, step, result, requestVars>>

Work(j) == Goto(j, "exec", "exec") /\ DoWork(j)

FuncReturns(j) ==
  /\ Ready(j)
  /\ Missing(j) = {}
  /\ Goto(j, "exec", "check")
  /\ products' = [products EXCEPT ![j] = @ \ Drops(type[j], step[j])]
  /\ UNCHANGED <<status_simple, step_status, step, result, requestVars>>

\* asyncio.wait_for timed out ("timeout") or the function raised ("failed").
FuncRaises(j) ==
  /\ Goto(j, "exec", "clean_failed")
  /\ \E r \in {"failed", "timeout"} : result' = [result EXCEPT ![j] = r]
  /\ UNCHANGED <<status_simple, step_status, step, products, requestVars>>

CleanFailed(j) ==
  /\ StepFailureFunc(j, "clean_failed", "mark_failed")
  /\ UNCHANGED <<step, result>>

MarkFailed(j) ==
  /\ Goto(j, "mark_failed", "clean_init")
  /\ update_status(j, result[j])
  /\ UNCHANGED <<step, result, products, requestVars>>

\* Mutant of CheckKilled: the row is not expired, the cached status is used.
CheckKilledCached(j) ==
  /\ Goto(j, "check", "log")
  /\ result' = [result EXCEPT ![j] = "finished"]
  /\ UNCHANGED <<status_simple, step_status, step, products, requestVars>>

\* After the function returned: read the row again and decide what to write.
CheckKilled(j) ==
  /\ Goto(j, "check", "log")
  /\ result' = [result EXCEPT ![j] =
                  IF status_simple[j] = "killed" THEN "killed" ELSE "finished"]
  /\ UNCHANGED <<status_simple, step_status, step, products, requestVars>>

LogStep(j) ==
  /\ Goto(j, "log", "log_refresh")
  /\ update_status(j, result[j])
  /\ UNCHANGED <<step, result, products, requestVars>>

\* JobKilledError is raised when the refreshed row says killed or failed.
LogRefresh(j) ==
  /\ IF status_simple[j] \in {"killed", "failed"}
       THEN Goto(j, "log_refresh", "clean_step") /\ UNCHANGED step
       ELSE Goto(j, "log_refresh", AfterStep(j)) /\ step' = [step EXCEPT ![j] = @ + 1]
  /\ UNCHANGED <<status_simple, step_status, result, products, requestVars>>

CleanStep(j) ==
  /\ StepFailureFunc(j, "clean_step", "clean_init")
  /\ UNCHANGED <<step, result>>

----------------------------------------------------------------------------
(* After the steps: layer metadata is created outside of any step, then    *)
(* job_init writes finished unless the returned status forbids it.  oev    *)
(* returns the literal "finished", the others what their last step did.    *)
TailWork(j) == Goto(j, "tail", "tail") /\ DoWork(j)

TailReturns(j) ==
  /\ Ready(j)
  /\ Missing(j) = {}
  /\ Goto(j, "tail", "finish")
  /\ result' = [result EXCEPT ![j] = IF type[j] = "oev" THEN "finished" ELSE @]
  /\ UNCHANGED <<status_simple, step_status, step, products, requestVars>>

\* Mutant of Finish: the returned status is not looked at.
FinishAlways(j) ==
  /\ Goto(j, "finish", "drop_temp")
  /\ status_simple' = [status_simple EXCEPT ![j] = "finished"]
  /\ UNCHANGED <<step_status, step, result, products, requestVars>>

Finish(j) ==
  /\ IF result[j] = "killed"
       THEN Goto(j, "finish", "returned") /\ UNCHANGED status_simple
       ELSE /\ Goto(j, "finish", "drop_temp")
            /\ status_simple' = [status_simple EXCEPT ![j] = "finished"]
  /\ UNCHANGED <<step_status, step, result, products, requestVars>>

\* Mutant of DropTemp: the whole failure clean-up runs on success too.
DropTempAndLayers(j) ==
  /\ Goto(j, "drop_temp", "returned")
  /\ products' = [products EXCEPT ![j] = Swept(type[j], @, 3)]
  /\ UNCHANGED <<status_simple, step_status, step, result, requestVars>>

\* delete_temp_tables at the end: its errors are only logged.
DropTemp(j) ==
  /\ Goto(j, "drop_temp", "returned")
  /\ \/ UNCHANGED products
     \/ type[j] # "import" /\ products' = [products EXCEPT ![j] = @ \ {"temp"}]
  /\ UNCHANGED <<status_simple, step_status, step, result, requestVars>>

(* job_init's except branch.  An exception of its own run_failure_func is  *)
(* not caught: the worker is gone and the row keeps what it says.          *)
CleanInit(j) ==
  /\ \E k \in 0..3 :
       /\ products' = [products EXCEPT ![j] = Swept(type[j], @, k)]
       /\ Goto(j, "clean_init", IF k = 3 THEN "fail" ELSE "lost")
  /\ UNCHANGED <<status_simple, step_status, step, result, requestVars>>

Fail(j) ==
  /\ Goto(j, "fail", "failed")
  /\ status_simple' = [status_simple EXCEPT ![j] = "failed"]
  /\ UNCHANGED <<step_status, step, result, products, requestVars>>

\* The process dies, or the request fails after the job row was created.  (At
\* drop_temp it would be the same as an error DropTemp ignores.)
Crash(j) ==
  /\ pc[j] \in Alive \ {"drop_temp"}
  /\ pc' = [pc EXCEPT ![j] = "lost"]
  /\ UNCHANGED <<status_simple, step_status, step, result, products, requestVars>>

----------------------------------------------------------------------------
(* The others who write the row.                                           *)

KillRead(j) ==
  /\ status_simple[j] \in Killable
  /\ killer[j] = "idle"
  /\ killer' = [killer EXCEPT ![j] = "read"]
  /\ UNCHANGED <<status_simple, step_status, pc, type, step, result, products, killed, aged>>

KillWrite(j) ==
  /\ killer[j] = "read"
  /\ killer' = [killer EXCEPT ![j] = "idle"]
  /\ status_simple' = [status_simple EXCEPT ![j] = "killed"]
  /\ killed' = [killed EXCEPT ![j] =
                  IF pc[j] = "exec" \/ @ = "in_step" THEN "in_step" ELSE "elsewhere"]
  /\ UNCHANGED <<step_status, pc, type, step, result, products, aged>>

Age(j) ==
  /\ status_simple[j] # "absent" /\ ~aged[j]
  /\ aged' = [aged EXCEPT ![j] = TRUE]
  /\ UNCHANGED <<status_simple, step_status, pc, type, step, result, products, killer, killed>>

\* Mutants of label_failed_jobs: any old job is labelled; pending ones are not.
LabelAll(j) ==
  /\ aged[j]
  /\ status_simple' = [status_simple EXCEPT ![j] = "failed"]
  /\ UNCHANGED <<step_status, pc, type, step, result, products, killer, killed, aged>>

LabelRunning(j) ==
  /\ aged[j]
  /\ status_simple[j] = "running"
  /\ status_simple' = [status_simple EXCEPT ![j] = "failed"]
  /\ UNCHANGED <<step_status, pc, type, step, result, products, killer, killed, aged>>

label_failed_jobs(j) ==
  /\ aged[j]
  /\ status_simple[j] \in Killable
  /\ status_simple' = [status_simple EXCEPT ![j] = "failed"]
  /\ UNCHANGED <<step_status, pc, type, step, result, products, killer, killed, aged>>

----------------------------------------------------------------------------
Worker(j) ==
  \/ JobInit(j) \/ OutsideStepRaises(j) \/ StartStep(j) \/ StartRefresh(j)
  \/ CleanKilled(j) \/ Work(j) \/ FuncReturns(j) \/ FuncRaises(j) \/ CleanFailed(j)
  \/ MarkFailed(j) \/ CheckKilled(j) \/ LogStep(j) \/ LogRefresh(j) \/ CleanStep(j)
  \/ TailWork(j) \/ TailReturns(j) \/ Finish(j) \/ DropTemp(j) \/ CleanInit(j) \/ Fail(j)

Next ==
  \E j \in Jobs :
    \/ CountRunning(j) \/ CreateJob(j) \/ Worker(j) \/ Crash(j)
    \/ KillRead(j) \/ KillWrite(j) \/ Age(j) \/ label_failed_jobs(j)

Safety == Init /\ [][Next]_vars

\* The event loop keeps running every worker (a step's function is bounded by
\* wait_for); time passes; cron keeps calling the script.  Users owe nothing.
Fairness ==
  \A j \in Jobs : WF_vars(Worker(j)) /\ WF_vars(Age(j)) /\ WF_vars(label_failed_jobs(j))

Spec == Safety /\ Fairness

----------------------------------------------------------------------------
(* Properties.                                                             *)

\* Type invariant.
TypeOK ==
  /\ status_simple \in [Jobs -> Status \cup {"absent"}]
  /\ step_status \in [Jobs -> [1..2 -> Status]]
  /\ pc \in [Jobs -> PC]
  /\ type \in [Jobs -> Types]
  /\ step \in [Jobs -> 1..3]
  /\ \A j \in Jobs : step[j] <= NumSteps(type[j]) + 1
  /\ result \in [Jobs -> {"none", "finished", "killed", "failed", "timeout"}]
  /\ products \in [Jobs -> SUBSET Product]
  /\ killer \in [Jobs -> {"idle", "read"}]
  /\ killed \in [Jobs -> {"never", "in_step", "elsewhere"}]
  /\ aged \in [Jobs -> BOOLEAN]

\* A worker that ended in its own way has left an ended row, whatever kill
\* requests and the label script wrote in between: the transient "running" and
\* "timeout" never stay.
EndIsReported ==
  \A j \in Jobs :
    /\ pc[j] = "returned" => status_simple[j] \in {"finished", "killed"}
    /\ pc[j] = "failed" => status_simple[j] \in {"failed", "killed"}

\* A job that says finished has run every step to its end and has both its
\* layer and its data, although import_file and oev_gueteklasse_run ignore the
\* {"status": "killed"} a step may return and carry on.
FinishedIsComplete ==
  \A j \in Jobs :
    status_simple[j] = "finished" =>
      /\ {"data", "layer"} \subseteq products[j]
      /\ \A s \in 1..NumSteps(type[j]) : step_status[j][s] = "finished"

\* When a job ended through job_init's except branch, no layer of it is left, and
\* no temporary table in the schema that delete_temp_tables looks at.
FailureIsWithdrawn ==
  \A j \in Jobs :
    pc[j] = "failed" =>
      "layer" \notin products[j] /\ (type[j] # "import" => "temp" \notin products[j])

\* A kill that reaches the row while a step's function is running is never lost:
\* the step is let finish, the worker fails the job and its layer is deleted.
KillDuringStepIsHonoured ==
  \A j \in Jobs :
    killed[j] = "in_step" =>
      /\ pc[j] \notin {"start", "tail", "finish", "drop_temp", "returned"}
      /\ pc[j] = "failed" => "layer" \notin products[j]

\* The job service implements its promise.
Closed(j) == pc[j] \in {"drop_temp", "returned", "failed"}

Phase(j) == IF pc[j] \in {"none", "counted"} THEN "absent"
            ELSE IF Closed(j) THEN "closed"
            ELSE IF pc[j] = "lost" THEN "lost" ELSE "open"
Answer(j) == IF Closed(j) THEN status_simple[j] ELSE "none"
LayerLeft(j) == Closed(j) /\ "layer" \in products[j]

Promise == INSTANCE JobPromise WITH
  phase <- [j \in Jobs |-> Phase(j)],
  answer <- [j \in Jobs |-> Answer(j)],
  layer <- [j \in Jobs |-> LayerLeft(j)]

KeepsPromise == Promise!Spec

\* Every job row settles: once created it reaches an ended status and never says
\* pending or running again, even when its worker is lost.
EventuallySettled ==
  \A j \in Jobs :
    status_simple[j] = "pending" ~> [](status_simple[j] \in Status \ Killable)

\* What the kill endpoint's docstring says (the job's started tasks finish, then it
\* is killed and all its data deleted): a job the user killed never says finished.
KilledJobNeverFinishes ==
  \A j \in Jobs : killed[j] # "never" => status_simple[j] # "finished"

\* What check_and_create's error message says: at most MaxParallel jobs of a user
\* run at a time.
ParallelLimit == Cardinality(RunningJobs) <= MaxParallel
============================================================================
