----------------------------- MODULE JobProofs -----------------------------
(***************************************************************************)
(* Proofs about Job, for every set of jobs and every limit.                *)
(***************************************************************************)
EXTENDS Job, TLAPS

StepPC == {"start", "start_refresh", "clean_killed", "exec", "clean_failed",
           "mark_failed", "check", "log", "log_refresh", "clean_step"}
LastPC == {"tail", "finish", "drop_temp", "returned"}

\* Which step a worker can be in, and what it holds, at each point.
Control(j) ==
  /\ pc[j] \in StepPC => step[j] <= NumSteps(type[j])
  /\ pc[j] \in LastPC => step[j] = NumSteps(type[j]) + 1
  /\ pc[j] \in {"none", "counted", "init"} => step[j] = 1 /\ products[j] = {}
  /\ pc[j] \in {"none", "counted"} <=> status_simple[j] = "absent"
  /\ killer[j] = "read" => status_simple[j] # "absent"
  /\ killed[j] # "never" => status_simple[j] # "absent"
  /\ aged[j] => status_simple[j] # "absent"
  /\ pc[j] \in {"clean_failed", "mark_failed"} => result[j] \in {"failed", "timeout"}
  /\ pc[j] \in {"log", "log_refresh", "tail", "finish"} => result[j] \in {"finished", "killed"}
  /\ pc[j] = "log_refresh" => step_status[j][step[j]] = result[j]

\* What the row says where the worker relies on it.
Report(j) ==
  /\ pc[j] \in {"drop_temp", "returned"} => status_simple[j] \in {"finished", "killed"}
  /\ pc[j] = "failed" => status_simple[j] \in {"failed", "killed"}
  /\ status_simple[j] = "finished" => pc[j] \in {"drop_temp", "returned"}
  /\ pc[j] = "clean_killed" => status_simple[j] = "killed"
  /\ pc[j] \in {"log_refresh", "tail", "finish"} /\ result[j] = "killed"
       => status_simple[j] = "killed"

AllStepsFinished(j) == \A s \in 1..NumSteps(type[j]) : step_status[j][s] = "finished"

\* Skipping a killed step leaves a gap in the data that the next stage trips over.
Gaps(j) ==
  /\ pc[j] \in {"start", "start_refresh", "clean_killed"} /\ step[j] = 1 => products[j] = {}
  /\ pc[j] \in StepPC /\ type[j] # "tool" => "layer" \notin products[j]
  /\ pc[j] \in StepPC /\ step[j] = 2 =>
       \/ step_status[j][1] = "finished"
       \/ "data" \notin products[j] /\ (type[j] = "import" => "temp" \notin products[j])
  /\ pc[j] \in {"check", "log", "log_refresh"} =>
       /\ type[j] = "tool" => {"data", "layer"} \subseteq products[j]
       /\ type[j] = "import" /\ step[j] = 2 => "data" \in products[j]
  /\ pc[j] = "tail" =>
       /\ type[j] = "tool" /\ result[j] = "finished" =>
            {"data", "layer"} \subseteq products[j] /\ AllStepsFinished(j)
       /\ type[j] = "import" /\ result[j] = "finished" =>
            "data" \in products[j] /\ AllStepsFinished(j)
       /\ type[j] = "oev" /\ "data" \in products[j] => AllStepsFinished(j)
  /\ (pc[j] = "finish" /\ result[j] = "finished") \/ status_simple[j] = "finished" =>
       {"data", "layer"} \subseteq products[j] /\ AllStepsFinished(j)

Withdrawn(j) ==
  pc[j] \in {"fail", "failed"} =>
    "layer" \notin products[j] /\ (type[j] # "import" => "temp" \notin products[j])

\* A kill that landed in a step is carried to the point where the worker raises.
Honoured(j) ==
  killed[j] = "in_step" =>
    /\ pc[j] \notin {"none", "counted", "init", "start", "start_refresh", "clean_killed"} \cup LastPC
    /\ pc[j] \in {"exec", "check", "log_refresh"} => status_simple[j] = "killed"
    /\ pc[j] = "log" => result[j] = "killed"

JobInv(j) == Control(j) /\ Report(j) /\ Gaps(j) /\ Withdrawn(j) /\ Honoured(j)

IInv == TypeOK /\ \A j \in Jobs : JobInv(j)
----------------------------------------------------------------------------
Same(j) ==
  /\ status_simple'[j] = status_simple[j] /\ step_status'[j] = step_status[j]
  /\ pc'[j] = pc[j] /\ type'[j] = type[j] /\ step'[j] = step[j]
  /\ result'[j] = result[j] /\ products'[j] = products[j]
  /\ killer'[j] = killer[j] /\ killed'[j] = killed[j] /\ aged'[j] = aged[j]

JobStep(i) ==
  \/ CountRunning(i) \/ CreateJob(i) \/ Worker(i) \/ Crash(i)
  \/ KillRead(i) \/ KillWrite(i) \/ Age(i) \/ label_failed_jobs(i)

\* A step of one job leaves every other job as it is.
LEMMA OthersSame ==
  ASSUME TypeOK, NEW i \in Jobs, NEW j \in Jobs, j # i, JobStep(i)
  PROVE  Same(j)
<1> USE DEF TypeOK, Same, Goto, requestVars, update_status
<1>1. CASE CountRunning(i) \/ CreateJob(i) \/ Crash(i) \/ KillRead(i)
           \/ KillWrite(i) \/ Age(i) \/ label_failed_jobs(i)
  BY <1>1 DEF CountRunning, CreateJob, Crash, KillRead, KillWrite, Age, label_failed_jobs
<1>2. CASE JobInit(i) \/ OutsideStepRaises(i) \/ StartStep(i) \/ StartRefresh(i)
           \/ FuncReturns(i) \/ FuncRaises(i) \/ MarkFailed(i) \/ CheckKilled(i)
           \/ LogStep(i) \/ LogRefresh(i)
  BY <1>2 DEF JobInit, OutsideStepRaises, StartStep, StartRefresh, FuncReturns,
     FuncRaises, MarkFailed, CheckKilled, LogStep, LogRefresh
<1>3. CASE CleanKilled(i) \/ CleanFailed(i) \/ CleanStep(i) \/ CleanInit(i)
  BY <1>3 DEF CleanKilled, CleanFailed, CleanStep, CleanInit, StepFailureFunc
<1>4. CASE Work(i) \/ TailWork(i) \/ TailReturns(i) \/ Finish(i) \/ DropTemp(i) \/ Fail(i)
  BY <1>4 DEF Work, TailWork, DoWork, TailReturns, Finish, DropTemp, Fail
<1> QED BY <1>1, <1>2, <1>3, <1>4 DEF JobStep, Worker

\* What a job keeps to does not change while the job's variables stay as they are.
LEMMA SameInv ==
  ASSUME NEW j \in Jobs, JobInv(j), Same(j)
  PROVE  JobInv(j)'
BY DEF JobInv, Same, Control, Report, Gaps, Withdrawn, Honoured, AllStepsFinished
----------------------------------------------------------------------------
\* A step of a job keeps that job's part of the invariant.
LEMMA StepInv ==
  ASSUME TypeOK, NEW i \in Jobs, JobInv(i), JobStep(i)
  PROVE  TypeOK' /\ JobInv(i)'
<1> USE DEF TypeOK, JobInv, Control, Report, Gaps, Withdrawn, Honoured, AllStepsFinished,
        Goto, requestVars, update_status, StepPC, LastPC, PC, Types, NumSteps, Status, Product
<1>1. CASE CountRunning(i)
  BY <1>1 DEF CountRunning, RunningJobs
<1>2. CASE CreateJob(i)
  BY <1>2 DEF CreateJob
<1>3. CASE JobInit(i)
  BY <1>3 DEF JobInit
<1>4. CASE OutsideStepRaises(i)
  BY <1>4 DEF OutsideStepRaises
<1>5. CASE StartStep(i)
  BY <1>5 DEF StartStep
<1>6. CASE StartRefresh(i)
  BY <1>6 DEF StartRefresh
<1>7. CASE CleanKilled(i)
  BY <1>7, SMTT(40) DEF CleanKilled, StepFailureFunc, AfterStep, Swept, Undone
<1>8. CASE Work(i)
  BY <1>8, SMTT(40) DEF Work, DoWork, Ready, Missing, Needs, Makes, Order
<1>9. CASE FuncReturns(i)
  BY <1>9, SMTT(40) DEF FuncReturns, Ready, Missing, Needs, Makes, Drops
<1>10. CASE FuncRaises(i)
  BY <1>10 DEF FuncRaises
<1>11. CASE CleanFailed(i)
  BY <1>11, SMTT(40) DEF CleanFailed, StepFailureFunc, Swept, Undone
<1>12. CASE MarkFailed(i)
  BY <1>12 DEF MarkFailed
<1>13. CASE CheckKilled(i)
  BY <1>13 DEF CheckKilled
<1>14. CASE LogStep(i)
  BY <1>14 DEF LogStep
<1>15. CASE LogRefresh(i)
  <2>1. CASE status_simple[i] \in {"killed", "failed"}
    BY <1>15, <2>1 DEF LogRefresh
  <2>2. CASE status_simple[i] \notin {"killed", "failed"}
    <3>1. /\ pc[i] = "log_refresh" /\ pc' = [pc EXCEPT ![i] = AfterStep(i)]
          /\ step' = [step EXCEPT ![i] = @ + 1]
          /\ UNCHANGED <<status_simple, step_status, result, products, requestVars>>
      BY <1>15, <2>2 DEF LogRefresh
    <3>2. result[i] = "finished" /\ step_status[i][step[i]] = "finished"
      BY <3>1, <2>2
    <3>3. CASE step[i] < NumSteps(type[i])
      BY <3>1, <3>2, <3>3, <2>2 DEF AfterStep
    <3>4. CASE step[i] = NumSteps(type[i])
      <4>1. AllStepsFinished(i) \/ (type[i] # "tool" /\ "data" \notin products[i])
        <5>1. CASE type[i] = "tool"
          <6>1. NumSteps(type[i]) = 1 /\ step[i] = 1
            BY <5>1, <3>4
          <6> QED BY <6>1, <3>2
        <5>2. CASE type[i] # "tool"
          <6>1. NumSteps(type[i]) = 2 /\ step[i] = 2
            BY <5>2, <3>4
          <6>2. step_status[i][1] = "finished" \/ "data" \notin products[i]
            BY <3>1, <6>1
          <6>3. \A s \in 1..2 : s = 1 \/ s = 2
            OBVIOUS
          <6> HIDE DEF NumSteps
          <6> QED BY <5>2, <6>1, <6>2, <6>3, <3>2
        <5> QED BY <5>1, <5>2
      <4>2. pc'[i] = "tail" /\ step'[i] = NumSteps(type[i]) + 1
        BY <3>1, <3>4 DEF AfterStep
      <4>3. TypeOK' /\ Control(i)' /\ Report(i)' /\ Withdrawn(i)' /\ Honoured(i)'
        BY <3>1, <3>2, <3>4, <4>2, <2>2 DEF AfterStep
      <4>4. Gaps(i)'
        BY <3>1, <3>2, <3>4, <4>1, <4>2, <2>2
      <4> QED BY <4>3, <4>4
    <3> QED BY <3>1, <3>3, <3>4
  <2> QED BY <2>1, <2>2
<1>16. CASE CleanStep(i)
  <2>1. CASE type[i] = "import"
    BY <1>16, <2>1 DEF CleanStep, StepFailureFunc, Undone
  <2>2. CASE type[i] # "import"
    BY <1>16, <2>2 DEF CleanStep, StepFailureFunc, Swept
  <2> QED BY <2>1, <2>2
<1>17. CASE TailWork(i)
  BY <1>17, SMTT(40) DEF TailWork, DoWork, Ready, Missing, Needs, Makes, Order
<1>18. CASE TailReturns(i)
  BY <1>18, SMTT(40) DEF TailReturns, Ready, Missing, Needs, Makes
<1>19. CASE Finish(i)
  <2>1. CASE result[i] = "killed"
    <3>1. /\ pc[i] = "finish" /\ pc' = [pc EXCEPT ![i] = "returned"]
          /\ UNCHANGED <<status_simple, step_status, step, result, products, requestVars>>
      BY <1>19, <2>1 DEF Finish
    <3>2. TypeOK' /\ Control(i)' /\ Report(i)'
      BY <3>1, <2>1
    <3>3. Gaps(i)' /\ Withdrawn(i)' /\ Honoured(i)'
      BY <3>1, <2>1
    <3> QED BY <3>2, <3>3
  <2>2. CASE result[i] = "finished"
    <3>1. /\ pc[i] = "finish" /\ pc' = [pc EXCEPT ![i] = "drop_temp"]
          /\ status_simple' = [status_simple EXCEPT ![i] = "finished"]
          /\ UNCHANGED <<step_status, step, result, products, requestVars>>
      BY <1>19, <2>2 DEF Finish
    <3>2. {"data", "layer"} \subseteq products[i] /\ AllStepsFinished(i)
      BY <3>1, <2>2
    <3>3. TypeOK' /\ Control(i)' /\ Report(i)' /\ Withdrawn(i)' /\ Honoured(i)'
      BY <3>1, <2>2
    <3>4. Gaps(i)'
      BY <3>1, <3>2, <2>2
    <3> QED BY <3>3, <3>4
  <2> QED BY <1>19, <2>1, <2>2 DEF Finish
<1>20. CASE DropTemp(i)
  BY <1>20 DEF DropTemp
<1>21. CASE CleanInit(i)
  BY <1>21, SMTT(40) DEF CleanInit, Swept
<1>22. CASE Fail(i)
  BY <1>22 DEF Fail
<1>23. CASE Crash(i)
  BY <1>23 DEF Crash, Alive, Ended
<1>24. CASE KillRead(i)
  BY <1>24 DEF KillRead, Killable
<1>25. CASE KillWrite(i)
  BY <1>25 DEF KillWrite
<1>26. CASE Age(i)
  BY <1>26 DEF Age
<1>27. CASE label_failed_jobs(i)
  BY <1>27 DEF label_failed_jobs, Killable
<1> QED BY <1>1, <1>2, <1>3, <1>4, <1>5, <1>6, <1>7, <1>8, <1>9, <1>10, <1>11, <1>12, <1>13, <1>14, <1>15, <1>16, <1>17, <1>18, <1>19, <1>20, <1>21, <1>22, <1>23, <1>24, <1>25, <1>26, <1>27 DEF JobStep, Worker
----------------------------------------------------------------------------
\* The initial states satisfy the invariant.
LEMMA InitInv == Init => IInv
BY DEF Init, IInv, TypeOK, JobInv, Control, Report, Gaps, Withdrawn, Honoured,
   AllStepsFinished, StepPC, LastPC, PC, Types, NumSteps, Status, Product

\* Every step keeps the invariant: the job that moves by StepInv, the others by
\* SameInv.
LEMMA NextInv == IInv /\ [Next]_vars => IInv'
<1> SUFFICES ASSUME IInv, [Next]_vars PROVE IInv'
  OBVIOUS
<1>1. CASE Next
  <2>1. PICK i \in Jobs : JobStep(i)
    BY <1>1 DEF Next, JobStep
  <2>2. TypeOK' /\ JobInv(i)'
    BY <2>1, StepInv DEF IInv
  <2>3. ASSUME NEW j \in Jobs, j # i PROVE JobInv(j)'
    BY <2>1, <2>3, OthersSame, SameInv DEF IInv
  <2> QED BY <2>2, <2>3 DEF IInv
<1>2. CASE UNCHANGED vars
  BY <1>2 DEF vars, IInv, TypeOK, JobInv, Control, Report, Gaps, Withdrawn, Honoured,
     AllStepsFinished
<1> QED BY <1>1, <1>2

\* The inductive invariant holds in every reachable state.
THEOREM Invariance == Spec => []IInv
BY InitInv, NextInv, PTL DEF Spec, Safety

\* Type correctness.
THEOREM TypeCorrect == Spec => []TypeOK
<1>1. IInv => TypeOK
  BY DEF IInv
<1> QED BY Invariance, <1>1, PTL

\* A worker that ends in its own way leaves an ended row, whatever the kill
\* endpoint and the label script write in between.
THEOREM ReportedEnd == Spec => []EndIsReported
<1>1. IInv => EndIsReported
  BY DEF IInv, JobInv, Report, EndIsReported
<1> QED BY Invariance, <1>1, PTL

\* A finished job has its layer and its data and no step was skipped.
THEOREM CompleteWhenFinished == Spec => []FinishedIsComplete
<1>1. IInv => FinishedIsComplete
  BY DEF IInv, JobInv, Gaps, AllStepsFinished, FinishedIsComplete
<1> QED BY Invariance, <1>1, PTL

\* A job that failed in its worker has no layer.
THEOREM FailureWithdraws == Spec => []FailureIsWithdrawn
<1>1. IInv => FailureIsWithdrawn
  BY DEF IInv, JobInv, Withdrawn, FailureIsWithdrawn
<1> QED BY Invariance, <1>1, PTL

\* A kill that lands while a step's function runs is never overwritten.
THEOREM KillHonoured == Spec => []KillDuringStepIsHonoured
<1>1. IInv => KillDuringStepIsHonoured
  BY DEF IInv, JobInv, Honoured, Withdrawn, LastPC, KillDuringStepIsHonoured
<1> QED BY Invariance, <1>1, PTL

----------------------------------------------------------------------------
(* The refinement: what a step of a job looks like from the outside.       *)
NoChange(i) == Phase(i)' = Phase(i) /\ Answer(i)' = Answer(i) /\ LayerLeft(i)' = LayerLeft(i)

Moves(i) ==
  \/ NoChange(i)
  \/ /\ Phase(i) = "absent" /\ Phase(i)' = "open"
     /\ Answer(i)' = Answer(i) /\ LayerLeft(i)' = LayerLeft(i)
  \/ /\ Phase(i) = "open" /\ Phase(i)' = "closed"
     /\ \/ Answer(i)' = "finished" /\ LayerLeft(i)' = TRUE
        \/ Answer(i)' = "failed" /\ LayerLeft(i)' = FALSE
        \/ Answer(i)' = "killed" /\ LayerLeft(i)' \in BOOLEAN
  \/ /\ Phase(i) = "closed" /\ Phase(i)' = "closed"
     /\ Answer(i)' = "killed" /\ LayerLeft(i)' = LayerLeft(i)
  \/ /\ Phase(i) = "open" /\ Phase(i)' = "lost"
     /\ Answer(i)' = Answer(i) /\ LayerLeft(i)' = LayerLeft(i)

\* Seen from the outside, a step of a job is one of the promise's moves or nothing.
LEMMA StepMoves ==
  ASSUME IInv, NEW i \in Jobs, JobStep(i)
  PROVE  Moves(i)
<1> USE DEF Moves, NoChange, Phase, Answer, LayerLeft, Closed, Goto, requestVars,
        update_status, IInv, TypeOK
<1>1. CASE CountRunning(i) \/ CreateJob(i) \/ KillRead(i) \/ Age(i) \/ JobInit(i)
           \/ OutsideStepRaises(i) \/ StartStep(i) \/ StartRefresh(i)
  BY <1>1 DEF CountRunning, CreateJob, KillRead, Age, JobInit, OutsideStepRaises,
     StartStep, StartRefresh
<1>2. CASE FuncReturns(i) \/ FuncRaises(i) \/ MarkFailed(i) \/ CheckKilled(i)
           \/ LogStep(i) \/ LogRefresh(i)
  BY <1>2 DEF FuncReturns, FuncRaises, MarkFailed, CheckKilled, LogStep, LogRefresh, AfterStep
<1>3. CASE CleanKilled(i) \/ CleanFailed(i) \/ CleanStep(i)
  BY <1>3 DEF CleanKilled, CleanFailed, CleanStep, StepFailureFunc, AfterStep
<1>4. CASE CleanInit(i)
  BY <1>4 DEF CleanInit
<1>5. CASE Work(i) \/ TailWork(i) \/ TailReturns(i)
  BY <1>5 DEF Work, TailWork, DoWork, TailReturns
<1>6. CASE Crash(i)
  BY <1>6 DEF Crash, Alive, Ended, PC
<1>7. CASE DropTemp(i)
  BY <1>7 DEF DropTemp
<1>8. CASE Fail(i)
  BY <1>8 DEF Fail, JobInv, Withdrawn
<1>9. CASE KillWrite(i)
  BY <1>9 DEF KillWrite
<1>10. CASE label_failed_jobs(i)
  BY <1>10 DEF label_failed_jobs, Killable, JobInv, Report
<1>11. CASE Finish(i)
  BY <1>11 DEF Finish, JobInv, Report, Control, Gaps
<1> QED BY <1>1, <1>2, <1>3, <1>4, <1>5, <1>6, <1>7, <1>8, <1>9, <1>10, <1>11
        DEF JobStep, Worker

\* Every step of the job service is a step of the promise or leaves it as it is.
LEMMA NextKeepsPromise ==
  ASSUME IInv, NEW i \in Jobs, JobStep(i)
  PROVE  [Promise!Next]_(Promise!vars)
<1>1. Moves(i)
  BY StepMoves
<1>2. \A j \in Jobs : j # i => NoChange(j)
  BY OthersSame DEF IInv, NoChange, Same, Phase, Answer, LayerLeft, Closed
<1> DEFINE phase == [j \in Jobs |-> Phase(j)]
           answer == [j \in Jobs |-> Answer(j)]
           layer == [j \in Jobs |-> LayerLeft(j)]
<1>3. /\ phase' = [phase EXCEPT ![i] = Phase(i)']
      /\ answer' = [answer EXCEPT ![i] = Answer(i)']
      /\ layer' = [layer EXCEPT ![i] = LayerLeft(i)']
      /\ phase[i] = Phase(i) /\ answer[i] = Answer(i) /\ layer[i] = LayerLeft(i)
  BY <1>2 DEF NoChange
<1>4. /\ Answer(i)' = Answer(i) => answer' = answer
      /\ LayerLeft(i)' = LayerLeft(i) => layer' = layer
      /\ Phase(i)' = Phase(i) => phase' = phase
  BY <1>3
<1> HIDE DEF phase, answer, layer
<1>5. CASE NoChange(i)
  BY <1>4, <1>5 DEF NoChange, Promise!vars, phase, answer, layer
<1>6. CASE ~NoChange(i)
  <2>1. (Promise!Submit(i) \/ Promise!Deliver(i) \/ Promise!Refuse(i) \/ Promise!Stop(i)
         \/ Promise!LateKill(i) \/ Promise!Lose(i))
    BY <1>1, <1>3, <1>4, <1>6 DEF Moves, Promise!Submit, Promise!Deliver, Promise!Refuse,
       Promise!Stop, Promise!LateKill, Promise!Lose, Promise!Close, phase, answer, layer
  <2> QED BY <2>1 DEF Promise!Next
<1> QED BY <1>5, <1>6

\* Whatever the interleaving of worker, kill requests and label script, the job
\* service shows its clients what JobPromise allows, and nothing else.
THEOREM Refinement == Spec => KeepsPromise
<1>1. Init => Promise!Init
  <2> SUFFICES ASSUME Init PROVE Promise!Init
    OBVIOUS
  <2>1. \A j \in Jobs : pc[j] = "none"
    BY DEF Init
  <2>2. \A j \in Jobs : Phase(j) = "absent" /\ Answer(j) = "none" /\ LayerLeft(j) = FALSE
    BY <2>1 DEF Phase, Answer, LayerLeft, Closed
  <2> QED BY <2>2 DEF Promise!Init
<1>2. IInv /\ [Next]_vars => [Promise!Next]_(Promise!vars)
  <2>1. ASSUME IInv, Next PROVE [Promise!Next]_(Promise!vars)
    BY <2>1, NextKeepsPromise DEF Next, JobStep
  <2>2. ASSUME UNCHANGED vars PROVE [Promise!Next]_(Promise!vars)
    BY <2>2 DEF vars, Promise!vars, Phase, Answer, LayerLeft, Closed
  <2> QED BY <2>1, <2>2
<1> QED BY Invariance, <1>1, <1>2, PTL DEF Spec, Safety, KeepsPromise, Promise!Spec
============================================================================
