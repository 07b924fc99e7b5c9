--------------------------- MODULE AuditRunProofs ---------------------------
(***************************************************************************)
(* Theorems about AuditRun, for every number of calls, accounts, keys and  *)
(* workers, every limit and every budget of faults:                        *)
(*   - the type invariant holds of every behaviour;                        *)
(*   - when a run is never overlapped by another delivery of its task and  *)
(*     a failed enqueue never queued the task, the counter of an account   *)
(*     is exactly its unreturned units, no unit is returned twice and a    *)
(*     terminal status is final;                                           *)
(*   - and with overlapping deliveries, lost enqueues and every fault but  *)
(*     those a hypothesis names: a key is charged once, a refused submit   *)
(*     leaves no job (SubmitsKnow, SubmitsKnowRows), a failed job has its  *)
(*     unit back (FailuresSettle), a status tells whether there is a score *)
(*     (ScoresSettle).                                                     *)
(***************************************************************************)
EXTENDS AuditRun, FiniteSetTheorems, TLAPS

TaskType == [Calls -> [state : TaskStates, retried : 0..MaxRetry,
                       holder : Workers \cup {None}]]
RunType == [Workers -> [pc : RunStates, call : Calls \cup {None}, outcome : Delivered]]

Busy == \A w \in Workers : run[w].pc # "idle" => run[w].call \in Calls

LEMMA SpendType ==
  ASSUME budget \in [Faults -> Nat], NEW f \in Faults, Spend(f)
  PROVE  budget' \in [Faults -> Nat]
BY DEF Spend

LEMMA RequeueType ==
  ASSUME TypeOK, NEW c \in Calls, Requeue(c)
  PROVE  task' \in TaskType
<1> DEFINE T == [state : TaskStates, retried : 0..MaxRetry, holder : Workers \cup {None}]
<1>1. task \in [Calls -> T] /\ task[c] \in T
  BY DEF TypeOK
<1>2. CASE task[c].retried < MaxRetry
  <2>1. task[c].retried + 1 \in 0..MaxRetry
    BY <1>1, <1>2, AuditAssumption DEF AuditAssumption
  <2>2. [state |-> "pending", retried |-> task[c].retried + 1, holder |-> None] \in T
    BY <2>1 DEF TaskStates
  <2> QED BY <1>1, <1>2, <2>2 DEF Requeue, TaskType
<1>3. CASE ~(task[c].retried < MaxRetry)
  <2>1. [task[c] EXCEPT !.state = "archived", !.holder = None] \in T
    BY <1>1 DEF TaskStates
  <2> QED BY <1>1, <1>3, <2>1 DEF Requeue, TaskType
<1> QED BY <1>2, <1>3

\* Ending a run, well or not, keeps the tasks and the runs well typed.
LEMMA EndType ==
  ASSUME TypeOK, NEW w \in Workers, run[w].pc # "idle", Complete(w) \/ Fail(w)
  PROVE  task' \in TaskType /\ run' \in RunType /\ Busy'
<1> DEFINE T == [state : TaskStates, retried : 0..MaxRetry, holder : Workers \cup {None}]
<1>1. run[w].call \in Calls
  BY DEF TypeOK
<1>2. run' \in RunType /\ Busy'
  <2>1. IdleRun \in [pc : RunStates, call : Calls \cup {None}, outcome : Delivered]
    BY DEF IdleRun, RunStates, Delivered
  <2>2. run' = [run EXCEPT ![w] = IdleRun]
    BY DEF Complete, Fail
  <2>3. IdleRun.pc = "idle"
    BY DEF IdleRun
  <2> QED BY <2>1, <2>2, <2>3 DEF TypeOK, RunType, Busy
<1>3. CASE Complete(w)
  <2>1. task \in [Calls -> T] /\ task[run[w].call] \in T
    BY <1>1 DEF TypeOK
  <2>2. CASE ~Holds(w)
    <3>1. task' = task
      BY <1>3, <2>2 DEF Complete
    <3> QED BY <1>2, <2>1, <3>1 DEF TaskType
  <2>3. CASE Holds(w)
    <3> DEFINE c == run[w].call
    <3>1. task' = [task EXCEPT ![c].state = "done", ![c].holder = None]
      BY <1>3, <2>3 DEF Complete
    <3>2. ASSUME NEW d \in Calls PROVE task'[d] \in T
      <4>1. CASE d = c
        <5>1. task'[d] = [[task[c] EXCEPT !.state = "done"] EXCEPT !.holder = None]
          BY <2>1, <3>1, <4>1
        <5> QED BY <2>1, <5>1 DEF TaskStates
      <4>2. CASE d # c
        BY <2>1, <3>1, <4>2
      <4> QED BY <4>1, <4>2
    <3>3. task' = [d \in Calls |-> task'[d]]
      BY <2>1, <3>1
    <3> QED BY <1>2, <3>2, <3>3 DEF TaskType
  <2> QED BY <1>2, <2>2, <2>3
<1>4. CASE Fail(w)
  BY <1>1, <1>2, <1>4, RequeueType DEF Fail, TypeOK, TaskType
<1> QED BY <1>2, <1>3, <1>4

\* A statement that moves a run to its next state keeps the types.
LEMMA StepType ==
  ASSUME TypeOK, NEW w \in Workers, run[w].pc # "idle", NEW to \in RunStates, Step(w, to)
  PROVE  task' = task /\ budget' = budget /\ run' \in RunType /\ Busy'
BY DEF Step, TypeOK, NoFault, RunType, Busy

LEMMA WriteStatusType ==
  ASSUME TypeOK, NEW c, NEW s \in Terminal \cup {"running"}, WriteStatus(c, s)
  PROVE  status' \in [Calls -> Terminal \cup {"none", "queued", "running"}]
BY DEF TypeOK, WriteStatus

LEMMA UnitType ==
  ASSUME TypeOK, NEW c \in Calls, TakeUnit(c) \/ ReturnUnit(c)
  PROVE  /\ used' \in [Users -> Nat]
         /\ reserved' \in [Calls -> BOOLEAN]
         /\ refunds' \in [Calls -> Nat]
<1>1. req[c].user \in Users
  BY DEF TypeOK
<1>2. CASE TakeUnit(c)
  BY <1>1, <1>2 DEF TypeOK, TakeUnit
<1>3. CASE ReturnUnit(c)
  <2>1. used' \in [Users -> Nat]
    BY <1>1, <1>3 DEF TypeOK, ReturnUnit
  <2>2. refunds' \in [Calls -> Nat] /\ reserved' = reserved
    BY <1>3 DEF TypeOK, ReturnUnit
  <2> QED BY <2>1, <2>2 DEF TypeOK
<1> QED BY <1>2, <1>3

LEMMA SubmitType ==
  ASSUME TypeOK, NEW c \in Calls, Submit(c) \/ APICrash(c)
  PROVE  TypeOK'
<1> USE DEF TypeOK, Goto, SubmitStates
<1>1. CASE Reserve(c)
  BY <1>1, UnitType, SpendType DEF Reserve, jobVars, unitVars, NoFault, Faults
<1>2. CASE CreateJob(c)
  <2>1. budget' \in [Faults -> Nat]
    BY <1>2, SpendType DEF CreateJob, NoFault, Faults
  <2>2. submit' \in [Calls -> SubmitStates]
    BY <1>2 DEF CreateJob
  <2>3. reply' \in [Calls -> Calls]
    BY <1>2 DEF CreateJob, Holders
  <2>4. status' \in [Calls -> Terminal \cup {"none", "queued", "running"}]
    BY <1>2 DEF CreateJob
  <2>5. UNCHANGED <<req, used, reserved, refunds, score, task, run>>
    BY <1>2 DEF CreateJob, unitVars
  <2> QED BY <2>1, <2>2, <2>3, <2>4, <2>5
<1>3. CASE EnqueueRun(c)
  <2>1. budget' \in [Faults -> Nat]
    BY <1>3, SpendType DEF EnqueueRun, NoFault, Faults
  <2>2. Queued \in [state : TaskStates, retried : 0..MaxRetry, holder : Workers \cup {None}]
    BY AuditAssumption DEF AuditAssumption, Queued, TaskStates
  <2>3. task' \in TaskType
    BY <1>3, <2>2 DEF EnqueueRun, TaskType
  <2> QED BY <1>3, <2>1, <2>3 DEF EnqueueRun, unitVars, jobVars, TaskType
<1>4. CASE DeleteJob(c)
  BY <1>4, SpendType DEF DeleteJob, unitVars, jobVars, NoFault, Faults
<1>5. CASE ReleaseQuiet(c)
  BY <1>5, SpendType, UnitType DEF ReleaseQuiet, unitVars, jobVars, NoFault, Faults
<1>6. CASE APICrash(c)
  BY <1>6, SpendType DEF APICrash, unitVars, jobVars, Faults
<1> QED BY <1>1, <1>2, <1>3, <1>4, <1>5, <1>6 DEF Submit

LEMMA WorkType ==
  ASSUME TypeOK, NEW w \in Workers, run[w].pc # "idle",
         Work(w) \/ WorkerCrash(w) \/ LoseLease(w)
  PROVE  TypeOK'
<1> USE DEF TaskType, RunType, Busy
<1>a. run[w].call \in Calls /\ run[w].outcome \in Delivered
  BY DEF TypeOK
<1>b. ASSUME (Complete(w) /\ NoFault) \/ (Fail(w) /\ NoFault) \/ FailEarly(w)
             \/ \E f \in Faults : Fail(w) /\ Spend(f)
      PROVE  task' \in TaskType /\ run' \in RunType /\ Busy' /\ budget' \in [Faults -> Nat]
  BY <1>b, EndType, SpendType DEF FailEarly, NoFault, Faults, TypeOK
<1>1. CASE LoadJob(w)
  BY <1>1, <1>b, StepType DEF LoadJob, requestVars, unitVars, jobVars, RunStates, TypeOK
<1>2. CASE SetRunning(w)
  <2>1. status' \in [Calls -> Terminal \cup {"none", "queued", "running"}]
    BY <1>2, WriteStatusType DEF SetRunning, TypeOK
  <2>2. task' \in TaskType /\ run' \in RunType /\ Busy' /\ budget' \in [Faults -> Nat]
    BY <1>2, <1>b, StepType DEF SetRunning, RunStates, TypeOK
  <2> QED BY <1>2, <2>1, <2>2 DEF SetRunning, requestVars, unitVars, TypeOK
<1>3. CASE Resolve(w)
  BY <1>3, <1>b, StepType DEF Resolve, requestVars, unitVars, jobVars, RunStates, TypeOK
<1>4. CASE FanOut(w)
  <2>1. ASSUME NEW outcome \in Delivered,
               run' = [run EXCEPT ![w].pc = "score", ![w].outcome = outcome]
        PROVE  run' \in RunType /\ Busy'
    BY <2>1 DEF TypeOK, RunStates
  <2>2. task' \in TaskType /\ run' \in RunType /\ Busy' /\ budget' \in [Faults -> Nat]
    <3>1. CASE \E outcome \in Delivered :
                 run' = [run EXCEPT ![w].pc = "score", ![w].outcome = outcome]
      BY <1>4, <1>b, <2>1, <3>1, StepType DEF FanOut, TypeOK, NoFault, RunStates
    <3>2. CASE Step(w, "noData") \/ (Fail(w) /\ NoFault) \/ FailEarly(w)
      BY <3>2, <1>b, StepType DEF TypeOK, RunStates
    <3> QED BY <1>4, <3>1, <3>2 DEF FanOut
  <2> QED BY <1>4, <2>2 DEF FanOut, requestVars, unitVars, jobVars, TypeOK
<1>5. CASE ScoreAndReport(w)
  BY <1>5, <1>b, StepType
  DEF ScoreAndReport, requestVars, unitVars, RunStates, Faults, TypeOK
<1>6. CASE Settle(w)
  <2>1. status' \in [Calls -> Terminal \cup {"none", "queued", "running"}]
    BY <1>6, <1>a, WriteStatusType DEF Settle, Delivered, Terminal, TypeOK
  <2>2. task' \in TaskType /\ run' \in RunType /\ Busy' /\ budget' \in [Faults -> Nat]
    BY <1>6, <1>b DEF Settle, Faults
  <2> QED BY <1>6, <2>1, <2>2 DEF Settle, requestVars, unitVars, TypeOK
<1>7. CASE SettleNoData(w)
  BY <1>7, <1>b, StepType, WriteStatusType
  DEF SettleNoData, requestVars, unitVars, Faults, Terminal, RunStates, TypeOK
<1>8. CASE ReleaseNoData(w)
  BY <1>8, <1>a, <1>b, UnitType
  DEF ReleaseNoData, requestVars, unitVars, jobVars, Faults, TypeOK
<1>9. CASE WorkerCrash(w)
  BY <1>9, <1>b DEF WorkerCrash, requestVars, unitVars, jobVars, Faults, TypeOK
<1>10. CASE LoseLease(w)
  BY <1>10, <1>a, RequeueType, SpendType
  DEF LoseLease, requestVars, unitVars, jobVars, Faults, TypeOK
<1> QED BY <1>1, <1>2, <1>3, <1>4, <1>5, <1>6, <1>7, <1>8, <1>9, <1>10 DEF Work

\* Every step of a worker belongs to a run that is under way.
LEMMA WorkIsBusy ==
  ASSUME NEW w \in Workers, Work(w) \/ WorkerCrash(w) \/ LoseLease(w)
  PROVE  run[w].pc # "idle"
BY DEF Work, LoadJob, SetRunning, Resolve, FanOut, ScoreAndReport, Settle, SettleNoData,
       ReleaseNoData, WorkerCrash, LoseLease, At

\* The variables keep their types, whatever faults are injected.
THEOREM TypeCorrect == Spec => []TypeOK
<1>1. Init => TypeOK
  BY AuditAssumption
  DEF AuditAssumption, Init, TypeOK, SubmitStates, TaskStates, RunStates, Delivered, IdleRun
<1>2. TypeOK /\ [Next]_vars => TypeOK'
  <2> SUFFICES ASSUME TypeOK, [Next]_vars PROVE TypeOK'
    OBVIOUS
  <2>1. ASSUME NEW c \in Calls, Submit(c) \/ APICrash(c) PROVE TypeOK'
    BY <2>1, SubmitType
  <2>2. ASSUME NEW w \in Workers, NEW c \in Calls, Deliver(w, c) PROVE TypeOK'
    BY <2>2 DEF Deliver, requestVars, unitVars, jobVars, TypeOK, IdleRun, TaskStates,
                RunStates, Delivered
  <2>3. ASSUME NEW w \in Workers, Work(w) \/ WorkerCrash(w) \/ LoseLease(w) PROVE TypeOK'
    BY <2>3, WorkType, WorkIsBusy
  <2>4. CASE UNCHANGED vars
    BY <2>4 DEF vars, requestVars, unitVars, jobVars, TypeOK
  <2> QED BY <2>1, <2>2, <2>3, <2>4 DEF Next
<1> QED BY <1>1, <1>2, PTL DEF Spec

-----------------------------------------------------------------------------
(* One run at a time.  A lease lost under a live run, and an enqueue that
   queued the task although it answered with an error, both let a job be
   acted on from two sides; the README tells what goes wrong then.  The
   rest assumes the environment does neither, and any number of everything
   else. *)

SingleRun == FaultBudget["overlap"] = 0 /\ FaultBudget["enqueueLost"] = 0

\* The two faults stay out of the budget.
BudgetInv == budget["overlap"] = 0 /\ budget["enqueueLost"] = 0

\* A run holds the lease of its task, so it is alone on its job; and how far
\* it has come tells what its job's row and unit look like.
RunInv(w) ==
  run[w].pc # "idle" =>
    LET c == run[w].call IN
    /\ task[c].state = "active"
    /\ task[c].holder = w
    /\ run[w].pc \notin {"load", "release"} => status[c] \in {"queued", "running"}
    /\ run[w].pc = "release" => status[c] = "failed" /\ refunds[c] = 0

\* The phases in which a submit still owes its unit or its job something.
Pending == {"reserved", "created", "undo", "release", "replay"}

\* What a call's phase says of its row, its unit and its task.
CallInv(c) ==
  /\ submit[c] = "idle" => ~reserved[c]
  /\ submit[c] \in Pending => reserved[c] /\ refunds[c] = 0 /\ task[c].state = "none"
  /\ submit[c] \in {"created", "undo"} => status[c] = "queued"
  /\ status[c] # "none" \/ refunds[c] > 0 => reserved[c]
  /\ status[c] \in Terminal \cup {"running"} => task[c].state # "none"
  /\ task[c].state # "none" =>
       /\ submit[c] = "answered"
       /\ status[c] # "none"
       /\ status[c] # "failed" => refunds[c] = 0
  /\ refunds[c] <= 1

\* The calls whose unit counts against u: taken and not given back.
Charged(u) == {c \in Calls : req[c].user = u /\ reserved[c] /\ refunds[c] = 0}

\* The counter of an account is exactly the number of those calls.
Accounts == \A u \in Users : used[u] = Cardinality(Charged(u))

AuditInv ==
  /\ TypeOK
  /\ BudgetInv
  /\ \A c \in Calls : CallInv(c)
  /\ \A w \in Workers : RunInv(w)
  /\ Accounts

LEMMA SpendBudget ==
  ASSUME TypeOK, BudgetInv, NEW f \in Faults, Spend(f)
  PROVE  BudgetInv' /\ f \notin {"overlap", "enqueueLost"}
BY DEF TypeOK, BudgetInv, Spend, Faults

\* The counter follows the charged calls when a unit is taken ...
LEMMA TakeAccounts ==
  ASSUME TypeOK, Accounts, NEW c \in Calls, CallInv(c), ~reserved[c], TakeUnit(c), req' = req
  PROVE  Accounts'
<1> DEFINE p == req[c].user
<1>1. refunds[c] = 0 /\ p \in Users
  BY DEF TypeOK, CallInv
<1>2. \A u \in Users : IsFiniteSet(Charged(u))
  BY FS_Subset, AuditAssumption DEF AuditAssumption, Charged
<1>3. ASSUME NEW u \in Users PROVE used'[u] = Cardinality(Charged(u)')
  <2>1. CASE u = p
    <3>1. Charged(u)' = Charged(u) \cup {c} /\ c \notin Charged(u)
      BY <1>1, <2>1 DEF Charged, TakeUnit, TypeOK
    <3>2. Cardinality(Charged(u) \cup {c}) = Cardinality(Charged(u)) + 1
      BY <1>2, <3>1, FS_AddElement
    <3> QED BY <1>1, <2>1, <3>1, <3>2 DEF Accounts, TakeUnit, TypeOK
  <2>2. CASE u # p
    <3>1. Charged(u)' = Charged(u)
      BY <2>2 DEF Charged, TakeUnit, TypeOK
    <3> QED BY <1>1, <2>2, <3>1 DEF Accounts, TakeUnit, TypeOK
  <2> QED BY <2>1, <2>2
<1> QED BY <1>3 DEF Accounts

\* ... and when one is given back for the first time.
LEMMA ReturnAccounts ==
  ASSUME TypeOK, Accounts, NEW c \in Calls, reserved[c], refunds[c] = 0, ReturnUnit(c),
         req' = req
  PROVE  Accounts'
<1> DEFINE p == req[c].user
<1>1. p \in Users /\ c \in Charged(p)
  BY DEF TypeOK, Charged
<1>2. \A u \in Users : IsFiniteSet(Charged(u))
  BY FS_Subset, AuditAssumption DEF AuditAssumption, Charged
<1>3. ASSUME NEW u \in Users PROVE used'[u] = Cardinality(Charged(u)')
  <2>1. CASE u = p
    <3>1. Charged(u)' = Charged(u) \ {c}
      BY <1>1, <2>1 DEF Charged, ReturnUnit, TypeOK
    <3>2. Cardinality(Charged(u) \ {c}) = Cardinality(Charged(u)) - 1
      BY <1>1, <1>2, <2>1, FS_RemoveElement
    <3>3. used[u] = Cardinality(Charged(u)) /\ used[u] \in Nat /\ Charged(u) # {}
      BY <1>1, <2>1 DEF Accounts, TypeOK
    <3>4. used[u] # 0
      BY <1>2, <3>3, FS_EmptySet
    <3>5. used'[u] = used[u] - 1
      BY <1>1, <2>1, <3>3, <3>4 DEF ReturnUnit, TypeOK
    <3> QED BY <3>1, <3>2, <3>3, <3>5
  <2>2. CASE u # p
    <3>1. Charged(u)' = Charged(u)
      BY <2>2 DEF Charged, ReturnUnit, TypeOK
    <3> QED BY <1>1, <2>2, <3>1 DEF Accounts, ReturnUnit, TypeOK
  <2> QED BY <2>1, <2>2
<1> QED BY <1>3 DEF Accounts

LEMMA SameAccounts ==
  ASSUME Accounts, req' = req, UNCHANGED unitVars
  PROVE  Accounts'
BY DEF Accounts, Charged, unitVars

\* What a step on c leaves alone about another call d.
Same(d) ==
  /\ submit'[d] = submit[d] /\ status'[d] = status[d] /\ task'[d] = task[d]
  /\ reserved'[d] = reserved[d] /\ refunds'[d] = refunds[d]

LEMMA SameCall ==
  ASSUME NEW d \in Calls, CallInv(d), Same(d)
  PROVE  CallInv(d)'
BY DEF CallInv, Same

\* No run is under way for a submit that was not answered, so a step of that
\* submit disturbs no run.
LEMMA SubmitKeepsRuns ==
  ASSUME AuditInv, NEW c \in Calls, submit[c] # "answered", run' = run,
         \A d \in Calls \ {c} : Same(d)
  PROVE  \A w \in Workers : RunInv(w)'
<1> SUFFICES ASSUME NEW w \in Workers, run[w].pc # "idle" PROVE RunInv(w)'
  BY DEF RunInv
<1>1. run[w].call \in Calls /\ RunInv(w) /\ CallInv(run[w].call)
  BY DEF AuditInv, TypeOK
<1>2. run[w].call # c
  BY <1>1 DEF RunInv, CallInv
<1> QED BY <1>1, <1>2 DEF RunInv, Same

\* Two runs never share a job, so a step of one leaves the others as they were.
LEMMA RunKeepsRuns ==
  ASSUME AuditInv, NEW w \in Workers, run[w].pc # "idle",
         \A v \in Workers \ {w} : run'[v] = run[v],
         \A d \in Calls \ {run[w].call} : Same(d)
  PROVE  \A v \in Workers \ {w} : RunInv(v)'
<1> SUFFICES ASSUME NEW v \in Workers \ {w}, run[v].pc # "idle" PROVE RunInv(v)'
  BY DEF RunInv
<1>1. run[v].call \in Calls /\ RunInv(v) /\ RunInv(w)
  BY DEF AuditInv, TypeOK
<1>2. run[v].call # run[w].call
  BY <1>1 DEF RunInv
<1> QED BY <1>1, <1>2 DEF RunInv, Same

\* What a submit's step leaves alone.
LEMMA SubmitFrame ==
  ASSUME TypeOK, NEW c \in Calls, Submit(c) \/ APICrash(c)
  PROVE  /\ submit[c] # "answered"
         /\ run' = run /\ req' = req
         /\ \A d \in Calls \ {c} : Same(d)
BY DEF Submit, APICrash, Reserve, CreateJob, EnqueueRun, DeleteJob, ReleaseQuiet, Same,
       TypeOK, Goto, TakeUnit, ReturnUnit, jobVars, unitVars, Queued

Kept == BudgetInv' /\ (\A c \in Calls : CallInv(c)') /\ (\A w \in Workers : RunInv(w)') /\ Accounts'

\* Steps of a submit.
LEMMA SubmitInv ==
  ASSUME AuditInv, NEW c \in Calls, Submit(c) \/ APICrash(c)
  PROVE  Kept
<1>1. TypeOK /\ BudgetInv /\ Accounts /\ CallInv(c)
  BY DEF AuditInv
<1>2. BudgetInv'
  <2>1. budget' = budget \/ \E f \in Faults : Spend(f)
    BY DEF Submit, APICrash, Reserve, CreateJob, EnqueueRun, DeleteJob, ReleaseQuiet, NoFault,
           Faults
  <2> QED BY <1>1, <2>1, SpendBudget DEF BudgetInv
<1>3. /\ submit[c] # "answered"
      /\ run' = run /\ req' = req
      /\ \A d \in Calls \ {c} : Same(d)
  BY <1>1, SubmitFrame
<1>4. \A w \in Workers : RunInv(w)'
  BY <1>3, SubmitKeepsRuns
<1>5. \A d \in Calls \ {c} : CallInv(d)'
  BY <1>3, SameCall DEF AuditInv
<1>6. CallInv(c)' /\ Accounts'
  <2>1. CASE Reserve(c)
    <3>1. submit[c] = "idle" /\ ~reserved[c] /\ refunds[c] = 0 /\ status[c] = "none"
          /\ task[c].state = "none"
      BY <1>1, <2>1 DEF Reserve, Goto, CallInv, TypeOK
    <3>2. CASE TakeUnit(c)
      <4>1. Accounts'
        BY <1>1, <1>3, <3>1, <3>2, TakeAccounts
      <4>2. CallInv(c)'
        BY <1>1, <2>1, <3>1, <3>2
        DEF Reserve, TakeUnit, Goto, CallInv, TypeOK, jobVars, unitVars, Pending, Terminal
      <4> QED BY <4>1, <4>2
    <3>3. CASE UNCHANGED unitVars
      BY <1>1, <1>3, <2>1, <3>1, <3>3, SameAccounts
      DEF Reserve, TakeUnit, Goto, CallInv, TypeOK, jobVars, unitVars, Pending, Terminal
    <3> QED BY <2>1, <3>2, <3>3 DEF Reserve
  <2>2. CASE CreateJob(c)
    <3>1. Accounts'
      BY <1>1, <1>3, <2>2, SameAccounts DEF CreateJob
    <3>2. submit'[c] \in {"created", "replay", "release"}
          /\ (submit'[c] = "created" => status'[c] = "queued")
          /\ status'[c] \in {status[c], "queued"}
      BY <1>1, <2>2 DEF CreateJob, Goto, TypeOK
    <3>3. submit[c] = "reserved" /\ UNCHANGED <<task, refunds, reserved>>
      BY <2>2 DEF CreateJob, Goto, unitVars
    <3>4. CallInv(c)'
      BY <1>1, <3>2, <3>3 DEF CallInv, Pending, Terminal
    <3> QED BY <3>1, <3>4
  <2>3. CASE EnqueueRun(c)
    <3>1. Accounts'
      BY <1>1, <1>3, <2>3, SameAccounts DEF EnqueueRun
    <3>2. ~Spend("enqueueLost")
      BY <1>1, SpendBudget DEF Faults
    <3>3. CallInv(c)'
      BY <1>1, <2>3, <3>2
      DEF EnqueueRun, Goto, CallInv, TypeOK, unitVars, jobVars, Queued, Pending, Terminal
    <3> QED BY <3>1, <3>3
  <2>4. CASE DeleteJob(c)
    BY <1>1, <1>3, <2>4, SameAccounts
    DEF DeleteJob, Goto, CallInv, TypeOK, unitVars, jobVars, Pending, Terminal
  <2>5. CASE ReleaseQuiet(c)
    <3>1. reserved[c] /\ refunds[c] = 0 /\ task[c].state = "none"
      BY <1>1, <2>5 DEF ReleaseQuiet, Goto, CallInv, Pending
    <3>2. CASE ReturnUnit(c)
      <4>1. Accounts'
        BY <1>1, <1>3, <3>1, <3>2, ReturnAccounts
      <4>2. CallInv(c)'
        BY <1>1, <2>5, <3>1, <3>2
        DEF ReleaseQuiet, ReturnUnit, Goto, CallInv, TypeOK, jobVars, Pending, Terminal
      <4> QED BY <4>1, <4>2
    <3>3. CASE UNCHANGED unitVars
      BY <1>1, <1>3, <2>5, <3>1, <3>3, SameAccounts
      DEF ReleaseQuiet, Goto, CallInv, TypeOK, jobVars, unitVars, Pending, Terminal
    <3> QED BY <2>5, <3>2, <3>3 DEF ReleaseQuiet
  <2>6. CASE APICrash(c)
    BY <1>1, <1>3, <2>6, SameAccounts
    DEF APICrash, CallInv, TypeOK, unitVars, jobVars, Pending, Terminal
  <2> QED BY <2>1, <2>2, <2>3, <2>4, <2>5, <2>6 DEF Submit
<1> QED BY <1>2, <1>4, <1>5, <1>6 DEF Kept

\* How the end of a run, or the loss of its lease, leaves its own job's task.
LEMMA EndTask ==
  ASSUME AuditInv, NEW w \in Workers, run[w].pc # "idle", Complete(w) \/ Fail(w)
  PROVE  /\ run' = [run EXCEPT ![w] = IdleRun]
         /\ \A d \in Calls \ {run[w].call} : task'[d] = task[d]
         /\ task'[run[w].call].state # "none"
<1> DEFINE c == run[w].call
<1>1. c \in Calls /\ Holds(w) /\ task \in [Calls -> [state : TaskStates, retried : 0..MaxRetry,
                         holder : Workers \cup {None}]]
  BY DEF AuditInv, TypeOK, RunInv, Holds
<1>2. CASE Complete(w)
  BY <1>1, <1>2 DEF Complete
<1>3. CASE Fail(w)
  <2> DEFINE r == IF task[c].retried < MaxRetry
                    THEN [state |-> "pending", retried |-> task[c].retried + 1, holder |-> None]
                    ELSE [task[c] EXCEPT !.state = "archived", !.holder = None]
  <2>1. task' = [task EXCEPT ![c] = r] /\ run' = [run EXCEPT ![w] = IdleRun]
    BY <1>1, <1>3 DEF Fail, Requeue
  <2>2. r.state # "none"
    BY <1>1
  <2> HIDE DEF r
  <2>3. task'[c] = r /\ \A d \in Calls \ {c} : task'[d] = task[d]
    BY <1>1, <2>1
  <2> QED BY <2>1, <2>2, <2>3
<1> QED BY <1>2, <1>3

\* What a worker's step finds, and what it leaves alone.
LEMMA WorkFrame ==
  ASSUME AuditInv, NEW w \in Workers, Work(w) \/ WorkerCrash(w) \/ LoseLease(w),
         NEW c, c = run[w].call
  PROVE  /\ run[w].pc # "idle" /\ c \in Calls
         /\ submit[c] = "answered" /\ reserved[c] /\ status[c] # "none"
         /\ task[c].state = "active" /\ task[c].holder = w
         /\ task'[c].state # "none"
         /\ BudgetInv' /\ ~LoseLease(w)
         /\ submit' = submit /\ req' = req
         /\ \A v \in Workers \ {w} : run'[v] = run[v]
         /\ \A d \in Calls \ {c} : Same(d)
<1>1. TypeOK /\ BudgetInv /\ Accounts /\ run[w].pc # "idle" /\ c \in Calls
  BY WorkIsBusy DEF AuditInv, TypeOK
<1>2. CallInv(c) /\ RunInv(w)
  BY <1>1 DEF AuditInv
<1>3. /\ submit[c] = "answered" /\ reserved[c] /\ status[c] # "none"
      /\ task[c].state = "active" /\ task[c].holder = w
  BY <1>1, <1>2 DEF CallInv, RunInv
<1>4. BudgetInv' /\ ~LoseLease(w)
  <2>1. budget' = budget \/ \E f \in Faults : Spend(f)
    BY DEF Work, LoadJob, SetRunning, Resolve, FanOut, ScoreAndReport, Settle, SettleNoData,
           ReleaseNoData, WorkerCrash, LoseLease, FailEarly, Step, NoFault, Faults
  <2>2. ~LoseLease(w)
    BY <1>1, SpendBudget DEF LoseLease, Faults
  <2> QED BY <1>1, <2>1, <2>2, SpendBudget DEF BudgetInv
<1>5. (Complete(w) \/ Fail(w)) \/ (task' = task /\ \E r : run' = [run EXCEPT ![w] = r])
  BY <1>1, <1>4 DEF Work, LoadJob, SetRunning, Resolve, FanOut, ScoreAndReport, Settle,
         SettleNoData, ReleaseNoData, WorkerCrash, FailEarly, Step, TypeOK
<1>6. /\ \A v \in Workers \ {w} : run'[v] = run[v]
      /\ \A d \in Calls \ {c} : task'[d] = task[d]
      /\ task'[c].state # "none"
  BY <1>1, <1>3, <1>5, EndTask DEF TypeOK
<1>7. /\ submit' = submit /\ req' = req
      /\ \A d \in Calls \ {c} : Same(d)
  BY <1>1, <1>4, <1>6
  DEF Work, LoadJob, SetRunning, Resolve, FanOut, ScoreAndReport, Settle, SettleNoData,
      ReleaseNoData, WorkerCrash, requestVars, unitVars, jobVars, Same, WriteStatus, ReturnUnit,
      TypeOK
<1> QED BY <1>1, <1>3, <1>4, <1>6, <1>7

\* Steps of a worker.
LEMMA WorkInv ==
  ASSUME AuditInv, NEW w \in Workers, Work(w) \/ WorkerCrash(w) \/ LoseLease(w),
         NEW c, c = run[w].call
  PROVE  Kept
<1>1. TypeOK /\ BudgetInv /\ Accounts /\ run[w].pc # "idle" /\ c \in Calls
  BY WorkIsBusy DEF AuditInv, TypeOK
<1>2. CallInv(c) /\ RunInv(w)
  BY <1>1 DEF AuditInv
<1>3. /\ submit[c] = "answered" /\ reserved[c] /\ status[c] # "none"
      /\ task[c].state = "active" /\ task[c].holder = w
  BY WorkFrame
<1>4. BudgetInv' /\ ~LoseLease(w)
  BY WorkFrame
<1>6. (\A v \in Workers \ {w} : run'[v] = run[v]) /\ task'[c].state # "none"
  BY WorkFrame
<1>7. /\ submit' = submit /\ req' = req
      /\ \A d \in Calls \ {c} : Same(d)
  BY WorkFrame
<1>8. /\ \A v \in Workers \ {w} : RunInv(v)'
      /\ \A d \in Calls \ {c} : CallInv(d)'
  BY <1>1, <1>6, <1>7, RunKeepsRuns, SameCall DEF AuditInv
<1>9. ASSUME Complete(w) \/ Fail(w) PROVE RunInv(w)'
  BY <1>1, <1>9, EndTask DEF RunInv, IdleRun, TypeOK
<1>10. ASSUME UNCHANGED <<unitVars, status>> PROVE Accounts' /\ CallInv(c)'
  BY <1>1, <1>2, <1>3, <1>6, <1>7, <1>10, SameAccounts DEF CallInv, unitVars
<1>11. RunInv(w)' /\ Accounts' /\ CallInv(c)'
  <2>1. CASE LoadJob(w)
    <3>1. CASE Step(w, "setRunning") /\ status[c] \in {"queued", "running"}
      BY <1>1, <1>2, <1>3, <1>10, <2>1, <3>1 DEF LoadJob, Step, RunInv, TypeOK, unitVars, jobVars
    <3> QED BY <1>9, <1>10, <2>1, <3>1 DEF LoadJob, FailEarly, unitVars, jobVars
  <2>2. CASE SetRunning(w)
    <3>1. CASE Step(w, "resolve") /\ WriteStatus(c, "running")
      <4>1. status'[c] = "running" /\ UNCHANGED unitVars
        BY <1>1, <1>3, <2>2, <3>1 DEF WriteStatus, TypeOK, SetRunning
      <4>2. RunInv(w)'
        BY <1>1, <1>2, <1>3, <3>1, <4>1 DEF Step, RunInv, TypeOK
      <4>3. status[c] \in {"queued", "running"}
        BY <1>1, <1>2, <2>2 DEF RunInv, SetRunning, At
      <4>4. CallInv(c)'
        BY <1>1, <1>2, <1>3, <1>6, <1>7, <4>1, <4>3 DEF CallInv, Pending, Terminal, unitVars
      <4> QED BY <1>1, <1>7, <4>1, <4>2, <4>4, SameAccounts
    <3> QED BY <1>9, <1>10, <2>2, <3>1 DEF SetRunning, FailEarly, unitVars
  <2>3. CASE Resolve(w)
    <3>1. CASE Step(w, "fanOut") \/ Step(w, "noData")
      <4>1. status[c] \in {"queued", "running"} /\ UNCHANGED <<status, unitVars>>
        BY <1>2, <2>3 DEF Resolve, At, RunInv, jobVars
      <4>2. run'[w].call = c /\ run'[w].pc \in {"fanOut", "noData"} /\ task' = task
        BY <1>1, <3>1 DEF Step, TypeOK
      <4>3. RunInv(w)'
        BY <1>3, <4>1, <4>2 DEF RunInv
      <4> QED BY <1>10, <4>1, <4>3
    <3> QED BY <1>9, <1>10, <2>3, <3>1 DEF Resolve, FailEarly, unitVars, jobVars
  <2>4. CASE FanOut(w)
    <3>1. CASE \E outcome \in Delivered :
                 run' = [run EXCEPT ![w].pc = "score", ![w].outcome = outcome]
      <4>1. status[c] \in {"queued", "running"} /\ UNCHANGED <<status, unitVars>>
        BY <1>2, <2>4 DEF FanOut, At, RunInv, jobVars
      <4>2. run'[w].call = c /\ run'[w].pc = "score"
        BY <1>1, <3>1 DEF TypeOK
      <4>3. task' = task
        <5>1. ~Fail(w)
          BY <1>1, <4>2, EndTask DEF IdleRun, TypeOK
        <5> QED BY <2>4, <5>1 DEF FanOut, FailEarly, Step
      <4>4. RunInv(w)'
        BY <1>3, <4>1, <4>2, <4>3 DEF RunInv
      <4> QED BY <1>10, <4>1, <4>4
    <3>2. CASE Step(w, "noData")
      BY <1>1, <1>2, <1>3, <1>10, <2>4, <3>2 DEF FanOut, At, Step, RunInv, TypeOK, unitVars, jobVars
    <3> QED BY <1>9, <1>10, <2>4, <3>1, <3>2 DEF FanOut, FailEarly, unitVars, jobVars
  <2>5. CASE ScoreAndReport(w)
    <3>1. CASE Step(w, "settle")
      BY <1>1, <1>2, <1>3, <1>10, <2>5, <3>1
      DEF ScoreAndReport, At, Step, RunInv, TypeOK, unitVars
    <3> QED BY <1>9, <1>10, <2>5, <3>1 DEF ScoreAndReport, FailEarly, unitVars
  <2>6. CASE Settle(w)
    <3>1. status[c] \in {"queued", "running"} /\ run[w].outcome \in Delivered
      BY <1>1, <1>2, <2>6 DEF RunInv, Settle, At, TypeOK
    <3>2. RunInv(w)'
      BY <1>9, <2>6 DEF Settle
    <3>3. UNCHANGED unitVars /\ status'[c] \in {status[c]} \cup Delivered
      BY <1>1, <2>6, <3>1 DEF Settle, WriteStatus, TypeOK
    <3>4. CallInv(c)'
      BY <1>1, <1>2, <1>3, <1>6, <1>7, <3>1, <3>3
      DEF CallInv, Pending, Terminal, Delivered, unitVars
    <3> QED BY <1>1, <1>7, <3>2, <3>3, <3>4, SameAccounts
  <2>7. CASE SettleNoData(w)
    <3>1. status[c] \in {"queued", "running"} /\ refunds[c] = 0
      BY <1>1, <1>2, <1>3, <2>7 DEF RunInv, CallInv, SettleNoData, At
    <3>2. UNCHANGED unitVars /\ status'[c] \in {status[c], "failed"}
      BY <1>1, <2>7, <3>1 DEF SettleNoData, WriteStatus, TypeOK
    <3>3. RunInv(w)'
      <4>1. CASE Step(w, "release") /\ WriteStatus(c, "failed")
        BY <1>1, <1>3, <2>7, <3>1, <4>1 DEF Step, WriteStatus, RunInv, TypeOK, SettleNoData, unitVars
      <4> QED BY <1>9, <2>7, <4>1 DEF SettleNoData
    <3>4. CallInv(c)'
      BY <1>1, <1>2, <1>3, <1>6, <1>7, <3>1, <3>2 DEF CallInv, Pending, Terminal, unitVars
    <3> QED BY <1>1, <1>7, <3>2, <3>3, <3>4, SameAccounts
  <2>8. CASE ReleaseNoData(w)
    <3>1. status[c] = "failed" /\ refunds[c] = 0 /\ status' = status
      BY <1>1, <1>2, <2>8 DEF RunInv, ReleaseNoData, At, jobVars
    <3>2. RunInv(w)'
      BY <1>9, <2>8 DEF ReleaseNoData
    <3>3. CASE ReturnUnit(c)
      <4>1. Accounts'
        BY <1>1, <1>3, <1>7, <3>1, <3>3, ReturnAccounts
      <4>2. CallInv(c)'
        BY <1>1, <1>2, <1>3, <1>6, <1>7, <3>1, <3>3
        DEF ReturnUnit, CallInv, TypeOK, Pending, Terminal
      <4> QED BY <3>2, <4>1, <4>2
    <3>4. CASE UNCHANGED unitVars
      BY <1>10, <3>1, <3>2, <3>4
    <3> QED BY <2>8, <3>3, <3>4 DEF ReleaseNoData
  <2>9. CASE WorkerCrash(w)
    BY <1>9, <1>10, <2>9 DEF WorkerCrash, unitVars, jobVars
  <2> QED BY <1>4, <2>1, <2>2, <2>3, <2>4, <2>5, <2>6, <2>7, <2>8, <2>9 DEF Work
<1> QED BY <1>4, <1>8, <1>11 DEF Kept

LEMMA DeliverInv ==
  ASSUME AuditInv, NEW w \in Workers, NEW c \in Calls, Deliver(w, c)
  PROVE  Kept
<1>1. TypeOK /\ CallInv(c)
  BY DEF AuditInv
<1>2. UNCHANGED <<requestVars, unitVars, jobVars, budget>>
  BY DEF Deliver
<1>3. BudgetInv' /\ Accounts'
  BY <1>2, SameAccounts DEF AuditInv, BudgetInv, requestVars
<1>4. \A d \in Calls \ {c} : Same(d)
  BY <1>1, <1>2 DEF Deliver, Same, requestVars, unitVars, jobVars, TypeOK
<1>5. task'[c].state = "active" /\ task'[c].holder = w /\ task[c].state = "pending"
  BY <1>1 DEF Deliver, TypeOK
<1>6. CallInv(c)'
  BY <1>1, <1>2, <1>5 DEF CallInv, requestVars, unitVars, jobVars
<1>7. \A v \in Workers : RunInv(v)'
  <2>1. RunInv(w)'
    BY <1>1, <1>5 DEF Deliver, RunInv, TypeOK, IdleRun
  <2>2. ASSUME NEW v \in Workers \ {w} PROVE RunInv(v)'
    <3>1. run'[v] = run[v] /\ RunInv(v)
      BY <1>1 DEF Deliver, TypeOK, AuditInv
    <3>2. run[v].pc # "idle" => run[v].call # c /\ run[v].call \in Calls
      BY <1>1, <1>5, <3>1 DEF RunInv, TypeOK
    <3> QED BY <1>4, <3>1, <3>2 DEF RunInv, Same
  <2> QED BY <2>1, <2>2
<1> QED BY <1>3, <1>4, <1>6, <1>7, SameCall DEF Kept, AuditInv

THEOREM InvariantHolds == ASSUME SingleRun PROVE Spec => []AuditInv
<1>1. Init => AuditInv
  <2> SUFFICES ASSUME Init PROVE AuditInv
    OBVIOUS
  <2>1. TypeOK
    BY AuditAssumption
    DEF AuditAssumption, Init, TypeOK, SubmitStates, TaskStates, RunStates, Delivered, IdleRun
  <2>2. BudgetInv
    BY DEF SingleRun, Init, BudgetInv
  <2>3. \A c \in Calls : CallInv(c)
    BY DEF Init, CallInv, Pending, Terminal
  <2>4. \A w \in Workers : RunInv(w)
    BY DEF Init, RunInv, IdleRun
  <2>5. \A u \in Users : Charged(u) = {}
    BY DEF Init, Charged
  <2>6. Accounts
    BY <2>5, FS_EmptySet DEF Init, Accounts
  <2> QED BY <2>1, <2>2, <2>3, <2>4, <2>6 DEF AuditInv
<1>2. AuditInv /\ TypeOK' /\ [Next]_vars => AuditInv'
  <2> SUFFICES ASSUME AuditInv, TypeOK', [Next]_vars PROVE AuditInv'
    OBVIOUS
  <2>1. ASSUME NEW c \in Calls, Submit(c) \/ APICrash(c) PROVE Kept
    BY <2>1, SubmitInv
  <2>2. ASSUME NEW w \in Workers, NEW c \in Calls, Deliver(w, c) PROVE Kept
    BY <2>2, DeliverInv
  <2>3. ASSUME NEW w \in Workers, Work(w) \/ WorkerCrash(w) \/ LoseLease(w) PROVE Kept
    BY <2>3, WorkInv
  <2>4. CASE UNCHANGED vars
    BY <2>4 DEF vars, requestVars, unitVars, jobVars, AuditInv, BudgetInv, CallInv, RunInv,
                Accounts, Charged
  <2> QED BY <2>1, <2>2, <2>3, <2>4 DEF Next, Kept, AuditInv
<1> QED BY <1>1, <1>2, TypeCorrect, PTL DEF Spec

-----------------------------------------------------------------------------
(* What the invariant gives. *)

\* No unit is given back twice, whoever gives it back.
THEOREM RefundsAreUnique == ASSUME SingleRun PROVE Spec => []RefundedAtMostOnce
<1>1. AuditInv => RefundedAtMostOnce
  BY DEF AuditInv, CallInv, RefundedAtMostOnce
<1> QED BY <1>1, InvariantHolds, PTL

\* An account pays for every audit delivered to it.
THEOREM DeliveryIsPaid == ASSUME SingleRun PROVE Spec => []DeliveredAreCharged
<1>1. AuditInv => DeliveredAreCharged
  <2> SUFFICES ASSUME AuditInv, NEW u \in Users
               PROVE  Cardinality({c \in Calls : req[c].user = u /\ status[c] \in Delivered})
                        <= used[u]
    BY DEF DeliveredAreCharged
  <2> DEFINE D == {c \in Calls : req[c].user = u /\ status[c] \in Delivered}
  <2>1. D \subseteq Charged(u)
    BY DEF AuditInv, CallInv, TypeOK, Charged, Delivered, Terminal
  <2>2. IsFiniteSet(Charged(u))
    BY FS_Subset, AuditAssumption DEF AuditAssumption, Charged
  <2>3. Cardinality(D) <= Cardinality(Charged(u))
    BY <2>1, <2>2, FS_Subset
  <2> QED BY <2>3 DEF AuditInv, Accounts
<1> QED BY <1>1, InvariantHolds, PTL

\* Once a job is succeeded, partial or failed, no step moves it.
THEOREM TerminalStays == ASSUME SingleRun PROVE Spec => TerminalIsFinal
<1> DEFINE Final == \A c \in Calls : status[c] \in Terminal => status'[c] = status[c]
<1>1. AuditInv /\ [Next]_vars => [Final]_vars
  <2> SUFFICES ASSUME AuditInv, Next PROVE Final
    OBVIOUS
  <2>1. ASSUME NEW c \in Calls, Submit(c) \/ APICrash(c) PROVE Final
    <3>1. CallInv(c) /\ TypeOK /\ \A d \in Calls \ {c} : Same(d)
      BY <2>1, SubmitFrame DEF AuditInv
    <3>2. status[c] \in Terminal => status'[c] = status[c]
      BY <2>1, <3>1
      DEF Submit, APICrash, Reserve, CreateJob, EnqueueRun, DeleteJob, ReleaseQuiet, Goto,
          jobVars, CallInv, Holders, Terminal, TypeOK
    <3> QED BY <3>1, <3>2 DEF Same
  <2>2. ASSUME NEW w \in Workers, NEW c \in Calls, Deliver(w, c) PROVE Final
    BY <2>2 DEF Deliver, jobVars
  <2>3. ASSUME NEW w \in Workers, Work(w) \/ WorkerCrash(w) \/ LoseLease(w) PROVE Final
    <3> DEFINE c == run[w].call
    <3>1. /\ run[w].pc # "idle" /\ c \in Calls /\ ~LoseLease(w)
          /\ \A d \in Calls \ {c} : Same(d)
      BY <2>3, WorkFrame
    <3>2. RunInv(w)
      BY DEF AuditInv
    <3>3. CASE At(w, "load") \/ At(w, "release")
      BY <2>3, <3>1, <3>3
      DEF At, Work, LoadJob, SetRunning, Resolve, FanOut, ScoreAndReport, Settle, SettleNoData,
          ReleaseNoData, WorkerCrash, jobVars
    <3>4. CASE ~(At(w, "load") \/ At(w, "release"))
      <4>1. status[c] \notin Terminal
        BY <3>1, <3>2, <3>4 DEF At, RunInv, Terminal
      <4> QED BY <3>1, <4>1 DEF Same
    <3> QED BY <3>3, <3>4
  <2> QED BY <2>1, <2>2, <2>3 DEF Next
<1> QED BY <1>1, InvariantHolds, PTL DEF Spec, TerminalIsFinal

-----------------------------------------------------------------------------
(* The flow implements the unit ledger. *)

\* The open units of the ledger are the charged calls.
LEMMA OpenIsCharged ==
  ASSUME TypeOK, NEW u \in Users
  PROVE  Ledger!Open(u) = Charged(u)
<1>1. ASSUME NEW c \in Calls
      PROVE  Unit(c) \in {"held", "charged"} <=> reserved[c] /\ refunds[c] = 0
  <2>1. refunds[c] \in Nat
    BY DEF TypeOK
  <2> QED BY <2>1 DEF Unit
<1> QED BY <1>1 DEF Ledger!Open, Charged

\* The ledger counts with the same operator.
LEMMA SameCount == ASSUME NEW S PROVE Ledger!Cardinality(S) = Cardinality(S)
BY DEF Ledger!Cardinality, Cardinality

\* A unit that was taken and not returned is in the counter.
LEMMA UnreturnedIsCounted ==
  ASSUME TypeOK, Accounts, NEW c \in Calls, reserved[c], refunds[c] = 0
  PROVE  used[req[c].user] > 0
<1> DEFINE u == req[c].user
<1>1. u \in Users /\ c \in Charged(u) /\ IsFiniteSet(Charged(u)) /\ used[u] \in Nat
  BY FS_Subset, AuditAssumption DEF AuditAssumption, Charged, TypeOK
<1>2. used[u] = Cardinality(Charged(u)) /\ Cardinality(Charged(u)) # 0
  BY <1>1, FS_EmptySet DEF Accounts
<1> QED BY <1>1, <1>2

\* The fates one call's unit may meet in a step, with what they do to the counter,
\* and that each is a step or a stutter of the ledger.
Fate(c) ==
  \/ Unit(c)' = Unit(c) /\ used' = used
  \/ /\ Unit(c) = "none" /\ Unit(c)' = "held" /\ used[req[c].user] < Limit
     /\ used' = [used EXCEPT ![req[c].user] = @ + 1]
  \/ Unit(c) = "held" /\ Unit(c)' = "charged" /\ used' = used
  \/ /\ Unit(c) = "held" /\ Unit(c)' = "returned"
     /\ used' = [used EXCEPT ![req[c].user] = @ - 1]

LEMMA LedgerStep ==
  ASSUME AuditInv, NEW c \in Calls, Fate(c), req' = req,
         \A d \in Calls \ {c} : Unit(d)' = Unit(d)
  PROVE  [Ledger!LedgerNext]_(Ledger!ledgerVars)
<1> DEFINE units == [d \in Calls |-> Unit(d)]
           payers == [d \in Calls |-> req[d].user]
<1>1. payers' = payers
  OBVIOUS
<1>2. units' = [units EXCEPT ![c] = Unit(c)']
  OBVIOUS
<1>3. CASE Unit(c)' = Unit(c) /\ used' = used
  <2>1. units' = units
    BY <1>3
  <2> QED BY <1>1, <1>3, <2>1 DEF Ledger!ledgerVars
<1>4. CASE /\ Unit(c) = "none" /\ Unit(c)' = "held" /\ used[req[c].user] < Limit
           /\ used' = [used EXCEPT ![req[c].user] = @ + 1]
  <2>1. req[c].user \in Users /\ TypeOK
    BY DEF AuditInv, TypeOK
  <2>2. Cardinality(Ledger!Open(req[c].user)) < Limit
    BY <1>4, <2>1, OpenIsCharged DEF AuditInv, Accounts
  <2>3. Ledger!Take(c)
    BY <1>1, <1>2, <1>4, <2>2, SameCount DEF Ledger!Take
  <2> QED BY <2>3 DEF Ledger!LedgerNext
<1>5. CASE Unit(c) = "held" /\ Unit(c)' = "charged" /\ used' = used
  <2>1. Ledger!Charge(c)
    BY <1>1, <1>2, <1>5 DEF Ledger!Charge
  <2> QED BY <2>1 DEF Ledger!LedgerNext
<1>6. CASE /\ Unit(c) = "held" /\ Unit(c)' = "returned"
           /\ used' = [used EXCEPT ![req[c].user] = @ - 1]
  <2>1. Ledger!GiveBack(c)
    BY <1>1, <1>2, <1>6 DEF Ledger!GiveBack
  <2> QED BY <2>1 DEF Ledger!LedgerNext
<1> QED BY <1>3, <1>4, <1>5, <1>6 DEF Fate

\* Giving back a unit that is held is a fate of it, once.
LEMMA ReturnFate ==
  ASSUME AuditInv, NEW c \in Calls, reserved[c], refunds[c] = 0, status[c] \notin Delivered,
         ReturnUnit(c), status'[c] \notin Delivered
  PROVE  Fate(c)
<1>1. TypeOK /\ Accounts
  BY DEF AuditInv
<1>2. reserved'[c] /\ refunds'[c] = 1
  BY <1>1 DEF ReturnUnit, TypeOK
<1>3. used[req[c].user] > 0 /\ used' = [used EXCEPT ![req[c].user] = @ - 1]
  BY <1>1, UnreturnedIsCounted DEF ReturnUnit
<1> QED BY <1>2, <1>3 DEF Fate, Unit

LEMMA SubmitFate ==
  ASSUME AuditInv, NEW c \in Calls, Submit(c) \/ APICrash(c)
  PROVE  Fate(c)
<1>1. TypeOK /\ CallInv(c) /\ submit[c] # "answered"
  BY SubmitFrame DEF AuditInv
<1>2. status[c] \notin Terminal
  BY <1>1 DEF CallInv
<1>3. status'[c] \notin Terminal
  BY <1>1, <1>2
  DEF Submit, APICrash, Reserve, CreateJob, EnqueueRun, DeleteJob, ReleaseQuiet, jobVars,
      Terminal, TypeOK
<1>4. CASE UNCHANGED unitVars
  BY <1>2, <1>3, <1>4 DEF Fate, Unit, unitVars, Terminal, Delivered
<1>5. CASE Reserve(c) /\ TakeUnit(c)
  <2>1. ~reserved[c] /\ refunds[c] = 0
    BY <1>1, <1>5 DEF Reserve, Goto, CallInv, TypeOK
  <2>2. reserved'[c] /\ refunds'[c] = 0
    BY <1>1, <1>5, <2>1 DEF TakeUnit, TypeOK
  <2>3. Unit(c) = "none" /\ Unit(c)' = "held"
    BY <1>3, <2>1, <2>2 DEF Unit, Terminal, Delivered
  <2> QED BY <1>5, <2>3 DEF Fate, TakeUnit
<1>6. CASE ReleaseQuiet(c) /\ ReturnUnit(c)
  <2>1. reserved[c] /\ refunds[c] = 0
    BY <1>1, <1>6 DEF ReleaseQuiet, Goto, CallInv, Pending
  <2> QED BY <1>2, <1>3, <1>6, <2>1, ReturnFate DEF Terminal, Delivered
<1> QED BY <1>4, <1>5, <1>6
    DEF Submit, APICrash, Reserve, CreateJob, EnqueueRun, DeleteJob, ReleaseQuiet

LEMMA WorkFate ==
  ASSUME AuditInv, NEW w \in Workers, Work(w) \/ WorkerCrash(w) \/ LoseLease(w),
         NEW c, c = run[w].call
  PROVE  Fate(c)
<1>1. /\ TypeOK /\ RunInv(w) /\ run[w].pc # "idle" /\ c \in Calls /\ CallInv(c)
      /\ reserved[c] /\ status[c] # "none" /\ task[c].state = "active" /\ ~LoseLease(w)
  BY WorkFrame DEF AuditInv
<1>2. CASE ReleaseNoData(w)
  <2>1. status[c] = "failed" /\ refunds[c] = 0
    BY <1>1, <1>2 DEF RunInv, ReleaseNoData, At
  <2>2. status' = status
    BY <1>2 DEF ReleaseNoData, jobVars
  <2>3. CASE UNCHANGED unitVars
    BY <2>2, <2>3 DEF Fate, Unit, unitVars
  <2>4. CASE ReturnUnit(c)
    BY <1>1, <2>1, <2>2, <2>4, ReturnFate DEF Delivered
  <2> QED BY <1>2, <2>3, <2>4 DEF ReleaseNoData
<1>3. CASE ~ReleaseNoData(w)
  <2>1. UNCHANGED unitVars
    BY <1>1, <1>3
    DEF Work, LoadJob, SetRunning, Resolve, FanOut, ScoreAndReport, Settle, SettleNoData,
        WorkerCrash
  <2>2. CASE SetRunning(w) \/ Settle(w) \/ SettleNoData(w)
    <3>1. status[c] \in {"queued", "running"}
      BY <1>1, <2>2 DEF RunInv, SetRunning, Settle, SettleNoData, At
    <3>2. refunds[c] = 0
      BY <1>1, <3>1 DEF CallInv
    <3> QED BY <1>1, <2>1, <3>1, <3>2 DEF Fate, Unit, unitVars, Delivered
  <2>3. CASE status' = status
    BY <2>1, <2>3 DEF Fate, Unit, unitVars
  <2> QED BY <1>1, <1>3, <2>2, <2>3
      DEF Work, LoadJob, Resolve, FanOut, ScoreAndReport, WorkerCrash, jobVars
<1> QED BY <1>2, <1>3

LEMMA OthersKeepUnits ==
  ASSUME NEW d, Same(d)
  PROVE  Unit(d)' = Unit(d)
BY DEF Same, Unit

\* Every behaviour of the flow is one of the ledger: a unit that is taken is
\* taken below the limit, it is then returned or charged, once and never both, and
\* the counter of its account moves with it.
THEOREM AuditImplementsLedger == ASSUME SingleRun PROVE Spec => ImplementsLedger
<1>1. Init => Ledger!LedgerInit
  <2> SUFFICES ASSUME Init PROVE Ledger!LedgerInit
    OBVIOUS
  <2>1. [c \in Calls |-> Unit(c)] = [c \in Calls |-> "none"]
    BY DEF Init, Unit
  <2>2. [c \in Calls |-> req[c].user] \in [Calls -> Users]
    BY DEF Init
  <2>3. used = [u \in Users |-> 0]
    BY DEF Init
  <2> QED BY <2>1, <2>2, <2>3 DEF Ledger!LedgerInit
<1>2. AuditInv /\ [Next]_vars => [Ledger!LedgerNext]_(Ledger!ledgerVars)
  <2> SUFFICES ASSUME AuditInv, [Next]_vars
               PROVE  [Ledger!LedgerNext]_(Ledger!ledgerVars)
    OBVIOUS
  <2>1. ASSUME NEW c \in Calls, Submit(c) \/ APICrash(c)
        PROVE  [Ledger!LedgerNext]_(Ledger!ledgerVars)
    <3>1. TypeOK
      BY DEF AuditInv
    <3> QED BY <2>1, <3>1, SubmitFrame, SubmitFate, OthersKeepUnits, LedgerStep
  <2>2. ASSUME NEW w \in Workers, NEW c \in Calls, Deliver(w, c)
        PROVE  [Ledger!LedgerNext]_(Ledger!ledgerVars)
    <3>1. UNCHANGED <<req, used, status, reserved, refunds>>
      BY <2>2 DEF Deliver, requestVars, unitVars, jobVars
    <3> QED BY <3>1 DEF Ledger!ledgerVars, Unit
  <2>3. ASSUME NEW w \in Workers, Work(w) \/ WorkerCrash(w) \/ LoseLease(w)
        PROVE  [Ledger!LedgerNext]_(Ledger!ledgerVars)
    <3> SUFFICES ASSUME NEW c, c = run[w].call
                 PROVE  [Ledger!LedgerNext]_(Ledger!ledgerVars)
      OBVIOUS
    <3> QED BY <2>3, WorkFrame, WorkFate, OthersKeepUnits, LedgerStep
  <2>4. CASE UNCHANGED vars
    <3>1. UNCHANGED <<req, used, status, reserved, refunds>>
      BY <2>4 DEF vars, requestVars, unitVars, jobVars
    <3> QED BY <3>1 DEF Ledger!ledgerVars, Unit
  <2> QED BY <2>1, <2>2, <2>3, <2>4 DEF Next
<1> QED BY <1>1, <1>2, InvariantHolds, PTL DEF Spec, ImplementsLedger, Ledger!LedgerSpec
-----------------------------------------------------------------------------
(* Faults that leave a job alone in its run or not.  The theorems above
   exclude that a job is acted on from two sides; those below admit it, and
   exclude instead the faults that each promise cannot survive: a submit whose
   compensation or reservation is lost, or a run that dies, or loses a
   statement, between the two halves of a settlement. *)

\* A fault that is not in the budget never happens.
LEMMA NeverSpent ==
  ASSUME TypeOK, [Next]_vars, NEW f \in Faults, budget[f] = 0
  PROVE  budget'[f] = 0 /\ ~Spend(f)
<1>1. ~Spend(f)
  BY DEF Spend
<1>2. CASE UNCHANGED vars
  BY <1>1, <1>2 DEF vars
<1>3. budget' = budget \/ \E g \in Faults : Spend(g)
  <2>1. ASSUME NEW c \in Calls, Submit(c) \/ APICrash(c)
        PROVE  budget' = budget \/ \E g \in Faults : Spend(g)
    BY <2>1 DEF Submit, APICrash, Reserve, CreateJob, EnqueueRun, DeleteJob, ReleaseQuiet,
                NoFault, Faults
  <2>2. ASSUME NEW w \in Workers, Work(w) \/ WorkerCrash(w) \/ LoseLease(w)
        PROVE  budget' = budget \/ \E g \in Faults : Spend(g)
    BY <2>2 DEF Work, LoadJob, SetRunning, Resolve, FanOut, ScoreAndReport, Settle,
                SettleNoData, ReleaseNoData, WorkerCrash, LoseLease, FailEarly, Step,
                NoFault, Faults
  <2>3. ASSUME NEW w \in Workers, NEW c \in Calls, Deliver(w, c) PROVE budget' = budget
    BY <2>3 DEF Deliver
  <2> QED BY <2>1, <2>2, <2>3 DEF Next, vars
<1> QED BY <1>1, <1>3 DEF Spend, TypeOK

\* A worker never makes a row or removes one, and takes no refund back.
LEMMA WorkKeepsRows ==
  ASSUME TypeOK, NEW w \in Workers, Work(w) \/ WorkerCrash(w) \/ LoseLease(w)
  PROVE  /\ UNCHANGED <<req, submit, reserved>>
         /\ \A c \in Calls : /\ status'[c] = "none" <=> status[c] = "none"
                             /\ refunds'[c] >= refunds[c]
<1>1. run[w].pc # "idle" /\ run[w].call \in Calls /\ run[w].outcome \in Delivered
  BY WorkIsBusy DEF TypeOK
<1>2. UNCHANGED <<req, submit, reserved>>
  BY DEF Work, LoadJob, SetRunning, Resolve, FanOut, ScoreAndReport, Settle, SettleNoData,
         ReleaseNoData, WorkerCrash, LoseLease, requestVars, unitVars, ReturnUnit
<1>3. \A c \in Calls : refunds'[c] >= refunds[c]
  <2>1. UNCHANGED unitVars \/ ReturnUnit(run[w].call)
    BY DEF Work, LoadJob, SetRunning, Resolve, FanOut, ScoreAndReport, Settle, SettleNoData,
           ReleaseNoData, WorkerCrash, LoseLease
  <2>2. \A c \in Calls : refunds[c] \in Nat
    BY DEF TypeOK
  <2>3. refunds' = refunds \/ refunds' = [refunds EXCEPT ![run[w].call] = @ + 1]
    BY <2>1 DEF ReturnUnit, unitVars
  <2>4. \A c \in Calls : refunds'[c] = refunds[c] \/ refunds'[c] = refunds[c] + 1
    BY <1>1, <2>3 DEF TypeOK
  <2> QED BY <2>2, <2>4
<1>4. \A c \in Calls : status'[c] = "none" <=> status[c] = "none"
  <2>1. status' = status \/ \E s \in Terminal \cup {"running"} : WriteStatus(run[w].call, s)
    BY <1>1 DEF Work, LoadJob, SetRunning, Resolve, FanOut, ScoreAndReport, Settle, SettleNoData,
           ReleaseNoData, WorkerCrash, LoseLease, jobVars, Terminal, Delivered
  <2> QED BY <1>1, <2>1 DEF TypeOK, WriteStatus, Terminal
<1> QED BY <1>2, <1>3, <1>4

LEMMA DeliverKeepsRows ==
  ASSUME NEW w \in Workers, NEW c \in Calls, Deliver(w, c)
  PROVE  UNCHANGED <<requestVars, unitVars, jobVars, budget>>
BY DEF Deliver

-----------------------------------------------------------------------------
(* What a submit leaves behind *)

\* No compensation and no reservation is lost.
SubmitsKnow == FaultBudget["reserveLost"] = 0 /\ FaultBudget["undoError"] = 0

\* One row for a key; and a submit that has ended holds a unit only with the row.
ClaimInv ==
  /\ TypeOK
  /\ budget["reserveLost"] = 0 /\ budget["undoError"] = 0
  /\ \A c, d \in Calls :
       status[c] # "none" /\ status[d] # "none" /\ req[c].key = req[d].key => c = d
  /\ \A c \in Calls :
       /\ submit[c] = "idle" => ~reserved[c]
       /\ submit[c] = "created" => status[c] # "none"
       /\ submit[c] = "refused" /\ reserved[c] => refunds[c] > 0
       /\ submit[c] = "answered" => status[c] # "none" \/ refunds[c] > 0

LEMMA ClaimSubmit ==
  ASSUME ClaimInv, TypeOK', [Next]_vars, NEW c \in Calls, Submit(c) \/ APICrash(c)
  PROVE  ClaimInv'
<1>1. TypeOK /\ ~Spend("reserveLost") /\ ~Spend("undoError")
      /\ budget'["reserveLost"] = 0 /\ budget'["undoError"] = 0
  BY NeverSpent DEF ClaimInv, Faults
<1>2. req' = req /\ \A d \in Calls \ {c} : Same(d)
  BY <1>1, SubmitFrame
<1>3. status'[c] # "none" => status[c] # "none" \/ Holders(c) = {}
  BY <1>1 DEF Submit, APICrash, Reserve, CreateJob, EnqueueRun, DeleteJob, ReleaseQuiet,
              jobVars, TypeOK
<1>4. \A d, e \in Calls :
        status'[d] # "none" /\ status'[e] # "none" /\ req'[d].key = req'[e].key => d = e
  BY <1>2, <1>3 DEF ClaimInv, Same, Holders
<1>5. /\ submit'[c] # "idle"
      /\ submit'[c] = "created" => status'[c] # "none"
      /\ submit'[c] = "refused" /\ reserved'[c] => refunds'[c] > 0
      /\ submit'[c] = "answered" => status'[c] # "none" \/ refunds'[c] > 0
  <2>1. CASE Reserve(c)
    BY <1>1, <2>1 DEF Reserve, Goto, ClaimInv, TypeOK, unitVars
  <2>2. CASE CreateJob(c)
    BY <1>1, <2>2 DEF CreateJob, Goto, TypeOK
  <2>3. CASE EnqueueRun(c)
    BY <1>1, <2>3 DEF EnqueueRun, Goto, ClaimInv, TypeOK, jobVars
  <2>4. CASE DeleteJob(c)
    BY <1>1, <2>4 DEF DeleteJob, Goto, TypeOK
  <2>5. CASE ReleaseQuiet(c)
    BY <1>1, <2>5 DEF ReleaseQuiet, ReturnUnit, Goto, TypeOK
  <2>6. CASE APICrash(c)
    BY <1>1, <2>6 DEF APICrash, TypeOK
  <2> QED BY <2>1, <2>2, <2>3, <2>4, <2>5, <2>6 DEF Submit
<1> QED BY <1>1, <1>2, <1>4, <1>5 DEF ClaimInv, Same

LEMMA ClaimHolds == ASSUME SubmitsKnow PROVE Spec => []ClaimInv
<1>1. Init => ClaimInv
  <2> SUFFICES ASSUME Init PROVE ClaimInv
    OBVIOUS
  <2>1. TypeOK
    BY AuditAssumption
    DEF AuditAssumption, Init, TypeOK, SubmitStates, TaskStates, RunStates, Delivered, IdleRun
  <2> QED BY <2>1 DEF Init, ClaimInv, SubmitsKnow
<1>2. ClaimInv /\ TypeOK' /\ [Next]_vars => ClaimInv'
  <2> SUFFICES ASSUME ClaimInv, TypeOK', [Next]_vars PROVE ClaimInv'
    OBVIOUS
  <2>1. TypeOK /\ budget'["reserveLost"] = 0 /\ budget'["undoError"] = 0
    BY NeverSpent DEF ClaimInv, Faults
  <2>2. ASSUME NEW c \in Calls, Submit(c) \/ APICrash(c) PROVE ClaimInv'
    BY <2>2, ClaimSubmit
  <2>3. ASSUME NEW w \in Workers, NEW c \in Calls, Deliver(w, c) PROVE ClaimInv'
    BY <2>1, <2>3, DeliverKeepsRows DEF ClaimInv, requestVars, unitVars, jobVars
  <2>4. ASSUME NEW w \in Workers, Work(w) \/ WorkerCrash(w) \/ LoseLease(w) PROVE ClaimInv'
    <3>1. /\ UNCHANGED <<req, submit, reserved>>
          /\ \A c \in Calls : /\ status'[c] = "none" <=> status[c] = "none"
                              /\ refunds'[c] >= refunds[c]
      BY <2>1, <2>4, WorkKeepsRows
    <3>2. \A c \in Calls : refunds[c] \in Nat /\ refunds'[c] \in Nat
      BY <2>1 DEF TypeOK
    <3> QED BY <2>1, <3>1, <3>2 DEF ClaimInv
  <2>5. CASE UNCHANGED vars
    BY <2>5 DEF vars, requestVars, unitVars, jobVars, ClaimInv
  <2> QED BY <2>2, <2>3, <2>4, <2>5 DEF Next
<1> QED BY <1>1, <1>2, TypeCorrect, PTL DEF Spec

\* Of two submits that ended with one key, at most one still holds a unit,
\* although runs overlap, die or fail, and enqueues and answers are lost.
THEOREM OneChargeForKey == ASSUME SubmitsKnow PROVE Spec => []OneChargePerKey
<1>1. ClaimInv => OneChargePerKey
  <2> SUFFICES ASSUME ClaimInv, NEW c \in Calls, NEW d \in Calls,
                      c # d, req[c] = req[d],
                      submit[c] \in {"answered", "refused"},
                      submit[d] \in {"answered", "refused"},
                      reserved[c], reserved[d]
               PROVE  refunds[c] + refunds[d] > 0
    BY DEF OneChargePerKey
  <2>1. refunds[c] \in Nat /\ refunds[d] \in Nat
    BY DEF ClaimInv, TypeOK
  <2>2. refunds[c] > 0 \/ refunds[d] > 0
    BY DEF ClaimInv
  <2> QED BY <2>1, <2>2
<1> QED BY <1>1, ClaimHolds, PTL

-----------------------------------------------------------------------------
(* A refused submit *)

\* Nor does an insert commit without the submit learning of it.
SubmitsKnowRows == SubmitsKnow /\ FaultBudget["createLost"] = 0

\* A submit before its insert, or past a compensation, has no row.
RowlessInv ==
  /\ budget["createLost"] = 0
  /\ \A c \in Calls :
       submit[c] \in {"idle", "reserved", "replay", "release", "refused"} => status[c] = "none"

LEMMA RowlessHolds == ASSUME SubmitsKnowRows PROVE Spec => []RowlessInv
<1>1. Init => RowlessInv
  BY DEF Init, RowlessInv, SubmitsKnowRows
<1>2. RowlessInv /\ ClaimInv /\ TypeOK' /\ [Next]_vars => RowlessInv'
  <2> SUFFICES ASSUME RowlessInv, ClaimInv, TypeOK', [Next]_vars PROVE RowlessInv'
    OBVIOUS
  <2>1. TypeOK /\ ~Spend("createLost") /\ ~Spend("undoError") /\ budget'["createLost"] = 0
    BY NeverSpent DEF ClaimInv, RowlessInv, Faults
  <2>2. ASSUME NEW c \in Calls, Submit(c) \/ APICrash(c) PROVE RowlessInv'
    <3>1. \A d \in Calls \ {c} : Same(d)
      BY <2>1, <2>2, SubmitFrame
    <3>2. submit'[c] \in {"idle", "reserved", "replay", "release", "refused"}
            => status'[c] = "none"
      <4>1. CASE Reserve(c)
        BY <2>1, <4>1 DEF Reserve, Goto, RowlessInv, TypeOK, jobVars
      <4>2. CASE CreateJob(c)
        BY <2>1, <4>2 DEF CreateJob, Goto, RowlessInv, TypeOK
      <4>3. CASE EnqueueRun(c) \/ APICrash(c)
        BY <2>1, <4>3 DEF EnqueueRun, APICrash, Goto, TypeOK
      <4>4. CASE DeleteJob(c)
        BY <2>1, <4>4 DEF DeleteJob, Goto, TypeOK
      <4>5. CASE ReleaseQuiet(c)
        BY <2>1, <4>5 DEF ReleaseQuiet, Goto, RowlessInv, TypeOK, jobVars
      <4> QED BY <2>2, <4>1, <4>2, <4>3, <4>4, <4>5 DEF Submit
    <3> QED BY <2>1, <3>1, <3>2 DEF RowlessInv, Same
  <2>3. ASSUME NEW w \in Workers, NEW c \in Calls, Deliver(w, c) PROVE RowlessInv'
    BY <2>1, <2>3, DeliverKeepsRows DEF RowlessInv, requestVars, jobVars
  <2>4. ASSUME NEW w \in Workers, Work(w) \/ WorkerCrash(w) \/ LoseLease(w) PROVE RowlessInv'
    BY <2>1, <2>4, WorkKeepsRows DEF RowlessInv
  <2>5. CASE UNCHANGED vars
    BY <2>5 DEF vars, requestVars, jobVars, RowlessInv
  <2> QED BY <2>2, <2>3, <2>4, <2>5 DEF Next
<1>3. SubmitsKnow
  BY DEF SubmitsKnowRows
<1> QED BY <1>1, <1>2, <1>3, ClaimHolds, TypeCorrect, PTL DEF Spec

\* A submit that gave its unit back left no job under its key.
THEOREM RefusalIsClean == ASSUME SubmitsKnowRows PROVE Spec => []RefusedLeavesNoJob
<1>1. ClaimInv /\ RowlessInv => RefusedLeavesNoJob
  BY DEF ClaimInv, RowlessInv, RefusedLeavesNoJob
<1>2. SubmitsKnow
  BY DEF SubmitsKnowRows
<1> QED BY <1>1, <1>2, ClaimHolds, RowlessHolds, PTL
-----------------------------------------------------------------------------
(* A job that failed *)

\* Neither half of finishNoData fails or is cut short.
FailuresSettle ==
  FaultBudget["settleError"] = 0 /\ FaultBudget["settleLost"] = 0 /\ FaultBudget["crash"] = 0

\* A failed job's unit is back, or the run that failed it is about to return it.
Returning(c) == \E w \in Workers : run[w].pc = "release" /\ run[w].call = c

ReturnInv ==
  /\ budget["settleError"] = 0 /\ budget["settleLost"] = 0 /\ budget["crash"] = 0
  /\ \A c \in Calls : status[c] = "failed" => refunds[c] > 0 \/ Returning(c)

\* Other steps than the last of finishNoData leave a run at that step where it is.
LEMMA StillReturning ==
  ASSUME TypeOK, NEW w \in Workers, Work(w) \/ WorkerCrash(w) \/ LoseLease(w),
         ~ReleaseNoData(w), ~WorkerCrash(w), NEW c \in Calls, Returning(c)
  PROVE  Returning(c)'
<1>1. PICK v \in Workers : run[v].pc = "release" /\ run[v].call = c
  BY DEF Returning
<1>2. CASE v = w
  <2>1. LoseLease(w)
    BY <1>1, <1>2 DEF Work, LoadJob, SetRunning, Resolve, FanOut, ScoreAndReport, Settle,
                      SettleNoData, At
  <2>2. run' = run
    BY <2>1 DEF LoseLease
  <2> QED BY <1>1, <2>2 DEF Returning
<1>3. CASE v # w
  <2>1. run'[v] = run[v]
    BY <1>3 DEF Work, LoadJob, SetRunning, Resolve, FanOut, ScoreAndReport, Settle,
                SettleNoData, WorkerCrash, LoseLease, Complete, Fail, FailEarly, Step, TypeOK
  <2> QED BY <1>1, <2>1 DEF Returning
<1> QED BY <1>2, <1>3

\* A status becomes failed in the first half of finishNoData only, which hands
\* the run to the second.
LEMMA FailedByNoData ==
  ASSUME TypeOK, ~Spend("settleError"), ~Spend("settleLost"),
         NEW w \in Workers, Work(w) \/ WorkerCrash(w) \/ LoseLease(w),
         NEW c \in Calls, status[c] # "failed", status'[c] = "failed"
  PROVE  Returning(c)'
<1>1. run[w].call \in Calls /\ run[w].outcome \in Delivered
  BY WorkIsBusy DEF TypeOK
<1>2. WriteStatus(run[w].call, "failed") /\ SettleNoData(w)
  <2>1. status' # status
    OBVIOUS
  <2>2. SetRunning(w) \/ Settle(w) \/ SettleNoData(w)
    BY <2>1 DEF Work, LoadJob, Resolve, FanOut, ScoreAndReport, ReleaseNoData, WorkerCrash,
                LoseLease, jobVars
  <2>3. ~SetRunning(w) /\ ~Settle(w)
    BY <1>1, <2>1 DEF SetRunning, Settle, WriteStatus, TypeOK, Delivered
  <2> QED BY <2>1, <2>2, <2>3 DEF SettleNoData
<1>3. run[w].call = c
  BY <1>1, <1>2 DEF WriteStatus, TypeOK
<1>4. Step(w, "release")
  BY <1>2 DEF SettleNoData
<1>5. run'[w].pc = "release" /\ run'[w].call = c
  BY <1>3, <1>4 DEF Step, TypeOK
<1> QED BY <1>5 DEF Returning

LEMMA ReturnHolds == ASSUME FailuresSettle PROVE Spec => []ReturnInv
<1>1. Init => ReturnInv
  BY DEF Init, ReturnInv, FailuresSettle
<1>2. ReturnInv /\ TypeOK /\ [Next]_vars => ReturnInv'
  <2> SUFFICES ASSUME ReturnInv, TypeOK, [Next]_vars PROVE ReturnInv'
    OBVIOUS
  <2>1. /\ ~Spend("settleError") /\ ~Spend("settleLost") /\ ~Spend("crash")
        /\ budget'["settleError"] = 0 /\ budget'["settleLost"] = 0 /\ budget'["crash"] = 0
    BY NeverSpent DEF ReturnInv, Faults
  <2>2. ASSUME NEW c \in Calls, Submit(c) \/ APICrash(c) PROVE ReturnInv'
    <3>1. run' = run /\ \A d \in Calls \ {c} : Same(d)
      BY <2>2, SubmitFrame
    <3>2. status'[c] = "failed" => status[c] = "failed"
      BY <2>2 DEF Submit, APICrash, Reserve, CreateJob, EnqueueRun, DeleteJob, ReleaseQuiet,
                  jobVars, TypeOK
    <3>3. refunds[c] > 0 => refunds'[c] > 0
      <4>1. UNCHANGED unitVars \/ TakeUnit(c) \/ ReturnUnit(c)
        BY <2>2 DEF Submit, APICrash, Reserve, CreateJob, EnqueueRun, DeleteJob, ReleaseQuiet
      <4> QED BY <4>1 DEF TakeUnit, ReturnUnit, unitVars, TypeOK
    <3> QED BY <2>1, <3>1, <3>2, <3>3 DEF ReturnInv, Returning, Same
  <2>3. ASSUME NEW w \in Workers, NEW c \in Calls, Deliver(w, c) PROVE ReturnInv'
    <3>1. UNCHANGED <<status, refunds>>
      BY <2>3 DEF Deliver, jobVars, unitVars
    <3>2. \A v \in Workers : run[v].pc = "release" => run'[v] = run[v]
      BY <2>3 DEF Deliver, TypeOK
    <3> QED BY <2>1, <3>1, <3>2 DEF ReturnInv, Returning
  <2>4. ASSUME NEW w \in Workers, Work(w) \/ WorkerCrash(w) \/ LoseLease(w) PROVE ReturnInv'
    <3> SUFFICES ASSUME NEW c \in Calls, status'[c] = "failed"
                 PROVE  refunds'[c] > 0 \/ Returning(c)'
      BY <2>1 DEF ReturnInv
    <3>1. refunds[c] \in Nat /\ refunds'[c] \in Int /\ refunds'[c] >= refunds[c]
      <4>1. UNCHANGED unitVars \/ ReturnUnit(run[w].call)
        BY <2>4 DEF Work, LoadJob, SetRunning, Resolve, FanOut, ScoreAndReport, Settle,
               SettleNoData, ReleaseNoData, WorkerCrash, LoseLease
      <4>2. refunds' = refunds \/ refunds' = [refunds EXCEPT ![run[w].call] = @ + 1]
        BY <4>1 DEF ReturnUnit, unitVars
      <4>3. refunds[c] \in Nat /\ run[w].call \in Calls
        BY <2>4, WorkIsBusy DEF TypeOK
      <4>4. refunds'[c] = refunds[c] \/ refunds'[c] = refunds[c] + 1
        BY <4>2, <4>3 DEF TypeOK
      <4> QED BY <4>3, <4>4
    <3>2. CASE status[c] # "failed"
      BY <2>1, <2>4, <3>2, FailedByNoData
    <3>3. CASE status[c] = "failed" /\ refunds[c] > 0
      BY <3>1, <3>3
    <3>4. CASE status[c] = "failed" /\ Returning(c)
      <4>1. CASE ~ReleaseNoData(w)
        <5>1. ~WorkerCrash(w)
          BY <2>1 DEF WorkerCrash
        <5> QED BY <2>4, <3>4, <4>1, <5>1, StillReturning
      <4>2. CASE ReleaseNoData(w) /\ run[w].call = c
        <5>1. refunds' = [refunds EXCEPT ![c] = @ + 1]
          BY <2>1, <4>2 DEF ReleaseNoData, ReturnUnit
        <5>2. refunds'[c] = refunds[c] + 1
          BY <5>1 DEF TypeOK
        <5> QED BY <3>1, <5>2
      <4>3. CASE ReleaseNoData(w) /\ run[w].call # c
        <5>1. PICK v \in Workers : run[v].pc = "release" /\ run[v].call = c
          BY <3>4 DEF Returning
        <5>2. run'[v] = run[v]
          BY <4>3, <5>1 DEF ReleaseNoData, Complete, Fail, TypeOK
        <5> QED BY <5>1, <5>2 DEF Returning
      <4> QED BY <4>1, <4>2, <4>3
    <3> QED BY <3>2, <3>3, <3>4 DEF ReturnInv
  <2>5. CASE UNCHANGED vars
    BY <2>5 DEF vars, unitVars, jobVars, ReturnInv, Returning
  <2> QED BY <2>2, <2>3, <2>4, <2>5 DEF Next
<1> QED BY <1>1, <1>2, TypeCorrect, PTL DEF Spec

\* When no run works on a failed job any more its unit is back, although the
\* task may have been delivered twice at once.
THEOREM FailureIsRefunded == ASSUME FailuresSettle PROVE Spec => []FailedReturnsUnit
<1>1. ReturnInv => FailedReturnsUnit
  BY DEF ReturnInv, Returning, FailedReturnsUnit, Unattended
<1> QED BY <1>1, ReturnHolds, PTL

-----------------------------------------------------------------------------
(* Status and score *)

\* A task that is out belongs to a submit past its insert; a run works on such a
\* task; and past its scoring it finds the score, unless the row is gone.
ScoreInv ==
  /\ \A c \in Calls : submit[c] \in {"idle", "reserved", "created"} => task[c].state = "none"
  /\ \A w \in Workers : run[w].pc # "idle" => task[run[w].call].state # "none"
  /\ \A w \in Workers : run[w].pc = "settle" => status[run[w].call] = "none" \/ score[run[w].call]
  /\ \A c \in Calls : status[c] \in Delivered => score[c]

\* Handing a task back, or completing it, does not take it out of the queue's books.
LEMMA TaskStays ==
  ASSUME TypeOK, NEW w \in Workers, Work(w) \/ WorkerCrash(w) \/ LoseLease(w)
  PROVE  \A c \in Calls : /\ task[c].state # "none" => task'[c].state # "none"
                          /\ c # run[w].call => task'[c] = task[c]
<1> DEFINE c == run[w].call
           r == IF task[c].retried < MaxRetry
                  THEN [state |-> "pending", retried |-> task[c].retried + 1, holder |-> None]
                  ELSE [task[c] EXCEPT !.state = "archived", !.holder = None]
<1>1. c \in Calls /\ task \in [Calls -> [state : TaskStates, retried : 0..MaxRetry,
                                         holder : Workers \cup {None}]]
  BY WorkIsBusy DEF TypeOK
<1>2. \/ task' = task
      \/ task' = [task EXCEPT ![c].state = "done", ![c].holder = None]
      \/ task' = [task EXCEPT ![c] = r]
  BY DEF Work, LoadJob, SetRunning, Resolve, FanOut, ScoreAndReport, Settle, SettleNoData,
         ReleaseNoData, WorkerCrash, LoseLease, Complete, Fail, FailEarly, Step, Requeue
<1>3. r.state # "none"
  BY <1>1
<1>4. CASE task' = [task EXCEPT ![c].state = "done", ![c].holder = None]
  BY <1>1, <1>4
<1>5. CASE task' = [task EXCEPT ![c] = r]
  <2> HIDE DEF r
  <2> QED BY <1>1, <1>3, <1>5
<1> QED BY <1>2, <1>4, <1>5

\* How a step of a worker moves its own run, and leaves the others.
LEMMA WorkMovesRun ==
  ASSUME TypeOK, NEW w \in Workers, Work(w) \/ WorkerCrash(w) \/ LoseLease(w)
  PROVE  /\ \A v \in Workers \ {w} : run'[v] = run[v]
         /\ run'[w].pc # "idle" => run'[w].call = run[w].call
         /\ run'[w].pc = "settle" => score'[run[w].call] \/ (run[w].pc = "settle" /\ run'[w] = run[w])
         /\ run'[w].pc = "settle" => status' = status
         /\ \A c \in Calls : score[c] => score'[c]
<1>1. run[w].call \in Calls /\ run \in [Workers -> [pc : RunStates, call : Calls \cup {None},
                                                    outcome : Delivered]]
  BY WorkIsBusy DEF TypeOK
<1> USE DEF IdleRun
<1>2. CASE LoadJob(w) \/ SetRunning(w) \/ Resolve(w)
  BY <1>1, <1>2 DEF LoadJob, SetRunning, Resolve, Complete, Fail, FailEarly, Step, jobVars
<1>3. CASE FanOut(w)
  BY <1>1, <1>3 DEF FanOut, Fail, FailEarly, Step, jobVars
<1>4. CASE ScoreAndReport(w)
  <2>1. status' = status /\ \A c \in Calls : score[c] => score'[c]
    BY <1>1, <1>4 DEF ScoreAndReport, TypeOK
  <2>2. CASE Fail(w)
    BY <1>1, <2>1, <2>2 DEF Fail
  <2>3. CASE Step(w, "settle") /\ score' = [score EXCEPT ![run[w].call] = TRUE]
    BY <1>1, <2>1, <2>3 DEF Step, TypeOK
  <2> QED BY <1>4, <2>2, <2>3 DEF ScoreAndReport, FailEarly
<1>5. CASE Settle(w) \/ SettleNoData(w) \/ ReleaseNoData(w) \/ WorkerCrash(w)
  BY <1>1, <1>5 DEF Settle, SettleNoData, ReleaseNoData, WorkerCrash, Complete, Fail, Step, jobVars
<1>6. CASE LoseLease(w)
  BY <1>1, <1>6 DEF LoseLease, jobVars
<1> QED BY <1>2, <1>3, <1>4, <1>5, <1>6 DEF Work

\* A status that becomes one of a delivered audit is written at the last step of
\* a run, on a row that is there.
LEMMA DeliveredBySettle ==
  ASSUME TypeOK, NEW w \in Workers, Work(w) \/ WorkerCrash(w) \/ LoseLease(w),
         NEW c \in Calls, status[c] \notin Delivered, status'[c] \in Delivered
  PROVE  run[w].pc = "settle" /\ run[w].call = c /\ status[c] # "none" /\ score' = score
<1>1. run[w].call \in Calls
  BY WorkIsBusy DEF TypeOK
<1>2. status' # status
  OBVIOUS
<1>3. SetRunning(w) \/ Settle(w) \/ SettleNoData(w)
  BY <1>2 DEF Work, LoadJob, Resolve, FanOut, ScoreAndReport, ReleaseNoData, WorkerCrash,
              LoseLease, jobVars
<1>4. ~SetRunning(w) /\ ~SettleNoData(w)
  BY <1>1, <1>2 DEF SetRunning, SettleNoData, WriteStatus, TypeOK, Delivered
<1>5. Settle(w) /\ WriteStatus(run[w].call, run[w].outcome)
  BY <1>2, <1>3, <1>4 DEF Settle
<1> QED BY <1>1, <1>5 DEF Settle, At, WriteStatus, TypeOK, Delivered

LEMMA ScoreHolds == Spec => []ScoreInv
<1>1. Init => ScoreInv
  BY DEF Init, ScoreInv, IdleRun, Delivered
<1>2. TypeOK /\ ScoreInv /\ [Next]_vars => ScoreInv'
  <2> SUFFICES ASSUME TypeOK, ScoreInv, [Next]_vars PROVE ScoreInv'
    OBVIOUS
  <2>1. ASSUME NEW c \in Calls, Submit(c) \/ APICrash(c) PROVE ScoreInv'
    <3>1. run' = run /\ \A d \in Calls \ {c} : Same(d) /\ score'[d] = score[d]
      <4>1. \A d \in Calls \ {c} : score'[d] = score[d]
        BY <2>1 DEF Submit, APICrash, Reserve, CreateJob, EnqueueRun, DeleteJob, ReleaseQuiet,
                    jobVars, TypeOK
      <4> QED BY <2>1, <4>1, SubmitFrame
    <3>2. submit'[c] \in {"idle", "reserved", "created"} => task'[c].state = "none"
      BY <2>1 DEF ScoreInv, Submit, APICrash, Reserve, CreateJob, EnqueueRun, DeleteJob,
                  ReleaseQuiet, Goto, TypeOK
    <3>3. task[c].state # "none" => task'[c].state # "none"
      BY <2>1 DEF ScoreInv, Submit, APICrash, Reserve, CreateJob, EnqueueRun, DeleteJob,
                  ReleaseQuiet, Goto, TypeOK
    <3>4. /\ status[c] = "none" /\ task[c].state # "none" => status'[c] = "none"
          /\ score[c] => score'[c] \/ status'[c] = "none"
          /\ status'[c] \in Delivered => status[c] \in Delivered
      BY <2>1 DEF ScoreInv, Submit, APICrash, Reserve, CreateJob, EnqueueRun, DeleteJob,
                  ReleaseQuiet, Goto, jobVars, TypeOK, Delivered
    <3>5. \A w \in Workers : run[w].pc # "idle" => run[w].call \in Calls
      BY DEF TypeOK
    <3>6. \A d \in Calls : submit'[d] \in {"idle", "reserved", "created"} => task'[d].state = "none"
      BY <3>1, <3>2 DEF ScoreInv, Same
    <3>7. \A w \in Workers : run[w].pc # "idle" => task'[run[w].call].state # "none"
      BY <3>1, <3>3, <3>5 DEF ScoreInv, Same
    <3>8. \A w \in Workers :
            run[w].pc = "settle" => status'[run[w].call] = "none" \/ score'[run[w].call]
      BY <3>1, <3>4, <3>5 DEF ScoreInv, Same
    <3>9. \A d \in Calls : status'[d] \in Delivered => score'[d]
      BY <3>1, <3>4 DEF ScoreInv, Same, Delivered
    <3> QED BY <3>1, <3>6, <3>7, <3>8, <3>9 DEF ScoreInv
  <2>2. ASSUME NEW w \in Workers, NEW c \in Calls, Deliver(w, c) PROVE ScoreInv'
    <3>1. UNCHANGED <<submit, status, score>>
      BY <2>2 DEF Deliver, requestVars, jobVars
    <3>2. /\ \A v \in Workers \ {w} : run'[v] = run[v]
          /\ run'[w].pc = "load" /\ run'[w].call = c
          /\ \A d \in Calls : task'[d].state = "none" <=> task[d].state = "none"
          /\ task'[c].state # "none"
      BY <2>2 DEF Deliver, IdleRun, TypeOK
    <3>3. \A v \in Workers : run[v].pc # "idle" => run[v].call \in Calls
      BY DEF TypeOK
    <3> QED BY <3>1, <3>2, <3>3 DEF ScoreInv
  <2>3. ASSUME NEW w \in Workers, Work(w) \/ WorkerCrash(w) \/ LoseLease(w) PROVE ScoreInv'
    <3> DEFINE b == run[w].call
    <3>1. b \in Calls /\ submit' = submit /\ \A v \in Workers : run[v].pc # "idle" => run[v].call \in Calls
      BY <2>3, WorkIsBusy, WorkKeepsRows DEF TypeOK
    <3>2. /\ \A v \in Workers \ {w} : run'[v] = run[v]
          /\ run'[w].pc # "idle" => run'[w].call = b
          /\ run'[w].pc = "settle" => score'[b] \/ (run[w].pc = "settle" /\ run'[w] = run[w])
          /\ run'[w].pc = "settle" => status' = status
          /\ \A c \in Calls : score[c] => score'[c]
      BY <2>3, WorkMovesRun
    <3>3. \A c \in Calls : /\ task[c].state # "none" => task'[c].state # "none"
                           /\ c # b => task'[c] = task[c]
      BY <2>3, TaskStays
    <3>4. \A c \in Calls : status'[c] = "none" <=> status[c] = "none"
      BY <2>3, WorkKeepsRows
    <3>5. task[b].state # "none"
      BY <2>3, WorkIsBusy DEF ScoreInv
    <3>6. \A c \in Calls : submit'[c] \in {"idle", "reserved", "created"} => task'[c].state = "none"
      BY <3>1, <3>3, <3>5 DEF ScoreInv
    <3>7. \A v \in Workers : run'[v].pc # "idle" => task'[run'[v].call].state # "none"
      BY <3>1, <3>2, <3>3, <3>5 DEF ScoreInv
    <3>8. ASSUME NEW v \in Workers, run'[v].pc = "settle"
          PROVE  status'[run'[v].call] = "none" \/ score'[run'[v].call]
      BY <3>1, <3>2, <3>4, <3>8 DEF ScoreInv
    <3>9. ASSUME NEW c \in Calls, status'[c] \in Delivered PROVE score'[c]
      <4>1. CASE status[c] \in Delivered
        BY <3>2, <4>1 DEF ScoreInv
      <4>2. CASE status[c] \notin Delivered
        BY <2>3, <3>9, <4>2, DeliveredBySettle DEF ScoreInv
      <4> QED BY <4>1, <4>2
    <3> QED BY <3>6, <3>7, <3>8, <3>9 DEF ScoreInv
  <2>4. CASE UNCHANGED vars
    BY <2>4 DEF vars, requestVars, jobVars, ScoreInv
  <2> QED BY <2>1, <2>2, <2>3, <2>4 DEF Next
<1> QED BY <1>1, <1>2, TypeCorrect, PTL DEF Spec

\* No run dies or fails after it stored its score and before it told so.
ScoresSettle ==
  FaultBudget["scoreLost"] = 0 /\ FaultBudget["settleError"] = 0 /\ FaultBudget["crash"] = 0

\* As long as runs were alone on their jobs: a run holds the lease of its task
\* and its job is not settled before its last step; and a score belongs to a
\* delivered audit, or to one that is about to be.
LoneRun(w) ==
  run[w].pc # "idle" =>
    LET c == run[w].call IN
    /\ task[c].state = "active" /\ task[c].holder = w
    /\ run[w].pc \notin {"load", "release"} => status[c] \in {"queued", "running"}
    /\ run[w].pc = "release" => status[c] = "failed"

Scored(c) ==
  status[c] \in Delivered \/ \E w \in Workers : run[w].pc = "settle" /\ run[w].call = c

LoneInv ==
  /\ \A f \in Faults : budget[f] <= FaultBudget[f]
  /\ budget["scoreLost"] = 0 /\ budget["settleError"] = 0 /\ budget["crash"] = 0
  /\ Alone =>
       /\ \A c \in Calls : task[c].state # "none" => submit[c] = "answered"
       /\ \A w \in Workers : LoneRun(w)
       /\ \A c \in Calls : score[c] => Scored(c)

\* Budgets only shrink, so what was spent stays spent.
LEMMA BudgetShrinks ==
  ASSUME TypeOK, TypeOK', LoneInv, [Next]_vars
  PROVE  /\ \A f \in Faults : budget'[f] <= FaultBudget[f]
         /\ Alone' => Alone /\ ~Spend("overlap") /\ ~Spend("enqueueLost")
<1>1. \A f \in Faults : budget[f] \in Nat /\ budget'[f] \in Nat /\ FaultBudget[f] \in Nat
  BY AuditAssumption DEF AuditAssumption, TypeOK
<1>2. \A f \in Faults : budget'[f] <= budget[f] /\ (Spend(f) => budget'[f] < budget[f])
  <2>1. budget' = budget \/ \E g \in Faults : Spend(g)
    <3>1. ASSUME NEW c \in Calls, Submit(c) \/ APICrash(c)
          PROVE  budget' = budget \/ \E g \in Faults : Spend(g)
      BY <3>1 DEF Submit, APICrash, Reserve, CreateJob, EnqueueRun, DeleteJob, ReleaseQuiet,
                  NoFault, Faults
    <3>2. ASSUME NEW w \in Workers, Work(w) \/ WorkerCrash(w) \/ LoseLease(w)
          PROVE  budget' = budget \/ \E g \in Faults : Spend(g)
      BY <3>2 DEF Work, LoadJob, SetRunning, Resolve, FanOut, ScoreAndReport, Settle,
                  SettleNoData, ReleaseNoData, WorkerCrash, LoseLease, FailEarly, Step,
                  NoFault, Faults
    <3> QED BY <3>1, <3>2 DEF Next, Deliver, vars
  <2>2. ASSUME NEW g \in Faults, Spend(g)
        PROVE  \A f \in Faults : budget'[f] = IF f = g THEN budget[f] - 1 ELSE budget[f]
    BY <2>2 DEF Spend, TypeOK
  <2>3. \A f \in Faults : budget'[f] <= budget[f]
    BY <1>1, <2>1, <2>2
  <2>4. \A f \in Faults : Spend(f) => budget'[f] < budget[f]
    BY <1>1, <2>2
  <2> QED BY <2>3, <2>4
<1>3. \A f \in Faults : budget'[f] <= FaultBudget[f]
  BY <1>1, <1>2 DEF LoneInv
<1>4. ASSUME Alone', NEW f \in {"overlap", "enqueueLost"}
      PROVE  budget[f] = FaultBudget[f] /\ ~Spend(f)
  <2>1. f \in Faults /\ budget'[f] = FaultBudget[f] /\ budget[f] <= FaultBudget[f]
    BY <1>4 DEF Alone, Faults, LoneInv
  <2> QED BY <1>1, <1>2, <2>1
<1> QED BY <1>3, <1>4 DEF Alone
LEMMA LoneSubmit ==
  ASSUME TypeOK, LoneInv, Alone, ~Spend("enqueueLost"),
         NEW c \in Calls, Submit(c) \/ APICrash(c)
  PROVE  /\ \A d \in Calls : task'[d].state # "none" => submit'[d] = "answered"
         /\ \A w \in Workers : LoneRun(w)'
         /\ \A d \in Calls : score'[d] => Scored(d)'
<1>1. submit[c] # "answered" /\ run' = run /\ \A d \in Calls \ {c} : Same(d)
  BY SubmitFrame
<1>2. task[c].state = "none"
  BY <1>1 DEF LoneInv
<1>3. task'[c].state # "none" => submit'[c] = "answered"
  BY <1>2 DEF Submit, APICrash, Reserve, CreateJob, EnqueueRun, DeleteJob, ReleaseQuiet, Goto, TypeOK
<1>4. ASSUME NEW w \in Workers, run[w].pc # "idle"
      PROVE  run[w].call \in Calls \ {c} /\ LoneRun(w)'
  <2>1. run[w].call \in Calls /\ LoneRun(w)
    BY <1>4 DEF LoneInv, TypeOK
  <2>2. run[w].call # c
    BY <1>2, <1>4, <2>1 DEF LoneRun
  <2> QED BY <1>1, <2>1, <2>2 DEF LoneRun, Same
<1>5. ASSUME NEW d \in Calls, score'[d] PROVE Scored(d)'
  <2>1. /\ score'[d] => score[d]
        /\ status[d] \in Delivered => status'[d] = status[d] \/ (d = c /\ ~score'[d])
    BY <1>1 DEF Submit, APICrash, Reserve, CreateJob, EnqueueRun, DeleteJob, ReleaseQuiet,
                Goto, Holders, jobVars, Same, TypeOK, Delivered
  <2>2. Scored(d)
    BY <1>5, <2>1 DEF LoneInv
  <2> QED BY <1>1, <1>5, <2>1, <2>2 DEF Scored
<1>6. \A d \in Calls : task'[d].state # "none" => submit'[d] = "answered"
  BY <1>1, <1>3 DEF LoneInv, Same
<1>7. \A w \in Workers : LoneRun(w)'
  BY <1>1, <1>4 DEF LoneRun
<1> QED BY <1>5, <1>6, <1>7

LEMMA LoneDeliver ==
  ASSUME TypeOK, LoneInv, Alone, NEW w \in Workers, NEW c \in Calls, Deliver(w, c)
  PROVE  /\ \A d \in Calls : task'[d].state # "none" => submit'[d] = "answered"
         /\ \A v \in Workers : LoneRun(v)'
         /\ \A d \in Calls : score'[d] => Scored(d)'
<1>1. UNCHANGED <<submit, status, score>> /\ task[c].state = "pending" /\ run[w].pc = "idle"
  BY DEF Deliver, requestVars, jobVars
<1>2. /\ \A v \in Workers \ {w} : run'[v] = run[v]
      /\ run'[w].pc = "load" /\ run'[w].call = c
      /\ \A d \in Calls \ {c} : task'[d] = task[d]
      /\ task'[c].state = "active" /\ task'[c].holder = w
  BY DEF Deliver, IdleRun, TypeOK
<1>3. \A d \in Calls : task'[d].state # "none" => submit'[d] = "answered"
  BY <1>1, <1>2 DEF LoneInv
<1>4. ASSUME NEW v \in Workers \ {w}, run[v].pc # "idle" PROVE LoneRun(v)'
  <2>1. run[v].call \in Calls /\ LoneRun(v)
    BY <1>4 DEF LoneInv, TypeOK
  <2>2. run[v].call # c
    BY <1>1, <1>4, <2>1 DEF LoneRun
  <2> QED BY <1>1, <1>2, <2>1, <2>2 DEF LoneRun
<1>5. \A v \in Workers : LoneRun(v)'
  BY <1>2, <1>4 DEF LoneRun
<1>6. \A d \in Calls : score'[d] => Scored(d)'
  BY <1>1, <1>2 DEF LoneInv, Scored
<1> QED BY <1>3, <1>5, <1>6

\* A run that is alone on its job, and what a step of it leaves alone.
LEMMA LoneFrame ==
  ASSUME TypeOK, LoneInv, Alone, NEW w \in Workers, Work(w) \/ WorkerCrash(w) \/ LoseLease(w),
         NEW c, c = run[w].call
  PROVE  /\ c \in Calls /\ run[w].pc # "idle" /\ LoneRun(w)
         /\ \A v \in Workers \ {w} : run[v].pc # "idle" => run[v].call \in Calls \ {c}
         /\ \A v \in Workers \ {w} : run'[v] = run[v]
         /\ \A d \in Calls \ {c} :
              status'[d] = status[d] /\ score'[d] = score[d] /\ task'[d] = task[d]
         /\ score[c] => status[c] \in Delivered \/ run[w].pc = "settle"
<1>1. c \in Calls /\ run[w].pc # "idle" /\ LoneRun(w)
  BY WorkIsBusy DEF TypeOK, LoneInv
<1>2. \A v \in Workers \ {w} : run[v].pc # "idle" => run[v].call \in Calls \ {c}
  BY <1>1 DEF LoneInv, LoneRun, TypeOK
<1>3. \A v \in Workers \ {w} : run'[v] = run[v]
  BY WorkMovesRun
<1>4. \A d \in Calls \ {c} : task'[d] = task[d]
  BY TaskStays
<1>5. \A d \in Calls \ {c} : status'[d] = status[d]
  <2>1. status' = status \/ \E s : WriteStatus(c, s)
    BY DEF Work, LoadJob, SetRunning, Resolve, FanOut, ScoreAndReport, Settle, SettleNoData,
           ReleaseNoData, WorkerCrash, LoseLease, jobVars
  <2> QED BY <1>1, <2>1 DEF WriteStatus, TypeOK
<1>6. \A d \in Calls \ {c} : score'[d] = score[d]
  <2>1. score' = score \/ score' = [score EXCEPT ![c] = TRUE]
    BY DEF Work, LoadJob, SetRunning, Resolve, FanOut, ScoreAndReport, Settle, SettleNoData,
           ReleaseNoData, WorkerCrash, LoseLease, jobVars
  <2> QED BY <2>1 DEF TypeOK
<1>7. score[c] => status[c] \in Delivered \/ run[w].pc = "settle"
  BY <1>1, <1>2 DEF LoneInv, Scored
<1> QED BY <1>1, <1>2, <1>3, <1>4, <1>5, <1>6, <1>7

LEMMA LoneWork ==
  ASSUME TypeOK, LoneInv, Alone, ~Spend("overlap"), NEW w \in Workers,
         Work(w) \/ WorkerCrash(w) \/ LoseLease(w)
  PROVE  /\ \A d \in Calls : task'[d].state # "none" => submit'[d] = "answered"
         /\ \A v \in Workers : LoneRun(v)'
         /\ \A d \in Calls : score'[d] => Scored(d)'
<1> SUFFICES ASSUME NEW c, c = run[w].call
             PROVE  /\ \A d \in Calls : task'[d].state # "none" => submit'[d] = "answered"
                    /\ \A v \in Workers : LoneRun(v)'
                    /\ \A d \in Calls : score'[d] => Scored(d)'
  OBVIOUS
<1>1. /\ c \in Calls /\ run[w].pc # "idle" /\ LoneRun(w)
      /\ \A v \in Workers \ {w} : run[v].pc # "idle" => run[v].call \in Calls \ {c}
      /\ \A v \in Workers \ {w} : run'[v] = run[v]
      /\ \A d \in Calls \ {c} :
           status'[d] = status[d] /\ score'[d] = score[d] /\ task'[d] = task[d]
      /\ score[c] => status[c] \in Delivered \/ run[w].pc = "settle"
  BY LoneFrame
<1>2. ~LoseLease(w) /\ ~WorkerCrash(w) /\ ~Spend("scoreLost") /\ ~Spend("settleError")
  BY DEF LoseLease, WorkerCrash, LoneInv, Spend
<1>3. run \in [Workers -> [pc : RunStates, call : Calls \cup {None}, outcome : Delivered]]
  BY DEF TypeOK
<1>4. task[c].state = "active" /\ task[c].holder = w /\ submit[c] = "answered" /\ submit' = submit
  BY <1>1, WorkKeepsRows DEF LoneRun, LoneInv
<1>5. \A d \in Calls : task'[d].state # "none" => submit'[d] = "answered"
  BY <1>1, <1>4 DEF LoneInv
<1>6. \A v \in Workers \ {w} : LoneRun(v)'
  BY <1>1 DEF LoneInv, LoneRun
<1>7. \A d \in Calls \ {c} : score'[d] => Scored(d)'
  BY <1>1 DEF LoneInv, Scored
<1>8. LoneRun(w)' /\ (score'[c] => Scored(c)')
  <2>1. ASSUME Complete(w) \/ Fail(w) PROVE LoneRun(w)'
    BY <1>3, <2>1 DEF Complete, Fail, IdleRun, LoneRun
  <2>2. ASSUME NEW to \in RunStates, Step(w, to)
        PROVE  run'[w].pc = to /\ run'[w].call = c /\ task' = task
    BY <1>3, <2>2 DEF Step
  <2>3. CASE LoadJob(w) \/ Resolve(w)
    <3>1. status' = status /\ score' = score /\ run[w].pc \in {"load", "resolve"}
      BY <2>3 DEF LoadJob, Resolve, jobVars, At
    <3>2. score'[c] => Scored(c)'
      BY <1>1, <3>1 DEF Scored
    <3>3. LoneRun(w)'
      <4>1. CASE Complete(w) \/ Fail(w)
        BY <2>1, <4>1
      <4>2. CASE ~(Complete(w) \/ Fail(w))
        <5>1. \E to \in {"setRunning", "fanOut", "noData"} :
                Step(w, to) /\ status[c] \in {"queued", "running"}
          BY <1>1, <2>3, <4>2 DEF LoadJob, Resolve, FailEarly, LoneRun, At
        <5> QED BY <1>4, <2>2, <3>1, <5>1 DEF LoneRun, RunStates
      <4> QED BY <4>1, <4>2
    <3> QED BY <3>2, <3>3
  <2>4. CASE SetRunning(w)
    <3>1. run[w].pc = "setRunning" /\ score' = score /\ status[c] \in {"queued", "running"}
      BY <1>1, <2>4 DEF SetRunning, At, LoneRun
    <3>2. ~score'[c]
      BY <1>1, <3>1 DEF Delivered
    <3>3. LoneRun(w)'
      <4>1. CASE Fail(w)
        BY <2>1, <4>1
      <4>2. CASE Step(w, "resolve") /\ WriteStatus(c, "running")
        <5>1. status'[c] = "running"
          BY <1>1, <3>1, <4>2 DEF WriteStatus, TypeOK
        <5> QED BY <1>4, <2>2, <4>2, <5>1 DEF LoneRun, RunStates
      <4> QED BY <2>4, <4>1, <4>2 DEF SetRunning, FailEarly
    <3> QED BY <3>2, <3>3
  <2>5. CASE FanOut(w)
    <3>1. /\ run[w].pc = "fanOut" /\ score' = score /\ status' = status
          /\ status[c] \in {"queued", "running"}
      BY <1>1, <2>5 DEF FanOut, At, LoneRun, jobVars
    <3>2. ~score'[c]
      BY <1>1, <3>1 DEF Delivered
    <3>3. LoneRun(w)'
      <4>1. CASE Fail(w)
        BY <2>1, <4>1
      <4>2. CASE Step(w, "noData")
        BY <1>4, <2>2, <3>1, <4>2 DEF LoneRun, RunStates
      <4>3. CASE task' = task /\ \E outcome \in Delivered :
                   run' = [run EXCEPT ![w].pc = "score", ![w].outcome = outcome]
        <5>1. run'[w].pc = "score" /\ run'[w].call = c
          BY <1>3, <4>3
        <5> QED BY <1>4, <3>1, <4>3, <5>1 DEF LoneRun
      <4> QED BY <2>5, <4>1, <4>2, <4>3 DEF FanOut, FailEarly
    <3> QED BY <3>2, <3>3
  <2>6. CASE ScoreAndReport(w)
    <3>1. /\ run[w].pc = "score" /\ status' = status /\ status[c] \in {"queued", "running"}
      BY <1>1, <2>6 DEF ScoreAndReport, At, LoneRun
    <3>2. ~score[c]
      BY <1>1, <3>1 DEF Delivered
    <3>3. CASE Step(w, "settle")
      <4>1. run'[w].pc = "settle" /\ run'[w].call = c /\ task' = task
        BY <2>2, <3>3 DEF RunStates
      <4> QED BY <1>4, <3>1, <4>1 DEF LoneRun, Scored
    <3>4. CASE Fail(w) /\ score' = score
      BY <2>1, <3>2, <3>4
    <3> QED BY <1>2, <2>6, <3>3, <3>4 DEF ScoreAndReport, FailEarly
  <2>7. CASE Settle(w)
    <3>1. /\ run[w].pc = "settle" /\ score' = score /\ status[c] \in {"queued", "running"}
          /\ run[w].outcome \in Delivered
      BY <1>1, <1>3, <2>7 DEF Settle, At, LoneRun
    <3>2. status'[c] \in Delivered
      BY <1>1, <1>2, <2>7, <3>1 DEF Settle, WriteStatus, TypeOK
    <3> QED BY <2>1, <2>7, <3>2 DEF Settle, Scored
  <2>8. CASE SettleNoData(w)
    <3>1. run[w].pc = "noData" /\ score' = score /\ status[c] \in {"queued", "running"}
      BY <1>1, <2>8 DEF SettleNoData, At, LoneRun
    <3>2. ~score'[c]
      BY <1>1, <3>1 DEF Delivered
    <3>3. LoneRun(w)'
      <4>1. CASE Fail(w)
        BY <2>1, <4>1
      <4>2. CASE Step(w, "release") /\ WriteStatus(c, "failed")
        <5>1. status'[c] = "failed"
          BY <1>1, <3>1, <4>2 DEF WriteStatus, TypeOK
        <5> QED BY <1>4, <2>2, <4>2, <5>1 DEF LoneRun, RunStates
      <4> QED BY <2>8, <4>1, <4>2 DEF SettleNoData
    <3> QED BY <3>2, <3>3
  <2>9. CASE ReleaseNoData(w)
    <3>1. run[w].pc = "release" /\ score' = score /\ status[c] = "failed"
      BY <1>1, <2>9 DEF ReleaseNoData, At, LoneRun, jobVars
    <3>2. ~score'[c]
      BY <1>1, <3>1 DEF Delivered
    <3> QED BY <2>1, <2>9, <3>2 DEF ReleaseNoData
  <2> QED BY <1>2, <2>3, <2>4, <2>5, <2>6, <2>7, <2>8, <2>9 DEF Work
<1>9. \A v \in Workers : LoneRun(v)'
  BY <1>6, <1>8
<1>10. \A d \in Calls : score'[d] => Scored(d)'
  BY <1>7, <1>8
<1> QED BY <1>5, <1>9, <1>10

LEMMA LoneHolds == ASSUME ScoresSettle PROVE Spec => []LoneInv
<1>1. Init => LoneInv
  <2> SUFFICES ASSUME Init PROVE LoneInv
    OBVIOUS
  <2>1. \A f \in Faults : budget[f] <= FaultBudget[f]
    BY AuditAssumption DEF Init, AuditAssumption
  <2> QED BY <2>1 DEF Init, LoneInv, LoneRun, IdleRun, ScoresSettle
<1>2. TypeOK /\ TypeOK' /\ LoneInv /\ [Next]_vars => LoneInv'
  <2> SUFFICES ASSUME TypeOK, TypeOK', LoneInv, [Next]_vars PROVE LoneInv'
    OBVIOUS
  <2>1. /\ \A f \in Faults : budget'[f] <= FaultBudget[f]
        /\ Alone' => Alone /\ ~Spend("overlap") /\ ~Spend("enqueueLost")
    BY BudgetShrinks
  <2>2. budget'["scoreLost"] = 0 /\ budget'["settleError"] = 0 /\ budget'["crash"] = 0
    BY NeverSpent DEF LoneInv, Faults
  <2>3. ASSUME Alone'
        PROVE  /\ \A d \in Calls : task'[d].state # "none" => submit'[d] = "answered"
               /\ \A v \in Workers : LoneRun(v)'
               /\ \A d \in Calls : score'[d] => Scored(d)'
    <3>1. Alone /\ ~Spend("overlap") /\ ~Spend("enqueueLost")
      BY <2>1, <2>3
    <3>2. CASE UNCHANGED vars
      BY <3>1, <3>2 DEF vars, requestVars, jobVars, LoneInv, LoneRun, Scored
    <3> QED BY <3>1, <3>2, LoneSubmit, LoneDeliver, LoneWork DEF Next
  <2> QED BY <2>1, <2>2, <2>3 DEF LoneInv
<1> QED BY <1>1, <1>2, TypeCorrect, PTL DEF Spec

\* A delivered audit has its score, whatever happens to its job; a failed one
\* has none, as long as nothing else acted on its job.
THEOREM StatusIsHonest == ASSUME ScoresSettle PROVE Spec => []StatusTellsScore
<1>1. ScoreInv /\ LoneInv => StatusTellsScore
  BY DEF ScoreInv, LoneInv, LoneRun, Scored, StatusTellsScore, Delivered
<1> QED BY <1>1, ScoreHolds, LoneHolds, PTL
=============================================================================
