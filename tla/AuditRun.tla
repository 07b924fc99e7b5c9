------------------------------ MODULE AuditRun ------------------------------
(***************************************************************************)
(* The audit orchestrator: submissions at the API, the audit:run task in   *)
(* the queue, and the worker runs that settle the job and the quota unit.  *)
(*                                                                         *)
(* Every call c creates at most one audit_job row, reserves at most one    *)
(* unit and enqueues at most one task, so the row, the unit and the task   *)
(* are all indexed by the call that made them.                             *)
(*                                                                         *)
(* One action is one statement sent to Postgres or Redis, or one answer    *)
(* read from them: between two of them any other call or run may move.     *)
(* Faults are spent from a budget, so a configuration says which of them   *)
(* the environment may inject and how often.                               *)
(***************************************************************************)
EXTENDS Naturals, FiniteSets

CONSTANTS
  Calls,       \* POST /audits requests (and signup submissions)
  Users,       \* accounts
  Keys,        \* idempotency keys
  Workers,     \* worker goroutines that execute tasks
  None,        \* no call, or no worker
  Limit,       \* units one account may use in the period
  MaxRetry,    \* runMaxRetry: retries of a run that returned an error
  Scarce,      \* calls whose platforms may hold too little evidence for a score
  FaultBudget  \* how many faults of each kind the environment may inject

Faults == {
  "reserveLost",   \* Reserve applied, its answer lost
  "createError",   \* CreateJob not applied
  "createLost",    \* CreateJob committed, its answer lost
  "enqueueError",  \* the task was not queued
  "enqueueLost",   \* the task was queued, the answer lost
  "undoError",     \* a best-effort DeleteJob or Release not applied
  "apiCrash",      \* the API process dies inside a submit
  "runError",      \* a call a run makes before settling fails, not applied
  "scoreLost",     \* the score row was written, but the step reports an error
  "settleError",   \* the run's SetTerminal or Release not applied
  "settleLost",    \* SetTerminal or Release applied, its answer lost
  "crash",         \* the worker process dies inside a run
  "overlap" }      \* the task's lease is lost while its run is still executing

ASSUME AuditAssumption ==
  /\ IsFiniteSet(Calls)
  /\ None \notin Calls
  /\ Limit \in Nat
  /\ MaxRetry \in Nat
  /\ Scarce \subseteq Calls
  /\ FaultBudget \in [Faults -> Nat]

VARIABLES
  req,      \* req[c]: the account and the idempotency key of call c
  submit,   \* submit[c]: how far the submit of c has come
  reply,    \* reply[c]: the call whose job c found under its key
  status,   \* status[c]: audit_job.status of the row c created, or "none"
  score,    \* score[c]: TRUE when a score row references that job
  used,     \* used[u]: usage_counter.audits_used of u in the period
  reserved, \* reserved[c]: TRUE once c took a unit      (bookkeeping)
  refunds,  \* refunds[c]: times that unit was given back (bookkeeping)
  task,     \* task[c]: the audit:run task of c's job
  run,      \* run[w]: what worker w is executing
  budget    \* faults the environment may still inject

requestVars == <<req, submit, reply>>
unitVars == <<used, reserved, refunds>>
jobVars == <<status, score>>
vars == <<requestVars, unitVars, jobVars, task, run, budget>>

Terminal == {"succeeded", "partial", "failed"}
Delivered == {"succeeded", "partial"}

SubmitStates == {"idle", "reserved", "created", "undo", "release", "replay",
                 "answered", "refused", "crashed"}
RunStates == {"idle", "load", "setRunning", "resolve", "fanOut", "score",
              "settle", "noData", "release"}
TaskStates == {"none", "pending", "active", "done", "archived"}

TypeOK ==
  /\ req \in [Calls -> [user : Users, key : Keys]]
  /\ submit \in [Calls -> SubmitStates]
  /\ reply \in [Calls -> Calls]
  /\ status \in [Calls -> Terminal \cup {"none", "queued", "running"}]
  /\ score \in [Calls -> BOOLEAN]
  /\ used \in [Users -> Nat]
  /\ reserved \in [Calls -> BOOLEAN]
  /\ refunds \in [Calls -> Nat]
  /\ task \in [Calls -> [state : TaskStates, retried : 0..MaxRetry,
                         holder : Workers \cup {None}]]
  /\ run \in [Workers -> [pc : RunStates, call : Calls \cup {None},
                          outcome : Delivered]]
  /\ \A w \in Workers : run[w].pc # "idle" => run[w].call \in Calls
  /\ budget \in [Faults -> Nat]

IdleRun == [pc |-> "idle", call |-> None, outcome |-> "partial"]

Init ==
  /\ req \in [Calls -> [user : Users, key : Keys]]
  /\ submit = [c \in Calls |-> "idle"]
  /\ reply = [c \in Calls |-> c]
  /\ status = [c \in Calls |-> "none"]
  /\ score = [c \in Calls |-> FALSE]
  /\ used = [u \in Users |-> 0]
  /\ reserved = [c \in Calls |-> FALSE]
  /\ refunds = [c \in Calls |-> 0]
  /\ task = [c \in Calls |-> [state |-> "none", retried |-> 0, holder |-> None]]
  /\ run = [w \in Workers |-> IdleRun]
  /\ budget = FaultBudget

Spend(fault) ==
  /\ budget[fault] > 0
  /\ budget' = [budget EXCEPT ![fault] = @ - 1]

NoFault == UNCHANGED budget

-----------------------------------------------------------------------------
(* The quota counter *)
\* ReserveUnit increments only below the limit, in one statement.
TakeUnit(c) ==
  /\ used[req[c].user] < Limit
  /\ used' = [used EXCEPT ![req[c].user] = @ + 1]
  /\ reserved' = [reserved EXCEPT ![c] = TRUE]
  /\ UNCHANGED refunds

\* ReleaseUnit decrements a positive counter; it keeps no record of the token.
ReturnUnit(c) ==
  /\ used' = [used EXCEPT ![req[c].user] = IF @ > 0 THEN @ - 1 ELSE 0]
  /\ refunds' = [refunds EXCEPT ![c] = @ + 1]
  /\ UNCHANGED reserved

-----------------------------------------------------------------------------
(* The API: Service.submit *)

Goto(c, from, to) ==
  /\ submit[c] = from
  /\ submit' = [submit EXCEPT ![c] = to]

Reserve(c) ==
  /\ UNCHANGED <<req, reply, jobVars, task, run>>
  /\ \/ Goto(c, "idle", "reserved") /\ TakeUnit(c) /\ NoFault
     \/ Goto(c, "idle", "refused") /\ TakeUnit(c) /\ Spend("reserveLost")
     \/ /\ Goto(c, "idle", "refused")
        /\ used[req[c].user] >= Limit
        /\ UNCHANGED unitVars
        /\ NoFault

\* The row that holds the idempotency key of c, if any: the key is unique.
Holders(c) == {d \in Calls : status[d] # "none" /\ req[d].key = req[c].key}
\* Mutant of CreateJob: a failed insert returns without releasing the unit.
CreateJobKeepsUnit(c) ==
  /\ UNCHANGED <<req, unitVars, score, task, run>>
  /\ \/ /\ Holders(c) = {}
        /\ status' = [status EXCEPT ![c] = "queued"]
        /\ Goto(c, "reserved", "created") /\ UNCHANGED reply /\ NoFault
     \/ Goto(c, "reserved", "refused") /\ Spend("createError") /\ UNCHANGED <<status, reply>>

CreateJob(c) ==
  /\ UNCHANGED <<req, unitVars, score, task, run>>
  /\ \/ \* inserted, and the commit was or was not acknowledged
        /\ Holders(c) = {}
        /\ status' = [status EXCEPT ![c] = "queued"]
        /\ UNCHANGED reply
        /\ \/ Goto(c, "reserved", "created") /\ NoFault
           \/ Goto(c, "reserved", "release") /\ Spend("createLost")
     \/ \* the key already has a job: replay it for its owner, refuse another
        \E d \in Holders(c) :
          /\ NoFault
          /\ UNCHANGED status
          /\ IF req[d].user = req[c].user
               THEN Goto(c, "reserved", "replay") /\ reply' = [reply EXCEPT ![c] = d]
               ELSE Goto(c, "reserved", "release") /\ UNCHANGED reply
     \/ /\ Goto(c, "reserved", "release")
        /\ Spend("createError")
        /\ UNCHANGED <<status, reply>>

Queued == [state |-> "pending", retried |-> 0, holder |-> None]

EnqueueRun(c) ==
  /\ UNCHANGED <<req, reply, unitVars, jobVars, run>>
  /\ \/ /\ Goto(c, "created", "answered")
        /\ task' = [task EXCEPT ![c] = Queued]
        /\ NoFault
     \/ /\ Goto(c, "created", "undo")
        /\ task' = [task EXCEPT ![c] = Queued]
        /\ Spend("enqueueLost")
     \/ /\ Goto(c, "created", "undo")
        /\ Spend("enqueueError")
        /\ UNCHANGED task

\* deleteQuiet: the score row goes with the job (ON DELETE CASCADE).
DeleteJob(c) ==
  /\ Goto(c, "undo", "release")
  /\ \/ /\ status' = [status EXCEPT ![c] = "none"]
        /\ score' = [score EXCEPT ![c] = FALSE]
        /\ NoFault
     \/ Spend("undoError") /\ UNCHANGED jobVars
  /\ UNCHANGED <<req, reply, unitVars, task, run>>
\* Mutant of ReleaseQuiet: only the error paths release, a replay does not.
ReleaseQuietErrorsOnly(c) ==
  /\ \/ Goto(c, "release", "refused") /\ ReturnUnit(c)
     \/ Goto(c, "replay", "answered") /\ UNCHANGED unitVars
  /\ NoFault
  /\ UNCHANGED <<req, reply, jobVars, task, run>>

\* releaseQuiet, on the error paths and on an idempotent replay: its own error
\* is dropped, and a replay then answers with the job it found.
ReleaseQuiet(c) ==
  /\ Goto(c, "release", "refused") \/ Goto(c, "replay", "answered")
  /\ \/ ReturnUnit(c) /\ NoFault
     \/ Spend("undoError") /\ UNCHANGED unitVars
  /\ UNCHANGED <<req, reply, jobVars, task, run>>

APICrash(c) ==
  /\ submit[c] \in {"reserved", "created", "undo", "release", "replay"}
  /\ submit' = [submit EXCEPT ![c] = "crashed"]
  /\ Spend("apiCrash")
  /\ UNCHANGED <<req, reply, unitVars, jobVars, task, run>>

Submit(c) ==
  Reserve(c) \/ CreateJob(c) \/ EnqueueRun(c) \/ DeleteJob(c) \/ ReleaseQuiet(c)

-----------------------------------------------------------------------------
(* The queue: at-least-once delivery, MaxRetry retries, then the archive *)

Deliver(w, c) ==
  /\ run[w].pc = "idle"
  /\ task[c].state = "pending"
  /\ task' = [task EXCEPT ![c].state = "active", ![c].holder = w]
  /\ run' = [run EXCEPT ![w] = [IdleRun EXCEPT !.pc = "load", !.call = c]]
  /\ UNCHANGED <<requestVars, unitVars, jobVars, budget>>
\* Mutant of Requeue: an error archives the task at once (SkipRetry).
RequeueNever(c) ==
  task' = [task EXCEPT ![c].state = "archived", ![c].holder = None]

\* A task goes back for its next attempt, or to the archive after the last one.
Requeue(c) ==
  task' = [task EXCEPT ![c] =
             IF @.retried < MaxRetry
               THEN [state |-> "pending", retried |-> @.retried + 1, holder |-> None]
               ELSE [@ EXCEPT !.state = "archived", !.holder = None]]

Holds(w) == task[run[w].call].holder = w

\* The handler returned nil.  A run that lost its lease completes nothing.
Complete(w) ==
  /\ run' = [run EXCEPT ![w] = IdleRun]
  /\ IF Holds(w)
       THEN task' = [task EXCEPT ![run[w].call].state = "done",
                                 ![run[w].call].holder = None]
       ELSE UNCHANGED task

\* The handler returned an error.
Fail(w) ==
  /\ run' = [run EXCEPT ![w] = IdleRun]
  /\ IF Holds(w) THEN Requeue(run[w].call) ELSE UNCHANGED task

WorkerCrash(w) ==
  /\ run[w].pc # "idle"
  /\ Spend("crash")
  /\ Fail(w)
  /\ UNCHANGED <<requestVars, unitVars, jobVars>>

\* The lease expires (or a shutdown hands the task back) under a live handler.
LoseLease(w) ==
  /\ run[w].pc # "idle"
  /\ Holds(w)
  /\ Spend("overlap")
  /\ Requeue(run[w].call)
  /\ UNCHANGED <<requestVars, unitVars, jobVars, run>>

-----------------------------------------------------------------------------
(* The worker: Service.run *)

At(w, pc) == run[w].pc = pc

Step(w, to) ==
  /\ run' = [run EXCEPT ![w].pc = to]
  /\ UNCHANGED task
  /\ NoFault

\* A dependency failed before the run settled anything.
FailEarly(w) == Fail(w) /\ Spend("runError")
\* Mutant of LoadJob: a redelivered task runs its job again, terminal or not.
LoadJobBlind(w) ==
  /\ At(w, "load")
  /\ \/ status[run[w].call] = "none" /\ Complete(w) /\ NoFault
     \/ status[run[w].call] # "none" /\ Step(w, "setRunning")
     \/ FailEarly(w)
  /\ UNCHANGED <<requestVars, unitVars, jobVars>>

\* Mutant of LoadJob: "partial" is missing from the terminal states.
LoadJobRerunsPartial(w) ==
  /\ At(w, "load")
  /\ \/ status[run[w].call] \in {"none", "succeeded", "failed"} /\ Complete(w) /\ NoFault
     \/ status[run[w].call] \in {"queued", "running", "partial"} /\ Step(w, "setRunning")
     \/ FailEarly(w)
  /\ UNCHANGED <<requestVars, unitVars, jobVars>>

\* Mutant of LoadJob: "failed" is missing from the terminal states.
LoadJobRerunsFailed(w) ==
  /\ At(w, "load")
  /\ \/ status[run[w].call] \in {"none", "succeeded", "partial"} /\ Complete(w) /\ NoFault
     \/ status[run[w].call] \in {"queued", "running", "failed"} /\ Step(w, "setRunning")
     \/ FailEarly(w)
  /\ UNCHANGED <<requestVars, unitVars, jobVars>>

LoadJob(w) ==
  LET c == run[w].call IN
  /\ At(w, "load")
  /\ \/ status[c] \in Terminal \cup {"none"} /\ Complete(w) /\ NoFault
     \/ status[c] \in {"queued", "running"} /\ Step(w, "setRunning")
     \/ FailEarly(w)
  /\ UNCHANGED <<requestVars, unitVars, jobVars>>

\* An UPDATE by id alone: it writes over whatever status the row has by now,
\* and finding no row is not an error.
WriteStatus(c, s) == status' = [status EXCEPT ![c] = IF @ = "none" THEN @ ELSE s]

SetRunning(w) ==
  /\ At(w, "setRunning")
  /\ \/ Step(w, "resolve") /\ WriteStatus(run[w].call, "running")
     \/ FailEarly(w) /\ UNCHANGED status
  /\ UNCHANGED <<requestVars, unitVars, score>>

\* No influencer or no connected platform is the zero-data case.
Resolve(w) ==
  /\ At(w, "resolve")
  /\ Step(w, "fanOut") \/ Step(w, "noData") \/ FailEarly(w)
  /\ UNCHANGED <<requestVars, unitVars, jobVars>>

\* Every platform's result row references the job: with the row gone the
\* fan-out is a system fault.  Otherwise the platforms decide the outcome.
FanOut(w) ==
  /\ At(w, "fanOut")
  /\ \/ /\ status[run[w].call] # "none"
        /\ \E outcome \in Delivered :
             run' = [run EXCEPT ![w].pc = "score", ![w].outcome = outcome]
        /\ UNCHANGED task
        /\ NoFault
     \/ status[run[w].call] # "none" /\ Step(w, "noData")
     \/ status[run[w].call] = "none" /\ Fail(w) /\ NoFault
     \/ FailEarly(w)
  /\ UNCHANGED <<requestVars, unitVars, jobVars>>

\* Mutant of ScoreAndReport: a failed narrative fails the run after the score
\* was stored.
ScoreAndReportStrict(w) ==
  /\ At(w, "score")
  /\ status[run[w].call] # "none"
  /\ score' = [score EXCEPT ![run[w].call] = TRUE]
  /\ Step(w, "settle") \/ FailEarly(w)
  /\ UNCHANGED <<requestVars, unitVars, status>>

\* Mutant of ScoreAndReport: a scoring error is swallowed like a narrative's.
ScoreAndReportLax(w) ==
  /\ At(w, "score")
  /\ status[run[w].call] # "none"
  /\ Step(w, "settle")
  /\ score' = [score EXCEPT ![run[w].call] = TRUE] \/ UNCHANGED score
  /\ UNCHANGED <<requestVars, unitVars, status>>

\* The fraud and score rows reference the job too. Evidence below the thin band
\* is no score but an error (ErrInsufficientEvidence), on this attempt and, if
\* the platforms have no more to give, on every other.
ScoreAndReport(w) ==
  LET c == run[w].call IN
  /\ At(w, "score")
  /\ \/ /\ status[c] # "none"
        /\ score' = [score EXCEPT ![c] = TRUE]
        /\ Step(w, "settle") \/ (Fail(w) /\ Spend("scoreLost"))
     \/ status[c] = "none" /\ Fail(w) /\ NoFault /\ UNCHANGED score
     \/ c \in Scarce /\ Fail(w) /\ NoFault /\ UNCHANGED score
     \/ FailEarly(w) /\ UNCHANGED score
  /\ UNCHANGED <<requestVars, unitVars, status>>

\* Data was collected: the terminal status, then Commit, which only parses
\* the reservation token.
Settle(w) ==
  LET c == run[w].call IN
  /\ At(w, "settle")
  /\ \/ Complete(w) /\ WriteStatus(c, run[w].outcome) /\ NoFault
     \/ Fail(w) /\ WriteStatus(c, run[w].outcome) /\ Spend("settleLost")
     \/ Fail(w) /\ UNCHANGED status /\ Spend("settleError")
  /\ UNCHANGED <<requestVars, unitVars, score>>

\* finishNoData, first half.
SettleNoData(w) ==
  LET c == run[w].call IN
  /\ At(w, "noData")
  /\ \/ Step(w, "release") /\ WriteStatus(c, "failed")
     \/ Fail(w) /\ WriteStatus(c, "failed") /\ Spend("settleLost")
     \/ Fail(w) /\ UNCHANGED status /\ Spend("settleError")
  /\ UNCHANGED <<requestVars, unitVars, score>>
\* Mutant of ReleaseNoData: the failed job's reservation is committed instead.
ReleaseNoDataCommits(w) ==
  /\ At(w, "release")
  /\ Complete(w)
  /\ NoFault
  /\ UNCHANGED <<requestVars, unitVars, jobVars>>

\* finishNoData, second half.
ReleaseNoData(w) ==
  LET c == run[w].call IN
  /\ At(w, "release")
  /\ \/ Complete(w) /\ ReturnUnit(c) /\ NoFault
     \/ Fail(w) /\ ReturnUnit(c) /\ Spend("settleLost")
     \/ Fail(w) /\ UNCHANGED unitVars /\ Spend("settleError")
  /\ UNCHANGED <<requestVars, jobVars>>

Work(w) ==
  \/ LoadJob(w)
  \/ SetRunning(w)
  \/ Resolve(w)
  \/ FanOut(w)
  \/ ScoreAndReport(w)
  \/ Settle(w)
  \/ SettleNoData(w)
  \/ ReleaseNoData(w)

-----------------------------------------------------------------------------

Next ==
  \/ \E c \in Calls : Submit(c) \/ APICrash(c)
  \/ \E w \in Workers, c \in Calls : Deliver(w, c)
  \/ \E w \in Workers : Work(w) \/ WorkerCrash(w) \/ LoseLease(w)

Spec == Init /\ [][Next]_vars

(* A submit that was started runs on, a worker runs its handler, and the
   queue hands every pending task to an idle worker. Nobody has to submit. *)
Fairness ==
  /\ \A c \in Calls : WF_vars(submit[c] # "idle" /\ Submit(c))
  /\ \A w \in Workers : WF_vars(Work(w))
  /\ \A c \in Calls : WF_vars(\E w \in Workers : Deliver(w, c))

FairSpec == Spec /\ Fairness
-----------------------------------------------------------------------------
(* Properties *)

Unattended(c) == \A w \in Workers : run[w].call # c

\* The audits delivered to an account never outnumber the units it is charged
\* for: no interleaving of replays, retries and compensations hands a unit back
\* behind an audit that succeeded.
DeliveredAreCharged ==
  \A u \in Users :
    Cardinality({c \in Calls : req[c].user = u /\ status[c] \in Delivered}) <= used[u]

\* A reservation is given back at most once, whoever gives it back: the
\* submit's compensation or the run that found no data.
RefundedAtMostOnce == \A c \in Calls : refunds[c] <= 1

\* Once the queue is finished with a job that failed, its unit is back:
\* "a failed audit must not burn the caller's quota" (worker.go).
FailedReturnsUnit ==
  \A c \in Calls :
    status[c] = "failed" /\ task[c].state \in {"done", "archived"} /\ Unattended(c)
      => refunds[c] > 0

\* A key is charged once: of the finished submits that carried it, at most one
\* still holds a unit ("a retry never double-charges", service.go).
OneChargePerKey ==
  \A c, d \in Calls :
    /\ c # d /\ req[c] = req[d]
    /\ submit[c] \in {"answered", "refused"} /\ submit[d] \in {"answered", "refused"}
    /\ reserved[c] /\ reserved[d]
    => refunds[c] + refunds[d] > 0

\* A submit that gave its unit back on an error left no job behind, so the
\* same key can be submitted again.
RefusedLeavesNoJob ==
  \A c \in Calls :
    submit[c] = "refused" /\ reserved[c] => status[c] = "none" /\ refunds[c] > 0

\* No fault so far let two runs, or a run and a compensation, act on one job.
Alone ==
  \A fault \in {"overlap", "enqueueLost"} : budget[fault] = FaultBudget[fault]

\* The status tells whether there is a score. A delivered audit has the one it
\* was charged for, also when two runs of one job overlap or its row was deleted
\* under a run; a failed one has none, whatever its retries saw, because its
\* report discloses that there is neither score nor narrative.
StatusTellsScore ==
  \A c \in Calls :
    /\ status[c] \in Delivered => score[c]
    /\ Alone /\ status[c] = "failed" => ~score[c]

\* A terminal status is final: no later run, retry or redelivery moves it.
TerminalIsFinal ==
  [][\A c \in Calls : status[c] \in Terminal => status'[c] = status[c]]_vars

\* Every audit a submit created is settled: its row ends in a terminal status or
\* is deleted. The code does not keep this: see EveryJobSettles.
EveryAuditSettles ==
  \A c \in Calls : status[c] \in {"queued", "running"} ~> status[c] \in Terminal \cup {"none"}

\* What stands in the way of a settled job: a lease lost under a live run, whose
\* late SetRunning then overwrites the terminal status of the other; or evidence
\* that is too thin on every attempt, with which the task ends in the archive and
\* the job is left running.
LeftRunning(c) ==
  \/ budget["overlap"] < FaultBudget["overlap"]
  \/ c \in Scarce /\ status[c] = "running" /\ task[c].state = "archived"

\* Every job a submit created leaves the queue: through retries and compensations
\* it ends in a terminal status or a deleted row, and only a lost lease or
\* evidence that stays too thin leaves it running for good.
EveryJobSettles ==
  \A c \in Calls :
    status[c] \in {"queued", "running"} ~>
      status[c] \in Terminal \cup {"none"} \/ LeftRunning(c)

\* The promise AuditRun implements: see UnitLedger. The ledger has no state for a
\* unit that was returned twice, or returned although its audit was delivered.
Unit(c) ==
  IF ~reserved[c] THEN "none"
  ELSE IF refunds[c] > 1 THEN "returned twice"
  ELSE IF refunds[c] = 1 THEN IF status[c] \in Delivered THEN "returned and charged"
                              ELSE "returned"
  ELSE IF status[c] \in Delivered THEN "charged"
  ELSE "held"

Ledger == INSTANCE UnitLedger WITH
  unit <- [c \in Calls |-> Unit(c)],
  payer <- [c \in Calls |-> req[c].user],
  counter <- used

\* The flow is a unit ledger: every unit is taken below the limit and then charged
\* or returned, once and never both, and the account's counter follows each.
ImplementsLedger == Ledger!LedgerSpec
=============================================================================
