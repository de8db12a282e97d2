--------------------------- MODULE RecoveryQueue ---------------------------
(***************************************************************************)
(* The queue of incomplete payments and the recovery workers that share it *)
(* (src/recovery.ts processIncomplete and startRecoveryWorker,             *)
(* src/nonceStore.ts claimIncompletePayments), one worker per server       *)
(* process.  A claim is a lease: recovery_locked_at keeps a row off-limits *)
(* for staleMs, and nothing renews it.                                     *)
(*                                                                         *)
(* Time is in ticks.  Rows are numbered in the order of created_at.  Of    *)
(* recoverPayment, which Settlement models in full, only what the queue    *)
(* depends on is kept: a task goes by the status of the row it claimed,    *)
(* never reads the row again, and each status it writes it writes whatever *)
(* the row has become, "complete" by another worker's hand included.  Rows *)
(* that end as failed (a reverted pull, a zero net) are Settlement's.      *)
(***************************************************************************)
EXTENDS Integers, FiniteSets

CONSTANTS
  Workers,
  NRows,       \* how many payments /settle leaves incomplete
  Hopeless,    \* rows no attempt can finish: a pull or a payout lost its nonce
  Limit,       \* rows a cycle claims at most
  StaleAfter,  \* ticks a claim holds
  Interval,    \* RECOVERY_INTERVAL_MS, in ticks
  MaxTask,     \* bound: ticks a batch may take
  MaxCrash     \* bound: restarts

VARIABLES
  status,      \* per row: payments.status, "none" until it is left behind
  lockAge,     \* ticks since recovery_locked_at; Unlocked when it is NULL
  timer,       \* ticks to each worker's next interval
  cycle,       \* each worker's `running' and how far its cycle is
  batchAge,    \* ticks since each worker claimed the batch it is on, else 0
  task,        \* each worker's recoverPayment calls: the status each has got to
  payouts,     \* history: payouts signed per row
  outlived,    \* history: rows claimed while an earlier claim was worked on
  reopened,    \* history: rows a late write took out of "complete"
  crashes

Rows == 1 .. NRows
queue == <<status, lockAge>>
work == <<cycle, batchAge, task>>
history == <<payouts, outlived, reopened>>
vars == <<queue, timer, work, history, crashes>>

ASSUME RecoveryQueueAssumption ==
  /\ NRows \in Nat /\ Hopeless \subseteq 1 .. NRows
  /\ Limit \in Nat \ {0} /\ StaleAfter \in Nat /\ Interval \in Nat \ {0}
  /\ MaxTask \in Nat \ {0} /\ MaxCrash \in Nat

\* What claimIncompletePayments selects.
Incomplete == {"incoming_submitted", "incoming_complete", "outgoing_submitted"}

Unlocked == -1
NoTasks == [r \in Rows |-> "none"]

\* startRecoveryWorker runs a first cycle at once.
Init ==
  /\ status = [r \in Rows |-> "none"]
  /\ lockAge = [r \in Rows |-> Unlocked]
  /\ timer = [w \in Workers |-> Interval]
  /\ cycle = [w \in Workers |-> "starting"]
  /\ batchAge = [w \in Workers |-> 0]
  /\ task = [w \in Workers |-> NoTasks]
  /\ payouts = [r \in Rows |-> 0]
  /\ outlived = {} /\ reopened = {} /\ crashes = 0

\* A /settle handler leaves a payment behind at one of its three stages.
LeftBehind(r) ==
  /\ status[r] = "none"
  /\ \E stage \in Incomplete :
       /\ status' = [status EXCEPT ![r] = stage]
       /\ payouts' = [payouts EXCEPT ![r] =
            IF stage = "outgoing_submitted" THEN 1 ELSE 0]
  /\ UNCHANGED <<lockAge, timer, work, outlived, reopened, crashes>>

-----------------------------------------------------------------------------
(* A worker's cycle.                                                       *)

\* The interval fires; a cycle that still runs makes it skip.
IntervalFires(w) ==
  /\ timer[w] = 0
  /\ timer' = [timer EXCEPT ![w] = Interval]
  /\ cycle' = [cycle EXCEPT ![w] = IF @ = "idle" THEN "starting" ELSE @]
  /\ UNCHANGED <<queue, batchAge, task, history, crashes>>

\* Pruning, the stuck-payment alert or the claim throws: `finally' ends the cycle.
CycleFails(w) ==
  /\ cycle[w] = "starting"
  /\ cycle' = [cycle EXCEPT ![w] = "idle"]
  /\ UNCHANGED <<queue, timer, batchAge, task, history, crashes>>

\* Mutant: a claim ends one tick early.
FreeAtStale(r) == lockAge[r] = Unlocked \/ lockAge[r] >= StaleAfter

Free(r) == lockAge[r] = Unlocked \/ lockAge[r] > StaleAfter

Claimable == {r \in Rows : status[r] \in Incomplete /\ Free(r)}

\* Mutant: the newest first.
NewestClaimable == {r \in Claimable : Cardinality({q \in Claimable : q > r}) < Limit}

\* ORDER BY created_at LIMIT.
Oldest == {r \in Claimable : Cardinality({q \in Claimable : q < r}) < Limit}

\* claimIncompletePayments is one statement; every row it returns is a snapshot.
Claim(w) ==
  /\ cycle[w] = "starting"
  /\ lockAge' = [r \in Rows |-> IF r \in Oldest THEN 0 ELSE lockAge[r]]
  /\ task' = [task EXCEPT ![w] = [r \in Rows |->
       IF r \in Oldest THEN status[r] ELSE "none"]]
  /\ batchAge' = [batchAge EXCEPT ![w] = 0]
  /\ cycle' = [cycle EXCEPT ![w] = IF Oldest = {} THEN "idle" ELSE "running"]
  /\ outlived' = outlived \cup
       {r \in Oldest : \E v \in Workers : task[v][r] # "none"}
  /\ UNCHANGED <<status, timer, payouts, reopened, crashes>>

\* Promise.allSettled: the cycle ends with the last of its tasks.
TaskEnds(w, r) ==
  /\ task' = [task EXCEPT ![w][r] = "none"]
  /\ IF \A q \in Rows \ {r} : task[w][q] = "none"
     THEN /\ cycle' = [cycle EXCEPT ![w] = "idle"]
          /\ batchAge' = [batchAge EXCEPT ![w] = 0]
     ELSE UNCHANGED <<cycle, batchAge>>

\* A task's UPDATE ... SET status WHERE nonce: it asks neither what the status
\* was nor for the lock, and leaves the lock as it is.
Writes(w, r, st) ==
  /\ status' = [status EXCEPT ![r] = st]
  /\ task' = [task EXCEPT ![w][r] = st]
  /\ reopened' = IF status[r] = "complete" THEN reopened \cup {r} ELSE reopened
  /\ UNCHANGED <<lockAge, timer, cycle, batchAge, outlived, crashes>>

\* Stage 0: the pull is confirmed.
ConfirmsPull(w, r) ==
  /\ task[w][r] = "incoming_submitted"
  /\ Writes(w, r, "incoming_complete")
  /\ UNCHANGED payouts

\* Mutant: the payout is sent and not stored.
SignsUnstored(w, r) ==
  /\ task[w][r] = "incoming_complete"
  /\ payouts' = [payouts EXCEPT ![r] = @ + 1]
  /\ task' = [task EXCEPT ![w][r] = "outgoing_submitted"]
  /\ UNCHANGED <<queue, timer, cycle, batchAge, outlived, reopened, crashes>>

\* Phase 1: sign a payout and store it.
Signs(w, r) ==
  /\ task[w][r] = "incoming_complete"
  /\ payouts' = [payouts EXCEPT ![r] = @ + 1]
  /\ Writes(w, r, "outgoing_submitted")

\* Phase 2: the payout is confirmed; the terminal status releases the row.
Confirms(w, r) ==
  /\ task[w][r] = "outgoing_submitted" /\ r \notin Hopeless
  /\ status' = [status EXCEPT ![r] = "complete"]
  /\ lockAge' = [lockAge EXCEPT ![r] = Unlocked]
  /\ TaskEnds(w, r)
  /\ UNCHANGED <<timer, history, crashes>>

\* A receipt that is not there in time, a revert or an error: left for later.
GivesUp(w, r) ==
  /\ task[w][r] # "none"
  /\ TaskEnds(w, r)
  /\ UNCHANGED <<queue, timer, history, crashes>>

\* The process restarts; the rows it had claimed stay locked.
Crash(w) ==
  /\ crashes < MaxCrash /\ crashes' = crashes + 1
  /\ cycle' = [cycle EXCEPT ![w] = "starting"]
  /\ timer' = [timer EXCEPT ![w] = Interval]
  /\ batchAge' = [batchAge EXCEPT ![w] = 0]
  /\ task' = [task EXCEPT ![w] = NoTasks]
  /\ UNCHANGED <<queue, history>>

\* Time passes when no interval is due; a batch never takes longer than MaxTask.
Tick ==
  /\ \A w \in Workers :
       timer[w] > 0 /\ (cycle[w] = "running" => batchAge[w] < MaxTask)
  /\ timer' = [w \in Workers |-> timer[w] - 1]
  /\ batchAge' = [w \in Workers |->
       IF cycle[w] = "running" THEN batchAge[w] + 1 ELSE batchAge[w]]
  /\ lockAge' = [r \in Rows |->
       IF lockAge[r] \in 0 .. StaleAfter THEN lockAge[r] + 1 ELSE lockAge[r]]
  /\ UNCHANGED <<status, cycle, task, history, crashes>>

Advances(w, r) == ConfirmsPull(w, r) \/ Signs(w, r) \/ Confirms(w, r)

WorkerStep(w) ==
  \/ IntervalFires(w) \/ CycleFails(w) \/ Claim(w)
  \/ \E r \in Rows : Advances(w, r) \/ GivesUp(w, r)

Next ==
  \/ \E r \in Rows : LeftBehind(r)
  \/ \E w \in Workers : WorkerStep(w) \/ Crash(w)
  \/ Tick

Spec == Init /\ [][Next]_vars

\* The clock runs, intervals fire and every request ends.  A database and a node
\* that answer again and again eventually let a cycle claim and a row advance.
FairSpec ==
  /\ Spec /\ WF_vars(Tick)
  /\ \A w \in Workers : WF_vars(WorkerStep(w)) /\ SF_vars(Claim(w))
  /\ \A r \in Rows \ Hopeless : SF_vars(\E w \in Workers : Advances(w, r))

-----------------------------------------------------------------------------
(* Properties.                                                             *)

\* Types of the queue and the workers.
TypeOK ==
  /\ status \in [Rows -> {"none", "complete"} \cup Incomplete]
  /\ lockAge \in [Rows -> {Unlocked} \cup 0 .. (StaleAfter + 1)]
  /\ timer \in [Workers -> 0 .. Interval]
  /\ cycle \in [Workers -> {"idle", "starting", "running"}]
  /\ batchAge \in [Workers -> 0 .. MaxTask]
  /\ task \in [Workers -> [Rows -> {"none"} \cup Incomplete]]
  /\ payouts \in [Rows -> Nat]
  /\ outlived \in SUBSET Rows /\ reopened \in SUBSET Rows
  /\ crashes \in 0 .. MaxCrash

Working(w, r) == task[w][r] # "none"

\* "without ever grabbing the same row", as far as it goes: two workers are on
\* one row only when one has been at it for longer than a claim holds, or on a
\* completed row that a late task's write has reopened, unlocked; and no task
\* reopens a row unless a claim on that row was outlived before.
SharedOnlyWhenStale ==
  /\ \A r \in Rows \ reopened : \A v, w \in Workers :
       v # w /\ Working(v, r) /\ Working(w, r) =>
         batchAge[v] > StaleAfter \/ batchAge[w] > StaleAfter
  /\ reopened \subseteq outlived

\* "WITHOUT ever risking a double-payment": however many workers there are and
\* whenever they restart, a second payout is signed only for a row whose first
\* claim ran out while it was worked on.
PaidOnceUnlessOutlived ==
  \A r \in Rows : payouts[r] > 1 => r \in outlived

\* The invariant both follow from.  A task young enough still has its claim on
\* the row, unless another worker finished the row; and while a row's claims were
\* never outlived, its only task knows the row's status, which tells the payouts.
LeaseHeld ==
  \A w \in Workers : \A r \in Rows : Working(w, r) =>
    /\ cycle[w] = "running" /\ status[r] # "none"
    /\ batchAge[w] <= StaleAfter /\ status[r] \in Incomplete /\ r \notin reopened =>
         lockAge[r] = batchAge[w]

AloneUnlessOutlived ==
  \A r \in Rows : \A v, w \in Workers :
    v # w /\ Working(v, r) /\ Working(w, r) => r \in outlived

StatusKnown ==
  \A r \in Rows \ outlived :
    /\ \A w \in Workers : Working(w, r) => task[w][r] = status[r]
    /\ payouts[r] =
         IF status[r] \in {"outgoing_submitted", "complete"} THEN 1 ELSE 0

QueueInv ==
  /\ TypeOK /\ LeaseHeld /\ AloneUnlessOutlived /\ StatusKnown
  /\ SharedOnlyWhenStale

\* No row is lost: one that can be finished is, unless as many older rows as a
\* cycle takes can never be finished.
Crowded(r) == Cardinality({h \in Hopeless : h < r}) >= Limit

EveryRowRecovers ==
  \A r \in Rows \ Hopeless :
    status[r] \in Incomplete ~> status[r] = "complete" \/ Crowded(r)
=============================================================================
