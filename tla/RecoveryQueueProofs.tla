------------------------ MODULE RecoveryQueueProofs ------------------------
(* Workers share the queue, for any workers, rows, leases and intervals.   *)
EXTENDS RecoveryQueue, TLAPS

LEMMA OldestIsFree ==
  ASSUME NEW r \in Oldest
  PROVE  r \in Rows /\ status[r] \in Incomplete /\ Free(r)
BY DEF Oldest, Claimable

\* A row that may be claimed is worked on only by a batch older than a claim,
\* unless a late write has reopened it.
LEMMA FreeMeansOutlived ==
  ASSUME TypeOK, LeaseHeld, NEW r \in Oldest,
         NEW w \in Workers, Working(w, r)
  PROVE  r \in reopened \/ batchAge[w] > StaleAfter
<1>1. batchAge[w] \in Nat /\ lockAge[r] \in Int
  BY RecoveryQueueAssumption, OldestIsFree DEF TypeOK, Unlocked
<1>2. batchAge[w] <= StaleAfter /\ r \notin reopened => lockAge[r] = batchAge[w]
  BY OldestIsFree DEF LeaseHeld
<1>3. QED
  BY <1>1, <1>2, OldestIsFree, RecoveryQueueAssumption DEF Free, Unlocked

-----------------------------------------------------------------------------
(* The actions, one by one.                                                *)

LEMMA InitQueue == ASSUME Init PROVE QueueInv
BY RecoveryQueueAssumption DEF Init, QueueInv, TypeOK, LeaseHeld, Working,
   AloneUnlessOutlived, StatusKnown, SharedOnlyWhenStale, NoTasks, Unlocked

LEMMA LeftBehindKeeps ==
  ASSUME QueueInv, NEW r \in Rows, LeftBehind(r) PROVE QueueInv'
<1>1. PICK stage \in Incomplete :
        /\ status' = [status EXCEPT ![r] = stage]
        /\ payouts' = [payouts EXCEPT ![r] =
             IF stage = "outgoing_submitted" THEN 1 ELSE 0]
  BY DEF LeftBehind
<1> USE DEF work, Incomplete
<1>2. \A w \in Workers : ~Working(w, r)
  BY DEF QueueInv, LeaseHeld, LeftBehind
<1>3. TypeOK'
  BY <1>1 DEF QueueInv, TypeOK, LeftBehind
<1>4. LeaseHeld'
  BY <1>1, <1>2 DEF QueueInv, TypeOK, LeaseHeld, LeftBehind, Working
<1>5. AloneUnlessOutlived' /\ SharedOnlyWhenStale'
  BY DEF QueueInv, AloneUnlessOutlived, SharedOnlyWhenStale, LeftBehind, Working
<1>6. StatusKnown'
  BY <1>1, <1>2 DEF QueueInv, TypeOK, StatusKnown, LeftBehind, Working
<1>7. QED BY <1>3, <1>4, <1>5, <1>6 DEF QueueInv

LEMMA ClockKeeps ==
  ASSUME QueueInv, NEW w \in Workers, IntervalFires(w) \/ CycleFails(w)
  PROVE  QueueInv'
<1> USE DEF queue, history
<1>1. UNCHANGED <<queue, batchAge, task, history, crashes>>
  BY DEF IntervalFires, CycleFails
<1>2. TypeOK'
  <2>1. timer \in [Workers -> 0 .. Interval] /\ Interval \in 0 .. Interval
    BY RecoveryQueueAssumption DEF QueueInv, TypeOK
  <2>2. timer' \in [Workers -> 0 .. Interval]
    BY <2>1 DEF IntervalFires, CycleFails
  <2>3. cycle' \in [Workers -> {"idle", "starting", "running"}]
    BY DEF QueueInv, TypeOK, IntervalFires, CycleFails
  <2>4. QED BY <1>1, <2>2, <2>3 DEF QueueInv, TypeOK
<1>3. LeaseHeld'
  BY <1>1 DEF QueueInv, TypeOK, LeaseHeld, IntervalFires, CycleFails, Working
<1>4. AloneUnlessOutlived' /\ SharedOnlyWhenStale' /\ StatusKnown'
  BY <1>1 DEF QueueInv, AloneUnlessOutlived, SharedOnlyWhenStale, StatusKnown,
     Working
<1>5. QED BY <1>2, <1>3, <1>4 DEF QueueInv

LEMMA ClaimKeeps ==
  ASSUME QueueInv, NEW w \in Workers, Claim(w) PROVE QueueInv'
<1>1. /\ \A r \in Rows : ~Working(w, r)
      /\ UNCHANGED <<status, timer, payouts, reopened, crashes>>
  BY DEF QueueInv, LeaseHeld, Claim
<1>2. /\ \A r \in Rows : lockAge'[r] = IF r \in Oldest THEN 0 ELSE lockAge[r]
      /\ \A r \in Rows : r \notin Oldest => task'[w][r] = "none"
      /\ \A r \in Oldest : task'[w][r] = status[r]
      /\ task' \in [Workers -> [Rows -> {"none"} \cup Incomplete]]
      /\ \A v \in Workers \ {w} : task'[v] = task[v]
  BY DEF QueueInv, TypeOK, Claim, Oldest, Claimable
<1>3. /\ batchAge' = [batchAge EXCEPT ![w] = 0]
      /\ cycle' = [cycle EXCEPT ![w] = IF Oldest = {} THEN "idle" ELSE "running"]
      /\ outlived' = outlived \cup {r \in Oldest : \E v \in Workers : Working(v, r)}
  BY DEF Claim, Working
<1>4. TypeOK'
  <2>1. lockAge' \in [Rows -> {Unlocked} \cup 0 .. (StaleAfter + 1)]
    BY RecoveryQueueAssumption DEF QueueInv, TypeOK, Claim
  <2>2. Oldest \subseteq Rows
    BY OldestIsFree
  <2>3. QED
    BY <1>1, <1>2, <1>3, <2>1, <2>2, RecoveryQueueAssumption DEF QueueInv, TypeOK
<1>5. LeaseHeld'
  <2> SUFFICES ASSUME NEW v \in Workers, NEW r \in Rows, Working(v, r)'
               PROVE  /\ cycle'[v] = "running" /\ status[r] # "none"
                      /\ batchAge'[v] <= StaleAfter /\ status[r] \in Incomplete
                           /\ r \notin reopened => lockAge'[r] = batchAge'[v]
    BY <1>1 DEF LeaseHeld
  <2>1. CASE v = w
    <3>1. r \in Oldest
      BY <1>2, <2>1 DEF Working
    <3>2. QED
      BY <1>2, <1>3, <2>1, <3>1, OldestIsFree DEF QueueInv, TypeOK, Incomplete
  <2>2. CASE v # w
    <3>1. Working(v, r) /\ cycle'[v] = cycle[v] /\ batchAge'[v] = batchAge[v]
      BY <1>2, <1>3, <2>2 DEF QueueInv, TypeOK, Working
    <3>2. CASE r \in Oldest
      <4>1. r \in reopened \/ batchAge[v] > StaleAfter
        BY <3>1, <3>2, FreeMeansOutlived DEF QueueInv
      <4>2. batchAge[v] \in Int
        BY DEF QueueInv, TypeOK
      <4>3. QED
        BY <3>1, <4>1, <4>2, RecoveryQueueAssumption DEF QueueInv, LeaseHeld
    <3>3. CASE r \notin Oldest
      BY <1>2, <3>1, <3>3 DEF QueueInv, LeaseHeld
    <3>4. QED BY <3>2, <3>3
  <2>3. QED BY <2>1, <2>2
<1>6. ASSUME NEW r \in Rows, NEW u \in Workers, NEW v \in Workers, u # v,
             Working(u, r)', Working(v, r)'
      PROVE  /\ r \in outlived'
             /\ r \in reopened \/ batchAge'[u] > StaleAfter
                  \/ batchAge'[v] > StaleAfter
  <2>1. CASE u # w /\ v # w
    <3>1. Working(u, r) /\ Working(v, r) /\ batchAge'[u] = batchAge[u]
             /\ batchAge'[v] = batchAge[v]
      BY <1>2, <1>3, <1>6, <2>1 DEF QueueInv, TypeOK, Working
    <3>2. QED
      BY <1>3, <1>6, <3>1 DEF QueueInv, AloneUnlessOutlived, SharedOnlyWhenStale
  <2>2. ASSUME NEW o \in {u, v}, o # w, Working(w, r)'
        PROVE  r \in outlived' /\ (r \in reopened \/ batchAge'[o] > StaleAfter)
    <3>1. r \in Oldest
      BY <1>2, <2>2 DEF Working
    <3>2. Working(o, r) /\ batchAge'[o] = batchAge[o]
      BY <1>2, <1>3, <1>6, <2>2 DEF QueueInv, TypeOK, Working
    <3>3. QED
      BY <1>3, <3>1, <3>2, FreeMeansOutlived DEF QueueInv
  <2>3. QED BY <1>6, <2>1, <2>2
<1>7. StatusKnown'
  <2> SUFFICES ASSUME NEW r \in Rows, r \notin outlived'
               PROVE  /\ \A v \in Workers : Working(v, r)' => task'[v][r] = status[r]
                      /\ payouts[r] = IF status[r] \in {"outgoing_submitted", "complete"}
                                      THEN 1 ELSE 0
    BY <1>1 DEF StatusKnown
  <2>1. r \notin outlived
    BY <1>3
  <2>2. ASSUME NEW v \in Workers, Working(v, r)' PROVE task'[v][r] = status[r]
    <3>1. CASE v = w
      BY <1>2, <2>2, <3>1 DEF Working
    <3>2. CASE v # w
      BY <1>2, <2>1, <2>2, <3>2 DEF QueueInv, StatusKnown, Working
    <3>3. QED BY <3>1, <3>2
  <2>3. QED BY <2>1, <2>2 DEF QueueInv, StatusKnown
<1>8. reopened' \subseteq outlived'
  BY <1>1, <1>3 DEF QueueInv, SharedOnlyWhenStale
<1>9. QED
  BY <1>1, <1>4, <1>5, <1>6, <1>7, <1>8
  DEF QueueInv, AloneUnlessOutlived, SharedOnlyWhenStale

-----------------------------------------------------------------------------
(* A task writes the status it has got to, or ends.                        *)

\* What a write leaves, whatever it writes: the workers stay where they are, and
\* only a row whose claim was outlived can be taken out of "complete".
LEMMA WritesKeeps ==
  ASSUME QueueInv, NEW w \in Workers, NEW r \in Rows, NEW st \in Incomplete,
         Working(w, r), Writes(w, r, st), payouts' \in [Rows -> Nat],
         \A q \in Rows \ {r} : payouts'[q] = payouts[q],
         r \notin outlived =>
           payouts'[r] = IF st = "outgoing_submitted" THEN 1 ELSE 0
  PROVE  QueueInv'
<1> USE DEF Incomplete
<1>1. /\ status' = [status EXCEPT ![r] = st]
      /\ task' = [task EXCEPT ![w] = [@ EXCEPT ![r] = st]]
      /\ reopened' = IF status[r] = "complete" THEN reopened \cup {r} ELSE reopened
      /\ UNCHANGED <<lockAge, timer, cycle, batchAge, outlived, crashes>>
  BY DEF Writes
<1>2. \A v \in Workers : \A q \in Rows :
        /\ Working(v, q)' = Working(v, q)
        /\ <<v, q>> # <<w, r>> => task'[v][q] = task[v][q]
  BY <1>1 DEF QueueInv, TypeOK, Working
<1>3. TypeOK'
  BY <1>1 DEF QueueInv, TypeOK
<1>4. LeaseHeld'
  <2> SUFFICES ASSUME NEW v \in Workers, NEW q \in Rows, Working(v, q)
               PROVE  /\ cycle[v] = "running" /\ status'[q] # "none"
                      /\ batchAge[v] <= StaleAfter /\ status'[q] \in Incomplete
                           /\ q \notin reopened' => lockAge[q] = batchAge[v]
    BY <1>1, <1>2 DEF LeaseHeld
  <2>1. /\ status'[q] # "none"
        /\ q \notin reopened' => q \notin reopened /\ (q = r => status[r] # "complete")
        /\ q # r => status'[q] = status[q]
    BY <1>1 DEF QueueInv, TypeOK, LeaseHeld
  <2>2. status[q] \in {"none", "complete"} \cup Incomplete
    BY DEF QueueInv, TypeOK
  <2>3. QED BY <2>1, <2>2 DEF QueueInv, LeaseHeld
<1>5. AloneUnlessOutlived'
  BY <1>1, <1>2 DEF QueueInv, AloneUnlessOutlived
<1>6. SharedOnlyWhenStale'
  <2>1. status[r] = "complete" => r \in outlived
    BY DEF QueueInv, TypeOK, StatusKnown, Working
  <2>2. reopened \subseteq reopened' /\ reopened' \subseteq outlived
    BY <1>1, <2>1 DEF QueueInv, SharedOnlyWhenStale
  <2>3. QED BY <1>1, <1>2, <2>2 DEF QueueInv, SharedOnlyWhenStale
<1>7. StatusKnown'
  <2> SUFFICES ASSUME NEW q \in Rows, q \notin outlived
               PROVE  /\ \A v \in Workers : Working(v, q) => task'[v][q] = status'[q]
                      /\ payouts'[q] =
                           IF status'[q] \in {"outgoing_submitted", "complete"}
                           THEN 1 ELSE 0
    BY <1>1, <1>2 DEF StatusKnown
  <2>1. CASE q = r
    <3>1. \A v \in Workers : Working(v, q) => v = w
      BY <2>1 DEF QueueInv, AloneUnlessOutlived
    <3>2. status'[r] = st /\ task'[w][r] = st
      BY <1>1 DEF QueueInv, TypeOK
    <3>3. QED BY <2>1, <3>1, <3>2
  <2>2. CASE q # r
    BY <1>1, <1>2, <2>2 DEF QueueInv, TypeOK, StatusKnown
  <2>3. QED BY <2>1, <2>2
<1>8. QED BY <1>3, <1>4, <1>5, <1>6, <1>7 DEF QueueInv

LEMMA ConfirmsPullKeeps ==
  ASSUME QueueInv, NEW w \in Workers, NEW r \in Rows, ConfirmsPull(w, r)
  PROVE  QueueInv'
<1>1. /\ task[w][r] = "incoming_submitted" /\ payouts' = payouts
      /\ Writes(w, r, "incoming_complete")
  BY DEF ConfirmsPull
<1>2. Working(w, r) /\ payouts' \in [Rows -> Nat]
  BY <1>1 DEF QueueInv, TypeOK, Working
<1>3. r \notin outlived => payouts[r] = 0
  BY <1>1, <1>2 DEF QueueInv, StatusKnown
<1>4. QED BY <1>1, <1>2, <1>3, WritesKeeps DEF Incomplete

LEMMA SignsKeeps ==
  ASSUME QueueInv, NEW w \in Workers, NEW r \in Rows, Signs(w, r) PROVE QueueInv'
<1>1. /\ task[w][r] = "incoming_complete" /\ payouts' = [payouts EXCEPT ![r] = @ + 1]
      /\ Writes(w, r, "outgoing_submitted")
  BY DEF Signs
<1>2. Working(w, r) /\ payouts' \in [Rows -> Nat]
  BY <1>1 DEF QueueInv, TypeOK, Working
<1>3. r \notin outlived => payouts[r] = 0
  BY <1>1, <1>2 DEF QueueInv, StatusKnown
<1>4. /\ r \notin outlived => payouts'[r] = 1
      /\ \A q \in Rows \ {r} : payouts'[q] = payouts[q]
  BY <1>1, <1>3 DEF QueueInv, TypeOK
<1>5. QED BY <1>1, <1>2, <1>4, WritesKeeps DEF Incomplete

\* What TaskEnds and a restart leave: no new task, no younger batch, every task
\* that is left still belongs to a running cycle, and a row whose claims were not
\* outlived changes only when its one task confirms the payout and ends.
LEMMA FewerTasks ==
  ASSUME QueueInv, TypeOK', UNCHANGED history,
         \A v \in Workers : \A q \in Rows : Working(v, q)' =>
           /\ task'[v][q] = task[v][q] /\ cycle'[v] = cycle[v]
           /\ batchAge'[v] = batchAge[v] /\ status'[q] # "none"
           /\ status'[q] \in Incomplete =>
                status[q] \in Incomplete /\ lockAge'[q] = lockAge[q],
         \A q \in Rows \ outlived :
           \/ status'[q] = status[q]
           \/ /\ status[q] = "outgoing_submitted" /\ status'[q] = "complete"
              /\ \A v \in Workers : ~Working(v, q)'
  PROVE  QueueInv'
<1>1. /\ UNCHANGED <<payouts, outlived, reopened>>
      /\ \A v \in Workers : \A q \in Rows : Working(v, q)' => Working(v, q)
  BY DEF history, Working
<1>2. LeaseHeld'
  BY <1>1 DEF QueueInv, LeaseHeld
<1>3. AloneUnlessOutlived' /\ SharedOnlyWhenStale'
  BY <1>1 DEF QueueInv, AloneUnlessOutlived, SharedOnlyWhenStale
<1>4. StatusKnown'
  BY <1>1 DEF QueueInv, StatusKnown
<1>5. QED BY <1>2, <1>3, <1>4 DEF QueueInv

LEMMA TaskEndsEnds ==
  ASSUME QueueInv, NEW w \in Workers, NEW r \in Rows, TaskEnds(w, r)
  PROVE  /\ task' \in [Workers -> [Rows -> {"none"} \cup Incomplete]]
         /\ cycle' \in [Workers -> {"idle", "starting", "running"}]
         /\ batchAge' \in [Workers -> 0 .. MaxTask]
         /\ \A v \in Workers : \A q \in Rows : Working(v, q)' =>
              /\ <<v, q>> # <<w, r>>
              /\ task'[v][q] = task[v][q] /\ cycle'[v] = cycle[v]
              /\ batchAge'[v] = batchAge[v]
<1> DEFINE last == \A q \in Rows \ {r} : task[w][q] = "none"
<1>1. /\ task' = [task EXCEPT ![w] = [@ EXCEPT ![r] = "none"]]
      /\ cycle' = IF last THEN [cycle EXCEPT ![w] = "idle"] ELSE cycle
      /\ batchAge' = IF last THEN [batchAge EXCEPT ![w] = 0] ELSE batchAge
  BY DEF TaskEnds
<1>2. task' \in [Workers -> [Rows -> {"none"} \cup Incomplete]]
  BY <1>1 DEF QueueInv, TypeOK
<1>3. /\ cycle' \in [Workers -> {"idle", "starting", "running"}]
      /\ batchAge' \in [Workers -> 0 .. MaxTask]
  BY <1>1, RecoveryQueueAssumption DEF QueueInv, TypeOK
<1>4. ASSUME NEW v \in Workers, NEW q \in Rows, Working(v, q)'
      PROVE  /\ <<v, q>> # <<w, r>> /\ task'[v][q] = task[v][q]
             /\ v = w => ~last
  BY <1>1, <1>4 DEF QueueInv, TypeOK, Working
<1>5. QED BY <1>1, <1>2, <1>3, <1>4 DEF QueueInv, TypeOK

LEMMA TaskEndKeeps ==
  ASSUME QueueInv, NEW w \in Workers, NEW r \in Rows, Confirms(w, r) \/ GivesUp(w, r)
  PROVE  QueueInv'
<1> USE DEF queue
<1>1. TaskEnds(w, r) /\ UNCHANGED <<timer, history, crashes>>
  BY DEF Confirms, GivesUp
<1>2. \A q \in Rows :
        /\ status[q] # "none" => status'[q] # "none"
        /\ status'[q] \in Incomplete =>
             status[q] \in Incomplete /\ lockAge'[q] = lockAge[q]
  BY DEF Confirms, GivesUp, QueueInv, TypeOK, Incomplete
<1>3. TypeOK'
  BY <1>1, TaskEndsEnds DEF Confirms, GivesUp, QueueInv, TypeOK, history
<1>4. \A v \in Workers : \A q \in Rows : Working(v, q)' => status[q] # "none"
  BY <1>1, TaskEndsEnds DEF QueueInv, LeaseHeld, Working
<1>5. ASSUME NEW q \in Rows, q \notin outlived, status'[q] # status[q]
      PROVE  /\ status[q] = "outgoing_submitted" /\ status'[q] = "complete"
             /\ \A v \in Workers : ~Working(v, q)'
  <2>1. q = r /\ status'[r] = "complete" /\ task[w][r] = "outgoing_submitted"
    BY <1>5 DEF Confirms, GivesUp, QueueInv, TypeOK
  <2>2. Working(w, r)
    BY <2>1 DEF Working
  <2>3. status[r] = "outgoing_submitted"
    BY <1>5, <2>1, <2>2 DEF QueueInv, StatusKnown
  <2>4. ASSUME NEW v \in Workers, Working(v, r)' PROVE FALSE
    <3>1. v # w /\ Working(v, r)
      BY <1>1, <2>4, TaskEndsEnds DEF Working
    <3>2. QED BY <1>5, <2>1, <2>2, <3>1 DEF QueueInv, AloneUnlessOutlived
  <2>5. QED BY <2>1, <2>3, <2>4
<1>6. QED BY <1>1, <1>2, <1>3, <1>4, <1>5, TaskEndsEnds, FewerTasks

LEMMA CrashKeeps ==
  ASSUME QueueInv, NEW w \in Workers, Crash(w) PROVE QueueInv'
<1> USE DEF queue
<1>1. TypeOK'
  BY RecoveryQueueAssumption DEF QueueInv, TypeOK, Crash, NoTasks, history
<1>2. \A v \in Workers : \A q \in Rows : Working(v, q)' =>
        /\ task'[v][q] = task[v][q] /\ cycle'[v] = cycle[v]
        /\ batchAge'[v] = batchAge[v]
  BY DEF QueueInv, TypeOK, Crash, NoTasks, Working
<1>3. \A v \in Workers : \A q \in Rows : Working(v, q)' => status[q] # "none"
  BY <1>2 DEF QueueInv, LeaseHeld, Working
<1>4. QED BY <1>1, <1>2, <1>3, FewerTasks DEF Crash

\* A tick ages a young batch and its claims alike.
LEMMA TickKeeps == ASSUME QueueInv, Tick PROVE QueueInv'
<1> USE RecoveryQueueAssumption
<1>1. /\ \A w \in Workers : timer[w] > 0 /\ (cycle[w] = "running" => batchAge[w] < MaxTask)
      /\ timer' = [w \in Workers |-> timer[w] - 1]
      /\ batchAge' = [w \in Workers |->
           IF cycle[w] = "running" THEN batchAge[w] + 1 ELSE batchAge[w]]
      /\ lockAge' = [r \in Rows |->
           IF lockAge[r] \in 0 .. StaleAfter THEN lockAge[r] + 1 ELSE lockAge[r]]
      /\ UNCHANGED <<status, cycle, task, payouts, outlived, reopened, crashes>>
  BY DEF Tick, history
<1>2. TypeOK'
  <2>1. timer' \in [Workers -> 0 .. Interval]
    BY <1>1 DEF QueueInv, TypeOK
  <2>2. batchAge' \in [Workers -> 0 .. MaxTask]
    BY <1>1 DEF QueueInv, TypeOK
  <2>3. lockAge' \in [Rows -> {Unlocked} \cup 0 .. (StaleAfter + 1)]
    BY <1>1 DEF QueueInv, TypeOK, Unlocked
  <2>4. QED BY <1>1, <2>1, <2>2, <2>3 DEF QueueInv, TypeOK
<1>3. \A w \in Workers : \A r \in Rows : Working(w, r)' = Working(w, r)
  BY <1>1 DEF Working
<1>4. \A w \in Workers : batchAge[w] \in Int /\ batchAge'[w] >= batchAge[w]
  BY <1>1 DEF QueueInv, TypeOK
<1>5. LeaseHeld'
  <2> SUFFICES ASSUME NEW w \in Workers, NEW r \in Rows, Working(w, r),
                      batchAge'[w] <= StaleAfter, status[r] \in Incomplete,
                      r \notin reopened
               PROVE  lockAge'[r] = batchAge'[w]
    BY <1>1, <1>3 DEF QueueInv, LeaseHeld
  <2>1. cycle[w] = "running" /\ batchAge'[w] = batchAge[w] + 1
    BY <1>1 DEF QueueInv, LeaseHeld
  <2>2. lockAge[r] = batchAge[w] /\ batchAge[w] \in 0 .. StaleAfter
    BY <1>4, <2>1 DEF QueueInv, TypeOK, LeaseHeld
  <2>3. QED BY <1>1, <2>1, <2>2
<1>6. AloneUnlessOutlived' /\ StatusKnown'
  BY <1>1, <1>3 DEF QueueInv, AloneUnlessOutlived, StatusKnown
<1>7. SharedOnlyWhenStale'
  <2> SUFFICES ASSUME NEW r \in Rows \ reopened, NEW v \in Workers,
                      NEW w \in Workers, v # w, Working(v, r), Working(w, r)
               PROVE  batchAge'[v] > StaleAfter \/ batchAge'[w] > StaleAfter
    BY <1>1, <1>3 DEF QueueInv, SharedOnlyWhenStale
  <2>1. batchAge[v] > StaleAfter \/ batchAge[w] > StaleAfter
    BY DEF QueueInv, SharedOnlyWhenStale
  <2>2. batchAge'[v] \in Int /\ batchAge'[w] \in Int
    BY <1>2 DEF TypeOK
  <2>3. QED BY <1>4, <2>1, <2>2
<1>8. QED BY <1>2, <1>5, <1>6, <1>7 DEF QueueInv

-----------------------------------------------------------------------------

LEMMA QueueStep == ASSUME QueueInv, [Next]_vars PROVE QueueInv'
<1>1. CASE UNCHANGED vars
  BY <1>1 DEF vars, queue, work, history, QueueInv, TypeOK, LeaseHeld, Working,
     AloneUnlessOutlived, StatusKnown, SharedOnlyWhenStale
<1>2. CASE Next
  BY <1>2, LeftBehindKeeps, ClockKeeps, ClaimKeeps, ConfirmsPullKeeps,
     SignsKeeps, TaskEndKeeps, CrashKeeps, TickKeeps DEF Next, WorkerStep, Advances
<1>3. QED BY <1>1, <1>2

\* The claims and the tasks agree in every state the workers reach.
THEOREM QueueInvariant == Spec => []QueueInv
BY InitQueue, QueueStep, PTL DEF Spec

\* Two workers are on one row only after a claim on it ran out, or on a row that
\* a task whose claim had run out reopened, for any workers, rows and leases.
THEOREM RowsShared == Spec => []SharedOnlyWhenStale
<1>1. QueueInv => SharedOnlyWhenStale
  BY DEF QueueInv
<1>2. QED BY <1>1, QueueInvariant, PTL

\* Without a claim that was outlived, at most one payout is signed for a row,
\* with any number of workers and restarts.
THEOREM PaidOnce == Spec => []PaidOnceUnlessOutlived
<1>1. QueueInv => PaidOnceUnlessOutlived
  <2> SUFFICES ASSUME QueueInv, NEW r \in Rows, payouts[r] > 1 PROVE r \in outlived
    BY DEF PaidOnceUnlessOutlived
  <2>1. payouts[r] \in Nat
    BY DEF QueueInv, TypeOK
  <2>2. QED BY <2>1 DEF QueueInv, StatusKnown
<1>2. QED BY <1>1, QueueInvariant, PTL
=============================================================================
