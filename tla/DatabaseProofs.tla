--------------------------- MODULE DatabaseProofs ---------------------------
(* A nonce is claimed once, for any calls, processes and pool sizes.       *)
EXTENDS Database, SequenceTheorems, TLAPS

\* What the provers need of a call that moves on: all others stay.
LEMMA GoesMoves ==
  ASSUME TypeOK, NEW c \in Calls, NEW l, Goes(c, l)
  PROVE  pc'[c] = l /\ \A d \in Calls \ {c} : pc'[d] = pc[d]
BY DEF TypeOK, Goes

LEMMA FailsAnswers ==
  ASSUME TypeOK, NEW C \in SUBSET Calls, Fails(C)
  PROVE  /\ answer' \in [Calls -> {"none", "claimed", "used", "error"}]
         /\ \A c \in Calls :
              answer'[c] = IF c \in C /\ answer[c] = "none" THEN "error" ELSE answer[c]
         /\ faulted' = faulted \cup C
BY DEF TypeOK, Fails

-----------------------------------------------------------------------------
(* The lines at the pools.                                                 *)

LEMMA LinesUntouched ==
  ASSUME LinesInOrder, TypeOK, UNCHANGED queue,
         \A c \in Calls : pc[c] = "queued" => pc'[c] = "queued"
  PROVE  LinesInOrder'
<1>1. \A i \in Instances : \A n \in 1 .. Len(queue[i]) : queue[i][n] \in Calls
  BY DEF TypeOK
<1>2. QED BY <1>1 DEF LinesInOrder

LEMMA LineAppended ==
  ASSUME DatabaseInv, NEW c \in Calls, Connect(c)
  PROVE  LinesInOrder' /\ queue' \in [Instances -> Seq(Calls)]
<1> DEFINE i == Where[c]
<1>1. /\ i \in Instances /\ queue[i] \in Seq(Calls) /\ pc[c] # "queued"
      /\ queue' = [queue EXCEPT ![i] = Append(@, c)]
      /\ queue \in [Instances -> Seq(Calls)]
  BY DatabaseAssumption DEF DatabaseInv, TypeOK, Connect
<1>2. /\ Len(queue'[i]) = Len(queue[i]) + 1
      /\ \A n \in 1 .. Len(queue[i]) : queue'[i][n] = queue[i][n]
      /\ queue'[i][Len(queue[i]) + 1] = c
      /\ queue'[i] \in Seq(Calls)
  BY <1>1, AppendProperties
<1>3. pc'[c] = "queued" /\ \A d \in Calls \ {c} : pc'[d] = pc[d]
  BY GoesMoves DEF DatabaseInv, Connect
<1>4. \A h \in Instances \ {i} : queue'[h] = queue[h]
  BY <1>1
<1>5. \A h \in Instances : \A n \in 1 .. Len(queue[h]) :
        queue[h][n] \in Calls /\ queue[h][n] # c
  BY <1>1 DEF DatabaseInv, LinesInOrder
<1> HIDE DEF i
<1>6. ASSUME NEW h \in Instances, NEW n \in 1 .. Len(queue'[h])
      PROVE  /\ pc'[queue'[h][n]] = "queued" /\ Where[queue'[h][n]] = h
             /\ \A l \in 1 .. Len(queue'[h]) : queue'[h][l] = queue'[h][n] => l = n
  <2>0. Len(queue[h]) \in Nat
    BY <1>1
  <2>1. CASE h # i
    BY <1>3, <1>4, <1>5, <1>6, <2>1 DEF DatabaseInv, LinesInOrder
  <2>2. CASE h = i
    <3>1. ASSUME NEW l \in 1 .. Len(queue[i])
          PROVE  /\ queue'[i][l] # c /\ pc'[queue'[i][l]] = "queued"
                 /\ Where[queue'[i][l]] = i
      BY <1>1, <1>2, <1>3, <1>5 DEF DatabaseInv, LinesInOrder
    <3>2. CASE n = Len(queue[i]) + 1
      BY <1>2, <1>3, <2>0, <2>2, <3>1, <3>2 DEF i
    <3>3. CASE n \in 1 .. Len(queue[i])
      <4>1. \A l \in 1 .. Len(queue[i]) : queue[i][l] = queue[i][n] => l = n
        BY <1>1, <3>3 DEF DatabaseInv, LinesInOrder
      <4>2. QED BY <1>2, <2>0, <2>2, <3>1, <3>3, <4>1
    <3>4. QED BY <1>2, <1>6, <2>0, <2>2, <3>2, <3>3
  <2>3. QED BY <2>1, <2>2
<1>7. queue' \in [Instances -> Seq(Calls)]
  BY <1>1, <1>2
<1>8. QED BY <1>6, <1>7 DEF LinesInOrder

\* Removing one place leaves the calls at the others in line, in their order.
LEMMA LineWithout ==
  ASSUME NEW q \in Seq(Calls), NEW k \in 1 .. Len(q)
  PROVE  /\ Without(q, k) \in Seq(Calls) /\ Len(Without(q, k)) = Len(q) - 1
         /\ \A l \in 1 .. Len(q) - 1 :
              Without(q, k)[l] = IF l < k THEN q[l] ELSE q[l + 1]
<1> DEFINE a == SubSeq(q, 1, k - 1)
           b == SubSeq(q, k + 1, Len(q))
<1>1. Len(q) \in Nat /\ k \in Nat /\ \A l \in 1 .. Len(q) : q[l] \in Calls
  OBVIOUS
<1>2. /\ a \in Seq(Calls) /\ Len(a) = k - 1
      /\ \A l \in 1 .. k - 1 : a[l] = q[l]
  BY <1>1, SubSeqProperties
<1>3. /\ b \in Seq(Calls) /\ Len(b) = Len(q) - k
      /\ \A l \in 1 .. Len(q) - k : b[l] = q[k + l]
  BY <1>1, SubSeqProperties
<1>4. Without(q, k) = a \o b
  BY DEF Without
<1> HIDE DEF a, b
<1>5. /\ a \o b \in Seq(Calls) /\ Len(a \o b) = Len(a) + Len(b)
      /\ \A l \in 1 .. Len(a) + Len(b) :
           (a \o b)[l] = IF l <= Len(a) THEN a[l] ELSE b[l - Len(a)]
  BY <1>2, <1>3, ConcatProperties
<1>6. ASSUME NEW l \in 1 .. Len(q) - 1
      PROVE  (a \o b)[l] = IF l < k THEN q[l] ELSE q[l + 1]
  <2>1. CASE l < k
    BY <1>1, <1>2, <1>3, <1>5, <2>1
  <2>2. CASE l >= k
    <3>1. (a \o b)[l] = b[l - (k - 1)]
      BY <1>1, <1>2, <1>3, <1>5, <2>2
    <3>2. l - (k - 1) \in 1 .. Len(q) - k /\ k + (l - (k - 1)) = l + 1
      BY <1>1, <2>2
    <3>3. QED BY <1>1, <1>3, <2>2, <3>1, <3>2
  <2>3. l < k \/ l >= k
    BY <1>1
  <2>4. QED BY <2>1, <2>2, <2>3
<1>7. QED BY <1>1, <1>2, <1>3, <1>4, <1>5, <1>6

\* Whoever leaves a line is the call that moves on.
LEMMA LineLeft ==
  ASSUME DatabaseInv, NEW i \in Instances, NEW k \in 1 .. Len(queue[i]),
         NEW c, c = queue[i][k],
         queue' = [queue EXCEPT ![i] = Without(@, k)],
         \A d \in Calls \ {c} : pc'[d] = pc[d]
  PROVE  LinesInOrder' /\ queue' \in [Instances -> Seq(Calls)]
<1>1. queue \in [Instances -> Seq(Calls)] /\ queue[i] \in Seq(Calls)
  BY DEF DatabaseInv, TypeOK
<1>2. /\ queue'[i] \in Seq(Calls) /\ Len(queue'[i]) = Len(queue[i]) - 1
      /\ \A l \in 1 .. Len(queue[i]) - 1 :
           queue'[i][l] = IF l < k THEN queue[i][l] ELSE queue[i][l + 1]
  BY <1>1, LineWithout
<1>3. \A h \in Instances \ {i} : queue'[h] = queue[h]
  BY <1>1
<1>4. \A h \in Instances : \A n \in 1 .. Len(queue[h]) : queue[h][n] \in Calls
  BY <1>1
<1>5. \A h \in Instances : \A n \in 1 .. Len(queue[h]) :
        h # i \/ n # k => queue[h][n] # c /\ pc'[queue[h][n]] = "queued"
                          /\ Where[queue[h][n]] = h
  BY <1>4 DEF DatabaseInv, LinesInOrder
<1>6. ASSUME NEW h \in Instances, NEW n \in 1 .. Len(queue'[h])
      PROVE  /\ pc'[queue'[h][n]] = "queued" /\ Where[queue'[h][n]] = h
             /\ \A l \in 1 .. Len(queue'[h]) : queue'[h][l] = queue'[h][n] => l = n
  <2>1. CASE h # i
    BY <1>3, <1>5, <1>6, <2>1 DEF DatabaseInv, LinesInOrder
  <2>2. CASE h = i
    <3>0. Len(queue[i]) \in Nat
      BY <1>1
    <3> DEFINE at(l) == IF l < k THEN l ELSE l + 1
    <3>1. \A l \in 1 .. Len(queue'[i]) :
            /\ at(l) \in 1 .. Len(queue[i]) /\ at(l) # k
            /\ queue'[i][l] = queue[i][at(l)]
      <4>1. k \in Nat /\ 1 .. Len(queue'[i]) = 1 .. Len(queue[i]) - 1
        BY <1>2, <3>0
      <4>2. \A l \in 1 .. Len(queue[i]) - 1 : at(l) \in 1 .. Len(queue[i]) /\ at(l) # k
        BY <3>0, <4>1
      <4>3. \A l \in 1 .. Len(queue[i]) - 1 : queue'[i][l] = queue[i][at(l)]
        BY <1>2
      <4>4. QED BY <4>1, <4>2, <4>3
    <3>2. \A l, m \in 1 .. Len(queue'[i]) : at(l) = at(m) => l = m
      BY <1>2, <3>0
    <3> HIDE DEF at
    <3>3. \A l, m \in 1 .. Len(queue[i]) : queue[i][l] = queue[i][m] => l = m
      BY DEF DatabaseInv, LinesInOrder
    <3>4. /\ at(n) \in 1 .. Len(queue[i]) /\ at(n) # k
          /\ queue'[i][n] = queue[i][at(n)]
      BY <2>2, <3>1
    <3>5. pc'[queue'[i][n]] = "queued" /\ Where[queue'[i][n]] = i
      BY <1>5, <3>4
    <3>6. ASSUME NEW l \in 1 .. Len(queue'[i]), queue'[i][l] = queue'[i][n]
          PROVE  l = n
      <4>1. at(l) = at(n)
        BY <3>1, <3>3, <3>4, <3>6
      <4>2. QED BY <2>2, <3>2, <4>1
    <3>7. QED BY <2>2, <3>5, <3>6
  <2>3. QED BY <2>1, <2>2
<1>7. queue' \in [Instances -> Seq(Calls)]
  BY <1>1, <1>2
<1>8. QED BY <1>6, <1>7 DEF LinesInOrder

-----------------------------------------------------------------------------
(* The invariant, action by action.                                        *)

LEMMA InitDatabase == ASSUME Init PROVE DatabaseInv
BY DatabaseAssumption
DEF Init, DatabaseInv, TypeOK, InTx, Locking, LockedWhileDeciding,
    AnswersInOrder, LinesInOrder, ClientsInUse, LosersAreTold

\* A step of one call that holds a client keeps every line.
LEMMA HolderKeepsLines ==
  ASSUME DatabaseInv, NEW c \in Calls, NEW l, Goes(c, l), UNCHANGED queue,
         pc[c] # "queued"
  PROVE  LinesInOrder'
<1>1. \A d \in Calls : pc[d] = "queued" => pc'[d] = "queued"
  BY GoesMoves DEF DatabaseInv
<1>2. QED BY <1>1, LinesUntouched DEF DatabaseInv

LEMMA ConnectKeeps ==
  ASSUME DatabaseInv, NEW c \in Calls, Connect(c) PROVE DatabaseInv'
<1>1. /\ pc[c] \in {"new", "chain"} /\ UNCHANGED <<proc, out, store>>
      /\ pc'[c] = "queued" /\ \A d \in Calls \ {c} : pc'[d] = pc[d]
  BY GoesMoves DEF DatabaseInv, Connect
<1>2. TypeOK'
  BY <1>1, LineAppended DEF DatabaseInv, TypeOK, Connect, Goes, InTx, store
<1>3. LinesInOrder'
  BY LineAppended
<1>4. LockedWhileDeciding' /\ ClientsInUse' /\ LosersAreTold'
  BY <1>1 DEF DatabaseInv, LockedWhileDeciding, ClientsInUse, LosersAreTold,
     InTx, Locking, store
<1>5. AnswersInOrder'
  BY <1>1 DEF DatabaseInv, AnswersInOrder, InTx, store
<1>6. QED BY <1>2, <1>3, <1>4, <1>5 DEF DatabaseInv

LEMMA ServeKeeps ==
  ASSUME DatabaseInv, NEW i \in Instances, Serve(i) PROVE DatabaseInv'
<1> DEFINE c == Head(queue[i])
           l == IF answer[c] = "claimed" THEN "storing" ELSE "open"
<1>1. /\ queue[i] \in Seq(Calls) /\ queue[i] # <<>>
      /\ c = queue[i][1] /\ 1 \in 1 .. Len(queue[i]) /\ c \in Calls
  BY HeadTailProperties DEF DatabaseInv, TypeOK, Serve
<1>2. pc[c] = "queued"
  BY <1>1 DEF DatabaseInv, LinesInOrder
<1>3. /\ Goes(c, l) /\ out' = out \cup {c} /\ UNCHANGED <<proc, store>>
      /\ queue' = [queue EXCEPT ![i] = Tail(@)]
  BY DEF Serve
<1>4. Tail(queue[i]) = Without(queue[i], 1)
  <2>1. /\ Tail(queue[i]) \in Seq(Calls) /\ Len(Tail(queue[i])) = Len(queue[i]) - 1
        /\ \A n \in 1 .. Len(Tail(queue[i])) : Tail(queue[i])[n] = queue[i][n + 1]
    BY <1>1, HeadTailProperties
  <2>2. /\ Without(queue[i], 1) \in Seq(Calls)
        /\ Len(Without(queue[i], 1)) = Len(queue[i]) - 1
        /\ \A n \in 1 .. Len(queue[i]) - 1 : Without(queue[i], 1)[n] = queue[i][n + 1]
    <3>1. \A n \in 1 .. Len(queue[i]) - 1 : Without(queue[i], 1)[n] =
            IF n < 1 THEN queue[i][n] ELSE queue[i][n + 1]
      BY <1>1, LineWithout
    <3>2. \A n \in 1 .. Len(queue[i]) - 1 : ~(n < 1)
      BY <1>1
    <3>3. QED BY <1>1, <3>1, <3>2, LineWithout
  <2>3. QED BY <2>1, <2>2, SeqEqual
<1> HIDE DEF c, l
<1>5. pc'[c] = l /\ \A d \in Calls \ {c} : pc'[d] = pc[d]
  BY <1>1, <1>3, GoesMoves DEF DatabaseInv
<1>6. queue' = [queue EXCEPT ![i] = Without(@, 1)]
  BY <1>3, <1>4
<1>7. LinesInOrder' /\ queue' \in [Instances -> Seq(Calls)]
  BY <1>1, <1>5, <1>6, LineLeft
<1>8. l \in {"storing", "open"} /\ (l = "open" => answer[c] = "none")
  BY <1>1, <1>2 DEF DatabaseInv, AnswersInOrder, l
<1>9. TypeOK'
  BY <1>1, <1>3, <1>7, <1>8 DEF DatabaseInv, TypeOK, Goes, InTx, store
<1>10. LockedWhileDeciding' /\ ClientsInUse' /\ LosersAreTold'
  BY <1>1, <1>2, <1>3, <1>5, <1>8
  DEF DatabaseInv, LockedWhileDeciding, ClientsInUse, LosersAreTold, InTx, Locking, store
<1>11. AnswersInOrder'
  BY <1>1, <1>3, <1>5, <1>8 DEF DatabaseInv, AnswersInOrder, InTx, store
<1>12. QED BY <1>7, <1>9, <1>10, <1>11 DEF DatabaseInv

\* A call that fails and holds no lock on the server any more, or never did.
LEMMA FailureKeeps ==
  ASSUME DatabaseInv, NEW c \in Calls, NEW l \in {"done", "orphan"}, Goes(c, l),
         l = "orphan" => pc[c] \in Locking, Fails({c}), UNCHANGED <<proc, payments>>,
         out' = out \ {c},
         queue' \in [Instances -> Seq(Calls)], LinesInOrder'
  PROVE  DatabaseInv'
<1>1. pc'[c] = l /\ \A d \in Calls \ {c} : pc'[d] = pc[d]
  BY GoesMoves DEF DatabaseInv
<1>2. /\ answer' \in [Calls -> {"none", "claimed", "used", "error"}]
      /\ answer'[c] = IF answer[c] = "none" THEN "error" ELSE answer[c]
      /\ \A d \in Calls \ {c} : answer'[d] = answer[d]
      /\ faulted' = faulted \cup {c}
  BY FailsAnswers DEF DatabaseInv
<1>3. TypeOK'
  BY <1>2 DEF DatabaseInv, TypeOK, Goes
<1>4. LockedWhileDeciding'
  BY <1>1 DEF DatabaseInv, LockedWhileDeciding, Locking
<1>5. ClientsInUse' /\ LosersAreTold' /\ AnswersInOrder'
  BY <1>1, <1>2 DEF DatabaseInv, ClientsInUse, LosersAreTold, AnswersInOrder, InTx
<1>6. QED BY <1>3, <1>4, <1>5 DEF DatabaseInv

LEMMA RefusedKeeps ==
  ASSUME DatabaseInv, NEW c \in Calls, ConnectRefused(c) \/ ConnectTimesOut(c)
  PROVE  DatabaseInv'
<1>1. /\ Goes(c, "done") /\ Fails({c}) /\ UNCHANGED <<proc, out, payments>>
      /\ pc[c] \in {"new", "chain", "queued"}
  BY DEF ConnectRefused, ConnectTimesOut
<1>2. out' = out \ {c}
  BY <1>1 DEF DatabaseInv, ClientsInUse, InTx
<1>3. LinesInOrder' /\ queue' \in [Instances -> Seq(Calls)]
  <2>1. CASE ConnectRefused(c)
    BY <2>1, HolderKeepsLines DEF ConnectRefused, DatabaseInv, TypeOK
  <2>2. CASE ConnectTimesOut(c)
    <3>1. PICK n \in 1 .. Len(queue[Where[c]]) :
            /\ queue[Where[c]][n] = c
            /\ queue' = [queue EXCEPT ![Where[c]] = Without(@, n)]
      BY <2>2 DEF ConnectTimesOut
    <3>2. \A d \in Calls \ {c} : pc'[d] = pc[d]
      BY <1>1, GoesMoves DEF DatabaseInv
    <3>3. Where[c] \in Instances
      BY DatabaseAssumption
    <3>4. QED BY <3>1, <3>2, <3>3, LineLeft
  <2>3. QED BY <2>1, <2>2
<1>4. QED BY <1>1, <1>2, <1>3, FailureKeeps

LEMMA LostKeeps ==
  ASSUME DatabaseInv, NEW c \in Calls, Lost(c) PROVE DatabaseInv'
<1> DEFINE l == LeftOf(pc[c])
<1>1. /\ pc[c] \in InTx /\ Goes(c, l) /\ Fails({c}) /\ out' = out \ {c}
      /\ UNCHANGED <<proc, queue, payments>>
  BY DEF Lost
<1>2. l \in {"done", "orphan"} /\ (l = "orphan" => pc[c] \in Locking)
  BY DEF LeftOf
<1>3. pc[c] # "queued"
  BY <1>1 DEF InTx
<1>4. LinesInOrder' /\ queue' \in [Instances -> Seq(Calls)]
  BY <1>1, <1>3, HolderKeepsLines DEF DatabaseInv, TypeOK
<1> HIDE DEF l
<1>5. QED BY <1>1, <1>2, <1>4, FailureKeeps

\* Only the lock's holder goes on to decide.
LEMMA DecideKeeps ==
  ASSUME DatabaseInv, NEW c \in Calls, TakeLock(c) \/ Select(c) PROVE DatabaseInv'
<1>1. PICK l \in {"locked", "taken", "free"} : Goes(c, l)
  BY DEF TakeLock, Select
<1>2. pc'[c] = l /\ \A d \in Calls \ {c} : pc'[d] = pc[d]
  BY <1>1, GoesMoves DEF DatabaseInv
<1>3. pc[c] \in {"open", "locked"} /\ UNCHANGED <<proc, queue, out, store>>
  BY DEF TakeLock, Select
<1>4. LinesInOrder'
  BY <1>1, <1>3, HolderKeepsLines
<1>5. TypeOK'
  BY <1>1, <1>3 DEF DatabaseInv, TypeOK, Goes, InTx, store
<1>6. ClientsInUse' /\ LosersAreTold' /\ AnswersInOrder'
  BY <1>2, <1>3 DEF DatabaseInv, ClientsInUse, LosersAreTold, AnswersInOrder, InTx, store
<1>7. LockedWhileDeciding'
  <2>1. CASE TakeLock(c)
    <3>1. l = "locked" /\ \A d \in Calls :
            pc[d] \in Locking => LockKey[Nonce[d]] # LockKey[Nonce[c]]
      BY <1>2, <2>1, GoesMoves DEF TakeLock, DatabaseInv
    <3>2. QED
      BY <1>2, <1>3, <3>1 DEF DatabaseInv, LockedWhileDeciding, Locking, store
  <2>2. CASE Select(c)
    <3>1. pc[c] = "locked" /\ l = IF Nonce[c] \in payments THEN "taken" ELSE "free"
      BY <1>2, <2>2, GoesMoves DEF Select, DatabaseInv
    <3>2. QED
      BY <1>2, <1>3, <3>1 DEF DatabaseInv, LockedWhileDeciding, Locking, store
  <2>3. QED BY <2>1, <2>2
<1>8. QED BY <1>4, <1>5, <1>6, <1>7 DEF DatabaseInv

LEMMA InsertKeeps ==
  ASSUME DatabaseInv, NEW c \in Calls, Insert(c)
  PROVE  DatabaseInv' /\ UNCHANGED <<answer, payments>>
<1>1. /\ pc[c] = "free" /\ Goes(c, "inserted")
      /\ UNCHANGED <<proc, queue, out, answer, payments, faulted>>
  BY DEF DatabaseInv, LockedWhileDeciding, Insert
<1>2. pc'[c] = "inserted" /\ \A d \in Calls \ {c} : pc'[d] = pc[d]
  BY <1>1, GoesMoves DEF DatabaseInv
<1>3. LinesInOrder'
  BY <1>1, HolderKeepsLines
<1>4. TypeOK'
  BY <1>1 DEF DatabaseInv, TypeOK, Goes, InTx
<1>5. LockedWhileDeciding'
  BY <1>1, <1>2 DEF DatabaseInv, LockedWhileDeciding, Locking
<1>6. ClientsInUse' /\ LosersAreTold' /\ AnswersInOrder'
  BY <1>1, <1>2 DEF DatabaseInv, ClientsInUse, LosersAreTold, AnswersInOrder, InTx
<1>7. QED BY <1>1, <1>3, <1>4, <1>5, <1>6 DEF DatabaseInv

\* The end of a transaction, and of a statement.
LEMMA EndKeeps ==
  ASSUME DatabaseInv, NEW c \in Calls,
         CommitFound(c) \/ CommitInsert(c) \/ CommitUnanswered(c)
           \/ OrphanRollsBack(c) \/ Store(c)
  PROVE  DatabaseInv'
<1>1. PICK l \in {"done", "chain"} : Goes(c, l) /\ (l = "chain" => answer'[c] = "claimed")
  BY DEF CommitFound, CommitInsert, CommitUnanswered, OrphanRollsBack, Store,
     DatabaseInv, TypeOK
<1>2. pc'[c] = l /\ \A d \in Calls \ {c} : pc'[d] = pc[d]
  BY <1>1, GoesMoves DEF DatabaseInv
<1>3. /\ pc[c] \in Locking \cup {"storing"} /\ pc[c] # "queued" /\ UNCHANGED <<proc, queue>>
      /\ out' = out \ {c}
  BY DEF CommitFound, CommitInsert, CommitUnanswered, OrphanRollsBack, Store,
     Locking, DatabaseInv, ClientsInUse, InTx
<1>4. /\ answer' \in [Calls -> {"none", "claimed", "used", "error"}]
      /\ \A d \in Calls \ {c} : answer'[d] = answer[d]
      /\ faulted \subseteq faulted' /\ faulted' \subseteq Calls
      /\ answer'[c] = "error" => answer[c] = "error" \/ c \in faulted'
  BY FailsAnswers
  DEF CommitFound, CommitInsert, CommitUnanswered, OrphanRollsBack, Store, store,
      DatabaseInv, TypeOK
<1>5. /\ payments \subseteq payments' /\ payments' \subseteq Nonces
      /\ payments' = payments \/ (payments' = payments \cup {Nonce[c]} /\ pc[c] = "inserted")
  BY DEF CommitFound, CommitInsert, CommitUnanswered, OrphanRollsBack, Store, store,
     DatabaseInv, TypeOK, Nonces
<1>6. LinesInOrder'
  BY <1>1, <1>3, HolderKeepsLines
<1>7. TypeOK'
  BY <1>1, <1>3, <1>4, <1>5 DEF DatabaseInv, TypeOK, Goes
<1>8. LockedWhileDeciding'
  <2>1. ASSUME NEW d \in Calls, pc'[d] \in {"free", "inserted"}
        PROVE  Nonce[d] \notin payments'
    <3>1. d # c /\ pc[d] = pc'[d] /\ Nonce[d] \notin payments
      BY <1>1, <1>2, <2>1 DEF DatabaseInv, LockedWhileDeciding
    <3>2. pc[c] = "inserted" => Nonce[d] # Nonce[c]
      BY <2>1, <3>1 DEF DatabaseInv, LockedWhileDeciding, Locking
    <3>3. QED BY <1>5, <3>1, <3>2
  <2>2. ASSUME NEW d \in Calls, pc'[d] = "taken"
        PROVE  Nonce[d] \in payments'
    BY <1>1, <1>2, <1>5, <2>2 DEF DatabaseInv, LockedWhileDeciding
  <2>3. ASSUME NEW d \in Calls, pc'[d] \in Locking PROVE pc[d] = pc'[d]
    BY <1>1, <1>2, <2>3 DEF Locking
  <2>4. QED BY <2>1, <2>2, <2>3 DEF DatabaseInv, LockedWhileDeciding
<1>9. ClientsInUse' /\ LosersAreTold' /\ AnswersInOrder'
  BY <1>1, <1>2, <1>3, <1>4
  DEF DatabaseInv, ClientsInUse, LosersAreTold, AnswersInOrder, InTx
<1>10. QED BY <1>6, <1>7, <1>8, <1>9 DEF DatabaseInv

LEMMA EndsKeeps ==
  ASSUME DatabaseInv, NEW i \in Instances, Ends(i) PROVE DatabaseInv'
<1> DEFINE cut == {c \in CallsAt(i) : pc[c] \notin {"new", "done", "orphan"}}
<1>1. /\ proc' = [proc EXCEPT ![i] = "down"]
      /\ queue' = [queue EXCEPT ![i] = <<>>]
      /\ out' = out \ CallsAt(i)
      /\ pc' = [c \in Calls |-> IF c \in cut THEN LeftOf(pc[c]) ELSE pc[c]]
      /\ Fails(cut) /\ UNCHANGED payments
  BY DEF Ends
<1>2. cut \in SUBSET Calls /\ CallsAt(i) \subseteq Calls
  BY DEF CallsAt
<1>3. /\ answer' \in [Calls -> {"none", "claimed", "used", "error"}]
      /\ \A c \in Calls :
           answer'[c] = IF c \in cut /\ answer[c] = "none" THEN "error" ELSE answer[c]
      /\ faulted' = faulted \cup cut
  BY <1>1, <1>2, FailsAnswers DEF DatabaseInv
<1>4. \A c \in Calls :
        /\ c \in cut <=> Where[c] = i /\ pc[c] \notin {"new", "done", "orphan"}
        /\ c \in cut => pc'[c] = "done" \/ (pc'[c] = "orphan" /\ pc[c] \in Locking)
        /\ c \notin cut => pc'[c] = pc[c]
  BY <1>1, <1>2 DEF LeftOf, CallsAt
<1> HIDE DEF cut
<1>5. TypeOK'
  BY <1>1, <1>2, <1>3 DEF DatabaseInv, TypeOK, LeftOf
<1>6. LockedWhileDeciding'
  BY <1>1, <1>4 DEF DatabaseInv, LockedWhileDeciding, Locking
<1>7. LosersAreTold' /\ AnswersInOrder'
  BY <1>3, <1>4 DEF DatabaseInv, LosersAreTold, AnswersInOrder, InTx
<1>8. ClientsInUse'
  BY <1>1, <1>2, <1>4 DEF DatabaseInv, ClientsInUse, InTx, CallsAt
<1>9. LinesInOrder'
  <2> SUFFICES ASSUME NEW h \in Instances, NEW n \in 1 .. Len(queue'[h])
               PROVE  /\ pc'[queue'[h][n]] = "queued" /\ Where[queue'[h][n]] = h
                      /\ \A l \in 1 .. Len(queue'[h]) :
                           queue'[h][l] = queue'[h][n] => l = n
    BY DEF LinesInOrder
  <2>1. h # i /\ queue'[h] = queue[h]
    BY <1>1 DEF DatabaseInv, TypeOK
  <2>2. queue[h][n] \in Calls
    BY <2>1 DEF DatabaseInv, TypeOK
  <2>3. QED BY <1>4, <2>1, <2>2 DEF DatabaseInv, LinesInOrder
<1>10. QED BY <1>5, <1>6, <1>7, <1>8, <1>9 DEF DatabaseInv

LEMMA ProcessKeeps ==
  ASSUME DatabaseInv, NEW i \in Instances,
         Shutdown(i) \/ Exit(i) \/ Crash(i) \/ Restart(i)
  PROVE  DatabaseInv'
<1>1. CASE Exit(i) \/ Crash(i)
  BY <1>1, EndsKeeps DEF Exit, Crash
<1>2. CASE Shutdown(i) \/ Restart(i)
  <2>1. UNCHANGED <<queue, out, pc, answer, payments, faulted>>
    BY <1>2 DEF Shutdown, Restart, store
  <2>2. TypeOK'
    BY <1>2, <2>1 DEF DatabaseInv, TypeOK, Shutdown, Restart
  <2>3. LinesInOrder'
    BY <2>1, LinesUntouched DEF DatabaseInv
  <2>4. QED
    BY <2>1, <2>2, <2>3 DEF DatabaseInv, LockedWhileDeciding, AnswersInOrder,
       ClientsInUse, LosersAreTold
<1>3. QED BY <1>1, <1>2

LEMMA DatabaseStep == ASSUME DatabaseInv, [Next]_vars PROVE DatabaseInv'
<1>1. CASE UNCHANGED vars
  <2>1. UNCHANGED <<proc, queue, out, pc, answer, payments, faulted>>
    BY <1>1 DEF vars
  <2>2. LinesInOrder'
    BY <2>1, LinesUntouched DEF DatabaseInv
  <2>3. QED
    BY <2>1, <2>2 DEF DatabaseInv, TypeOK, LockedWhileDeciding, AnswersInOrder,
       ClientsInUse, LosersAreTold
<1>2. CASE Next
  BY <1>2, ConnectKeeps, ServeKeeps, RefusedKeeps, LostKeeps, DecideKeeps,
     InsertKeeps, EndKeeps, ProcessKeeps DEF Next, CallStep
<1>3. QED BY <1>1, <1>2

\* What the locks, the lines and the answers keep to in every state.
THEOREM DatabaseInvariant == Spec => []DatabaseInv
BY InitDatabase, DatabaseStep, PTL DEF Spec

\* No insert ever meets its primary key: a replay is answered, not an error.
THEOREM ReplaysAreAnswered == Spec => []LosersAreTold
<1>1. DatabaseInv => LosersAreTold
  BY DEF DatabaseInv
<1>2. QED BY <1>1, DatabaseInvariant, PTL

\* A process that ends by itself leaves no transaction behind.
THEOREM ExitIsClean == Spec => ExitCutsNoTransaction
<1>1. ASSUME DatabaseInv
      PROVE  [\A i \in Instances : Exit(i) =>
                \A c \in CallsAt(i) : pc[c] \notin InTx \cup {"storing"}]_vars
  BY <1>1 DEF DatabaseInv, ClientsInUse, Exit, CallsAt
<1>2. QED BY <1>1, DatabaseInvariant, PTL DEF ExitCutsNoTransaction

-----------------------------------------------------------------------------
(* registerNonce keeps its promise.                                        *)

LEMMA FailsRefines ==
  ASSUME NEW C \in SUBSET Calls, Fails(C), UNCHANGED payments
  PROVE  N!Next
BY DEF Fails, N!Next, N!Fail

LEMMA RegisterStep ==
  ASSUME DatabaseInv, [Next]_vars PROVE [N!Next]_(N!vars)
<1> USE DEF N!vars
<1>1. ASSUME NEW c \in Calls,
             Connect(c) \/ TakeLock(c) \/ Select(c) \/ OrphanRollsBack(c) \/ Store(c)
      PROVE  UNCHANGED N!vars
  BY <1>1 DEF Connect, TakeLock, Select, OrphanRollsBack, Store, store
<1>2. ASSUME NEW c \in Calls, Insert(c) PROVE UNCHANGED N!vars
  BY <1>2, InsertKeeps
<1>3. ASSUME NEW c \in Calls, ConnectRefused(c) \/ ConnectTimesOut(c) \/ Lost(c)
      PROVE  N!Next
  BY <1>3, FailsRefines DEF ConnectRefused, ConnectTimesOut, Lost
<1>4. ASSUME NEW c \in Calls, CommitFound(c) PROVE N!Next
  <2>1. N!AlreadyUsed(c)
    BY <1>4 DEF CommitFound, DatabaseInv, LockedWhileDeciding, AnswersInOrder, InTx,
       N!AlreadyUsed, N!Answers
  <2>2. QED BY <2>1 DEF N!Next
<1>5. ASSUME NEW c \in Calls, CommitInsert(c) \/ CommitUnanswered(c) PROVE N!Next
  <2>1. /\ Nonce[c] \notin payments /\ answer[c] = "none"
        /\ payments' = payments \cup {Nonce[c]}
    BY <1>5 DEF CommitInsert, CommitUnanswered, DatabaseInv, LockedWhileDeciding,
       AnswersInOrder, InTx
  <2>2. CASE CommitInsert(c)
    BY <2>1, <2>2 DEF CommitInsert, N!Next, N!Claim, N!Answers
  <2>3. CASE CommitUnanswered(c)
    <3>1. answer' = [answer EXCEPT ![c] = "error"]
      BY <2>1, <2>3 DEF CommitUnanswered, Fails, DatabaseInv, TypeOK
    <3>2. QED BY <2>1, <3>1 DEF N!Next, N!Claim, N!Answers
  <2>4. QED BY <1>5, <2>2, <2>3
<1>6. ASSUME NEW i \in Instances, Serve(i) \/ Shutdown(i) \/ Restart(i)
      PROVE  UNCHANGED N!vars
  BY <1>6 DEF Serve, Shutdown, Restart, store
<1>7. ASSUME NEW i \in Instances, Ends(i) PROVE N!Next
  BY <1>7, FailsRefines DEF Ends, CallsAt
<1>8. CASE UNCHANGED vars
  BY <1>8 DEF vars
<1>9. QED
  BY <1>1, <1>2, <1>3, <1>4, <1>5, <1>6, <1>7, <1>8 DEF Next, CallStep, Exit, Crash

\* Whatever breaks, restarts or runs at once, registerNonce is an atomic claim.
THEOREM RegisterNonceIsAtomic == Spec => RegisterSpec
<1>1. Init => N!Init
  BY DEF Init, N!Init
<1>2. QED
  BY <1>1, RegisterStep, DatabaseInvariant, PTL DEF Spec, RegisterSpec, N!Spec

-----------------------------------------------------------------------------
(* What the register promises holds of the code by that refinement alone.  *)

RegisterInv == answer \in [Calls -> {"none", "claimed", "used", "error"}] /\ N!OneWinner

LEMMA RegisterKeeps ==
  ASSUME RegisterInv, [N!Next]_(N!vars) PROVE RegisterInv'
<1> USE DEF RegisterInv, N!OneWinner
<1>1. ASSUME NEW c \in Calls, N!Claim(c) PROVE RegisterInv'
  BY <1>1 DEF N!Claim, N!Answers
<1>2. ASSUME NEW c \in Calls, N!AlreadyUsed(c) PROVE RegisterInv'
  BY <1>2 DEF N!AlreadyUsed, N!Answers
<1>3. ASSUME NEW C \in SUBSET Calls, N!Fail(C) PROVE RegisterInv'
  BY <1>3 DEF N!Fail
<1>4. CASE UNCHANGED N!vars
  BY <1>4 DEF N!vars
<1>5. QED BY <1>1, <1>2, <1>3, <1>4 DEF N!Next

\* Of any number of registrations of a nonce, from any processes, one at most is
\* told that it claimed it, and no answer is ever taken back by the database.
THEOREM OneWinnerEver == Spec => []N!OneWinner
<1>1. N!Init => RegisterInv
  BY DEF N!Init, RegisterInv, N!OneWinner
<1>2. RegisterInv => N!OneWinner
  BY DEF RegisterInv
<1>3. QED
  BY <1>1, <1>2, RegisterKeeps, RegisterNonceIsAtomic, PTL DEF RegisterSpec, N!Spec
=============================================================================
