------------------------------ MODULE Database ------------------------------
(***************************************************************************)
(* A facilitator's connections to its database (src/db.ts), the            *)
(* transaction registerNonce runs on one of them (src/nonceStore.ts), and  *)
(* what SIGTERM does to both (src/server.ts).  Several processes share one *)
(* database.  A call of /settle registers its nonce in a transaction,      *)
(* works on the chain without a connection and stores its outcome in a     *)
(* statement of its own; NonceRegister says what the first step promises.  *)
(*                                                                         *)
(* External, as src/ relies on them: Postgres transactions at READ         *)
(* COMMITTED, its advisory locks and primary keys; the pg pool, first come *)
(* first served, which refuses to connect once it is ending and has ended  *)
(* when the last client is back.                                           *)
(***************************************************************************)
EXTENDS Integers, FiniteSets, Sequences

CONSTANTS
  Calls, Instances,
  Where,     \* the instance that serves a call
  Nonce,     \* the authorization nonce of a call
  LockKey,   \* of a nonce: the hash that names its advisory lock
  PoolMax

VARIABLES
  proc,      \* each instance: up, closing (shutdown awaits closePool) or down
  queue,     \* the calls that wait for a client of each instance's pool
  out,       \* the calls that have a client checked out
  pc,        \* where each call is
  answer,    \* what registerNonce answered
  payments,  \* nonces with a committed row
  faulted    \* history: calls that met a fault or a pool that ended

vars == <<proc, queue, out, pc, answer, payments, faulted>>
store == <<answer, payments, faulted>>

Nonces == {Nonce[c] : c \in Calls}
CallsAt(i) == {c \in Calls : Where[c] = i}

ASSUME DatabaseAssumption ==
  /\ Where \in [Calls -> Instances]
  /\ \A c \in Calls : Nonce[c] \in DOMAIN LockKey
  /\ PoolMax \in Nat \ {0}

InTx == {"open", "locked", "free", "taken", "inserted"}
Locking == {"locked", "free", "taken", "inserted", "orphan"}

Init ==
  /\ proc = [i \in Instances |-> "up"]
  /\ queue = [i \in Instances |-> <<>>]
  /\ out = {}
  /\ pc = [c \in Calls |-> "new"]
  /\ answer = [c \in Calls |-> "none"]
  /\ payments = {} /\ faulted = {}

-----------------------------------------------------------------------------
(* The pool.                                                               *)

Goes(c, l) == pc' = [pc EXCEPT ![c] = l]

\* An exception: registerNonce's outcome, unless it answered before.
Fails(C) ==
  /\ answer' = [c \in Calls |->
       IF c \in C /\ answer[c] = "none" THEN "error" ELSE answer[c]]
  /\ faulted' = faulted \cup C

\* getPool().connect() or getPool().query(): when the request arrives, and
\* again when the chain is done with it.
Connect(c) ==
  /\ pc[c] \in {"new", "chain"} /\ proc[Where[c]] = "up"
  /\ Goes(c, "queued")
  /\ queue' = [queue EXCEPT ![Where[c]] = Append(@, c)]
  /\ UNCHANGED <<proc, out, store>>

\* The same while the pool ends: it throws.
ConnectRefused(c) ==
  /\ pc[c] \in {"new", "chain"} /\ proc[Where[c]] = "closing"
  /\ Goes(c, "done") /\ Fails({c})
  /\ UNCHANGED <<proc, queue, out, payments>>

\* A client for the first in line; withTx begins its transaction on it.
Serve(i) ==
  /\ proc[i] = "up" /\ queue[i] # <<>>
  /\ Cardinality(out \cap CallsAt(i)) < PoolMax
  /\ LET c == Head(queue[i])
     IN  Goes(c, IF answer[c] = "claimed" THEN "storing" ELSE "open") /\ out' = out \cup {c}
  /\ queue' = [queue EXCEPT ![i] = Tail(@)]
  /\ UNCHANGED <<proc, store>>

Without(q, n) == SubSeq(q, 1, n - 1) \o SubSeq(q, n + 1, Len(q))

\* connectionTimeoutMillis.
ConnectTimesOut(c) ==
  /\ pc[c] = "queued"
  /\ \E n \in 1 .. Len(queue[Where[c]]) :
       /\ queue[Where[c]][n] = c
       /\ queue' = [queue EXCEPT ![Where[c]] = Without(@, n)]
  /\ Goes(c, "done") /\ Fails({c})
  /\ UNCHANGED <<proc, out, payments>>

-----------------------------------------------------------------------------
(* registerNonce in withTx.                                                *)

\* Mutant: no lock is taken.
TakeNoLock(c) ==
  /\ pc[c] = "open" /\ Goes(c, "locked")
  /\ UNCHANGED <<proc, queue, out, store>>

\* pg_advisory_xact_lock: until the transaction ends.
TakeLock(c) ==
  /\ pc[c] = "open"
  /\ \A d \in Calls : pc[d] \in Locking => LockKey[Nonce[d]] # LockKey[Nonce[c]]
  /\ Goes(c, "locked")
  /\ UNCHANGED <<proc, queue, out, store>>

\* Every statement sees what is committed when it starts.
Select(c) ==
  /\ pc[c] = "locked"
  /\ Goes(c, IF Nonce[c] \in payments THEN "taken" ELSE "free")
  /\ UNCHANGED <<proc, queue, out, store>>

\* The primary key waits for another insert of the nonce to commit or roll
\* back; a duplicate is an error, which withTx rolls back and throws.
Insert(c) ==
  /\ pc[c] = "free"
  /\ \A d \in Calls : pc[d] = "inserted" => Nonce[d] # Nonce[c]
  /\ IF Nonce[c] \in payments
     THEN /\ Goes(c, "done") /\ answer' = [answer EXCEPT ![c] = "error"]
          /\ out' = out \ {c}
     ELSE Goes(c, "inserted") /\ UNCHANGED <<answer, out>>
  /\ UNCHANGED <<proc, queue, payments, faulted>>

\* COMMIT of what the transaction found, the answer and the client's release.
CommitFound(c) ==
  /\ pc[c] = "taken"
  /\ answer' = [answer EXCEPT ![c] = "used"]
  /\ Goes(c, "done") /\ out' = out \ {c}
  /\ UNCHANGED <<proc, queue, payments, faulted>>

\* Mutant: the answer is not kept back until COMMIT is done.
CommitUnawaited(c) ==
  /\ pc[c] = "inserted"
  /\ \E committed \in {{}, {Nonce[c]}} : payments' = payments \cup committed
  /\ answer' = [answer EXCEPT ![c] = "claimed"]
  /\ Goes(c, "chain") /\ out' = out \ {c}
  /\ UNCHANGED <<proc, queue, faulted>>

CommitInsert(c) ==
  /\ pc[c] = "inserted"
  /\ payments' = payments \cup {Nonce[c]}
  /\ answer' = [answer EXCEPT ![c] = "claimed"]
  /\ Goes(c, "chain") /\ out' = out \ {c}
  /\ UNCHANGED <<proc, queue, faulted>>

\* COMMIT reached the server, its answer did not come back.
CommitUnanswered(c) ==
  /\ pc[c] = "inserted"
  /\ payments' = payments \cup {Nonce[c]}
  /\ Goes(c, "done") /\ Fails({c}) /\ out' = out \ {c}
  /\ UNCHANGED <<proc, queue>>

\* What the server keeps of a transaction whose connection is gone.
LeftOf(l) == IF l \in Locking THEN "orphan" ELSE "done"

\* Mutant: an error keeps the client.
LostAndKept(c) ==
  /\ pc[c] \in InTx
  /\ Goes(c, LeftOf(pc[c])) /\ Fails({c})
  /\ UNCHANGED <<proc, queue, out, payments>>

\* The connection breaks: ROLLBACK throws as well, the client is released, and
\* the server keeps the transaction and its lock until it notices.
Lost(c) ==
  /\ pc[c] \in InTx
  /\ Goes(c, LeftOf(pc[c])) /\ Fails({c}) /\ out' = out \ {c}
  /\ UNCHANGED <<proc, queue, payments>>

OrphanRollsBack(c) ==
  /\ pc[c] = "orphan" /\ Goes(c, "done")
  /\ UNCHANGED <<proc, queue, out, store>>

\* The settlement stores its outcome, or fails to.
Store(c) ==
  /\ pc[c] = "storing" /\ Goes(c, "done") /\ out' = out \ {c}
  /\ UNCHANGED <<proc, queue, store>>

-----------------------------------------------------------------------------
(* The process.                                                            *)

\* SIGINT or SIGTERM: no new requests, and pool.end().
Shutdown(i) ==
  /\ proc[i] = "up" /\ proc' = [proc EXCEPT ![i] = "closing"]
  /\ UNCHANGED <<queue, out, pc, store>>

\* The process ends and every call it is at with it; a transaction is left to
\* the server.
Ends(i) ==
  LET cut == {c \in CallsAt(i) : pc[c] \notin {"new", "done", "orphan"}}
  IN  /\ proc' = [proc EXCEPT ![i] = "down"]
      /\ queue' = [queue EXCEPT ![i] = <<>>]
      /\ out' = out \ CallsAt(i)
      /\ pc' = [c \in Calls |-> IF c \in cut THEN LeftOf(pc[c]) ELSE pc[c]]
      /\ Fails(cut)
      /\ UNCHANGED payments

\* Mutant: closePool is not awaited.
ExitAtOnce(i) == proc[i] = "closing" /\ Ends(i)

\* pool.end() resolves with the last client; process.exit(0).
Exit(i) == proc[i] = "closing" /\ out \cap CallsAt(i) = {} /\ Ends(i)

\* The process is killed; so it is by a second signal, whose pool.end() rejects.
Crash(i) == proc[i] # "down" /\ Ends(i)

Restart(i) ==
  /\ proc[i] = "down" /\ proc' = [proc EXCEPT ![i] = "up"]
  /\ UNCHANGED <<queue, out, pc, store>>

CallStep(c) ==
  \/ TakeLock(c) \/ Select(c) \/ Insert(c) \/ CommitFound(c) \/ CommitInsert(c)
  \/ CommitUnanswered(c) \/ Lost(c) \/ OrphanRollsBack(c) \/ Store(c)

Next ==
  \/ \E c \in Calls :
       Connect(c) \/ ConnectRefused(c) \/ ConnectTimesOut(c) \/ CallStep(c)
  \/ \E i \in Instances :
       Serve(i) \/ Shutdown(i) \/ Exit(i) \/ Crash(i) \/ Restart(i)

Spec == Init /\ [][Next]_vars

\* The database answers or the connection breaks, waiting for a client ends, and
\* the event loop runs.  Nobody has to shut a process down or start it again.
FairSpec ==
  /\ Spec
  /\ \A c \in Calls : WF_vars(CallStep(c)) /\ WF_vars(ConnectTimesOut(c))
  /\ \A i \in Instances : WF_vars(Serve(i)) /\ WF_vars(Exit(i))

-----------------------------------------------------------------------------
(* Properties.                                                             *)

\* Types of the pool, the calls and the table.
TypeOK ==
  /\ proc \in [Instances -> {"up", "closing", "down"}]
  /\ queue \in [Instances -> Seq(Calls)]
  /\ out \subseteq Calls
  /\ pc \in [Calls -> InTx \cup {"new", "queued", "orphan", "chain", "storing", "done"}]
  /\ answer \in [Calls -> {"none", "claimed", "used", "error"}]
  /\ payments \subseteq Nonces /\ faulted \subseteq Calls

\* registerNonce implements the promise: over processes, restarts and broken
\* connections, one caller at most is told that the nonce is new, and then the
\* row is committed.
N == INSTANCE NonceRegister WITH claimed <- payments
RegisterSpec == N!Spec

\* A replayed nonce gets its `false', not an exception, while nothing fails: no
\* insert ever runs into the primary key.
LosersAreTold ==
  \A c \in Calls : answer[c] = "error" => c \in faulted

\* The invariant behind both.  Only the holder of a nonce's lock decides on it.
LockedWhileDeciding ==
  \A c, d \in Calls :
    /\ c # d /\ pc[c] \in Locking /\ pc[d] \in Locking =>
         LockKey[Nonce[c]] # LockKey[Nonce[d]]
    /\ pc[c] \in {"free", "inserted"} => Nonce[c] \notin payments
    /\ pc[c] = "taken" => Nonce[c] \in payments

\* A call has no answer until its transaction is over, and its one place in line
\* is the one it waits at.
AnswersInOrder ==
  \A c \in Calls :
    /\ pc[c] \in InTx \cup {"new"} => answer[c] = "none"
    /\ pc[c] = "chain" => answer[c] = "claimed"
    /\ pc[c] = "queued" => answer[c] \in {"none", "claimed"}

LinesInOrder ==
  \A i \in Instances : \A n \in 1 .. Len(queue[i]) :
    /\ pc[queue[i][n]] = "queued" /\ Where[queue[i][n]] = i
    /\ \A l \in 1 .. Len(queue[i]) : queue[i][l] = queue[i][n] => l = n

ClientsInUse == \A c \in Calls : c \in out <=> pc[c] \in InTx \cup {"storing"}

DatabaseInv ==
  /\ TypeOK /\ LockedWhileDeciding /\ AnswersInOrder /\ LinesInOrder
  /\ ClientsInUse /\ LosersAreTold

\* "drains the connection pool": a process that shuts down by itself leaves no
\* transaction to the server.  (A settlement between two statements it does cut.)
ExitCutsNoTransaction ==
  [][\A i \in Instances : Exit(i) =>
       \A c \in CallsAt(i) : pc[c] \notin InTx \cup {"storing"}]_vars

\* Whoever waits for a client or a lock gets an end to it, and so does whoever
\* waits for the process to stop: every path gives its client back.
CallsAndShutdownsEnd ==
  /\ \A c \in Calls : pc[c] = "queued" ~> pc[c] \in {"chain", "done"}
  /\ \A i \in Instances : proc[i] = "closing" ~> proc[i] = "down"
=============================================================================
