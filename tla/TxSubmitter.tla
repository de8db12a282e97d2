---------------------------- MODULE TxSubmitter ----------------------------
(***************************************************************************)
(* The facilitator's single wallet (src/settle.ts): runExclusive queues    *)
(* every submission, the head of the queue allocates an account nonce,     *)
(* signs, lets its caller persist the signed transaction, and broadcasts.  *)
(* broadcastRaw re-sends a transaction signed earlier, outside the queue.  *)
(*                                                                         *)
(* The chain is external.  `slots' are the transactions the node accepted  *)
(* from this wallet, account nonce n in slots[n + 1]; `outcome' says how   *)
(* the mined prefix of them ended.  The node keeps the first transaction   *)
(* it accepts for a nonce and never drops one.                             *)
(***************************************************************************)
EXTENDS Integers, Sequences

CONSTANTS
  Tasks,       \* callers of submitTx; each has at most one call in progress
  Calls,       \* what a transaction does: the (to, data) pair
  Fees,        \* the gas terms prepareTransactionRequest may fill in
  NoCall, NoTx,
  PendingLag,  \* how far the node's "pending" count may trail acceptance
  MaxFail,     \* bound: RPC and database errors inside submitTx
  MaxCrash,    \* bound: process restarts
  MaxTxs       \* bound: transactions accepted or being submitted

VARIABLES
  lockQ,       \* walletLock: the promise chain, as the queue of its callers
  nextNonce,   \* local high-water mark; negative when it must be re-synced
  stage,       \* how far each caller's submitTx has got
  call,        \* the (to, data) each caller submits
  acct,        \* the account nonce allocated to each caller
  held,        \* the SignedTransfer each caller has built
  signed,      \* every transaction signed so far (history)
  slots, outcome,
  fails, crashes

chain == <<slots, outcome>>
wallet == <<lockQ, nextNonce, stage, call, acct, held>>
vars == <<wallet, signed, chain, fails, crashes>>

Tx == [nonce : Nat, call : Calls, fee : Fees]
Stages == {"idle", "queued", "allocated", "signed", "returned", "threw"}
Critical == {"allocated", "signed"}

ASSUME TxSubmitterAssumption ==
  /\ NoTx \notin Tx
  /\ NoCall \notin Calls
  /\ PendingLag \in Nat
  /\ MaxFail \in Nat
  /\ MaxCrash \in Nat
  /\ MaxTxs \in Nat

-----------------------------------------------------------------------------
(* The node.                                                               *)

Greater(a, b) == IF a < b THEN b ELSE a

\* The receipt of x: "none" until x itself, not another transaction with the
\* same nonce, is mined.
Receipt(x) ==
  IF x.nonce < Len(outcome) /\ slots[x.nonce + 1] = x
  THEN outcome[x.nonce + 1]
  ELSE "none"

\* eth_sendRawTransaction takes x when it fills the next free nonce.
Accepts(x) == x.nonce = Len(slots)
Deliver(x) == slots' = IF Accepts(x) THEN Append(slots, x) ELSE slots

\* The nonce is held by another transaction that is not mined yet: the node
\* answers "replacement transaction underpriced", which submitTx does not
\* swallow.  Once it is mined the answer is "nonce too low", which it does.
Underpriced(x) ==
  /\ x.nonce < Len(slots)
  /\ slots[x.nonce + 1] # x
  /\ x.nonce >= Len(outcome)

\* What getTransactionCount(pending) may answer.
PendingCounts ==
  Greater(Len(outcome), Len(slots) - PendingLag) .. Len(slots)

-----------------------------------------------------------------------------
(* One call of submitTx.                                                   *)

Init ==
  /\ lockQ = <<>> /\ nextNonce = -1
  /\ stage = [t \in Tasks |-> "idle"]
  /\ call = [t \in Tasks |-> NoCall]
  /\ acct = [t \in Tasks |-> 0]
  /\ held = [t \in Tasks |-> NoTx]
  /\ signed = {} /\ slots = <<>> /\ outcome = <<>>
  /\ fails = 0 /\ crashes = 0

HoldsLock(t) == lockQ # <<>> /\ t = Head(lockQ)
Release == lockQ' = Tail(lockQ)

RoomForTx == Len(slots) + Len(lockQ) < MaxTxs

\* runExclusive: t joins the promise chain.
Submit(t, c) ==
  /\ stage[t] = "idle" /\ RoomForTx
  /\ lockQ' = Append(lockQ, t)
  /\ stage' = [stage EXCEPT ![t] = "queued"]
  /\ call' = [call EXCEPT ![t] = c]
  /\ UNCHANGED <<nextNonce, acct, held, signed, chain, fails, crashes>>

\* Mutant: the node's count alone.
PendingNonce(pending) == pending

AllocatedNonce(pending) ==
  IF nextNonce < 0 THEN pending ELSE Greater(pending, nextNonce)

\* allocateNonce: the local mark covers for a node that trails.
Allocate(t) ==
  /\ stage[t] = "queued" /\ HoldsLock(t)
  /\ \E pending \in PendingCounts :
       /\ acct' = [acct EXCEPT ![t] = AllocatedNonce(pending)]
       /\ nextNonce' = AllocatedNonce(pending) + 1
  /\ stage' = [stage EXCEPT ![t] = "allocated"]
  /\ UNCHANGED <<lockQ, call, held, signed, chain, fails, crashes>>

Fail == fails < MaxFail /\ fails' = fails + 1

\* getTransactionCount throws: this is before the try block, so the mark is
\* left alone, and the lock passes on.
AllocateFails(t) ==
  /\ stage[t] = "queued" /\ HoldsLock(t) /\ Fail
  /\ stage' = [stage EXCEPT ![t] = "threw"]
  /\ Release
  /\ UNCHANGED <<nextNonce, call, acct, held, signed, chain, crashes>>

SignedBy(t, fee) == [nonce |-> acct[t], call |-> call[t], fee |-> fee]

\* prepareTransactionRequest, signTransaction and the caller's onSigned.
Sign(t, fee) ==
  /\ stage[t] = "allocated"
  /\ held' = [held EXCEPT ![t] = SignedBy(t, fee)]
  /\ signed' = signed \cup {SignedBy(t, fee)}
  /\ stage' = [stage EXCEPT ![t] = "signed"]
  /\ UNCHANGED <<lockQ, nextNonce, call, acct, chain, fails, crashes>>

\* Mutants: the catch keeps the mark; the throwing path keeps the lock.
ResyncKeepsMark(t) ==
  /\ UNCHANGED nextNonce
  /\ stage' = [stage EXCEPT ![t] = "threw"]
  /\ Release

ResyncKeepsLock(t) ==
  /\ nextNonce' = -1
  /\ stage' = [stage EXCEPT ![t] = "threw"]
  /\ UNCHANGED lockQ

\* The catch of submitTx: forget the mark, leave the lock, rethrow.
Resync(t) ==
  /\ nextNonce' = -1
  /\ stage' = [stage EXCEPT ![t] = "threw"]
  /\ Release

\* Preparing, signing or onSigned throws; onSigned may have persisted the
\* transaction before it threw.
SignFails(t, fee, persisted) ==
  /\ stage[t] = "allocated" /\ Fail
  /\ signed' = IF persisted THEN signed \cup {SignedBy(t, fee)} ELSE signed
  /\ Resync(t)
  /\ UNCHANGED <<call, acct, held, chain, crashes>>

\* sendRawTransaction answers, or fails with an error that submitTx reads as
\* "the nonce was consumed".
Broadcast(t) ==
  /\ stage[t] = "signed" /\ ~Underpriced(held[t])
  /\ Deliver(held[t])
  /\ stage' = [stage EXCEPT ![t] = "returned"]
  /\ Release
  /\ UNCHANGED <<nextNonce, call, acct, held, signed, outcome, fails, crashes>>

\* The nonce is taken by another pending transaction.
BroadcastRejected(t) ==
  /\ stage[t] = "signed" /\ Underpriced(held[t])
  /\ Resync(t)
  /\ UNCHANGED <<call, acct, held, signed, chain, fails, crashes>>

\* Any other error: the transaction was lost, or was accepted and only the
\* answer was lost.
BroadcastFails(t, landed) ==
  /\ stage[t] = "signed" /\ Fail
  /\ IF landed THEN Deliver(held[t]) ELSE UNCHANGED slots
  /\ Resync(t)
  /\ UNCHANGED <<call, acct, held, signed, outcome, crashes>>

\* The caller's await of submitTx continues.
Resume(t) ==
  /\ stage[t] \in {"returned", "threw"}
  /\ stage' = [stage EXCEPT ![t] = "idle"]
  /\ call' = [call EXCEPT ![t] = NoCall]
  /\ acct' = [acct EXCEPT ![t] = 0]
  /\ held' = [held EXCEPT ![t] = NoTx]
  /\ UNCHANGED <<lockQ, nextNonce, signed, chain, fails, crashes>>

\* broadcastRaw: the send; its answer matters to the caller only.
Rebroadcast(x) ==
  /\ Accepts(x) /\ Deliver(x)
  /\ UNCHANGED <<wallet, signed, outcome, fails, crashes>>

\* The next accepted transaction is mined and ends as o.
Mine(o) ==
  /\ Len(outcome) < Len(slots)
  /\ outcome' = Append(outcome, o)
  /\ UNCHANGED <<wallet, signed, slots, fails, crashes>>

\* The process restarts: promise chain, mark and callers are gone, the chain
\* and the persisted transactions stay.
Crash ==
  /\ crashes < MaxCrash /\ crashes' = crashes + 1
  /\ lockQ' = <<>> /\ nextNonce' = -1
  /\ stage' = [t \in Tasks |-> "idle"]
  /\ call' = [t \in Tasks |-> NoCall]
  /\ acct' = [t \in Tasks |-> 0]
  /\ held' = [t \in Tasks |-> NoTx]
  /\ UNCHANGED <<signed, chain, fails>>

\* What the holder of the lock, or a caller whose call ended, does next.
Proceed(t) ==
  \/ Allocate(t) \/ AllocateFails(t)
  \/ \E fee \in Fees : Sign(t, fee)
  \/ \E fee \in Fees, persisted \in BOOLEAN : SignFails(t, fee, persisted)
  \/ Broadcast(t) \/ BroadcastRejected(t)
  \/ \E landed \in BOOLEAN : BroadcastFails(t, landed)
  \/ Resume(t)

Next ==
  \/ \E t \in Tasks, c \in Calls : Submit(t, c)
  \/ \E t \in Tasks : Proceed(t)
  \/ \E x \in signed : Rebroadcast(x)
  \/ \E o \in {"success", "reverted"} : Mine(o)
  \/ Crash

Spec == Init /\ [][Next]_vars

\* Every await inside the lock ends: viem bounds each request with a timeout.
FairSpec == Spec /\ \A t \in Tasks : WF_vars(Proceed(t))

-----------------------------------------------------------------------------
(* Properties.                                                             *)

\* Types of the wallet's and the node's state (src/settle.ts).
TypeOK ==
  /\ lockQ \in Seq(Tasks)
  /\ nextNonce \in Nat \cup {-1}
  /\ stage \in [Tasks -> Stages]
  /\ call \in [Tasks -> Calls \cup {NoCall}]
  /\ \A t \in Tasks : stage[t] # "idle" => call[t] \in Calls
  /\ acct \in [Tasks -> Nat]
  /\ held \in [Tasks -> Tx \cup {NoTx}]
  /\ signed \in SUBSET Tx
  /\ slots \in Seq(Tx)
  /\ outcome \in Seq({"success", "reverted"})
  /\ Len(outcome) <= Len(slots)
  /\ fails \in Nat /\ crashes \in Nat

\* The comment of submitTx's catch block: a failed submission never leaves a
\* gap.  No transaction was signed for a nonce beyond the next one the node
\* will take, so whatever is signed can be mined once it is sent.
NoGap == \A x \in signed : x.nonce <= Len(slots)

\* Only the head of the queue is between allocation and broadcast.
HolderOnly == \A t \in Tasks : stage[t] \in Critical => HoldsLock(t)

\* There the mark is one past the holder's nonce, which the node can take or
\* has taken; outside, the mark never passes what the node has accepted.
MarkInStep ==
  /\ \A t \in Tasks : stage[t] \in Critical =>
       acct[t] <= Len(slots) /\ nextNonce = acct[t] + 1
  /\ (\A t \in Tasks : stage[t] \notin Critical) => nextNonce <= Len(slots)

HeldIsSigned ==
  \A t \in Tasks : stage[t] \in {"signed", "returned"} =>
    /\ held[t] \in signed
    /\ held[t].nonce = acct[t] /\ held[t].call = call[t]

\* Why no gap can appear: the inductive form of NoGap.
WalletInv == TypeOK /\ HolderOnly /\ MarkInStep /\ HeldIsSigned /\ NoGap

\* The comment on nextNonce ("so we never reuse a nonce even if the node's
\* pending count hasn't yet reflected a just-broadcast tx"), and its limit: an
\* allocated nonce is the next free one, neither skipped nor in use, unless an
\* error or a restart made the wallet forget its mark while the node's count
\* trails a transaction that is not mined yet.
FreshNonce ==
  [][\A t \in Tasks :
       stage[t] = "queued" /\ stage'[t] = "allocated" =>
         \/ acct'[t] = Len(slots)
         \/ /\ fails > 0 \/ crashes > 0
            /\ PendingLag > 0 /\ Len(outcome) < Len(slots)]_vars

\* runExclusive chains on both outcomes (walletLock.then(fn, fn)), so a call
\* that throws never keeps the next one from running: every submission ends.
EverySubmissionEnds ==
  \A t \in Tasks : stage[t] = "queued" ~> stage[t] = "idle"

=============================================================================
