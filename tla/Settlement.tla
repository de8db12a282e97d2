----------------------------- MODULE Settlement -----------------------------
(***************************************************************************)
(* A payment's life in the facilitator: the /settle handler                *)
(* (src/settle.ts settlePayment), the recovery worker (src/recovery.ts)    *)
(* and the admin refund (src/refund.ts), all of them reading and writing   *)
(* the payments table (src/nonceStore.ts) without a transaction around     *)
(* their steps, and all of them submitting through the one wallet          *)
(* (TxSubmitter).  One server process, which may restart.                  *)
(*                                                                         *)
(* A payment is named by its authorization nonce.  An action is what a     *)
(* handler does between two awaits that another handler can observe; a     *)
(* receipt, once there, does not change, so reading it and writing the     *)
(* status it implies are one action.  A transaction stands for its hash    *)
(* and its raw bytes.                                                      *)
(***************************************************************************)
EXTENDS Integers, Sequences, FiniteSets

CONSTANTS
  Payments,      \* authorizations that pass verifyPayment's stateless checks
  Merchant, Net, \* payee and merchantAmount of each payment
  Fees, NoTx, NoCall, PendingLag, MaxFail, MaxCrash, MaxTxs,
  Refunds,       \* requests to /admin/refund for each payment, one call each
  PayMayRevert   \* may a transfer out of the facilitator revert?

VARIABLES
  status, inTx, outTx, locked,  \* the payments table
  spc, answer,                  \* each payment's /settle handler, the outgoing
                                \* transaction its response names
  rpc, snap,                    \* each payment's recoverPayment, its row argument
  fpc,                          \* each refund request's executeRefund
  overlap,                      \* history: rows claimed under a live /settle
  rushed,                       \* history: rows a refund read while it was not
                                \* known how an earlier one of them ended
  lockQ, nextNonce, stage, call, acct, held, signed, slots, outcome,
  fails, crashes                \* the wallet and the chain

S(p) == <<"settle", p>>
R(p) == <<"recover", p>>
F(p, r) == <<"refund", p, r>>
Refunders == {F(p, r) : p \in Payments, r \in Refunds}
Callers == {S(p) : p \in Payments} \cup {R(p) : p \in Payments} \cup Refunders

\* Two payments of one amount to one merchant have the same outgoing call.
PullCall(p) == [kind |-> "pull", of |-> p]
OutCall(p) == [kind |-> "transfer", to |-> Merchant[p], amount |-> Net[p]]
RefundCall(p) == [kind |-> "refund", of |-> p]
Calls == UNION {{PullCall(p), OutCall(p), RefundCall(p)} : p \in Payments}

W == INSTANCE TxSubmitter WITH Tasks <- Callers

rows == <<status, inTx, outTx, locked>>
settling == <<spc, answer>>
recovering == <<rpc, snap, overlap>>
refunding == <<fpc, rushed>>
wallet == <<lockQ, nextNonce, stage, call, acct, held, signed, slots, outcome,
            fails, crashes>>
vars == <<rows, settling, recovering, refunding, wallet>>

Incomplete == {"incoming_submitted", "incoming_complete", "outgoing_submitted"}
Terminal == {"complete", "failed", "refunded"}
Statuses == {"none", "pending"} \cup Incomplete \cup Terminal

NoSnap == [status |-> "none", inTx |-> NoTx, outTx |-> NoTx]

ASSUME SettlementAssumption ==
  /\ DOMAIN Merchant = Payments
  /\ Net \in [Payments -> Nat]
  /\ NoTx \notin W!Tx
  /\ NoCall \notin Calls
  /\ PendingLag \in Nat /\ MaxFail \in Nat /\ MaxCrash \in Nat
  /\ MaxTxs \in Nat
  /\ IsFiniteSet(Payments)
  /\ PayMayRevert \in BOOLEAN

Init ==
  /\ status = [p \in Payments |-> "none"]
  /\ inTx = [p \in Payments |-> NoTx]
  /\ outTx = [p \in Payments |-> NoTx]
  /\ locked = [p \in Payments |-> FALSE]
  /\ spc = [p \in Payments |-> "new"]
  /\ answer = [p \in Payments |-> NoTx]
  /\ rpc = [p \in Payments |-> "idle"]
  /\ snap = [p \in Payments |-> NoSnap]
  /\ fpc = [f \in Refunders |-> "idle"]
  /\ overlap = {} /\ rushed = {}
  /\ W!Init

-----------------------------------------------------------------------------
(* The payments table: every write is one unconditional UPDATE.            *)

\* registerNonce: the first request for a nonce inserts the row.
RegisterNonce(p) ==
  /\ status[p] = "none"
  /\ status' = [status EXCEPT ![p] = "pending"]
  /\ UNCHANGED <<inTx, outTx, locked>>

\* Mutant: the status without the transaction.
RecordStatusOnly(p, x) ==
  /\ status' = [status EXCEPT ![p] = "incoming_submitted"]
  /\ UNCHANGED <<inTx, outTx, locked>>

RecordIncomingIntent(p, x) ==
  /\ status' = [status EXCEPT ![p] = "incoming_submitted"]
  /\ inTx' = [inTx EXCEPT ![p] = x]
  /\ UNCHANGED <<outTx, locked>>

RecordOutgoingIntent(p, x) ==
  /\ status' = [status EXCEPT ![p] = "outgoing_submitted"]
  /\ outTx' = [outTx EXCEPT ![p] = x]
  /\ UNCHANGED <<inTx, locked>>

\* setStatus; the incoming hash it may carry is the one the row already has.
SetStatus(p, s) ==
  /\ status' = [status EXCEPT ![p] = s]
  /\ locked' = IF s \in Terminal THEN [locked EXCEPT ![p] = FALSE] ELSE locked
  /\ UNCHANGED <<inTx, outTx>>

SetComplete(p, x) ==
  /\ status' = [status EXCEPT ![p] = "complete"]
  /\ locked' = [locked EXCEPT ![p] = FALSE]
  /\ outTx' = [outTx EXCEPT ![p] = x]
  /\ UNCHANGED inTx

-----------------------------------------------------------------------------
(* Inside submitTx.  The callback persists what was just signed.           *)

OnSigned(p, x) ==
  \/ x.call = PullCall(p) /\ RecordIncomingIntent(p, x)
  \/ x.call = OutCall(p) /\ RecordOutgoingIntent(p, x)
  \/ x.call = RefundCall(p) /\ UNCHANGED rows

WalletSign(t) ==
  \E fee \in Fees :
    /\ W!Sign(t, fee)
    /\ OnSigned(t[2], W!SignedBy(t, fee))

\* The row may be written although the callback throws: its logEvent failed,
\* or the answer to the UPDATE was lost.
WalletSignFails(t) ==
  \E fee \in Fees, persisted \in BOOLEAN :
    /\ W!SignFails(t, fee, persisted)
    /\ IF persisted
       THEN t \in {S(t[2]), R(t[2])} /\ OnSigned(t[2], W!SignedBy(t, fee))
       ELSE UNCHANGED rows

WalletOther(t) ==
  /\ \/ W!Allocate(t) \/ W!AllocateFails(t)
     \/ W!Broadcast(t) \/ W!BroadcastRejected(t)
     \/ \E landed \in BOOLEAN : W!BroadcastFails(t, landed)
  /\ UNCHANGED rows

WalletStep(t) ==
  /\ WalletSign(t) \/ WalletSignFails(t) \/ WalletOther(t)
  /\ UNCHANGED <<settling, recovering, refunding>>

-----------------------------------------------------------------------------
(* POST /settle: settlePayment.  While the handler waits for a receipt its *)
(* local `signed' is held[S(p)].                                           *)

SettleAccepted(p) ==
  /\ spc[p] = "new"
  /\ RegisterNonce(p)
  /\ spc' = [spc EXCEPT ![p] = "accepted"]
  /\ UNCHANGED <<answer, recovering, refunding, wallet>>

\* Only the response of a settlement that went through names a transaction.
SettleReturns(p, a) ==
  /\ spc' = [spc EXCEPT ![p] = "done"]
  /\ answer' = [answer EXCEPT ![p] = a]

\* Between registerNonce and the first submission: merchant disabled, gas too
\* low, or an RPC or database error.
SettleRefused(p) ==
  /\ spc[p] = "accepted"
  /\ SettleReturns(p, NoTx)
  /\ UNCHANGED <<rows, recovering, refunding, wallet>>

SettlePull(p) ==
  /\ spc[p] = "accepted"
  /\ W!Submit(S(p), PullCall(p))
  /\ spc' = [spc EXCEPT ![p] = "pulling"]
  /\ UNCHANGED <<rows, answer, recovering, refunding>>

SettlePulled(p) ==
  /\ spc[p] = "pulling" /\ stage[S(p)] = "returned"
  /\ W!Receipt(held[S(p)]) = "success"
  /\ SetStatus(p, "incoming_complete")
  /\ W!Resume(S(p))
  /\ spc' = [spc EXCEPT ![p] = "pulled"]
  /\ UNCHANGED <<answer, recovering, refunding>>

\* Mutant: a pull that is not there in time counts as reverted.
SettlePullTimesOut(p) ==
  /\ spc[p] = "pulling" /\ stage[S(p)] = "returned"
  /\ W!Receipt(held[S(p)]) # "success"
  /\ SetStatus(p, "failed")
  /\ W!Resume(S(p))
  /\ SettleReturns(p, NoTx)
  /\ UNCHANGED <<recovering, refunding>>

SettlePullReverted(p) ==
  /\ spc[p] = "pulling" /\ stage[S(p)] = "returned"
  /\ W!Receipt(held[S(p)]) = "reverted"
  /\ SetStatus(p, "failed")
  /\ W!Resume(S(p))
  /\ SettleReturns(p, NoTx)
  /\ UNCHANGED <<recovering, refunding>>

\* logEvent throws once incoming_complete is written.
SettleBreaks(p) ==
  /\ spc[p] = "pulled"
  /\ SettleReturns(p, NoTx)
  /\ UNCHANGED <<rows, recovering, refunding, wallet>>

SettlePay(p) ==
  /\ spc[p] = "pulled"
  /\ W!Submit(S(p), OutCall(p))
  /\ spc' = [spc EXCEPT ![p] = "paying"]
  /\ UNCHANGED <<rows, answer, recovering, refunding>>

\* Mutant: complete once the transfer is sent.
SettlePaidUnconfirmed(p) ==
  /\ spc[p] = "paying" /\ stage[S(p)] = "returned"
  /\ SetComplete(p, held[S(p)])
  /\ W!Resume(S(p))
  /\ \E a \in {held[S(p)], NoTx} : SettleReturns(p, a)
  /\ UNCHANGED <<recovering, refunding>>

\* The response says error when the last logEvent throws.
SettlePaid(p) ==
  /\ spc[p] = "paying" /\ stage[S(p)] = "returned"
  /\ W!Receipt(held[S(p)]) = "success"
  /\ SetComplete(p, held[S(p)])
  /\ W!Resume(S(p))
  /\ \E a \in {held[S(p)], NoTx} : SettleReturns(p, a)
  /\ UNCHANGED <<recovering, refunding>>

\* submitTx threw, no receipt in time, an outgoing revert, or an error on the
\* way: the handler answers and leaves the row to recovery.
SettleGivesUp(p) ==
  /\ spc[p] \in {"pulling", "paying"}
  /\ W!Resume(S(p))
  /\ SettleReturns(p, NoTx)
  /\ UNCHANGED <<rows, recovering, refunding>>

SettleStep(p) ==
  \/ SettleAccepted(p) \/ SettleRefused(p) \/ SettlePull(p)
  \/ SettlePulled(p) \/ SettlePullReverted(p) \/ SettleBreaks(p)
  \/ SettlePay(p) \/ SettlePaid(p) \/ SettleGivesUp(p)

-----------------------------------------------------------------------------
(* The recovery worker.  A cycle claims rows, runs recoverPayment on each, *)
(* and the next cycle starts when all of them ended (`running').           *)

\* Mutants: a failed row is retried; only the two statuses the documentation
\* names are picked up.
ClaimableOrFailed ==
  {p \in Payments : status[p] \in Incomplete \cup {"failed"} /\ ~locked[p]}

ClaimablePerDocs ==
  {p \in Payments : status[p] \in Incomplete \ {"incoming_submitted"} /\ ~locked[p]}

\* Mutant: every row that is not terminal is picked up.
ClaimableOrPending ==
  {p \in Payments : status[p] \in Incomplete \cup {"pending"} /\ ~locked[p]}

Claimable == {p \in Payments : status[p] \in Incomplete /\ ~locked[p]}

Live(p) == spc[p] \notin {"new", "done"}

ClaimIncompletePayments ==
  /\ \A p \in Payments : rpc[p] = "idle"
  /\ Claimable # {}
  /\ locked' = [p \in Payments |-> locked[p] \/ p \in Claimable]
  /\ rpc' = [p \in Payments |-> IF p \in Claimable THEN "begin" ELSE "idle"]
  /\ snap' = [p \in Payments |->
       IF p \in Claimable
       THEN [status |-> status[p], inTx |-> inTx[p], outTx |-> outTx[p]]
       ELSE NoSnap]
  /\ overlap' = overlap \cup {p \in Claimable : Live(p)}
  /\ UNCHANGED <<status, inTx, outTx, settling, refunding, wallet>>

\* Two minutes pass.  With one process and the `running' guard it makes no
\* difference whether they end before or after the row's recoverPayment does.
LockGoesStale(p) ==
  /\ locked[p] /\ rpc[p] = "idle"
  /\ locked' = [locked EXCEPT ![p] = FALSE]
  /\ UNCHANGED <<status, inTx, outTx, settling, recovering, refunding, wallet>>

RecoverEnds(p) ==
  /\ rpc' = [rpc EXCEPT ![p] = "idle"]
  /\ snap' = [snap EXCEPT ![p] = NoSnap]
  /\ UNCHANGED overlap

\* Mutant: re-sending forgets the mark of the submission in progress.
BroadcastRawResyncs(x) ==
  IF W!Accepts(x)
  THEN W!Deliver(x) /\ nextNonce' = -1
       /\ UNCHANGED <<lockQ, stage, call, acct, held, signed, outcome, fails, crashes>>
  ELSE UNCHANGED wallet

\* Mutant: nothing is sent again.
BroadcastNothing(x) == UNCHANGED wallet

\* sendRawTransaction of a stored transaction, outside the lock.
BroadcastRaw(x) ==
  IF W!Accepts(x) THEN W!Rebroadcast(x) ELSE UNCHANGED wallet

\* Stage 0: the incoming transaction.
InStage0(p) ==
  rpc[p] \in {"begin", "pullwait"} /\ snap[p].status = "incoming_submitted"

RecoverResendsPull(p) ==
  /\ InStage0(p) /\ rpc[p] = "begin"
  /\ BroadcastRaw(snap[p].inTx)
  /\ rpc' = [rpc EXCEPT ![p] = "pullwait"]
  /\ UNCHANGED <<rows, snap, overlap, settling, refunding>>

\* Mutant: any receipt is a success.
RecoverPulledAnyhow(p) ==
  /\ InStage0(p)
  /\ W!Receipt(snap[p].inTx) # "none"
  /\ SetStatus(p, "incoming_complete")
  /\ snap' = [snap EXCEPT ![p].status = "incoming_complete"]
  /\ rpc' = [rpc EXCEPT ![p] = "begin"]
  /\ UNCHANGED <<overlap, settling, refunding, wallet>>

RecoverPulled(p) ==
  /\ InStage0(p)
  /\ W!Receipt(snap[p].inTx) = "success"
  /\ SetStatus(p, "incoming_complete")
  /\ snap' = [snap EXCEPT ![p].status = "incoming_complete"]
  /\ rpc' = [rpc EXCEPT ![p] = "begin"]
  /\ UNCHANGED <<overlap, settling, refunding, wallet>>

RecoverPullReverted(p) ==
  /\ InStage0(p)
  /\ W!Receipt(snap[p].inTx) = "reverted"
  /\ SetStatus(p, "failed")
  /\ RecoverEnds(p)
  /\ UNCHANGED <<settling, refunding, wallet>>

PastStage0(p) == rpc[p] = "begin" /\ snap[p].status # "incoming_submitted"

RecoverZeroAmount(p) ==
  /\ PastStage0(p) /\ Net[p] = 0
  /\ SetStatus(p, "failed")
  /\ RecoverEnds(p)
  /\ UNCHANGED <<settling, refunding, wallet>>

\* Mutant: a new transfer in every cycle.
NeedsOutgoingAlways(p) == TRUE

\* Phase 1: no outgoing transaction in the claimed row, so sign a new one.
NeedsOutgoing(p) ==
  snap[p].status # "outgoing_submitted" \/ snap[p].outTx = NoTx

RecoverPays(p) ==
  /\ PastStage0(p) /\ Net[p] # 0 /\ NeedsOutgoing(p)
  /\ W!Submit(R(p), OutCall(p))
  /\ rpc' = [rpc EXCEPT ![p] = "paying"]
  /\ UNCHANGED <<rows, snap, overlap, settling, refunding>>

RecoverSubmitted(p) ==
  /\ rpc[p] = "paying" /\ stage[R(p)] = "returned"
  /\ W!Resume(R(p))
  /\ snap' = [snap EXCEPT ![p].status = "outgoing_submitted",
                          ![p].outTx = held[R(p)]]
  /\ rpc' = [rpc EXCEPT ![p] = "begin"]
  /\ UNCHANGED <<rows, overlap, settling, refunding>>

\* Phase 2: confirm the stored outgoing transaction or send it again.
InPhase2(p) ==
  \/ rpc[p] = "paywait"
  \/ PastStage0(p) /\ Net[p] # 0 /\ ~NeedsOutgoing(p)

RecoverConfirmed(p) ==
  /\ InPhase2(p)
  /\ W!Receipt(snap[p].outTx) = "success"
  /\ SetComplete(p, snap[p].outTx)
  /\ RecoverEnds(p)
  /\ UNCHANGED <<settling, refunding, wallet>>

RecoverResendsPay(p) ==
  /\ InPhase2(p) /\ rpc[p] = "begin"
  /\ BroadcastRaw(snap[p].outTx)
  /\ rpc' = [rpc EXCEPT ![p] = "paywait"]
  /\ UNCHANGED <<rows, snap, overlap, settling, refunding>>

\* Nothing there in time, an outgoing revert, or an error: until a later cycle.
RecoverGivesUp(p) ==
  /\ rpc[p] # "idle"
  /\ IF rpc[p] = "paying" THEN W!Resume(R(p)) ELSE UNCHANGED wallet
  /\ RecoverEnds(p)
  /\ UNCHANGED <<rows, settling, refunding>>

RecoverStep(p) ==
  \/ RecoverResendsPull(p) \/ RecoverPulled(p) \/ RecoverPullReverted(p)
  \/ RecoverZeroAmount(p) \/ RecoverPays(p) \/ RecoverSubmitted(p)
  \/ RecoverConfirmed(p) \/ RecoverResendsPay(p) \/ RecoverGivesUp(p)

-----------------------------------------------------------------------------
(* POST /admin/refund: executeRefund, any number of them at once.          *)

\* Sent, and not known to have succeeded: under way, or ended by an error.
Unsettled(p) ==
  \E r \in Refunds : fpc[F(p, r)] \in {"checked", "paying", "unsure"}

\* Mutants: the status, or the incoming receipt, is not checked.
RefundReadsAnyStatus(p, r) ==
  /\ fpc[F(p, r)] = "idle"
  /\ inTx[p] # NoTx /\ outTx[p] = NoTx
  /\ fpc' = [fpc EXCEPT ![F(p, r)] = "checked"]
  /\ rushed' = IF Unsettled(p) THEN rushed \cup {p} ELSE rushed
  /\ UNCHANGED <<rows, settling, recovering, wallet>>

RefundSubmitsUnchecked(p, r) ==
  /\ fpc[F(p, r)] = "checked"
  /\ W!Submit(F(p, r), RefundCall(p))
  /\ fpc' = [fpc EXCEPT ![F(p, r)] = "paying"]
  /\ UNCHANGED <<rows, rushed, settling, recovering>>

\* The row is read once; the guards are evaluated on what was read.
RefundReads(p, r) ==
  /\ fpc[F(p, r)] = "idle"
  /\ status[p] = "failed" /\ inTx[p] # NoTx /\ outTx[p] = NoTx
  /\ fpc' = [fpc EXCEPT ![F(p, r)] = "checked"]
  /\ rushed' = IF Unsettled(p) THEN rushed \cup {p} ELSE rushed
  /\ UNCHANGED <<rows, settling, recovering, wallet>>

RefundSubmits(p, r) ==
  /\ fpc[F(p, r)] = "checked"
  /\ W!Receipt(inTx[p]) = "success"
  /\ W!Submit(F(p, r), RefundCall(p))
  /\ fpc' = [fpc EXCEPT ![F(p, r)] = "paying"]
  /\ UNCHANGED <<rows, rushed, settling, recovering>>

RefundConfirmed(p, r) ==
  /\ fpc[F(p, r)] = "paying" /\ stage[F(p, r)] = "returned"
  /\ W!Receipt(held[F(p, r)]) = "success"
  /\ SetStatus(p, "refunded")
  /\ W!Resume(F(p, r))
  /\ fpc' = [fpc EXCEPT ![F(p, r)] = "done"]
  /\ UNCHANGED <<rushed, settling, recovering>>

\* The incoming transfer did not confirm, or could not be looked up.
RefundRefused(p, r) ==
  /\ fpc[F(p, r)] = "checked"
  /\ fpc' = [fpc EXCEPT ![F(p, r)] = "done"]
  /\ UNCHANGED <<rows, rushed, settling, recovering, wallet>>

\* The transfer threw, reverted or timed out, or setStatus threw.
RefundGivesUp(p, r) ==
  /\ fpc[F(p, r)] = "paying"
  /\ W!Resume(F(p, r))
  /\ fpc' = [fpc EXCEPT ![F(p, r)] = "unsure"]
  /\ UNCHANGED <<rows, rushed, settling, recovering>>

RefundStep(p, r) ==
  \/ RefundReads(p, r) \/ RefundSubmits(p, r) \/ RefundConfirmed(p, r)
  \/ RefundRefused(p, r) \/ RefundGivesUp(p, r)

-----------------------------------------------------------------------------
(* The chain and the process.                                              *)

Succeeded(c) ==
  {i \in 1 .. Len(outcome) : slots[i].call = c /\ outcome[i] = "success"}
Pulled(p) == Succeeded(PullCall(p)) # {}

\* A pull may always revert (expired, unfunded, used elsewhere) and succeeds
\* once; the facilitator's own transfers revert only if PayMayRevert.
CanEndAs(c, o) ==
  IF c.kind = "pull"
  THEN o = "success" => ~Pulled(c.of)
  ELSE o = "reverted" => PayMayRevert

Mine ==
  /\ \E o \in {"success", "reverted"} :
       W!Mine(o) /\ CanEndAs(slots[Len(outcome) + 1].call, o)
  /\ UNCHANGED <<rows, settling, recovering, refunding>>

\* Handlers and recovery tasks die; the table stays, its locks included.
Crash ==
  /\ W!Crash
  /\ spc' = [p \in Payments |-> IF spc[p] = "new" THEN "new" ELSE "done"]
  /\ rpc' = [p \in Payments |-> "idle"]
  /\ snap' = [p \in Payments |-> NoSnap]
  /\ fpc' = [f \in Refunders |->
       CASE fpc[f] = "checked" -> "done"
         [] fpc[f] = "paying" -> "unsure"
         [] OTHER -> fpc[f]]
  /\ UNCHANGED <<rows, answer, overlap, rushed>>

Next ==
  \/ \E t \in Callers : WalletStep(t)
  \/ \E p \in Payments : SettleStep(p)
  \/ ClaimIncompletePayments
  \/ \E p \in Payments : LockGoesStale(p) \/ RecoverStep(p)
  \/ \E p \in Payments, r \in Refunds : RefundStep(p, r)
  \/ Mine
  \/ Crash

Spec == Init /\ [][Next]_vars

\* Handlers run on, requests to the node and the database end, accepted
\* transactions are mined, locks go stale and the worker's interval fires.
\* The node and the database answer infinitely often, so recovery steps that
\* are possible again and again are eventually taken.
Fairness ==
  /\ WF_vars(Mine)
  /\ WF_vars(ClaimIncompletePayments)
  /\ \A t \in Callers : WF_vars(WalletStep(t))
  /\ \A p \in Payments :
       /\ WF_vars(SettleStep(p) /\ spc[p] # "new")
       /\ WF_vars(LockGoesStale(p))
       /\ WF_vars(RecoverStep(p))
       /\ SF_vars(RecoverResendsPull(p)) /\ SF_vars(RecoverPulled(p))
       /\ SF_vars(RecoverPullReverted(p)) /\ SF_vars(RecoverPays(p))
       /\ SF_vars(RecoverSubmitted(p)) /\ SF_vars(RecoverResendsPay(p))
       /\ SF_vars(RecoverConfirmed(p))

FairSpec == Spec /\ Fairness

-----------------------------------------------------------------------------
(* Properties.                                                             *)

Row == [status : Statuses, inTx : W!Tx \cup {NoTx}, outTx : W!Tx \cup {NoTx}]

\* Types of the payments table, the handlers and the worker.
TypeOK ==
  /\ status \in [Payments -> Statuses]
  /\ inTx \in [Payments -> W!Tx \cup {NoTx}]
  /\ outTx \in [Payments -> W!Tx \cup {NoTx}]
  /\ locked \in [Payments -> BOOLEAN]
  /\ spc \in [Payments ->
       {"new", "accepted", "pulling", "pulled", "paying", "done"}]
  /\ answer \in [Payments -> W!Tx \cup {NoTx}]
  /\ rpc \in [Payments -> {"idle", "begin", "pullwait", "paying", "paywait"}]
  /\ snap \in [Payments -> Row]
  /\ fpc \in [Refunders ->
       {"idle", "checked", "paying", "done", "unsure"}]
  /\ overlap \in SUBSET Payments /\ rushed \in SUBSET Payments
  /\ W!TypeOK

Payees == {OutCall(p) : p \in Payments}
Owed(c) == {p \in Payments : OutCall(p) = c /\ Pulled(p)}
TimesPaid(c) == Cardinality(Succeeded(c))
TimesRefunded(p) == Cardinality(Succeeded(RefundCall(p)))

\* The columns recordIncomingIntent and recordOutgoingIntent fill name this
\* payment's own transactions, and the money a row promises to the merchant
\* was pulled first: nobody signs an outgoing transfer for a payment whose
\* incoming transfer has not succeeded.
PulledBeforePay ==
  \A p \in Payments :
    /\ inTx[p] # NoTx => inTx[p].call = PullCall(p)
    /\ outTx[p] # NoTx => outTx[p].call = OutCall(p) /\ Pulled(p)

\* Every transaction that a row, or the worker's copy of it, names was signed
\* for this very payment, an outgoing one after the pull succeeded.
NamesOwnTxs ==
  \A p \in Payments :
    /\ \A x \in {inTx[p], snap[p].inTx} :
         x # NoTx => x \in signed /\ x.call = PullCall(p)
    /\ \A x \in {outTx[p], snap[p].outTx} :
         x # NoTx => x \in signed /\ x.call = OutCall(p) /\ Pulled(p)

\* A status is written after what it reports: the intent or the pull.
StatusBacked ==
  \A p \in Payments :
    /\ \A s \in {status[p], snap[p].status} :
         s \in {"incoming_complete", "outgoing_submitted"} => Pulled(p)
    /\ status[p] = "incoming_submitted" => inTx[p] # NoTx
    /\ snap[p].status = "incoming_submitted" => snap[p].inTx # NoTx

\* How far each handler is, and what it has the wallet submit.
HandlersInStep ==
  \A p \in Payments :
    /\ spc[p] \in {"pulled", "paying"} => Pulled(p)
    /\ rpc[p] # "idle" => snap[p].status \in Incomplete
    /\ rpc[p] = "paying" => Pulled(p)
    /\ rpc[p] = "paywait" => snap[p].outTx # NoTx
    /\ stage[S(p)] # "idle" =>
         \/ spc[p] = "pulling" /\ call[S(p)] = PullCall(p)
         \/ spc[p] = "paying" /\ call[S(p)] = OutCall(p)
    /\ stage[R(p)] # "idle" => rpc[p] = "paying" /\ call[R(p)] = OutCall(p)
    /\ \A r \in Refunds : stage[F(p, r)] # "idle" =>
         fpc[F(p, r)] = "paying" /\ call[F(p, r)] = RefundCall(p)

\* "Persist the signed INCOMING transfer BEFORE broadcast": a pull the node
\* holds is the one its row names, and the row has left `pending', so recovery
\* will see it whatever happens to the handler.
IntentBeforeBroadcast ==
  \A i \in 1 .. Len(slots) :
    /\ \A p \in Payments : slots[i].call = PullCall(p) =>
         inTx[p] = slots[i] /\ status[p] \notin {"none", "pending"}
    /\ slots[i].call \in Payees =>
         \E p \in Payments : OutCall(p) = slots[i].call /\ outTx[p] # NoTx

\* A row is `complete' only on the receipt of the very transaction it names.
CompleteWasPaid ==
  \A p \in Payments : status[p] = "complete" =>
    outTx[p] # NoTx /\ W!Receipt(outTx[p]) = "success"

\* Why these two hold: the inductive invariant of the composition.
SettleInv ==
  /\ TypeOK /\ W!WalletInv
  /\ NamesOwnTxs /\ StatusBacked /\ HandlersInStep /\ CompleteWasPaid

\* "so the refund guard stays trustworthy": a payment that owes its merchant
\* something is failed only when the pull itself reverted.  A row that refund
\* may act on therefore never belongs to a merchant who is, or will be, paid.
FailedNeverPaid ==
  \A p \in Payments : status[p] \in {"failed", "refunded"} /\ Net[p] # 0 =>
    /\ status[p] = "failed" /\ W!Receipt(inTx[p]) = "reverted"
    /\ outTx[p] = NoTx /\ \A r \in Refunds : stage[F(p, r)] = "idle"

\* Handlers, the worker and refunds use the wallet only as its specification
\* allows, whatever they do concurrently: settlement implements the submitter.
WalletSpec == W!Spec

\* Exactly-once payout, and the only way to lose it: a merchant gets more
\* transfers than payments were pulled for it only when the worker claimed a
\* row whose /settle handler was still running.
OverpaidOnlyByOverlap ==
  \A c \in Payees : TimesPaid(c) > Cardinality(Owed(c)) =>
    \E p \in overlap : OutCall(p) = c

\* The wallet's transactions are sent in the order of their nonces.
SlotsInOrder ==
  \A i \in 1 .. Len(slots) : slots[i] \in signed /\ slots[i].nonce = i - 1

\* No one has signed a payout for p yet, so the row names none.
PayoutUnsigned(p) ==
  \/ spc[p] \in {"accepted", "pulling", "pulled"}
  \/ spc[p] = "paying" /\ stage[S(p)] \in {"queued", "allocated"}
  \/ rpc[p] \in {"begin", "pullwait"} /\ snap[p].status # "outgoing_submitted"
  \/ rpc[p] = "paying" /\ stage[R(p)] \in {"queued", "allocated"}

\* A row that was never taken over has one worker at a time, who signs a payout
\* only while the row names none and then goes on with the one it names.
OneWorkerAt(p) ==
  /\ status[p] = "none" => rpc[p] = "idle"
  /\ status[p] = "outgoing_submitted" => outTx[p] # NoTx
  /\ rpc[p] # "idle" /\ snap[p].status = "outgoing_submitted" =>
       snap[p].outTx # NoTx
  /\ rpc[p] = "paywait" => snap[p].status = "outgoing_submitted"
  /\ rpc[p] = "paying" => snap[p].status # "outgoing_submitted"
  /\ p \notin overlap =>
       /\ Live(p) => rpc[p] = "idle"
       /\ outTx[p] # NoTx => status[p] \in Terminal \cup {"outgoing_submitted"}
       /\ PayoutUnsigned(p) => outTx[p] = NoTx
       /\ spc[p] = "paying" /\ stage[S(p)] \in {"signed", "returned"} =>
            outTx[p] = held[S(p)]
       /\ rpc[p] = "paying" /\ stage[R(p)] \in {"signed", "returned"} =>
            outTx[p] = held[R(p)]
       /\ rpc[p] # "idle" /\ snap[p].status = "outgoing_submitted" =>
            outTx[p] = snap[p].outTx

OneWorker == \A p \in Payments : OneWorkerAt(p)

\* Every payout ever signed is the one some row names, or names a payee of a
\* row that was taken over.
PayoutsNamed ==
  \A x \in signed : x.call \in Payees =>
    \E p \in Payments :
      OutCall(p) = x.call /\ (p \in overlap \/ outTx[p] = x)

\* Why OverpaidOnlyByOverlap holds.
PayoutInv == SettleInv /\ SlotsInOrder /\ OneWorker /\ PayoutsNamed

\* A pull is signed once, and from then on it is the one its row names.
PullUnsigned(p) ==
  \/ spc[p] \in {"new", "accepted"}
  \/ spc[p] = "pulling" /\ stage[S(p)] \in {"queued", "allocated"}

PullAt(p) ==
  /\ spc[p] = "new" => status[p] = "none"
  /\ PullUnsigned(p) => inTx[p] = NoTx
  /\ inTx[p] # NoTx => status[p] \notin {"none", "pending"}

PullsNamed ==
  /\ \A p \in Payments : PullAt(p)
  /\ \A x \in signed : \A p \in Payments : x.call = PullCall(p) => inTx[p] = x

PayoutsRecorded ==
  \A x \in signed : x.call \in Payees =>
    \E p \in Payments : OutCall(p) = x.call /\ outTx[p] # NoTx

\* A refund gives back what was pulled; a payment that owes its merchant
\* something is failed, and offered to a refund, only by a reverted pull.
PullFailed(p) == inTx[p] # NoTx /\ W!Receipt(inTx[p]) = "reverted"

RefundAt(p) ==
  /\ \A x \in signed : x.call = RefundCall(p) => Pulled(p) /\ Net[p] = 0
  /\ \A r \in Refunds :
       /\ fpc[F(p, r)] # "idle" => inTx[p] # NoTx
       /\ fpc[F(p, r)] = "paying" => Pulled(p)
  /\ Net[p] # 0 =>
       /\ status[p] \in {"failed", "refunded"} => status[p] = "failed" /\ PullFailed(p)
       /\ \A r \in Refunds : fpc[F(p, r)] # "idle" =>
            PullFailed(p) /\ fpc[F(p, r)] \in {"checked", "done"}

\* A row that was never taken over has no worker once it is terminal.
ClosedAt(p) ==
  p \notin overlap =>
    /\ status[p] \in Terminal => ~Live(p) /\ rpc[p] = "idle"
    /\ \A r \in Refunds : fpc[F(p, r)] \in {"checked", "paying", "unsure"} =>
         status[p] \in {"failed", "refunded"}

\* Without a rush, one request at a time refunds, and none after a signed one.
RefundUnsigned(p, r) ==
  \/ fpc[F(p, r)] = "checked"
  \/ fpc[F(p, r)] = "paying" /\ stage[F(p, r)] \in {"queued", "allocated"}

RefundsOf(p) == {x \in signed : x.call = RefundCall(p)}

OneRefundAt(p) ==
  p \notin overlap \cup rushed =>
    /\ \A r, s \in Refunds :
         fpc[F(p, r)] \in {"checked", "paying", "unsure"}
         /\ fpc[F(p, s)] \in {"checked", "paying", "unsure"} => r = s
    /\ \A r \in Refunds : RefundUnsigned(p, r) => RefundsOf(p) = {}
    /\ RefundsOf(p) # {} => \/ status[p] = "refunded"
                            \/ \E r \in Refunds : fpc[F(p, r)] \in {"paying", "unsure"}
    /\ \A x, y \in RefundsOf(p) : x = y

\* Why FailedNeverPaid, RefundBacked, RefundedTwiceOnlyRushed, TerminalIsFinal
\* and the escrow hold.
RefundInv ==
  /\ PayoutInv /\ PullsNamed /\ PayoutsRecorded
  /\ \A p \in Payments : RefundAt(p) /\ ClosedAt(p) /\ OneRefundAt(p)

\* Has the wallet perhaps forgotten its mark while the node's count trails?
Forgetful == PendingLag > 0 /\ (fails > 0 \/ crashes > 0)

\* harness/scripts/settle-once.ts: "every settlement must have a distinct
\* outgoing tx".  What a merchant is told was settled, with that very
\* transaction, is a mined payment of its own, although two handlers may sign
\* for one account nonce and two rows may end up naming one transaction.
AnswersBacked ==
  Forgetful \/ \A p \in Payments : answer[p] # NoTx =>
    /\ answer[p].call = OutCall(p) /\ W!Receipt(answer[p]) = "success"
    /\ \A q \in Payments \ {p} : answer[q] # answer[p]

\* The transaction p's handler has told, or may still tell, its merchant of.
Credited(p) ==
  answer[p] # NoTx \/ (spc[p] = "paying" /\ stage[S(p)] = "returned")
Credit(p) == IF answer[p] # NoTx THEN answer[p] ELSE held[S(p)]

\* The nonce of each is used, no two share one, and it is not handed out again.
CreditsApart ==
  Forgetful \/ \A p \in Payments : Credited(p) =>
    /\ Credit(p).nonce < Len(slots)
    /\ \A q \in Payments \ {p} : Credited(q) => Credit(q).nonce # Credit(p).nonce
    /\ \A t \in Callers : stage[t] \in W!Critical => Credit(p).nonce < acct[t]

AnswersMined ==
  \A p \in Payments : answer[p] # NoTx =>
    /\ spc[p] = "done" /\ answer[p] \in signed
    /\ answer[p].call = OutCall(p) /\ W!Receipt(answer[p]) = "success"

\* Why AnswersBacked holds.
AnswerInv == SettleInv /\ AnswersMined /\ CreditsApart

\* The rows that say a transfer to payee c is complete.
CompletedTo(c) == {p \in Payments : OutCall(p) = c /\ status[p] = "complete"}

\* "funds conserved across concurrent settlements", the merchant's side of it:
\* two rows of one payee and amount never rest on one transfer, though the worker
\* may take a row over, each may give up waiting at any time and the node's count
\* may trail.  Once a submission failed or the process restarted they may: two
\* payments can then have signed the same bytes.
UnderpaidOnlyByFault ==
  \A c \in Payees : Cardinality(CompletedTo(c)) > TimesPaid(c) =>
    fails > 0 \/ crashes > 0

\* p's row, its handler or its worker goes by transaction x as p's payout.
Holds(t, x) == stage[t] \in {"signed", "returned"} /\ held[t] = x
Names(p, x) ==
  /\ x.call = OutCall(p)
  /\ outTx[p] = x \/ snap[p].outTx = x \/ Holds(S(p), x) \/ Holds(R(p), x)

\* While nothing failed, no transaction is the payout of two payments.
NamesApart ==
  fails > 0 \/ crashes > 0 \/
  \A x \in signed : \A p, q \in Payments : Names(p, x) /\ Names(q, x) => p = q

\* Why UnderpaidOnlyByFault holds.
NamesInv == SettleInv /\ NamesApart

\* TERMINAL_STATUSES: a row that was completed, failed or refunded stays so
\* (but for the refund of a failed one), unless the worker and the handler
\* worked on it at once.
TerminalIsFinal ==
  [][\A p \in Payments \ overlap : status[p] \in Terminal =>
       \/ status'[p] = status[p]
       \/ status[p] = "failed" /\ status'[p] = "refunded"]_vars

\* Money, seen from outside: what the chain executed of this wallet's
\* transactions is a behaviour of the escrow.  Only what was pulled is passed
\* on or given back, never both, and neither twice but for the two races it
\* names.
E == INSTANCE Escrow WITH
  Payee <- [p \in Payments |-> OutCall(p)],
  Amount <- Net,
  pulled <- {p \in Payments : Pulled(p)},
  paid <- [c \in Payees |-> TimesPaid(c)],
  refunded <- [p \in Payments |-> TimesRefunded(p)],
  contested <- overlap

EscrowSpec == E!Spec

\* executeRefund locks nothing and stores no intent; all that keeps a payer from
\* being refunded twice is that a request read the row after the refund before
\* it had ended well, and that nobody else still worked on the row.
RefundedTwiceOnlyRushed ==
  \A p \in Payments : TimesRefunded(p) > 1 => p \in overlap \cup rushed

\* executeRefund pays back only what was pulled and owes no merchant anything:
\* its guards, checked on a row and a receipt read earlier, still hold when the
\* transfer is sent.
RefundBacked ==
  \A p \in Payments :
    (\E i \in 1 .. Len(slots) : slots[i].call = RefundCall(p)) =>
      Pulled(p) /\ Net[p] = 0

\* A handler that stops after its nonce is claimed and before it signed
\* (merchant disabled, gas too low, an error, a restart) leaves the row
\* `pending' for good: recovery passes it over, so its payer's funds never move.
AbandonedMovesNothing ==
  [][\A p \in Payments : status[p] = "pending" /\ ~Live(p) =>
       status'[p] = "pending" /\ \A x \in signed' : x.call # PullCall(p)]_vars

\* docs/deployment.md: "a crash or RPC timeout can never pay a merchant twice".
NeverPaidTwice == \A c \in Payees : TimesPaid(c) <= Cardinality(Owed(c))

\* The nonce of the row's outgoing transaction was used, and not to pay.
Spent(p) ==
  /\ outTx[p] # NoTx /\ outTx[p].nonce < Len(outcome)
  /\ W!Receipt(outTx[p]) # "success"

\* The worker's purpose: on its own, a payment survives errors and restarts.
\* Once its funds are pulled its merchant is eventually paid, but for the one way
\* in which a payment gets stuck: its stored outgoing transaction reverted, or
\* lost its nonce to another, and nothing replaces it (recoverPayment, Phase 2).
EventuallyPaid ==
  \A p \in Payments : Pulled(p) ~> (status[p] = "complete" \/ Spent(p))

\* Stage 0's purpose: a pull that was signed is confirmed, failed or handed
\* on eventually.  The one "zombie incoming" (getStuckPayments) is a pull whose
\* account nonce went to another transaction before it was sent.
IncomingResolves ==
  \A p \in Payments :
    status[p] = "incoming_submitted" ~>
      \/ status[p] # "incoming_submitted"
      \/ inTx[p].nonce < Len(outcome) /\ W!Receipt(inTx[p]) = "none"

=============================================================================
