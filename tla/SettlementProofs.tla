-------------------------- MODULE SettlementProofs --------------------------
(***************************************************************************)
(* Proofs about settlement, for any payments, merchants, amounts and       *)
(* bounds, each part with an inductive invariant of Settlement:            *)
(*   SettleInv  rows, handlers and the wallet are in step                  *)
(*   PayoutInv  a merchant is overpaid only by a takeover                  *)
(*   AnswerInv  what merchants are told is mined                           *)
(*   NamesInv   a complete row rests on a transfer of its own              *)
(*   RefundInv  refunds, terminal rows and the escrow                      *)
(***************************************************************************)
EXTENDS Settlement, SequenceTheorems, FiniteSetTheorems, TLAPS

WP == INSTANCE TxSubmitterProofs WITH Tasks <- Callers

\* The wallet inside Settlement is the wallet the submitter's proofs are about.
LEMMA SameAllocate == \A t \in Callers : W!Allocate(t) <=> WP!Allocate(t)
BY Zenon DEF W!Allocate, WP!Allocate, W!PendingCounts, WP!PendingCounts,
   W!AllocatedNonce, WP!AllocatedNonce, W!Greater, WP!Greater, W!HoldsLock,
   WP!HoldsLock, W!chain, WP!chain

LEMMA SameSign ==
  \A t \in Callers, fee \in Fees :
    (W!Sign(t, fee) <=> WP!Sign(t, fee)) /\ W!SignedBy(t, fee) = WP!SignedBy(t, fee)
BY Zenon DEF W!Sign, WP!Sign, W!SignedBy, WP!SignedBy, W!chain, WP!chain

LEMMA SameNext == W!Next <=> WP!Next
<1> USE DEF W!chain, WP!chain, W!wallet, WP!wallet, W!Tx, WP!Tx, W!Stages,
   WP!Stages, W!Critical, WP!Critical, W!Greater, WP!Greater, W!Accepts,
   WP!Accepts, W!Deliver, WP!Deliver, W!Underpriced, WP!Underpriced,
   W!PendingCounts, WP!PendingCounts, W!HoldsLock, WP!HoldsLock, W!Release,
   WP!Release, W!RoomForTx, WP!RoomForTx, W!AllocatedNonce,
   WP!AllocatedNonce, W!Fail, WP!Fail, W!SignedBy, WP!SignedBy, W!Resync,
   WP!Resync
<1>1. \A t \in Callers, c \in Calls : W!Submit(t, c) <=> WP!Submit(t, c)
  BY Zenon DEF W!Submit, WP!Submit
<1>2. \A t \in Callers : W!Allocate(t) <=> WP!Allocate(t)
  BY SameAllocate
<1>3. \A t \in Callers : W!AllocateFails(t) <=> WP!AllocateFails(t)
  BY Zenon DEF W!AllocateFails, WP!AllocateFails
<1>4. \A t \in Callers, fee \in Fees : W!Sign(t, fee) <=> WP!Sign(t, fee)
  BY SameSign
<1>5. \A t \in Callers, fee \in Fees, b \in BOOLEAN : 
        W!SignFails(t, fee, b) <=> WP!SignFails(t, fee, b)
  BY Zenon DEF W!SignFails, WP!SignFails
<1>6. \A t \in Callers : W!Broadcast(t) <=> WP!Broadcast(t)
  BY Zenon DEF W!Broadcast, WP!Broadcast
<1>7. \A t \in Callers : W!BroadcastRejected(t) <=> WP!BroadcastRejected(t)
  BY Zenon DEF W!BroadcastRejected, WP!BroadcastRejected
<1>8. \A t \in Callers, b \in BOOLEAN : 
        W!BroadcastFails(t, b) <=> WP!BroadcastFails(t, b)
  BY Zenon DEF W!BroadcastFails, WP!BroadcastFails
<1>9. \A t \in Callers : W!Resume(t) <=> WP!Resume(t)
  BY Zenon DEF W!Resume, WP!Resume
<1>10. \A x \in signed : W!Rebroadcast(x) <=> WP!Rebroadcast(x)
  BY Zenon DEF W!Rebroadcast, WP!Rebroadcast
<1>11. \A o \in {"success", "reverted"} : W!Mine(o) <=> WP!Mine(o)
  BY Zenon DEF W!Mine, WP!Mine
<1>12. W!Crash <=> WP!Crash
  BY Zenon DEF W!Crash, WP!Crash
<1>13. QED
  BY <1>1, <1>2, <1>3, <1>4, <1>5, <1>6, <1>7, <1>8, <1>9, <1>10, <1>11, <1>12
     DEF W!Next, WP!Next, W!Proceed, WP!Proceed

LEMMA SameWalletInv ==
  (W!WalletInv <=> WP!WalletInv) /\ (W!WalletInv' <=> WP!WalletInv')
BY Zenon DEF W!WalletInv, WP!WalletInv, W!TypeOK, WP!TypeOK, W!HolderOnly,
   WP!HolderOnly, W!MarkInStep, WP!MarkInStep, W!HeldIsSigned,
   WP!HeldIsSigned, W!NoGap, WP!NoGap, W!HoldsLock, WP!HoldsLock,
   W!Critical, WP!Critical, W!Tx, WP!Tx, W!Stages, WP!Stages

LEMMA SameInit == W!Init <=> WP!Init
BY Zenon DEF W!Init, WP!Init

LEMMA SameVars == (UNCHANGED W!vars) <=> UNCHANGED WP!vars
BY Zenon DEF W!vars, WP!vars, W!wallet, WP!wallet, W!chain, WP!chain

LEMMA SameTypeOK == (W!TypeOK <=> WP!TypeOK) /\ (W!TypeOK' <=> WP!TypeOK')
BY Zenon DEF W!TypeOK, WP!TypeOK, W!Tx, WP!Tx, W!Stages, WP!Stages

\* Settlement gives the wallet's constants values its proofs allow.
LEMMA WalletAssumption == WP!TxSubmitterAssumption
BY SettlementAssumption DEF WP!TxSubmitterAssumption, W!Tx, WP!Tx

LEMMA WalletInit == W!Init => W!WalletInv
BY WP!InitInv, WalletAssumption, SameInit, SameWalletInv

LEMMA WalletStepInv == W!WalletInv /\ [W!Next]_(W!vars) => W!WalletInv'
BY WP!StepInv, WalletAssumption, SameNext, SameVars, SameWalletInv

LEMMA WalletGrows ==
  ASSUME W!TypeOK, [W!Next]_(W!vars)
  PROVE  /\ signed \subseteq signed'
         /\ Len(slots) <= Len(slots') /\ Len(outcome) <= Len(outcome')
         /\ \A i \in 1 .. Len(slots) : slots'[i] = slots[i]
         /\ \A i \in 1 .. Len(outcome) : outcome'[i] = outcome[i]
BY WP!Grows, WalletAssumption, SameNext, SameVars, SameTypeOK

LEMMA WalletReceiptStable ==
  ASSUME W!TypeOK, W!TypeOK', [W!Next]_(W!vars),
         NEW x \in W!Tx, W!Receipt(x) # "none"
  PROVE  W!Receipt(x)' = W!Receipt(x)
<1>1. x \in WP!Tx
  BY DEF W!Tx, WP!Tx
<1>2. WP!Receipt(x) = W!Receipt(x) /\ WP!Receipt(x)' = W!Receipt(x)'
  BY Zenon DEF W!Receipt, WP!Receipt
<1>3. QED
  BY <1>1, <1>2, WP!ReceiptStable, WalletAssumption, SameNext, SameVars,
     SameTypeOK

-----------------------------------------------------------------------------
(* Every step of settlement is a step of the wallet, or leaves it alone.   *)

LEMMA CallersApart ==
  /\ \A p, q \in Payments :
       /\ S(p) # R(q)
       /\ p # q => S(p) # S(q) /\ R(p) # R(q)
       /\ \A r, s \in Refunds :
            /\ S(p) # F(q, r) /\ R(p) # F(q, r)
            /\ <<p, r>> # <<q, s>> => F(p, r) # F(q, s)
  /\ \A p \in Payments :
       /\ S(p) \in Callers /\ R(p) \in Callers
       /\ \A r \in Refunds : F(p, r) \in Callers /\ F(p, r) \in Refunders
<1>1. ASSUME NEW p \in Payments, NEW q \in Payments
      PROVE  /\ S(p) # R(q)
             /\ p # q => S(p) # S(q) /\ R(p) # R(q)
  BY DEF S, R
<1>2. ASSUME NEW p \in Payments, NEW q \in Payments,
             NEW r \in Refunds, NEW s \in Refunds
      PROVE  /\ S(p) # F(q, r) /\ R(p) # F(q, r)
             /\ <<p, r>> # <<q, s>> => F(p, r) # F(q, s)
  BY SMT DEF S, R, F
<1>3. ASSUME NEW p \in Payments
      PROVE  /\ S(p) \in Callers /\ R(p) \in Callers
             /\ \A r \in Refunds : F(p, r) \in Callers /\ F(p, r) \in Refunders
  BY DEF Callers, Refunders
<1>4. QED BY <1>1, <1>2, <1>3

LEMMA InitSettle == Init => SettleInv
<1> SUFFICES ASSUME Init PROVE SettleInv
  OBVIOUS
<1>1. W!WalletInv
  BY WalletInit DEF Init
<1>2. TypeOK
  BY <1>1 DEF Init, TypeOK, W!WalletInv, Statuses, Incomplete, Terminal, Row, NoSnap
<1>3. NamesOwnTxs /\ StatusBacked /\ CompleteWasPaid
  BY DEF Init, NamesOwnTxs, StatusBacked, CompleteWasPaid, NoSnap
<1>4. \A t \in Callers : stage[t] = "idle"
  BY Zenon DEF Init, W!Init
<1>5. HandlersInStep
  BY <1>4, CallersApart DEF Init, HandlersInStep
<1>6. QED BY <1>1, <1>2, <1>3, <1>5 DEF SettleInv

LEMMA ResendIsWalletStep ==
  ASSUME NEW x \in signed, BroadcastRaw(x)
  PROVE  [W!Next]_(W!vars)
BY DEF BroadcastRaw, W!Next, W!vars, W!wallet, W!chain, wallet

LEMMA WalletPart == SettleInv /\ [Next]_vars => [W!Next]_(W!vars)
<1> SUFFICES ASSUME SettleInv, [Next]_vars PROVE [W!Next]_(W!vars)
  OBVIOUS
<1> USE DEF SettleInv
<1>1. ASSUME UNCHANGED wallet PROVE UNCHANGED W!vars
  BY <1>1 DEF wallet, W!vars, W!wallet, W!chain
<1>2. ASSUME NEW p \in Payments
      PROVE  /\ S(p) \in Callers /\ R(p) \in Callers
             /\ \A r \in Refunds : F(p, r) \in Callers
  BY DEF Callers, Refunders
<1>3. ASSUME NEW p \in Payments
      PROVE  PullCall(p) \in Calls /\ OutCall(p) \in Calls /\ RefundCall(p) \in Calls
  BY DEF Calls
<1>4. ASSUME NEW t \in Callers, WalletStep(t) PROVE W!Next
  <2>1. W!Proceed(t)
    BY <1>4 DEF WalletStep, WalletSign, WalletSignFails, WalletOther, W!Proceed
  <2>2. QED BY <2>1 DEF W!Next
<1>5. ASSUME NEW p \in Payments, SettleStep(p) PROVE [W!Next]_(W!vars)
  <2>1. UNCHANGED wallet \/ W!Resume(S(p)) \/ \E c \in Calls : W!Submit(S(p), c)
    BY <1>3, <1>5 DEF SettleStep, SettleAccepted, SettleRefused, SettlePull,
       SettlePulled, SettlePullReverted, SettleBreaks, SettlePay, SettlePaid,
       SettleGivesUp
  <2>2. QED BY <1>1, <1>2, <2>1 DEF W!Next, W!Proceed
<1>6. ASSUME NEW p \in Payments, RecoverStep(p) PROVE [W!Next]_(W!vars)
  <2>1. CASE RecoverResendsPull(p)
    <3>1. snap[p].inTx \in signed
      BY <2>1 DEF RecoverResendsPull, InStage0, NamesOwnTxs, StatusBacked
    <3>2. QED BY <2>1, <3>1, ResendIsWalletStep DEF RecoverResendsPull
  <2>2. CASE RecoverResendsPay(p)
    <3>1. snap[p].outTx \in signed
      BY <2>2 DEF RecoverResendsPay, InPhase2, NeedsOutgoing, NamesOwnTxs
    <3>2. QED BY <2>2, <3>1, ResendIsWalletStep DEF RecoverResendsPay
  <2>3. CASE RecoverPays(p) \/ RecoverSubmitted(p) \/ RecoverGivesUp(p)
    <3>1. UNCHANGED wallet \/ W!Resume(R(p)) \/ \E c \in Calls : W!Submit(R(p), c)
      BY <1>3, <2>3 DEF RecoverPays, RecoverSubmitted, RecoverGivesUp
    <3>2. QED BY <1>1, <1>2, <3>1 DEF W!Next, W!Proceed
  <2>4. CASE RecoverPulled(p) \/ RecoverPullReverted(p) \/ RecoverZeroAmount(p)
             \/ RecoverConfirmed(p)
    BY <1>1, <2>4 DEF RecoverPulled, RecoverPullReverted, RecoverZeroAmount,
       RecoverConfirmed
  <2>5. QED BY <1>6, <2>1, <2>2, <2>3, <2>4 DEF RecoverStep
<1>7. ASSUME NEW p \in Payments, NEW r \in Refunds, RefundStep(p, r)
      PROVE  [W!Next]_(W!vars)
  <2>1. \/ UNCHANGED wallet \/ W!Resume(F(p, r))
        \/ \E c \in Calls : W!Submit(F(p, r), c)
    BY <1>3, <1>7 DEF RefundStep, RefundReads, RefundSubmits, RefundConfirmed,
       RefundRefused, RefundGivesUp
  <2>2. QED BY <1>1, <1>2, <2>1 DEF W!Next, W!Proceed
<1>8. CASE ClaimIncompletePayments \/ UNCHANGED vars
  BY <1>1, <1>8 DEF ClaimIncompletePayments, vars
<1>9. CASE \E p \in Payments : LockGoesStale(p)
  BY <1>1, <1>9 DEF LockGoesStale
<1>10. CASE Mine
  BY <1>10 DEF Mine, W!Next
<1>11. CASE Crash
  BY <1>11 DEF Crash, W!Next
<1>12. QED
  BY <1>4, <1>5, <1>6, <1>7, <1>8, <1>9, <1>10, <1>11 DEF Next

-----------------------------------------------------------------------------
(* What every step keeps: receipts stay, so what was pulled stays pulled.  *)

LEMMA ReceiptIsPull ==
  ASSUME W!TypeOK, NEW p \in Payments, NEW x \in W!Tx,
         x.call = PullCall(p), W!Receipt(x) = "success"
  PROVE  Pulled(p)
<1>1. x.nonce \in Nat /\ x.nonce < Len(outcome) /\ slots[x.nonce + 1] = x
      /\ outcome[x.nonce + 1] = "success"
  BY DEF W!Receipt, W!Tx
<1>2. x.nonce + 1 \in 1 .. Len(outcome)
  BY <1>1 DEF W!TypeOK
<1>3. QED BY <1>1, <1>2 DEF Pulled, Succeeded

LEMMA Frame ==
  ASSUME SettleInv, [Next]_vars
  PROVE  /\ W!WalletInv' /\ signed \subseteq signed'
         /\ \A p \in Payments : Pulled(p) => Pulled(p)'
         /\ \A x \in W!Tx : W!Receipt(x) = "success" => W!Receipt(x)' = "success"
<1>1. [W!Next]_(W!vars)
  BY WalletPart
<1>2. W!WalletInv /\ W!TypeOK /\ W!WalletInv' /\ W!TypeOK'
  BY <1>1, WalletStepInv DEF SettleInv, W!WalletInv
<1>3. /\ signed \subseteq signed'
      /\ Len(slots) <= Len(slots') /\ Len(outcome) <= Len(outcome')
      /\ \A i \in 1 .. Len(slots) : slots'[i] = slots[i]
      /\ \A i \in 1 .. Len(outcome) : outcome'[i] = outcome[i]
  BY <1>1, <1>2, WalletGrows
<1>4. \A c : Succeeded(c) \subseteq Succeeded(c)'
  <2> SUFFICES ASSUME NEW c, NEW i \in 1 .. Len(outcome),
                      slots[i].call = c, outcome[i] = "success"
               PROVE  /\ i \in 1 .. Len(outcome')
                      /\ slots'[i].call = c /\ outcome'[i] = "success"
    BY DEF Succeeded
  <2>1. /\ Len(outcome) \in Nat /\ Len(slots) \in Nat /\ Len(outcome') \in Nat
        /\ Len(outcome) <= Len(slots)
    BY <1>2, LenProperties DEF W!TypeOK
  <2>2. i \in 1 .. Len(slots) /\ i \in 1 .. Len(outcome')
    BY <1>3, <2>1
  <2>3. QED BY <1>3, <2>2
<1>5. \A p \in Payments : Pulled(p) => Pulled(p)'
  BY <1>4 DEF Pulled, PullCall
<1>6. \A x \in W!Tx : W!Receipt(x) = "success" => W!Receipt(x)' = "success"
  BY <1>1, <1>2, WalletReceiptStable
<1>7. QED BY <1>2, <1>3, <1>5, <1>6

\* What a caller whose submission returned has in hand.
LEMMA ReturnedIsSigned ==
  ASSUME SettleInv, NEW t \in Callers, stage[t] = "returned"
  PROVE  held[t] \in signed /\ held[t] \in W!Tx /\ held[t].call = call[t]
BY DEF SettleInv, W!WalletInv, W!HeldIsSigned, W!TypeOK

LEMMA CallsApart ==
  \A p \in Payments :
    /\ PullCall(p) # OutCall(p) /\ PullCall(p) # RefundCall(p)
    /\ OutCall(p) # RefundCall(p)
BY DEF PullCall, OutCall, RefundCall

-----------------------------------------------------------------------------
(* Every step keeps the invariant, one lemma per group of actions.         *)

LEMMA SettleKeepsInv ==
  ASSUME SettleInv, [Next]_vars, NEW p \in Payments, SettleStep(p)
  PROVE  SettleInv'
<1> USE DEF SettleInv
<1>0. /\ W!WalletInv' /\ W!TypeOK' /\ signed \subseteq signed'
      /\ \A q \in Payments : Pulled(q) => Pulled(q)'
      /\ \A x \in W!Tx : W!Receipt(x) = "success" => W!Receipt(x)' = "success"
  BY Frame DEF W!WalletInv
<1>1. CASE SettleAccepted(p)
  <2>1. TypeOK'
    BY <1>0, <1>1 DEF TypeOK, SettleAccepted, RegisterNonce, recovering, refunding,
       Statuses
  <2>2. NamesOwnTxs' /\ StatusBacked' /\ CompleteWasPaid'
    BY <1>0, <1>1 DEF TypeOK, SettleAccepted, RegisterNonce, recovering,
       refunding, wallet, NamesOwnTxs, StatusBacked, CompleteWasPaid
  <2>3. HandlersInStep'
    BY <1>0, <1>1 DEF TypeOK, SettleAccepted, recovering, refunding, wallet,
       HandlersInStep
  <2>4. QED BY <1>0, <2>1, <2>2, <2>3
<1>2. CASE SettleRefused(p) \/ SettleBreaks(p)
  <2>1. TypeOK'
    BY <1>0, <1>2 DEF TypeOK, SettleRefused, SettleBreaks, SettleReturns, rows,
       recovering, refunding
  <2>2. NamesOwnTxs' /\ StatusBacked' /\ CompleteWasPaid'
    BY <1>0, <1>2 DEF TypeOK, SettleRefused, SettleBreaks, rows, recovering,
       wallet, NamesOwnTxs, StatusBacked, CompleteWasPaid
  <2>3. HandlersInStep'
    BY <1>0, <1>2 DEF TypeOK, SettleRefused, SettleBreaks, SettleReturns,
       recovering, refunding, wallet, HandlersInStep
  <2>4. QED BY <1>0, <2>1, <2>2, <2>3
<1>3. CASE SettlePull(p) \/ SettlePay(p)
  <2>1. TypeOK'
    BY <1>0, <1>3 DEF TypeOK, SettlePull, SettlePay, rows, recovering, refunding
  <2>2. NamesOwnTxs' /\ StatusBacked' /\ CompleteWasPaid'
    BY <1>0, <1>3 DEF TypeOK, SettlePull, SettlePay, rows, recovering,
       NamesOwnTxs, StatusBacked, CompleteWasPaid
  <2>3. HandlersInStep'
    <3>1. /\ stage' = [stage EXCEPT ![S(p)] = "queued"]
          /\ \/ spc[p] = "accepted" /\ spc' = [spc EXCEPT ![p] = "pulling"]
                /\ call' = [call EXCEPT ![S(p)] = PullCall(p)]
             \/ spc[p] = "pulled" /\ spc' = [spc EXCEPT ![p] = "paying"]
                /\ call' = [call EXCEPT ![S(p)] = OutCall(p)]
      BY <1>3 DEF SettlePull, SettlePay, W!Submit
    <3>2. UNCHANGED <<rpc, snap, fpc>>
      BY <1>3 DEF SettlePull, SettlePay, recovering, refunding
    <3>3. /\ stage \in [Callers -> W!Stages] /\ call \in [Callers -> Calls \cup {NoCall}]
          /\ spc \in [Payments -> {"new", "accepted", "pulling", "pulled", "paying", "done"}]
      BY DEF TypeOK, W!TypeOK
    <3>4. ASSUME NEW q \in Payments
          PROVE  /\ stage'[R(q)] = stage[R(q)] /\ call'[R(q)] = call[R(q)]
                 /\ \A r \in Refunds : /\ stage'[F(q, r)] = stage[F(q, r)]
                                       /\ call'[F(q, r)] = call[F(q, r)]
                 /\ q # p => /\ stage'[S(q)] = stage[S(q)] /\ call'[S(q)] = call[S(q)]
                             /\ spc'[q] = spc[q]
      BY <3>1, <3>3, CallersApart
    <3>5. \/ spc[p] = "accepted" /\ spc'[p] = "pulling" /\ call'[S(p)] = PullCall(p)
          \/ spc[p] = "pulled" /\ spc'[p] = "paying" /\ call'[S(p)] = OutCall(p)
      BY <3>1, <3>3, CallersApart
    <3>6. ASSUME NEW q \in Payments
          PROVE  /\ spc'[q] \in {"pulled", "paying"} => Pulled(q)'
                 /\ stage'[S(q)] # "idle" =>
                      \/ spc'[q] = "pulling" /\ call'[S(q)] = PullCall(q)
                      \/ spc'[q] = "paying" /\ call'[S(q)] = OutCall(q)
      BY <1>0, <3>4, <3>5 DEF HandlersInStep
    <3>7. ASSUME NEW q \in Payments
          PROVE  /\ rpc'[q] # "idle" => snap'[q].status \in Incomplete
                 /\ rpc'[q] = "paying" => Pulled(q)'
                 /\ rpc'[q] = "paywait" => snap'[q].outTx # NoTx
                 /\ stage'[R(q)] # "idle" => rpc'[q] = "paying" /\ call'[R(q)] = OutCall(q)
                 /\ \A r \in Refunds : stage'[F(q, r)] # "idle" =>
                      fpc'[F(q, r)] = "paying" /\ call'[F(q, r)] = RefundCall(q)
      BY <1>0, <3>2, <3>4 DEF HandlersInStep
    <3>8. QED
      BY <3>6, <3>7 DEF HandlersInStep, PullCall, OutCall, RefundCall
  <2>4. QED BY <1>0, <2>1, <2>2, <2>3
<1>4. ASSUME stage[S(p)] = "returned"
      PROVE  /\ held[S(p)] \in signed /\ held[S(p)] \in W!Tx
             /\ spc[p] = "pulling" => held[S(p)].call = PullCall(p)
             /\ spc[p] = "paying" => held[S(p)].call = OutCall(p) /\ Pulled(p)
  BY <1>4, ReturnedIsSigned, CallersApart DEF HandlersInStep
<1>5. CASE SettlePulled(p)
  <2>1. Pulled(p) /\ Pulled(p)'
    BY <1>0, <1>4, <1>5, ReceiptIsPull DEF SettlePulled, TypeOK
  <2>2. TypeOK'
    BY <1>0, <1>5 DEF TypeOK, SettlePulled, SetStatus, recovering, refunding,
       Statuses, Incomplete
  <2>3. NamesOwnTxs' /\ StatusBacked' /\ CompleteWasPaid'
    BY <1>0, <1>5, <2>1 DEF TypeOK, SettlePulled, SetStatus, recovering,
       NamesOwnTxs, StatusBacked, CompleteWasPaid
  <2>4. HandlersInStep'
    BY <1>0, <1>5, <2>1, CallersApart DEF TypeOK, W!TypeOK, SettlePulled,
       W!Resume, recovering, refunding, HandlersInStep
  <2>5. QED BY <1>0, <2>2, <2>3, <2>4
<1>6. CASE SettlePullReverted(p)
  <2>1. TypeOK'
    BY <1>0, <1>6 DEF TypeOK, SettlePullReverted, SetStatus, SettleReturns,
       recovering, refunding, Statuses, Terminal
  <2>2. NamesOwnTxs' /\ StatusBacked' /\ CompleteWasPaid'
    BY <1>0, <1>6 DEF TypeOK, SettlePullReverted, SetStatus, recovering,
       NamesOwnTxs, StatusBacked, CompleteWasPaid
  <2>3. HandlersInStep'
    BY <1>0, <1>6, CallersApart DEF TypeOK, W!TypeOK, SettlePullReverted,
       SettleReturns, W!Resume, recovering, refunding, HandlersInStep
  <2>4. QED BY <1>0, <2>1, <2>2, <2>3
<1>7. CASE SettlePaid(p)
  <2> DEFINE x == held[S(p)]
  <2>0. /\ x \in signed /\ x \in W!Tx /\ x.call = OutCall(p) /\ x # NoTx
        /\ Pulled(p) /\ W!Receipt(x) = "success" /\ SetComplete(p, x)
    BY <1>4, <1>7, SettlementAssumption DEF SettlePaid
  <2>1. PICK y \in W!Tx : /\ y = x /\ y \in signed' /\ Pulled(p)'
                          /\ W!Receipt(y)' = "success"
    BY <1>0, <2>0
  <2> HIDE DEF x
  <2>2. TypeOK'
    BY <1>0, <1>7, <2>0, <2>1 DEF TypeOK, SettlePaid, SetComplete, SettleReturns,
       recovering, refunding, Statuses, Terminal
  <2>3. NamesOwnTxs' /\ StatusBacked' /\ CompleteWasPaid'
    BY <1>0, <1>7, <2>0, <2>1 DEF TypeOK, SettlePaid, SetComplete, recovering,
       NamesOwnTxs, StatusBacked, CompleteWasPaid
  <2>4. HandlersInStep'
    BY <1>0, <1>7, CallersApart DEF TypeOK, W!TypeOK, SettlePaid, SettleReturns,
       W!Resume, recovering, refunding, HandlersInStep
  <2>5. QED BY <1>0, <2>2, <2>3, <2>4
<1>8. CASE SettleGivesUp(p)
  <2>1. TypeOK'
    BY <1>0, <1>8 DEF TypeOK, SettleGivesUp, SettleReturns, rows, recovering,
       refunding
  <2>2. NamesOwnTxs' /\ StatusBacked' /\ CompleteWasPaid'
    BY <1>0, <1>8 DEF TypeOK, SettleGivesUp, rows, recovering,
       NamesOwnTxs, StatusBacked, CompleteWasPaid
  <2>3. HandlersInStep'
    BY <1>0, <1>8, CallersApart DEF TypeOK, W!TypeOK, SettleGivesUp,
       SettleReturns, W!Resume, recovering, refunding, HandlersInStep
  <2>4. QED BY <1>0, <2>1, <2>2, <2>3
<1>9. QED
  BY <1>1, <1>2, <1>3, <1>5, <1>6, <1>7, <1>8 DEF SettleStep

LEMMA RecoverKeepsInv ==
  ASSUME SettleInv, [Next]_vars, NEW p \in Payments, RecoverStep(p)
  PROVE  SettleInv'
<1> USE DEF SettleInv
<1>0. /\ W!WalletInv' /\ W!TypeOK' /\ signed \subseteq signed'
      /\ \A q \in Payments : Pulled(q) => Pulled(q)'
      /\ \A x \in W!Tx : W!Receipt(x) = "success" => W!Receipt(x)' = "success"
  BY Frame DEF W!WalletInv
<1>1. CASE RecoverResendsPull(p) \/ RecoverResendsPay(p)
  <2>1. /\ rpc[p] # "idle" /\ UNCHANGED <<rows, snap, overlap, settling, refunding>>
        /\ \/ rpc' = [rpc EXCEPT ![p] = "pullwait"]
           \/ snap[p].outTx # NoTx /\ rpc' = [rpc EXCEPT ![p] = "paywait"]
    BY <1>1 DEF RecoverResendsPull, RecoverResendsPay, InPhase2, NeedsOutgoing
  <2>2. UNCHANGED <<stage, call>>
    BY <1>1 DEF RecoverResendsPull, RecoverResendsPay, BroadcastRaw,
       W!Rebroadcast, W!wallet, wallet
  <2>3. TypeOK'
    BY <1>0, <2>1 DEF TypeOK, rows, settling, refunding
  <2>4. NamesOwnTxs' /\ StatusBacked' /\ CompleteWasPaid'
    BY <1>0, <2>1 DEF TypeOK, rows, NamesOwnTxs, StatusBacked, CompleteWasPaid
  <2>5. rpc[p] # "paying"
    BY <1>1 DEF RecoverResendsPull, RecoverResendsPay
  <2>6. HandlersInStep'
    BY <1>0, <2>1, <2>2, <2>5 DEF TypeOK, settling, refunding, HandlersInStep
  <2>7. QED BY <1>0, <2>3, <2>4, <2>6
<1>2. CASE RecoverPulled(p)
  <2>1. snap[p].inTx \in W!Tx /\ snap[p].inTx.call = PullCall(p)
    BY <1>2 DEF RecoverPulled, InStage0, NamesOwnTxs, StatusBacked, W!TypeOK, TypeOK
  <2>2. Pulled(p) /\ Pulled(p)'
    BY <1>0, <1>2, <2>1, ReceiptIsPull DEF RecoverPulled, TypeOK
  <2>3. snap[p] \in Row /\ rpc[p] \in {"begin", "pullwait"}
    BY <1>2 DEF RecoverPulled, InStage0, TypeOK
  <2>4. PICK r \in Row : /\ snap' = [snap EXCEPT ![p] = r]
                         /\ r.status = "incoming_complete"
                         /\ r.inTx = snap[p].inTx /\ r.outTx = snap[p].outTx
    <3> DEFINE r == [snap[p] EXCEPT !.status = "incoming_complete"]
    <3>1. snap' = [snap EXCEPT ![p] = r]
      BY <1>2 DEF RecoverPulled
    <3>2. r \in Row /\ r.status = "incoming_complete"
          /\ r.inTx = snap[p].inTx /\ r.outTx = snap[p].outTx
      BY <2>3 DEF Row, Statuses, Incomplete
    <3>3. QED BY <3>1, <3>2
  <2>5. /\ status' = [status EXCEPT ![p] = "incoming_complete"]
        /\ locked' = IF "incoming_complete" \in Terminal
                     THEN [locked EXCEPT ![p] = FALSE] ELSE locked
        /\ rpc' = [rpc EXCEPT ![p] = "begin"]
        /\ UNCHANGED <<inTx, outTx, overlap, settling, refunding, wallet>>
    BY <1>2 DEF RecoverPulled, SetStatus
  <2>6. TypeOK'
    BY <1>0, <2>4, <2>5 DEF TypeOK, settling, refunding, Statuses, Incomplete
  <2>7. NamesOwnTxs' /\ StatusBacked' /\ CompleteWasPaid'
    BY <1>0, <2>2, <2>4, <2>5
       DEF TypeOK, NamesOwnTxs, StatusBacked, CompleteWasPaid
  <2>8. HandlersInStep'
    BY <1>0, <2>3, <2>4, <2>5 DEF TypeOK, settling, refunding, wallet,
       HandlersInStep, Incomplete
  <2>9. QED BY <1>0, <2>6, <2>7, <2>8
<1>3. CASE RecoverPullReverted(p) \/ RecoverZeroAmount(p)
  <2>1. /\ rpc[p] \in {"begin", "pullwait"}
        /\ SetStatus(p, "failed") /\ RecoverEnds(p)
        /\ UNCHANGED <<settling, refunding, wallet>>
    BY <1>3 DEF RecoverPullReverted, RecoverZeroAmount, InStage0, PastStage0
  <2>2. TypeOK'
    BY <1>0, <2>1 DEF TypeOK, SetStatus, RecoverEnds, settling, refunding,
       Statuses, Terminal, Row, NoSnap
  <2>3. NamesOwnTxs' /\ StatusBacked' /\ CompleteWasPaid'
    BY <1>0, <2>1 DEF TypeOK, SetStatus, RecoverEnds, NoSnap, NamesOwnTxs,
       StatusBacked, CompleteWasPaid
  <2>4. HandlersInStep'
    BY <1>0, <2>1 DEF TypeOK, RecoverEnds, settling, refunding, wallet,
       HandlersInStep
  <2>5. QED BY <1>0, <2>2, <2>3, <2>4
<1>4. CASE RecoverPays(p)
  <2>1. snap[p].status \in {"incoming_complete", "outgoing_submitted"}
    BY <1>4 DEF RecoverPays, PastStage0, HandlersInStep, Incomplete
  <2>2. Pulled(p) /\ Pulled(p)'
    BY <1>0, <2>1 DEF StatusBacked
  <2>3. /\ rpc[p] = "begin" /\ rpc' = [rpc EXCEPT ![p] = "paying"]
        /\ UNCHANGED <<rows, snap, overlap, settling, refunding>>
        /\ stage' = [stage EXCEPT ![R(p)] = "queued"]
        /\ call' = [call EXCEPT ![R(p)] = OutCall(p)]
    BY <1>4 DEF RecoverPays, PastStage0, W!Submit
  <2>4. TypeOK'
    BY <1>0, <2>3 DEF TypeOK, rows, settling, refunding
  <2>5. NamesOwnTxs' /\ StatusBacked' /\ CompleteWasPaid'
    BY <1>0, <2>3 DEF TypeOK, rows, NamesOwnTxs, StatusBacked, CompleteWasPaid
  <2>6. HandlersInStep'
    <3>1. \A q \in Payments :
            /\ stage'[S(q)] = stage[S(q)] /\ call'[S(q)] = call[S(q)]
            /\ \A r \in Refunds : /\ stage'[F(q, r)] = stage[F(q, r)]
                                  /\ call'[F(q, r)] = call[F(q, r)]
            /\ q # p => stage'[R(q)] = stage[R(q)] /\ call'[R(q)] = call[R(q)]
      BY <2>3, CallersApart DEF TypeOK, W!TypeOK
    <3>2. call'[R(p)] = OutCall(p)
      BY <2>3, CallersApart DEF TypeOK, W!TypeOK
    <3>3. QED
      BY <1>0, <2>2, <2>3, <3>1, <3>2 DEF TypeOK, settling, refunding,
         HandlersInStep
  <2>7. QED BY <1>0, <2>4, <2>5, <2>6
<1>5. CASE RecoverSubmitted(p)
  <2>1. /\ held[R(p)] \in signed /\ held[R(p)] \in W!Tx
        /\ held[R(p)].call = OutCall(p) /\ Pulled(p) /\ Pulled(p)'
    BY <1>0, <1>5, ReturnedIsSigned, CallersApart
       DEF RecoverSubmitted, HandlersInStep
  <2>2. snap[p] \in Row
    BY DEF TypeOK
  <2>3. PICK r \in Row : /\ snap' = [snap EXCEPT ![p] = r]
                         /\ r.status = "outgoing_submitted"
                         /\ r.inTx = snap[p].inTx /\ r.outTx = held[R(p)]
    <3> DEFINE r == [snap[p] EXCEPT !.status = "outgoing_submitted",
                                    !.outTx = held[R(p)]]
    <3>1. snap' = [snap EXCEPT ![p] = r]
      BY <1>5 DEF RecoverSubmitted
    <3>2. r \in Row /\ r.status = "outgoing_submitted"
          /\ r.inTx = snap[p].inTx /\ r.outTx = held[R(p)]
      BY <2>1, <2>2 DEF Row, Statuses, Incomplete
    <3>3. QED BY <3>1, <3>2
  <2>4. /\ rpc[p] = "paying" /\ rpc' = [rpc EXCEPT ![p] = "begin"]
        /\ UNCHANGED <<rows, overlap, settling, refunding>>
        /\ stage' = [stage EXCEPT ![R(p)] = "idle"]
        /\ call' = [call EXCEPT ![R(p)] = NoCall]
    BY <1>5 DEF RecoverSubmitted, W!Resume
  <2>5. TypeOK'
    BY <1>0, <2>3, <2>4 DEF TypeOK, rows, settling, refunding
  <2>6. NamesOwnTxs' /\ StatusBacked' /\ CompleteWasPaid'
    BY <1>0, <2>1, <2>3, <2>4 DEF TypeOK, rows, NamesOwnTxs, StatusBacked,
       CompleteWasPaid
  <2>7. HandlersInStep'
    <3>1. \A q \in Payments :
            /\ stage'[S(q)] = stage[S(q)] /\ call'[S(q)] = call[S(q)]
            /\ \A k \in Refunds : /\ stage'[F(q, k)] = stage[F(q, k)]
                                  /\ call'[F(q, k)] = call[F(q, k)]
            /\ q # p => stage'[R(q)] = stage[R(q)] /\ call'[R(q)] = call[R(q)]
      BY <2>4, CallersApart DEF TypeOK, W!TypeOK
    <3>2. stage'[R(p)] = "idle"
      BY <2>4, CallersApart DEF TypeOK, W!TypeOK
    <3>3. QED
      BY <1>0, <2>3, <2>4, <3>1, <3>2 DEF TypeOK, settling, refunding,
         HandlersInStep, Incomplete
  <2>8. QED BY <1>0, <2>5, <2>6, <2>7
<1>6. CASE RecoverConfirmed(p)
  <2> DEFINE x == snap[p].outTx
  <2>1. /\ x # NoTx /\ rpc[p] \in {"begin", "paywait"}
        /\ SetComplete(p, x) /\ RecoverEnds(p) /\ W!Receipt(x) = "success"
        /\ UNCHANGED <<settling, refunding, wallet>>
    BY <1>6 DEF RecoverConfirmed, InPhase2, PastStage0, NeedsOutgoing,
       HandlersInStep
  <2>2. x \in signed /\ x \in W!Tx /\ x.call = OutCall(p) /\ Pulled(p)
    BY <2>1 DEF NamesOwnTxs, W!TypeOK, TypeOK
  <2>3. PICK y \in W!Tx : /\ y = x /\ y \in signed' /\ Pulled(p)'
                          /\ W!Receipt(y)' = "success"
    BY <1>0, <2>1, <2>2
  <2> HIDE DEF x
  <2>4. TypeOK'
    BY <1>0, <2>1, <2>2, <2>3 DEF TypeOK, SetComplete, RecoverEnds, settling,
       refunding, Statuses, Terminal, Row, NoSnap
  <2>5. NamesOwnTxs' /\ StatusBacked' /\ CompleteWasPaid'
    BY <1>0, <2>1, <2>2, <2>3 DEF TypeOK, SetComplete, RecoverEnds, NoSnap,
       NamesOwnTxs, StatusBacked, CompleteWasPaid
  <2>6. HandlersInStep'
    BY <1>0, <2>1 DEF TypeOK, RecoverEnds, settling, refunding, wallet,
       HandlersInStep
  <2>7. QED BY <1>0, <2>4, <2>5, <2>6
<1>7. CASE RecoverGivesUp(p)
  <2>1. /\ RecoverEnds(p) /\ UNCHANGED <<rows, settling, refunding>>
        /\ \/ rpc[p] = "paying"
              /\ stage' = [stage EXCEPT ![R(p)] = "idle"]
              /\ call' = [call EXCEPT ![R(p)] = NoCall]
           \/ rpc[p] # "paying" /\ UNCHANGED <<stage, call>>
    BY <1>7 DEF RecoverGivesUp, W!Resume, wallet
  <2>2. TypeOK'
    BY <1>0, <2>1 DEF TypeOK, RecoverEnds, rows, settling, refunding, Row,
       NoSnap, Statuses
  <2>3. NamesOwnTxs' /\ StatusBacked' /\ CompleteWasPaid'
    BY <1>0, <2>1 DEF TypeOK, RecoverEnds, rows, NoSnap, NamesOwnTxs,
       StatusBacked, CompleteWasPaid
  <2>4. HandlersInStep'
    <3>1. \A q \in Payments :
            /\ stage'[S(q)] = stage[S(q)] /\ call'[S(q)] = call[S(q)]
            /\ \A r \in Refunds : /\ stage'[F(q, r)] = stage[F(q, r)]
                                  /\ call'[F(q, r)] = call[F(q, r)]
            /\ q # p => stage'[R(q)] = stage[R(q)] /\ call'[R(q)] = call[R(q)]
      BY <2>1, CallersApart DEF TypeOK, W!TypeOK
    <3>2. rpc[p] = "paying" => stage'[R(p)] = "idle"
      BY <2>1, CallersApart DEF TypeOK, W!TypeOK
    <3>3. QED
      BY <1>0, <2>1, <3>1, <3>2 DEF TypeOK, settling, refunding,
         HandlersInStep, RecoverEnds
  <2>5. QED BY <1>0, <2>2, <2>3, <2>4
<1>8. QED
  BY <1>1, <1>2, <1>3, <1>4, <1>5, <1>6, <1>7 DEF RecoverStep

LEMMA RefundKeepsInv ==
  ASSUME SettleInv, [Next]_vars, NEW p \in Payments, NEW r \in Refunds,
         RefundStep(p, r)
  PROVE  SettleInv'
<1> USE DEF SettleInv
<1>0. /\ W!WalletInv' /\ W!TypeOK' /\ signed \subseteq signed'
      /\ \A q \in Payments : Pulled(q) => Pulled(q)'
      /\ \A x \in W!Tx : W!Receipt(x) = "success" => W!Receipt(x)' = "success"
  BY Frame DEF W!WalletInv
<1>1. /\ UNCHANGED <<settling, recovering>>
      /\ rushed' \subseteq rushed \cup {p}
      /\ UNCHANGED rows \/ SetStatus(p, "refunded")
      /\ \/ /\ fpc' = [fpc EXCEPT ![F(p, r)] = "paying"]
            /\ stage' = [stage EXCEPT ![F(p, r)] = "queued"]
            /\ call' = [call EXCEPT ![F(p, r)] = RefundCall(p)]
         \/ /\ fpc[F(p, r)] # "paying" /\ UNCHANGED <<stage, call>>
            /\ \E s \in {"checked", "done"} : fpc' = [fpc EXCEPT ![F(p, r)] = s]
         \/ /\ stage' = [stage EXCEPT ![F(p, r)] = "idle"]
            /\ call' = [call EXCEPT ![F(p, r)] = NoCall]
            /\ \E s \in {"done", "unsure"} : fpc' = [fpc EXCEPT ![F(p, r)] = s]
  <2>1. CASE RefundReads(p, r)
    BY <2>1 DEF RefundReads, wallet
  <2>2. CASE RefundSubmits(p, r)
    BY <2>2 DEF RefundSubmits, W!Submit
  <2>3. CASE RefundConfirmed(p, r)
    BY <2>3 DEF RefundConfirmed, W!Resume
  <2>4. CASE RefundRefused(p, r)
    BY <2>4 DEF RefundRefused, wallet
  <2>5. CASE RefundGivesUp(p, r)
    BY <2>5 DEF RefundGivesUp, W!Resume
  <2>6. QED BY <2>1, <2>2, <2>3, <2>4, <2>5 DEF RefundStep
<1>3. TypeOK'
  <2>1. status' \in [Payments -> Statuses] /\ locked' \in [Payments -> BOOLEAN]
        /\ UNCHANGED <<inTx, outTx>>
    <3>1. CASE UNCHANGED rows
      BY <3>1 DEF TypeOK, rows
    <3>2. CASE SetStatus(p, "refunded")
      <4>1. "refunded" \in Terminal /\ "refunded" \in Statuses
        BY DEF Terminal, Statuses
      <4>2. /\ status' = [status EXCEPT ![p] = "refunded"]
            /\ locked' = [locked EXCEPT ![p] = FALSE]
            /\ UNCHANGED <<inTx, outTx>>
        BY <3>2, <4>1 DEF SetStatus
      <4>3. QED BY <4>1, <4>2 DEF TypeOK
    <3>3. QED BY <1>1, <3>1, <3>2
  <2>2. /\ fpc' \in [Refunders ->
                    {"idle", "checked", "paying", "done", "unsure"}]
        /\ rushed' \in SUBSET Payments
    BY <1>1, CallersApart DEF TypeOK
  <2>3. QED
    BY <1>0, <1>1, <2>1, <2>2 DEF TypeOK, settling, recovering
<1>4. NamesOwnTxs' /\ StatusBacked' /\ CompleteWasPaid'
  BY <1>0, <1>1 DEF TypeOK, SetStatus, recovering, rows, NamesOwnTxs,
     StatusBacked, CompleteWasPaid
<1>5. HandlersInStep'
  <2>1. \A q \in Payments :
          /\ stage'[S(q)] = stage[S(q)] /\ call'[S(q)] = call[S(q)]
          /\ stage'[R(q)] = stage[R(q)] /\ call'[R(q)] = call[R(q)]
          /\ \A s \in Refunds : <<q, s>> # <<p, r>> =>
               /\ stage'[F(q, s)] = stage[F(q, s)]
               /\ call'[F(q, s)] = call[F(q, s)]
               /\ fpc'[F(q, s)] = fpc[F(q, s)]
    BY <1>1, CallersApart DEF TypeOK, W!TypeOK
  <2>2. stage'[F(p, r)] # "idle" =>
          fpc'[F(p, r)] = "paying" /\ call'[F(p, r)] = RefundCall(p)
    BY <1>1, CallersApart DEF TypeOK, W!TypeOK, HandlersInStep
  <2>3. \A q \in Payments, s \in Refunds : stage'[F(q, s)] # "idle" =>
          fpc'[F(q, s)] = "paying" /\ call'[F(q, s)] = RefundCall(q)
    BY <2>1, <2>2 DEF HandlersInStep
  <2>4. QED
    BY <1>0, <1>1, <2>1, <2>3 DEF TypeOK, settling, recovering, HandlersInStep
<1>6. QED BY <1>0, <1>3, <1>4, <1>5

\* Signing: the row the callback writes names what was just signed.
LEMMA SigningKeepsInv ==
  ASSUME SettleInv, [Next]_vars, NEW t \in Callers, NEW fee \in Fees,
         stage[t] = "allocated", UNCHANGED <<settling, recovering, refunding>>,
         OnSigned(t[2], W!SignedBy(t, fee)),
         W!SignedBy(t, fee) \in signed'
  PROVE  TypeOK' /\ NamesOwnTxs' /\ StatusBacked' /\ CompleteWasPaid'
<1> USE DEF SettleInv
<1> DEFINE x == W!SignedBy(t, fee)
<1>0. /\ W!TypeOK' /\ signed \subseteq signed'
      /\ \A q \in Payments : Pulled(q) => Pulled(q)'
      /\ \A y \in W!Tx : W!Receipt(y) = "success" => W!Receipt(y)' = "success"
  BY Frame DEF W!WalletInv
<1>1. x \in W!Tx /\ x \in signed' /\ x.call = call[t] /\ x # NoTx
  BY SettlementAssumption DEF W!SignedBy, W!Tx, W!WalletInv, W!TypeOK
<1>2. PICK p \in Payments :
        /\ t \in {S(p), R(p)} \cup {F(p, r) : r \in Refunds}
        /\ t[2] = p
  <2>1. PICK p \in Payments : t \in {S(p), R(p)} \cup {F(p, r) : r \in Refunds}
    BY DEF Callers, Refunders
  <2>2. t[2] = p
    BY <2>1 DEF S, R, F
  <2>3. QED BY <2>1, <2>2
<1>3. call[t] = OutCall(p) => Pulled(p)
  BY <1>2, CallsApart DEF HandlersInStep
<1>4. OnSigned(p, x)
  BY <1>2
<1>5. PICK y \in W!Tx : y = x /\ y # NoTx /\ y \in signed' /\ y.call = call[t]
  BY <1>1
<1> HIDE DEF x
<1>6. CASE y.call = PullCall(p) /\ RecordIncomingIntent(p, y)
  <2>1. TypeOK'
    BY <1>0, <1>6 DEF TypeOK, RecordIncomingIntent, settling, recovering,
       refunding, Statuses, Incomplete
  <2>2. NamesOwnTxs' /\ StatusBacked' /\ CompleteWasPaid'
    BY <1>0, <1>5, <1>6 DEF TypeOK, RecordIncomingIntent, recovering,
       NamesOwnTxs, StatusBacked, CompleteWasPaid
  <2>3. QED BY <2>1, <2>2
<1>7. CASE y.call = OutCall(p) /\ RecordOutgoingIntent(p, y)
  <2>0. Pulled(p) /\ Pulled(p)'
    BY <1>0, <1>3, <1>5, <1>7
  <2>1. TypeOK'
    BY <1>0, <1>7 DEF TypeOK, RecordOutgoingIntent, settling, recovering,
       refunding, Statuses, Incomplete
  <2>2. NamesOwnTxs' /\ StatusBacked' /\ CompleteWasPaid'
    BY <1>0, <1>5, <1>7, <2>0 DEF TypeOK, RecordOutgoingIntent, recovering,
       NamesOwnTxs, StatusBacked, CompleteWasPaid
  <2>3. QED BY <2>1, <2>2
<1>8. CASE UNCHANGED rows
  <2>1. TypeOK'
    BY <1>0, <1>8 DEF TypeOK, settling, recovering, refunding, rows
  <2>2. NamesOwnTxs' /\ StatusBacked' /\ CompleteWasPaid'
    BY <1>0, <1>8 DEF TypeOK, recovering, rows, NamesOwnTxs, StatusBacked,
       CompleteWasPaid
  <2>3. QED BY <2>1, <2>2
<1>9. QED BY <1>4, <1>5, <1>6, <1>7, <1>8 DEF OnSigned

LEMMA WalletStepKeepsInv ==
  ASSUME SettleInv, [Next]_vars, NEW t \in Callers, WalletStep(t)
  PROVE  SettleInv'
<1> USE DEF SettleInv
<1>0. /\ W!WalletInv' /\ W!TypeOK' /\ signed \subseteq signed'
      /\ \A q \in Payments : Pulled(q) => Pulled(q)'
      /\ \A y \in W!Tx : W!Receipt(y) = "success" => W!Receipt(y)' = "success"
  BY Frame DEF W!WalletInv
<1>1. /\ stage[t] # "idle" /\ UNCHANGED <<call, settling, recovering, refunding>>
      /\ \E s \in W!Stages : stage' = [stage EXCEPT ![t] = s]
  BY DEF WalletStep, WalletSign, WalletSignFails, WalletOther, W!Sign,
     W!SignFails, W!Allocate, W!AllocateFails, W!Broadcast, W!BroadcastRejected,
     W!BroadcastFails, W!Resync, W!Stages
<1>2. HandlersInStep'
  <2>1. \A u \in Callers : stage'[u] # "idle" => stage[u] # "idle"
    BY <1>1 DEF W!TypeOK
  <2>2. QED
    BY <1>0, <1>1, <2>1, CallersApart DEF TypeOK, settling, recovering,
       refunding, HandlersInStep
<1>3. CASE UNCHANGED rows
  <2>1. TypeOK'
    BY <1>0, <1>1, <1>3 DEF TypeOK, settling, recovering, refunding, rows
  <2>2. NamesOwnTxs' /\ StatusBacked' /\ CompleteWasPaid'
    BY <1>0, <1>1, <1>3 DEF TypeOK, recovering, rows, NamesOwnTxs, StatusBacked,
       CompleteWasPaid
  <2>3. QED BY <1>0, <1>2, <2>1, <2>2
<1>4. ASSUME NEW fee \in Fees, stage[t] = "allocated",
             OnSigned(t[2], W!SignedBy(t, fee)), W!SignedBy(t, fee) \in signed'
      PROVE  TypeOK' /\ NamesOwnTxs' /\ StatusBacked' /\ CompleteWasPaid'
  BY <1>1, <1>4, SigningKeepsInv
<1>5. CASE WalletSign(t)
  BY <1>0, <1>2, <1>4, <1>5 DEF WalletSign, W!Sign
<1>6. CASE WalletSignFails(t)
  BY <1>0, <1>2, <1>3, <1>4, <1>6 DEF WalletSignFails, W!SignFails
<1>7. CASE WalletOther(t)
  BY <1>3, <1>7 DEF WalletOther
<1>8. QED BY <1>5, <1>6, <1>7 DEF WalletStep

LEMMA OthersKeepInv ==
  ASSUME SettleInv, [Next]_vars,
         \/ ClaimIncompletePayments
         \/ \E p \in Payments : LockGoesStale(p)
         \/ Mine \/ Crash \/ UNCHANGED vars
  PROVE  SettleInv'
<1> USE DEF SettleInv
<1>0. /\ W!WalletInv' /\ W!TypeOK' /\ signed \subseteq signed'
      /\ \A q \in Payments : Pulled(q) => Pulled(q)'
      /\ \A y \in W!Tx : W!Receipt(y) = "success" => W!Receipt(y)' = "success"
  BY Frame DEF W!WalletInv
<1>1. CASE ClaimIncompletePayments
  <2>1. TypeOK'
    BY <1>0, <1>1 DEF TypeOK, ClaimIncompletePayments, Claimable, settling,
       refunding, Row, NoSnap, Statuses
  <2>2. NamesOwnTxs' /\ StatusBacked' /\ CompleteWasPaid'
    BY <1>0, <1>1 DEF TypeOK, ClaimIncompletePayments, Claimable, NoSnap,
       NamesOwnTxs, StatusBacked, CompleteWasPaid
  <2>3. HandlersInStep'
    BY <1>0, <1>1 DEF TypeOK, ClaimIncompletePayments, Claimable, NoSnap,
       settling, refunding, wallet, HandlersInStep
  <2>4. QED BY <1>0, <2>1, <2>2, <2>3
<1>2. CASE \/ \E p \in Payments : LockGoesStale(p)
           \/ Mine \/ UNCHANGED vars
  <2>1. /\ UNCHANGED <<status, inTx, outTx, settling, recovering, refunding>>
        /\ UNCHANGED <<stage, call>>
        /\ \/ \E p \in Payments : locked' = [locked EXCEPT ![p] = FALSE]
           \/ UNCHANGED locked
    BY <1>2 DEF LockGoesStale, Mine, W!Mine, W!wallet, vars, rows, wallet
  <2>2. TypeOK'
    BY <1>0, <2>1 DEF TypeOK, settling, recovering, refunding
  <2>3. NamesOwnTxs' /\ StatusBacked' /\ CompleteWasPaid'
    BY <1>0, <2>1 DEF TypeOK, recovering, NamesOwnTxs, StatusBacked,
       CompleteWasPaid
  <2>4. HandlersInStep'
    BY <1>0, <2>1 DEF TypeOK, settling, recovering, refunding, HandlersInStep
  <2>5. QED BY <1>0, <2>2, <2>3, <2>4
<1>3. CASE Crash
  <2>1. TypeOK'
    BY <1>0, <1>3 DEF TypeOK, Crash, rows, Row, NoSnap, Statuses
  <2>2. NamesOwnTxs' /\ StatusBacked' /\ CompleteWasPaid'
    BY <1>0, <1>3 DEF TypeOK, Crash, rows, NoSnap, NamesOwnTxs, StatusBacked,
       CompleteWasPaid
  <2>3. HandlersInStep'
    BY <1>3, CallersApart DEF TypeOK, Crash, W!Crash, HandlersInStep
  <2>4. QED BY <1>0, <2>1, <2>2, <2>3
<1>4. QED BY <1>1, <1>2, <1>3

LEMMA StepSettle == SettleInv /\ [Next]_vars => SettleInv'
BY SettleKeepsInv, RecoverKeepsInv, RefundKeepsInv, WalletStepKeepsInv,
   OthersKeepInv DEF Next

-----------------------------------------------------------------------------

\* The composition's inductive invariant (src/settle.ts, src/recovery.ts,
\* src/refund.ts, src/nonceStore.ts): every stored transaction is the row's
\* own, and every status is written after what it reports.
THEOREM SettlementInvariant == Spec => []SettleInv
BY InitSettle, StepSettle, PTL DEF Spec

\* The table's, the handlers' and the worker's state is well typed throughout.
THEOREM SettlementTypes == Spec => []TypeOK
<1>1. SettleInv => TypeOK
  BY DEF SettleInv
<1>2. QED BY <1>1, SettlementInvariant, PTL

\* No outgoing transfer is recorded for a payment before its pull succeeded,
\* whatever fails, restarts or overlaps.
THEOREM PulledBeforePayEver == Spec => []PulledBeforePay
<1>1. SettleInv => PulledBeforePay
  BY DEF SettleInv, NamesOwnTxs, PulledBeforePay
<1>2. QED BY <1>1, SettlementInvariant, PTL

\* A row is `complete' only with a successful receipt of the transaction it
\* names.
THEOREM CompleteWasPaidEver == Spec => []CompleteWasPaid
<1>1. SettleInv => CompleteWasPaid
  BY DEF SettleInv
<1>2. QED BY <1>1, SettlementInvariant, PTL

\* Handlers, recovery and refunds use the wallet only as its specification
\* says: the composition implements the submitter.
THEOREM ImplementsSubmitter == Spec => WalletSpec
<1>1. Init => W!Init
  BY DEF Init
<1>2. QED
  BY <1>1, WalletPart, SettlementInvariant, PTL DEF Spec, WalletSpec, W!Spec

-----------------------------------------------------------------------------
(* The wallet sends in order.                                              *)

\* A step that sends no more than one signed transaction, the next one.
LEMMA DeliverInOrder ==
  ASSUME W!TypeOK, SlotsInOrder, signed \subseteq signed',
         NEW x \in signed, W!Deliver(x) \/ UNCHANGED slots
  PROVE  SlotsInOrder'
<1>1. x \in W!Tx /\ slots \in Seq(W!Tx) /\ Len(slots) \in Nat
  BY DEF W!TypeOK
<1>2. CASE UNCHANGED slots
  BY <1>2 DEF SlotsInOrder
<1>3. CASE W!Deliver(x) /\ x.nonce = Len(slots)
  <2>1. slots' = Append(slots, x)
    BY <1>3 DEF W!Deliver, W!Accepts
  <2>2. /\ Len(slots') = Len(slots) + 1 /\ slots'[Len(slots) + 1] = x
        /\ \A i \in 1 .. Len(slots) : slots'[i] = slots[i]
    BY <1>1, <2>1
  <2>3. QED BY <1>1, <1>3, <2>2 DEF SlotsInOrder
<1>4. CASE W!Deliver(x) /\ x.nonce # Len(slots)
  BY <1>4 DEF W!Deliver, W!Accepts, SlotsInOrder
<1>5. QED BY <1>2, <1>3, <1>4

LEMMA SlotsStep ==
  ASSUME W!WalletInv, SlotsInOrder, signed \subseteq signed', [W!Next]_(W!vars)
  PROVE  SlotsInOrder'
<1>0. W!TypeOK /\ W!HeldIsSigned
  BY DEF W!WalletInv
<1>1. CASE UNCHANGED slots
  BY <1>1 DEF SlotsInOrder
<1>2. CASE \E t \in Callers : W!Broadcast(t)
             \/ \E landed \in BOOLEAN : W!BroadcastFails(t, landed)
  <2>1. PICK t \in Callers : W!Broadcast(t)
             \/ \E landed \in BOOLEAN : W!BroadcastFails(t, landed)
    BY <1>2
  <2>2. stage[t] = "signed" /\ (W!Deliver(held[t]) \/ UNCHANGED slots)
    BY <2>1 DEF W!Broadcast, W!BroadcastFails
  <2>3. held[t] \in signed
    BY <1>0, <2>2 DEF W!HeldIsSigned
  <2>4. QED BY <1>0, <2>2, <2>3, DeliverInOrder
<1>3. CASE \E x \in signed : W!Rebroadcast(x)
  BY <1>0, <1>3, DeliverInOrder DEF W!Rebroadcast
<1>4. QED
  BY <1>1, <1>2, <1>3 DEF W!Next, W!Proceed, W!Submit, W!Allocate,
     W!AllocateFails, W!Sign, W!SignFails, W!BroadcastRejected, W!Resume, W!Mine,
     W!Crash, W!chain, W!vars, W!wallet

-----------------------------------------------------------------------------
(* Rows a step does not touch.                                             *)

LEMMA UntouchedRow ==
  ASSUME NEW q \in Payments, OneWorkerAt(q), overlap \subseteq overlap',
         status'[q] = status[q], outTx'[q] = outTx[q], spc'[q] = spc[q],
         rpc'[q] = rpc[q], snap'[q] = snap[q],
         stage'[S(q)] = stage[S(q)], stage'[R(q)] = stage[R(q)],
         held'[S(q)] = held[S(q)], held'[R(q)] = held[R(q)]
  PROVE  OneWorkerAt(q)'
BY DEF OneWorkerAt, PayoutUnsigned, Live, S, R

\* Payouts stay named while nobody signs and no row of one worker changes its own.
LEMMA StillNamed ==
  ASSUME PayoutsNamed, signed' = signed, overlap \subseteq overlap',
         \A q \in Payments \ overlap : outTx'[q] = outTx[q] \/ outTx[q] = NoTx,
         NoTx \notin signed
  PROVE  PayoutsNamed'
BY DEF PayoutsNamed, Payees, OutCall

\* The wallet's part of a handler's step.
LEMMA SubmitLocal ==
  ASSUME W!TypeOK, NEW t \in Callers, NEW c, W!Submit(t, c)
  PROVE  /\ stage'[t] = "queued" /\ signed' = signed /\ held' = held
         /\ \A u \in Callers : u # t => stage'[u] = stage[u]
BY DEF W!Submit, W!TypeOK

LEMMA ResumeLocal ==
  ASSUME W!TypeOK, NEW t \in Callers, W!Resume(t)
  PROVE  /\ stage'[t] = "idle" /\ signed' = signed
         /\ \A u \in Callers : u # t => stage'[u] = stage[u] /\ held'[u] = held[u]
BY DEF W!Resume, W!TypeOK

\* The rows and handlers a step of the settle handler of p leaves alone.
LEMMA SettleLocal ==
  ASSUME SettleInv, NEW p \in Payments, SettleStep(p)
  PROVE  /\ signed' = signed /\ UNCHANGED <<rpc, snap, overlap>>
         /\ \A q \in Payments : q # p =>
              /\ status'[q] = status[q] /\ outTx'[q] = outTx[q] /\ spc'[q] = spc[q]
              /\ stage'[S(q)] = stage[S(q)] /\ held'[S(q)] = held[S(q)]
         /\ \A q \in Payments :
              stage'[R(q)] = stage[R(q)] /\ held'[R(q)] = held[R(q)]
<1> USE DEF SettleInv
<1>1. W!TypeOK /\ TypeOK
  BY DEF W!WalletInv
<1>2. \/ UNCHANGED wallet \/ W!Resume(S(p))
      \/ W!Submit(S(p), PullCall(p)) \/ W!Submit(S(p), OutCall(p))
  BY DEF SettleStep, SettleAccepted, SettleRefused, SettlePull, SettlePulled,
     SettlePullReverted, SettleBreaks, SettlePay, SettlePaid, SettleGivesUp
<1>3. /\ signed' = signed
      /\ \A u \in Callers : u # S(p) => stage'[u] = stage[u] /\ held'[u] = held[u]
  <2>1. CASE UNCHANGED wallet
    BY <2>1 DEF wallet
  <2>2. CASE W!Resume(S(p))
    BY <1>1, <2>2, ResumeLocal, CallersApart
  <2>3. CASE W!Submit(S(p), PullCall(p)) \/ W!Submit(S(p), OutCall(p))
    BY <1>1, <2>3, SubmitLocal, CallersApart
  <2>4. QED BY <1>2, <2>1, <2>2, <2>3
<1>4. /\ UNCHANGED <<rpc, snap, overlap>>
      /\ \A q \in Payments : q # p =>
           status'[q] = status[q] /\ outTx'[q] = outTx[q] /\ spc'[q] = spc[q]
  BY <1>1 DEF SettleStep, SettleAccepted, SettleRefused, SettlePull, SettlePulled,
     SettlePullReverted, SettleBreaks, SettlePay, SettlePaid, SettleGivesUp,
     RegisterNonce, SetStatus, SetComplete, SettleReturns, rows, recovering, TypeOK
<1>5. QED BY <1>3, <1>4, CallersApart

LEMMA SettleKeepsPayout ==
  ASSUME PayoutInv, NEW p \in Payments, SettleStep(p)
  PROVE  OneWorker' /\ PayoutsNamed'
<1> USE DEF PayoutInv, SettleInv
<1>0. /\ TypeOK /\ W!TypeOK /\ OneWorkerAt(p) /\ HandlersInStep /\ StatusBacked
      /\ NoTx \notin signed
  BY SettlementAssumption DEF W!WalletInv, W!TypeOK, OneWorker
<1>1. /\ signed' = signed /\ UNCHANGED <<rpc, snap, overlap>>
      /\ \A q \in Payments : q # p =>
           /\ status'[q] = status[q] /\ outTx'[q] = outTx[q] /\ spc'[q] = spc[q]
           /\ stage'[S(q)] = stage[S(q)] /\ held'[S(q)] = held[S(q)]
      /\ \A q \in Payments :
           stage'[R(q)] = stage[R(q)] /\ held'[R(q)] = held[R(q)]
  BY SettleLocal
<1>2. \A q \in Payments : q # p => OneWorkerAt(q)'
  BY <1>1, UntouchedRow DEF OneWorker
<1>3. OneWorkerAt(p)' /\ (p \notin overlap => outTx'[p] = outTx[p])
  <2>1. CASE SettleAccepted(p)
    BY <1>0, <1>1, <2>1 DEF SettleAccepted, RegisterNonce, OneWorkerAt,
       PayoutUnsigned, Live, TypeOK, wallet, recovering, Terminal, S, R
  <2>2. CASE SettleRefused(p) \/ SettleBreaks(p)
    BY <1>0, <1>1, <2>2 DEF SettleRefused, SettleBreaks, SettleReturns, OneWorkerAt,
       PayoutUnsigned, Live, TypeOK, rows, wallet, recovering, S, R
  <2>3. CASE SettlePull(p) \/ SettlePay(p)
    <3>1. stage'[S(p)] = "queued"
      BY <1>0, <2>3, SubmitLocal, CallersApart DEF SettlePull, SettlePay
    <3>2. UNCHANGED rows
      BY <2>3 DEF SettlePull, SettlePay
    <3>3. \/ spc[p] = "accepted" /\ spc'[p] = "pulling"
          \/ spc[p] = "pulled" /\ spc'[p] = "paying"
      BY <1>0, <2>3 DEF SettlePull, SettlePay, TypeOK
    <3>4. QED
      BY <1>0, <1>1, <3>1, <3>2, <3>3 DEF OneWorkerAt, PayoutUnsigned, Live, rows,
         S, R
  <2>4. CASE SettlePulled(p)
    <3>1. /\ spc[p] = "pulling" /\ spc'[p] = "pulled" /\ status'[p] = "incoming_complete"
          /\ outTx' = outTx
      BY <1>0, <2>4 DEF SettlePulled, SetStatus, TypeOK
    <3>2. QED
      BY <1>0, <1>1, <3>1 DEF OneWorkerAt, PayoutUnsigned, Live, S, R
  <2>5. CASE SettlePullReverted(p) \/ SettleGivesUp(p)
    <3>1. /\ spc[p] \in {"pulling", "paying"} /\ spc'[p] = "done"
          /\ status'[p] \in {status[p], "failed"} /\ outTx' = outTx
      BY <1>0, <2>5 DEF SettlePullReverted, SettleGivesUp, SettleReturns, SetStatus,
         rows, TypeOK
    <3>2. QED
      BY <1>0, <1>1, <3>1 DEF OneWorkerAt, PayoutUnsigned, Live, Terminal, S, R
  <2>6. CASE SettlePaid(p)
    <3>1. /\ spc[p] = "paying" /\ spc'[p] = "done" /\ stage[S(p)] = "returned"
          /\ status'[p] = "complete" /\ outTx'[p] = held[S(p)]
      BY <1>0, <2>6 DEF SettlePaid, SettleReturns, SetComplete, TypeOK
    <3>2. QED
      BY <1>0, <1>1, <3>1 DEF OneWorkerAt, PayoutUnsigned, Live, Terminal, S, R
  <2>7. QED BY <2>1, <2>2, <2>3, <2>4, <2>5, <2>6 DEF SettleStep
<1>4. PayoutsNamed'
  BY <1>0, <1>1, <1>3, StillNamed
<1>5. QED BY <1>2, <1>3, <1>4 DEF OneWorker

\* The same of a step of recoverPayment; re-sending touches no caller.
LEMMA RecoverLocal ==
  ASSUME SettleInv, NEW p \in Payments, RecoverStep(p)
  PROVE  /\ signed' = signed /\ UNCHANGED <<spc, overlap>>
         /\ \A q \in Payments : q # p =>
              /\ status'[q] = status[q] /\ outTx'[q] = outTx[q]
              /\ rpc'[q] = rpc[q] /\ snap'[q] = snap[q]
              /\ stage'[R(q)] = stage[R(q)] /\ held'[R(q)] = held[R(q)]
         /\ \A q \in Payments :
              stage'[S(q)] = stage[S(q)] /\ held'[S(q)] = held[S(q)]
<1> USE DEF SettleInv
<1>1. W!TypeOK /\ TypeOK
  BY DEF W!WalletInv
<1>2. \/ UNCHANGED <<stage, held, signed>> \/ W!Resume(R(p))
      \/ W!Submit(R(p), OutCall(p))
  BY DEF RecoverStep, RecoverResendsPull, RecoverPulled, RecoverPullReverted,
     RecoverZeroAmount, RecoverPays, RecoverSubmitted, RecoverConfirmed,
     RecoverResendsPay, RecoverGivesUp, BroadcastRaw, W!Rebroadcast, W!wallet, wallet
<1>3. /\ signed' = signed
      /\ \A u \in Callers : u # R(p) => stage'[u] = stage[u] /\ held'[u] = held[u]
  <2>1. CASE W!Resume(R(p))
    BY <1>1, <2>1, ResumeLocal, CallersApart
  <2>2. CASE W!Submit(R(p), OutCall(p))
    BY <1>1, <2>2, SubmitLocal, CallersApart
  <2>3. QED BY <1>2, <2>1, <2>2
<1>4. /\ UNCHANGED <<spc, overlap>>
      /\ \A q \in Payments : q # p =>
           /\ status'[q] = status[q] /\ outTx'[q] = outTx[q]
           /\ rpc'[q] = rpc[q] /\ snap'[q] = snap[q]
  BY <1>1 DEF RecoverStep, RecoverResendsPull, RecoverPulled, RecoverPullReverted,
     RecoverZeroAmount, RecoverPays, RecoverSubmitted, RecoverConfirmed,
     RecoverResendsPay, RecoverGivesUp, RecoverEnds, SetStatus, SetComplete, rows,
     settling, TypeOK
<1>5. QED BY <1>3, <1>4, CallersApart

LEMMA RecoverKeepsPayout ==
  ASSUME PayoutInv, NEW p \in Payments, RecoverStep(p)
  PROVE  OneWorker' /\ PayoutsNamed'
<1> USE DEF PayoutInv, SettleInv
<1>0. /\ TypeOK /\ W!TypeOK /\ OneWorkerAt(p) /\ HandlersInStep /\ StatusBacked
      /\ NoTx \notin signed
  BY SettlementAssumption DEF W!WalletInv, W!TypeOK, OneWorker
<1>1. /\ signed' = signed /\ UNCHANGED <<spc, overlap>>
      /\ \A q \in Payments : q # p =>
           /\ status'[q] = status[q] /\ outTx'[q] = outTx[q]
           /\ rpc'[q] = rpc[q] /\ snap'[q] = snap[q]
           /\ stage'[R(q)] = stage[R(q)] /\ held'[R(q)] = held[R(q)]
      /\ \A q \in Payments :
           stage'[S(q)] = stage[S(q)] /\ held'[S(q)] = held[S(q)]
  BY RecoverLocal
<1>2. \A q \in Payments : q # p => OneWorkerAt(q)'
  BY <1>1, UntouchedRow DEF OneWorker
<1>3. OneWorkerAt(p)' /\ (p \notin overlap => outTx'[p] = outTx[p])
  <2>1. CASE RecoverResendsPull(p)
    <3>1. /\ snap[p].status = "incoming_submitted" /\ rpc[p] = "begin"
          /\ rpc'[p] = "pullwait" /\ UNCHANGED <<rows, snap>>
      BY <1>0, <2>1 DEF RecoverResendsPull, InStage0, TypeOK
    <3>2. QED
      BY <1>0, <1>1, <3>1 DEF OneWorkerAt, PayoutUnsigned, Live, rows, S, R
  <2>2. CASE RecoverPulled(p)
    <3>1. /\ snap[p].status = "incoming_submitted" /\ rpc[p] \in {"begin", "pullwait"}
          /\ rpc'[p] = "begin" /\ outTx' = outTx
          /\ status'[p] = "incoming_complete" /\ snap'[p].status = "incoming_complete"
      BY <1>0, <2>2 DEF RecoverPulled, InStage0, SetStatus, TypeOK, Row
    <3>2. QED
      BY <1>0, <1>1, <3>1 DEF OneWorkerAt, PayoutUnsigned, Live, S, R
  <2>3. CASE RecoverPullReverted(p) \/ RecoverZeroAmount(p)
    <3>1. /\ rpc[p] # "idle" /\ rpc'[p] = "idle" /\ outTx' = outTx
          /\ status'[p] = "failed"
      BY <1>0, <2>3 DEF RecoverPullReverted, RecoverZeroAmount, InStage0, PastStage0,
         SetStatus, RecoverEnds, TypeOK
    <3>2. QED
      BY <1>0, <1>1, <3>1 DEF OneWorkerAt, PayoutUnsigned, Live, Terminal, S, R
  <2>4. CASE RecoverPays(p)
    <3>1. stage'[R(p)] = "queued"
      BY <1>0, <2>4, SubmitLocal, CallersApart DEF RecoverPays
    <3>2. /\ rpc[p] = "begin" /\ rpc'[p] = "paying" /\ UNCHANGED <<rows, snap>>
          /\ snap[p].status # "outgoing_submitted" \/ snap[p].outTx = NoTx
      BY <1>0, <2>4 DEF RecoverPays, PastStage0, NeedsOutgoing, TypeOK
    <3>3. QED
      BY <1>0, <1>1, <3>1, <3>2 DEF OneWorkerAt, PayoutUnsigned, Live, rows, S, R
  <2>5. CASE RecoverSubmitted(p)
    <3>1. /\ rpc[p] = "paying" /\ stage[R(p)] = "returned" /\ rpc'[p] = "begin"
          /\ UNCHANGED rows /\ snap'[p].outTx = held[R(p)]
          /\ snap'[p].status = "outgoing_submitted"
      BY <1>0, <2>5 DEF RecoverSubmitted, TypeOK, Row
    <3>2. held[R(p)] # NoTx
      BY <1>0, <3>1, ReturnedIsSigned, CallersApart
    <3>3. QED
      BY <1>0, <1>1, <3>1, <3>2 DEF OneWorkerAt, PayoutUnsigned, Live, rows, S, R
  <2>6. CASE RecoverConfirmed(p)
    <3>1. /\ rpc[p] # "idle" /\ rpc'[p] = "idle" /\ status'[p] = "complete"
          /\ outTx'[p] = snap[p].outTx
          /\ rpc[p] = "paywait" \/ snap[p].status = "outgoing_submitted"
      BY <1>0, <2>6 DEF RecoverConfirmed, InPhase2, PastStage0, NeedsOutgoing,
         SetComplete, RecoverEnds, TypeOK
    <3>2. QED
      BY <1>0, <1>1, <3>1 DEF OneWorkerAt, PayoutUnsigned, Live, Terminal, S, R
  <2>7. CASE RecoverResendsPay(p)
    <3>1. /\ rpc[p] = "begin" /\ rpc'[p] = "paywait" /\ UNCHANGED <<rows, snap>>
          /\ snap[p].status = "outgoing_submitted"
      BY <1>0, <2>7 DEF RecoverResendsPay, InPhase2, NeedsOutgoing, TypeOK
    <3>2. QED
      BY <1>0, <1>1, <3>1 DEF OneWorkerAt, PayoutUnsigned, Live, rows, S, R
  <2>8. CASE RecoverGivesUp(p)
    <3>1. /\ rpc[p] # "idle" /\ rpc'[p] = "idle" /\ UNCHANGED rows
      BY <1>0, <2>8 DEF RecoverGivesUp, RecoverEnds, TypeOK
    <3>2. QED
      BY <1>0, <1>1, <3>1 DEF OneWorkerAt, PayoutUnsigned, Live, rows, S, R
  <2>9. QED
    BY <2>1, <2>2, <2>3, <2>4, <2>5, <2>6, <2>7, <2>8 DEF RecoverStep
<1>4. PayoutsNamed'
  BY <1>0, <1>1, <1>3, StillNamed
<1>5. QED BY <1>2, <1>3, <1>4 DEF OneWorker

LEMMA RefundKeepsPayout ==
  ASSUME PayoutInv, NEW p \in Payments, NEW r \in Refunds, RefundStep(p, r)
  PROVE  OneWorker' /\ PayoutsNamed'
<1> USE DEF PayoutInv, SettleInv
<1>0. TypeOK /\ W!TypeOK /\ NoTx \notin signed
  BY SettlementAssumption DEF W!WalletInv, W!TypeOK
<1>1. \/ UNCHANGED wallet \/ W!Resume(F(p, r)) \/ W!Submit(F(p, r), RefundCall(p))
  BY DEF RefundStep, RefundReads, RefundSubmits, RefundConfirmed, RefundRefused,
     RefundGivesUp
<1>2. /\ signed' = signed
      /\ \A u \in Callers : u # F(p, r) => stage'[u] = stage[u] /\ held'[u] = held[u]
  <2>1. CASE W!Resume(F(p, r))
    BY <1>0, <2>1, ResumeLocal, CallersApart
  <2>2. CASE W!Submit(F(p, r), RefundCall(p))
    BY <1>0, <2>2, SubmitLocal, CallersApart
  <2>3. QED BY <1>1, <2>1, <2>2 DEF wallet
<1>3. /\ UNCHANGED <<spc, rpc, snap, overlap, outTx>>
      /\ UNCHANGED status \/ status' = [status EXCEPT ![p] = "refunded"]
  BY DEF RefundStep, RefundReads, RefundSubmits, RefundConfirmed, RefundRefused,
     RefundGivesUp, SetStatus, rows, settling, recovering
<1>4. ASSUME NEW q \in Payments PROVE OneWorkerAt(q)'
  <2>1. /\ stage'[S(q)] = stage[S(q)] /\ stage'[R(q)] = stage[R(q)]
        /\ held'[S(q)] = held[S(q)] /\ held'[R(q)] = held[R(q)]
    BY <1>2, CallersApart
  <2>2. status'[q] \in {status[q], "refunded"}
    BY <1>0, <1>3 DEF TypeOK
  <2>3. OneWorkerAt(q)
    BY DEF OneWorker
  <2>4. QED
    BY <1>3, <2>1, <2>2, <2>3 DEF OneWorkerAt, PayoutUnsigned, Live, Terminal, S, R
<1>5. PayoutsNamed'
  BY <1>0, <1>2, <1>3, StillNamed
<1>6. QED BY <1>4, <1>5 DEF OneWorker

-----------------------------------------------------------------------------
(* The wallet signs: the only steps in which a payout comes into being.    *)

LEMMA PayeesApart ==
  \A p, q \in Payments : PullCall(p) # OutCall(q) /\ RefundCall(p) # OutCall(q)
BY DEF PullCall, RefundCall, OutCall

\* A wallet step of t either signs what t submitted, and the row it belongs to
\* names it, or changes no row.
LEMMA WalletLocal ==
  ASSUME W!TypeOK, NEW t \in Callers, WalletStep(t)
  PROVE  /\ UNCHANGED <<call, settling, recovering, refunding>>
         /\ \A u \in Callers : u # t => stage'[u] = stage[u] /\ held'[u] = held[u]
         /\ \/ /\ UNCHANGED <<rows, signed, held>>
               /\ \/ stage[t] = "queued" /\ stage'[t] = "allocated"
                  \/ stage[t] = "signed" /\ stage'[t] = "returned"
                  \/ stage'[t] = "threw"
            \/ \E fee \in Fees :
                 /\ stage[t] = "allocated" /\ signed' = signed \cup {W!SignedBy(t, fee)}
                 /\ OnSigned(t[2], W!SignedBy(t, fee))
                 /\ \/ stage'[t] = "signed" /\ held'[t] = W!SignedBy(t, fee)
                    \/ stage'[t] = "threw"
<1>1. CASE WalletSign(t)
  BY <1>1 DEF WalletStep, WalletSign, W!Sign, W!TypeOK
<1>2. CASE WalletSignFails(t)
  BY <1>2 DEF WalletStep, WalletSignFails, W!SignFails, W!Resync, W!TypeOK
<1>3. CASE WalletOther(t)
  BY <1>3 DEF WalletStep, WalletOther, W!Allocate, W!AllocateFails, W!Broadcast,
     W!BroadcastRejected, W!BroadcastFails, W!Resync, W!TypeOK
<1>4. QED BY <1>1, <1>2, <1>3 DEF WalletStep

LEMMA OwnerOf ==
  ASSUME NEW t \in Callers
  PROVE  \E p \in Payments :
           t \in {S(p), R(p)} \cup {F(p, r) : r \in Refunds} /\ t[2] = p
<1>1. PICK p \in Payments : t \in {S(p), R(p)} \cup {F(p, r) : r \in Refunds}
  BY DEF Callers, Refunders
<1>2. t[2] = p
  BY <1>1 DEF S, R, F
<1>3. QED BY <1>1, <1>2

LEMMA WalletKeepsPayout ==
  ASSUME PayoutInv, NEW t \in Callers, WalletStep(t)
  PROVE  OneWorker' /\ PayoutsNamed'
<1> USE DEF PayoutInv, SettleInv
<1>0. /\ TypeOK /\ W!TypeOK /\ HandlersInStep /\ StatusBacked
      /\ NoTx \notin signed /\ NoTx \notin W!Tx
  BY SettlementAssumption DEF W!WalletInv, W!TypeOK
<1>1. PICK p \in Payments :
        t \in {S(p), R(p)} \cup {F(p, r) : r \in Refunds} /\ t[2] = p
  BY OwnerOf
<1>2. /\ UNCHANGED <<call, spc, rpc, snap, overlap>>
      /\ \A u \in Callers : u # t => stage'[u] = stage[u] /\ held'[u] = held[u]
  BY <1>0, WalletLocal DEF settling, recovering
<1>3. \A q \in Payments : q # p =>
        /\ stage'[S(q)] = stage[S(q)] /\ stage'[R(q)] = stage[R(q)]
        /\ held'[S(q)] = held[S(q)] /\ held'[R(q)] = held[R(q)]
  BY <1>1, <1>2, CallersApart
<1>4. OneWorkerAt(p)
  BY DEF OneWorker
<1>5. CASE /\ UNCHANGED <<rows, signed, held>>
           /\ \/ stage[t] = "queued" /\ stage'[t] = "allocated"
              \/ stage[t] = "signed" /\ stage'[t] = "returned"
              \/ stage'[t] = "threw"
  <2>1. \A q \in Payments : q # p => OneWorkerAt(q)'
    BY <1>2, <1>3, <1>5, UntouchedRow DEF OneWorker, rows
  <2>2. \A u \in {S(p), R(p)} :
          /\ stage'[u] \in {"queued", "allocated"} => stage[u] \in {"queued", "allocated"}
          /\ stage'[u] \in {"signed", "returned"} => stage[u] \in {"signed", "returned"}
          /\ held'[u] = held[u]
    BY <1>1, <1>2, <1>5, CallersApart
  <2>3. OneWorkerAt(p)'
    BY <1>2, <1>4, <1>5, <2>2 DEF OneWorkerAt, PayoutUnsigned, Live, rows, S, R
  <2>4. PayoutsNamed'
    BY <1>0, <1>2, <1>5, StillNamed DEF rows
  <2>5. QED BY <2>1, <2>3, <2>4 DEF OneWorker
<1>6. CASE \E fee \in Fees :
             /\ stage[t] = "allocated" /\ signed' = signed \cup {W!SignedBy(t, fee)}
             /\ OnSigned(t[2], W!SignedBy(t, fee))
             /\ \/ stage'[t] = "signed" /\ held'[t] = W!SignedBy(t, fee)
                \/ stage'[t] = "threw"
  <2>1. PICK fee \in Fees :
             /\ stage[t] = "allocated" /\ signed' = signed \cup {W!SignedBy(t, fee)}
             /\ OnSigned(p, W!SignedBy(t, fee))
             /\ \/ stage'[t] = "signed" /\ held'[t] = W!SignedBy(t, fee)
                \/ stage'[t] = "threw"
    BY <1>1, <1>6
  <2> DEFINE x == W!SignedBy(t, fee)
  <2>2. x \in W!Tx /\ x # NoTx /\ x.call = call[t]
    BY <1>0, <2>1 DEF W!SignedBy, W!Tx, W!TypeOK
  <2>3. PICK y \in W!Tx : /\ y # NoTx /\ y.call = call[t] /\ signed' = signed \cup {y}
                          /\ OnSigned(p, y)
                          /\ \/ stage'[t] = "signed" /\ held'[t] = y
                             \/ stage'[t] = "threw"
    BY <2>1, <2>2
  <2> HIDE DEF x
  \* What may have been signed, and for whom.
  <2>4. \/ /\ t = S(p) /\ spc[p] = "pulling" /\ y.call = PullCall(p)
           /\ RecordIncomingIntent(p, y)
        \/ /\ t = S(p) /\ spc[p] = "paying" /\ y.call = OutCall(p)
           /\ RecordOutgoingIntent(p, y)
        \/ /\ t = R(p) /\ rpc[p] = "paying" /\ y.call = OutCall(p)
           /\ RecordOutgoingIntent(p, y)
        \/ /\ t \in {F(p, r) : r \in Refunds} /\ y.call = RefundCall(p)
           /\ UNCHANGED rows
    <3>1. CASE t = S(p)
      <4>1. \/ spc[p] = "pulling" /\ y.call = PullCall(p)
            \/ spc[p] = "paying" /\ y.call = OutCall(p)
        BY <1>0, <2>1, <2>3, <3>1 DEF HandlersInStep
      <4>2. QED BY <2>3, <3>1, <4>1, CallsApart DEF OnSigned
    <3>2. CASE t = R(p)
      <4>1. rpc[p] = "paying" /\ y.call = OutCall(p)
        BY <1>0, <2>1, <2>3, <3>2 DEF HandlersInStep
      <4>2. QED BY <2>3, <3>2, <4>1, CallsApart DEF OnSigned
    <3>3. CASE t \in {F(p, r) : r \in Refunds}
      <4>1. y.call = RefundCall(p)
        BY <1>0, <2>1, <2>3, <3>3 DEF HandlersInStep
      <4>2. QED BY <2>3, <3>3, <4>1, CallsApart DEF OnSigned
    <3>4. QED BY <1>1, <3>1, <3>2, <3>3
  <2>5. \A q \in Payments : q # p => status'[q] = status[q] /\ outTx'[q] = outTx[q]
    BY <1>0, <2>4 DEF RecordIncomingIntent, RecordOutgoingIntent, rows, TypeOK
  <2>6. \A q \in Payments : q # p => OneWorkerAt(q)'
    BY <1>2, <1>3, <2>5, UntouchedRow DEF OneWorker
  <2>7. OneWorkerAt(p)' /\ (p \notin overlap => outTx'[p] = outTx[p] \/ outTx[p] = NoTx)
    <3>1. CASE t = S(p) /\ spc[p] = "pulling" /\ RecordIncomingIntent(p, y)
      <4>1. /\ status'[p] = "incoming_submitted" /\ outTx' = outTx
            /\ stage'[R(p)] = stage[R(p)] /\ held'[R(p)] = held[R(p)]
        BY <1>0, <1>2, <3>1, CallersApart DEF RecordIncomingIntent, TypeOK
      <4>2. QED
        BY <1>2, <1>4, <3>1, <4>1 DEF OneWorkerAt, PayoutUnsigned, Live, S, R
    <3>2. CASE t = S(p) /\ spc[p] = "paying" /\ RecordOutgoingIntent(p, y)
      <4>1. /\ status'[p] = "outgoing_submitted" /\ outTx'[p] = y
            /\ stage'[R(p)] = stage[R(p)] /\ held'[R(p)] = held[R(p)]
            /\ stage[S(p)] = "allocated"
            /\ (stage'[S(p)] = "signed" /\ held'[S(p)] = y) \/ stage'[S(p)] = "threw"
        BY <1>0, <1>2, <2>1, <2>3, <3>2, CallersApart DEF RecordOutgoingIntent, TypeOK
      <4>2. QED
        BY <1>2, <1>4, <2>3, <3>2, <4>1 DEF OneWorkerAt, PayoutUnsigned, Live, S, R
    <3>3. CASE t = R(p) /\ rpc[p] = "paying" /\ RecordOutgoingIntent(p, y)
      <4>1. /\ status'[p] = "outgoing_submitted" /\ outTx'[p] = y
            /\ stage'[S(p)] = stage[S(p)] /\ held'[S(p)] = held[S(p)]
            /\ stage[R(p)] = "allocated"
            /\ (stage'[R(p)] = "signed" /\ held'[R(p)] = y) \/ stage'[R(p)] = "threw"
        BY <1>0, <1>2, <2>1, <2>3, <3>3, CallersApart DEF RecordOutgoingIntent, TypeOK
      <4>2. QED
        BY <1>2, <1>4, <2>3, <3>3, <4>1 DEF OneWorkerAt, PayoutUnsigned, Live, S, R
    <3>4. CASE t \in {F(p, r) : r \in Refunds} /\ UNCHANGED rows
      <4>1. /\ stage'[S(p)] = stage[S(p)] /\ held'[S(p)] = held[S(p)]
            /\ stage'[R(p)] = stage[R(p)] /\ held'[R(p)] = held[R(p)]
        BY <1>2, <3>4, CallersApart
      <4>2. QED
        BY <1>2, <1>4, <3>4, <4>1, UntouchedRow DEF rows
    <3>5. QED BY <2>4, <3>1, <3>2, <3>3, <3>4
  <2>8. PayoutsNamed'
    <3>1. ASSUME NEW z \in signed, z.call \in Payees
          PROVE  \E q \in Payments :
                   OutCall(q) = z.call /\ (q \in overlap \/ outTx'[q] = z)
      BY <1>0, <2>5, <2>7, <3>1 DEF PayoutsNamed
    <3>2. ASSUME y.call \in Payees PROVE OutCall(p) = y.call /\ outTx'[p] = y
      <4>1. y.call = OutCall(p) /\ RecordOutgoingIntent(p, y)
        BY <2>4, <3>2, PayeesApart DEF Payees
      <4>2. QED BY <1>0, <4>1 DEF RecordOutgoingIntent, TypeOK
    <3>3. QED BY <1>2, <2>3, <3>1, <3>2 DEF PayoutsNamed, Payees, OutCall
  <2>9. QED BY <2>6, <2>7, <2>8 DEF OneWorker
<1>7. QED BY <1>0, <1>5, <1>6, WalletLocal

-----------------------------------------------------------------------------
(* The worker's claim, the chain and restarts.                             *)

LEMMA OthersKeepPayout ==
  ASSUME PayoutInv,
         \/ ClaimIncompletePayments
         \/ \E p \in Payments : LockGoesStale(p)
         \/ Mine \/ Crash \/ UNCHANGED vars
  PROVE  OneWorker' /\ PayoutsNamed'
<1> USE DEF PayoutInv, SettleInv
<1>0. /\ TypeOK /\ W!TypeOK /\ StatusBacked /\ NoTx \notin signed
  BY SettlementAssumption DEF W!WalletInv, W!TypeOK
<1>1. CASE ClaimIncompletePayments
  <2>1. /\ UNCHANGED <<status, outTx, spc, stage, held, signed>>
        /\ overlap \subseteq overlap'
    BY <1>1 DEF ClaimIncompletePayments, settling, wallet
  <2>2. ASSUME NEW q \in Payments PROVE OneWorkerAt(q)'
    <3>1. OneWorkerAt(q) /\ rpc[q] = "idle"
      BY <1>1 DEF OneWorker, ClaimIncompletePayments
    <3>2. CASE q \in Claimable
      <4>1. /\ status[q] \in Incomplete /\ rpc'[q] = "begin"
            /\ snap'[q].status = status[q] /\ snap'[q].outTx = outTx[q]
            /\ Live(q) => q \in overlap'
        BY <1>1, <3>2 DEF ClaimIncompletePayments, Claimable
      <4>2. QED
        BY <2>1, <3>1, <4>1 DEF OneWorkerAt, PayoutUnsigned, Live, Incomplete,
           Terminal, S, R
    <3>3. CASE q \notin Claimable
      <4>1. rpc'[q] = "idle"
        BY <1>1, <3>3 DEF ClaimIncompletePayments
      <4>2. QED
        BY <2>1, <3>1, <4>1 DEF OneWorkerAt, PayoutUnsigned, Live, S, R
    <3>4. QED BY <3>2, <3>3
  <2>3. PayoutsNamed'
    BY <1>0, <2>1, StillNamed
  <2>4. QED BY <2>2, <2>3 DEF OneWorker
<1>2. CASE \/ \E p \in Payments : LockGoesStale(p)
           \/ Mine \/ UNCHANGED vars
  <2>1. UNCHANGED <<status, outTx, spc, rpc, snap, overlap, stage, held, signed>>
    BY <1>2 DEF LockGoesStale, Mine, W!Mine, W!wallet, vars, rows, settling,
       recovering, wallet
  <2>2. OneWorker'
    BY <2>1, UntouchedRow DEF OneWorker
  <2>3. QED BY <1>0, <2>1, <2>2, StillNamed
<1>3. CASE Crash
  <2>1. /\ UNCHANGED <<status, outTx, overlap, signed>>
        /\ \A q \in Payments : spc'[q] \in {"new", "done"} /\ rpc'[q] = "idle"
    BY <1>3 DEF Crash, W!Crash, rows
  <2>2. ASSUME NEW q \in Payments PROVE OneWorkerAt(q)'
    BY <2>1 DEF OneWorker, OneWorkerAt, PayoutUnsigned, Live
  <2>3. QED BY <1>0, <2>1, <2>2, StillNamed DEF OneWorker
<1>4. QED BY <1>1, <1>2, <1>3

LEMMA InitPayout == Init => PayoutInv
<1> SUFFICES ASSUME Init PROVE PayoutInv
  OBVIOUS
<1>1. SettleInv
  BY InitSettle
<1>2. SlotsInOrder /\ PayoutsNamed
  BY DEF Init, W!Init, SlotsInOrder, PayoutsNamed
<1>3. ASSUME NEW p \in Payments PROVE OneWorkerAt(p)
  BY DEF Init, OneWorkerAt, PayoutUnsigned, Live
<1>4. QED BY <1>1, <1>2, <1>3 DEF PayoutInv, OneWorker

LEMMA StepPayout == PayoutInv /\ [Next]_vars => PayoutInv'
<1> SUFFICES ASSUME PayoutInv, [Next]_vars PROVE PayoutInv'
  OBVIOUS
<1>1. SettleInv /\ SettleInv'
  BY StepSettle DEF PayoutInv
<1>2. SlotsInOrder'
  BY <1>1, WalletPart, SlotsStep, Frame DEF PayoutInv, SettleInv
<1>3. OneWorker' /\ PayoutsNamed'
  BY SettleKeepsPayout, RecoverKeepsPayout, RefundKeepsPayout, WalletKeepsPayout,
     OthersKeepPayout DEF Next
<1>4. QED BY <1>1, <1>2, <1>3 DEF PayoutInv

-----------------------------------------------------------------------------
(* From names to numbers.                                                  *)

\* Each executed payout belongs to a payment of its own that was pulled.
LEMMA PayoutsCounted ==
  ASSUME PayoutInv, NEW c \in Payees,
         \A p \in overlap : OutCall(p) # c
  PROVE  TimesPaid(c) <= Cardinality(Owed(c))
<1> USE DEF PayoutInv, SettleInv
<1>1. /\ TypeOK /\ slots \in Seq(W!Tx) /\ Len(slots) \in Nat
      /\ Len(outcome) \in Nat /\ Len(outcome) <= Len(slots)
  BY LenProperties DEF W!WalletInv, W!TypeOK
<1>2. Succeeded(c) \subseteq 1 .. Len(slots)
  BY <1>1 DEF Succeeded
<1>3. ASSUME NEW i \in Succeeded(c)
      PROVE  \E p \in Owed(c) : outTx[p] = slots[i]
  <2>1. slots[i] \in signed /\ slots[i].call = c /\ slots[i] \in W!Tx
    BY <1>1, <1>2 DEF SlotsInOrder, Succeeded
  <2>2. PICK p \in Payments : OutCall(p) = c /\ outTx[p] = slots[i]
    BY <2>1 DEF PayoutsNamed
  <2>3. Pulled(p)
    BY <2>1, <2>2, SettlementAssumption DEF NamesOwnTxs
  <2>4. QED BY <2>2, <2>3 DEF Owed
<1> DEFINE f == [i \in Succeeded(c) |-> CHOOSE p \in Owed(c) : outTx[p] = slots[i]]
<1>4. \A i \in Succeeded(c) : f[i] \in Owed(c) /\ outTx[f[i]] = slots[i]
  BY <1>3
<1>5. \A i, j \in Succeeded(c) : f[i] = f[j] => i = j
  <2> SUFFICES ASSUME NEW i \in Succeeded(c), NEW j \in Succeeded(c), f[i] = f[j]
               PROVE  i = j
    OBVIOUS
  <2>1. slots[i] = slots[j]
    BY <1>4
  <2>2. i - 1 = j - 1 /\ i \in Nat /\ j \in Nat
    BY <1>1, <1>2, <2>1 DEF SlotsInOrder
  <2>3. QED BY <2>2
<1>6. f \in Injection(Succeeded(c), Owed(c))
  BY <1>4, <1>5 DEF Injection, IsInjective
<1>7. IsFiniteSet(Owed(c))
  BY SettlementAssumption, FS_Subset DEF Owed
<1>8. QED
  BY <1>6, <1>7, FS_Injection DEF TimesPaid

\* The strengthening that makes exactly-once payout inductive: whoever signs a
\* payout finds none named by the row, and every payout is named by a row.
THEOREM PayoutInvariant == Spec => []PayoutInv
BY InitPayout, StepPayout, PTL DEF Spec

\* A merchant never gets more transfers than payments were pulled for it, unless
\* the worker took over a row whose handler was still running
\* (src/nonceStore.ts claimIncompletePayments).
THEOREM PaidOnceButForOverlap == Spec => []OverpaidOnlyByOverlap
<1>1. PayoutInv => OverpaidOnlyByOverlap
  <2> SUFFICES ASSUME PayoutInv, NEW c \in Payees, \A p \in overlap : OutCall(p) # c
               PROVE  ~(TimesPaid(c) > Cardinality(Owed(c)))
    BY DEF OverpaidOnlyByOverlap
  <2>1. TimesPaid(c) <= Cardinality(Owed(c))
    BY PayoutsCounted
  <2>2. Cardinality(Owed(c)) \in Nat /\ TimesPaid(c) \in Nat
    <3>1. IsFiniteSet(Owed(c))
      BY SettlementAssumption, FS_Subset DEF Owed
    <3>2. IsFiniteSet(Succeeded(c))
      <4>1. Len(outcome) \in Nat
        BY LenProperties DEF PayoutInv, SettleInv, W!WalletInv, W!TypeOK
      <4>2. IsFiniteSet(1 .. Len(outcome))
        BY <4>1, FS_Interval
      <4>3. QED BY <4>2, FS_Subset DEF Succeeded
    <3>3. QED BY <3>1, <3>2, FS_CardinalityType DEF TimesPaid
  <2>3. QED BY <2>1, <2>2
<1>2. QED BY <1>1, PayoutInvariant, PTL

-----------------------------------------------------------------------------
(* What merchants are told: a mined transfer of their own.                 *)

LEMMA CreditIsSigned ==
  ASSUME SettleInv, AnswersMined, NEW p \in Payments, Credited(p)
  PROVE  /\ Credit(p) \in W!Tx /\ Credit(p) \in signed
         /\ Credit(p).nonce \in Nat
<1>1. CASE answer[p] # NoTx
  BY <1>1 DEF SettleInv, W!WalletInv, W!TypeOK, AnswersMined, Credit, W!Tx
<1>2. CASE answer[p] = NoTx
  BY <1>2, ReturnedIsSigned, CallersApart DEF Credited, Credit, W!Tx
<1>3. QED BY <1>1, <1>2

\* Faults are only ever counted up.
LEMMA FaultsCounted ==
  ASSUME SettleInv, [Next]_vars
  PROVE  Forgetful => Forgetful'
<1>1. W!TypeOK /\ W!TypeOK'
  BY Frame DEF SettleInv, W!WalletInv
<1>2. fails \in Nat /\ crashes \in Nat /\ fails' \in Nat /\ crashes' \in Nat
  BY <1>1 DEF W!TypeOK
<1>3. [W!Next]_(W!vars)
  BY WalletPart
<1>4. fails <= fails' /\ crashes <= crashes'
  BY <1>2, <1>3
     DEF W!Next, W!Submit, W!Proceed, W!Allocate, W!AllocateFails, W!Sign,
         W!SignFails, W!Broadcast, W!BroadcastRejected, W!BroadcastFails,
         W!Resume, W!Rebroadcast, W!Mine, W!Crash, W!Fail, W!vars
<1>5. QED BY <1>2, <1>4 DEF Forgetful

\* A step that hands out no nonce and credits nobody anew.
LEMMA CreditsKept ==
  ASSUME SettleInv, AnswersMined, CreditsApart, [Next]_vars,
         \A p \in Payments : Credited(p)' => Credited(p) /\ Credit(p)' = Credit(p),
         \A t \in Callers : stage'[t] \in W!Critical =>
           stage[t] \in W!Critical /\ acct'[t] = acct[t]
  PROVE  CreditsApart'
<1>1. Forgetful => Forgetful'
  BY FaultsCounted
<1>2. /\ Len(slots) \in Nat /\ Len(slots') \in Nat /\ Len(slots) <= Len(slots')
  <2>1. W!TypeOK /\ W!TypeOK'
    BY Frame DEF SettleInv, W!WalletInv
  <2>2. Len(slots) <= Len(slots')
    BY <2>1, WalletPart, WalletGrows
  <2>3. QED BY <2>1, <2>2, LenProperties DEF W!TypeOK
<1>3. \A p \in Payments : Credited(p) => Credit(p).nonce \in Nat
  BY CreditIsSigned
<1>4. CASE Forgetful
  BY <1>1, <1>4 DEF CreditsApart
<1>5. CASE ~Forgetful
  <2> SUFFICES ASSUME NEW p \in Payments, Credited(p)'
               PROVE  /\ Credit(p)'.nonce < Len(slots')
                      /\ \A q \in Payments \ {p} :
                           Credited(q)' => Credit(q)'.nonce # Credit(p)'.nonce
                      /\ \A t \in Callers :
                           stage'[t] \in W!Critical => Credit(p)'.nonce < acct'[t]
    BY DEF CreditsApart, W!Critical
  <2>1. /\ Credit(p).nonce < Len(slots)
        /\ \A q \in Payments \ {p} : Credited(q) => Credit(q).nonce # Credit(p).nonce
        /\ \A t \in Callers : stage[t] \in W!Critical => Credit(p).nonce < acct[t]
    BY <1>5 DEF CreditsApart
  <2>2. Credit(p)' = Credit(p) /\ Credit(p).nonce \in Nat
    BY <1>3
  <2>3. Credit(p)'.nonce < Len(slots')
    BY <1>2, <2>1, <2>2
  <2>4. QED BY <2>1, <2>2, <2>3
<1>6. QED BY <1>4, <1>5

\* What a step does to one handler's response: only a payment whose transfer is
\* confirmed gets one that names a transaction.
LEMMA AnswerLocal ==
  ASSUME SettleInv, [Next]_vars, NEW p \in Payments
  PROVE  \/ answer'[p] = answer[p] /\ (spc[p] = "done" => spc'[p] = "done")
         \/ spc[p] # "done" /\ answer'[p] = NoTx
         \/ /\ spc[p] = "paying" /\ stage[S(p)] = "returned" /\ spc'[p] = "done"
            /\ W!Receipt(held[S(p)]) = "success" /\ answer'[p] = held[S(p)]
<1> USE DEF SettleInv
<1>1. TypeOK
  OBVIOUS
<1>2. ASSUME NEW q \in Payments, SettleStep(q), q # p
      PROVE  answer'[p] = answer[p] /\ spc'[p] = spc[p]
  BY <1>1, <1>2
     DEF SettleStep, SettleAccepted, SettleRefused, SettlePull, SettlePulled,
         SettlePullReverted, SettleBreaks, SettlePay, SettlePaid, SettleGivesUp,
         SettleReturns, TypeOK
<1>3. ASSUME SettleStep(p)
      PROVE  \/ answer'[p] = answer[p] /\ spc[p] # "done"
             \/ spc[p] # "done" /\ answer'[p] = NoTx
             \/ /\ spc[p] = "paying" /\ stage[S(p)] = "returned" /\ spc'[p] = "done"
                /\ W!Receipt(held[S(p)]) = "success" /\ answer'[p] = held[S(p)]
  <2>1. CASE SettleAccepted(p) \/ SettlePull(p) \/ SettlePulled(p) \/ SettlePay(p)
    BY <2>1 DEF SettleAccepted, SettlePull, SettlePulled, SettlePay
  <2>2. CASE SettleRefused(p) \/ SettlePullReverted(p) \/ SettleBreaks(p)
             \/ SettleGivesUp(p)
    BY <1>1, <2>2 DEF SettleRefused, SettlePullReverted, SettleBreaks,
       SettleGivesUp, SettleReturns, TypeOK
  <2>3. CASE SettlePaid(p)
    BY <1>1, <2>3 DEF SettlePaid, SettleReturns, TypeOK
  <2>4. QED BY <1>3, <2>1, <2>2, <2>3 DEF SettleStep
<1>4. CASE Crash
  BY <1>1, <1>4 DEF Crash, TypeOK
<1>5. CASE UNCHANGED settling
  BY <1>5 DEF settling
<1>6. (\E q \in Payments : SettleStep(q)) \/ Crash \/ UNCHANGED settling
  BY DEF Next, WalletStep, ClaimIncompletePayments, LockGoesStale, RecoverStep,
     RecoverResendsPull, RecoverPulled, RecoverPullReverted, RecoverZeroAmount,
     RecoverPays, RecoverSubmitted, RecoverConfirmed, RecoverResendsPay,
     RecoverGivesUp, RefundStep, RefundReads, RefundSubmits, RefundConfirmed,
     RefundRefused, RefundGivesUp, Mine, vars
<1>7. QED BY <1>2, <1>3, <1>4, <1>5, <1>6

LEMMA AnswersStep ==
  ASSUME SettleInv, AnswersMined, [Next]_vars
  PROVE  AnswersMined'
<1> SUFFICES ASSUME NEW p \in Payments, answer'[p] # NoTx
             PROVE  /\ spc'[p] = "done" /\ answer'[p] \in signed'
                    /\ answer'[p].call = OutCall(p)
                    /\ W!Receipt(answer[p])' = "success"
  BY DEF AnswersMined, OutCall
<1>1. /\ signed \subseteq signed' /\ signed \in SUBSET W!Tx
      /\ \A x \in W!Tx : W!Receipt(x) = "success" => W!Receipt(x)' = "success"
  BY Frame DEF SettleInv, W!WalletInv, W!TypeOK
<1>2. CASE answer'[p] = answer[p] /\ (spc[p] = "done" => spc'[p] = "done")
  <2>1. PICK x \in W!Tx : /\ x = answer[p] /\ x \in signed /\ x.call = OutCall(p)
                          /\ W!Receipt(x) = "success" /\ spc[p] = "done"
    BY <1>1, <1>2 DEF AnswersMined
  <2>2. W!Receipt(x)' = "success"
    BY <1>1, <2>1
  <2>3. QED BY <1>1, <1>2, <2>1, <2>2
<1>3. CASE /\ spc[p] = "paying" /\ stage[S(p)] = "returned" /\ spc'[p] = "done"
           /\ W!Receipt(held[S(p)]) = "success" /\ answer'[p] = held[S(p)]
  <2>1. PICK x \in W!Tx : x = held[S(p)] /\ x \in signed /\ x.call = call[S(p)]
    BY <1>3, ReturnedIsSigned, CallersApart
  <2>2. call[S(p)] = OutCall(p)
    BY <1>3 DEF SettleInv, HandlersInStep
  <2>3. W!Receipt(x)' = "success"
    BY <1>1, <1>3, <2>1
  <2>4. QED BY <1>1, <1>3, <2>1, <2>2, <2>3
<1>4. QED BY <1>2, <1>3, AnswerLocal

\* Handlers other than t's own keep their credit in a step of the wallet's t.
LEMMA OtherCreditsKept ==
  ASSUME NEW p \in Payments, answer'[p] = answer[p], spc'[p] = spc[p],
         stage'[S(p)] = stage[S(p)], held'[S(p)] = held[S(p)]
  PROVE  (Credited(p)' <=> Credited(p)) /\ Credit(p)' = Credit(p)
BY DEF Credited, Credit, S

\* A submission starts outside the critical section and its end leaves it.
LEMMA NoNonceTaken ==
  ASSUME W!TypeOK, NEW t \in Callers,
         \/ UNCHANGED <<stage, acct>> \/ W!Resume(t) \/ \E c : W!Submit(t, c)
  PROVE  \A u \in Callers : stage'[u] \in W!Critical =>
           stage[u] \in W!Critical /\ acct'[u] = acct[u]
BY DEF W!TypeOK, W!Resume, W!Submit, W!Critical

LEMMA SettleCredits ==
  ASSUME SettleInv, AnswersMined, CreditsApart, [Next]_vars,
         NEW q \in Payments, SettleStep(q)
  PROVE  CreditsApart'
<1> USE DEF SettleInv, W!WalletInv
<1>1. \/ UNCHANGED wallet \/ W!Resume(S(q))
      \/ W!Submit(S(q), PullCall(q)) \/ W!Submit(S(q), OutCall(q))
  BY DEF SettleStep, SettleAccepted, SettleRefused, SettlePull, SettlePulled,
     SettlePullReverted, SettleBreaks, SettlePay, SettlePaid, SettleGivesUp
<1>2. \A t \in Callers : stage'[t] \in W!Critical =>
        stage[t] \in W!Critical /\ acct'[t] = acct[t]
  BY <1>1, NoNonceTaken, CallersApart DEF wallet
<1>3. ASSUME NEW p \in Payments, Credited(p)'
      PROVE  Credited(p) /\ Credit(p)' = Credit(p)
  <2>1. CASE p # q
    <3>1. answer'[p] = answer[p]
      BY <2>1
         DEF SettleStep, SettleAccepted, SettleRefused, SettlePull, SettlePulled,
         SettlePullReverted, SettleBreaks, SettlePay, SettlePaid, SettleGivesUp,
         SettleReturns, TypeOK
    <3>2. spc'[p] = spc[p] /\ stage'[S(p)] = stage[S(p)] /\ held'[S(p)] = held[S(p)]
      BY <2>1, SettleLocal
    <3>3. QED BY <1>3, <3>1, <3>2, OtherCreditsKept
  <2>2. CASE p = q
    <3>1. spc[p] # "done"
      BY <2>2 DEF SettleStep, SettleAccepted, SettleRefused, SettlePull,
         SettlePulled, SettlePullReverted, SettleBreaks, SettlePay, SettlePaid,
         SettleGivesUp
    <3>2. answer[p] = NoTx
      BY <3>1 DEF AnswersMined
    <3>3. ~(spc'[p] = "paying" /\ stage'[S(p)] = "returned")
      BY <2>2, <3>1, CallersApart
         DEF SettleStep, SettleAccepted, SettleRefused, SettlePull, SettlePulled,
             SettlePullReverted, SettleBreaks, SettlePay, SettlePaid,
             SettleGivesUp, SettleReturns, W!Submit, W!TypeOK, TypeOK
    <3>4. answer'[p] # NoTx
      BY <1>3, <3>3 DEF Credited, S
    <3>5. spc[p] = "paying" /\ stage[S(p)] = "returned" /\ answer'[p] = held[S(p)]
      BY <3>1, <3>2, <3>4, AnswerLocal
    <3>6. QED BY <3>2, <3>4, <3>5 DEF Credited, Credit
  <2>3. QED BY <2>1, <2>2
<1>4. QED BY <1>2, <1>3, CreditsKept

\* Neither the worker, nor refunds, the chain or a restart credit anybody.
LEMMA OthersCredit ==
  ASSUME SettleInv, AnswersMined, CreditsApart, [Next]_vars,
         \/ \E q \in Payments : RecoverStep(q)
         \/ \E q \in Payments, r \in Refunds : RefundStep(q, r)
         \/ ClaimIncompletePayments
         \/ \E q \in Payments : LockGoesStale(q)
         \/ Mine \/ Crash \/ UNCHANGED vars
  PROVE  CreditsApart'
<1> USE DEF SettleInv, W!WalletInv
<1>1. ASSUME NEW q \in Payments, RecoverStep(q) PROVE CreditsApart'
  <2>1. \/ UNCHANGED <<stage, acct>> \/ W!Resume(R(q))
        \/ W!Submit(R(q), OutCall(q))
    BY <1>1 DEF RecoverStep, RecoverResendsPull, RecoverPulled,
       RecoverPullReverted, RecoverZeroAmount, RecoverPays, RecoverSubmitted,
       RecoverConfirmed, RecoverResendsPay, RecoverGivesUp, BroadcastRaw,
       W!Rebroadcast, W!wallet, wallet
  <2>2. \A t \in Callers : stage'[t] \in W!Critical =>
          stage[t] \in W!Critical /\ acct'[t] = acct[t]
    BY <2>1, NoNonceTaken, CallersApart
  <2>3. UNCHANGED settling
    BY <1>1 DEF RecoverStep, RecoverResendsPull, RecoverPulled,
       RecoverPullReverted, RecoverZeroAmount, RecoverPays, RecoverSubmitted,
       RecoverConfirmed, RecoverResendsPay, RecoverGivesUp
  <2>4. \A p \in Payments : (Credited(p)' <=> Credited(p)) /\ Credit(p)' = Credit(p)
    BY <1>1, <2>3, RecoverLocal, OtherCreditsKept DEF settling
  <2>5. QED BY <2>2, <2>4, CreditsKept
<1>2. ASSUME NEW q \in Payments, NEW r \in Refunds, RefundStep(q, r)
      PROVE  CreditsApart'
  <2>1. \/ UNCHANGED wallet \/ W!Resume(F(q, r))
        \/ W!Submit(F(q, r), RefundCall(q))
    BY <1>2 DEF RefundStep, RefundReads, RefundSubmits, RefundConfirmed,
       RefundRefused, RefundGivesUp
  <2>2. \A t \in Callers : stage'[t] \in W!Critical =>
          stage[t] \in W!Critical /\ acct'[t] = acct[t]
    BY <2>1, NoNonceTaken, CallersApart DEF wallet
  <2>3. UNCHANGED settling
    BY <1>2 DEF RefundStep, RefundReads, RefundSubmits, RefundConfirmed,
       RefundRefused, RefundGivesUp
  <2>4. \A u \in Callers : u # F(q, r) => stage'[u] = stage[u] /\ held'[u] = held[u]
    BY <2>1, ResumeLocal, SubmitLocal, CallersApart DEF wallet
  <2>5. \A p \in Payments : (Credited(p)' <=> Credited(p)) /\ Credit(p)' = Credit(p)
    BY <2>3, <2>4, CallersApart, OtherCreditsKept DEF settling
  <2>6. QED BY <2>2, <2>5, CreditsKept
<1>3. CASE \/ ClaimIncompletePayments \/ \E q \in Payments : LockGoesStale(q)
           \/ Mine \/ UNCHANGED vars
  <2>1. UNCHANGED <<spc, answer, stage, held, acct>>
    BY <1>3 DEF ClaimIncompletePayments, LockGoesStale, Mine, W!Mine, W!wallet,
       settling, wallet, vars
  <2>2. \A p \in Payments : (Credited(p)' <=> Credited(p)) /\ Credit(p)' = Credit(p)
    BY <2>1, OtherCreditsKept
  <2>3. QED BY <2>1, <2>2, CreditsKept
<1>4. CASE Crash
  <2>1. \A t \in Callers : stage'[t] = "idle"
    BY <1>4 DEF Crash, W!Crash
  <2>2. UNCHANGED answer
    BY <1>4 DEF Crash
  <2>3. \A p \in Payments : Credited(p)' => Credited(p) /\ Credit(p)' = Credit(p)
    BY <2>1, <2>2, CallersApart DEF Credited, Credit, S
  <2>4. QED BY <2>1, <2>3, CreditsKept DEF W!Critical
<1>5. QED BY <1>1, <1>2, <1>3, <1>4

\* The wallet's steps: a nonce is allocated beyond all credits, and a handler is
\* credited when its transaction has been sent.
LEMMA AllocateCredits ==
  ASSUME SettleInv, AnswersMined, CreditsApart, WP!QuietInv, [Next]_vars,
         NEW t \in Callers, WalletStep(t), W!Allocate(t)
  PROVE  CreditsApart'
<1> USE DEF SettleInv, W!WalletInv
<1>1. UNCHANGED <<spc, answer, held, slots, fails, crashes>>
  BY DEF WalletStep, settling, W!Allocate, W!chain
<1>2. /\ stage[t] = "queued" /\ stage'[t] = "allocated"
      /\ \A u \in Callers : u # t => stage'[u] = stage[u] /\ stage[u] \notin W!Critical
  BY DEF W!Allocate, W!TypeOK, W!HolderOnly, W!HoldsLock, W!Critical
<1>3. \A p \in Payments : (Credited(p)' <=> Credited(p)) /\ Credit(p)' = Credit(p)
  BY <1>1, <1>2, CallersApart DEF Credited, Credit, S
<1>4. CASE Forgetful
  BY <1>4, FaultsCounted DEF CreditsApart
<1>5. CASE ~Forgetful
  <2>1. WP!Allocate(t)
    BY SameAllocate
  <2>2. ~(/\ fails > 0 \/ crashes > 0
          /\ PendingLag > 0 /\ Len(outcome) < Len(slots))
    BY <1>5 DEF Forgetful
  <2>3. acct'[t] = Len(slots)
    BY <2>1, <2>2, WP!AllocatesFresh, WalletAssumption, SameWalletInv
  <2>4. ASSUME NEW p \in Payments, Credited(p)
        PROVE  /\ Credit(p).nonce < Len(slots)
               /\ \A q \in Payments \ {p} :
                    Credited(q) => Credit(q).nonce # Credit(p).nonce
               /\ \A u \in Callers :
                    stage'[u] \in W!Critical => Credit(p).nonce < acct'[u]
    <3>1. \A u \in Callers : stage'[u] \in W!Critical => u = t
      BY <1>2
    <3>2. QED BY <1>5, <2>3, <2>4, <3>1 DEF CreditsApart
  <2>5. QED BY <1>1, <1>3, <2>4 DEF CreditsApart, W!Critical
<1>6. QED BY <1>4, <1>5

LEMMA BroadcastCredits ==
  ASSUME SettleInv, AnswersMined, CreditsApart, [Next]_vars,
         NEW t \in Callers, WalletStep(t), W!Broadcast(t)
  PROVE  CreditsApart'
<1> USE DEF SettleInv, W!WalletInv
<1>1. UNCHANGED <<spc, answer, held>> /\ stage[t] = "signed"
  BY DEF WalletStep, settling, W!Broadcast
<1>2. /\ stage'[t] = "returned"
      /\ \A u \in Callers : u # t => stage'[u] = stage[u]
      /\ \A u \in Callers : stage'[u] \notin W!Critical
  BY DEF W!Broadcast, W!TypeOK, W!HolderOnly, W!HoldsLock, W!Critical
<1>3. /\ held[t].nonce = acct[t] /\ acct[t] \in Nat /\ acct[t] <= Len(slots)
  BY <1>1 DEF W!HeldIsSigned, W!MarkInStep, W!TypeOK, W!Critical
<1>4. acct[t] < Len(slots') /\ Len(slots) <= Len(slots') /\ Len(slots) \in Nat
      /\ Len(slots') \in Nat
  <2>1. W!TypeOK'
    BY Frame
  <2>2. Len(slots) \in Nat /\ Len(slots') \in Nat
    BY <2>1, LenProperties DEF W!TypeOK
  <2>3. Len(slots') = IF held[t].nonce = Len(slots) THEN Len(slots) + 1 ELSE Len(slots)
    BY <1>1 DEF W!Broadcast, W!Deliver, W!Accepts, W!TypeOK, W!HeldIsSigned
  <2>4. QED BY <1>3, <2>2, <2>3
<1>5. ASSUME NEW p \in Payments, Credited(p)'
      PROVE  /\ Credit(p)' = Credit(p)
             /\ Credited(p) \/ (t = S(p) /\ Credit(p) = held[t])
  BY <1>1, <1>2, <1>5, CallersApart DEF Credited, Credit, S
<1>6. CASE Forgetful
  BY <1>6, FaultsCounted DEF CreditsApart
<1>7. CASE ~Forgetful
  <2>1. \A p \in Payments : Credited(p) =>
          /\ Credit(p).nonce \in Nat /\ Credit(p).nonce < Len(slots)
          /\ Credit(p).nonce < acct[t]
          /\ \A q \in Payments \ {p} : Credited(q) => Credit(q).nonce # Credit(p).nonce
    BY <1>1, <1>7, CreditIsSigned DEF CreditsApart, W!Critical
  <2>2. \A p, q \in Payments : t = S(p) /\ t = S(q) => p = q
    BY CallersApart
  <2>3. ASSUME NEW p \in Payments, Credited(p)'
        PROVE  /\ Credit(p)'.nonce < Len(slots')
               /\ \A q \in Payments \ {p} :
                    Credited(q)' => Credit(q)'.nonce # Credit(p)'.nonce
    <3>1. Credit(p).nonce < Len(slots')
      BY <1>3, <1>4, <1>5, <2>1, <2>3
    <3>2. ASSUME NEW q \in Payments \ {p}, Credited(q)'
          PROVE  Credit(q).nonce # Credit(p).nonce
      BY <1>3, <1>5, <2>1, <2>2, <2>3, <3>2
    <3>3. QED BY <1>5, <2>3, <3>1, <3>2
  <2>4. QED BY <1>2, <2>3 DEF CreditsApart, W!Critical
<1>8. QED BY <1>6, <1>7

LEMMA WalletCredits ==
  ASSUME SettleInv, AnswersMined, CreditsApart, WP!QuietInv, [Next]_vars,
         NEW t \in Callers, WalletStep(t)
  PROVE  CreditsApart'
<1> USE DEF SettleInv, W!WalletInv
<1>1. CASE W!Allocate(t)
  BY <1>1, AllocateCredits
<1>2. CASE W!Broadcast(t)
  BY <1>2, BroadcastCredits
<1>3. CASE ~W!Allocate(t) /\ ~W!Broadcast(t)
  <2>1. /\ (stage[t] = "allocated" /\ stage'[t] = "signed") \/ stage'[t] = "threw"
        /\ UNCHANGED <<spc, answer, acct>>
        /\ \A u \in Callers : u # t => stage'[u] = stage[u] /\ held'[u] = held[u]
    BY <1>3 DEF WalletStep, WalletSign, WalletSignFails, WalletOther, settling,
       W!Sign, W!SignFails, W!AllocateFails, W!BroadcastRejected,
       W!BroadcastFails, W!Resync, W!TypeOK
  <2>2. \A u \in Callers : stage'[u] \in W!Critical =>
          stage[u] \in W!Critical /\ acct'[u] = acct[u]
    BY <2>1 DEF W!Critical
  <2>3. \A p \in Payments : Credited(p)' => Credited(p) /\ Credit(p)' = Credit(p)
    BY <2>1, CallersApart DEF Credited, Credit, S
  <2>4. QED BY <2>2, <2>3, CreditsKept
<1>4. QED BY <1>1, <1>2, <1>3

LEMMA InitAnswers == Init => AnswerInv /\ WP!QuietInv
<1> SUFFICES ASSUME Init PROVE AnswersMined /\ CreditsApart /\ WP!QuietInv
  BY InitSettle DEF AnswerInv
<1>1. \A p \in Payments : answer[p] = NoTx /\ spc[p] = "new"
  BY DEF Init
<1>2. AnswersMined /\ CreditsApart
  BY <1>1 DEF AnswersMined, CreditsApart, Credited
<1>3. WP!QuietInv
  BY WP!InitQuiet, WalletAssumption, SameInit DEF Init
<1>4. QED BY <1>2, <1>3

LEMMA StepAnswers ==
  AnswerInv /\ WP!QuietInv /\ [Next]_vars => AnswerInv' /\ WP!QuietInv'
<1> SUFFICES ASSUME AnswerInv, WP!QuietInv, [Next]_vars
             PROVE  AnswerInv' /\ WP!QuietInv'
  OBVIOUS
<1> USE DEF AnswerInv
<1>1. SettleInv' /\ AnswersMined'
  BY StepSettle, AnswersStep
<1>2. CreditsApart'
  BY SettleCredits, OthersCredit, WalletCredits DEF Next
<1>3. WP!QuietInv'
  <2>1. W!WalletInv /\ [W!Next]_(W!vars)
    BY WalletPart DEF SettleInv
  <2>2. WP!WalletInv /\ [WP!Next]_(WP!vars)
    BY <2>1, SameWalletInv, SameNext, SameVars
  <2>3. QED BY <2>2, WP!QuietStep, WalletAssumption
<1>4. QED BY <1>1, <1>2, <1>3

\* Unless the wallet may have forgotten its mark under a node that trails, every
\* outgoing transaction a merchant is told of is a mined payment to it, and no
\* other merchant is told of the same one (src/settle.ts).
THEOREM AnswersBackedEver == Spec => []AnswersBacked
<1>1. AnswerInv => AnswersBacked
  <2> SUFFICES ASSUME AnswerInv, ~Forgetful, NEW p \in Payments, answer[p] # NoTx,
                      NEW q \in Payments \ {p}, answer[q] = answer[p]
               PROVE  FALSE
    BY DEF AnswerInv, AnswersBacked, AnswersMined
  <2>1. Credited(p) /\ Credited(q) /\ Credit(p) = Credit(q)
    BY DEF Credited, Credit
  <2>2. QED BY <2>1 DEF AnswerInv, CreditsApart
<1>2. QED BY <1>1, InitAnswers, StepAnswers, PTL DEF Spec

-----------------------------------------------------------------------------
(* What merchants are owed: a transfer for each complete row.              *)

\* A payment that a step does not touch names what it named.
LEMMA NamesKept ==
  ASSUME NEW p \in Payments, NEW x,
         outTx'[p] = outTx[p], snap'[p].outTx = snap[p].outTx,
         stage'[S(p)] = stage[S(p)], held'[S(p)] = held[S(p)],
         stage'[R(p)] = stage[R(p)], held'[R(p)] = held[R(p)]
  PROVE  Names(p, x)' <=> Names(p, x)
BY DEF Names, Holds, S, R, OutCall

LEMMA SettleNames ==
  ASSUME SettleInv, NEW q \in Payments, SettleStep(q),
         NEW p \in Payments, NEW x \in signed, Names(p, x)'
  PROVE  Names(p, x)
<1> USE DEF SettleInv, W!WalletInv
<1>1. CASE p # q
  BY <1>1, SettleLocal, NamesKept
<1>2. CASE p = q
  <2>1. /\ snap' = snap
        /\ stage'[R(p)] = stage[R(p)] /\ held'[R(p)] = held[R(p)]
    BY SettleLocal
  <2>2. Holds(S(p), x)' => Holds(S(p), x)
    BY <1>2, SubmitLocal, ResumeLocal, CallersApart
       DEF SettleStep, SettleAccepted, SettleRefused, SettlePull, SettlePulled,
           SettlePullReverted, SettleBreaks, SettlePay, SettlePaid, SettleGivesUp,
           Holds, S, wallet
  <2>3. outTx'[p] = outTx[p] \/ Holds(S(p), outTx'[p])
    BY <1>2
       DEF SettleStep, SettleAccepted, SettleRefused, SettlePull, SettlePulled,
           SettlePullReverted, SettleBreaks, SettlePay, SettlePaid, SettleGivesUp,
           RegisterNonce, SetStatus, SetComplete, rows, Holds, TypeOK
  <2>4. QED BY <2>1, <2>2, <2>3 DEF Names, Holds, S, R, OutCall
<1>3. QED BY <1>1, <1>2

LEMMA RecoverNames ==
  ASSUME SettleInv, NEW q \in Payments, RecoverStep(q),
         NEW p \in Payments, NEW x \in signed, Names(p, x)'
  PROVE  Names(p, x)
<1> USE DEF SettleInv, W!WalletInv
<1>1. CASE p # q
  BY <1>1, RecoverLocal, NamesKept
<1>2. CASE p = q
  <2>1. stage'[S(p)] = stage[S(p)] /\ held'[S(p)] = held[S(p)]
    BY RecoverLocal
  <2>2. Holds(R(p), x)' => Holds(R(p), x)
    BY <1>2, SubmitLocal, ResumeLocal, CallersApart
       DEF RecoverStep, RecoverResendsPull, RecoverPulled, RecoverPullReverted,
           RecoverZeroAmount, RecoverPays, RecoverSubmitted, RecoverConfirmed,
           RecoverResendsPay, RecoverGivesUp, BroadcastRaw, W!Rebroadcast,
           W!wallet, Holds, R, wallet
  <2>3. outTx'[p] = outTx[p] \/ outTx'[p] = snap[p].outTx
    BY <1>2
       DEF RecoverStep, RecoverResendsPull, RecoverPulled, RecoverPullReverted,
           RecoverZeroAmount, RecoverPays, RecoverSubmitted, RecoverConfirmed,
           RecoverResendsPay, RecoverGivesUp, SetStatus, SetComplete, rows, TypeOK
  <2>4. \/ snap'[p].outTx = snap[p].outTx \/ snap'[p].outTx = NoTx
        \/ Holds(R(p), snap'[p].outTx)
    BY <1>2
       DEF RecoverStep, RecoverResendsPull, RecoverPulled, RecoverPullReverted,
           RecoverZeroAmount, RecoverPays, RecoverSubmitted, RecoverConfirmed,
           RecoverResendsPay, RecoverGivesUp, RecoverEnds, NoSnap, Holds, TypeOK, Row
  <2>5. x # NoTx
    BY SettlementAssumption DEF W!TypeOK
  <2>6. QED BY <2>1, <2>2, <2>3, <2>4, <2>5 DEF Names, Holds, S, R, OutCall
<1>3. QED BY <1>1, <1>2

LEMMA RefundNames ==
  ASSUME SettleInv, NEW q \in Payments, NEW r \in Refunds, RefundStep(q, r),
         NEW p \in Payments, NEW x \in signed, Names(p, x)'
  PROVE  Names(p, x)
<1> USE DEF SettleInv, W!WalletInv
<1>1. \/ UNCHANGED wallet \/ W!Resume(F(q, r)) \/ W!Submit(F(q, r), RefundCall(q))
  BY DEF RefundStep, RefundReads, RefundSubmits, RefundConfirmed, RefundRefused,
     RefundGivesUp
<1>2. \A u \in Callers : u # F(q, r) => stage'[u] = stage[u] /\ held'[u] = held[u]
  BY <1>1, ResumeLocal, SubmitLocal, CallersApart DEF wallet
<1>3. UNCHANGED <<outTx, snap>>
  BY DEF RefundStep, RefundReads, RefundSubmits, RefundConfirmed, RefundRefused,
     RefundGivesUp, SetStatus, rows, recovering
<1>4. QED BY <1>2, <1>3, CallersApart, NamesKept

LEMMA OthersName ==
  ASSUME SettleInv,
         \/ ClaimIncompletePayments \/ \E q \in Payments : LockGoesStale(q)
         \/ Mine \/ UNCHANGED vars,
         NEW p \in Payments, NEW x \in signed, Names(p, x)'
  PROVE  Names(p, x)
<1> USE DEF SettleInv, W!WalletInv
<1>1. UNCHANGED <<outTx, stage, held>>
  BY DEF ClaimIncompletePayments, LockGoesStale, Mine, W!Mine, W!wallet, rows,
     wallet, vars
<1>2. snap'[p].outTx \in {snap[p].outTx, outTx[p], NoTx}
  BY DEF ClaimIncompletePayments, LockGoesStale, Mine, recovering, vars, NoSnap
<1>3. x # NoTx
  BY SettlementAssumption DEF W!TypeOK
<1>4. QED BY <1>1, <1>2, <1>3 DEF Names, Holds, S, R, OutCall

\* Whatever a payment names has been signed.
LEMMA NamedIsSigned ==
  ASSUME SettleInv, NEW p \in Payments, NEW x \in W!Tx, Names(p, x)
  PROVE  x \in signed
<1>1. CASE outTx[p] = x \/ snap[p].outTx = x
  BY <1>1, SettlementAssumption DEF SettleInv, NamesOwnTxs
<1>2. CASE Holds(S(p), x) \/ Holds(R(p), x)
  BY <1>2, CallersApart DEF Holds, SettleInv, W!WalletInv, W!HeldIsSigned
<1>3. QED BY <1>1, <1>2 DEF Names

\* Faults, and only they, are counted.
LEMMA QuietBefore ==
  ASSUME SettleInv, [Next]_vars, fails' = 0, crashes' = 0
  PROVE  fails = 0 /\ crashes = 0 /\ ~Crash
         /\ \A t \in Callers : ~WalletSignFails(t)
<1>1. W!TypeOK /\ W!TypeOK'
  BY Frame DEF SettleInv, W!WalletInv
<1>2. fails \in Nat /\ crashes \in Nat
  BY <1>1 DEF W!TypeOK
<1>3. [W!Next]_(W!vars)
  BY WalletPart
<1>4. fails <= fails' /\ crashes <= crashes'
  BY <1>2, <1>3
     DEF W!Next, W!Submit, W!Proceed, W!Allocate, W!AllocateFails, W!Sign,
         W!SignFails, W!Broadcast, W!BroadcastRejected, W!BroadcastFails,
         W!Resume, W!Rebroadcast, W!Mine, W!Crash, W!Fail, W!vars
<1>5. ~Crash
  BY <1>2 DEF Crash, W!Crash
<1>6. ASSUME NEW t \in Callers, WalletSignFails(t) PROVE FALSE
  BY <1>2, <1>6 DEF WalletSignFails, W!SignFails, W!Fail
<1>7. QED BY <1>2, <1>4, <1>5, <1>6

\* The one step that names a new transaction: it is its payment's alone.
LEMMA SigningNames ==
  ASSUME SettleInv, NamesApart, WP!QuietInv, fails = 0, crashes = 0,
         NEW t \in Callers, WalletSign(t), WalletStep(t)
  PROVE  NamesApart'
<1> USE DEF SettleInv, W!WalletInv
<1>1. PICK fee \in Fees :
        W!Sign(t, fee) /\ OnSigned(t[2], W!SignedBy(t, fee))
  BY DEF WalletSign
<1>0. PICK new : new = W!SignedBy(t, fee)
  OBVIOUS
<1>2. PICK o \in Payments :
        t \in {S(o), R(o)} \cup {F(o, r) : r \in Refunds} /\ t[2] = o
  BY OwnerOf
<1>3. new \notin signed
  <2>1. WP!WalletInv /\ WP!Sign(t, fee) /\ new = WP!SignedBy(t, fee)
    BY <1>0, <1>1, SameWalletInv, SameSign
  <2>2. QED BY <2>1, WP!SignsFresh, WalletAssumption
<1>4. /\ signed' = signed \cup {new} /\ held'[t] = new /\ new \in W!Tx /\ snap' = snap
      /\ \A u \in Callers : u # t => stage'[u] = stage[u] /\ held'[u] = held[u]
      /\ fails' = fails /\ crashes' = crashes
  <2>1. W!TypeOK'
    BY <1>1, WalletPart, WalletStepInv DEF Next
  <2>2. QED BY <1>0, <1>1, <2>1 DEF W!Sign, W!TypeOK, W!chain, WalletStep, recovering
<1>5. \A p \in Payments : outTx'[p] = outTx[p] \/ (p = o /\ outTx'[p] = new)
  BY <1>0, <1>1, <1>2 DEF OnSigned, RecordIncomingIntent, RecordOutgoingIntent, rows, TypeOK
<1>6. ASSUME NEW p \in Payments, NEW x \in signed, Names(p, x)'
      PROVE  Names(p, x)
  BY <1>3, <1>4, <1>5, <1>6, CallersApart DEF Names, Holds, S, R, OutCall
<1>7. ASSUME NEW p \in Payments, p # o, Names(p, new)'
      PROVE  FALSE
  <2>1. S(p) # t /\ R(p) # t
    BY <1>2, <1>7, CallersApart
  <2>2. Names(p, new)
    BY <1>4, <1>5, <1>7, <2>1, CallersApart DEF Names, Holds, S, R, OutCall
  <2>3. QED BY <1>3, <1>4, <2>2, NamedIsSigned
<1>8. ASSUME NEW x \in signed', NEW p \in Payments, NEW q \in Payments,
             Names(p, x)', Names(q, x)'
      PROVE  p = q
  <2>1. CASE x = new
    BY <1>7, <1>8, <2>1
  <2>2. CASE x \in signed
    <3>1. Names(p, x) /\ Names(q, x)
      BY <1>6, <1>8, <2>2
    <3>2. QED BY <2>2, <3>1 DEF NamesApart
  <2>3. QED BY <1>4, <2>1, <2>2
<1>9. QED BY <1>8 DEF NamesApart

LEMMA NamesStep ==
  ASSUME NamesInv, WP!QuietInv, [Next]_vars
  PROVE  NamesApart'
<1> USE DEF NamesInv
<1> SUFFICES ASSUME fails' = 0, crashes' = 0 PROVE NamesApart'
  BY Frame DEF NamesApart, W!WalletInv, W!TypeOK
<1>1. fails = 0 /\ crashes = 0 /\ ~Crash /\ \A t \in Callers : ~WalletSignFails(t)
  BY QuietBefore
<1>2. ASSUME signed' = signed,
             \A p \in Payments, x \in signed : Names(p, x)' => Names(p, x)
      PROVE  NamesApart'
  BY <1>1, <1>2 DEF NamesApart
<1>3. ASSUME NEW t \in Callers, WalletStep(t) PROVE NamesApart'
  <2>1. CASE WalletSign(t)
    BY <1>1, <1>3, <2>1, SigningNames
  <2>2. CASE WalletOther(t)
    <3>1. /\ UNCHANGED <<outTx, snap, signed, held>>
          /\ \A u \in Callers : stage'[u] \in {"signed", "returned"} =>
               stage[u] \in {"signed", "returned"}
      BY <1>3, <2>2
         DEF WalletStep, WalletOther, W!Allocate, W!AllocateFails, W!Broadcast,
             W!BroadcastRejected, W!BroadcastFails, W!Resync, W!chain, rows,
             recovering, SettleInv, W!WalletInv, W!TypeOK
    <3>2. QED BY <1>2, <3>1, CallersApart DEF Names, Holds, S, R, OutCall
  <2>3. QED BY <1>1, <1>3, <2>1, <2>2 DEF WalletStep
<1>4. ASSUME NEW q \in Payments, SettleStep(q) PROVE NamesApart'
  BY <1>2, <1>4, SettleNames, SettleLocal
<1>5. ASSUME NEW q \in Payments, RecoverStep(q) PROVE NamesApart'
  BY <1>2, <1>5, RecoverNames, RecoverLocal
<1>6. ASSUME NEW q \in Payments, NEW r \in Refunds, RefundStep(q, r)
      PROVE  NamesApart'
  <2>1. signed' = signed
    BY <1>6 DEF RefundStep, RefundReads, RefundSubmits, RefundConfirmed,
       RefundRefused, RefundGivesUp, wallet, W!Submit, W!Resume, W!chain
  <2>2. QED BY <1>2, <1>6, <2>1, RefundNames
<1>7. CASE \/ ClaimIncompletePayments \/ \E q \in Payments : LockGoesStale(q)
           \/ Mine \/ UNCHANGED vars
  <2>1. signed' = signed
    BY <1>7 DEF ClaimIncompletePayments, LockGoesStale, Mine, W!Mine, wallet,
       W!wallet, W!chain, vars
  <2>2. QED BY <1>2, <1>7, <2>1, OthersName
<1>8. QED BY <1>1, <1>3, <1>4, <1>5, <1>6, <1>7 DEF Next

LEMMA InitNames == Init => NamesInv /\ WP!QuietInv
<1> SUFFICES ASSUME Init PROVE SettleInv /\ NamesApart /\ WP!QuietInv
  BY DEF NamesInv
<1>1. signed = {}
  BY DEF Init, W!Init
<1>2. QED BY <1>1, InitSettle, InitAnswers DEF NamesApart

LEMMA StepNames ==
  NamesInv /\ WP!QuietInv /\ [Next]_vars => NamesInv' /\ WP!QuietInv'
<1> SUFFICES ASSUME NamesInv, WP!QuietInv, [Next]_vars
             PROVE  SettleInv' /\ NamesApart' /\ WP!QuietInv'
  BY DEF NamesInv
<1>1. SettleInv /\ SettleInv'
  BY StepSettle DEF NamesInv
<1>2. WP!QuietInv'
  <2>1. W!WalletInv /\ [W!Next]_(W!vars)
    BY <1>1, WalletPart DEF SettleInv
  <2>2. WP!WalletInv /\ [WP!Next]_(WP!vars)
    BY <2>1, SameWalletInv, SameNext, SameVars
  <2>3. QED BY <2>2, WP!QuietStep, WalletAssumption
<1>3. QED BY <1>1, <1>2, NamesStep

\* The transfers of one payee, and the rows that say they got one, are finite.
LEMMA CountsAreNumbers ==
  ASSUME SettleInv, NEW c \in Payees
  PROVE  /\ IsFiniteSet(Succeeded(c)) /\ TimesPaid(c) \in Nat
         /\ IsFiniteSet(CompletedTo(c)) /\ Cardinality(CompletedTo(c)) \in Nat
<1>1. Len(outcome) \in Nat
  BY LenProperties DEF SettleInv, W!WalletInv, W!TypeOK
<1>2. IsFiniteSet(1 .. Len(outcome))
  BY <1>1, FS_Interval
<1>3. IsFiniteSet(Succeeded(c)) /\ IsFiniteSet(CompletedTo(c))
  BY <1>2, SettlementAssumption, FS_Subset DEF Succeeded, CompletedTo
<1>4. QED BY <1>3, FS_CardinalityType DEF TimesPaid

\* While nothing failed, each complete row rests on a transfer of its own.
LEMMA CompletionsCounted ==
  ASSUME NamesInv, NEW c \in Payees, fails = 0, crashes = 0
  PROVE  Cardinality(CompletedTo(c)) <= TimesPaid(c)
<1> USE DEF NamesInv, SettleInv
<1> DEFINE f == [p \in CompletedTo(c) |-> outTx[p].nonce + 1]
<1>1. TypeOK /\ Len(outcome) \in Nat
  BY LenProperties DEF W!WalletInv, W!TypeOK
<1>2. ASSUME NEW p \in CompletedTo(c)
      PROVE  /\ p \in Payments /\ Names(p, outTx[p]) /\ outTx[p] \in signed
             /\ f[p] \in Succeeded(c) /\ slots[f[p]] = outTx[p]
  <2>1. p \in Payments /\ OutCall(p) = c /\ status[p] = "complete"
    BY DEF CompletedTo
  <2>2. outTx[p] # NoTx /\ W!Receipt(outTx[p]) = "success"
    BY <2>1 DEF CompleteWasPaid
  <2>3. outTx[p] \in signed /\ outTx[p].call = c
    BY <2>1, <2>2 DEF NamesOwnTxs
  <2>4. outTx[p].nonce \in Nat
    BY <1>1, <2>1, <2>2 DEF TypeOK, W!Tx
  <2>5. /\ outTx[p].nonce < Len(outcome) /\ slots[outTx[p].nonce + 1] = outTx[p]
        /\ outcome[outTx[p].nonce + 1] = "success"
    BY <2>2 DEF W!Receipt
  <2>6. f[p] \in Succeeded(c)
    BY <1>1, <2>3, <2>4, <2>5 DEF Succeeded
  <2>7. Names(p, outTx[p])
    BY <2>1, <2>3 DEF Names
  <2>8. QED BY <2>1, <2>3, <2>5, <2>6, <2>7
<1>3. \A p, q \in CompletedTo(c) : f[p] = f[q] => p = q
  <2> SUFFICES ASSUME NEW p \in CompletedTo(c), NEW q \in CompletedTo(c), f[p] = f[q]
               PROVE  p = q
    OBVIOUS
  <2>1. outTx[p] = outTx[q]
    BY <1>2
  <2>2. Names(p, outTx[p]) /\ Names(q, outTx[p])
    BY <1>2, <2>1
  <2>3. QED BY <1>2, <2>2 DEF NamesApart
<1>4. f \in Injection(CompletedTo(c), Succeeded(c))
  BY <1>2, <1>3 DEF Injection, IsInjective
<1>5. QED BY <1>4, CountsAreNumbers, FS_Injection DEF TimesPaid

\* While no submission failed and the process did not restart, the rows that say
\* a payee was paid never outnumber the transfers it got, however the handlers,
\* the worker and the node's lagging count interleave (src/settle.ts,
\* src/recovery.ts, src/txSubmitter.ts).
THEOREM PaidForEachComplete == Spec => []UnderpaidOnlyByFault
<1>1. NamesInv => UnderpaidOnlyByFault
  <2> SUFFICES ASSUME NamesInv, NEW c \in Payees,
                      Cardinality(CompletedTo(c)) > TimesPaid(c),
                      ~(fails > 0 \/ crashes > 0)
               PROVE  FALSE
    BY DEF UnderpaidOnlyByFault
  <2>1. fails = 0 /\ crashes = 0
    BY DEF NamesInv, SettleInv, W!WalletInv, W!TypeOK
  <2>2. TimesPaid(c) \in Nat /\ Cardinality(CompletedTo(c)) \in Nat
    BY CountsAreNumbers DEF NamesInv
  <2>3. Cardinality(CompletedTo(c)) <= TimesPaid(c)
    BY <2>1, CompletionsCounted
  <2>4. QED BY <2>2, <2>3
<1>2. QED BY <1>1, InitNames, StepNames, PTL DEF Spec

-----------------------------------------------------------------------------
(* Refunds: what the wallet signed for a payment, seen from its row.       *)

LEMMA CallsInjective ==
  \A p, q \in Payments : p # q =>
    PullCall(p) # PullCall(q) /\ RefundCall(p) # RefundCall(q)
BY DEF PullCall, RefundCall

LEMMA RefundApart ==
  \A p, q \in Payments :
    /\ PullCall(p) # RefundCall(q) /\ PullCall(p) # OutCall(q)
    /\ RefundCall(p) # OutCall(q)
BY DEF PullCall, RefundCall, OutCall

\* A pull that succeeded is the one the row names.
LEMMA PulledIsRow ==
  ASSUME SettleInv, SlotsInOrder, PullsNamed, NEW p \in Payments, Pulled(p)
  PROVE  inTx[p] \in signed /\ inTx[p] # NoTx /\ W!Receipt(inTx[p]) = "success"
<1>1. /\ slots \in Seq(W!Tx) /\ Len(slots) \in Nat /\ Len(outcome) \in Nat
      /\ Len(outcome) <= Len(slots) /\ NoTx \notin signed
  BY LenProperties, SettlementAssumption DEF SettleInv, W!WalletInv, W!TypeOK
<1>2. PICK i \in 1 .. Len(outcome) :
        slots[i].call = PullCall(p) /\ outcome[i] = "success"
  BY DEF Pulled, Succeeded
<1>3. i \in 1 .. Len(slots) /\ i \in Nat
  BY <1>1, <1>2
<1>4. slots[i] \in signed /\ slots[i].nonce = i - 1
  BY <1>3 DEF SlotsInOrder
<1>5. inTx[p] = slots[i]
  BY <1>2, <1>4 DEF PullsNamed
<1>6. inTx[p].nonce < Len(outcome) /\ inTx[p].nonce + 1 = i
  BY <1>1, <1>2, <1>3, <1>4, <1>5
<1>7. W!Receipt(inTx[p]) = "success"
  BY <1>2, <1>5, <1>6 DEF W!Receipt
<1>8. QED BY <1>1, <1>4, <1>5, <1>7

LEMMA FailedNotPulled ==
  ASSUME SettleInv, SlotsInOrder, PullsNamed, NEW p \in Payments, PullFailed(p)
  PROVE  ~Pulled(p)
BY PulledIsRow DEF PullFailed

\* A stored pull that failed stays failed.
LEMMA FailedStays ==
  ASSUME SettleInv, [Next]_vars, NEW p \in Payments, PullFailed(p),
         inTx'[p] = inTx[p]
  PROVE  PullFailed(p)'
<1>1. [W!Next]_(W!vars) /\ W!TypeOK /\ W!TypeOK'
  BY WalletPart, Frame DEF SettleInv, W!WalletInv
<1>2. inTx[p] \in W!Tx
  BY DEF SettleInv, TypeOK, PullFailed
<1>3. PICK x \in W!Tx : x = inTx[p] /\ x = inTx'[p] /\ W!Receipt(x) = "reverted"
  BY <1>2 DEF PullFailed
<1>4. W!Receipt(x)' = "reverted"
  BY <1>1, <1>3, WalletReceiptStable
<1>5. W!Receipt(x)' = (W!Receipt(inTx[p]))'
  BY <1>3 DEF W!Receipt
<1>6. QED BY <1>3, <1>4, <1>5 DEF PullFailed

\* The parts of the invariant that are about one payment.
RowAt(p) == PullAt(p) /\ RefundAt(p) /\ ClosedAt(p) /\ OneRefundAt(p)

LEMMA UntouchedPayment ==
  ASSUME NEW q \in Payments, RowAt(q),
         overlap \subseteq overlap', rushed \subseteq rushed',
         Pulled(q) => Pulled(q)', PullFailed(q) => PullFailed(q)',
         status'[q] = status[q], inTx'[q] = inTx[q], spc'[q] = spc[q],
         rpc'[q] = rpc[q] \/ rpc'[q] = "idle",
         stage'[S(q)] = stage[S(q)],
         \A r \in Refunds : /\ fpc'[F(q, r)] = fpc[F(q, r)]
                            /\ stage'[F(q, r)] = stage[F(q, r)],
         RefundsOf(q)' = RefundsOf(q)
  PROVE  RowAt(q)'
<1> USE DEF RowAt
<1>1. PullAt(q)'
  BY DEF PullAt, PullUnsigned, S
<1>2. RefundAt(q)'
  <2>1. \A x \in signed' : x.call = RefundCall(q) => Pulled(q)' /\ Net[q] = 0
    BY DEF RefundAt, RefundsOf, RefundCall
  <2>2. QED BY <2>1 DEF RefundAt, F, RefundCall
<1>3. ClosedAt(q)'
  BY DEF ClosedAt, Live, F
<1>4. OneRefundAt(q)'
  BY DEF OneRefundAt, RefundUnsigned, F
<1>5. QED BY <1>1, <1>2, <1>3, <1>4

-----------------------------------------------------------------------------
(* The handlers, one lemma each.                                           *)

RefundParts == PullsNamed /\ PayoutsRecorded /\ \A p \in Payments : RowAt(p)

\* Nothing signed, no refund under way moved, every row's pull as it was.
LEMMA QuietStep ==
  ASSUME RefundInv, [Next]_vars, NEW p \in Payments, signed' = signed,
         UNCHANGED <<inTx, fpc, overlap, rushed>>,
         \A q \in Payments : outTx[q] # NoTx => outTx'[q] # NoTx,
         \A q \in Payments : q # p =>
           /\ status'[q] = status[q] /\ spc'[q] = spc[q] /\ rpc'[q] = rpc[q]
           /\ stage'[S(q)] = stage[S(q)],
         \A q \in Payments : \A r \in Refunds : stage'[F(q, r)] = stage[F(q, r)],
         RowAt(p)'
  PROVE  RefundParts'
<1> USE DEF RefundInv, PayoutInv
<1>1. ASSUME NEW q \in Payments, q # p PROVE RowAt(q)'
  <2>1. Pulled(q) => Pulled(q)'
    BY Frame
  <2>2. PullFailed(q) => PullFailed(q)'
    BY FailedStays
  <2>3. RefundsOf(q)' = RefundsOf(q)
    BY DEF RefundsOf, RefundCall
  <2>4. QED BY <1>1, <2>1, <2>2, <2>3, UntouchedPayment DEF RowAt, PullsNamed
<1>2. PullsNamed'
  BY <1>1 DEF RowAt, PullsNamed, PullCall
<1>3. PayoutsRecorded'
  BY DEF PayoutsRecorded, Payees, OutCall
<1>4. QED BY <1>1, <1>2, <1>3 DEF RefundParts

\* The guard of a handler that still runs: its row is open and not refunded.
LEMMA OpenRow ==
  ASSUME RefundInv, NEW p \in Payments, p \notin overlap,
         Live(p) \/ rpc[p] # "idle" \/ status[p] = "none"
  PROVE  /\ status[p] \notin Terminal
         /\ Live(p) => rpc[p] = "idle"
         /\ \A r \in Refunds :
              fpc[F(p, r)] \notin {"checked", "paying", "unsure"}
<1>1. ClosedAt(p) /\ OneWorkerAt(p)
  BY DEF RefundInv, PayoutInv, OneWorker
<1>2. QED BY <1>1 DEF ClosedAt, OneWorkerAt, Terminal

LEMMA SettleKeepsRefund ==
  ASSUME RefundInv, [Next]_vars, NEW p \in Payments, SettleStep(p)
  PROVE  RefundParts'
<1> USE DEF RefundInv, PayoutInv, SettleInv
<1>0. /\ TypeOK /\ W!TypeOK /\ HandlersInStep /\ OneWorkerAt(p)
      /\ PullAt(p) /\ RefundAt(p) /\ ClosedAt(p) /\ OneRefundAt(p)
  BY DEF W!WalletInv, OneWorker, PullsNamed
<1>1. /\ signed' = signed /\ UNCHANGED <<rpc, snap, overlap>>
      /\ \A q \in Payments : q # p =>
           /\ status'[q] = status[q] /\ outTx'[q] = outTx[q] /\ spc'[q] = spc[q]
           /\ stage'[S(q)] = stage[S(q)]
  BY SettleLocal
<1>2. UNCHANGED <<inTx, fpc, rushed>>
  BY DEF SettleStep, SettleAccepted, SettleRefused, SettlePull, SettlePulled,
     SettlePullReverted, SettleBreaks, SettlePay, SettlePaid, SettleGivesUp,
     RegisterNonce, SetStatus, SetComplete, rows, refunding
<1>3. \A u \in Callers : u # S(p) => stage'[u] = stage[u]
  <2>1. \/ UNCHANGED wallet \/ W!Resume(S(p))
        \/ W!Submit(S(p), PullCall(p)) \/ W!Submit(S(p), OutCall(p))
    BY DEF SettleStep, SettleAccepted, SettleRefused, SettlePull, SettlePulled,
       SettlePullReverted, SettleBreaks, SettlePay, SettlePaid, SettleGivesUp
  <2>2. CASE UNCHANGED wallet
    BY <2>2 DEF wallet
  <2>3. CASE W!Resume(S(p))
    BY <1>0, <2>3, ResumeLocal, CallersApart
  <2>4. CASE W!Submit(S(p), PullCall(p)) \/ W!Submit(S(p), OutCall(p))
    BY <1>0, <2>4, SubmitLocal, CallersApart
  <2>5. QED BY <2>1, <2>2, <2>3, <2>4
<1>4. \A q \in Payments : \A r \in Refunds : stage'[F(q, r)] = stage[F(q, r)]
  BY <1>3, CallersApart
\* What the step does to its own payment.
<1>5. /\ Live(p) \/ (status[p] = "none" /\ status'[p] = "pending")
      /\ spc'[p] # "new" /\ (outTx[p] # NoTx => outTx'[p] # NoTx)
      /\ spc'[p] = "accepted" => spc[p] = "new"
      /\ spc'[p] = "pulling" => spc[p] = "accepted"
      /\ \/ status'[p] = status[p]
         \/ status'[p] = "pending" /\ status[p] = "none"
         \/ status'[p] = "incoming_complete"
         \/ status'[p] = "failed" /\ PullFailed(p) /\ spc'[p] = "done"
         \/ status'[p] = "complete" /\ spc'[p] = "done"
  <2>0. Live(p) <=> spc[p] \in {"accepted", "pulling", "pulled", "paying"}
    BY <1>0 DEF Live, TypeOK
  <2>1. CASE SettleAccepted(p)
    <3>1. /\ spc[p] = "new" /\ spc'[p] = "accepted" /\ outTx' = outTx
          /\ status[p] = "none" /\ status'[p] = "pending"
      BY <1>0, <2>1 DEF SettleAccepted, RegisterNonce, TypeOK
    <3>2. QED BY <2>0, <3>1
  <2>2. CASE SettleRefused(p) \/ SettleBreaks(p) \/ SettleGivesUp(p)
    <3>1. /\ spc[p] \in {"accepted", "pulled", "pulling", "paying"}
          /\ spc'[p] = "done" /\ outTx' = outTx /\ status' = status
      BY <1>0, <2>2 DEF SettleRefused, SettleBreaks, SettleGivesUp, SettleReturns,
         rows, TypeOK
    <3>2. QED BY <2>0, <3>1
  <2>3. CASE SettlePull(p) \/ SettlePay(p)
    <3>1. /\ \/ spc[p] = "accepted" /\ spc'[p] = "pulling"
             \/ spc[p] = "pulled" /\ spc'[p] = "paying"
          /\ outTx' = outTx /\ status' = status
      BY <1>0, <2>3 DEF SettlePull, SettlePay, rows, TypeOK
    <3>2. QED BY <2>0, <3>1
  <2>4. CASE SettlePulled(p)
    <3>1. /\ spc[p] = "pulling" /\ spc'[p] = "pulled" /\ outTx' = outTx
          /\ status'[p] = "incoming_complete"
      BY <1>0, <2>4 DEF SettlePulled, SetStatus, TypeOK
    <3>2. QED BY <2>0, <3>1
  <2>5. CASE SettlePullReverted(p)
    <3>1. /\ spc[p] = "pulling" /\ stage[S(p)] = "returned" /\ spc'[p] = "done"
          /\ status'[p] = "failed" /\ outTx' = outTx
          /\ W!Receipt(held[S(p)]) = "reverted"
      BY <1>0, <2>5 DEF SettlePullReverted, SetStatus, SettleReturns, TypeOK
    <3>2. held[S(p)] \in signed /\ held[S(p)].call = PullCall(p)
      BY <1>0, <3>1, ReturnedIsSigned, CallersApart DEF HandlersInStep
    <3>3. inTx[p] = held[S(p)] /\ inTx[p] # NoTx
      BY <1>0, <3>2, SettlementAssumption DEF PullsNamed, W!TypeOK
    <3>4. PullFailed(p)
      BY <3>1, <3>3 DEF PullFailed
    <3>5. QED BY <2>0, <3>1, <3>4
  <2>7. CASE SettlePaid(p)
    <3>1. /\ spc[p] = "paying" /\ spc'[p] = "done" /\ status'[p] = "complete"
          /\ outTx'[p] = held[S(p)] /\ stage[S(p)] = "returned"
      BY <1>0, <2>7 DEF SettlePaid, SetComplete, SettleReturns, TypeOK
    <3>2. outTx'[p] # NoTx
      BY <1>0, <3>1, ReturnedIsSigned, CallersApart, SettlementAssumption
    <3>3. QED BY <2>0, <3>1, <3>2
  <2>8. QED
    BY <2>1, <2>2, <2>3, <2>4, <2>5, <2>7 DEF SettleStep
<1>6. PullAt(p)'
  BY <1>0, <1>2, <1>5 DEF PullAt, PullUnsigned
<1>7. RefundAt(p)'
  <2>1. Pulled(p) => Pulled(p)'
    BY Frame
  <2>2. PullFailed(p) => PullFailed(p)'
    BY <1>2, FailedStays
  <2>3. QED BY <1>0, <1>1, <1>2, <1>5, <2>1, <2>2 DEF RefundAt, RefundCall, F
<1>8. ClosedAt(p)'
  <2> SUFFICES ASSUME p \notin overlap
               PROVE  /\ status'[p] \in Terminal => ~Live(p)' /\ rpc[p] = "idle"
                      /\ \A r \in Refunds :
                           fpc[F(p, r)] \notin {"checked", "paying", "unsure"}
    BY <1>1, <1>2 DEF ClosedAt, F
  <2>1. /\ status[p] \notin Terminal /\ (Live(p) => rpc[p] = "idle")
        /\ \A r \in Refunds : fpc[F(p, r)] \notin {"checked", "paying", "unsure"}
    BY <1>5, OpenRow
  <2>2. ASSUME status'[p] \in Terminal PROVE Live(p) /\ spc'[p] = "done"
    BY <1>5, <2>1, <2>2 DEF Terminal
  <2>3. spc'[p] = "done" => ~Live(p)'
    BY DEF Live
  <2>4. QED BY <2>1, <2>2, <2>3
<1>9. OneRefundAt(p)'
  BY <1>0, <1>1, <1>2, <1>4, <1>5, OpenRow DEF OneRefundAt, RefundUnsigned,
     RefundsOf, RefundCall, Terminal, F
<1>10. QED
  BY <1>1, <1>2, <1>4, <1>5, <1>6, <1>7, <1>8, <1>9, QuietStep DEF RowAt

LEMMA RecoverKeepsRefund ==
  ASSUME RefundInv, [Next]_vars, NEW p \in Payments, RecoverStep(p)
  PROVE  RefundParts'
<1> USE DEF RefundInv, PayoutInv, SettleInv
<1>0. /\ TypeOK /\ W!TypeOK /\ HandlersInStep /\ OneWorkerAt(p)
      /\ PullAt(p) /\ RefundAt(p) /\ ClosedAt(p) /\ OneRefundAt(p)
  BY DEF W!WalletInv, OneWorker, PullsNamed
<1>1. /\ signed' = signed /\ UNCHANGED <<spc, overlap>>
      /\ \A q \in Payments : q # p =>
           status'[q] = status[q] /\ outTx'[q] = outTx[q] /\ rpc'[q] = rpc[q]
      /\ \A q \in Payments : stage'[S(q)] = stage[S(q)]
  BY RecoverLocal
<1>2. UNCHANGED <<inTx, fpc, rushed>>
  BY DEF RecoverStep, RecoverResendsPull, RecoverPulled, RecoverPullReverted,
     RecoverZeroAmount, RecoverPays, RecoverSubmitted, RecoverConfirmed,
     RecoverResendsPay, RecoverGivesUp, RecoverEnds, SetStatus, SetComplete, rows,
     refunding
<1>3. \A u \in Callers : u # R(p) => stage'[u] = stage[u]
  <2>1. \/ UNCHANGED stage \/ W!Resume(R(p)) \/ W!Submit(R(p), OutCall(p))
    BY DEF RecoverStep, RecoverResendsPull, RecoverPulled, RecoverPullReverted,
       RecoverZeroAmount, RecoverPays, RecoverSubmitted, RecoverConfirmed,
       RecoverResendsPay, RecoverGivesUp, BroadcastRaw, W!Rebroadcast, W!wallet,
       wallet
  <2>2. CASE W!Resume(R(p))
    BY <1>0, <2>2, ResumeLocal, CallersApart
  <2>3. CASE W!Submit(R(p), OutCall(p))
    BY <1>0, <2>3, SubmitLocal, CallersApart
  <2>4. QED BY <2>1, <2>2, <2>3
<1>4. \A q \in Payments : \A r \in Refunds : stage'[F(q, r)] = stage[F(q, r)]
  BY <1>3, CallersApart
<1>5. /\ rpc[p] # "idle" /\ (outTx[p] # NoTx => outTx'[p] # NoTx)
      /\ \/ status'[p] = status[p]
         \/ status'[p] = "incoming_complete"
         \/ status'[p] = "failed" /\ (PullFailed(p) \/ Net[p] = 0) /\ rpc'[p] = "idle"
         \/ status'[p] = "complete" /\ rpc'[p] = "idle"
  <2>1. CASE \/ RecoverResendsPull(p) \/ RecoverPays(p) \/ RecoverSubmitted(p)
             \/ RecoverResendsPay(p) \/ RecoverGivesUp(p)
    <3>1. rpc[p] # "idle" /\ status' = status /\ outTx' = outTx
      BY <2>1 DEF RecoverResendsPull, RecoverPays, RecoverSubmitted,
         RecoverResendsPay, RecoverGivesUp, InStage0, PastStage0, InPhase2, rows
    <3>2. QED BY <3>1
  <2>2. CASE RecoverPulled(p)
    <3>1. rpc[p] # "idle" /\ status'[p] = "incoming_complete" /\ outTx' = outTx
      BY <1>0, <2>2 DEF RecoverPulled, InStage0, SetStatus, TypeOK
    <3>2. QED BY <3>1
  <2>3. CASE RecoverPullReverted(p)
    <3>1. /\ rpc[p] # "idle" /\ rpc'[p] = "idle" /\ status'[p] = "failed"
          /\ outTx' = outTx /\ snap[p].status = "incoming_submitted"
          /\ W!Receipt(snap[p].inTx) = "reverted"
      BY <1>0, <2>3 DEF RecoverPullReverted, InStage0, SetStatus, RecoverEnds, TypeOK
    <3>2. snap[p].inTx \in signed /\ snap[p].inTx.call = PullCall(p)
      BY <3>1 DEF NamesOwnTxs, StatusBacked
    <3>3. inTx[p] = snap[p].inTx /\ inTx[p] # NoTx
      BY <1>0, <3>2, SettlementAssumption DEF PullsNamed, W!TypeOK
    <3>4. QED BY <3>1, <3>3 DEF PullFailed
  <2>4. CASE RecoverZeroAmount(p)
    <3>1. /\ rpc[p] # "idle" /\ rpc'[p] = "idle" /\ status'[p] = "failed"
          /\ outTx' = outTx /\ Net[p] = 0
      BY <1>0, <2>4 DEF RecoverZeroAmount, PastStage0, SetStatus, RecoverEnds, TypeOK
    <3>2. QED BY <3>1
  <2>5. CASE RecoverConfirmed(p)
    <3>1. /\ rpc[p] # "idle" /\ rpc'[p] = "idle" /\ status'[p] = "complete"
          /\ outTx'[p] = snap[p].outTx /\ snap[p].outTx # NoTx
      BY <1>0, <2>5 DEF RecoverConfirmed, InPhase2, PastStage0, NeedsOutgoing,
         SetComplete, RecoverEnds, TypeOK, HandlersInStep
    <3>2. QED BY <3>1
  <2>6. QED BY <2>1, <2>2, <2>3, <2>4, <2>5 DEF RecoverStep
<1>6. PullAt(p)'
  <2>1. status[p] # "none"
    BY <1>0, <1>5 DEF OneWorkerAt
  <2>2. QED BY <1>0, <1>1, <1>2, <1>5, <2>1 DEF PullAt, PullUnsigned, S
<1>7. RefundAt(p)'
  <2>1. Pulled(p) => Pulled(p)'
    BY Frame
  <2>2. PullFailed(p) => PullFailed(p)'
    BY <1>2, FailedStays
  <2>3. QED BY <1>0, <1>1, <1>2, <1>5, <2>1, <2>2 DEF RefundAt, RefundCall, F
<1>8. ClosedAt(p)'
  <2> SUFFICES ASSUME p \notin overlap
               PROVE  /\ status'[p] \in Terminal => ~Live(p) /\ rpc'[p] = "idle"
                      /\ \A r \in Refunds :
                           fpc[F(p, r)] \notin {"checked", "paying", "unsure"}
    BY <1>1, <1>2 DEF ClosedAt, F, Live
  <2>1. /\ status[p] \notin Terminal /\ (Live(p) => rpc[p] = "idle")
        /\ \A r \in Refunds : fpc[F(p, r)] \notin {"checked", "paying", "unsure"}
    BY <1>5, OpenRow
  <2>2. QED BY <1>5, <2>1 DEF Terminal
<1>9. OneRefundAt(p)'
  BY <1>0, <1>1, <1>2, <1>4, <1>5, OpenRow DEF OneRefundAt, RefundUnsigned,
     RefundsOf, RefundCall, Terminal, F
<1>10. QED
  BY <1>1, <1>2, <1>4, <1>5, <1>6, <1>7, <1>8, <1>9, QuietStep DEF RowAt

LEMMA RefundKeepsRefund ==
  ASSUME RefundInv, [Next]_vars, NEW p \in Payments, NEW r \in Refunds,
         RefundStep(p, r)
  PROVE  RefundParts'
<1> USE DEF RefundInv, PayoutInv, SettleInv
<1>0. /\ TypeOK /\ W!TypeOK /\ HandlersInStep /\ OneWorkerAt(p)
      /\ PullAt(p) /\ RefundAt(p) /\ ClosedAt(p) /\ OneRefundAt(p)
  BY DEF W!WalletInv, OneWorker, PullsNamed
<1> DEFINE f == F(p, r)
<1>1. /\ UNCHANGED <<inTx, outTx, spc, rpc, overlap, signed>>
      /\ rushed \subseteq rushed' /\ rushed' \subseteq rushed \cup {p}
      /\ \A q \in Payments : q # p => status'[q] = status[q]
      /\ UNCHANGED wallet \/ W!Resume(f) \/ W!Submit(f, RefundCall(p))
      /\ \E s : fpc' = [fpc EXCEPT ![f] = s]
  BY <1>0 DEF RefundStep, RefundReads, RefundSubmits, RefundConfirmed, RefundRefused,
     RefundGivesUp, SetStatus, rows, settling, recovering, wallet, W!Resume, W!Submit,
     TypeOK
<1>2. f \in Callers /\ f \in Refunders
  BY CallersApart
<1>3. \A u \in Callers : u # f => stage'[u] = stage[u]
  <2>1. CASE UNCHANGED wallet
    BY <2>1 DEF wallet
  <2>2. CASE W!Resume(f)
    BY <1>0, <1>2, <2>2, ResumeLocal
  <2>3. CASE W!Submit(f, RefundCall(p))
    BY <1>0, <1>2, <2>3, SubmitLocal
  <2>4. QED BY <1>1, <2>1, <2>2, <2>3
<1>4. \A q \in Payments :
        /\ stage'[S(q)] = stage[S(q)]
        /\ \A s \in Refunds : <<q, s>> # <<p, r>> =>
             stage'[F(q, s)] = stage[F(q, s)] /\ fpc'[F(q, s)] = fpc[F(q, s)]
  BY <1>0, <1>1, <1>3, CallersApart DEF TypeOK
<1>5. ASSUME NEW q \in Payments, q # p PROVE RowAt(q)'
  <2>1. Pulled(q) => Pulled(q)'
    BY Frame
  <2>2. PullFailed(q) => PullFailed(q)'
    BY <1>1, FailedStays
  <2>3. RefundsOf(q)' = RefundsOf(q)
    BY <1>1 DEF RefundsOf, RefundCall
  <2>4. \A s \in Refunds : <<q, s>> # <<p, r>>
    BY <1>5
  <2>5. QED
    BY <1>1, <1>4, <1>5, <2>1, <2>2, <2>3, <2>4, UntouchedPayment DEF RowAt, PullsNamed
\* What the step does to its own request.
<1>6. /\ inTx[p] # NoTx
      /\ \/ /\ fpc[f] = "idle" /\ fpc'[f] = "checked" /\ status[p] = "failed"
            /\ status' = status /\ UNCHANGED stage
            /\ Unsettled(p) => p \in rushed'
         \/ /\ fpc[f] = "checked" /\ fpc'[f] = "paying" /\ status' = status
            /\ stage'[f] = "queued" /\ Pulled(p)
         \/ fpc[f] = "paying" /\ fpc'[f] = "done" /\ status'[p] = "refunded"
         \/ fpc[f] = "checked" /\ fpc'[f] = "done" /\ status' = status
         \/ fpc[f] = "paying" /\ fpc'[f] = "unsure" /\ status' = status
  <2>1. CASE RefundReads(p, r)
    BY <1>0, <1>2, <2>1 DEF RefundReads, rows, wallet, TypeOK
  <2>2. CASE RefundSubmits(p, r)
    <3>1. /\ fpc[f] = "checked" /\ fpc'[f] = "paying" /\ status' = status
          /\ W!Receipt(inTx[p]) = "success" /\ W!Submit(f, RefundCall(p))
      BY <1>0, <1>2, <2>2 DEF RefundSubmits, rows, TypeOK
    <3>2. inTx[p] # NoTx
      BY <1>0, <3>1 DEF RefundAt
    <3>3. inTx[p] \in W!Tx /\ inTx[p].call = PullCall(p)
      BY <1>0, <3>2 DEF NamesOwnTxs, TypeOK
    <3>4. stage'[f] = "queued"
      BY <1>0, <1>2, <3>1, SubmitLocal
    <3>5. QED BY <1>0, <3>1, <3>2, <3>3, <3>4, ReceiptIsPull
  <2>3. CASE RefundConfirmed(p, r)
    BY <1>0, <1>2, <2>3 DEF RefundConfirmed, SetStatus, RefundAt, TypeOK
  <2>4. CASE RefundRefused(p, r)
    BY <1>0, <1>2, <2>4 DEF RefundRefused, rows, RefundAt, TypeOK
  <2>5. CASE RefundGivesUp(p, r)
    BY <1>0, <1>2, <2>5 DEF RefundGivesUp, rows, RefundAt, TypeOK
  <2>6. QED BY <2>1, <2>2, <2>3, <2>4, <2>5 DEF RefundStep
<1>7. \A s \in Refunds : s # r =>
        fpc'[F(p, s)] = fpc[F(p, s)] /\ stage'[F(p, s)] = stage[F(p, s)]
  BY <1>4
<1> HIDE DEF f
<1>8. PullAt(p)'
  BY <1>0, <1>1, <1>4, <1>6 DEF PullAt, PullUnsigned, S
<1>9. RefundAt(p)'
  <2>1. Pulled(p) => Pulled(p)'
    BY Frame
  <2>2. PullFailed(p) => PullFailed(p)' /\ ~Pulled(p)
    BY <1>1, FailedStays, FailedNotPulled
  <2>3. \A s \in Refunds : s # r => fpc'[F(p, s)] = fpc[F(p, s)]
    BY <1>7
  <2>4. QED
    BY <1>0, <1>1, <1>6, <2>1, <2>2, <2>3 DEF RefundAt, RefundCall, f, F
<1>10. ClosedAt(p)'
  BY <1>0, <1>1, <1>6, <1>7 DEF ClosedAt, Live, Terminal, f, F
<1>11. OneRefundAt(p)'
  <2>1. CASE p \in overlap \cup rushed'
    BY <1>1, <2>1 DEF OneRefundAt
  <2>2. CASE p \notin overlap \cup rushed'
    <3>1. p \notin overlap \cup rushed /\ RefundsOf(p)' = RefundsOf(p)
      BY <1>1, <2>2 DEF RefundsOf, RefundCall
    <3>2. QED
      BY <1>0, <1>6, <1>7, <2>2, <3>1 DEF OneRefundAt, RefundUnsigned, Unsettled, f, F
  <2>3. QED BY <2>1, <2>2
<1>12. PullsNamed' /\ PayoutsRecorded'
  BY <1>1, <1>5, <1>8 DEF RowAt, PullsNamed, PayoutsRecorded, PullCall, Payees, OutCall
<1>13. QED
  BY <1>5, <1>8, <1>9, <1>10, <1>11, <1>12 DEF RefundParts, RowAt

-----------------------------------------------------------------------------
(* The wallet signs: pulls, payouts and refunds come into being.           *)

\* Nothing is signed: a submission moves on.
LEMMA MovesKeepRefund ==
  ASSUME RefundInv, [Next]_vars, NEW t \in Callers, WalletStep(t),
         UNCHANGED <<rows, signed, held>>,
         \/ stage[t] = "queued" /\ stage'[t] = "allocated"
         \/ stage[t] = "signed" /\ stage'[t] = "returned"
         \/ stage'[t] = "threw"
  PROVE  RefundParts'
<1> USE DEF RefundInv, PayoutInv, SettleInv
<1>0. W!TypeOK
  BY DEF W!WalletInv
<1>1. /\ UNCHANGED <<spc, rpc, overlap, fpc, rushed, status, inTx, outTx>>
      /\ \A u \in Callers : u # t => stage'[u] = stage[u]
  BY <1>0, WalletLocal DEF settling, recovering, refunding, rows
<1>2. \A u \in Callers :
        stage'[u] \in {"queued", "allocated"} => stage[u] \in {"queued", "allocated"}
  BY <1>1
<1>3. ASSUME NEW q \in Payments PROVE RowAt(q)'
  <2>1. Pulled(q) => Pulled(q)'
    BY Frame
  <2>2. PullFailed(q) => PullFailed(q)'
    BY <1>1, FailedStays
  <2>3. PullAt(q) /\ RefundAt(q) /\ ClosedAt(q) /\ OneRefundAt(q)
    BY DEF PullsNamed
  <2>4. PullUnsigned(q)' => PullUnsigned(q)
    BY <1>1, <1>2, CallersApart DEF PullUnsigned, S
  <2>5. PullAt(q)'
    BY <1>1, <2>3, <2>4 DEF PullAt
  <2>6. RefundAt(q)'
    BY <1>1, <2>1, <2>2, <2>3 DEF RefundAt, RefundCall, F
  <2>7. ClosedAt(q)'
    BY <1>1, <2>3 DEF ClosedAt, Live, F
  <2>8. \A r \in Refunds : RefundUnsigned(q, r)' => RefundUnsigned(q, r)
    BY <1>1, <1>2, CallersApart DEF RefundUnsigned, F
  <2>9. RefundsOf(q)' = RefundsOf(q)
    BY DEF RefundsOf, RefundCall
  <2>10. OneRefundAt(q)'
    BY <1>1, <2>3, <2>8, <2>9 DEF OneRefundAt, F
  <2>11. QED BY <2>5, <2>6, <2>7, <2>10 DEF RowAt
<1>4. PullsNamed' /\ PayoutsRecorded'
  BY <1>1, <1>3 DEF RowAt, PullsNamed, PayoutsRecorded, PullCall, Payees, OutCall
<1>5. QED BY <1>3, <1>4 DEF RefundParts

\* What may be signed, and for whom: a pull nobody signed before, a payout of
\* what was pulled, or a refund.
LEMMA SignedFor ==
  ASSUME RefundInv, NEW t \in Callers, NEW p \in Payments, NEW y, y.call = call[t],
         t \in {S(p), R(p)} \cup {F(p, r) : r \in Refunds},
         stage[t] = "allocated", OnSigned(p, y)
  PROVE  \/ /\ t = S(p) /\ spc[p] = "pulling" /\ y.call = PullCall(p)
            /\ RecordIncomingIntent(p, y)
         \/ /\ y.call = OutCall(p) /\ RecordOutgoingIntent(p, y) /\ Pulled(p)
            /\ \/ t = S(p) /\ spc[p] = "paying"
               \/ t = R(p) /\ rpc[p] # "idle"
         \/ \E r \in Refunds :
              /\ t = F(p, r) /\ fpc[t] = "paying"
              /\ y.call = RefundCall(p) /\ UNCHANGED rows
<1> USE DEF RefundInv, PayoutInv, SettleInv
<1>1. CASE t = S(p)
  <2>1. \/ spc[p] = "pulling" /\ y.call = PullCall(p)
        \/ spc[p] = "paying" /\ y.call = OutCall(p) /\ Pulled(p)
    BY <1>1 DEF HandlersInStep
  <2>2. QED BY <1>1, <2>1, CallsApart DEF OnSigned
<1>2. CASE t = R(p)
  <2>1. rpc[p] = "paying" /\ y.call = OutCall(p) /\ Pulled(p)
    BY <1>2 DEF HandlersInStep
  <2>2. QED BY <1>2, <2>1, CallsApart DEF OnSigned
<1>3. CASE t \in {F(p, r) : r \in Refunds}
  <2>1. PICK r \in Refunds : t = F(p, r)
    BY <1>3
  <2>2. fpc[t] = "paying" /\ y.call = RefundCall(p)
    BY <2>1 DEF HandlersInStep
  <2>3. QED BY <2>1, <2>2, CallsApart DEF OnSigned
<1>4. QED BY <1>1, <1>2, <1>3

LEMMA SignsKeepRefund ==
  ASSUME RefundInv, [Next]_vars, NEW t \in Callers, WalletStep(t),
         NEW fee \in Fees, stage[t] = "allocated",
         signed' = signed \cup {W!SignedBy(t, fee)},
         OnSigned(t[2], W!SignedBy(t, fee)),
         stage'[t] \in {"signed", "threw"}
  PROVE  RefundParts'
<1> USE DEF RefundInv, PayoutInv, SettleInv
<1>0. /\ W!TypeOK /\ TypeOK /\ NoTx \notin signed /\ NoTx \notin W!Tx
  BY SettlementAssumption DEF W!WalletInv, W!TypeOK
<1>1. /\ UNCHANGED <<spc, rpc, overlap, fpc, rushed>>
      /\ \A u \in Callers : u # t => stage'[u] = stage[u]
  BY <1>0, WalletLocal DEF settling, recovering, refunding
<1>2. PICK p \in Payments :
        t \in {S(p), R(p)} \cup {F(p, r) : r \in Refunds} /\ t[2] = p
  BY OwnerOf
<1>3. PICK y \in W!Tx : /\ y # NoTx /\ y.call = call[t]
                        /\ signed' = signed \cup {y} /\ OnSigned(p, y)
  <2> DEFINE x == W!SignedBy(t, fee)
  <2>1. x \in W!Tx /\ x # NoTx /\ x.call = call[t]
    BY <1>0 DEF W!SignedBy, W!Tx, W!TypeOK
  <2>2. QED BY <1>2, <2>1
<1>4. /\ PullAt(p) /\ RefundAt(p) /\ ClosedAt(p) /\ OneRefundAt(p)
      /\ OneWorkerAt(p) /\ (PullFailed(p) => ~Pulled(p)) /\ (Pulled(p) => inTx[p] # NoTx)
  BY PulledIsRow, FailedNotPulled DEF PullsNamed, OneWorker
<1>5. \A q \in Payments : Pulled(q) => Pulled(q)'
  BY Frame
<1>6. \A q \in Payments : q # p =>
        /\ stage'[S(q)] = stage[S(q)]
        /\ \A r \in Refunds : stage'[F(q, r)] = stage[F(q, r)]
  BY <1>1, <1>2, CallersApart
\* The other payments.
<1>7. ASSUME NEW q \in Payments, q # p,
             status'[q] = status[q], inTx'[q] = inTx[q], y.call # RefundCall(q)
      PROVE  RowAt(q)'
  <2>1. PullFailed(q) => PullFailed(q)'
    BY <1>7, FailedStays
  <2>2. RefundsOf(q)' = RefundsOf(q)
    BY <1>3, <1>7 DEF RefundsOf, RefundCall
  <2>3. RowAt(q)
    BY DEF RowAt, PullsNamed
  <2>4. QED BY <1>1, <1>5, <1>6, <1>7, <2>1, <2>2, <2>3, UntouchedPayment
<1>8. CASE /\ t = S(p) /\ spc[p] = "pulling" /\ y.call = PullCall(p)
           /\ RecordIncomingIntent(p, y)
  <2>1. /\ inTx[p] = NoTx /\ inTx'[p] = y /\ status'[p] = "incoming_submitted"
        /\ outTx' = outTx
        /\ \A q \in Payments : q # p => inTx'[q] = inTx[q] /\ status'[q] = status[q]
    BY <1>0, <1>4, <1>8 DEF RecordIncomingIntent, PullAt, PullUnsigned, TypeOK
  <2>2. \A q \in Payments : q # p => RowAt(q)'
    BY <1>7, <1>8, <2>1, RefundApart
  <2>3. RefundsOf(p)' = RefundsOf(p) /\ RefundsOf(p) = {}
    BY <1>3, <1>4, <1>8, <2>1, RefundApart DEF RefundsOf, RefundAt, RefundCall
  <2>4. \A r \in Refunds : fpc[F(p, r)] = "idle"
    BY <1>4, <2>1 DEF RefundAt
  <2>5. PullAt(p)'
    BY <1>1, <1>8, <2>1 DEF PullAt, PullUnsigned, S
  <2>6. RefundAt(p)'
    BY <1>1, <2>1, <2>3, <2>4 DEF RefundAt, RefundsOf, RefundCall, F
  <2>7. ClosedAt(p)' /\ OneRefundAt(p)'
    BY <1>1, <2>1, <2>3, <2>4 DEF ClosedAt, OneRefundAt, RefundUnsigned, Terminal, F
  <2>8. \A x \in signed' : \A q \in Payments : x.call = PullCall(q) => inTx'[q] = x
    <3> SUFFICES ASSUME NEW x \in signed', NEW q \in Payments, x.call = PullCall(q)
                 PROVE  inTx'[q] = x
      OBVIOUS
    <3>1. CASE x = y
      BY <1>8, <2>1, <3>1, CallsInjective
    <3>2. CASE x \in signed
      BY <1>0, <2>1, <3>2 DEF PullsNamed
    <3>3. QED BY <1>3, <3>1, <3>2
  <2>9. PayoutsRecorded'
    BY <1>3, <1>8, <2>1, RefundApart DEF PayoutsRecorded, Payees, OutCall
  <2>10. QED
    BY <2>2, <2>5, <2>6, <2>7, <2>8, <2>9 DEF RefundParts, RowAt, PullsNamed, PullCall
<1>9. CASE /\ y.call = OutCall(p) /\ RecordOutgoingIntent(p, y) /\ Pulled(p)
           /\ \/ t = S(p) /\ spc[p] = "paying"
              \/ t = R(p) /\ rpc[p] # "idle"
  <2>1. /\ inTx' = inTx /\ outTx'[p] = y /\ status'[p] = "outgoing_submitted"
        /\ \A q \in Payments : q # p => outTx'[q] = outTx[q] /\ status'[q] = status[q]
    BY <1>0, <1>9 DEF RecordOutgoingIntent, TypeOK
  <2>2. \A q \in Payments : y.call # RefundCall(q) /\ y.call # PullCall(q)
    BY <1>9, RefundApart
  <2>3. \A q \in Payments : q # p => RowAt(q)'
    BY <1>7, <2>1, <2>2
  <2>4. RefundsOf(p)' = RefundsOf(p)
    BY <1>3, <2>2 DEF RefundsOf, RefundCall
  <2>5. \A r \in Refunds : stage'[F(p, r)] = stage[F(p, r)]
    BY <1>1, <1>9, CallersApart
  <2>6. PullAt(p)'
    <3>1. spc[p] # "new"
      BY <1>4, <1>9 DEF PullAt, OneWorkerAt
    <3>2. PullUnsigned(p)' => PullUnsigned(p)
      BY <1>1, <1>9, CallersApart DEF PullUnsigned, S
    <3>3. QED BY <1>1, <1>4, <2>1, <3>1, <3>2 DEF PullAt
  <2>7. RefundAt(p)'
    <3>1. PullFailed(p) => PullFailed(p)'
      BY <2>1, FailedStays
    <3>2. QED
      BY <1>1, <1>4, <1>5, <2>1, <2>4, <3>1 DEF RefundAt, RefundsOf, RefundCall, F
  <2>8. p \notin overlap =>
          /\ status[p] \notin Terminal
          /\ \A r \in Refunds : fpc[F(p, r)] \notin {"checked", "paying", "unsure"}
    BY <1>9, OpenRow DEF Live
  <2>9. ClosedAt(p)'
    BY <1>1, <2>1, <2>8 DEF ClosedAt, Terminal, F
  <2>10. OneRefundAt(p)'
    BY <1>1, <1>4, <2>4, <2>5, <2>8 DEF OneRefundAt, RefundUnsigned, Terminal, F
  <2>11. \A x \in signed' : \A q \in Payments : x.call = PullCall(q) => inTx'[q] = x
    BY <1>3, <2>1, <2>2 DEF PullsNamed
  <2>12. PayoutsRecorded'
    BY <1>3, <1>9, <2>1 DEF PayoutsRecorded, Payees, OutCall
  <2>13. QED
    BY <2>3, <2>6, <2>7, <2>9, <2>10, <2>11, <2>12
       DEF RefundParts, RowAt, PullsNamed, PullCall
<1>10. CASE \E r \in Refunds : /\ t = F(p, r) /\ fpc[t] = "paying"
                               /\ y.call = RefundCall(p) /\ UNCHANGED rows
  <2>1. PICK r \in Refunds : /\ t = F(p, r) /\ fpc[t] = "paying"
                             /\ y.call = RefundCall(p) /\ UNCHANGED rows
    BY <1>10
  <2>2. UNCHANGED <<status, inTx, outTx>>
    BY <2>1 DEF rows
  <2>3. \A q \in Payments : q # p => RowAt(q)'
    BY <1>7, <2>1, <2>2, CallsInjective
  <2>4. /\ stage'[S(p)] = stage[S(p)]
        /\ \A s \in Refunds : s # r => stage'[F(p, s)] = stage[F(p, s)]
    BY <1>1, <2>1, CallersApart
  <2>5. RefundsOf(p)' = RefundsOf(p) \cup {y} /\ Pulled(p) /\ Net[p] = 0
    BY <1>3, <1>4, <2>1 DEF RefundsOf, RefundAt, RefundCall
  <2>6. PullAt(p)'
    BY <1>1, <1>4, <2>2, <2>4 DEF PullAt, PullUnsigned, S
  <2>7. RefundAt(p)'
    <3>1. PullFailed(p) => PullFailed(p)'
      BY <2>2, FailedStays
    <3>2. QED
      BY <1>1, <1>4, <1>5, <2>2, <2>5, <3>1 DEF RefundAt, RefundCall, F
  <2>8. ClosedAt(p)'
    BY <1>1, <1>4, <2>2 DEF ClosedAt, Live, F
  <2>9. OneRefundAt(p)'
    <3> SUFFICES ASSUME p \notin overlap \cup rushed PROVE OneRefundAt(p)'
      BY <1>1 DEF OneRefundAt
    <3>1. RefundsOf(p) = {}
      BY <1>4, <2>1 DEF OneRefundAt, RefundUnsigned
    <3>2. \A s \in Refunds : ~RefundUnsigned(p, s)'
      <4>1. \A s \in Refunds :
              fpc[F(p, s)] \in {"checked", "paying", "unsure"} => s = r
        BY <1>4, <2>1 DEF OneRefundAt
      <4>2. QED BY <1>1, <2>1, <4>1 DEF RefundUnsigned, F
    <3>3. QED
      BY <1>1, <1>4, <2>1, <2>5, <3>1, <3>2 DEF OneRefundAt, F
  <2>10. \A x \in signed' : \A q \in Payments : x.call = PullCall(q) => inTx'[q] = x
    BY <1>3, <2>1, <2>2, RefundApart DEF PullsNamed
  <2>11. PayoutsRecorded'
    BY <1>3, <2>1, <2>2, RefundApart DEF PayoutsRecorded, Payees, OutCall
  <2>12. QED
    BY <2>3, <2>6, <2>7, <2>8, <2>9, <2>10, <2>11
       DEF RefundParts, RowAt, PullsNamed, PullCall
<1>11. QED BY <1>2, <1>3, <1>8, <1>9, <1>10, SignedFor

LEMMA WalletKeepsRefund ==
  ASSUME RefundInv, [Next]_vars, NEW t \in Callers, WalletStep(t)
  PROVE  RefundParts'
<1>1. W!TypeOK
  BY DEF RefundInv, PayoutInv, SettleInv, W!WalletInv
<1>2. QED BY <1>1, WalletLocal, MovesKeepRefund, SignsKeepRefund

-----------------------------------------------------------------------------
(* The worker's claim, the chain and restarts.                             *)

LEMMA OthersKeepRefund ==
  ASSUME RefundInv, [Next]_vars,
         \/ ClaimIncompletePayments
         \/ \E p \in Payments : LockGoesStale(p)
         \/ Mine \/ Crash \/ UNCHANGED vars
  PROVE  RefundParts'
<1> USE DEF RefundInv, PayoutInv, SettleInv
<1>0. TypeOK /\ W!TypeOK
  BY DEF W!WalletInv
<1>1. UNCHANGED <<status, inTx, outTx, signed, rushed>> /\ overlap \subseteq overlap'
  BY DEF ClaimIncompletePayments, LockGoesStale, Mine, W!Mine, Crash, W!Crash, W!wallet,
     vars, rows, recovering, refunding, wallet
<1>2. PullsNamed' <=> \A q \in Payments : PullAt(q)'
  BY <1>1 DEF PullsNamed, PullCall
<1>3. PayoutsRecorded'
  BY <1>1 DEF PayoutsRecorded, Payees, OutCall
<1>4. ASSUME NEW q \in Payments
      PROVE  /\ PullAt(q) /\ RefundAt(q) /\ ClosedAt(q) /\ OneRefundAt(q)
             /\ Pulled(q) => Pulled(q)'
             /\ PullFailed(q) => PullFailed(q)'
             /\ RefundsOf(q)' = RefundsOf(q)
  BY <1>1, Frame, FailedStays DEF PullsNamed, RefundsOf, RefundCall
<1>5. CASE ClaimIncompletePayments
  <2>1. UNCHANGED <<spc, fpc, stage>>
    BY <1>5 DEF ClaimIncompletePayments, settling, refunding, wallet
  <2>2. ASSUME NEW q \in Payments PROVE RowAt(q)'
    <3>1. status[q] \in Terminal => rpc'[q] = "idle"
      BY <1>5 DEF ClaimIncompletePayments, Claimable, Incomplete, Terminal
    <3>2. PullAt(q)' /\ RefundAt(q)' /\ OneRefundAt(q)'
      BY <1>1, <1>4, <2>1 DEF PullAt, PullUnsigned, RefundAt, RefundCall, OneRefundAt,
         RefundUnsigned, S, F
    <3>3. ClosedAt(q)'
      BY <1>1, <1>4, <2>1, <3>1 DEF ClosedAt, Live, F
    <3>4. QED BY <3>2, <3>3 DEF RowAt
  <2>3. QED BY <1>2, <1>3, <2>2 DEF RefundParts, RowAt
<1>6. CASE (\E p \in Payments : LockGoesStale(p)) \/ Mine \/ UNCHANGED vars
  <2>1. UNCHANGED <<spc, rpc, fpc, stage>>
    BY <1>6 DEF LockGoesStale, Mine, W!Mine, W!wallet, settling, recovering, refunding,
       wallet, vars
  <2>2. ASSUME NEW q \in Payments PROVE RowAt(q)'
    BY <1>1, <1>4, <2>1, UntouchedPayment DEF RowAt
  <2>3. QED BY <1>2, <1>3, <2>2 DEF RefundParts, RowAt
<1>7. CASE Crash
  <2>1. ASSUME NEW q \in Payments
        PROVE  /\ spc'[q] = (IF spc[q] = "new" THEN "new" ELSE "done")
               /\ rpc'[q] = "idle"
               /\ \A r \in Refunds : fpc'[F(q, r)] =
                    CASE fpc[F(q, r)] = "checked" -> "done"
                      [] fpc[F(q, r)] = "paying" -> "unsure"
                      [] OTHER -> fpc[F(q, r)]
    BY <1>7, CallersApart DEF Crash
  <2>2. ASSUME NEW q \in Payments
        PROVE  /\ ~Live(q)'
               /\ \A r \in Refunds :
                    /\ fpc'[F(q, r)] # "idle" => fpc[F(q, r)] # "idle"
                    /\ fpc'[F(q, r)] \notin {"checked", "paying"}
                    /\ fpc'[F(q, r)] = "unsure" => fpc[F(q, r)] \in {"paying", "unsure"}
                    /\ fpc[F(q, r)] \in {"paying", "unsure"} => fpc'[F(q, r)] = "unsure"
                    /\ fpc[F(q, r)] \in {"checked", "done"} => fpc'[F(q, r)] = "done"
    BY <2>1 DEF Live
  <2>3. ASSUME NEW q \in Payments PROVE RowAt(q)'
    <3>1. PullAt(q)'
      BY <1>1, <1>4, <2>1 DEF PullAt, PullUnsigned
    <3>2. RefundAt(q)'
      BY <1>1, <1>4, <2>2 DEF RefundAt, RefundCall, F
    <3>3. ClosedAt(q)'
      BY <1>1, <1>4, <2>1, <2>2 DEF ClosedAt, F
    <3>4. OneRefundAt(q)'
      BY <1>1, <1>4, <2>2 DEF OneRefundAt, RefundUnsigned, F
    <3>5. QED BY <3>1, <3>2, <3>3, <3>4 DEF RowAt
  <2>4. QED BY <1>2, <1>3, <2>3 DEF RefundParts, RowAt
<1>8. QED BY <1>5, <1>6, <1>7

LEMMA InitRefund == Init => RefundInv
<1> SUFFICES ASSUME Init PROVE RefundInv
  OBVIOUS
<1>1. PayoutInv
  BY InitPayout
<1>2. signed = {}
  BY DEF Init, W!Init
<1>3. ASSUME NEW p \in Payments
      PROVE  PullAt(p) /\ RefundAt(p) /\ ClosedAt(p) /\ OneRefundAt(p)
  <2>1. \A r \in Refunds : fpc[F(p, r)] = "idle"
    BY CallersApart DEF Init
  <2>2. PullAt(p) /\ ClosedAt(p)
    BY <2>1 DEF Init, PullAt, ClosedAt, Terminal
  <2>3. RefundAt(p) /\ OneRefundAt(p)
    BY <1>2, <2>1 DEF Init, RefundAt, OneRefundAt, RefundUnsigned, RefundsOf
  <2>4. QED BY <2>2, <2>3
<1>4. QED
  BY <1>1, <1>2, <1>3 DEF RefundInv, PullsNamed, PayoutsRecorded

LEMMA StepRefund == RefundInv /\ [Next]_vars => RefundInv'
<1> SUFFICES ASSUME RefundInv, [Next]_vars PROVE RefundInv'
  OBVIOUS
<1>1. PayoutInv'
  BY StepPayout DEF RefundInv
<1>2. RefundParts'
  BY SettleKeepsRefund, RecoverKeepsRefund, RefundKeepsRefund, WalletKeepsRefund,
     OthersKeepRefund DEF Next
<1>3. QED BY <1>1, <1>2 DEF RefundInv, RefundParts, RowAt

-----------------------------------------------------------------------------
(* What follows.                                                           *)

\* The strengthening that also follows refunds and terminal rows.
THEOREM RefundInvariant == Spec => []RefundInv
BY InitRefund, StepRefund, PTL DEF Spec

\* A pull the node holds is the one its row names, and the row has left
\* `pending': recovery will see it whatever happens to the handler
\* (src/settle.ts, onSigned of the incoming transfer).
THEOREM IntentPersisted == Spec => []IntentBeforeBroadcast
<1>1. RefundInv => IntentBeforeBroadcast
  <2> SUFFICES ASSUME RefundInv, NEW i \in 1 .. Len(slots)
               PROVE  /\ \A p \in Payments : slots[i].call = PullCall(p) =>
                           inTx[p] = slots[i] /\ status[p] \notin {"none", "pending"}
                      /\ slots[i].call \in Payees =>
                           \E p \in Payments :
                             OutCall(p) = slots[i].call /\ outTx[p] # NoTx
    BY DEF IntentBeforeBroadcast
  <2>1. slots[i] \in signed /\ slots[i] # NoTx
    BY SettlementAssumption DEF RefundInv, PayoutInv, SettleInv, SlotsInOrder,
       W!WalletInv, W!TypeOK
  <2>2. QED BY <2>1 DEF RefundInv, PullsNamed, PullAt, PayoutsRecorded
<1>2. QED BY <1>1, RefundInvariant, PTL

\* A payment that owes its merchant something is failed only by a reverted
\* pull, and no refund of it is under way (src/refund.ts:60).
THEOREM FailedWereNeverPaid == Spec => []FailedNeverPaid
<1>1. RefundInv => FailedNeverPaid
  <2> SUFFICES ASSUME RefundInv, NEW p \in Payments,
                      status[p] \in {"failed", "refunded"}, Net[p] # 0
               PROVE  /\ status[p] = "failed" /\ W!Receipt(inTx[p]) = "reverted"
                      /\ outTx[p] = NoTx /\ \A r \in Refunds : stage[F(p, r)] = "idle"
    BY DEF FailedNeverPaid
  <2>1. status[p] = "failed" /\ PullFailed(p)
    BY DEF RefundInv, RefundAt
  <2>2. ~Pulled(p)
    BY <2>1, FailedNotPulled DEF RefundInv, PayoutInv
  <2>3. outTx[p] = NoTx
    BY <2>2 DEF RefundInv, PayoutInv, SettleInv, NamesOwnTxs
  <2>4. \A r \in Refunds : stage[F(p, r)] = "idle"
    BY <2>2 DEF RefundInv, PayoutInv, SettleInv, HandlersInStep, RefundAt
  <2>5. QED BY <2>1, <2>3, <2>4 DEF PullFailed
<1>2. QED BY <1>1, RefundInvariant, PTL

\* Only what was pulled is ever given back.
THEOREM RefundsAreBacked == Spec => []RefundBacked
<1>1. RefundInv => RefundBacked
  BY DEF RefundInv, PayoutInv, SlotsInOrder, RefundAt, RefundBacked
<1>2. QED BY <1>1, RefundInvariant, PTL

LEMMA SucceededFinite ==
  ASSUME SettleInv, NEW c
  PROVE  IsFiniteSet(Succeeded(c)) /\ Cardinality(Succeeded(c)) \in Nat
<1>1. Len(outcome) \in Nat
  BY LenProperties DEF SettleInv, W!WalletInv, W!TypeOK
<1>2. IsFiniteSet(1 .. Len(outcome))
  BY <1>1, FS_Interval
<1>3. IsFiniteSet(Succeeded(c))
  BY <1>2, FS_Subset DEF Succeeded
<1>4. QED BY <1>3, FS_CardinalityType

\* Refunds signed one at a time are executed at most once.
LEMMA RefundsCounted ==
  ASSUME RefundInv, NEW p \in Payments, p \notin overlap \cup rushed
  PROVE  TimesRefunded(p) <= 1
<1> USE DEF RefundInv, PayoutInv
<1>1. /\ Len(slots) \in Nat /\ Len(outcome) \in Nat /\ Len(outcome) <= Len(slots)
  BY LenProperties DEF SettleInv, W!WalletInv, W!TypeOK
<1>2. ASSUME NEW i \in Succeeded(RefundCall(p)), NEW j \in Succeeded(RefundCall(p))
      PROVE  i = j
  <2>1. i \in 1 .. Len(slots) /\ j \in 1 .. Len(slots)
    BY <1>1 DEF Succeeded
  <2>2. /\ slots[i] \in RefundsOf(p) /\ slots[j] \in RefundsOf(p)
        /\ slots[i].nonce = i - 1 /\ slots[j].nonce = j - 1
    BY <2>1 DEF Succeeded, SlotsInOrder, RefundsOf
  <2>3. slots[i] = slots[j]
    BY <2>2 DEF OneRefundAt
  <2>4. QED BY <2>1, <2>2, <2>3
<1>3. CASE Succeeded(RefundCall(p)) = {}
  BY <1>3, FS_EmptySet DEF TimesRefunded
<1>4. CASE Succeeded(RefundCall(p)) # {}
  <2>1. PICK i : Succeeded(RefundCall(p)) = {i}
    BY <1>2, <1>4
  <2>2. Cardinality({i}) = 1
    BY FS_Singleton
  <2>3. TimesRefunded(p) = 1
    BY Zenon, <2>1, <2>2 DEF TimesRefunded
  <2>4. QED BY <2>3
<1>5. QED BY <1>3, <1>4

\* A payer is refunded twice only if a request was admitted before it was known
\* how an earlier one ended, or the row had two workers (src/refund.ts:60).
THEOREM RefundedOnceButForRush == Spec => []RefundedTwiceOnlyRushed
<1>1. RefundInv => RefundedTwiceOnlyRushed
  <2> SUFFICES ASSUME RefundInv, NEW p \in Payments, p \notin overlap \cup rushed
               PROVE  ~(TimesRefunded(p) > 1)
    BY DEF RefundedTwiceOnlyRushed
  <2>1. TimesRefunded(p) <= 1 /\ TimesRefunded(p) \in Nat
    BY RefundsCounted, SucceededFinite DEF TimesRefunded, RefundInv, PayoutInv
  <2>2. QED BY <2>1
<1>2. QED BY <1>1, RefundInvariant, PTL

\* How the status of a row may change, by whom.
LEMMA StatusMoves ==
  ASSUME RefundInv, [Next]_vars, NEW p \in Payments, status'[p] # status[p]
  PROVE  \/ Live(p) \/ status[p] = "none" \/ rpc[p] # "idle"
         \/ status'[p] = "refunded" /\ \E r \in Refunds : fpc[F(p, r)] = "paying"
<1> USE DEF RefundInv, PayoutInv, SettleInv
<1>1. TypeOK /\ W!TypeOK /\ HandlersInStep
  BY DEF W!WalletInv
<1>2. ASSUME NEW q \in Payments, SettleStep(q)
      PROVE  status'[p] # status[p] => p = q /\ (Live(p) \/ status[p] = "none")
  <2>1. q # p => status'[p] = status[p]
    BY <1>2, SettleLocal
  <2>2. \/ status' = status
        \/ status[q] = "none" \/ spc[q] \in {"pulling", "paying"}
    BY <1>2 DEF SettleStep, SettleAccepted, SettleRefused, SettlePull, SettlePulled,
       SettlePullReverted, SettleBreaks, SettlePay, SettlePaid, SettleGivesUp,
       RegisterNonce, rows
  <2>3. spc[q] \in {"pulling", "paying"} => Live(q)
    BY DEF Live
  <2>4. QED BY <2>1, <2>2, <2>3
<1>3. ASSUME NEW q \in Payments, RecoverStep(q)
      PROVE  status'[p] # status[p] => p = q /\ rpc[p] # "idle"
  <2>1. q # p => status'[p] = status[p]
    BY <1>3, RecoverLocal
  <2>2. rpc[q] # "idle"
    BY <1>3 DEF RecoverStep, RecoverResendsPull, RecoverPulled, RecoverPullReverted,
       RecoverZeroAmount, RecoverPays, RecoverSubmitted, RecoverConfirmed,
       RecoverResendsPay, RecoverGivesUp, InStage0, PastStage0, InPhase2
  <2>3. QED BY <2>1, <2>2
<1>4. ASSUME NEW q \in Payments, NEW r \in Refunds, RefundStep(q, r)
      PROVE  status'[p] # status[p] =>
               p = q /\ status'[p] = "refunded" /\ fpc[F(p, r)] = "paying"
  BY <1>1, <1>4 DEF RefundStep, RefundReads, RefundSubmits, RefundConfirmed,
     RefundRefused, RefundGivesUp, SetStatus, rows, TypeOK
<1>5. ASSUME NEW t \in Callers, WalletStep(t)
      PROVE  status'[p] # status[p] => Live(p) \/ rpc[p] # "idle"
  <2>1. PICK q \in Payments :
          t \in {S(q), R(q)} \cup {F(q, r) : r \in Refunds} /\ t[2] = q
    BY OwnerOf
  <2>2. CASE UNCHANGED rows
    BY <2>2 DEF rows
  <2>3. CASE \E fee \in Fees : stage[t] = "allocated" /\ OnSigned(q, W!SignedBy(t, fee))
    <3>1. PICK fee \in Fees : stage[t] = "allocated" /\ OnSigned(q, W!SignedBy(t, fee))
      BY <2>3
    <3>2. W!SignedBy(t, fee).call = call[t]
      BY DEF W!SignedBy
    <3>3. PICK y : y.call = call[t] /\ OnSigned(q, y)
      BY <3>1, <3>2
    <3>4. \/ status' = status
          \/ /\ \A u \in Payments : u # q => status'[u] = status[u]
             /\ spc[q] \in {"pulling", "paying"} \/ rpc[q] # "idle"
      BY <1>1, <2>1, <3>1, <3>3, SignedFor DEF RecordIncomingIntent,
         RecordOutgoingIntent, rows, TypeOK
    <3>5. spc[q] \in {"pulling", "paying"} => Live(q)
      BY DEF Live
    <3>6. QED BY <3>4, <3>5
  <2>4. QED BY <1>1, <1>5, <2>1, <2>2, <2>3, WalletLocal
<1>6. CASE \/ ClaimIncompletePayments \/ Mine \/ Crash \/ UNCHANGED vars
           \/ \E q \in Payments : LockGoesStale(q)
  BY <1>6 DEF ClaimIncompletePayments, LockGoesStale, Mine, Crash, vars, rows
<1>7. QED BY <1>2, <1>3, <1>4, <1>5, <1>6 DEF Next

\* A row that was completed, failed or refunded stays so, but for the refund of
\* a failed one, unless it had two workers (src/nonceStore.ts TERMINAL_STATUSES).
THEOREM TerminalRowsStay == Spec => TerminalIsFinal
<1>1. RefundInv /\ [Next]_vars =>
        [\A p \in Payments \ overlap : status[p] \in Terminal =>
           \/ status'[p] = status[p]
           \/ status[p] = "failed" /\ status'[p] = "refunded"]_vars
  <2> SUFFICES ASSUME RefundInv, [Next]_vars, NEW p \in Payments \ overlap,
                      status[p] \in Terminal, status'[p] # status[p]
               PROVE  status[p] = "failed" /\ status'[p] = "refunded"
    OBVIOUS
  <2>1. ~(Live(p) \/ status[p] = "none" \/ rpc[p] # "idle")
    BY OpenRow
  <2>2. status'[p] = "refunded" /\ \E r \in Refunds : fpc[F(p, r)] = "paying"
    BY <2>1, StatusMoves
  <2>3. status[p] \in {"failed", "refunded"}
    BY <2>2 DEF RefundInv, ClosedAt
  <2>4. QED BY <2>2, <2>3
<1>2. QED BY <1>1, RefundInvariant, PTL DEF Spec, TerminalIsFinal

\* A nonce that was claimed and then abandoned moves no money, ever
\* (src/settle.ts:315).
THEOREM AbandonedStays == Spec => AbandonedMovesNothing
<1>1. RefundInv /\ RefundInv' /\ [Next]_vars =>
        [\A p \in Payments : status[p] = "pending" /\ ~Live(p) =>
           status'[p] = "pending" /\ \A x \in signed' : x.call # PullCall(p)]_vars
  <2> SUFFICES ASSUME RefundInv, RefundInv', [Next]_vars, NEW p \in Payments,
                      status[p] = "pending", ~Live(p)
               PROVE  status'[p] = "pending" /\ \A x \in signed' : x.call # PullCall(p)
    OBVIOUS
  <2>1. inTx[p] = NoTx /\ ~Pulled(p)
    BY PulledIsRow DEF RefundInv, PayoutInv, PullsNamed, PullAt
  <2>2. rpc[p] = "idle"
    <3>1. SUFFICES ASSUME rpc[p] # "idle" PROVE FALSE
      OBVIOUS
    <3>2. snap[p].status = "incoming_submitted"
      BY <2>1, <3>1 DEF RefundInv, PayoutInv, SettleInv, HandlersInStep, StatusBacked,
         Incomplete
    <3>3. snap[p].inTx \in signed /\ snap[p].inTx.call = PullCall(p) /\ snap[p].inTx # NoTx
      BY <3>2 DEF RefundInv, PayoutInv, SettleInv, NamesOwnTxs, StatusBacked
    <3>4. QED BY <2>1, <3>3 DEF RefundInv, PullsNamed
  <2>3. \A r \in Refunds : fpc[F(p, r)] # "paying"
    BY <2>1 DEF RefundInv, RefundAt
  <2>4. status'[p] = "pending"
    BY <2>2, <2>3, StatusMoves
  <2>5. NoTx \notin signed'
    BY SettlementAssumption DEF RefundInv, PayoutInv, SettleInv, W!WalletInv, W!TypeOK
  <2>6. \A x \in signed' : x.call # PullCall(p)
    BY <2>4, <2>5 DEF RefundInv, PullsNamed, PullAt, PullCall
  <2>7. QED BY <2>4, <2>6
<1>2. QED BY <1>1, RefundInvariant, PTL DEF Spec, AbandonedMovesNothing

-----------------------------------------------------------------------------
(* The escrow: only a mined transaction moves money.                       *)

LEMMA EscrowPayees == E!Payees = Payees
BY DEF E!Payees, Payees

LEMMA EscrowCardinality == \A s : E!Cardinality(s) = Cardinality(s)
BY Zenon DEF Cardinality, E!Cardinality

LEMMA EscrowOwed == \A c : E!Owed(c) = Owed(c)
BY DEF E!Owed, Owed

\* A step in which nothing is mined.
LEMMA NothingMined ==
  ASSUME RefundInv, [Next]_vars, UNCHANGED outcome, NEW c
  PROVE  Succeeded(c)' = Succeeded(c)
<1>1. W!TypeOK /\ [W!Next]_(W!vars)
  BY WalletPart DEF RefundInv, PayoutInv, SettleInv, W!WalletInv
<1>2. \A i \in 1 .. Len(slots) : slots'[i] = slots[i]
  BY <1>1, WalletGrows
<1>3. \A i \in 1 .. Len(outcome) : slots'[i] = slots[i]
  BY <1>1, <1>2, LenProperties DEF W!TypeOK
<1>4. QED BY <1>3 DEF Succeeded

\* A step in which the next transaction is mined.
LEMMA OneMined ==
  ASSUME SettleInv, NEW o \in {"success", "reverted"}, W!Mine(o), NEW c,
         NEW x, x = slots[Len(outcome) + 1]
  PROVE  Succeeded(c)' = IF x.call = c /\ o = "success"
                         THEN Succeeded(c) \cup {Len(outcome) + 1}
                         ELSE Succeeded(c)
<1> DEFINE n == Len(outcome)
<1>1. /\ outcome \in Seq({"success", "reverted"}) /\ n \in Nat
      /\ slots' = slots /\ outcome' = Append(outcome, o)
  BY LenProperties DEF SettleInv, W!WalletInv, W!TypeOK, W!Mine
<1>2. /\ Len(outcome') = n + 1 /\ outcome'[n + 1] = o
      /\ \A i \in 1 .. n : outcome'[i] = outcome[i]
  BY <1>1, AppendProperties
<1> HIDE DEF n
<1>3. 1 .. n + 1 = (1 .. n) \cup {n + 1}
  BY <1>1
<1>4. Succeeded(c)' = {i \in 1 .. n + 1 : slots[i].call = c /\ outcome'[i] = "success"}
  BY <1>1, <1>2 DEF Succeeded
<1>5. Succeeded(c) = {i \in 1 .. n : slots[i].call = c /\ outcome[i] = "success"}
  BY DEF Succeeded, n
<1>6. x = slots[n + 1]
  BY DEF n
<1>7. CASE x.call = c /\ o = "success"
  <2>1. Succeeded(c)' = Succeeded(c) \cup {n + 1}
    BY <1>2, <1>3, <1>4, <1>5, <1>6, <1>7
  <2>2. QED BY <1>7, <2>1 DEF n
<1>8. CASE ~(x.call = c /\ o = "success")
  <2>1. Succeeded(c)' = Succeeded(c)
    BY <1>2, <1>3, <1>4, <1>5, <1>6, <1>8
  <2>2. QED BY <1>8, <2>1
<1>9. QED BY <1>7, <1>8

\* A success adds one.
LEMMA OneMore ==
  ASSUME SettleInv, NEW c, Succeeded(c)' = Succeeded(c) \cup {Len(outcome) + 1}
  PROVE  Cardinality(Succeeded(c)') = Cardinality(Succeeded(c)) + 1
<1>1. Len(outcome) \in Nat
  BY LenProperties DEF SettleInv, W!WalletInv, W!TypeOK
<1>2. Len(outcome) + 1 \notin Succeeded(c)
  BY <1>1 DEF Succeeded
<1>3. QED BY <1>2, SucceededFinite, FS_AddElement

LEMMA StillEscrow ==
  ASSUME RefundInv, RefundInv', overlap \subseteq overlap', rushed \subseteq rushed',
         \A c : Succeeded(c)' = Succeeded(c)
  PROVE  E!Disturb
<1>1. overlap' \subseteq Payments /\ rushed' \subseteq Payments
  BY DEF RefundInv, PayoutInv, SettleInv, TypeOK
<1>2. {p \in Payments : Pulled(p)}' = {p \in Payments : Pulled(p)}
  BY DEF Pulled, PullCall
<1>3. [c \in Payees |-> TimesPaid(c)]' = [c \in Payees |-> TimesPaid(c)]
  BY DEF TimesPaid, Payees, OutCall
<1>4. [p \in Payments |-> TimesRefunded(p)]' = [p \in Payments |-> TimesRefunded(p)]
  BY DEF TimesRefunded, RefundCall
<1>5. QED BY <1>1, <1>2, <1>3, <1>4 DEF E!Disturb

\* Only Mine mines, and the two marks are never taken back.
LEMMA OnlyMineMines ==
  ASSUME SettleInv, [Next]_vars, ~Mine
  PROVE  UNCHANGED outcome
<1>1. ASSUME NEW p \in Payments, SettleStep(p) PROVE UNCHANGED outcome
  BY <1>1 DEF SettleStep, SettleAccepted, SettleRefused, SettlePull, SettlePulled,
     SettlePullReverted, SettleBreaks, SettlePay, SettlePaid, SettleGivesUp,
     W!Submit, W!Resume, W!chain, wallet
<1>2. ASSUME NEW p \in Payments, RecoverStep(p) PROVE UNCHANGED outcome
  BY <1>2 DEF RecoverStep, RecoverResendsPull, RecoverPulled, RecoverPullReverted,
     RecoverZeroAmount, RecoverPays, RecoverSubmitted, RecoverConfirmed,
     RecoverResendsPay, RecoverGivesUp, BroadcastRaw, W!Rebroadcast, W!Submit,
     W!Resume, W!chain, wallet
<1>3. ASSUME NEW p \in Payments, NEW r \in Refunds, RefundStep(p, r)
      PROVE  UNCHANGED outcome
  BY <1>3 DEF RefundStep, RefundReads, RefundSubmits, RefundConfirmed,
     RefundRefused, RefundGivesUp, W!Submit, W!Resume, W!chain, wallet
<1>4. ASSUME NEW t \in Callers, WalletStep(t) PROVE UNCHANGED outcome
  BY <1>4 DEF WalletStep, WalletSign, WalletSignFails, WalletOther, W!Sign, W!SignFails,
     W!Allocate, W!AllocateFails, W!Broadcast, W!BroadcastRejected, W!BroadcastFails,
     W!chain
<1>5. QED
  BY <1>1, <1>2, <1>3, <1>4 DEF Next, ClaimIncompletePayments, LockGoesStale, Crash,
     W!Crash, W!chain, wallet, vars

LEMMA MarksStay ==
  ASSUME SettleInv, [Next]_vars
  PROVE  overlap \subseteq overlap' /\ rushed \subseteq rushed'
<1>1. ASSUME NEW p \in Payments, SettleStep(p) PROVE UNCHANGED <<overlap, rushed>>
  BY <1>1 DEF SettleStep, SettleAccepted, SettleRefused, SettlePull, SettlePulled,
     SettlePullReverted, SettleBreaks, SettlePay, SettlePaid, SettleGivesUp,
     recovering, refunding
<1>2. ASSUME NEW p \in Payments, RecoverStep(p) PROVE UNCHANGED <<overlap, rushed>>
  BY <1>2 DEF RecoverStep, RecoverResendsPull, RecoverPulled, RecoverPullReverted,
     RecoverZeroAmount, RecoverPays, RecoverSubmitted, RecoverConfirmed,
     RecoverResendsPay, RecoverGivesUp, RecoverEnds, refunding
<1>3. ASSUME NEW p \in Payments, NEW r \in Refunds, RefundStep(p, r)
      PROVE  overlap \subseteq overlap' /\ rushed \subseteq rushed'
  BY <1>3 DEF RefundStep, RefundReads, RefundSubmits, RefundConfirmed,
     RefundRefused, RefundGivesUp, recovering
<1>4. QED
  BY <1>1, <1>2, <1>3 DEF Next, WalletStep, ClaimIncompletePayments, LockGoesStale,
     Mine, Crash, recovering, refunding, vars

\* What mining a transaction means to the escrow.
LEMMA MineInEscrow ==
  ASSUME RefundInv, RefundInv', [Next]_vars, Mine,
         OverpaidOnlyByOverlap', RefundedTwiceOnlyRushed'
  PROVE  E!Next
<1> USE DEF RefundInv, PayoutInv
<1>1. PICK o \in {"success", "reverted"} :
        W!Mine(o) /\ CanEndAs(slots[Len(outcome) + 1].call, o)
  BY DEF Mine
<1>2. /\ slots \in Seq(W!Tx) /\ Len(outcome) \in Nat /\ Len(slots) \in Nat
      /\ Len(outcome) < Len(slots)
  BY <1>1, LenProperties DEF SettleInv, W!WalletInv, W!TypeOK, W!Mine
<1>3. PICK x : /\ x = slots[Len(outcome) + 1] /\ x \in signed
               /\ x.call \in Calls /\ CanEndAs(x.call, o)
  <2>1. Len(outcome) + 1 \in 1 .. Len(slots)
    BY <1>2
  <2>2. slots[Len(outcome) + 1] \in signed /\ slots[Len(outcome) + 1] \in W!Tx
    BY <1>2, <2>1 DEF SlotsInOrder
  <2>3. QED BY <1>1, <2>2 DEF W!Tx
<1>4. UNCHANGED <<overlap, rushed>>
  BY DEF Mine, recovering, refunding
<1>5. \A c : Succeeded(c)' = IF x.call = c /\ o = "success"
                             THEN Succeeded(c) \cup {Len(outcome) + 1}
                             ELSE Succeeded(c)
  BY <1>1, <1>3, OneMined
<1>6. CASE o = "reverted"
  <2>1. \A c : Succeeded(c)' = Succeeded(c)
    BY <1>5, <1>6
  <2>2. QED BY <1>4, <2>1, StillEscrow DEF E!Next
<1>7. CASE o = "success"
  <2>1. Succeeded(x.call)' = Succeeded(x.call) \cup {Len(outcome) + 1}
    BY <1>5, <1>7
  <2>2. \A c : c # x.call => Succeeded(c)' = Succeeded(c)
    BY <1>5
  <2>3. PICK p \in Payments : x.call \in {PullCall(p), OutCall(p), RefundCall(p)}
    BY <1>3 DEF Calls
  <2>4. CASE x.call = PullCall(p)
    <3>1. ~Pulled(p)
      BY <1>3, <1>7, <2>4 DEF CanEndAs, PullCall
    <3>2. Pulled(p)'
      BY <2>1, <2>4 DEF Pulled, PullCall
    <3>3. \A q \in Payments : q # p => Pulled(q)' = Pulled(q)
      BY <2>2, <2>4, CallsInjective DEF Pulled, PullCall
    <3>4. {q \in Payments : Pulled(q)}' = {q \in Payments : Pulled(q)} \cup {p}
      BY <3>2, <3>3 DEF PullCall
    <3>5. \A q \in Payments : TimesPaid(OutCall(q))' = TimesPaid(OutCall(q))
      BY <2>2, <2>4, RefundApart DEF TimesPaid, OutCall
    <3>6. [c \in Payees |-> TimesPaid(c)]' = [c \in Payees |-> TimesPaid(c)]
      BY <2>2, <2>4, RefundApart DEF TimesPaid, Payees, OutCall
    <3>7. \A q \in Payments : TimesRefunded(q)' = TimesRefunded(q)
      BY <2>2, <2>4, RefundApart DEF TimesRefunded, RefundCall
    <3>8. [q \in Payments |-> TimesRefunded(q)]' = [q \in Payments |-> TimesRefunded(q)]
      BY <3>7
    <3>9. E!Pull(p)
      BY <1>4, <3>1, <3>4, <3>6, <3>8 DEF E!Pull
    <3>10. QED BY <3>9 DEF E!Next
  <2>5. CASE x.call = OutCall(p)
    <3> DEFINE c == OutCall(p)
    <3>1. c \in Payees /\ TimesPaid(c) \in Nat /\ TimesPaid(c)' = TimesPaid(c) + 1
      BY <2>1, <2>5, OneMore, SucceededFinite DEF TimesPaid, Payees, OutCall
    <3>2. \A d \in Payees : d # c => TimesPaid(d)' = TimesPaid(d)
      BY <2>2, <2>5 DEF TimesPaid
    <3>3. \A q \in Payments : Pulled(q)' = Pulled(q)
      BY <2>2, <2>5, RefundApart DEF Pulled, PullCall
    <3>4. {q \in Payments : Pulled(q)}' = {q \in Payments : Pulled(q)}
      BY <3>3
    <3>5. \A q \in Payments : TimesRefunded(q)' = TimesRefunded(q)
      BY <2>2, <2>5, RefundApart DEF TimesRefunded, RefundCall
    <3>6. [q \in Payments |-> TimesRefunded(q)]' = [q \in Payments |-> TimesRefunded(q)]
      BY <3>5
    <3>7. [d \in Payees |-> TimesPaid(d)]' =
            [[d \in Payees |-> TimesPaid(d)] EXCEPT ![c] = @ + 1]
      BY <3>1, <3>2 DEF Payees, OutCall
    <3>8. TimesPaid(c) < Cardinality(Owed(c)) \/ \E q \in overlap : OutCall(q) = c
      <4>1. SUFFICES ASSUME \A q \in overlap : OutCall(q) # c
                     PROVE  TimesPaid(c) < Cardinality(Owed(c))
        OBVIOUS
      <4>2. ~(TimesPaid(c)' > Cardinality(Owed(c))')
        BY <1>4, <3>1, <4>1 DEF OverpaidOnlyByOverlap, Payees, OutCall
      <4>3. Owed(c)' = Owed(c)
        BY <3>3 DEF Owed, OutCall
      <4>4. IsFiniteSet(Owed(c)) /\ Cardinality(Owed(c)) \in Nat
        <5>1. IsFiniteSet(Owed(c))
          BY SettlementAssumption, FS_Subset DEF Owed
        <5>2. QED BY <5>1, FS_CardinalityType
      <4>5. QED BY <3>1, <4>2, <4>3, <4>4
    <3>9. \A q \in overlap : [r \in Payments |-> OutCall(r)][q] = OutCall(q)
      BY DEF SettleInv, TypeOK
    <3>10. E!Pay(c)
      BY <1>4, <3>1, <3>4, <3>6, <3>7, <3>8, <3>9, EscrowOwed, EscrowCardinality
         DEF E!Pay
    <3>11. QED BY <3>1, <3>10, EscrowPayees DEF E!Next
  <2>6. CASE x.call = RefundCall(p)
    <3>1. Pulled(p) /\ Net[p] = 0
      BY <1>3, <2>6 DEF RefundAt
    <3>2. TimesRefunded(p) \in Nat /\ TimesRefunded(p)' = TimesRefunded(p) + 1
      BY <2>1, <2>6, OneMore, SucceededFinite DEF TimesRefunded, RefundCall
    <3>3. \A q \in Payments : q # p => TimesRefunded(q)' = TimesRefunded(q)
      BY <2>2, <2>6, CallsInjective DEF TimesRefunded, RefundCall
    <3>4. \A q \in Payments : Pulled(q)' = Pulled(q)
      BY <2>2, <2>6, RefundApart DEF Pulled, PullCall
    <3>5. {q \in Payments : Pulled(q)}' = {q \in Payments : Pulled(q)}
      BY <3>4
    <3>6. [c \in Payees |-> TimesPaid(c)]' = [c \in Payees |-> TimesPaid(c)]
      BY <2>2, <2>6, RefundApart DEF TimesPaid, Payees, OutCall
    <3>7. [q \in Payments |-> TimesRefunded(q)]' =
            [[q \in Payments |-> TimesRefunded(q)] EXCEPT ![p] = @ + 1]
      BY <3>2, <3>3
    <3>8. TimesRefunded(p) = 0 \/ p \in overlap \cup rushed
      <4>1. p \notin overlap \cup rushed => TimesRefunded(p)' <= 1
        BY <1>4, <3>2 DEF RefundedTwiceOnlyRushed, TimesRefunded, RefundCall
      <4>2. QED BY <3>2, <4>1
    <3>9. E!Refund(p)
      BY <1>4, <3>1, <3>5, <3>6, <3>7, <3>8 DEF E!Refund
    <3>10. QED BY <3>9 DEF E!Next
  <2>7. QED BY <2>3, <2>4, <2>5, <2>6
<1>8. QED BY <1>1, <1>6, <1>7

\* Whatever fails, restarts or runs at once: only what was pulled is passed on
\* or given back, and neither twice, but for the two races the escrow names
\* (src/settle.ts, src/recovery.ts, src/refund.ts).
THEOREM ImplementsEscrow == Spec => EscrowSpec
<1>1. Init => E!Init
  <2> SUFFICES ASSUME Init PROVE E!Init
    OBVIOUS
  <2>1. \A c : Succeeded(c) = {}
    BY DEF Init, W!Init, Succeeded
  <2>2. Cardinality({}) = 0
    BY FS_EmptySet
  <2>3. /\ \A p \in Payments : ~Pulled(p) /\ TimesRefunded(p) = 0
        /\ \A c \in Payees : TimesPaid(c) = 0
    BY <2>1, <2>2 DEF Pulled, TimesRefunded, TimesPaid
  <2>4. {p \in Payments : Pulled(p)} = {} /\ overlap = {} /\ rushed = {}
    BY <2>3 DEF Init
  <2>5. [c \in Payees |-> TimesPaid(c)] = [c \in E!Payees |-> 0]
    BY <2>3, EscrowPayees
  <2>6. [p \in Payments |-> TimesRefunded(p)] = [p \in Payments |-> 0]
    BY <2>3
  <2>7. QED BY <2>4, <2>5, <2>6 DEF E!Init
<1>2. RefundInv /\ RefundInv' /\ OverpaidOnlyByOverlap' /\ RefundedTwiceOnlyRushed'
      /\ [Next]_vars => [E!Next]_(E!vars)
  <2> SUFFICES ASSUME RefundInv, RefundInv', [Next]_vars,
                      OverpaidOnlyByOverlap', RefundedTwiceOnlyRushed'
               PROVE  [E!Next]_(E!vars)
    OBVIOUS
  <2>1. CASE Mine
    BY <2>1, MineInEscrow
  <2>2. CASE ~Mine
    <3>1. UNCHANGED outcome
      BY <2>2, OnlyMineMines DEF RefundInv, PayoutInv
    <3>2. overlap \subseteq overlap' /\ rushed \subseteq rushed'
      BY MarksStay DEF RefundInv, PayoutInv
    <3>3. \A c : Succeeded(c)' = Succeeded(c)
      BY <3>1, NothingMined
    <3>4. QED BY <3>2, <3>3, StillEscrow DEF E!Next
  <2>3. QED BY <2>1, <2>2
<1>3. QED
  BY <1>1, <1>2, RefundInvariant, PaidOnceButForOverlap, RefundedOnceButForRush, PTL
     DEF Spec, EscrowSpec, E!Spec
=============================================================================
