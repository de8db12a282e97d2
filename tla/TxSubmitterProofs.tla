------------------------- MODULE TxSubmitterProofs -------------------------
(* Proofs about the wallet, for any callers, calls, gas terms and bounds.  *)
EXTENDS TxSubmitter, SequenceTheorems, TLAPS

\* What the node's queue gains by taking a signed transaction.
LEMMA DeliverGrows ==
  ASSUME NEW x \in Tx, slots \in Seq(Tx), Deliver(x)
  PROVE  /\ slots' \in Seq(Tx)
         /\ Len(slots') = IF Accepts(x) THEN Len(slots) + 1 ELSE Len(slots)
BY DEF Deliver, Accepts

\* Leaving the lock: the queue stays a queue.
LEMMA ReleaseKeepsQueue ==
  ASSUME lockQ \in Seq(Tasks), NEW t \in Tasks, HoldsLock(t), Release
  PROVE  lockQ' \in Seq(Tasks)
BY HeadTailProperties DEF HoldsLock, Release

\* Joining the lock never displaces its holder.
LEMMA SubmitKeepsHead ==
  ASSUME lockQ \in Seq(Tasks), NEW t \in Tasks, lockQ' = Append(lockQ, t)
  PROVE  /\ lockQ' \in Seq(Tasks)
         /\ lockQ' # <<>>
         /\ lockQ # <<>> => Head(lockQ') = Head(lockQ)
BY AppendProperties

\* allocateNonce hands out a nonce the node can take or has taken.
LEMMA AllocatedInRange ==
  ASSUME TypeOK, nextNonce <= Len(slots), NEW pending \in PendingCounts
  PROVE  /\ AllocatedNonce(pending) \in Nat
         /\ AllocatedNonce(pending) <= Len(slots)
BY TxSubmitterAssumption
   DEF TypeOK, PendingCounts, AllocatedNonce, Greater

LEMMA SignedByType ==
  ASSUME TypeOK, NEW t \in Tasks, NEW fee \in Fees, stage[t] = "allocated"
  PROVE  /\ SignedBy(t, fee) \in Tx
         /\ SignedBy(t, fee).nonce = acct[t] /\ SignedBy(t, fee).call = call[t]
BY DEF TypeOK, SignedBy, Tx

\* Nothing signed is forgotten and the node's record only grows.
LEMMA Grows ==
  ASSUME TypeOK, [Next]_vars
  PROVE  /\ signed \subseteq signed'
         /\ Len(slots) <= Len(slots') /\ Len(outcome) <= Len(outcome')
         /\ \A i \in 1 .. Len(slots) : slots'[i] = slots[i]
         /\ \A i \in 1 .. Len(outcome) : outcome'[i] = outcome[i]
<1> DEFINE Kept == /\ Len(slots) <= Len(slots')
                   /\ \A i \in 1 .. Len(slots) : slots'[i] = slots[i]
<1>1. ASSUME NEW x, Deliver(x) PROVE Kept
  BY <1>1 DEF Deliver, TypeOK
<1>2. CASE \E t \in Tasks : Proceed(t)
  <2>1. signed \subseteq signed' /\ UNCHANGED outcome
    BY <1>2 DEF Proceed, Allocate, AllocateFails, Sign, SignFails, Broadcast,
                BroadcastRejected, BroadcastFails, Resume, chain
  <2>2. UNCHANGED slots \/ \E x : Deliver(x)
    BY <1>2 DEF Proceed, Allocate, AllocateFails, Sign, SignFails, Broadcast,
                BroadcastRejected, BroadcastFails, Resume, chain
  <2>3. Kept
    BY <1>1, <2>2 DEF TypeOK
  <2>4. QED BY <2>1, <2>3 DEF TypeOK
<1>3. CASE \E x \in signed : Rebroadcast(x)
  BY <1>1, <1>3 DEF Rebroadcast, TypeOK
<1>4. CASE \E o \in {"success", "reverted"} : Mine(o)
  BY <1>4 DEF Mine, TypeOK
<1>5. CASE (\E t \in Tasks, c \in Calls : Submit(t, c)) \/ Crash \/ UNCHANGED vars
  BY <1>5 DEF Submit, Crash, vars, chain, TypeOK
<1>6. QED BY <1>2, <1>3, <1>4, <1>5 DEF Next

\* A receipt, once there, does not change.
LEMMA ReceiptStable ==
  ASSUME TypeOK, TypeOK', [Next]_vars, NEW x \in Tx, Receipt(x) # "none"
  PROVE  Receipt(x)' = Receipt(x)
<1>1. x.nonce \in Nat /\ x.nonce < Len(outcome) /\ slots[x.nonce + 1] = x
  BY DEF Receipt, Tx
<1>2. /\ Len(outcome) \in Nat /\ Len(outcome') \in Nat
      /\ x.nonce + 1 \in 1 .. Len(outcome) /\ x.nonce + 1 \in 1 .. Len(slots)
  BY <1>1, LenProperties DEF TypeOK
<1>3. x.nonce < Len(outcome') /\ slots'[x.nonce + 1] = x
      /\ outcome'[x.nonce + 1] = outcome[x.nonce + 1]
  BY <1>1, <1>2, Grows
<1>4. QED BY <1>1, <1>3 DEF Receipt

LEMMA InitInv == Init => WalletInv
BY EmptySeq DEF Init, WalletInv, TypeOK, HolderOnly, MarkInStep, HeldIsSigned,
                NoGap, Critical, Stages

\* Every step keeps the wallet's inductive invariant.
LEMMA StepInv == WalletInv /\ [Next]_vars => WalletInv'
<1> SUFFICES ASSUME WalletInv, [Next]_vars PROVE WalletInv'
  OBVIOUS
<1> USE DEF WalletInv
<1>1. ASSUME NEW t \in Tasks, NEW c \in Calls, Submit(t, c)
      PROVE  WalletInv'
  <2>1. /\ lockQ' \in Seq(Tasks) /\ lockQ' # <<>>
        /\ lockQ # <<>> => Head(lockQ') = Head(lockQ)
    BY <1>1, SubmitKeepsHead DEF Submit, TypeOK
  <2>2. TypeOK'
    BY <1>1, <2>1 DEF TypeOK, Submit, chain, Stages
  <2>3. HolderOnly'
    BY <1>1, <2>1 DEF TypeOK, Submit, HolderOnly, HoldsLock, Critical
  <2>4. MarkInStep' /\ HeldIsSigned' /\ NoGap'
    BY <1>1 DEF TypeOK, Submit, chain, MarkInStep, HeldIsSigned, NoGap, Critical
  <2>5. QED BY <2>2, <2>3, <2>4
<1>2. ASSUME NEW t \in Tasks, Allocate(t)
      PROVE  WalletInv'
  <2>1. \A u \in Tasks : stage[u] \notin Critical
    BY <1>2 DEF Allocate, HolderOnly, HoldsLock, Critical
  <2>2. PICK pending \in PendingCounts :
          /\ acct' = [acct EXCEPT ![t] = AllocatedNonce(pending)]
          /\ nextNonce' = AllocatedNonce(pending) + 1
    BY <1>2 DEF Allocate
  <2>3. /\ AllocatedNonce(pending) \in Nat
        /\ AllocatedNonce(pending) <= Len(slots)
    BY <2>1, AllocatedInRange DEF MarkInStep
  <2>4. TypeOK'
    BY <1>2, <2>2, <2>3 DEF TypeOK, Allocate, chain, Stages
  <2>5. HolderOnly'
    BY <1>2, <2>1 DEF TypeOK, Allocate, HolderOnly, HoldsLock, Critical
  <2>6. MarkInStep' /\ HeldIsSigned' /\ NoGap'
    BY <1>2, <2>1, <2>2, <2>3
       DEF TypeOK, Allocate, chain, MarkInStep, HeldIsSigned, NoGap, Critical
  <2>7. QED BY <2>4, <2>5, <2>6
<1>3. ASSUME NEW t \in Tasks, AllocateFails(t)
      PROVE  WalletInv'
  <2>1. \A u \in Tasks : stage[u] \notin Critical
    BY <1>3 DEF AllocateFails, HolderOnly, HoldsLock, Critical
  <2>2. lockQ' \in Seq(Tasks)
    BY <1>3, ReleaseKeepsQueue DEF AllocateFails, TypeOK
  <2>3. TypeOK'
    BY <1>3, <2>2 DEF TypeOK, AllocateFails, Fail, chain, Stages
  <2>4. HolderOnly' /\ MarkInStep' /\ HeldIsSigned' /\ NoGap'
    BY <1>3, <2>1 DEF TypeOK, AllocateFails, chain, HolderOnly, MarkInStep,
                      HeldIsSigned, NoGap, Critical
  <2>5. QED BY <2>3, <2>4
<1>4. ASSUME NEW t \in Tasks, NEW fee \in Fees, Sign(t, fee)
      PROVE  WalletInv'
  <2>1. /\ SignedBy(t, fee) \in Tx
        /\ SignedBy(t, fee).nonce = acct[t] /\ SignedBy(t, fee).call = call[t]
    BY <1>4, SignedByType DEF Sign
  <2>2. acct[t] <= Len(slots)
    BY <1>4 DEF Sign, MarkInStep, Critical
  <2>3. TypeOK'
    BY <1>4, <2>1 DEF TypeOK, Sign, chain, Stages
  <2>4. HolderOnly' /\ MarkInStep'
    BY <1>4 DEF TypeOK, Sign, chain, HolderOnly, HoldsLock, MarkInStep, Critical
  <2>5. HeldIsSigned' /\ NoGap'
    BY <1>4, <2>1, <2>2 DEF TypeOK, Sign, chain, HeldIsSigned, NoGap
  <2>6. QED BY <2>3, <2>4, <2>5
<1>5. ASSUME NEW t \in Tasks, NEW fee \in Fees, NEW persisted \in BOOLEAN,
             SignFails(t, fee, persisted)
      PROVE  WalletInv'
  <2>1. /\ SignedBy(t, fee) \in Tx
        /\ SignedBy(t, fee).nonce = acct[t] /\ SignedBy(t, fee).call = call[t]
    BY <1>5, SignedByType DEF SignFails
  <2>2. acct[t] <= Len(slots) /\ HoldsLock(t)
    BY <1>5 DEF SignFails, MarkInStep, HolderOnly, Critical
  <2>3. lockQ' \in Seq(Tasks)
    BY <1>5, <2>2, ReleaseKeepsQueue DEF SignFails, Resync, TypeOK
  <2>4. TypeOK'
    BY <1>5, <2>1, <2>3 DEF TypeOK, SignFails, Resync, Fail, chain, Stages
  <2>5. \A u \in Tasks : stage'[u] \notin Critical
    BY <1>5, <2>2 DEF TypeOK, SignFails, Resync, HolderOnly, HoldsLock, Critical
  <2>6. HolderOnly' /\ MarkInStep'
    BY <1>5, <2>4, <2>5 DEF TypeOK, SignFails, Resync, HolderOnly, MarkInStep
  <2>7. HeldIsSigned' /\ NoGap'
    BY <1>5, <2>1, <2>2, <2>5
       DEF TypeOK, SignFails, Resync, chain, HeldIsSigned, NoGap, Critical
  <2>8. QED BY <2>4, <2>6, <2>7
<1>6. ASSUME NEW t \in Tasks, Broadcast(t)
      PROVE  WalletInv'
  <2>1. /\ held[t] \in Tx /\ held[t].nonce = acct[t] /\ HoldsLock(t)
        /\ acct[t] <= Len(slots) /\ nextNonce = acct[t] + 1
    BY <1>6 DEF Broadcast, TypeOK, HeldIsSigned, HolderOnly, MarkInStep, Critical
  <2>2. /\ slots' \in Seq(Tx)
        /\ Len(slots') = IF Accepts(held[t]) THEN Len(slots) + 1 ELSE Len(slots)
    BY <1>6, <2>1, DeliverGrows DEF Broadcast, TypeOK
  <2>3. Len(slots) \in Nat /\ Len(slots') >= Len(slots) /\ nextNonce <= Len(slots')
    BY <2>1, <2>2, LenProperties DEF TypeOK, Accepts
  <2>4. lockQ' \in Seq(Tasks)
    BY <1>6, <2>1, ReleaseKeepsQueue DEF Broadcast, TypeOK
  <2>5. TypeOK'
    BY <1>6, <2>2, <2>3, <2>4, LenProperties DEF TypeOK, Broadcast, Stages
  <2>6. \A u \in Tasks : stage'[u] \notin Critical
    BY <1>6, <2>1 DEF TypeOK, Broadcast, HolderOnly, HoldsLock, Critical
  <2>7. HolderOnly' /\ MarkInStep'
    BY <1>6, <2>3, <2>6 DEF Broadcast, HolderOnly, MarkInStep
  <2>8. HeldIsSigned' /\ NoGap'
    BY <1>6, <2>2, <2>3, <2>6 DEF TypeOK, Broadcast, HeldIsSigned, NoGap, Critical, Tx
  <2>9. QED BY <2>5, <2>7, <2>8
<1>7. ASSUME NEW t \in Tasks, BroadcastRejected(t)
      PROVE  WalletInv'
  <2>1. HoldsLock(t)
    BY <1>7 DEF BroadcastRejected, HolderOnly, Critical
  <2>2. lockQ' \in Seq(Tasks)
    BY <1>7, <2>1, ReleaseKeepsQueue DEF BroadcastRejected, Resync, TypeOK
  <2>3. TypeOK'
    BY <1>7, <2>2 DEF TypeOK, BroadcastRejected, Resync, chain, Stages
  <2>4. \A u \in Tasks : stage'[u] \notin Critical
    BY <1>7, <2>1
       DEF TypeOK, BroadcastRejected, Resync, HolderOnly, HoldsLock, Critical
  <2>5. HolderOnly' /\ MarkInStep'
    BY <1>7, <2>3, <2>4 DEF TypeOK, BroadcastRejected, Resync, HolderOnly, MarkInStep
  <2>6. HeldIsSigned' /\ NoGap'
    BY <1>7, <2>4
       DEF TypeOK, BroadcastRejected, Resync, chain, HeldIsSigned, NoGap, Critical
  <2>7. QED BY <2>3, <2>5, <2>6
<1>8. ASSUME NEW t \in Tasks, NEW landed \in BOOLEAN, BroadcastFails(t, landed)
      PROVE  WalletInv'
  <2>1. held[t] \in Tx /\ HoldsLock(t)
    BY <1>8 DEF BroadcastFails, TypeOK, HeldIsSigned, HolderOnly, Critical
  <2>2. slots' \in Seq(Tx) /\ Len(slots') >= Len(slots)
    BY <1>8, <2>1, DeliverGrows, LenProperties DEF BroadcastFails, TypeOK
  <2>3. lockQ' \in Seq(Tasks)
    BY <1>8, <2>1, ReleaseKeepsQueue DEF BroadcastFails, Resync, TypeOK
  <2>4. TypeOK'
    BY <1>8, <2>2, <2>3, LenProperties DEF TypeOK, BroadcastFails, Resync, Fail, Stages
  <2>5. \A u \in Tasks : stage'[u] \notin Critical
    BY <1>8, <2>1
       DEF TypeOK, BroadcastFails, Resync, HolderOnly, HoldsLock, Critical
  <2>6. HolderOnly' /\ MarkInStep'
    BY <1>8, <2>4, <2>5, LenProperties
       DEF TypeOK, BroadcastFails, Resync, HolderOnly, MarkInStep
  <2>7. HeldIsSigned' /\ NoGap'
    BY <1>8, <2>2, <2>5, LenProperties
       DEF TypeOK, BroadcastFails, Resync, HeldIsSigned, NoGap, Critical, Tx
  <2>8. QED BY <2>4, <2>6, <2>7
<1>9. ASSUME NEW t \in Tasks, Resume(t)
      PROVE  WalletInv'
  <2>1. TypeOK'
    BY <1>9 DEF TypeOK, Resume, chain, Stages
  <2>2. HolderOnly' /\ MarkInStep' /\ HeldIsSigned' /\ NoGap'
    BY <1>9 DEF TypeOK, Resume, chain, HolderOnly, HoldsLock, MarkInStep,
                HeldIsSigned, NoGap, Critical
  <2>3. QED BY <2>1, <2>2
<1>10. ASSUME NEW x \in signed, Rebroadcast(x)
       PROVE  WalletInv'
  <2>1. slots' \in Seq(Tx) /\ Len(slots') >= Len(slots)
    BY <1>10, DeliverGrows, LenProperties DEF Rebroadcast, TypeOK
  <2>2. TypeOK'
    BY <1>10, <2>1, LenProperties DEF TypeOK, Rebroadcast, wallet
  <2>3. HolderOnly' /\ MarkInStep' /\ HeldIsSigned' /\ NoGap'
    BY <1>10, <2>1, LenProperties
       DEF TypeOK, Rebroadcast, wallet, HolderOnly, HoldsLock, MarkInStep,
           HeldIsSigned, NoGap, Tx
  <2>4. QED BY <2>2, <2>3
<1>11. ASSUME NEW o \in {"success", "reverted"}, Mine(o)
       PROVE  WalletInv'
  <2>1. /\ outcome' \in Seq({"success", "reverted"})
        /\ Len(outcome') = Len(outcome) + 1
    BY <1>11, AppendProperties DEF Mine, TypeOK
  <2>2. TypeOK'
    BY <1>11, <2>1, LenProperties DEF TypeOK, Mine, wallet
  <2>3. HolderOnly' /\ MarkInStep' /\ HeldIsSigned' /\ NoGap'
    BY <1>11 DEF TypeOK, Mine, wallet, HolderOnly, HoldsLock, MarkInStep,
                 HeldIsSigned, NoGap
  <2>4. QED BY <2>2, <2>3
<1>12. CASE Crash
  <2>1. TypeOK'
    BY <1>12, EmptySeq DEF TypeOK, Crash, chain, Stages
  <2>2. HolderOnly' /\ MarkInStep' /\ HeldIsSigned' /\ NoGap'
    BY <1>12, LenProperties DEF TypeOK, Crash, chain, HolderOnly, MarkInStep,
                                HeldIsSigned, NoGap, Critical
  <2>3. QED BY <2>1, <2>2
<1>13. CASE UNCHANGED vars
  BY <1>13 DEF vars, wallet, chain, TypeOK, HolderOnly, HoldsLock, MarkInStep,
               HeldIsSigned, NoGap
<1>14. QED
  BY <1>1, <1>2, <1>3, <1>4, <1>5, <1>6, <1>7, <1>8, <1>9, <1>10, <1>11,
     <1>12, <1>13 DEF Next, Proceed

\* The inductive invariant of src/settle.ts's submitter holds throughout.
THEOREM WalletInvariant == Spec => []WalletInv
BY InitInv, StepInv, PTL DEF Spec

\* The wallet's state is well typed throughout.
THEOREM TypeCorrect == Spec => []TypeOK
<1>1. WalletInv => TypeOK
  BY DEF WalletInv
<1>2. QED BY <1>1, WalletInvariant, PTL

\* No account nonce is ever skipped: a failed submission leaves no gap that
\* would keep every later transaction from being mined.
THEOREM NoGapEver == Spec => []NoGap
<1>1. WalletInv => NoGap
  BY DEF WalletInv
<1>2. QED BY <1>1, WalletInvariant, PTL

\* While nothing has failed, what is signed but not accepted is what the holder
\* of the lock is about to send, at the next free nonce.
OnlyHeldUnsent ==
  fails = 0 /\ crashes = 0 =>
    \A x \in signed : x.nonce < Len(slots) \/ \E t \in Tasks : stage[t] = "signed" /\ x = held[t]

\* And the mark is where the node is: outside the lock's critical section it is
\* the next free nonce, inside the holder has that nonce, or its transaction has
\* already been sent by the recovery worker.
MarkExact ==
  fails = 0 /\ crashes = 0 =>
    /\ (\A t \in Tasks : stage[t] \notin Critical) =>
         nextNonce = Len(slots) \/ (nextNonce = -1 /\ Len(slots) = 0)
    /\ \A t \in Tasks : stage[t] = "allocated" => acct[t] = Len(slots)
    /\ \A t \in Tasks : stage[t] = "signed" =>
         \/ acct[t] = Len(slots)
         \/ acct[t] + 1 = Len(slots) /\ slots[acct[t] + 1] = held[t]

QuietInv == OnlyHeldUnsent /\ MarkExact

LEMMA InitQuiet == Init => QuietInv
BY EmptySeq DEF Init, QuietInv, OnlyHeldUnsent, MarkExact, Critical

\* While nothing fails, every step keeps the mark exact.
LEMMA QuietStep == WalletInv /\ QuietInv /\ [Next]_vars => QuietInv'
<1> SUFFICES ASSUME WalletInv, QuietInv, [Next]_vars, fails' = 0 /\ crashes' = 0
             PROVE  QuietInv'
  BY DEF QuietInv, OnlyHeldUnsent, MarkExact
<1> USE DEF WalletInv
<1>0. /\ fails = 0 /\ crashes = 0
      /\ Len(slots) \in Nat /\ Len(slots') \in Nat /\ nextNonce \in Int
  <2>1. TypeOK'
    BY StepInv
  <2>2. fails \in Nat /\ crashes \in Nat /\ fails' \in Nat /\ crashes' \in Nat
    BY <2>1 DEF TypeOK
  <2>3. fails <= fails' /\ crashes <= crashes'
    BY <2>2 DEF Next, Submit, Proceed, Allocate, AllocateFails, Sign, SignFails,
                Broadcast, BroadcastRejected, BroadcastFails, Resume, Rebroadcast,
                Mine, Crash, Fail, vars
  <2>4. fails = 0 /\ crashes = 0
    BY <2>2, <2>3
  <2>5. slots \in Seq(Tx) /\ slots' \in Seq(Tx) /\ nextNonce \in Int
    BY <2>1 DEF TypeOK
  <2>6. Len(slots) \in Nat /\ Len(slots') \in Nat
    BY <2>5, LenProperties
  <2>7. QED BY <2>4, <2>5, <2>6
<1>1. ASSUME NEW t \in Tasks, NEW c \in Calls, Submit(t, c)
      PROVE  QuietInv'
  BY <1>0, <1>1 DEF TypeOK, Submit, chain, QuietInv, OnlyHeldUnsent, MarkExact, Critical
<1>2. ASSUME NEW t \in Tasks, Allocate(t)
      PROVE  QuietInv'
  <2>1. \A u \in Tasks : stage[u] \notin Critical
    BY <1>2 DEF Allocate, HolderOnly, HoldsLock, Critical
  <2>2. nextNonce = Len(slots) \/ (nextNonce = -1 /\ Len(slots) = 0)
    BY <1>0, <2>1 DEF QuietInv, MarkExact
  <2>3. \A pending \in PendingCounts : AllocatedNonce(pending) = Len(slots)
    BY <1>0, <2>2, LenProperties, TxSubmitterAssumption
       DEF PendingCounts, AllocatedNonce, Greater, TypeOK
  <2>4. acct' = [acct EXCEPT ![t] = Len(slots)]
    BY <1>2, <2>3 DEF Allocate
  <2>5. QED
    BY <1>0, <1>2, <2>1, <2>4
       DEF TypeOK, Allocate, chain, QuietInv, OnlyHeldUnsent, MarkExact, Critical
<1>3. ASSUME NEW t \in Tasks, AllocateFails(t) \/ BroadcastRejected(t)
      PROVE  QuietInv'
  <2>1. ~AllocateFails(t)
    BY <1>0 DEF AllocateFails, Fail, TypeOK
  <2>2. stage[t] = "signed" /\ Underpriced(held[t])
    BY <1>3, <2>1 DEF BroadcastRejected
  <2>3. held[t].nonce = acct[t] /\ acct[t] \in Nat
    BY <2>2 DEF HeldIsSigned, TypeOK
  <2>4. acct[t] = Len(slots) \/ slots[acct[t] + 1] = held[t]
    BY <1>0, <2>2 DEF QuietInv, MarkExact
  <2>5. FALSE
    BY <1>0, <2>2, <2>3, <2>4 DEF Underpriced
  <2>6. QED BY <2>5
<1>4. ASSUME NEW t \in Tasks, NEW fee \in Fees, Sign(t, fee)
      PROVE  QuietInv'
  <2>1. acct[t] = Len(slots) /\ \A u \in Tasks : u # t => stage[u] \notin Critical
    BY <1>0, <1>4 DEF Sign, QuietInv, MarkExact, HolderOnly, HoldsLock, Critical
  <2>2. /\ stage' = [stage EXCEPT ![t] = "signed"] /\ held'[t] = SignedBy(t, fee)
        /\ signed' = signed \cup {SignedBy(t, fee)} /\ UNCHANGED <<acct, slots>>
    BY <1>4 DEF Sign, TypeOK, chain
  <2>3. OnlyHeldUnsent'
    <3>1. \A x \in signed : x.nonce < Len(slots)
      BY <1>0, <1>4, <2>1 DEF Sign, QuietInv, OnlyHeldUnsent, Critical
    <3>2. stage'[t] = "signed"
      BY <2>2 DEF TypeOK
    <3>3. QED
      BY <2>2, <3>1, <3>2 DEF OnlyHeldUnsent
  <2>4. MarkExact'
    BY <1>0, <2>1, <2>2 DEF MarkExact, TypeOK, Critical
  <2>5. QED BY <2>3, <2>4 DEF QuietInv
<1>5. ASSUME NEW t \in Tasks, NEW fee \in Fees, NEW persisted \in BOOLEAN,
             SignFails(t, fee, persisted)
      PROVE  QuietInv'
  BY <1>0, <1>5 DEF SignFails, Fail, TypeOK
<1>6. ASSUME NEW t \in Tasks, Broadcast(t)
      PROVE  QuietInv'
  <2>1. /\ held[t] \in Tx /\ held[t].nonce = acct[t] /\ acct[t] \in Nat
        /\ nextNonce = acct[t] + 1
        /\ \A u \in Tasks : u # t => stage[u] \notin Critical
    BY <1>6 DEF Broadcast, TypeOK, HeldIsSigned, HolderOnly, HoldsLock, MarkInStep, Critical
  <2>2. acct[t] = Len(slots) \/ acct[t] + 1 = Len(slots)
    BY <1>0, <1>6 DEF Broadcast, QuietInv, MarkExact
  <2>3. Len(slots') = acct[t] + 1
    BY <1>0, <1>6, <2>1, <2>2, DeliverGrows DEF Broadcast, TypeOK, Accepts
  <2>4. /\ \A u \in Tasks : stage'[u] \notin Critical
        /\ UNCHANGED <<nextNonce, signed>>
    BY <1>6, <2>1 DEF Broadcast, TypeOK, Critical
  <2>5. \A x \in signed : x.nonce < Len(slots')
    <3>1. ASSUME NEW x \in signed, NEW u \in Tasks, stage[u] = "signed", x = held[u]
          PROVE  x.nonce = acct[t]
      BY <2>1, <3>1 DEF Critical
    <3>2. \A x \in signed : x.nonce \in Nat
      BY DEF TypeOK, Tx
    <3>3. QED
      BY <1>0, <2>1, <2>2, <2>3, <3>1, <3>2 DEF QuietInv, OnlyHeldUnsent
  <2>6. QED
    BY <2>1, <2>3, <2>4, <2>5 DEF QuietInv, OnlyHeldUnsent, MarkExact, Critical
<1>7. ASSUME NEW t \in Tasks, NEW landed \in BOOLEAN, BroadcastFails(t, landed)
      PROVE  QuietInv'
  BY <1>0, <1>7 DEF BroadcastFails, Fail, TypeOK
<1>8. ASSUME NEW t \in Tasks, Resume(t)
      PROVE  QuietInv'
  <2>1. /\ stage[t] \notin Critical /\ stage' = [stage EXCEPT ![t] = "idle"]
        /\ \A u \in Tasks : u # t => held'[u] = held[u] /\ acct'[u] = acct[u]
        /\ UNCHANGED <<nextNonce, signed, slots>>
    BY <1>8 DEF Resume, TypeOK, chain, Critical
  <2>2. \A u \in Tasks : stage'[u] \in Critical => u # t /\ stage[u] = stage'[u]
    BY <2>1 DEF TypeOK, Critical
  <2>3. \A u \in Tasks : stage[u] \in Critical => u # t /\ stage[u] = stage'[u]
    BY <2>1 DEF TypeOK, Critical
  <2>4. OnlyHeldUnsent'
    BY <1>0, <2>1, <2>3 DEF QuietInv, OnlyHeldUnsent, Critical
  <2>5. MarkExact'
    BY <1>0, <2>1, <2>2, <2>3 DEF QuietInv, MarkExact, Critical
  <2>6. QED BY <2>4, <2>5 DEF QuietInv
<1>9. ASSUME NEW x \in signed, Rebroadcast(x)
      PROVE  QuietInv'
  <2>1. x \in Tx /\ x.nonce = Len(slots)
    BY <1>9 DEF Rebroadcast, Accepts, TypeOK
  <2>2. PICK t \in Tasks : stage[t] = "signed" /\ x = held[t]
    BY <1>0, <2>1 DEF QuietInv, OnlyHeldUnsent
  <2>3. /\ acct[t] = Len(slots)
        /\ \A u \in Tasks : u # t => stage[u] \notin Critical
    BY <2>1, <2>2 DEF HeldIsSigned, HolderOnly, HoldsLock, Critical
  <2>4. slots' = Append(slots, x) /\ UNCHANGED <<wallet, signed>>
    BY <1>9 DEF Rebroadcast, Deliver
  <2>5. Len(slots') = Len(slots) + 1 /\ slots'[Len(slots) + 1] = x
    BY <2>1, <2>4, AppendProperties DEF TypeOK
  <2>6. OnlyHeldUnsent'
    <3>1. \A y \in signed : y.nonce \in Nat
      BY DEF TypeOK, Tx
    <3>2. \A y \in signed :
            y.nonce < Len(slots) \/ \E u \in Tasks : stage[u] = "signed" /\ y = held[u]
      BY <1>0 DEF QuietInv, OnlyHeldUnsent
    <3>3. QED
      BY <1>0, <2>4, <2>5, <3>1, <3>2 DEF OnlyHeldUnsent, wallet
  <2>7. MarkExact'
    BY <2>2, <2>3, <2>4, <2>5 DEF MarkExact, wallet, Critical
  <2>8. QED BY <2>6, <2>7 DEF QuietInv
<1>10. ASSUME NEW o \in {"success", "reverted"}, Mine(o)
       PROVE  QuietInv'
  BY <1>0, <1>10 DEF Mine, wallet, QuietInv, OnlyHeldUnsent, MarkExact
<1>11. ~Crash
  BY <1>0 DEF Crash, TypeOK
<1>12. CASE UNCHANGED vars
  BY <1>0, <1>12 DEF vars, wallet, chain, QuietInv, OnlyHeldUnsent, MarkExact
<1>13. QED
  BY <1>1, <1>2, <1>3, <1>4, <1>5, <1>6, <1>7, <1>8, <1>9, <1>10, <1>11, <1>12
     DEF Next, Proceed

\* Inside the lock, the next free nonce is handed out, unless an error or a
\* restart has made the wallet forget its mark and the node's count trails.
LEMMA AllocatesFresh ==
  ASSUME WalletInv, QuietInv, NEW t \in Tasks, Allocate(t),
         ~(/\ fails > 0 \/ crashes > 0
           /\ PendingLag > 0 /\ Len(outcome) < Len(slots))
  PROVE  acct'[t] = Len(slots)
<1> USE DEF WalletInv, TypeOK
<1>1. \A u \in Tasks : stage[u] \notin Critical
  BY DEF Allocate, HolderOnly, HoldsLock, Critical
<1>2. nextNonce <= Len(slots)
  BY <1>1 DEF MarkInStep
<1>3. \A pending \in PendingCounts : AllocatedNonce(pending) = Len(slots)
  <2>1. CASE fails = 0 /\ crashes = 0
    <3>1. nextNonce = Len(slots) \/ (nextNonce = -1 /\ Len(slots) = 0)
      BY <1>1, <2>1 DEF QuietInv, MarkExact
    <3>2. QED
      BY <3>1, LenProperties, TxSubmitterAssumption
         DEF PendingCounts, AllocatedNonce, Greater
  <2>2. CASE PendingLag = 0 \/ Len(outcome) = Len(slots)
    <3>1. \A pending \in PendingCounts : pending = Len(slots)
      BY <2>2, LenProperties, TxSubmitterAssumption DEF PendingCounts, Greater
    <3>2. QED
      BY <1>2, <3>1, LenProperties DEF AllocatedNonce, Greater
  <2>3. QED
    BY <2>1, <2>2, LenProperties, TxSubmitterAssumption
<1>4. QED BY <1>3 DEF Allocate

\* While nothing has failed, a transaction is signed for a nonce of its own.
LEMMA SignsFresh ==
  ASSUME WalletInv, QuietInv, fails = 0, crashes = 0,
         NEW t \in Tasks, NEW fee \in Fees, Sign(t, fee)
  PROVE  SignedBy(t, fee) \notin signed
<1> USE DEF WalletInv
<1>1. acct[t] = Len(slots) /\ \A u \in Tasks : u # t => stage[u] \notin Critical
  BY DEF Sign, QuietInv, MarkExact, HolderOnly, HoldsLock, Critical
<1>2. \A x \in signed : x.nonce < Len(slots)
  BY <1>1 DEF Sign, QuietInv, OnlyHeldUnsent, Critical
<1>3. SignedBy(t, fee).nonce = Len(slots) /\ Len(slots) \in Nat
  BY <1>1, LenProperties DEF SignedBy, TypeOK
<1>4. QED BY <1>2, <1>3

\* allocateNonce always hands out the next free nonce, unless an error or a
\* restart has made the wallet forget its mark and the node's count trails.
THEOREM FreshNonceEver == Spec => FreshNonce
<1> DEFINE Fresh == \A t \in Tasks :
             stage[t] = "queued" /\ stage'[t] = "allocated" =>
               \/ acct'[t] = Len(slots)
               \/ /\ fails > 0 \/ crashes > 0
                  /\ PendingLag > 0 /\ Len(outcome) < Len(slots)
<1>1. WalletInv /\ QuietInv /\ [Next]_vars => [Fresh]_vars
  <2> SUFFICES ASSUME WalletInv, QuietInv, Next, NEW t \in Tasks,
                      stage[t] = "queued", stage'[t] = "allocated",
                      ~(/\ fails > 0 \/ crashes > 0
                        /\ PendingLag > 0 /\ Len(outcome) < Len(slots))
               PROVE  acct'[t] = Len(slots)
    OBVIOUS
  <2> USE DEF WalletInv, TypeOK
  <2>1. Allocate(t)
    <3>1. ASSUME NEW u \in Tasks, NEW c \in Calls, Submit(u, c) PROVE FALSE
      BY <3>1 DEF Submit
    <3>2. ASSUME NEW u \in Tasks, Proceed(u) PROVE Allocate(t)
      BY <3>2 DEF Proceed, Allocate, AllocateFails, Sign, SignFails, Broadcast,
                  BroadcastRejected, BroadcastFails, Resync, Resume
    <3>3. ASSUME NEW x \in signed, Rebroadcast(x) PROVE FALSE
      BY <3>3 DEF Rebroadcast, wallet
    <3>4. ASSUME NEW o \in {"success", "reverted"}, Mine(o) PROVE FALSE
      BY <3>4 DEF Mine, wallet
    <3>5. ASSUME Crash PROVE FALSE
      BY <3>5 DEF Crash
    <3>6. QED BY <3>1, <3>2, <3>3, <3>4, <3>5 DEF Next
  <2>2. QED
    BY <2>1, AllocatesFresh
<1>2. QED BY <1>1, WalletInvariant, InitQuiet, InitInv, StepInv, QuietStep, PTL DEF Spec, FreshNonce
=============================================================================
