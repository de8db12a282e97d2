------------------------------ MODULE FeeSplit ------------------------------
(***************************************************************************)
(* The amounts of a payment (src/verify.ts): which totals verifyPayment    *)
(* lets through, and how calculateFees splits one between the merchant and *)
(* the facilitator.  Amounts are BigInts in the token's base units.        *)
(***************************************************************************)
EXTENDS Integers

CONSTANTS
  GasFee,      \* GAS_FEE_USDC
  FeeBps,      \* SERVICE_FEE_BPS, capped at 500 by src/config.ts
  Cap,         \* MAX_SETTLEMENT_AMOUNT
  MaxAmount    \* bound: amounts offered and required

VARIABLES amount, required, verdict, merchantAmount, serviceFee

vars == <<amount, required, verdict, merchantAmount, serviceFee>>

ASSUME FeeAssumption ==
  /\ GasFee \in Nat
  /\ FeeBps \in 0 .. 500
  /\ Cap \in Nat
  /\ MaxAmount \in Nat

Merchant(total) == ((total - GasFee) * 10000) \div (10000 + FeeBps)
Service(total) == (total - GasFee) - Merchant(total)

\* Mutants: the gas fee check dropped, or off by one.
VerdictWithoutGas(a, r) ==
  IF a > 0 /\ a >= r /\ a <= Cap THEN "valid" ELSE "refused"

VerdictAtGas(a, r) ==
  IF a > 0 /\ a >= r /\ a >= GasFee /\ a <= Cap THEN "valid" ELSE "refused"

\* The amount checks of verifyPayment, in their order.
Verdict(a, r) ==
  CASE a <= 0 -> "amount must be positive"
    [] a > 0 /\ a < r -> "insufficient amount"
    [] a > 0 /\ a >= r /\ a <= GasFee -> "amount must exceed the gas fee"
    [] a > 0 /\ a >= r /\ a > GasFee /\ a > Cap -> "exceeds max settlement"
    [] OTHER -> "valid"

Init ==
  /\ amount \in 0 .. MaxAmount /\ required \in 0 .. MaxAmount
  /\ verdict = "none" /\ merchantAmount = 0 /\ serviceFee = 0

\* Mutant: splits the required amount, not the authorized one.
VerifyRequired ==
  /\ verdict = "none"
  /\ verdict' = Verdict(amount, required)
  /\ IF verdict' = "valid"
     THEN merchantAmount' = Merchant(required) /\ serviceFee' = Service(required)
     ELSE UNCHANGED <<merchantAmount, serviceFee>>
  /\ UNCHANGED <<amount, required>>

\* Fees are computed for valid payments only.
VerifyAmount ==
  /\ verdict = "none"
  /\ verdict' = Verdict(amount, required)
  /\ IF verdict' = "valid"
     THEN merchantAmount' = Merchant(amount) /\ serviceFee' = Service(amount)
     ELSE UNCHANGED <<merchantAmount, serviceFee>>
  /\ UNCHANGED <<amount, required>>

Next == VerifyAmount

Spec == Init /\ [][Next]_vars

-----------------------------------------------------------------------------
(* Properties.                                                             *)

Valid == verdict = "valid"

\* The service fee of a settled payment is feeBps of what the merchant gets,
\* rounded in the facilitator's favour by less than one unit; neither part is
\* negative; and with the gas fee they add up to the payment, to the unit, which
\* is never above the cap: nothing is paid out that was not received.
FeeRate ==
  Valid =>
    /\ merchantAmount >= 0 /\ serviceFee >= 0
    /\ serviceFee * 10000 >= merchantAmount * FeeBps
    /\ serviceFee * 10000 - merchantAmount * FeeBps < 10000 + FeeBps
    /\ GasFee + merchantAmount + serviceFee = amount /\ amount <= Cap

\* What a verdict of "valid" rests on: the inductive form of the properties.
SplitInv ==
  /\ amount \in Nat /\ required \in Nat
  /\ Valid => /\ amount > GasFee /\ amount <= Cap
              /\ merchantAmount = Merchant(amount)
              /\ serviceFee = Service(amount)

\* Paying more never leaves the merchant, or the facilitator, with less.
Monotone ==
  Valid => \A less \in GasFee .. amount :
    Merchant(less) <= merchantAmount /\ Service(less) <= serviceFee

\* The one payment that passes and leaves its merchant nothing is one unit
\* above the gas fee.
NothingOnlyAtOneUnit == Valid /\ merchantAmount = 0 => amount = GasFee + 1
=============================================================================
