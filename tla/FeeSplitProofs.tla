--------------------------- MODULE FeeSplitProofs ---------------------------
(* Proofs about the fee split, for any fees, cap and amounts.              *)
EXTENDS FeeSplit, TLAPS

\* What the integer division of calculateFees returns.
LEMMA DivisionBounds ==
  ASSUME NEW n \in Nat, NEW d \in Nat \ {0}
  PROVE  /\ n \div d \in Nat
         /\ d * (n \div d) <= n
         /\ n < d * (n \div d) + d
BY Z3

\* The split of any total above the gas fee.
LEMMA SplitBounds ==
  ASSUME NEW total \in Nat, total > GasFee
  PROVE  /\ Merchant(total) \in Nat
         /\ (10000 + FeeBps) * Merchant(total) <= 10000 * (total - GasFee)
         /\ 10000 * (total - GasFee) < (10000 + FeeBps) * Merchant(total) + (10000 + FeeBps)
<1> DEFINE n == (total - GasFee) * 10000
           d == 10000 + FeeBps
<1>1. n \in Nat /\ d \in Nat \ {0}
  BY FeeAssumption
<1>2. /\ n \div d \in Nat
      /\ d * (n \div d) <= n
      /\ n < d * (n \div d) + d
  BY <1>1, DivisionBounds
<1>3. n = 10000 * (total - GasFee) /\ Merchant(total) = n \div d
  BY FeeAssumption DEF Merchant
<1>4. QED BY <1>2, <1>3

\* Cancelling a positive factor in a strict inequality.
LEMMA LessThanFactor ==
  ASSUME NEW x \in Int, NEW d \in Nat \ {0}, d * x < d
  PROVE  x <= 0
<1>1. SUFFICES ASSUME x >= 1 PROVE d * x >= d
  OBVIOUS
<1>2. QED BY <1>1, Z3

\* Both parts of the split grow with the total.
LEMMA SplitMonotone ==
  ASSUME NEW a \in Nat, NEW b \in Nat, a > GasFee, a <= b
  PROVE  Merchant(a) <= Merchant(b) /\ Service(a) <= Service(b)
<1> DEFINE d == 10000 + FeeBps
           A == a - GasFee
           B == b - GasFee
           m == Merchant(a)
           n == Merchant(b)
<1>1. /\ d \in Nat \ {0} /\ FeeBps \in Nat /\ d = 10000 + FeeBps
      /\ A \in Nat /\ B \in Nat /\ A <= B
  BY FeeAssumption
<1>2. /\ m \in Nat /\ n \in Nat
      /\ d * m <= 10000 * A /\ 10000 * A < d * m + d
      /\ d * n <= 10000 * B /\ 10000 * B < d * n + d
  <2>1. b > GasFee
    BY FeeAssumption
  <2>2. QED BY <2>1, SplitBounds
<1>3. Service(a) = A - m /\ Service(b) = B - n
  BY DEF Service
<1> HIDE DEF d, A, B, m, n
<1>4. m <= n
  <2>1. d * (m - n) = d * m - d * n
    BY <1>1, <1>2, Z3
  <2>2. d * (m - n) < d
    BY <2>1, <1>1, <1>2
  <2>3. m - n <= 0
    BY <2>2, <1>1, <1>2, LessThanFactor
  <2>4. QED BY <2>3, <1>2
<1>5. A - m <= B - n
  <2>1. d * ((A - m) - (B - n)) = (d * A - d * B) - (d * m - d * n)
    BY <1>1, <1>2, Z3
  <2>2. d * A - d * B <= 10000 * A - 10000 * B
    <3>1. d * A - d * B = 10000 * (A - B) + FeeBps * (A - B)
      BY <1>1, Z3
    <3>2. FeeBps * (A - B) <= 0
      BY <1>1, Z3
    <3>3. QED BY <3>1, <3>2, <1>1
  <2>3. d * ((A - m) - (B - n)) < d
    BY <2>1, <2>2, <1>1, <1>2
  <2>4. (A - m) - (B - n) <= 0
    BY <2>3, <1>1, <1>2, LessThanFactor
  <2>5. QED BY <2>4, <1>1, <1>2
<1>6. QED BY <1>3, <1>4, <1>5 DEF m, n

LEMMA SplitInvariant == Spec => []SplitInv
<1>1. Init => SplitInv
  BY FeeAssumption DEF Init, SplitInv, Valid
<1>2. SplitInv /\ [Next]_vars => SplitInv'
  <2> SUFFICES ASSUME SplitInv, [Next]_vars PROVE SplitInv'
    OBVIOUS
  <2>1. CASE UNCHANGED vars
    BY <2>1 DEF SplitInv, Valid, vars, Merchant, Service
  <2>2. CASE VerifyAmount
    <3>1. Verdict(amount, required) = "valid" => amount > GasFee /\ amount <= Cap
      BY FeeAssumption DEF Verdict, SplitInv
    <3>2. QED BY <2>2, <3>1 DEF SplitInv, VerifyAmount, Valid, Merchant, Service
  <2>3. QED BY <2>1, <2>2 DEF Next
<1>3. QED BY <1>1, <1>2, PTL DEF Spec

LEMMA SplitGivesFeeRate == SplitInv => FeeRate
<1> SUFFICES ASSUME SplitInv, Valid PROVE FeeRate!2
  BY DEF FeeRate
<1> DEFINE m == merchantAmount
           A == amount - GasFee
<1>1. /\ m \in Nat /\ A \in Nat /\ FeeBps \in Nat
      /\ (10000 + FeeBps) * m <= 10000 * A
      /\ 10000 * A < (10000 + FeeBps) * m + (10000 + FeeBps)
      /\ serviceFee = A - m
  BY SplitBounds, FeeAssumption DEF SplitInv, Service
<1>2. /\ GasFee \in Nat /\ amount \in Nat /\ amount <= Cap /\ Cap \in Nat
  BY FeeAssumption DEF SplitInv
<1> HIDE DEF m, A
<1>3. (10000 + FeeBps) * m = 10000 * m + FeeBps * m
  BY <1>1, Z3
<1>4. FeeBps * m \in Nat
  BY <1>1, Z3
<1>5. /\ m >= 0 /\ serviceFee >= 0
      /\ serviceFee * 10000 >= m * FeeBps
      /\ serviceFee * 10000 - m * FeeBps < 10000 + FeeBps
  <2>1. m * FeeBps = FeeBps * m
    BY <1>1, Z3
  <2>2. QED BY <1>1, <1>3, <1>4, <2>1
<1>6. GasFee + m + serviceFee = amount /\ amount <= Cap
  BY <1>1, <1>2 DEF A
<1>7. QED BY <1>5, <1>6 DEF m

\* The service fee of a settled payment is the advertised rate rounded up, nobody
\* is left a negative part, and the parts and the gas fee add up to the payment.
THEOREM FeeRateEver == Spec => []FeeRate
BY SplitInvariant, SplitGivesFeeRate, PTL

\* A larger payment never pays anyone less.
THEOREM MonotoneEver == Spec => []Monotone
<1>1. SplitInv => Monotone
  <2> SUFFICES ASSUME SplitInv, Valid, NEW less \in GasFee .. amount
               PROVE  Merchant(less) <= merchantAmount /\ Service(less) <= serviceFee
    BY DEF Monotone
  <2>1. less \in Nat /\ less <= amount /\ amount \in Nat
    BY FeeAssumption DEF SplitInv
  <2>2. CASE less > GasFee
    BY <2>1, <2>2, SplitMonotone DEF SplitInv
  <2>3. CASE less = GasFee
    <3>1. Merchant(less) = 0 /\ Service(less) = 0
      BY <2>3, FeeAssumption DEF Merchant, Service
    <3>2. merchantAmount >= 0 /\ serviceFee >= 0
      BY SplitGivesFeeRate DEF FeeRate
    <3>3. QED BY <3>1, <3>2
  <2>4. QED BY <2>1, <2>2, <2>3, FeeAssumption
<1>2. QED BY <1>1, SplitInvariant, PTL

\* The rate is at most 500, so only one unit above the gas fee is too little to
\* leave the merchant anything.
THEOREM NothingOnlyAtOneUnitEver == Spec => []NothingOnlyAtOneUnit
<1>1. SplitInv => NothingOnlyAtOneUnit
  <2> SUFFICES ASSUME SplitInv, Valid, merchantAmount = 0
               PROVE  amount = GasFee + 1
    BY DEF NothingOnlyAtOneUnit
  <2>1. /\ amount \in Nat /\ amount > GasFee
        /\ Merchant(amount) = 0
    BY DEF SplitInv
  <2>2. 10000 * (amount - GasFee) < 10000 + FeeBps
    <3>1. (10000 + FeeBps) * Merchant(amount) = 0
      BY <2>1, FeeAssumption
    <3>2. QED BY <2>1, <3>1, SplitBounds, FeeAssumption
  <2>3. QED BY <2>1, <2>2, FeeAssumption
<1>2. QED BY <1>1, SplitInvariant, PTL
=============================================================================
