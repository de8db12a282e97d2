---------------------------- MODULE IntakeProofs ----------------------------
(* Intake's invariants hold whatever the requests, nonces, merchants,       *)
(* amounts and deadlines.  IntakeInv is inductive: what a request carries   *)
(* does not change once it arrived, and registerNonce looks at the claimed  *)
(* nonces and claims one in a single step.                                  *)
EXTENDS Intake, TLAPS

\* With empty tables and no request arrived the invariant holds.
LEMMA InitInv == Init => IntakeInv
<1> SUFFICES ASSUME Init PROVE IntakeInv
  OBVIOUS
<1> USE DEF Init
<1>1. TypeOK /\ OneClaim /\ ClaimIsGenuine /\ PaymentWasQuoted /\ PrunedOnlyDead /\ ChecksHold
  BY IntakeAssumption
  DEF TypeOK, OneClaim, ClaimIsGenuine, PaymentWasQuoted, PrunedOnlyDead, ChecksHold, Steps
<1>2. SpellingsAgree /\ StillEnabled /\ TurnedAwayIfSwitched
  BY DEF SpellingsAgree, StillEnabled, TurnedAwayIfSwitched, UnderWay
<1> QED BY <1>1, <1>2 DEF IntakeInv

\* What a request still uses it keeps.
LEMMA ForgetKeeps ==
  ASSUME TypeOK, Forget
  PROVE  /\ body' \in [Requests -> Body \cup {NoBody}]
         /\ \A r \in Requests : pc'[r] # "refused" \/ r \in claims => body'[r] = body[r]
BY DEF Forget, TypeOK

\* A step that only moves requests along keeps the invariant when what their new
\* places promise holds.
LEMMA StepInv ==
  ASSUME IntakeInv, Forget, pc' \in [Requests -> Steps],
         UNCHANGED <<now, issued, quotes, management, payments, claims>>,
         \A s \in Requests : pc'[s] # pc[s] =>
           /\ pc'[s] # "refused" => pc[s] \notin {"none", "refused"}
           /\ pc'[s] \in {"bound", "verified"} => Quoted(body[s])
           /\ pc'[s] = "verified" => Acceptable(body[s])
           /\ pc'[s] \in {"claimed", "checked", "settling"} => s \in claims
           /\ s \in claims =>
                pc'[s] \in {"claimed", "checked", "settling", "disabled", "refused"}
           /\ pc'[s] \in UnderWay => pc[s] \in UnderWay
           /\ pc'[s] = "disabled" =>
                s \in switched \/ Address[body[s].merchant] \in split
  PROVE  IntakeInv'
<1> USE DEF IntakeInv
<1>0. UNCHANGED <<merchants, changes, switched, split>>
  BY DEF management
<1>1. /\ body' \in [Requests -> Body \cup {NoBody}]
      /\ \A r \in Requests : pc'[r] # "refused" \/ r \in claims => body'[r] = body[r]
  BY ForgetKeeps
<1>2. TypeOK'
  BY <1>0, <1>1 DEF TypeOK
<1>3. OneClaim'
  BY <1>1 DEF OneClaim, TypeOK
<1>4. ClaimIsGenuine' /\ PaymentWasQuoted' /\ PrunedOnlyDead'
  BY DEF ClaimIsGenuine, PaymentWasQuoted, PrunedOnlyDead, Quoted, Acceptable, Matches, Alike
<1>5. ChecksHold'
  <2>1. ASSUME NEW r \in Requests, pc'[r] \in {"bound", "verified"}
        PROVE  Quoted(body[r])' /\ (pc'[r] = "verified" => Acceptable(body[r])')
    <3>1. body'[r] = body[r]
      BY <2>1, <1>1
    <3>2. Quoted(body[r]) /\ (pc'[r] = "verified" => Acceptable(body[r]))
      BY <2>1 DEF ChecksHold
    <3> QED BY <3>1, <3>2 DEF Quoted, Acceptable, Matches, Alike
  <2>2. ASSUME NEW r \in claims
        PROVE  /\ body'[r] \in payments
               /\ pc'[r] \in {"claimed", "checked", "settling", "disabled", "refused"}
    BY <1>1 DEF ChecksHold, TypeOK
  <2> QED BY <2>1, <2>2 DEF ChecksHold
<1>6. SpellingsAgree'
  BY <1>0 DEF SpellingsAgree
<1>7. StillEnabled'
  BY <1>0, <1>1 DEF StillEnabled, UnderWay, Alike
<1>8. TurnedAwayIfSwitched'
  BY <1>0, <1>1 DEF TurnedAwayIfSwitched
<1> QED BY <1>2, <1>3, <1>4, <1>5, <1>6, <1>7, <1>8

\* Changing requirements, or the clock, touches nothing that a request carries.
LEMMA TablesInv ==
  ASSUME IntakeInv, UNCHANGED <<management, payments, pc, body, claims>>,
         quotes \subseteq quotes', issued' \subseteq quotes', quotes' \subseteq Quote,
         now' \in 0 .. MaxTime, PrunedOnlyDead'
  PROVE  IntakeInv'
<1> USE DEF IntakeInv, management
<1>1. TypeOK'
  BY DEF TypeOK
<1>2. OneClaim' /\ ClaimIsGenuine'
  BY DEF OneClaim, ClaimIsGenuine, Acceptable
<1>3. PaymentWasQuoted' /\ ChecksHold'
  BY DEF PaymentWasQuoted, ChecksHold, Quoted, Acceptable, Matches, Alike
<1>4. SpellingsAgree' /\ StillEnabled' /\ TurnedAwayIfSwitched'
  BY DEF SpellingsAgree, StillEnabled, TurnedAwayIfSwitched, UnderWay, Alike
<1> QED BY <1>1, <1>2, <1>3, <1>4

\* A change of the merchants table is seen by its own three parts alone.
LEMMA ManagementInv ==
  ASSUME IntakeInv, UNCHANGED <<now, issued, quotes, payments, pc, body, claims>>,
         merchants' \in [Merchants -> {"enabled", "disabled", "absent"}],
         changes' \in Nat, switched' \subseteq Requests,
         switched \subseteq switched', split \subseteq split',
         SpellingsAgree', StillEnabled'
  PROVE  IntakeInv'
<1> USE DEF IntakeInv
<1>1. TypeOK'
  BY DEF TypeOK
<1>2. OneClaim' /\ ClaimIsGenuine' /\ PaymentWasQuoted' /\ PrunedOnlyDead' /\ ChecksHold'
  BY DEF OneClaim, ClaimIsGenuine, PaymentWasQuoted, PrunedOnlyDead, ChecksHold,
     Quoted, Acceptable, Matches, Alike
<1>3. TurnedAwayIfSwitched'
  BY DEF TurnedAwayIfSwitched
<1> QED BY <1>1, <1>2, <1>3

\* Whichever row of its address an enabled or disabled row is found by, it is
\* there; setMerchantEnabled and deleteMerchant treat all of them alike.
LEMMA MatchingRows ==
  ASSUME NEW m \in Merchants
  PROVE  /\ m \in Alike(m) /\ Alike(m) \subseteq Merchants
         /\ Matching(m) = {n \in Alike(m) : merchants[n] # "absent"}
         /\ \A n \in Merchants : n \in Alike(m) <=> Address[n] = Address[m]
BY DEF Alike, Matching

\* Every operation on the tables, every step of a request, a restart and the
\* passing of time keep the invariant.
LEMMA NextInv == IntakeInv /\ [Next]_vars => IntakeInv'
<1> SUFFICES ASSUME IntakeInv, [Next]_vars PROVE IntakeInv'
  OBVIOUS
<1> USE DEF IntakeInv
<1>1. ASSUME NEW n \in Nonces, NEW a \in Amounts, NEW m \in Merchants \cup {NoMerchant},
             HandleRequirements(n, a, m)
      PROVE  IntakeInv'
  <2> DEFINE q == [nonce |-> n, amount |-> a, deadline |-> now + Window, merchant |-> m]
  <2>1. /\ issued' = issued \cup {q} /\ quotes' = quotes \cup {q}
        /\ UNCHANGED <<now, management, payments, pc, body, claims>>
    BY <1>1 DEF HandleRequirements
  <2>2. q \in Quote
    BY IntakeAssumption DEF Quote, Times, TypeOK
  <2> HIDE DEF q
  <2>3. PrunedOnlyDead'
    BY <2>1 DEF PrunedOnlyDead
  <2>4. /\ quotes \subseteq quotes' /\ issued' \subseteq quotes' /\ quotes' \subseteq Quote
        /\ now' \in 0 .. MaxTime
    BY <2>1, <2>2 DEF TypeOK
  <2> QED BY <2>1, <2>3, <2>4, TablesInv
<1>2. ASSUME PruneExpiredIssued PROVE IntakeInv'
  <2>1. /\ issued' = {q \in issued : q.deadline >= now}
        /\ UNCHANGED <<now, quotes, management, payments, pc, body, claims>>
    BY <1>2 DEF PruneExpiredIssued
  <2>2. PrunedOnlyDead'
    BY <2>1, IntakeAssumption DEF PrunedOnlyDead, TypeOK, Quote, Times
  <2>3. /\ quotes \subseteq quotes' /\ issued' \subseteq quotes' /\ quotes' \subseteq Quote
        /\ now' \in 0 .. MaxTime
    BY <2>1 DEF TypeOK
  <2> QED BY <2>1, <2>2, <2>3, TablesInv
<1>3. ASSUME NEW m \in Merchants, AddMerchant(m) PROVE IntakeInv'
  <2>1. /\ merchants[m] = "absent" /\ merchants' = [merchants EXCEPT ![m] = "enabled"]
        /\ split' = IF \E n \in Alike(m) : merchants[n] = "disabled"
                    THEN split \cup {Address[m]} ELSE split
        /\ changes' = changes + 1
        /\ UNCHANGED <<now, issued, quotes, switched, payments, pc, body, claims>>
    BY <1>3 DEF AddMerchant, Change
  <2>2. /\ merchants' \in [Merchants -> {"enabled", "disabled", "absent"}]
        /\ changes' \in Nat /\ split \subseteq split'
        /\ switched' = switched /\ switched \subseteq Requests
    BY <2>1 DEF TypeOK
  <2>3. SpellingsAgree'
    <3> SUFFICES ASSUME NEW x \in Merchants, NEW y \in Merchants, Address[x] = Address[y],
                        merchants'[x] = "enabled", merchants'[y] = "disabled"
                 PROVE  Address[x] \in split'
      BY DEF SpellingsAgree
    <3>1. y # m /\ merchants[y] = "disabled"
      BY <2>1 DEF TypeOK
    <3>2. CASE x = m
      <4>1. y \in Alike(m)
        BY <3>2, MatchingRows
      <4> QED BY <4>1, <3>1, <3>2, <2>1
    <3>3. CASE x # m
      <4>1. merchants[x] = "enabled"
        BY <3>3, <2>1 DEF TypeOK
      <4> QED BY <4>1, <3>1, <2>2 DEF SpellingsAgree
    <3> QED BY <3>2, <3>3
  <2>4. StillEnabled'
    <3> SUFFICES ASSUME NEW r \in Requests, pc[r] \in UnderWay, r \notin switched,
                        Address[body[r].merchant] \notin split',
                        NEW x \in Alike(body[r].merchant)
                 PROVE  merchants'[x] # "disabled"
      BY <2>1 DEF StillEnabled, UnderWay, Alike
    <3>1. merchants[x] # "disabled"
      BY <2>2 DEF StillEnabled
    <3>2. x \in Merchants
      BY DEF Alike
    <3> QED BY <3>1, <3>2, <2>1 DEF TypeOK
  <2> QED BY <2>1, <2>2, <2>3, <2>4, ManagementInv
<1>4. ASSUME NEW m \in Merchants, NEW state \in {"enabled", "disabled"},
             SetMerchantEnabled(m, state)
      PROVE  IntakeInv'
  <2>1. /\ merchants' = [n \in Merchants |-> IF n \in Matching(m) THEN state ELSE merchants[n]]
        /\ switched' = IF state = "enabled" THEN switched ELSE switched \cup
             {r \in Requests : pc[r] \in UnderWay /\ body[r].merchant \in Alike(m)}
        /\ changes' = changes + 1
        /\ UNCHANGED <<now, issued, quotes, split, payments, pc, body, claims>>
    BY <1>4 DEF SetMerchantEnabled, Change
  <2>2. /\ merchants' \in [Merchants -> {"enabled", "disabled", "absent"}]
        /\ changes' \in Nat /\ split' = split
        /\ switched \subseteq switched' /\ switched' \subseteq Requests
    BY <2>1 DEF TypeOK
  <2>3. SpellingsAgree'
    <3> SUFFICES ASSUME NEW x \in Merchants, NEW y \in Merchants, Address[x] = Address[y],
                        merchants'[x] = "enabled", merchants'[y] = "disabled"
                 PROVE  Address[x] \in split
      BY <2>2 DEF SpellingsAgree
    <3>1. x \in Alike(m) <=> y \in Alike(m)
      BY MatchingRows
    <3>2. CASE x \in Alike(m)
      <4>1. x \in Matching(m) /\ y \in Matching(m)
        BY <3>1, <3>2, <2>1, MatchingRows
      <4> QED BY <4>1, <2>1
    <3>3. CASE x \notin Alike(m)
      <4>1. merchants[x] = "enabled" /\ merchants[y] = "disabled"
        BY <3>1, <3>3, <2>1, MatchingRows
      <4> QED BY <4>1 DEF SpellingsAgree
    <3> QED BY <3>2, <3>3
  <2>4. StillEnabled'
    <3> SUFFICES ASSUME NEW r \in Requests, pc[r] \in UnderWay, r \notin switched',
                        Address[body[r].merchant] \notin split,
                        NEW x \in Alike(body[r].merchant)
                 PROVE  merchants'[x] # "disabled"
      BY <2>1 DEF StillEnabled, UnderWay, Alike
    <3>1. merchants[x] # "disabled" /\ x \in Merchants
      BY <2>2 DEF StillEnabled, Alike
    <3>2. CASE state = "enabled"
      BY <3>1, <3>2, <2>1
    <3>3. CASE state = "disabled"
      <4>1. body[r].merchant \notin Alike(m) /\ body[r].merchant \in Merchants
        BY <3>3, <2>1 DEF TypeOK, UnderWay, Body
      <4>2. x \notin Alike(m)
        BY <4>1, MatchingRows DEF Alike
      <4> QED BY <4>2, <3>1, <2>1, MatchingRows
    <3> QED BY <3>2, <3>3
  <2> QED BY <2>1, <2>2, <2>3, <2>4, ManagementInv
<1>5. ASSUME NEW m \in Merchants, DeleteMerchant(m) PROVE IntakeInv'
  <2>1. /\ merchants' = [n \in Merchants |-> IF n \in Matching(m) THEN "absent" ELSE merchants[n]]
        /\ changes' = changes + 1
        /\ UNCHANGED <<now, issued, quotes, switched, split, payments, pc, body, claims>>
    BY <1>5 DEF DeleteMerchant, Change
  <2>2. /\ merchants' \in [Merchants -> {"enabled", "disabled", "absent"}]
        /\ changes' \in Nat
        /\ switched' = switched /\ split' = split /\ switched \subseteq Requests
    BY <2>1 DEF TypeOK
  <2>3. \A n \in Merchants : merchants'[n] # "absent" => merchants'[n] = merchants[n]
    BY <2>1
  <2>4. SpellingsAgree'
    BY <2>2, <2>3 DEF SpellingsAgree
  <2>5. StillEnabled'
    BY <2>1, <2>3 DEF StillEnabled, UnderWay, Alike
  <2> QED BY <2>1, <2>2, <2>4, <2>5, ManagementInv
<1>6. ASSUME NEW r \in Requests, NEW b \in Body, Authenticate(r, b) PROVE IntakeInv'
  <2>1. /\ pc[r] = "none"
        /\ UNCHANGED <<now, issued, quotes, merchants, changes, switched, split, payments, claims>>
    BY <1>6 DEF Authenticate, management
  <2>2. r \notin claims
    BY <2>1 DEF ChecksHold
  <2>3. \/ /\ merchants[b.merchant] = "enabled"
           /\ pc' = [pc EXCEPT ![r] = "authenticated"] /\ body' = [body EXCEPT ![r] = b]
        \/ pc' = [pc EXCEPT ![r] = "refused"] /\ body' = body
    BY <1>6 DEF Authenticate, Step
  <2>4. TypeOK'
    BY <2>1, <2>3 DEF TypeOK, Steps
  <2>5. OneClaim'
    BY <2>1, <2>2, <2>3 DEF OneClaim, TypeOK
  <2>6. ChecksHold'
    <3>1. \A s \in Requests : s # r => pc'[s] = pc[s] /\ body'[s] = body[s]
      BY <2>3 DEF TypeOK
    <3>2. pc'[r] \in {"authenticated", "refused"}
      BY <2>3 DEF TypeOK
    <3> QED BY <3>1, <3>2, <2>1, <2>2 DEF ChecksHold, TypeOK, Quoted, Acceptable, Matches, Alike
  <2>7. ClaimIsGenuine' /\ PaymentWasQuoted' /\ PrunedOnlyDead'
    BY <2>1 DEF ClaimIsGenuine, PaymentWasQuoted, PrunedOnlyDead, Quoted, Acceptable,
       Matches, Alike
  <2>8. SpellingsAgree'
    BY <2>1 DEF SpellingsAgree
  <2>9. StillEnabled'
    <3> SUFFICES ASSUME NEW s \in Requests, pc'[s] \in UnderWay, s \notin switched,
                        Address[body'[s].merchant] \notin split,
                        NEW x \in Alike(body'[s].merchant)
                 PROVE  merchants[x] # "disabled"
      BY <2>1 DEF StillEnabled, UnderWay, Alike
    <3>1. CASE s # r
      <4>1. pc'[s] = pc[s] /\ body'[s] = body[s]
        BY <3>1, <2>3 DEF TypeOK
      <4> QED BY <4>1 DEF StillEnabled
    <3>2. CASE s = r
      <4>1. merchants[b.merchant] = "enabled" /\ body'[s] = b
        BY <3>2, <2>3 DEF TypeOK, UnderWay
      <4>2. x \in Merchants /\ b.merchant \in Merchants /\ Address[x] = Address[b.merchant]
        BY <4>1 DEF Alike, Body
      <4> QED BY <4>1, <4>2 DEF SpellingsAgree
    <3> QED BY <3>1, <3>2
  <2>10. TurnedAwayIfSwitched'
    BY <2>1, <2>3 DEF TurnedAwayIfSwitched, TypeOK
  <2> QED BY <2>4, <2>5, <2>6, <2>7, <2>8, <2>9, <2>10
<1>7. ASSUME NEW r \in Requests, CheckIssuedBinding(r) PROVE IntakeInv'
  <2>1. /\ pc[r] = "authenticated" /\ Forget
        /\ pc' = [pc EXCEPT ![r] = IF Bound(body[r]) THEN "bound" ELSE "refused"]
        /\ UNCHANGED <<now, issued, quotes, management, payments, claims>>
    BY <1>7 DEF CheckIssuedBinding, Check, Step
  <2>2. Bound(body[r]) => Quoted(body[r])
    BY DEF Bound, Quoted, TypeOK
  <2>3. pc' \in [Requests -> Steps]
    BY <2>1 DEF TypeOK, Steps
  <2>4. r \notin claims
    BY <2>1 DEF ChecksHold
  <2> QED BY <2>1, <2>2, <2>3, <2>4, StepInv DEF TypeOK, UnderWay
<1>8. ASSUME NEW r \in Requests, VerifyPayment(r) PROVE IntakeInv'
  <2>1. /\ pc[r] = "bound" /\ Forget
        /\ pc' = [pc EXCEPT ![r] = IF Valid(body[r]) THEN "verified" ELSE "refused"]
        /\ UNCHANGED <<now, issued, quotes, management, payments, claims>>
    BY <1>8 DEF VerifyPayment, Check, Step
  <2>2. Quoted(body[r]) /\ (Valid(body[r]) => Acceptable(body[r]))
    BY <2>1 DEF Valid, Acceptable, ChecksHold
  <2>3. pc' \in [Requests -> Steps]
    BY <2>1 DEF TypeOK, Steps
  <2>4. r \notin claims
    BY <2>1 DEF ChecksHold
  <2> QED BY <2>1, <2>2, <2>3, <2>4, StepInv DEF TypeOK, UnderWay
<1>9. ASSUME NEW r \in Requests, RegisterNonce(r) PROVE IntakeInv'
  <2>1. /\ pc[r] = "verified" /\ body[r] \in Body /\ Forget
        /\ UNCHANGED <<now, issued, quotes, management>>
    BY <1>9 DEF RegisterNonce, Claim, TypeOK
  <2>2. r \notin claims
    BY <2>1 DEF ChecksHold
  <2>3. CASE Paid(body[r].nonce)
    <3>1. pc' = [pc EXCEPT ![r] = "refused"] /\ UNCHANGED <<payments, claims>>
      BY <1>9, <2>3 DEF RegisterNonce, Claim
    <3>2. pc' \in [Requests -> Steps]
      BY <3>1 DEF TypeOK, Steps
    <3> QED BY <2>1, <2>2, <3>1, <3>2, StepInv DEF TypeOK, UnderWay
  <2>4. CASE ~Paid(body[r].nonce)
    <3>1. /\ pc' = [pc EXCEPT ![r] = "claimed"]
          /\ payments' = payments \cup {body[r]} /\ claims' = claims \cup {r}
      BY <1>9, <2>4 DEF RegisterNonce, Claim
    <3>2. \A s \in claims : body[s].nonce # body[r].nonce
      BY <2>4 DEF Paid, ChecksHold
    <3>3. Acceptable(body[r]) /\ Quoted(body[r])
      BY <2>1 DEF ChecksHold
    <3>4. /\ body' \in [Requests -> Body \cup {NoBody}]
          /\ \A s \in Requests : pc'[s] # "refused" \/ s \in claims => body'[s] = body[s]
      BY <2>1, ForgetKeeps
    <3>5. body'[r] = body[r] /\ pc'[r] = "claimed"
      BY <3>1, <3>4 DEF TypeOK
    <3>6. UNCHANGED <<merchants, changes, switched, split>>
      BY <2>1 DEF management
    <3>7. TypeOK'
      BY <2>1, <3>1, <3>4, <3>6 DEF TypeOK, Steps
    <3>8. PrunedOnlyDead' /\ SpellingsAgree'
      BY <2>1, <3>6 DEF PrunedOnlyDead, SpellingsAgree
    <3>9. OneClaim'
      BY <2>1, <3>1, <3>2, <3>4, <3>5 DEF OneClaim, TypeOK
    <3>10. ClaimIsGenuine' /\ PaymentWasQuoted'
      BY <2>1, <3>1, <3>3 DEF ClaimIsGenuine, PaymentWasQuoted, Quoted, Acceptable,
         Matches, Alike
    <3>11. ChecksHold'
      BY <2>1, <3>1, <3>4, <3>5 DEF ChecksHold, TypeOK, Quoted, Acceptable, Matches, Alike
    <3>12. StillEnabled'
      BY <2>1, <3>1, <3>4, <3>6 DEF StillEnabled, UnderWay, TypeOK, Alike
    <3>13. TurnedAwayIfSwitched'
      BY <2>1, <3>1, <3>4, <3>6 DEF TurnedAwayIfSwitched, TypeOK
    <3> QED BY <3>7, <3>8, <3>9, <3>10, <3>11, <3>12, <3>13
  <2> QED BY <2>3, <2>4
<1>10. ASSUME NEW r \in Requests, CheckMerchant(r) PROVE IntakeInv'
  <2>1. /\ pc[r] = "claimed" /\ body[r] \in Body
        /\ UNCHANGED <<now, issued, quotes, management, payments, body, claims>>
    BY <1>10 DEF CheckMerchant, TypeOK
  <2>2. r \in claims
    BY <2>1 DEF OneClaim
  <2>3. PICK enabled \in BOOLEAN :
          /\ \/ enabled /\ Matching(body[r].merchant) = {}
             \/ \E m \in Matching(body[r].merchant) : enabled = (merchants[m] = "enabled")
          /\ pc' = [pc EXCEPT ![r] = IF enabled THEN "checked" ELSE "disabled"]
    BY <1>10 DEF CheckMerchant
  <2>4. ~enabled => r \in switched \/ Address[body[r].merchant] \in split
    <3> SUFFICES ASSUME ~enabled, r \notin switched, Address[body[r].merchant] \notin split
                 PROVE  FALSE
      OBVIOUS
    <3>1. PICK m \in Matching(body[r].merchant) : merchants[m] # "enabled"
      BY <2>3
    <3>2. m \in Alike(body[r].merchant) /\ merchants[m] # "absent" /\ m \in Merchants
      BY <2>1 DEF Matching, Alike, Body
    <3>3. merchants[m] # "disabled"
      BY <2>1, <3>2 DEF StillEnabled, UnderWay
    <3> QED BY <3>1, <3>2, <3>3 DEF TypeOK
  <2>5. pc' \in [Requests -> Steps] /\ pc'[r] \in {"checked", "disabled"}
    BY <2>3 DEF TypeOK, Steps
  <2>6. UNCHANGED <<merchants, changes, switched, split>>
    BY <2>1 DEF management
  <2>7. TypeOK'
    BY <2>1, <2>3, <2>5, <2>6 DEF TypeOK
  <2>8. OneClaim' /\ SpellingsAgree' /\ PrunedOnlyDead' /\ ClaimIsGenuine' /\ PaymentWasQuoted'
    BY <2>1, <2>2, <2>3, <2>6 DEF OneClaim, SpellingsAgree, PrunedOnlyDead, ClaimIsGenuine,
       PaymentWasQuoted, Quoted, Acceptable, Matches, Alike, TypeOK
  <2>9. ChecksHold'
    BY <2>1, <2>3 DEF ChecksHold, TypeOK, Quoted, Acceptable, Matches, Alike
  <2>10. StillEnabled'
    BY <2>1, <2>3, <2>6 DEF StillEnabled, UnderWay, TypeOK, Alike
  <2>11. TurnedAwayIfSwitched'
    BY <2>1, <2>3, <2>4, <2>6 DEF TurnedAwayIfSwitched, TypeOK
  <2> QED BY <2>7, <2>8, <2>9, <2>10, <2>11
<1>11. ASSUME NEW r \in Requests, Preflight(r) PROVE IntakeInv'
  <2>1. PICK enough \in BOOLEAN :
          /\ pc[r] = "checked" /\ Forget
          /\ pc' = [pc EXCEPT ![r] = IF enough THEN "settling" ELSE "refused"]
          /\ UNCHANGED <<now, issued, quotes, management, payments, claims>>
    BY <1>11 DEF Preflight, Check, Step
  <2>2. r \in claims
    BY <2>1 DEF OneClaim
  <2>3. pc' \in [Requests -> Steps]
    BY <2>1 DEF TypeOK, Steps
  <2> QED BY <2>1, <2>2, <2>3, StepInv DEF TypeOK, UnderWay
<1>12. ASSUME NEW r \in Requests, Breaks(r) PROVE IntakeInv'
  <2>1. /\ pc' = [pc EXCEPT ![r] = "refused"] /\ Forget
        /\ UNCHANGED <<now, issued, quotes, management, payments, claims>>
    BY <1>12 DEF Breaks, Step
  <2>2. pc' \in [Requests -> Steps]
    BY <2>1 DEF TypeOK, Steps
  <2> QED BY <2>1, <2>2, StepInv DEF TypeOK, UnderWay
<1>13. ASSUME Crash PROVE IntakeInv'
  <2>1. /\ pc' = [r \in Requests |->
                   IF pc[r] \in {"none", "settling", "disabled"} THEN pc[r] ELSE "refused"]
        /\ Forget
        /\ UNCHANGED <<now, issued, quotes, management, payments, claims>>
    BY <1>13 DEF Crash
  <2>2. pc' \in [Requests -> Steps]
    BY <2>1 DEF TypeOK, Steps
  <2> QED BY <2>1, <2>2, StepInv DEF UnderWay
<1>14. ASSUME Tick PROVE IntakeInv'
  <2>1. /\ now < MaxTime /\ now' = now + 1
        /\ UNCHANGED <<issued, quotes, management, payments, pc, body, claims>>
    BY <1>14 DEF Tick
  <2>2. PrunedOnlyDead' /\ now' \in 0 .. MaxTime
    BY <2>1, IntakeAssumption DEF TypeOK, PrunedOnlyDead, Quote, Times
  <2> QED BY <2>1, <2>2, TablesInv DEF TypeOK
<1>15. ASSUME UNCHANGED vars PROVE IntakeInv'
  BY <1>15 DEF vars, management, TypeOK, OneClaim, ClaimIsGenuine, PaymentWasQuoted,
     PrunedOnlyDead, ChecksHold, Quoted, Acceptable, Matches, Alike, SpellingsAgree,
     StillEnabled, TurnedAwayIfSwitched
<1> QED
  BY <1>1, <1>2, <1>3, <1>4, <1>5, <1>6, <1>7, <1>8, <1>9, <1>10, <1>11, <1>12, <1>13,
     <1>14, <1>15
  DEF Next, SettleStep

\* Every reachable state of intake satisfies the inductive invariant: no
\* request, however it interleaves with others, restarts or the worker, is
\* past a check whose outcome no longer holds of it.
THEOREM IntakeInvariant == Spec => []IntakeInv
<1>1. Init => IntakeInv
  BY InitInv
<1>2. IntakeInv /\ [Next]_vars => IntakeInv'
  BY NextInv
<1> QED BY <1>1, <1>2, PTL DEF Spec

\* For any number of concurrent requests an authorization nonce, compared as its
\* text, is claimed at most once, and only the claimer goes on to settle
\* (registerNonce).
THEOREM OneClaimEver == Spec => []OneClaim
<1>1. IntakeInv => OneClaim
  BY DEF IntakeInv
<1> QED BY <1>1, IntakeInvariant, PTL

\* Only an authorization its payer signed, above the gas fee and within the
\* cap, ever holds a nonce (verifyPayment).
THEOREM ClaimIsGenuineEver == Spec => []ClaimIsGenuine
<1>1. IntakeInv => ClaimIsGenuine
  BY DEF IntakeInv
<1> QED BY <1>1, IntakeInvariant, PTL

\* Every payment accepted matches a requirement the facilitator issued
\* (checkIssuedBinding), whenever requirements are pruned.
THEOREM PaymentWasQuotedEver == Spec => []PaymentWasQuoted
<1>1. IntakeInv => PaymentWasQuoted
  BY DEF IntakeInv
<1> QED BY <1>1, IntakeInvariant, PTL

\* Pruning never removes a requirement that a payer could still use.
THEOREM PrunedOnlyDeadEver == Spec => []PrunedOnlyDead
<1>1. IntakeInv => PrunedOnlyDead
  BY DEF IntakeInv
<1> QED BY <1>1, IntakeInvariant, PTL

\* A payer whose nonce is claimed is turned away for a disabled merchant only if
\* the merchant was disabled under way, or its address has rows in two states
\* since one was added to a disabled address (setMerchantEnabled's LOWER).
THEOREM TurnedAwayIfSwitchedEver == Spec => []TurnedAwayIfSwitched
<1>1. IntakeInv => TurnedAwayIfSwitched
  BY DEF IntakeInv
<1> QED BY <1>1, IntakeInvariant, PTL
=============================================================================
