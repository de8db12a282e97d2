------------------------------- MODULE Intake -------------------------------
(***************************************************************************)
(* How a payment gets into the payments table: the facilitator issues a    *)
(* requirement (src/requirements.ts, src/issuedStore.ts), a client signs   *)
(* an authorization, a merchant sends it to /settle, and the handler       *)
(* authenticates the merchant (src/auth.ts), binds the authorization to    *)
(* the requirement (src/settle.ts checkIssuedBinding), verifies it         *)
(* (src/verify.ts) and claims its nonce (src/nonceStore.ts registerNonce). *)
(* Requests run concurrently, merchants are managed meanwhile, time passes *)
(* and the recovery worker prunes requirements.  A database is configured; *)
(* the process may restart.  Settlement continues where a request settles. *)
(***************************************************************************)
EXTENDS Integers

CONSTANTS
  Requests,       \* calls of POST /settle
  Nonces,         \* authorization nonces, as the texts that are compared
  Amounts,
  Merchants,      \* spellings of merchant addresses, an API key and a row each
  Address,        \* what each spells: addresses compare without case
  NoMerchant,     \* a requirement issued for no merchant in particular
  NoBody,         \* of a request that has not arrived
  GasFee, Cap,
  RequireIssued,  \* REQUIRE_ISSUED_REQUIREMENTS
  Window,         \* how long a requirement lasts (an hour in the code)
  MaxTime,        \* bound: the clock
  MaxChanges      \* bound: changes to the merchants table

VARIABLES
  now,
  issued,      \* table issued_requirements
  quotes,      \* every requirement issued so far (history)
  merchants,   \* table merchants: the state of each spelling's row
  payments,    \* table payments: the authorizations whose nonce is claimed
  pc, body,    \* each request's progress and what it carries
  claims,      \* who claimed a nonce (history)
  changes,     \* how often that table was changed
  switched,    \* requests whose merchant was disabled under way (history)
  split        \* addresses given a new row while one was disabled (history)

management == <<merchants, changes, switched, split>>
vars == <<now, issued, quotes, management, payments, pc, body, claims>>

\* Deadlines; one that has passed at the start is like one that passes on the way.
Times == 1 .. MaxTime + Window

Quote == [nonce : Nonces, amount : Amounts, deadline : Times,
          merchant : Merchants \cup {NoMerchant}]

\* An authorization that passes the stateless checks (scheme, network, token,
\* recipient, the caller's own minimum), the merchant whose current API key it
\* arrives with, and whether the signature recovers to the payer for exactly
\* these values.
Body == [nonce : Nonces, amount : Amounts, deadline : Times,
         merchant : Merchants, genuine : BOOLEAN]

Steps == {"none", "authenticated", "bound", "verified", "claimed",
          "checked", "settling", "disabled", "refused"}

ASSUME IntakeAssumption ==
  /\ Amounts \subseteq Nat
  /\ NoMerchant \notin Merchants
  /\ DOMAIN Address = Merchants
  /\ NoBody \notin Body
  /\ GasFee \in Nat /\ Cap \in Nat
  /\ RequireIssued \in BOOLEAN
  /\ Window \in Nat \ {0} /\ MaxTime \in Nat /\ MaxChanges \in Nat

Init ==
  /\ now = 0
  /\ issued = {} /\ quotes = {} /\ payments = {} /\ claims = {}
  /\ merchants \in [Merchants -> {"enabled", "absent"}]
  /\ changes = 0 /\ switched = {} /\ split = {}
  /\ pc = [r \in Requests |-> "none"]
  /\ body = [r \in Requests |-> NoBody]

-----------------------------------------------------------------------------
(* Requirements.                                                           *)

\* handleRequirements: a fresh random nonce, a deadline from the clock, and
\* recordIssued.
HandleRequirements(n, a, m) ==
  /\ \A q \in quotes : q.nonce # n
  /\ LET q == [nonce |-> n, amount |-> a, deadline |-> now + Window, merchant |-> m]
     IN  issued' = issued \cup {q} /\ quotes' = quotes \cup {q}
  /\ UNCHANGED <<now, management, payments, pc, body, claims>>

\* Mutant: compares the clock with the time of issue.
PruneTooEarly ==
  /\ issued' = {q \in issued : q.deadline - Window > now}
  /\ UNCHANGED <<now, quotes, management, payments, pc, body, claims>>

\* pruneExpiredIssued, in each cycle of the recovery worker.
PruneExpiredIssued ==
  /\ issued' = {q \in issued : q.deadline >= now}
  /\ UNCHANGED <<now, quotes, management, payments, pc, body, claims>>

-----------------------------------------------------------------------------
(* The merchants table, changed by the CLI.                                *)

Alike(m) == {n \in Merchants : Address[n] = Address[m]}

Change == changes < MaxChanges /\ changes' = changes + 1

\* addMerchant: the primary key is the address as it is spelled.
AddMerchant(m) ==
  /\ Change /\ merchants[m] = "absent"
  /\ merchants' = [merchants EXCEPT ![m] = "enabled"]
  /\ split' = IF \E n \in Alike(m) : merchants[n] = "disabled"
              THEN split \cup {Address[m]} ELSE split
  /\ UNCHANGED <<now, issued, quotes, switched, payments, pc, body, claims>>

UnderWay == {"authenticated", "bound", "verified", "claimed"}

\* The rows WHERE LOWER(address) = LOWER($1).
Matching(m) == {n \in Alike(m) : merchants[n] # "absent"}

\* Mutant: WHERE address = $1.
SetSpelledEnabled(m, state) ==
  /\ Change /\ merchants[m] # "absent"
  /\ merchants' = [merchants EXCEPT ![m] = state]
  /\ switched' = IF state = "enabled" THEN switched ELSE switched \cup
       {r \in Requests : pc[r] \in UnderWay /\ body[r].merchant = m}
  /\ UNCHANGED <<now, issued, quotes, split, payments, pc, body, claims>>

SetMerchantEnabled(m, state) ==
  /\ Change
  /\ merchants' = [n \in Merchants |-> IF n \in Matching(m) THEN state ELSE merchants[n]]
  /\ switched' = IF state = "enabled" THEN switched ELSE switched \cup
       {r \in Requests : pc[r] \in UnderWay /\ body[r].merchant \in Alike(m)}
  /\ UNCHANGED <<now, issued, quotes, split, payments, pc, body, claims>>

DeleteMerchant(m) ==
  /\ Change
  /\ merchants' = [n \in Merchants |-> IF n \in Matching(m) THEN "absent" ELSE merchants[n]]
  /\ UNCHANGED <<now, issued, quotes, switched, split, payments, pc, body, claims>>

-----------------------------------------------------------------------------
(* One request, from one await to the next.                                *)

Step(r, from, to) == pc[r] = from /\ pc' = [pc EXCEPT ![r] = to]

\* A request that ends before it claimed a nonce leaves nothing behind.
Forget ==
  body' = [r \in Requests |->
    IF pc'[r] = "refused" /\ r \notin claims THEN NoBody ELSE body[r]]

\* A step that only decides whether the request goes on.
Check(r, from, ok, to) ==
  /\ Step(r, from, IF ok THEN to ELSE "refused") /\ Forget
  /\ UNCHANGED <<now, issued, quotes, management, payments, claims>>

\* authenticateMerchant: the key's row exists, is enabled, and the hash fits.
\* Only then is the request parsed.
Authenticate(r, b) ==
  /\ pc[r] = "none"
  /\ IF merchants[b.merchant] = "enabled"
     THEN Step(r, "none", "authenticated") /\ body' = [body EXCEPT ![r] = b]
     ELSE Step(r, "none", "refused") /\ UNCHANGED body
  /\ UNCHANGED <<now, issued, quotes, management, payments, claims>>

Matches(q, b) ==
  /\ q.nonce = b.nonce /\ q.amount = b.amount /\ q.deadline = b.deadline
  /\ q.merchant = NoMerchant \/ q.merchant \in Alike(b.merchant)

\* Mutant: the amount is not compared.
BoundLoosely(b) ==
  RequireIssued => \E q \in issued :
    q.nonce = b.nonce /\ q.deadline = b.deadline
    /\ (q.merchant = NoMerchant \/ q.merchant \in Alike(b.merchant))

\* checkIssuedBinding on the row getIssued reads now.
Bound(b) == RequireIssued => \E q \in issued : Matches(q, b)

CheckIssuedBinding(r) == Check(r, "authenticated", Bound(body[r]), "bound")

\* Mutant: the signature is left for the token to check.
ValidUnsigned(b) == b.amount > GasFee /\ b.amount <= Cap /\ b.deadline > now

\* verifyPayment before it claims the nonce: amount, time window, signature
\* and cap.
Valid(b) ==
  /\ b.amount > GasFee /\ b.amount <= Cap
  /\ b.deadline > now
  /\ b.genuine

VerifyPayment(r) == Check(r, "bound", Valid(body[r]), "verified")

Paid(n) == \E b \in payments : b.nonce = n

\* The row is inserted, or found there.
Claim(r, taken) ==
  /\ pc' = [pc EXCEPT ![r] = IF taken THEN "refused" ELSE "claimed"]
  /\ payments' = IF taken THEN payments ELSE payments \cup {body[r]}
  /\ claims' = IF taken THEN claims ELSE claims \cup {r}
  /\ Forget
  /\ UNCHANGED <<now, issued, quotes, management>>

\* Mutant: a nonce is looked for among the merchant's own payments.
PaidHere(r) == \E b \in payments :
  b.nonce = body[r].nonce /\ b.merchant = body[r].merchant
RegisterNoncePerMerchant(r) ==
  /\ pc[r] = "verified"
  /\ Claim(r, PaidHere(r))

\* registerNonce: one transaction under the nonce's advisory lock.
RegisterNonce(r) ==
  /\ pc[r] = "verified"
  /\ Claim(r, Paid(body[r].nonce))

\* getMerchantByAddress, with the nonce already claimed: whichever of the
\* address's rows comes first; a merchant deleted meanwhile passes.
CheckMerchant(r) ==
  /\ pc[r] = "claimed"
  /\ \E enabled \in BOOLEAN :
       /\ \/ enabled /\ Matching(body[r].merchant) = {}
          \/ \E m \in Matching(body[r].merchant) : enabled = (merchants[m] = "enabled")
       /\ pc' = [pc EXCEPT ![r] = IF enabled THEN "checked" ELSE "disabled"]
  /\ UNCHANGED <<now, issued, quotes, management, payments, body, claims>>

\* hasEnoughGas: the wallet holds the gas to forward the payment, or not.
Preflight(r) == \E enough \in BOOLEAN : Check(r, "checked", enough, "settling")

\* A query throws and the route answers 500; a nonce claimed stays claimed.
Breaks(r) ==
  /\ \E from \in {"none", "authenticated", "verified", "claimed", "checked"} :
       Step(r, from, "refused")
  /\ Forget
  /\ UNCHANGED <<now, issued, quotes, management, payments, claims>>

SettleStep(r) ==
  \/ \E b \in Body : Authenticate(r, b)
  \/ CheckIssuedBinding(r) \/ VerifyPayment(r)
  \/ RegisterNonce(r) \/ CheckMerchant(r) \/ Preflight(r) \/ Breaks(r)

-----------------------------------------------------------------------------

\* The process restarts; requests in progress are lost, the tables stay.
Crash ==
  /\ \E r \in Requests : pc[r] \notin {"none", "settling", "disabled", "refused"}
  /\ pc' = [r \in Requests |->
              IF pc[r] \in {"none", "settling", "disabled"} THEN pc[r] ELSE "refused"]
  /\ Forget
  /\ UNCHANGED <<now, issued, quotes, management, payments, claims>>

Tick ==
  /\ now < MaxTime /\ now' = now + 1
  /\ UNCHANGED <<issued, quotes, management, payments, pc, body, claims>>

Next ==
  \/ \E n \in Nonces, a \in Amounts, m \in Merchants \cup {NoMerchant} :
       HandleRequirements(n, a, m)
  \/ PruneExpiredIssued
  \/ \E m \in Merchants : AddMerchant(m) \/ DeleteMerchant(m)
  \/ \E m \in Merchants, state \in {"enabled", "disabled"} :
       SetMerchantEnabled(m, state)
  \/ \E r \in Requests : SettleStep(r)
  \/ Crash
  \/ Tick

Spec == Init /\ [][Next]_vars

-----------------------------------------------------------------------------

TypeOK ==
  /\ now \in 0 .. MaxTime
  /\ issued \subseteq quotes /\ quotes \subseteq Quote
  /\ merchants \in [Merchants -> {"enabled", "disabled", "absent"}]
  /\ payments \subseteq Body
  /\ pc \in [Requests -> Steps]
  /\ body \in [Requests -> Body \cup {NoBody}]
  /\ \A r \in Requests : pc[r] \notin {"none", "refused"} => body[r] \in Body
  /\ changes \in Nat /\ claims \subseteq Requests /\ switched \subseteq Requests

\* However requests interleave, repeat or are cut off by a restart, one of
\* them at most claims a nonce, and only that one goes on to settle
\* (registerNonce's transaction, "nonce already used").  The claim is of the
\* nonce's text: an issued nonce has one, but where requirements need not be
\* issued its hex digits may come in either case, and each spelling is another
\* nonce here, although the token executes the authorization only once.
OneClaim ==
  /\ \A r, s \in claims : body[r].nonce = body[s].nonce => r = s
  /\ \A r \in Requests : pc[r] \in {"claimed", "checked", "settling"} => r \in claims

Quoted(b) == RequireIssued => \E q \in quotes : Matches(q, b)
Acceptable(b) == b.genuine /\ b.amount > GasFee /\ b.amount <= Cap

\* "a bad signature can never permanently burn a legitimate payer's
\* authorization", nor an amount the facilitator would not settle: what holds a
\* nonce was signed by its payer, for more than the gas fee and within the cap
\* (verifyPayment's order of checks).
ClaimIsGenuine ==
  \A b \in payments : Acceptable(b)

\* With REQUIRE_ISSUED_REQUIREMENTS every payment accepted is one the
\* facilitator quoted, at that amount and deadline and for that merchant, even
\* when the requirement is pruned between the binding and the claim
\* (checkIssuedBinding).
PaymentWasQuoted ==
  \A b \in payments : Quoted(b)

\* Pruning never turns away a payer: a requirement is only gone once the
\* authorization signed for it has expired for verifyPayment too
\* (pruneExpiredIssued against validBefore).
PrunedOnlyDead == \A q \in quotes : q.deadline > now => q \in issued

\* However an address is spelled, disabling reaches all its rows: a payer whose
\* nonce is claimed is turned away as "merchant is disabled" only if somebody
\* disabled the merchant under way, or gave a disabled address a second row.
TurnedAwayIfSwitched ==
  \A r \in Requests : pc[r] = "disabled" =>
    r \in switched \/ Address[body[r].merchant] \in split

\* What a request has passed on its way stays true of it, and a claim is the
\* payment's row: the inductive invariant behind the four.
ChecksHold ==
  /\ \A r \in Requests :
       /\ pc[r] \in {"bound", "verified"} => Quoted(body[r])
       /\ pc[r] = "verified" => Acceptable(body[r])
  /\ \A r \in claims :
       /\ body[r] \in payments
       /\ pc[r] \in {"claimed", "checked", "settling", "disabled", "refused"}

\* The rows of an address are in one state, but for one added to a disabled
\* address, and a request under way was authenticated by an enabled one.
SpellingsAgree ==
  \A m, n \in Merchants :
    Address[m] = Address[n] /\ merchants[m] = "enabled" /\ merchants[n] = "disabled"
      => Address[m] \in split

StillEnabled ==
  \A r \in Requests : pc[r] \in UnderWay /\ r \notin switched
    /\ Address[body[r].merchant] \notin split =>
      \A m \in Alike(body[r].merchant) : merchants[m] # "disabled"

IntakeInv ==
  /\ TypeOK /\ OneClaim /\ ClaimIsGenuine /\ PaymentWasQuoted /\ PrunedOnlyDead
  /\ ChecksHold /\ SpellingsAgree /\ StillEnabled /\ TurnedAwayIfSwitched

=============================================================================
