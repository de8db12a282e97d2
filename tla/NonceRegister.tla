---------------------------- MODULE NonceRegister ----------------------------
(***************************************************************************)
(* What registerNonce promises its callers: whoever asks, from whatever    *)
(* process, a nonce is claimed by at most one of them, which is told so    *)
(* only when the claim will last; a caller that learns nothing may or may  *)
(* not have claimed it.                                                    *)
(***************************************************************************)
CONSTANTS Calls, Nonce   \* the calls of registerNonce, and the nonce of each

VARIABLES claimed, answer

vars == <<claimed, answer>>

Init == claimed = {} /\ answer = [c \in Calls |-> "none"]

Answers(c, a) == answer[c] = "none" /\ answer' = [answer EXCEPT ![c] = a]

Claim(c) ==
  /\ Nonce[c] \notin claimed
  /\ claimed' = claimed \cup {Nonce[c]}
  /\ Answers(c, "claimed") \/ Answers(c, "error")

AlreadyUsed(c) ==
  /\ Nonce[c] \in claimed
  /\ Answers(c, "used")
  /\ UNCHANGED claimed

\* One call fails, or all that a process was at.
Fail(C) ==
  /\ answer' = [c \in Calls |-> IF c \in C /\ answer[c] = "none" THEN "error" ELSE answer[c]]
  /\ UNCHANGED claimed

Next ==
  \/ \E c \in Calls : Claim(c) \/ AlreadyUsed(c)
  \/ \E C \in SUBSET Calls : Fail(C)

Spec == Init /\ [][Next]_vars

\* What the promise is worth: of the calls with one nonce one is told "claimed"
\* (verifyPayment passes only then, verify.ts:165), and whoever is told "claimed" or "used"
\* can rely on the claim being there, for ever.
OneWinner ==
  /\ \A c \in Calls : answer[c] \in {"claimed", "used"} => Nonce[c] \in claimed
  /\ \A c, d \in Calls :
       answer[c] = "claimed" /\ answer[d] = "claimed" /\ Nonce[c] = Nonce[d] => c = d
=============================================================================
