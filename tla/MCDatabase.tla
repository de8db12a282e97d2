----------------------------- MODULE MCDatabase -----------------------------
EXTENDS Database, TLC

CONSTANTS c1, c2, c3, c4, i, j, n, m, k

\* c1's nonce twice more at the other instance, and another nonce whose lock
\* happens to have the same key.
MCWhere == (c1 :> i) @@ (c2 :> i) @@ (c3 :> j) @@ (c4 :> j)
MCNonce == (c1 :> n) @@ (c2 :> m) @@ (c3 :> n) @@ (c4 :> n)
MCLockKey == (n :> k) @@ (m :> k)
=============================================================================
