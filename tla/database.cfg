\* Two processes, one connection each; a nonce replayed twice and one with the same lock.
CONSTANTS
  c1 = c1  c2 = c2  c3 = c3  c4 = c4  i = i  j = j  n = n  m = m  k = k
  Calls = {c1, c2, c3, c4}
  Instances = {i, j}
  Where <- MCWhere
  Nonce <- MCNonce
  LockKey <- MCLockKey
  PoolMax = 1
SPECIFICATION FairSpec
INVARIANT LosersAreTold
PROPERTIES RegisterSpec ExitCutsNoTransaction CallsAndShutdownsEnd
