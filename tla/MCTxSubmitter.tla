--------------------------- MODULE MCTxSubmitter ---------------------------
(* Small instances of TxSubmitter: the callers are interchangeable, and so *)
(* are the calls.                                                          *)
EXTENDS TxSubmitter, TLC

Symmetric == Permutations(Tasks) \cup Permutations(Calls)
=============================================================================
