--------------------------- MODULE MCMempoolDetail ---------------------------
(***************************************************************************)
(* MempoolDetail for TLC: two fee ranges, a histogram of at most two       *)
(* samples, and tx_counts chosen so that the largest sample is 0, below    *)
(* five (2, 4), five or more with and without a remainder (6, 8, 12), and  *)
(* on either side of fifty (48, 50, 54, 96), where stepbase becomes 10.    *)
(***************************************************************************)
EXTENDS MempoolDetail

MCTxCounts == {0, 2, 6, 48}

=============================================================================
