--------------------------- MODULE MCAsyncTransfer --------------------------
(* The constants are given in MCAsyncTransfer.cfg and MCLateCopy.cfg.      *)
EXTENDS TransferInvariant
=============================================================================
