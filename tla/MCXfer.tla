------------------------------- MODULE MCXfer -------------------------------
(* Files of nothing to a few bytes, in blocks of two.  *)
EXTENDS Xfer
=============================================================================
