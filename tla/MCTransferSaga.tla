--------------------------- MODULE MCTransferSaga ---------------------------
(* TransferSaga on small instances: two concurrent runs of one transfer. *)
EXTENDS TransferSaga
=============================================================================
