---------------------------- MODULE MCBulkDeliver ----------------------------
(* Buffers of one to three rows, and up to four rows to send.              *)
EXTENDS BulkDeliver
=============================================================================
