----------------------------- MODULE MCExchange -----------------------------
(* Two batches: enough to tell a repeated or lost batch from the next one. *)
EXTENDS ValueExchangeBlocking

CONSTANTS b1, b2
MCBatch == {b1, b2}
=============================================================================
