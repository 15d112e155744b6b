----------------------------- MODULE MCWebhook -----------------------------
(***************************************************************************)
(* Four deliveries, one of them malformed, on a ring of two or three.      *)
(***************************************************************************)
EXTENDS Webhook
CONSTANTS a, b, c, d
MCDeliveries == {a, b, c, d}
MCMalformed == {d}
=============================================================================
