--------------------------- MODULE MCStripeWebhooks ---------------------------
(***************************************************************************)
(* Two events of one subscription, delivered twice at a time.              *)
(***************************************************************************)
EXTENDS StripeWebhooks, TLC

CONSTANTS s1, e1, e2, d1, d2, u1

Subs == {s1}
Events == {e1, e2}
Deliveries == {d1, d2}
Visits == {u1}
=============================================================================
