----------------------------- MODULE PaymentGate -----------------------------
(***************************************************************************)
(* What the billing of a workspace promises, however the news of a payment *)
(* travels: the gate opens only for a payment and never shuts again, one   *)
(* job is started behind it, and a payment that is done with has opened it *)
(* and stays done with.  StripeWebhooks, where the news arrives several    *)
(* times, out of order and next to the owner's own request, and where any  *)
(* step may fail, implements this specification.                           *)
(***************************************************************************)
EXTENDS Naturals

VARIABLES bought,    \* the payments there have been
          gate,      \* whether the workspace may be provisioned
          jobs,      \* the jobs started behind the gate
          settled    \* the payments that are done with

gateVars == <<bought, gate, jobs, settled>>

Init == bought = {} /\ gate = "shut" /\ jobs = 0 /\ settled = {}

\* The customer pays; what was paid stays paid.
Buy ==
  /\ bought \subseteq bought'
  /\ UNCHANGED <<gate, jobs, settled>>

OpenGate ==
  /\ gate = "shut" /\ bought # {}
  /\ gate' = "open"
  /\ UNCHANGED <<bought, jobs, settled>>

StartJob ==
  /\ gate = "open" /\ jobs = 0
  /\ jobs' = 1
  /\ UNCHANGED <<bought, gate, settled>>

\* Nobody needs to be told of this payment again.
Settle(p) ==
  /\ gate = "open"
  /\ settled' = settled \cup {p}
  /\ UNCHANGED <<bought, gate, jobs>>

Next == Buy \/ OpenGate \/ StartJob \/ \E p \in bought : Settle(p)

Spec == Init /\ [][Next]_gateVars
=============================================================================
