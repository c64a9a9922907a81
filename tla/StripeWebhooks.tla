---------------------------- MODULE StripeWebhooks ----------------------------
(***************************************************************************)
(* How a payment reaches a workspace: the Stripe webhook handler           *)
(* (cloud/api/routes/webhooks/stripe.ts), the claim of an event            *)
(* (billing/webhook-events.ts), the copy of the subscription in            *)
(* workspace_billing and the start of provisioning (billing/service.ts).   *)
(*                                                                         *)
(* Stripe delivers an event until it is acknowledged, events in any order, *)
(* several at a time.  A subscription goes through numbered versions, each *)
(* usable (active, trialing, past_due) or not; a version is the pair of    *)
(* the subscription and the number.  One workspace, created unpaid.        *)
(***************************************************************************)
EXTENDS Naturals, FiniteSets

CONSTANTS Sub,          \* subscriptions the workspace may come to have
          Event,        \* Stripe events
          Delivery,     \* deliveries handled at the same time
          Visit,        \* requests of the owner for POST /billing/provision
          NotSent, NoEvent, NoVersion,
          MaxVersions,  \* bound: versions of a subscription
          MaxFaults,    \* bound: failed calls, deaths of processes, lost answers
          MaxSlow       \* bound: claims outlived by their handler, per event

ASSUME EventsAreFinite == IsFiniteSet(Delivery) /\ Delivery \cap Visit = {}
ASSUME NoEventIsNull == NoEvent \notin Event
ASSUME NoVersionIsNull == NoVersion \notin Sub \X Nat
ASSUME WebhookBounds == MaxVersions \in Nat /\ MaxFaults \in Nat /\ MaxSlow \in Nat

Handler == Delivery \cup Visit
Version == Sub \X Nat
Message == [kind : {"payload", "fetch", "other"}, version : Version]

ASSUME NotSentIsNull == NotSent \notin Message

VARIABLES
  \* Stripe
  offered,   \* subscriptions with a checkout session the customer may pay
  latest,    \* number of a subscription's current version (0: none yet)
  good,      \* the versions that are usable
  message,   \* what an event says: its kind, and the version when it was sent
  acked,     \* events answered with 2xx
  \* one request
  pc,
  event,     \* the event it handles
  seen,      \* the subscription object in its hands
  \* Postgres and the queue
  claim,     \* stripe_webhook_events: processed_at, processing_started_at
  billing,   \* workspace_billing: the version it was last set to
  status,    \* workspaces.status
  queued,    \* provision jobs enqueued
  \* history and bounds
  held,      \* highest number the billing row has held of a subscription
  slow, faults

stripeVars == <<offered, latest, good, message>>
requestVars == <<pc, event, seen>>
vars == <<stripeVars, acked, requestVars, claim, billing, status, queued, held, slow, faults>>

\* Where a request runs its handler's body, between the claim and the answer.
Body == {"sync", "write", "read", "start", "enqueue", "finish"}
Pcs == {"idle", "claim", "look", "reclaim", "failed"} \cup Body

TypeOK ==
  /\ offered \subseteq Sub
  /\ latest \in [Sub -> Nat]
  /\ good \subseteq Version
  /\ message \in [Event -> Message \cup {NotSent}]
  /\ acked \subseteq Event
  /\ pc \in [Handler -> Pcs]
  /\ event \in [Handler -> Event \cup {NoEvent}]
  /\ seen \in [Handler -> Version \cup {NoVersion}]
  /\ claim \in [Event -> {"absent", "fresh", "stale", "free", "processed"}]
  /\ billing \in Version \cup {NoVersion}
  /\ status \in {"billing_required", "provisioning"}
  /\ queued \in Nat
  /\ held \in [Sub -> Nat]
  /\ slow \in [Event -> 0..MaxSlow]
  /\ faults \in 0..MaxFaults
  \* a webhook request has its event, one that writes has its subscription
  /\ \A h \in Handler : pc[h] # "idle" /\ h \in Delivery => event[h] \in Event
  /\ \A h \in Handler : pc[h] = "write" => seen[h] \in Version
  /\ \A h \in Handler : pc[h] \in {"claim", "look", "reclaim", "sync", "write", "finish", "failed"} => h \in Delivery
  /\ \A h \in Delivery : pc[h] # "idle" => message[event[h]] # NotSent

Init ==
  /\ offered = {}
  /\ latest = [s \in Sub |-> 0]
  /\ good = {}
  /\ message = [e \in Event |-> NotSent]
  /\ acked = {}
  /\ pc = [h \in Handler |-> "idle"]
  /\ event = [h \in Handler |-> NoEvent]
  /\ seen = [h \in Handler |-> NoVersion]
  /\ claim = [e \in Event |-> "absent"]
  /\ billing = NoVersion
  /\ status = "billing_required"
  /\ queued = 0
  /\ held = [s \in Sub |-> 0]
  /\ slow = [e \in Event |-> 0]
  /\ faults = 0

-----------------------------------------------------------------------------
\* Helpers.

At(h, label) == pc[h] = label
Go(h, label) == pc' = [pc EXCEPT ![h] = label]

\* isSubscriptionUsable.
Usable(v) == v \in good

\* The requests in the body of event e's handler.
Handling(e) == {h \in Delivery : event[h] = e /\ pc[h] \in Body \cup {"failed"}}

\* The request is over; what it held is gone.
Done(h) ==
  /\ Go(h, "idle")
  /\ event' = [event EXCEPT ![h] = NoEvent]
  /\ seen' = [seen EXCEPT ![h] = NoVersion]

\* An exception: the webhook's catch, or the error answer to the owner.
Throw(h) ==
  IF h \in Delivery THEN Go(h, "failed") /\ UNCHANGED <<event, seen>> ELSE Done(h)

\* Stripe sends an event that has not been sent.
Send(kind, v) ==
  \E e \in Event : /\ message[e] = NotSent
                   /\ message' = [message EXCEPT ![e] = [kind |-> kind, version |-> v]]

Fault == faults < MaxFaults /\ faults' = faults + 1

-----------------------------------------------------------------------------
\* Stripe and the customer.

\* createCheckoutSession: refused while the row says the subscription is usable.
\* The session can be paid at any later time.
OpenCheckout(s) ==
  /\ s \notin offered
  /\ ~Usable(billing)
  /\ offered' = offered \cup {s}
  /\ UNCHANGED <<latest, good, message, acked, requestVars, claim, billing, status, queued, held, slow, faults>>

\* The first payment creates the subscription, and later changes (renewal,
\* pause, cancellation) give it further versions; each sends its new object.
SubscriptionChanges(s) ==
  LET v == <<s, latest[s] + 1>> IN
  /\ s \in offered
  /\ latest[s] < MaxVersions
  /\ latest' = [latest EXCEPT ![s] = latest[s] + 1]
  /\ good' \in {good, good \cup {v}}
  /\ Send("payload", v)
  /\ UNCHANGED <<offered, acked, requestVars, claim, billing, status, queued, held, slow, faults>>

\* checkout.session.completed and invoice events name the subscription only;
\* meter errors and the event types of no case carry nothing that is used.
OtherEvent(s) ==
  /\ latest[s] > 0
  /\ \E kind \in {"fetch", "other"} : Send(kind, <<s, latest[s]>>)
  /\ UNCHANGED <<offered, latest, good, acked, requestVars, claim, billing, status, queued, held, slow, faults>>

\* A delivery, the first or a repeated one: Stripe repeats it until it is
\* acknowledged, also while an earlier delivery is still being handled.
Deliver(h, e) ==
  /\ At(h, "idle")
  /\ message[e] # NotSent
  /\ e \notin acked
  /\ Go(h, "claim")
  /\ event' = [event EXCEPT ![h] = e]
  /\ UNCHANGED <<stripeVars, acked, seen, claim, billing, status, queued, held, slow, faults>>

-----------------------------------------------------------------------------
\* claimStripeWebhookEvent.

\* INSERT ... ON CONFLICT DO NOTHING.
ClaimInsert(h) ==
  LET e == event[h] IN
  /\ At(h, "claim")
  /\ IF claim[e] = "absent" THEN claim' = [claim EXCEPT ![e] = "fresh"] /\ Go(h, "sync")
                            ELSE UNCHANGED claim /\ Go(h, "look")
  /\ UNCHANGED <<stripeVars, acked, event, seen, billing, status, queued, held, slow, faults>>

\* A processed event is acknowledged as a duplicate.
ClaimLook(h) ==
  /\ At(h, "look")
  /\ \/ /\ claim[event[h]] = "processed"
        /\ acked' = acked \cup {event[h]}
        /\ Done(h)
     \/ /\ claim[event[h]] # "processed"
        /\ Go(h, "reclaim")
        /\ UNCHANGED <<acked, event, seen>>
  /\ UNCHANGED <<stripeVars, claim, billing, status, queued, held, slow, faults>>

MayReclaimAny(e) == claim[e] # "processed"     \* mutant: no lease
MayReclaimFailed(e) == claim[e] = "free"       \* mutant: a crashed claim is for ever

\* The WHERE of the reclaiming UPDATE: not processed, not started or long ago.
MayReclaim(e) == claim[e] \in {"free", "stale"}

\* Claimed again, or answered 409 as in progress.
Reclaim(h) ==
  LET e == event[h] IN
  /\ At(h, "reclaim")
  /\ \/ /\ MayReclaim(e)
        /\ claim' = [claim EXCEPT ![e] = "fresh"]
        /\ Go(h, "sync")
        /\ UNCHANGED <<event, seen>>
     \/ /\ ~MayReclaim(e)
        /\ Done(h)
        /\ UNCHANGED claim
  /\ UNCHANGED <<stripeVars, acked, billing, status, queued, held, slow, faults>>

-----------------------------------------------------------------------------
\* The switch on the event's type, syncCheckoutSession, syncSubscription.

\* mutant: the object of the event is not handed on
TakeNothing(h) ==
  LET m == message[event[h]] IN
  /\ At(h, "sync")
  /\ Go(h, IF m.kind = "other" THEN "finish" ELSE "write")
  /\ UNCHANGED <<stripeVars, acked, event, seen, claim, billing, status, queued, held, slow, faults>>

\* The subscription is the object of the event, or retrieved as it is now.
TakeSubscription(h) ==
  LET m == message[event[h]]
      s == m.version[1] IN
  /\ At(h, "sync")
  /\ IF m.kind = "other"
       THEN Go(h, "finish") /\ UNCHANGED seen
       ELSE /\ seen' = [seen EXCEPT ![h] = IF m.kind = "fetch" THEN <<s, latest[s]>> ELSE m.version]
            /\ Go(h, "write")
  /\ UNCHANGED <<stripeVars, acked, event, claim, billing, status, queued, held, slow, faults>>

\* upsertWorkspaceBilling: whatever the row says, it is set to this version.
WriteBilling(h) ==
  LET v == seen[h] IN
  /\ At(h, "write")
  /\ billing' = v
  /\ held' = [held EXCEPT ![v[1]] = IF v[2] > @ THEN v[2] ELSE @]
  /\ Go(h, IF Usable(v) THEN "read" ELSE "finish")
  /\ UNCHANGED <<stripeVars, acked, event, seen, claim, status, queued, slow, faults>>

\* The body went through: a webhook marks its event, the owner gets an answer.
Finish(h) == IF h \in Delivery THEN Go(h, "finish") /\ UNCHANGED <<event, seen>> ELSE Done(h)

-----------------------------------------------------------------------------
\* startProvisioningAfterPayment, for a webhook or for the owner's request.

Visiting(h) ==
  /\ At(h, "idle")
  /\ Go(h, "read")
  /\ UNCHANGED <<stripeVars, acked, event, seen, claim, billing, status, queued, held, slow, faults>>

\* mutant: a subscription that is not usable any more ends the call quietly
ReadQuietly(h) ==
  /\ At(h, "read")
  /\ \/ Usable(billing) /\ status = "billing_required" /\ Go(h, "start") /\ UNCHANGED <<event, seen>>
     \/ ~(Usable(billing) /\ status = "billing_required") /\ Finish(h)
  /\ UNCHANGED <<stripeVars, acked, claim, billing, status, queued, held, slow, faults>>

\* The row may have changed since it was written: then the call throws.
ReadWorkspace(h) ==
  /\ At(h, "read")
  /\ \/ ~Usable(billing) /\ Throw(h)
     \/ Usable(billing) /\ status # "billing_required" /\ Finish(h)
     \/ Usable(billing) /\ status = "billing_required" /\ Go(h, "start") /\ UNCHANGED <<event, seen>>
  /\ UNCHANGED <<stripeVars, acked, claim, billing, status, queued, held, slow, faults>>

\* mutant: the update does not look at the status again
StartAnyway(h) ==
  /\ At(h, "start")
  /\ status' = "provisioning"
  /\ Go(h, "enqueue")
  /\ UNCHANGED <<stripeVars, acked, event, seen, claim, billing, queued, held, slow, faults>>

\* UPDATE ... WHERE status = 'billing_required'.
StartProvisioning(h) ==
  /\ At(h, "start")
  /\ \/ /\ status = "billing_required"
        /\ status' = "provisioning"
        /\ Go(h, "enqueue")
        /\ UNCHANGED <<event, seen>>
     \/ /\ status # "billing_required"
        /\ Finish(h)
        /\ UNCHANGED status
  /\ UNCHANGED <<stripeVars, acked, claim, billing, queued, held, slow, faults>>

EnqueueProvisionJob(h) ==
  /\ At(h, "enqueue")
  /\ queued' = queued + 1
  /\ Finish(h)
  /\ UNCHANGED <<stripeVars, acked, claim, billing, status, held, slow, faults>>

-----------------------------------------------------------------------------
\* The end of the handler.

\* markStripeWebhookEventProcessed, and the answer, which may not arrive.
MarkProcessed(h) ==
  /\ At(h, "finish")
  /\ claim' = [claim EXCEPT ![event[h]] = "processed"]
  /\ \/ acked' = acked \cup {event[h]} /\ UNCHANGED faults
     \/ Fault /\ UNCHANGED acked
  /\ Done(h)
  /\ UNCHANGED <<stripeVars, billing, status, queued, held, slow>>

\* mutant: an error is recorded as the end of the event
MarkFailedAsProcessed(h) ==
  /\ At(h, "failed")
  /\ claim' = [claim EXCEPT ![event[h]] = "processed"]
  /\ Done(h)
  /\ UNCHANGED <<stripeVars, acked, billing, status, queued, held, slow, faults>>

\* markStripeWebhookEventFailed, by event only: it frees the claim whoever holds
\* it now, and leaves processed_at of a handler that was faster.
MarkFailed(h) ==
  LET e == event[h] IN
  /\ At(h, "failed")
  /\ claim' = [claim EXCEPT ![e] = IF @ = "processed" THEN @ ELSE "free"]
  /\ Done(h)
  /\ UNCHANGED <<stripeVars, acked, billing, status, queued, held, slow, faults>>

\* A call to Stripe, Postgres or Redis throws inside the handler's body.
CallFails(h) ==
  /\ pc[h] \in Body
  /\ Throw(h)
  /\ Fault
  /\ UNCHANGED <<stripeVars, acked, claim, billing, status, queued, held, slow>>

\* The process dies, or an error outside the try leaves everything as it is.
Dies(h) ==
  /\ ~At(h, "idle")
  /\ Done(h)
  /\ Fault
  /\ UNCHANGED <<stripeVars, acked, claim, billing, status, queued, held, slow>>

-----------------------------------------------------------------------------
\* CLAIM_STALE_AFTER_MS go by.

\* The claim of a handler that is gone.
ClaimIsAbandoned(e) ==
  /\ claim[e] = "fresh"
  /\ Handling(e) = {}
  /\ claim' = [claim EXCEPT ![e] = "stale"]
  /\ UNCHANGED <<stripeVars, acked, requestVars, billing, status, queued, held, slow, faults>>

\* The claim of a handler that is still at work.
ClaimIsOutlived(e) ==
  /\ claim[e] = "fresh"
  /\ Handling(e) # {}
  /\ slow[e] < MaxSlow
  /\ slow' = [slow EXCEPT ![e] = slow[e] + 1]
  /\ claim' = [claim EXCEPT ![e] = "stale"]
  /\ UNCHANGED <<stripeVars, acked, requestVars, billing, status, queued, held, faults>>

-----------------------------------------------------------------------------
Step(h) ==
  \/ ClaimInsert(h) \/ ClaimLook(h) \/ Reclaim(h)
  \/ TakeSubscription(h) \/ WriteBilling(h)
  \/ ReadWorkspace(h) \/ StartProvisioning(h) \/ EnqueueProvisionJob(h)
  \/ MarkProcessed(h) \/ MarkFailed(h)

Next ==
  \/ \E s \in Sub : OpenCheckout(s) \/ SubscriptionChanges(s) \/ OtherEvent(s)
  \/ \E h \in Delivery, e \in Event : Deliver(h, e)
  \/ \E h \in Visit : Visiting(h)
  \/ \E h \in Handler : Step(h) \/ CallFails(h) \/ Dies(h)
  \/ \E e \in Event : ClaimIsAbandoned(e) \/ ClaimIsOutlived(e)

Spec == Init /\ [][Next]_vars

\* Stripe delivers until it is acknowledged, a request that runs goes on, and
\* time passes.  Nothing obliges the customer, Stripe's other events or a fault.
FairSpec ==
  /\ Spec
  /\ \A h \in Handler : WF_vars(Step(h))
  /\ \A e \in Event : WF_vars(\E h \in Delivery : Deliver(h, e))
  /\ \A e \in Event : WF_vars(ClaimIsAbandoned(e))

-----------------------------------------------------------------------------
\* Properties.

\* However often an event is delivered and however many requests, webhooks or the
\* owner's, find the workspace unpaid at the same time, one provision job is
\* enqueued for the payment, and only once the workspace has left billing_required.
StartedOnce ==
  /\ queued <= 1
  /\ queued = 1 => status = "provisioning"

\* Usable versions whose event has been processed.
Paid == {e \in Event : /\ claim[e] = "processed"
                       /\ message[e].kind = "payload" /\ Usable(message[e].version)}

\* A payment is not lost behind an acknowledged event: when the event that brought
\* a usable subscription is processed, the workspace has left billing_required,
\* even if events that arrive out of order overwrote the billing row meanwhile.
PaidLeavesGate == Paid # {} => status # "billing_required"

\* In all its steps together the handling of events implements the payment gate: the
\* status leaves billing_required once, for a usable subscription, one job follows,
\* and a payment is settled, for good, when its event is processed behind the gate.
Gate == INSTANCE PaymentGate WITH
          bought  <- good,
          gate    <- IF status = "billing_required" THEN "shut" ELSE "open",
          jobs    <- queued,
          settled <- {message[e].version : e \in Paid}

ImplementsPaymentGate == Gate!Spec

\* An event that is processed has had its effect: the billing row has held the
\* version the event was sent for, or a later one of that subscription.
ProcessedIsApplied ==
  \A e \in Event : claim[e] = "processed" /\ message[e].kind # "other" =>
    held[message[e].version[1]] >= message[e].version[2]

\* Requests work on the same event at the same time only as often as one of them
\* outlived its claim of ten minutes: repeated deliveries alone never do.
ClaimsExclude ==
  \A e \in Event : Cardinality(Handling(e)) <= 1 + slow[e]

\* Every event Stripe has sent is processed in the end, and Stripe is told: no
\* crash or failure leaves a claim that turns the deliveries away for ever.
EventsGetProcessed ==
  \A e \in Event : message[e] # NotSent ~> claim[e] = "processed" /\ e \in acked

\* "Provisioning runs through BullMQ so retries and process restarts are
\* recoverable" (docs/architecture/tenant-provisioning.md): a paid workspace that
\* is provisioning gets its job, by itself.  (The owner's retry button, which is in
\* module Provisioning, would give it one; nothing obliges the owner to click.)
StartedGetsItsJob == status = "provisioning" ~> queued > 0
=============================================================================
