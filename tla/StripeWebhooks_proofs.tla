------------------------ MODULE StripeWebhooks_proofs ------------------------
(***************************************************************************)
(* Proofs about the Stripe webhooks, for any subscriptions and events,     *)
(* every finite set of concurrent deliveries, any number of the owner's    *)
(* requests and every bound.                                               *)
(***************************************************************************)
EXTENDS StripeWebhooks, FiniteSetTheorems, TLAPS

USE EventsAreFinite, NoEventIsNull, NoVersionIsNull, NotSentIsNull, WebhookBounds

\* An event is claimed only by a delivery, and it has been sent before that; what
\* it says is no later than the subscription.
SentBefore ==
  /\ \A e \in Event : claim[e] # "absent" => message[e] # NotSent
  /\ \A e \in Event : message[e] # NotSent => message[e].version[2] <= latest[message[e].version[1]]

\* What a subscription event does to the billing row.
Applied(e) == message[e].kind # "other" =>
                held[message[e].version[1]] >= message[e].version[2]

\* A handler that writes has the version of its event or, retrieved, a later one;
\* one that has written has applied it.
BodyApplies ==
  \A h \in Delivery :
    LET m == message[event[h]] IN
    /\ pc[h] = "write" => /\ seen[h][1] = m.version[1] /\ seen[h][2] >= m.version[2]
                          /\ m.kind = "payload" => seen[h] = m.version
    /\ pc[h] \in {"read", "start", "enqueue", "finish"} => Applied(event[h])

\* The event of a usable subscription.
Bought(e) == message[e].kind = "payload" /\ Usable(message[e].version)

\* Whoever finishes with one, or enqueues, has seen the workspace started.
BodyStarts ==
  /\ \A h \in Delivery : pc[h] = "finish" /\ Bought(event[h]) => status # "billing_required"
  /\ \A h \in Handler : pc[h] = "enqueue" => status # "billing_required"

\* The update of the status chooses the one who enqueues.
OneEnqueues ==
  /\ queued <= 1
  /\ status = "billing_required" => queued = 0
  /\ \A h \in Handler : pc[h] = "enqueue" => queued = 0
  /\ \A g, h \in Handler : pc[g] = "enqueue" /\ pc[h] = "enqueue" => g = h

\* A claim that may be taken counts as one more handler.
Open(e) == IF claim[e] \in {"absent", "free", "stale"} THEN 1 ELSE 0
ClaimsCounted == \A e \in Event : Cardinality(Handling(e)) + Open(e) <= 1 + slow[e]

-----------------------------------------------------------------------------
LEMMA TypeInit == Init => TypeOK
<1> SUFFICES ASSUME Init PROVE TypeOK
  OBVIOUS
<1> USE DEF Init, Pcs, Handler, Version, Message
<1>1. 0 \in 0..MaxSlow /\ 0 \in 0..MaxFaults
  OBVIOUS
<1>2. /\ offered \subseteq Sub /\ latest \in [Sub -> Nat] /\ good \subseteq Version
      /\ message \in [Event -> Message \cup {NotSent}] /\ acked \subseteq Event
      /\ pc \in [Handler -> Pcs] /\ event \in [Handler -> Event \cup {NoEvent}]
      /\ seen \in [Handler -> Version \cup {NoVersion}]
  OBVIOUS
<1>3. /\ claim \in [Event -> {"absent", "fresh", "stale", "free", "processed"}]
      /\ billing \in Version \cup {NoVersion} /\ status \in {"billing_required", "provisioning"}
      /\ queued \in Nat /\ held \in [Sub -> Nat]
      /\ slow \in [Event -> 0..MaxSlow] /\ faults \in 0..MaxFaults
  BY <1>1
<1>4. \A h \in Handler : pc[h] = "idle"
  OBVIOUS
<1> QED
  BY <1>2, <1>3, <1>4 DEF TypeOK

LEMMA TypeStripe ==
  ASSUME TypeOK, NEW s \in Sub, OpenCheckout(s) \/ SubscriptionChanges(s) \/ OtherEvent(s)
  PROVE  TypeOK'
<1> USE DEF TypeOK, requestVars, stripeVars
<1>1. CASE OpenCheckout(s)
  BY <1>1 DEF OpenCheckout
<1>2. CASE SubscriptionChanges(s)
  <2> DEFINE v == <<s, latest[s] + 1>>
  <2>1. v \in Version /\ latest' \in [Sub -> Nat] /\ good' \subseteq Version
    BY <1>2 DEF SubscriptionChanges, Version
  <2>2. PICK e \in Event : message[e] = NotSent /\ message' = [message EXCEPT ![e] = [kind |-> "payload", version |-> v]]
    BY <1>2 DEF SubscriptionChanges, Send
  <2>3. [kind |-> "payload", version |-> v] \in Message
    BY <2>1 DEF Message
  <2>4. /\ message' \in [Event -> Message \cup {NotSent}]
        /\ \A d \in Event : message[d] # NotSent => message'[d] # NotSent
    BY <2>2, <2>3
  <2> HIDE DEF v
  <2> QED
    BY <1>2, <2>1, <2>4 DEF SubscriptionChanges, Handler
<1>3. CASE OtherEvent(s)
  <2> DEFINE v == <<s, latest[s]>>
  <2>1. v \in Version
    BY DEF Version
  <2>2. PICK kind \in {"fetch", "other"}, e \in Event :
             message[e] = NotSent /\ message' = [message EXCEPT ![e] = [kind |-> kind, version |-> v]]
    BY <1>3 DEF OtherEvent, Send
  <2>3. [kind |-> kind, version |-> v] \in Message
    BY <2>1 DEF Message
  <2>4. /\ message' \in [Event -> Message \cup {NotSent}]
        /\ \A d \in Event : message[d] # NotSent => message'[d] # NotSent
    BY <2>2, <2>3
  <2> HIDE DEF v
  <2> QED
    BY <1>3, <2>1, <2>4 DEF OtherEvent, Handler
<1> QED
  BY <1>1, <1>2, <1>3

LEMMA TypeStep == ASSUME TypeOK, NEW h \in Handler, Step(h) PROVE TypeOK'
<1> USE DEF TypeOK, requestVars, stripeVars, At, Go, Done, Finish, Throw, Fault, Handler, Pcs, Body
<1>1. CASE ClaimInsert(h)
  BY <1>1 DEF ClaimInsert
<1>2. CASE ClaimLook(h)
  BY <1>2 DEF ClaimLook
<1>3. CASE Reclaim(h)
  BY <1>3 DEF Reclaim
<1>4. CASE TakeSubscription(h)
  <2> DEFINE m == message[event[h]]
             v == IF m.kind = "fetch" THEN <<m.version[1], latest[m.version[1]]>> ELSE m.version
  <2>1. h \in Delivery /\ m \in Message /\ m.version \in Version
    BY <1>4 DEF TakeSubscription, Message
  <2>2. v \in Version
    BY <2>1 DEF Version
  <2>3. \/ pc' = [pc EXCEPT ![h] = "finish"] /\ seen' = seen
        \/ pc' = [pc EXCEPT ![h] = "write"] /\ seen' = [seen EXCEPT ![h] = v]
    BY <1>4 DEF TakeSubscription
  <2>4. UNCHANGED <<stripeVars, acked, event, claim, billing, status, queued, held, slow, faults>>
    BY <1>4 DEF TakeSubscription
  <2> HIDE DEF v, m
  <2>5. CASE pc' = [pc EXCEPT ![h] = "finish"] /\ seen' = seen
    BY <2>1, <2>4, <2>5, <1>4 DEF TakeSubscription
  <2>6. CASE pc' = [pc EXCEPT ![h] = "write"] /\ seen' = [seen EXCEPT ![h] = v]
    <3>1. pc' \in [Handler -> Pcs] /\ seen' \in [Handler -> Version \cup {NoVersion}]
      BY <2>2, <2>6
    <3>2. \A g \in Handler : pc'[g] = "write" => seen'[g] \in Version
      BY <2>2, <2>6
    <3>3. /\ \A g \in Handler : pc'[g] # "idle" /\ g \in Delivery => event'[g] \in Event
          /\ \A g \in Handler : pc'[g] \in {"claim", "look", "reclaim", "sync", "write", "finish", "failed"} => g \in Delivery
          /\ \A g \in Delivery : pc'[g] # "idle" => message'[event'[g]] # NotSent
      BY <2>1, <2>4, <2>6, <1>4 DEF TakeSubscription
    <3> QED
      BY <2>4, <3>1, <3>2, <3>3
  <2> QED
    BY <2>3, <2>5, <2>6
<1>5. CASE WriteBilling(h)
  <2>1. seen[h] \in Version /\ seen[h][1] \in Sub /\ seen[h][2] \in Nat
    BY <1>5 DEF WriteBilling, Version
  <2> QED
    BY <1>5, <2>1 DEF WriteBilling
<1>6. CASE ReadWorkspace(h)
  BY <1>6 DEF ReadWorkspace
<1>7. CASE StartProvisioning(h)
  BY <1>7 DEF StartProvisioning
<1>8. CASE EnqueueProvisionJob(h)
  BY <1>8 DEF EnqueueProvisionJob
<1>9. CASE MarkProcessed(h)
  BY <1>9 DEF MarkProcessed
<1>10. CASE MarkFailed(h)
  BY <1>10 DEF MarkFailed
<1> QED
  BY <1>1, <1>2, <1>3, <1>4, <1>5, <1>6, <1>7, <1>8, <1>9, <1>10 DEF Step

LEMMA TypeNext == TypeOK /\ [Next]_vars => TypeOK'
<1> SUFFICES ASSUME TypeOK, [Next]_vars PROVE TypeOK'
  OBVIOUS
<1>1. CASE UNCHANGED vars
  BY <1>1 DEF TypeOK, vars, stripeVars, requestVars
<1>2. ASSUME NEW h \in Delivery, NEW e \in Event, Deliver(h, e) PROVE TypeOK'
  BY <1>2 DEF TypeOK, Deliver, At, Go, stripeVars, requestVars, Handler, Pcs
<1>3. ASSUME NEW h \in Visit, Visiting(h) PROVE TypeOK'
  BY <1>3 DEF TypeOK, Visiting, At, Go, stripeVars, requestVars, Handler, Pcs, Body
<1>4. ASSUME NEW h \in Handler, CallFails(h) \/ Dies(h) PROVE TypeOK'
  BY <1>4 DEF TypeOK, CallFails, Dies, Throw, Done, Fault, At, Go, stripeVars, requestVars, Handler, Pcs, Body
<1>5. ASSUME NEW e \in Event, ClaimIsAbandoned(e) \/ ClaimIsOutlived(e) PROVE TypeOK'
  BY <1>5 DEF TypeOK, ClaimIsAbandoned, ClaimIsOutlived, stripeVars, requestVars
<1> QED
  BY <1>1, <1>2, <1>3, <1>4, <1>5, TypeStripe, TypeStep DEF Next

\* Subscriptions, events, claims, requests and the rows keep their types: no request
\* writes a subscription that it has not been given.
THEOREM WebhookTypeCorrect == Spec => []TypeOK
<1> QED
  BY TypeInit, TypeNext, PTL DEF Spec

-----------------------------------------------------------------------------
\* What no step takes back.

LEMMA NothingIsUnsaid ==
  ASSUME TypeOK, [Next]_vars
  PROVE  /\ \A e \in Event : message[e] # NotSent => message'[e] = message[e]
         /\ \A s \in Sub : latest'[s] >= latest[s]
         /\ \A s \in Sub : held'[s] >= held[s]
         /\ status # "billing_required" => status' # "billing_required"
<1> USE DEF TypeOK, stripeVars, requestVars
<1>1. CASE UNCHANGED vars
  BY <1>1 DEF vars
<1>2. ASSUME NEW s \in Sub, OpenCheckout(s) \/ SubscriptionChanges(s) \/ OtherEvent(s)
      PROVE  /\ \A e \in Event : message[e] # NotSent => message'[e] = message[e]
             /\ \A t \in Sub : latest'[t] >= latest[t]
             /\ held' = held /\ status' = status
  BY <1>2 DEF OpenCheckout, SubscriptionChanges, OtherEvent, Send
<1>3. ASSUME NEW h \in Delivery, NEW e \in Event, Deliver(h, e)
      PROVE  message' = message /\ latest' = latest /\ held' = held /\ status' = status
  BY <1>3 DEF Deliver
<1>4. ASSUME NEW h \in Visit, Visiting(h)
      PROVE  message' = message /\ latest' = latest /\ held' = held /\ status' = status
  BY <1>4 DEF Visiting
<1>5. ASSUME NEW h \in Handler, CallFails(h) \/ Dies(h)
      PROVE  message' = message /\ latest' = latest /\ held' = held /\ status' = status
  BY <1>5 DEF CallFails, Dies
<1>6. ASSUME NEW e \in Event, ClaimIsAbandoned(e) \/ ClaimIsOutlived(e)
      PROVE  message' = message /\ latest' = latest /\ held' = held /\ status' = status
  BY <1>6 DEF ClaimIsAbandoned, ClaimIsOutlived
<1>7. ASSUME NEW h \in Handler, Step(h)
      PROVE  /\ message' = message /\ latest' = latest
             /\ \A t \in Sub : held'[t] >= held[t]
             /\ status # "billing_required" => status' # "billing_required"
  <2>1. CASE WriteBilling(h)
    <3>1. seen[h] \in Version /\ seen[h][1] \in Sub /\ seen[h][2] \in Nat
      BY <2>1 DEF WriteBilling, At, Version
    <3> QED
      BY <2>1, <3>1 DEF WriteBilling
  <2>2. CASE StartProvisioning(h)
    BY <2>2 DEF StartProvisioning
  <2> QED
    BY <1>7, <2>1, <2>2 DEF Step, ClaimInsert, ClaimLook, Reclaim, TakeSubscription, ReadWorkspace,
                            EnqueueProvisionJob, MarkProcessed, MarkFailed
<1>8. /\ \A s \in Sub : latest[s] \in Nat /\ latest[s] >= latest[s]
      /\ \A s \in Sub : held[s] \in Nat /\ held[s] >= held[s]
  OBVIOUS
<1> QED
  BY <1>1, <1>2, <1>3, <1>4, <1>5, <1>6, <1>7, <1>8 DEF Next

\* A delivery stays where it is, leaves the handler's body, or takes a step of it.
LEMMA DeliveryMoves ==
  ASSUME TypeOK, [Next]_vars, NEW h \in Delivery
  PROVE  \/ pc'[h] = pc[h] /\ event'[h] = event[h] /\ seen'[h] = seen[h]
         \/ pc'[h] \in {"idle", "claim", "failed"}
         \/ Step(h)
<1> USE DEF TypeOK, stripeVars, requestVars, Handler
<1>1. CASE UNCHANGED vars
  BY <1>1 DEF vars
<1>2. ASSUME NEW s \in Sub, OpenCheckout(s) \/ SubscriptionChanges(s) \/ OtherEvent(s)
      PROVE  UNCHANGED <<pc, event, seen>>
  BY <1>2 DEF OpenCheckout, SubscriptionChanges, OtherEvent
<1>3. ASSUME NEW g \in Delivery, NEW e \in Event, Deliver(g, e)
      PROVE  \/ pc'[h] = pc[h] /\ event'[h] = event[h] /\ seen'[h] = seen[h]
             \/ pc'[h] = "claim"
  BY <1>3 DEF Deliver, Go
<1>4. ASSUME NEW g \in Visit, Visiting(g)
      PROVE  pc'[h] = pc[h] /\ event'[h] = event[h] /\ seen'[h] = seen[h]
  BY <1>4 DEF Visiting, Go
<1>5. ASSUME NEW g \in Handler, CallFails(g) \/ Dies(g)
      PROVE  \/ pc'[h] = pc[h] /\ event'[h] = event[h] /\ seen'[h] = seen[h]
             \/ pc'[h] \in {"idle", "failed"}
  BY <1>5 DEF CallFails, Dies, Throw, Done, Go
<1>6. ASSUME NEW e \in Event, ClaimIsAbandoned(e) \/ ClaimIsOutlived(e)
      PROVE  UNCHANGED <<pc, event, seen>>
  BY <1>6 DEF ClaimIsAbandoned, ClaimIsOutlived
<1>7. ASSUME NEW g \in Handler, Step(g), g # h
      PROVE  pc'[h] = pc[h] /\ event'[h] = event[h] /\ seen'[h] = seen[h]
  BY <1>7 DEF Step, ClaimInsert, ClaimLook, Reclaim, TakeSubscription, WriteBilling, ReadWorkspace, StartProvisioning,
              EnqueueProvisionJob, MarkProcessed, MarkFailed, Throw, Done, Finish, Go
<1> QED
  BY <1>1, <1>2, <1>3, <1>4, <1>5, <1>6, <1>7 DEF Next

\* A claim that appears, or turns processed, is the work of a delivery.
LEMMA ClaimMoves ==
  ASSUME TypeOK, [Next]_vars, NEW e \in Event
  PROVE  /\ claim[e] = "absent" /\ claim'[e] # "absent" => message[e] # NotSent
         /\ claim[e] # "processed" /\ claim'[e] = "processed" =>
              \E h \in Delivery : pc[h] = "finish" /\ event[h] = e
<1> USE DEF TypeOK, Handler
<1>1. CASE UNCHANGED vars
  BY <1>1 DEF vars
<1>2. ASSUME NEW s \in Sub, OpenCheckout(s) \/ SubscriptionChanges(s) \/ OtherEvent(s) PROVE claim' = claim
  BY <1>2 DEF OpenCheckout, SubscriptionChanges, OtherEvent
<1>3. ASSUME NEW h \in Delivery, NEW d \in Event, Deliver(h, d) PROVE claim' = claim
  BY <1>3 DEF Deliver
<1>4. ASSUME NEW h \in Visit, Visiting(h) PROVE claim' = claim
  BY <1>4 DEF Visiting
<1>5. ASSUME NEW h \in Handler, CallFails(h) \/ Dies(h) PROVE claim' = claim
  BY <1>5 DEF CallFails, Dies
<1>6. ASSUME NEW d \in Event, ClaimIsAbandoned(d) \/ ClaimIsOutlived(d)
      PROVE  claim'[e] = claim[e] \/ (claim[e] = "fresh" /\ claim'[e] = "stale")
  <2>1. claim[d] = "fresh" /\ claim' = [claim EXCEPT ![d] = "stale"]
    BY <1>6 DEF ClaimIsAbandoned, ClaimIsOutlived
  <2> QED
    BY <2>1
<1>7. ASSUME NEW h \in Handler, Step(h)
      PROVE  \/ claim'[e] = claim[e]
             \/ h \in Delivery /\ event[h] = e /\ message[e] # NotSent /\ claim'[e] \in {"fresh", "free"}
             \/ h \in Delivery /\ event[h] = e /\ message[e] # NotSent /\ pc[h] = "finish"
  <2>1. CASE ClaimInsert(h) \/ Reclaim(h) \/ MarkFailed(h)
    BY <2>1 DEF ClaimInsert, Reclaim, MarkFailed, At
  <2>2. CASE MarkProcessed(h)
    BY <2>2 DEF MarkProcessed, At
  <2> QED
    BY <1>7, <2>1, <2>2 DEF Step, ClaimLook, TakeSubscription, WriteBilling, ReadWorkspace, StartProvisioning,
                            EnqueueProvisionJob
<1> QED
  BY <1>1, <1>2, <1>3, <1>4, <1>5, <1>6, <1>7 DEF Next

-----------------------------------------------------------------------------
\* Events and the versions they were sent for.

LEMMA SentInit == Init => SentBefore
BY DEF Init, SentBefore

LEMMA SentNext == TypeOK /\ SentBefore /\ [Next]_vars => SentBefore'
<1> SUFFICES ASSUME TypeOK, SentBefore, [Next]_vars PROVE SentBefore'
  OBVIOUS
<1> USE DEF SentBefore
<1>1. ASSUME NEW e \in Event, claim'[e] # "absent" PROVE message'[e] # NotSent
  BY <1>1, ClaimMoves, NothingIsUnsaid
<1>2. ASSUME NEW e \in Event, message'[e] # NotSent
      PROVE  message'[e].version[2] <= latest'[message'[e].version[1]]
  <2>1. CASE message[e] # NotSent
    <3>1. message[e].version[1] \in Sub /\ message[e].version[2] \in Nat /\ message'[e] = message[e]
      BY <2>1, NothingIsUnsaid DEF TypeOK, Message, Version
    <3>2. latest'[message[e].version[1]] \in Nat /\ latest[message[e].version[1]] \in Nat
      BY <3>1, TypeNext DEF TypeOK
    <3> QED
      BY <2>1, <3>1, <3>2, NothingIsUnsaid
  <2>2. CASE message[e] = NotSent
    <3>1. PICK s \in Sub : SubscriptionChanges(s) \/ OtherEvent(s)
      <4>1. CASE UNCHANGED vars
        BY <1>2, <2>2, <4>1 DEF vars, stripeVars
      <4>2. ASSUME NEW s \in Sub, OpenCheckout(s) PROVE FALSE
        BY <1>2, <2>2, <4>2 DEF OpenCheckout
      <4>3. ASSUME NEW h \in Handler, Step(h) PROVE FALSE
        BY <1>2, <2>2, <4>3 DEF Step, ClaimInsert, ClaimLook, Reclaim, TakeSubscription, WriteBilling, ReadWorkspace,
              StartProvisioning, EnqueueProvisionJob, MarkProcessed, MarkFailed, stripeVars
      <4>4. ASSUME NEW h \in Handler, NEW d \in Event,
                   \/ Deliver(h, d) \/ Visiting(h) \/ CallFails(h) \/ Dies(h)
                   \/ ClaimIsAbandoned(d) \/ ClaimIsOutlived(d)
            PROVE  FALSE
        BY <1>2, <2>2, <4>4 DEF Deliver, Visiting, CallFails, Dies, ClaimIsAbandoned, ClaimIsOutlived, stripeVars
      <4>5. ASSUME NEW d \in Event, ClaimIsAbandoned(d) \/ ClaimIsOutlived(d) PROVE FALSE
        BY <1>2, <2>2, <4>5 DEF ClaimIsAbandoned, ClaimIsOutlived, stripeVars
      <4>6. ASSUME NEW h \in Handler, Visiting(h) \/ CallFails(h) \/ Dies(h) PROVE FALSE
        BY <1>2, <2>2, <4>6 DEF Visiting, CallFails, Dies, stripeVars
      <4> QED
        BY <4>1, <4>2, <4>3, <4>4, <4>5, <4>6 DEF Next, Handler
    <3>2. message'[e].version = <<s, latest'[s]>> /\ latest'[s] \in Nat
      <4>1. CASE SubscriptionChanges(s)
        <5>1. PICK d \in Event : message' = [message EXCEPT ![d] = [kind |-> "payload", version |-> <<s, latest[s] + 1>>]]
          BY <4>1 DEF SubscriptionChanges, Send
        <5>2. d = e
          BY <1>2, <2>2, <5>1 DEF TypeOK
        <5>3. latest'[s] = latest[s] + 1 /\ latest[s] \in Nat
          BY <4>1 DEF SubscriptionChanges, TypeOK
        <5>4. message'[e] = [kind |-> "payload", version |-> <<s, latest'[s]>>]
          BY <5>1, <5>2, <5>3 DEF TypeOK
        <5> QED
          BY <5>3, <5>4
      <4>2. CASE OtherEvent(s)
        BY <1>2, <2>2, <4>2 DEF OtherEvent, Send, TypeOK
      <4> QED
        BY <3>1, <4>1, <4>2
    <3> QED
      BY <3>2
  <2> QED
    BY <2>1, <2>2
<1> QED
  BY <1>1, <1>2

-----------------------------------------------------------------------------
\* An event that is processed has been applied.

LEMMA AppliedStays ==
  ASSUME TypeOK, [Next]_vars, NEW e \in Event, message[e] # NotSent, Applied(e)
  PROVE  Applied(e)'
<1>1. message[e].version[1] \in Sub /\ message[e].version[2] \in Nat /\ message'[e] = message[e]
  BY NothingIsUnsaid DEF TypeOK, Message, Version
<1>2. held[message[e].version[1]] \in Nat /\ held'[message[e].version[1]] \in Nat
  BY <1>1, TypeNext DEF TypeOK
<1>3. held'[message[e].version[1]] >= held[message[e].version[1]]
  BY <1>1, NothingIsUnsaid
<1> QED
  BY <1>1, <1>2, <1>3 DEF Applied

LEMMA BodyAppliesInit == Init => BodyApplies
BY DEF Init, BodyApplies, Handler

LEMMA BodyAppliesNext == TypeOK /\ SentBefore /\ BodyApplies /\ [Next]_vars => BodyApplies'
<1> SUFFICES ASSUME TypeOK, SentBefore, BodyApplies, [Next]_vars, NEW h \in Delivery
             PROVE  (LET m == message[event[h]] IN
                     /\ pc[h] = "write" => /\ seen[h][1] = m.version[1] /\ seen[h][2] >= m.version[2]
                                           /\ m.kind = "payload" => seen[h] = m.version
                     /\ pc[h] \in {"read", "start", "enqueue", "finish"} => Applied(event[h]))'
  BY DEF BodyApplies
<1> DEFINE e == event[h]
           m == message[e]
<1>1. CASE pc'[h] = pc[h] /\ event'[h] = event[h] /\ seen'[h] = seen[h]
  <2>1. CASE pc[h] = "idle"
    BY <1>1, <2>1
  <2>2. CASE pc[h] # "idle"
    <3>1. e \in Event /\ m # NotSent /\ message'[e] = m
      BY <2>2, NothingIsUnsaid DEF TypeOK, Handler
    <3> QED
      BY <1>1, <3>1, AppliedStays DEF BodyApplies, Applied
  <2> QED
    BY <2>1, <2>2
<1>2. CASE pc'[h] \in {"idle", "claim", "failed"}
  BY <1>2
<1>3. CASE Step(h)
  <2>1. h \in Handler /\ e \in Event /\ m # NotSent /\ message'[e] = m /\ m \in Message
        /\ m.version[1] \in Sub /\ m.version[2] \in Nat
    <3>1. pc[h] # "idle" /\ h \in Handler
      BY <1>3 DEF Step, ClaimInsert, ClaimLook, Reclaim, TakeSubscription, WriteBilling, ReadWorkspace,
              StartProvisioning, EnqueueProvisionJob, MarkProcessed, MarkFailed, At, Handler
    <3>2. e \in Event /\ m # NotSent /\ message'[e] = m
      BY <3>1, NothingIsUnsaid DEF TypeOK
    <3> QED
      BY <3>1, <3>2 DEF TypeOK, Message, Version
  <2> USE DEF At, Go, Finish, Done, Throw
  <2>2. CASE TakeSubscription(h)
    <3>1. event' = event
      BY <2>2 DEF TakeSubscription
    <3>2. CASE m.kind = "other"
      BY <2>1, <2>2, <3>1, <3>2 DEF TakeSubscription, TypeOK, Applied
    <3>3. CASE m.kind = "fetch"
      <4>1. seen'[h] = <<m.version[1], latest[m.version[1]]>> /\ pc'[h] = "write"
        BY <2>1, <2>2, <3>3 DEF TakeSubscription, TypeOK
      <4>2. latest[m.version[1]] \in Nat /\ latest[m.version[1]] >= m.version[2]
        BY <2>1 DEF TypeOK, SentBefore
      <4> QED
        BY <2>1, <3>1, <3>3, <4>1, <4>2
    <3>4. CASE m.kind = "payload"
      <4>1. seen'[h] = m.version /\ pc'[h] = "write"
        BY <2>1, <2>2, <3>4 DEF TakeSubscription, TypeOK
      <4> QED
        BY <2>1, <3>1, <4>1
    <3> QED
      BY <2>1, <3>2, <3>3, <3>4 DEF Message
  <2>3. CASE WriteBilling(h)
    <3>1. event' = event /\ pc'[h] \in {"read", "finish"}
      BY <2>1, <2>3 DEF WriteBilling, TypeOK
    <3>2. /\ seen[h] \in Version /\ seen[h][1] = m.version[1] /\ seen[h][2] >= m.version[2]
          /\ seen[h][2] \in Nat
      BY <2>1, <2>3 DEF WriteBilling, BodyApplies, TypeOK, Version
    <3>3. held'[m.version[1]] >= seen[h][2] /\ held'[m.version[1]] \in Nat
      BY <2>1, <2>3, <3>2 DEF WriteBilling, TypeOK
    <3>4. Applied(e)'
      BY <2>1, <3>1, <3>2, <3>3 DEF Applied
    <3> QED
      BY <3>1, <3>4 DEF Applied
  <2>4. CASE ReadWorkspace(h) \/ StartProvisioning(h) \/ EnqueueProvisionJob(h)
    <3>1. pc[h] \in {"read", "start", "enqueue"} /\ event' = event /\ pc'[h] # "write"
      BY <2>1, <2>4 DEF ReadWorkspace, StartProvisioning, EnqueueProvisionJob, TypeOK
    <3>2. Applied(e)'
      BY <2>1, <3>1, AppliedStays DEF BodyApplies
    <3> QED
      BY <3>1, <3>2 DEF Applied
  <2>5. CASE \/ ClaimInsert(h) \/ ClaimLook(h) \/ Reclaim(h) \/ MarkProcessed(h) \/ MarkFailed(h)
    <3>1. pc'[h] \in {"sync", "look", "reclaim", "idle"}
      BY <2>1, <2>5 DEF ClaimInsert, ClaimLook, Reclaim, MarkProcessed, MarkFailed, TypeOK
    <3> QED
      BY <3>1
  <2> QED
    BY <1>3, <2>2, <2>3, <2>4, <2>5 DEF Step
<1> QED
  BY <1>1, <1>2, <1>3, DeliveryMoves

\* For any interleaving of deliveries, failures and deaths, an acknowledged event
\* has had its effect on the billing row.
THEOREM ProcessedEventsAreApplied == Spec => []ProcessedIsApplied
<1>1. Init => ProcessedIsApplied
  BY DEF Init, ProcessedIsApplied
<1>2. TypeOK /\ SentBefore /\ BodyApplies /\ ProcessedIsApplied /\ [Next]_vars => ProcessedIsApplied'
  <2> SUFFICES ASSUME TypeOK, SentBefore, BodyApplies, ProcessedIsApplied, [Next]_vars,
                      NEW e \in Event, claim'[e] = "processed"
               PROVE  Applied(e)'
    BY DEF ProcessedIsApplied, Applied
  <2>1. message[e] # NotSent /\ Applied(e)
    <3>1. CASE claim[e] = "processed"
      BY <3>1 DEF ProcessedIsApplied, Applied, SentBefore
    <3>2. CASE claim[e] # "processed"
      <4>1. PICK h \in Delivery : pc[h] = "finish" /\ event[h] = e
        BY <3>2, ClaimMoves
      <4> QED
        BY <4>1 DEF BodyApplies, TypeOK
    <3> QED
      BY <3>1, <3>2
  <2> QED
    BY <2>1, AppliedStays
<1> QED
  BY <1>1, <1>2, TypeInit, TypeNext, SentInit, SentNext, BodyAppliesInit, BodyAppliesNext, PTL DEF Spec

-----------------------------------------------------------------------------
\* Provisioning starts once.

LEMMA OneEnqueuesNext == TypeOK /\ OneEnqueues /\ BodyStarts /\ [Next]_vars => OneEnqueues'
<1> SUFFICES ASSUME TypeOK, OneEnqueues, BodyStarts, [Next]_vars PROVE OneEnqueues'
  OBVIOUS
<1> USE DEF OneEnqueues
<1>1. CASE /\ UNCHANGED <<status, queued>>
           /\ \A h \in Handler : pc'[h] = "enqueue" => pc[h] = "enqueue"
  BY <1>1
<1>2. ASSUME NEW h \in Handler, StartProvisioning(h) PROVE OneEnqueues'
  <2>1. CASE status = "billing_required"
    <3>1. /\ status' = "provisioning" /\ queued' = queued /\ queued = 0
          /\ \A g \in Handler : pc[g] # "enqueue"
          /\ \A g \in Handler : pc'[g] = "enqueue" => g = h
      BY <1>2, <2>1 DEF StartProvisioning, Go, TypeOK, BodyStarts
    <3> QED
      BY <3>1
  <2>2. CASE status # "billing_required"
    <3>1. UNCHANGED <<status, queued>> /\ \A g \in Handler : pc'[g] = "enqueue" => pc[g] = "enqueue"
      BY <1>2, <2>2 DEF StartProvisioning, Finish, Done, Go, TypeOK
    <3> QED
      BY <1>1, <3>1
  <2> QED
    BY <2>1, <2>2
<1>3. ASSUME NEW h \in Handler, EnqueueProvisionJob(h) PROVE OneEnqueues'
  <2>1. /\ pc[h] = "enqueue" /\ queued = 0 /\ queued' = 1 /\ status' = status
        /\ status # "billing_required"
    BY <1>3 DEF EnqueueProvisionJob, At, BodyStarts
  <2>2. \A g \in Handler : pc'[g] # "enqueue"
    BY <1>3, <2>1 DEF EnqueueProvisionJob, Finish, Done, Go, TypeOK
  <2> QED
    BY <2>1, <2>2
<1>4. ASSUME NEW h \in Handler, Step(h), ~StartProvisioning(h), ~EnqueueProvisionJob(h)
      PROVE  /\ UNCHANGED <<status, queued>>
             /\ \A g \in Handler : pc'[g] = "enqueue" => pc[g] = "enqueue"
  <2> USE DEF TypeOK, Go, Done, Finish, Throw
  <2>1. CASE ClaimInsert(h) \/ ClaimLook(h) \/ Reclaim(h) \/ MarkProcessed(h) \/ MarkFailed(h)
    BY <2>1 DEF ClaimInsert, ClaimLook, Reclaim, MarkProcessed, MarkFailed
  <2>2. CASE TakeSubscription(h) \/ WriteBilling(h) \/ ReadWorkspace(h)
    BY <2>2 DEF TakeSubscription, WriteBilling, ReadWorkspace
  <2> QED
    BY <1>4, <2>1, <2>2 DEF Step
<1>5. ASSUME NEW h \in Handler, CallFails(h) \/ Dies(h)
      PROVE  /\ UNCHANGED <<status, queued>>
             /\ \A g \in Handler : pc'[g] = "enqueue" => pc[g] = "enqueue"
  BY <1>5 DEF CallFails, Dies, Throw, Done, Go, TypeOK
<1>6. ASSUME NEW h \in Handler, NEW e \in Event, Deliver(h, e) \/ Visiting(h)
      PROVE  /\ UNCHANGED <<status, queued>>
             /\ \A g \in Handler : pc'[g] = "enqueue" => pc[g] = "enqueue"
  BY <1>6 DEF Deliver, Visiting, Go, TypeOK
<1>7. ASSUME NEW h \in Handler, Visiting(h)
      PROVE  /\ UNCHANGED <<status, queued>>
             /\ \A g \in Handler : pc'[g] = "enqueue" => pc[g] = "enqueue"
  BY <1>7 DEF Visiting, Go, TypeOK
<1>8. ASSUME NEW s \in Sub, OpenCheckout(s) \/ SubscriptionChanges(s) \/ OtherEvent(s)
      PROVE  UNCHANGED <<status, queued, pc>>
  BY <1>8 DEF OpenCheckout, SubscriptionChanges, OtherEvent, requestVars
<1>9. ASSUME NEW e \in Event, ClaimIsAbandoned(e) \/ ClaimIsOutlived(e)
      PROVE  UNCHANGED <<status, queued, pc>>
  BY <1>9 DEF ClaimIsAbandoned, ClaimIsOutlived, requestVars
<1>10. CASE UNCHANGED vars
  BY <1>10 DEF vars, requestVars
<1> QED
  BY <1>1, <1>2, <1>3, <1>4, <1>5, <1>6, <1>7, <1>8, <1>9, <1>10 DEF Next, Handler

\* Whether an event is that of a usable subscription is settled when it is sent.
LEMMA BoughtIsSettled ==
  ASSUME TypeOK, SentBefore, [Next]_vars, NEW e \in Event, message[e] # NotSent, Bought(e)'
  PROVE  Bought(e)
<1>1. message'[e] = message[e] /\ message[e].version \in Version
      /\ message[e].version[2] <= latest[message[e].version[1]]
  BY NothingIsUnsaid DEF TypeOK, Message, SentBefore
<1>2. CASE good' = good
  BY <1>1, <1>2 DEF Bought, Usable
<1>3. ASSUME NEW s \in Sub, SubscriptionChanges(s) PROVE Bought(e)
  <2>1. message[e].version # <<s, latest[s] + 1>>
    <3> SUFFICES ASSUME message[e].version = <<s, latest[s] + 1>> PROVE FALSE
      OBVIOUS
    <3>1. message[e].version[1] = s /\ message[e].version[2] = latest[s] + 1 /\ latest[s] \in Nat
      BY DEF TypeOK
    <3> QED
      BY <1>1, <3>1
  <2> QED
    BY <1>1, <1>3, <2>1 DEF SubscriptionChanges, Bought, Usable
<1>4. ASSUME ~\E s \in Sub : SubscriptionChanges(s) PROVE good' = good
  BY <1>4 DEF Next, vars, Step, OpenCheckout, OtherEvent, Deliver, Visiting, CallFails, Dies, ClaimIsAbandoned, ClaimIsOutlived,
              ClaimInsert, ClaimLook, Reclaim, TakeSubscription, WriteBilling, ReadWorkspace, StartProvisioning,
              EnqueueProvisionJob, MarkProcessed, MarkFailed, stripeVars
<1> QED
  BY <1>2, <1>3, <1>4

\* The owner's request takes part in the body from the read on.
LEMMA VisitMoves ==
  ASSUME TypeOK, [Next]_vars, NEW h \in Handler, pc'[h] = "enqueue"
  PROVE  pc[h] = "enqueue" \/ status' # "billing_required"
<1> USE DEF TypeOK, Go, Done, Finish, Throw
<1>1. CASE UNCHANGED vars
  BY <1>1 DEF vars, requestVars
<1>2. ASSUME NEW g \in Handler, StartProvisioning(g) PROVE pc[h] = "enqueue" \/ status' # "billing_required"
  BY <1>2 DEF StartProvisioning
<1>3. ASSUME NEW g \in Handler, Step(g), ~StartProvisioning(g) PROVE pc[h] = "enqueue"
  <2>1. CASE ClaimInsert(g) \/ ClaimLook(g) \/ Reclaim(g) \/ MarkProcessed(g) \/ MarkFailed(g)
    BY <2>1 DEF ClaimInsert, ClaimLook, Reclaim, MarkProcessed, MarkFailed
  <2>2. CASE TakeSubscription(g) \/ WriteBilling(g) \/ ReadWorkspace(g) \/ EnqueueProvisionJob(g)
    BY <2>2 DEF TakeSubscription, WriteBilling, ReadWorkspace, EnqueueProvisionJob
  <2> QED
    BY <1>3, <2>1, <2>2 DEF Step
<1>4. ASSUME NEW g \in Handler, CallFails(g) \/ Dies(g) \/ Visiting(g) PROVE pc[h] = "enqueue"
  BY <1>4 DEF CallFails, Dies, Visiting
<1>5. ASSUME NEW g \in Handler, NEW e \in Event, Deliver(g, e) PROVE pc[h] = "enqueue"
  BY <1>5 DEF Deliver
<1>6. ASSUME NEW s \in Sub, OpenCheckout(s) \/ SubscriptionChanges(s) \/ OtherEvent(s) PROVE pc[h] = "enqueue"
  BY <1>6 DEF OpenCheckout, SubscriptionChanges, OtherEvent, requestVars
<1>7. ASSUME NEW e \in Event, ClaimIsAbandoned(e) \/ ClaimIsOutlived(e) PROVE pc[h] = "enqueue"
  BY <1>7 DEF ClaimIsAbandoned, ClaimIsOutlived, requestVars
<1> QED
  BY <1>1, <1>2, <1>3, <1>4, <1>5, <1>6, <1>7 DEF Next, Handler

LEMMA BodyStartsNext ==
  TypeOK /\ SentBefore /\ BodyApplies /\ BodyStarts /\ [Next]_vars => BodyStarts'
<1> SUFFICES ASSUME TypeOK, SentBefore, BodyApplies, BodyStarts, [Next]_vars PROVE BodyStarts'
  OBVIOUS
<1>1. ASSUME NEW h \in Handler, pc'[h] = "enqueue" PROVE status' # "billing_required"
  BY <1>1, VisitMoves, NothingIsUnsaid DEF BodyStarts
<1>2. ASSUME NEW h \in Delivery, pc'[h] = "finish", Bought(event[h])' PROVE status' # "billing_required"
  <2> DEFINE e == event[h]
  <2>1. pc[h] # "idle" /\ event'[h] = e
    <3>1. CASE Step(h)
      BY <1>2, <3>1 DEF Step, ClaimInsert, ClaimLook, Reclaim, TakeSubscription, WriteBilling, ReadWorkspace, StartProvisioning,
              EnqueueProvisionJob, MarkProcessed, MarkFailed, At, Go, Done, Finish, Throw, TypeOK, Handler
    <3> QED
      BY <1>2, <3>1, DeliveryMoves
  <2>2. e \in Event /\ message[e] # NotSent
    BY <2>1 DEF TypeOK, Handler
  <2>3. Bought(e)
    BY <1>2, <2>1, <2>2, BoughtIsSettled DEF Bought
  <2>4. CASE pc[h] = "finish"
    BY <2>3, <2>4, NothingIsUnsaid DEF BodyStarts
  <2>5. CASE Step(h)
    <3> USE DEF At, Go, Done, Finish, Throw, TypeOK, Handler
    <3>1. CASE TakeSubscription(h)
      BY <1>2, <2>3, <3>1 DEF TakeSubscription, Bought
    <3>2. CASE WriteBilling(h)
      BY <1>2, <2>3, <3>2 DEF WriteBilling, BodyApplies, Bought, Usable
    <3>3. CASE ReadWorkspace(h)
      BY <1>2, <3>3 DEF ReadWorkspace
    <3>4. CASE StartProvisioning(h)
      BY <1>2, <3>4 DEF StartProvisioning
    <3>5. CASE EnqueueProvisionJob(h)
      BY <1>2, <3>5 DEF EnqueueProvisionJob, BodyStarts
    <3>6. CASE ClaimInsert(h) \/ ClaimLook(h) \/ Reclaim(h) \/ MarkProcessed(h) \/ MarkFailed(h)
      BY <1>2, <3>6 DEF ClaimInsert, ClaimLook, Reclaim, MarkProcessed, MarkFailed
    <3> QED
      BY <2>5, <3>1, <3>2, <3>3, <3>4, <3>5, <3>6 DEF Step
  <2> QED
    BY <1>2, <2>4, <2>5, DeliveryMoves
<1> QED
  BY <1>1, <1>2 DEF BodyStarts

\* For any number of deliveries and requests, whatever fails: one provision job.
THEOREM ProvisioningStartsOnce == Spec => []StartedOnce
<1>1. Init => OneEnqueues /\ BodyStarts
  BY DEF Init, OneEnqueues, BodyStarts, Handler
<1>2. OneEnqueues /\ TypeOK => StartedOnce
  BY DEF OneEnqueues, StartedOnce, TypeOK
<1> QED
  BY <1>1, <1>2, TypeInit, TypeNext, SentInit, SentNext, BodyAppliesInit, BodyAppliesNext, BodyStartsNext,
     OneEnqueuesNext, PTL DEF Spec

\* In whatever order events arrive and rows are overwritten, a processed payment
\* has moved the workspace out of billing_required.
THEOREM PaymentsLeaveTheGate == Spec => []PaidLeavesGate
<1> DEFINE GateInv == \A e \in Event : claim[e] = "processed" /\ Bought(e) => status # "billing_required"
<1>1. Init => GateInv /\ BodyStarts
  BY DEF Init, BodyStarts, Handler
<1>2. TypeOK /\ SentBefore /\ BodyStarts /\ GateInv /\ [Next]_vars => GateInv'
  <2> SUFFICES ASSUME TypeOK, SentBefore, BodyStarts, GateInv, [Next]_vars,
                      NEW e \in Event, claim'[e] = "processed", Bought(e)'
               PROVE  status' # "billing_required"
    BY DEF Bought
  <2>1. CASE claim[e] = "processed"
    <3>1. message[e] # NotSent
      BY <2>1 DEF SentBefore
    <3> QED
      BY <2>1, <3>1, BoughtIsSettled, NothingIsUnsaid
  <2>2. CASE claim[e] # "processed"
    <3>1. PICK h \in Delivery : pc[h] = "finish" /\ event[h] = e
      BY <2>2, ClaimMoves
    <3>2. message[e] # NotSent
      BY <3>1 DEF TypeOK
    <3> QED
      BY <3>1, <3>2, BoughtIsSettled, NothingIsUnsaid DEF BodyStarts
  <2> QED
    BY <2>1, <2>2
<1>3. GateInv => PaidLeavesGate
  BY DEF PaidLeavesGate, Paid, Bought
<1> HIDE DEF GateInv
<1> QED
  BY <1>1, <1>2, <1>3, TypeInit, TypeNext, SentInit, SentNext, BodyAppliesInit, BodyAppliesNext, BodyStartsNext, PTL DEF Spec

-----------------------------------------------------------------------------
\* Handlers of one event.

LEMMA HandlersAreCounted ==
  ASSUME NEW e PROVE IsFiniteSet(Handling(e)) /\ Cardinality(Handling(e)) \in Nat
<1>1. Handling(e) \subseteq Delivery
  BY DEF Handling
<1> QED
  BY <1>1, FS_Subset, FS_CardinalityType

\* A step leaves an event's handlers and claim alone, or does one of four things.
LEMMA HandlersMove ==
  ASSUME TypeOK, [Next]_vars, NEW e \in Event
  PROVE  \/ (Handling(e))' \subseteq Handling(e) /\ slow'[e] = slow[e] /\ claim'[e] \in {claim[e], "processed"}
         \/ \E h \in Delivery : /\ (Handling(e))' \subseteq Handling(e) \cup {h} /\ slow'[e] = slow[e]
                                /\ claim[e] \in {"absent", "free", "stale"} /\ claim'[e] = "fresh"
         \/ \E h \in Handling(e) : (Handling(e))' \subseteq Handling(e) \ {h} /\ slow'[e] = slow[e]
         \/ (Handling(e))' = {} /\ slow'[e] = slow[e]
         \/ (Handling(e))' = Handling(e) /\ slow'[e] = slow[e] + 1 /\ claim[e] = "fresh"
<1> USE DEF TypeOK
<1> DEFINE Same == (Handling(e))' \subseteq Handling(e) /\ slow'[e] = slow[e] /\ claim'[e] \in {claim[e], "processed"}
<1>1. CASE UNCHANGED <<pc, event, claim, slow>>
  BY <1>1 DEF Handling
<1>2. ASSUME NEW h \in Handler, NEW d \in Event, Deliver(h, d) PROVE Same
  BY <1>2 DEF Deliver, Handling, Go, At, Body, Handler
<1>3. ASSUME NEW h \in Visit, Visiting(h) PROVE Same
  BY <1>3 DEF Visiting, Handling, Go, Handler
<1>4. ASSUME NEW h \in Handler, CallFails(h) \/ Dies(h) PROVE Same
  BY <1>4 DEF CallFails, Dies, Throw, Done, Handling, Go, Body, Handler
<1>5. ASSUME NEW h \in Handler, ClaimLook(h) \/ MarkProcessed(h) PROVE Same
  BY <1>5 DEF ClaimLook, MarkProcessed, Done, Handling, Go, Body, Handler
<1>6. ASSUME NEW h \in Handler,
             \/ TakeSubscription(h) \/ WriteBilling(h) \/ ReadWorkspace(h) \/ StartProvisioning(h) \/ EnqueueProvisionJob(h)
      PROVE  Same
  <2>1. UNCHANGED <<claim, slow>> /\ pc[h] \in Body
    BY <1>6 DEF TakeSubscription, WriteBilling, ReadWorkspace, StartProvisioning, EnqueueProvisionJob, At, Body
  <2>2. /\ \A g \in Handler \ {h} : pc'[g] = pc[g] /\ event'[g] = event[g]
        /\ event'[h] = event[h] \/ pc'[h] = "idle"
    BY <1>6 DEF TakeSubscription, WriteBilling, ReadWorkspace, StartProvisioning, EnqueueProvisionJob, Finish, Throw, Done, Go
  <2> QED
    BY <2>1, <2>2 DEF Handling, Body, Handler
<1>7. ASSUME NEW h \in Handler, ClaimInsert(h) \/ Reclaim(h)
      PROVE  \/ Same
             \/ \E g \in Delivery : /\ (Handling(e))' \subseteq Handling(e) \cup {g} /\ slow'[e] = slow[e]
                                    /\ claim[e] \in {"absent", "free", "stale"} /\ claim'[e] = "fresh"
  <2>1. h \in Delivery /\ event[h] \in Event /\ slow' = slow
    BY <1>7 DEF ClaimInsert, Reclaim, At
  <2>2. CASE /\ claim' = claim
             /\ \E label \in {"look", "idle"} : pc' = [pc EXCEPT ![h] = label]
             /\ \A g \in Handler \ {h} : event'[g] = event[g]
    <3>1. (Handling(e))' \subseteq Handling(e)
      BY <2>1, <2>2 DEF Handling, Body, Handler
    <3> QED
      BY <2>1, <2>2, <3>1
  <2>3. CASE claim' = [claim EXCEPT ![event[h]] = "fresh"] /\ claim[event[h]] \in {"absent", "free", "stale"}
             /\ event' = event /\ pc' = [pc EXCEPT ![h] = "sync"]
    <3>1. (Handling(e))' \subseteq Handling(e) \cup {h}
      BY <2>1, <2>3 DEF Handling, Handler
    <3>2. CASE event[h] = e
      BY <2>1, <2>3, <3>1, <3>2
    <3>3. CASE event[h] # e
      <4>1. (Handling(e))' \subseteq Handling(e)
        BY <2>1, <2>3, <3>3 DEF Handling, Handler
      <4> QED
        BY <2>1, <2>3, <3>3, <4>1
    <3> QED
      BY <3>2, <3>3
  <2> QED
    BY <1>7, <2>2, <2>3 DEF ClaimInsert, Reclaim, MayReclaim, Go, Done
<1>8. ASSUME NEW h \in Handler, MarkFailed(h)
      PROVE  Same \/ \E g \in Handling(e) : (Handling(e))' \subseteq Handling(e) \ {g} /\ slow'[e] = slow[e]
  <2>1. h \in Delivery /\ pc[h] = "failed" /\ slow' = slow /\ pc' = [pc EXCEPT ![h] = "idle"]
        /\ \A g \in Handler \ {h} : event'[g] = event[g]
    BY <1>8 DEF MarkFailed, At, Done, Go
  <2>2. (Handling(e))' \subseteq Handling(e) \ {h}
    BY <2>1 DEF Handling, Handler, Body
  <2>3. CASE event[h] = e
    BY <2>1, <2>2, <2>3 DEF Handling
  <2>4. CASE event[h] # e
    BY <1>8, <2>1, <2>2, <2>4 DEF MarkFailed
  <2> QED
    BY <2>3, <2>4
<1>9. ASSUME NEW d \in Event, ClaimIsAbandoned(d)
      PROVE  Same \/ ((Handling(e))' = {} /\ slow'[e] = slow[e])
  <2>1. (Handling(e))' = Handling(e) /\ slow' = slow
    BY <1>9 DEF ClaimIsAbandoned, Handling, requestVars
  <2> QED
    BY <1>9, <2>1 DEF ClaimIsAbandoned
<1>10. ASSUME NEW d \in Event, ClaimIsOutlived(d)
       PROVE  Same \/ ((Handling(e))' = Handling(e) /\ slow'[e] = slow[e] + 1 /\ claim[e] = "fresh")
  <2>1. (Handling(e))' = Handling(e)
    BY <1>10 DEF ClaimIsOutlived, Handling, requestVars
  <2> QED
    BY <1>10, <2>1 DEF ClaimIsOutlived
<1>11. CASE UNCHANGED vars
  BY <1>1, <1>11 DEF vars, requestVars
<1>12. ASSUME NEW s \in Sub, OpenCheckout(s) \/ SubscriptionChanges(s) \/ OtherEvent(s)
       PROVE  UNCHANGED <<pc, event, claim, slow>>
  BY <1>12 DEF OpenCheckout, SubscriptionChanges, OtherEvent, requestVars
<1> HIDE DEF Same
<1>13. ASSUME NEW h \in Handler, Step(h)
       PROVE  \/ Same
              \/ \E g \in Delivery : /\ (Handling(e))' \subseteq Handling(e) \cup {g} /\ slow'[e] = slow[e]
                                     /\ claim[e] \in {"absent", "free", "stale"} /\ claim'[e] = "fresh"
              \/ \E g \in Handling(e) : (Handling(e))' \subseteq Handling(e) \ {g} /\ slow'[e] = slow[e]
  BY <1>5, <1>6, <1>7, <1>8, <1>13 DEF Step
<1>14. Same => (Handling(e))' \subseteq Handling(e) /\ slow'[e] = slow[e] /\ claim'[e] \in {claim[e], "processed"}
  BY DEF Same
<1> QED
  BY <1>1, <1>2, <1>3, <1>4, <1>9, <1>10, <1>11, <1>12, <1>13, <1>14 DEF Next, Handler

\* For any number of deliveries at once: an event has no more handlers than claims
\* that were outlived, and one.
THEOREM ClaimsKeepHandlersApart == Spec => []ClaimsExclude
<1>1. Init => ClaimsCounted
  <2> SUFFICES ASSUME Init, NEW e \in Event PROVE Cardinality(Handling(e)) + Open(e) <= 1 + slow[e]
    BY DEF ClaimsCounted
  <2>1. Handling(e) = {}
    BY DEF Init, Handling, Body, Handler
  <2>2. Cardinality(Handling(e)) = 0
    BY <2>1, FS_EmptySet
  <2> QED
    BY <2>2 DEF Init, Open
<1>2. TypeOK /\ ClaimsCounted /\ [Next]_vars => ClaimsCounted'
  <2> SUFFICES ASSUME TypeOK, TypeOK', ClaimsCounted, [Next]_vars, NEW e \in Event
               PROVE  (Cardinality(Handling(e)) + Open(e) <= 1 + slow[e])'
    BY TypeNext DEF ClaimsCounted
  <2> DEFINE H == Handling(e)
             n == Cardinality(H)
  <2>1. /\ IsFiniteSet(H) /\ IsFiniteSet(H') /\ n \in Nat /\ n' \in Nat
        /\ slow[e] \in Nat /\ slow'[e] \in Nat
        /\ Open(e) \in 0..1 /\ (Open(e))' \in 0..1 /\ n + Open(e) <= 1 + slow[e]
    <3>1. slow[e] \in 0..MaxSlow /\ slow'[e] \in 0..MaxSlow
      BY DEF TypeOK
    <3>2. H \subseteq Delivery /\ H' \subseteq Delivery
      BY DEF Handling
    <3>3. IsFiniteSet(H) /\ IsFiniteSet(H')
      BY <3>2, FS_Subset
    <3> QED
      BY <3>1, <3>3, FS_CardinalityType DEF Open, ClaimsCounted
  <2>2. CASE H' \subseteq H /\ slow'[e] = slow[e] /\ claim'[e] \in {claim[e], "processed"}
    <3>1. n' <= n
      BY <2>1, <2>2, FS_Subset
    <3>2. (Open(e))' <= Open(e)
      BY <2>2 DEF Open
    <3> HIDE DEF n, H
    <3> QED
      BY <2>1, <2>2, <3>1, <3>2 DEF n, H
  <2>3. ASSUME NEW h \in Delivery, H' \subseteq H \cup {h}, slow'[e] = slow[e],
               claim[e] \in {"absent", "free", "stale"}, claim'[e] = "fresh"
        PROVE  n' + (Open(e))' <= 1 + slow'[e]
    <3>1. IsFiniteSet(H \cup {h}) /\ Cardinality(H \cup {h}) \in Nat /\ Cardinality(H \cup {h}) <= n + 1
      <4>1. IsFiniteSet(H \cup {h}) /\ (Cardinality(H \cup {h}) = n \/ Cardinality(H \cup {h}) = n + 1)
        BY <2>1, FS_AddElement
      <4> HIDE DEF n, H
      <4> QED
        BY <2>1, <4>1
    <3>2. n' <= Cardinality(H \cup {h})
      BY <2>1, <2>3, <3>1, FS_Subset
    <3>3. Open(e) = 1 /\ (Open(e))' = 0
      BY <2>3 DEF Open
    <3> HIDE DEF n, H
    <3> QED
      BY <2>1, <2>3, <3>1, <3>2, <3>3
  <2>4. ASSUME NEW h \in H, H' \subseteq H \ {h}, slow'[e] = slow[e]
        PROVE  n' + (Open(e))' <= 1 + slow'[e]
    <3>1. IsFiniteSet(H \ {h}) /\ Cardinality(H \ {h}) = n - 1
      BY <2>1, FS_RemoveElement
    <3>2. n' <= n - 1
      BY <2>1, <2>4, <3>1, FS_Subset
    <3> HIDE DEF n, H
    <3> QED
      BY <2>1, <2>4, <3>2
  <2>5. CASE H' = {} /\ slow'[e] = slow[e]
    <3>1. n' = 0
      BY <2>5, FS_EmptySet
    <3> HIDE DEF n, H
    <3> QED
      BY <2>1, <3>1 DEF n, H
  <2>6. CASE H' = H /\ slow'[e] = slow[e] + 1 /\ claim[e] = "fresh"
    <3>1. n' = n /\ Open(e) = 0
      BY <2>6 DEF Open
    <3> HIDE DEF n, H
    <3> QED
      BY <2>1, <2>6, <3>1 DEF n, H
  <2> QED
    BY <2>2, <2>3, <2>4, <2>5, <2>6, HandlersMove
<1>3. TypeOK /\ ClaimsCounted => ClaimsExclude
  <2> SUFFICES ASSUME TypeOK, ClaimsCounted, NEW e \in Event PROVE Cardinality(Handling(e)) <= 1 + slow[e]
    BY DEF ClaimsExclude
  <2>1. Cardinality(Handling(e)) \in Nat /\ Open(e) \in 0..1 /\ Cardinality(Handling(e)) + Open(e) <= 1 + slow[e]
    BY HandlersAreCounted DEF ClaimsCounted, Open
  <2>2. slow[e] \in 0..MaxSlow
    BY DEF TypeOK
  <2> QED
    BY <2>1, <2>2
<1> QED
  BY <1>1, <1>2, <1>3, TypeInit, TypeNext, PTL DEF Spec
-----------------------------------------------------------------------------
\* The payment gate.

\* Whoever is about to start provisioning has seen a usable subscription.
StartsBought == \A h \in Handler : pc[h] = "start" => good # {}

Settled == {message[e].version : e \in Paid}

LEMMA GoodStays == ASSUME [Next]_vars PROVE good \subseteq good'
<1>1. CASE UNCHANGED vars
  BY <1>1 DEF vars, stripeVars
<1>2. ASSUME NEW s \in Sub, OpenCheckout(s) \/ SubscriptionChanges(s) \/ OtherEvent(s) PROVE good \subseteq good'
  BY <1>2 DEF OpenCheckout, SubscriptionChanges, OtherEvent
<1>3. ASSUME NEW h \in Handler, Step(h) \/ CallFails(h) \/ Dies(h) \/ Visiting(h) PROVE good \subseteq good'
  BY <1>3 DEF Step, CallFails, Dies, Visiting, ClaimInsert, ClaimLook, Reclaim, TakeSubscription, WriteBilling,
              ReadWorkspace, StartProvisioning, EnqueueProvisionJob, MarkProcessed, MarkFailed, stripeVars
<1>4. ASSUME NEW h \in Handler, NEW e \in Event, Deliver(h, e) PROVE good \subseteq good'
  BY <1>4 DEF Deliver, stripeVars
<1>5. ASSUME NEW e \in Event, ClaimIsAbandoned(e) \/ ClaimIsOutlived(e) PROVE good \subseteq good'
  BY <1>5 DEF ClaimIsAbandoned, ClaimIsOutlived, stripeVars
<1> QED
  BY <1>1, <1>2, <1>3, <1>4, <1>5 DEF Next, Handler

LEMMA StartsBoughtNext == TypeOK /\ StartsBought /\ [Next]_vars => StartsBought'
<1> SUFFICES ASSUME TypeOK, StartsBought, [Next]_vars, NEW h \in Handler, pc'[h] = "start"
             PROVE  good' # {}
  BY DEF StartsBought
<1> USE DEF TypeOK, Go, Done, Finish, Throw
<1>1. pc[h] = "start" \/ Usable(billing)
  <2>1. CASE UNCHANGED vars
    BY <2>1 DEF vars, requestVars
  <2>2. ASSUME NEW g \in Handler, ReadWorkspace(g) PROVE pc[h] = "start" \/ Usable(billing)
    BY <2>2 DEF ReadWorkspace
  <2>3. ASSUME NEW g \in Handler, Step(g), ~ReadWorkspace(g) PROVE pc[h] = "start"
    <3>1. CASE ClaimInsert(g) \/ ClaimLook(g) \/ Reclaim(g) \/ MarkProcessed(g) \/ MarkFailed(g)
      BY <3>1 DEF ClaimInsert, ClaimLook, Reclaim, MarkProcessed, MarkFailed
    <3>2. CASE TakeSubscription(g) \/ WriteBilling(g) \/ StartProvisioning(g) \/ EnqueueProvisionJob(g)
      BY <3>2 DEF TakeSubscription, WriteBilling, StartProvisioning, EnqueueProvisionJob
    <3> QED
      BY <2>3, <3>1, <3>2 DEF Step
  <2>4. ASSUME NEW g \in Handler, CallFails(g) \/ Dies(g) \/ Visiting(g) PROVE pc[h] = "start"
    BY <2>4 DEF CallFails, Dies, Visiting
  <2>5. ASSUME NEW g \in Handler, NEW e \in Event, Deliver(g, e) PROVE pc[h] = "start"
    BY <2>5 DEF Deliver
  <2>6. ASSUME NEW s \in Sub, OpenCheckout(s) \/ SubscriptionChanges(s) \/ OtherEvent(s) PROVE pc[h] = "start"
    BY <2>6 DEF OpenCheckout, SubscriptionChanges, OtherEvent, requestVars
  <2>7. ASSUME NEW e \in Event, ClaimIsAbandoned(e) \/ ClaimIsOutlived(e) PROVE pc[h] = "start"
    BY <2>7 DEF ClaimIsAbandoned, ClaimIsOutlived, requestVars
  <2> QED
    BY <2>1, <2>2, <2>3, <2>4, <2>5, <2>6, <2>7 DEF Next, Handler
<1> QED
  BY <1>1, GoodStays DEF StartsBought, Usable

\* Only the end of a handler makes an event processed, and nothing undoes it.
LEMMA ProcessedMoves ==
  ASSUME TypeOK, [Next]_vars, ~\E h \in Handler : MarkProcessed(h), NEW e \in Event
  PROVE  claim'[e] = "processed" <=> claim[e] = "processed"
<1> USE DEF TypeOK
<1>1. CASE UNCHANGED vars
  BY <1>1 DEF vars
<1>2. ASSUME NEW s \in Sub, OpenCheckout(s) \/ SubscriptionChanges(s) \/ OtherEvent(s) PROVE claim' = claim
  BY <1>2 DEF OpenCheckout, SubscriptionChanges, OtherEvent
<1>3. ASSUME NEW h \in Handler, NEW d \in Event, Deliver(h, d) PROVE claim' = claim
  BY <1>3 DEF Deliver
<1>4. ASSUME NEW h \in Handler, CallFails(h) \/ Dies(h) \/ Visiting(h) PROVE claim' = claim
  BY <1>4 DEF CallFails, Dies, Visiting
<1>5. ASSUME NEW d \in Event, ClaimIsAbandoned(d) \/ ClaimIsOutlived(d)
      PROVE  claim[d] = "fresh" /\ claim' = [claim EXCEPT ![d] = "stale"]
  BY <1>5 DEF ClaimIsAbandoned, ClaimIsOutlived
<1>6. ASSUME NEW h \in Handler, Step(h) PROVE claim'[e] = "processed" <=> claim[e] = "processed"
  <2>1. CASE ClaimInsert(h) \/ Reclaim(h)
    BY <2>1 DEF ClaimInsert, Reclaim, MayReclaim
  <2>2. CASE MarkFailed(h)
    BY <2>2 DEF MarkFailed
  <2> QED
    BY <1>6, <2>1, <2>2 DEF Step, ClaimLook, TakeSubscription, WriteBilling, ReadWorkspace, StartProvisioning,
                            EnqueueProvisionJob
<1> QED
  BY <1>1, <1>2, <1>3, <1>4, <1>5, <1>6 DEF Next, Handler

\* While no event becomes processed, the settled payments are the same: what is new of
\* Stripe is no processed event, and does not make one's version usable.
LEMMA SettledStays ==
  ASSUME TypeOK, SentBefore, [Next]_vars,
         \A e \in Event : claim'[e] = "processed" <=> claim[e] = "processed"
  PROVE  Settled' = Settled
<1>1. ASSUME NEW e \in Event, claim[e] = "processed"
      PROVE  message'[e] = message[e] /\ (Bought(e)' <=> Bought(e))
  <2>1. message[e] # NotSent /\ message'[e] = message[e]
    BY <1>1, NothingIsUnsaid DEF SentBefore
  <2> QED
    BY <2>1, BoughtIsSettled, GoodStays DEF Bought, Usable
<1>2. Paid' = Paid
  BY <1>1 DEF Paid, Bought
<1>3. \A e \in Paid : message'[e] = message[e]
  BY <1>1 DEF Paid
<1> QED
  BY <1>2, <1>3 DEF Settled

\* The abstract steps, named in the variables of the webhooks.
LEMMA MarkSettles ==
  ASSUME TypeOK, BodyStarts, NEW h \in Handler, MarkProcessed(h)
  PROVE  /\ UNCHANGED <<good, status, queued>>
         /\ \/ Settled' = Settled
            \/ /\ status # "billing_required"
               /\ \E p \in good : Settled' = Settled \cup {p}
<1> DEFINE e == event[h]
<1>1. /\ pc[h] = "finish" /\ h \in Delivery /\ e \in Event
      /\ claim' = [claim EXCEPT ![e] = "processed"]
      /\ UNCHANGED <<good, status, queued, message>>
  BY DEF MarkProcessed, At, TypeOK, stripeVars
<1>2. Paid' = IF Bought(e) THEN Paid \cup {e} ELSE Paid
  BY <1>1 DEF Paid, Bought, Usable, TypeOK
<1>3. CASE Bought(e)
  BY <1>1, <1>2, <1>3 DEF BodyStarts, Settled, Bought, Usable
<1>4. CASE ~Bought(e)
  BY <1>1, <1>2, <1>4 DEF Settled
<1> QED
  BY <1>1, <1>3, <1>4

LEMMA OthersLeaveGate ==
  ASSUME TypeOK, [Next]_vars,
         ~\E h \in Handler : StartProvisioning(h) \/ EnqueueProvisionJob(h)
  PROVE  UNCHANGED <<status, queued>>
<1>1. CASE UNCHANGED vars
  BY <1>1 DEF vars
<1>2. ASSUME NEW s \in Sub, OpenCheckout(s) \/ SubscriptionChanges(s) \/ OtherEvent(s) PROVE UNCHANGED <<status, queued>>
  BY <1>2 DEF OpenCheckout, SubscriptionChanges, OtherEvent
<1>3. ASSUME NEW h \in Handler, Step(h) \/ CallFails(h) \/ Dies(h) \/ Visiting(h) PROVE UNCHANGED <<status, queued>>
  BY <1>3 DEF Step, CallFails, Dies, Visiting, ClaimInsert, ClaimLook, Reclaim, TakeSubscription, WriteBilling,
              ReadWorkspace, MarkProcessed, MarkFailed
<1>4. ASSUME NEW h \in Handler, NEW e \in Event, Deliver(h, e) PROVE UNCHANGED <<status, queued>>
  BY <1>4 DEF Deliver
<1>5. ASSUME NEW e \in Event, ClaimIsAbandoned(e) \/ ClaimIsOutlived(e) PROVE UNCHANGED <<status, queued>>
  BY <1>5 DEF ClaimIsAbandoned, ClaimIsOutlived
<1> QED
  BY <1>1, <1>2, <1>3, <1>4, <1>5 DEF Next, Handler

LEMMA GateStep ==
  TypeOK /\ SentBefore /\ BodyStarts /\ OneEnqueues /\ StartsBought /\ [Next]_vars
    => [Gate!Next]_(Gate!gateVars)
<1> SUFFICES ASSUME TypeOK, SentBefore, BodyStarts, OneEnqueues, StartsBought, [Next]_vars
             PROVE  [Gate!Next]_(Gate!gateVars)
  OBVIOUS
<1> USE DEF Gate!Next, Gate!gateVars
<1>1. ASSUME NEW h \in Handler, MarkProcessed(h) PROVE [Gate!Next]_(Gate!gateVars)
  BY <1>1, MarkSettles DEF Gate!Settle, Settled
<1>2. ASSUME ~\E h \in Handler : MarkProcessed(h) PROVE Settled' = Settled
  BY <1>2, ProcessedMoves, SettledStays
<1>3. ASSUME NEW h \in Handler, StartProvisioning(h), Settled' = Settled PROVE [Gate!Next]_(Gate!gateVars)
  <2>1. /\ pc[h] = "start" /\ UNCHANGED <<good, queued>>
        /\ \/ status = "billing_required" /\ status' = "provisioning"
           \/ UNCHANGED status
    BY <1>3 DEF StartProvisioning, At, stripeVars
  <2> QED
    BY <1>3, <2>1 DEF Gate!OpenGate, Settled, StartsBought
<1>4. ASSUME NEW h \in Handler, EnqueueProvisionJob(h), Settled' = Settled PROVE [Gate!Next]_(Gate!gateVars)
  <2>1. /\ queued = 0 /\ queued' = 1 /\ status # "billing_required"
        /\ UNCHANGED <<good, status>>
    BY <1>4 DEF EnqueueProvisionJob, At, stripeVars, OneEnqueues, BodyStarts
  <2> QED
    BY <1>4, <2>1 DEF Gate!StartJob, Settled
<1>5. ASSUME ~\E h \in Handler : StartProvisioning(h) \/ EnqueueProvisionJob(h), Settled' = Settled
      PROVE  [Gate!Next]_(Gate!gateVars)
  BY <1>5, OthersLeaveGate, GoodStays DEF Gate!Buy, Settled
<1> QED
  BY <1>1, <1>2, <1>3, <1>4, <1>5

\* Whatever order the deliveries, failures and requests come in, together they are
\* steps of the gate: it opens once, for a payment, for one job, and stays open.
THEOREM WebhooksImplementGate == Spec => ImplementsPaymentGate
<1>1. Init => Gate!Init
  <2> SUFFICES ASSUME Init PROVE Gate!Init
    OBVIOUS
  <2>1. Paid = {} /\ good = {} /\ status = "billing_required" /\ queued = 0
    BY DEF Init, Paid
  <2> QED
    BY <2>1 DEF Gate!Init
<1>2. Init => OneEnqueues /\ BodyStarts /\ StartsBought
  BY DEF Init, OneEnqueues, BodyStarts, StartsBought, Handler
<1> QED
  BY <1>1, <1>2, TypeInit, TypeNext, SentInit, SentNext, BodyAppliesInit, BodyAppliesNext, BodyStartsNext,
     OneEnqueuesNext, StartsBoughtNext, GateStep, PTL DEF Spec, ImplementsPaymentGate, Gate!Spec
=============================================================================
