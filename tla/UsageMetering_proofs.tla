------------------------ MODULE UsageMetering_proofs ------------------------
(***************************************************************************)
(* Proofs about usage metering, for every finite set of calls, every set   *)
(* of retry passes, every allowance, limit and bound.                      *)
(***************************************************************************)
EXTENDS UsageMetering, FiniteSetTheorems, TLAPS

USE CallsAreFinite, NoAnchorIsNull, AllowanceIsNumber, PassBounds, UsageBounds

LEMMA CountIsNumber ==
  ASSUME NEW start PROVE IsFiniteSet(Counted(start)) /\ Cardinality(Counted(start)) \in Nat
<1>1. Counted(start) \subseteq Call
  BY DEF Counted
<1> QED
  BY <1>1, FS_Subset, FS_CardinalityType

LEMMA MonthStartIsInstant == ASSUME NEW t \in Instant PROVE MonthStart(t) \in Instant
<1>1. t % MonthLength \in 0..(MonthLength - 1) /\ t % MonthLength <= t
  BY DEF Instant
<1> QED
  BY <1>1 DEF MonthStart, Instant

\* Rows, calls and passes keep their types: no call counts from outside the
\* clock, whatever period a subscription event names.
THEOREM UsageTypeCorrect == Spec => []TypeOK
<1>1. Init => TypeOK
  <2> SUFFICES ASSUME Init PROVE TypeOK
    OBVIOUS
  <2> USE DEF Init
  <2>1. now \in Instant /\ anchor \in Instant \cup {NoAnchor} /\ usable \in BOOLEAN
    <3>1. 0 \in 0..MaxTime
      OBVIOUS
    <3> QED
      BY <3>1, Zenon DEF Instant
  <2>2. /\ pc \in [Call -> Pcs] /\ at \in [Call -> Instant] /\ base \in [Call -> Instant]
        /\ used \in [Call -> Nat] /\ charges \in [Call -> BOOLEAN]
    BY DEF Instant, Pcs
  <2>3. /\ row \in [Call -> {"none", "included", "ignored", "unreported", "metered", "failed"}]
        /\ held \in [Pass -> SUBSET Call]
        /\ outcome \in [Pass -> [Call -> {"none", "metered", "failed"}]]
    OBVIOUS
  <2> QED
    BY <2>1, <2>2, <2>3 DEF TypeOK
<1>2. TypeOK /\ [Next]_vars => TypeOK'
  <2> SUFFICES ASSUME TypeOK, [Next]_vars PROVE TypeOK'
    OBVIOUS
  <2> USE DEF TypeOK, Pcs, billingVars, callVars, passVars, Go
  <2>1. CASE UNCHANGED vars
    BY <2>1 DEF vars
  <2>2. CASE SubscriptionSynced \/ Tick
    BY <2>2 DEF SubscriptionSynced, Tick, Instant
  <2>3. ASSUME NEW c \in Call, Arrive(c) PROVE TypeOK'
    BY <2>3 DEF Arrive
  <2>4. ASSUME NEW c \in Call, Allocate(c) PROVE TypeOK'
    <3> DEFINE start == IF anchor = NoAnchor THEN MonthStart(at[c]) ELSE anchor
    <3>1. start \in Instant
      BY MonthStartIsInstant
    <3>2. Cardinality(Counted(start)) \in Nat
      BY CountIsNumber
    <3> HIDE DEF start
    <3>3. /\ base' = [base EXCEPT ![c] = start]
          /\ used' = [used EXCEPT ![c] = Cardinality(Counted(start))]
          /\ charges' = [charges EXCEPT ![c] = usable]
          /\ pc' = [pc EXCEPT ![c] = "insert"]
          /\ UNCHANGED <<now, billingVars, at, row, passVars, meter, faults>>
      BY <2>4 DEF Allocate, start
    <3> QED
      BY <3>1, <3>2, <3>3
  <2>5. ASSUME NEW c \in Call, InsertUsage(c) PROVE TypeOK'
    BY <2>5 DEF InsertUsage, EndTransaction, IncludedUnits, Instant
  <2>6. ASSUME NEW c \in Call, Report(c) PROVE TypeOK'
    BY <2>6 DEF Report, ReportSucceeds, ReportFails, Identifier
  <2>7. ASSUME NEW c \in Call, MarkMetered(c) \/ MarkFailed(c) PROVE TypeOK'
    BY <2>7 DEF MarkMetered, MarkFailed
  <2>8. ASSUME NEW c \in Call, CallDies(c) PROVE TypeOK'
    BY <2>8 DEF CallDies, EndTransaction, Instant
  <2>9. ASSUME NEW p \in Pass, StartPass(p) PROVE TypeOK'
    <3>1. PICK T \in Oldest(Candidates) : held' = [held EXCEPT ![p] = T]
      BY <2>9 DEF StartPass
    <3>2. T \subseteq Call
      BY DEF Oldest, Candidates
    <3> QED
      BY <2>9, <3>1, <3>2 DEF StartPass
  <2>10. ASSUME NEW p \in Pass, NEW c \in Call, ReportCandidate(p, c) PROVE TypeOK'
    <3>1. outcome' \in [Pass -> [Call -> {"none", "metered", "failed"}]]
      BY <2>10 DEF ReportCandidate
    <3>2. meter' \subseteq Call \X {"stored", "fresh"} /\ faults' \in 0..MaxFaults
      BY <2>10 DEF ReportCandidate, ReportSucceeds, ReportFails, RetryIdentifier, Identifier
    <3> QED
      BY <2>10, <3>1, <3>2 DEF ReportCandidate
  <2>11. ASSUME NEW p \in Pass, CommitPass(p) \/ PassDies(p) PROVE TypeOK'
    <3>1. held' \in [Pass -> SUBSET Call]
      BY <2>11 DEF CommitPass, PassDies, Unlock
    <3>4. [c \in Call |-> "none"] \in [Call -> {"none", "metered", "failed"}]
      OBVIOUS
    <3>5. outcome' \in [Pass -> [Call -> {"none", "metered", "failed"}]]
      BY <2>11, <3>4 DEF CommitPass, PassDies, Unlock
    <3>2. CASE CommitPass(p)
      <4>1. row' \in [Call -> {"none", "included", "ignored", "unreported", "metered", "failed"}]
        BY <3>2 DEF CommitPass
      <4> QED
        BY <3>1, <3>5, <3>2, <4>1 DEF CommitPass
    <3>3. CASE PassDies(p)
      BY <3>1, <3>5, <3>3 DEF PassDies
    <3> QED
      BY <2>11, <3>2, <3>3
  <2> QED
    BY <2>1, <2>2, <2>3, <2>4, <2>5, <2>6, <2>7, <2>8, <2>9, <2>10, <2>11
    DEF Next, Record, Retry
<1> QED
  BY <1>1, <1>2, PTL DEF Spec

-----------------------------------------------------------------------------
\* What a row says of the calls, passes and meter events about it.

Charged == {"unreported", "metered", "failed"}

\* A row is there once its call has committed, and a call that reports has a
\* row to charge.
RowsFollow ==
  \A c \in Call : /\ pc[c] \in {"idle", "allocate", "insert"} => row[c] = "none"
                  /\ pc[c] \in {"report", "metered", "failed"} => row[c] \in Charged

\* A pass locks rows to charge, and writes to no other.
HeldAreCharged ==
  \A p \in Pass : /\ \A c \in held[p] : row[c] \in Charged
                  /\ \A c \in Call : outcome[p][c] # "none" => c \in held[p]

\* Stripe has counted stored identifiers of rows to charge, and whoever is about
\* to write metered, or did, has had its answer.
MeterIsOfRows == \A id \in meter : \E c \in Call : id = Identifier(c) /\ row[c] \in Charged
MeteredWasCounted ==
  \A c \in Call : /\ row[c] = "metered" \/ pc[c] = "metered" => Identifier(c) \in meter
                  /\ \A p \in Pass : outcome[p][c] = "metered" => Identifier(c) \in meter

CInv == RowsFollow /\ HeldAreCharged /\ MeterIsOfRows /\ MeteredWasCounted

\* A step that leaves calls, rows, passes and meter alone.
LEMMA CInvStays ==
  ASSUME CInv, UNCHANGED <<pc, row, held, outcome, meter>> PROVE CInv'
BY DEF CInv, RowsFollow, HeldAreCharged, MeterIsOfRows, MeteredWasCounted, Charged, Identifier

\* A step of one call.
LEMMA CallKeepsCInv ==
  ASSUME TypeOK, CInv, NEW c \in Call, UNCHANGED <<held, outcome>>,
         \A d \in Call \ {c} : pc'[d] = pc[d] /\ row'[d] = row[d],
         pc'[c] \in {"idle", "allocate", "insert"} => row'[c] = "none",
         pc'[c] \in {"report", "metered", "failed"} => row'[c] \in Charged,
         row[c] \in Charged => row'[c] \in Charged,
         meter \subseteq meter', meter' \subseteq meter \cup {Identifier(c)},
         meter' # meter => row[c] \in Charged,
         row'[c] = "metered" \/ pc'[c] = "metered" => Identifier(c) \in meter'
  PROVE  CInv'
<1> USE DEF CInv
<1>1. RowsFollow'
  BY DEF RowsFollow, Charged
<1>2. HeldAreCharged'
  <2>1. \A p \in Pass : held[p] \subseteq Call
    BY DEF TypeOK
  <2>2. \A d \in Call : row[d] \in Charged => row'[d] \in Charged
    OBVIOUS
  <2> QED
    BY <2>1, <2>2 DEF HeldAreCharged, Charged
<1>3. MeterIsOfRows'
  BY DEF MeterIsOfRows, Charged, Identifier
<1>4. MeteredWasCounted'
  BY DEF MeteredWasCounted, Identifier
<1> QED
  BY <1>1, <1>2, <1>3, <1>4

\* A step of one pass.
LEMMA PassKeepsCInv ==
  ASSUME TypeOK, CInv, NEW p \in Pass, UNCHANGED pc,
         \A q \in Pass \ {p} : held'[q] = held[q] /\ outcome'[q] = outcome[q],
         \A c \in Call : \/ row'[c] = row[c]
                         \/ row[c] \in Charged /\ row'[c] \in Charged,
         \A c \in held'[p] : c \in Call /\ row[c] \in Charged,
         \A c \in Call : outcome'[p][c] # "none" => c \in held'[p],
         meter \subseteq meter',
         \A id \in meter' \ meter : \E c \in Call : id = Identifier(c) /\ row[c] \in Charged,
         \A c \in Call : row'[c] = "metered" /\ row[c] # "metered" => Identifier(c) \in meter,
         \A c \in Call : outcome'[p][c] = "metered" => Identifier(c) \in meter'
  PROVE  CInv'
<1> USE DEF CInv
<1>1. RowsFollow'
  BY DEF RowsFollow, Charged
<1>2. HeldAreCharged'
  <2> SUFFICES ASSUME NEW q \in Pass
               PROVE  /\ \A c \in held'[q] : row'[c] \in Charged
                      /\ \A c \in Call : outcome'[q][c] # "none" => c \in held'[q]
    BY DEF HeldAreCharged, Charged
  <2>1. held'[q] \subseteq Call
    BY DEF TypeOK
  <2>2. CASE q = p
    BY <2>1, <2>2
  <2>3. CASE q # p
    BY <2>1, <2>3 DEF HeldAreCharged
  <2> QED
    BY <2>2, <2>3
<1>3. MeterIsOfRows'
  BY DEF MeterIsOfRows, Charged, Identifier
<1>4. MeteredWasCounted'
  BY DEF MeteredWasCounted, Identifier
<1> QED
  BY <1>1, <1>2, <1>3, <1>4

LEMMA NextCInv == ASSUME TypeOK, CInv, [Next]_vars PROVE CInv'
<1>1. CASE UNCHANGED vars \/ SubscriptionSynced \/ Tick
  BY <1>1, CInvStays DEF vars, SubscriptionSynced, Tick, callVars, passVars
<1>2. ASSUME NEW c \in Call, Arrive(c) \/ Allocate(c) PROVE CInv'
  <2>1. /\ UNCHANGED <<row, held, outcome, meter>>
        /\ \A d \in Call \ {c} : pc'[d] = pc[d]
        /\ pc'[c] \in {"allocate", "insert"} /\ pc[c] \in {"idle", "allocate"}
    BY <1>2 DEF TypeOK, Arrive, Allocate, At, Go, passVars
  <2>2. row[c] = "none"
    BY <2>1 DEF CInv, RowsFollow
  <2> QED
    BY <2>1, <2>2, CallKeepsCInv DEF Charged
<1>3. ASSUME NEW c \in Call, InsertUsage(c) PROVE CInv'
  <2>1. /\ row'[c] \in {"included", "unreported", "ignored"}
        /\ pc[c] = "insert" /\ pc'[c] = IF row'[c] = "unreported" THEN "report" ELSE "done"
        /\ \A d \in Call \ {c} : row'[d] = row[d] /\ pc'[d] = pc[d]
        /\ UNCHANGED <<held, outcome, meter>>
    BY <1>3 DEF TypeOK, InsertUsage, At, Go, passVars
  <2>2. row[c] = "none"
    BY <2>1 DEF CInv, RowsFollow
  <2> QED
    BY <2>1, <2>2, CallKeepsCInv DEF Charged
<1>4. ASSUME NEW c \in Call, Report(c) PROVE CInv'
  <2>1. /\ meter \subseteq meter' /\ meter' \subseteq meter \cup {Identifier(c)}
        /\ \/ pc'[c] = "metered" /\ Identifier(c) \in meter'
           \/ pc'[c] = "failed"
        /\ pc[c] = "report" /\ UNCHANGED <<row, held, outcome>>
        /\ \A d \in Call \ {c} : pc'[d] = pc[d]
    BY <1>4 DEF TypeOK, Report, ReportSucceeds, ReportFails, At, Go, passVars
  <2>2. row[c] \in Charged /\ (row[c] = "metered" => Identifier(c) \in meter)
    BY <2>1 DEF CInv, RowsFollow, MeteredWasCounted
  <2> QED
    BY <2>1, <2>2, CallKeepsCInv
<1>5. ASSUME NEW c \in Call, MarkMetered(c) \/ MarkFailed(c) PROVE CInv'
  <2>1. /\ pc[c] \in {"metered", "failed"} /\ pc'[c] \in {"done", "failed"}
        /\ \/ row'[c] = row[c]
           \/ row'[c] = "failed"
           \/ row'[c] = "metered" /\ pc[c] = "metered"
        /\ \A d \in Call \ {c} : row'[d] = row[d] /\ pc'[d] = pc[d]
        /\ UNCHANGED <<held, outcome, meter>>
    BY <1>5 DEF TypeOK, MarkMetered, MarkFailed, At, Go, passVars
  <2>2. /\ row[c] \in Charged
        /\ row[c] = "metered" \/ pc[c] = "metered" => Identifier(c) \in meter
    BY <2>1 DEF CInv, RowsFollow, MeteredWasCounted
  <2> QED
    BY <2>1, <2>2, CallKeepsCInv DEF Charged
<1>6. ASSUME NEW c \in Call, CallDies(c) PROVE CInv'
  <2>1. /\ pc'[c] = "done" /\ \A d \in Call \ {c} : pc'[d] = pc[d]
        /\ UNCHANGED <<row, held, outcome, meter>>
    BY <1>6 DEF TypeOK, CallDies, Go, passVars
  <2>2. row[c] = "metered" => Identifier(c) \in meter
    BY DEF CInv, MeteredWasCounted
  <2> QED
    BY <2>1, <2>2, CallKeepsCInv
<1>7. ASSUME NEW p \in Pass, StartPass(p) PROVE CInv'
  <2>1. PICK T \in Oldest(Candidates) : held' = [held EXCEPT ![p] = T]
    BY <1>7 DEF StartPass
  <2>2. \A c \in T : c \in Call /\ row[c] \in Charged
    BY DEF Oldest, Candidates, Charged
  <2>3. /\ held[p] = {} /\ held'[p] = T /\ \A q \in Pass \ {p} : held'[q] = held[q]
        /\ UNCHANGED <<pc, row, outcome, meter>>
    BY <1>7, <2>1 DEF TypeOK, StartPass, callVars
  <2>4. \A c \in Call : /\ outcome[p][c] = "none"
                        /\ outcome[p][c] = "metered" => Identifier(c) \in meter
    BY <2>3 DEF CInv, HeldAreCharged
  <2> QED
    BY <2>2, <2>3, <2>4, PassKeepsCInv
<1>8. ASSUME NEW p \in Pass, NEW c \in Call, ReportCandidate(p, c) PROVE CInv'
  <2>1. /\ c \in held[p] /\ UNCHANGED <<pc, row, held>>
        /\ meter \subseteq meter' /\ meter' \subseteq meter \cup {Identifier(c)}
    BY <1>8 DEF ReportCandidate, ReportSucceeds, ReportFails, RetryIdentifier, callVars
  <2>2. /\ \/ outcome'[p][c] = "metered" /\ Identifier(c) \in meter'
           \/ outcome'[p][c] = "failed"
        /\ \A d \in Call \ {c} : outcome'[p][d] = outcome[p][d]
        /\ \A q \in Pass \ {p} : outcome'[q] = outcome[q]
    BY <1>8 DEF TypeOK, ReportCandidate, ReportSucceeds, ReportFails, RetryIdentifier
  <2>3. \A d \in held[p] : d \in Call /\ row[d] \in Charged
    BY DEF TypeOK, CInv, HeldAreCharged
  <2>4. \A d \in Call : outcome'[p][d] # "none" => d \in held'[p]
    BY <2>1, <2>2 DEF CInv, HeldAreCharged
  <2>5. \A d \in Call : outcome'[p][d] = "metered" => Identifier(d) \in meter'
    BY <2>1, <2>2 DEF CInv, MeteredWasCounted
  <2> QED
    BY <2>1, <2>2, <2>3, <2>4, <2>5, PassKeepsCInv
<1>9. ASSUME NEW p \in Pass, CommitPass(p) \/ PassDies(p) PROVE CInv'
  <2>1. /\ held'[p] = {} /\ \A c \in Call : outcome'[p][c] = "none"
        /\ \A q \in Pass \ {p} : held'[q] = held[q] /\ outcome'[q] = outcome[q]
        /\ UNCHANGED <<pc, meter>>
    BY <1>9 DEF TypeOK, CommitPass, PassDies, Unlock, callVars
  <2>2. \A c \in Call : \/ row'[c] = row[c]
                        \/ row'[c] = outcome[p][c] /\ outcome[p][c] # "none"
    BY <1>9 DEF CommitPass, PassDies
  <2>3. \A c \in Call : /\ outcome[p][c] \in {"none", "metered", "failed"}
                        /\ outcome[p][c] # "none" => row[c] \in Charged
                        /\ outcome[p][c] = "metered" => Identifier(c) \in meter
    BY DEF TypeOK, CInv, HeldAreCharged, MeteredWasCounted
  <2> QED
    BY <2>1, <2>2, <2>3, PassKeepsCInv DEF Charged
<1> QED
  BY <1>1, <1>2, <1>3, <1>4, <1>5, <1>6, <1>7, <1>8, <1>9 DEF Next, Record, Retry

LEMMA UsageInvariant == Spec => [](TypeOK /\ CInv)
<1>1. Init => CInv
  BY DEF Init, CInv, RowsFollow, HeldAreCharged, MeterIsOfRows, MeteredWasCounted
<1>2. TypeOK /\ CInv /\ [Next]_vars => CInv'
  BY NextCInv
<1> QED
  BY <1>1, <1>2, UsageTypeCorrect, PTL DEF Spec

\* A unit is charged under one identifier at most, and never for a free or an
\* ignored request, whatever answers are lost and whoever reports meanwhile.
THEOREM UnitsAreChargedOnce == Spec => []ChargedOnce
<1>1. CInv => ChargedOnce
  <2> SUFFICES ASSUME CInv, NEW c \in Call
               PROVE  LET charged == {id \in meter : id[1] = c} IN
                      /\ Cardinality(charged) <= 1
                      /\ row[c] \in {"none", "included", "ignored"} => charged = {}
                      /\ row[c] = "metered" => charged # {}
    BY DEF ChargedOnce
  <2> DEFINE charged == {id \in meter : id[1] = c}
  <2>1. \A id \in charged : id = Identifier(c) /\ row[c] \in Charged
    BY DEF CInv, MeterIsOfRows, Identifier
  <2>2. charged = {} \/ charged = {Identifier(c)}
    BY <2>1
  <2>3. Cardinality(charged) <= 1
    <3>1. Cardinality({}) = 0 /\ Cardinality({Identifier(c)}) = 1
      BY FS_EmptySet, FS_Singleton
    <3> HIDE DEF charged
    <3> QED
      BY <2>2, <3>1
  <2>4. row[c] = "metered" => charged # {}
    <3>1. row[c] = "metered" => Identifier(c) \in meter
      BY DEF CInv, MeteredWasCounted
    <3>2. Identifier(c)[1] = c
      BY DEF Identifier
    <3> QED
      BY <3>1, <3>2
  <2> QED
    BY <2>1, <2>3, <2>4 DEF Charged
<1> QED
  BY <1>1, UsageInvariant, PTL

-----------------------------------------------------------------------------
\* The allowance.

\* The advisory lock admits one transaction, and what it counted is still so
\* when it inserts.
OneInserts == \A c, d \in Call : pc[c] = "insert" /\ pc[d] = "insert" => c = d
UsedIsFresh == \A c \in Call : pc[c] = "insert" => used[c] = Cardinality(Counted(base[c]))

AInv == OneInserts /\ UsedIsFresh /\ AllowanceKept

\* A step that commits no row changes no sum and frees no call.
LEMMA AInvStays ==
  ASSUME TypeOK, AInv,
         \A c \in Call : \/ row'[c] = row[c]
                         \/ row[c] \in Charged /\ row'[c] \in Charged,
         \A c \in Call : row[c] # "none" => at'[c] = at[c],
         \A c \in Call : row[c] = "included" => base'[c] = base[c],
         \A c \in Call : pc'[c] = "insert" =>
                           pc[c] = "insert" /\ used'[c] = used[c] /\ base'[c] = base[c]
  PROVE  AInv'
<1>1. ASSUME NEW start PROVE Counted(start)' = Counted(start)
  BY DEF Counted, Charged
<1>2. ASSUME NEW start PROVE FreeCalls(start)' = FreeCalls(start)
  BY DEF FreeCalls, Charged
<1>3. AllowanceKept'
  BY <1>2 DEF AInv, AllowanceKept
<1>4. OneInserts'
  BY DEF AInv, OneInserts
<1>5. UsedIsFresh'
  BY <1>1 DEF AInv, UsedIsFresh
<1> QED
  BY <1>3, <1>4, <1>5 DEF AInv

\* A transaction that takes the lock counts what it inserts on.
LEMMA AllocateKeepsAInv ==
  ASSUME TypeOK, AInv, NEW c \in Call, Allocate(c), row[c] = "none" PROVE AInv'
<1> DEFINE start == IF anchor = NoAnchor THEN MonthStart(at[c]) ELSE anchor
<1>1. /\ base'[c] = start /\ used'[c] = Cardinality(Counted(start)) /\ pc'[c] = "insert"
      /\ \A d \in Call \ {c} : pc'[d] = pc[d] /\ pc[d] # "insert" /\ base'[d] = base[d]
      /\ UNCHANGED <<at, row>>
  BY DEF TypeOK, Allocate, At, Go
<1> HIDE DEF start
<1>2. OneInserts' /\ UsedIsFresh'
  BY <1>1 DEF OneInserts, UsedIsFresh, Counted
<1>3. \A d \in Call : row[d] = "included" => base'[d] = base[d]
  BY <1>1
<1>4. AllowanceKept'
  BY <1>1, <1>3 DEF AInv, AllowanceKept, FreeCalls
<1> QED
  BY <1>2, <1>4 DEF AInv

\* The call that is inserted as free had room in the sum it counted.
LEMMA InsertKeepsAInv ==
  ASSUME TypeOK, AInv, NEW c \in Call, InsertUsage(c), row[c] = "none" PROVE AInv'
<1>1. /\ pc[c] = "insert" /\ pc'[c] # "insert"
      /\ \A d \in Call \ {c} : pc'[d] = pc[d] /\ row'[d] = row[d] /\ base'[d] = base[d]
      /\ UNCHANGED at
      /\ row'[c] = "included" => base'[c] = base[c] /\ used[c] < Included
  BY DEF TypeOK, InsertUsage, IncludedUnits, At, Go
<1>2. \A d \in Call : pc'[d] # "insert"
  BY <1>1 DEF AInv, OneInserts
<1>3. AllowanceKept'
  <2> SUFFICES ASSUME NEW start \in Instant PROVE Cardinality(FreeCalls(start)') <= Included
    BY DEF AllowanceKept
  <2>1. IsFiniteSet(FreeCalls(start)) /\ Cardinality(FreeCalls(start)) \in Nat
        /\ Cardinality(FreeCalls(start)) <= Included
    <3>1. FreeCalls(start) \subseteq Call
      BY DEF FreeCalls
    <3> QED
      BY <3>1, FS_Subset, FS_CardinalityType DEF AInv, AllowanceKept
  <2>2. CASE row'[c] = "included" /\ base[c] = start
    <3>1. FreeCalls(start)' \subseteq FreeCalls(start) \cup {c}
      BY <1>1 DEF FreeCalls
    <3>2. FreeCalls(start) \subseteq Counted(start)
      BY DEF FreeCalls, Counted
    <3>3. Cardinality(FreeCalls(start)) <= Cardinality(Counted(start))
      BY <3>2, CountIsNumber, FS_Subset
    <3>4. Cardinality(Counted(start)) < Included
      BY <1>1, <2>2 DEF AInv, UsedIsFresh
    <3>5. c \notin FreeCalls(start)
      BY DEF FreeCalls
    <3>6. /\ IsFiniteSet(FreeCalls(start) \cup {c})
          /\ Cardinality(FreeCalls(start) \cup {c}) = Cardinality(FreeCalls(start)) + 1
      BY <2>1, <3>5, FS_AddElement
    <3>7. Cardinality(FreeCalls(start)') <= Cardinality(FreeCalls(start)) + 1
      BY <3>1, <3>6, FS_Subset
    <3>8. IsFiniteSet(FreeCalls(start)') /\ Cardinality(FreeCalls(start)') \in Nat
      BY <3>1, <3>6, FS_Subset, FS_CardinalityType
    <3> QED
      BY <2>1, <3>3, <3>4, <3>7, <3>8, CountIsNumber
  <2>3. CASE ~(row'[c] = "included" /\ base[c] = start)
    <3>1. FreeCalls(start)' \subseteq FreeCalls(start)
      BY <1>1, <2>3 DEF FreeCalls
    <3>2. /\ Cardinality(FreeCalls(start)') \in Nat
          /\ Cardinality(FreeCalls(start)') <= Cardinality(FreeCalls(start))
      BY <3>1, <2>1, FS_Subset, FS_CardinalityType
    <3> QED
      BY <2>1, <3>2
  <2> QED
    BY <2>2, <2>3
<1>4. OneInserts' /\ UsedIsFresh'
  BY <1>2 DEF OneInserts, UsedIsFresh
<1> QED
  BY <1>3, <1>4 DEF AInv

LEMMA NextAInv == TypeOK /\ CInv /\ AInv /\ [Next]_vars => AInv'
<1> SUFFICES ASSUME TypeOK, CInv, AInv, [Next]_vars PROVE AInv'
  OBVIOUS
<1> DEFINE Quiet ==
      /\ \A c \in Call : \/ row'[c] = row[c]
                         \/ row[c] \in Charged /\ row'[c] \in Charged
      /\ \A c \in Call : row[c] # "none" => at'[c] = at[c]
      /\ \A c \in Call : row[c] = "included" => base'[c] = base[c]
      /\ \A c \in Call : pc'[c] = "insert" =>
                           pc[c] = "insert" /\ used'[c] = used[c] /\ base'[c] = base[c]
<1>1. Quiet => AInv'
  BY AInvStays
<1>2. CASE UNCHANGED vars \/ SubscriptionSynced \/ Tick
  <2>1. Quiet
    BY <1>2 DEF vars, SubscriptionSynced, Tick, callVars
  <2> QED
    BY <1>1, <2>1
<1>3. ASSUME NEW c \in Call, Arrive(c) PROVE AInv'
  <2>1. row[c] = "none"
    BY <1>3 DEF CInv, RowsFollow, Arrive, At
  <2>2. Quiet
    BY <1>3, <2>1 DEF TypeOK, Arrive, Go
  <2> QED
    BY <1>1, <2>2
<1>4. ASSUME NEW c \in Call, Allocate(c) \/ InsertUsage(c) PROVE AInv'
  <2>1. row[c] = "none"
    BY <1>4 DEF CInv, RowsFollow, Allocate, InsertUsage, At
  <2> QED
    BY <1>4, <2>1, AllocateKeepsAInv, InsertKeepsAInv
<1>5. ASSUME NEW c \in Call, Report(c) \/ MarkMetered(c) \/ MarkFailed(c) PROVE AInv'
  <2>1. row[c] \in Charged
    BY <1>5 DEF CInv, RowsFollow, Report, MarkMetered, MarkFailed, At
  <2>2. Quiet
    BY <1>5, <2>1 DEF TypeOK, Charged, Report, MarkMetered, MarkFailed, Go
  <2> QED
    BY <1>1, <2>2
<1>6. ASSUME NEW c \in Call, CallDies(c) PROVE AInv'
  <2>1. Quiet
    BY <1>6 DEF TypeOK, CallDies, EndTransaction, Go
  <2> QED
    BY <1>1, <2>1
<1>7. ASSUME NEW p \in Pass, \/ StartPass(p) \/ CommitPass(p) \/ PassDies(p)
                             \/ \E c \in Call : ReportCandidate(p, c)
      PROVE  AInv'
  <2>1. \A c \in Call : outcome[p][c] # "none" => row[c] \in Charged
    BY DEF CInv, HeldAreCharged
  <2>2. \A c \in Call : outcome[p][c] \in {"none", "metered", "failed"}
    BY DEF TypeOK
  <2>3. /\ UNCHANGED callVars
        /\ \A c \in Call : \/ row'[c] = row[c]
                           \/ row'[c] = outcome[p][c] /\ outcome[p][c] # "none"
    BY <1>7 DEF StartPass, CommitPass, PassDies, ReportCandidate
  <2>4. Quiet
    BY <2>1, <2>2, <2>3 DEF Charged, callVars
  <2> QED
    BY <1>1, <2>4
<1> QED
  BY <1>2, <1>3, <1>4, <1>5, <1>6, <1>7 DEF Next, Record, Retry

LEMMA InitAInv == Init => AInv
<1> SUFFICES ASSUME Init PROVE AInv
  OBVIOUS
<1>1. \A start \in Instant : FreeCalls(start) = {}
  BY DEF Init, FreeCalls
<1>2. AllowanceKept
  BY <1>1, FS_EmptySet DEF AllowanceKept
<1> QED
  BY <1>2 DEF Init, AInv, OneInserts, UsedIsFresh

\* However many requests run at once and however the billing period moves
\* between them, a period gives its free requests out once.
THEOREM AllowanceIsKept == Spec => []AllowanceKept
<1>1. AInv => AllowanceKept
  BY DEF AInv
<1> QED
  BY <1>1, InitAInv, NextAInv, UsageInvariant, PTL DEF Spec
-----------------------------------------------------------------------------
\* The usage ledger.

\* What the abstract variables stand for.
Kinds == [c \in Call |-> Kind(c)]
Given == [start \in Instant |-> FreeCalls(start)]
BillsOf(c) == {id \in meter : id[1] = c}
Bills == [c \in Call |-> BillsOf(c)]
Listed == {c \in Call : row[c] \in {"unreported", "failed"}}

\* No entry is made, and none is changed.
RowsQuiet ==
  /\ \A c \in Call : \/ row'[c] = row[c]
                     \/ row[c] \in Charged /\ row'[c] \in Charged
  /\ \A c \in Call : row[c] # "none" => at'[c] = at[c]
  /\ \A c \in Call : row[c] = "included" => base'[c] = base[c]

LEMMA OnlyInsertsEnter ==
  ASSUME TypeOK, CInv, [Next]_vars, ~\E c \in Call : InsertUsage(c) PROVE RowsQuiet
<1> USE DEF RowsQuiet
<1>1. CASE UNCHANGED vars \/ SubscriptionSynced \/ Tick
  BY <1>1 DEF vars, SubscriptionSynced, Tick, callVars
<1>2. ASSUME NEW c \in Call, Arrive(c) \/ Allocate(c) PROVE RowsQuiet
  <2>1. row[c] = "none"
    BY <1>2 DEF CInv, RowsFollow, Arrive, Allocate, At
  <2> QED
    BY <1>2, <2>1 DEF TypeOK, Arrive, Allocate
<1>3. ASSUME NEW c \in Call, Report(c) \/ MarkMetered(c) \/ MarkFailed(c) PROVE RowsQuiet
  <2>1. row[c] \in Charged
    BY <1>3 DEF CInv, RowsFollow, Report, MarkMetered, MarkFailed, At
  <2> QED
    BY <1>3, <2>1 DEF TypeOK, Charged, Report, MarkMetered, MarkFailed
<1>4. ASSUME NEW c \in Call, CallDies(c) PROVE RowsQuiet
  BY <1>4 DEF TypeOK, CallDies
<1>5. ASSUME NEW p \in Pass, \/ StartPass(p) \/ CommitPass(p) \/ PassDies(p)
                             \/ \E c \in Call : ReportCandidate(p, c)
      PROVE  RowsQuiet
  <2>1. \A c \in Call : outcome[p][c] # "none" => row[c] \in Charged
    BY DEF CInv, HeldAreCharged
  <2>2. \A c \in Call : outcome[p][c] \in {"none", "metered", "failed"}
    BY DEF TypeOK
  <2>3. /\ UNCHANGED callVars
        /\ \A c \in Call : \/ row'[c] = row[c]
                           \/ row'[c] = outcome[p][c] /\ outcome[p][c] # "none"
    BY <1>5 DEF StartPass, CommitPass, PassDies, ReportCandidate
  <2> QED
    BY <2>1, <2>2, <2>3 DEF Charged, callVars
<1> QED
  BY <1>1, <1>2, <1>3, <1>4, <1>5 DEF Next, Record, Retry

LEMMA QuietLedger == ASSUME RowsQuiet PROVE Kinds' = Kinds /\ Given' = Given
<1>1. \A c \in Call : Kind(c)' = Kind(c)
  BY DEF RowsQuiet, Charged, Kind
<1>2. \A start \in Instant : FreeCalls(start)' = FreeCalls(start)
  BY DEF RowsQuiet, Charged, FreeCalls
<1> QED
  BY <1>1, <1>2 DEF Kinds, Given

\* Reports change nothing but the meter, by the identifier of a row to charge.
LEMMA OnlyReportsBill ==
  ASSUME TypeOK, CInv, [Next]_vars
  PROVE  \/ meter' = meter
         \/ /\ \E c \in Call : row[c] \in Charged /\ meter' = meter \cup {Identifier(c)}
            /\ UNCHANGED <<row, at, base>>
<1>1. ASSUME NEW c \in Call, Report(c)
      PROVE  /\ row[c] \in Charged /\ UNCHANGED <<row, at, base>>
             /\ meter' = meter \/ meter' = meter \cup {Identifier(c)}
  BY <1>1 DEF CInv, RowsFollow, Report, ReportSucceeds, ReportFails, At
<1>2. ASSUME NEW p \in Pass, NEW c \in Call, ReportCandidate(p, c)
      PROVE  /\ row[c] \in Charged /\ UNCHANGED <<row, at, base>>
             /\ meter' = meter \/ meter' = meter \cup {Identifier(c)}
  BY <1>2 DEF CInv, HeldAreCharged, ReportCandidate, ReportSucceeds, ReportFails, RetryIdentifier, callVars
<1>3. CASE UNCHANGED vars \/ SubscriptionSynced \/ Tick
  BY <1>3 DEF vars, SubscriptionSynced, Tick
<1>4. ASSUME NEW c \in Call, Arrive(c) \/ Allocate(c) \/ InsertUsage(c) \/ MarkMetered(c) \/ MarkFailed(c) \/ CallDies(c)
      PROVE  meter' = meter
  BY <1>4 DEF Arrive, Allocate, InsertUsage, MarkMetered, MarkFailed, CallDies
<1>5. ASSUME NEW p \in Pass, StartPass(p) \/ CommitPass(p) \/ PassDies(p) PROVE meter' = meter
  BY <1>5 DEF StartPass, CommitPass, PassDies
<1> QED
  BY <1>1, <1>2, <1>3, <1>4, <1>5 DEF Next, Record, Retry

\* A request has the bill of its own identifier, or none.
LEMMA OneBill ==
  ASSUME CInv, NEW c \in Call
  PROVE  /\ BillsOf(c) \in {{}, {Identifier(c)}}
         /\ row[c] = "metered" => BillsOf(c) # {}
<1>1. \A id \in BillsOf(c) : id = Identifier(c)
  BY DEF CInv, MeterIsOfRows, Identifier, BillsOf
<1>2. row[c] = "metered" => Identifier(c) \in BillsOf(c)
  BY DEF CInv, MeteredWasCounted, Identifier, BillsOf
<1> QED
  BY <1>1, <1>2

\* The ledger counts as the model does.
LEMMA LedgerCounts == \A S : Ledger!Cardinality(S) = Cardinality(S)
BY DEF Ledger!Cardinality, Cardinality

LEMMA InsertEnters ==
  ASSUME TypeOK, CInv, AInv', NEW c \in Call, InsertUsage(c)
  PROVE  Ledger!EnterFree(c) \/ Ledger!EnterIgnored(c) \/ Ledger!EnterOwed(c)
<1>1. row[c] = "none"
  BY DEF CInv, RowsFollow, InsertUsage, At
<1>2. /\ row'[c] \in {"included", "ignored", "unreported"}
      /\ row' = [row EXCEPT ![c] = row'[c]]
      /\ UNCHANGED <<at, meter>>
      /\ \A d \in Call \ {c} : base'[d] = base[d]
      /\ row'[c] = "included" => base'[c] = base[c]
  BY DEF TypeOK, InsertUsage, IncludedUnits
<1>3. Bills' = Bills
  BY <1>2 DEF Bills, BillsOf
<1>4. \A d \in Call \ {c} : row'[d] = row[d] /\ Kind(d)' = Kind(d)
  BY <1>2 DEF TypeOK, Kind
<1>5. Kind(c) = "none"
  BY <1>1 DEF Kind
<1>6. CASE row'[c] = "included"
  <2>1. Kinds' = [Kinds EXCEPT ![c] = "free"]
    <3>1. Kind(c)' = "free"
      BY <1>6 DEF Kind
    <3> QED
      BY <1>4, <3>1 DEF Kinds
  <2>2. Listed' = Listed
    BY <1>1, <1>4, <1>6 DEF Listed
  <2>3. base[c] \in Instant
    BY DEF TypeOK
  <2>4. ASSUME NEW start \in Instant
        PROVE  FreeCalls(start)' = IF start = base[c] /\ at[c] >= start
                                     THEN FreeCalls(start) \cup {c} ELSE FreeCalls(start)
    BY <1>1, <1>2, <1>4, <1>6 DEF FreeCalls
  <2>5. Given' \in {Given, [Given EXCEPT ![base[c]] = Given[base[c]] \cup {c}]}
    BY <2>3, <2>4 DEF Given
  <2>6. Cardinality(Given'[base[c]]) <= Included
    BY <2>3 DEF AInv, AllowanceKept, Given
  <2> QED
    <3>1. \E p \in Instant : /\ Given' \in {Given, [Given EXCEPT ![p] = Given[p] \cup {c}]}
                            /\ Cardinality(Given'[p]) <= Included
      BY <2>3, <2>5, <2>6
    <3>2. Kinds[c] = "none"
      BY <1>5 DEF Kinds
    <3> HIDE DEF Kind
    <3> QED
      BY <1>3, <2>1, <2>2, <3>1, <3>2, LedgerCounts DEF Ledger!EnterFree, Kinds, Bills, BillsOf, Given, Listed
<1>7. CASE row'[c] # "included"
  <2>1. Given' = Given
    <3>1. \A start \in Instant : FreeCalls(start)' = FreeCalls(start)
      BY <1>1, <1>2, <1>4, <1>7 DEF FreeCalls
    <3> QED
      BY <3>1 DEF Given
  <2>2. CASE row'[c] = "ignored"
    <3>1. Kinds' = [Kinds EXCEPT ![c] = "ignored"]
      <4>1. Kind(c)' = "ignored"
        BY <2>2 DEF Kind
      <4> QED
        BY <1>4, <4>1 DEF Kinds
    <3>2. Listed' = Listed
      BY <1>1, <1>4, <2>2 DEF Listed
    <3> QED
      BY <1>3, <1>5, <2>1, <3>1, <3>2 DEF Ledger!EnterIgnored, Kinds, Bills, BillsOf, Given, Listed
  <2>3. CASE row'[c] = "unreported"
    <3>1. Kinds' = [Kinds EXCEPT ![c] = "owed"]
      <4>1. Kind(c)' = "owed"
        BY <2>3 DEF Kind
      <4> QED
        BY <1>4, <4>1 DEF Kinds
    <3>2. Listed' = Listed \cup {c}
      BY <1>4, <2>3 DEF Listed
    <3> QED
      BY <1>3, <1>5, <2>1, <3>1, <3>2 DEF Ledger!EnterOwed, Kinds, Bills, BillsOf, Given, Listed
  <2> QED
    BY <1>2, <1>7, <2>2, <2>3
<1> QED
  BY <1>6, <1>7

LEMMA ReportBills ==
  ASSUME TypeOK, CInv, NEW c \in Call, row[c] \in Charged, meter' = meter \cup {Identifier(c)},
         UNCHANGED <<row, at, base>>
  PROVE  [Ledger!Next]_(Ledger!ledgerVars)
<1>1. RowsQuiet /\ Listed' = Listed
  BY DEF RowsQuiet, Listed
<1>2. UNCHANGED <<Kinds, Given, Listed>>
  BY <1>1, QuietLedger
<1>3. Kind(c) = "owed"
  BY DEF Kind, Charged
<1>4. /\ \A d \in Call \ {c} : BillsOf(d)' = BillsOf(d)
      /\ BillsOf(c)' = BillsOf(c) \cup {Identifier(c)}
  BY DEF BillsOf, Identifier
<1>5. CASE BillsOf(c) = {}
  <2>1. Bills' = [Bills EXCEPT ![c] = {Identifier(c)}] /\ Identifier(c) \in Bills'[c] /\ Bills[c] = {}
    BY <1>4, <1>5 DEF Bills
  <2>2. Ledger!Bill(c)
    BY <1>2, <1>3, <2>1 DEF Ledger!Bill, Kinds, Bills, BillsOf, Given, Listed
  <2> QED
    BY <2>2 DEF Ledger!Next
<1>6. CASE BillsOf(c) # {}
  <2>1. Bills' = Bills
    BY <1>4, <1>6, OneBill DEF Bills
  <2> QED
    BY <1>2, <2>1 DEF Ledger!ledgerVars, Kinds, Bills, BillsOf, Given, Listed
<1> QED
  BY <1>5, <1>6

LEMMA QuietReviews ==
  ASSUME TypeOK', CInv', RowsQuiet, meter' = meter PROVE Ledger!Review
<1>1. UNCHANGED <<Kinds, Given, Bills>>
  BY QuietLedger DEF Bills, BillsOf
<1>2. Listed' \subseteq {c \in Call : Kinds[c] = "owed"}
  BY DEF RowsQuiet, Charged, Listed, Kinds, Kind
<1>3. ASSUME NEW c \in Call, c \notin Listed', Kinds[c] = "owed" PROVE Bills[c] # {}
  <2>1. row'[c] = "metered"
    BY <1>3, QuietLedger DEF TypeOK, Listed, Kinds, Kind
  <2>2. Identifier(c) \in meter'
    BY <2>1 DEF CInv, MeteredWasCounted, Identifier
  <2> QED
    BY <2>2 DEF Bills, BillsOf, Identifier
<1> QED
  BY <1>1, <1>2, <1>3 DEF Ledger!Review, Kinds, Bills, BillsOf, Given, Listed

\* Calls that race for the allowance, and retries that race with them, keep the ledger:
\* every one of their steps enters a request, bills it, or reviews the list.
THEOREM MeteringKeepsLedger == Spec => ImplementsLedger
<1>1. Init => Ledger!Init
  <2> SUFFICES ASSUME Init PROVE Ledger!Init
    OBVIOUS
  <2>1. /\ \A c \in Call : Kind(c) = "none"
        /\ \A start \in Instant : FreeCalls(start) = {}
        /\ meter = {} /\ Listed = {}
    BY DEF Init, Kind, FreeCalls, Listed
  <2> QED
    BY <2>1 DEF Ledger!Init, Listed
<1>2. TypeOK /\ TypeOK' /\ CInv /\ CInv' /\ AInv' /\ [Next]_vars => [Ledger!Next]_(Ledger!ledgerVars)
  <2> SUFFICES ASSUME TypeOK, TypeOK', CInv, CInv', AInv', [Next]_vars
               PROVE  [Ledger!Next]_(Ledger!ledgerVars)
    OBVIOUS
  <2>1. CASE \E c \in Call : InsertUsage(c)
    BY <2>1, InsertEnters DEF Ledger!Next
  <2>2. CASE meter' = meter /\ ~\E c \in Call : InsertUsage(c)
    BY <2>2, OnlyInsertsEnter, QuietReviews DEF Ledger!Next
  <2>3. CASE meter' # meter
    BY <2>3, OnlyReportsBill, ReportBills
  <2> QED
    BY <2>1, <2>2, <2>3
<1> QED
  BY <1>1, <1>2, InitAInv, NextAInv, UsageInvariant, PTL DEF Spec, ImplementsLedger, Ledger!Spec
=============================================================================
