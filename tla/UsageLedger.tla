----------------------------- MODULE UsageLedger -----------------------------
(***************************************************************************)
(* What metering promises of the requests of a workspace: each is entered  *)
(* once, as free, ignored or owed, and stays what it was entered as; no    *)
(* period gives more free requests than the allowance; an owed request is  *)
(* billed under one meter event, and is on the list of what is still to be *)
(* reported until it is.  UsageMetering, where requests race for the       *)
(* allowance and retries race with the requests, implements this.          *)
(***************************************************************************)
EXTENDS Naturals, FiniteSets

CONSTANTS Call, Period,
          Included    \* the free requests of a period

VARIABLES kind,       \* what a request was entered as
          given,      \* the free requests of a period
          bills,      \* the meter events counted for a request
          listed      \* the requests that are still to be reported

ledgerVars == <<kind, given, bills, listed>>

Init ==
  /\ kind = [c \in Call |-> "none"]
  /\ given = [p \in Period |-> {}]
  /\ bills = [c \in Call |-> {}]
  /\ listed = {}

\* A free request is one of its period's, unless it is older than the period.
EnterFree(c) ==
  /\ kind[c] = "none" /\ kind' = [kind EXCEPT ![c] = "free"]
  /\ \E p \in Period : /\ given' \in {given, [given EXCEPT ![p] = given[p] \cup {c}]}
                       /\ Cardinality(given'[p]) <= Included
  /\ UNCHANGED <<bills, listed>>

EnterIgnored(c) ==
  /\ kind[c] = "none" /\ kind' = [kind EXCEPT ![c] = "ignored"]
  /\ UNCHANGED <<given, bills, listed>>

EnterOwed(c) ==
  /\ kind[c] = "none" /\ kind' = [kind EXCEPT ![c] = "owed"]
  /\ listed' = listed \cup {c}
  /\ UNCHANGED <<given, bills>>

Bill(c) ==
  /\ kind[c] = "owed" /\ bills[c] = {}
  /\ \E id \in bills'[c] : bills' = [bills EXCEPT ![c] = {id}]
  /\ UNCHANGED <<kind, given, listed>>

\* What is billed may leave the list, and come back: billing it again has no effect.
Review ==
  /\ listed' \subseteq {c \in Call : kind[c] = "owed"}
  /\ \A c \in Call \ listed' : kind[c] = "owed" => bills[c] # {}
  /\ UNCHANGED <<kind, given, bills>>

Next ==
  \/ \E c \in Call : EnterFree(c) \/ EnterIgnored(c) \/ EnterOwed(c) \/ Bill(c)
  \/ Review

Spec == Init /\ [][Next]_ledgerVars
=============================================================================
