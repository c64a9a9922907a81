--------------------------- MODULE MCProvisioning ---------------------------
(***************************************************************************)
(* One workspace and two worker slots: one form of the owner's with a      *)
(* fault, or two of them that overlap when no fault is left.               *)
(***************************************************************************)
EXTENDS Provisioning

CONSTANTS f1, f2, s1, s2

Slots == {s1, s2}
TwoForms == {f1, f2}

\* A form that is done may be sent again; the second one is, until a row was overtaken.
SecondFormWaits == (faults < MaxFaults \/ overtaken) /\ rpc[f2] = "idle" => rpc'[f2] = "idle"
ProvisioningSpec == Init /\ [][Next /\ SecondFormWaits]_vars /\ Fairness
=============================================================================
