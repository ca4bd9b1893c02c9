--------------------------- MODULE SerialRegistry ---------------------------
(***************************************************************************)
(* What the device registry promises about serial numbers, whatever its    *)
(* handlers race with: a serial number is claimed at most once, by one     *)
(* device of one tenant, and the claim is never released or transferred.   *)
(***************************************************************************)

CONSTANTS Serials,  \* the serial numbers devices carry
          Owners,   \* what a claim names: a device and its tenant
          Nobody    \* the owner of an unclaimed serial number

VARIABLE claim

TypeOK == claim \in [Serials -> Owners \cup {Nobody}]

Init == claim = [s \in Serials |-> Nobody]

Claim(s, o) ==
    /\ claim[s] = Nobody
    /\ claim' = [claim EXCEPT ![s] = o]

Next == \E s \in Serials, o \in Owners : Claim(s, o)

Spec == Init /\ [][Next]_claim

=============================================================================
