-------------------------- MODULE MCLicenseCore --------------------------
(* Bounds for TLC: one merchant with one program, a licence of it that can *)
(* be issued, deleted and issued again, two devices, and two requests in   *)
(* flight at a time.  The limits are "one device" and "unlimited", so the  *)
(* two devices compete for a seat; terms and sessions of two ticks and a   *)
(* clock of three let sessions and licences expire under a request.        *)
EXTENDS LicenseCore, TLC

CONSTANTS m1, a1, l1

MCMerchantOf == [a \in Apps |-> m1]

Symmetry == Permutations(Devices) \cup Permutations(Bindings)
            \cup Permutations(Sessions) \cup Permutations(Requests)
=============================================================================
