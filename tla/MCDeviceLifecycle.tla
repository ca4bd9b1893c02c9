------------------------- MODULE MCDeviceLifecycle --------------------------
(* A small instance of DeviceLifecycle for TLC. *)
EXTENDS DeviceLifecycle, TLC

Symmetry == Permutations(Handlers) \cup Permutations(Devices) \cup Permutations(Tenants)

=============================================================================
