------------------------- MODULE MCDeviceEnrollment -------------------------
(* Small instances of DeviceEnrollment for TLC. *)
EXTENDS DeviceEnrollment, TLC

CONSTANTS c1, c2, i1, i2, h1, h2

\* The second invitation has a single slot.
MCLimit == i1 :> 2 @@ i2 :> 1
=============================================================================
