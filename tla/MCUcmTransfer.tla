--------------------------- MODULE MCUcmTransfer ----------------------------
(* UcmTransfer for TLC: packages of different sizes, the second without a   *)
(* dependency, so that two updates can follow each other, and a third that  *)
(* the disk has no room for.                                                *)
EXTENDS UcmTransfer

CONSTANTS c1, c2, c3

Sizes == [c \in Clients |-> CASE c = c1 -> 2 [] c = c2 -> 1 [] OTHER -> Capacity + 1]

\* What the theorems on HandedIsSent and WholeUnlessRestarted assume.
ASSUME DiskAssumption == AmpleDisk

OnDeployed == [c \in Clients |-> IF c = c1 THEN {Deployed} ELSE {}]
=============================================================================
