------------------------------ MODULE ABUpdate ------------------------------
(***************************************************************************)
(* What the OTA stack promises about the device, without threads, files    *)
(* or return codes: an image is put together in a slot that does not run,  *)
(* only a device whose slots are all whole may move to another slot, and a *)
(* trial boot can be taken back.                                           *)
(***************************************************************************)
CONSTANTS
  Slots,      \* the firmware slots
  Contents,   \* what a slot can hold
  Whole       \* the contents a device may boot, a subset of Contents

VARIABLES phase, active, content

vars == <<phase, active, content>>

Init ==
  /\ phase = "stable"
  /\ active \in Slots
  /\ content \in [Slots -> Contents]
  /\ content[active] \in Whole

Begin ==
  /\ phase = "stable"
  /\ phase' = "installing"
  /\ UNCHANGED <<active, content>>

\* The slot that runs is not written.
Write ==
  /\ phase = "installing"
  /\ \E s \in Slots \ {active}, c \in Contents :
        content' = [content EXCEPT ![s] = c]
  /\ UNCHANGED <<phase, active>>

Abort ==
  /\ phase = "installing"
  /\ phase' = "stable"
  /\ UNCHANGED <<active, content>>

Finish ==
  /\ phase = "installing"
  /\ \A s \in Slots : content[s] \in Whole
  /\ phase' = "installed"
  /\ UNCHANGED <<active, content>>

Switch ==
  /\ phase = "installed"
  /\ phase' = "trial"
  /\ active' \in Slots \ {active}
  /\ UNCHANGED content

\* An installed image given up, or a switch that failed half way: the device
\* may be left on either slot.
Discard ==
  /\ phase = "installed"
  /\ phase' = "stable"
  /\ active' \in Slots
  /\ UNCHANGED content

Confirm ==
  /\ phase = "trial"
  /\ phase' = "stable"
  /\ UNCHANGED <<active, content>>

Revert ==
  /\ phase = "trial"
  /\ phase' = "stable"
  /\ active' \in Slots \ {active}
  /\ UNCHANGED content

Next ==
  \/ Begin \/ Write \/ Abort \/ Finish
  \/ Switch \/ Discard \/ Confirm \/ Revert

Spec == Init /\ [][Next]_vars
=============================================================================
