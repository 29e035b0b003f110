---------------------------- MODULE MCOtaManager ----------------------------
(* OtaManager for TLC: every operation of the back end may fail, and every  *)
(* write may be cut short unnoticed.                                        *)
EXTENDS OtaManager

AllFaults ==
  {"open", "copy", "digest", "truncate", "image", "version", "next_slot",
   "activate", "reboot", "mark", "rollback", "short"}
=============================================================================
