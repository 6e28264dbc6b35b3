---------------------------- MODULE MCGateLedger ----------------------------
(***************************************************************************)
(* Small instances of GateLedger: one registered plate, one roster plate,  *)
(* two requests at once; a tick is half the breathing window, a day is     *)
(* longer than the windows and shorter than the horizon, so that stays     *)
(* cross midnight.                                                         *)
(***************************************************************************)
EXTENDS GateLedger, TLC

(* Every path that locks, and the entries that ask nothing of the log, but *)
(* for the uploaded frame, which keeps no breathing window.                *)
LockingPaths ==
  {"camera", "manual", "supplier_camera", "supplier_manual", "event",
   "open_campus", "noplate_entry", "override", "deny", "unknown"}

AllPaths == Toggles \cup ByHand

(* One request at a time, and no guard overriding what the log says; the   *)
(* rows that neither admit a plate nor let one out are left out.           *)
SerialPaths ==
  AllPaths \ {"override", "noplate_entry", "noplate_exit", "deny", "unknown"}

Symmetric == Permutations(Requests)
=============================================================================
