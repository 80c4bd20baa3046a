------------------------------ MODULE MCSandbox ------------------------------
(***************************************************************************)
(* A command that may hang, exit with 0 or exit with 1, and any two        *)
(* faults; deadlines at once and a few ticks away, in seconds and minutes, *)
(* and minutes that wrap to a short time and to none.                      *)
(***************************************************************************)
EXTENDS Sandbox

MCTimeouts == [unit : {"s"}, amount : {0, 3}] \cup [unit : {"m"}, amount : {2, 4, 5}]
MCConfigs ==
  {[network |-> n, timeout |-> t] : n \in {"deny", "observe"}, t \in MCTimeouts}
MCExitCodes == {0, 1}
=============================================================================
