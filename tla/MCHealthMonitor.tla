--------------------------- MODULE MCHealthMonitor ---------------------------
(* Small instances of HealthMonitor: an interval is a unit, and the table of  *)
(* waits and the half hour of good behaviour are scaled so that each of them  *)
(* binds: two failures take 2 units, the first wait 3 and the second 4; three *)
(* restarts as early as possible take 7 and a fourth, if there were no cap,   *)
(* would come after 11, which is less than forgiveness takes.                 *)
EXTENDS HealthMonitor, TLC

ScaledBackoff == <<3, 4>>
=============================================================================
