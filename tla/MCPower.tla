------------------------------ MODULE MCPower ------------------------------
(* Instances of Power: three timers, so that two can be lost at once, and  *)
(* two descriptors, so that a number that was freed is soon given out.     *)
EXTENDS Power

CONSTANTS t1, t2, t3, s1, s2

MCTimers  == {t1, t2, t3}
MCSockets == {s1, s2}
=============================================================================
