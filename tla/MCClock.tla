------------------------------ MODULE MCClock ------------------------------
(* Every anchor of the first nine days, hence of every weekday and a       *)
(* second Monday, over two weekends and a holiday or two.                  *)
EXTENDS ClockWatch

MCAnchors     == 0 .. (9 * TicksPerDay - 1)
MCHolidaySets == {{}, {1}, {4, 7}, {2, 3, 5}, {8, 9, 10}}
(* The pairs that Python rounds up among the multiples of five percent, up *)
(* to thirty days.                                                         *)
MCRoundedUp == {<<70, 10>>, <<70, 20>>, <<70, 30>>, <<85, 20>>, <<95, 20>>}
=============================================================================
