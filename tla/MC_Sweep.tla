------------------------------ MODULE MC_Sweep ------------------------------
(* Three block addresses, one word per block, up to three retired slots.  *)
(* ADDRS_PER_THREAD scaled to 1 and MAX_THREADS to 2 so that the          *)
(* partition gives two workers with disjoint ranges, and a depth budget   *)
(* of 1 so that a chain of three blocks outruns one pass.                  *)
EXTENDS Sweep

MCAddr == {2, 4, 6}
=============================================================================
