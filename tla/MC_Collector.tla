---------------------------- MODULE MC_Collector ----------------------------
(* Four batch regions of capacity two and six addresses: enough for three *)
(* collections, so that a carry-over list is built, emptied and used       *)
(* again, and for a write-back that spans two batches.                    *)
EXTENDS Collector

MCBatch == {"b1", "b2", "b3", "b4"}
=============================================================================
