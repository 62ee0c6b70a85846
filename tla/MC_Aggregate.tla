---------------------------- MODULE MC_Aggregate ----------------------------
(* Lists of one or two batches of up to three addresses drawn from four:  *)
(* datasets of one to six entries, duplicates included.  A page of 16     *)
(* bytes holds two words or four ints, so a dataset of five entries needs *)
(* three pages of addresses and a minimap of two pages, and the quicksort *)
(* partitions with SORT_THRESHOLD scaled to 1.                            *)
EXTENDS Aggregate

MCAddrs == 1 .. 4
=============================================================================
