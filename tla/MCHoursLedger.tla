---------------------------- MODULE MCHoursLedger ----------------------------
(* Instances of HoursLedger for TLC. *)
EXTENDS HoursLedger, TLC

CONSTANTS e1, e2, s1, s2, t1

Alike == Permutations(Entry) \cup Permutations(Req) \cup Permutations(Epic)
           \cup Permutations(Story)
=============================================================================
