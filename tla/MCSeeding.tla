----------------------------- MODULE MCSeeding -----------------------------
(***************************************************************************)
(* A small instance of Seeding: two restaurants with one table each, the   *)
(* six slots of the script on two days that follow each other.             *)
(***************************************************************************)
EXTENDS Seeding, TLC

MCDays == {-1, 0}
=============================================================================
