----------------------------- MODULE MCDiagnose -----------------------------
(* A small instance of Diagnose for TLC. *)
EXTENDS Diagnose

CONSTANTS a, user

MCOrder == <<Default>>
=============================================================================
