--------------------------- MODULE MCKernelDriver ---------------------------
(* A small instance of KernelDriver for TLC: the wheel button, UP, and a code *)
(* that the table does not know.                                             *)
EXTENDS KernelDriver, TLC

CONSTANTS bWheel, bUp, bOther, enter, up, down, left

MCKeyOf == bWheel :> enter @@ bUp :> up @@ bOther :> NoKey
=============================================================================
