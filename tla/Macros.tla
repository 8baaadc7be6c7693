------------------------------- MODULE Macros -------------------------------
(***************************************************************************)
(* MIN and MAX of sys/param.h, which the parts in C share.                 *)
(***************************************************************************)
EXTENDS Integers

MAX(a, b) == IF a >= b THEN a ELSE b
MIN(a, b) == IF a <= b THEN a ELSE b
=============================================================================
