----------------------------- MODULE MCUserDags -----------------------------
(***************************************************************************)
(* A user with a malformed config and two good ones, who waits for an      *)
(* answer before the next call, or does not.  (Names and rows carry their  *)
(* owner, so that users do not meet; the theorems are for any of them.)    *)
(***************************************************************************)
EXTENDS UserDags

CONSTANTS a1, a2, a3, alice

MCOwner == [c \in {a1, a2, a3} |-> alice]
=============================================================================
