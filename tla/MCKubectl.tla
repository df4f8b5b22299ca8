------------------------------ MODULE MCKubectl ------------------------------
(* A role binding and a plain object, and one slot for both.                 *)
EXTENDS Kubectl, TLC
=============================================================================
