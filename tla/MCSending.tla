------------------------------ MODULE MCSending ------------------------------
(* Sending on a chain g - x1 - x2 with a sibling y1 of x1; the transaction  *)
(* is in a block of each fork.                                             *)
EXTENDS Sending

CONSTANTS g, x1, x2, y1

MCBlock == {g, x1, x2, y1}
MCNumber == [b \in MCBlock |-> CASE b = g -> 0 [] b = x2 -> 2 [] OTHER -> 1]
MCAncestors ==
  [b \in MCBlock |-> CASE b = g -> {g} [] b = x1 -> {g, x1}
                       [] b = y1 -> {g, y1} [] b = x2 -> {g, x1, x2}]
=============================================================================
