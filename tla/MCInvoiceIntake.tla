---------------------------- MODULE MCInvoiceIntake ----------------------------
(***************************************************************************)
(* Invoice intake with three concurrent transactions over two drafts and   *)
(* one invoice number.                                                     *)
(***************************************************************************)
EXTENDS InvoiceIntake, TLC

Symm == Permutations(Tx) \cup Permutations(Draft) \cup Permutations(RunId)
===============================================================================
