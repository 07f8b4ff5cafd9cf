----------------------------- MODULE MCDispatch -----------------------------
(***************************************************************************)
(* A small instance of Journal: one proposal that a single human approves, *)
(* with its provider and two crashes; two dispatches that share the mutex  *)
(* and the connection; and one escalation that clients deliver under three *)
(* keys.                                                                   *)
(***************************************************************************)
EXTENDS MCCeremony, Journal

Pair == {"d1", "d2"}
Found == {"succeeded", "unknown"}
ThreeKeys == {"k1", "k2", "k3"}
=============================================================================
