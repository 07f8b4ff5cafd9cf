------------------------------- MODULE MCHost -------------------------------
(***************************************************************************)
(* A small instance of the host.  Provider: three actions for two          *)
(* operations on one payment, two of which carry the same operation while  *)
(* one asks for more than the payment holds.  Requests: two proposals of   *)
(* one operation, and one that takes the first one's id.  Rates: a bucket  *)
(* of two requests per window of three.                                    *)
(***************************************************************************)
EXTENDS Host

Refundable(op, amount) ==
  [op |-> op, payment |-> "pay", amount |-> amount, currency |-> "USD",
   wellFormed |-> TRUE]
RivalBodies ==
  [a \in {"a1", "a2", "a3"} |->
     CASE a = "a1" -> Refundable("o1", 2)
       [] a = "a2" -> Refundable("o2", 1)
       [] a = "a3" -> Refundable("o1", 3)]
RivalActions == DOMAIN RivalBodies
OnePayment == [p \in {"pay"} |-> [amount |-> 2, currency |-> "USD"]]
ShortClock == 1 .. 2

On(p, o) == [id |-> p, op |-> o]
RivalProposals == {On("p1", "o1"), On("p2", "o1"), On("p1", "o2")}
=============================================================================
