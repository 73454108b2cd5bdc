------------------------------ MODULE MCOrders ------------------------------
(***************************************************************************)
(* Two orders and one email a run.  Either one of them is done with and    *)
(* the other lives its whole life (a quote the desk would decline, which   *)
(* an edit of the screens makes one it would answer; a checkout; a paid    *)
(* order met by two faults), or both are paid, one to be confirmed and one *)
(* declined, and wait for one another.                                     *)
(***************************************************************************)
EXTENDS Orders

CONSTANTS o1, o2

MCAge == <<o1, o2>>
Is(c, f, s) == [custom |-> c, flagged |-> f, status |-> s]
Book(n, a, b) == [faults |-> n, orders |-> [o \in {o1, o2} |-> IF o = o1 THEN a ELSE b]]
Done == Is(FALSE, FALSE, "delivered")
MCBooks == {
  Book(1, Is(TRUE, TRUE, "quote_requested"), Done),
  Book(0, Is(FALSE, FALSE, "awaiting_payment"), Done),
  Book(2, Is(FALSE, FALSE, "paid"), Done),
  Book(0, Is(FALSE, TRUE, "paid"), Is(FALSE, FALSE, "paid"))}
=============================================================================
