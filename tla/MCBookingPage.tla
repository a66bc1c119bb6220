--------------------------- MODULE MCBookingPage ---------------------------
(* BookingPage on a small instance: two visits, one meeting of the owner's. *)
EXTENDS BookingPage

Steps == 1..7
Taken == {7}
At == [m \in Meetings |-> 3]
=============================================================================
