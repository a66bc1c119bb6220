--------------------------- MODULE MCPollBooking ---------------------------
(* PollBooking on small instances.  The invitees answer for slots that do  *)
(* not overlap; the middle slot, which overlaps each of them, is for the   *)
(* page's visitors and for the organiser to book.                          *)
EXTENDS PollBooking, TLC

CONSTANT Middle
AroundMiddle == {<<s, t>> \in Slots \X Slots : s = t \/ Middle \in {s, t}}
Answers == {Slots \ {Middle}}
DropOne == {[Nothing EXCEPT !.drop = {i}, !.guest = "off"] : i \in Invitees}
ExtendIt == {[Nothing EXCEPT !.extend = TRUE]}
Symmetry == Permutations(Runs) \cup Permutations(Invitees)
              \cup Permutations(Slots \ {Middle})
=============================================================================
