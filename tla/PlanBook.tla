-------------------------------- MODULE PlanBook --------------------------------
(***************************************************************************)
(* What one user may rely on about the plans the scheduler offers, with    *)
(* every race folded into single steps.  A plan is offered, withdrawn or   *)
(* offered again until somebody accepts it; it is accepted only by the one *)
(* commit attempt that holds it at that moment, a withdrawal takes the     *)
(* hold away with the offer, and an accepted plan never changes again.     *)
(* ProposedPlans is shown to implement this module.                        *)
(***************************************************************************)
CONSTANTS Plan,    \* plan hashes
          Commit,  \* commit attempts
          None     \* nobody

VARIABLES offer,   \* offer[p]: "none", "open" or "accepted"
          holder   \* holder[p]: the attempt entitled to accept p, and later its accepter

vars == <<offer, holder>>

Init == /\ offer  = [p \in Plan |-> "none"]
        /\ holder = [p \in Plan |-> None]

Open(p) == offer[p] = "open"

\* A resolve puts plan p on offer, or renews an offer that is still open.
Offer(p) == /\ offer[p] # "accepted"
            /\ offer' = [offer EXCEPT ![p] = "open"]
            /\ UNCHANGED holder

\* Open offers disappear: superseded, discarded, expired, or of another zone.
Withdraw(S) == /\ \A p \in S : Open(p)
               /\ offer'  = [p \in Plan |-> IF p \in S THEN "none" ELSE offer[p]]
               /\ holder' = [p \in Plan |-> IF p \in S THEN None ELSE holder[p]]

\* Attempt c becomes the only one entitled to accept p.
Hold(p, c) == /\ Open(p)
              /\ holder' = [holder EXCEPT ![p] = c]
              /\ UNCHANGED offer

LetGo(p) == /\ Open(p)
            /\ holder' = [holder EXCEPT ![p] = None]
            /\ UNCHANGED offer

\* The holder accepts; its name stays on the plan.
Accept(p) == /\ Open(p)
             /\ holder[p] # None
             /\ offer' = [offer EXCEPT ![p] = "accepted"]
             /\ UNCHANGED holder

Next == \/ \E p \in Plan : Offer(p) \/ LetGo(p) \/ Accept(p)
        \/ \E p \in Plan, c \in Commit : Hold(p, c)
        \/ \E S \in SUBSET Plan : Withdraw(S)

Spec == Init /\ [][Next]_vars
=================================================================================
