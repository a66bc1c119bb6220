------------------------------ MODULE MCPlanCommit ------------------------------
(***************************************************************************)
(* PlanCommit for TLC: one pending plan for the slots 1 and 2 of its week, *)
(* slot 0 being another week.  The plan places chunk k1 of task t1, drops  *)
(* task t2 with chunk k2, and moves meeting m1.                            *)
(***************************************************************************)
EXTENDS PlanCommit, TLC
CONSTANTS p1, w1, za, k1, k2, t1, t2, m1

MCWeekOf  == [p \in Plan |-> [z \in Zone |-> w1]]
MCTaskOf  == k1 :> t1 @@ k2 :> t2
MCWindow  == [p \in Plan |-> {1, 2}]
MCSched   == [p \in Plan |-> k1 :> 2]
MCMeetAt  == [p \in Plan |-> m1 :> 1]
MCDropped == [p \in Plan |-> {t2}]
MCSlot    == 0..2

MCSymmetry == Permutations(Commit) \cup Permutations(Event)
=================================================================================
