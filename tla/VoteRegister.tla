---------------------------- MODULE VoteRegister ----------------------------
(***************************************************************************)
(* What the reaction log promises: one reaction per pair of visitor and    *)
(* product, which only a reaction of that visitor changes.                 *)
(***************************************************************************)
EXTENDS Naturals

CONSTANTS Visitors, Products, Reaction

VARIABLES
    vote,      \* the reaction of each pair
    recorded   \* how many were recorded

RegisterInit ==
    /\ vote = [pair \in Visitors \X Products |-> "none"]
    /\ recorded = 0

Record(v, p) ==
    /\ \E x \in Reaction : vote' = [vote EXCEPT ![<<v, p>>] = x]
    /\ recorded' = recorded + 1

RegisterSpec ==
    RegisterInit /\ [][\E v \in Visitors, p \in Products : Record(v, p)]_<<vote, recorded>>
=============================================================================
