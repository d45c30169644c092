----------------------------- MODULE MCProposal -----------------------------
(* Instances of Proposal for TLC. *)
EXTENDS Proposal, TLC

CONSTANTS c1, p1, p2

\* One decision with one proposal, and with two.
OneProposal  == p1 :> c1
TwoProposals == p1 :> c1 @@ p2 :> c1
=============================================================================
