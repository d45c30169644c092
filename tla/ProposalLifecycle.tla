------------------------- MODULE ProposalLifecycle -------------------------
(***************************************************************************)
(* What the review and apply services promise of an action proposal,       *)
(* whatever transactions, row locks and failures they use to keep it: a    *)
(* proposal is reviewed once, only an approved one reaches an external     *)
(* system, one that is reported as applied did reach it, and "applied",    *)
(* "failed" and "rejected" are final.                                      *)
(***************************************************************************)
CONSTANT Proposals

VARIABLES
  state,  \* state[p]: what a client reads as apply_status
  acted   \* acted[p]: an external system has acted on p

vars == <<state, acted>>

Init ==
  /\ state = [p \in Proposals |-> "absent"]
  /\ acted = [p \in Proposals |-> FALSE]

Move(p, from, to) ==
  /\ state[p] = from
  /\ state' = [state EXCEPT ![p] = to]
  /\ UNCHANGED acted

Propose(p) == Move(p, "absent", "proposed")
Approve(p) == Move(p, "proposed", "approved")
Reject(p)  == Move(p, "proposed", "rejected")
Apply(p)   == acted[p] /\ Move(p, "approved", "applied")
Fail(p)    == Move(p, "approved", "failed")

Act(p) ==
  /\ state[p] = "approved"
  /\ acted' = [acted EXCEPT ![p] = TRUE]
  /\ UNCHANGED state

Next ==
  \E p \in Proposals :
    Propose(p) \/ Approve(p) \/ Reject(p) \/ Apply(p) \/ Fail(p) \/ Act(p)

Spec == Init /\ [][Next]_vars

=============================================================================
