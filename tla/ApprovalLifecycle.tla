------------------------- MODULE ApprovalLifecycle -------------------------
(***************************************************************************)
(* What the approval centre promises about one token, without requests,    *)
(* processes or locks: a token is issued, decided by the operator, claimed *)
(* by one owner, and either consumed after its write took effect or given  *)
(* back.  An owner may disappear at any time; its token then stays claimed *)
(* for ever.  Approvals is shown to implement this module.                 *)
(***************************************************************************)
EXTENDS ApprovalPolicy

CONSTANT Keys

VARIABLES status,    \* status[k]: the state of token k
          owned,     \* tokens some live request holds the claim of
          effective, \* tokens whose write has taken effect
          approvedBy \* tokens the operator approved

lifecycleVars == <<status, owned, effective, approvedBy>>

LifecycleInit ==
    /\ status = [k \in Keys |-> "none"]
    /\ owned = {} /\ effective = {} /\ approvedBy = {}

Move(k, from, to) ==
    /\ status[k] \in from
    /\ status' = [status EXCEPT ![k] = to]

Issue(k)  == Move(k, {"none"}, "pending") /\ UNCHANGED <<owned, effective, approvedBy>>
Reject(k) == /\ Move(k, {"pending", "approved"}, "rejected")
             /\ UNCHANGED <<owned, effective, approvedBy>>
Lapse(k)  == /\ Move(k, {"pending", "approved", "rejected"}, "expired")
             /\ UNCHANGED <<owned, effective, approvedBy>>

Approve(k) ==
    /\ Move(k, {"pending", "approved"}, "approved")
    /\ approvedBy' = approvedBy \cup {k}
    /\ UNCHANGED <<owned, effective>>

\* A browser action is consumed without a claim; its effect is elsewhere.
ConsumeAction(k) ==
    /\ Move(k, {"approved"}, "consumed")
    /\ UNCHANGED <<owned, effective, approvedBy>>

\* The claim is taken; its taker may never learn of it.
Claim(k) ==
    /\ Move(k, {"approved"}, "executing")
    /\ owned' \in {owned, owned \cup {k}}
    /\ UNCHANGED <<effective, approvedBy>>

Apply(k) ==
    /\ k \in owned
    /\ effective' = effective \cup {k}
    /\ UNCHANGED <<status, owned, approvedBy>>

GiveBack(k) ==
    /\ k \in owned /\ owned' = owned \ {k}
    /\ Move(k, {"executing"}, "approved")
    /\ UNCHANGED <<effective, approvedBy>>

Finish(k) ==
    /\ k \in owned \cap effective /\ owned' = owned \ {k}
    /\ Move(k, {"executing"}, "consumed")
    /\ UNCHANGED <<effective, approvedBy>>

OwnersVanish ==
    /\ owned' \in SUBSET owned
    /\ UNCHANGED <<status, effective, approvedBy>>

LifecycleNext ==
    \/ \E k \in Keys : \/ Issue(k) \/ Approve(k) \/ Reject(k) \/ Lapse(k)
                       \/ ConsumeAction(k) \/ Claim(k) \/ Apply(k)
                       \/ GiveBack(k) \/ Finish(k)
    \/ OwnersVanish

LifecycleSpec == LifecycleInit /\ [][LifecycleNext]_lifecycleVars
=============================================================================
