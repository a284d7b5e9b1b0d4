----------------------------- MODULE AtomicSwap -----------------------------
(***************************************************************************)
(* What Democrit promises of a trade, without orders, messages, wallets    *)
(* and blocks.  The two daemons of a trade each have a side of it.  A side *)
(* may be given up only until it is bound; a swap gets to the network only *)
(* when both its sides are bound; and what a daemon reports at the end is  *)
(* what has happened to its swap, for good.                                *)
(***************************************************************************)
CONSTANT Sides     \* the trades of all daemons, each from its own view

VARIABLES
    phase,     \* what each side is in the view of its daemon
    swaps,     \* pairs of sides whose swap is on the network
    executed   \* the swaps that are final

vars == <<phase, swaps, executed>>

Phases == {"none", "open", "bound", "done", "failed", "left"}

TypeOK ==
    /\ phase \in [Sides -> Phases]
    /\ swaps \subseteq Sides \X Sides
    /\ executed \subseteq swaps

SwapsOf(r) == {w \in swaps : r = w[1] \/ r = w[2]}

Init ==
    /\ phase = [r \in Sides |-> "none"]
    /\ swaps = {} /\ executed = {}

Start(r) ==
    /\ phase[r] = "none"
    /\ phase' = [phase EXCEPT ![r] = "open"]
    /\ UNCHANGED <<swaps, executed>>

(* One side signs and leaves it to the other one to complete the swap.     *)
Bind(r) ==
    /\ phase[r] = "open"
    /\ phase' = [phase EXCEPT ![r] = "bound"]
    /\ UNCHANGED <<swaps, executed>>

(* The other side, r, completes and publishes the swap with q.             *)
Publish(r, q) ==
    /\ phase[r] = "open" /\ phase[q] = "bound"
    /\ SwapsOf(r) = {} /\ SwapsOf(q) = {}
    /\ phase' = [phase EXCEPT ![r] = "bound"]
    /\ \E w \in {<<r, q>>, <<q, r>>} : swaps' = swaps \cup {w}
    /\ UNCHANGED executed

(* A swap that one side has reported as failed does not get executed.      *)
Execute(w) ==
    /\ w \in swaps \ executed
    /\ phase[w[1]] # "failed" /\ phase[w[2]] # "failed"
    /\ executed' = executed \cup {w}
    /\ UNCHANGED <<phase, swaps>>

(* How the side r may end now.                                             *)
Outcome(r) ==
    CASE phase[r] = "open"  -> {"left"}
      [] phase[r] = "bound" -> IF SwapsOf(r) \cap executed # {} THEN {"done"} ELSE {"failed"}
      [] OTHER -> {}

(* A daemon decides about some of its trades at once.                      *)
Settle ==
    /\ phase' \in [Sides -> Phases]
    /\ \A r \in Sides : phase'[r] # phase[r] => phase'[r] \in Outcome(r)
    /\ UNCHANGED <<swaps, executed>>

Next ==
    \/ \E r \in Sides : Start(r) \/ Bind(r)
    \/ \E r, q \in Sides : Publish(r, q)
    \/ \E w \in swaps : Execute(w)
    \/ Settle

Spec == Init /\ [][Next]_vars

(* The swap is atomic: neither side of an executed one has walked away.    *)
AllOrNothing ==
    \A w \in executed : \A r \in {w[1], w[2]} : phase[r] \in {"bound", "done"}
=============================================================================
