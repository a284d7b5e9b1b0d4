------------------------------ MODULE MyOrders ------------------------------
(***************************************************************************)
(* The own orders of a daemon and how they are told to the other traders.  *)
(* Every operation of MyOrders is a critical section on State followed by  *)
(* RunRefresh, which is three more steps of the same thread: drop invalid  *)
(* orders (critical section), take a copy of the unlocked ones (critical   *)
(* section), broadcast the copy (no lock held).  Threads that call MyOrders*)
(* interleave between all of them: the XMPP thread, the trade updater, RPC *)
(* server threads, and the refresher job.                                  *)
(***************************************************************************)
EXTENDS Integers

CONSTANTS
    Callers,     \* threads that add, remove, lock and unlock orders
    Refresher,   \* the thread of the refresher's IntervalJob
    MaxOrders    \* bound: orders that are added

Threads  == Callers \cup {Refresher}
OrderIds == 1 .. MaxOrders

ASSUME ThreadsAssumption == Refresher \notin Callers
ASSUME MaxOrdersAssumption == MaxOrders \in Nat

VARIABLES
    own,        \* own_orders: the IDs in the map
    locked,     \* those of them whose locked flag is set
    nextId,     \* next_free_id
    valid,      \* IDs for whose orders ValidateOrder returns true
    pc,         \* where each thread is in RunRefresh
    snap,       \* the copy each thread is about to broadcast
    connected,  \* MucClient::IsConnected
    offered,    \* orders of ours the room was last told about
    withdrawn   \* history: IDs removed by RemoveById or invalid at some time

vars == <<own, locked, nextId, valid, pc, snap, connected, offered, withdrawn>>

Available == own \ locked

(***************************************************************************)
(* RunRefresh, from any thread                                             *)
(***************************************************************************)
Goto(t, l) == pc' = [pc EXCEPT ![t] = l]

StartRefresh ==
    /\ pc[Refresher] = "idle"
    /\ Goto(Refresher, "drop")
    /\ UNCHANGED <<own, locked, nextId, valid, snap, connected, offered, withdrawn>>

(* Mutant: only what is broadcast, without locked orders, is written back. *)
DropInvalidAndLocked(t) ==
    /\ pc[t] = "drop"
    /\ own' = Available \cap valid
    /\ locked' = {}
    /\ Goto(t, "copy")
    /\ UNCHANGED <<nextId, valid, snap, connected, offered, withdrawn>>

DropInvalid(t) ==
    /\ pc[t] = "drop"
    /\ own' = own \cap valid
    /\ locked' = locked \cap valid
    /\ Goto(t, "copy")
    /\ UNCHANGED <<nextId, valid, snap, connected, offered, withdrawn>>

(* Mutants: locked orders are included; the copy is the one made before.   *)
InternalGetOrdersAll(t) ==
    /\ pc[t] = "copy"
    /\ snap' = [snap EXCEPT ![t] = own]
    /\ Goto(t, "publish")
    /\ UNCHANGED <<own, locked, nextId, valid, connected, offered, withdrawn>>
InternalGetOrdersOld(t) ==
    /\ pc[t] = "copy"
    /\ Goto(t, "publish")
    /\ UNCHANGED <<own, locked, nextId, valid, snap, connected, offered, withdrawn>>

InternalGetOrders(t) ==
    /\ pc[t] = "copy"
    /\ snap' = [snap EXCEPT ![t] = Available]
    /\ Goto(t, "publish")
    /\ UNCHANGED <<own, locked, nextId, valid, connected, offered, withdrawn>>

(* Daemon::MyOrdersImpl::UpdateOrders: not sent while not connected.       *)
UpdateOrders(t) ==
    /\ pc[t] = "publish"
    /\ offered' = IF connected THEN snap[t] ELSE offered
    /\ snap' = [snap EXCEPT ![t] = {}]
    /\ Goto(t, "idle")
    /\ UNCHANGED <<own, locked, nextId, valid, connected, withdrawn>>

(***************************************************************************)
(* The operations                                                          *)
(***************************************************************************)
Add(t) ==
    /\ pc[t] = "idle"
    /\ nextId <= MaxOrders
    /\ nextId \in valid
    /\ own' = own \cup {nextId}
    /\ nextId' = nextId + 1
    /\ Goto(t, "drop")
    /\ UNCHANGED <<locked, valid, snap, connected, offered, withdrawn>>

RemoveById(t, id) ==
    /\ pc[t] = "idle"
    /\ id < nextId
    /\ own' = own \ {id}
    /\ locked' = locked \ {id}
    /\ withdrawn' = withdrawn \cup {id}
    /\ Goto(t, "drop")
    /\ UNCHANGED <<nextId, valid, snap, connected, offered>>

TryLock(t, id) ==
    /\ pc[t] = "idle"
    /\ id \in Available
    /\ locked' = locked \cup {id}
    /\ Goto(t, "drop")
    /\ UNCHANGED <<own, nextId, valid, snap, connected, offered, withdrawn>>

(* Called for an order that is locked; if it has been dropped or removed,  *)
(* the CHECK aborts the process instead (module Trading has that).         *)
Unlock(t, id) ==
    /\ pc[t] = "idle"
    /\ id \in locked
    /\ locked' = locked \ {id}
    /\ Goto(t, "drop")
    /\ UNCHANGED <<own, nextId, valid, snap, connected, offered, withdrawn>>

(***************************************************************************)
(* The environment: balances change, and the connection comes and goes.    *)
(* On a disconnect the others remove our orders (HandleDisconnect).        *)
(***************************************************************************)
Invalidate(id) ==
    /\ id \in valid
    /\ valid' = valid \ {id}
    /\ withdrawn' = withdrawn \cup {id}
    /\ UNCHANGED <<own, locked, nextId, pc, snap, connected, offered>>

Disconnect ==
    /\ connected
    /\ connected' = FALSE
    /\ offered' = {}
    /\ UNCHANGED <<own, locked, nextId, valid, pc, snap, withdrawn>>

Connect ==
    /\ ~connected
    /\ connected' = TRUE
    /\ UNCHANGED <<own, locked, nextId, valid, pc, snap, offered, withdrawn>>

Init ==
    /\ own = {} /\ locked = {} /\ nextId = 1
    /\ valid = OrderIds
    /\ pc = [t \in Threads |-> "idle"]
    /\ snap = [t \in Threads |-> {}]
    /\ connected = FALSE /\ offered = {}
    /\ withdrawn = {}

RefreshStep(t) == DropInvalid(t) \/ InternalGetOrders(t) \/ UpdateOrders(t)

Next ==
    \/ StartRefresh
    \/ \E t \in Threads : RefreshStep(t)
    \/ \E t \in Callers : Add(t)
    \/ \E t \in Callers, id \in OrderIds :
         RemoveById(t, id) \/ TryLock(t, id) \/ Unlock(t, id)
    \/ \E id \in OrderIds : Invalidate(id)
    \/ Disconnect
    \/ Connect

Spec == Init /\ [][Next]_vars

(* Threads run, and the IntervalJob calls RunRefresh again and again.      *)
FairSpec == Spec /\ WF_vars(StartRefresh) /\ \A t \in Threads : WF_vars(RefreshStep(t))

(***************************************************************************)
(* Properties                                                              *)
(***************************************************************************)
(* All state stays within its types; only orders in the map are locked.    *)
TypeOK ==
    /\ own \subseteq OrderIds /\ locked \subseteq own
    /\ nextId \in 1 .. (MaxOrders + 1)
    /\ valid \subseteq OrderIds
    /\ pc \in [Threads -> {"idle", "drop", "copy", "publish"}]
    /\ snap \in [Threads -> SUBSET OrderIds]
    /\ connected \in BOOLEAN
    /\ offered \subseteq OrderIds
    /\ withdrawn \subseteq OrderIds

(* No order gets lost between threads: one that was added, was not removed *)
(* and has been valid all the time is in the map, although every refresh   *)
(* of every thread replaces the whole map (Swap in RunRefresh).            *)
NoLostOrder ==
    \A id \in OrderIds : id < nextId /\ id \notin withdrawn => id \in own

(* Broadcasts of two threads can overtake each other, but the refresher    *)
(* repairs that: a locked order does not stay on offer ...                 *)
LockedWithdrawn ==
    \A id \in OrderIds : id \in locked ~> (id \notin offered \/ id \notin locked)

(* ... and an available one is offered, as long as we are in the room.     *)
AvailableOffered ==
    \A id \in OrderIds :
        (id \in Available /\ connected) ~>
            (id \in offered \/ id \notin Available \/ ~connected)
=============================================================================
