--------------------------- MODULE MyOrdersProofs ---------------------------
(***************************************************************************)
(* Proofs about module MyOrders, for any number of threads and orders: no  *)
(* interleaving of operations and refreshes loses an order.                *)
(***************************************************************************)
EXTENDS MyOrders, TLAPS

(* NoLostOrder needs that DropInvalid only drops orders that are withdrawn.*)
OrdersInv ==
    /\ TypeOK
    /\ OrderIds \ valid \subseteq withdrawn
    /\ NoLostOrder

LEMMA InitOrders == Init => OrdersInv
<1> SUFFICES ASSUME Init PROVE OrdersInv
  OBVIOUS
<1>1. nextId = 1 /\ own = {} /\ locked = {} /\ valid = OrderIds
  BY DEF Init
<1>2. pc \in [Threads -> {"idle", "drop", "copy", "publish"}]
  BY DEF Init
<1>3. snap \in [Threads -> SUBSET OrderIds]
  BY DEF Init
<1>4. NoLostOrder
  BY <1>1, MaxOrdersAssumption DEF NoLostOrder, OrderIds
<1>5. 1 \in 1 .. (MaxOrders + 1)
  BY MaxOrdersAssumption
<1> QED
  BY <1>1, <1>2, <1>3, <1>4, <1>5 DEF Init, OrdersInv, TypeOK

LEMMA NextOrders == OrdersInv /\ [Next]_vars => OrdersInv'
<1> SUFFICES ASSUME OrdersInv, [Next]_vars PROVE OrdersInv'
  OBVIOUS
<1> USE MaxOrdersAssumption DEF OrdersInv, TypeOK, NoLostOrder, OrderIds, Available, Goto
<1>1. CASE StartRefresh
  BY <1>1 DEF StartRefresh
<1>2. ASSUME NEW t \in Threads, DropInvalid(t) PROVE OrdersInv'
  BY <1>2 DEF DropInvalid
<1>3. ASSUME NEW t \in Threads, InternalGetOrders(t) PROVE OrdersInv'
  BY <1>3 DEF InternalGetOrders
<1>4. ASSUME NEW t \in Threads, UpdateOrders(t) PROVE OrdersInv'
  BY <1>4 DEF UpdateOrders
<1>5. ASSUME NEW t \in Callers, Add(t) PROVE OrdersInv'
  <2>1. /\ nextId \in Nat /\ nextId <= MaxOrders /\ nextId \in OrderIds
        /\ nextId' = nextId + 1 /\ own' = own \cup {nextId}
        /\ UNCHANGED <<locked, valid, withdrawn>>
    BY <1>5 DEF Add
  <2>2. nextId' \in 1 .. (MaxOrders + 1)
    BY <2>1
  <2>3. ASSUME NEW id \in OrderIds, id < nextId', id \notin withdrawn'
        PROVE  id \in own'
    BY <2>1, <2>3
  <2>4. TypeOK'
    BY <1>5, <2>1, <2>2 DEF Add
  <2> QED
    BY <2>1, <2>3, <2>4
<1>6. ASSUME NEW t \in Callers, NEW id \in OrderIds, RemoveById(t, id) PROVE OrdersInv'
  BY <1>6 DEF RemoveById
<1>7. ASSUME NEW t \in Callers, NEW id \in OrderIds, TryLock(t, id) PROVE OrdersInv'
  BY <1>7 DEF TryLock
<1>8. ASSUME NEW t \in Callers, NEW id \in OrderIds, Unlock(t, id) PROVE OrdersInv'
  BY <1>8 DEF Unlock
<1>9. ASSUME NEW id \in OrderIds, Invalidate(id) PROVE OrdersInv'
  BY <1>9 DEF Invalidate
<1>10. CASE Disconnect
  BY <1>10 DEF Disconnect
<1>11. CASE Connect
  BY <1>11 DEF Connect
<1>12. CASE UNCHANGED vars
  BY <1>12 DEF vars
<1> QED
  BY <1>1, <1>2, <1>3, <1>4, <1>5, <1>6, <1>7, <1>8, <1>9, <1>10, <1>11, <1>12
     DEF Next, RefreshStep

(* All state stays within its types: IDs are those of added orders, and    *)
(* only orders that exist are locked, also while a refresh drops some.     *)
THEOREM OrdersTyped == Spec => []TypeOK
<1>1. OrdersInv => TypeOK
  BY DEF OrdersInv
<1> QED
  BY <1>1, InitOrders, NextOrders, PTL DEF Spec

(* However many threads run RunRefresh, whose Swap replaces the whole map, *)
(* an order that was added and neither removed nor ever invalid is there.  *)
THEOREM OrdersNotLost == Spec => []NoLostOrder
<1>1. OrdersInv => NoLostOrder
  BY DEF OrdersInv
<1> QED
  BY <1>1, InitOrders, NextOrders, PTL DEF Spec
=============================================================================
