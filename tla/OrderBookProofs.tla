-------------------------- MODULE OrderBookProofs --------------------------
(***************************************************************************)
(* Proofs about module OrderBook, for any accounts, orders and timeout:    *)
(* looking at the front of the queue only is enough for RunTimeout.        *)
(***************************************************************************)
EXTENDS OrderBook, TLAPS, FiniteSetTheorems, WellFoundedInduction

Events == [account: Accounts, time: 0 .. now]

BookInv == TypeOK /\ QueueCoversBook

(* A sequence over a set is one over any larger set.                       *)
LEMMA SeqOfLarger ==
    ASSUME NEW S, NEW T, S \subseteq T, NEW q \in Seq(S)
    PROVE  q \in Seq(T)
<1>1. Len(q) \in Nat /\ q = [i \in 1 .. Len(q) |-> q[i]] /\ \A i \in 1 .. Len(q) : q[i] \in T
  OBVIOUS
<1> QED
  BY <1>1

(* The events that the loop of RunTimeout pops are the first ones.         *)
LEMMA PoppedIsPrefix ==
    ASSUME TypeOK
    PROVE  \E k \in 0 .. Len(updates) : Popped = 1 .. k /\ Cardinality(Popped) = k
<1> DEFINE Rest == {i \in 1 .. Len(updates) + 1 : i \notin Popped}
<1>1. Len(updates) \in Nat /\ DOMAIN updates = 1 .. Len(updates)
  BY DEF TypeOK
<1>2. Popped \subseteq 1 .. Len(updates)
  BY <1>1 DEF Popped
<1>3. Len(updates) + 1 \in Rest /\ Rest \in SUBSET Nat
  BY <1>1, <1>2
<1> HIDE DEF Rest
<1>4. PICK m \in Rest : \A n \in Rest : m <= n
  <2>1. Rest \subseteq Nat /\ Rest # {}
    BY <1>3
  <2>2. \E x \in Rest : \A y \in Rest : ~(<<y, x>> \in OpToRel(<, Nat))
    BY <2>1, NatLessThanWellFounded, WFMin
  <2>3. PICK x \in Rest : \A y \in Rest : ~(<<y, x>> \in OpToRel(<, Nat))
    BY <2>2
  <2>4. ASSUME NEW y \in Rest PROVE x <= y
    <3>1. x \in Nat /\ y \in Nat
      BY <2>1
    <3>2. ~(y < x)
      BY <2>3, <3>1 DEF OpToRel
    <3> QED
      BY <3>1, <3>2
  <2> QED
    BY <2>4
<1>5. m \in 1 .. Len(updates) + 1 /\ m \notin Popped
  BY <1>4 DEF Rest
<1>6. ASSUME NEW i \in 1 .. (m - 1) PROVE i \in Popped
  <2>1. i \in 1 .. Len(updates) + 1 /\ ~(m <= i)
    BY <1>1, <1>5
  <2> QED
    BY <1>4, <2>1 DEF Rest
<1>7. ASSUME NEW i \in Popped PROVE i \in 1 .. (m - 1)
  <2>1. i \in 1 .. Len(updates) /\ \A j \in 1 .. i : updates[j].time < TimeoutBefore
    BY <1>1 DEF Popped
  <2>2. CASE m <= i
    <3>1. m \in 1 .. Len(updates) /\ \A j \in 1 .. m : j \in 1 .. i
      BY <1>1, <1>5, <2>1, <2>2
    <3>2. m \in Popped
      BY <1>1, <2>1, <3>1 DEF Popped
    <3> QED
      BY <1>5, <3>2
  <2> QED
    BY <1>1, <1>5, <2>1, <2>2
<1>8. Popped = 1 .. (m - 1)
  BY <1>6, <1>7
<1>9. m - 1 \in 0 .. Len(updates)
  BY <1>1, <1>5
<1>10. Cardinality(1 .. (m - 1)) = m - 1
  <2>1. m - 1 \in Int /\ 1 \in Int /\ m - 1 >= 0
    BY <1>1, <1>9
  <2>2. ASSUME NEW b \in Int, b >= 0 PROVE Cardinality(1 .. b) = b
    <3>1. Cardinality(1 .. b) = IF 1 > b THEN 0 ELSE b - 1 + 1
      BY <2>1, FS_Interval
    <3> QED
      BY <2>2, <3>1
  <2> QED
    BY <2>1, <2>2
<1> QED
  BY <1>8, <1>9, <1>10

(* What is left of the queue after a run of the timeouter.                 *)
LEMMA QueueAfterTimeout ==
    ASSUME TypeOK, RunTimeout
    PROVE  \E k \in 0 .. Len(updates) :
             /\ Popped = 1 .. k
             /\ updates' \in Seq(Events)
             /\ Len(updates') = Len(updates) - k
             /\ \A i \in 1 .. Len(updates') : updates'[i] = updates[i + k]
<1>1. PICK k \in 0 .. Len(updates) : Popped = 1 .. k /\ Cardinality(Popped) = k
  BY PoppedIsPrefix
<1>2. updates \in Seq(Events) /\ Len(updates) \in Nat
  BY DEF TypeOK, Events
<1>3. updates' = SubSeq(updates, k + 1, Len(updates))
  BY <1>1 DEF RunTimeout
<1>4. updates' = [i \in 1 .. (Len(updates) - k) |-> updates[i + k]]
  BY <1>1, <1>2, <1>3
<1>5. \A i \in 1 .. (Len(updates) - k) : updates[i + k] \in Events
  BY <1>1, <1>2
<1>6. updates' \in Seq(Events)
  BY <1>1, <1>2, <1>4, <1>5
<1>7. Len(updates') = Len(updates) - k
  BY <1>1, <1>2, <1>4, <1>6
<1> QED
  BY <1>1, <1>4, <1>6, <1>7

(* An account on the book that is too old has an event among those that    *)
(* are popped, so RunTimeout finds it.                                     *)
LEMMA OldAccountsTimedOut ==
    ASSUME BookInv, NEW a \in OnBook, book[a].lastUpdate < TimeoutBefore
    PROVE  a \in TimedOut
<1>1. PICK i \in DOMAIN updates : updates[i] = [account |-> a, time |-> book[a].lastUpdate]
  BY DEF BookInv, QueueCoversBook
<1>2. /\ updates \in Seq(Events) /\ Len(updates) \in Nat
      /\ DOMAIN updates = 1 .. Len(updates)
      /\ now \in Nat /\ TimeoutBefore \in Int
  BY TimeAssumption DEF BookInv, TypeOK, Events, TimeoutBefore
<1>3. ASSUME NEW j \in 1 .. i PROVE updates[j].time < TimeoutBefore
  <2>1. j \in DOMAIN updates /\ j <= i
    BY <1>1, <1>2
  <2>2. updates[j].time <= updates[i].time
    BY <2>1 DEF BookInv, QueueCoversBook
  <2>3. updates[j] \in Events /\ updates[i] \in Events
    BY <1>2, <2>1
  <2>4. updates[j].time \in Int /\ updates[i].time \in Int
    BY <1>2, <2>3 DEF Events
  <2> QED
    BY <1>1, <1>2, <2>2, <2>4
<1>4. i \in Popped /\ updates[i].account = a
  BY <1>1, <1>3 DEF Popped
<1> QED
  BY <1>4 DEF TimedOut

LEMMA InitBook == Init => BookInv
<1> SUFFICES ASSUME Init PROVE BookInv
  OBVIOUS
<1>1. now = 0 /\ updates = << >> /\ book = [a \in Accounts |-> Absent]
  BY DEF Init
<1>2. OnBook = {}
  BY <1>1 DEF OnBook, Absent
<1> QED
  BY <1>1, <1>2, TimeAssumption DEF BookInv, TypeOK, QueueCoversBook, Absent

(* Both kinds of updates: an account's orders are erased, or replaced with *)
(* an event at the end of the queue.                                       *)
LEMMA UpdateKeepsBook ==
    ASSUME BookInv, NEW a \in Accounts, NEW os \in SUBSET Orders, UpdateOrders(a, os)
    PROVE  BookInv'
<1>1. /\ book \in [Accounts -> [orders: SUBSET Orders, lastUpdate: 0 .. now]]
      /\ updates \in Seq(Events) /\ now \in 0 .. MaxTime /\ now' = now
      /\ Len(updates) \in Nat /\ DOMAIN updates = 1 .. Len(updates)
      /\ now \in Nat
  BY TimeAssumption DEF BookInv, TypeOK, Events, UpdateOrders
<1>2. CASE os = {} /\ book' = [book EXCEPT ![a] = Absent] /\ updates' = updates
  <2>1. Absent \in [orders: SUBSET Orders, lastUpdate: 0 .. now]
    BY <1>1 DEF Absent
  <2>2. TypeOK'
    BY <1>1, <1>2, <2>1 DEF TypeOK, Events
  <2>3. ASSUME NEW b \in OnBook' PROVE b \in OnBook /\ book'[b] = book[b]
    BY <1>1, <1>2, <2>3 DEF OnBook, Absent
  <2> QED
    BY <1>2, <2>2, <2>3 DEF BookInv, QueueCoversBook
<1>3. CASE /\ os # {} /\ book' = Written(a, os)
           /\ updates' = Append(updates, [account |-> a, time |-> now])
  <2> DEFINE ev == [account |-> a, time |-> now]
  <2>1. ev \in Events
    BY <1>1 DEF Events
  <2>2. /\ updates' \in Seq(Events) /\ Len(updates') = Len(updates) + 1
        /\ DOMAIN updates' = 1 .. (Len(updates) + 1)
        /\ updates'[Len(updates) + 1] = ev
        /\ \A i \in DOMAIN updates : updates'[i] = updates[i]
    BY <1>1, <1>3, <2>1
  <2>3. [orders |-> os, lastUpdate |-> now] \in [orders: SUBSET Orders, lastUpdate: 0 .. now]
    BY <1>1
  <2>4. TypeOK'
    BY <1>1, <1>3, <2>2, <2>3 DEF TypeOK, Written, Events
  <2>5. ASSUME NEW i \in DOMAIN updates', NEW j \in DOMAIN updates', i <= j
        PROVE  updates'[i].time <= updates'[j].time
    <3>1. \A n \in DOMAIN updates : updates[n] \in Events
      BY <1>1
    <3>2. \A n \in DOMAIN updates : updates[n].time \in Int /\ updates[n].time <= now
      BY <1>1, <3>1 DEF Events
    <3>3. CASE j \in DOMAIN updates
      <4>1. i \in DOMAIN updates
        BY <1>1, <2>2, <2>5, <3>3
      <4> QED
        BY <2>2, <2>5, <3>3, <4>1 DEF BookInv, QueueCoversBook
    <3>4. CASE j = Len(updates) + 1
      BY <1>1, <2>2, <3>2, <3>4
    <3> QED
      BY <1>1, <2>2, <3>3, <3>4
  <2>6. ASSUME NEW b \in OnBook'
        PROVE  \E i \in DOMAIN updates' :
                 updates'[i] = [account |-> b, time |-> book'[b].lastUpdate]
    <3>1. CASE b = a
      <4>1. book'[a].lastUpdate = now
        BY <1>1, <1>3 DEF Written
      <4>2. Len(updates) + 1 \in DOMAIN updates'
        BY <1>1, <2>2
      <4> QED
        BY <2>2, <3>1, <4>1, <4>2
    <3>2. CASE b # a
      <4>1. b \in OnBook /\ book'[b] = book[b]
        BY <1>1, <1>3, <2>6, <3>2 DEF OnBook, Written
      <4>2. PICK i \in DOMAIN updates :
               updates[i] = [account |-> b, time |-> book[b].lastUpdate]
        BY <4>1 DEF BookInv, QueueCoversBook
      <4>3. i \in DOMAIN updates' /\ updates'[i] = updates[i]
        BY <1>1, <2>2
      <4> QED
        BY <4>1, <4>2, <4>3
    <3> QED
      BY <3>1, <3>2
  <2> QED
    BY <2>4, <2>5, <2>6 DEF BookInv, QueueCoversBook
<1> QED
  BY <1>2, <1>3 DEF UpdateOrders

LEMMA TimeoutKeepsBook == ASSUME BookInv, RunTimeout PROVE BookInv'
<1>1. PICK k \in 0 .. Len(updates) :
        /\ Popped = 1 .. k
        /\ updates' \in Seq(Events)
        /\ Len(updates') = Len(updates) - k
        /\ \A i \in 1 .. Len(updates') : updates'[i] = updates[i + k]
  BY QueueAfterTimeout DEF BookInv
<1>2. /\ book \in [Accounts -> [orders: SUBSET Orders, lastUpdate: 0 .. now]]
      /\ updates \in Seq(Events) /\ now \in 0 .. MaxTime /\ now' = now
      /\ Len(updates) \in Nat /\ DOMAIN updates = 1 .. Len(updates)
      /\ now \in Nat
  BY TimeAssumption DEF BookInv, TypeOK, Events, RunTimeout
<1>3. /\ Len(updates') \in Nat /\ DOMAIN updates' = 1 .. Len(updates')
      /\ \A i \in DOMAIN updates' : i + k \in DOMAIN updates /\ updates'[i] = updates[i + k]
  BY <1>1, <1>2
<1>4. book' = [a \in Accounts |-> IF a \in TimedOut THEN Absent ELSE book[a]]
  BY DEF RunTimeout
<1>5. TypeOK'
  BY <1>1, <1>2, <1>4 DEF TypeOK, Absent, Events
<1>6. ASSUME NEW i \in DOMAIN updates', NEW j \in DOMAIN updates', i <= j
      PROVE  updates'[i].time <= updates'[j].time
  <2>1. i + k <= j + k
    BY <1>1, <1>3, <1>6
  <2> QED
    BY <1>3, <2>1 DEF BookInv, QueueCoversBook
<1>7. ASSUME NEW a \in OnBook'
      PROVE  \E i \in DOMAIN updates' :
               updates'[i] = [account |-> a, time |-> book'[a].lastUpdate]
  <2>1. a \in OnBook /\ a \notin TimedOut /\ book'[a] = book[a]
    BY <1>4, <1>7 DEF OnBook, Absent
  <2>2. PICK i \in DOMAIN updates : updates[i] = [account |-> a, time |-> book[a].lastUpdate]
    BY <2>1 DEF BookInv, QueueCoversBook
  <2>3. i \notin Popped
    <3>1. ASSUME i \in Popped PROVE FALSE
      <4>1. i \in 1 .. i
        BY <1>2, <2>2
      <4>2. updates[i].time < TimeoutBefore
        BY <3>1, <4>1 DEF Popped
      <4>3. a \in TimedOut
        BY <2>1, <2>2, <3>1, <4>2 DEF TimedOut
      <4> QED
        BY <2>1, <4>3
    <3> QED
      BY <3>1
  <2>4. i - k \in DOMAIN updates' /\ (i - k) + k = i
    BY <1>1, <1>2, <1>3, <2>2, <2>3
  <2> QED
    BY <1>3, <2>1, <2>2, <2>4
<1> QED
  BY <1>5, <1>6, <1>7 DEF BookInv, QueueCoversBook

LEMMA NextBook == BookInv /\ [Next]_vars => BookInv'
<1> SUFFICES ASSUME BookInv, [Next]_vars PROVE BookInv'
  OBVIOUS
<1>1. ASSUME NEW a \in Accounts, NEW os \in SUBSET Orders, HandleMessage(a, os) PROVE BookInv'
  BY <1>1, UpdateKeepsBook DEF HandleMessage
<1>2. ASSUME NEW a \in Accounts, HandleDisconnect(a) PROVE BookInv'
  <2>1. {} \in SUBSET Orders
    OBVIOUS
  <2> QED
    BY <1>2, <2>1, UpdateKeepsBook DEF HandleDisconnect
<1>3. CASE RunTimeout
  BY <1>3, TimeoutKeepsBook
<1>4. CASE Tick
  <2>1. /\ now \in 0 .. MaxTime /\ now < MaxTime /\ now' = now + 1
        /\ book' = book /\ updates' = updates
    BY <1>4 DEF Tick, BookInv, TypeOK
  <2>2. now' \in 0 .. MaxTime /\ \A t \in 0 .. now : t \in 0 .. now'
    BY <2>1, TimeAssumption
  <2>3. \A a \in Accounts : book[a] \in [orders: SUBSET Orders, lastUpdate: 0 .. now']
    BY <2>2 DEF BookInv, TypeOK
  <2>4. updates \in Seq([account: Accounts, time: 0 .. now'])
    <3>1. updates \in Seq([account: Accounts, time: 0 .. now])
      BY DEF BookInv, TypeOK
    <3>2. [account: Accounts, time: 0 .. now] \subseteq [account: Accounts, time: 0 .. now']
      BY <2>2
    <3> QED
      BY <3>1, <3>2, SeqOfLarger
  <2>5. TypeOK'
    <3>1. book \in [Accounts -> [orders: SUBSET Orders, lastUpdate: 0 .. now']]
      BY <2>3 DEF BookInv, TypeOK
    <3> QED
      BY <2>1, <2>2, <2>4, <3>1 DEF TypeOK
  <2> QED
    BY <2>1, <2>5 DEF BookInv, QueueCoversBook, OnBook
<1>5. CASE UNCHANGED vars
  BY <1>5 DEF vars, BookInv, TypeOK, QueueCoversBook, OnBook
<1> QED
  BY <1>1, <1>2, <1>3, <1>4, <1>5 DEF Next

(* The state of the order book stays within its types, and no update is    *)
(* later than the clock.                                                   *)
THEOREM BookTyped == Spec => []TypeOK
<1>1. BookInv => TypeOK
  BY DEF BookInv
<1> QED
  BY <1>1, InitBook, NextBook, PTL DEF Spec

(* The queue is in the order of time and has the event of the last update  *)
(* of every account on the book, whatever was erased or updated before.    *)
THEOREM QueueComplete == Spec => []QueueCoversBook
<1>1. BookInv => QueueCoversBook
  BY DEF BookInv
<1> QED
  BY <1>1, InitBook, NextBook, PTL DEF Spec

(* A run of the timeouter removes exactly the accounts whose last update   *)
(* is too old.                                                             *)
THEOREM TimeoutRemovesExactly == Spec => TimeoutExact
<1> DEFINE Exact ==
      /\ \A a \in Accounts : book'[a].orders # {} => book'[a].lastUpdate >= TimeoutBefore
      /\ \A a \in OnBook : book[a].lastUpdate >= TimeoutBefore => book'[a] = book[a]
<1>1. BookInv /\ [Next]_vars => [RunTimeout => Exact]_vars
  <2> SUFFICES ASSUME BookInv, RunTimeout PROVE Exact
    OBVIOUS
  <2>1. /\ book' = [a \in Accounts |-> IF a \in TimedOut THEN Absent ELSE book[a]]
        /\ book \in [Accounts -> [orders: SUBSET Orders, lastUpdate: 0 .. now]]
        /\ now \in Nat /\ TimeoutBefore \in Int
    BY TimeAssumption DEF RunTimeout, BookInv, TypeOK, TimeoutBefore
  <2>2. ASSUME NEW a \in Accounts, book'[a].orders # {}
        PROVE  book'[a].lastUpdate >= TimeoutBefore
    <3>1. a \notin TimedOut /\ book'[a] = book[a] /\ a \in OnBook
      BY <2>1, <2>2 DEF OnBook, Absent
    <3>2. ~(book[a].lastUpdate < TimeoutBefore)
      BY <3>1, OldAccountsTimedOut
    <3>3. book[a].lastUpdate \in Int
      BY <2>1
    <3> QED
      BY <2>1, <3>1, <3>2, <3>3
  <2>3. ASSUME NEW a \in OnBook, book[a].lastUpdate >= TimeoutBefore
        PROVE  book'[a] = book[a]
    <3>1. a \in Accounts /\ book[a].lastUpdate \in Int
      BY <2>1 DEF OnBook
    <3>2. a \notin TimedOut
      BY <2>1, <2>3, <3>1 DEF TimedOut
    <3> QED
      BY <2>1, <3>1, <3>2
  <2> QED
    BY <2>2, <2>3
<1> QED
  BY <1>1, InitBook, NextBook, PTL DEF Spec, TimeoutExact
=============================================================================
