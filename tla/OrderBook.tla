----------------------------- MODULE OrderBook -----------------------------
(***************************************************************************)
(* The orders of the other traders: the map from accounts to their orders  *)
(* with the time of the last update, and the queue of update events from   *)
(* which the timeouter job finds the accounts to remove.  Both operations  *)
(* hold the mutex of the instance, so each is one action.                  *)
(***************************************************************************)
EXTENDS Integers, Sequences, FiniteSets

CONSTANTS
    Accounts,   \* the other traders
    Orders,     \* orders an account may have on the book
    Timeout,    \* age from which the orders of an account are dropped
    MaxTime,    \* bound: the clock
    MaxQueue    \* bound: update events in the queue

ASSUME TimeAssumption == Timeout \in Nat /\ MaxTime \in Nat /\ MaxQueue \in Nat

VARIABLES
    book,     \* orders: [orders, lastUpdate] of each account, no orders: absent
    updates,  \* queue of [account, time]
    now       \* Clock::now ()

vars == <<book, updates, now>>

Absent == [orders |-> {}, lastUpdate |-> 0]

OnBook == {a \in Accounts : book[a].orders # {}}

(***************************************************************************)
(* UpdateOrders, on the XMPP thread                                        *)
(***************************************************************************)
Written(a, os) == [book EXCEPT ![a] = [orders |-> os, lastUpdate |-> now]]

(* Mutant: only the first update of an account is put into the queue.      *)
UpdateOrdersFirstEvent(a, os) ==
    /\ Len(updates) < MaxQueue
    /\ \/ /\ os = {}
          /\ book' = [book EXCEPT ![a] = Absent]
          /\ UNCHANGED updates
       \/ /\ os # {}
          /\ book' = Written(a, os)
          /\ updates' = IF a \in OnBook THEN updates
                        ELSE Append(updates, [account |-> a, time |-> now])
    /\ UNCHANGED now

UpdateOrders(a, os) ==
    /\ Len(updates) < MaxQueue
    /\ \/ /\ os = {}
          /\ book' = [book EXCEPT ![a] = Absent]
          /\ UNCHANGED updates
       \/ /\ os # {}
          /\ book' = Written(a, os)
          /\ updates' = Append(updates, [account |-> a, time |-> now])
    /\ UNCHANGED now

(* An account broadcast its orders: os are those that ValidateOrder finds  *)
(* valid, perhaps none.                                                    *)
HandleMessage(a, os) == UpdateOrders(a, os)

(* An account left the room.                                               *)
HandleDisconnect(a) == UpdateOrders(a, {})

(***************************************************************************)
(* RunTimeout, on the timeouter's thread                                   *)
(***************************************************************************)
TimeoutBefore == now - Timeout

(* The loop pops events from the front while they are old enough.          *)
Popped == {i \in DOMAIN updates : \A j \in 1 .. i : updates[j].time < TimeoutBefore}

(* Mutant: an account's older update is enough to remove it.               *)
TimedOutByEvent == {a \in OnBook : \E i \in Popped : updates[i].account = a}

TimedOut ==
    {a \in OnBook : /\ \E i \in Popped : updates[i].account = a
                    /\ book[a].lastUpdate < TimeoutBefore}

RunTimeout ==
    /\ updates' = SubSeq(updates, Cardinality(Popped) + 1, Len(updates))
    /\ book' = [a \in Accounts |-> IF a \in TimedOut THEN Absent ELSE book[a]]
    /\ UNCHANGED now

Tick ==
    /\ now < MaxTime
    /\ now' = now + 1
    /\ UNCHANGED <<book, updates>>

Init ==
    /\ book = [a \in Accounts |-> Absent]
    /\ updates = <<>>
    /\ now = 0

Next ==
    \/ \E a \in Accounts, os \in SUBSET Orders : HandleMessage(a, os)
    \/ \E a \in Accounts : HandleDisconnect(a)
    \/ RunTimeout
    \/ Tick

Spec == Init /\ [][Next]_vars

(* The IntervalJob of the timeouter runs again and again.                  *)
FairSpec == Spec /\ WF_vars(RunTimeout)

(***************************************************************************)
(* Properties                                                              *)
(***************************************************************************)
(* All state stays within its types and no update lies in the future.      *)
TypeOK ==
    /\ book \in [Accounts -> [orders: SUBSET Orders, lastUpdate: 0 .. now]]
    /\ updates \in Seq([account: Accounts, time: 0 .. now])
    /\ now \in 0 .. MaxTime

(* What the loop of RunTimeout relies on when it looks at the front of the *)
(* queue only: events are in the order of time, and every account on the   *)
(* book still has the event of its last update in the queue, although      *)
(* older events of it, or of deleted and re-added orders, are there too.   *)
QueueCoversBook ==
    /\ \A i, j \in DOMAIN updates : i <= j => updates[i].time <= updates[j].time
    /\ \A a \in OnBook : \E i \in DOMAIN updates :
         updates[i] = [account |-> a, time |-> book[a].lastUpdate]

(* A run of the timeouter removes exactly the accounts whose last update   *)
(* is too old: none of these stays, and none with a newer update goes.     *)
TimeoutExact ==
    [][RunTimeout =>
         /\ \A a \in Accounts : book'[a].orders # {} =>
              book'[a].lastUpdate >= TimeoutBefore
         /\ \A a \in OnBook : book[a].lastUpdate >= TimeoutBefore =>
              book'[a] = book[a]]_vars

(* Orders of a trader that no longer broadcasts them leave the book.       *)
StaleRemoved ==
    \A a \in Accounts :
        (a \in OnBook /\ book[a].lastUpdate < TimeoutBefore) ~>
            (a \notin OnBook \/ book[a].lastUpdate >= TimeoutBefore)
=============================================================================
