--------------------------- MODULE OrderBookViews ---------------------------
(***************************************************************************)
(* What the order book shows to the user: the orders of all accounts by    *)
(* asset, each side sorted with the best price first (GetByAsset and       *)
(* GetForAsset, and their JSON form, which leaves out asset and type).     *)
(***************************************************************************)
EXTENDS OrderBook, SequencesExt

CONSTANT Data    \* asset, type and price_sat of each account's orders

Assets == {Data[x].asset : x \in DOMAIN Data}

ASSUME DataAssumption ==
    \A x \in Accounts \X Orders : /\ Data[x].type \in {"ask", "bid"}
                                  /\ Data[x].price \in Nat

(* Orders are known by account and ID: maps of proto messages.             *)
Listed == UNION {{a} \X book[a].orders : a \in Accounts}

Entry(x) == [account |-> x[1], id |-> x[2], price |-> Data[x].price]

ByPriceAsc(e, f) ==
    \/ e.price < f.price
    \/ e.price = f.price /\ e.account < f.account
    \/ e.price = f.price /\ e.account = f.account /\ e.id < f.id

AddOrderForAsset(S, type) == {Entry(x) : x \in {y \in S : Data[y].type = type}}

(* Mutant: both sides are sorted in the same direction.                    *)
SortByPricesAsc(S) ==
    [asks |-> SetToSortSeq(AddOrderForAsset(S, "ask"), ByPriceAsc),
     bids |-> SetToSortSeq(AddOrderForAsset(S, "bid"), ByPriceAsc)]

(* The two sides of an asset for the orders S of it.  Bids are sorted      *)
(* through reverse iterators.                                              *)
SortByPrices(S) ==
    [asks |-> SetToSortSeq(AddOrderForAsset(S, "ask"), ByPriceAsc),
     bids |-> Reverse(SetToSortSeq(AddOrderForAsset(S, "bid"), ByPriceAsc))]

(* only is the set of assets not to be skipped.                            *)
InternalGetByAsset(only) ==
    LET Of(s) == {x \in Listed : Data[x].asset = s}
    IN  [s \in {s \in only : Of(s) # {}} |-> SortByPrices(Of(s))]

GetByAsset == InternalGetByAsset(Assets)

GetForAsset(s) ==
    LET view == InternalGetByAsset({s})
    IN  IF DOMAIN view = {} THEN [asks |-> << >>, bids |-> << >>] ELSE view[s]

(* Both views show the same: every order that is on the book once, under   *)
(* its asset and side, and none that was removed or has timed out; whoever *)
(* takes the first ask pays the least, whoever takes the first bid gets    *)
(* the most.                                                               *)
ViewsBestFirst ==
    /\ \A s \in DOMAIN GetByAsset : GetForAsset(s) = GetByAsset[s]
    /\ \A s \in Assets :
         LET v == GetForAsset(s)
             prices(side) == {e.price : e \in ToSet(side)}
         IN  /\ Len(v.asks) + Len(v.bids) = Cardinality({x \in Listed : Data[x].asset = s})
             /\ \A e \in ToSet(v.asks) \cup ToSet(v.bids) : e.id \in book[e.account].orders
             /\ v.asks # << >> => \A p \in prices(v.asks) : v.asks[1].price <= p
             /\ v.bids # << >> => \A p \in prices(v.bids) : v.bids[1].price >= p
=============================================================================
