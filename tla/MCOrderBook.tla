---------------------------- MODULE MCOrderBook ----------------------------
(* OrderBook with its views for TLC: asks and bids at equal and at         *)
(* different prices, and a second asset.                                   *)
EXTENDS OrderBookViews

MCData == [x \in Accounts \X Orders |->
             CASE x[2] = 1 -> [asset |-> "gold", type |-> "ask", price |-> x[1]]
               [] x[2] = 2 -> [asset |-> "gold", type |-> "bid", price |-> 2 - x[1]]
               [] OTHER -> [asset |-> "silver", type |-> "ask", price |-> 2]]
=============================================================================
