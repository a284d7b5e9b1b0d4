---------------------------- MODULE TradingSwap ----------------------------
(***************************************************************************)
(* The trade protocol implements AtomicSwap: a trade is a side, a trade    *)
(* transaction that the network has accepted is a swap of the trades of    *)
(* its buyer and of its seller.                                            *)
(***************************************************************************)
EXTENDS Trading

PhaseOf(state) ==
    CASE state = "none"      -> "none"
      [] state = "INITIATED" -> "open"
      [] state = "PENDING"   -> "bound"
      [] state = "SUCCESS"   -> "done"
      [] state = "FAILED"    -> "failed"
      [] state = "ABANDONED" -> "left"

SwapOf(X) == {<<x.buyer, x.seller>> : x \in X}

Swap == INSTANCE AtomicSwap WITH
          Sides    <- TradeRefs,
          phase    <- [r \in TradeRefs |-> PhaseOf(trades[r].state)],
          swaps    <- SwapOf(broadcast),
          executed <- SwapOf(confirmed)

(* Every step of the daemons, the network and the chain is a step of       *)
(* AtomicSwap or none at all: no trade is given up after its signatures    *)
(* were shared, no transaction gets out to which one side has not bound    *)
(* itself, and SUCCESS and FAILED are what happens to the transaction, also*)
(* later on (Trade::HasReply, Trade::Update, trades.proto).                *)
ImplementsAtomicSwap == Swap!Spec
=============================================================================
