--------------------------- MODULE TradeTracking ---------------------------
(***************************************************************************)
(* How a daemon finds out what became of a trade that is PENDING: the      *)
(* updater asks the g/dem GSP about the transaction and the Xaya node about*)
(* its inputs.  The node follows the best chain, which may be reorganised; *)
(* the GSP follows the node block by block and keeps the transactions it   *)
(* knows to be pending; the updater makes its calls one after the other,   *)
(* while both of them move.  Module Trading takes all of this as one step. *)
(* Here a single trade is looked at, from one of its sides.               *)
(***************************************************************************)
EXTENDS Integers, Sequences, SequencesExt

CONSTANTS
    Confirmations,   \* FLAGS_democrit_confirmations
    MaxReorg,        \* blocks that a reorg removes at most
    MaxReorgs,       \* bound: number of reorgs
    MaxLag,          \* a GSP whose last answer is more blocks behind is late
    MaxHeight        \* bound: height of the best chain

(* What has enough confirmations for a trade to be final remains.          *)
ASSUME ConfirmationsAssumption ==
    Confirmations \in Nat /\ MaxReorg \in Nat /\ MaxReorg < Confirmations
ASSUME BoundAssumption ==
    /\ MaxReorgs \in Nat /\ MaxLag \in Nat /\ MaxHeight \in Nat \ {0}

VARIABLES
    chain,       \* best chain of the node: what each block does to our inputs
    mempool,     \* the transaction in the node's mempool that spends them
    reorgs,      \* number of reorgs
    gsp,         \* the chain whose moves the GSP has processed
    pending,     \* the GSP's pending state has the trade
    state,       \* of the trade
    conflict,    \* conflict_height, 0 if it is not set
    pc,          \* where Trade::Update is
    sawPending,  \* the pending state that CheckTrade has read
    curHeight,   \* height of the GSP when it was last asked
    late,        \* history: a block came before the GSP knew what was pending,
                 \* or more than MaxLag blocks after its last answer
    contested    \* history: what was seen since conflict_height was set is a
                 \* double spend that was in the mempool only

vars == <<chain, mempool, reorgs, gsp, pending, state, conflict, pc,
          sawPending, curHeight, late, contested>>

network == <<chain, mempool, reorgs>>
server  == <<gsp, pending>>
daemon  == <<state, conflict, pc, sawPending, curHeight, contested>>

(* The trade and a double spend have an input in common, so at most one of *)
(* them is on a chain.                                                     *)
Spenders == {"trade", "spend"}
Blocks   == Spenders \cup {"empty"}

Has(c, x)   == \E i \in DOMAIN c : c[i] = x
HeightOf(x) == CHOOSE i \in DOMAIN gsp : gsp[i] = x
Spent(c)    == \E x \in Spenders : Has(c, x)

(***************************************************************************)
(* The node                                                                *)
(***************************************************************************)
(* The GSP has been told what is in the mempool, and its last answer to    *)
(* the updater is recent: nothing makes sure of that, blocks come anyway.  *)
OnTime ==
    /\ mempool = "trade" => pending
    /\ state = "PENDING" => Len(chain) < curHeight + MaxLag

Mine(b) ==
    /\ Len(chain) < MaxHeight
    /\ b \in Spenders => ~Spent(chain)
    /\ chain' = Append(chain, b)
    /\ mempool' = IF b \in Spenders THEN "empty" ELSE mempool
    /\ late' = (late \/ ~OnTime)
    /\ UNCHANGED <<reorgs, server, daemon>>

(* The trade, or a double spend, is broadcast.                             *)
EnterMempool(x) ==
    /\ mempool = "empty" /\ ~Spent(chain)
    /\ mempool' = x
    /\ UNCHANGED <<chain, reorgs, server, daemon, late>>

(* k blocks are replaced by k + 1 others, of which block number i does b.  *)
(* What was in the old blocks only goes back to the mempool.               *)
Reorg(k, i, b) ==
    LET base == SubSeq(chain, 1, Len(chain) - k)
        new  == [j \in 1 .. (k + 1) |-> IF j = i THEN b ELSE "empty"]
        old  == {x \in Spenders : Has(chain, x) /\ ~Has(base, x)}
    IN  /\ reorgs < MaxReorgs
        /\ k < Len(chain) /\ i \in 1 .. (k + 1)
        /\ Len(chain) < MaxHeight
        /\ b \in Spenders => ~Spent(base)
        /\ chain' = base \o new
        /\ mempool' = IF Spent(base \o new) THEN "empty"
                      ELSE IF old # {} THEN CHOOSE x \in old : TRUE ELSE mempool
        /\ reorgs' = reorgs + 1
        /\ UNCHANGED <<server, daemon, late>>

(***************************************************************************)
(* The GSP.  When a block is attached, libxayagame clears the pending state*)
(* and adds again what it knows and is still in the mempool; when one is   *)
(* detached, its moves are pending again.                                  *)
(***************************************************************************)
AddPendingMove ==
    /\ mempool = "trade" /\ ~pending
    /\ pending' = TRUE
    /\ UNCHANGED <<network, gsp, daemon, late>>

UpdateState ==
    /\ Len(gsp) < Len(chain) /\ IsPrefix(gsp, chain)
    /\ gsp' = Append(gsp, chain[Len(gsp) + 1])
    /\ pending' = (pending /\ mempool = "trade")
    /\ UNCHANGED <<network, daemon, late>>

DetachBlock ==
    /\ ~IsPrefix(gsp, chain)
    /\ gsp' = Front(gsp)
    /\ pending' = (mempool = "trade")
    /\ UNCHANGED <<network, daemon, late>>

(***************************************************************************)
(* Trade::Update of a PENDING trade                                        *)
(***************************************************************************)
(* checktrade, first part: CheckTrade looks at the pending state ...       *)
CheckPending ==
    /\ pc = "idle" /\ state = "PENDING"
    /\ sawPending' = pending
    /\ pc' = "confirmed"
    /\ UNCHANGED <<network, server, state, conflict, curHeight, late, contested>>

(* Mutant: one confirmation is missing.                                    *)
FinalEarly(h) == h + Confirmations <= Len(gsp) + 2

(* Mutant: one confirmation too many is asked for.                         *)
FinalLate(h) == h + Confirmations <= Len(gsp)

Final(h) == h + Confirmations <= Len(gsp) + 1

(* ... and then at the confirmed trades.  What is confirmed is not looked  *)
(* up as pending.                                                          *)
CheckTrade ==
    CASE Has(gsp, "trade")                -> "confirmed"
      [] ~Has(gsp, "trade") /\ sawPending -> "pending"
      [] OTHER                            -> "unknown"

(* The answer has the height of the GSP in the same snapshot.              *)
checktrade == [state |-> CheckTrade, height |-> Len(gsp)]

(* The updater gets the answer.                                            *)
UseAnswer ==
    /\ pc = "confirmed"
    /\ curHeight' = checktrade.height
    /\ \/ /\ checktrade.state = "confirmed" /\ Final(HeightOf("trade"))
          /\ state' = "SUCCESS" /\ pc' = "idle"
          /\ UNCHANGED <<conflict, contested>>
       \/ /\ checktrade.state # "unknown"
          /\ checktrade.state = "confirmed" => ~Final(HeightOf("trade"))
          /\ conflict' = 0 /\ contested' = FALSE /\ pc' = "idle"
          /\ UNCHANGED state
       \/ /\ checktrade.state = "unknown"
          /\ pc' = "inputs"
          /\ UNCHANGED <<state, conflict, contested>>
    /\ UNCHANGED <<network, server, sawPending, late>>

(* gettxout: null if the output is spent on the chain or in the mempool,   *)
(* be it by the trade itself.                                              *)
InputsGone == Spent(chain) \/ mempool \in Spenders

(* Mutant: the conflict is final one block too early.                      *)
ConflictFinalEarly(h) == h + Confirmations <= curHeight + 2

ConflictFinal(h) == h + Confirmations <= curHeight + 1

(* The trade is unknown to the GSP: gettxout for its inputs.               *)
CheckInputs ==
    /\ pc = "inputs"
    /\ pc' = "idle"
    /\ \/ /\ ~InputsGone
          /\ conflict' = 0
          /\ UNCHANGED state
       \/ /\ InputsGone /\ conflict = 0
          /\ conflict' = curHeight
          /\ UNCHANGED state
       \/ /\ InputsGone /\ conflict # 0
          /\ state' = IF ConflictFinal(conflict) THEN "FAILED" ELSE state
          /\ UNCHANGED conflict
    /\ contested' = (mempool = "spend" \/ (contested /\ InputsGone))
    /\ UNCHANGED <<network, server, sawPending, curHeight, late>>

(***************************************************************************)
(* Specification                                                           *)
(***************************************************************************)
Init ==
    /\ chain = <<"empty">> /\ mempool = "empty" /\ reorgs = 0
    /\ gsp = chain /\ pending = FALSE
    /\ state = "PENDING" /\ conflict = 0
    /\ pc = "idle" /\ sawPending = FALSE /\ curHeight = 1
    /\ late = FALSE /\ contested = FALSE

NodeStep ==
    \/ \E b \in Blocks : Mine(b)
    \/ \E x \in Spenders : EnterMempool(x)
    \/ \E k \in 1 .. MaxReorg, i \in 1 .. (MaxReorg + 1), b \in Blocks : Reorg(k, i, b)
GspStep    == AddPendingMove \/ UpdateState \/ DetachBlock
UpdateStep == CheckPending \/ UseAnswer \/ CheckInputs

Next == NodeStep \/ GspStep \/ UpdateStep

Spec == Init /\ [][Next]_vars

(* The GSP keeps up with the node and the updater runs again and again.    *)
FairSpec == Spec /\ WF_vars(GspStep) /\ WF_vars(UpdateStep)

(***************************************************************************)
(* Properties                                                              *)
(***************************************************************************)
(* All state stays within its types.                                       *)
TypeOK ==
    /\ chain \in Seq(Blocks) /\ gsp \in Seq(Blocks)
    /\ Len(chain) \in 1 .. MaxHeight /\ Len(gsp) \in 1 .. MaxHeight
    /\ mempool \in Blocks /\ pending \in BOOLEAN /\ sawPending \in BOOLEAN
    /\ reorgs \in 0 .. MaxReorgs
    /\ state \in {"PENDING", "SUCCESS", "FAILED"}
    /\ pc \in {"idle", "confirmed", "inputs"}
    /\ late \in BOOLEAN /\ contested \in BOOLEAN
    /\ conflict \in 0 .. MaxHeight /\ curHeight \in 0 .. MaxHeight

(* A trade that is SUCCESS stays on the chain, although the GSP may have   *)
(* looked at a branch that the node has left already (the comparison of    *)
(* heights with FLAGS_democrit_confirmations in Trade::Update).            *)
SuccessFinal == state = "SUCCESS" => Has(chain, "trade")

(* "The trade failed because an input was double spent" (proto::Trade).    *)
(* gettxout does not tell who has spent an input, nor if it was in a block,*)
(* so Trade::Update marks a trade as FAILED that is executed; but for      *)
(* three reasons only: there was a reorg; the GSP was late, so that the    *)
(* trade's own spend was taken for a conflict; or the conflict was a       *)
(* double spend in the mempool that did not make it into a block.          *)
FailureExplained ==
    state = "FAILED" /\ Has(chain, "trade") => reorgs # 0 \/ late \/ contested

(* A trade that has its confirmations is decided in the end by the updater,*)
(* whatever it saw of the trade, its inputs and of reorgs meanwhile.       *)
ConfirmedDecided ==
    (\E i \in DOMAIN chain : chain[i] = "trade" /\ i + Confirmations <= Len(chain) + 1)
        ~> state # "PENDING"
=============================================================================
