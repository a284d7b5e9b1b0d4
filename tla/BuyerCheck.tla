----------------------------- MODULE BuyerCheck -----------------------------
(***************************************************************************)
(* TradeChecker::CheckForBuyerTrade: before a buyer pays for an asset with *)
(* a transaction that spends the seller's name output, it asks the node    *)
(* for the output and the game's GSP for the balance, in several calls.    *)
(* Meanwhile blocks arrive, some of them with moves of the seller, the     *)
(* chain is reorganised, and the GSP is at a block of its own.             *)
(***************************************************************************)
EXTENDS Naturals, Sequences

CONSTANTS
    MAX_BLOCK_ANCESTORS_CHECKED,   \* as in checker.cpp
    MaxBlocks                      \* bound: blocks in the tree

ASSUME AncestorsAssumption == MAX_BLOCK_ANCESTORS_CHECKED \in Nat
ASSUME MaxBlocksAssumption == MaxBlocks \in Nat \ {0}

VARIABLES
    blocks,      \* all blocks the node knows, with the state after each
    tip,         \* the node's best block
    gsp,         \* the block the GSP's state is at
    pc,          \* next call of the check
    result,      \* what the check has returned, and where it failed
    nameInput,   \* the name output the check returns
    utxoBlock,   \* "bestblock" that gettxout has reported for it
    gspBlock,    \* the block hash that CanSell has returned
    reorged,     \* history: a reorg between gettxout and CanSell
    behind       \* history: the GSP was not at the tip in CanSell

vars == <<blocks, tip, gsp, pc, result, nameInput, utxoBlock, gspBlock, reorged, behind>>
check == <<pc, result, nameInput, utxoBlock, gspBlock, behind>>

(* What a block does to the seller: nothing; the seller's name is updated, *)
(* and the move in it gives the asset away; somebody sends the seller the  *)
(* asset; the trade's transaction, which updates the name as well.         *)
Ops == {"none", "send", "receive", "trade"}
Calls == {"IsAsset", "name_show", "gettxout", "CanSell", "IsBlockAncestor", "done"}
Results == {"none", "ok", "notAsset", "noUtxo", "cannotSell", "notAncestor"}

NoBlock == 0
Blocks == 1 .. MaxBlocks

(* A name output is told apart by the updates that led to it: the same     *)
(* transactions may be in blocks of different branches.                    *)
Genesis(has) ==
    [parent |-> NoBlock, height |-> 0, line |-> {1}, op |-> "none",
     out |-> << >>, has |-> has]

Successor(b, p, op) ==
    LET old == blocks[p] IN
    [parent |-> p,
     height |-> old.height + 1,
     line   |-> old.line \cup {b},
     op     |-> op,
     out    |-> IF op \in {"send", "trade"} THEN Append(old.out, op) ELSE old.out,
     has    |-> CASE op \in {"send", "trade"} -> FALSE
                  [] op = "receive" -> TRUE
                  [] OTHER -> old.has]

(***************************************************************************)
(* The node and the GSP                                                    *)
(***************************************************************************)
(* The trade's transaction exists once the check has passed, and a block   *)
(* can contain it if the name output it spends is the current one there.   *)
CanInclude(p, op) ==
    /\ op = "trade" => result = "ok" /\ blocks[p].out = nameInput
    /\ op = "receive" => ~blocks[p].has

(* A block with the most work so far becomes the tip.                      *)
NewBlock(p, op) ==
    LET b == Len(blocks) + 1 IN
    /\ b <= MaxBlocks
    /\ CanInclude(p, op)
    /\ blocks' = Append(blocks, Successor(b, p, op))
    /\ tip' = IF blocks[p].height + 1 > blocks[tip].height THEN b ELSE tip
    /\ reorged' = (reorged \/ (pc = "CanSell" /\ tip' # tip /\ p # tip))
    /\ UNCHANGED <<gsp, check>>

(* The GSP follows the node block by block, detaching those of a branch    *)
(* that is not the best any more.                                          *)
GspStep ==
    /\ gsp # tip
    /\ gsp' = IF gsp \in blocks[tip].line
              THEN CHOOSE b \in blocks[tip].line : blocks[b].parent = gsp
              ELSE blocks[gsp].parent
    /\ UNCHANGED <<blocks, tip, reorged, check>>

(***************************************************************************)
(* CheckForBuyerTrade, a call at a time                                    *)
(***************************************************************************)
Return(res) ==
    pc' = "done" /\ result' = res

(* IsAsset may say no; CanBuy of the non-fungible game is always true.     *)
AskIsAsset(known) ==
    /\ pc = "IsAsset"
    /\ IF known THEN pc' = "name_show" /\ UNCHANGED result ELSE Return("notAsset")
    /\ UNCHANGED <<blocks, tip, gsp, nameInput, utxoBlock, gspBlock, reorged, behind>>

GetNameOutPoint ==
    /\ pc = "name_show"
    /\ nameInput' = blocks[tip].out
    /\ pc' = "gettxout"
    /\ UNCHANGED <<blocks, tip, gsp, result, utxoBlock, gspBlock, reorged, behind>>

(* gettxout does not find an output that is spent, nor one that some       *)
(* transaction in the mempool spends.                                      *)
GetTxOut(spentInMempool) ==
    /\ pc = "gettxout"
    /\ IF blocks[tip].out = nameInput /\ ~spentInMempool
       THEN /\ utxoBlock' = tip
            /\ pc' = "CanSell"
            /\ UNCHANGED result
       ELSE Return("noUtxo") /\ UNCHANGED utxoBlock
    /\ UNCHANGED <<blocks, tip, gsp, nameInput, gspBlock, reorged, behind>>

(* getbalance of the GSP, which tells its block too.                       *)
CanSell ==
    /\ pc = "CanSell"
    /\ gspBlock' = gsp
    /\ behind' = (gsp # tip)
    /\ IF blocks[gsp].has
       THEN pc' = "IsBlockAncestor" /\ UNCHANGED result
       ELSE Return("cannotSell")
    /\ UNCHANGED <<blocks, tip, gsp, nameInput, utxoBlock, reorged>>

(* Mutants: any two blocks are accepted; one block too few is looked at.   *)
IsBlockAncestorAny(ancestor, child, n) == TRUE
IsBlockAncestorShort(ancestor, child, n) ==
    \E k \in 0 .. n : \E walk \in [0 .. k -> DOMAIN blocks] :
        /\ k < n
        /\ walk[0] = child /\ walk[k] = ancestor
        /\ \A i \in 1 .. k : walk[i] = blocks[walk[i - 1]].parent

(* From child back to the parent of each block, for up to n steps; there   *)
(* is no step back from the genesis block.                                 *)
IsBlockAncestor(ancestor, child, n) ==
    \E k \in 0 .. n : \E walk \in [0 .. k -> DOMAIN blocks] :
        /\ walk[0] = child /\ walk[k] = ancestor
        /\ \A i \in 1 .. k : walk[i] = blocks[walk[i - 1]].parent

(* The headers do not change, so when they are read makes no difference.   *)
CheckAncestor ==
    /\ pc = "IsBlockAncestor"
    /\ IF IsBlockAncestor(utxoBlock, gspBlock, MAX_BLOCK_ANCESTORS_CHECKED)
       THEN Return("ok") ELSE Return("notAncestor")
    /\ UNCHANGED <<blocks, tip, gsp, nameInput, utxoBlock, gspBlock, reorged, behind>>

(***************************************************************************)
(* Specification                                                           *)
(***************************************************************************)
Init ==
    /\ \E has \in BOOLEAN : blocks = <<Genesis(has)>>
    /\ tip = 1 /\ gsp = 1
    /\ pc = "IsAsset" /\ result = "none"
    /\ nameInput = << >> /\ utxoBlock = NoBlock /\ gspBlock = NoBlock
    /\ reorged = FALSE /\ behind = FALSE

Next ==
    \/ \E p \in DOMAIN blocks, op \in Ops : NewBlock(p, op)
    \/ GspStep
    \/ \E known \in BOOLEAN : AskIsAsset(known)
    \/ GetNameOutPoint
    \/ \E spentInMempool \in BOOLEAN : GetTxOut(spentInMempool)
    \/ CanSell
    \/ CheckAncestor

Spec == Init /\ [][Next]_vars

(***************************************************************************)
(* Properties                                                              *)
(***************************************************************************)
(* The blocks form a tree, and every value that the check has read is one  *)
(* of the tree.                                                            *)
TypeOK ==
    /\ blocks \in Seq([parent: Nat, height: Nat, line: SUBSET Nat, op: Ops,
                       out: Seq(Ops), has: BOOLEAN])
    /\ Len(blocks) \in Blocks
    /\ \A b \in DOMAIN blocks :
         blocks[b].parent \in 0 .. b - 1 /\ blocks[b].line \subseteq 1 .. b
    /\ tip \in DOMAIN blocks /\ gsp \in DOMAIN blocks
    /\ pc \in Calls /\ result \in Results
    /\ nameInput \in Seq(Ops)
    /\ utxoBlock \in {NoBlock} \cup DOMAIN blocks
    /\ gspBlock \in {NoBlock} \cup DOMAIN blocks
    /\ reorged \in BOOLEAN /\ behind \in BOOLEAN

(* The argument in CheckForBuyerTrade: "either the trade will be valid, or *)
(* the transaction will be invalid anyway because the name input we use is *)
(* double-spent".  Wherever the transaction is mined, on a chain that has  *)
(* the block at which the GSP confirmed the balance, the seller still has  *)
(* the asset there.                                                        *)
MinedTradeValid ==
    \A b \in DOMAIN blocks :
        blocks[b].op = "trade" /\ gspBlock \in blocks[b].line =>
            blocks[blocks[b].parent].has

(* "This may produce spurious failures in some rare circumstances, like    *)
(* when still syncing up or when a reorg happens between the calls": the   *)
(* blocks are found not to match only if the chain was reorganised after   *)
(* gettxout, the GSP was not at the tip, or more blocks arrived in between *)
(* than IsBlockAncestor looks at.                                          *)
MismatchExplained ==
    result = "notAncestor" =>
        \/ reorged
        \/ behind
        \/ blocks[gspBlock].height > blocks[utxoBlock].height + MAX_BLOCK_ANCESTORS_CHECKED
=============================================================================
