------------------------ MODULE TradeTrackingProofs ------------------------
(***************************************************************************)
(* Proofs about module TradeTracking, for every number of confirmations,   *)
(* depth of reorgs and lag of the GSP, and for chains of any length.       *)
(* SUCCESS is final because what the GSP's chain has below the deepest     *)
(* reorg, the node's chain has as well. A wrong FAILED is always explained:*)
(* as long as the GSP is not late, a trade that it does not know yet cannot*)
(* stay unknown for long. conflict_height was set at most MaxLag blocks    *)
(* behind the node, the trade was in the mempool then or got there before  *)
(* the next block, and its block comes at most so much later that the GSP  *)
(* has it before the conflict counts as final.                             *)
(***************************************************************************)
EXTENDS TradeTracking, TLAPS, SequenceTheorems

(* What is below the deepest reorg is the same on both chains.             *)
ChainInv ==
    /\ Len(gsp) <= Len(chain) /\ chain[1] = gsp[1]
    /\ \A i \in 1 .. Len(gsp) - MaxReorg : gsp[i] = chain[i]

(* A trade that is SUCCESS is in a block that no reorg can remove any      *)
(* more.                                                                   *)
SettledInv ==
    state = "SUCCESS" => \E h \in 1 .. Len(chain) - MaxReorg : chain[h] = "trade"

(* An input is spent once on a chain.                                      *)
OneSpender ==
    \A i, j \in DOMAIN chain : chain[i] \in Spenders /\ chain[j] \in Spenders => i = j

(* Without reorgs and with a GSP that is on time: it has a part of the     *)
(* node's chain, heights are in the order in which they were read, the     *)
(* last answer is at most MaxLag blocks old, and a trade that was unknown  *)
(* to the GSP when the inputs are looked up is in a later block if any.    *)
QuietInv ==
    /\ OneSpender
    /\ Spent(chain) => mempool = "empty"
    /\ \A i \in DOMAIN gsp : gsp[i] = chain[i]
    /\ conflict <= curHeight /\ curHeight <= Len(gsp)
    /\ state = "PENDING" => Len(chain) <= curHeight + MaxLag
    /\ pc = "inputs" => \A h \in DOMAIN chain : chain[h] = "trade" => curHeight < h
    /\ state # "PENDING" => pc = "idle"

(* What conflict_height tells of a PENDING trade then, unless a double     *)
(* spend in the mempool was seen: an input is spent, and if it is by the   *)
(* trade itself, then recently. One MaxLag is how far the answer that set  *)
(* it was behind the node, one passes until the GSP's next answer, and one *)
(* until the trade's block is seen.                                        *)
ConflictInv ==
    state = "PENDING" /\ conflict # 0 /\ ~contested =>
        /\ InputsGone /\ mempool # "spend"
        /\ mempool = "trade" =>
             /\ curHeight <= conflict + 2 * MaxLag
             /\ ~pending => Len(chain) <= conflict + MaxLag
             /\ pc = "confirmed" /\ ~sawPending => curHeight <= conflict + MaxLag
        /\ \A h \in DOMAIN chain : chain[h] = "trade" => h <= conflict + 3 * MaxLag

(* A trade that is FAILED was double spent in a block.                     *)
FailedInv == state = "FAILED" /\ ~contested => Has(chain, "spend")

(* What it takes for MaxLag to be a sensible bound of being late: less     *)
(* than a third of the confirmations. TLC finds FailureExplained violated  *)
(* for 3 confirmations with a lag of 1, for 6 with a lag of 2 and for 1    *)
(* without lag, so this is tight.                                          *)
EnoughConfirmations == 3 * MaxLag < Confirmations /\ 1 < Confirmations

(* The part of the invariant that needs enough confirmations.              *)
FailInv == EnoughConfirmations /\ (reorgs = 0 /\ ~late => FailedInv)

(* The inductive invariants: for all behaviours, and up to the first reorg *)
(* or the first block for which the GSP is late.                           *)
TrackInv == TypeOK /\ ChainInv /\ SettledInv
NoReorgInv == reorgs = 0 /\ ~late => QuietInv /\ ConflictInv

(***************************************************************************)
(* Chains                                                                  *)
(***************************************************************************)
(* Facts about sequences of blocks.                                        *)
LEMMA ChainType ==
    ASSUME NEW c \in Seq(Blocks)
    PROVE  Len(c) \in Nat /\ DOMAIN c = 1 .. Len(c) /\ \A i \in 1 .. Len(c) : c[i] \in Blocks
  OBVIOUS

LEMMA AppendBlock ==
    ASSUME NEW c \in Seq(Blocks), NEW b \in Blocks
    PROVE  LET d == Append(c, b) IN
           /\ d \in Seq(Blocks) /\ Len(d) = Len(c) + 1 /\ d[Len(c) + 1] = b
           /\ \A i \in 1 .. Len(c) : d[i] = c[i]
  OBVIOUS

(* IsPrefix, block by block.                                               *)
LEMMA PrefixAgrees ==
    ASSUME NEW s \in Seq(Blocks), NEW t \in Seq(Blocks)
    PROVE  IsPrefix(s, t) <=> Len(s) <= Len(t) /\ \A i \in 1 .. Len(s) : s[i] = t[i]
<1>1. /\ SubSeq(s, 1, Len(s)) \in Seq(Blocks) /\ Len(SubSeq(s, 1, Len(s))) = Len(s)
      /\ \A i \in 1 .. Len(s) : SubSeq(s, 1, Len(s))[i] = s[i]
  <2>1. Len(s) \in Nat /\ \A i \in 1 .. Len(s) : s[i] \in Blocks
    OBVIOUS
  <2> QED
    BY <2>1, SubSeqProperties
<1>2. ASSUME Len(s) <= Len(t)
      PROVE  /\ SubSeq(t, 1, Len(s)) \in Seq(Blocks) /\ Len(SubSeq(t, 1, Len(s))) = Len(s)
             /\ \A i \in 1 .. Len(s) : SubSeq(t, 1, Len(s))[i] = t[i]
  <2>1. Len(s) \in Nat /\ \A i \in 1 .. Len(s) : t[i] \in Blocks
    BY <1>2
  <2> QED
    BY <2>1, SubSeqProperties
<1>3. ASSUME Len(s) <= Len(t), \A i \in 1 .. Len(s) : s[i] = t[i]
      PROVE  SubSeq(s, 1, Len(s)) = SubSeq(t, 1, Len(s))
  BY <1>1, <1>2, <1>3, SeqEqual
<1> QED
  BY <1>1, <1>2, <1>3 DEF IsPrefix

(* Blocks from the old chain, and new ones after them.                     *)
LEMMA ReorgBlocks ==
    ASSUME NEW c \in Seq(Blocks), NEW k \in Nat, k < Len(c),
           NEW t \in Seq(Blocks), Len(t) = k + 1
    PROVE  LET d == SubSeq(c, 1, Len(c) - k) \o t
           IN  /\ d \in Seq(Blocks) /\ Len(d) = Len(c) + 1
               /\ \A j \in 1 .. (Len(c) - k) : d[j] = c[j]
<1> DEFINE s == SubSeq(c, 1, Len(c) - k)
<1>1. /\ s \in Seq(Blocks) /\ Len(s) = Len(c) - k
      /\ \A j \in 1 .. (Len(c) - k) : s[j] = c[j]
  <2>1. Len(c) - k \in Nat /\ \A j \in 1 .. (Len(c) - k) : c[j] \in Blocks
    OBVIOUS
  <2>2. 1 \in Int /\ Len(c) - k \in Int
    BY <2>1
  <2>3. /\ s \in Seq(Blocks) /\ Len(s) = IF 1 <= Len(c) - k THEN Len(c) - k - 1 + 1 ELSE 0
        /\ \A j \in 1 .. (Len(c) - k) - 1 + 1 : s[j] = c[1 + j - 1]
    BY <2>1, <2>2, SubSeqProperties
  <2> QED
    BY <2>1, <2>3
<1> HIDE DEF s
<1>2. /\ s \o t \in Seq(Blocks) /\ Len(s \o t) = Len(s) + Len(t)
      /\ \A j \in 1 .. Len(s) + Len(t) : (s \o t)[j] = IF j <= Len(s) THEN s[j] ELSE t[j - Len(s)]
  BY <1>1, ConcatProperties
<1>3. Len(s \o t) = Len(c) + 1
  BY <1>1, <1>2
<1>4. \A j \in 1 .. (Len(c) - k) : (s \o t)[j] = c[j]
  BY <1>1, <1>2
<1> QED
  BY <1>2, <1>3, <1>4 DEF s

(***************************************************************************)
(* Types, and what a trade that has its confirmations rests on             *)
(***************************************************************************)
LEMMA InitTrack == Init => TrackInv
<1> SUFFICES ASSUME Init PROVE TrackInv
  OBVIOUS
<1> USE BoundAssumption, ConfirmationsAssumption
<1>1. /\ <<"empty">> \in Seq(Blocks) /\ Len(<<"empty">>) = 1
      /\ <<"empty">>[1] = "empty"
  BY DEF Blocks
<1>2. chain = <<"empty">> /\ gsp = chain
  BY DEF Init
<1>3. TypeOK
  <2>1. /\ mempool = "empty" /\ reorgs = 0 /\ state = "PENDING" /\ pc = "idle"
        /\ conflict = 0 /\ curHeight = 1
    BY DEF Init
  <2>2. /\ pending \in BOOLEAN /\ sawPending \in BOOLEAN
        /\ late \in BOOLEAN /\ contested \in BOOLEAN
    BY DEF Init
  <2>3. Len(chain) = 1 /\ Len(gsp) = 1 /\ chain \in Seq(Blocks) /\ gsp \in Seq(Blocks)
    BY <1>1, <1>2
  <2>4. 1 \in 1 .. MaxHeight /\ 1 \in 0 .. MaxHeight /\ 0 \in 0 .. MaxHeight /\ 0 \in 0 .. MaxReorgs
    OBVIOUS
  <2> QED
    BY <2>1, <2>2, <2>3, <2>4 DEF TypeOK, Blocks
<1>4. ChainInv
  BY <1>1, <1>2 DEF ChainInv
<1> QED
  BY <1>3, <1>4 DEF Init, TrackInv, SettledInv

(* The chain grows, and only its last MaxReorg blocks are replaced.        *)
LEMMA ChainStepTrack ==
    ASSUME TrackInv, chain' \in Seq(Blocks), Len(chain) < MaxHeight,
           Len(chain') = Len(chain) + 1,
           NEW k \in 0 .. MaxReorg, k < Len(chain),
           \A i \in 1 .. (Len(chain) - k) : chain'[i] = chain[i],
           UNCHANGED <<server, daemon>>
    PROVE  /\ chain' \in Seq(Blocks) /\ Len(chain') \in 1 .. MaxHeight
           /\ ChainInv' /\ SettledInv'
<1> USE ConfirmationsAssumption, BoundAssumption
<1>1. /\ chain \in Seq(Blocks) /\ gsp \in Seq(Blocks)
      /\ Len(chain) \in Nat /\ Len(gsp) \in Nat /\ Len(chain) >= 1
      /\ k \in Nat /\ MaxReorg \in Nat
  BY DEF TrackInv, TypeOK
<1>2. gsp' = gsp /\ state' = state
  BY DEF server, daemon
<1>3. chain'[1] = chain[1]
  BY <1>1
<1>4. \A i \in 1 .. Len(gsp) - MaxReorg : chain'[i] = chain[i]
  BY <1>1 DEF TrackInv, ChainInv
<1>5. ChainInv'
  BY <1>1, <1>2, <1>3, <1>4 DEF TrackInv, ChainInv
<1>6. SettledInv'
  <2> SUFFICES ASSUME state = "SUCCESS"
               PROVE  \E h \in 1 .. Len(chain') - MaxReorg : chain'[h] = "trade"
    BY <1>2 DEF SettledInv
  <2>1. PICK h \in 1 .. Len(chain) - MaxReorg : chain[h] = "trade"
    BY DEF TrackInv, SettledInv
  <2>2. h \in 1 .. (Len(chain) - k) /\ h \in 1 .. Len(chain') - MaxReorg
    BY <1>1, <2>1
  <2> QED
    BY <2>1, <2>2
<1> QED
  BY <1>1, <1>5, <1>6

(* One lemma per action: TrackInv.                                         *)
LEMMA MineTrack ==
    ASSUME TrackInv, NEW b \in Blocks, Mine(b)
    PROVE  TrackInv'
<1> USE ConfirmationsAssumption, BoundAssumption
<1>1. /\ chain \in Seq(Blocks) /\ Len(chain) \in Nat /\ Len(chain) >= 1
  BY DEF TrackInv, TypeOK
<1>2. chain' = Append(chain, b) /\ Len(chain) < MaxHeight /\ UNCHANGED <<server, daemon>>
  BY DEF Mine
<1>3. /\ chain' \in Seq(Blocks) /\ Len(chain') = Len(chain) + 1
      /\ \A i \in 1 .. (Len(chain) - 0) : chain'[i] = chain[i]
  BY <1>1, <1>2, AppendBlock
<1>4. 0 \in 0 .. MaxReorg /\ 0 < Len(chain)
  BY <1>1
<1>5. Len(chain') \in 1 .. MaxHeight /\ ChainInv' /\ SettledInv'
  BY <1>2, <1>3, <1>4, ChainStepTrack
<1>6. mempool' \in Blocks /\ reorgs' = reorgs
  BY DEF Mine, TrackInv, TypeOK, Blocks
<1>6a. late' \in BOOLEAN
  BY DEF Mine, TrackInv, TypeOK
<1>7. TypeOK'
  BY <1>2, <1>3, <1>5, <1>6, <1>6a DEF TrackInv, TypeOK, server, daemon
<1> QED
  BY <1>5, <1>7 DEF TrackInv

LEMMA EnterMempoolTrack ==
    ASSUME TrackInv, NEW x \in Spenders, EnterMempool(x)
    PROVE  TrackInv'
<1>1. UNCHANGED <<chain, reorgs, gsp, pending, state, conflict, pc, sawPending, curHeight,
                  late, contested>>
  BY DEF EnterMempool, server, daemon
<1>2. mempool' \in Blocks
  BY DEF EnterMempool, Blocks, Spenders
<1> QED
  BY <1>1, <1>2 DEF TrackInv, TypeOK, ChainInv, SettledInv

LEMMA ReorgTrack ==
    ASSUME TrackInv, NEW k \in 1 .. MaxReorg, NEW i \in 1 .. (MaxReorg + 1),
           NEW b \in Blocks, Reorg(k, i, b)
    PROVE  TrackInv' /\ reorgs' # 0
<1> USE ConfirmationsAssumption, BoundAssumption
<1> DEFINE base == SubSeq(chain, 1, Len(chain) - k)
           new  == [j \in 1 .. (k + 1) |-> IF j = i THEN b ELSE "empty"]
           old  == {x \in Spenders : Has(chain, x) /\ ~Has(base, x)}
<1>1. chain \in Seq(Blocks) /\ Len(chain) \in Nat /\ k \in Nat
  BY DEF TrackInv, TypeOK
<1>2. /\ k < Len(chain) /\ Len(chain) < MaxHeight /\ reorgs < MaxReorgs
      /\ chain' = base \o new
      /\ mempool' = IF Spent(base \o new) THEN "empty"
                    ELSE IF old # {} THEN CHOOSE x \in old : TRUE ELSE mempool
      /\ reorgs' = reorgs + 1
      /\ UNCHANGED <<server, daemon, late>>
  BY DEF Reorg
<1>3. /\ chain' \in Seq(Blocks) /\ Len(chain') = Len(chain) + 1
      /\ \A j \in 1 .. (Len(chain) - k) : chain'[j] = chain[j]
  <2>1. /\ base \o new \in Seq(Blocks) /\ Len(base \o new) = Len(chain) + 1
        /\ \A j \in 1 .. (Len(chain) - k) : (base \o new)[j] = chain[j]
    <3>1. new \in Seq(Blocks) /\ Len(new) = k + 1
      <4>1. k + 1 \in Nat /\ "empty" \in Blocks
        BY <1>1 DEF Blocks
      <4>2. new \in [1 .. (k + 1) -> Blocks]
        BY <4>1
      <4> QED
        BY <4>1, <4>2
    <3>2. k < Len(chain)
      BY <1>2
    <3> HIDE DEF new
    <3> QED
      BY <1>1, <3>1, <3>2, ReorgBlocks
  <2> HIDE DEF base, new
  <2> QED
    BY <1>2, <2>1
<1>4. mempool' \in Blocks
  <2> HIDE DEF base, new
  <2>1. old \subseteq Blocks
    BY DEF Blocks
  <2> HIDE DEF old
  <2>2. old # {} => (CHOOSE x \in old : TRUE) \in old
    OBVIOUS
  <2>3. "empty" \in Blocks /\ mempool \in Blocks
    BY DEF Blocks, TrackInv, TypeOK
  <2> QED
    BY <1>2, <2>1, <2>2, <2>3
<1> HIDE DEF base, new, old
<1>5. reorgs' \in 0 .. MaxReorgs /\ reorgs' # 0
  BY <1>2 DEF TrackInv, TypeOK
<1>6. k \in 0 .. MaxReorg
  OBVIOUS
<1>7. Len(chain') \in 1 .. MaxHeight /\ ChainInv' /\ SettledInv'
  BY <1>2, <1>3, <1>6, ChainStepTrack
<1>8. TypeOK'
  BY <1>2, <1>3, <1>4, <1>5, <1>7 DEF TrackInv, TypeOK, server, daemon
<1> QED
  BY <1>5, <1>7, <1>8 DEF TrackInv

LEMMA GspTrack ==
    ASSUME TrackInv, GspStep
    PROVE  TrackInv'
<1> USE ConfirmationsAssumption, BoundAssumption
<1>1. /\ chain \in Seq(Blocks) /\ Len(chain) \in 1 .. MaxHeight
      /\ gsp \in Seq(Blocks) /\ Len(gsp) \in 1 .. MaxHeight
      /\ Len(gsp) <= Len(chain) /\ chain[1] = gsp[1]
      /\ \A i \in 1 .. Len(gsp) - MaxReorg : gsp[i] = chain[i]
      /\ Len(chain) \in Nat /\ Len(gsp) \in Nat
  BY DEF TrackInv, TypeOK, ChainInv
<1>2. UNCHANGED <<chain, mempool, reorgs, state, conflict, pc, sawPending, curHeight,
                  late, contested>>
  BY DEF GspStep, AddPendingMove, UpdateState, DetachBlock, network, daemon
<1>3. pending' \in BOOLEAN
  BY DEF GspStep, AddPendingMove, UpdateState, DetachBlock, TrackInv, TypeOK
<1>4. SettledInv'
  BY <1>2 DEF TrackInv, SettledInv
<1> SUFFICES /\ gsp' \in Seq(Blocks) /\ Len(gsp') \in 1 .. MaxHeight
             /\ Len(gsp') <= Len(chain) /\ chain[1] = gsp'[1]
             /\ \A i \in 1 .. Len(gsp') - MaxReorg : gsp'[i] = chain[i]
  <2>1. ChainInv'
    BY <1>2 DEF ChainInv
  <2>2. TypeOK'
    BY <1>2, <1>3 DEF TrackInv, TypeOK
  <2> QED
    BY <1>4, <2>1, <2>2 DEF TrackInv
<1>5. CASE AddPendingMove
  <2>1. gsp' = gsp
    BY <1>5 DEF AddPendingMove
  <2> QED
    BY <1>1, <2>1
<1>6. CASE UpdateState
  <2>1. Len(gsp) < Len(chain) /\ IsPrefix(gsp, chain) /\ gsp' = Append(gsp, chain[Len(gsp) + 1])
    BY <1>6 DEF UpdateState
  <2>2. chain[Len(gsp) + 1] \in Blocks
    BY <1>1, <2>1
  <2>3. \A i \in 1 .. Len(gsp) : gsp[i] = chain[i]
    BY <1>1, <2>1, PrefixAgrees
  <2>4. /\ gsp' \in Seq(Blocks) /\ Len(gsp') = Len(gsp) + 1
        /\ gsp'[Len(gsp) + 1] = chain[Len(gsp) + 1]
        /\ \A i \in 1 .. Len(gsp) : gsp'[i] = gsp[i]
    BY <1>1, <2>1, <2>2, AppendBlock
  <2>5. \A i \in 1 .. Len(gsp) + 1 : gsp'[i] = chain[i]
    BY <1>1, <2>3, <2>4
  <2>6. Len(gsp') \in 1 .. MaxHeight /\ Len(gsp') <= Len(chain)
    BY <1>1, <2>1, <2>4
  <2>7. 1 \in 1 .. Len(gsp) + 1 /\ \A i \in 1 .. Len(gsp') - MaxReorg : i \in 1 .. Len(gsp) + 1
    BY <1>1, <2>4
  <2> QED
    BY <2>4, <2>5, <2>6, <2>7
<1>7. CASE DetachBlock
  <2>1. ~IsPrefix(gsp, chain) /\ gsp' = SubSeq(gsp, 1, Len(gsp) - 1)
    BY <1>7 DEF DetachBlock, Front
  <2>2. PICK j \in 1 .. Len(gsp) : gsp[j] # chain[j]
    BY <1>1, <2>1, PrefixAgrees
  <2>3. Len(gsp) > 1
    BY <1>1, <2>2
  <2>4. 1 \in Int /\ Len(gsp) - 1 \in Int /\ \A i \in 1 .. Len(gsp) - 1 : gsp[i] \in Blocks
    BY <1>1
  <2>5. /\ gsp' \in Seq(Blocks)
        /\ Len(gsp') = IF 1 <= Len(gsp) - 1 THEN Len(gsp) - 1 - 1 + 1 ELSE 0
        /\ \A i \in 1 .. Len(gsp) - 1 - 1 + 1 : gsp'[i] = gsp[1 + i - 1]
    BY <2>1, <2>4, SubSeqProperties
  <2>6. Len(gsp') = Len(gsp) - 1 /\ \A i \in 1 .. Len(gsp) - 1 : gsp'[i] = gsp[i]
    BY <1>1, <2>3, <2>5
  <2>7. Len(gsp') \in 1 .. MaxHeight /\ Len(gsp') <= Len(chain) /\ gsp'[1] = chain[1]
    BY <1>1, <2>3, <2>6
  <2>8. \A i \in 1 .. Len(gsp') - MaxReorg : gsp'[i] = chain[i]
    <3>1. 1 .. Len(gsp') - MaxReorg \subseteq 1 .. Len(gsp) - MaxReorg
      BY <1>1, <2>6
    <3>2. \A i \in 1 .. Len(gsp') - MaxReorg : i \in 1 .. Len(gsp) - 1
      BY <1>1, <2>6
    <3> QED
      BY <1>1, <2>6, <3>1, <3>2
  <2> QED
    BY <2>5, <2>7, <2>8
<1> QED
  BY <1>5, <1>6, <1>7 DEF GspStep

(* What is found in the GSP's chain is at the height that is reported.     *)
LEMMA HeightFound ==
    ASSUME TypeOK, Has(gsp, "trade")
    PROVE  HeightOf("trade") \in 1 .. Len(gsp) /\ gsp[HeightOf("trade")] = "trade"
<1>1. DOMAIN gsp = 1 .. Len(gsp)
  BY DEF TypeOK
<1>2. \E i \in DOMAIN gsp : gsp[i] = "trade"
  BY DEF Has
<1> QED
  BY <1>1, <1>2 DEF HeightOf

LEMMA UpdaterTrack ==
    ASSUME TrackInv, UpdateStep
    PROVE  TrackInv'
<1> USE ConfirmationsAssumption, BoundAssumption
<1>1. UNCHANGED <<chain, mempool, reorgs, gsp, pending, late>>
  BY DEF UpdateStep, CheckPending, UseAnswer, CheckInputs, network, server
<1>2. ChainInv'
  BY <1>1 DEF TrackInv, ChainInv
<1>3. Len(gsp) \in 0 .. MaxHeight /\ curHeight \in 0 .. MaxHeight /\ 0 \in 0 .. MaxHeight
  BY DEF TrackInv, TypeOK
<1>4. CASE CheckPending
  <2>1. /\ pc' = "confirmed" /\ UNCHANGED <<state, conflict, curHeight, contested>>
    BY <1>4 DEF CheckPending
  <2>2. sawPending' \in BOOLEAN
    BY <1>4 DEF CheckPending, TrackInv, TypeOK
  <2>3. TypeOK'
    BY <1>1, <2>1, <2>2 DEF TrackInv, TypeOK
  <2> QED
    BY <1>1, <1>2, <2>1, <2>3 DEF TrackInv, SettledInv
<1>5. CASE UseAnswer
  <2>1. /\ curHeight' = Len(gsp) /\ sawPending' = sawPending
        /\ state' \in {state, "SUCCESS"} /\ pc' \in {"idle", "inputs"}
        /\ conflict' \in {0, conflict}
        /\ state' # state => checktrade.state = "confirmed" /\ Final(HeightOf("trade"))
    BY <1>5 DEF UseAnswer, checktrade
  <2>1a. contested' \in BOOLEAN
    BY <1>5 DEF UseAnswer, TrackInv, TypeOK
  <2>2. TypeOK'
    BY <1>1, <1>3, <2>1, <2>1a DEF TrackInv, TypeOK
  <2>3. SettledInv'
    <3>1. CASE state' = state
      BY <1>1, <3>1 DEF TrackInv, SettledInv
    <3>2. CASE state' # state
      <4>1. Has(gsp, "trade") /\ Final(HeightOf("trade"))
        BY <2>1, <3>2 DEF checktrade, CheckTrade
      <4>2. PICK h : h = HeightOf("trade")
        OBVIOUS
      <4>3. h \in 1 .. Len(gsp) /\ gsp[h] = "trade"
        BY <4>1, <4>2, HeightFound DEF TrackInv
      <4>4. h + Confirmations <= Len(gsp) + 1
        BY <4>1, <4>2 DEF Final
      <4>5. Len(gsp) \in Nat /\ Len(chain) \in Nat /\ Len(gsp) <= Len(chain)
        BY DEF TrackInv, TypeOK, ChainInv
      <4>6. h \in 1 .. Len(gsp) - MaxReorg /\ h \in 1 .. Len(chain) - MaxReorg
        BY <4>3, <4>4, <4>5
      <4>7. chain[h] = "trade"
        BY <4>3, <4>6 DEF TrackInv, ChainInv
      <4> QED
        BY <1>1, <4>6, <4>7 DEF SettledInv
    <3> QED
      BY <3>1, <3>2
  <2> QED
    BY <1>2, <2>2, <2>3 DEF TrackInv
<1>6. CASE CheckInputs
  <2>1. /\ pc' = "idle" /\ UNCHANGED <<sawPending, curHeight>>
        /\ conflict' \in {0, conflict, curHeight} /\ state' \in {state, "FAILED"}
    BY <1>6 DEF CheckInputs
  <2>1a. contested' \in BOOLEAN
    BY <1>6 DEF CheckInputs
  <2>2. TypeOK'
    BY <1>1, <1>3, <2>1, <2>1a DEF TrackInv, TypeOK
  <2> QED
    BY <1>1, <1>2, <2>1, <2>2 DEF TrackInv, SettledInv
<1> QED
  BY <1>4, <1>5, <1>6 DEF UpdateStep

LEMMA NextTrack == TrackInv /\ [Next]_vars => TrackInv'
<1> SUFFICES ASSUME TrackInv, [Next]_vars PROVE TrackInv'
  OBVIOUS
<1>1. CASE UNCHANGED vars
  BY <1>1 DEF vars, TrackInv, TypeOK, ChainInv, SettledInv
<1>2. CASE NodeStep
  BY <1>2, MineTrack, EnterMempoolTrack, ReorgTrack DEF NodeStep
<1> QED
  BY <1>1, <1>2, GspTrack, UpdaterTrack DEF Next

(***************************************************************************)
(* What a conflict_height means as long as there is no reorg               *)
(***************************************************************************)
(* Where an input is spent.                                                *)
LEMMA SpentAt ==
    ASSUME NEW c \in Seq(Blocks)
    PROVE  Spent(c) <=> \E i \in 1 .. Len(c) : c[i] \in Spenders
<1>1. DOMAIN c = 1 .. Len(c)
  OBVIOUS
<1> QED
  BY <1>1 DEF Spent, Has

LEMMA InitConflict == Init => NoReorgInv /\ FailedInv
<1> SUFFICES ASSUME Init PROVE QuietInv /\ ConflictInv /\ FailedInv
  BY DEF NoReorgInv
<1> USE BoundAssumption
<1>1. Len(chain) = 1 /\ DOMAIN chain = {1} /\ chain[1] = "empty" /\ gsp = chain
  BY DEF Init
<1>2. /\ mempool = "empty" /\ conflict = 0 /\ curHeight = 1 /\ state = "PENDING" /\ pc = "idle"
  BY DEF Init
<1>3. OneSpender
  BY <1>1 DEF OneSpender
<1>4. QuietInv
  BY <1>1, <1>2, <1>3 DEF QuietInv
<1> QED
  BY <1>2, <1>4 DEF ConflictInv, FailedInv

(* One lemma per action: what is known of a conflict before any reorg.     *)
LEMMA MineConflict ==
    ASSUME TrackInv, QuietInv, ConflictInv, NEW b \in Blocks, Mine(b), ~late'
    PROVE  QuietInv' /\ ConflictInv'
<1> USE BoundAssumption
<1> DEFINE n == Len(chain)
<1>1. /\ chain \in Seq(Blocks) /\ n \in Nat /\ DOMAIN chain = 1 .. n
      /\ DOMAIN gsp = 1 .. Len(gsp) /\ Len(gsp) \in Nat /\ Len(gsp) <= n
      /\ curHeight \in Nat /\ conflict \in Nat /\ MaxLag \in Nat
  BY DEF TrackInv, TypeOK, ChainInv
<1>2. /\ chain' = Append(chain, b)
      /\ b \in Spenders => ~Spent(chain)
      /\ mempool = "trade" => pending
      /\ state = "PENDING" => n < curHeight + MaxLag
      /\ mempool' = IF b \in Spenders THEN "empty" ELSE mempool
  BY DEF Mine, OnTime
<1>3. UNCHANGED <<gsp, pending, state, conflict, pc, sawPending, curHeight, contested>>
  BY DEF Mine, server, daemon
<1>4. /\ chain' \in Seq(Blocks) /\ Len(chain') = n + 1 /\ chain'[n + 1] = b
      /\ \A i \in 1 .. n : chain'[i] = chain[i]
  BY <1>1, <1>2, AppendBlock
<1>5. DOMAIN chain' = 1 .. n + 1
  BY <1>4
<1>6. Spent(chain) <=> \E i \in 1 .. n : chain[i] \in Spenders
  BY <1>1, SpentAt
<1>7. Spent(chain') <=> Spent(chain) \/ b \in Spenders
  <2>1. Spent(chain') <=> \E i \in 1 .. n + 1 : chain'[i] \in Spenders
    BY <1>4, SpentAt
  <2> QED
    BY <1>1, <1>4, <1>6, <2>1
<1> HIDE DEF n
<1>8. OneSpender'
  <2>1. ASSUME NEW i \in 1 .. n + 1, NEW j \in 1 .. n + 1,
               chain'[i] \in Spenders, chain'[j] \in Spenders
        PROVE  i = j
    <3>1. CASE b \in Spenders
      <4>1. \A m \in 1 .. n : chain'[m] \notin Spenders
        BY <1>2, <1>4, <1>6, <3>1
      <4> QED
        BY <1>1, <2>1, <4>1
    <3>2. CASE b \notin Spenders
      <4>1. i \in 1 .. n /\ j \in 1 .. n
        BY <1>1, <1>4, <2>1, <3>2
      <4> QED
        BY <1>1, <1>4, <2>1, <4>1 DEF QuietInv, OneSpender
    <3> QED
      BY <3>1, <3>2
  <2> QED
    BY <1>5, <2>1 DEF OneSpender
<1>9. \A h \in 1 .. n + 1 : chain'[h] = "trade" =>
        (h \in 1 .. n /\ chain[h] = "trade") \/ (h = n + 1 /\ b = "trade")
  BY <1>1, <1>4
<1>10. QuietInv'
  <2>1. Spent(chain') => mempool' = "empty"
    BY <1>2, <1>7 DEF QuietInv
  <2>2. \A i \in DOMAIN gsp : gsp[i] = chain'[i]
    <3>1. \A i \in DOMAIN gsp : i \in 1 .. n /\ gsp[i] = chain[i]
      BY <1>1 DEF QuietInv
    <3> QED
      BY <1>4, <3>1
  <2>3. state = "PENDING" => Len(chain') <= curHeight + MaxLag
    BY <1>1, <1>2, <1>4
  <2>4. pc = "inputs" => \A h \in DOMAIN chain' : chain'[h] = "trade" => curHeight < h
    <3>1. curHeight < n + 1
      BY <1>1 DEF QuietInv
    <3>2. pc = "inputs" => \A h \in 1 .. n : chain[h] = "trade" => curHeight < h
      BY <1>1 DEF QuietInv
    <3> QED
      BY <1>5, <1>9, <3>1, <3>2
  <2> QED
    BY <1>3, <1>8, <2>1, <2>2, <2>3, <2>4 DEF QuietInv
<1>11. ConflictInv'
  <2> SUFFICES ASSUME state = "PENDING", conflict # 0, ~contested
               PROVE  /\ InputsGone' /\ mempool' # "spend"
                      /\ mempool' = "trade" =>
                           /\ curHeight <= conflict + 2 * MaxLag
                           /\ ~pending => Len(chain') <= conflict + MaxLag
                           /\ pc = "confirmed" /\ ~sawPending => curHeight <= conflict + MaxLag
                      /\ \A h \in DOMAIN chain' : chain'[h] = "trade" => h <= conflict + 3 * MaxLag
    BY <1>3 DEF ConflictInv
  <2>1. Spent(chain) \/ mempool = "trade"
    BY DEF ConflictInv, InputsGone, Spenders
  <2>2. InputsGone' /\ mempool' # "spend"
    BY <1>2, <1>7, <2>1 DEF ConflictInv, InputsGone, Spenders
  <2>3. mempool' = "trade" => mempool = "trade" /\ pending
    BY <1>2
  <2>4. mempool = "trade" =>
          /\ curHeight <= conflict + 2 * MaxLag
          /\ pc = "confirmed" /\ ~sawPending => curHeight <= conflict + MaxLag
    BY DEF ConflictInv
  <2>5. \A h \in 1 .. n : chain[h] = "trade" => h <= conflict + 3 * MaxLag
    BY <1>1 DEF ConflictInv
  <2>6. b = "trade" => n + 1 <= conflict + 3 * MaxLag
    <3>1. b = "trade" => mempool = "trade"
      BY <1>2, <2>1 DEF Spenders
    <3> QED
      BY <1>1, <1>2, <2>4, <3>1
  <2>7. \A h \in DOMAIN chain' : chain'[h] = "trade" => h <= conflict + 3 * MaxLag
    BY <1>5, <1>9, <2>5, <2>6
  <2> QED
    BY <2>2, <2>3, <2>4, <2>7
<1> QED
  BY <1>10, <1>11

LEMMA EnterMempoolConflict ==
    ASSUME TrackInv, QuietInv, ConflictInv, NEW x \in Spenders, EnterMempool(x)
    PROVE  QuietInv' /\ ConflictInv'
<1>1. /\ mempool = "empty" /\ ~Spent(chain) /\ mempool' = x
      /\ UNCHANGED <<chain, gsp, pending, state, conflict, pc, sawPending, curHeight, contested>>
  BY DEF EnterMempool, server, daemon
<1>2. ~(state = "PENDING" /\ conflict # 0 /\ ~contested)
  BY <1>1 DEF ConflictInv, InputsGone, Spenders
<1> QED
  BY <1>1, <1>2 DEF QuietInv, ConflictInv, OneSpender

LEMMA GspConflict ==
    ASSUME TrackInv, QuietInv, ConflictInv, GspStep
    PROVE  QuietInv' /\ ConflictInv'
<1>1. UNCHANGED <<chain, mempool, state, conflict, pc, sawPending, curHeight, contested>>
  BY DEF GspStep, AddPendingMove, UpdateState, DetachBlock, network, daemon
<1>2. /\ chain \in Seq(Blocks) /\ Len(chain) \in Nat
      /\ gsp \in Seq(Blocks) /\ Len(gsp) \in Nat /\ DOMAIN gsp = 1 .. Len(gsp)
      /\ Len(gsp) <= Len(chain) /\ curHeight \in Nat
      /\ \A i \in 1 .. Len(gsp) : gsp[i] = chain[i]
  BY DEF TrackInv, TypeOK, ChainInv, QuietInv
<1>3. IsPrefix(gsp, chain)
  BY <1>2, PrefixAgrees
<1>4. mempool = "trade" /\ pending => pending'
  BY <1>3 DEF GspStep, AddPendingMove, UpdateState, DetachBlock
<1>5. ConflictInv'
  BY <1>1, <1>4 DEF ConflictInv, InputsGone
<1>6. CASE gsp' = gsp
  BY <1>1, <1>5, <1>6 DEF QuietInv, OneSpender
<1>7. CASE UpdateState
  <2>1. Len(gsp) < Len(chain) /\ gsp' = Append(gsp, chain[Len(gsp) + 1])
    BY <1>7 DEF UpdateState
  <2>2. chain[Len(gsp) + 1] \in Blocks
    BY <1>2, <2>1
  <2>3. /\ gsp' \in Seq(Blocks) /\ Len(gsp') = Len(gsp) + 1
        /\ gsp'[Len(gsp) + 1] = chain[Len(gsp) + 1]
        /\ \A i \in 1 .. Len(gsp) : gsp'[i] = gsp[i]
    BY <1>2, <2>1, <2>2, AppendBlock
  <2>4. \A i \in DOMAIN gsp' : gsp'[i] = chain[i]
    BY <1>2, <2>3
  <2>5. curHeight <= Len(gsp')
    BY <1>2, <2>3 DEF QuietInv
  <2> QED
    BY <1>1, <1>5, <2>4, <2>5 DEF QuietInv, OneSpender
<1> QED
  BY <1>3, <1>6, <1>7 DEF GspStep, AddPendingMove, DetachBlock

LEMMA UpdaterConflict ==
    ASSUME TrackInv, QuietInv, ConflictInv, UpdateStep
    PROVE  QuietInv' /\ ConflictInv'
<1> USE BoundAssumption
<1>1. UNCHANGED <<chain, mempool, gsp, pending>>
  BY DEF UpdateStep, CheckPending, UseAnswer, CheckInputs, network, server
<1>2. /\ DOMAIN chain = 1 .. Len(chain) /\ Len(chain) \in Nat
      /\ DOMAIN gsp = 1 .. Len(gsp) /\ Len(gsp) \in Nat /\ Len(gsp) <= Len(chain)
      /\ curHeight \in Nat /\ conflict \in Nat /\ MaxLag \in Nat
      /\ conflict <= curHeight /\ curHeight <= Len(gsp)
      /\ \A i \in 1 .. Len(gsp) : gsp[i] = chain[i]
  BY DEF TrackInv, TypeOK, ChainInv, QuietInv
<1>3. CASE CheckPending
  <2>1. /\ state = "PENDING" /\ pc' = "confirmed" /\ sawPending' = pending
        /\ UNCHANGED <<state, conflict, curHeight, contested>>
    BY <1>3 DEF CheckPending
  <2>2. QuietInv'
    BY <1>1, <2>1 DEF QuietInv, OneSpender
  <2>3. ~pending /\ Len(chain) <= conflict + MaxLag => curHeight <= conflict + MaxLag
    BY <1>2
  <2>4. ConflictInv'
    BY <1>1, <2>1, <2>3 DEF ConflictInv, InputsGone
  <2> QED
    BY <2>2, <2>4
<1>4. CASE UseAnswer
  <2>1. pc = "confirmed" /\ state = "PENDING" /\ curHeight' = Len(gsp)
    BY <1>4 DEF UseAnswer, checktrade, QuietInv
  <2>2. conflict' \in {0, conflict}
    BY <1>4 DEF UseAnswer
  <2>3. /\ pc' \in {"idle", "inputs"}
        /\ state' # "PENDING" => pc' = "idle"
    BY <1>4, <2>1 DEF UseAnswer
  <2>4. pc' = "inputs" => ~Has(gsp, "trade")
    BY <1>4 DEF UseAnswer, checktrade, CheckTrade
  <2>5. state' = "PENDING" /\ conflict' # 0 =>
          conflict' = conflict /\ contested' = contested /\ ~sawPending /\ pc' = "inputs"
    BY <1>4, <2>1 DEF UseAnswer, checktrade, CheckTrade
  <2>6. Len(chain) <= curHeight + MaxLag
    BY <2>1 DEF QuietInv
  <2>7. Len(chain) <= curHeight' + MaxLag /\ conflict' <= curHeight' /\ curHeight' <= Len(gsp)
    BY <1>2, <2>1, <2>2, <2>6
  <2>8. pc' = "inputs" => \A h \in DOMAIN chain : chain[h] = "trade" => curHeight' < h
    BY <1>2, <2>1, <2>4 DEF Has
  <2>9. QuietInv'
    BY <1>1, <2>3, <2>7, <2>8 DEF QuietInv, OneSpender
  <2>10. ConflictInv'
    <3> SUFFICES ASSUME state' = "PENDING", conflict' # 0, ~contested' PROVE ConflictInv'
      BY DEF ConflictInv
    <3>1. conflict' = conflict /\ conflict # 0 /\ ~contested /\ ~sawPending /\ pc' = "inputs"
      BY <2>5
    <3>2. mempool = "trade" => curHeight' <= conflict + 2 * MaxLag
      <4>1. mempool = "trade" => curHeight <= conflict + MaxLag
        BY <2>1, <3>1 DEF ConflictInv
      <4> QED
        BY <1>2, <2>1, <2>6, <4>1
    <3> QED
      BY <1>1, <2>1, <3>1, <3>2 DEF ConflictInv, InputsGone
  <2> QED
    BY <2>9, <2>10
<1>5. CASE CheckInputs
  <2>1. /\ pc = "inputs" /\ state = "PENDING" /\ pc' = "idle"
        /\ curHeight' = curHeight /\ sawPending' = sawPending
        /\ conflict' \in {0, conflict, curHeight}
        /\ state' \in {state, "FAILED"}
    BY <1>5 DEF CheckInputs, QuietInv
  <2>2. QuietInv'
    <3>1. conflict' <= curHeight' /\ curHeight' <= Len(gsp)
      BY <1>2, <2>1
    <3> QED
      BY <1>1, <2>1, <3>1 DEF QuietInv, OneSpender
  <2>3. ConflictInv'
    <3> SUFFICES ASSUME state' = "PENDING", conflict' # 0, ~contested' PROVE ConflictInv'
      BY DEF ConflictInv
    <3>1. InputsGone /\ ~contested /\ mempool # "spend"
      BY <1>5 DEF CheckInputs
    <3>2. CASE conflict # 0
      <4>1. conflict' = conflict
        BY <1>5, <3>1, <3>2 DEF CheckInputs
      <4> QED
        BY <1>1, <2>1, <3>1, <3>2, <4>1 DEF ConflictInv, InputsGone
    <3>3. CASE conflict = 0
      <4>1. conflict' = curHeight
        BY <1>5, <3>1, <3>3 DEF CheckInputs
      <4>2. Len(chain) <= curHeight + MaxLag
        BY <2>1 DEF QuietInv
      <4>3. /\ curHeight <= curHeight + 2 * MaxLag
            /\ \A h \in 1 .. Len(chain) : h <= curHeight + 3 * MaxLag
        BY <1>2, <4>2
      <4> QED
        BY <1>1, <1>2, <2>1, <3>1, <4>1, <4>2, <4>3 DEF ConflictInv, InputsGone
    <3> QED
      BY <3>2, <3>3
  <2> QED
    BY <2>2, <2>3
<1> QED
  BY <1>3, <1>4, <1>5 DEF UpdateStep

(* A GSP that was late stays so; only a reorg counts as one.               *)
LEMMA QuietSteps ==
    ASSUME \/ \E b \in Blocks : Mine(b)
           \/ \E x \in Spenders : EnterMempool(x)
           \/ GspStep \/ UpdateStep
    PROVE  reorgs' = reorgs /\ (late => late')
<1>1. CASE \E b \in Blocks : Mine(b)
  BY <1>1, Zenon DEF Mine
<1>2. CASE \E x \in Spenders : EnterMempool(x)
  BY <1>2 DEF EnterMempool
<1>3. CASE GspStep
  BY <1>3 DEF GspStep, AddPendingMove, UpdateState, DetachBlock, network
<1>4. CASE UpdateStep
  BY <1>4 DEF UpdateStep, CheckPending, UseAnswer, CheckInputs, network
<1> QED
  BY <1>1, <1>2, <1>3, <1>4

LEMMA NextConflict == TrackInv /\ NoReorgInv /\ [Next]_vars => NoReorgInv'
<1> SUFFICES ASSUME TrackInv, NoReorgInv, [Next]_vars PROVE NoReorgInv'
  OBVIOUS
<1>1. CASE UNCHANGED vars
  BY <1>1 DEF vars, NoReorgInv, QuietInv, ConflictInv, OneSpender, InputsGone
<1>2. ASSUME NEW k \in 1 .. MaxReorg, NEW i \in 1 .. (MaxReorg + 1),
             NEW b \in Blocks, Reorg(k, i, b)
      PROVE  NoReorgInv'
  BY <1>2, ReorgTrack DEF NoReorgInv
<1>3. CASE \/ \E b \in Blocks : Mine(b)
           \/ \E x \in Spenders : EnterMempool(x)
           \/ GspStep \/ UpdateStep
  <2>1. reorgs' = reorgs /\ (late => late')
    BY <1>3, QuietSteps
  <2> QED
    BY <1>3, <2>1, MineConflict, EnterMempoolConflict, GspConflict, UpdaterConflict DEF NoReorgInv
<1> QED
  BY <1>1, <1>2, <1>3 DEF Next, NodeStep

(***************************************************************************)
(* A trade fails for good                                                  *)
(***************************************************************************)
(* A double spend stays on the chain.                                      *)
LEMMA MineFailed ==
    ASSUME TrackInv, FailedInv, NEW b \in Blocks, Mine(b)
    PROVE  FailedInv'
<1>1. state' = state /\ contested' = contested /\ chain' = Append(chain, b)
  BY DEF Mine, daemon
<1>2. \A i \in DOMAIN chain : i \in DOMAIN chain' /\ chain'[i] = chain[i]
  <2>1. chain \in Seq(Blocks)
    BY DEF TrackInv, TypeOK
  <2> QED
    BY <1>1, <2>1
<1> QED
  BY <1>1, <1>2 DEF FailedInv, Has

(* The blocks that a trade can stay unnoticed for are fewer than those     *)
(* after which a conflict is final.                                        *)
LEMMA ChecksFailed ==
    ASSUME TrackInv, QuietInv, ConflictInv, FailedInv, EnoughConfirmations, CheckInputs
    PROVE  FailedInv'
<1> USE BoundAssumption, ConfirmationsAssumption
<1>1. chain' = chain /\ pc = "inputs" /\ state = "PENDING"
  BY DEF CheckInputs, QuietInv, network
<1> SUFFICES ASSUME state' = "FAILED", ~contested' PROVE Has(chain, "spend")
  BY <1>1 DEF FailedInv
<1>2. conflict # 0 /\ InputsGone /\ conflict + Confirmations <= curHeight + 1
      /\ ~contested /\ mempool # "spend"
  BY <1>1 DEF CheckInputs, ConflictFinal
<1>3. curHeight \in Nat /\ conflict \in Nat /\ MaxLag \in Nat /\ DOMAIN chain \subseteq Nat
  BY DEF TrackInv, TypeOK
<1>4. mempool # "trade"
  <2>1. mempool = "trade" => curHeight <= conflict + 2 * MaxLag
    BY <1>1, <1>2 DEF ConflictInv
  <2> QED
    BY <1>2, <1>3, <2>1 DEF EnoughConfirmations
<1>5. ~Has(chain, "trade")
  <2> SUFFICES ASSUME NEW h \in DOMAIN chain, chain[h] = "trade" PROVE FALSE
    BY DEF Has
  <2>1. curHeight < h /\ h <= conflict + 3 * MaxLag /\ h \in Nat
    BY <1>1, <1>2, <1>3 DEF QuietInv, ConflictInv
  <2> QED
    BY <1>2, <1>3, <2>1 DEF EnoughConfirmations
<1> QED
  BY <1>2, <1>4, <1>5 DEF InputsGone, Spent, Spenders, QuietInv

LEMMA NextFailed ==
    TrackInv /\ NoReorgInv /\ FailInv /\ [Next]_vars => FailInv'
<1> SUFFICES ASSUME TrackInv, NoReorgInv, FailInv, [Next]_vars, reorgs' = 0, ~late' PROVE FailedInv'
  BY DEF FailInv, EnoughConfirmations
<1>1. CASE UNCHANGED vars
  BY <1>1 DEF vars, FailInv, FailedInv
<1>2. ASSUME NEW k \in 1 .. MaxReorg, NEW i \in 1 .. (MaxReorg + 1),
             NEW b \in Blocks, Reorg(k, i, b)
      PROVE  FALSE
  BY <1>2, ReorgTrack
<1>3. CASE \/ \E b \in Blocks : Mine(b)
           \/ \E x \in Spenders : EnterMempool(x)
           \/ GspStep \/ UpdateStep
  <2>1. reorgs = 0 /\ ~late
    BY <1>3, QuietSteps
  <2>2. QuietInv /\ ConflictInv /\ FailedInv /\ EnoughConfirmations
    BY <2>1 DEF NoReorgInv, FailInv
  <2>3. CASE (\E x \in Spenders : EnterMempool(x)) \/ GspStep \/ CheckPending
    BY <2>2, <2>3 DEF EnterMempool, GspStep, AddPendingMove, UpdateState, DetachBlock,
                      CheckPending, network, daemon, FailedInv
  <2>4. CASE UseAnswer
    <3>1. chain' = chain /\ state = "PENDING" /\ state' \in {state, "SUCCESS"}
      BY <2>2, <2>4 DEF UseAnswer, network, QuietInv
    <3> QED
      BY <2>2, <3>1 DEF FailedInv
  <2> QED
    BY <1>3, <2>2, <2>3, <2>4, MineFailed, ChecksFailed DEF UpdateStep
<1> QED
  BY <1>1, <1>2, <1>3 DEF Next, NodeStep

(* The input that was double spent is not spent by the trade.              *)
LEMMA FailedSpent ==
    ASSUME TrackInv, NoReorgInv, FailInv
    PROVE  FailureExplained
<1> SUFFICES ASSUME state = "FAILED", reorgs = 0, ~late, ~contested, Has(chain, "trade")
             PROVE  FALSE
  BY DEF FailureExplained
<1>1. PICK i \in DOMAIN chain : chain[i] = "spend"
  BY DEF FailInv, FailedInv, Has
<1>2. PICK j \in DOMAIN chain : chain[j] = "trade"
  BY DEF Has
<1>3. i = j
  BY <1>1, <1>2 DEF NoReorgInv, QuietInv, OneSpender, Spenders
<1> QED
  BY <1>1, <1>2, <1>3

(* All state stays within its types.                                       *)
THEOREM TrackingTyped == Spec => []TypeOK
<1>1. TrackInv => TypeOK
  BY DEF TrackInv
<1> QED
  BY <1>1, InitTrack, NextTrack, PTL DEF Spec

(* A trade that Trade::Update marks as SUCCESS stays on the chain, for any *)
(* number and order of reorgs of at most MaxReorg < Confirmations blocks   *)
(* and however far the GSP is behind.                                      *)
THEOREM SuccessIsFinal == Spec => []SuccessFinal
<1>1. TrackInv => SuccessFinal
  <2> SUFFICES ASSUME TrackInv, state = "SUCCESS" PROVE Has(chain, "trade")
    BY DEF SuccessFinal
  <2>1. PICK h \in 1 .. Len(chain) - MaxReorg : chain[h] = "trade"
    BY DEF TrackInv, SettledInv
  <2>2. h \in DOMAIN chain
    BY ConfirmationsAssumption DEF TrackInv, TypeOK
  <2> QED
    BY <2>1, <2>2 DEF Has
<1> QED
  BY <1>1, InitTrack, NextTrack, PTL DEF Spec

(* However blocks, double spends in the mempool, the GSP and the updater   *)
(* interleave: a trade that Trade::Update marks as FAILED and that is      *)
(* executed nevertheless had a reorg, a GSP that was late by a third of    *)
(* FLAGS_democrit_confirmations or that had not been told of the mempool   *)
(* before a block came, or a double spend in the mempool that was counted  *)
(* as the conflict.                                                        *)
THEOREM WrongFailureExplained == Spec /\ EnoughConfirmations => []FailureExplained
<1>1. Init /\ EnoughConfirmations => FailInv
  BY InitConflict DEF FailInv
<1>2. Init => NoReorgInv
  BY InitConflict
<1> QED
  BY <1>1, <1>2, InitTrack, NextTrack, NextConflict, NextFailed, FailedSpent, PTL DEF Spec
=============================================================================
