-------------------------- MODULE BuyerCheckProofs --------------------------
(***************************************************************************)
(* Proofs about module BuyerCheck, for any tree of blocks and any          *)
(* MAX_BLOCK_ANCESTORS_CHECKED. The argument is the one in the comment of  *)
(* CheckForBuyerTrade: between two blocks of a line in which the seller's  *)
(* name output is the same one, the name has not moved the asset; the      *)
(* ancestor check puts the block of the output, the block of the balance   *)
(* and the block of the trade into one line. What IsBlockAncestor finds is *)
(* shown to be that line by the first step of a walk that would leave it.  *)
(***************************************************************************)
EXTENDS BuyerCheck, TLAPS, WellFoundedInduction

(* A block, as TypeOK has it.                                              *)
BlockData == [parent: Nat, height: Nat, line: SUBSET Nat, op: Ops,
              out: Seq(Ops), has: BOOLEAN]

(* Every block but the first one extends an earlier one, and line has the  *)
(* blocks from the first one up to it.                                     *)
Linked(B) ==
    /\ B[1].parent = NoBlock /\ B[1].height = 0 /\ B[1].line = {1}
    /\ \A b \in DOMAIN B : b # 1 =>
         /\ B[b].parent \in 1 .. (b - 1)
         /\ B[b].line = B[B[b].parent].line \cup {b}
         /\ B[b].height = B[B[b].parent].height + 1

(* The blocks in a line are a chain: one at each height.                   *)
Lines(B) ==
    \A b \in DOMAIN B :
        /\ 1 \in B[b].line /\ b \in B[b].line /\ B[b].line \subseteq DOMAIN B
        /\ \A c \in B[b].line : B[c].line \subseteq B[b].line /\ B[c].height <= B[b].height
        /\ \A c, d \in B[b].line : B[c].height = B[d].height => c = d
        /\ \A h \in 0 .. B[b].height : \E c \in B[b].line : B[c].height = h

(* As long as the seller's name is not updated, the seller keeps the asset.*)
KeepsAsset(B) ==
    \A b \in DOMAIN B : \A c \in B[b].line :
        /\ Len(B[c].out) <= Len(B[b].out)
        /\ Len(B[c].out) = Len(B[b].out) /\ B[c].has => B[b].has

(* What is true of every tree of blocks that the nodes can build.          *)
TreeInv == Linked(blocks) /\ Lines(blocks) /\ KeepsAsset(blocks)

(* The name output was current at utxoBlock, and the balance is that at    *)
(* gspBlock.                                                               *)
AnswersInv ==
    /\ result # "none" => pc = "done"
    /\ pc \in {"CanSell", "IsBlockAncestor"} \/ result \in {"ok", "notAncestor"} =>
         utxoBlock \in DOMAIN blocks /\ blocks[utxoBlock].out = nameInput
    /\ pc = "IsBlockAncestor" \/ result \in {"ok", "notAncestor"} =>
         gspBlock \in DOMAIN blocks /\ blocks[gspBlock].has
    /\ result = "ok" => utxoBlock \in blocks[gspBlock].line

(* The trade is mined only where the name output of the check is current.  *)
MinedInv ==
    \A b \in DOMAIN blocks : blocks[b].op = "trade" =>
        /\ result = "ok" /\ b # 1 /\ ~blocks[b].has
        /\ blocks[blocks[b].parent].out = nameInput

(* Without a reorg, and with the GSP at the tip, the blocks match.         *)
MatchInv ==
    /\ pc = "CanSell" /\ ~reorged => utxoBlock \in blocks[tip].line
    /\ pc = "IsBlockAncestor" /\ ~reorged /\ ~behind => utxoBlock \in blocks[gspBlock].line

(* The inductive invariant.                                                *)
CheckInv == TypeOK /\ TreeInv /\ AnswersInv /\ MinedInv /\ MatchInv /\ MismatchExplained

(***************************************************************************)
(* The tree of blocks                                                      *)
(***************************************************************************)
(* The types of blocks, as the proofs use them.                            *)
LEMMA TreeType ==
    ASSUME TypeOK
    PROVE  /\ Len(blocks) \in Nat /\ Len(blocks) >= 1
           /\ DOMAIN blocks = 1 .. Len(blocks) /\ 1 \in DOMAIN blocks
           /\ \A b \in DOMAIN blocks : blocks[b] \in BlockData /\ b \in Nat
<1>1. blocks \in Seq(BlockData) /\ Len(blocks) \in 1 .. MaxBlocks
  BY DEF TypeOK, Blocks, BlockData
<1>2. Len(blocks) \in Nat /\ Len(blocks) >= 1 /\ DOMAIN blocks = 1 .. Len(blocks)
  BY <1>1, MaxBlocksAssumption
<1>3. \A b \in 1 .. Len(blocks) : blocks[b] \in BlockData /\ b \in Nat
  BY <1>1, <1>2
<1> QED
  BY <1>2, <1>3

(* A block is added to a tree, with nothing else changed.                  *)
Grows(B, C, p) ==
    LET n == Len(B) IN
    /\ B \in Seq(BlockData) /\ C \in Seq(BlockData)
    /\ n >= 1 /\ Len(C) = n + 1 /\ p \in 1 .. n
    /\ \A b \in 1 .. n : C[b] = B[b]
    /\ C[n + 1].parent = p /\ C[n + 1].height = B[p].height + 1
    /\ C[n + 1].line = B[p].line \cup {n + 1}

(* A tree that has grown is one still.                                     *)
LEMMA GrowsFacts ==
    ASSUME NEW B, NEW C, NEW p, Grows(B, C, p)
    PROVE  /\ Len(B) \in Nat /\ Len(B) >= 1
           /\ DOMAIN B = 1 .. Len(B) /\ DOMAIN C = 1 .. Len(B) + 1
           /\ \A b \in 1 .. Len(B) : B[b].height \in Nat /\ Len(B[b].out) \in Nat
           /\ Len(C[Len(B) + 1].out) \in Nat
<1>1. B \in Seq(BlockData) /\ C \in Seq(BlockData) /\ Len(C) = Len(B) + 1 /\ Len(B) >= 1
  BY DEF Grows
<1>2. Len(B) \in Nat /\ DOMAIN B = 1 .. Len(B) /\ DOMAIN C = 1 .. Len(B) + 1
  BY <1>1
<1>3. \A b \in 1 .. Len(B) : B[b] \in BlockData
  BY <1>1
<1>4. C[Len(B) + 1] \in BlockData
  BY <1>1, <1>2
<1>5. \A d \in BlockData : d.height \in Nat /\ Len(d.out) \in Nat
  BY DEF BlockData
<1> QED
  BY <1>1, <1>2, <1>3, <1>4, <1>5

LEMMA GrowsLinked ==
    ASSUME NEW B, NEW C, NEW p, Grows(B, C, p), Linked(B)
    PROVE  Linked(C)
<1> DEFINE n == Len(B)
<1>1. n \in Nat /\ n >= 1 /\ DOMAIN B = 1 .. n /\ DOMAIN C = 1 .. n + 1
  BY GrowsFacts
<1>2. /\ p \in 1 .. n /\ \A b \in 1 .. n : C[b] = B[b]
      /\ C[n + 1].parent = p /\ C[n + 1].height = B[p].height + 1
      /\ C[n + 1].line = B[p].line \cup {n + 1}
  BY DEF Grows
<1> HIDE DEF n
<1>3. C[1] = B[1]
  BY <1>1, <1>2
<1>4. ASSUME NEW b \in DOMAIN C, b # 1
      PROVE  /\ C[b].parent \in 1 .. (b - 1)
             /\ C[b].line = C[C[b].parent].line \cup {b}
             /\ C[b].height = C[C[b].parent].height + 1
  <2>1. CASE b = n + 1
    BY <1>1, <1>2, <2>1
  <2>2. CASE b # n + 1
    <3>1. b \in 1 .. n /\ C[b] = B[b]
      BY <1>1, <1>2, <2>2
    <3>2. /\ B[b].parent \in 1 .. (b - 1)
          /\ B[b].line = B[B[b].parent].line \cup {b}
          /\ B[b].height = B[B[b].parent].height + 1
      BY <1>1, <1>4, <3>1 DEF Linked
    <3>3. C[B[b].parent] = B[B[b].parent]
      BY <1>1, <1>2, <3>1, <3>2
    <3> QED
      BY <3>1, <3>2, <3>3
  <2> QED
    BY <2>1, <2>2
<1> QED
  BY <1>3, <1>4 DEF Linked

LEMMA GrowsLines ==
    ASSUME NEW B, NEW C, NEW p, Grows(B, C, p), Lines(B)
    PROVE  Lines(C)
<1> DEFINE n == Len(B)
<1>1. /\ n \in Nat /\ n >= 1 /\ DOMAIN B = 1 .. n /\ DOMAIN C = 1 .. n + 1
      /\ \A b \in 1 .. n : B[b].height \in Nat
  BY GrowsFacts
<1>2. /\ p \in 1 .. n /\ \A b \in 1 .. n : C[b] = B[b]
      /\ C[n + 1].height = B[p].height + 1
      /\ C[n + 1].line = B[p].line \cup {n + 1}
  BY DEF Grows
<1> HIDE DEF n
<1>3. \A b \in 1 .. n : B[b].line \subseteq 1 .. n
  BY <1>1 DEF Lines
<1>4. ASSUME NEW b \in 1 .. n
      PROVE  /\ 1 \in C[b].line /\ b \in C[b].line /\ C[b].line \subseteq DOMAIN C
             /\ \A c \in C[b].line : C[c].line \subseteq C[b].line /\ C[c].height <= C[b].height
             /\ \A c, d \in C[b].line : C[c].height = C[d].height => c = d
             /\ \A h \in 0 .. C[b].height : \E c \in C[b].line : C[c].height = h
  <2>1. C[b] = B[b] /\ \A c \in B[b].line : c \in 1 .. n /\ C[c] = B[c]
    BY <1>2, <1>3
  <2>2. /\ 1 \in B[b].line /\ b \in B[b].line
        /\ \A c \in B[b].line : B[c].line \subseteq B[b].line /\ B[c].height <= B[b].height
        /\ \A c, d \in B[b].line : B[c].height = B[d].height => c = d
        /\ \A h \in 0 .. B[b].height : \E c \in B[b].line : B[c].height = h
    BY <1>1 DEF Lines
  <2>3. C[b].line \subseteq DOMAIN C
    BY <1>1, <1>3, <2>1
  <2>4. \A h \in 0 .. C[b].height : \E c \in C[b].line : C[c].height = h
    BY <2>1, <2>2
  <2> QED
    BY <2>1, <2>2, <2>3, <2>4
<1>5. /\ 1 \in C[n + 1].line /\ n + 1 \in C[n + 1].line /\ C[n + 1].line \subseteq DOMAIN C
  <2>1. 1 \in B[p].line /\ B[p].line \subseteq 1 .. n
    BY <1>1, <1>2, <1>3 DEF Lines
  <2> QED
    BY <1>1, <1>2, <2>1
<1>6. /\ \A c \in B[p].line : c \in 1 .. n /\ C[c] = B[c] /\ C[c].height \in Nat
                              /\ C[c].line \subseteq B[p].line /\ C[c].height <= B[p].height
      /\ B[p].height \in Nat
  <2>1. \A c \in B[p].line : c \in 1 .. n /\ C[c] = B[c]
    BY <1>2, <1>3
  <2> QED
    BY <1>1, <1>2, <2>1 DEF Lines
<1>7. \A c \in C[n + 1].line : C[c].line \subseteq C[n + 1].line /\ C[c].height <= C[n + 1].height
  BY <1>1, <1>2, <1>6
<1>8. \A c, d \in C[n + 1].line : C[c].height = C[d].height => c = d
  <2>1. \A c, d \in B[p].line : C[c].height = C[d].height => c = d
    BY <1>1, <1>2, <1>6 DEF Lines
  <2>2. \A c \in B[p].line : C[c].height # C[n + 1].height
    BY <1>2, <1>6
  <2> QED
    BY <1>2, <2>1, <2>2
<1>9. ASSUME NEW h \in 0 .. C[n + 1].height PROVE \E c \in C[n + 1].line : C[c].height = h
  <2>1. CASE h = C[n + 1].height
    BY <1>2, <2>1
  <2>2. CASE h # C[n + 1].height
    <3>1. h \in 0 .. B[p].height
      BY <1>2, <1>6, <2>2
    <3>2. \A i \in 0 .. B[p].height : \E c \in B[p].line : B[c].height = i
      <4>1. p \in DOMAIN B
        BY <1>1, <1>2
      <4> QED
        BY <4>1 DEF Lines
    <3>3. PICK c \in B[p].line : B[c].height = h
      BY <3>1, <3>2
    <3> QED
      BY <1>2, <1>6, <3>3
  <2> QED
    BY <2>1, <2>2
<1> QED
  BY <1>1, <1>4, <1>5, <1>7, <1>8, <1>9 DEF Lines

LEMMA GrowsKeeps ==
    ASSUME NEW B, NEW C, NEW p, Grows(B, C, p), Lines(B), KeepsAsset(B),
           \/ Len(C[Len(B) + 1].out) > Len(B[p].out)
           \/ Len(C[Len(B) + 1].out) = Len(B[p].out) /\ (B[p].has => C[Len(B) + 1].has)
    PROVE  KeepsAsset(C)
<1> DEFINE n == Len(B)
           m == C[n + 1]
<1>1. /\ n \in Nat /\ n >= 1 /\ DOMAIN B = 1 .. n /\ DOMAIN C = 1 .. n + 1
      /\ \A b \in 1 .. n : Len(B[b].out) \in Nat
      /\ Len(m.out) \in Nat
  BY GrowsFacts
<1>2. /\ p \in 1 .. n /\ \A b \in 1 .. n : C[b] = B[b]
      /\ m.line = B[p].line \cup {n + 1}
  BY DEF Grows
<1>3. \/ Len(m.out) > Len(B[p].out)
      \/ Len(m.out) = Len(B[p].out) /\ (B[p].has => m.has)
  OBVIOUS
<1> HIDE DEF n
<1>4. \A b \in 1 .. n : B[b].line \subseteq 1 .. n
  BY <1>1 DEF Lines
<1>5. ASSUME NEW b \in 1 .. n, NEW c \in C[b].line
      PROVE  /\ Len(C[c].out) <= Len(C[b].out)
             /\ Len(C[c].out) = Len(C[b].out) /\ C[c].has => C[b].has
  <2>1. C[b] = B[b] /\ c \in B[b].line /\ C[c] = B[c]
    BY <1>2, <1>4
  <2> QED
    BY <1>1, <2>1 DEF KeepsAsset
<1>6. ASSUME NEW c \in m.line
      PROVE  /\ Len(C[c].out) <= Len(m.out)
             /\ Len(C[c].out) = Len(m.out) /\ C[c].has => m.has
  <2>1. CASE c = n + 1
    BY <1>1, <2>1
  <2>2. CASE c # n + 1
    <3>1. c \in B[p].line /\ c \in 1 .. n /\ C[c] = B[c]
      BY <1>2, <1>4, <2>2
    <3>2. /\ Len(B[c].out) <= Len(B[p].out)
          /\ Len(B[c].out) = Len(B[p].out) /\ B[c].has => B[p].has
      BY <1>1, <1>2, <3>1 DEF KeepsAsset
    <3>3. Len(B[c].out) \in Nat /\ Len(B[p].out) \in Nat
      BY <1>1, <1>2, <3>1
    <3>4. Len(B[p].out) <= Len(m.out) /\ Len(B[c].out) <= Len(B[p].out)
      <4>1. Len(m.out) > Len(B[p].out) \/ Len(m.out) = Len(B[p].out)
        BY <1>3
      <4>2. Len(m.out) \in Nat
        BY <1>1
      <4>3. Len(B[p].out) <= Len(m.out)
        BY <3>3, <4>1, <4>2
      <4> QED
        BY <3>2, <4>3
    <3>5. /\ Len(B[c].out) <= Len(m.out)
          /\ Len(B[c].out) = Len(m.out) =>
               Len(B[c].out) = Len(B[p].out) /\ ~(Len(m.out) > Len(B[p].out))
      <4>1. Len(m.out) \in Nat
        BY <1>1
      <4> QED
        BY <3>3, <3>4, <4>1
    <3>6. Len(B[c].out) = Len(m.out) /\ B[c].has => m.has
      BY <1>3, <3>2, <3>5
    <3> QED
      BY <3>1, <3>5, <3>6
  <2> QED
    BY <2>1, <2>2
<1>7. DOMAIN C = (1 .. n) \cup {n + 1}
  BY <1>1
<1> QED
  BY <1>5, <1>6, <1>7 DEF KeepsAsset

(* The parent of a block is in each line that the block is in.             *)
LEMMA ParentInLine ==
    ASSUME TypeOK, TreeInv, NEW b \in DOMAIN blocks, NEW c \in blocks[b].line, c # 1
    PROVE  /\ c \in DOMAIN blocks /\ blocks[c].parent \in DOMAIN blocks
           /\ blocks[c].parent \in blocks[b].line
           /\ blocks[c].height = blocks[blocks[c].parent].height + 1
<1> USE DEF TreeInv
<1>1. DOMAIN blocks = 1 .. Len(blocks) /\ Len(blocks) \in Nat
  BY TreeType
<1>2. c \in DOMAIN blocks /\ blocks[c].line \subseteq blocks[b].line
  BY DEF Lines
<1>3. /\ blocks[c].parent \in 1 .. (c - 1)
      /\ blocks[c].line = blocks[blocks[c].parent].line \cup {c}
      /\ blocks[c].height = blocks[blocks[c].parent].height + 1
  BY <1>2 DEF Linked
<1>4. blocks[c].parent \in DOMAIN blocks
  BY <1>1, <1>2, <1>3
<1>5. blocks[c].parent \in blocks[blocks[c].parent].line
  BY <1>4 DEF Lines
<1> QED
  BY <1>2, <1>3, <1>4, <1>5

(* Going back from parent to parent does not leave the line: otherwise     *)
(* there would be a first step that does.                                  *)
LEMMA AncestorInLine ==
    ASSUME TypeOK, TreeInv, NEW a, NEW b \in DOMAIN blocks, NEW n \in Nat,
           IsBlockAncestor(a, b, n)
    PROVE  a \in blocks[b].line
<1>0. PICK k \in 0 .. n : \E walk \in [0 .. k -> DOMAIN blocks] :
        /\ walk[0] = b /\ walk[k] = a
        /\ \A i \in 1 .. k : walk[i] = blocks[walk[i - 1]].parent
  BY DEF IsBlockAncestor
<1>1. PICK walk \in [0 .. k -> DOMAIN blocks] :
        /\ walk[0] = b /\ walk[k] = a
        /\ \A i \in 1 .. k : walk[i] = blocks[walk[i - 1]].parent
  BY <1>0
<1> DEFINE Off == {i \in 0 .. k : walk[i] \notin blocks[b].line}
<1>2. k \in Nat /\ Off \subseteq Nat
  BY <1>1
<1>3. Off = {}
  <2> SUFFICES ASSUME Off # {} PROVE FALSE
    OBVIOUS
  <2> HIDE DEF Off
  <2>1. PICK x \in Off : \A y \in Off : ~(<<y, x>> \in OpToRel(<, Nat))
    BY <1>2, NatLessThanWellFounded, WFMin
  <2>2. \A y \in Off : ~(y < x)
    BY <1>2, <2>1 DEF OpToRel
  <2>3. x \in 0 .. k /\ walk[x] \notin blocks[b].line
    BY DEF Off
  <2>4. x # 0
    BY <1>1, <2>3 DEF TreeInv, Lines
  <2>5. x - 1 \in 0 .. k /\ x - 1 < x /\ x \in 1 .. k
    BY <1>2, <2>3, <2>4
  <2>6. walk[x - 1] \in blocks[b].line
    BY <2>2, <2>5 DEF Off
  <2>7. walk[x] = blocks[walk[x - 1]].parent /\ walk[x] \in DOMAIN blocks
    BY <1>1, <2>5
  <2>8. walk[x - 1] # 1
    <3>1. blocks[1].parent = 0 /\ 0 \notin DOMAIN blocks
      BY TreeType DEF TreeInv, Linked, NoBlock
    <3> QED
      BY <2>7, <3>1
  <2>9. walk[x] \in blocks[b].line
    BY <2>6, <2>7, <2>8, ParentInLine
  <2> QED
    BY <2>3, <2>9
<1>4. k \in 0 .. k
  BY <1>2
<1> QED
  BY <1>1, <1>3, <1>4

(* A block of the line is found unless more blocks than n are in between.  *)
LEMMA InLineIsAncestor ==
    ASSUME TypeOK, TreeInv, NEW b \in DOMAIN blocks, NEW a \in blocks[b].line,
           NEW n \in Nat, blocks[b].height <= blocks[a].height + n
    PROVE  IsBlockAncestor(a, b, n)
<1> DEFINE H == blocks[b].height
           K == H - blocks[a].height
           At(i) == CHOOSE c \in blocks[b].line : blocks[c].height = H - i
           walk == [i \in 0 .. K |-> At(i)]
<1>1. /\ \A c \in blocks[b].line : c \in DOMAIN blocks /\ blocks[c].height \in Nat
      /\ H \in Nat /\ b \in blocks[b].line
  <2>1. b \in blocks[b].line /\ blocks[b].line \subseteq DOMAIN blocks
    BY DEF TreeInv, Lines
  <2>2. \A c \in DOMAIN blocks : blocks[c].height \in Nat
    BY TreeType DEF BlockData
  <2> QED
    BY <2>1, <2>2
<1>2. /\ \A c \in blocks[b].line : blocks[c].height <= H
      /\ \A c, d \in blocks[b].line : blocks[c].height = blocks[d].height => c = d
      /\ \A h \in 0 .. H : \E c \in blocks[b].line : blocks[c].height = h
  BY DEF TreeInv, Lines
<1> HIDE DEF H
<1>3. K \in 0 .. n /\ K \in Nat /\ K <= H /\ blocks[a].height = H - K
  <2>1. blocks[a].height \in Nat /\ blocks[a].height <= H /\ H <= blocks[a].height + n
    BY <1>1, <1>2 DEF H
  <2> QED
    BY <1>1, <2>1
<1> HIDE DEF K
<1>4. ASSUME NEW i \in 0 .. K
      PROVE  At(i) \in blocks[b].line /\ blocks[At(i)].height = H - i
  <2>1. H - i \in 0 .. H
    BY <1>1, <1>3
  <2>2. \E c \in blocks[b].line : blocks[c].height = H - i
    BY <1>2, <2>1
  <2> QED
    BY <2>2
<1> HIDE DEF At
<1>5. walk \in [0 .. K -> DOMAIN blocks]
  BY <1>1, <1>4
<1>6. walk[0] = b
  <2>1. 0 \in 0 .. K /\ H - 0 = H
    BY <1>1, <1>3
  <2>2. At(0) \in blocks[b].line /\ blocks[At(0)].height = blocks[b].height
    BY <1>4, <2>1 DEF H
  <2> QED
    BY <1>1, <1>2, <2>1, <2>2
<1>7. walk[K] = a
  <2>1. K \in 0 .. K
    BY <1>3
  <2>2. At(K) \in blocks[b].line /\ blocks[At(K)].height = blocks[a].height
    BY <1>3, <1>4, <2>1
  <2> QED
    BY <1>2, <2>1, <2>2
<1>8. ASSUME NEW i \in 1 .. K PROVE walk[i] = blocks[walk[i - 1]].parent
  <2>1. i \in 0 .. K /\ i - 1 \in 0 .. K /\ i \in Nat
    BY <1>3
  <2>2. PICK c : c = walk[i - 1]
    OBVIOUS
  <2>3. c \in blocks[b].line /\ blocks[c].height = H - (i - 1)
    BY <1>4, <2>1, <2>2
  <2>4. c # 1
    <3>1. blocks[1].height = 0
      BY DEF TreeInv, Linked
    <3> QED
      BY <1>1, <1>3, <2>1, <2>3, <3>1
  <2>5. /\ blocks[c].parent \in blocks[b].line
        /\ blocks[c].height = blocks[blocks[c].parent].height + 1
    BY <2>3, <2>4, ParentInLine
  <2>6. blocks[blocks[c].parent].height = H - i
    <3>1. blocks[blocks[c].parent].height \in Nat
      BY <1>1, <2>5
    <3> QED
      BY <1>1, <2>1, <2>3, <2>5, <3>1
  <2>7. At(i) \in blocks[b].line /\ blocks[At(i)].height = H - i
    BY <1>4, <2>1
  <2>8. At(i) = blocks[c].parent
    BY <1>2, <2>5, <2>6, <2>7
  <2> QED
    BY <2>1, <2>2, <2>8
<1> HIDE DEF walk
<1> QED
  BY <1>3, <1>5, <1>6, <1>7, <1>8 DEF IsBlockAncestor

(* The GSP has a block to go to.                                           *)
LEMMA GspHasNext ==
    ASSUME TypeOK, TreeInv, GspStep
    PROVE  gsp' \in DOMAIN blocks
<1>1. tip \in DOMAIN blocks /\ gsp \in DOMAIN blocks /\ gsp # tip
  BY DEF TypeOK, GspStep
<1>2. CASE gsp \in blocks[tip].line
  <2>1. gsp' = CHOOSE b \in blocks[tip].line : blocks[b].parent = gsp
    BY <1>2 DEF GspStep
  <2>2. /\ tip \in blocks[tip].line /\ blocks[tip].line \subseteq DOMAIN blocks
        /\ blocks[gsp].height <= blocks[tip].height
        /\ \A c, d \in blocks[tip].line : blocks[c].height = blocks[d].height => c = d
        /\ \A h \in 0 .. blocks[tip].height : \E c \in blocks[tip].line : blocks[c].height = h
    BY <1>1, <1>2 DEF TreeInv, Lines
  <2>3. \A c \in DOMAIN blocks : blocks[c].height \in Nat
    BY TreeType DEF BlockData
  <2>4. blocks[gsp].height + 1 \in 0 .. blocks[tip].height
    <3>1. blocks[gsp].height # blocks[tip].height
      BY <1>1, <1>2, <2>2
    <3>2. blocks[gsp].height \in Nat /\ blocks[tip].height \in Nat
      BY <1>1, <2>3
    <3> QED
      BY <2>2, <3>1, <3>2
  <2>5. PICK c \in blocks[tip].line : blocks[c].height = blocks[gsp].height + 1
    BY <2>2, <2>4
  <2>6. c # 1
    <3>1. blocks[1].height = 0 /\ blocks[gsp].height \in Nat
      BY <1>1, <2>3 DEF TreeInv, Linked
    <3> QED
      BY <2>5, <3>1
  <2>7. /\ blocks[c].parent \in DOMAIN blocks /\ blocks[c].parent \in blocks[tip].line
        /\ blocks[c].height = blocks[blocks[c].parent].height + 1
    BY <1>1, <2>6, ParentInLine
  <2>8. blocks[blocks[c].parent].height = blocks[gsp].height
    BY <1>1, <2>3, <2>5, <2>7
  <2>9. blocks[c].parent = gsp
    BY <1>2, <2>2, <2>7, <2>8
  <2> QED
    BY <2>1, <2>2, <2>9
<1>3. CASE gsp \notin blocks[tip].line
  <2>1. gsp' = blocks[gsp].parent
    BY <1>3 DEF GspStep
  <2>2. gsp # 1 /\ gsp \in blocks[gsp].line
    BY <1>1, <1>3 DEF TreeInv, Lines
  <2> QED
    BY <1>1, <2>1, <2>2, ParentInLine
<1> QED
  BY <1>2, <1>3

(***************************************************************************)
(* The inductive invariant                                                 *)
(***************************************************************************)
LEMMA InitCheck == Init => CheckInv
<1> SUFFICES ASSUME Init PROVE CheckInv
  OBVIOUS
<1>1. PICK g \in BOOLEAN : blocks = <<Genesis(g)>>
  BY DEF Init
<1>2. /\ tip = 1 /\ gsp = 1 /\ pc = "IsAsset" /\ result = "none"
      /\ nameInput = << >> /\ utxoBlock = NoBlock /\ gspBlock = NoBlock
  BY DEF Init
<1>3. PICK d : d = Genesis(g)
  OBVIOUS
<1>4. /\ d \in BlockData
      /\ d.parent = 0 /\ d.height = 0 /\ d.line = {1} /\ d.op = "none"
      /\ d.out = << >> /\ Len(d.out) = 0
  <2>1. << >> \in Seq(Ops)
    OBVIOUS
  <2> QED
    BY <1>3, <2>1 DEF Genesis, BlockData, Ops, NoBlock
<1>5. blocks = <<d>> /\ DOMAIN blocks = {1} /\ blocks[1] = d /\ Len(blocks) = 1
  BY <1>1, <1>3
<1>6. TypeOK
  <2>1. blocks \in Seq(BlockData)
    BY <1>4, <1>5
  <2>2. Len(blocks) \in Blocks
    BY <1>5, MaxBlocksAssumption DEF Blocks
  <2>3. << >> \in Seq(Ops)
    OBVIOUS
  <2>4. reorged \in BOOLEAN /\ behind \in BOOLEAN
    BY DEF Init
  <2>5. blocks[1].parent \in 0 .. 1 - 1 /\ blocks[1].line \subseteq 1 .. 1
    BY <1>4, <1>5
  <2>6. \A b \in DOMAIN blocks :
          blocks[b].parent \in 0 .. b - 1 /\ blocks[b].line \subseteq 1 .. b
    BY <1>5, <2>5
  <2> QED
    BY <1>2, <1>5, <2>1, <2>2, <2>3, <2>4, <2>6 DEF TypeOK, BlockData, Calls, Results
<1>7. Linked(blocks) /\ Lines(blocks) /\ KeepsAsset(blocks)
  <2>1. Linked(blocks)
    BY <1>4, <1>5 DEF Linked, NoBlock
  <2>2. Lines(blocks)
    BY <1>4, <1>5 DEF Lines
  <2>3. KeepsAsset(blocks)
    BY <1>4, <1>5 DEF KeepsAsset
  <2> QED
    BY <2>1, <2>2, <2>3
<1>8. AnswersInv /\ MatchInv /\ MismatchExplained
  BY <1>2 DEF AnswersInv, MatchInv, MismatchExplained
<1>9. MinedInv
  BY <1>4, <1>5 DEF MinedInv
<1> QED
  BY <1>6, <1>7, <1>8, <1>9 DEF CheckInv, TreeInv

(* What the new block is.                                                  *)
LEMMA NewBlockGrows ==
    ASSUME TypeOK, TreeInv, NEW p \in DOMAIN blocks, NEW op \in Ops, NewBlock(p, op)
    PROVE  LET b == Len(blocks) + 1 IN
           /\ Grows(blocks, blocks', p)
           /\ blocks'[b].op = op
           /\ op = "trade" => ~blocks'[b].has
           /\ \/ Len(blocks'[b].out) > Len(blocks[p].out)
              \/ Len(blocks'[b].out) = Len(blocks[p].out) /\ (blocks[p].has => blocks'[b].has)
           /\ Len(blocks') \in Blocks
           /\ TreeInv'
<1> DEFINE b == Len(blocks) + 1
<1>1. /\ Len(blocks) \in Nat /\ Len(blocks) >= 1
      /\ DOMAIN blocks = 1 .. Len(blocks) /\ blocks[p] \in BlockData
  BY TreeType
<1>2. blocks \in Seq(BlockData)
  BY DEF TypeOK, BlockData
<1>3. PICK d : d = Successor(b, p, op)
  OBVIOUS
<1>4. b <= MaxBlocks /\ blocks' = Append(blocks, d)
  BY <1>3 DEF NewBlock
<1>5. /\ d.parent = p /\ d.height = blocks[p].height + 1
      /\ d.line = blocks[p].line \cup {b} /\ d.op = op
      /\ d.out = IF op \in {"send", "trade"} THEN Append(blocks[p].out, op) ELSE blocks[p].out
  BY <1>3 DEF Successor
<1>6. /\ op \in {"send", "trade"} => d.has = FALSE
      /\ op = "receive" => d.has = TRUE
      /\ op = "none" => d.has = blocks[p].has
  BY <1>3 DEF Successor
<1>7. /\ blocks[p].out \in Seq(Ops) /\ blocks[p].height \in Nat
      /\ blocks[p].line \subseteq Nat /\ blocks[p].has \in BOOLEAN
  BY <1>1 DEF BlockData
<1>8. /\ d.out \in Seq(Ops)
      /\ op \in {"send", "trade"} => Len(d.out) = Len(blocks[p].out) + 1
      /\ op \notin {"send", "trade"} => Len(d.out) = Len(blocks[p].out)
      /\ Len(blocks[p].out) \in Nat
  BY <1>5, <1>7
<1>9. d \in BlockData
  <2>1. d = [parent |-> d.parent, height |-> d.height, line |-> d.line, op |-> d.op,
             out |-> d.out, has |-> d.has]
    BY <1>3 DEF Successor
  <2>2. d.has \in BOOLEAN
    BY <1>6, <1>7 DEF Ops
  <2>3. p \in Nat /\ b \in Nat
    BY <1>1
  <2>4. d.parent \in Nat /\ d.height \in Nat /\ d.line \in SUBSET Nat
    BY <1>5, <1>7, <2>3
  <2> HIDE DEF b
  <2> QED
    BY <1>5, <1>8, <2>1, <2>2, <2>4 DEF BlockData
<1>10. /\ blocks' \in Seq(BlockData) /\ Len(blocks') = b /\ blocks'[b] = d
       /\ \A c \in 1 .. Len(blocks) : blocks'[c] = blocks[c]
  BY <1>1, <1>2, <1>4, <1>9
<1>11. Grows(blocks, blocks', p)
  BY <1>1, <1>2, <1>5, <1>10 DEF Grows
<1>12. \/ Len(d.out) > Len(blocks[p].out)
       \/ Len(d.out) = Len(blocks[p].out) /\ (blocks[p].has => d.has)
  <2>1. CASE op \in {"send", "trade"}
    BY <1>8, <2>1
  <2>2. CASE op \notin {"send", "trade"}
    <3>1. blocks[p].has => d.has
      BY <1>6, <2>2 DEF Ops
    <3> QED
      BY <1>8, <2>2, <3>1
  <2> QED
    BY <2>1, <2>2
<1>13. TreeInv'
  <2>1. Linked(blocks') /\ Lines(blocks')
    BY <1>11, GrowsLinked, GrowsLines DEF TreeInv
  <2>2. KeepsAsset(blocks')
    BY <1>10, <1>11, <1>12, GrowsKeeps DEF TreeInv
  <2> QED
    BY <2>1, <2>2 DEF TreeInv
<1>14. Len(blocks') \in Blocks
  BY <1>1, <1>4, <1>10, MaxBlocksAssumption DEF Blocks
<1>15. op = "trade" => ~d.has
  BY <1>6
<1> QED
  BY <1>5, <1>10, <1>11, <1>12, <1>13, <1>14, <1>15

(* One lemma per action: CheckInv.                                         *)
LEMMA NewBlockCheck ==
    ASSUME CheckInv, NEW p \in DOMAIN blocks, NEW op \in Ops, NewBlock(p, op)
    PROVE  CheckInv'
<1> DEFINE n == Len(blocks)
<1>0. TypeOK /\ TreeInv /\ AnswersInv /\ MinedInv /\ MatchInv /\ MismatchExplained
  BY DEF CheckInv
<1>1. /\ n \in Nat /\ n >= 1 /\ DOMAIN blocks = 1 .. n /\ p \in 1 .. n
  BY <1>0, TreeType
<1>2. /\ Grows(blocks, blocks', p)
      /\ blocks'[n + 1].op = op
      /\ op = "trade" => ~blocks'[n + 1].has
      /\ Len(blocks') \in Blocks
      /\ TreeInv'
  BY <1>0, NewBlockGrows
<1>3. /\ DOMAIN blocks' = 1 .. n + 1 /\ \A c \in 1 .. n : blocks'[c] = blocks[c]
      /\ blocks' \in Seq(BlockData)
      /\ blocks'[n + 1].parent = p
      /\ blocks'[n + 1].line = blocks[p].line \cup {n + 1}
  BY <1>2, GrowsFacts DEF Grows
<1>4. /\ tip' \in {tip, n + 1} /\ CanInclude(p, op)
      /\ UNCHANGED <<gsp, pc, result, nameInput, utxoBlock, gspBlock, behind>>
  BY DEF NewBlock, check
<1>5. /\ reorged' = (reorged \/ (pc = "CanSell" /\ tip' # tip /\ p # tip))
  BY DEF NewBlock
<1> HIDE DEF n
<1>6. TypeOK'
  <2>1. /\ blocks'[n + 1].parent \in 0 .. (n + 1) - 1
        /\ blocks'[n + 1].line \subseteq 1 .. n + 1
    <3>1. blocks[p].line \subseteq 1 .. p
      BY <1>0 DEF TypeOK
    <3> QED
      BY <1>1, <1>3, <3>1
  <2>2. \A c \in 1 .. n : blocks'[c].parent \in 0 .. c - 1 /\ blocks'[c].line \subseteq 1 .. c
    BY <1>0, <1>1, <1>3 DEF TypeOK
  <2>3. \A c \in DOMAIN blocks' : c \in 1 .. n \/ c = n + 1
    BY <1>1, <1>3
  <2>4. \A c \in DOMAIN blocks' : blocks'[c].parent \in 0 .. c - 1 /\ blocks'[c].line \subseteq 1 .. c
    BY <2>1, <2>2, <2>3
  <2>a. DOMAIN blocks \subseteq DOMAIN blocks' /\ n + 1 \in DOMAIN blocks'
    BY <1>1, <1>3
  <2>b. /\ tip \in DOMAIN blocks /\ gsp \in DOMAIN blocks
        /\ utxoBlock \in {NoBlock} \cup DOMAIN blocks /\ gspBlock \in {NoBlock} \cup DOMAIN blocks
    BY <1>0 DEF TypeOK
  <2>5. tip' \in DOMAIN blocks' /\ gsp' \in DOMAIN blocks'
    BY <1>4, <2>a, <2>b
  <2>6. utxoBlock' \in {NoBlock} \cup DOMAIN blocks' /\ gspBlock' \in {NoBlock} \cup DOMAIN blocks'
    BY <1>4, <2>a, <2>b
  <2>7. reorged' \in BOOLEAN
    BY <1>5
  <2> QED
    BY <1>0, <1>2, <1>3, <1>4, <2>4, <2>5, <2>6, <2>7 DEF TypeOK, BlockData
<1>7. \A c \in DOMAIN blocks : c \in DOMAIN blocks' /\ blocks'[c] = blocks[c]
  BY <1>1, <1>3
<1>8. AnswersInv'
  BY <1>0, <1>4, <1>7 DEF AnswersInv
<1>9. MinedInv'
  <2> SUFFICES ASSUME NEW c \in DOMAIN blocks', blocks'[c].op = "trade"
               PROVE  /\ result = "ok" /\ c # 1 /\ ~blocks'[c].has
                      /\ blocks'[blocks'[c].parent].out = nameInput
    BY <1>4 DEF MinedInv
  <2>1. CASE c \in 1 .. n
    <3>1. blocks'[c] = blocks[c] /\ c \in DOMAIN blocks
      BY <1>1, <1>3, <2>1
    <3>2. /\ result = "ok" /\ c # 1 /\ ~blocks[c].has
          /\ blocks[blocks[c].parent].out = nameInput
      BY <1>0, <3>1 DEF MinedInv
    <3>3. blocks[c].parent \in 1 .. (c - 1)
      BY <1>0, <3>1, <3>2 DEF TreeInv, Linked
    <3>4. blocks[c].parent \in 1 .. n
      BY <1>1, <2>1, <3>3
    <3> QED
      BY <1>3, <3>1, <3>2, <3>4
  <2>2. CASE c = n + 1
    <3>1. op = "trade" /\ ~blocks'[c].has /\ blocks'[c].parent = p
      BY <1>2, <1>3, <2>2 DEF n
    <3>2. result = "ok" /\ blocks[p].out = nameInput /\ blocks'[p] = blocks[p]
      BY <1>3, <1>4, <1>1, <3>1 DEF CanInclude
    <3>3. c # 1
      BY <1>1, <2>2
    <3> QED
      BY <3>1, <3>2, <3>3
  <2> QED
    BY <1>1, <1>3, <2>1, <2>2
<1>10. MatchInv'
  <2>1. ASSUME pc = "CanSell", ~reorged' PROVE utxoBlock \in blocks'[tip'].line
    <3>1. utxoBlock \in blocks[tip].line /\ tip \in DOMAIN blocks
      BY <1>0, <1>5, <2>1 DEF MatchInv, TypeOK
    <3>2. tip' = tip \/ (tip' = n + 1 /\ p = tip)
      BY <1>4, <1>5, <2>1
    <3> QED
      BY <1>3, <1>7, <3>1, <3>2
  <2>2. ASSUME pc = "IsBlockAncestor", ~reorged', ~behind PROVE utxoBlock \in blocks'[gspBlock].line
    BY <1>0, <1>5, <1>7, <2>2 DEF MatchInv, AnswersInv
  <2> QED
    BY <1>4, <2>1, <2>2 DEF MatchInv
<1>11. MismatchExplained'
  BY <1>0, <1>4, <1>5, <1>7 DEF MismatchExplained, AnswersInv
<1> QED
  BY <1>2, <1>6, <1>8, <1>9, <1>10, <1>11 DEF CheckInv

LEMMA GspCheck ==
    ASSUME CheckInv, GspStep
    PROVE  CheckInv'
<1>1. UNCHANGED <<blocks, tip, pc, result, nameInput, utxoBlock, gspBlock, reorged, behind>>
  BY DEF GspStep, check
<1>2. gsp' \in DOMAIN blocks
  BY GspHasNext DEF CheckInv
<1>3. TypeOK'
  BY <1>1, <1>2 DEF CheckInv, TypeOK
<1> QED
  BY <1>1, <1>3 DEF CheckInv, TreeInv, AnswersInv, MinedInv, MatchInv, MismatchExplained

(* Until the check has passed there is no trade in a block.                *)
LEMMA NoTradeYet ==
    ASSUME CheckInv, result = "none"
    PROVE  \A b \in DOMAIN blocks : blocks[b].op # "trade"
  BY DEF CheckInv, MinedInv

LEMMA CallsCheck ==
    ASSUME CheckInv,
           \/ \E known \in BOOLEAN : AskIsAsset(known)
           \/ GetNameOutPoint
           \/ \E spent \in BOOLEAN : GetTxOut(spent)
    PROVE  CheckInv'
<1>0. TypeOK /\ TreeInv /\ AnswersInv /\ MatchInv
  BY DEF CheckInv
<1>1. UNCHANGED <<blocks, tip, gsp, gspBlock, reorged, behind>>
  BY DEF AskIsAsset, GetNameOutPoint, GetTxOut
<1>2. /\ pc \in {"IsAsset", "name_show", "gettxout"} /\ result = "none"
      /\ result' \in {"none", "notAsset", "noUtxo"} /\ pc' \in {"name_show", "gettxout", "CanSell", "done"}
      /\ result' # "none" => pc' = "done"
  BY <1>0 DEF AskIsAsset, GetNameOutPoint, GetTxOut, Return, AnswersInv
<1>3. /\ nameInput' \in {nameInput, blocks[tip].out} /\ utxoBlock' \in {utxoBlock, tip}
      /\ pc' = "CanSell" => utxoBlock' = tip /\ nameInput' = nameInput /\ blocks[tip].out = nameInput
  BY DEF AskIsAsset, GetNameOutPoint, GetTxOut, Return
<1>4. tip \in DOMAIN blocks /\ tip \in blocks[tip].line /\ blocks[tip].out \in Seq(Ops)
  <2>1. tip \in DOMAIN blocks
    BY <1>0 DEF TypeOK
  <2>2. tip \in blocks[tip].line
    BY <1>0, <2>1 DEF TreeInv, Lines
  <2>3. blocks[tip].out \in Seq(Ops)
    BY <1>0, <2>1, TreeType DEF BlockData
  <2> QED
    BY <2>1, <2>2, <2>3
<1>5. TypeOK'
  BY <1>0, <1>1, <1>2, <1>3, <1>4 DEF TypeOK, Calls, Results
<1>6. AnswersInv'
  BY <1>1, <1>2, <1>3, <1>4 DEF AnswersInv
<1>7. MinedInv'
  BY <1>1, <1>2, NoTradeYet DEF MinedInv
<1>8. MatchInv' /\ MismatchExplained'
  BY <1>1, <1>2, <1>3, <1>4 DEF MatchInv, MismatchExplained
<1> QED
  BY <1>0, <1>1, <1>5, <1>6, <1>7, <1>8 DEF CheckInv, TreeInv

LEMMA CanSellCheck ==
    ASSUME CheckInv, CanSell
    PROVE  CheckInv'
<1>0. TypeOK /\ TreeInv /\ AnswersInv /\ MatchInv
  BY DEF CheckInv
<1>1. /\ UNCHANGED <<blocks, tip, gsp, nameInput, utxoBlock, reorged>>
      /\ pc = "CanSell" /\ gspBlock' = gsp
  BY DEF CanSell
<1>2. /\ result = "none" /\ result' \in {"none", "cannotSell"} /\ pc' \in {"IsBlockAncestor", "done"}
      /\ result' # "none" => pc' = "done"
      /\ pc' = "IsBlockAncestor" => blocks[gsp].has
  BY <1>0 DEF CanSell, Return, AnswersInv
<1>3. behind' \in BOOLEAN /\ (~behind' => gsp = tip)
  BY DEF CanSell
<1>4. gsp \in DOMAIN blocks
  BY <1>0 DEF TypeOK
<1>5. TypeOK'
  BY <1>0, <1>1, <1>2, <1>3, <1>4 DEF TypeOK, Calls, Results
<1>6. AnswersInv'
  BY <1>0, <1>1, <1>2, <1>4 DEF AnswersInv
<1>7. MinedInv'
  BY <1>1, <1>2, NoTradeYet DEF MinedInv
<1>8. MatchInv' /\ MismatchExplained'
  BY <1>0, <1>1, <1>2, <1>3 DEF MatchInv, MismatchExplained
<1> QED
  BY <1>0, <1>1, <1>5, <1>6, <1>7, <1>8 DEF CheckInv, TreeInv

LEMMA AncestorCheck ==
    ASSUME CheckInv, CheckAncestor
    PROVE  CheckInv'
<1>0. TypeOK /\ TreeInv /\ AnswersInv /\ MatchInv
  BY DEF CheckInv
<1> DEFINE found == IsBlockAncestor(utxoBlock, gspBlock, MAX_BLOCK_ANCESTORS_CHECKED)
<1>1. /\ UNCHANGED <<blocks, tip, gsp, nameInput, utxoBlock, gspBlock, reorged, behind>>
      /\ pc = "IsBlockAncestor" /\ pc' = "done"
      /\ result' = IF found THEN "ok" ELSE "notAncestor"
  BY DEF CheckAncestor, Return
<1>2. /\ utxoBlock \in DOMAIN blocks /\ blocks[utxoBlock].out = nameInput
      /\ gspBlock \in DOMAIN blocks /\ blocks[gspBlock].has /\ result = "none"
  BY <1>0, <1>1 DEF AnswersInv
<1>3. found => utxoBlock \in blocks[gspBlock].line
  BY <1>0, <1>2, AncestorInLine, AncestorsAssumption
<1>4. ~found => \/ reorged \/ behind
                \/ blocks[gspBlock].height > blocks[utxoBlock].height + MAX_BLOCK_ANCESTORS_CHECKED
  <2> SUFFICES ASSUME ~reorged, ~behind,
                      ~(blocks[gspBlock].height > blocks[utxoBlock].height + MAX_BLOCK_ANCESTORS_CHECKED)
               PROVE  found
    OBVIOUS
  <2>1. utxoBlock \in blocks[gspBlock].line
    BY <1>0, <1>1 DEF MatchInv
  <2>2. blocks[gspBlock].height \in Nat /\ blocks[utxoBlock].height \in Nat
    BY <1>0, <1>2, TreeType DEF BlockData
  <2>3. blocks[gspBlock].height <= blocks[utxoBlock].height + MAX_BLOCK_ANCESTORS_CHECKED
    BY <2>2, AncestorsAssumption
  <2> QED
    BY <1>0, <1>2, <2>1, <2>3, InLineIsAncestor, AncestorsAssumption
<1> HIDE DEF found
<1>5. TypeOK'
  BY <1>0, <1>1 DEF TypeOK, Calls, Results
<1>6. AnswersInv'
  BY <1>1, <1>2, <1>3 DEF AnswersInv
<1>7. MinedInv'
  BY <1>1, <1>2, NoTradeYet DEF MinedInv
<1>8. MatchInv' /\ MismatchExplained'
  BY <1>1, <1>4 DEF MatchInv, MismatchExplained
<1> QED
  BY <1>0, <1>1, <1>5, <1>6, <1>7, <1>8 DEF CheckInv, TreeInv

LEMMA NextCheck == CheckInv /\ [Next]_vars => CheckInv'
<1> SUFFICES ASSUME CheckInv, [Next]_vars PROVE CheckInv'
  OBVIOUS
<1>1. CASE UNCHANGED vars
  BY <1>1 DEF vars, CheckInv, TypeOK, TreeInv, AnswersInv, MinedInv, MatchInv, MismatchExplained
<1> QED
  BY <1>1, NewBlockCheck, GspCheck, CallsCheck, CanSellCheck, AncestorCheck DEF Next

(* The argument in CheckForBuyerTrade: from the block of the name output   *)
(* over the one of the balance to the one with the trade, the name was not *)
(* updated, so the asset was not given away.                               *)
LEMMA MinedWhereOwned ==
    ASSUME CheckInv
    PROVE  MinedTradeValid
<1> SUFFICES ASSUME NEW b \in DOMAIN blocks, blocks[b].op = "trade", gspBlock \in blocks[b].line
             PROVE  blocks[blocks[b].parent].has
  BY DEF MinedTradeValid
<1> DEFINE p == blocks[b].parent
<1>1. TypeOK /\ TreeInv
  BY DEF CheckInv
<1>2. result = "ok" /\ b # 1 /\ ~blocks[b].has /\ blocks[p].out = nameInput
  BY DEF CheckInv, MinedInv
<1>3. /\ blocks[utxoBlock].out = nameInput /\ utxoBlock \in blocks[gspBlock].line
      /\ gspBlock \in DOMAIN blocks /\ blocks[gspBlock].has
  BY <1>2 DEF CheckInv, AnswersInv
<1>4. gspBlock \in blocks[p].line
  <2>1. blocks[b].line = blocks[p].line \cup {b}
    BY <1>1, <1>2 DEF TreeInv, Linked
  <2> QED
    BY <1>2, <1>3, <2>1
<1>5. p \in DOMAIN blocks
  <2>1. b \in blocks[b].line
    BY <1>1 DEF TreeInv, Lines
  <2> QED
    BY <1>1, <1>2, <2>1, ParentInLine
<1> HIDE DEF p
<1>6. /\ Len(blocks[utxoBlock].out) <= Len(blocks[gspBlock].out)
      /\ Len(blocks[gspBlock].out) <= Len(blocks[p].out)
      /\ Len(blocks[gspBlock].out) = Len(blocks[p].out) /\ blocks[gspBlock].has => blocks[p].has
  BY <1>1, <1>3, <1>4, <1>5 DEF TreeInv, KeepsAsset
<1>7. Len(nameInput) \in Nat /\ Len(blocks[gspBlock].out) \in Nat
  <2>1. nameInput \in Seq(Ops)
    BY <1>1 DEF TypeOK
  <2>2. blocks[gspBlock].out \in Seq(Ops)
    BY <1>1, <1>3, TreeType DEF BlockData
  <2> QED
    BY <2>1, <2>2
<1>8. Len(blocks[gspBlock].out) = Len(blocks[p].out)
  <2>1. /\ Len(nameInput) <= Len(blocks[gspBlock].out)
        /\ Len(blocks[gspBlock].out) <= Len(nameInput)
    BY <1>2, <1>3, <1>6
  <2> QED
    BY <1>2, <1>7, <2>1
<1> QED
  BY <1>3, <1>6, <1>8 DEF p

(* All state stays within its types, and the blocks form a tree.           *)
THEOREM BuyerCheckTyped == Spec => []TypeOK
<1>1. CheckInv => TypeOK
  BY DEF CheckInv
<1> QED
  BY <1>1, InitCheck, NextCheck, PTL DEF Spec

(* If the buyer's check has passed, the trade is mined only in a block     *)
(* before which the seller has the asset, whatever blocks came between and *)
(* after the calls of CheckForBuyerTrade (unless the block of the balance  *)
(* is not in its line).                                                    *)
THEOREM MinedIsValid == Spec => []MinedTradeValid
  BY InitCheck, NextCheck, MinedWhereOwned, PTL DEF Spec

(* The check fails with a mismatch of blocks only after a reorg between    *)
(* the calls, because the GSP was behind, or if there are more blocks      *)
(* between than it looks at.                                               *)
THEOREM MismatchIsExplained == Spec => []MismatchExplained
<1>1. CheckInv => MismatchExplained
  BY DEF CheckInv
<1> QED
  BY <1>1, InitCheck, NextCheck, PTL DEF Spec
=============================================================================
