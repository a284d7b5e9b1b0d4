--------------------------- MODULE TradingProofs ---------------------------
(***************************************************************************)
(* Proofs about module Trading, for any number of takers, trades, orders   *)
(* and coins: types; trades are atomic, and both sides see the same        *)
(* outcome; Trading implements AtomicSwap.  The argument for the inductive *)
(* invariant TradeInv: started trades only grow (Extends), so whatever was *)
(* true about the origin of seller data, of a PSBT and of its signatures   *)
(* when they were sent stays true however late they arrive.                *)
(***************************************************************************)
EXTENDS TradingSwap, TLAPS

(* HandleMessage fills in empty fields of a trade and nothing else.        *)
LEMMA HandleMessageFills ==
    ASSUME NEW p \in Parties, NEW tr \in Trades, NEW m \in Messages
    PROVE  LET hm == HandleMessage(p, tr, m) IN
           /\ hm \in Trades
           /\ hm.state = tr.state /\ hm.order = tr.order /\ hm.units = tr.units
           /\ hm.cp = tr.cp /\ hm.our = tr.our /\ hm.name = tr.name
           /\ hm.sd = tr.sd \/ (tr.sd = None /\ hm.sd = m.sd /\ ~Sells(p))
           /\ hm.their = tr.their \/ hm.their = m.psbt
           /\ hm.state # "INITIATED" => hm = tr
<1> DEFINE a == MergeSellerData(p, tr, m.sd)
           b == MergePsbt(a, m.psbt)
<1>1. /\ a \in Trades
      /\ a.state = tr.state /\ a.order = tr.order /\ a.units = tr.units
      /\ a.cp = tr.cp /\ a.our = tr.our /\ a.name = tr.name /\ a.their = tr.their
      /\ a.sd = tr.sd \/ (tr.sd = None /\ a.sd = m.sd /\ ~Sells(p))
  BY DEF MergeSellerData, Trades, Messages
<1> HIDE DEF a
<1>2. /\ b \in Trades
      /\ b.state = a.state /\ b.order = a.order /\ b.units = a.units
      /\ b.cp = a.cp /\ b.our = a.our /\ b.name = a.name /\ b.sd = a.sd
      /\ b.their = a.their \/ b.their = m.psbt
  BY <1>1 DEF MergePsbt, Trades, Messages
<1>3. HandleMessage(p, tr, m) = IF tr.state = "INITIATED" THEN b ELSE tr
  BY DEF HandleMessage, a
<1> QED
  BY <1>1, <1>2, <1>3

(***************************************************************************)
(* Type correctness                                                        *)
(***************************************************************************)
(* The part of TypeOK that HasReply and TakeOrder can change.              *)
TradingTypeOK ==
    /\ trades \in [TradeRefs -> Trades]
    /\ \A r \in TradeRefs : trades[r].state # "none" =>
         trades[r].order \in OrderIds /\ trades[r].cp \in Parties
    /\ msgs \subseteq Messages
    /\ nameLocks \subseteq Names
    /\ coinLocks \subseteq Parties \X Coins
    /\ broadcast \subseteq Txs

(* A started trade with the fields that a message for it is made from.     *)
Started(tr) ==
    /\ tr \in Trades
    /\ tr.state # "none" /\ tr.order \in OrderIds /\ tr.cp \in Parties

(* Writing one started trade back into the list.                           *)
LEMMA PutTradeType ==
    ASSUME TypeOK, NEW r \in TradeRefs, NEW tr, Started(tr),
           trades' = [trades EXCEPT ![r] = tr]
    PROVE  /\ trades' \in [TradeRefs -> Trades]
           /\ \A q \in TradeRefs : trades'[q].state # "none" =>
                trades'[q].order \in OrderIds /\ trades'[q].cp \in Parties
<1>1. /\ trades \in [TradeRefs -> Trades]
      /\ \A q \in TradeRefs : trades[q].state # "none" =>
           trades[q].order \in OrderIds /\ trades[q].cp \in Parties
  BY DEF TypeOK
<1>2. \A q \in TradeRefs : trades'[q] = IF q = r THEN tr ELSE trades[q]
  BY <1>1
<1> QED
  BY <1>1, <1>2 DEF Started

(* Sending a message on behalf of a started trade.                         *)
LEMMA ReplyType ==
    ASSUME TypeOK, NEW r \in TradeRefs, NEW tr, Started(tr),
           NEW take \in Nat, NEW sd \in TradeRefs \cup {None},
           NEW psbt \in Psbts \cup {None}, Reply(r, tr, take, sd, psbt)
    PROVE  msgs' \subseteq Messages
<1>1. r[1] \in Parties
  BY DEF TradeRefs
<1>2. [from |-> r[1], to |-> tr.cp, order |-> tr.order, take |-> take,
       sd |-> sd, psbt |-> psbt] \in Messages
  BY <1>1 DEF Started, Messages
<1> QED
  BY <1>2 DEF Reply, TypeOK

(* The name output of a trade's daemon.                                    *)
LEMMA NameOfType ==
    ASSUME TypeOK, NEW r \in TradeRefs
    PROVE  /\ r[1] \in Parties /\ NameOf(r) \in Names
           /\ \A p \in Parties : <<p, nameOut[p]>> \in Names
<1>1. r[1] \in Parties
  BY DEF TradeRefs
<1> QED
  BY <1>1 DEF NameOf, Names, TypeOK

(* The constructed transaction is one, and so is the signed PSBT.          *)
LEMMA ConstructType ==
    ASSUME TypeOK, NEW r \in TradeRefs, NEW tr, Started(tr), tr.sd # None,
           NEW c \in Spendable(r[1])
    PROVE  /\ c \in Parties \X Coins
           /\ ConstructTransaction(r, tr, c) \in Txs
           /\ Started(BuyerSigned(tr, ConstructTransaction(r, tr, c)))
           /\ BuyerSigned(tr, ConstructTransaction(r, tr, c)).our \in Psbts
<1> DEFINE x == ConstructTransaction(r, tr, c)
<1>1. r[1] \in Parties /\ c \in Parties \X Coins
  BY DEF TradeRefs, Spendable
<1>2. tr.sd \in TradeRefs /\ tr.units \in Nat
  BY DEF Started, Trades
<1>3. <<tr.cp, nameOut[tr.cp]>> \in Names
  BY NameOfType DEF Started
<1>4. x \in Txs
  BY <1>1, <1>2, <1>3 DEF ConstructTransaction, Txs
<1> HIDE DEF x
<1>5. [tx |-> x, sigs |-> {"buyer"}] \in Psbts
  BY <1>4 DEF Psbts, Signers
<1>6. Started(BuyerSigned(tr, x)) /\ BuyerSigned(tr, x).our \in Psbts
  BY <1>5 DEF BuyerSigned, Started, Trades
<1> QED
  BY <1>1, <1>4, <1>6 DEF x

(* The seller's signed PSBT is one.                                        *)
LEMMA SellerSignedType ==
    ASSUME NEW r \in TradeRefs, NEW tr, Started(tr), SignsAsSeller(r, tr)
    PROVE  /\ Started(SellerSigned(tr))
           /\ SellerSigned(tr).our \in Psbts
           /\ tr.their \in Psbts
<1>1. tr.their \in Psbts
  BY DEF SignsAsSeller, Started, Trades
<1>2. [tx |-> tr.their.tx, sigs |-> tr.their.sigs \cup {"seller"}] \in Psbts
  BY <1>1 DEF Psbts, Signers
<1> QED
  BY <1>1, <1>2 DEF SellerSigned, Started, Trades

LEMMA BeforeFinalType ==
    ASSUME NEW r \in TradeRefs, NEW tr, Started(tr)
    PROVE  Started(BeforeFinal(r, tr))
  BY SellerSignedType DEF BeforeFinal

LEMMA PendingType ==
    ASSUME NEW tr, Started(tr)
    PROVE  Started([tr EXCEPT !.state = "PENDING"])
  BY DEF Started, Trades, States

(* Committing a taker's trade.                                             *)
LEMMA CommitType ==
    ASSUME TypeOK, NEW r \in TradeRefs, NEW tr, Started(tr), tr.our \in Psbts,
           Commit(r, tr)
    PROVE  /\ trades' \in [TradeRefs -> Trades]
           /\ \A q \in TradeRefs : trades'[q].state # "none" =>
                trades'[q].order \in OrderIds /\ trades'[q].cp \in Parties
           /\ msgs' \subseteq Messages
<1>1. Started([tr EXCEPT !.state = "PENDING"])
  BY PendingType
<1>2. trades' = [trades EXCEPT ![r] = [tr EXCEPT !.state = "PENDING"]]
  BY DEF Commit
<1>3. Reply(r, tr, 0, None, tr.our)
  BY DEF Commit
<1>4. msgs' \subseteq Messages
  BY <1>3, ReplyType
<1> QED
  BY <1>1, <1>2, <1>4, PutTradeType

(* Each way to leave HasReply keeps the types.                             *)
LEMMA HasReplyType ==
    ASSUME TypeOK, NEW r \in TradeRefs, NEW tr, Started(tr), HasReply(r, tr)
    PROVE  TradingTypeOK'
<1> USE DEF TradingTypeOK
<1>0. /\ msgs \subseteq Messages /\ nameLocks \subseteq Names
      /\ coinLocks \subseteq Parties \X Coins /\ broadcast \subseteq Txs
  BY DEF TypeOK
<1>1. CASE SendSellerData(r, tr, 0)
  <2>1. Started([tr EXCEPT !.sd = r, !.name = NameOf(r)])
    BY NameOfType DEF Started, Trades
  <2>2. Reply(r, tr, 0, r, None)
    BY <1>1 DEF SendSellerData
  <2>3. msgs' \subseteq Messages
    BY <2>2, ReplyType
  <2>4. nameLocks' \subseteq Names
    BY <1>0, <1>1, NameOfType DEF SendSellerData
  <2> QED
    BY <1>0, <1>1, <2>1, <2>3, <2>4, PutTradeType DEF SendSellerData
<1>2. CASE SellerDataThrows(r, tr) /\ trades' = [trades EXCEPT ![r] = tr]
  <2>1. nameLocks' \subseteq Names
    BY <1>0, <1>2, NameOfType DEF SellerDataThrows
  <2> QED
    BY <1>0, <1>2, <2>1, PutTradeType DEF SellerDataThrows
<1>3. CASE TakerSellerSigns(r, tr)
  <2>1. SignsAsSeller(r, tr) /\ Commit(r, SellerSigned(tr))
    BY <1>3 DEF TakerSellerSigns
  <2>2. Started(SellerSigned(tr)) /\ SellerSigned(tr).our \in Psbts
    BY <2>1, SellerSignedType
  <2> QED
    BY <1>0, <1>3, <2>1, <2>2, CommitType DEF TakerSellerSigns, wallets
<1>4. CASE MakerBuyerConstructs(r, tr)
  <2> DEFINE X(c) == ConstructTransaction(r, tr, c)
  <2>1. PICK c \in Spendable(r[1]) :
          /\ Fund(r, tr, c)
          /\ trades' = [trades EXCEPT ![r] = BuyerSigned(tr, X(c))]
          /\ Reply(r, tr, 0, None, [tx |-> X(c), sigs |-> {}])
    BY <1>4 DEF MakerBuyerConstructs
  <2>2. tr.sd # None /\ coinLocks' = coinLocks \cup {c}
    BY <2>1 DEF Fund, WantsPsbt
  <2>3. /\ c \in Parties \X Coins /\ X(c) \in Txs
        /\ Started(BuyerSigned(tr, X(c)))
    BY <2>2, ConstructType
  <2>4. [tx |-> X(c), sigs |-> {}] \in Psbts
    BY <2>3 DEF Psbts
  <2>5. msgs' \subseteq Messages
    BY <2>1, <2>4, ReplyType
  <2> HIDE DEF X
  <2> QED
    BY <1>0, <1>4, <2>1, <2>2, <2>3, <2>5, PutTradeType DEF MakerBuyerConstructs
<1>5. CASE TakerBuyerConstructs(r, tr)
  <2> DEFINE X(c) == ConstructTransaction(r, tr, c)
  <2>1. PICK c \in Spendable(r[1]) :
          Fund(r, tr, c) /\ Commit(r, BuyerSigned(tr, X(c)))
    BY <1>5 DEF TakerBuyerConstructs
  <2>2. tr.sd # None /\ coinLocks' = coinLocks \cup {c}
    BY <2>1 DEF Fund, WantsPsbt
  <2>3. /\ c \in Parties \X Coins /\ Started(BuyerSigned(tr, X(c)))
        /\ BuyerSigned(tr, X(c)).our \in Psbts
    BY <2>2, ConstructType
  <2> HIDE DEF X
  <2> QED
    BY <1>0, <1>5, <2>1, <2>2, <2>3, CommitType DEF TakerBuyerConstructs
<1>6. CASE ConstructThrows(r, tr)
  <2>1. PICK c \in Spendable(r[1]) : Fund(r, tr, c)
    BY <1>6 DEF ConstructThrows
  <2>2. c \in Parties \X Coins
    BY <2>1, ConstructType DEF Fund, WantsPsbt
  <2> QED
    BY <1>0, <1>6, <2>1, <2>2, PutTradeType DEF ConstructThrows, Fund
<1> DEFINE ft == BeforeFinal(r, tr)
<1>7. Started(ft) /\ Started([ft EXCEPT !.state = "PENDING"])
  BY BeforeFinalType, PendingType
<1>8. Finalisable(r, ft) => ft.our.tx \in Txs
  BY <1>7 DEF Finalisable, Started, Trades, Psbts
<1>9. CASE MakerFinalises(r, tr)
  <2>1. /\ Finalisable(r, ft)
        /\ broadcast' = broadcast \cup {ft.our.tx}
        /\ trades' = [trades EXCEPT ![r] = [ft EXCEPT !.state = "PENDING"]]
        /\ UNCHANGED <<msgs, wallets>>
    BY <1>9 DEF MakerFinalises
  <2> HIDE DEF ft
  <2> QED
    BY <1>0, <1>7, <1>8, <2>1, PutTradeType DEF wallets
<1>10. CASE FinaliseThrows(r, tr)
  <2>1. trades' = [trades EXCEPT ![r] = ft] /\ UNCHANGED <<msgs, wallets, broadcast>>
    BY <1>10 DEF FinaliseThrows
  <2> HIDE DEF ft
  <2> QED
    BY <1>0, <1>7, <2>1, PutTradeType DEF wallets
<1>11. CASE FinaliseLosesReply(r, tr)
  <2>1. /\ Finalisable(r, ft)
        /\ broadcast' = broadcast \cup {ft.our.tx}
        /\ trades' = [trades EXCEPT ![r] = ft]
        /\ UNCHANGED <<msgs, wallets>>
    BY <1>11 DEF FinaliseLosesReply
  <2> HIDE DEF ft
  <2> QED
    BY <1>0, <1>7, <1>8, <2>1, PutTradeType DEF wallets
<1>12. CASE NoReply(r, tr)
  BY <1>0, <1>12, PutTradeType DEF NoReply, wallets
<1> QED
  BY <1>1, <1>2, <1>3, <1>4, <1>5, <1>6, <1>9, <1>10, <1>11, <1>12 DEF HasReply

(* RunRefresh only drops orders.                                           *)
LEMMA RunRefreshType ==
    ASSUME NEW os \in [OrderIds -> Orders], RunRefresh(os)
    PROVE  orders' \in [OrderIds -> Orders]
<1>1. PICK D : orders' = Dropped(os, D)
  BY DEF RunRefresh
<1>2. \A o \in OrderIds : [os[o] EXCEPT !.status = "gone"] \in Orders
  BY DEF Orders
<1> QED
  BY <1>1, <1>2 DEF Dropped

LEMMA SetStatusType ==
    ASSUME TypeOK, NEW o \in OrderIds, NEW s \in {"open", "locked", "gone"}
    PROVE  SetStatus(o, s) \in [OrderIds -> Orders]
  BY DEF TypeOK, SetStatus, Orders

LEMMA AddType ==
    ASSUME TypeOK, NEW o \in OrderIds, NEW max \in Nat, NEW root \in Nat,
           Add(o, max, root)
    PROVE  orders' \in [OrderIds -> Orders]
<1>1. [status |-> "open", max |-> max, root |-> root] \in Orders
  BY DEF Orders
<1>2. [orders EXCEPT ![o] = [status |-> "open", max |-> max, root |-> root]]
        \in [OrderIds -> Orders]
  BY <1>1 DEF TypeOK
<1> QED
  BY <1>2, RunRefreshType DEF Add

LEMMA RemoveType ==
    ASSUME TypeOK, NEW o \in OrderIds, RemoveById(o)
    PROVE  orders' \in [OrderIds -> Orders]
<1>1. Erased(o) \in [OrderIds -> Orders]
  BY SetStatusType DEF Erased, TypeOK
<1> QED
  BY <1>1, RunRefreshType DEF RemoveById

LEMMA UnlockType ==
    ASSUME TypeOK, NEW o \in OrderIds, Unlock(o)
    PROVE  orders' \in [OrderIds -> Orders] /\ alive' \subseteq Parties
<1>1. SetStatus(o, "open") \in [OrderIds -> Orders]
  BY SetStatusType
<1>2. RunRefresh(SetStatus(o, "open")) => orders' \in [OrderIds -> Orders]
  BY <1>1, RunRefreshType
<1> QED
  BY <1>2 DEF Unlock, TypeOK

LEMMA NewTradeType ==
    ASSUME NEW o \in OrderIds, NEW units \in Nat, NEW cp \in Parties
    PROVE  Started(NewTrade(o, units, cp))
<1>1. NoTrade \in Trades
  BY DEF NoTrade, Trades, States
<1> QED
  BY <1>1 DEF NewTrade, Started, Trades, States

LEMMA InitType == Init => TypeOK
<1> SUFFICES ASSUME Init PROVE TypeOK
  OBVIOUS
<1>1. NoTrade \in Trades
  BY DEF NoTrade, Trades, States
<1>2. trades \in [TradeRefs -> Trades] /\ \A r \in TradeRefs : trades[r].state = "none"
  BY <1>1 DEF Init, NoTrade
<1>3. orders \in [OrderIds -> Orders]
  BY DEF Init, Orders
<1>4. updater \in [Parties -> [todo: SUBSET TradeRefs, ordersDone: BOOLEAN]]
  BY DEF Init
<1>5. nameOut \in [Parties -> Nat \ {0}]
  BY DEF Init
<1> QED
  BY <1>2, <1>3, <1>4, <1>5 DEF Init, TypeOK

(* Steps of the trade protocol that leave orders and chain alone.          *)
LEMMA ProtocolType ==
    ASSUME TypeOK, TradingTypeOK', UNCHANGED <<orders, updater, chain, alive>>,
           \/ taking' = None
           \/ taking' = taking
    PROVE  TypeOK'
  BY DEF TypeOK, TradingTypeOK, chain

LEMMA ProcessTradeType ==
    ASSUME TypeOK, NEW r \in TradeRefs, NEW m \in Messages, ProcessTrade(r, m)
    PROVE  TradingTypeOK' /\ UNCHANGED <<orders, updater, chain, alive>>
<1> DEFINE hm == HandleMessage(r[1], trades[r], m)
<1>1. /\ trades[r] \in Trades /\ r[1] \in Parties
      /\ trades[r].state # "none"
      /\ trades[r].order \in OrderIds /\ trades[r].cp \in Parties
  BY DEF TypeOK, TradeRefs, ProcessTrade, FirstMatch, Matching, Active
<1>2. Started(hm)
  BY <1>1, HandleMessageFills DEF Started
<1>3. HasReply(r, hm)
  BY DEF ProcessTrade
<1> HIDE DEF hm
<1>4. TradingTypeOK'
  BY <1>2, <1>3, HasReplyType
<1> QED
  BY <1>4 DEF ProcessTrade

LEMMA TakeOrderType ==
    ASSUME TypeOK, NEW r \in TradeRefs, NEW o \in OrderIds, NEW u \in Nat,
           TakeOrder(r, o, u)
    PROVE  TypeOK'
<1> DEFINE tr == NewTrade(o, u, Maker)
<1>1. Started(tr) /\ tr.units = u
  BY NewTradeType DEF Parties, NewTrade, NoTrade
<1>2. TakeOrderSends(r, tr) /\ UNCHANGED <<orders, updater, taking, chain, alive>>
  BY DEF TakeOrder
<1> HIDE DEF tr
<1>3. TradingTypeOK'
  <2> USE DEF TradingTypeOK
  <2>0. /\ msgs \subseteq Messages /\ nameLocks \subseteq Names
        /\ coinLocks \subseteq Parties \X Coins /\ broadcast \subseteq Txs
        /\ tr.units \in Nat
    BY <1>1 DEF TypeOK
  <2>1. CASE SendSellerData(r, tr, tr.units)
    <3>1. Started([tr EXCEPT !.sd = r, !.name = NameOf(r)])
      BY <1>1, NameOfType DEF Started, Trades
    <3>2. Reply(r, tr, tr.units, r, None)
      BY <2>1 DEF SendSellerData
    <3>3. msgs' \subseteq Messages
      BY <1>1, <2>0, <3>2, ReplyType
    <3>4. nameLocks' \subseteq Names
      BY <2>0, <2>1, NameOfType DEF SendSellerData
    <3> QED
      BY <2>0, <2>1, <3>1, <3>3, <3>4, PutTradeType DEF SendSellerData
  <2>2. CASE /\ trades' = [trades EXCEPT ![r] = tr]
             /\ Reply(r, tr, tr.units, None, None)
             /\ UNCHANGED <<wallets, broadcast>>
    <3>1. msgs' \subseteq Messages
      BY <1>1, <2>0, <2>2, ReplyType
    <3> QED
      BY <1>1, <2>0, <2>2, <3>1, PutTradeType DEF wallets
  <2>3. CASE SellerDataThrows(r, tr) /\ UNCHANGED trades
    <3>1. nameLocks' \subseteq Names
      BY <2>0, <2>3, NameOfType DEF SellerDataThrows
    <3> QED
      BY <2>0, <2>3, <3>1 DEF SellerDataThrows, TypeOK
  <2> QED
    BY <1>2, <2>1, <2>2, <2>3 DEF TakeOrderSends
<1> QED
  BY <1>2, <1>3, ProtocolType

LEMMA XmppType ==
    ASSUME TypeOK, XmppStep
    PROVE  TypeOK'
<1>1. ASSUME NEW m \in msgs, TryLock(m) PROVE TypeOK'
  <2>1. m \in Messages /\ m.order \in OrderIds
    BY DEF TypeOK, Messages
  <2>2. orders' \in [OrderIds -> Orders]
    BY <1>1, <2>1, SetStatusType, RunRefreshType DEF TryLock
  <2>3. taking' \in Takings
    BY <1>1, <2>1 DEF TryLock, Takings, TypeOK, Orders
  <2> QED
    BY <1>1, <2>2, <2>3 DEF TryLock, TypeOK, wallets, chain
<1>2. CASE OrderNotTaken
  <2>1. taking.msg.order \in OrderIds
    BY <1>2 DEF OrderNotTaken, TypeOK, Takings, Messages
  <2>2. orders' \in [OrderIds -> Orders] /\ alive' \subseteq Parties
    BY <1>2, <2>1, UnlockType DEF OrderNotTaken
  <2> QED
    BY <1>2, <2>2 DEF OrderNotTaken, TypeOK, wallets, chain
<1>3. CASE ProcessTakingLate
  BY <1>3 DEF ProcessTakingLate, TypeOK, wallets, chain
<1>4. ASSUME NEW r \in TradeRefs, OrderTaken(r) PROVE TypeOK'
  <2>1. taking \in Takings /\ taking.msg \in Messages
    BY <1>4 DEF OrderTaken, TypeOK, Takings
  <2>2. Started(NewTrade(taking.msg.order, taking.msg.take, taking.msg.from))
    BY <2>1, NewTradeType DEF Messages
  <2>3. taking' \in Takings
    BY <1>4, <2>1 DEF OrderTaken, Takings
  <2>4. /\ trades' \in [TradeRefs -> Trades]
        /\ \A q \in TradeRefs : trades'[q].state # "none" =>
             trades'[q].order \in OrderIds /\ trades'[q].cp \in Parties
    BY <1>4, <2>2, PutTradeType DEF OrderTaken
  <2> QED
    BY <1>4, <2>3, <2>4 DEF OrderTaken, TypeOK, wallets, chain
<1>5. ASSUME NEW r \in TradeRefs, ProcessTaking(r) PROVE TypeOK'
  <2>1. taking.msg \in Messages
    BY <1>5 DEF ProcessTaking, TypeOK, Takings
  <2> QED
    BY <1>5, <2>1, ProcessTradeType, ProtocolType DEF ProcessTaking
<1>6. ASSUME NEW r \in TradeRefs, NEW m \in msgs, ProcessMessage(r, m) PROVE TypeOK'
  <2>1. m \in Messages
    BY DEF TypeOK
  <2> QED
    BY <1>6, <2>1, ProcessTradeType, ProtocolType DEF ProcessMessage
<1> QED
  BY <1>1, <1>2, <1>3, <1>4, <1>5, <1>6 DEF XmppStep

LEMMA UpdaterType ==
    ASSUME TypeOK, UpdaterStep
    PROVE  TypeOK'
<1>0. \A r \in TradeRefs : trades[r] \in Trades /\ r[1] \in Parties
  BY DEF TypeOK, TradeRefs
<1>1. ASSUME NEW p \in Parties, NEW E, UpdateAndArchiveTrades(p, E) PROVE TypeOK'
  <2> DEFINE U(r) == IF r[1] = p THEN Update(trades[r], r \in E) ELSE trades[r].state
             changed == {r \in TradeRefs : U(r) # trades[r].state}
  <2>1. /\ trades' = [r \in TradeRefs |-> [trades[r] EXCEPT !.state = U(r)]]
        /\ updater' = [updater EXCEPT ![p].todo = changed]
        /\ UNCHANGED <<orders, taking, msgs, wallets, chain, broadcast, alive>>
    BY <1>1 DEF UpdateAndArchiveTrades
  <2>2. \A r \in TradeRefs : U(r) \in States /\ (U(r) = "none" <=> trades[r].state = "none")
    <3> TAKE r \in TradeRefs
    <3>1. trades[r].state \in States
      BY <1>0 DEF Trades
    <3>2. CASE r \in E
      BY <3>1, <3>2 DEF Update, States
    <3>3. CASE r \notin E
      BY <3>1, <3>3 DEF Update, States
    <3> QED
      BY <3>2, <3>3
  <2> HIDE DEF U
  <2>3. trades' \in [TradeRefs -> Trades]
    BY <1>0, <2>1, <2>2 DEF Trades
  <2>4. \A r \in TradeRefs : trades'[r].state # "none" =>
          trades'[r].order \in OrderIds /\ trades'[r].cp \in Parties
    BY <1>0, <2>1, <2>2 DEF TypeOK, Trades
  <2>5. updater' \in [Parties -> [todo: SUBSET TradeRefs, ordersDone: BOOLEAN]]
    BY <2>1 DEF TypeOK
  <2> QED
    BY <2>1, <2>3, <2>4, <2>5 DEF TypeOK, wallets, chain
<1>2. ASSUME NEW p \in Parties, UpdateThrows(p) PROVE TypeOK'
  BY <1>2 DEF UpdateThrows, TypeOK, wallets, chain
<1>3. OrdersDone => updater' \in [Parties -> [todo: SUBSET TradeRefs, ordersDone: BOOLEAN]]
  BY ZenonT(40) DEF OrdersDone, TypeOK, Parties
<1>4. ASSUME NEW p \in Parties, NEW r \in TradeRefs, Done(p, r)
      PROVE  updater' \in [Parties -> [todo: SUBSET TradeRefs, ordersDone: BOOLEAN]]
  BY <1>4 DEF Done, TypeOK
<1>5. ASSUME NEW r \in TradeRefs, FailureUnlocksOrder(r) PROVE TypeOK'
  <2>1. trades[r].order \in OrderIds
    BY <1>5 DEF FailureUnlocksOrder, TypeOK
  <2>2. orders' \in [OrderIds -> Orders] /\ alive' \subseteq Parties
    BY <1>5, <2>1, UnlockType DEF FailureUnlocksOrder
  <2> QED
    BY <1>3, <1>5, <2>2 DEF FailureUnlocksOrder, TypeOK, wallets, chain
<1>6. ASSUME NEW r \in TradeRefs, SuccessRemovesOrder(r) PROVE TypeOK'
  <2>1. trades[r].order \in OrderIds
    BY <1>6 DEF SuccessRemovesOrder, TypeOK
  <2>2. orders' \in [OrderIds -> Orders]
    BY <1>6, <2>1, RemoveType DEF SuccessRemovesOrder
  <2> QED
    BY <1>3, <1>6, <2>2 DEF SuccessRemovesOrder, TypeOK, wallets, chain
<1>7. ASSUME NEW r \in TradeRefs, SuccessAddsReduced(r) PROVE TypeOK'
  <2> DEFINE old  == orders[trades[r].order]
             left == old.max - trades[r].units
  <2>1. old \in Orders /\ trades[r].units \in Nat
    BY <1>0, <1>7 DEF SuccessAddsReduced, TypeOK, Trades
  <2>2. old.root \in Nat /\ left \in Int
    BY <2>1 DEF Orders
  <2>3. \/ left > 0 /\ \E o \in OrderIds : Add(o, left, old.root)
        \/ UNCHANGED orders
    BY <1>7 DEF SuccessAddsReduced
  <2> HIDE DEF left, old
  <2>4. orders' \in [OrderIds -> Orders]
    BY <2>2, <2>3, AddType DEF TypeOK
  <2>5. Maker \in Parties
    BY DEF Parties
  <2> QED
    BY <1>4, <1>7, <2>4, <2>5 DEF SuccessAddsReduced, TypeOK, wallets, chain
<1>8. ASSUME NEW p \in Parties, NEW r \in TradeRefs, FailureUnlocksInputs(p, r) PROVE TypeOK'
  <2>1. nameLocks' \subseteq nameLocks /\ coinLocks' \subseteq coinLocks
    BY <1>8 DEF FailureUnlocksInputs
  <2> QED
    BY <1>4, <1>8, <2>1 DEF FailureUnlocksInputs, TypeOK, chain
<1>9. ASSUME NEW p \in Parties, NEW r \in TradeRefs, TakerSuccess(p, r) PROVE TypeOK'
  BY <1>4, <1>9 DEF TakerSuccess, TypeOK, wallets, chain
<1> QED
  BY <1>1, <1>2, <1>5, <1>6, <1>7, <1>8, <1>9 DEF UpdaterStep

LEMMA UserType ==
    ASSUME TypeOK, UserStep \/ RefreshOrders
    PROVE  TypeOK'
<1>1. ASSUME NEW o \in OrderIds, AddOrder(o) PROVE TypeOK'
  <2>1. o \in Nat /\ MaxUnits \in Nat
    BY BoundsAssumption DEF OrderIds
  <2>2. orders' \in [OrderIds -> Orders]
    BY <1>1, <2>1, AddType DEF AddOrder
  <2> QED
    BY <1>1, <2>2 DEF AddOrder, TypeOK, wallets, chain
<1>2. ASSUME NEW o \in OrderIds, CancelOrder(o) PROVE TypeOK'
  BY <1>2, RemoveType DEF CancelOrder, TypeOK, wallets, chain
<1>3. ASSUME NEW r \in TradeRefs, NEW o \in OrderIds, NEW u \in 1 .. MaxUnits,
             TakeOrder(r, o, u)
      PROVE  TypeOK'
  BY <1>3, TakeOrderType, BoundsAssumption
<1>4. CASE RefreshOrders
  BY <1>4, RunRefreshType DEF RefreshOrders, TypeOK, wallets, chain
<1> QED
  BY <1>1, <1>2, <1>3, <1>4 DEF UserStep

LEMMA ChainType ==
    ASSUME TypeOK, ChainStep
    PROVE  TypeOK'
<1>1. ASSUME NEW x \in broadcast, Confirm(x) PROVE TypeOK'
  <2>1. /\ x \in Txs /\ x.coin \in Parties \X Coins
        /\ x.name \in Names /\ x.name[1] \in Parties
    BY DEF TypeOK, Txs, Names
  <2>2. nameOut' \in [Parties -> Nat \ {0}]
    BY <1>1, <2>1 DEF Confirm, TypeOK
  <2> QED
    BY <1>1, <2>1, <2>2 DEF Confirm, TypeOK, wallets
<1>2. ASSUME NEW p \in Parties, OtherNameOp(p) PROVE TypeOK'
  BY <1>2 DEF OtherNameOp, TypeOK, wallets
<1>3. ASSUME NEW p \in Parties, NEW c \in {p} \X Coins, OtherCoinSpend(c) PROVE TypeOK'
  BY <1>3 DEF OtherCoinSpend, TypeOK, wallets
<1> QED
  BY <1>1, <1>2, <1>3 DEF ChainStep

LEMMA ClockType ==
    ASSUME TypeOK, NEW r \in TradeRefs, Clock(r)
    PROVE  TypeOK'
<1>1. trades[r] \in Trades /\ trades' = [trades EXCEPT ![r] = [trades[r] EXCEPT !.late = TRUE]]
  BY DEF Clock, TypeOK
<1>2. Started([trades[r] EXCEPT !.late = TRUE])
  BY <1>1 DEF Started, Trades, Clock, TypeOK
<1> QED
  BY <1>1, <1>2, PutTradeType DEF Clock, TypeOK, wallets, chain

LEMMA NextType == TypeOK /\ [Next]_vars => TypeOK'
<1> SUFFICES ASSUME TypeOK, [Next]_vars PROVE TypeOK'
  OBVIOUS
<1>1. CASE UNCHANGED vars
  BY <1>1 DEF vars, TypeOK
<1> QED
  BY <1>1, UserType, XmppType, UpdaterType, ChainType, ClockType DEF Next

(* Every reachable state of the trade protocol is well-typed: in           *)
(* particular HasReply never reads seller data, a PSBT or a counterparty   *)
(* that is not there.                                                      *)
THEOREM TypeCorrect == Spec => []TypeOK
  BY InitType, NextType, PTL DEF Spec

(***************************************************************************)
(* Growth                                                                  *)
(***************************************************************************)
(* A trade's contents only ever grow. *)
Extends(new, old) ==
    old.state # "none" =>
        /\ new.state # "none"
        /\ new.order = old.order /\ new.units = old.units /\ new.cp = old.cp
        /\ old.sd # None => new.sd = old.sd
        /\ old.our # None => new.our = old.our
        /\ old.state \in Committed => new.state \in Committed

Grows == \A r \in TradeRefs : Extends(trades'[r], trades[r])

(* A final transaction's inputs were unspent before, and stay spent. *)
ChainGrows ==
    /\ \A p \in Parties : nameOut[p] <= nameOut'[p]
    /\ spentCoins \subseteq spentCoins'
    /\ confirmed \subseteq confirmed'
    /\ \A x \in confirmed' : x \in confirmed \/ InputsUnspent(x)

(***************************************************************************)
(* What was true of data that was sent stays true                          *)
(***************************************************************************)
LEMMA SellerDataStays ==
    ASSUME Grows, NEW s \in TradeRefs, NEW p, NEW cp, NEW o,
           SellerDataFrom(s, p, cp, o)
    PROVE  SellerDataFrom(s, p, cp, o)'
  BY DEF Grows, Extends, SellerDataFrom

LEMMA BuiltStays ==
    ASSUME TypeOK, TypeOK', Grows, ChainGrows, NEW x \in Txs, BuiltByBuyer(x)
    PROVE  BuiltByBuyer(x)'
<1>1. x.buyer \in TradeRefs /\ x.seller \in TradeRefs /\ x.name \in Names
  BY DEF Txs
<1>2. x.name[1] \in Parties /\ x.name[2] \in Nat
  BY <1>1 DEF Names
<1>3. nameOut[x.name[1]] \in Nat /\ nameOut'[x.name[1]] \in Nat
  BY <1>2 DEF TypeOK
<1>4. x.name[2] <= nameOut'[x.name[1]]
  BY <1>2, <1>3 DEF BuiltByBuyer, ChainGrows
<1>5. x.seller # None
  BY <1>1, NoneAssumption
<1> QED
  BY <1>1, <1>4, <1>5 DEF BuiltByBuyer, Grows, Extends

LEMMA SignedStays ==
    ASSUME Grows, NEW x \in Txs, NEW s \in Signers, SignedFor(x, s)
    PROVE  SignedFor(x, s)'
<1>1. SignerTrade(x, s) \in TradeRefs /\ x.seller \in TradeRefs
  BY DEF SignerTrade, Txs
<1>2. SignerTrade(x, s)' = SignerTrade(x, s)
  BY DEF SignerTrade
<1>3. s = "seller" => SignerTrade(x, s) = x.seller
  BY DEF SignerTrade
<1>4. "none" \notin Committed
  BY DEF Committed
<1> QED
  BY <1>1, <1>2, <1>3, <1>4 DEF SignedFor, Grows, Extends

LEMMA SharedStays ==
    ASSUME TypeOK, TypeOK', Grows, ChainGrows, NEW ps \in Psbts, SharedPsbtOK(ps)
    PROVE  SharedPsbtOK(ps)'
<1>1. ps.tx \in Txs /\ ps.sigs \subseteq Signers
  BY DEF Psbts
<1>2. BuiltByBuyer(ps.tx)'
  BY <1>1, BuiltStays DEF SharedPsbtOK
<1>3. ASSUME NEW s \in ps.sigs PROVE SignedFor(ps.tx, s)'
  BY <1>1, SignedStays DEF SharedPsbtOK
<1> QED
  BY <1>2, <1>3 DEF SharedPsbtOK

LEMMA MessageStays ==
    ASSUME TypeOK, TypeOK', Grows, ChainGrows, NEW m \in Messages, MessageOK(m)
    PROVE  MessageOK(m)'
<1>1. /\ m.sd # None => m.sd \in TradeRefs
      /\ m.psbt # None => m.psbt \in Psbts
  BY DEF Messages
<1>2. m.sd # None => SellerDataFrom(m.sd, m.to, m.from, m.order)'
  BY <1>1, SellerDataStays DEF MessageOK
<1>3. m.psbt # None => SharedPsbtOK(m.psbt)'
  BY <1>1, SharedStays DEF MessageOK
<1> QED
  BY <1>2, <1>3 DEF MessageOK

(* A double spend stays one. *)
LEMMA FailedStays ==
    ASSUME TypeOK, TypeOK', ChainGrows, NEW x \in Txs,
           x.name[2] <= nameOut[x.name[1]],
           x \notin confirmed, ~InputsUnspent(x)
    PROVE  x \notin confirmed' /\ ~InputsUnspent(x)'
<1>1. x.name[1] \in Parties /\ x.name[2] \in Nat
  BY DEF Txs, Names
<1>2. nameOut[x.name[1]] \in Nat /\ nameOut'[x.name[1]] \in Nat
  BY <1>1 DEF TypeOK
<1> QED
  BY <1>1, <1>2 DEF ChainGrows, InputsUnspent

(* The contents of a trade that a step does not touch are still right. *)
LEMMA TradeStays ==
    ASSUME TypeOK, TypeOK', Grows, ChainGrows,
           NEW r \in TradeRefs, NEW tr \in Trades, TradeOK(r, tr)
    PROVE  TradeOK(r, tr)'
<1>1. /\ tr.sd # None => tr.sd \in TradeRefs
      /\ tr.their # None => tr.their \in Psbts
      /\ tr.our # None => tr.our \in Psbts /\ tr.our.tx \in Txs
  BY DEF Trades, Psbts
<1>2. tr.sd # None /\ ~Sells(r[1]) => SellerDataFrom(tr.sd, r[1], tr.cp, tr.order)'
  BY <1>1, SellerDataStays DEF TradeOK
<1>3. tr.their # None => SharedPsbtOK(tr.their)'
  BY <1>1, SharedStays DEF TradeOK
<1>4. tr.our # None => BuiltByBuyer(tr.our.tx)'
  BY <1>1, BuiltStays DEF TradeOK
<1>5. tr.our # None /\ Sells(r[1]) /\ r[1] = Maker => SignedFor(tr.our.tx, "buyer")'
  BY <1>1, SignedStays DEF TradeOK, Signers
<1>6. tr.state = "SUCCESS" => tr.our.tx \in confirmed'
  BY DEF TradeOK, ChainGrows
<1>7. tr.state = "FAILED" => tr.our.tx \notin confirmed' /\ ~InputsUnspent(tr.our.tx)'
  BY <1>1, FailedStays DEF TradeOK, Committed, BuiltByBuyer
<1> QED
  BY <1>1, <1>2, <1>3, <1>4, <1>5, <1>6, <1>7 DEF TradeOK, Sells

LEMMA SameChainGrows ==
    ASSUME TypeOK, UNCHANGED chain
    PROVE  ChainGrows
  BY DEF ChainGrows, chain, TypeOK

(* A step that replaces the contents of one trade, sends messages about it *)
(* and possibly broadcasts a transaction.                                  *)
LEMMA PutInv ==
    ASSUME TypeOK, TypeOK', TradeInv,
           NEW r \in TradeRefs, NEW nt \in Trades,
           trades' = [trades EXCEPT ![r] = nt],
           Extends(nt, trades[r]), TradeOK(r, nt)',
           UNCHANGED chain,
           \A m \in msgs' : m \in msgs \/ MessageOK(m)',
           taking' # None => taking # None /\ taking'.msg = taking.msg,
           broadcast \subseteq broadcast',
           \A x \in broadcast' : \/ x \in broadcast
                                 \/ \A s \in Signers : BuiltByBuyer(x)' /\ SignedFor(x, s)'
    PROVE  TradeInv'
<1>1. \A q \in TradeRefs : trades'[q] = IF q = r THEN nt ELSE trades[q]
  BY DEF TypeOK
<1>2. Grows
  BY <1>1 DEF Grows, Extends
<1>3. ChainGrows
  BY SameChainGrows
<1>4. ASSUME NEW q \in TradeRefs PROVE TradeOK(q, trades[q])'
  <2>1. CASE q = r
    <3>1. trades'[q] = nt
      BY <1>1, <2>1
    <3>2. TradeOK(q, nt)'
      BY <2>1
    <3> QED
      BY <3>1, <3>2
  <2>2. CASE q # r
    <3>1. trades'[q] = trades[q] /\ trades[q] \in Trades /\ TradeOK(q, trades[q])
      BY <1>1, <2>2 DEF TypeOK, TradeInv
    <3>2. PICK tr \in Trades : tr = trades[q]
      BY <3>1
    <3>3. TradeOK(q, tr)'
      BY <1>2, <1>3, <3>1, <3>2, TradeStays
    <3>4. trades'[q] = tr
      BY <3>1, <3>2
    <3> QED
      BY <3>3, <3>4 DEF TradeOK
  <2> QED
    BY <2>1, <2>2
<1>5. ASSUME NEW m \in msgs' PROVE MessageOK(m)'
  <2>1. m \in Messages
    BY DEF TypeOK
  <2> QED
    BY <1>2, <1>3, <2>1, MessageStays DEF TradeInv
<1>6. taking' # None => MessageOK(taking.msg)'
  <2> SUFFICES ASSUME taking' # None PROVE MessageOK(taking.msg)'
    OBVIOUS
  <2>1. PICK m \in Messages : m = taking.msg /\ taking'.msg = m
    BY DEF TypeOK, Takings
  <2>2. MessageOK(m)'
    BY <1>2, <1>3, <2>1, MessageStays DEF TradeInv
  <2>3. taking'.msg = m
    BY <2>1
  <2> QED
    BY <2>2, <2>3 DEF MessageOK, SellerDataFrom, SharedPsbtOK, BuiltByBuyer, SignedFor,
                      SignerTrade
<1>7. ASSUME NEW x \in broadcast', NEW s \in Signers
      PROVE  BuiltByBuyer(x)' /\ SignedFor(x, s)'
  <2>1. x \in Txs
    BY DEF TypeOK
  <2> QED
    BY <1>2, <1>3, <2>1, BuiltStays, SignedStays DEF TradeInv
<1>8. confirmed' \subseteq broadcast'
  BY DEF TradeInv, chain
<1> QED
  BY <1>4, <1>5, <1>6, <1>7, <1>8 DEF TradeInv

(* A message fills in a trade with what its sender vouches for. *)
LEMMA HandleMessageOK ==
    ASSUME NEW r \in TradeRefs, NEW old \in Trades, NEW m \in Messages,
           TradeOK(r, old), MessageOK(m), old.state # "none",
           m.to = r[1], old.cp = m.from, old.order = m.order
    PROVE  /\ TradeOK(r, HandleMessage(r[1], old, m))
           /\ Extends(HandleMessage(r[1], old, m), old)
<1>1. PICK hm : hm = HandleMessage(r[1], old, m)
  OBVIOUS
<1>2. /\ hm \in Trades
      /\ hm.state = old.state /\ hm.order = old.order /\ hm.units = old.units
      /\ hm.cp = old.cp /\ hm.our = old.our /\ hm.name = old.name
      /\ hm.sd = old.sd \/ (old.sd = None /\ hm.sd = m.sd /\ ~Sells(r[1]))
      /\ hm.their = old.their \/ hm.their = m.psbt
  BY <1>1, HandleMessageFills DEF TradeRefs
<1>3. Extends(hm, old)
  BY <1>2 DEF Extends
<1>4. hm.sd # None /\ ~Sells(r[1]) => SellerDataFrom(hm.sd, r[1], hm.cp, hm.order)
  BY <1>2 DEF TradeOK, MessageOK
<1>5. hm.sd # None /\ Sells(r[1]) => hm.sd = r
  BY <1>2 DEF TradeOK
<1>6. hm.their # None => SharedPsbtOK(hm.their)
  BY <1>2 DEF TradeOK, MessageOK
<1>7. TradeOK(r, hm)
  BY <1>2, <1>4, <1>5, <1>6 DEF TradeOK
<1> QED
  BY <1>1, <1>3, <1>7

LEMMA PutGrows ==
    ASSUME TypeOK, NEW r \in TradeRefs, NEW nt,
           trades' = [trades EXCEPT ![r] = nt], Extends(nt, trades[r])
    PROVE  Grows /\ trades'[r] = nt
<1>1. \A q \in TradeRefs : trades'[q] = IF q = r THEN nt ELSE trades[q]
  BY DEF TypeOK
<1> QED
  BY <1>1 DEF Grows, Extends

(* The maker's trade after it has signed as the seller. *)
LEMMA SellerSignedOK ==
    ASSUME NEW r \in TradeRefs, NEW tr, Started(tr), TradeOK(r, tr),
           SignsAsSeller(r, tr)
    PROVE  /\ TradeOK(r, SellerSigned(tr))
           /\ Extends(SellerSigned(tr), tr)
           /\ BuiltByBuyer(tr.their.tx) /\ tr.their.tx.seller = r
           /\ tr.their.tx.units = tr.units
           /\ \A s \in tr.their.sigs : SignedFor(tr.their.tx, s)
<1>1. /\ tr.their # None /\ tr.their \in Psbts /\ tr.our = None
      /\ tr.state = "INITIATED" /\ Sells(r[1])
      /\ tr.their.tx.seller = r /\ tr.their.tx.units = tr.units
      /\ r[1] = Maker => "buyer" \in tr.their.sigs
  BY DEF SignsAsSeller, CheckForSellerOutputs, Started, Trades
<1>2. SharedPsbtOK(tr.their)
  BY <1>1 DEF TradeOK
<1>3. PICK st : st = SellerSigned(tr)
  OBVIOUS
<1>4. PICK ps : ps = [tx |-> tr.their.tx, sigs |-> tr.their.sigs \cup {"seller"}]
  OBVIOUS
<1>5. /\ st.our = ps /\ st.state = tr.state /\ st.order = tr.order
      /\ st.units = tr.units /\ st.cp = tr.cp /\ st.sd = tr.sd /\ st.their = tr.their
  BY <1>3, <1>4 DEF SellerSigned, Started, Trades
<1>6. ps.tx = tr.their.tx /\ ps \in Psbts
  BY <1>1, <1>4 DEF Psbts, Signers
<1>7. TradeOK(r, st)
  BY <1>1, <1>2, <1>5, <1>6 DEF TradeOK, SharedPsbtOK, Committed
<1>8. Extends(st, tr)
  BY <1>1, <1>5 DEF Extends
<1> QED
  BY <1>1, <1>2, <1>3, <1>7, <1>8 DEF SharedPsbtOK

LEMMA BeforeFinalOK ==
    ASSUME NEW r \in TradeRefs, NEW tr, Started(tr), TradeOK(r, tr)
    PROVE  /\ TradeOK(r, BeforeFinal(r, tr)) /\ Started(BeforeFinal(r, tr))
           /\ Extends(BeforeFinal(r, tr), tr)
<1>1. CASE SignsAsSeller(r, tr)
  BY <1>1, SellerSignedOK, SellerSignedType DEF BeforeFinal
<1>2. CASE ~SignsAsSeller(r, tr)
  BY <1>2 DEF BeforeFinal, Extends
<1> QED
  BY <1>1, <1>2

(* Switching a trade with our_psbt from INITIATED to PENDING. *)
LEMMA PendingOK ==
    ASSUME NEW r \in TradeRefs, NEW tr, Started(tr), TradeOK(r, tr), tr.our # None
    PROVE  /\ TradeOK(r, [tr EXCEPT !.state = "PENDING"])
           /\ Extends([tr EXCEPT !.state = "PENDING"], tr)
<1>1. PICK nt : nt = [tr EXCEPT !.state = "PENDING"]
  OBVIOUS
<1>2. /\ nt.state = "PENDING" /\ nt.order = tr.order /\ nt.units = tr.units
      /\ nt.cp = tr.cp /\ nt.sd = tr.sd /\ nt.their = tr.their /\ nt.our = tr.our
  BY <1>1 DEF Started, Trades
<1>3. TradeOK(r, nt)
  BY <1>2 DEF TradeOK
<1>4. Extends(nt, tr)
  BY <1>2 DEF Extends, Committed
<1> QED
  BY <1>1, <1>3, <1>4

LEMMA ExtendsTrans ==
    ASSUME NEW a, NEW b, NEW c, Extends(b, a), Extends(c, b)
    PROVE  Extends(c, a)
  BY DEF Extends

(* The messages of a step are the old ones and one reply. *)
LEMMA ReplyAdds ==
    ASSUME NEW r, NEW tr, NEW take, NEW sd, NEW psbt, Reply(r, tr, take, sd, psbt)
    PROVE  \A m \in msgs' : \/ m \in msgs
                            \/ /\ m.from = r[1] /\ m.to = tr.cp /\ m.order = tr.order
                               /\ m.sd = sd /\ m.psbt = psbt
  BY DEF Reply

(* Sending seller data, from HasReply or from TakeOrder. *)
LEMMA SendSellerDataInv ==
    ASSUME TypeOK, TypeOK', TradeInv, NEW r \in TradeRefs, NEW tr, Started(tr),
           TradeOK(r, tr), Extends(tr, trades[r]), NEW take,
           SendSellerData(r, tr, take), UNCHANGED chain,
           taking' # None => taking # None /\ taking'.msg = taking.msg
    PROVE  TradeInv'
<1>1. PICK nt : nt = [tr EXCEPT !.sd = r, !.name = NameOf(r)]
  OBVIOUS
<1>2. /\ nt.state = tr.state /\ nt.order = tr.order /\ nt.units = tr.units
      /\ nt.cp = tr.cp /\ nt.sd = r /\ nt.their = tr.their /\ nt.our = tr.our
  BY <1>1 DEF Started, Trades
<1>3. nt \in Trades
  BY <1>1, NameOfType DEF Started, Trades
<1>4. /\ trades' = [trades EXCEPT ![r] = nt] /\ tr.sd = None /\ Sells(r[1])
      /\ Reply(r, tr, take, r, None) /\ UNCHANGED broadcast
  BY <1>1 DEF SendSellerData, WantsSellerData
<1>5. Extends(nt, trades[r])
  BY <1>2, <1>4 DEF Extends
<1>6. TradeOK(r, nt)
  BY <1>2, <1>4 DEF TradeOK, Started
<1>7. Grows /\ ChainGrows /\ trades'[r] = nt
  BY <1>4, <1>5, PutGrows, SameChainGrows
<1>8. TradeOK(r, nt)'
  BY <1>3, <1>6, <1>7, TradeStays
<1>9. \A m \in msgs' : m \in msgs \/ MessageOK(m)'
  BY <1>2, <1>4, <1>7, ReplyAdds DEF MessageOK, SellerDataFrom, Started
<1> QED
  BY <1>3, <1>4, <1>5, <1>8, <1>9, PutInv

(* A trade that only takes over new contents, without any message. *)
LEMMA QuietInv ==
    ASSUME TypeOK, TypeOK', TradeInv, NEW r \in TradeRefs, NEW nt, Started(nt),
           TradeOK(r, nt), Extends(nt, trades[r]),
           trades' = [trades EXCEPT ![r] = nt],
           UNCHANGED <<msgs, broadcast, chain>>,
           taking' # None => taking # None /\ taking'.msg = taking.msg
    PROVE  TradeInv'
<1>1. nt \in Trades
  BY DEF Started
<1>2. Grows /\ ChainGrows
  BY PutGrows, SameChainGrows
<1>3. TradeOK(r, nt)'
  BY <1>1, <1>2, TradeStays
<1> QED
  BY <1>1, <1>3, PutInv

(* A taker that commits and shares a PSBT made out of its trade. *)
LEMMA CommitInv ==
    ASSUME TypeOK, TypeOK', TradeInv, NEW r \in TradeRefs, NEW st, Started(st),
           st.our # None, Extends(st, trades[r]),
           Commit(r, st), UNCHANGED <<broadcast, chain>>,
           taking' # None => taking # None /\ taking'.msg = taking.msg,
           NEW nt, nt = [st EXCEPT !.state = "PENDING"],
           Grows /\ ChainGrows => TradeOK(r, nt)' /\ SharedPsbtOK(st.our)'
    PROVE  TradeInv'
<1>1. nt \in Trades
  BY PendingType DEF Started
<1>2. /\ nt.state = "PENDING" /\ nt.order = st.order /\ nt.units = st.units
      /\ nt.cp = st.cp /\ nt.sd = st.sd /\ nt.our = st.our
  BY DEF Started, Trades
<1>3. Extends(nt, trades[r])
  BY <1>2 DEF Extends, Committed
<1>4. trades' = [trades EXCEPT ![r] = nt] /\ Reply(r, st, 0, None, st.our)
  BY DEF Commit
<1>5. Grows /\ ChainGrows
  BY <1>3, <1>4, PutGrows, SameChainGrows
<1>6. TradeOK(r, nt)' /\ SharedPsbtOK(st.our)'
  BY <1>5
<1>7. \A m \in msgs' : m \in msgs \/ (m.sd = None /\ m.psbt = st.our)
  BY <1>4, ReplyAdds
<1>8. ASSUME NEW m \in msgs', m \notin msgs PROVE MessageOK(m)'
  <2>1. m.sd = None /\ m.psbt = st.our
    BY <1>7, <1>8
  <2> QED
    BY <1>6, <2>1 DEF MessageOK
<1> QED
  BY <1>1, <1>3, <1>4, <1>6, <1>8, PutInv

LEMMA TakerSellerInv ==
    ASSUME TypeOK, TypeOK', TradeInv, NEW r \in TradeRefs, NEW tr, Started(tr),
           TradeOK(r, tr), Extends(tr, trades[r]),
           TakerSellerSigns(r, tr), UNCHANGED chain,
           taking' # None => taking # None /\ taking'.msg = taking.msg
    PROVE  TradeInv'
<1>1. SignsAsSeller(r, tr) /\ UNCHANGED broadcast
  BY DEF TakerSellerSigns
<1>2. PICK st : st = SellerSigned(tr)
  OBVIOUS
<1>3. PICK nt : nt = [st EXCEPT !.state = "PENDING"]
  OBVIOUS
<1>4. /\ Started(st) /\ st.our \in Psbts /\ st.our # None
      /\ TradeOK(r, st) /\ Extends(st, trades[r]) /\ Commit(r, st)
  BY <1>1, <1>2, SellerSignedType, SellerSignedOK, ExtendsTrans, NoneAssumption
     DEF TakerSellerSigns
<1>5. /\ tr.their \in Psbts /\ tr.their.tx \in Txs
      /\ BuiltByBuyer(tr.their.tx) /\ tr.their.tx.seller = r
      /\ tr.their.tx.units = tr.units
      /\ \A s \in tr.their.sigs : SignedFor(tr.their.tx, s)
  BY <1>1, SellerSignedOK, SellerSignedType DEF Psbts
<1>6. /\ st.our.tx = tr.their.tx /\ st.our.sigs = tr.their.sigs \cup {"seller"}
      /\ st.units = tr.units
  BY <1>2 DEF SellerSigned, Started, Trades
<1>7. TradeOK(r, nt) /\ nt \in Trades /\ nt.state = "PENDING" /\ nt.units = tr.units
  BY <1>3, <1>4, <1>6, PendingOK, PendingType DEF Started, Trades
<1>8. ASSUME Grows, ChainGrows, trades'[r] = nt
      PROVE  TradeOK(r, nt)' /\ SharedPsbtOK(st.our)'
  <2>1. TradeOK(r, nt)'
    BY <1>7, <1>8, TradeStays
  <2>2. PICK x \in Txs : x = tr.their.tx
    BY <1>5
  <2>3. BuiltByBuyer(x)'
    BY <1>5, <1>8, <2>2, BuiltStays
  <2>4. \A s \in tr.their.sigs : SignedFor(x, s)'
    BY <1>5, <1>8, <2>2, SignedStays DEF Psbts
  <2>5. SignedFor(x, "seller")'
    <3>1. nt.our = st.our
      BY <1>3, <1>4 DEF Started, Trades
    <3> QED
      BY <1>4, <1>5, <1>6, <1>7, <1>8, <2>2, <3>1 DEF SignedFor, SignerTrade, Committed
  <2>6. st.our.tx = x /\ st.our.sigs = tr.their.sigs \cup {"seller"}
    BY <1>6, <2>2
  <2>7. SharedPsbtOK(st.our)'
    BY <2>3, <2>4, <2>5, <2>6 DEF SharedPsbtOK
  <2> QED
    BY <2>1, <2>7
<1>9. trades'[r] = nt
  BY <1>3, <1>4 DEF Commit, TypeOK
<1> QED
  BY <1>1, <1>3, <1>4, <1>8, <1>9, CommitInv

(* What the buyer's trade is like once it has built its transaction c. *)
LEMMA BuyerSignedFields ==
    ASSUME TypeOK, NEW r \in TradeRefs, NEW tr, Started(tr), TradeOK(r, tr),
           Extends(tr, trades[r]), NEW c \in Spendable(r[1]), Fund(r, tr, c),
           NEW x, x = ConstructTransaction(r, tr, c),
           NEW st, st = BuyerSigned(tr, x)
    PROVE  /\ x \in Txs /\ x.buyer = r /\ x.seller = tr.sd /\ x.units = tr.units
           /\ x.name \in Names /\ x.name[2] = nameOut[x.name[1]]
           /\ Started(st) /\ st.our = [tx |-> x, sigs |-> {"buyer"}]
           /\ st.our \in Psbts /\ st.our # None
           /\ st.state = "INITIATED" /\ st.order = tr.order /\ st.units = tr.units
           /\ st.cp = tr.cp /\ st.sd = tr.sd /\ st.their = tr.their
           /\ tr.our = None /\ tr.sd # None /\ ~Sells(r[1])
           /\ Extends(st, trades[r])
<1>1. /\ tr.state = "INITIATED" /\ ~Sells(r[1]) /\ tr.sd # None /\ tr.our = None
  BY DEF Fund, WantsPsbt
<1>2. x \in Txs /\ Started(st) /\ st.our \in Psbts
  BY <1>1, ConstructType
<1>3. /\ x.buyer = r /\ x.seller = tr.sd /\ x.units = tr.units
      /\ x.name = <<tr.cp, nameOut[tr.cp]>>
  BY DEF ConstructTransaction
<1>4. x.name \in Names
  BY <1>2 DEF Txs
<1>5. /\ st.our = [tx |-> x, sigs |-> {"buyer"}]
      /\ st.state = tr.state /\ st.order = tr.order /\ st.units = tr.units
      /\ st.cp = tr.cp /\ st.sd = tr.sd /\ st.their = tr.their
  BY DEF BuyerSigned, Started, Trades
<1>6. Extends(st, tr)
  BY <1>1, <1>5 DEF Extends, Committed
<1>7. Extends(st, trades[r])
  BY <1>6, ExtendsTrans
<1> QED
  BY <1>1, <1>2, <1>3, <1>4, <1>5, <1>7, NoneAssumption

(* The transaction is the buyer's, once its trade has it as our_psbt. *)
LEMMA BuyerBuilt ==
    ASSUME TypeOK, TypeOK', UNCHANGED chain, Grows, NEW r \in TradeRefs,
           NEW tr, Started(tr), TradeOK(r, tr), NEW nt \in Trades, NEW x \in Txs,
           trades'[r] = nt, ~Sells(r[1]),
           x.buyer = r, x.seller = tr.sd, x.units = tr.units,
           x.name[2] = nameOut[x.name[1]], tr.sd # None, tr.our = None,
           nt.our = [tx |-> x, sigs |-> {"buyer"}], nt.our # None,
           nt.state \in {"INITIATED", "PENDING"}, nt.order = tr.order,
           nt.units = tr.units, nt.cp = tr.cp, nt.sd = tr.sd, nt.their = tr.their
    PROVE  /\ BuiltByBuyer(x)' /\ TradeOK(r, nt)'
           /\ nt.state = "PENDING" => SignedFor(x, "buyer")'
<1>1. ChainGrows
  BY SameChainGrows
<1>2. x.name[1] \in Parties /\ nameOut[x.name[1]] \in Nat /\ nameOut' = nameOut
  BY DEF Txs, Names, TypeOK, chain
<1>3. BuiltByBuyer(x)'
  BY <1>2 DEF BuiltByBuyer, Sells
<1>4. SellerDataFrom(tr.sd, r[1], tr.cp, tr.order)'
  BY SellerDataStays DEF TradeOK, Started, Trades
<1>5. tr.their # None => SharedPsbtOK(tr.their)'
  BY <1>1, SharedStays DEF TradeOK, Started, Trades
<1>6. nt.our.tx = x /\ "seller" \notin nt.our.sigs
  OBVIOUS
<1>7. TradeOK(r, nt)'
  BY <1>3, <1>4, <1>5, <1>6 DEF TradeOK, Sells
<1>8. nt.state = "PENDING" => SignedFor(x, "buyer")'
  BY DEF SignedFor, SignerTrade, Committed
<1> QED
  BY <1>3, <1>7, <1>8

LEMMA MakerBuyerInv ==
    ASSUME TypeOK, TypeOK', TradeInv, NEW r \in TradeRefs, NEW tr, Started(tr),
           TradeOK(r, tr), Extends(tr, trades[r]),
           MakerBuyerConstructs(r, tr), UNCHANGED chain,
           taking' # None => taking # None /\ taking'.msg = taking.msg
    PROVE  TradeInv'
<1>1. PICK c, x, nt :
        /\ c \in Spendable(r[1])
        /\ Fund(r, tr, c)
        /\ x = ConstructTransaction(r, tr, c) /\ nt = BuyerSigned(tr, x)
        /\ trades' = [trades EXCEPT ![r] = nt]
        /\ Reply(r, tr, 0, None, [tx |-> x, sigs |-> {}])
  BY DEF MakerBuyerConstructs
<1>2. /\ x \in Txs /\ x.buyer = r /\ x.seller = tr.sd /\ x.units = tr.units
      /\ x.name[2] = nameOut[x.name[1]]
      /\ Started(nt) /\ nt.our = [tx |-> x, sigs |-> {"buyer"}] /\ nt.our # None
      /\ nt.state = "INITIATED" /\ nt.order = tr.order /\ nt.units = tr.units
      /\ nt.cp = tr.cp /\ nt.sd = tr.sd /\ nt.their = tr.their
      /\ tr.our = None /\ tr.sd # None /\ ~Sells(r[1])
      /\ Extends(nt, trades[r])
  BY <1>1, BuyerSignedFields
<1>3. nt \in Trades
  BY <1>2 DEF Started
<1>4. Grows /\ trades'[r] = nt
  BY <1>1, <1>2, PutGrows
<1>5. BuiltByBuyer(x)' /\ TradeOK(r, nt)'
  BY <1>2, <1>3, <1>4, BuyerBuilt
<1>6. ASSUME NEW m \in msgs', m \notin msgs PROVE MessageOK(m)'
  <2>1. m.sd = None /\ m.psbt = [tx |-> x, sigs |-> {}]
    BY <1>1, <1>6, ReplyAdds
  <2>2. m.psbt.tx = x /\ m.psbt.sigs = {}
    BY <2>1
  <2> QED
    BY <1>5, <2>1, <2>2 DEF MessageOK, SharedPsbtOK
<1>7. UNCHANGED broadcast
  BY DEF MakerBuyerConstructs
<1> QED
  BY <1>1, <1>2, <1>3, <1>5, <1>6, <1>7, PutInv

LEMMA TakerBuyerInv ==
    ASSUME TypeOK, TypeOK', TradeInv, NEW r \in TradeRefs, NEW tr, Started(tr),
           TradeOK(r, tr), Extends(tr, trades[r]),
           TakerBuyerConstructs(r, tr), UNCHANGED chain,
           taking' # None => taking # None /\ taking'.msg = taking.msg
    PROVE  TradeInv'
<1>1. PICK c, x, st, nt :
        /\ c \in Spendable(r[1])
        /\ Fund(r, tr, c)
        /\ x = ConstructTransaction(r, tr, c) /\ st = BuyerSigned(tr, x)
        /\ nt = [st EXCEPT !.state = "PENDING"]
        /\ Commit(r, st)
  BY DEF TakerBuyerConstructs
<1>2. /\ x \in Txs /\ x.buyer = r /\ x.seller = tr.sd /\ x.units = tr.units
      /\ x.name[2] = nameOut[x.name[1]]
      /\ Started(st) /\ st.our = [tx |-> x, sigs |-> {"buyer"}] /\ st.our # None
      /\ st.state = "INITIATED" /\ st.order = tr.order /\ st.units = tr.units
      /\ st.cp = tr.cp /\ st.sd = tr.sd /\ st.their = tr.their
      /\ tr.our = None /\ tr.sd # None /\ ~Sells(r[1])
      /\ Extends(st, trades[r])
  BY <1>1, BuyerSignedFields
<1>3. /\ nt \in Trades /\ nt.state = "PENDING" /\ nt.order = tr.order
      /\ nt.units = tr.units /\ nt.cp = tr.cp /\ nt.sd = tr.sd
      /\ nt.their = tr.their /\ nt.our = st.our
  BY <1>1, <1>2, PendingType DEF Started, Trades
<1>4. trades'[r] = nt
  BY <1>1 DEF Commit, TypeOK
<1>5. ASSUME Grows, ChainGrows PROVE TradeOK(r, nt)' /\ SharedPsbtOK(st.our)'
  <2>1. BuiltByBuyer(x)' /\ TradeOK(r, nt)' /\ SignedFor(x, "buyer")'
    BY <1>2, <1>3, <1>4, <1>5, BuyerBuilt
  <2>2. st.our.tx = x /\ st.our.sigs = {"buyer"}
    BY <1>2
  <2>3. SharedPsbtOK(st.our)'
    BY <2>1, <2>2 DEF SharedPsbtOK
  <2> QED
    BY <2>1, <2>3
<1>6. UNCHANGED broadcast
  BY DEF TakerBuyerConstructs
<1> QED
  BY <1>1, <1>2, <1>5, <1>6, CommitInv

LEMMA MakerFinalisesInv ==
    ASSUME TypeOK, TypeOK', TradeInv, NEW r \in TradeRefs, NEW tr, Started(tr),
           TradeOK(r, tr), Extends(tr, trades[r]),
           MakerFinalises(r, tr), UNCHANGED chain,
           taking' # None => taking # None /\ taking'.msg = taking.msg
    PROVE  TradeInv'
<1>1. PICK ft, nt, x :
        /\ ft = BeforeFinal(r, tr) /\ nt = [ft EXCEPT !.state = "PENDING"]
        /\ x = ft.our.tx
        /\ Finalisable(r, ft) /\ broadcast' = broadcast \cup {x}
        /\ trades' = [trades EXCEPT ![r] = nt] /\ UNCHANGED msgs
  BY DEF MakerFinalises
<1>2. Started(ft) /\ TradeOK(r, ft) /\ Extends(ft, trades[r])
  BY <1>1, BeforeFinalOK, ExtendsTrans
<1>3. ft.our # None /\ ft.our \in Psbts /\ x \in Txs /\ r[1] = Maker
  BY <1>1, <1>2 DEF Finalisable, Started, Trades, Psbts
<1>4. TradeOK(r, nt) /\ Extends(nt, trades[r]) /\ nt \in Trades
  BY <1>1, <1>2, <1>3, PendingOK, PendingType, ExtendsTrans DEF Started
<1>5. nt.state = "PENDING" /\ nt.units = ft.units /\ nt.our = ft.our
  BY <1>1, <1>2 DEF Started, Trades
<1>6. Grows /\ ChainGrows /\ trades'[r] = nt
  BY <1>1, <1>4, PutGrows, SameChainGrows
<1>7. TradeOK(r, nt)'
  BY <1>4, <1>6, TradeStays
<1>8. BuiltByBuyer(x)'
  BY <1>1, <1>2, <1>3, <1>6, BuiltStays DEF TradeOK
<1>9. SignedFor(x, "buyer")' /\ SignedFor(x, "seller")'
  <2>1. CASE Sells(Maker)
    <3>1. SignedFor(x, "buyer")'
      BY <1>1, <1>2, <1>3, <1>6, <2>1, SignedStays DEF TradeOK, Signers
    <3>2. x.seller = r /\ x.units = ft.units
      BY <1>1, <1>2, <1>3, <2>1 DEF TradeOK
    <3>3. SignedFor(x, "seller")'
      BY <1>1, <1>3, <1>5, <1>6, <3>2 DEF SignedFor, SignerTrade, Committed
    <3> QED
      BY <3>1, <3>3
  <2>2. CASE ~Sells(Maker)
    <3>1. x.buyer = r /\ "seller" \notin ft.our.sigs
      BY <1>1, <1>2, <1>3, <2>2 DEF TradeOK
    <3>2. SignedFor(x, "buyer")'
      BY <1>5, <1>6, <3>1 DEF SignedFor, SignerTrade, Committed
    <3>3. ft.their # None /\ ft.their.tx = x /\ "seller" \in ft.their.sigs
      BY <1>1, <2>2, <3>1 DEF Finalisable, Signers
    <3>4. SignedFor(x, "seller")
      BY <1>2, <3>3 DEF TradeOK, SharedPsbtOK
    <3>5. SignedFor(x, "seller")'
      BY <1>3, <1>6, <3>4, SignedStays DEF Signers
    <3> QED
      BY <3>2, <3>5
  <2> QED
    BY <2>1, <2>2
<1>10. \A y \in broadcast' : \/ y \in broadcast
                             \/ \A s \in Signers : BuiltByBuyer(y)' /\ SignedFor(y, s)'
  BY <1>1, <1>8, <1>9 DEF Signers
<1> QED
  BY <1>1, <1>4, <1>7, <1>10, PutInv

LEMMA HasReplyInv ==
    ASSUME TypeOK, TypeOK', TradeInv, "lostReply" \notin Faults,
           NEW r \in TradeRefs, NEW tr, Started(tr),
           TradeOK(r, tr), Extends(tr, trades[r]),
           HasReply(r, tr), UNCHANGED chain,
           taking' # None => taking # None /\ taking'.msg = taking.msg
    PROVE  TradeInv'
<1>1. CASE SendSellerData(r, tr, 0)
  BY <1>1, SendSellerDataInv
<1>2. CASE SellerDataThrows(r, tr) /\ trades' = [trades EXCEPT ![r] = tr]
  BY <1>2, QuietInv DEF SellerDataThrows
<1>3. CASE TakerSellerSigns(r, tr)
  BY <1>3, TakerSellerInv
<1>4. CASE MakerBuyerConstructs(r, tr)
  BY <1>4, MakerBuyerInv
<1>5. CASE TakerBuyerConstructs(r, tr)
  BY <1>5, TakerBuyerInv
<1>6. CASE ConstructThrows(r, tr)
  BY <1>6, QuietInv DEF ConstructThrows
<1>7. CASE MakerFinalises(r, tr)
  BY <1>7, MakerFinalisesInv
<1>8. CASE FinaliseThrows(r, tr)
  <2>1. PICK ft : /\ ft = BeforeFinal(r, tr)
                  /\ trades' = [trades EXCEPT ![r] = ft]
                  /\ UNCHANGED <<msgs, broadcast>>
    BY <1>8 DEF FinaliseThrows
  <2>2. Started(ft) /\ TradeOK(r, ft) /\ Extends(ft, trades[r])
    BY <2>1, BeforeFinalOK, ExtendsTrans
  <2> QED
    BY <2>1, <2>2, QuietInv
<1>9. CASE NoReply(r, tr)
  BY <1>9, QuietInv DEF NoReply
<1>10. ~FinaliseLosesReply(r, tr)
  BY DEF FinaliseLosesReply
<1> QED
  BY <1>1, <1>2, <1>3, <1>4, <1>5, <1>6, <1>7, <1>8, <1>9, <1>10 DEF HasReply

LEMMA ProcessTradeInv ==
    ASSUME TypeOK, TypeOK', TradeInv, "lostReply" \notin Faults,
           NEW r \in TradeRefs, NEW m \in Messages, MessageOK(m),
           ProcessTrade(r, m),
           taking' # None => taking # None /\ taking'.msg = taking.msg
    PROVE  TradeInv'
<1>1. PICK old \in Trades : old = trades[r]
  BY DEF TypeOK
<1>2. PICK hm : hm = HandleMessage(r[1], old, m)
  OBVIOUS
<1>3. /\ old.state # "none" /\ m.to = r[1] /\ old.cp = m.from /\ old.order = m.order
      /\ old.order \in OrderIds /\ old.cp \in Parties /\ TradeOK(r, old)
      /\ HasReply(r, hm) /\ UNCHANGED chain
  BY <1>1, <1>2 DEF ProcessTrade, FirstMatch, Matching, Active, TypeOK, TradeInv
<1>4. TradeOK(r, hm) /\ Extends(hm, trades[r])
  BY <1>1, <1>2, <1>3, HandleMessageOK
<1>5. Started(hm)
  BY <1>2, <1>3, HandleMessageFills DEF Started, TradeRefs
<1> QED
  BY <1>3, <1>4, <1>5, HasReplyInv

(* A trade that starts. *)
LEMMA NewTradeOK ==
    ASSUME TypeOK, NEW r \in TradeRefs, trades[r].state = "none",
           NEW o \in OrderIds, NEW units \in Nat, NEW cp \in Parties
    PROVE  LET nt == NewTrade(o, units, cp) IN
           Started(nt) /\ TradeOK(r, nt) /\ Extends(nt, trades[r])
<1>1. PICK nt : nt = NewTrade(o, units, cp)
  OBVIOUS
<1>2. nt.state = "INITIATED" /\ nt.sd = None /\ nt.their = None /\ nt.our = None
  BY <1>1 DEF NewTrade, NoTrade
<1>3. TradeOK(r, nt)
  BY <1>2 DEF TradeOK, Committed
<1>4. Extends(nt, trades[r])
  BY DEF Extends
<1> QED
  BY <1>1, <1>3, <1>4, NewTradeType

LEMMA TakeOrderInv ==
    ASSUME TypeOK, TypeOK', TradeInv, NEW r \in TradeRefs, NEW o \in OrderIds,
           NEW u \in Nat, TakeOrder(r, o, u)
    PROVE  TradeInv'
<1>1. PICK tr : tr = NewTrade(o, u, Maker)
  OBVIOUS
<1>2. Started(tr) /\ TradeOK(r, tr) /\ Extends(tr, trades[r])
  BY <1>1, NewTradeOK DEF TakeOrder, NextSlot, Parties
<1>3. TakeOrderSends(r, tr) /\ UNCHANGED <<taking, chain>>
  BY <1>1 DEF TakeOrder
<1>4. CASE SendSellerData(r, tr, tr.units)
  BY <1>2, <1>3, <1>4, SendSellerDataInv
<1>5. CASE /\ trades' = [trades EXCEPT ![r] = tr]
           /\ Reply(r, tr, tr.units, None, None)
           /\ UNCHANGED <<wallets, broadcast>>
  <2>1. Grows /\ ChainGrows /\ tr \in Trades
    BY <1>2, <1>3, <1>5, PutGrows, SameChainGrows DEF Started
  <2>2. TradeOK(r, tr)'
    BY <1>2, <2>1, TradeStays
  <2>3. \A m \in msgs' : m \in msgs \/ MessageOK(m)'
    BY <1>5, ReplyAdds DEF MessageOK
  <2> QED
    BY <1>2, <1>3, <1>5, <2>1, <2>2, <2>3, PutInv
<1>6. CASE SellerDataThrows(r, tr) /\ UNCHANGED trades
  <2>1. PICK old : old = trades[r]
    OBVIOUS
  <2>2. /\ old \in Trades /\ TradeOK(r, old) /\ Extends(old, trades[r])
        /\ trades' = [trades EXCEPT ![r] = old]
    BY <1>6, <2>1 DEF TypeOK, TradeInv, Extends
  <2>3. Grows /\ ChainGrows
    BY <1>3, <2>2, PutGrows, SameChainGrows
  <2>4. TradeOK(r, old)'
    BY <2>2, <2>3, TradeStays
  <2> QED
    BY <1>3, <1>6, <2>2, <2>4, PutInv DEF SellerDataThrows
<1> QED
  BY <1>3, <1>4, <1>5, <1>6 DEF TakeOrderSends

(* Steps that send no message and broadcast no transaction.  *)
LEMMA SilentInv ==
    ASSUME TypeOK, TypeOK', TradeInv, Grows, ChainGrows,
           \A q \in TradeRefs : trades'[q] = trades[q] \/ TradeOK(q, trades[q])',
           UNCHANGED <<msgs, broadcast>>, confirmed' \subseteq broadcast,
           \/ taking' = None
           \/ taking' \in Takings /\ MessageOK(taking'.msg)
    PROVE  TradeInv'
<1>1. ASSUME NEW q \in TradeRefs PROVE TradeOK(q, trades[q])'
  <2>1. CASE trades'[q] = trades[q]
    <3>1. PICK tr \in Trades : tr = trades[q] /\ trades'[q] = tr
      BY <2>1 DEF TypeOK
    <3>2. TradeOK(q, tr)'
      BY <3>1, TradeStays DEF TradeInv
    <3> QED
      BY <3>1, <3>2 DEF TradeOK
  <2> QED
    BY <2>1
<1>2. ASSUME NEW m \in msgs PROVE MessageOK(m)'
  BY MessageStays DEF TypeOK, TradeInv
<1>3. taking' # None => MessageOK(taking.msg)'
  <2> SUFFICES ASSUME taking' # None PROVE MessageOK(taking.msg)'
    OBVIOUS
  <2>1. PICK m \in Messages : m = taking'.msg /\ MessageOK(m)
    BY DEF Takings
  <2>2. MessageOK(m)'
    BY <2>1, MessageStays
  <2> QED
    BY <2>1, <2>2 DEF MessageOK, SellerDataFrom, SharedPsbtOK, BuiltByBuyer, SignedFor,
                      SignerTrade
<1>4. ASSUME NEW x \in broadcast, NEW s \in Signers
      PROVE  BuiltByBuyer(x)' /\ SignedFor(x, s)'
  BY BuiltStays, SignedStays DEF TypeOK, TradeInv
<1> QED
  BY <1>1, <1>2, <1>3, <1>4 DEF TradeInv

(* Steps that leave the trades, the messages and the chain alone. *)
LEMMA ElsewhereInv ==
    ASSUME TypeOK, TypeOK', TradeInv, UNCHANGED <<trades, msgs, chain, broadcast>>,
           taking' = None \/ taking' = taking
    PROVE  TradeInv'
<1>1. Grows
  BY DEF Grows, Extends
<1>2. ChainGrows
  BY SameChainGrows
<1>3. confirmed' \subseteq broadcast
  BY DEF TradeInv, chain
<1>4. taking' = None \/ (taking' \in Takings /\ MessageOK(taking'.msg))
  BY DEF TypeOK, TradeInv
<1> QED
  BY <1>1, <1>2, <1>3, <1>4, SilentInv

LEMMA XmppInv ==
    ASSUME TypeOK, TypeOK', TradeInv, "lostReply" \notin Faults, XmppStep
    PROVE  TradeInv'
<1>1. ASSUME NEW m \in msgs, TryLock(m) PROVE TradeInv'
  <2>1. /\ UNCHANGED <<trades, msgs, chain, broadcast>>
        /\ taking' = [msg |-> m, max |-> orders[m.order].max, trade |-> None]
    BY <1>1 DEF TryLock
  <2>2. Grows /\ ChainGrows
    BY <2>1, SameChainGrows DEF Grows, Extends
  <2>3. confirmed' \subseteq broadcast
    BY <2>1 DEF TradeInv, chain
  <2>4. m \in Messages /\ MessageOK(m)
    BY DEF TypeOK, TradeInv
  <2>5. taking' = None \/ taking' \in Takings
    BY DEF TypeOK
  <2>6. taking'.msg = m
    BY <2>1
  <2>7. taking' = None \/ (taking' \in Takings /\ MessageOK(taking'.msg))
    BY <2>4, <2>5, <2>6
  <2> QED
    BY <2>1, <2>2, <2>3, <2>7, SilentInv
<1>2. CASE OrderNotTaken
  BY <1>2, ElsewhereInv DEF OrderNotTaken
<1>3. CASE ProcessTakingLate
  BY <1>3, ElsewhereInv DEF ProcessTakingLate
<1>4. ASSUME NEW r \in TradeRefs, OrderTaken(r) PROVE TradeInv'
  <2>1. taking \in Takings /\ taking.msg \in Messages
    BY <1>4 DEF OrderTaken, TypeOK, Takings
  <2>2. PICK nt : nt = NewTrade(taking.msg.order, taking.msg.take, taking.msg.from)
    OBVIOUS
  <2>3. Started(nt) /\ TradeOK(r, nt) /\ Extends(nt, trades[r])
    BY <1>4, <2>1, <2>2, NewTradeOK DEF Messages, OrderTaken, NextSlot
  <2>4. /\ trades' = [trades EXCEPT ![r] = nt] /\ UNCHANGED <<msgs, broadcast, chain>>
        /\ taking # None /\ taking'.msg = taking.msg
    BY <1>4, <2>1, <2>2 DEF OrderTaken, Takings
  <2> QED
    BY <2>3, <2>4, QuietInv
<1>5. ASSUME NEW r \in TradeRefs, ProcessTaking(r) PROVE TradeInv'
  <2>1. PICK m : m = taking.msg
    OBVIOUS
  <2>2. m \in Messages /\ MessageOK(m) /\ ProcessTrade(r, m) /\ taking' = None
    BY <1>5, <2>1 DEF ProcessTaking, TypeOK, Takings, TradeInv
  <2> QED
    BY <2>2, ProcessTradeInv
<1>6. ASSUME NEW r \in TradeRefs, NEW m \in msgs, ProcessMessage(r, m) PROVE TradeInv'
  <2>1. m \in Messages /\ MessageOK(m) /\ ProcessTrade(r, m) /\ taking' = taking
    BY <1>6 DEF ProcessMessage, TypeOK, TradeInv
  <2> QED
    BY <2>1, ProcessTradeInv
<1> QED
  BY <1>1, <1>2, <1>3, <1>4, <1>5, <1>6 DEF XmppStep

(* What Update makes of a trade is justified by the chain. *)
LEMMA UpdateOK ==
    ASSUME NEW r \in TradeRefs, NEW old \in Trades, TradeOK(r, old),
           old.state # "none" => old.order \in OrderIds /\ old.cp \in Parties,
           NEW enough, NEW nt,
           nt = [old EXCEPT !.state = Update(old, enough)]
    PROVE  nt \in Trades /\ TradeOK(r, nt) /\ Extends(nt, old)
<1>1. PICK s : s = Update(old, enough)
  OBVIOUS
<1>2. old.state \in States
  BY DEF Trades
<1>3. \/ s = old.state
      \/ old.state = "INITIATED" /\ s = "ABANDONED"
      \/ old.state = "PENDING" /\ s = "SUCCESS" /\ old.our.tx \in confirmed
      \/ /\ old.state = "PENDING" /\ s = "FAILED"
         /\ old.our.tx \notin confirmed /\ ~InputsUnspent(old.our.tx)
  BY <1>1, <1>2 DEF Update, States
<1>4. s \in States
  BY <1>2, <1>3 DEF States
<1>5. /\ nt.state = s /\ nt.order = old.order /\ nt.units = old.units
      /\ nt.cp = old.cp /\ nt.sd = old.sd /\ nt.their = old.their /\ nt.our = old.our
      /\ nt \in Trades
  BY <1>1, <1>4 DEF Trades
<1>6. s = old.state => nt = old
  BY <1>1 DEF Trades
<1>7. Extends(nt, old)
  BY <1>2, <1>3, <1>5 DEF Extends, Committed
<1>8. TradeOK(r, nt)
  <2>1. CASE s = old.state
    BY <1>6, <2>1
  <2>2. CASE s # old.state
    BY <1>3, <1>5, <2>2 DEF TradeOK, Committed
  <2> QED
    BY <2>1, <2>2
<1> QED
  BY <1>5, <1>7, <1>8

LEMMA UpdateInv ==
    ASSUME TypeOK, TypeOK', TradeInv, NEW p \in Parties, NEW E,
           UpdateAndArchiveTrades(p, E)
    PROVE  TradeInv'
<1> DEFINE U(r) == IF r[1] = p THEN Update(trades[r], r \in E) ELSE trades[r].state
<1>1. /\ trades' = [r \in TradeRefs |-> [trades[r] EXCEPT !.state = U(r)]]
      /\ UNCHANGED <<taking, msgs, chain, broadcast>>
  BY DEF UpdateAndArchiveTrades
<1>2. ChainGrows /\ confirmed' \subseteq broadcast
  BY <1>1, SameChainGrows DEF TradeInv, chain
<1>3. ASSUME NEW r \in TradeRefs
      PROVE  \E nt \in Trades :
               trades'[r] = nt /\ TradeOK(r, nt) /\ Extends(nt, trades[r])
  <2>1. PICK old \in Trades : old = trades[r]
    BY DEF TypeOK
  <2>2. TradeOK(r, old)
    BY <2>1 DEF TradeInv
  <2>3. CASE r[1] = p
    <3>1. trades'[r] = [old EXCEPT !.state = Update(old, r \in E)]
      BY <1>1, <2>1, <2>3
    <3>2. old.state # "none" => old.order \in OrderIds /\ old.cp \in Parties
      BY <2>1 DEF TypeOK
    <3> QED
      BY <2>1, <2>2, <3>1, <3>2, UpdateOK
  <2>4. CASE r[1] # p
    <3>1. trades'[r] = [old EXCEPT !.state = old.state]
      BY <1>1, <2>1, <2>4
    <3>2. trades'[r] = old
      BY <3>1 DEF Trades
    <3>3. Extends(old, old)
      BY DEF Extends
    <3> QED
      BY <2>1, <2>2, <3>2, <3>3
  <2> QED
    BY <2>3, <2>4
<1> HIDE DEF U
<1>4. Grows
  BY <1>3 DEF Grows
<1>5. ASSUME NEW r \in TradeRefs PROVE TradeOK(r, trades[r])'
  <2>1. PICK nt \in Trades : trades'[r] = nt /\ TradeOK(r, nt)
    BY <1>3
  <2>2. TradeOK(r, nt)'
    BY <1>2, <1>4, <2>1, TradeStays
  <2> QED
    BY <2>1, <2>2
<1>6. taking' = None \/ (taking' \in Takings /\ MessageOK(taking'.msg))
  BY <1>1 DEF TypeOK, TradeInv
<1> QED
  BY <1>1, <1>2, <1>4, <1>5, <1>6, SilentInv

LEMMA UpdaterInv ==
    ASSUME TypeOK, TypeOK', TradeInv, UpdaterStep
    PROVE  TradeInv'
<1>1. ASSUME NEW p \in Parties, UpdateThrows(p) PROVE TradeInv'
  BY <1>1, ElsewhereInv DEF UpdateThrows
<1>2. ASSUME NEW r \in TradeRefs, FailureUnlocksOrder(r) PROVE TradeInv'
  BY <1>2, ElsewhereInv DEF FailureUnlocksOrder
<1>3. ASSUME NEW r \in TradeRefs, SuccessRemovesOrder(r) PROVE TradeInv'
  BY <1>3, ElsewhereInv DEF SuccessRemovesOrder
<1>4. ASSUME NEW r \in TradeRefs, SuccessAddsReduced(r) PROVE TradeInv'
  BY <1>4, ElsewhereInv DEF SuccessAddsReduced
<1>5. ASSUME NEW p \in Parties, NEW r \in TradeRefs, FailureUnlocksInputs(p, r)
      PROVE  TradeInv'
  BY <1>5, ElsewhereInv DEF FailureUnlocksInputs
<1>6. ASSUME NEW p \in Parties, NEW r \in TradeRefs, TakerSuccess(p, r) PROVE TradeInv'
  BY <1>6, ElsewhereInv DEF TakerSuccess
<1> QED
  BY UpdateInv, <1>1, <1>2, <1>3, <1>4, <1>5, <1>6 DEF UpdaterStep

LEMMA UserInv ==
    ASSUME TypeOK, TypeOK', TradeInv, UserStep \/ RefreshOrders
    PROVE  TradeInv'
<1>1. ASSUME NEW o \in OrderIds, AddOrder(o) PROVE TradeInv'
  BY <1>1, ElsewhereInv DEF AddOrder
<1>2. ASSUME NEW o \in OrderIds, CancelOrder(o) PROVE TradeInv'
  BY <1>2, ElsewhereInv DEF CancelOrder
<1>3. CASE RefreshOrders
  BY <1>3, ElsewhereInv DEF RefreshOrders
<1>4. ASSUME NEW r \in TradeRefs, NEW o \in OrderIds, NEW u \in 1 .. MaxUnits,
             TakeOrder(r, o, u)
      PROVE  TradeInv'
  BY <1>4, TakeOrderInv, BoundsAssumption
<1> QED
  BY <1>1, <1>2, <1>3, <1>4 DEF UserStep

LEMMA ClockInv ==
    ASSUME TypeOK, TypeOK', TradeInv, NEW r \in TradeRefs, Clock(r)
    PROVE  TradeInv'
<1>1. PICK old \in Trades : old = trades[r]
  BY DEF TypeOK
<1>2. PICK nt : nt = [old EXCEPT !.late = TRUE]
  OBVIOUS
<1>3. /\ old.state = "INITIATED" /\ old.order \in OrderIds /\ old.cp \in Parties
      /\ TradeOK(r, old) /\ trades' = [trades EXCEPT ![r] = nt]
      /\ UNCHANGED <<taking, msgs, broadcast, chain>>
  BY <1>1, <1>2 DEF Clock, TypeOK, TradeInv
<1>4. /\ nt.state = old.state /\ nt.order = old.order /\ nt.units = old.units
      /\ nt.cp = old.cp /\ nt.sd = old.sd /\ nt.their = old.their /\ nt.our = old.our
      /\ nt \in Trades
  BY <1>2 DEF Trades
<1>5. Started(nt) /\ TradeOK(r, nt) /\ Extends(nt, trades[r])
  BY <1>1, <1>3, <1>4 DEF Started, TradeOK, Extends
<1> QED
  BY <1>3, <1>5, QuietInv

LEMMA ChainInv ==
    ASSUME TypeOK, TypeOK', TradeInv, ChainStep
    PROVE  TradeInv'
<1>0. taking = None \/ (taking \in Takings /\ MessageOK(taking.msg))
  BY DEF TypeOK, TradeInv
<1>1. ASSUME UNCHANGED <<trades, taking, msgs, broadcast>>, ChainGrows,
             confirmed' \subseteq broadcast
      PROVE  TradeInv'
  <2>1. Grows
    BY <1>1 DEF Grows, Extends
  <2>2. taking' = None \/ (taking' \in Takings /\ MessageOK(taking'.msg))
    BY <1>0, <1>1
  <2> QED
    BY <1>1, <2>1, <2>2, SilentInv
<1>2. ASSUME NEW x \in broadcast, Confirm(x) PROVE TradeInv'
  <2>1. x.name[1] \in Parties /\ InputsUnspent(x)
    BY <1>2 DEF TypeOK, Txs, Names, Confirm, Mempool
  <2>2. ChainGrows
    BY <1>2, <2>1 DEF Confirm, ChainGrows, TypeOK
  <2> QED
    BY <1>1, <1>2, <2>2 DEF Confirm, TradeInv
<1>3. ASSUME NEW p \in Parties, OtherNameOp(p) PROVE TradeInv'
  <2>1. ChainGrows
    BY <1>3 DEF OtherNameOp, ChainGrows, TypeOK
  <2> QED
    BY <1>1, <1>3, <2>1 DEF OtherNameOp, TradeInv
<1>4. ASSUME NEW c, OtherCoinSpend(c) PROVE TradeInv'
  <2>1. ChainGrows
    BY <1>4 DEF OtherCoinSpend, ChainGrows, TypeOK
  <2> QED
    BY <1>1, <1>4, <2>1 DEF OtherCoinSpend, TradeInv
<1> QED
  BY <1>2, <1>3, <1>4 DEF ChainStep

LEMMA InitInv == Init => TradeInv
<1> SUFFICES ASSUME Init PROVE TradeInv
  OBVIOUS
<1>1. ASSUME NEW r \in TradeRefs PROVE TradeOK(r, trades[r])
  <2>1. trades[r] = NoTrade
    BY DEF Init
  <2>2. /\ NoTrade.state = "none" /\ NoTrade.sd = None
        /\ NoTrade.our = None /\ NoTrade.their = None
    BY DEF NoTrade
  <2> QED
    BY <2>1, <2>2 DEF TradeOK, Committed
<1> QED
  BY <1>1 DEF Init, TradeInv

LEMMA NextInv ==
    ASSUME "lostReply" \notin Faults
    PROVE  TypeOK /\ TypeOK' /\ TradeInv /\ [Next]_vars => TradeInv'
<1> SUFFICES ASSUME TypeOK, TypeOK', TradeInv, [Next]_vars PROVE TradeInv'
  OBVIOUS
<1>1. CASE UNCHANGED vars
  BY <1>1, ElsewhereInv DEF vars, chain
<1>2. CASE Next
  BY <1>2, UserInv, XmppInv, UpdaterInv, ClockInv, ChainInv DEF Next
<1> QED
  BY <1>1, <1>2

(***************************************************************************)
(* The theorems.  They need the node to answer sendrawtransaction whenever *)
(* it executes it: with a lost reply the maker's trade stays INITIATED     *)
(* although its transaction is out (see AbandonedNotExecuted).             *)
(***************************************************************************)
(* Seller data, PSBTs and signatures in the trades and in the chat room    *)
(* all come from the one buyer's and the one seller's trade they belong to *)
(* (Trade::HandleMessage, HasReply, Update).                               *)
THEOREM TradeInvariant ==
    ASSUME "lostReply" \notin Faults
    PROVE  Spec => []TradeInv
<1>1. Init => TypeOK /\ TradeInv
  BY InitType, InitInv
<1>2. TypeOK /\ TradeInv /\ [Next]_vars => (TypeOK /\ TradeInv)'
  BY NextType, NextInv
<1> QED
  BY <1>1, <1>2, PTL DEF Spec

LEMMA InvImpliesAtomic == TypeOK /\ TradeInv => AtomicTrade
<1> SUFFICES ASSUME TypeOK, TradeInv, NEW x \in broadcast
             PROVE  LET b == trades[x.buyer]
                        s == trades[x.seller]
                    IN  /\ b.state \in Committed /\ s.state \in Committed
                        /\ b.order = s.order
                        /\ b.units = x.units /\ s.units = x.units
                        /\ b.cp = x.seller[1] /\ s.cp = x.buyer[1]
  BY DEF AtomicTrade
<1>1. x \in Txs /\ x.buyer \in TradeRefs /\ x.seller \in TradeRefs
  BY DEF TypeOK, Txs
<1>2. BuiltByBuyer(x) /\ SignedFor(x, "buyer") /\ SignedFor(x, "seller")
  BY DEF TradeInv, Signers
<1>3. /\ trades[x.buyer].state \in Committed /\ trades[x.seller].state \in Committed
      /\ trades[x.seller].units = x.units
  BY <1>2 DEF SignedFor, SignerTrade
<1>4. x.seller # None
  BY <1>1, NoneAssumption
<1>5. SellerDataFrom(x.seller, x.buyer[1], trades[x.buyer].cp, trades[x.buyer].order)
  BY <1>1, <1>2, <1>4 DEF TradeInv, TradeOK, BuiltByBuyer
<1> QED
  BY <1>2, <1>3, <1>5 DEF SellerDataFrom, BuiltByBuyer

(* Whatever is broadcast was agreed to by both sides' trades, with the     *)
(* same order, units and parties, for any number of takers and trades and  *)
(* any delay, repetition or loss of messages.                              *)
THEOREM AtomicTrades ==
    ASSUME "lostReply" \notin Faults
    PROVE  Spec => []AtomicTrade
  BY TypeCorrect, TradeInvariant, InvImpliesAtomic, PTL

LEMMA InvImpliesCommit == TradeInv => SignaturesCommit
  BY DEF TradeInv, MessageOK, SharedPsbtOK, SignedFor, SignaturesCommit

(* A signature is in a message only if the trade of its signer has left    *)
(* INITIATED and will not be abandoned.                                    *)
THEOREM SharedSignaturesCommit ==
    ASSUME "lostReply" \notin Faults
    PROVE  Spec => []SignaturesCommit
  BY TradeInvariant, InvImpliesCommit, PTL

LEMMA InvImpliesAgree == TypeOK /\ TradeInv => OutcomesAgree
<1> SUFFICES ASSUME TypeOK, TradeInv, NEW r \in TradeRefs, NEW q \in TradeRefs,
                    trades[r].our # None, trades[q].our # None,
                    trades[r].our.tx = trades[q].our.tx,
                    trades[r].state = "SUCCESS"
             PROVE  trades[q].state \notin {"FAILED", "ABANDONED"}
  BY DEF OutcomesAgree
<1>1. PICK x : x = trades[q].our.tx
  OBVIOUS
<1>2. x \in confirmed /\ x \in broadcast
  BY <1>1 DEF TradeInv, TradeOK
<1>3. trades[q].state # "FAILED"
  BY <1>1, <1>2 DEF TradeInv, TradeOK
<1>4. q = x.buyer \/ q = x.seller
  BY <1>1 DEF TradeInv, TradeOK
<1>5. SignedFor(x, "buyer") /\ SignedFor(x, "seller")
  BY <1>2 DEF TradeInv, Signers
<1>6. trades[q].state \in Committed
  BY <1>4, <1>5 DEF SignedFor, SignerTrade
<1> QED
  BY <1>3, <1>6 DEF Committed

(* If one side's trade is a SUCCESS then the other side of the same        *)
(* transaction never reports it as FAILED or ABANDONED.                    *)
THEOREM SameOutcome ==
    ASSUME "lostReply" \notin Faults
    PROVE  Spec => []OutcomesAgree
  BY TypeCorrect, TradeInvariant, InvImpliesAgree, PTL

LEMMA InvImpliesNotExecuted == TradeInv => AbandonedNotExecuted
<1> SUFFICES ASSUME TradeInv, NEW x \in confirmed
             PROVE  /\ trades[x.buyer].state # "ABANDONED"
                    /\ trades[x.seller].state # "ABANDONED"
  BY DEF AbandonedNotExecuted
<1>1. SignedFor(x, "buyer") /\ SignedFor(x, "seller")
  BY DEF TradeInv, Signers
<1> QED
  BY <1>1 DEF SignedFor, SignerTrade, Committed

(* An abandoned trade is never executed as long as no reply of the node is *)
(* lost; the run trading_lost_reply shows that it may be otherwise.        *)
THEOREM AbandonedIsUndone ==
    ASSUME "lostReply" \notin Faults
    PROVE  Spec => []AbandonedNotExecuted
  BY TradeInvariant, InvImpliesNotExecuted, PTL

(***************************************************************************)
(* The protocol implements AtomicSwap                                      *)
(***************************************************************************)
(* The phases of all sides, as TradingSwap maps them. *)
Phase == [r \in TradeRefs |-> PhaseOf(trades[r].state)]

LEMMA PhaseOfState ==
    /\ PhaseOf("none") = "none" /\ PhaseOf("INITIATED") = "open"
    /\ PhaseOf("PENDING") = "bound" /\ PhaseOf("SUCCESS") = "done"
    /\ PhaseOf("FAILED") = "failed" /\ PhaseOf("ABANDONED") = "left"
    /\ \A s \in States : PhaseOf(s) \in Swap!Phases
  BY DEF PhaseOf, States, Swap!Phases

(* Both sides of a transaction that is out have committed to it alone. *)
LEMMA BroadcastSide ==
    ASSUME TypeOK, TradeInv, NEW y \in broadcast, NEW r \in TradeRefs,
           r = y.buyer \/ r = y.seller
    PROVE  /\ trades[r].state \in Committed
           /\ trades[r].our # None /\ trades[r].our.tx = y
<1>1. BuiltByBuyer(y) /\ SignedFor(y, "buyer") /\ SignedFor(y, "seller")
  BY DEF TradeInv, Signers
<1> QED
  BY <1>1 DEF BuiltByBuyer, SignedFor, SignerTrade

(* Steps that change no state of a trade and nothing on the network. *)
LEMMA SwapStutters ==
    ASSUME UNCHANGED <<broadcast, confirmed>>,
           \A r \in TradeRefs : trades'[r].state = trades[r].state
    PROVE  UNCHANGED Swap!vars
  BY DEF Swap!vars, SwapOf

(* The phases after the contents of one trade were replaced. *)
LEMMA PutPhase ==
    ASSUME TypeOK, NEW r \in TradeRefs, NEW nt, trades' = [trades EXCEPT ![r] = nt],
           NEW ph, ph = PhaseOf(nt.state)
    PROVE  /\ Phase' = [Phase EXCEPT ![r] = ph]
           /\ nt.state = trades[r].state =>
                \A q \in TradeRefs : trades'[q].state = trades[q].state
<1>1. \A q \in TradeRefs : trades'[q] = IF q = r THEN nt ELSE trades[q]
  BY DEF TypeOK
<1>2. \A q \in TradeRefs :
        PhaseOf(trades'[q].state) = IF q = r THEN ph ELSE PhaseOf(trades[q].state)
  BY <1>1
<1>3. Phase' = [q \in TradeRefs |-> IF q = r THEN ph ELSE PhaseOf(trades[q].state)]
  BY <1>2 DEF Phase
<1>4. Phase' = [Phase EXCEPT ![r] = ph]
  BY <1>3 DEF Phase
<1> QED
  BY <1>1, <1>4

LEMMA QuietSwaps ==
    ASSUME TypeOK, NEW r \in TradeRefs, NEW nt, nt.state = trades[r].state,
           trades' = [trades EXCEPT ![r] = nt], UNCHANGED <<broadcast, confirmed>>
    PROVE  UNCHANGED Swap!vars
  BY PutPhase, SwapStutters

(* A trade that starts, from either side. *)
LEMMA StartSwaps ==
    ASSUME TypeOK, NEW r \in TradeRefs, trades[r].state = "none",
           NEW nt, nt.state = "INITIATED",
           trades' = [trades EXCEPT ![r] = nt], UNCHANGED <<broadcast, confirmed>>
    PROVE  Swap!Next
<1>0. Phase[r] = "none"
  BY PhaseOfState DEF Phase
<1>1. Phase' = [Phase EXCEPT ![r] = "open"]
  <2>1. PICK ph : ph = PhaseOf(nt.state)
    OBVIOUS
  <2>2. Phase' = [Phase EXCEPT ![r] = ph]
    BY <2>1, PutPhase, ZenonT(40)
  <2>3. ph = "open"
    BY <2>1, PhaseOfState
  <2> QED
    BY <2>2, <2>3
<1>2. Swap!Start(r)
  BY <1>0, <1>1 DEF Swap!Start, Phase, SwapOf
<1> QED
  BY <1>2 DEF Swap!Next

LEMMA BoundPhase ==
    ASSUME TypeOK, NEW r \in TradeRefs, NEW nt, nt.state = "PENDING",
           trades' = [trades EXCEPT ![r] = nt]
    PROVE  Phase' = [Phase EXCEPT ![r] = "bound"]
<1>1. PICK ph : ph = PhaseOf(nt.state)
  OBVIOUS
<1>2. Phase' = [Phase EXCEPT ![r] = ph]
  BY <1>1, PutPhase
<1>3. ph = "bound"
  BY <1>1, PhaseOfState
<1> QED
  BY <1>2, <1>3

(* A taker that shares its signature. *)
LEMMA BindSwaps ==
    ASSUME TypeOK, NEW r \in TradeRefs, trades[r].state = "INITIATED",
           NEW nt, nt.state = "PENDING",
           trades' = [trades EXCEPT ![r] = nt], UNCHANGED <<broadcast, confirmed>>
    PROVE  Swap!Next
<1>0. Phase[r] = "open"
  BY PhaseOfState DEF Phase
<1>1. Phase' = [Phase EXCEPT ![r] = "bound"]
  BY BoundPhase
<1>2. Swap!Bind(r)
  BY <1>0, <1>1 DEF Swap!Bind, Phase, SwapOf
<1> QED
  BY <1>2 DEF Swap!Next

(* What the maker knows when it finalises x: the taker is bound to x, which*)
(* is not out yet, and neither of the two has another swap.                *)
LEMMA FinalisableSides ==
    ASSUME TypeOK, TradeInv, NEW r \in TradeRefs, NEW ft, Started(ft),
           TradeOK(r, ft), trades[r].state = "INITIATED", Finalisable(r, ft),
           NEW x, x = ft.our.tx, InputsUnspent(x)
    PROVE  \E q \in TradeRefs :
             /\ trades[q].state = "PENDING"
             /\ \/ x.buyer = r /\ x.seller = q
                \/ x.buyer = q /\ x.seller = r
             /\ \A y \in broadcast : r # y.buyer /\ r # y.seller
             /\ \A y \in broadcast : q # y.buyer /\ q # y.seller
<1>1. ft.our # None /\ ft.our \in Psbts /\ x \in Txs /\ r[1] = Maker
  BY DEF Finalisable, Started, Trades, Psbts
<1>2. x.buyer \in TradeRefs /\ x.seller \in TradeRefs
  BY <1>1 DEF Txs
<1>3. PICK q \in TradeRefs :
        /\ \/ x.buyer = r /\ x.seller = q
           \/ x.buyer = q /\ x.seller = r
        /\ trades[q].state \in Committed /\ trades[q].our # None /\ trades[q].our.tx = x
  <2>1. CASE Sells(Maker)
    <3>1. x.seller = r /\ SignedFor(x, "buyer") /\ BuiltByBuyer(x)
      BY <1>1, <2>1 DEF TradeOK
    <3> QED
      BY <1>2, <3>1 DEF SignedFor, SignerTrade, BuiltByBuyer
  <2>2. CASE ~Sells(Maker)
    <3>1. x.buyer = r /\ "seller" \notin ft.our.sigs
      BY <1>1, <2>2 DEF TradeOK
    <3>2. ft.their # None /\ ft.their.tx = x /\ "seller" \in ft.their.sigs
      BY <2>2, <3>1 DEF Finalisable, Signers
    <3>3. SignedFor(x, "seller")
      BY <3>2 DEF TradeOK, SharedPsbtOK
    <3> QED
      BY <1>2, <3>1, <3>3 DEF SignedFor, SignerTrade
  <2> QED
    BY <2>1, <2>2
<1>4. ASSUME NEW y \in broadcast PROVE r # y.buyer /\ r # y.seller
  BY BroadcastSide DEF Committed
<1>5. x \notin broadcast
  BY <1>3, <1>4
<1>6. ASSUME NEW y \in broadcast PROVE q # y.buyer /\ q # y.seller
  BY <1>3, <1>5, BroadcastSide
<1>7. TradeOK(q, trades[q]) /\ confirmed \subseteq broadcast
  BY DEF TradeInv
<1>8. trades[q].state # "SUCCESS" /\ trades[q].state # "FAILED"
  BY <1>3, <1>5, <1>7 DEF TradeOK
<1> QED
  BY <1>3, <1>4, <1>6, <1>8 DEF Committed

LEMMA PublishSwaps ==
    ASSUME TypeOK, TradeInv, NEW r \in TradeRefs, NEW ft, Started(ft),
           TradeOK(r, ft), trades[r].state = "INITIATED", Finalisable(r, ft),
           InputsUnspent(ft.our.tx), NEW nt, nt.state = "PENDING",
           trades' = [trades EXCEPT ![r] = nt],
           broadcast' = broadcast \cup {ft.our.tx}, UNCHANGED confirmed
    PROVE  Swap!Next
<1>1. PICK x : x = ft.our.tx
  OBVIOUS
<1>2. PICK q \in TradeRefs :
             /\ trades[q].state = "PENDING"
             /\ \/ x.buyer = r /\ x.seller = q
                \/ x.buyer = q /\ x.seller = r
             /\ \A y \in broadcast : r # y.buyer /\ r # y.seller
             /\ \A y \in broadcast : q # y.buyer /\ q # y.seller
  BY <1>1, FinalisableSides
<1>0. Phase[r] = "open" /\ Phase[q] = "bound"
  BY <1>2, PhaseOfState DEF Phase
<1>3. Phase' = [Phase EXCEPT ![r] = "bound"]
  BY BoundPhase
<1>4. Swap!SwapsOf(r) = {} /\ Swap!SwapsOf(q) = {}
  BY <1>2 DEF Swap!SwapsOf, SwapOf
<1>5. PICK w \in {<<r, q>>, <<q, r>>} : w = <<x.buyer, x.seller>>
  BY <1>2
<1>6. SwapOf(broadcast)' = SwapOf(broadcast) \cup {w}
  BY <1>1, <1>5 DEF SwapOf
<1>7. Swap!Publish(r, q)
  BY <1>0, <1>3, <1>4, <1>5, <1>6 DEF Swap!Publish, Phase, SwapOf
<1> QED
  BY <1>7 DEF Swap!Next

LEMMA HasReplySwaps ==
    ASSUME TypeOK, TradeInv, "lostReply" \notin Faults,
           NEW r \in TradeRefs, NEW tr, Started(tr), TradeOK(r, tr),
           tr.state = trades[r].state, HasReply(r, tr), UNCHANGED confirmed
    PROVE  [Swap!Next]_Swap!vars
<1>1. CASE SendSellerData(r, tr, 0)
  <2>1. PICK nt : /\ nt = [tr EXCEPT !.sd = r, !.name = NameOf(r)]
                  /\ trades' = [trades EXCEPT ![r] = nt]
    BY <1>1 DEF SendSellerData
  <2>2. nt.state = tr.state
    BY <2>1 DEF Started, Trades
  <2> QED
    BY <1>1, <2>1, <2>2, QuietSwaps DEF SendSellerData
<1>2. CASE SellerDataThrows(r, tr) /\ trades' = [trades EXCEPT ![r] = tr]
  BY <1>2, QuietSwaps DEF SellerDataThrows
<1>3. CASE TakerSellerSigns(r, tr)
  <2>1. PICK st, nt : /\ st = SellerSigned(tr) /\ nt = [st EXCEPT !.state = "PENDING"]
                      /\ trades' = [trades EXCEPT ![r] = nt]
    BY <1>3 DEF TakerSellerSigns, Commit
  <2>2. tr.state = "INITIATED" /\ Started(st)
    BY <1>3, <2>1, SellerSignedType DEF TakerSellerSigns, SignsAsSeller
  <2>3. nt.state = "PENDING"
    BY <2>1, <2>2 DEF Started, Trades
  <2> QED
    BY <1>3, <2>1, <2>2, <2>3, BindSwaps DEF TakerSellerSigns
<1>4. CASE MakerBuyerConstructs(r, tr)
  <2>1. PICK x, nt : nt = BuyerSigned(tr, x) /\ trades' = [trades EXCEPT ![r] = nt]
    BY <1>4 DEF MakerBuyerConstructs
  <2>2. nt.state = tr.state
    BY <2>1 DEF BuyerSigned, Started, Trades
  <2> QED
    BY <1>4, <2>1, <2>2, QuietSwaps DEF MakerBuyerConstructs
<1>5. CASE TakerBuyerConstructs(r, tr)
  <2>1. PICK c, st, nt :
          /\ c \in Spendable(r[1])
          /\ Fund(r, tr, c) /\ st = BuyerSigned(tr, ConstructTransaction(r, tr, c))
          /\ nt = [st EXCEPT !.state = "PENDING"]
          /\ trades' = [trades EXCEPT ![r] = nt]
    BY <1>5 DEF TakerBuyerConstructs, Commit
  <2>2. tr.state = "INITIATED" /\ tr.sd # None
    BY <2>1 DEF Fund, WantsPsbt
  <2>3. Started(st)
    BY <2>1, <2>2, ConstructType
  <2>4. nt.state = "PENDING"
    BY <2>1, <2>3 DEF Started, Trades
  <2> QED
    BY <1>5, <2>1, <2>2, <2>4, BindSwaps DEF TakerBuyerConstructs
<1>6. CASE ConstructThrows(r, tr)
  BY <1>6, QuietSwaps DEF ConstructThrows
<1>7. PICK ft : ft = BeforeFinal(r, tr)
  OBVIOUS
<1>8. Started(ft) /\ TradeOK(r, ft) /\ ft.state = tr.state
  BY <1>7, BeforeFinalOK DEF BeforeFinal, SellerSigned, Started, Trades
<1>9. CASE MakerFinalises(r, tr)
  <2>1. PICK nt : /\ nt = [ft EXCEPT !.state = "PENDING"]
                  /\ trades' = [trades EXCEPT ![r] = nt]
                  /\ Finalisable(r, ft) /\ Acceptable(ft.our.tx)
                  /\ broadcast' = broadcast \cup {ft.our.tx}
    BY <1>7, <1>9 DEF MakerFinalises
  <2>2. nt.state = "PENDING"
    BY <1>8, <2>1 DEF Started, Trades
  <2>3. trades[r].state = "INITIATED" /\ InputsUnspent(ft.our.tx)
    BY <1>8, <2>1 DEF Finalisable, Acceptable
  <2> QED
    BY <1>8, <2>1, <2>2, <2>3, PublishSwaps
<1>10. CASE FinaliseThrows(r, tr)
  BY <1>7, <1>8, <1>10, QuietSwaps DEF FinaliseThrows
<1>11. CASE NoReply(r, tr)
  BY <1>11, QuietSwaps DEF NoReply
<1> QED
  BY <1>1, <1>2, <1>3, <1>4, <1>5, <1>6, <1>9, <1>10, <1>11
     DEF HasReply, FinaliseLosesReply

LEMMA ProcessTradeSwaps ==
    ASSUME TypeOK, TradeInv, "lostReply" \notin Faults,
           NEW r \in TradeRefs, NEW m \in Messages, MessageOK(m), ProcessTrade(r, m)
    PROVE  [Swap!Next]_Swap!vars
<1>1. PICK old \in Trades : old = trades[r]
  BY DEF TypeOK
<1>2. PICK hm : hm = HandleMessage(r[1], old, m)
  OBVIOUS
<1>3. /\ old.state # "none" /\ m.to = r[1] /\ old.cp = m.from /\ old.order = m.order
      /\ old.order \in OrderIds /\ old.cp \in Parties /\ TradeOK(r, old)
      /\ HasReply(r, hm) /\ UNCHANGED confirmed
  BY <1>1, <1>2 DEF ProcessTrade, FirstMatch, Matching, Active, TypeOK, TradeInv, chain
<1>4. TradeOK(r, hm)
  BY <1>1, <1>2, <1>3, HandleMessageOK
<1>5. Started(hm) /\ hm.state = trades[r].state
  BY <1>1, <1>2, <1>3, HandleMessageFills, ZenonT(40) DEF Started, TradeRefs
<1> QED
  BY <1>3, <1>4, <1>5, HasReplySwaps

LEMMA TakeOrderSwaps ==
    ASSUME TypeOK, NEW r \in TradeRefs, NEW o \in OrderIds, NEW u \in Nat,
           TakeOrder(r, o, u)
    PROVE  [Swap!Next]_Swap!vars
<1>1. PICK tr : tr = NewTrade(o, u, Maker)
  OBVIOUS
<1>2. Started(tr) /\ tr.state = "INITIATED" /\ trades[r].state = "none"
  BY <1>1, NewTradeType DEF TakeOrder, NextSlot, Parties, NewTrade, NoTrade
<1>3. TakeOrderSends(r, tr) /\ UNCHANGED confirmed
  BY <1>1 DEF TakeOrder, chain
<1>4. CASE SendSellerData(r, tr, tr.units)
  <2>1. PICK nt : /\ nt = [tr EXCEPT !.sd = r, !.name = NameOf(r)]
                  /\ trades' = [trades EXCEPT ![r] = nt]
    BY <1>4 DEF SendSellerData
  <2>2. nt.state = "INITIATED"
    BY <1>2, <2>1 DEF Started, Trades
  <2> QED
    BY <1>2, <1>3, <1>4, <2>1, <2>2, StartSwaps DEF SendSellerData
<1>5. CASE trades' = [trades EXCEPT ![r] = tr] /\ UNCHANGED broadcast
  BY <1>2, <1>3, <1>5, StartSwaps
<1>6. CASE SellerDataThrows(r, tr) /\ UNCHANGED trades
  BY <1>3, <1>6, SwapStutters DEF SellerDataThrows
<1> QED
  BY <1>3, <1>4, <1>5, <1>6 DEF TakeOrderSends

(* The updater only reports what the chain says about the transaction of   *)
(* the trade, and abandons only trades that are not bound.                 *)
LEMMA UpdateSwaps ==
    ASSUME TypeOK, TypeOK', TradeInv, NEW p \in Parties, NEW E,
           UpdateAndArchiveTrades(p, E)
    PROVE  Swap!Next
<1> DEFINE U(r) == IF r[1] = p THEN Update(trades[r], r \in E) ELSE trades[r].state
<1>1. /\ trades' = [r \in TradeRefs |-> [trades[r] EXCEPT !.state = U(r)]]
      /\ UNCHANGED <<broadcast, confirmed>>
  BY DEF UpdateAndArchiveTrades, chain
<1>2. \A r \in TradeRefs : trades'[r].state = U(r)
  BY <1>1 DEF TypeOK, Trades
<1>3. ASSUME NEW r \in TradeRefs
      PROVE  \/ U(r) = trades[r].state
             \/ trades[r].state = "INITIATED" /\ U(r) = "ABANDONED"
             \/ trades[r].state = "PENDING" /\ U(r) = "SUCCESS"
                  /\ trades[r].our.tx \in confirmed
             \/ trades[r].state = "PENDING" /\ U(r) = "FAILED"
                  /\ trades[r].our.tx \notin confirmed
  <2>1. trades[r].state \in States
    BY DEF TypeOK, Trades
  <2> QED
    BY <2>1 DEF Update, States
<1> HIDE DEF U
<1>4. Phase' \in [TradeRefs -> Swap!Phases]
  BY PhaseOfState DEF Phase, TypeOK, Trades
<1>5. ASSUME NEW r \in TradeRefs, Phase'[r] # Phase[r]
      PROVE  Phase'[r] \in Swap!Outcome(r)
  <2>1. Phase[r] = PhaseOf(trades[r].state) /\ Phase'[r] = PhaseOf(U(r))
    BY <1>2 DEF Phase
  <2>2. CASE trades[r].state = "INITIATED" /\ U(r) = "ABANDONED"
    BY <2>1, <2>2, PhaseOfState DEF Swap!Outcome, Phase
  <2>3. CASE /\ trades[r].state = "PENDING" /\ U(r) = "SUCCESS"
             /\ trades[r].our.tx \in confirmed
    <3>1. PICK x \in confirmed : x = trades[r].our.tx
      BY <2>3
    <3>2. x \in broadcast /\ trades[r].our # None
      BY <2>3, <3>1 DEF TradeInv, TradeOK, Committed
    <3>3. r = x.buyer \/ r = x.seller
      BY <3>1, <3>2 DEF TradeInv, TradeOK
    <3>4. <<x.buyer, x.seller>> \in Swap!SwapsOf(r) \cap SwapOf(confirmed)
      BY <3>2, <3>3 DEF Swap!SwapsOf, SwapOf
    <3> QED
      BY <2>1, <2>3, <3>4, PhaseOfState DEF Swap!Outcome, Phase
  <2>4. CASE /\ trades[r].state = "PENDING" /\ U(r) = "FAILED"
             /\ trades[r].our.tx \notin confirmed
    <3>1. ASSUME NEW w \in Swap!SwapsOf(r) \cap SwapOf(confirmed) PROVE FALSE
      <4>1. PICK y \in confirmed : w = <<y.buyer, y.seller>>
        BY <3>1 DEF SwapOf
      <4>2. (r = y.buyer \/ r = y.seller) /\ y \in broadcast
        BY <3>1, <4>1 DEF Swap!SwapsOf, TradeInv
      <4>3. trades[r].our.tx = y
        BY <4>2, BroadcastSide
      <4> QED
        BY <2>4, <4>1, <4>3
    <3>2. Swap!SwapsOf(r) \cap SwapOf(confirmed) = {}
      BY <3>1
    <3> QED
      BY <2>1, <2>4, <3>2, PhaseOfState DEF Swap!Outcome, Phase
  <2> QED
    BY <1>3, <1>5, <2>1, <2>2, <2>3, <2>4
<1>6. Swap!Settle
  BY <1>1, <1>4, <1>5 DEF Swap!Settle, Phase, SwapOf
<1> QED
  BY <1>6 DEF Swap!Next

(* A transaction that becomes final has not failed for either side. *)
LEMMA ConfirmSwaps ==
    ASSUME TypeOK, TradeInv, NEW x \in broadcast, Confirm(x)
    PROVE  [Swap!Next]_Swap!vars
<1>1. /\ UNCHANGED <<trades, broadcast>> /\ confirmed' = confirmed \cup {x}
      /\ InputsUnspent(x)
  BY DEF Confirm, Mempool
<1>2. PICK w : w = <<x.buyer, x.seller>>
  OBVIOUS
<1>3. SwapOf(confirmed)' = SwapOf(confirmed) \cup {w} /\ w \in SwapOf(broadcast)
  BY <1>1, <1>2 DEF SwapOf
<1>4. CASE w \in SwapOf(confirmed)
  BY <1>1, <1>3, <1>4 DEF Swap!vars, SwapOf
<1>5. CASE w \notin SwapOf(confirmed)
  <2>1. x.buyer \in TradeRefs /\ x.seller \in TradeRefs
    BY DEF TypeOK, Txs
  <2>2. ASSUME NEW r \in {x.buyer, x.seller} PROVE Phase[r] # "failed"
    <3>1. r \in TradeRefs /\ trades[r].our.tx = x /\ trades[r].state \in Committed
      BY <2>1, BroadcastSide
    <3>2. trades[r].state # "FAILED"
      BY <1>1, <3>1 DEF TradeInv, TradeOK
    <3> QED
      BY <3>1, <3>2, PhaseOfState DEF Phase, Committed
  <2>3. w[1] = x.buyer /\ w[2] = x.seller
    BY <1>2
  <2>4. Swap!Execute(w)
    BY <1>1, <1>3, <1>5, <2>2, <2>3 DEF Swap!Execute, Phase, SwapOf
  <2> QED
    BY <1>3, <2>4 DEF Swap!Next
<1> QED
  BY <1>4, <1>5

(* Every step of the protocol is a step of AtomicSwap or changes nothing   *)
(* that AtomicSwap sees.                                                   *)
LEMMA StepSwaps ==
    ASSUME "lostReply" \notin Faults, TypeOK, TypeOK', TradeInv, [Next]_vars
    PROVE  [Swap!Next]_Swap!vars
<1>0. UNCHANGED <<trades, chain, broadcast>> => UNCHANGED Swap!vars
  BY SwapStutters DEF chain
<1>1. CASE UNCHANGED vars
  BY <1>0, <1>1 DEF vars, chain
<1>2. CASE UserStep \/ RefreshOrders
  <2>1. ASSUME NEW r \in TradeRefs, NEW o \in OrderIds, NEW u \in 1 .. MaxUnits,
               TakeOrder(r, o, u)
        PROVE  [Swap!Next]_Swap!vars
    BY <2>1, TakeOrderSwaps, BoundsAssumption
  <2> QED
    BY <1>0, <1>2, <2>1 DEF UserStep, RefreshOrders, AddOrder, CancelOrder
<1>3. CASE XmppStep
  <2>1. ASSUME NEW r \in TradeRefs, OrderTaken(r) PROVE [Swap!Next]_Swap!vars
    <3>1. PICK nt : /\ nt = NewTrade(taking.msg.order, taking.msg.take, taking.msg.from)
                    /\ trades' = [trades EXCEPT ![r] = nt]
      BY <2>1 DEF OrderTaken
    <3>2. nt.state = "INITIATED" /\ trades[r].state = "none"
      BY <2>1, <3>1 DEF OrderTaken, NextSlot, NewTrade, NoTrade
    <3> QED
      BY <2>1, <3>1, <3>2, StartSwaps DEF OrderTaken, chain
  <2>2. ASSUME NEW r \in TradeRefs, ProcessTaking(r) PROVE [Swap!Next]_Swap!vars
    <3>1. taking.msg \in Messages /\ MessageOK(taking.msg) /\ ProcessTrade(r, taking.msg)
      BY <2>2 DEF ProcessTaking, TypeOK, Takings, TradeInv
    <3> QED
      BY <3>1, ProcessTradeSwaps
  <2>3. ASSUME NEW r \in TradeRefs, NEW m \in msgs, ProcessMessage(r, m)
        PROVE  [Swap!Next]_Swap!vars
    BY <2>3, ProcessTradeSwaps DEF ProcessMessage, TypeOK, TradeInv
  <2> QED
    BY <1>0, <1>3, <2>1, <2>2, <2>3
       DEF XmppStep, TryLock, OrderNotTaken, ProcessTakingLate
<1>4. CASE UpdaterStep
  BY <1>0, <1>4, UpdateSwaps
     DEF UpdaterStep, UpdateThrows, FailureUnlocksOrder, SuccessRemovesOrder,
         SuccessAddsReduced, FailureUnlocksInputs, TakerSuccess
<1>5. ASSUME NEW r \in TradeRefs, Clock(r) PROVE [Swap!Next]_Swap!vars
  <2>1. PICK nt : /\ nt = [trades[r] EXCEPT !.late = TRUE]
                  /\ trades' = [trades EXCEPT ![r] = nt]
    BY <1>5 DEF Clock, TypeOK
  <2>2. nt.state = trades[r].state
    BY <2>1 DEF TypeOK, Trades
  <2> QED
    BY <1>5, <2>1, <2>2, QuietSwaps DEF Clock, chain
<1>6. CASE ChainStep
  BY <1>6, ConfirmSwaps, SwapStutters DEF ChainStep, OtherNameOp, OtherCoinSpend
<1> QED
  BY <1>1, <1>2, <1>3, <1>4, <1>5, <1>6 DEF Next

LEMMA InitSwaps == Init => Swap!Init
<1> SUFFICES ASSUME Init PROVE Swap!Init
  OBVIOUS
<1>1. \A r \in TradeRefs : PhaseOf(trades[r].state) = "none"
  BY PhaseOfState DEF Init, NoTrade
<1>2. SwapOf(broadcast) = {} /\ SwapOf(confirmed) = {}
  BY DEF Init, SwapOf
<1> QED
  BY <1>1, <1>2 DEF Swap!Init

(* The daemons, the network and the chain together implement AtomicSwap,   *)
(* for any number of takers, orders and trades, as long as no reply of the *)
(* node is lost.                                                           *)
THEOREM SwapImplemented ==
    ASSUME "lostReply" \notin Faults
    PROVE  Spec => ImplementsAtomicSwap
<1>1. TypeOK /\ TypeOK' /\ TradeInv /\ [Next]_vars => [Swap!Next]_Swap!vars
  BY StepSwaps
<1> QED
  BY <1>1, InitSwaps, TypeCorrect, TradeInvariant, PTL
     DEF Spec, ImplementsAtomicSwap, Swap!Spec

(***************************************************************************)
(* What AtomicSwap alone promises                                          *)
(***************************************************************************)
Bound == {"bound", "done", "failed"}

(* The two sides of a swap on the network are past the point of giving up, *)
(* and those of an executed one have not failed.  Stated of any phases and *)
(* swaps, to be used of the mapped ones before and after a step.           *)
SwapFine(ph, sw, ex) ==
    /\ ph \in [TradeRefs -> Swap!Phases]
    /\ sw \subseteq TradeRefs \X TradeRefs
    /\ ex \subseteq sw
    /\ \A w \in sw : ph[w[1]] \in Bound /\ ph[w[2]] \in Bound
    /\ \A w \in ex : ph[w[1]] \in {"bound", "done"} /\ ph[w[2]] \in {"bound", "done"}

SwapInv == SwapFine(Phase, SwapOf(broadcast), SwapOf(confirmed))

(* Start, Bind: a side that is in no swap yet changes its phase.           *)
LEMMA OneSideMoves ==
    ASSUME NEW ph, NEW sw, NEW ex, SwapFine(ph, sw, ex), NEW r \in TradeRefs,
           ph[r] \notin Bound, NEW x \in Swap!Phases, NEW ph2, ph2 = [ph EXCEPT ![r] = x]
    PROVE  SwapFine(ph2, sw, ex)
<1>1. ph2 \in [TradeRefs -> Swap!Phases] /\ \A q \in TradeRefs \ {r} : ph2[q] = ph[q]
  BY DEF SwapFine
<1>2. \A w \in sw : w[1] \in TradeRefs \ {r} /\ w[2] \in TradeRefs \ {r}
  BY DEF SwapFine
<1> QED
  BY <1>1, <1>2 DEF SwapFine

(* Publish: the second side binds itself and the swap gets out.            *)
LEMMA SwapGetsOut ==
    ASSUME NEW ph, NEW sw, NEW ex, SwapFine(ph, sw, ex),
           NEW r \in TradeRefs, NEW q \in TradeRefs, ph[r] = "open", ph[q] = "bound",
           NEW ph2, ph2 = [ph EXCEPT ![r] = "bound"],
           NEW v \in {<<r, q>>, <<q, r>>}, NEW sw2, sw2 = sw \cup {v}
    PROVE  SwapFine(ph2, sw2, ex)
<1>1. /\ ph2 \in [TradeRefs -> Swap!Phases]
      /\ ph2[r] = "bound" /\ ph2[q] = "bound"
      /\ \A s \in TradeRefs \ {r} : ph2[s] = ph[s]
  BY DEF SwapFine, Swap!Phases
<1>2. \A w \in sw : w[1] \in TradeRefs \ {r} /\ w[2] \in TradeRefs \ {r}
  BY DEF SwapFine, Bound
<1>3. ph2[v[1]] \in Bound /\ ph2[v[2]] \in Bound /\ v \in TradeRefs \X TradeRefs
  BY <1>1 DEF Bound
<1> QED
  BY <1>1, <1>2, <1>3 DEF SwapFine

(* Settle: phases change to how a side may end and not otherwise.          *)
LEMMA SidesSettle ==
    ASSUME NEW ph, NEW sw, NEW ex, SwapFine(ph, sw, ex),
           NEW ph2 \in [TradeRefs -> Swap!Phases],
           \A r \in TradeRefs : ph2[r] # ph[r] =>
               \/ ph[r] = "open"
               \/ ph[r] = "bound" /\ ph2[r] = "done"
               \/ /\ ph[r] = "bound" /\ ph2[r] = "failed"
                  /\ \A w \in ex : r # w[1] /\ r # w[2]
    PROVE  SwapFine(ph2, sw, ex)
<1>1. \A r \in TradeRefs : ph[r] \in Bound => ph2[r] \in Bound
  BY DEF Bound
<1>2. \A w \in ex : w[1] \in TradeRefs /\ w[2] \in TradeRefs
  BY DEF SwapFine
<1>3. \A w \in ex : ph2[w[1]] \in {"bound", "done"} /\ ph2[w[2]] \in {"bound", "done"}
  BY <1>2 DEF SwapFine
<1> QED
  BY <1>1, <1>3 DEF SwapFine

LEMMA SwapStepFine ==
    ASSUME SwapInv, Swap!Next
    PROVE  SwapInv'
<1>1. PICK ph, sw, ex, ph2, sw2, ex2 :
         /\ ph = Phase /\ sw = SwapOf(broadcast) /\ ex = SwapOf(confirmed)
         /\ ph2 = Phase' /\ sw2 = SwapOf(broadcast)' /\ ex2 = SwapOf(confirmed)'
  OBVIOUS
<1>2. SwapFine(ph, sw, ex)
  BY <1>1 DEF SwapInv
<1>3. SUFFICES SwapFine(ph2, sw2, ex2)
  BY <1>1 DEF SwapInv, SwapFine
<1>4. ASSUME NEW r \in TradeRefs, Swap!Start(r) \/ Swap!Bind(r)
      PROVE  SwapFine(ph2, sw2, ex2)
  <2>1. PICK x \in {"open", "bound"} :
           /\ ph2 = [ph EXCEPT ![r] = x] /\ sw2 = sw /\ ex2 = ex
           /\ ph[r] \in {"none", "open"}
    BY <1>1, <1>4 DEF Swap!Start, Swap!Bind, Phase, SwapOf
  <2>2. x \in Swap!Phases /\ ph[r] \notin Bound
    BY <2>1 DEF Swap!Phases, Bound
  <2> QED
    BY <1>2, <2>1, <2>2, OneSideMoves
<1>5. ASSUME NEW r \in TradeRefs, NEW q \in TradeRefs, Swap!Publish(r, q)
      PROVE  SwapFine(ph2, sw2, ex2)
  <2>1. /\ ph[r] = "open" /\ ph[q] = "bound"
        /\ ph2 = [ph EXCEPT ![r] = "bound"] /\ ex2 = ex
        /\ \E v \in {<<r, q>>, <<q, r>>} : sw2 = sw \cup {v}
    BY <1>1, <1>5 DEF Swap!Publish, Phase, SwapOf
  <2>2. PICK v \in {<<r, q>>, <<q, r>>} : sw2 = sw \cup {v}
    BY <2>1
  <2> QED
    BY <1>2, <2>1, <2>2, SwapGetsOut
<1>6. ASSUME NEW w \in SwapOf(broadcast), Swap!Execute(w)
      PROVE  SwapFine(ph2, sw2, ex2)
  <2>1. /\ w \in sw /\ ph[w[1]] # "failed" /\ ph[w[2]] # "failed"
        /\ ph2 = ph /\ sw2 = sw /\ ex2 = ex \cup {w}
    BY <1>1, <1>6 DEF Swap!Execute, Phase, SwapOf
  <2> QED
    BY <1>2, <2>1 DEF SwapFine, Bound
<1>7. CASE Swap!Settle
  <2>1. /\ ph2 \in [TradeRefs -> Swap!Phases] /\ sw2 = sw /\ ex2 = ex
        /\ \A r \in TradeRefs : ph2[r] # ph[r] => ph2[r] \in Swap!Outcome(r)
    BY <1>1, <1>7 DEF Swap!Settle, Phase, SwapOf
  <2>2. ASSUME NEW r \in TradeRefs
        PROVE  Swap!Outcome(r) =
                 CASE ph[r] = "open"  -> {"left"}
                   [] ph[r] = "bound" -> IF {w \in sw : r = w[1] \/ r = w[2]} \cap ex # {}
                                         THEN {"done"} ELSE {"failed"}
                   [] OTHER -> {}
    BY <1>1 DEF Swap!Outcome, Swap!SwapsOf, Phase
  <2>3. ASSUME NEW r \in TradeRefs, ph2[r] # ph[r]
        PROVE  \/ ph[r] = "open"
               \/ ph[r] = "bound" /\ ph2[r] = "done"
               \/ /\ ph[r] = "bound" /\ ph2[r] = "failed"
                  /\ \A w \in ex : r # w[1] /\ r # w[2]
    <3>1. ph2[r] \in Swap!Outcome(r)
      BY <2>1, <2>3
    <3>2. ex \subseteq sw
      BY <1>2 DEF SwapFine
    <3> QED
      BY <2>2, <3>1, <3>2
  <2> QED
    BY <1>2, <2>1, <2>3, SidesSettle
<1> QED
  BY <1>4, <1>5, <1>6, <1>7 DEF Swap!Next

(* Whatever implements AtomicSwap is atomic: neither side of an executed   *)
(* swap has walked away from it or reported it as failed.                  *)
THEOREM SwapsAtomic == Swap!Spec => []Swap!AllOrNothing
<1>1. Swap!Init => SwapInv
  <2> SUFFICES ASSUME Swap!Init PROVE SwapInv
    OBVIOUS
  <2>1. /\ \A r \in TradeRefs : Phase[r] = "none"
        /\ SwapOf(broadcast) = {} /\ SwapOf(confirmed) = {}
    BY DEF Swap!Init, Phase
  <2>2. Phase \in [TradeRefs -> Swap!Phases]
    BY <2>1 DEF Phase, Swap!Phases
  <2> QED
    BY <2>1, <2>2 DEF SwapInv, SwapFine
<1>2. SwapInv /\ [Swap!Next]_Swap!vars => SwapInv'
  <2>1. SwapInv /\ UNCHANGED Swap!vars => SwapInv'
    BY DEF Swap!vars, SwapInv, Phase, SwapFine
  <2> QED
    BY <2>1, SwapStepFine
<1>3. SwapInv => Swap!AllOrNothing
  BY DEF SwapInv, SwapFine, Swap!AllOrNothing, Phase
<1> QED
  BY <1>1, <1>2, <1>3, PTL DEF Swap!Spec

(***************************************************************************)
(* Locks of orders and of wallet outputs: who holds them, that nobody else *)
(* gets what is locked, and that none of them is lost.                     *)
(* The argument: a lock has exactly one holder, which is handed on from    *)
(* the XMPP thread to a trade and from an active trade to the updater that *)
(* cleans up after it, and the lock goes away together with its holder.    *)
(***************************************************************************)
(* The updater of a daemon cleans up after final trades of its own.        *)
TodoInv ==
    \A p \in Parties :
        /\ \A r \in updater[p].todo : r[1] = p /\ trades[r].state \in Final
        /\ updater[p].todo = {} => ~updater[p].ordersDone

(* A held order is not on offer, and is held by one holder only.           *)
HolderInv ==
    /\ \A o \in OrderIds, r, q \in TradeRefs :
         TradeHolds(r, o) /\ TradeHolds(q, o) => r = q
    /\ \A o \in OrderIds, r \in TradeRefs : ~(TakingHolds(o) /\ TradeHolds(r, o))
    /\ \A o \in OrderIds :
         TakingHolds(o) \/ (\E r \in TradeRefs : TradeHolds(r, o)) =>
             orders[o].status \notin {"none", "open"}

(* The order of a successful trade is gone once the updater has removed it.*)
FilledInv ==
    \A r \in TradeRefs :
        r[1] = Maker /\ trades[r].state = "SUCCESS" =>
            \/ TradeHolds(r, trades[r].order)
            \/ orders[trades[r].order].status = "gone"

OrderLockInv ==
    /\ TodoInv
    /\ MakerTradeUnique
    /\ Maker \in alive => HolderInv /\ LockedOrderHasHolder /\ FilledInv

(* A taker's trades are with the maker.                                    *)
TakersTradeWithMaker ==
    \A r \in TradeRefs :
        r[1] # Maker /\ trades[r].state # "none" => trades[r].cp = Maker

(* An order that a trade of the maker may fill, or has filled, is not on   *)
(* offer.                                                                  *)
ReofferInv ==
    /\ TakersTradeWithMaker
    /\ \A r \in TradeRefs :
         r[1] = Maker /\ trades[r].state \in Active \cup {"SUCCESS"} =>
             orders[trades[r].order].status \notin {"none", "open"}

(* The outputs a trade has locked: the name in seller_data, or the coins in*)
(* our_psbt of the buyer.                                                  *)
NameHeld(tr) == {tr.name} \ {None}
CoinHeld(r, tr) == IF ~Sells(r[1]) /\ tr.our # None THEN {tr.our.tx.coin} ELSE {}

Owners   == {r \in TradeRefs : OwnsLocks(r)}
NameItem == [r \in TradeRefs |-> NameHeld(trades[r])]
CoinItem == [r \in TradeRefs |-> CoinHeld(r, trades[r])]

(* The outputs in item are of the wallet of the trade's daemon, locked as  *)
(* long as the trade owns them, and no other trade has them.               *)
LockedFor(own, item, locks) ==
    /\ \A r \in TradeRefs : \A x \in item[r] : x[1] = r[1]
    /\ \A r \in own : item[r] \subseteq locks
    /\ \A r, q \in own : r # q => item[r] \cap item[q] = {}

WalletInv == /\ LockedFor(Owners, NameItem, nameLocks)
             /\ LockedFor(Owners, CoinItem, coinLocks)

(* Every locked output is owned or has been spent.                         *)
Accounted(own, item, locks, spent) ==
    \A x \in locks : x \in spent \/ \E r \in own : x \in item[r]

SpentNames == {n \in Names : n[2] < nameOut[n[1]]}

(* What a trade has locked it spends if it succeeds.                       *)
SpendsItems(r, tr) ==
    /\ tr.name # None => Sells(r[1]) /\ tr.sd # None
    /\ tr.our # None /\ Sells(r[1]) => tr.sd # None /\ tr.our.tx.name = tr.name
    /\ tr.state \in Committed => tr.our # None
    /\ tr.state = "SUCCESS" => tr.our.tx \in confirmed

LeakInv ==
    /\ Accounted(Owners, NameItem, nameLocks, SpentNames)
    /\ Accounted(Owners, CoinItem, coinLocks, spentCoins)
    /\ \A r \in TradeRefs : SpendsItems(r, trades[r])
    /\ \A x \in confirmed : x.name \in SpentNames /\ x.coin \in spentCoins

(***************************************************************************)
(* What a step does to a trade                                             *)
(***************************************************************************)
(* HasReply changes what a trade has locked by locking it in the wallet    *)
(* first, and the seller signs for the name it has locked.                 *)
WalletStep(r, tr, nt) ==
    \/ /\ nt.name = tr.name /\ nt.sd = tr.sd /\ UNCHANGED wallets
       /\ \/ nt.our = tr.our
          \/ /\ Sells(r[1]) /\ tr.sd # None /\ tr.our = None /\ nt.our # None
             /\ nt.our.tx.name = tr.name
    \/ /\ Sells(r[1]) /\ tr.sd = None /\ NameOf(r) \notin nameLocks
       /\ nameLocks' = nameLocks \cup {NameOf(r)} /\ UNCHANGED coinLocks
       /\ nt.name = NameOf(r) /\ nt.sd = r /\ nt.our = tr.our
    \/ /\ ~Sells(r[1]) /\ tr.our = None /\ nt.our # None
       /\ nt.name = tr.name /\ nt.sd = tr.sd
       /\ nt.our.tx.coin \notin coinLocks /\ nt.our.tx.coin[1] = r[1]
       /\ coinLocks' = coinLocks \cup {nt.our.tx.coin} /\ UNCHANGED nameLocks
    \/ /\ "midway" \in Faults
       /\ nt.name = tr.name /\ nt.sd = tr.sd /\ nt.our = tr.our
       /\ nameLocks \subseteq nameLocks' /\ coinLocks \subseteq coinLocks'

TradeStep(r, tr, nt) ==
    /\ trades' = [trades EXCEPT ![r] = nt]
    /\ nt \in Trades /\ nt.order = tr.order /\ nt.cp = tr.cp
    /\ nt.units = tr.units
    /\ \/ nt.state = tr.state
       \/ tr.state = "INITIATED" /\ nt.state = "PENDING" /\ nt.our # None
    /\ WalletStep(r, tr, nt)

LEMMA SendSellerDataStep ==
    ASSUME TypeOK, NEW r \in TradeRefs, NEW tr, Started(tr), NEW take,
           SendSellerData(r, tr, take)
    PROVE  \E nt : TradeStep(r, tr, nt) /\ nt.state = tr.state
<1>1. PICK nt : nt = [tr EXCEPT !.sd = r, !.name = NameOf(r)]
  OBVIOUS
<1>2. /\ nt.state = tr.state /\ nt.order = tr.order /\ nt.cp = tr.cp
      /\ nt.units = tr.units
      /\ nt.sd = r /\ nt.name = NameOf(r) /\ nt.our = tr.our
  BY <1>1 DEF Started, Trades
<1>3. nt \in Trades
  BY <1>1, NameOfType DEF Started, Trades
<1>4. trades' = [trades EXCEPT ![r] = nt]
  BY <1>1 DEF SendSellerData
<1>5. WalletStep(r, tr, nt)
  BY <1>2 DEF SendSellerData, WantsSellerData, WalletStep
<1> QED
  BY <1>2, <1>3, <1>4, <1>5 DEF TradeStep

(* Our signature as seller goes on the name that the trade has locked. *)
LEMMA SellerSignedFields ==
    ASSUME NEW r \in TradeRefs, NEW tr, Started(tr), SignsAsSeller(r, tr)
    PROVE  LET st == SellerSigned(tr) IN
           /\ Started(st) /\ st.our # None /\ st.our.tx.name = tr.name
           /\ st.state = tr.state /\ st.order = tr.order /\ st.cp = tr.cp
           /\ st.units = tr.units
           /\ st.sd = tr.sd /\ st.name = tr.name
           /\ tr.state = "INITIATED" /\ Sells(r[1]) /\ tr.sd # None /\ tr.our = None
<1>1. PICK st : st = SellerSigned(tr)
  OBVIOUS
<1>2. /\ st.our = [tx |-> tr.their.tx, sigs |-> tr.their.sigs \cup {"seller"}]
      /\ st.state = tr.state /\ st.order = tr.order /\ st.cp = tr.cp
      /\ st.units = tr.units
      /\ st.sd = tr.sd /\ st.name = tr.name
  BY <1>1 DEF SellerSigned, Started, Trades
<1>3. Started(st) /\ st.our \in Psbts
  BY <1>1, SellerSignedType
<1>4. st.our # None /\ st.our.tx = tr.their.tx
  BY <1>2, <1>3, NoneAssumption
<1>5. /\ tr.state = "INITIATED" /\ Sells(r[1]) /\ tr.sd # None /\ tr.our = None
      /\ tr.their.tx.name = tr.name
  BY DEF SignsAsSeller, CheckForSellerSignature
<1> QED
  BY <1>1, <1>2, <1>3, <1>4, <1>5

(* The trade when it gets to the final part: as it was, or signed. *)
LEMMA BeforeFinalFields ==
    ASSUME NEW r \in TradeRefs, NEW tr, Started(tr)
    PROVE  LET ft == BeforeFinal(r, tr) IN
           /\ Started(ft)
           /\ ft.state = tr.state /\ ft.order = tr.order /\ ft.cp = tr.cp
           /\ ft.units = tr.units
           /\ ft.sd = tr.sd /\ ft.name = tr.name
           /\ \/ ft.our = tr.our
              \/ /\ Sells(r[1]) /\ tr.sd # None /\ tr.our = None /\ ft.our # None
                 /\ ft.our.tx.name = tr.name
<1>1. CASE SignsAsSeller(r, tr)
  BY <1>1, SellerSignedFields DEF BeforeFinal
<1>2. CASE ~SignsAsSeller(r, tr)
  BY <1>2 DEF BeforeFinal
<1> QED
  BY <1>1, <1>2

LEMMA PendingFields ==
    ASSUME NEW tr, Started(tr), NEW nt, nt = [tr EXCEPT !.state = "PENDING"]
    PROVE  /\ nt \in Trades /\ nt.state = "PENDING" /\ nt.order = tr.order
           /\ nt.units = tr.units
           /\ nt.cp = tr.cp /\ nt.sd = tr.sd /\ nt.name = tr.name /\ nt.our = tr.our
  BY PendingType DEF Started, Trades

(* The buyer's trade with the transaction that the wallet has funded. *)
LEMMA FundFields ==
    ASSUME TypeOK, NEW r \in TradeRefs, NEW tr, Started(tr), NEW c \in Spendable(r[1]),
           Fund(r, tr, c), NEW st, st = BuyerSigned(tr, ConstructTransaction(r, tr, c))
    PROVE  /\ Started(st) /\ st.our # None /\ st.our.tx.coin = c
           /\ st.state = tr.state /\ st.order = tr.order /\ st.cp = tr.cp
           /\ st.units = tr.units
           /\ st.sd = tr.sd /\ st.name = tr.name
           /\ tr.state = "INITIATED" /\ ~Sells(r[1]) /\ tr.our = None
           /\ c \notin coinLocks /\ c[1] = r[1] /\ coinLocks' = coinLocks \cup {c}
<1>1. /\ tr.state = "INITIATED" /\ ~Sells(r[1]) /\ tr.sd # None /\ tr.our = None
      /\ c \notin coinLocks /\ c[1] = r[1] /\ coinLocks' = coinLocks \cup {c}
  BY DEF Fund, WantsPsbt, Spendable
<1>2. PICK x : x = ConstructTransaction(r, tr, c)
  OBVIOUS
<1>3. x.coin = c
  BY <1>2 DEF ConstructTransaction
<1>4. Started(st) /\ st.our \in Psbts
  BY <1>1, ConstructType
<1>5. /\ st.our = [tx |-> x, sigs |-> {"buyer"}]
      /\ st.state = tr.state /\ st.order = tr.order /\ st.cp = tr.cp
      /\ st.units = tr.units
      /\ st.sd = tr.sd /\ st.name = tr.name
  BY <1>2 DEF BuyerSigned, Started, Trades
<1>6. st.our # None /\ st.our.tx = x
  BY <1>4, <1>5, NoneAssumption
<1> QED
  BY <1>1, <1>3, <1>4, <1>5, <1>6

LEMMA HasReplyStep ==
    ASSUME TypeOK, NEW r \in TradeRefs, NEW tr, Started(tr), HasReply(r, tr)
    PROVE  \E nt : TradeStep(r, tr, nt)
<1>1. CASE SendSellerData(r, tr, 0)
  BY <1>1, SendSellerDataStep
<1>2. CASE SellerDataThrows(r, tr) /\ trades' = [trades EXCEPT ![r] = tr]
  BY <1>2 DEF SellerDataThrows, TradeStep, WalletStep, Started
<1>3. CASE TakerSellerSigns(r, tr)
  <2>1. PICK st, nt : /\ st = SellerSigned(tr) /\ nt = [st EXCEPT !.state = "PENDING"]
                      /\ trades' = [trades EXCEPT ![r] = nt]
    BY <1>3 DEF TakerSellerSigns, Commit
  <2>2. SignsAsSeller(r, tr) /\ UNCHANGED wallets
    BY <1>3 DEF TakerSellerSigns
  <2>3. /\ Started(st) /\ st.our # None /\ st.our.tx.name = tr.name
        /\ st.state = tr.state /\ st.order = tr.order /\ st.cp = tr.cp
        /\ st.units = tr.units
        /\ st.sd = tr.sd /\ st.name = tr.name
        /\ tr.state = "INITIATED" /\ Sells(r[1]) /\ tr.sd # None /\ tr.our = None
    BY <2>1, <2>2, SellerSignedFields
  <2>4. /\ nt \in Trades /\ nt.state = "PENDING" /\ nt.order = st.order
        /\ nt.units = st.units
        /\ nt.cp = st.cp /\ nt.sd = st.sd /\ nt.name = st.name /\ nt.our = st.our
    BY <2>1, <2>3, PendingFields
  <2>5. TradeStep(r, tr, nt)
    BY <2>1, <2>2, <2>3, <2>4 DEF TradeStep, WalletStep
  <2> QED
    BY <2>5
<1>4. CASE MakerBuyerConstructs(r, tr)
  <2>1. PICK c, nt : /\ c \in Spendable(r[1]) /\ Fund(r, tr, c)
                     /\ nt = BuyerSigned(tr, ConstructTransaction(r, tr, c))
                     /\ trades' = [trades EXCEPT ![r] = nt]
    BY <1>4 DEF MakerBuyerConstructs
  <2>2. /\ Started(nt) /\ nt.our # None /\ nt.our.tx.coin = c
        /\ nt.state = tr.state /\ nt.order = tr.order /\ nt.cp = tr.cp
        /\ nt.units = tr.units
        /\ nt.sd = tr.sd /\ nt.name = tr.name
        /\ ~Sells(r[1]) /\ tr.our = None
        /\ c \notin coinLocks /\ c[1] = r[1] /\ coinLocks' = coinLocks \cup {c}
    BY <2>1, FundFields
  <2>3. UNCHANGED nameLocks
    BY <1>4 DEF MakerBuyerConstructs
  <2>4. TradeStep(r, tr, nt)
    BY <2>1, <2>2, <2>3 DEF TradeStep, WalletStep, Started
  <2> QED
    BY <2>4
<1>5. CASE TakerBuyerConstructs(r, tr)
  <2>1. PICK c, st, nt : /\ c \in Spendable(r[1]) /\ Fund(r, tr, c)
                         /\ st = BuyerSigned(tr, ConstructTransaction(r, tr, c))
                         /\ nt = [st EXCEPT !.state = "PENDING"]
                         /\ trades' = [trades EXCEPT ![r] = nt]
    BY <1>5 DEF TakerBuyerConstructs, Commit
  <2>2. /\ Started(st) /\ st.our # None /\ st.our.tx.coin = c
        /\ st.order = tr.order /\ st.cp = tr.cp
        /\ st.units = tr.units
        /\ st.sd = tr.sd /\ st.name = tr.name
        /\ tr.state = "INITIATED" /\ ~Sells(r[1]) /\ tr.our = None
        /\ c \notin coinLocks /\ c[1] = r[1] /\ coinLocks' = coinLocks \cup {c}
    BY <2>1, FundFields
  <2>3. /\ nt \in Trades /\ nt.state = "PENDING" /\ nt.order = st.order
        /\ nt.units = st.units
        /\ nt.cp = st.cp /\ nt.sd = st.sd /\ nt.name = st.name /\ nt.our = st.our
    BY <2>1, <2>2, PendingFields
  <2>4. UNCHANGED nameLocks
    BY <1>5 DEF TakerBuyerConstructs
  <2>5. TradeStep(r, tr, nt)
    BY <2>1, <2>2, <2>3, <2>4 DEF TradeStep, WalletStep
  <2> QED
    BY <2>5
<1>6. CASE ConstructThrows(r, tr)
  BY <1>6 DEF ConstructThrows, Fund, TradeStep, WalletStep, Started
<1>7. PICK ft : ft = BeforeFinal(r, tr)
  OBVIOUS
<1>8. /\ Started(ft)
      /\ ft.state = tr.state /\ ft.order = tr.order /\ ft.cp = tr.cp
      /\ ft.units = tr.units
      /\ ft.sd = tr.sd /\ ft.name = tr.name
      /\ \/ ft.our = tr.our
         \/ /\ Sells(r[1]) /\ tr.sd # None /\ tr.our = None
            /\ ft.our # None /\ ft.our.tx.name = tr.name
  BY <1>7, BeforeFinalFields
<1>9. CASE MakerFinalises(r, tr)
  <2>1. PICK nt : /\ nt = [ft EXCEPT !.state = "PENDING"]
                  /\ trades' = [trades EXCEPT ![r] = nt]
                  /\ Finalisable(r, ft) /\ UNCHANGED wallets
    BY <1>7, <1>9 DEF MakerFinalises, wallets
  <2>2. ft.state = "INITIATED" /\ ft.our # None
    BY <2>1 DEF Finalisable
  <2>3. /\ nt \in Trades /\ nt.state = "PENDING" /\ nt.order = ft.order
        /\ nt.units = ft.units
        /\ nt.cp = ft.cp /\ nt.sd = ft.sd /\ nt.name = ft.name /\ nt.our = ft.our
    BY <1>8, <2>1, PendingFields
  <2>4. TradeStep(r, tr, nt)
    BY <1>8, <2>1, <2>2, <2>3 DEF TradeStep, WalletStep
  <2> QED
    BY <2>4
<1>10. CASE FinaliseThrows(r, tr) \/ FinaliseLosesReply(r, tr)
  <2>1. trades' = [trades EXCEPT ![r] = ft] /\ UNCHANGED wallets
    BY <1>7, <1>10 DEF FinaliseThrows, FinaliseLosesReply, wallets
  <2>2. TradeStep(r, tr, ft)
    BY <1>8, <2>1 DEF TradeStep, WalletStep, Started
  <2> QED
    BY <2>2
<1>11. CASE NoReply(r, tr)
  BY <1>11 DEF NoReply, TradeStep, WalletStep, Started, wallets
<1> QED
  BY <1>1, <1>2, <1>3, <1>4, <1>5, <1>6, <1>9, <1>10, <1>11 DEF HasReply

(* A trade that a message is for stays active and keeps its order. *)
LEMMA ProcessTradeStep ==
    ASSUME TypeOK, NEW r \in TradeRefs, NEW m \in Messages, ProcessTrade(r, m)
    PROVE  /\ r[1] \in alive /\ trades[r].state \in Active
           /\ UNCHANGED <<orders, updater, chain, alive>>
           /\ \E nt, tr :
                /\ TradeStep(r, tr, nt)
                /\ tr.state = trades[r].state /\ tr.order = trades[r].order
                /\ tr.units = trades[r].units
                /\ tr.cp = trades[r].cp
                /\ tr.name = trades[r].name /\ tr.our = trades[r].our
                /\ Sells(r[1]) => tr.sd = trades[r].sd
<1>1. PICK old \in Trades : old = trades[r]
  BY DEF TypeOK
<1>2. PICK hm : hm = HandleMessage(r[1], old, m)
  OBVIOUS
<1>3. /\ old.state \in Active /\ old.state # "none"
      /\ old.order \in OrderIds /\ old.cp \in Parties
      /\ HasReply(r, hm) /\ r[1] \in alive /\ UNCHANGED <<orders, updater, chain, alive>>
  BY <1>1, <1>2 DEF ProcessTrade, FirstMatch, Matching, Active, TypeOK
<1>4. /\ hm \in Trades
      /\ hm.state = old.state /\ hm.order = old.order
      /\ hm.units = old.units
      /\ hm.cp = old.cp /\ hm.our = old.our /\ hm.name = old.name
      /\ Sells(r[1]) => hm.sd = old.sd
  BY <1>2, HandleMessageFills DEF TradeRefs
<1>5. Started(hm)
  BY <1>3, <1>4 DEF Started
<1>6. PICK nt : TradeStep(r, hm, nt)
  BY <1>3, <1>5, HasReplyStep
<1> QED
  BY <1>1, <1>3, <1>4, <1>6

(* The other trades are as they were. *)
LEMMA StepOthers ==
    ASSUME TypeOK, NEW r \in TradeRefs, NEW tr, NEW nt, TradeStep(r, tr, nt)
    PROVE  trades'[r] = nt /\ \A q \in TradeRefs : q # r => trades'[q] = trades[q]
  BY DEF TradeStep, TypeOK

(* What an update makes of the trades: final ones stay as they are. *)
LEMMA UpdateStep ==
    ASSUME TypeOK, NEW p \in Parties, NEW E, UpdateAndArchiveTrades(p, E)
    PROVE  /\ p \in alive /\ updater[p].todo = {}
           /\ \A q \in Parties : q # p => updater'[q] = updater[q]
           /\ updater'[p].ordersDone = updater[p].ordersDone
           /\ UNCHANGED <<orders, taking, wallets, chain, alive>>
           /\ \A r \in TradeRefs :
                /\ trades'[r].order = trades[r].order /\ trades'[r].cp = trades[r].cp
                /\ trades'[r].units = trades[r].units
                /\ trades'[r].name = trades[r].name /\ trades'[r].our = trades[r].our
                /\ trades'[r].sd = trades[r].sd
                /\ r \in updater'[p].todo <=> trades'[r].state # trades[r].state
                /\ trades'[r].state # trades[r].state =>
                     /\ r[1] = p /\ trades[r].state \in Active
                     /\ trades'[r].state \in Final
                     /\ trades'[r].state \in {"SUCCESS", "FAILED"} =>
                          trades[r].state = "PENDING"
                     /\ trades'[r].state = "SUCCESS" => trades[r].our.tx \in confirmed
           /\ updater'[p].todo \subseteq TradeRefs
<1> DEFINE U(r) == IF r[1] = p THEN Update(trades[r], r \in E) ELSE trades[r].state
           changed == {r \in TradeRefs : U(r) # trades[r].state}
<1>1. /\ trades' = [r \in TradeRefs |-> [trades[r] EXCEPT !.state = U(r)]]
      /\ updater' = [updater EXCEPT ![p].todo = changed]
      /\ p \in alive /\ updater[p].todo = {}
      /\ UNCHANGED <<orders, taking, wallets, chain, alive>>
  BY DEF UpdateAndArchiveTrades
<1>2. ASSUME NEW r \in TradeRefs
      PROVE  U(r) # trades[r].state =>
               /\ r[1] = p /\ trades[r].state \in Active /\ U(r) \in Final
               /\ U(r) \in {"SUCCESS", "FAILED"} => trades[r].state = "PENDING"
               /\ U(r) = "SUCCESS" => trades[r].our.tx \in confirmed
  <2>1. trades[r].state \in States
    BY DEF TypeOK, Trades
  <2> QED
    BY <2>1 DEF Update, States, Active, Final
<1> HIDE DEF U
<1>3. ASSUME NEW r \in TradeRefs
      PROVE  /\ trades'[r].state = U(r)
             /\ trades'[r].order = trades[r].order /\ trades'[r].cp = trades[r].cp
             /\ trades'[r].units = trades[r].units
             /\ trades'[r].name = trades[r].name /\ trades'[r].our = trades[r].our
             /\ trades'[r].sd = trades[r].sd
  <2>1. PICK old \in Trades : old = trades[r]
    BY DEF TypeOK
  <2>2. trades'[r] = [old EXCEPT !.state = U(r)]
    BY <1>1, <2>1
  <2> QED
    BY <2>1, <2>2 DEF Trades
<1>4. /\ updater'[p].todo = changed
      /\ updater'[p].ordersDone = updater[p].ordersDone
      /\ \A q \in Parties : q # p => updater'[q] = updater[q]
  BY <1>1 DEF TypeOK
<1>5. \A r \in TradeRefs : r \in changed <=> trades'[r].state # trades[r].state
  BY <1>3
<1> HIDE DEF changed
<1>6. updater'[p].todo \subseteq TradeRefs
  BY <1>4 DEF changed
<1> QED
  BY <1>1, <1>2, <1>3, <1>4, <1>5, <1>6

(* The fields of the updater after one part of a clean-up. *)
LEMMA DoneFields ==
    ASSUME TypeOK, NEW p \in Parties, NEW r, Done(p, r)
    PROVE  /\ updater'[p].todo = updater[p].todo \ {r} /\ ~updater'[p].ordersDone
           /\ \A q \in Parties : q # p => updater'[q] = updater[q]
  BY DEF Done, TypeOK

LEMMA OrdersDoneFields ==
    ASSUME TypeOK, OrdersDone
    PROVE  /\ updater'[Maker].todo = updater[Maker].todo /\ updater'[Maker].ordersDone
           /\ \A q \in Parties : q # Maker => updater'[q] = updater[q]
  BY DEF OrdersDone, TypeOK, Parties

LEMMA ClockFields ==
    ASSUME TypeOK, NEW r \in TradeRefs, Clock(r)
    PROVE  /\ \A q \in TradeRefs :
                /\ trades'[q].state = trades[q].state /\ trades'[q].order = trades[q].order
                /\ trades'[q].units = trades[q].units
                /\ trades'[q].cp = trades[q].cp /\ trades'[q].sd = trades[q].sd
                /\ trades'[q].name = trades[q].name /\ trades'[q].our = trades[q].our
           /\ UNCHANGED <<orders, updater, taking, wallets, chain, alive>>
<1>1. PICK old \in Trades : old = trades[r]
  BY DEF TypeOK
<1>2. PICK nt : nt = [old EXCEPT !.late = TRUE] /\ trades' = [trades EXCEPT ![r] = nt]
  BY <1>1 DEF Clock, TypeOK
<1>3. /\ nt.state = old.state /\ nt.order = old.order /\ nt.cp = old.cp
      /\ nt.units = old.units
      /\ nt.sd = old.sd /\ nt.name = old.name /\ nt.our = old.our
  BY <1>2 DEF Trades
<1>4. \A q \in TradeRefs : trades'[q] = IF q = r THEN nt ELSE trades[q]
  BY <1>2 DEF TypeOK
<1> QED
  BY <1>1, <1>3, <1>4 DEF Clock

(* TakeOrder starts a trade with the maker, or locks a name in vain. *)
LEMMA TakeOrderStep ==
    ASSUME TypeOK, NEW r \in TradeRefs, NEW o \in OrderIds, NEW u \in Nat,
           TakeOrder(r, o, u)
    PROVE  /\ r[1] # Maker /\ trades[r].state = "none"
           /\ UNCHANGED <<orders, updater, taking, chain, alive>>
           /\ \/ \E nt, tr : /\ TradeStep(r, tr, nt)
                             /\ tr.cp = Maker /\ nt.state = "INITIATED"
                             /\ tr.name = None /\ tr.our = None
              \/ /\ UNCHANGED <<trades, coinLocks>> /\ nameLocks \subseteq nameLocks'
                 /\ "midway" \in Faults
<1>1. PICK tr : tr = NewTrade(o, u, Maker)
  OBVIOUS
<1>2. /\ Started(tr) /\ tr.state = "INITIATED" /\ tr.cp = Maker
      /\ tr.name = None /\ tr.our = None
  BY <1>1, NewTradeType DEF Parties, NewTrade, NoTrade
<1>3. /\ TakeOrderSends(r, tr) /\ UNCHANGED <<orders, updater, taking, chain, alive>>
      /\ trades[r].state = "none" /\ r[1] # Maker
  BY <1>1, PartiesAssumption DEF TakeOrder, NextSlot
<1>4. CASE SendSellerData(r, tr, tr.units)
  <2>1. PICK nt : TradeStep(r, tr, nt) /\ nt.state = tr.state
    BY <1>2, <1>4, SendSellerDataStep
  <2> QED
    BY <1>2, <1>3, <2>1
<1>5. CASE trades' = [trades EXCEPT ![r] = tr] /\ UNCHANGED <<wallets, broadcast>>
  <2>1. TradeStep(r, tr, tr)
    BY <1>2, <1>5 DEF TradeStep, WalletStep, Started
  <2> QED
    BY <1>2, <1>3, <2>1
<1>6. CASE SellerDataThrows(r, tr) /\ UNCHANGED trades
  BY <1>3, <1>6 DEF SellerDataThrows
<1> QED
  BY <1>3, <1>4, <1>5, <1>6 DEF TakeOrderSends

(***************************************************************************)
(* The updater's list                                                      *)
(***************************************************************************)
LEMMA TodoStays ==
    ASSUME TypeOK, TodoInv,
           \A p \in Parties : /\ updater'[p].todo \subseteq updater[p].todo
                              /\ updater'[p].todo = {} => ~updater'[p].ordersDone,
           \A r \in TradeRefs : trades[r].state \in Final => trades'[r].state \in Final
    PROVE  TodoInv'
  BY DEF TodoInv, TypeOK

LEMMA NextTodo ==
    ASSUME TypeOK, TodoInv, [Next]_vars
    PROVE  TodoInv'
<1>0. Final \cap Active = {} /\ "none" \notin Final /\ "none" \notin Active
  BY DEF Final, Active
<1>1. ASSUME UNCHANGED updater,
             \A r \in TradeRefs : trades[r].state \in Final => trades'[r].state = trades[r].state
      PROVE  TodoInv'
  BY <1>1, TodoStays DEF TodoInv
<1>2. CASE UNCHANGED vars
  BY <1>1, <1>2 DEF vars
<1>3. CASE UserStep \/ RefreshOrders
  <2>1. ASSUME NEW r \in TradeRefs, NEW o \in OrderIds, NEW u \in 1 .. MaxUnits,
               TakeOrder(r, o, u)
        PROVE  TodoInv'
    <3>1. /\ trades[r].state = "none" /\ UNCHANGED updater
          /\ (\E nt, tr : TradeStep(r, tr, nt)) \/ UNCHANGED trades
      BY <2>1, TakeOrderStep, BoundsAssumption
    <3> QED
      BY <1>0, <1>1, <3>1, StepOthers
  <2> QED
    BY <1>1, <1>3, <2>1 DEF UserStep, RefreshOrders, AddOrder, CancelOrder
<1>4. ASSUME NEW r \in TradeRefs, NEW m \in Messages, ProcessTrade(r, m) PROVE TodoInv'
  <2>1. /\ trades[r].state \in Active /\ UNCHANGED updater
        /\ \E nt, tr : TradeStep(r, tr, nt)
    BY <1>4, ProcessTradeStep
  <2> QED
    BY <1>0, <1>1, <2>1, StepOthers
<1>5. CASE XmppStep
  <2>1. ASSUME NEW r \in TradeRefs, OrderTaken(r) PROVE TodoInv'
    <3>1. PICK nt : trades' = [trades EXCEPT ![r] = nt]
      BY <2>1 DEF OrderTaken
    <3>2. trades[r].state = "none" /\ UNCHANGED updater
      BY <2>1 DEF OrderTaken, NextSlot
    <3> QED
      BY <1>0, <1>1, <3>1, <3>2 DEF TypeOK
  <2>2. ASSUME NEW r \in TradeRefs, ProcessTaking(r) PROVE TodoInv'
    BY <1>4, <2>2 DEF ProcessTaking, TypeOK, Takings
  <2>3. ASSUME NEW r \in TradeRefs, NEW m \in msgs, ProcessMessage(r, m) PROVE TodoInv'
    BY <1>4, <2>3 DEF ProcessMessage, TypeOK
  <2> QED
    BY <1>1, <1>5, <2>1, <2>2, <2>3
       DEF XmppStep, TryLock, OrderNotTaken, ProcessTakingLate
<1>6. CASE UpdaterStep
  <2>1. ASSUME NEW p \in Parties, NEW E, UpdateAndArchiveTrades(p, E) PROVE TodoInv'
    <3>1. ASSUME NEW q \in Parties
          PROVE  /\ \A r \in updater'[q].todo : r[1] = q /\ trades'[r].state \in Final
                 /\ updater'[q].todo = {} => ~updater'[q].ordersDone
      <4>1. CASE q = p
        BY <2>1, <4>1, UpdateStep DEF TodoInv
      <4>2. CASE q # p
        BY <1>0, <2>1, <4>2, UpdateStep DEF TodoInv, TypeOK
      <4> QED
        BY <4>1, <4>2
    <3> QED
      BY <3>1 DEF TodoInv
  <2>2. ASSUME NEW p \in Parties, NEW r \in TradeRefs, Done(p, r), UNCHANGED trades
        PROVE  TodoInv'
    <3>1. ASSUME NEW q \in Parties
          PROVE  /\ updater'[q].todo \subseteq updater[q].todo
                 /\ updater'[q].todo = {} => ~updater'[q].ordersDone
      BY <2>2, DoneFields DEF TodoInv
    <3> QED
      BY <2>2, <3>1, TodoStays
  <2>3. ASSUME NEW r \in TradeRefs, Current(Maker, r), OrdersDone, UNCHANGED trades
        PROVE  TodoInv'
    <3>1. ASSUME NEW q \in Parties
          PROVE  /\ updater'[q].todo \subseteq updater[q].todo
                 /\ updater'[q].todo = {} => ~updater'[q].ordersDone
      BY <2>3, OrdersDoneFields DEF TodoInv, Current
    <3> QED
      BY <2>3, <3>1, TodoStays
  <2>4. Maker \in Parties
    BY DEF Parties
  <2> QED
    BY <1>1, <1>6, <2>1, <2>2, <2>3, <2>4
       DEF UpdaterStep, UpdateThrows, FailureUnlocksOrder, SuccessRemovesOrder,
           SuccessAddsReduced, FailureUnlocksInputs, TakerSuccess
<1>7. ASSUME NEW r \in TradeRefs, Clock(r) PROVE TodoInv'
  BY <1>1, <1>7, ClockFields
<1>8. CASE ChainStep
  BY <1>1, <1>8 DEF ChainStep, Confirm, OtherNameOp, OtherCoinSpend
<1> QED
  BY <1>2, <1>3, <1>5, <1>6, <1>7, <1>8 DEF Next

(***************************************************************************)
(* Order locks                                                             *)
(***************************************************************************)
(* Whatever the daemon's own clean-up does not touch: an order gets on     *)
(* offer only as a new one, and is not locked any more or gone for good.   *)
OrdersMove ==
    \A o \in OrderIds :
        /\ orders'[o].status \in {"none", "open"} => orders[o].status \in {"none", "open"}
        /\ orders'[o].status = "locked" => orders[o].status = "locked"
        /\ orders[o].status = "gone" => orders'[o].status = "gone"

(* RunRefresh drops some of the existing orders. *)
LEMMA RefreshMoves ==
    ASSUME NEW os \in [OrderIds -> Orders], RunRefresh(os), NEW o \in OrderIds
    PROVE  \/ orders'[o].status = os[o].status
           \/ orders'[o].status = "gone" /\ os[o].status \in {"open", "locked"}
<1>1. PICK D : D \subseteq Existing(os) /\ orders' = Dropped(os, D)
  BY DEF RunRefresh
<1>2. o \in D => orders'[o].status = "gone"
  BY <1>1 DEF Dropped, Orders
<1>3. o \notin D => orders'[o] = os[o]
  BY <1>1 DEF Dropped
<1> QED
  BY <1>1, <1>2, <1>3 DEF Existing

LEMMA StatusSet ==
    ASSUME TypeOK, NEW o \in OrderIds, NEW s \in {"open", "locked", "gone"}
    PROVE  /\ SetStatus(o, s) \in [OrderIds -> Orders]
           /\ SetStatus(o, s)[o].status = s
           /\ \A q \in OrderIds : q # o => SetStatus(o, s)[q] = orders[q]
<1>1. orders[o] \in Orders
  BY DEF TypeOK
<1> QED
  BY <1>1, SetStatusType DEF TypeOK, SetStatus, Orders

LEMMA AddMoves ==
    ASSUME TypeOK, NEW o \in OrderIds, NEW max \in Nat, NEW root \in Nat,
           Add(o, max, root)
    PROVE  OrdersMove
<1>1. PICK n : n = [status |-> "open", max |-> max, root |-> root]
  OBVIOUS
<1>2. n \in Orders /\ n.status = "open"
  BY <1>1 DEF Orders
<1>3. PICK os : os = [orders EXCEPT ![o] = n]
  OBVIOUS
<1>4. /\ os \in [OrderIds -> Orders] /\ RunRefresh(os) /\ orders[o].status = "none"
      /\ \A q \in OrderIds : os[q] = IF q = o THEN n ELSE orders[q]
  BY <1>1, <1>2, <1>3 DEF TypeOK, Add, FreeOrderId
<1> QED
  BY <1>2, <1>4, RefreshMoves DEF OrdersMove

LEMMA RemoveMoves ==
    ASSUME TypeOK, NEW o \in OrderIds, RemoveById(o)
    PROVE  /\ OrdersMove
           /\ orders[o].status # "none" => orders'[o].status = "gone"
<1>1. PICK os : os = Erased(o)
  OBVIOUS
<1>2. /\ os \in [OrderIds -> Orders] /\ RunRefresh(os)
      /\ \A q \in OrderIds : q # o => os[q] = orders[q]
      /\ IF orders[o].status \in {"open", "locked"}
         THEN os[o].status = "gone" ELSE os = orders
  BY <1>1, StatusSet DEF RemoveById, Erased, Existing, TypeOK
<1>3. ASSUME NEW q \in OrderIds
      PROVE  \/ orders'[q].status = os[q].status
             \/ orders'[q].status = "gone" /\ os[q].status \in {"open", "locked"}
  BY <1>2, RefreshMoves
<1>4. OrdersMove
  BY <1>2, <1>3 DEF OrdersMove
<1>5. orders[o].status \in {"none", "open", "locked", "gone"}
  BY DEF TypeOK, Orders
<1> QED
  BY <1>2, <1>3, <1>4, <1>5

LEMMA RefreshOrdersMove ==
    ASSUME TypeOK, RunRefresh(orders)
    PROVE  OrdersMove
  BY RefreshMoves DEF OrdersMove, TypeOK

(* What the invariant says of a daemon that is running. *)
MakerLocks == HolderInv /\ LockedOrderHasHolder /\ FilledInv

(* Steps after which the same orders are held as before. *)
LEMMA LocksStay ==
    ASSUME TypeOK, TypeOK', Maker \in alive, MakerLocks, OrdersMove,
           \A r \in TradeRefs, o \in OrderIds : TradeHolds(r, o)' <=> TradeHolds(r, o),
           \A o \in OrderIds : TakingHolds(o)' <=> TakingHolds(o),
           \A r \in TradeRefs :
             r[1] = Maker /\ trades'[r].state = "SUCCESS" =>
               /\ trades'[r].order = trades[r].order /\ trades[r].state # "none"
               /\ trades[r].state = "SUCCESS" \/ TradeHolds(r, trades[r].order)
    PROVE  MakerLocks'
<1>1. HolderInv'
  BY DEF MakerLocks, HolderInv, OrdersMove
<1>2. LockedOrderHasHolder'
  BY DEF MakerLocks, LockedOrderHasHolder, OrdersMove
<1>3. ASSUME NEW r \in TradeRefs, r[1] = Maker, trades'[r].state = "SUCCESS"
      PROVE  \/ TradeHolds(r, trades[r].order)'
             \/ orders'[trades'[r].order].status = "gone"
  <2>1. PICK o \in OrderIds : o = trades[r].order /\ trades'[r].order = o
    BY <1>3 DEF TypeOK
  <2>2. TradeHolds(r, o) \/ orders[o].status = "gone"
    BY <1>3, <2>1 DEF MakerLocks, FilledInv
  <2>3. CASE TradeHolds(r, o)
    <3>1. TradeHolds(r, o)'
      BY <2>3
    <3> QED
      BY <2>1, <3>1 DEF TradeHolds
  <2>4. CASE orders[o].status = "gone"
    BY <2>1, <2>4 DEF OrdersMove
  <2> QED
    BY <2>2, <2>3, <2>4
<1>4. FilledInv'
  BY <1>3 DEF FilledInv
<1> QED
  BY <1>1, <1>2, <1>4 DEF MakerLocks

(* The maker's trades stay active or not, and the updater where it was. *)
LEMMA SameHolders ==
    ASSUME TypeOK, TypeOK', Maker \in alive, Maker \in alive', MakerLocks, OrdersMove,
           updater'[Maker] = updater[Maker],
           \A o \in OrderIds : TakingHolds(o)' <=> TakingHolds(o),
           \A r \in TradeRefs :
             r[1] = Maker => /\ trades'[r].order = trades[r].order
                             /\ \/ trades'[r].state = trades[r].state
                                \/ trades'[r].state \in Active /\ trades[r].state \in Active
    PROVE  MakerLocks'
<1>1. ASSUME NEW r \in TradeRefs, NEW o \in OrderIds
      PROVE  TradeHolds(r, o)' <=> TradeHolds(r, o)
  BY DEF TradeHolds, Current
<1>2. ASSUME NEW r \in TradeRefs, r[1] = Maker, trades'[r].state = "SUCCESS"
      PROVE  /\ trades'[r].order = trades[r].order /\ trades[r].state # "none"
             /\ trades[r].state = "SUCCESS"
  BY <1>2 DEF Active
<1> QED
  BY <1>1, <1>2, LocksStay

(* Two trades of the maker cannot both be next. *)
LEMMA CurrentUnique ==
    ASSUME TypeOK, TodoInv, NEW r \in TradeRefs, NEW q \in TradeRefs, NEW p \in Parties,
           Current(p, r), Current(p, q)
    PROVE  r = q
<1>1. /\ r[1] = p /\ q[1] = p /\ r[2] <= q[2] /\ q[2] <= r[2]
  BY DEF Current, TodoInv
<1>2. r[2] \in Nat /\ q[2] \in Nat
  BY BoundsAssumption DEF TradeRefs, TradeIds
<1>3. r = <<r[1], r[2]>> /\ q = <<q[1], q[2]>>
  BY DEF TradeRefs
<1> QED
  BY <1>1, <1>2, <1>3

LEMMA TryLockLocks ==
    ASSUME TypeOK, TypeOK', MakerLocks, NEW m \in Messages, TryLock(m)
    PROVE  MakerLocks'
<1>1. PICK o \in OrderIds : o = m.order
  BY DEF Messages
<1>2. /\ Maker \in alive /\ taking = None /\ orders[o].status = "open"
      /\ RunRefresh(SetStatus(o, "locked")) /\ UNCHANGED <<trades, updater, alive>>
      /\ taking' = [msg |-> m, max |-> orders[o].max, trade |-> None]
  BY <1>1 DEF TryLock
<1>3. ASSUME NEW r \in TradeRefs, NEW q \in OrderIds
      PROVE  TradeHolds(r, q)' <=> TradeHolds(r, q)
  BY <1>2 DEF TradeHolds, Current
<1>4. taking' # None
  <2>1. orders[o].max \in Nat
    BY DEF TypeOK, Orders
  <2>2. taking' \in Takings
    BY <1>2, <2>1 DEF Takings
  <2> QED
    BY <2>2, NoneAssumption
<1>5. \A q \in OrderIds : (TakingHolds(q)' <=> q = o) /\ ~TakingHolds(q)
  BY <1>1, <1>2, <1>4 DEF TakingHolds
<1>6. \A r \in TradeRefs : ~TradeHolds(r, o)
  BY <1>2 DEF MakerLocks, HolderInv
<1>7. PICK os : os = SetStatus(o, "locked")
  OBVIOUS
<1>8. /\ os \in [OrderIds -> Orders] /\ os[o].status = "locked"
      /\ \A q \in OrderIds : q # o => os[q] = orders[q]
  BY <1>7, StatusSet
<1>9. ASSUME NEW q \in OrderIds
      PROVE  \/ orders'[q].status = os[q].status
             \/ orders'[q].status = "gone" /\ os[q].status \in {"open", "locked"}
  BY <1>2, <1>7, <1>8, RefreshMoves
<1>10. HolderInv'
  BY <1>3, <1>5, <1>6, <1>8, <1>9 DEF MakerLocks, HolderInv
<1>11. LockedOrderHasHolder'
  BY <1>2, <1>3, <1>5, <1>8, <1>9 DEF MakerLocks, LockedOrderHasHolder
<1>12. ASSUME NEW r \in TradeRefs, r[1] = Maker, trades[r].state = "SUCCESS"
       PROVE  \/ TradeHolds(r, trades[r].order)'
              \/ orders'[trades[r].order].status = "gone"
  <2>1. PICK q \in OrderIds : q = trades[r].order
    BY <1>12 DEF TypeOK
  <2>2. TradeHolds(r, q) \/ orders[q].status = "gone"
    BY <1>12, <2>1 DEF MakerLocks, FilledInv
  <2>3. TradeHolds(r, q)' \/ orders'[q].status = "gone"
    BY <1>2, <1>3, <1>8, <1>9, <2>2
  <2> QED
    BY <1>2, <2>1, <2>3 DEF TradeHolds
<1>13. FilledInv'
  BY <1>2, <1>12 DEF FilledInv
<1> QED
  BY <1>10, <1>11, <1>13 DEF MakerLocks

LEMMA OrderTakenLocks ==
    ASSUME TypeOK, TypeOK', TodoInv, MakerLocks, NEW r \in TradeRefs, OrderTaken(r)
    PROVE  MakerLocks'
<1>1. PICK o \in OrderIds : o = taking.msg.order
  BY DEF OrderTaken, TypeOK, Takings, Messages
<1>2. /\ Maker \in alive /\ r[1] = Maker /\ trades[r].state = "none"
      /\ UNCHANGED <<orders, updater, alive>> /\ TakingHolds(o)
      /\ \A q \in OrderIds : TakingHolds(q) => q = o
  BY <1>1 DEF OrderTaken, NextSlot, TakingHolds
<1>3. PICK nt : /\ nt = NewTrade(o, taking.msg.take, taking.msg.from)
                /\ trades' = [trades EXCEPT ![r] = nt]
  BY <1>1 DEF OrderTaken
<1>4. nt.state = "INITIATED" /\ nt.order = o
  BY <1>3 DEF NewTrade, NoTrade
<1>5. \A q \in TradeRefs : trades'[q] = IF q = r THEN nt ELSE trades[q]
  BY <1>3 DEF TypeOK
<1>6. \A q \in OrderIds : ~TakingHolds(q)'
  <2>1. PICK t \in Takings : t = taking /\ taking' = [t EXCEPT !.trade = r]
    BY DEF OrderTaken, TypeOK
  <2>2. taking'.trade = r /\ r # None
    BY <2>1, NoneAssumption DEF Takings
  <2> QED
    BY <2>2 DEF TakingHolds
<1>7. r \notin updater[Maker].todo
  BY <1>2 DEF TodoInv, Final, Parties
<1>8. ASSUME NEW q \in TradeRefs, NEW a \in OrderIds
      PROVE  TradeHolds(q, a)' <=> TradeHolds(q, a) \/ (q = r /\ a = o)
  <2>1. CASE q = r
    BY <1>2, <1>4, <1>5, <1>7, <2>1 DEF TradeHolds, Active, Final
  <2>2. CASE q # r
    BY <1>2, <1>5, <2>2 DEF TradeHolds, Current
  <2> QED
    BY <2>1, <2>2
<1>9. \A q \in TradeRefs : ~TradeHolds(q, o)
  BY <1>2 DEF MakerLocks, HolderInv
<1>10. HolderInv'
  BY <1>2, <1>6, <1>8, <1>9 DEF MakerLocks, HolderInv
<1>11. LockedOrderHasHolder'
  BY <1>2, <1>8 DEF MakerLocks, LockedOrderHasHolder
<1>12. ASSUME NEW q \in TradeRefs, q[1] = Maker, trades'[q].state = "SUCCESS"
       PROVE  \/ TradeHolds(q, trades[q].order)'
              \/ orders'[trades'[q].order].status = "gone"
  <2>1. q # r /\ trades'[q] = trades[q] /\ trades[q].state = "SUCCESS"
    BY <1>4, <1>5, <1>12
  <2>2. PICK a \in OrderIds : a = trades[q].order
    BY <2>1 DEF TypeOK
  <2>3. TradeHolds(q, a)' \/ orders'[a].status = "gone"
    BY <1>2, <1>8, <1>12, <2>1, <2>2 DEF MakerLocks, FilledInv
  <2> QED
    BY <2>1, <2>2, <2>3 DEF TradeHolds
<1>13. FilledInv'
  BY <1>12 DEF FilledInv
<1> QED
  BY <1>10, <1>11, <1>13 DEF MakerLocks

(* An order that is put back on offer has lost its only holder h; or it is *)
(* gone after that holder has filled it.                                   *)
LEMMA ReleaseLocks ==
    ASSUME TypeOK, TypeOK', MakerLocks, Maker \in alive, UNCHANGED trades,
           NEW o \in OrderIds,
           \A q \in OrderIds : q # o =>
             /\ orders'[q].status \in {"none", "open"} => orders[q].status \in {"none", "open"}
             /\ orders'[q].status = "locked" => orders[q].status = "locked"
             /\ orders[q].status = "gone" => orders'[q].status = "gone",
           orders'[o].status # "locked",
           \A q \in OrderIds : TakingHolds(q)' => q # o /\ TakingHolds(q),
           \A q \in OrderIds : q # o /\ TakingHolds(q) => TakingHolds(q)',
           \A r \in TradeRefs, q \in OrderIds :
             TradeHolds(r, q)' <=> TradeHolds(r, q) /\ q # o,
           orders[o].status = "gone" => orders'[o].status = "gone",
           \A r \in TradeRefs : /\ r[1] = Maker /\ trades[r].state = "SUCCESS"
                                /\ TradeHolds(r, o)
                                => orders'[o].status = "gone"
    PROVE  MakerLocks'
<1>1. HolderInv'
  BY DEF MakerLocks, HolderInv
<1>2. LockedOrderHasHolder'
  BY DEF MakerLocks, LockedOrderHasHolder
<1>3. ASSUME NEW r \in TradeRefs, r[1] = Maker, trades[r].state = "SUCCESS"
      PROVE  \/ TradeHolds(r, trades[r].order)'
             \/ orders'[trades[r].order].status = "gone"
  <2>1. PICK q \in OrderIds : q = trades[r].order
    BY <1>3 DEF TypeOK
  <2>2. TradeHolds(r, q) \/ orders[q].status = "gone"
    BY <1>3, <2>1 DEF MakerLocks, FilledInv
  <2>3. TradeHolds(r, q)' \/ orders'[q].status = "gone"
    BY <1>3, <2>2
  <2> QED
    BY <2>1, <2>3 DEF TradeHolds
<1>4. FilledInv'
  BY <1>3 DEF FilledInv
<1> QED
  BY <1>1, <1>2, <1>4 DEF MakerLocks

(* A failed order or trade of the maker puts the order back on offer. *)
LEMMA UnlockMoves ==
    ASSUME TypeOK, NEW o \in OrderIds, Unlock(o), Maker \in alive'
    PROVE  /\ \A q \in OrderIds : q # o =>
                \/ orders'[q].status = orders[q].status
                \/ orders'[q].status = "gone"
           /\ orders'[o].status # "locked"
           /\ orders[o].status = "locked"
<1>1. orders[o].status = "locked" /\ RunRefresh(SetStatus(o, "open"))
  BY DEF Unlock
<1>2. PICK os : os = SetStatus(o, "open")
  OBVIOUS
<1>3. /\ os \in [OrderIds -> Orders] /\ os[o].status = "open"
      /\ \A q \in OrderIds : q # o => os[q] = orders[q]
  BY <1>2, StatusSet
<1>4. ASSUME NEW q \in OrderIds
      PROVE  \/ orders'[q].status = os[q].status
             \/ orders'[q].status = "gone" /\ os[q].status \in {"open", "locked"}
  BY <1>1, <1>2, <1>3, RefreshMoves
<1> QED
  BY <1>1, <1>3, <1>4

LEMMA OrderNotTakenLocks ==
    ASSUME TypeOK, TypeOK', MakerLocks, OrderNotTaken, Maker \in alive'
    PROVE  MakerLocks'
<1>1. PICK o \in OrderIds : o = taking.msg.order
  BY DEF OrderNotTaken, TypeOK, Takings, Messages
<1>2. /\ Maker \in alive /\ UNCHANGED <<trades, updater>> /\ taking' = None
      /\ TakingHolds(o) /\ \A q \in OrderIds : TakingHolds(q) => q = o
      /\ Unlock(o)
  BY <1>1 DEF OrderNotTaken, TakingHolds
<1>3. /\ \A q \in OrderIds : q # o =>
                \/ orders'[q].status = orders[q].status
                \/ orders'[q].status = "gone"
      /\ orders'[o].status # "locked" /\ orders[o].status = "locked"
  BY <1>2, UnlockMoves
<1>4. \A r \in TradeRefs : ~TradeHolds(r, o)
  BY <1>2 DEF MakerLocks, HolderInv
<1>5. ASSUME NEW r \in TradeRefs, NEW q \in OrderIds
      PROVE  TradeHolds(r, q)' <=> TradeHolds(r, q) /\ q # o
  <2>1. TradeHolds(r, q)' <=> TradeHolds(r, q)
    BY <1>2 DEF TradeHolds, Current
  <2> QED
    BY <1>4, <2>1
<1>6. \A q \in OrderIds : ~TakingHolds(q)'
  BY <1>2 DEF TakingHolds
<1> QED
  BY <1>2, <1>3, <1>4, <1>5, <1>6, ReleaseLocks

(* The trade that the updater works on gives up its order. *)
LEMMA CurrentReleases ==
    ASSUME TypeOK, TypeOK', TodoInv, MakerLocks, NEW r \in TradeRefs, Current(Maker, r),
           ~updater[Maker].ordersDone, OrdersDone, UNCHANGED <<trades, taking>>,
           Maker \in alive', NEW o \in OrderIds, o = trades[r].order
    PROVE  /\ TradeHolds(r, o) /\ r[1] = Maker
           /\ \A q \in TradeRefs, a \in OrderIds :
                TradeHolds(q, a)' <=> TradeHolds(q, a) /\ a # o
           /\ \A a \in OrderIds : TakingHolds(a)' <=> TakingHolds(a)
           /\ ~TakingHolds(o)
<1>1. /\ Maker \in Parties /\ Maker \in alive /\ r \in updater[Maker].todo
  BY DEF Parties, Current
<1>2. r[1] = Maker /\ trades[r].state \notin Active
  BY <1>1 DEF TodoInv, Final, Active
<1>3. TradeHolds(r, o)
  BY <1>1, <1>2 DEF TradeHolds
<1>4. updater'[Maker].todo = updater[Maker].todo /\ updater'[Maker].ordersDone
  BY OrdersDoneFields
<1>5. \A q \in TradeRefs : Current(Maker, q)' <=> Current(Maker, q)
  BY <1>1, <1>4 DEF Current
<1>6. \A q \in TradeRefs : Current(Maker, q) <=> q = r
  BY <1>1, CurrentUnique
<1>7. ASSUME NEW q \in TradeRefs, NEW a \in OrderIds
      PROVE  TradeHolds(q, a)' <=> TradeHolds(q, a) /\ q # r
  <2>1. CASE q = r
    BY <1>2, <1>4, <1>5, <1>6, <2>1 DEF TradeHolds
  <2>2. CASE q # r
    <3>1. ~Current(Maker, q) /\ ~Current(Maker, q)'
      BY <1>5, <1>6, <2>2
    <3> QED
      BY <1>4, <2>2, <3>1 DEF TradeHolds
  <2> QED
    BY <2>1, <2>2
<1>8. ASSUME NEW q \in TradeRefs, NEW a \in OrderIds
      PROVE  TradeHolds(q, a)' <=> TradeHolds(q, a) /\ a # o
  <2>1. TradeHolds(q, a) /\ a = o => q = r
    BY <1>3 DEF MakerLocks, HolderInv
  <2>2. TradeHolds(q, a) /\ q = r => a = o
    BY DEF TradeHolds
  <2> QED
    BY <1>7, <2>1, <2>2
<1>9. \A a \in OrderIds : TakingHolds(a)' <=> TakingHolds(a)
  BY DEF TakingHolds
<1>10. ~TakingHolds(o)
  BY <1>3 DEF MakerLocks, HolderInv
<1> QED
  BY <1>2, <1>3, <1>8, <1>9, <1>10

LEMMA FailureLocks ==
    ASSUME TypeOK, TypeOK', TodoInv, MakerLocks, NEW r \in TradeRefs,
           FailureUnlocksOrder(r), Maker \in alive'
    PROVE  MakerLocks'
<1>1. PICK o \in OrderIds : o = trades[r].order
  BY DEF FailureUnlocksOrder, TypeOK
<1>2. /\ Current(Maker, r) /\ Maker \in alive /\ ~updater[Maker].ordersDone /\ OrdersDone
      /\ UNCHANGED <<trades, taking>> /\ Unlock(o) /\ trades[r].state # "SUCCESS"
  BY <1>1 DEF FailureUnlocksOrder, Current
<1>3. /\ TradeHolds(r, o) /\ r[1] = Maker
      /\ \A q \in TradeRefs, a \in OrderIds :
           TradeHolds(q, a)' <=> TradeHolds(q, a) /\ a # o
      /\ \A a \in OrderIds : TakingHolds(a)' <=> TakingHolds(a)
      /\ ~TakingHolds(o)
  BY <1>1, <1>2, CurrentReleases
<1>4. /\ \A q \in OrderIds : q # o =>
                \/ orders'[q].status = orders[q].status
                \/ orders'[q].status = "gone"
      /\ orders'[o].status # "locked" /\ orders[o].status = "locked"
  BY <1>2, UnlockMoves
<1>5. \A q \in TradeRefs : TradeHolds(q, o) => q = r
  BY <1>3 DEF MakerLocks, HolderInv
<1> QED
  BY <1>2, <1>3, <1>4, <1>5, ReleaseLocks

LEMMA SuccessLocks ==
    ASSUME TypeOK, TypeOK', TodoInv, MakerLocks, NEW r \in TradeRefs,
           SuccessRemovesOrder(r), Maker \in alive'
    PROVE  MakerLocks'
<1>1. PICK o \in OrderIds : o = trades[r].order
  BY DEF SuccessRemovesOrder, TypeOK
<1>2. /\ Current(Maker, r) /\ Maker \in alive /\ ~updater[Maker].ordersDone /\ OrdersDone
      /\ UNCHANGED <<trades, taking>> /\ RemoveById(o)
  BY <1>1 DEF SuccessRemovesOrder, Current
<1>3. /\ TradeHolds(r, o) /\ r[1] = Maker
      /\ \A q \in TradeRefs, a \in OrderIds :
           TradeHolds(q, a)' <=> TradeHolds(q, a) /\ a # o
      /\ \A a \in OrderIds : TakingHolds(a)' <=> TakingHolds(a)
      /\ ~TakingHolds(o)
  BY <1>1, <1>2, CurrentReleases
<1>4. orders[o].status # "none"
  BY <1>3 DEF MakerLocks, HolderInv
<1>5. OrdersMove /\ orders'[o].status = "gone"
  BY <1>2, <1>4, RemoveMoves
<1> QED
  BY <1>2, <1>3, <1>5, ReleaseLocks DEF OrdersMove

(* Once its order is dealt with, the trade the updater works on goes away. *)
LEMMA DoneLocks ==
    ASSUME TypeOK, TypeOK', TodoInv, MakerLocks, NEW r \in TradeRefs, Current(Maker, r),
           updater[Maker].ordersDone, Done(Maker, r), UNCHANGED <<trades, taking, alive>>,
           OrdersMove
    PROVE  MakerLocks'
<1>1. /\ Maker \in Parties /\ Maker \in alive /\ r \in updater[Maker].todo
  BY DEF Parties, Current
<1>2. r[1] = Maker /\ trades[r].state \notin Active
  BY <1>1 DEF TodoInv, Final, Active
<1>3. updater'[Maker].todo = updater[Maker].todo \ {r} /\ ~updater'[Maker].ordersDone
  BY <1>1, DoneFields
<1>4. \A q \in TradeRefs : Current(Maker, q) <=> q = r
  BY <1>1, CurrentUnique
<1>5. ASSUME NEW q \in TradeRefs, NEW a \in OrderIds
      PROVE  TradeHolds(q, a)' <=> TradeHolds(q, a)
  <2>1. CASE q = r
    BY <1>2, <1>3, <1>4, <2>1 DEF TradeHolds
  <2>2. CASE q # r
    BY <1>3, <1>4, <2>2 DEF TradeHolds
  <2> QED
    BY <2>1, <2>2
<1>6. \A a \in OrderIds : TakingHolds(a)' <=> TakingHolds(a)
  BY DEF TakingHolds
<1> QED
  BY <1>1, <1>5, <1>6, LocksStay

LEMMA UpdateLocks ==
    ASSUME TypeOK, TypeOK', TodoInv, MakerLocks, NEW p \in Parties, NEW E,
           UpdateAndArchiveTrades(p, E), Maker \in alive
    PROVE  MakerLocks'
<1>0. Maker \in Parties
  BY DEF Parties
<1>1. UNCHANGED <<orders, taking, alive>> /\ OrdersMove
  BY UpdateStep DEF OrdersMove
<1>2. \A a \in OrderIds : TakingHolds(a)' <=> TakingHolds(a)
  BY <1>1 DEF TakingHolds
<1>3. CASE p # Maker
  BY <1>0, <1>1, <1>2, <1>3, UpdateStep, SameHolders
<1>4. CASE p = Maker
  <2>1. updater[Maker].todo = {} /\ ~updater[Maker].ordersDone
    BY <1>0, <1>4, UpdateStep DEF TodoInv
  <2>2. ~updater'[Maker].ordersDone
    BY <1>4, <2>1, UpdateStep
  <2>3. ASSUME NEW r \in TradeRefs
        PROVE  /\ trades'[r].order = trades[r].order
               /\ r \in updater'[Maker].todo <=> trades'[r].state # trades[r].state
               /\ trades'[r].state # trades[r].state =>
                     trades[r].state \in Active /\ trades'[r].state \notin Active
    BY <1>4, UpdateStep DEF Final, Active
  <2>4. ASSUME NEW r \in TradeRefs, NEW o \in OrderIds
        PROVE  TradeHolds(r, o)' <=> TradeHolds(r, o)
    BY <2>1, <2>2, <2>3 DEF TradeHolds
  <2>5. ASSUME NEW r \in TradeRefs, r[1] = Maker, trades'[r].state = "SUCCESS"
        PROVE  /\ trades'[r].order = trades[r].order /\ trades[r].state # "none"
               /\ trades[r].state = "SUCCESS" \/ TradeHolds(r, trades[r].order)
    BY <2>3, <2>5 DEF TradeHolds, Active
  <2> QED
    BY <1>1, <1>2, <2>4, <2>5, LocksStay
<1> QED
  BY <1>3, <1>4

(* Steps that the maker's daemon has no part in, or dies in. *)
LEMMA IdleLocks ==
    ASSUME TypeOK, TypeOK', MakerLocks, Maker \in alive', alive' \subseteq alive,
           UNCHANGED <<orders, taking>>, updater'[Maker] = updater[Maker],
           \A r \in TradeRefs : r[1] = Maker => /\ trades'[r].order = trades[r].order
                                                /\ trades'[r].state = trades[r].state
    PROVE  MakerLocks'
<1>1. OrdersMove
  BY DEF OrdersMove
<1>2. \A o \in OrderIds : TakingHolds(o)' <=> TakingHolds(o)
  BY DEF TakingHolds
<1> QED
  BY <1>1, <1>2, SameHolders

LEMMA ProcessTradeLocks ==
    ASSUME TypeOK, TypeOK', MakerLocks, Maker \in alive, NEW r \in TradeRefs,
           NEW m \in Messages, ProcessTrade(r, m),
           \A o \in OrderIds : TakingHolds(o)' <=> TakingHolds(o)
    PROVE  MakerLocks'
<1>1. /\ trades[r].state \in Active /\ UNCHANGED <<orders, updater, alive>>
      /\ \E nt, tr : /\ TradeStep(r, tr, nt)
                     /\ tr.state = trades[r].state /\ tr.order = trades[r].order
  BY ProcessTradeStep
<1>2. PICK nt, tr : /\ TradeStep(r, tr, nt)
                    /\ tr.state = trades[r].state /\ tr.order = trades[r].order
  BY <1>1
<1>3. trades'[r] = nt /\ \A q \in TradeRefs : q # r => trades'[q] = trades[q]
  BY <1>2, StepOthers
<1>4. nt.order = trades[r].order /\ nt.state \in Active
  BY <1>1, <1>2 DEF TradeStep, Active
<1>5. OrdersMove
  BY <1>1 DEF OrdersMove
<1> QED
  BY <1>1, <1>3, <1>4, <1>5, SameHolders

(* Each step of the running maker, and every step of the others. *)
LEMMA NextLocks ==
    ASSUME TypeOK, TypeOK', TodoInv, MakerLocks, [Next]_vars,
           Maker \in alive, Maker \in alive'
    PROVE  MakerLocks'
<1>0. Maker \in Parties
  BY DEF Parties
<1>1. ASSUME UNCHANGED <<trades, updater, taking>>, OrdersMove PROVE MakerLocks'
  <2>1. \A o \in OrderIds : TakingHolds(o)' <=> TakingHolds(o)
    BY <1>1 DEF TakingHolds
  <2> QED
    BY <1>1, <2>1, SameHolders
<1>2. CASE UNCHANGED vars
  BY <1>2, IdleLocks DEF vars
<1>3. CASE UserStep \/ RefreshOrders
  <2>1. ASSUME NEW o \in OrderIds, AddOrder(o) PROVE MakerLocks'
    <3>1. o \in Nat /\ MaxUnits \in Nat
      BY BoundsAssumption DEF OrderIds
    <3> QED
      BY <1>1, <2>1, <3>1, AddMoves DEF AddOrder
  <2>2. ASSUME NEW o \in OrderIds, CancelOrder(o) PROVE MakerLocks'
    BY <1>1, <2>2, RemoveMoves DEF CancelOrder
  <2>3. CASE RefreshOrders
    BY <1>1, <2>3, RefreshOrdersMove DEF RefreshOrders
  <2>4. ASSUME NEW r \in TradeRefs, NEW o \in OrderIds, NEW u \in 1 .. MaxUnits,
               TakeOrder(r, o, u)
        PROVE  MakerLocks'
    <3>1. /\ r[1] # Maker /\ UNCHANGED <<orders, updater, taking, alive>>
          /\ (\E nt, tr : TradeStep(r, tr, nt)) \/ UNCHANGED trades
      BY <2>4, TakeOrderStep, BoundsAssumption
    <3>2. \A q \in TradeRefs : q[1] = Maker => trades'[q] = trades[q]
      BY <3>1, StepOthers
    <3> QED
      BY <3>1, <3>2, IdleLocks
  <2> QED
    BY <1>3, <2>1, <2>2, <2>3, <2>4 DEF UserStep
<1>4. CASE XmppStep
  <2>1. ASSUME NEW m \in msgs, TryLock(m) PROVE MakerLocks'
    BY <2>1, TryLockLocks DEF TypeOK
  <2>2. CASE ProcessTakingLate
    <3>1. \A o \in OrderIds : TakingHolds(o)' <=> TakingHolds(o)
      BY <2>2 DEF ProcessTakingLate, TakingHolds
    <3> QED
      BY <2>2, <3>1, SameHolders DEF ProcessTakingLate, OrdersMove
  <2>3. ASSUME NEW r \in TradeRefs, ProcessTaking(r) PROVE MakerLocks'
    <3>1. taking.msg \in Messages /\ ProcessTrade(r, taking.msg)
      BY <2>3 DEF ProcessTaking, TypeOK, Takings
    <3>2. \A o \in OrderIds : TakingHolds(o)' <=> TakingHolds(o)
      BY <2>3 DEF ProcessTaking, TakingHolds
    <3> QED
      BY <3>1, <3>2, ProcessTradeLocks
  <2>4. ASSUME NEW r \in TradeRefs, NEW m \in msgs, ProcessMessage(r, m) PROVE MakerLocks'
    <3>1. \A o \in OrderIds : TakingHolds(o)' <=> TakingHolds(o)
      BY <2>4 DEF ProcessMessage, TakingHolds
    <3> QED
      BY <2>4, <3>1, ProcessTradeLocks DEF ProcessMessage, TypeOK
  <2> QED
    BY <1>4, <2>1, <2>2, <2>3, <2>4, OrderTakenLocks, OrderNotTakenLocks DEF XmppStep
<1>5. CASE UpdaterStep
  <2>1. ASSUME NEW r \in TradeRefs, SuccessAddsReduced(r) PROVE MakerLocks'
    <3> DEFINE old  == orders[trades[r].order]
               left == old.max - trades[r].units
    <3>1. /\ Current(Maker, r) /\ updater[Maker].ordersDone /\ Done(Maker, r)
          /\ UNCHANGED <<trades, taking, alive>>
          /\ \/ left > 0 /\ \E o \in OrderIds : Add(o, left, old.root)
             \/ UNCHANGED orders
      BY <2>1 DEF SuccessAddsReduced
    <3>2. old \in Orders /\ trades[r].units \in Nat
      BY <2>1 DEF SuccessAddsReduced, TypeOK, Trades
    <3>3. old.root \in Nat /\ left \in Int
      BY <3>2 DEF Orders
    <3> HIDE DEF left, old
    <3>4. OrdersMove
      BY <3>1, <3>3, AddMoves DEF OrdersMove
    <3> QED
      BY <3>1, <3>4, DoneLocks
  <2>2. ASSUME NEW p \in Parties, NEW r \in TradeRefs, FailureUnlocksInputs(p, r)
        PROVE  MakerLocks'
    <3>1. CASE p = Maker
      BY <2>2, <3>1, DoneLocks DEF FailureUnlocksInputs, WalletPart, OrdersMove
    <3>2. CASE p # Maker
      BY <1>0, <2>2, <3>2, DoneFields, IdleLocks DEF FailureUnlocksInputs
    <3> QED
      BY <3>1, <3>2
  <2>3. ASSUME NEW p \in Parties, NEW r \in TradeRefs, TakerSuccess(p, r) PROVE MakerLocks'
    BY <1>0, <2>3, DoneFields, IdleLocks DEF TakerSuccess
  <2>4. ASSUME NEW p \in Parties, UpdateThrows(p) PROVE MakerLocks'
    BY <2>4, IdleLocks DEF UpdateThrows
  <2> QED
    BY <1>5, <2>1, <2>2, <2>3, <2>4, UpdateLocks, FailureLocks, SuccessLocks DEF UpdaterStep
<1>6. ASSUME NEW r \in TradeRefs, Clock(r) PROVE MakerLocks'
  BY <1>6, ClockFields, IdleLocks
<1>7. CASE ChainStep
  BY <1>7, IdleLocks DEF ChainStep, Confirm, OtherNameOp, OtherCoinSpend
<1> QED
  BY <1>2, <1>3, <1>4, <1>5, <1>6, <1>7 DEF Next

(* When the maker's daemon is dead its orders and trades stay as they are. *)
LEMMA DeadMaker ==
    ASSUME TypeOK, TypeOK', [Next]_vars, Maker \notin alive'
    PROVE  /\ UNCHANGED orders
           /\ \A r \in TradeRefs : r[1] = Maker => /\ trades'[r].order = trades[r].order
                                                   /\ trades'[r].state = trades[r].state
<1> DEFINE Frozen == /\ UNCHANGED orders
                     /\ \A r \in TradeRefs : r[1] = Maker =>
                          /\ trades'[r].order = trades[r].order
                          /\ trades'[r].state = trades[r].state
<1>1. CASE UNCHANGED vars
  BY <1>1 DEF vars
<1>2. CASE UserStep \/ RefreshOrders
  <2>1. ASSUME NEW r \in TradeRefs, NEW o \in OrderIds, NEW u \in 1 .. MaxUnits,
               TakeOrder(r, o, u)
        PROVE  Frozen
    <3>1. /\ r[1] # Maker /\ UNCHANGED orders
          /\ (\E nt, tr : TradeStep(r, tr, nt)) \/ UNCHANGED trades
      BY <2>1, TakeOrderStep, BoundsAssumption
    <3> QED
      BY <3>1, StepOthers
  <2> QED
    BY <1>2, <2>1 DEF UserStep, RefreshOrders, AddOrder, CancelOrder
<1>3. ASSUME NEW r \in TradeRefs, NEW m \in Messages, ProcessTrade(r, m) PROVE Frozen
  <2>1. /\ r[1] \in alive /\ UNCHANGED <<orders, alive>>
        /\ \E nt, tr : TradeStep(r, tr, nt)
    BY <1>3, ProcessTradeStep
  <2> QED
    BY <2>1, StepOthers
<1>4. CASE XmppStep
  <2>1. CASE OrderNotTaken
    BY <2>1 DEF OrderNotTaken, Unlock
  <2>2. ASSUME NEW r \in TradeRefs, ProcessTaking(r) PROVE Frozen
    BY <1>3, <2>2 DEF ProcessTaking, TypeOK, Takings
  <2>3. ASSUME NEW r \in TradeRefs, NEW m \in msgs, ProcessMessage(r, m) PROVE Frozen
    BY <1>3, <2>3 DEF ProcessMessage, TypeOK
  <2> QED
    BY <1>4, <2>1, <2>2, <2>3 DEF XmppStep, TryLock, OrderTaken, ProcessTakingLate
<1>5. CASE UpdaterStep
  <2>1. ASSUME NEW p \in Parties, NEW E, UpdateAndArchiveTrades(p, E) PROVE Frozen
    BY <2>1, UpdateStep
  <2>2. ASSUME NEW r \in TradeRefs, FailureUnlocksOrder(r) PROVE Frozen
    BY <2>2 DEF FailureUnlocksOrder, Unlock, Current
  <2> QED
    BY <1>5, <2>1, <2>2
       DEF UpdaterStep, UpdateThrows, SuccessRemovesOrder, SuccessAddsReduced,
           FailureUnlocksInputs, TakerSuccess, Current
<1>6. ASSUME NEW r \in TradeRefs, Clock(r) PROVE Frozen
  BY <1>6, ClockFields
<1>7. CASE ChainStep
  BY <1>7 DEF ChainStep, Confirm, OtherNameOp, OtherCoinSpend
<1> QED
  BY <1>1, <1>2, <1>4, <1>5, <1>6, <1>7 DEF Next

(* Nobody comes back to life. *)
LEMMA AliveShrinks ==
    ASSUME TypeOK, [Next]_vars
    PROVE  alive' \subseteq alive
<1>1. CASE UNCHANGED vars
  BY <1>1 DEF vars
<1>2. CASE UserStep \/ RefreshOrders
  BY <1>2 DEF UserStep, RefreshOrders, AddOrder, CancelOrder, TakeOrder
<1>3. CASE XmppStep
  BY <1>3 DEF XmppStep, TryLock, OrderTaken, OrderNotTaken, Unlock, ProcessTaking,
              ProcessTakingLate, ProcessMessage, ProcessTrade
<1>4. CASE UpdaterStep
  BY <1>4 DEF UpdaterStep, UpdateAndArchiveTrades, UpdateThrows, FailureUnlocksOrder,
              Unlock, SuccessRemovesOrder, SuccessAddsReduced, FailureUnlocksInputs,
              TakerSuccess
<1>5. CASE (\E r \in TradeRefs : Clock(r)) \/ ChainStep
  BY <1>5 DEF Clock, ChainStep, Confirm, OtherNameOp, OtherCoinSpend
<1> QED
  BY <1>1, <1>2, <1>3, <1>4, <1>5 DEF Next

LEMMA InitLocks == Init => OrderLockInv
<1> SUFFICES ASSUME Init PROVE OrderLockInv
  OBVIOUS
<1>1. \A r \in TradeRefs : trades[r].state = "none"
  BY DEF Init, NoTrade
<1>2. \A p \in Parties : updater[p].todo = {} /\ ~updater[p].ordersDone
  BY DEF Init
<1>3. \A r \in TradeRefs, o \in OrderIds : ~TradeHolds(r, o)
  BY <1>1, <1>2 DEF TradeHolds, Active, Parties
<1>4. \A o \in OrderIds : ~TakingHolds(o) /\ orders[o].status = "none"
  BY DEF Init, TakingHolds
<1> QED
  BY <1>1, <1>2, <1>3, <1>4
     DEF OrderLockInv, TodoInv, MakerTradeUnique, HolderInv, LockedOrderHasHolder,
         FilledInv, Active

LEMMA NextOrderLocks == TypeOK /\ TypeOK' /\ OrderLockInv /\ [Next]_vars => OrderLockInv'
<1> SUFFICES ASSUME TypeOK, TypeOK', OrderLockInv, [Next]_vars PROVE OrderLockInv'
  OBVIOUS
<1>1. TodoInv'
  BY NextTodo DEF OrderLockInv
<1>2. Maker \in alive' => MakerLocks'
  BY AliveShrinks, NextLocks DEF OrderLockInv, MakerLocks
<1>3. MakerTradeUnique'
  <2>1. CASE Maker \in alive'
    <3> SUFFICES ASSUME NEW r \in TradeRefs, NEW q \in TradeRefs,
                        r[1] = Maker, q[1] = Maker,
                        trades'[r].state \in Active, trades'[q].state \in Active,
                        trades'[r].order = trades'[q].order
                 PROVE  r = q
      BY DEF MakerTradeUnique
    <3>1. PICK o \in OrderIds : o = trades'[r].order
      BY DEF TypeOK, Active
    <3>2. TradeHolds(r, o)' /\ TradeHolds(q, o)'
      BY <3>1 DEF TradeHolds
    <3> QED
      BY <1>2, <2>1, <3>2 DEF MakerLocks, HolderInv
  <2>2. CASE Maker \notin alive'
    <3>1. \A r \in TradeRefs : r[1] = Maker => /\ trades'[r].order = trades[r].order
                                               /\ trades'[r].state = trades[r].state
      BY <2>2, DeadMaker
    <3>2. MakerTradeUnique
      BY DEF OrderLockInv
    <3> QED
      BY <3>1, <3>2 DEF MakerTradeUnique
  <2> QED
    BY <2>1, <2>2
<1> QED
  BY <1>1, <1>2, <1>3 DEF OrderLockInv, MakerLocks

(* At most one thread or trade of the maker's daemon holds an order, and   *)
(* what is held is not on offer (MyOrders::TryLock, Unlock, RemoveById as  *)
(* TradeManager and Trade use them), whatever calls fail.                  *)
THEOREM OrderLockInvariant == Spec => []OrderLockInv
<1>1. Init => TypeOK /\ OrderLockInv
  BY InitType, InitLocks
<1>2. TypeOK /\ OrderLockInv /\ [Next]_vars => (TypeOK /\ OrderLockInv)'
  BY NextType, NextOrderLocks
<1> QED
  BY <1>1, <1>2, PTL DEF Spec

(* The maker never has two active trades for one of its orders, so that    *)
(* the first match of ProcessMessage is the only one.                      *)
THEOREM MakerTradesUnique == Spec => []MakerTradeUnique
<1>1. OrderLockInv => MakerTradeUnique
  BY DEF OrderLockInv
<1> QED
  BY <1>1, OrderLockInvariant, PTL

(* A locked order has a thread or a trade that will release it as long as  *)
(* the daemon runs.                                                        *)
THEOREM LockedOrdersHeld == Spec => []LockedOrderHasHolder
<1>1. OrderLockInv => LockedOrderHasHolder
  BY DEF OrderLockInv, LockedOrderHasHolder
<1> QED
  BY <1>1, OrderLockInvariant, PTL

(***************************************************************************)
(* A filled order is not offered again                                     *)
(***************************************************************************)
LEMMA NextCounterparty ==
    ASSUME TypeOK, TakersTradeWithMaker, [Next]_vars
    PROVE  TakersTradeWithMaker'
<1>1. ASSUME NEW r \in TradeRefs, NEW nt, trades' = [trades EXCEPT ![r] = nt],
             r[1] = Maker \/ nt.cp = Maker
      PROVE  TakersTradeWithMaker'
  <2>1. \A q \in TradeRefs : trades'[q] = IF q = r THEN nt ELSE trades[q]
    BY <1>1 DEF TypeOK
  <2> QED
    BY <1>1, <2>1 DEF TakersTradeWithMaker
<1>2. UNCHANGED trades => TakersTradeWithMaker'
  BY DEF TakersTradeWithMaker
<1>3. CASE UNCHANGED vars
  BY <1>2, <1>3 DEF vars
<1>4. CASE UserStep \/ RefreshOrders
  <2>1. ASSUME NEW r \in TradeRefs, NEW o \in OrderIds, NEW u \in 1 .. MaxUnits,
               TakeOrder(r, o, u)
        PROVE  TakersTradeWithMaker'
    <3>1. \/ \E nt, tr : TradeStep(r, tr, nt) /\ tr.cp = Maker
          \/ UNCHANGED trades
      BY <2>1, TakeOrderStep, BoundsAssumption
    <3> QED
      BY <1>1, <1>2, <3>1 DEF TradeStep
  <2> QED
    BY <1>2, <1>4, <2>1 DEF UserStep, RefreshOrders, AddOrder, CancelOrder
<1>5. ASSUME NEW r \in TradeRefs, NEW m \in Messages, ProcessTrade(r, m)
      PROVE  TakersTradeWithMaker'
  <2>1. PICK nt, tr : TradeStep(r, tr, nt) /\ tr.cp = trades[r].cp
    BY <1>5, ProcessTradeStep
  <2>2. trades[r].state # "none"
    BY <1>5, ProcessTradeStep DEF Active
  <2>3. trades' = [trades EXCEPT ![r] = nt] /\ (r[1] = Maker \/ nt.cp = Maker)
    BY <2>1, <2>2 DEF TradeStep, TakersTradeWithMaker
  <2> QED
    BY <1>1, <2>3
<1>6. CASE XmppStep
  <2>1. ASSUME NEW r \in TradeRefs, OrderTaken(r) PROVE TakersTradeWithMaker'
    BY <1>1, <2>1 DEF OrderTaken
  <2>2. ASSUME NEW r \in TradeRefs, ProcessTaking(r) PROVE TakersTradeWithMaker'
    BY <1>5, <2>2 DEF ProcessTaking, TypeOK, Takings
  <2>3. ASSUME NEW r \in TradeRefs, NEW m \in msgs, ProcessMessage(r, m)
        PROVE  TakersTradeWithMaker'
    BY <1>5, <2>3 DEF ProcessMessage, TypeOK
  <2> QED
    BY <1>2, <1>6, <2>1, <2>2, <2>3 DEF XmppStep, TryLock, OrderNotTaken, ProcessTakingLate
<1>7. CASE UpdaterStep
  <2>1. ASSUME NEW p \in Parties, NEW E, UpdateAndArchiveTrades(p, E)
        PROVE  TakersTradeWithMaker'
    BY <2>1, UpdateStep DEF TakersTradeWithMaker, Active
  <2> QED
    BY <1>2, <1>7, <2>1
       DEF UpdaterStep, UpdateThrows, FailureUnlocksOrder, SuccessRemovesOrder,
           SuccessAddsReduced, FailureUnlocksInputs, TakerSuccess
<1>8. ASSUME NEW r \in TradeRefs, Clock(r) PROVE TakersTradeWithMaker'
  BY <1>8, ClockFields DEF TakersTradeWithMaker
<1>9. CASE ChainStep
  BY <1>2, <1>9 DEF ChainStep, Confirm, OtherNameOp, OtherCoinSpend
<1> QED
  BY <1>3, <1>4, <1>6, <1>7, <1>8, <1>9 DEF Next

LEMMA NextReoffer ==
    TypeOK /\ TypeOK' /\ OrderLockInv' /\ ReofferInv /\ [Next]_vars => ReofferInv'
<1> SUFFICES ASSUME TypeOK, TypeOK', OrderLockInv', ReofferInv, [Next]_vars
             PROVE  ReofferInv'
  OBVIOUS
<1>1. TakersTradeWithMaker'
  BY NextCounterparty DEF ReofferInv
<1>2. ASSUME NEW r \in TradeRefs, r[1] = Maker,
             trades'[r].state \in Active \cup {"SUCCESS"}
      PROVE  orders'[trades'[r].order].status \notin {"none", "open"}
  <2>1. CASE Maker \in alive'
    <3>1. PICK o \in OrderIds : o = trades'[r].order
      BY <1>2 DEF TypeOK, Active
    <3>2. CASE TradeHolds(r, o)'
      BY <2>1, <3>1, <3>2 DEF OrderLockInv, HolderInv
    <3>3. CASE ~TradeHolds(r, o)'
      <4>1. trades'[r].state = "SUCCESS"
        BY <1>2, <3>1, <3>3 DEF TradeHolds
      <4>2. \/ TradeHolds(r, trades[r].order)'
            \/ orders'[trades'[r].order].status = "gone"
        BY <1>2, <2>1, <4>1 DEF OrderLockInv, FilledInv
      <4>3. orders'[o].status = "gone"
        BY <3>1, <3>3, <4>2 DEF TradeHolds
      <4> QED
        BY <3>1, <4>3
    <3> QED
      BY <3>2, <3>3
  <2>2. CASE Maker \notin alive'
    <3>1. UNCHANGED orders /\ trades'[r].order = trades[r].order
            /\ trades'[r].state = trades[r].state
      BY <1>2, <2>2, DeadMaker
    <3> QED
      BY <1>2, <3>1 DEF ReofferInv
  <2> QED
    BY <2>1, <2>2
<1> QED
  BY <1>1, <1>2 DEF ReofferInv

LEMMA InitReoffer == Init => ReofferInv
<1> SUFFICES ASSUME Init PROVE ReofferInv
  OBVIOUS
<1>1. \A r \in TradeRefs : trades[r].state = "none"
  BY DEF Init, NoTrade
<1> QED
  BY <1>1 DEF ReofferInv, TakersTradeWithMaker, Active

(* The maker's side of a transaction that is out is a trade of the maker   *)
(* that has not failed while the transaction may still become final.       *)
LEMMA MakerSide ==
    ASSUME TypeOK, TradeInv, TakersTradeWithMaker,
           NEW x \in Mempool \cup confirmed, NEW m, m = MakerTradeOf(x)
    PROVE  /\ m \in TradeRefs /\ m[1] = Maker
           /\ trades[m].state \in Active \cup {"SUCCESS"}
           /\ trades[m].our.tx = x /\ trades[m].units = x.units
<1>1. x \in broadcast /\ x \in Txs
  BY DEF Mempool, TradeInv, TypeOK
<1>2. /\ x.buyer \in TradeRefs /\ x.seller \in TradeRefs /\ m \in TradeRefs
      /\ m = x.buyer \/ m = x.seller
  BY <1>1 DEF Txs, MakerTradeOf
<1>3. trades[m].state \in Committed /\ trades[m].our.tx = x
  BY <1>1, <1>2, BroadcastSide
<1>4. trades[m].state # "FAILED"
  <2>1. TradeOK(m, trades[m])
    BY <1>2 DEF TradeInv
  <2> QED
    BY <1>3, <2>1 DEF TradeOK, Mempool
<1>5. BuiltByBuyer(x) /\ AtomicTrade
  BY <1>1, InvImpliesAtomic DEF TradeInv, Signers
<1>6. /\ trades[x.buyer].cp = x.seller[1] /\ trades[x.buyer].state # "none"
      /\ ~Sells(x.buyer[1])
  BY <1>1, <1>5 DEF AtomicTrade, BuiltByBuyer
<1>7. m[1] = Maker
  <2>1. CASE MakerSells
    <3>1. x.buyer[1] # Maker
      BY <1>6, <2>1 DEF Sells
    <3> QED
      BY <1>2, <1>6, <2>1, <3>1 DEF TakersTradeWithMaker, MakerTradeOf
  <2>2. CASE ~MakerSells
    BY <1>6, <2>2 DEF Sells, MakerTradeOf
  <2> QED
    BY <2>1, <2>2
<1>8. trades[m].units = x.units
  BY <1>1, <1>2, <1>5 DEF AtomicTrade
<1> QED
  BY <1>2, <1>3, <1>4, <1>7, <1>8 DEF Committed, Active

LEMMA InvImpliesNotReoffered == TypeOK /\ TradeInv /\ ReofferInv => NotReoffered
  BY MakerSide DEF NotReoffered, ReofferInv

(* No order is on offer while a transaction that fills it may become final *)
(* or has become so (MyOrders' locks against the trades' life time), as    *)
(* long as no reply of the node is lost.                                   *)
THEOREM FilledNotReoffered ==
    ASSUME "lostReply" \notin Faults
    PROVE  Spec => []NotReoffered
<1>1. Init => TypeOK /\ OrderLockInv /\ ReofferInv
  BY InitType, InitLocks, InitReoffer
<1>2. TypeOK /\ OrderLockInv /\ ReofferInv /\ [Next]_vars
        => (TypeOK /\ OrderLockInv /\ ReofferInv)'
  BY NextType, NextOrderLocks, NextReoffer
<1> QED
  BY <1>1, <1>2, TradeInvariant, InvImpliesNotReoffered, PTL DEF Spec

(***************************************************************************)
(* No unit of an offer is sold twice.  The argument: an order is for the   *)
(* units that are left when the orders before it have been filled.  A new  *)
(* order of the same offer is added only for a trade that has succeeded    *)
(* and only once, since the updater is then done with that trade; and a    *)
(* trade that may succeed, or has done so, is the only one of its order.   *)
(***************************************************************************)
(* A trade of the maker that may still be executed or has been.            *)
LiveTrade(r) == r[1] = Maker /\ trades[r].state \in Active \cup {"SUCCESS"}

(* A trade of the maker that has been executed and cleaned up after.       *)
SettledTrade(r) ==
    r[1] = Maker /\ trades[r].state = "SUCCESS" /\ r \notin updater[Maker].todo

(* Order w is for what a trade with order o has left.                      *)
FilledBefore(o, w) ==
    \E r \in TradeRefs :
        /\ SettledTrade(r) /\ trades[r].order = o
        /\ orders[w].max + trades[r].units <= orders[o].max

Exists(o) == orders[o].status # "none"

(* Trades are for existing orders, for not more than their units, and only *)
(* one of them may fill an order.                                          *)
FillTrades ==
    /\ \A r, q \in TradeRefs :
         LiveTrade(r) /\ LiveTrade(q) /\ trades[r].order = trades[q].order => r = q
    /\ \A r \in TradeRefs : r[1] = Maker /\ trades[r].state # "none" =>
         /\ Exists(trades[r].order)
         /\ trades[r].units <= orders[trades[r].order].max

(* The order that the XMPP thread has locked is not filled by a trade, and *)
(* the thread has a true copy of it.                                       *)
FillTaking ==
    \A o \in OrderIds : TakingHolds(o) =>
        /\ Exists(o) /\ taking.max = orders[o].max
        /\ \A r \in TradeRefs : LiveTrade(r) => trades[r].order # o

(* The orders of one offer come one after the other.                       *)
FillOrders ==
    /\ \A o \in OrderIds : Exists(o) =>
         /\ orders[o].root \in OrderIds /\ Exists(orders[o].root)
         /\ orders[o].max <= MaxUnits
    /\ \A o, w \in OrderIds :
         o # w /\ Exists(o) /\ Exists(w) /\ orders[o].root = orders[w].root =>
             FilledBefore(o, w) \/ FilledBefore(w, o)

FillInv == FillTrades /\ FillTaking /\ FillOrders

(* What a step leaves of the orders, of the trades and of the XMPP thread  *)
(* if it neither adds an order nor takes one.                              *)
OrderStays(o) ==
    /\ orders'[o].max = orders[o].max /\ orders'[o].root = orders[o].root
    /\ Exists(o)' <=> Exists(o)

OrdersStay == \A o \in OrderIds : OrderStays(o)

TradesStay ==
    \A r \in TradeRefs : r[1] = Maker =>
        /\ trades'[r].state # "none" =>
             /\ trades[r].state # "none"
             /\ trades'[r].order = trades[r].order /\ trades'[r].units = trades[r].units
        /\ LiveTrade(r)' => LiveTrade(r)
        /\ SettledTrade(r) => SettledTrade(r)'

TakingStays ==
    \A o \in OrderIds : TakingHolds(o)' => TakingHolds(o) /\ taking'.max = taking.max

(* A new order n for max units of the offer root.                          *)
OrderAdded(n, max, root) ==
    /\ ~Exists(n) /\ Exists(n)'
    /\ orders'[n].max = max /\ orders'[n].root = root
    /\ \A o \in OrderIds : o # n => OrderStays(o)

LEMMA FillTypes ==
    ASSUME TypeOK
    PROVE  /\ \A o \in OrderIds : orders[o].max \in Nat /\ orders[o].root \in Nat
           /\ \A r \in TradeRefs : trades[r].units \in Nat
           /\ \A r \in TradeRefs : trades[r].state # "none" => trades[r].order \in OrderIds
           /\ MaxUnits \in Nat
  BY BoundsAssumption DEF TypeOK, Orders, Trades

(* Orders that were filled before another one still are.                   *)
LEMMA FilledStays ==
    ASSUME TypeOK, TypeOK', TradesStay, NEW o \in OrderIds, NEW w \in OrderIds,
           OrderStays(o), OrderStays(w), FilledBefore(o, w)
    PROVE  FilledBefore(o, w)'
<1>1. PICK r \in TradeRefs :
        /\ SettledTrade(r) /\ trades[r].order = o
        /\ orders[w].max + trades[r].units <= orders[o].max
  BY DEF FilledBefore
<1>2. SettledTrade(r)' /\ r[1] = Maker /\ trades'[r].state # "none"
  BY <1>1 DEF TradesStay, SettledTrade
<1>3. trades'[r].order = o /\ trades'[r].units = trades[r].units
  BY <1>1, <1>2 DEF TradesStay
<1>4. orders'[w].max + trades'[r].units <= orders'[o].max
  BY <1>1, <1>3 DEF OrderStays
<1> QED
  BY <1>2, <1>3, <1>4 DEF FilledBefore

LEMMA FillTradesStay ==
    ASSUME TypeOK, TypeOK', FillTrades, TradesStay,
           \A o \in OrderIds : Exists(o) => OrderStays(o)
    PROVE  FillTrades'
<1>1. ASSUME NEW r \in TradeRefs, r[1] = Maker, trades'[r].state # "none"
      PROVE  /\ Exists(trades[r].order)'
             /\ trades'[r].units <= orders'[trades'[r].order].max
  <2>1. /\ trades[r].state # "none"
        /\ trades'[r].order = trades[r].order /\ trades'[r].units = trades[r].units
    BY <1>1 DEF TradesStay
  <2>2. PICK o \in OrderIds : o = trades[r].order
    BY <2>1, FillTypes
  <2>3. Exists(o) /\ trades[r].units <= orders[o].max
    BY <1>1, <2>1, <2>2 DEF FillTrades
  <2>4. Exists(o)' /\ orders'[o].max = orders[o].max
    BY <2>3 DEF OrderStays
  <2> QED
    BY <2>1, <2>2, <2>3, <2>4 DEF Exists
<1>2. ASSUME NEW r \in TradeRefs, NEW q \in TradeRefs, LiveTrade(r)', LiveTrade(q)',
             trades'[r].order = trades'[q].order
      PROVE  r = q
  <2>1. /\ r[1] = Maker /\ trades'[r].state # "none"
        /\ q[1] = Maker /\ trades'[q].state # "none"
    BY <1>2 DEF LiveTrade, Active
  <2>2. /\ trades'[r].order = trades[r].order /\ trades'[q].order = trades[q].order
        /\ LiveTrade(r) /\ LiveTrade(q)
    BY <1>2, <2>1 DEF TradesStay
  <2> QED
    BY <1>2, <2>2 DEF FillTrades
<1> QED
  BY <1>1, <1>2 DEF FillTrades

LEMMA FillTakingStays ==
    ASSUME TypeOK, TypeOK', FillTaking, TradesStay, TakingStays,
           \A o \in OrderIds : Exists(o) => OrderStays(o)
    PROVE  FillTaking'
<1> SUFFICES ASSUME NEW o \in OrderIds, TakingHolds(o)'
             PROVE  /\ Exists(o)' /\ taking'.max = orders'[o].max
                    /\ \A r \in TradeRefs : LiveTrade(r)' => trades'[r].order # o
  BY DEF FillTaking
<1>1. TakingHolds(o) /\ taking'.max = taking.max
  BY DEF TakingStays
<1>2. /\ Exists(o) /\ taking.max = orders[o].max
      /\ \A r \in TradeRefs : LiveTrade(r) => trades[r].order # o
  BY <1>1 DEF FillTaking
<1>3. Exists(o)' /\ taking'.max = orders'[o].max
  BY <1>1, <1>2 DEF OrderStays
<1>4. ASSUME NEW r \in TradeRefs, LiveTrade(r)' PROVE trades'[r].order # o
  <2>1. r[1] = Maker /\ trades'[r].state # "none"
    BY <1>4 DEF LiveTrade, Active
  <2> QED
    BY <1>2, <1>4, <2>1 DEF TradesStay
<1> QED
  BY <1>3, <1>4

LEMMA FillOrdersStay ==
    ASSUME TypeOK, TypeOK', FillOrders, TradesStay, OrdersStay
    PROVE  FillOrders'
<1>1. ASSUME NEW o \in OrderIds, Exists(o)'
      PROVE  /\ orders'[o].root \in OrderIds /\ Exists(orders[o].root)'
             /\ orders'[o].max <= MaxUnits
  <2>1. Exists(o) /\ orders'[o].max = orders[o].max /\ orders'[o].root = orders[o].root
    BY <1>1 DEF OrdersStay, OrderStays
  <2>2. PICK w \in OrderIds : w = orders[o].root /\ Exists(w) /\ orders[o].max <= MaxUnits
    BY <2>1 DEF FillOrders
  <2>3. Exists(w)'
    BY <2>2 DEF OrdersStay, OrderStays
  <2> QED
    BY <2>1, <2>2, <2>3 DEF Exists
<1>2. ASSUME NEW o \in OrderIds, NEW w \in OrderIds, o # w, Exists(o)', Exists(w)',
             orders'[o].root = orders'[w].root
      PROVE  FilledBefore(o, w)' \/ FilledBefore(w, o)'
  <2>1. OrderStays(o) /\ OrderStays(w)
    BY DEF OrdersStay
  <2>2. Exists(o) /\ Exists(w) /\ orders[o].root = orders[w].root
    BY <1>2, <2>1 DEF OrderStays
  <2>3. FilledBefore(o, w) \/ FilledBefore(w, o)
    BY <1>2, <2>2 DEF FillOrders
  <2> QED
    BY <2>1, <2>3, FilledStays
<1> QED
  BY <1>1, <1>2 DEF FillOrders

LEMMA FillStays ==
    ASSUME TypeOK, TypeOK', FillInv, TradesStay, OrdersStay, TakingStays
    PROVE  FillInv'
  BY FillTradesStay, FillTakingStays, FillOrdersStay DEF FillInv, OrdersStay

(* An order is added that comes after all others of its offer.             *)
LEMMA FillAdds ==
    ASSUME TypeOK, TypeOK', FillInv, TradesStay, TakingStays,
           NEW n \in OrderIds, NEW max \in Nat, NEW root \in OrderIds,
           OrderAdded(n, max, root), max <= MaxUnits, root = n \/ Exists(root),
           \A w \in OrderIds : Exists(w) /\ orders[w].root = root => FilledBefore(w, n)'
    PROVE  FillInv'
<1>1. /\ ~Exists(n) /\ Exists(n)' /\ orders'[n].max = max /\ orders'[n].root = root
      /\ \A o \in OrderIds : o # n => OrderStays(o)
  BY DEF OrderAdded
<1>2. \A o \in OrderIds : Exists(o) => OrderStays(o)
  BY <1>1
<1>3. FillTrades' /\ FillTaking'
  BY <1>2, FillTradesStay, FillTakingStays DEF FillInv
<1>4. ASSUME NEW o \in OrderIds, o # n, Exists(o)'
      PROVE  /\ Exists(o) /\ OrderStays(o)
             /\ orders'[o].root \in OrderIds /\ Exists(orders[o].root)'
             /\ orders'[o].max <= MaxUnits
  <2>1. OrderStays(o)
    BY <1>1, <1>4
  <2>2. Exists(o) /\ orders'[o].max = orders[o].max /\ orders'[o].root = orders[o].root
    BY <1>4, <2>1 DEF OrderStays
  <2>3. PICK w \in OrderIds : w = orders[o].root /\ Exists(w) /\ orders[o].max <= MaxUnits
    BY <2>2 DEF FillInv, FillOrders
  <2>4. Exists(w)'
    BY <1>2, <2>3 DEF OrderStays
  <2> QED
    BY <2>1, <2>2, <2>3, <2>4 DEF Exists
<1>5. Exists(root)'
  BY <1>1, <1>2 DEF OrderStays
<1>6. \A o \in OrderIds : Exists(o)' =>
        /\ orders'[o].root \in OrderIds /\ Exists(orders[o].root)'
        /\ orders'[o].max <= MaxUnits
  <2>1. /\ orders'[n].root \in OrderIds /\ Exists(orders[n].root)'
        /\ orders'[n].max <= MaxUnits
    BY <1>1, <1>5 DEF Exists
  <2> QED
    BY <1>4, <2>1
<1>7. ASSUME NEW o \in OrderIds, o # n, Exists(o)', orders'[o].root = root
      PROVE  FilledBefore(o, n)'
  BY <1>4, <1>7 DEF OrderStays
<1>8. ASSUME NEW o \in OrderIds, NEW w \in OrderIds, o # w, Exists(o)', Exists(w)',
             orders'[o].root = orders'[w].root
      PROVE  FilledBefore(o, w)' \/ FilledBefore(w, o)'
  <2>1. CASE o = n \/ w = n
    BY <1>1, <1>7, <1>8, <2>1
  <2>2. CASE o # n /\ w # n
    <3>1. OrderStays(o) /\ OrderStays(w) /\ Exists(o) /\ Exists(w)
      BY <1>4, <1>8, <2>2
    <3>2. FilledBefore(o, w) \/ FilledBefore(w, o)
      BY <1>8, <3>1 DEF OrderStays, FillInv, FillOrders
    <3> QED
      BY <3>1, <3>2, FilledStays
  <2> QED
    BY <2>1, <2>2
<1>9. FillOrders'
  BY <1>6, <1>8 DEF FillOrders
<1> QED
  BY <1>3, <1>9 DEF FillInv

(* RunRefresh changes nothing but the status of existing orders.           *)
LEMMA RefreshKeeps ==
    ASSUME NEW os \in [OrderIds -> Orders], RunRefresh(os), NEW o \in OrderIds
    PROVE  /\ orders'[o].max = os[o].max /\ orders'[o].root = os[o].root
           /\ Exists(o)' <=> os[o].status # "none"
<1>1. PICK D : D \subseteq Existing(os) /\ orders' = Dropped(os, D)
  BY DEF RunRefresh
<1>2. CASE o \in D
  <2>1. os[o] \in Orders /\ orders'[o] = [os[o] EXCEPT !.status = "gone"]
    BY <1>1, <1>2 DEF Dropped
  <2>2. os[o].status # "none"
    BY <1>1, <1>2 DEF Existing
  <2> QED
    BY <2>1, <2>2 DEF Orders, Exists
<1>3. CASE o \notin D
  BY <1>1, <1>3 DEF Dropped, Exists
<1> QED
  BY <1>2, <1>3

LEMMA StatusKeeps ==
    ASSUME TypeOK, NEW o \in OrderIds, Exists(o), NEW s \in {"open", "locked", "gone"},
           RunRefresh(SetStatus(o, s))
    PROVE  OrdersStay
<1>1. PICK os : os = SetStatus(o, s)
  OBVIOUS
<1>2. /\ os \in [OrderIds -> Orders] /\ os[o].status = s /\ RunRefresh(os)
      /\ \A q \in OrderIds : q # o => os[q] = orders[q]
  BY <1>1, StatusSet
<1>3. os[o].max = orders[o].max /\ os[o].root = orders[o].root
  <2>1. orders[o] \in Orders
    BY DEF TypeOK
  <2> QED
    BY <1>1, <2>1 DEF SetStatus, TypeOK, Orders
<1>4. ASSUME NEW q \in OrderIds PROVE OrderStays(q)
  <2>1. /\ orders'[q].max = os[q].max /\ orders'[q].root = os[q].root
        /\ Exists(q)' <=> os[q].status # "none"
    BY <1>2, RefreshKeeps
  <2>2. CASE q = o
    BY <1>2, <1>3, <2>1, <2>2 DEF OrderStays
  <2>3. CASE q # o
    BY <1>2, <2>1, <2>3 DEF OrderStays, Exists
  <2> QED
    BY <2>2, <2>3
<1> QED
  BY <1>4 DEF OrdersStay

LEMMA RefreshStays ==
    ASSUME TypeOK, RunRefresh(orders) \/ UNCHANGED orders
    PROVE  OrdersStay
<1>1. CASE RunRefresh(orders)
  <2>1. orders \in [OrderIds -> Orders]
    BY DEF TypeOK
  <2> QED
    BY <1>1, <2>1, RefreshKeeps DEF OrdersStay, OrderStays, Exists
<1>2. CASE UNCHANGED orders
  BY <1>2 DEF OrdersStay, OrderStays, Exists
<1> QED
  BY <1>1, <1>2

LEMMA RemoveStays ==
    ASSUME TypeOK, NEW o \in OrderIds, RemoveById(o)
    PROVE  OrdersStay
<1>1. CASE o \in Existing(orders)
  <2>1. Exists(o) /\ RunRefresh(SetStatus(o, "gone"))
    BY <1>1 DEF Existing, Exists, RemoveById, Erased
  <2> QED
    BY <2>1, StatusKeeps
<1>2. CASE o \notin Existing(orders)
  BY <1>2, RefreshStays DEF RemoveById, Erased
<1> QED
  BY <1>1, <1>2

LEMMA UnlockStays ==
    ASSUME TypeOK, NEW o \in OrderIds, Unlock(o)
    PROVE  OrdersStay
<1>1. CASE orders[o].status = "locked" /\ RunRefresh(SetStatus(o, "open"))
  BY <1>1, StatusKeeps DEF Exists
<1>2. CASE UNCHANGED orders
  BY <1>2, RefreshStays
<1> QED
  BY <1>1, <1>2 DEF Unlock

LEMMA AddAdds ==
    ASSUME TypeOK, NEW n \in OrderIds, NEW max \in Nat, NEW root \in Nat,
           Add(n, max, root)
    PROVE  OrderAdded(n, max, root)
<1>1. PICK new : new = [status |-> "open", max |-> max, root |-> root]
  OBVIOUS
<1>2. new \in Orders /\ new.status = "open" /\ new.max = max /\ new.root = root
  BY <1>1 DEF Orders
<1>3. PICK os : os = [orders EXCEPT ![n] = new]
  OBVIOUS
<1>4. /\ os \in [OrderIds -> Orders] /\ RunRefresh(os) /\ ~Exists(n)
      /\ \A q \in OrderIds : os[q] = IF q = n THEN new ELSE orders[q]
  BY <1>1, <1>2, <1>3 DEF TypeOK, Add, FreeOrderId, Exists
<1>5. \A q \in OrderIds : /\ orders'[q].max = os[q].max /\ orders'[q].root = os[q].root
                          /\ Exists(q)' <=> os[q].status # "none"
  BY <1>4, RefreshKeeps
<1>6. Exists(n)' /\ orders'[n].max = max /\ orders'[n].root = root
  BY <1>2, <1>4, <1>5
<1>7. ASSUME NEW q \in OrderIds, q # n PROVE OrderStays(q)
  BY <1>4, <1>5, <1>7 DEF OrderStays, Exists
<1> QED
  BY <1>4, <1>6, <1>7 DEF OrderAdded

(* Trades stay as they are, and the updater is done with some of them.     *)
LEMMA SameTradesStay ==
    ASSUME TypeOK, UNCHANGED trades, updater'[Maker].todo \subseteq updater[Maker].todo
    PROVE  TradesStay
  BY DEF TradesStay, LiveTrade, SettledTrade

LEMMA DoneStays ==
    ASSUME TypeOK, NEW p \in Parties, NEW r, Done(p, r)
    PROVE  updater'[Maker].todo \subseteq updater[Maker].todo
<1>1. Maker \in Parties
  BY DEF Parties
<1> QED
  BY <1>1, DoneFields

LEMMA TakingStaysSame == UNCHANGED taking \/ taking' = None => TakingStays
  BY DEF TakingStays, TakingHolds

LEMMA ProcessTradeStays ==
    ASSUME TypeOK, NEW r \in TradeRefs, NEW m \in Messages, ProcessTrade(r, m)
    PROVE  TradesStay /\ OrdersStay
<1>1. /\ trades[r].state \in Active /\ UNCHANGED <<orders, updater>>
  BY ProcessTradeStep
<1>2. PICK nt, tr : /\ TradeStep(r, tr, nt) /\ tr.state = trades[r].state
                    /\ tr.order = trades[r].order /\ tr.units = trades[r].units
  BY ProcessTradeStep
<1>3. /\ nt.order = trades[r].order /\ nt.units = trades[r].units
      /\ nt.state \in Active
  BY <1>1, <1>2 DEF TradeStep, Active
<1>4. trades'[r] = nt /\ \A q \in TradeRefs : q # r => trades'[q] = trades[q]
  BY <1>2, StepOthers
<1>5. TradesStay
  BY <1>1, <1>3, <1>4 DEF TradesStay, LiveTrade, SettledTrade, Active
<1> QED
  BY <1>1, <1>5, RefreshStays

LEMMA UpdateStays ==
    ASSUME TypeOK, NEW p \in Parties, NEW E, UpdateAndArchiveTrades(p, E)
    PROVE  TradesStay /\ OrdersStay /\ TakingStays
<1>1. /\ UNCHANGED <<orders, taking>> /\ Maker \in Parties
      /\ \A q \in Parties : q # p => updater'[q] = updater[q]
  BY UpdateStep DEF Parties
<1>2. ASSUME NEW r \in TradeRefs
      PROVE  /\ trades'[r].order = trades[r].order /\ trades'[r].units = trades[r].units
             /\ r \in updater'[p].todo <=> trades'[r].state # trades[r].state
             /\ trades'[r].state # trades[r].state =>
                  trades[r].state \in Active /\ trades'[r].state \in Final
  BY UpdateStep
<1>3. ASSUME NEW r \in TradeRefs, r[1] = Maker
      PROVE  /\ trades'[r].state # "none" => trades[r].state # "none"
             /\ LiveTrade(r)' => LiveTrade(r)
             /\ SettledTrade(r) => SettledTrade(r)'
  <2>1. trades'[r].state # "none" => trades[r].state # "none"
    BY <1>2 DEF Active
  <2>2. LiveTrade(r)' => LiveTrade(r)
    BY <1>2 DEF LiveTrade
  <2>3. SettledTrade(r) => SettledTrade(r)'
    BY <1>1, <1>2 DEF SettledTrade, Active
  <2> QED
    BY <2>1, <2>2, <2>3
<1>4. TradesStay
  BY <1>2, <1>3 DEF TradesStay
<1> QED
  BY <1>1, <1>4, RefreshStays, TakingStaysSame

(* The order that the XMPP thread locks has no trade: it was on offer.     *)
LEMMA TryLockFills ==
    ASSUME TypeOK, TypeOK', ReofferInv, FillInv, NEW m \in Messages, TryLock(m)
    PROVE  FillInv'
<1>1. PICK o \in OrderIds : o = m.order
  BY DEF Messages
<1>2. /\ orders[o].status = "open" /\ RunRefresh(SetStatus(o, "locked"))
      /\ UNCHANGED <<trades, updater>>
      /\ taking' = [msg |-> m, max |-> orders[o].max, trade |-> None]
  BY <1>1 DEF TryLock
<1>3. OrdersStay /\ TradesStay
  BY <1>2, StatusKeeps, SameTradesStay DEF Exists
<1>4. FillTrades' /\ FillOrders'
  BY <1>3, FillTradesStay, FillOrdersStay DEF FillInv, OrdersStay
<1>5. taking'.max = orders[o].max /\ taking'.msg.order = o
  BY <1>1, <1>2
<1>6. ASSUME NEW q \in OrderIds, TakingHolds(q)'
      PROVE  /\ Exists(q)' /\ taking'.max = orders'[q].max
             /\ \A r \in TradeRefs : LiveTrade(r)' => trades'[r].order # q
  <2>1. q = o
    BY <1>5, <1>6 DEF TakingHolds
  <2>2. Exists(o)' /\ orders'[o].max = orders[o].max
    BY <1>2, <1>3 DEF OrdersStay, OrderStays, Exists
  <2>3. ASSUME NEW r \in TradeRefs, LiveTrade(r)' PROVE trades'[r].order # o
    BY <1>2, <2>3 DEF LiveTrade, ReofferInv
  <2> QED
    BY <1>5, <2>1, <2>2, <2>3
<1>7. FillTaking'
  BY <1>6 DEF FillTaking
<1> QED
  BY <1>4, <1>7 DEF FillInv

LEMMA OrderTakenFills ==
    ASSUME TypeOK, TypeOK', FillInv, NEW r \in TradeRefs, OrderTaken(r)
    PROVE  FillInv'
<1>1. PICK o \in OrderIds : o = taking.msg.order
  BY DEF OrderTaken, TypeOK, Takings, Messages
<1>2. /\ r[1] = Maker /\ trades[r].state = "none" /\ UNCHANGED <<orders, updater>>
      /\ TakingHolds(o) /\ taking.msg.take <= taking.max
  BY <1>1 DEF OrderTaken, NextSlot, TakingHolds, CheckOrder
<1>3. /\ Exists(o) /\ taking.max = orders[o].max
      /\ \A q \in TradeRefs : LiveTrade(q) => trades[q].order # o
  BY <1>2 DEF FillInv, FillTaking
<1>4. PICK nt : /\ nt = NewTrade(o, taking.msg.take, taking.msg.from)
                /\ trades' = [trades EXCEPT ![r] = nt]
  BY <1>1 DEF OrderTaken
<1>5. nt.state = "INITIATED" /\ nt.order = o /\ nt.units = taking.msg.take
  BY <1>4 DEF NewTrade, NoTrade
<1>6. \A q \in TradeRefs : trades'[q] = IF q = r THEN nt ELSE trades[q]
  BY <1>4 DEF TypeOK
<1>7. \A q \in OrderIds : ~TakingHolds(q)'
  <2>1. PICK t \in Takings : t = taking /\ taking' = [t EXCEPT !.trade = r]
    BY DEF OrderTaken, TypeOK
  <2>2. taking'.trade = r /\ r # None
    BY <2>1, NoneAssumption DEF Takings
  <2> QED
    BY <2>2 DEF TakingHolds
<1>8. OrdersStay
  BY <1>2, RefreshStays
<1>9. \A q \in TradeRefs : q # r => (LiveTrade(q)' <=> LiveTrade(q)) /\ trades'[q] = trades[q]
  BY <1>6 DEF LiveTrade
<1>10. FillTrades'
  <2>1. ASSUME NEW s \in TradeRefs, NEW q \in TradeRefs, LiveTrade(s)', LiveTrade(q)',
               trades'[s].order = trades'[q].order
        PROVE  s = q
    <3>1. CASE s # r /\ q # r
      BY <1>9, <2>1, <3>1 DEF FillInv, FillTrades
    <3>2. CASE s = r \/ q = r
      BY <1>3, <1>5, <1>6, <1>9, <2>1, <3>2
    <3> QED
      BY <3>1, <3>2
  <2>2. ASSUME NEW q \in TradeRefs, q[1] = Maker, trades'[q].state # "none"
        PROVE  /\ Exists(trades[q].order)'
               /\ trades'[q].units <= orders'[trades'[q].order].max
    <3>1. CASE q = r
      BY <1>2, <1>3, <1>5, <1>6, <3>1 DEF Exists
    <3>2. CASE q # r
      BY <1>2, <1>6, <2>2, <3>2 DEF FillInv, FillTrades, Exists
    <3> QED
      BY <3>1, <3>2
  <2> QED
    BY <2>1, <2>2 DEF FillTrades
<1>11. FillTaking'
  BY <1>7 DEF FillTaking
<1>12. FillOrders'
  <2>1. ASSUME NEW a, NEW b, FilledBefore(a, b) PROVE FilledBefore(a, b)'
    <3>1. PICK q \in TradeRefs :
            /\ SettledTrade(q) /\ trades[q].order = a
            /\ orders[b].max + trades[q].units <= orders[a].max
      BY <2>1 DEF FilledBefore
    <3>2. q # r
      BY <1>2, <3>1 DEF SettledTrade
    <3>3. SettledTrade(q)' /\ trades'[q] = trades[q]
      BY <1>2, <1>9, <3>1, <3>2 DEF SettledTrade
    <3> QED
      BY <1>2, <3>1, <3>3 DEF FilledBefore
  <2> QED
    BY <1>2, <2>1 DEF FillInv, FillOrders, Exists
<1> QED
  BY <1>10, <1>11, <1>12 DEF FillInv

LEMMA AddOrderFills ==
    ASSUME TypeOK, TypeOK', FillInv, NEW o \in OrderIds, AddOrder(o)
    PROVE  FillInv'
<1>1. Add(o, MaxUnits, o) /\ UNCHANGED <<trades, updater, taking>>
  BY DEF AddOrder
<1>2. o \in Nat /\ MaxUnits \in Nat
  BY BoundsAssumption DEF OrderIds
<1>3. OrderAdded(o, MaxUnits, o)
  BY <1>1, <1>2, AddAdds
<1>4. TradesStay /\ TakingStays
  BY <1>1, SameTradesStay, TakingStaysSame
<1>5. \A w \in OrderIds : Exists(w) => orders[w].root # o
  BY <1>3 DEF FillInv, FillOrders, OrderAdded
<1>6. MaxUnits <= MaxUnits
  BY <1>2
<1> QED
  BY <1>2, <1>3, <1>4, <1>5, <1>6, FillAdds

(* The reduced order comes after the one that the trade r has filled, and  *)
(* so after all that came before that one; none came after it, since r is  *)
(* the only trade that could have filled it.                               *)
LEMMA ReducedFills ==
    ASSUME TypeOK, TypeOK', TodoInv, FillInv, NEW r \in TradeRefs, SuccessAddsReduced(r)
    PROVE  FillInv'
<1>1. /\ r \in updater[Maker].todo /\ trades[r].state = "SUCCESS"
      /\ UNCHANGED <<trades, taking>> /\ Done(Maker, r) /\ Maker \in Parties
  BY DEF SuccessAddsReduced, Current, Parties
<1>2. r[1] = Maker /\ LiveTrade(r)
  BY <1>1 DEF TodoInv, LiveTrade
<1>3. TradesStay /\ TakingStays
  BY <1>1, DoneStays, SameTradesStay, TakingStaysSame
<1>4. PICK old \in OrderIds : old = trades[r].order
  BY <1>1, FillTypes
<1>5. /\ Exists(old) /\ trades[r].units <= orders[old].max
  BY <1>1, <1>2, <1>4 DEF FillInv, FillTrades
<1>6. PICK left : left = orders[old].max - trades[r].units
  OBVIOUS
<1>7. /\ left \in Nat /\ left <= MaxUnits /\ left + trades[r].units <= orders[old].max
      /\ orders[old].root \in OrderIds /\ Exists(orders[old].root)
  <2>1. orders[old].max \in Nat /\ trades[r].units \in Nat /\ MaxUnits \in Nat
    BY FillTypes
  <2>2. /\ orders[old].max <= MaxUnits
        /\ orders[old].root \in OrderIds /\ Exists(orders[old].root)
    BY <1>5 DEF FillInv, FillOrders
  <2> QED
    BY <1>5, <1>6, <2>1, <2>2
<1>8. CASE UNCHANGED orders
  BY <1>3, <1>8, RefreshStays, FillStays
<1>9. ASSUME NEW n \in OrderIds, Add(n, left, orders[old].root)
      PROVE  FillInv'
  <2>1. PICK root \in OrderIds : root = orders[old].root /\ root \in Nat /\ Exists(root)
    BY <1>7, FillTypes
  <2>2. OrderAdded(n, left, root)
    BY <1>7, <1>9, <2>1, AddAdds
  <2>3. /\ orders'[n].max = left /\ ~Exists(n)
        /\ \A o \in OrderIds : o # n => OrderStays(o)
    BY <2>2 DEF OrderAdded
  <2>4. SettledTrade(r)' /\ trades'[r].order = old /\ trades'[r].units = trades[r].units
    <3>1. r \notin updater'[Maker].todo
      BY <1>1, DoneFields
    <3> QED
      BY <1>1, <1>2, <1>4, <3>1 DEF SettledTrade
  <2>5. ASSUME NEW w \in OrderIds, Exists(w), orders[w].root = root
        PROVE  FilledBefore(w, n)'
    <3>1. w # n /\ old # n /\ orders'[w].max = orders[w].max /\ orders'[old].max = orders[old].max
      BY <1>5, <2>3, <2>5 DEF OrderStays
    <3>2. CASE w = old
      <4>1. orders'[n].max + trades'[r].units <= orders'[old].max
        BY <1>7, <2>3, <2>4, <3>1
      <4> QED
        BY <2>4, <3>2, <4>1 DEF FilledBefore
    <3>3. CASE w # old
      <4>1. ~FilledBefore(old, w)
        <5> SUFFICES ASSUME NEW q \in TradeRefs, SettledTrade(q), trades[q].order = old
                     PROVE  FALSE
          BY DEF FilledBefore
        <5>1. LiveTrade(q) /\ q # r
          BY <1>1 DEF SettledTrade, LiveTrade
        <5> QED
          BY <1>2, <1>4, <5>1 DEF FillInv, FillTrades
      <4>2. FilledBefore(w, old)
        BY <1>5, <2>1, <2>5, <3>3, <4>1 DEF FillInv, FillOrders
      <4>3. PICK q \in TradeRefs :
              /\ SettledTrade(q) /\ trades[q].order = w
              /\ orders[old].max + trades[q].units <= orders[w].max
        BY <4>2 DEF FilledBefore
      <4>4. SettledTrade(q)' /\ trades'[q] = trades[q]
        BY <1>1, <1>3, <4>3 DEF TradesStay, SettledTrade
      <4>5. left + trades[q].units <= orders[w].max
        <5>1. /\ orders[old].max \in Nat /\ trades[q].units \in Nat /\ trades[r].units \in Nat
              /\ orders[w].max \in Nat
          BY FillTypes
        <5> QED
          BY <1>7, <4>3, <5>1
      <4>6. orders'[n].max + trades'[q].units <= orders'[w].max
        BY <2>3, <3>1, <4>4, <4>5
      <4> QED
        BY <4>3, <4>4, <4>6 DEF FilledBefore
    <3> QED
      BY <3>2, <3>3
  <2> QED
    BY <1>3, <1>7, <2>1, <2>2, <2>5, FillAdds
<1> QED
  BY <1>4, <1>6, <1>8, <1>9 DEF SuccessAddsReduced

LEMMA NextFill ==
    ASSUME TypeOK, TypeOK', TodoInv, ReofferInv, FillInv, [Next]_vars
    PROVE  FillInv'
<1>1. ASSUME UNCHANGED <<trades, updater>>, UNCHANGED taking \/ taking' = None, OrdersStay
      PROVE  FillInv'
  BY <1>1, SameTradesStay, TakingStaysSame, FillStays
<1>2. CASE UNCHANGED vars
  BY <1>1, <1>2, RefreshStays DEF vars
<1>3. CASE UserStep \/ RefreshOrders
  <2>1. ASSUME NEW o \in OrderIds, CancelOrder(o) PROVE FillInv'
    BY <1>1, <2>1, RemoveStays DEF CancelOrder
  <2>2. ASSUME NEW r \in TradeRefs, NEW o \in OrderIds, NEW u \in 1 .. MaxUnits,
               TakeOrder(r, o, u)
        PROVE  FillInv'
    <3>1. /\ r[1] # Maker /\ UNCHANGED <<orders, updater, taking>>
          /\ (\E nt, tr : TradeStep(r, tr, nt)) \/ UNCHANGED trades
      BY <2>2, TakeOrderStep, BoundsAssumption
    <3>2. \A q \in TradeRefs : q[1] = Maker => trades'[q] = trades[q]
      BY <3>1, StepOthers
    <3>3. TradesStay
      BY <3>1, <3>2 DEF TradesStay, LiveTrade, SettledTrade
    <3> QED
      BY <3>1, <3>3, RefreshStays, TakingStaysSame, FillStays
  <2>3. CASE RefreshOrders
    BY <1>1, <2>3, RefreshStays DEF RefreshOrders
  <2> QED
    BY <1>3, <2>1, <2>2, <2>3, AddOrderFills DEF UserStep
<1>4. ASSUME NEW r \in TradeRefs, NEW m \in Messages, ProcessTrade(r, m),
             UNCHANGED taking \/ taking' = None
      PROVE  FillInv'
  BY <1>4, ProcessTradeStays, TakingStaysSame, FillStays
<1>5. CASE XmppStep
  <2>1. ASSUME NEW m \in msgs, TryLock(m) PROVE FillInv'
    BY <2>1, TryLockFills DEF TypeOK
  <2>2. CASE OrderNotTaken
    <3>1. /\ UNCHANGED <<trades, updater>> /\ taking' = None
          /\ taking.msg.order \in OrderIds /\ Unlock(taking.msg.order)
      BY <2>2 DEF OrderNotTaken, TypeOK, Takings, Messages
    <3> QED
      BY <1>1, <3>1, UnlockStays
  <2>3. CASE ProcessTakingLate
    BY <1>1, <2>3, RefreshStays DEF ProcessTakingLate
  <2>4. ASSUME NEW r \in TradeRefs, ProcessTaking(r) PROVE FillInv'
    BY <1>4, <2>4 DEF ProcessTaking, TypeOK, Takings
  <2>5. ASSUME NEW r \in TradeRefs, NEW m \in msgs, ProcessMessage(r, m) PROVE FillInv'
    BY <1>4, <2>5 DEF ProcessMessage, TypeOK
  <2> QED
    BY <1>5, <2>1, <2>2, <2>3, <2>4, <2>5, OrderTakenFills DEF XmppStep
<1>6. CASE UpdaterStep
  <2>1. ASSUME NEW p \in Parties, NEW E, UpdateAndArchiveTrades(p, E) PROVE FillInv'
    BY <2>1, UpdateStays, FillStays
  <2>2. ASSUME NEW p \in Parties, UpdateThrows(p) PROVE FillInv'
    BY <1>1, <2>2, RefreshStays DEF UpdateThrows
  <2>3. ASSUME OrdersDone, UNCHANGED <<trades, taking>>, OrdersStay PROVE FillInv'
    <3>1. updater'[Maker].todo \subseteq updater[Maker].todo
      BY <2>3, OrdersDoneFields
    <3> QED
      BY <2>3, <3>1, SameTradesStay, TakingStaysSame, FillStays
  <2>4. ASSUME NEW r \in TradeRefs, FailureUnlocksOrder(r) \/ SuccessRemovesOrder(r)
        PROVE  FillInv'
    <3>1. PICK o \in OrderIds : o = trades[r].order
      BY <2>4 DEF FailureUnlocksOrder, SuccessRemovesOrder, TypeOK
    <3>2. OrdersStay
      BY <2>4, <3>1, UnlockStays, RemoveStays DEF FailureUnlocksOrder, SuccessRemovesOrder
    <3> QED
      BY <2>3, <2>4, <3>2 DEF FailureUnlocksOrder, SuccessRemovesOrder
  <2>5. ASSUME NEW p \in Parties, NEW r \in TradeRefs,
               FailureUnlocksInputs(p, r) \/ TakerSuccess(p, r)
        PROVE  FillInv'
    <3>1. UNCHANGED <<orders, trades, taking>> /\ Done(p, r)
      BY <2>5 DEF FailureUnlocksInputs, TakerSuccess
    <3> QED
      BY <3>1, DoneStays, SameTradesStay, RefreshStays, TakingStaysSame, FillStays
  <2> QED
    BY <1>6, <2>1, <2>2, <2>4, <2>5, ReducedFills DEF UpdaterStep
<1>7. ASSUME NEW r \in TradeRefs, Clock(r) PROVE FillInv'
  <2>1. TradesStay
    BY <1>7, ClockFields DEF TradesStay, LiveTrade, SettledTrade
  <2> QED
    BY <1>7, <2>1, ClockFields, RefreshStays, TakingStaysSame, FillStays
<1>8. CASE ChainStep
  BY <1>1, <1>8, RefreshStays DEF ChainStep, Confirm, OtherNameOp, OtherCoinSpend
<1> QED
  BY <1>2, <1>3, <1>5, <1>6, <1>7, <1>8 DEF Next

LEMMA InitFill == Init => FillInv
<1> SUFFICES ASSUME Init PROVE FillInv
  OBVIOUS
<1>1. \A r \in TradeRefs : trades[r].state = "none"
  BY DEF Init, NoTrade
<1>2. \A o \in OrderIds : ~Exists(o)
  BY DEF Init, Exists
<1>3. \A o \in OrderIds : ~TakingHolds(o)
  BY DEF Init, TakingHolds
<1> QED
  BY <1>1, <1>2, <1>3 DEF FillInv, FillTrades, FillTaking, FillOrders, LiveTrade, Active

(* Of two final transactions for one offer, one is for an order that was   *)
(* added after the trade of the other one, for what that has left.         *)
LEMMA FilledApart ==
    ASSUME TypeOK, TradeInv, ReofferInv, FillInv,
           NEW x \in confirmed, NEW y \in confirmed, NEW o \in OrderIds, NEW w \in OrderIds,
           o = trades[MakerTradeOf(x)].order, w = trades[MakerTradeOf(y)].order,
           FilledBefore(o, w)
    PROVE  UnitsOf(x) \cap UnitsOf(y) = {}
<1>1. PICK m \in TradeRefs : /\ m = MakerTradeOf(x) /\ LiveTrade(m)
                             /\ trades[m].order = o /\ trades[m].units = x.units
  BY MakerSide DEF LiveTrade, ReofferInv
<1>2. PICK r \in TradeRefs :
        /\ SettledTrade(r) /\ trades[r].order = o
        /\ orders[w].max + trades[r].units <= orders[o].max
  BY DEF FilledBefore
<1>3. r = m
  BY <1>1, <1>2 DEF FillInv, FillTrades, SettledTrade, LiveTrade
<1>4. x.units \in Nat /\ orders[o].max \in Nat /\ orders[w].max \in Nat /\ y.units \in Nat
  BY <1>1, FillTypes DEF TypeOK, Txs
<1>5. orders[w].max + x.units <= orders[o].max
  BY <1>1, <1>2, <1>3
<1>6. /\ UnitsOf(x) = (orders[o].max - x.units + 1) .. orders[o].max
      /\ UnitsOf(y) = (orders[w].max - y.units + 1) .. orders[w].max
  BY DEF UnitsOf
<1> QED
  BY <1>4, <1>5, <1>6

LEMMA InvImpliesFilled ==
    TypeOK /\ TradeInv /\ ReofferInv /\ FillInv => FilledWithinOffer
<1> SUFFICES ASSUME TypeOK, TradeInv, ReofferInv, FillInv PROVE FilledWithinOffer
  OBVIOUS
<1>1. ASSUME NEW x \in confirmed
      PROVE  \E o \in OrderIds, m \in TradeRefs :
               /\ m = MakerTradeOf(x) /\ trades[m].order = o /\ LiveTrade(m)
               /\ trades[m].our.tx = x /\ trades[m].units = x.units
               /\ Exists(o) /\ x.units <= orders[o].max /\ orders[o].max <= MaxUnits
  <2>1. PICK m \in TradeRefs : /\ m = MakerTradeOf(x) /\ LiveTrade(m) /\ m[1] = Maker
                               /\ trades[m].our.tx = x /\ trades[m].units = x.units
    BY MakerSide DEF LiveTrade, ReofferInv
  <2>2. trades[m].state # "none"
    BY <2>1 DEF LiveTrade, Active
  <2>3. PICK o \in OrderIds : o = trades[m].order
    BY <2>2, FillTypes
  <2>4. Exists(o) /\ x.units <= orders[o].max
    BY <2>1, <2>2, <2>3 DEF FillInv, FillTrades
  <2>5. orders[o].max <= MaxUnits
    BY <2>4 DEF FillInv, FillOrders
  <2> QED
    BY <2>1, <2>3, <2>4, <2>5
<1>2. ASSUME NEW x \in confirmed PROVE UnitsOf(x) \subseteq 1 .. MaxUnits
  <2>1. PICK o \in OrderIds : /\ o = trades[MakerTradeOf(x)].order
                              /\ x.units <= orders[o].max /\ orders[o].max <= MaxUnits
    BY <1>1
  <2>2. orders[o].max \in Nat /\ x.units \in Nat /\ MaxUnits \in Nat
    BY FillTypes DEF TypeOK, Txs
  <2>3. UnitsOf(x) = (orders[o].max - x.units + 1) .. orders[o].max
    BY <2>1 DEF UnitsOf
  <2> QED
    BY <2>1, <2>2, <2>3
<1>3. ASSUME NEW x \in confirmed, NEW y \in confirmed, x # y, RootOf(x) = RootOf(y)
      PROVE  UnitsOf(x) \cap UnitsOf(y) = {}
  <2>1. PICK o \in OrderIds, m \in TradeRefs :
          /\ m = MakerTradeOf(x) /\ trades[m].order = o /\ LiveTrade(m)
          /\ trades[m].our.tx = x /\ Exists(o)
    BY <1>1
  <2>2. PICK w \in OrderIds, n \in TradeRefs :
          /\ n = MakerTradeOf(y) /\ trades[n].order = w /\ LiveTrade(n)
          /\ trades[n].our.tx = y /\ Exists(w)
    BY <1>1
  <2>3. o # w
    BY <1>3, <2>1, <2>2 DEF FillInv, FillTrades
  <2>4. orders[o].root = orders[w].root
    BY <1>3, <2>1, <2>2 DEF RootOf
  <2>5. FilledBefore(o, w) \/ FilledBefore(w, o)
    BY <2>1, <2>2, <2>3, <2>4 DEF FillInv, FillOrders
  <2>6. CASE FilledBefore(o, w)
    BY <2>1, <2>2, <2>6, FilledApart
  <2>7. CASE FilledBefore(w, o)
    <3>1. UnitsOf(y) \cap UnitsOf(x) = {}
      BY <2>1, <2>2, <2>7, FilledApart
    <3> QED
      BY <3>1
  <2> QED
    BY <2>5, <2>6, <2>7
<1> QED
  BY <1>2, <1>3 DEF FilledWithinOffer

(* Final transactions never take more of an offer than the user has        *)
(* offered, nor the same part of it twice, over all trades with the order  *)
(* and the reduced orders that HandleSuccess adds, as long as no reply of  *)
(* the node is lost.                                                       *)
THEOREM NoUnitSoldTwice ==
    ASSUME "lostReply" \notin Faults
    PROVE  Spec => []FilledWithinOffer
<1>1. Init => TypeOK /\ OrderLockInv /\ ReofferInv /\ FillInv
  BY InitType, InitLocks, InitReoffer, InitFill
<1>2. TypeOK /\ OrderLockInv /\ ReofferInv /\ FillInv /\ [Next]_vars
        => (TypeOK /\ OrderLockInv /\ ReofferInv /\ FillInv)'
  <2>1. OrderLockInv => TodoInv
    BY DEF OrderLockInv
  <2> QED
    BY <2>1, NextType, NextOrderLocks, NextReoffer, NextFill
<1> QED
  BY <1>1, <1>2, TradeInvariant, InvImpliesFilled, PTL DEF Spec

(***************************************************************************)
(* Wallet locks                                                            *)
(***************************************************************************)
(* Nobody owns anything new. *)
LEMMA LockedKeeps ==
    ASSUME NEW own, NEW item, NEW locks, LockedFor(own, item, locks),
           NEW own2 \in SUBSET TradeRefs, NEW item2, NEW locks2, locks \subseteq locks2,
           \A r \in TradeRefs : item2[r] = item[r] \/ item2[r] = {},
           \A r \in own2 : r \in own \/ item2[r] = {}
    PROVE  LockedFor(own2, item2, locks2)
  BY DEF LockedFor

(* The trade r takes x, which was not locked. *)
Takes(r, x, own, item, locks, own2, item2, locks2) ==
    /\ r \in TradeRefs /\ own2 \in SUBSET TradeRefs /\ own2 \subseteq own \cup {r}
    /\ x \notin locks /\ x[1] = r[1] /\ item2[r] = {x}
    /\ locks2 = locks \cup {x} /\ LockedFor(own, item, locks)
    /\ \A q \in TradeRefs : q # r => item2[q] = item[q]

LEMMA LockedTakes ==
    ASSUME NEW r, NEW x, NEW own, NEW item, NEW locks, NEW own2, NEW item2, NEW locks2,
           Takes(r, x, own, item, locks, own2, item2, locks2)
    PROVE  LockedFor(own2, item2, locks2)
<1> USE DEF Takes
<1>1. \A q \in TradeRefs : \A y \in item2[q] : y[1] = q[1]
  BY DEF LockedFor
<1>2. \A q \in own2 : item2[q] \subseteq locks2
  BY DEF LockedFor
<1>3. ASSUME NEW q \in own2, NEW z \in own2, q # z PROVE item2[q] \cap item2[z] = {}
  <2>1. CASE q = r
    BY <1>3, <2>1 DEF LockedFor
  <2>2. CASE z = r
    BY <1>3, <2>2 DEF LockedFor
  <2>3. CASE q # r /\ z # r
    BY <1>3, <2>3 DEF LockedFor
  <2> QED
    BY <2>1, <2>2, <2>3
<1> QED
  BY <1>1, <1>2, <1>3 DEF LockedFor

(* The trade r goes away, and its locks with it. *)
LEMMA LockedReleases ==
    ASSUME NEW own \in SUBSET TradeRefs, NEW item, NEW locks, LockedFor(own, item, locks),
           NEW r \in own, NEW own2, own2 = own \ {r},
           NEW locks2, locks \ item[r] \subseteq locks2
    PROVE  LockedFor(own2, item, locks2)
<1>1. ASSUME NEW q \in own2 PROVE item[q] \subseteq locks2
  <2>1. q \in own /\ q # r
    BY <1>1
  <2>2. item[q] \cap item[r] = {} /\ item[q] \subseteq locks
    BY <2>1 DEF LockedFor
  <2> QED
    BY <2>2
<1> QED
  BY <1>1 DEF LockedFor

LEMMA OwnersType == Owners \in SUBSET TradeRefs /\ Owners' \in SUBSET TradeRefs
  BY DEF Owners

(* The items after the contents of one trade were replaced. *)
LEMMA PutItems ==
    ASSUME TypeOK, NEW r \in TradeRefs, NEW nt, trades' = [trades EXCEPT ![r] = nt]
    PROVE  /\ NameItem'[r] = NameHeld(nt) /\ CoinItem'[r] = CoinHeld(r, nt)
           /\ \A q \in TradeRefs : q # r =>
                NameItem'[q] = NameItem[q] /\ CoinItem'[q] = CoinItem[q]
<1>1. \A q \in TradeRefs : trades'[q] = IF q = r THEN nt ELSE trades[q]
  BY DEF TypeOK
<1> QED
  BY <1>1 DEF NameItem, CoinItem, NameHeld, CoinHeld, Sells

LEMMA SameItems ==
    ASSUME \A r \in TradeRefs : /\ trades'[r].name = trades[r].name
                                /\ trades'[r].our = trades[r].our
    PROVE  NameItem' = NameItem /\ CoinItem' = CoinItem
  BY DEF NameItem, CoinItem, NameHeld, CoinHeld, Sells

(* A step of HasReply or TakeOrder with the trade r. *)
LEMMA WalletTrade ==
    ASSUME TypeOK, WalletInv, NEW r \in TradeRefs, NEW tr, NEW nt, TradeStep(r, tr, nt),
           Owners' \subseteq Owners \cup {r},
           \/ r \in Owners /\ tr.name = trades[r].name /\ tr.our = trades[r].our
           \/ tr.name = None /\ tr.our = None
    PROVE  WalletInv'
<1>0. /\ trades' = [trades EXCEPT ![r] = nt] /\ WalletStep(r, tr, nt)
      /\ LockedFor(Owners, NameItem, nameLocks) /\ LockedFor(Owners, CoinItem, coinLocks)
  BY DEF TradeStep, WalletInv
<1>1. /\ NameItem'[r] = NameHeld(nt) /\ CoinItem'[r] = CoinHeld(r, nt)
      /\ \A q \in TradeRefs : q # r =>
           NameItem'[q] = NameItem[q] /\ CoinItem'[q] = CoinItem[q]
  BY <1>0, PutItems
<1>2. NameItem[r] = NameHeld(trades[r]) /\ CoinItem[r] = CoinHeld(r, trades[r])
  BY DEF NameItem, CoinItem
<1>3. ASSUME nt.name = tr.name, nameLocks \subseteq nameLocks'
      PROVE  LockedFor(Owners', NameItem', nameLocks')
  <2>1. \A q \in TradeRefs : NameItem'[q] = NameItem[q] \/ NameItem'[q] = {}
    BY <1>1, <1>2, <1>3 DEF NameHeld
  <2>2. \A q \in Owners' : q \in Owners \/ NameItem'[q] = {}
    BY <1>1, <1>3 DEF NameHeld
  <2> QED
    BY <1>0, <1>3, <2>1, <2>2, LockedKeeps, OwnersType
<1>4. ASSUME Sells(r[1]) \/ nt.our = tr.our, coinLocks \subseteq coinLocks'
      PROVE  LockedFor(Owners', CoinItem', coinLocks')
  <2>1. \A q \in TradeRefs : CoinItem'[q] = CoinItem[q] \/ CoinItem'[q] = {}
    BY <1>1, <1>2, <1>4 DEF CoinHeld
  <2>2. \A q \in Owners' : q \in Owners \/ CoinItem'[q] = {}
    BY <1>1, <1>4 DEF CoinHeld
  <2> QED
    BY <1>0, <1>4, <2>1, <2>2, LockedKeeps, OwnersType
<1>5. CASE /\ nt.name = tr.name /\ UNCHANGED wallets
           /\ nt.our = tr.our \/ Sells(r[1])
  BY <1>3, <1>4, <1>5 DEF WalletInv, LockedFor, wallets
<1>6. CASE /\ NameOf(r) \notin nameLocks
           /\ nameLocks' = nameLocks \cup {NameOf(r)} /\ UNCHANGED coinLocks
           /\ nt.name = NameOf(r) /\ nt.our = tr.our
  <2>1. PICK x : x = NameOf(r)
    OBVIOUS
  <2>2. x # None /\ x[1] = r[1]
    BY <2>1, NameOfType, NoneAssumption DEF NameOf
  <2>3. NameItem'[r] = {x}
    BY <1>1, <1>6, <2>1, <2>2 DEF NameHeld
  <2>4. PICK own2, item2, locks2 :
          own2 = Owners' /\ item2 = NameItem' /\ locks2 = nameLocks'
    OBVIOUS
  <2>5. LockedFor(own2, item2, locks2)
    <3>1. Takes(r, x, Owners, NameItem, nameLocks, own2, item2, locks2)
      BY <1>0, <1>1, <1>6, <2>1, <2>2, <2>3, <2>4, OwnersType DEF Takes
    <3> QED
      BY <3>1, LockedTakes
  <2> QED
    BY <1>4, <1>6, <2>4, <2>5 DEF WalletInv
<1>7. CASE /\ ~Sells(r[1]) /\ nt.our # None /\ nt.name = tr.name
           /\ nt.our.tx.coin \notin coinLocks /\ nt.our.tx.coin[1] = r[1]
           /\ coinLocks' = coinLocks \cup {nt.our.tx.coin} /\ UNCHANGED nameLocks
  <2>1. PICK x : x = nt.our.tx.coin
    OBVIOUS
  <2>2. CoinItem'[r] = {x}
    BY <1>1, <1>7, <2>1 DEF CoinHeld
  <2>3. PICK own2, item2, locks2 :
          own2 = Owners' /\ item2 = CoinItem' /\ locks2 = coinLocks'
    OBVIOUS
  <2>4. LockedFor(own2, item2, locks2)
    <3>1. Takes(r, x, Owners, CoinItem, coinLocks, own2, item2, locks2)
      BY <1>0, <1>1, <1>7, <2>1, <2>2, <2>3, OwnersType DEF Takes
    <3> QED
      BY <3>1, LockedTakes
  <2> QED
    BY <1>3, <1>7, <2>3, <2>4 DEF WalletInv
<1>8. CASE /\ nt.name = tr.name /\ nt.our = tr.our
           /\ nameLocks \subseteq nameLocks' /\ coinLocks \subseteq coinLocks'
  BY <1>3, <1>4, <1>8 DEF WalletInv, LockedFor
<1> QED
  BY <1>0, <1>5, <1>6, <1>7, <1>8 DEF WalletStep

(***************************************************************************)
(* Every step is one of four kinds as far as wallet locks are concerned.   *)
(***************************************************************************)
(* The trades own what they did; outcomes become known.                    *)
OwnersStay ==
    /\ Owners' = Owners /\ UNCHANGED wallets
    /\ \A r \in TradeRefs :
         /\ trades'[r].name = trades[r].name /\ trades'[r].our = trades[r].our
         /\ trades'[r].sd = trades[r].sd
         /\ trades'[r].state \in Committed => trades[r].state \in Committed
         /\ trades'[r].state = "SUCCESS" =>
              trades[r].state = "SUCCESS" \/ trades[r].our.tx \in confirmed

(* A trade is started, or goes on.                                         *)
OwnerActs(r, tr, nt) ==
    /\ TradeStep(r, tr, nt) /\ Owners' = Owners \cup {r} /\ UNCHANGED chain
    /\ \/ /\ r \in Owners /\ tr.name = trades[r].name /\ tr.our = trades[r].our
          /\ tr.state = trades[r].state
          /\ Sells(r[1]) => tr.sd = trades[r].sd
       \/ /\ r \notin Owners /\ tr.name = None /\ tr.our = None
          /\ tr.state = "INITIATED"

(* A trade is cleaned up after.                                            *)
OwnerReleases(r) ==
    /\ r \in Owners /\ Owners' = Owners \ {r} /\ UNCHANGED <<trades, chain>>
    /\ \/ /\ nameLocks' = nameLocks \ {trades[r].name}
          /\ coinLocks' = coinLocks \ CoinHeld(r, trades[r])
       \/ trades[r].state = "SUCCESS" /\ UNCHANGED wallets

(* TakeOrder throws after it has locked the name.                          *)
TakeOrderLeaks ==
    /\ "midway" \in Faults /\ Owners' = Owners /\ UNCHANGED <<trades, coinLocks, chain>>
    /\ nameLocks \subseteq nameLocks'

WalletCases ==
    \/ OwnersStay
    \/ \E r \in TradeRefs : \E tr, nt : OwnerActs(r, tr, nt)
    \/ \E r \in TradeRefs : OwnerReleases(r)
    \/ TakeOrderLeaks

LEMMA SameOwners ==
    ASSUME UNCHANGED wallets,
           \A r \in TradeRefs :
             /\ trades'[r].state = trades[r].state /\ trades'[r].sd = trades[r].sd
             /\ trades'[r].name = trades[r].name /\ trades'[r].our = trades[r].our
             /\ r \in updater'[r[1]].todo <=> r \in updater[r[1]].todo
    PROVE  OwnersStay
  BY DEF OwnersStay, Owners, OwnsLocks

LEMMA UnchangedOwners == UNCHANGED <<wallets, trades, updater>> => OwnersStay
  BY SameOwners

LEMMA UpdateOwners ==
    ASSUME TypeOK, NEW p \in Parties, NEW E, UpdateAndArchiveTrades(p, E)
    PROVE  OwnersStay
<1>1. ASSUME NEW r \in TradeRefs PROVE OwnsLocks(r)' <=> OwnsLocks(r)
  <2>1. r[1] \in Parties /\ Active \cap Final = {}
    BY DEF TradeRefs, Active, Final
  <2>2. CASE trades'[r].state = trades[r].state
    <3>1. CASE r[1] = p
      BY <2>2, <3>1, UpdateStep DEF OwnsLocks
    <3>2. CASE r[1] # p
      BY <2>1, <2>2, <3>2, UpdateStep DEF OwnsLocks
    <3> QED
      BY <3>1, <3>2
  <2>3. CASE trades'[r].state # trades[r].state
    BY <2>1, <2>3, UpdateStep DEF OwnsLocks
  <2> QED
    BY <2>2, <2>3
<1>2. Owners' = Owners
  BY <1>1 DEF Owners
<1>3. ASSUME NEW r \in TradeRefs
      PROVE  /\ trades'[r].state \in Committed => trades[r].state \in Committed
             /\ trades'[r].state = "SUCCESS" =>
                  trades[r].state = "SUCCESS" \/ trades[r].our.tx \in confirmed
  BY UpdateStep DEF Committed, Final
<1> QED
  BY <1>2, <1>3, UpdateStep DEF OwnersStay

LEMMA DoneOwners ==
    ASSUME TypeOK, TodoInv, NEW p \in Parties, NEW r \in TradeRefs, Current(p, r),
           Done(p, r), UNCHANGED trades
    PROVE  r[1] = p /\ r \in Owners /\ Owners' = Owners \ {r}
<1>1. r[1] = p /\ trades[r].state \in Final /\ r \in updater[p].todo
  BY DEF TodoInv, Current
<1>2. trades[r].state \notin Active
  BY <1>1 DEF Active, Final
<1>3. ASSUME NEW q \in TradeRefs PROVE OwnsLocks(q)' <=> OwnsLocks(q) /\ q # r
  <2>1. q[1] \in Parties
    BY DEF TradeRefs
  <2>2. CASE q[1] = p
    BY <1>1, <1>2, <2>2, DoneFields DEF OwnsLocks
  <2>3. CASE q[1] # p
    BY <1>1, <2>1, <2>3, DoneFields DEF OwnsLocks
  <2> QED
    BY <2>2, <2>3
<1> QED
  BY <1>1, <1>3 DEF Owners, OwnsLocks

LEMMA StepOwners ==
    ASSUME TypeOK, NEW r \in TradeRefs, NEW tr, NEW nt, TradeStep(r, tr, nt),
           UNCHANGED updater, nt.state \in Active
    PROVE  Owners' = Owners \cup {r}
<1>1. trades'[r] = nt /\ \A q \in TradeRefs : q # r => trades'[q] = trades[q]
  BY StepOthers
<1>2. \A q \in TradeRefs : OwnsLocks(q)' <=> OwnsLocks(q) \/ q = r
  BY <1>1 DEF OwnsLocks
<1> QED
  BY <1>2 DEF Owners

LEMMA NoneOwnsNothing ==
    ASSUME TodoInv, NEW r \in TradeRefs, trades[r].state = "none"
    PROVE  r \notin Owners
<1>1. r[1] \in Parties
  BY DEF TradeRefs
<1> QED
  BY <1>1 DEF Owners, OwnsLocks, TodoInv, Active, Final

LEMMA NextWalletCases ==
    ASSUME TypeOK, TypeOK', TodoInv, [Next]_vars
    PROVE  WalletCases
<1>1. UNCHANGED <<wallets, trades, updater>> => WalletCases
  BY UnchangedOwners DEF WalletCases
<1>2. CASE UNCHANGED vars
  BY <1>1, <1>2 DEF vars, wallets
<1>3. ASSUME NEW r \in TradeRefs, NEW o \in OrderIds, NEW u \in 1 .. MaxUnits,
             TakeOrder(r, o, u)
      PROVE  WalletCases
  <2>1. trades[r].state = "none" /\ UNCHANGED <<updater, chain>>
    BY <1>3, TakeOrderStep, BoundsAssumption
  <2>2. r \notin Owners
    BY <2>1, NoneOwnsNothing
  <2>3. ASSUME NEW nt, NEW tr, TradeStep(r, tr, nt), nt.state = "INITIATED",
               tr.name = None, tr.our = None
        PROVE  WalletCases
    <3>1. tr.state = "INITIATED"
      BY <2>3 DEF TradeStep
    <3>2. Owners' = Owners \cup {r}
      BY <2>1, <2>3, StepOwners DEF Active
    <3> QED
      BY <2>1, <2>2, <2>3, <3>1, <3>2 DEF WalletCases, OwnerActs
  <2>4. CASE /\ UNCHANGED <<trades, coinLocks>> /\ nameLocks \subseteq nameLocks'
             /\ "midway" \in Faults
    <3>1. Owners' = Owners
      BY <2>1, <2>4 DEF Owners, OwnsLocks
    <3> QED
      BY <2>1, <2>4, <3>1 DEF WalletCases, TakeOrderLeaks
  <2> QED
    BY <1>3, <2>3, <2>4, TakeOrderStep, BoundsAssumption
<1>4. CASE UserStep \/ RefreshOrders
  BY <1>1, <1>3, <1>4 DEF UserStep, RefreshOrders, AddOrder, CancelOrder
<1>5. ASSUME NEW r \in TradeRefs, NEW m \in Messages, ProcessTrade(r, m)
      PROVE  WalletCases
  <2>1. PICK nt, tr : /\ TradeStep(r, tr, nt)
                      /\ tr.state = trades[r].state
                      /\ tr.name = trades[r].name /\ tr.our = trades[r].our
                      /\ Sells(r[1]) => tr.sd = trades[r].sd
    BY <1>5, ProcessTradeStep
  <2>2. trades[r].state \in Active /\ UNCHANGED <<updater, chain>>
    BY <1>5, ProcessTradeStep
  <2>3. nt.state \in Active /\ r \in Owners
    BY <2>1, <2>2 DEF TradeStep, Active, Owners, OwnsLocks
  <2>4. Owners' = Owners \cup {r}
    BY <2>1, <2>2, <2>3, StepOwners
  <2> QED
    BY <2>1, <2>2, <2>3, <2>4 DEF WalletCases, OwnerActs
<1>6. ASSUME NEW r \in TradeRefs, OrderTaken(r) PROVE WalletCases
  <2>1. PICK nt : nt = NewTrade(taking.msg.order, taking.msg.take, taking.msg.from)
    OBVIOUS
  <2>2. /\ nt.state = "INITIATED" /\ nt.name = None /\ nt.our = None
    BY <2>1 DEF NewTrade, NoTrade
  <2>3. /\ trades' = [trades EXCEPT ![r] = nt] /\ trades[r].state = "none"
        /\ UNCHANGED <<updater, wallets, chain>>
    BY <1>6, <2>1 DEF OrderTaken, NextSlot
  <2>4. nt \in Trades
    <3>1. trades'[r] = nt
      BY <2>3 DEF TypeOK
    <3> QED
      BY <3>1 DEF TypeOK
  <2>5. TradeStep(r, nt, nt)
    BY <2>3, <2>4 DEF TradeStep, WalletStep
  <2>6. r \notin Owners /\ Owners' = Owners \cup {r}
    BY <2>2, <2>3, <2>5, NoneOwnsNothing, StepOwners DEF Active
  <2> QED
    BY <2>2, <2>3, <2>5, <2>6 DEF WalletCases, OwnerActs
<1>7. CASE XmppStep
  <2>1. ASSUME NEW r \in TradeRefs, ProcessTaking(r) PROVE WalletCases
    BY <1>5, <2>1 DEF ProcessTaking, TypeOK, Takings
  <2>2. ASSUME NEW r \in TradeRefs, NEW m \in msgs, ProcessMessage(r, m)
        PROVE  WalletCases
    BY <1>5, <2>2 DEF ProcessMessage, TypeOK
  <2> QED
    BY <1>1, <1>6, <1>7, <2>1, <2>2 DEF XmppStep, TryLock, OrderNotTaken, ProcessTakingLate
<1>8. CASE UpdaterStep
  <2>1. ASSUME NEW p \in Parties, NEW E, UpdateAndArchiveTrades(p, E)
        PROVE  WalletCases
    BY <2>1, UpdateOwners DEF WalletCases
  <2>2. ASSUME NEW p \in Parties, UpdateThrows(p) PROVE WalletCases
    BY <1>1, <2>2 DEF UpdateThrows
  <2>3. ASSUME NEW r \in TradeRefs, OrdersDone, UNCHANGED <<trades, wallets>>
        PROVE  WalletCases
    <3>1. \A q \in TradeRefs : q \in updater'[q[1]].todo <=> q \in updater[q[1]].todo
      <4>1. \A q \in TradeRefs : q[1] \in Parties
        BY DEF TradeRefs
      <4> QED
        BY <2>3, <4>1, OrdersDoneFields
    <3> QED
      BY <2>3, <3>1, SameOwners DEF WalletCases
  <2>4. ASSUME NEW r \in TradeRefs, NEW p \in Parties, Current(p, r), Done(p, r),
               UNCHANGED <<trades, chain>>, trades[r].state = "SUCCESS", UNCHANGED wallets
        PROVE  WalletCases
    BY <2>4, DoneOwners DEF WalletCases, OwnerReleases
  <2>5. ASSUME NEW r \in TradeRefs, NEW p \in Parties, FailureUnlocksInputs(p, r)
        PROVE  WalletCases
    <3>1. /\ Current(p, r) /\ Done(p, r) /\ UNCHANGED <<trades, chain>>
          /\ nameLocks' = nameLocks \ {trades[r].name}
          /\ coinLocks' = IF ~Sells(p) /\ trades[r].our # None
                          THEN coinLocks \ {trades[r].our.tx.coin} ELSE coinLocks
      BY <2>5 DEF FailureUnlocksInputs
    <3>2. r[1] = p /\ r \in Owners /\ Owners' = Owners \ {r}
      BY <3>1, DoneOwners
    <3>3. coinLocks' = coinLocks \ CoinHeld(r, trades[r])
      BY <3>1, <3>2 DEF CoinHeld
    <3> QED
      BY <3>1, <3>2, <3>3 DEF WalletCases, OwnerReleases
  <2>6. Maker \in Parties
    BY DEF Parties
  <2> QED
    BY <1>8, <2>1, <2>2, <2>3, <2>4, <2>5, <2>6
       DEF UpdaterStep, FailureUnlocksOrder, SuccessRemovesOrder, SuccessAddsReduced,
           TakerSuccess
<1>9. ASSUME NEW r \in TradeRefs, Clock(r) PROVE WalletCases
  BY <1>9, ClockFields, SameOwners DEF WalletCases
<1>10. CASE ChainStep
  BY <1>1, <1>10 DEF ChainStep, Confirm, OtherNameOp, OtherCoinSpend
<1> QED
  BY <1>2, <1>4, <1>7, <1>8, <1>9, <1>10 DEF Next

(***************************************************************************)
(* No output is used by two trades                                         *)
(***************************************************************************)
LEMMA NextWallet ==
    ASSUME TypeOK, TypeOK', TodoInv, WalletInv, [Next]_vars
    PROVE  WalletInv'
<1>1. CASE OwnersStay
  <2>1. NameItem' = NameItem /\ CoinItem' = CoinItem
    BY <1>1, SameItems DEF OwnersStay
  <2> QED
    BY <1>1, <2>1 DEF OwnersStay, WalletInv, LockedFor, wallets
<1>2. ASSUME NEW r \in TradeRefs, NEW tr, NEW nt, OwnerActs(r, tr, nt)
      PROVE  WalletInv'
  BY <1>2, WalletTrade DEF OwnerActs
<1>3. ASSUME NEW r \in TradeRefs, OwnerReleases(r) PROVE WalletInv'
  <2>1. NameItem' = NameItem /\ CoinItem' = CoinItem
    BY <1>3, SameItems DEF OwnerReleases
  <2>2. /\ r \in Owners /\ Owners' = Owners \ {r} /\ UNCHANGED trades
        /\ nameLocks \ NameItem[r] \subseteq nameLocks'
        /\ coinLocks \ CoinItem[r] \subseteq coinLocks'
    <3>1. NameItem[r] = {trades[r].name} \ {None} /\ CoinItem[r] = CoinHeld(r, trades[r])
      BY DEF NameItem, CoinItem, NameHeld
    <3>2. None \notin nameLocks
      BY NoneAssumption DEF TypeOK
    <3> QED
      BY <1>3, <3>1, <3>2 DEF OwnerReleases, wallets
  <2>3. LockedFor(Owners', NameItem', nameLocks')
    BY <2>1, <2>2, LockedReleases, OwnersType DEF WalletInv
  <2>4. LockedFor(Owners', CoinItem', coinLocks')
    BY <2>1, <2>2, LockedReleases, OwnersType DEF WalletInv
  <2> QED
    BY <2>3, <2>4 DEF WalletInv
<1>4. CASE TakeOrderLeaks
  <2>1. NameItem' = NameItem /\ CoinItem' = CoinItem
    BY <1>4, SameItems DEF TakeOrderLeaks
  <2> QED
    BY <1>4, <2>1 DEF TakeOrderLeaks, WalletInv, LockedFor
<1> QED
  BY <1>1, <1>2, <1>3, <1>4, NextWalletCases DEF WalletCases

LEMMA InitWallet == Init => WalletInv
<1> SUFFICES ASSUME Init PROVE WalletInv
  OBVIOUS
<1>1. \A r \in TradeRefs : trades[r].name = None /\ trades[r].our = None
  BY DEF Init, NoTrade
<1>2. \A r \in TradeRefs : NameItem[r] = {} /\ CoinItem[r] = {}
  BY <1>1 DEF NameItem, CoinItem, NameHeld, CoinHeld
<1> QED
  BY <1>2, OwnersType DEF WalletInv, LockedFor

LEMMA InvImpliesExclusive == TypeOK /\ WalletInv => InputsExclusive
<1> SUFFICES ASSUME TypeOK, WalletInv, NEW r \in TradeRefs, NEW q \in TradeRefs, r # q,
                    trades[r].state \in Active, trades[q].state \in Active, r[1] = q[1]
             PROVE  /\ trades[r].name # None => trades[r].name # trades[q].name
                    /\ ~Sells(r[1]) /\ trades[r].our # None /\ trades[q].our # None =>
                         trades[r].our.tx.coin # trades[q].our.tx.coin
  BY DEF InputsExclusive
<1>1. r \in Owners /\ q \in Owners
  BY DEF Owners, OwnsLocks
<1>2. NameItem[r] \cap NameItem[q] = {} /\ CoinItem[r] \cap CoinItem[q] = {}
  BY <1>1 DEF WalletInv, LockedFor
<1> QED
  BY <1>2 DEF NameItem, CoinItem, NameHeld, CoinHeld

(* Whatever calls fail, what a trade that is not over has locked in the    *)
(* wallet is locked, and for no other trade of the daemon                  *)
(* (CreateSellerData, ConstructTransaction, HandleFailure).                *)
THEOREM WalletLockInvariant == Spec => [](TodoInv /\ WalletInv)
<1>1. Init => TypeOK /\ TodoInv /\ WalletInv
  BY InitType, InitLocks, InitWallet DEF OrderLockInv
<1>2. TypeOK /\ TodoInv /\ WalletInv /\ [Next]_vars => (TypeOK /\ TodoInv /\ WalletInv)'
  BY NextType, NextTodo, NextWallet
<1> QED
  BY <1>1, <1>2, PTL DEF Spec

(* No two active trades of a daemon use the same name output or coin.      *)
THEOREM InputsNotShared == Spec => []InputsExclusive
<1>1. TypeOK /\ TodoInv /\ WalletInv => InputsExclusive
  BY InvImpliesExclusive
<1> QED
  BY <1>1, WalletLockInvariant, TypeCorrect, PTL

(***************************************************************************)
(* No lock is lost                                                         *)
(***************************************************************************)
LEMMA AccountedKeeps ==
    ASSUME NEW own, NEW item, NEW locks, NEW spent, Accounted(own, item, locks, spent),
           NEW own2, NEW item2, NEW locks2, NEW spent2,
           locks2 \subseteq locks, spent \subseteq spent2, own \subseteq own2,
           \A r \in own : item[r] \subseteq item2[r]
    PROVE  Accounted(own2, item2, locks2, spent2)
  BY DEF Accounted

LEMMA AccountedTakes ==
    ASSUME NEW own, NEW item, NEW locks, NEW spent, Accounted(own, item, locks, spent),
           NEW own2, NEW item2, NEW locks2, NEW r \in own2, NEW x,
           locks2 = locks \cup {x}, own \subseteq own2, x \in item2[r],
           \A q \in own : item[q] \subseteq item2[q]
    PROVE  Accounted(own2, item2, locks2, spent)
  BY DEF Accounted

LEMMA AccountedReleases ==
    ASSUME NEW own, NEW item, NEW locks, NEW spent, Accounted(own, item, locks, spent),
           NEW r \in own, NEW own2, NEW locks2, own2 = own \ {r},
           \/ locks2 = locks \ item[r]
           \/ locks2 = locks /\ item[r] \subseteq spent
    PROVE  Accounted(own2, item, locks2, spent)
  BY DEF Accounted

(* The chain only grows, and with it the set of spent outputs. *)
LEMMA NextChain ==
    ASSUME TypeOK, [Next]_vars
    PROVE  /\ confirmed \subseteq confirmed' /\ spentCoins \subseteq spentCoins'
           /\ SpentNames \subseteq SpentNames'
           /\ \A x \in confirmed' :
                x \in confirmed \/ (x.name \in SpentNames' /\ x.coin \in spentCoins')
<1>1. ASSUME UNCHANGED chain
      PROVE  /\ UNCHANGED <<confirmed, spentCoins>> /\ SpentNames' = SpentNames
  BY <1>1 DEF chain, SpentNames
<1>2. ASSUME NEW p \in Parties, nameOut' = [nameOut EXCEPT ![p] = @ + 1]
      PROVE  /\ SpentNames \subseteq SpentNames'
             /\ \A n \in Names : n[1] = p /\ n[2] = nameOut[p] => n \in SpentNames'
  <2>1. \A q \in Parties : nameOut[q] \in Nat /\ nameOut'[q] =
           IF q = p THEN nameOut[q] + 1 ELSE nameOut[q]
    BY <1>2 DEF TypeOK
  <2>2. \A n \in Names : n[1] \in Parties /\ n[2] \in Nat
    BY DEF Names
  <2> QED
    BY <2>1, <2>2 DEF SpentNames
<1>3. ASSUME NEW x \in broadcast, Confirm(x)
      PROVE  /\ confirmed \subseteq confirmed' /\ spentCoins \subseteq spentCoins'
             /\ SpentNames \subseteq SpentNames'
             /\ \A y \in confirmed' :
                  y \in confirmed \/ (y.name \in SpentNames' /\ y.coin \in spentCoins')
  <2>1. x.name \in Names /\ x.name[1] \in Parties
    BY DEF TypeOK, Txs, Names
  <2>2. /\ x.name[2] = nameOut[x.name[1]]
        /\ nameOut' = [nameOut EXCEPT ![x.name[1]] = @ + 1]
        /\ spentCoins' = spentCoins \cup {x.coin} /\ confirmed' = confirmed \cup {x}
    BY <1>3 DEF Confirm, Mempool, InputsUnspent
  <2>3. SpentNames \subseteq SpentNames' /\ x.name \in SpentNames'
    BY <1>2, <2>1, <2>2
  <2> QED
    BY <2>2, <2>3
<1>4. ASSUME NEW p \in Parties, OtherNameOp(p)
      PROVE  UNCHANGED <<confirmed, spentCoins>> /\ SpentNames \subseteq SpentNames'
  BY <1>2, <1>4 DEF OtherNameOp
<1>5. ASSUME NEW c, OtherCoinSpend(c)
      PROVE  /\ UNCHANGED confirmed /\ spentCoins \subseteq spentCoins'
             /\ SpentNames' = SpentNames
  BY <1>5 DEF OtherCoinSpend, SpentNames
<1>6. CASE ChainStep
  BY <1>3, <1>4, <1>5, <1>6 DEF ChainStep
<1>7. CASE UNCHANGED chain
  BY <1>1, <1>7
<1>8. ASSUME NEW r \in TradeRefs, NEW m \in Messages, ProcessTrade(r, m)
      PROVE  UNCHANGED chain
  BY <1>8 DEF ProcessTrade
<1>9. CASE UNCHANGED vars
  BY <1>7, <1>9 DEF vars, chain
<1>10. CASE UserStep \/ RefreshOrders
  BY <1>7, <1>10 DEF UserStep, RefreshOrders, AddOrder, CancelOrder, TakeOrder
<1>11. CASE XmppStep
  <2>1. ASSUME NEW r \in TradeRefs, ProcessTaking(r) PROVE UNCHANGED chain
    BY <2>1 DEF ProcessTaking, ProcessTrade
  <2>2. ASSUME NEW r \in TradeRefs, NEW m \in msgs, ProcessMessage(r, m)
        PROVE  UNCHANGED chain
    BY <2>2 DEF ProcessMessage, ProcessTrade
  <2> QED
    BY <1>7, <1>11, <2>1, <2>2
       DEF XmppStep, TryLock, OrderNotTaken, OrderTaken, ProcessTakingLate
<1>12. CASE UpdaterStep
  BY <1>7, <1>12
     DEF UpdaterStep, UpdateAndArchiveTrades, UpdateThrows, FailureUnlocksOrder,
         SuccessRemovesOrder, SuccessAddsReduced, FailureUnlocksInputs, TakerSuccess
<1>13. ASSUME NEW r \in TradeRefs, Clock(r) PROVE UNCHANGED chain
  BY <1>13 DEF Clock
<1> QED
  BY <1>6, <1>7, <1>9, <1>10, <1>11, <1>12, <1>13 DEF Next

LEMMA SpendsStay ==
    ASSUME NEW r \in TradeRefs, NEW tr, NEW nt, SpendsItems(r, tr),
           confirmed \subseteq confirmed',
           nt.name = tr.name, nt.our = tr.our, nt.sd = tr.sd,
           nt.state \in Committed => tr.state \in Committed,
           nt.state = "SUCCESS" => tr.state = "SUCCESS" \/ tr.our.tx \in confirmed
    PROVE  SpendsItems(r, nt)'
  BY DEF SpendsItems, Sells

(* A trade that acts still spends what it has locked. *)
LEMMA SpendsActs ==
    ASSUME "midway" \notin Faults, NEW r \in TradeRefs, NEW tr, NEW nt,
           TradeStep(r, tr, nt), SpendsItems(r, tr), confirmed' = confirmed
    PROVE  SpendsItems(r, nt)'
<1>1. /\ nt.state \in Committed => tr.state \in Committed \/ nt.our # None
      /\ nt.state = "SUCCESS" => tr.state = "SUCCESS"
  BY DEF TradeStep, Committed
<1>2. WalletStep(r, tr, nt)
  BY DEF TradeStep
<1>3. CASE /\ nt.name = tr.name /\ nt.sd = tr.sd /\ nt.our = tr.our
  BY <1>1, <1>3 DEF SpendsItems, Sells
<1>4. CASE /\ nt.name = tr.name /\ nt.sd = tr.sd
           /\ Sells(r[1]) /\ tr.sd # None /\ tr.our = None /\ nt.our # None
           /\ nt.our.tx.name = tr.name
  BY <1>1, <1>4 DEF SpendsItems, Sells, Committed
<1>5. CASE /\ Sells(r[1]) /\ tr.sd = None /\ nt.sd = r /\ nt.our = tr.our
  <2>1. tr.our = None /\ r # None
    BY <1>5, NoneAssumption DEF SpendsItems
  <2> QED
    BY <1>1, <1>5, <2>1 DEF SpendsItems, Sells, Committed
<1>6. CASE /\ ~Sells(r[1]) /\ tr.our = None /\ nt.our # None
           /\ nt.name = tr.name /\ nt.sd = tr.sd
  BY <1>1, <1>6 DEF SpendsItems, Sells, Committed
<1> QED
  BY <1>2, <1>3, <1>4, <1>5, <1>6 DEF WalletStep

LocksAccounted ==
    /\ Accounted(Owners, NameItem, nameLocks, SpentNames)
    /\ Accounted(Owners, CoinItem, coinLocks, spentCoins)

LEMMA AccountedActs ==
    ASSUME "midway" \notin Faults, TypeOK, LeakInv, NEW r \in TradeRefs, NEW tr, NEW nt,
           OwnerActs(r, tr, nt), SpendsItems(r, tr)
    PROVE  LocksAccounted'
<1>1. /\ trades' = [trades EXCEPT ![r] = nt] /\ WalletStep(r, tr, nt)
      /\ Owners' = Owners \cup {r} /\ UNCHANGED chain
  BY DEF OwnerActs, TradeStep
<1>2. /\ NameItem'[r] = NameHeld(nt) /\ CoinItem'[r] = CoinHeld(r, nt)
      /\ \A q \in TradeRefs : q # r =>
           NameItem'[q] = NameItem[q] /\ CoinItem'[q] = CoinItem[q]
  BY <1>1, PutItems
<1>3. r \in Owners => NameItem[r] = NameHeld(tr) /\ CoinItem[r] = CoinHeld(r, tr)
  BY DEF OwnerActs, NameItem, CoinItem, NameHeld, CoinHeld
<1>4. SpentNames' = SpentNames /\ spentCoins' = spentCoins /\ Owners \subseteq TradeRefs
  BY <1>1, OwnersType DEF chain, SpentNames
<1>5. PICK own2, names2, coins2 : own2 = Owners' /\ names2 = NameItem' /\ coins2 = CoinItem'
  OBVIOUS
<1>6. ASSUME NameHeld(tr) \subseteq NameHeld(nt), UNCHANGED nameLocks
      PROVE  Accounted(own2, names2, nameLocks', SpentNames')
  <2>1. \A q \in Owners : NameItem[q] \subseteq names2[q]
    BY <1>2, <1>3, <1>4, <1>5, <1>6
  <2> QED
    BY <1>1, <1>4, <1>5, <1>6, <2>1, AccountedKeeps DEF LeakInv
<1>7. ASSUME CoinHeld(r, tr) \subseteq CoinHeld(r, nt), UNCHANGED coinLocks
      PROVE  Accounted(own2, coins2, coinLocks', spentCoins')
  <2>1. \A q \in Owners : CoinItem[q] \subseteq coins2[q]
    BY <1>2, <1>3, <1>4, <1>5, <1>7
  <2> QED
    BY <1>1, <1>4, <1>5, <1>7, <2>1, AccountedKeeps DEF LeakInv
<1>8. CASE /\ nt.name = tr.name /\ UNCHANGED wallets
           /\ \/ nt.our = tr.our
              \/ Sells(r[1])
  <2>1. NameHeld(tr) \subseteq NameHeld(nt) /\ CoinHeld(r, tr) \subseteq CoinHeld(r, nt)
    BY <1>8 DEF NameHeld, CoinHeld
  <2> QED
    BY <1>5, <1>6, <1>7, <1>8, <2>1 DEF LocksAccounted, wallets
<1>9. CASE /\ Sells(r[1]) /\ tr.sd = None
           /\ nameLocks' = nameLocks \cup {NameOf(r)} /\ UNCHANGED coinLocks
           /\ nt.name = NameOf(r) /\ nt.our = tr.our
  <2>1. tr.name = None
    BY <1>9 DEF SpendsItems
  <2>2. NameHeld(tr) = {} /\ CoinHeld(r, tr) \subseteq CoinHeld(r, nt)
    BY <1>9, <2>1 DEF NameHeld, CoinHeld
  <2>3. PICK x, locks2 : x = NameOf(r) /\ locks2 = nameLocks'
    OBVIOUS
  <2>4. x # None
    BY <2>3, NameOfType, NoneAssumption
  <2>5. /\ locks2 = nameLocks \cup {x} /\ x \in names2[r] /\ r \in own2
        /\ Owners \subseteq own2 /\ \A q \in Owners : NameItem[q] \subseteq names2[q]
    BY <1>1, <1>2, <1>3, <1>4, <1>5, <1>9, <2>2, <2>3, <2>4 DEF NameHeld
  <2>6. Accounted(own2, names2, locks2, SpentNames)
    BY <2>5, AccountedTakes DEF LeakInv
  <2> QED
    BY <1>4, <1>5, <1>7, <1>9, <2>2, <2>3, <2>6 DEF LocksAccounted
<1>10. CASE /\ ~Sells(r[1]) /\ tr.our = None /\ nt.our # None /\ nt.name = tr.name
            /\ coinLocks' = coinLocks \cup {nt.our.tx.coin} /\ UNCHANGED nameLocks
  <2>1. NameHeld(tr) \subseteq NameHeld(nt) /\ CoinHeld(r, tr) = {}
    BY <1>10 DEF NameHeld, CoinHeld
  <2>2. PICK x, locks2 : x = nt.our.tx.coin /\ locks2 = coinLocks'
    OBVIOUS
  <2>3. /\ locks2 = coinLocks \cup {x} /\ x \in coins2[r] /\ r \in own2
        /\ Owners \subseteq own2 /\ \A q \in Owners : CoinItem[q] \subseteq coins2[q]
    BY <1>1, <1>2, <1>3, <1>4, <1>5, <1>10, <2>1, <2>2 DEF CoinHeld
  <2>4. Accounted(own2, coins2, locks2, spentCoins)
    BY <2>3, AccountedTakes DEF LeakInv
  <2> QED
    BY <1>4, <1>5, <1>6, <1>10, <2>1, <2>2, <2>4 DEF LocksAccounted
<1> QED
  BY <1>1, <1>8, <1>9, <1>10 DEF WalletStep

LEMMA AccountedDone ==
    ASSUME TypeOK, LeakInv, NEW r \in TradeRefs, OwnerReleases(r)
    PROVE  LocksAccounted'
<1>1. /\ r \in Owners /\ Owners' = Owners \ {r} /\ UNCHANGED <<trades, chain>>
      /\ NameItem' = NameItem /\ CoinItem' = CoinItem
  BY SameItems DEF OwnerReleases
<1>2. SpentNames' = SpentNames /\ spentCoins' = spentCoins
  BY <1>1 DEF chain, SpentNames
<1>3. NameItem[r] = NameHeld(trades[r]) /\ CoinItem[r] = CoinHeld(r, trades[r])
  BY DEF NameItem, CoinItem
<1>4. PICK own2, locks2, free2 : own2 = Owners' /\ locks2 = nameLocks' /\ free2 = coinLocks'
  OBVIOUS
<1>5. /\ locks2 = nameLocks \ NameItem[r] \/ (locks2 = nameLocks /\ NameItem[r] \subseteq SpentNames)
      /\ free2 = coinLocks \ CoinItem[r] \/ (free2 = coinLocks /\ CoinItem[r] \subseteq spentCoins)
  <2>1. CASE /\ nameLocks' = nameLocks \ {trades[r].name}
             /\ coinLocks' = coinLocks \ CoinHeld(r, trades[r])
    <3>1. None \notin nameLocks
      BY NoneAssumption DEF TypeOK
    <3> QED
      BY <1>3, <1>4, <2>1, <3>1 DEF NameHeld
  <2>2. CASE trades[r].state = "SUCCESS" /\ UNCHANGED wallets
    <3>1. PICK tr : tr = trades[r] /\ SpendsItems(r, tr)
      BY DEF LeakInv
    <3>2. tr.our # None /\ tr.our.tx \in confirmed
      BY <2>2, <3>1 DEF SpendsItems, Committed
    <3>3. tr.our.tx.name \in SpentNames /\ tr.our.tx.coin \in spentCoins
      BY <3>2 DEF LeakInv
    <3>4. tr.name # None => tr.our.tx.name = tr.name
      BY <3>1, <3>2 DEF SpendsItems
    <3> QED
      BY <1>3, <1>4, <2>2, <3>1, <3>3, <3>4 DEF NameHeld, CoinHeld, wallets
  <2> QED
    BY <2>1, <2>2 DEF OwnerReleases
<1>6. Accounted(own2, NameItem, locks2, SpentNames)
  BY <1>1, <1>4, <1>5, AccountedReleases DEF LeakInv
<1>7. Accounted(own2, CoinItem, free2, spentCoins)
  BY <1>1, <1>4, <1>5, AccountedReleases DEF LeakInv
<1> QED
  BY <1>1, <1>2, <1>4, <1>6, <1>7 DEF LocksAccounted

LEMMA NextLeak ==
    ASSUME "midway" \notin Faults, TypeOK, TypeOK', TodoInv, LeakInv, [Next]_vars
    PROVE  LeakInv'
<1>1. /\ confirmed \subseteq confirmed' /\ spentCoins \subseteq spentCoins'
      /\ SpentNames \subseteq SpentNames'
      /\ \A x \in confirmed' :
           x \in confirmed \/ (x.name \in SpentNames' /\ x.coin \in spentCoins')
  BY NextChain
<1>2. \A x \in confirmed' : x.name \in SpentNames' /\ x.coin \in spentCoins'
  BY <1>1 DEF LeakInv
<1>3. CASE OwnersStay
  <2>1. NameItem' = NameItem /\ CoinItem' = CoinItem
    BY <1>3, SameItems DEF OwnersStay
  <2>2. LocksAccounted'
    BY <1>1, <1>3, <2>1, AccountedKeeps DEF OwnersStay, wallets, LeakInv, LocksAccounted
  <2>3. ASSUME NEW r \in TradeRefs PROVE SpendsItems(r, trades[r])'
    <3>1. PICK tr, nt : tr = trades[r] /\ nt = trades'[r]
      OBVIOUS
    <3>2. SpendsItems(r, nt)'
      BY <1>1, <1>3, <3>1, SpendsStay DEF OwnersStay, LeakInv
    <3> QED
      BY <3>1, <3>2 DEF SpendsItems
  <2> QED
    BY <1>2, <2>2, <2>3 DEF LeakInv, LocksAccounted
<1>4. ASSUME NEW r \in TradeRefs, NEW tr, NEW nt, OwnerActs(r, tr, nt)
      PROVE  LeakInv'
  <2>1. TradeStep(r, tr, nt) /\ confirmed' = confirmed
    BY <1>4 DEF OwnerActs, chain
  <2>2. SpendsItems(r, tr)
    <3>1. SpendsItems(r, trades[r])
      BY DEF LeakInv
    <3> QED
      BY <1>4, <3>1 DEF OwnerActs, SpendsItems, Committed
  <2>3. LocksAccounted'
    BY <1>4, <2>2, AccountedActs
  <2>4. ASSUME NEW q \in TradeRefs PROVE SpendsItems(q, trades[q])'
    <3>1. CASE q = r
      <4>1. SpendsItems(r, nt)'
        BY <2>1, <2>2, SpendsActs
      <4>2. trades'[r] = nt
        BY <2>1, StepOthers
      <4> QED
        BY <3>1, <4>1, <4>2 DEF SpendsItems
    <3>2. CASE q # r
      <4>1. trades'[q] = trades[q] /\ SpendsItems(q, trades[q])
        BY <2>1, <3>2, StepOthers DEF LeakInv
      <4> QED
        BY <2>1, <4>1 DEF SpendsItems, Sells
    <3> QED
      BY <3>1, <3>2
  <2> QED
    BY <1>2, <2>3, <2>4 DEF LeakInv, LocksAccounted
<1>5. ASSUME NEW r \in TradeRefs, OwnerReleases(r) PROVE LeakInv'
  <2>1. LocksAccounted' /\ UNCHANGED trades
    BY <1>5, AccountedDone DEF OwnerReleases
  <2>2. \A q \in TradeRefs : SpendsItems(q, trades[q])'
    BY <1>1, <2>1 DEF LeakInv, SpendsItems, Sells
  <2> QED
    BY <1>2, <2>1, <2>2 DEF LeakInv, LocksAccounted
<1>6. ~TakeOrderLeaks
  BY DEF TakeOrderLeaks
<1> QED
  BY <1>3, <1>4, <1>5, <1>6, NextWalletCases DEF WalletCases

LEMMA InitLeak == Init => LeakInv
<1> SUFFICES ASSUME Init PROVE LeakInv
  OBVIOUS
<1>1. \A r \in TradeRefs : /\ trades[r].name = None /\ trades[r].our = None
                           /\ trades[r].state = "none"
  BY DEF Init, NoTrade
<1> QED
  BY <1>1 DEF Init, LeakInv, SpendsItems, Accounted, Committed

LEMMA InvImpliesNoLeak == TypeOK /\ LeakInv => NoLeakedLock
<1> SUFFICES ASSUME TypeOK, LeakInv PROVE NoLeakedLock
  OBVIOUS
<1>1. ASSUME NEW n \in nameLocks
      PROVE  \/ n[2] # nameOut[n[1]]
             \/ \E r \in TradeRefs : OwnsLocks(r) /\ trades[r].name = n
  <2>1. CASE n \in SpentNames
    BY <2>1 DEF SpentNames, TypeOK, Names
  <2>2. CASE \E r \in Owners : n \in NameItem[r]
    BY <2>2 DEF Owners, NameItem, NameHeld
  <2> QED
    BY <2>1, <2>2 DEF LeakInv, Accounted
<1>2. ASSUME NEW c \in coinLocks
      PROVE  \/ c \in spentCoins
             \/ \E r \in TradeRefs : /\ OwnsLocks(r) /\ trades[r].our # None
                                     /\ trades[r].our.tx.coin = c
  <2>1. CASE \E r \in Owners : c \in CoinItem[r]
    BY <2>1 DEF Owners, CoinItem, CoinHeld
  <2> QED
    BY <2>1 DEF LeakInv, Accounted
<1> QED
  BY <1>1, <1>2 DEF NoLeakedLock

(* As long as no call fails after the wallet has locked something, every   *)
(* locked output belongs to a trade whose clean-up will unlock it or has   *)
(* been spent (Trade::HandleFailure, UnlockPsbtInputs).                    *)
THEOREM LocksNotLeaked ==
    ASSUME "midway" \notin Faults
    PROVE  Spec => []NoLeakedLock
<1>1. Init => TypeOK /\ TodoInv /\ LeakInv
  BY InitType, InitLocks, InitLeak DEF OrderLockInv
<1>2. TypeOK /\ TodoInv /\ LeakInv /\ [Next]_vars => (TypeOK /\ TodoInv /\ LeakInv)'
  BY NextType, NextTodo, NextLeak
<1> QED
  BY <1>1, <1>2, InvImpliesNoLeak, PTL DEF Spec
=============================================================================
