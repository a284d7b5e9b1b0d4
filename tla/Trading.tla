------------------------------ MODULE Trading ------------------------------
(***************************************************************************)
(* Democrit's trade protocol: one maker daemon and a set of taker daemons  *)
(* that negotiate atomic trades (name update plus CHI payment in a single  *)
(* transaction) over an unreliable chat room, each with its own threads:   *)
(*   - the XMPP thread, which runs TradeManager::ProcessMessage;           *)
(*   - the updater job, which runs TradeManager::UpdateAndArchiveTrades;   *)
(*   - the user's RPC calls (AddOrder, CancelOrder, TakeOrder);            *)
(*   - the refresher job of MyOrders (maker).                              *)
(* One action is one critical section of the daemon's State mutex with the *)
(* RPC calls made inside it, or one call made outside of it.               *)
(***************************************************************************)
EXTENDS Integers, FiniteSets

CONSTANTS
    Maker,        \* the account whose orders are traded
    Takers,       \* the accounts that take them
    MakerSells,   \* TRUE: the maker's orders are ASKs; FALSE: BIDs
    MaxUnits,     \* max_units of an order the user adds
    MinUnits,     \* min_units of all orders (0: the field is absent)
    MaxAdds,      \* bound: orders the maker's user adds
    MaxTakes,     \* bound: trades a taker starts
    MaxTrades,    \* bound: trades any daemon starts, the maker included
    Coins,        \* CHI outputs in the wallet of each buyer
    OtherOps,     \* bound: spends outside of the protocol, per name
    Faults,       \* which failures of RPC calls happen, see FaultKinds
    Cancels,      \* TRUE: the user may cancel orders
    Invalidates,  \* TRUE: ValidateOrder may fail for an own order
    None          \* an optional protobuf field that is not set

(***************************************************************************)
(* "refused":   the first RPC call of a step throws, or a check made there *)
(*              rejects, before the step had any effect;                   *)
(* "midway":    a later call throws, after the wallet locked an output or  *)
(*              our_psbt was set;                                          *)
(* "lostReply": sendrawtransaction is executed by the node, but the client *)
(*              sees an exception (e.g. a timeout of the HTTP connection); *)
(* "update":    a call on the updater's thread throws: nothing catches it. *)
(***************************************************************************)
FaultKinds == {"refused", "midway", "lostReply", "update"}

Parties   == {Maker} \cup Takers
OrderIds  == 1 .. (MaxAdds + MaxTrades)   \* a success may add one more
TradeIds  == 1 .. MaxTrades
TradeRefs == Parties \X TradeIds     \* a trade: its daemon and list position

ASSUME PartiesAssumption == Maker \notin Takers /\ None \notin Parties
ASSUME BoundsAssumption ==
    /\ MaxUnits \in Nat /\ MinUnits \in Nat
    /\ MaxAdds \in Nat /\ MaxTakes \in Nat /\ MaxTrades \in Nat /\ OtherOps \in Nat
ASSUME SwitchAssumption ==
    /\ MakerSells \in BOOLEAN /\ Cancels \in BOOLEAN /\ Invalidates \in BOOLEAN
    /\ Faults \subseteq FaultKinds

VARIABLES
    orders,      \* maker's own_orders, by ID: [status, max, root]
    trades,      \* proto::TradeState of every trade ever started
    updater,     \* finalised trades each updater still has to clean up
    taking,      \* taking_order message the maker's XMPP thread works on
    msgs,        \* processing messages sent so far
    nameLocks,   \* name outputs locked in the wallets
    coinLocks,   \* CHI outputs locked in the wallets
    nameOut,     \* current (confirmed) output of each account's name
    spentCoins,  \* CHI outputs spent in confirmed transactions
    broadcast,   \* trade transactions accepted by the network
    confirmed,   \* trade transactions that are final on the chain
    alive        \* accounts whose daemon has not aborted in a CHECK

vars == <<orders, trades, updater, taking, msgs, nameLocks, coinLocks,
          nameOut, spentCoins, broadcast, confirmed, alive>>

wallets == <<nameLocks, coinLocks>>
chain   == <<nameOut, spentCoins, confirmed>>

(***************************************************************************)
(* Data.  A transaction is told apart by the buyer's trade that built it,  *)
(* the seller's trade whose two fresh addresses it pays to, the units that *)
(* fix payment and name value, and its inputs.                             *)
(***************************************************************************)
Names == Parties \X (Nat \ {0})
Txs == [buyer: TradeRefs, seller: TradeRefs, units: Nat,
        name: Names, coin: Parties \X Coins]
Signers == {"buyer", "seller"}
Psbts == [tx: Txs, sigs: SUBSET Signers]

States    == {"none", "INITIATED", "PENDING", "SUCCESS", "FAILED", "ABANDONED"}
Active    == {"INITIATED", "PENDING"}
Committed == {"PENDING", "SUCCESS", "FAILED"}
Final     == {"SUCCESS", "FAILED", "ABANDONED"}

(* sd is the seller's trade that seller_data (the addresses) belongs to,   *)
(* name the name_output that only the seller's own copy has; late says     *)
(* that more than the trade timeout has passed since start_time.           *)
Trades == [state: States, order: {0} \cup OrderIds, units: Nat, cp: Parties \cup {None},
           sd: TradeRefs \cup {None}, name: Names \cup {None},
           our: Psbts \cup {None}, their: Psbts \cup {None}, late: BOOLEAN]

(* take is taking_order's units, 0 if the field is not set.                *)
Messages == [from: Parties, to: Parties, order: OrderIds, take: Nat,
             sd: TradeRefs \cup {None}, psbt: Psbts \cup {None}]

(* The message, the order's max_units in the copy that TryLock returned,   *)
(* and the trade once OrderTaken has started it.                           *)
Takings == [msg: Messages, max: Nat, trade: TradeRefs \cup {None}]

Orders == [status: {"none", "open", "locked", "gone"}, max: Nat, root: Nat]

ASSUME NoneAssumption ==
    None \notin TradeRefs /\ None \notin Psbts /\ None \notin Names /\ None \notin Takings

NoTrade == [state |-> "none", order |-> 0, units |-> 0, cp |-> None, sd |-> None,
            name |-> None, our |-> None, their |-> None, late |-> FALSE]

NewTrade(o, units, cp) ==
    [NoTrade EXCEPT !.state = "INITIATED", !.order = o, !.units = units,
                    !.cp = cp]

Sells(p) == IF p = Maker THEN MakerSells ELSE ~MakerSells

(***************************************************************************)
(* MyOrders                                                                *)
(***************************************************************************)
Existing(os) == {o \in OrderIds : os[o].status \in {"open", "locked"}}

FreeOrderId(o) ==
    /\ orders[o].status = "none"
    /\ \A q \in OrderIds : q < o => orders[q].status # "none"

(* RunRefresh, which ends every operation of MyOrders: ValidateOrder may   *)
(* reject some of the orders, locked ones too, and those are dropped.      *)
Dropped(os, D) ==
    [o \in OrderIds |-> IF o \in D THEN [os[o] EXCEPT !.status = "gone"]
                                   ELSE os[o]]
RunRefresh(os) ==
    \E D \in IF Invalidates THEN SUBSET Existing(os) ELSE {{}} :
        orders' = Dropped(os, D)

SetStatus(o, s) == [orders EXCEPT ![o].status = s]

Erased(o) == IF o \in Existing(orders) THEN SetStatus(o, "gone") ELSE orders

Add(o, max, root) ==
    /\ FreeOrderId(o)
    /\ RunRefresh([orders EXCEPT ![o] =
                     [status |-> "open", max |-> max, root |-> root]])

RemoveById(o) == RunRefresh(Erased(o))

(* The CHECKs of Unlock abort the daemon if the order is gone meanwhile.   *)
Unlock(o) ==
    \/ /\ orders[o].status = "locked"
       /\ RunRefresh(SetStatus(o, "open"))
       /\ UNCHANGED alive
    \/ /\ orders[o].status # "locked"
       /\ alive' = alive \ {Maker}
       /\ UNCHANGED orders

(***************************************************************************)
(* The maker's user and its refresher job                                  *)
(***************************************************************************)
AddOrder(o) ==
    /\ Maker \in alive
    /\ o <= MaxAdds
    /\ Add(o, MaxUnits, o)
    /\ UNCHANGED <<trades, updater, taking, msgs, wallets, chain, broadcast, alive>>

CancelOrder(o) ==
    /\ Cancels
    /\ Maker \in alive
    /\ o \in Existing(orders)
    /\ RemoveById(o)
    /\ UNCHANGED <<trades, updater, taking, msgs, wallets, chain, broadcast, alive>>

RefreshOrders ==
    /\ Maker \in alive
    /\ RunRefresh(orders)
    /\ UNCHANGED <<trades, updater, taking, msgs, wallets, chain, broadcast, alive>>

(***************************************************************************)
(* The network and the wallets, as the RPC calls of Trade show them.       *)
(***************************************************************************)
(* Neither input has been spent on the chain. *)
InputsUnspent(x) ==
    /\ x.name[2] = nameOut[x.name[1]]
    /\ x.coin \notin spentCoins

Mempool == {x \in broadcast : InputsUnspent(x)}

(* sendrawtransaction takes x: no input is spent, on chain or in mempool.  *)
Acceptable(x) ==
    /\ InputsUnspent(x)
    /\ \A y \in Mempool : y.name # x.name /\ y.coin # x.coin

(* CheckForBuyerTrade of what seller p offers: name_show gives the current *)
(* output of the name, which gettxout must find unspent in the mempool too.*)
(* The other reasons to reject (the asset and its balance, blocks that do  *)
(* not match) are "refused".                                               *)
CheckForBuyerTrade(p) == \A y \in Mempool : y.name # <<p, nameOut[p]>>

(* The coins walletcreatefundedpsbt may select.                            *)
Spendable(p) ==
    {c \in {p} \X Coins : /\ c \notin coinLocks
                          /\ c \notin spentCoins
                          /\ \A y \in Mempool : y.coin # c}

(* Mutant: later seller data replaces the first.                           *)
MergeSellerDataReplaces(p, tr, sd) ==
    IF sd # None /\ ~Sells(p) THEN [tr EXCEPT !.sd = sd] ELSE tr

(***************************************************************************)
(* Trade::HandleMessage.  Only the first seller data and the first PSBT    *)
(* are kept, seller data only by the buyer, all of it only if INITIATED.   *)
(***************************************************************************)
MergeSellerData(p, tr, sd) ==
    IF sd # None /\ ~Sells(p) /\ tr.sd = None THEN [tr EXCEPT !.sd = sd] ELSE tr

MergePsbt(tr, psbt) ==
    IF psbt # None /\ tr.their = None THEN [tr EXCEPT !.their = psbt] ELSE tr

HandleMessage(p, tr, m) ==
    IF tr.state = "INITIATED"
    THEN MergePsbt(MergeSellerData(p, tr, m.sd), m.psbt)
    ELSE tr

(***************************************************************************)
(* Trade::HasReply for the trade r, whose state is tr when it is called;   *)
(* one action per way to leave it.  take is what TakeOrder adds to the     *)
(* message afterwards (SetTakingOrder), 0 in ProcessMessage.               *)
(***************************************************************************)
Reply(r, tr, take, sd, psbt) ==
    msgs' = msgs \cup {[from |-> r[1], to |-> tr.cp, order |-> tr.order,
                        take |-> take, sd |-> sd, psbt |-> psbt]}

NameOf(r) == <<r[1], nameOut[r[1]]>>

WantsSellerData(r, tr) ==
    tr.state = "INITIATED" /\ Sells(r[1]) /\ tr.sd = None

(* CreateSellerData locks the name output and draws two new addresses.     *)
SendSellerData(r, tr, take) ==
    /\ WantsSellerData(r, tr)
    /\ NameOf(r) \notin nameLocks
    /\ nameLocks' = nameLocks \cup {NameOf(r)}
    /\ trades' = [trades EXCEPT ![r] = [tr EXCEPT !.sd = r, !.name = NameOf(r)]]
    /\ Reply(r, tr, take, r, None)
    /\ UNCHANGED <<coinLocks, broadcast>>

(* getnewaddress throws after the name output has been locked.             *)
SellerDataThrows(r, tr) ==
    /\ "midway" \in Faults
    /\ WantsSellerData(r, tr)
    /\ NameOf(r) \notin nameLocks
    /\ nameLocks' = nameLocks \cup {NameOf(r)}
    /\ UNCHANGED <<coinLocks, broadcast, msgs>>

(* Mutant: outputs to any address of ours are fine.                        *)
CheckForSellerOutputsAnyAddress(r, tr, x) ==
    x.seller[1] = r[1] /\ x.units = tr.units /\ x.buyer[1] = tr.cp

(* CheckForSellerOutputs: the transaction updates our name with the right  *)
(* value and pays for our units to the addresses of this very trade.       *)
CheckForSellerOutputs(r, tr, x) ==
    x.seller = r /\ x.units = tr.units /\ x.buyer[1] = tr.cp

(* CheckForSellerSignature: what the wallet has signed is the name output  *)
(* that seller_data records.                                               *)
CheckForSellerSignature(tr, x) == x.name = tr.name

(* The seller's part up to our_psbt.  The maker insists on a complete      *)
(* transaction, the taker on an incomplete one.                            *)
SignsAsSeller(r, tr) ==
    /\ tr.state = "INITIATED" /\ Sells(r[1])
    /\ tr.sd # None /\ tr.their # None /\ tr.our = None
    /\ CheckForSellerOutputs(r, tr, tr.their.tx)
    /\ CheckForSellerSignature(tr, tr.their.tx)
    /\ (r[1] = Maker) <=> ("buyer" \in tr.their.sigs)

SellerSigned(tr) ==
    [tr EXCEPT !.our = [tx |-> tr.their.tx,
                        sigs |-> tr.their.sigs \cup {"seller"}]]

(* Mutant: the signatures are shared, but the state is not changed.        *)
CommitStaysInitiated(r, tr) ==
    trades' = [trades EXCEPT ![r] = tr] /\ Reply(r, tr, 0, None, tr.our)

(* The taker has filled in our_psbt: it shares its signatures.             *)
Commit(r, tr) ==
    /\ trades' = [trades EXCEPT ![r] = [tr EXCEPT !.state = "PENDING"]]
    /\ Reply(r, tr, 0, None, tr.our)

TakerSellerSigns(r, tr) ==
    /\ r[1] # Maker
    /\ SignsAsSeller(r, tr)
    /\ Commit(r, SellerSigned(tr))
    /\ UNCHANGED <<wallets, broadcast>>

(* Mutant: the buyer does not wait for the seller's addresses.             *)
WantsPsbtAtOnce(r, tr) ==
    tr.state = "INITIATED" /\ ~Sells(r[1]) /\ tr.our = None

WantsPsbt(r, tr) ==
    tr.state = "INITIATED" /\ ~Sells(r[1]) /\ tr.sd # None /\ tr.our = None

(* ConstructTransaction on the name output CheckForBuyerTrade returned.    *)
ConstructTransaction(r, tr, c) ==
    [buyer |-> r, seller |-> tr.sd, units |-> tr.units,
     name |-> <<tr.cp, nameOut[tr.cp]>>, coin |-> c]

BuyerSigned(tr, x) ==
    [tr EXCEPT !.our = [tx |-> x, sigs |-> {"buyer"}]]

(* Mutant: walletcreatefundedpsbt is called without lockUnspents.          *)
FundWithoutLock(r, tr, c) ==
    /\ WantsPsbt(r, tr)
    /\ CheckForBuyerTrade(tr.cp)
    /\ c \in Spendable(r[1])
    /\ UNCHANGED coinLocks

Fund(r, tr, c) ==
    /\ WantsPsbt(r, tr)
    /\ CheckForBuyerTrade(tr.cp)
    /\ c \in Spendable(r[1])
    /\ coinLocks' = coinLocks \cup {c}

(* Mutant: the maker shares its signed PSBT instead of the unsigned one.   *)
MakerBuyerSharesSigned(r, tr) ==
    /\ r[1] = Maker
    /\ \E c \in Spendable(r[1]) :
         LET st == BuyerSigned(tr, ConstructTransaction(r, tr, c)) IN
         /\ Fund(r, tr, c)
         /\ trades' = [trades EXCEPT ![r] = st]
         /\ Reply(r, tr, 0, None, st.our)
    /\ UNCHANGED <<nameLocks, broadcast>>

MakerBuyerConstructs(r, tr) ==
    /\ r[1] = Maker
    /\ \E c \in Spendable(r[1]) :
         LET x == ConstructTransaction(r, tr, c) IN
         /\ Fund(r, tr, c)
         /\ trades' = [trades EXCEPT ![r] = BuyerSigned(tr, x)]
         /\ Reply(r, tr, 0, None, [tx |-> x, sigs |-> {}])
    /\ UNCHANGED <<nameLocks, broadcast>>

TakerBuyerConstructs(r, tr) ==
    /\ r[1] # Maker
    /\ \E c \in Spendable(r[1]) :
         /\ Fund(r, tr, c)
         /\ Commit(r, BuyerSigned(tr, ConstructTransaction(r, tr, c)))
    /\ UNCHANGED <<nameLocks, broadcast>>

(* createpsbt, namepsbt, joinpsbts or walletprocesspsbt throws after       *)
(* walletcreatefundedpsbt has locked the coin.                             *)
ConstructThrows(r, tr) ==
    /\ "midway" \in Faults
    /\ \E c \in Spendable(r[1]) : Fund(r, tr, c)
    /\ trades' = [trades EXCEPT ![r] = tr]
    /\ UNCHANGED <<nameLocks, broadcast, msgs>>

(* The transaction the maker can finalise: as buyer it combines the two    *)
(* PSBTs, as seller our_psbt is the buyer's with our signature.            *)
Finalisable(r, tr) ==
    /\ r[1] = Maker /\ tr.state = "INITIATED" /\ tr.our # None /\ tr.their # None
    /\ IF Sells(Maker)
       THEN tr.our.sigs = Signers
       ELSE /\ tr.their.tx = tr.our.tx
            /\ tr.their.sigs \cup tr.our.sigs = Signers

(* The state of the maker's trade when it gets to the final part.          *)
BeforeFinal(r, tr) == IF SignsAsSeller(r, tr) THEN SellerSigned(tr) ELSE tr

MakerFinalises(r, tr) ==
    LET ft == BeforeFinal(r, tr) IN
    /\ Finalisable(r, ft)
    /\ Acceptable(ft.our.tx)
    /\ broadcast' = broadcast \cup {ft.our.tx}
    /\ trades' = [trades EXCEPT ![r] = [ft EXCEPT !.state = "PENDING"]]
    /\ UNCHANGED <<msgs, wallets>>

(* combinepsbt, finalizepsbt or sendrawtransaction throws: our_psbt stays. *)
FinaliseThrows(r, tr) ==
    LET ft == BeforeFinal(r, tr) IN
    /\ Finalisable(r, ft)
    /\ "midway" \in Faults \/ ~Acceptable(ft.our.tx)
    /\ trades' = [trades EXCEPT ![r] = ft]
    /\ UNCHANGED <<msgs, wallets, broadcast>>

(* The node has sent the transaction, but the call fails for the daemon.   *)
FinaliseLosesReply(r, tr) ==
    LET ft == BeforeFinal(r, tr) IN
    /\ "lostReply" \in Faults
    /\ Finalisable(r, ft)
    /\ Acceptable(ft.our.tx)
    /\ broadcast' = broadcast \cup {ft.our.tx}
    /\ trades' = [trades EXCEPT ![r] = ft]
    /\ UNCHANGED <<msgs, wallets>>

(* There is something HasReply can do for the trade now.                   *)
CanAct(r, tr) ==
    \/ WantsSellerData(r, tr) /\ NameOf(r) \notin nameLocks
    \/ SignsAsSeller(r, tr)
    \/ WantsPsbt(r, tr) /\ CheckForBuyerTrade(tr.cp) /\ Spendable(r[1]) # {}
    \/ Finalisable(r, tr)

(* HasReply returns false, or throws, before anything was done.            *)
NoReply(r, tr) ==
    /\ "refused" \in Faults \/ ~CanAct(r, tr)
    /\ trades' = [trades EXCEPT ![r] = tr]
    /\ UNCHANGED <<msgs, wallets, broadcast>>

HasReply(r, tr) ==
    \/ SendSellerData(r, tr, 0)
    \/ SellerDataThrows(r, tr) /\ trades' = [trades EXCEPT ![r] = tr]
    \/ TakerSellerSigns(r, tr)
    \/ MakerBuyerConstructs(r, tr)
    \/ TakerBuyerConstructs(r, tr)
    \/ ConstructThrows(r, tr)
    \/ MakerFinalises(r, tr)
    \/ FinaliseThrows(r, tr)
    \/ FinaliseLosesReply(r, tr)
    \/ NoReply(r, tr)

(***************************************************************************)
(* TradeManager::TakeOrder, called by the user of a taker's daemon for an  *)
(* order that was offered at some time (the caller passes the order data,  *)
(* so the order may be outdated, and may be one it is trading already).    *)
(***************************************************************************)
NextSlot(r) ==
    /\ trades[r].state = "none"
    /\ \A q \in TradeRefs : q[1] = r[1] /\ q[2] < r[2] => trades[q].state # "none"

TakeOrderSends(r, tr) ==
    \/ SendSellerData(r, tr, tr.units)
    \/ /\ ~CanAct(r, tr) \/ "refused" \in Faults
       /\ trades' = [trades EXCEPT ![r] = tr]
       /\ Reply(r, tr, tr.units, None, None)
       /\ UNCHANGED <<wallets, broadcast>>
    \/ SellerDataThrows(r, tr) /\ UNCHANGED trades

TakeOrder(r, o, units) ==
    /\ r[1] \in Takers \cap alive
    /\ NextSlot(r)
    /\ r[2] <= MaxTakes
    /\ orders[o].status # "none"
    /\ units <= MaxUnits /\ units >= MinUnits
    /\ TakeOrderSends(r, NewTrade(o, units, Maker))
    /\ UNCHANGED <<orders, updater, taking, chain, alive>>

(* Mutant: the order's locked flag is not looked at.                       *)
TryLockAgain(m) ==
    /\ Maker \in alive
    /\ taking = None
    /\ m.to = Maker /\ m.take > 0
    /\ m.order \in Existing(orders)
    /\ \E r \in TradeRefs : r[1] = Maker /\ NextSlot(r)
    /\ RunRefresh(SetStatus(m.order, "locked"))
    /\ taking' = [msg |-> m, max |-> orders[m.order].max, trade |-> None]
    /\ UNCHANGED <<trades, updater, msgs, wallets, chain, broadcast, alive>>

(***************************************************************************)
(* TradeManager::ProcessMessage on the XMPP thread.  A message with        *)
(* taking_order passes through TryLock and OrderTaken, each a critical     *)
(* section, before the trade itself is processed in a third one.           *)
(***************************************************************************)
TryLock(m) ==
    /\ Maker \in alive
    /\ taking = None
    /\ m.to = Maker /\ m.take > 0
    /\ orders[m.order].status = "open"
    /\ \E r \in TradeRefs : r[1] = Maker /\ NextSlot(r)     \* MaxTrades
    /\ RunRefresh(SetStatus(m.order, "locked"))
    /\ taking' = [msg |-> m, max |-> orders[m.order].max, trade |-> None]
    /\ UNCHANGED <<trades, updater, msgs, wallets, chain, broadcast, alive>>

CheckOrder(units, max) == units <= max /\ units >= MinUnits

OrderTaken(r) ==
    /\ Maker \in alive
    /\ taking # None
    /\ taking.trade = None
    /\ r[1] = Maker
    /\ NextSlot(r)
    /\ CheckOrder(taking.msg.take, taking.max)
    /\ trades' = [trades EXCEPT ![r] =
                    NewTrade(taking.msg.order, taking.msg.take, taking.msg.from)]
    /\ taking' = [taking EXCEPT !.trade = r]
    /\ UNCHANGED <<orders, updater, msgs, wallets, chain, broadcast, alive>>

(* Mutant: the order is not unlocked after OrderTaken has refused it.      *)
OrderNotTakenKeepsLock ==
    /\ Maker \in alive
    /\ taking # None
    /\ taking.trade = None
    /\ ~CheckOrder(taking.msg.take, taking.max)
    /\ taking' = None
    /\ UNCHANGED <<orders, trades, updater, msgs, wallets, chain, broadcast, alive>>

OrderNotTaken ==
    /\ Maker \in alive
    /\ taking # None
    /\ taking.trade = None
    /\ ~CheckOrder(taking.msg.take, taking.max)
    /\ taking' = None
    /\ Unlock(taking.msg.order)
    /\ UNCHANGED <<trades, updater, msgs, wallets, chain, broadcast>>

(* The first trade of the list that Trade::Matches the message.            *)
Matching(m) ==
    {r \in TradeRefs : /\ r[1] = m.to
                       /\ trades[r].state \in Active
                       /\ trades[r].cp = m.from
                       /\ trades[r].order = m.order}
FirstMatch(r, m) ==
    r \in Matching(m) /\ \A q \in Matching(m) : r[2] <= q[2]

ProcessTrade(r, m) ==
    /\ r[1] \in alive
    /\ FirstMatch(r, m)
    /\ HasReply(r, HandleMessage(r[1], trades[r], m))
    /\ UNCHANGED <<orders, updater, chain, alive>>

ProcessTaking(r) ==
    /\ taking # None
    /\ taking.trade # None
    /\ ProcessTrade(r, taking.msg)
    /\ taking' = None

(* The trade was abandoned before the XMPP thread got to its third step.   *)
ProcessTakingLate ==
    /\ Maker \in alive
    /\ taking # None
    /\ taking.trade # None
    /\ Matching(taking.msg) = {}
    /\ taking' = None
    /\ UNCHANGED <<orders, trades, updater, msgs, wallets, chain, broadcast, alive>>

ProcessMessage(r, m) ==
    /\ m.take = 0
    /\ m.to = Maker => taking = None
    /\ ProcessTrade(r, m)
    /\ UNCHANGED taking

(***************************************************************************)
(* The updater job: Trade::Update of all trades and the archiving of the   *)
(* finalised ones is one critical section, their clean-up comes after it.  *)
(* A trade that the updater has archived is in updater[p] until then.      *)
(***************************************************************************)
Clock(r) ==
    /\ trades[r].state = "INITIATED"
    /\ ~trades[r].late
    /\ trades' = [trades EXCEPT ![r].late = TRUE]
    /\ UNCHANGED <<orders, updater, taking, msgs, wallets, chain, broadcast, alive>>

(* Mutants: a transaction already counts as final when it is in the        *)
(* mempool; the timeout is for every active trade, or is never checked.    *)
UpdateTrustsMempool(tr, enough) ==
    CASE tr.state = "INITIATED" /\ tr.late -> "ABANDONED"
      [] tr.state = "PENDING" /\ tr.our.tx \in Mempool \cup confirmed -> "SUCCESS"
      [] tr.state = "PENDING" /\ enough /\ tr.our.tx \notin confirmed
           /\ ~InputsUnspent(tr.our.tx) -> "FAILED"
      [] OTHER -> tr.state
UpdateAbandonsPending(tr, enough) ==
    IF tr.state \in Active /\ tr.late THEN "ABANDONED" ELSE tr.state
UpdateNeverAbandons(tr, enough) ==
    CASE tr.state = "PENDING" /\ enough /\ tr.our.tx \in confirmed -> "SUCCESS"
      [] tr.state = "PENDING" /\ enough /\ tr.our.tx \notin confirmed
           /\ ~InputsUnspent(tr.our.tx) -> "FAILED"
      [] OTHER -> tr.state

(* What Update makes of a trade.  A PENDING trade stays so until checktrade*)
(* and gettxout show enough confirmations of it or of a double spend;      *)
(* enough says that they do for the block height seen by this update.      *)
Update(tr, enough) ==
    CASE tr.state = "INITIATED" /\ tr.late -> "ABANDONED"
      [] tr.state = "PENDING" /\ enough /\ tr.our.tx \in confirmed -> "SUCCESS"
      [] tr.state = "PENDING" /\ enough /\ tr.our.tx \notin confirmed
           /\ ~InputsUnspent(tr.our.tx) -> "FAILED"
      [] OTHER -> tr.state

UpdateAndArchiveTrades(p, E) ==
    LET Next(r) == IF r[1] = p THEN Update(trades[r], r \in E)
                               ELSE trades[r].state
        changed == {r \in TradeRefs : Next(r) # trades[r].state}
    IN  /\ p \in alive
        /\ updater[p].todo = {}
        /\ changed # {}
        /\ trades' = [r \in TradeRefs |-> [trades[r] EXCEPT !.state = Next(r)]]
        /\ updater' = [updater EXCEPT ![p].todo = changed]
        /\ UNCHANGED <<orders, taking, msgs, wallets, chain, broadcast, alive>>

(* The loop over the finalised trades, in list order.                      *)
Current(p, r) ==
    /\ p \in alive
    /\ r \in updater[p].todo
    /\ \A q \in updater[p].todo : r[2] <= q[2]

Done(p, r) == updater' = [updater EXCEPT ![p] =
                            [todo |-> @.todo \ {r}, ordersDone |-> FALSE]]
OrdersDone == updater' = [updater EXCEPT ![Maker].ordersDone = TRUE]

WalletPart(p) == p = Maker => updater[p].ordersDone

(* A call throws on the thread of the updater: decodepsbt, checktrade or   *)
(* gettxout of Trade::Update; ValidateOrder for the maker's orders, in Add *)
(* or in the refresh after a change; or decodepsbt of UnlockPsbtInputs.    *)
UpdateThrows(p) ==
    /\ "update" \in Faults
    /\ p \in alive
    /\ \E r \in TradeRefs :
         \/ r[1] = p /\ updater[p].todo = {} /\ trades[r].state = "PENDING"
         \/ p = Maker /\ Current(p, r)
         \/ /\ Current(p, r)
            /\ trades[r].state \in {"FAILED", "ABANDONED"}
            /\ ~Sells(p) /\ trades[r].our # None
    /\ alive' = alive \ {p}
    /\ UNCHANGED <<orders, trades, updater, taking, msgs, wallets, chain, broadcast>>

(* Mutant: the order stays locked after a failed trade.                    *)
FailureKeepsOrder(r) ==
    /\ Current(Maker, r)
    /\ ~updater[Maker].ordersDone
    /\ trades[r].state \in {"FAILED", "ABANDONED"}
    /\ OrdersDone
    /\ UNCHANGED <<orders, trades, taking, msgs, wallets, chain, broadcast, alive>>

(* HandleFailure: first the order is made available again ...              *)
FailureUnlocksOrder(r) ==
    /\ Current(Maker, r)
    /\ ~updater[Maker].ordersDone
    /\ trades[r].state \in {"FAILED", "ABANDONED"}
    /\ Unlock(trades[r].order)
    /\ OrdersDone
    /\ UNCHANGED <<trades, taking, msgs, wallets, chain, broadcast>>

(* Mutant: the inputs of our_psbt stay locked.                             *)
FailureKeepsInputs(p, r) ==
    /\ Current(p, r)
    /\ WalletPart(p)
    /\ trades[r].state \in {"FAILED", "ABANDONED"}
    /\ nameLocks' = nameLocks \ {trades[r].name}
    /\ Done(p, r)
    /\ UNCHANGED <<orders, trades, taking, msgs, coinLocks, chain, broadcast, alive>>

(* ... then the name output and the inputs of our_psbt are unlocked.       *)
FailureUnlocksInputs(p, r) ==
    /\ Current(p, r)
    /\ WalletPart(p)
    /\ trades[r].state \in {"FAILED", "ABANDONED"}
    /\ nameLocks' = nameLocks \ {trades[r].name}
    /\ coinLocks' = IF ~Sells(p) /\ trades[r].our # None
                    THEN coinLocks \ {trades[r].our.tx.coin} ELSE coinLocks
    /\ Done(p, r)
    /\ UNCHANGED <<orders, trades, taking, msgs, chain, broadcast, alive>>

(* HandleSuccess: the order is removed, a reduced one may be added.        *)
SuccessRemovesOrder(r) ==
    /\ Current(Maker, r)
    /\ ~updater[Maker].ordersDone
    /\ trades[r].state = "SUCCESS"
    /\ RemoveById(trades[r].order)
    /\ OrdersDone
    /\ UNCHANGED <<trades, taking, msgs, wallets, chain, broadcast, alive>>

(* Mutant: the new order is not reduced by the units that were traded.     *)
SuccessAddsFull(r) ==
    LET old == orders[trades[r].order]
    IN  /\ Current(Maker, r)
        /\ updater[Maker].ordersDone
        /\ trades[r].state = "SUCCESS"
        /\ \E o \in OrderIds : Add(o, old.max, old.root)
        /\ Done(Maker, r)
        /\ UNCHANGED <<trades, taking, msgs, wallets, chain, broadcast, alive>>

SuccessAddsReduced(r) ==
    LET old  == orders[trades[r].order]
        left == old.max - trades[r].units
    IN  /\ Current(Maker, r)
        /\ updater[Maker].ordersDone
        /\ trades[r].state = "SUCCESS"
        /\ \/ /\ left > 0 /\ left >= MinUnits
              /\ \E o \in OrderIds : Add(o, left, old.root)
           \/ /\ Invalidates \/ left <= 0 \/ left < MinUnits
              /\ UNCHANGED orders
        /\ Done(Maker, r)
        /\ UNCHANGED <<trades, taking, msgs, wallets, chain, broadcast, alive>>

TakerSuccess(p, r) ==
    /\ p # Maker
    /\ Current(p, r)
    /\ trades[r].state = "SUCCESS"
    /\ Done(p, r)
    /\ UNCHANGED <<orders, trades, taking, msgs, wallets, chain, broadcast, alive>>

(***************************************************************************)
(* The chain: a trade transaction becomes final, or one of the inputs is   *)
(* spent by some other transaction.                                        *)
(***************************************************************************)
Confirm(x) ==
    /\ x \in Mempool
    /\ nameOut' = [nameOut EXCEPT ![x.name[1]] = @ + 1]
    /\ spentCoins' = spentCoins \cup {x.coin}
    /\ confirmed' = confirmed \cup {x}
    /\ UNCHANGED <<orders, trades, updater, taking, msgs, wallets, broadcast, alive>>

OtherNameOp(p) ==
    /\ nameOut[p] <= OtherOps
    /\ nameOut' = [nameOut EXCEPT ![p] = @ + 1]
    /\ UNCHANGED <<orders, trades, updater, taking, msgs, wallets, spentCoins,
                   confirmed, broadcast, alive>>

OtherCoinSpend(c) ==
    /\ OtherOps > 0
    /\ c \notin spentCoins
    /\ spentCoins' = spentCoins \cup {c}
    /\ UNCHANGED <<orders, trades, updater, taking, msgs, wallets, nameOut,
                   confirmed, broadcast, alive>>

(***************************************************************************)
(* Specification                                                           *)
(***************************************************************************)
Init ==
    /\ orders = [o \in OrderIds |-> [status |-> "none", max |-> 0, root |-> 0]]
    /\ trades = [r \in TradeRefs |-> NoTrade]
    /\ updater = [p \in Parties |-> [todo |-> {}, ordersDone |-> FALSE]]
    /\ taking = None
    /\ msgs = {}
    /\ nameLocks = {} /\ coinLocks = {}
    /\ nameOut = [p \in Parties |-> 1]
    /\ spentCoins = {}
    /\ broadcast = {} /\ confirmed = {}
    /\ alive = Parties

UserStep ==
    \/ \E o \in OrderIds : AddOrder(o) \/ CancelOrder(o)
    \/ \E r \in TradeRefs, o \in OrderIds, u \in 1 .. MaxUnits : TakeOrder(r, o, u)

XmppStep ==
    \/ \E m \in msgs : TryLock(m)
    \/ OrderNotTaken
    \/ ProcessTakingLate
    \/ \E r \in TradeRefs : OrderTaken(r) \/ ProcessTaking(r)
    \/ \E r \in TradeRefs, m \in msgs : ProcessMessage(r, m)

UpdaterStep ==
    \/ \E p \in Parties : \E E \in SUBSET {r \in TradeRefs : r[1] = p} :
         UpdateAndArchiveTrades(p, E)
    \/ \E p \in Parties : UpdateThrows(p)
    \/ \E r \in TradeRefs :
         \/ FailureUnlocksOrder(r)
         \/ SuccessRemovesOrder(r)
         \/ SuccessAddsReduced(r)
         \/ \E p \in Parties : FailureUnlocksInputs(p, r) \/ TakerSuccess(p, r)

ChainStep ==
    \/ \E x \in broadcast : Confirm(x)
    \/ \E p \in Parties : Sells(p) /\ OtherNameOp(p)
    \/ \E p \in Parties : ~Sells(p) /\ \E c \in {p} \X Coins : OtherCoinSpend(c)

Next ==
    \/ UserStep
    \/ RefreshOrders
    \/ XmppStep
    \/ UpdaterStep
    \/ \E r \in TradeRefs : Clock(r)
    \/ ChainStep

Spec == Init /\ [][Next]_vars

(* The threads of the daemons keep running: the updater is an IntervalJob, *)
(* ProcessMessage finishes what it began, the wall clock advances.  Miners *)
(* confirm what is in the mempool.  Nothing is assumed of users, of the    *)
(* delivery of messages and of double spends.                              *)
FairSpec ==
    /\ Spec
    /\ \A p \in Parties :
         WF_vars(\E E \in SUBSET {r \in TradeRefs : r[1] = p} :
                   UpdateAndArchiveTrades(p, E))
    /\ \A r \in TradeRefs :
         /\ WF_vars(FailureUnlocksOrder(r))
         /\ WF_vars(SuccessRemovesOrder(r))
         /\ WF_vars(SuccessAddsReduced(r))
         /\ WF_vars(FailureUnlocksInputs(r[1], r))
         /\ WF_vars(TakerSuccess(r[1], r))
         /\ WF_vars(OrderTaken(r))
         /\ WF_vars(ProcessTaking(r))
         /\ WF_vars(Clock(r))
    /\ WF_vars(OrderNotTaken)
    /\ WF_vars(ProcessTakingLate)
    /\ WF_vars(\E x \in broadcast : Confirm(x))

(***************************************************************************)
(* Properties                                                              *)
(***************************************************************************)
(* All state stays within the protobuf schema and the bounds; a trade that *)
(* has been started names its order and its counterparty.                  *)
TypeOK ==
    /\ orders \in [OrderIds -> Orders]
    /\ trades \in [TradeRefs -> Trades]
    /\ \A r \in TradeRefs : trades[r].state # "none" =>
         trades[r].order \in OrderIds /\ trades[r].cp \in Parties
    /\ updater \in [Parties -> [todo: SUBSET TradeRefs, ordersDone: BOOLEAN]]
    /\ \/ taking = None
       \/ taking \in Takings
    /\ msgs \subseteq Messages
    /\ nameLocks \subseteq Names
    /\ coinLocks \subseteq Parties \X Coins
    /\ nameOut \in [Parties -> Nat \ {0}]
    /\ spentCoins \subseteq Parties \X Coins
    /\ broadcast \subseteq Txs
    /\ confirmed \subseteq Txs
    /\ alive \subseteq Parties

(* The trade of a transaction's buyer or seller that a signature is for.   *)
SignerTrade(x, s) == IF s = "buyer" THEN x.buyer ELSE x.seller

(* A transaction reaches the network only if the daemon of the buyer and   *)
(* the daemon of the seller have both committed to this very trade: same   *)
(* order, same units, each the other's counterparty, neither of them still *)
(* INITIATED or already ABANDONED, however messages of an earlier attempt  *)
(* at the same order were delayed or repeated (Trade::Matches,             *)
(* CheckForSellerOutputs and the switch to PENDING in Trade::HasReply).    *)
AtomicTrade ==
    \A x \in broadcast :
        LET b == trades[x.buyer]
            s == trades[x.seller]
        IN  /\ b.state \in Committed /\ s.state \in Committed
            /\ b.order = s.order
            /\ b.units = x.units /\ s.units = x.units
            /\ b.cp = x.seller[1] /\ s.cp = x.buyer[1]

(* What trades.proto says of INITIATED and ABANDONED: our signatures have  *)
(* not been shared with the counterparty.                                  *)
SignaturesCommit ==
    \A m \in msgs : m.psbt # None =>
        \A s \in m.psbt.sigs :
            trades[SignerTrade(m.psbt.tx, s)].state \in Committed

(* The maker has at most one active trade for one of its orders (the claim *)
(* at Trade::GetIdentifier, and what ProcessMessage relies on when it      *)
(* handles the first match only).                                          *)
MakerTradeUnique ==
    \A r, q \in TradeRefs :
        /\ r[1] = Maker /\ q[1] = Maker
        /\ trades[r].state \in Active /\ trades[q].state \in Active
        /\ trades[r].order = trades[q].order
        => r = q

(* Who will release the lock of a maker's order: the XMPP thread that has  *)
(* just locked it, an active trade, or a trade the updater is finalising.  *)
TakingHolds(o) == taking # None /\ taking.trade = None /\ taking.msg.order = o
TradeHolds(r, o) ==
    /\ r[1] = Maker
    /\ trades[r].order = o
    /\ \/ trades[r].state \in Active
       \/ /\ r \in updater[Maker].todo
          /\ Current(Maker, r) => ~updater[Maker].ordersDone

(* No order stays locked with nobody left to unlock or remove it (unless   *)
(* the daemon is gone).                                                    *)
LockedOrderHasHolder ==
    \A o \in OrderIds :
        Maker \in alive /\ orders[o].status = "locked" =>
            TakingHolds(o) \/ \E r \in TradeRefs : TradeHolds(r, o)

(* The trade of the maker that the transaction belongs to.                 *)
MakerTradeOf(x) == IF MakerSells THEN x.seller ELSE x.buyer

(* An order is not on offer while a transaction that fills it may still    *)
(* become final or has become so.                                          *)
NotReoffered ==
    \A x \in Mempool \cup confirmed :
        orders[trades[MakerTradeOf(x)].order].status # "open"

(* Number the units of what the user has offered 1 .. MaxUnits, and fill   *)
(* them from the top: an order over max units is for 1 .. max of them, and *)
(* the transaction takes the upper ones of its order.                      *)
UnitsOf(x) ==
    LET max == orders[trades[MakerTradeOf(x)].order].max
    IN  (max - x.units + 1) .. max

RootOf(x) == orders[trades[MakerTradeOf(x)].order].root

(* Over all trades against an order and the reduced orders that follow it, *)
(* no unit is sold twice and none that was not offered: transactions that  *)
(* are final have different parts of the offer, so together they never     *)
(* exceed it (HandleSuccess with its two critical sections, and CheckOrder *)
(* on the copy of the order that TryLock has returned).                    *)
FilledWithinOffer ==
    \A x \in confirmed :
        /\ UnitsOf(x) \subseteq 1 .. MaxUnits
        /\ \A y \in confirmed :
             x # y /\ RootOf(x) = RootOf(y) => UnitsOf(x) \cap UnitsOf(y) = {}

(* Two active trades of a daemon never use the same wallet output, neither *)
(* the name as seller nor the coins as buyer: that is what the locks of    *)
(* CreateSellerData and walletcreatefundedpsbt are for.                    *)
InputsExclusive ==
    \A r, q \in TradeRefs :
        /\ r # q /\ r[1] = q[1]
        /\ trades[r].state \in Active /\ trades[q].state \in Active
        => /\ trades[r].name # None => trades[r].name # trades[q].name
           /\ ~Sells(r[1]) /\ trades[r].our # None /\ trades[q].our # None =>
                trades[r].our.tx.coin # trades[q].our.tx.coin

(* A trade that still owns its wallet locks.                               *)
OwnsLocks(r) == trades[r].state \in Active \/ r \in updater[r[1]].todo

(* Every output locked in a wallet belongs to a trade whose clean-up will  *)
(* unlock it, or has been spent (Trade::HandleFailure, and the comment on  *)
(* UnlockPsbtInputs in Trade::HasReply).                                   *)
NoLeakedLock ==
    /\ \A n \in nameLocks : n[1] \in alive =>
         \/ n[2] # nameOut[n[1]]
         \/ \E r \in TradeRefs : OwnsLocks(r) /\ trades[r].name = n
    /\ \A c \in coinLocks : c[1] \in alive =>
         \/ c \in spentCoins
         \/ \E r \in TradeRefs : /\ OwnsLocks(r)
                                 /\ trades[r].our # None
                                 /\ trades[r].our.tx.coin = c

(* Both sides of a transaction see the same outcome: if it is a SUCCESS    *)
(* for one of them it is neither FAILED nor ABANDONED for the other.       *)
OutcomesAgree ==
    \A r, q \in TradeRefs :
        /\ trades[r].our # None /\ trades[q].our # None
        /\ trades[r].our.tx = trades[q].our.tx
        /\ trades[r].state = "SUCCESS"
        => trades[q].state \notin {"FAILED", "ABANDONED"}

(* The CHECKs in MyOrders::Unlock, which say that an order a trade has     *)
(* locked still exists and is locked when the trade ends, never fail.      *)
UnlockFindsOrder == Maker \in alive

(* The transaction of a trade that one side reports as ABANDONED ("we have *)
(* not yet shared our signatures", says trades.proto) does not become      *)
(* final: the timeout in Trade::Update and the switch to PENDING in        *)
(* Trade::HasReply exclude each other.                                     *)
AbandonedNotExecuted ==
    \A x \in confirmed : /\ trades[x.buyer].state # "ABANDONED"
                         /\ trades[x.seller].state # "ABANDONED"

(* An order locked by a taker does not stay out of the market for ever: it *)
(* is offered again or filled, whichever messages, signatures or double    *)
(* spends the trade is stopped by (updater job, HandleFailure/Success).    *)
OrderFreed ==
    \A o \in OrderIds :
        orders[o].status = "locked" ~> orders[o].status # "locked"

(* A trade does not keep waiting for its counterparty before signatures    *)
(* are shared, and its wallet locks are released after it was abandoned.   *)
AbandonedReleases ==
    \A r \in TradeRefs :
        trades[r].state = "INITIATED" ~>
            \/ trades[r].state \in Committed
            \/ trades[r].state = "ABANDONED" /\ r \notin updater[r[1]].todo

(***************************************************************************)
(* Inductive invariants                                                    *)
(***************************************************************************)
(* The seller data s, as party p has it from cp for order o, was created   *)
(* by a trade of cp against p for that same order.                         *)
SellerDataFrom(s, p, cp, o) ==
    /\ trades[s].state # "none"
    /\ s[1] = cp /\ trades[s].cp = p /\ trades[s].order = o

(* x is the one transaction that its buyer's trade has constructed.        *)
BuiltByBuyer(x) ==
    LET b == trades[x.buyer]
    IN  /\ b.state # "none" /\ ~Sells(x.buyer[1])
        /\ b.our # None /\ b.our.tx = x
        /\ b.sd = x.seller /\ b.units = x.units
        /\ x.name[2] <= nameOut[x.name[1]]

(* The owner of signature s has committed to x, as seller for its units and*)
(* to no other transaction.                                                *)
SignedFor(x, s) ==
    /\ trades[SignerTrade(x, s)].state \in Committed
    /\ s = "seller" => /\ trades[x.seller].units = x.units
                       /\ trades[x.seller].our # None
                       /\ trades[x.seller].our.tx = x

(* A PSBT that has left its daemon. *)
SharedPsbtOK(ps) ==
    /\ BuiltByBuyer(ps.tx)
    /\ \A s \in ps.sigs : SignedFor(ps.tx, s)

(* What trade r knows, with the contents tr: the fields are filled in by   *)
(* the rules of the protocol.                                              *)
TradeOK(r, tr) ==
    /\ tr.state = "none" => tr = NoTrade
    /\ tr.sd # None => IF Sells(r[1])
                       THEN tr.sd = r
                       ELSE SellerDataFrom(tr.sd, r[1], tr.cp, tr.order)
    /\ tr.their # None => SharedPsbtOK(tr.their)
    /\ tr.our # None => BuiltByBuyer(tr.our.tx)
    /\ tr.our # None /\ Sells(r[1]) =>
         /\ tr.our.tx.seller = r /\ tr.our.tx.units = tr.units
         /\ r[1] = Maker => SignedFor(tr.our.tx, "buyer")
    /\ tr.our # None /\ ~Sells(r[1]) =>
         tr.our.tx.buyer = r /\ "seller" \notin tr.our.sigs
    /\ tr.state \in Committed => tr.our # None
    /\ tr.state = "SUCCESS" => tr.our.tx \in confirmed
    /\ tr.state = "FAILED" => /\ tr.our.tx \notin confirmed
                              /\ ~InputsUnspent(tr.our.tx)

MessageOK(m) ==
    /\ m.sd # None => SellerDataFrom(m.sd, m.to, m.from, m.order)
    /\ m.psbt # None => SharedPsbtOK(m.psbt)

(* Where signatures, addresses and transactions in the system come from;   *)
(* AtomicTrade, SignaturesCommit and OutcomesAgree follow from it.         *)
TradeInv ==
    /\ \A r \in TradeRefs : TradeOK(r, trades[r])
    /\ \A m \in msgs : MessageOK(m)
    /\ taking # None => MessageOK(taking.msg)
    /\ \A x \in broadcast : \A s \in Signers : BuiltByBuyer(x) /\ SignedFor(x, s)
    /\ confirmed \subseteq broadcast
=============================================================================
