# Democrit in TLA+

Democrit is a daemon for atomic trades of game assets against CHI on the Xaya
blockchain.  Every trader runs one.  Daemons meet in an XMPP chat room, where
each broadcasts its own orders; to take an order, two daemons exchange private
messages until they have one transaction that both have signed, which moves the
asset (a name update of the seller) and the CHI at the same time.

This directory has TLA+ modules of its core, the configurations with which TLC
checks them on small instances, and proofs checked by TLAPS.

## Inventory

| Component | State | Operations | Works with |
|---|---|---|---|
| `Trade`, `TradeManager` (`trades.cpp`) | active trades and the archive in `proto::State` | `TakeOrder`, `OrderTaken`, `ProcessMessage` (`HandleMessage`, `HasReply`), updater job (`Update`, `HandleSuccess`, `HandleFailure`) | `MyOrders` for locks, `TradeChecker`, the Xaya node and wallet by RPC, the GSP |
| `MyOrders` (`myorders.cpp`) | own orders with their `locked` flag and `next_free_id` in `proto::State` | `Add`, `RemoveById`, `TryLock`, `Unlock`, `RunRefresh` | broadcasts through `Daemon`, validates with `AssetSpec` |
| `OrderBook` (`orderbook.cpp`) | orders of the others by account, queue of update events | `UpdateOrders`, `RunTimeout`, `GetByAsset`, `GetForAsset` | fed by `Daemon::HandleMessage` and `HandleDisconnect` |
| `TradeChecker` (`checker.cpp`) | none | `CheckForBuyerTrade`, `CheckForBuyerSignature`, `CheckForSellerOutputs`, `CheckForSellerSignature` | RPC to the node and GSP |
| `Daemon` (`daemon.cpp`) | owns all of the above, reconnecter | callbacks of the chat room, the public interface | everything |
| `State` (`private/state.hpp`) | one mutex and the protocol buffer | `AccessState`, `ReadState` | `Trade*`, `MyOrders` |
| `IntervalJob` (`intervaljob.cpp`) | a thread and its stop flag | start, run, stop | updater, refresher, timeouter, reconnecter |
| `MucClient`, `Authenticator` | XMPP connection, room, nick names, known JIDs | connect, disconnect, send, presence and message callbacks | gloox, `Daemon` |
| GSP (`gsp/`) | trades confirmed on the chain, pending moves | blocks attached and detached, `checktrade` | `Trade::Update` |
| `AssetSpec`, `nonfungible/` | none | `IsAsset`, `CanSell`, `CanBuy`, `GetTransferMove` | games' GSPs |
| `stanzas`, `json`, `rpcserver`, `rpcclient` | none | conversions and I/O | |

What is hard in this system:

* **Threads.** XMPP callbacks, RPC calls of the user, the updater, the
  refresher and the timeouter run concurrently.  Critical sections of `State`
  are short, and most operations consist of several of them with calls outside.
* **An unreliable channel.** Nothing acknowledges a message.  A message names
  only the maker and the order ID, so a late one of an earlier attempt at the
  same order matches the new trade.
* **Failing calls.** Each RPC call may throw, before or after it had an effect
  in the wallet or the network.
* **Connections that end.** The XMPP connection may be lost at any time, which
  calls none of the room's handlers; or a handler ends it, on another thread.
* **Moving chains.** The updater asks the GSP and the node one after the other;
  both move meanwhile, reorgs included, and the GSP may be behind.
* **Timeouts.** An INITIATED trade is abandoned by the clock, which races the
  counterparty's answer.
* **Shared resources.** One name output per seller, coins in one wallet, orders
  several takers want.
* **Numbers and names from others.** Prices and units are multiplied in 64 bits;
  user names of the chat server stand for accounts of the blockchain.

What makes the components correct:

* `Trade`: a transaction gets out only if both sides have committed to the same
  trade; signatures are shared only by who can no longer abandon; both sides
  see the same outcome, which is what became of the transaction; wallet outputs
  and orders are released in the end.
* `MyOrders`: at most one trade per order, no order gets lost, none is sold
  twice, the room learns which are available.
* `OrderBook`: exactly the accounts that are too old are removed, and those
  that are no longer broadcast do not stay; the views have the best price first.
* `TradeChecker`: a party signs only a transaction that is its trade and pays
  the exact total, and a trade that is mined moves an asset the seller has.
* `Daemon`, `Authenticator`: messages for an account reach only its owner, the
  book holds orders of traders who are there, and the JID we would write to is
  not one that has left.
* `MucClient`: connections end completely before the next one, nobody waits for
  ever, the room object outlives its handlers, and a message is attributed to
  who has sent it.  The first two are not true of the code; the properties say
  when they are.

The list of hazards, each at its line, is in `PROJECT.json`.

## Modules

| Module | Models |
|---|---|
| `AtomicSwap` | what a trade promises, without orders, messages, wallets and blocks |
| `Trading` | one maker's and several takers' daemons: trades, own orders, wallets, chat room, mempool and chain |
| `TradingSwap` | `Trading` as an implementation of `AtomicSwap` |
| `MCTrading` | symmetry |
| `TradingProofs` | types and safety of the trade protocol, its refinement of `AtomicSwap`, locks of orders and of wallet outputs, what is sold of an offer |
| `TradeTracking`, `TradeTrackingProofs` | `Trade::Update` of one pending trade, call by call, with the GSP and the node |
| `BuyerCheck`, `BuyerCheckProofs` | `CheckForBuyerTrade`, call by call, with the tree of blocks and the game's GSP |
| `TradeChecker`, `TradeCheckerProofs` | one trade with integers of their width: validation, JSON, totals, outputs and signatures |
| `MyOrders`, `MyOrdersProofs` | own orders at the granularity of threads inside `RunRefresh`, and the broadcasts |
| `OrderBook`, `OrderBookProofs` | the order book with its timeout queue |
| `OrderBookViews`, `MCOrderBook` | what the book shows by asset, with the order of prices |
| `Authenticator` | user names of the chat server and accounts |
| `Daemon`, `MCDaemon`, `DaemonProofs` | the callbacks of `Daemon::Impl`, known JIDs, sending |
| `MucClient`, `MCMucClient`, `MucClientProofs` | connecting, disconnecting, nick map and messages of the chat client |

### Trading

The module has the daemons of one maker and of a set of takers; it is
instantiated for ASK orders (`MakerSells`) and for BID orders.  One action is
one critical section of `State` together with the RPC calls made inside, or one
call outside of it.

* `trades[<<p, i>>]` is the `proto::TradeState` of the i-th trade that p's
  daemon has started, `late` whether more than the trade timeout has passed
  since.  A finalised trade keeps its entry (the archive); `updater[p]` has the
  ones that the updater has taken out of the list but not yet cleaned up.
* `orders` is `own_orders` of the maker.  `max` is `max_units`; `root` is a
  history field, the order of the user that a reduced order goes back to.
* `taking` is a `taking_order` message between `TryLock`, `OrderTaken` and the
  processing of the trade, the three critical sections of `ProcessMessage`.
* `msgs` has all messages ever sent and any of them can be received at any time
  and again, or never: loss, delay, repetition and reordering.
* `nameLocks` and `coinLocks` are the outputs locked in the wallets,
  `nameOut` the current output of each name, `spentCoins` what is spent on the
  chain, `broadcast` and `confirmed` the trade transactions.
* `alive` loses a daemon that has aborted in a `CHECK` or by an exception
  nobody catches.

Data is abstracted to what the checks of `TradeChecker` tell apart.  A
transaction is a record of the buyer's trade that built it, the seller's trade
whose fresh addresses it pays to, the units (which fix the payment and the name
value), and its name and coin inputs.  A PSBT is a transaction and the set of
parties whose signatures it has.

`HasReply` has one action per way to leave it (`SendSellerData`,
`TakerSellerSigns`, `MakerBuyerConstructs`, `TakerBuyerConstructs`,
`MakerFinalises`, `NoReply`, and the ways to throw).  The constant `Faults`
says which calls fail: `refused` before any effect, `midway` after the wallet
has locked an output or `our_psbt` is set, `lostReply` when the node sends the
transaction and the caller sees an exception, `update` on the updater's thread.

Simplifications: `RunRefresh` at the end of an operation is part of its action
(`MyOrders` splits it); `lockunspent` fails only for outputs locked already;
one coin funds any trade; a transaction is final as soon as it is confirmed,
and `Update` sees that with enough confirmations or not yet (the set `E`); block
heights, reorgs and a GSP that is behind are in `TradeTracking`, so
`OutcomesAgree` is about daemons whose GSP has caught up; units are at least 1;
a party never takes its own order; a taker is not also a maker.

`FilledWithinOffer` numbers the units of an offer: an order over `max` units is
for the units 1 to `max`, and a transaction takes the upper ones of its order.
Final transactions of one offer then have disjoint sets of units, all of them
offered.  This says that their sum is within the offer, without a sum over a set.

### AtomicSwap and TradingSwap

A side is a trade in the view of one daemon.  It is opened, and may be left
until it is bound.  One side binds itself by sharing its signatures, the other
by publishing the swap.  A swap is executed or fails, and each side ends with
what has happened.  `TradingSwap` maps a trade's `proto::TradeState::State` to
the phase of its side, a broadcast transaction to the swap of its buyer's and
its seller's trade, and a confirmed one to an executed swap.  `Execute` does
not execute a swap that a side has reported as failed: this is where the
refinement says that FAILED is right for good.  `Settle` ends several sides at
once, since a run of the updater decides about all trades of its daemon.

### TradeTracking

One PENDING trade of one daemon.  `chain` is the node's best chain; a block is
what it does to the trade's inputs: nothing, the trade itself, or a double
spend.  A reorg replaces up to `MaxReorg` blocks, and what was only in them goes
back to the mempool.  `gsp` is the chain that the GSP has processed (its table
of trades with their heights), `pending` whether its pending state has the
trade.  `Update` is split where others can move: `CheckPending` and `UseAnswer`
are the two reads of `DemGame::CheckTrade`, which takes no lock between them,
and `CheckInputs` is `gettxout`, which does not tell who has spent an output.
The gettxout calls for several inputs are one step, since what spends one input
of the trade makes it conflicted.

Nothing is assumed of the pace of blocks, of the GSP and of the updater, and a
double spend may enter the mempool, or come with a block, at any time.  Two
history variables record what `FailureExplained` needs.  `late`: a block came
before the GSP had been told of the trade in the mempool, or more than `MaxLag`
blocks after the GSP's last answer to the updater (`OnTime`).  `contested`: since
`conflict_height` was set, the inputs were seen as spent by a double spend that
was in the mempool.

### BuyerCheck

The check reads the seller's name output (`name_show`), that it is unspent and
at which block (`gettxout`), the seller's balance and at which block of the
game's GSP (`CanSell`), and then looks for the first block among the ancestors
of the second one (`IsBlockAncestor`).  Between any two calls, blocks are added
anywhere in the tree and the GSP moves by one block, backwards when its branch
has been left.  A block may have a move of the seller that spends the name
output and gives the asset away, an asset for the seller, or the trade itself
once the check has passed.  Name outputs are told apart by the updates that led
to them, since the same transactions may be in several branches.
`IsBlockAncestor` walks back from one block to the next until it finds the other
block or has seen enough; the walk is a function of the number of steps, so that
it can be reasoned about.

### TradeChecker

One trade from `addorder` to the seller's signature, with `2 * Half`
values of an integer in place of 2^64.  Conversions between `uint64_t` of the protocol buffers and the signed
`Amount` wrap around.  `price * units` is signed and its overflow undefined:
the product wraps around in all builds, and `folds` says that the compiler has
removed the test of the quotient behind it, as optimising compilers may.  The
taker uses the order's JSON as it was shown, or without `min_units`.  The PSBT
is what `ConstructTransaction` makes, or any with up to two CHI outputs and one
name output, of which each differs in one detail from the expected one, and any
inputs.

### MyOrders

Each thread has a program counter for `RunRefresh`: `drop` (validate and swap),
`copy` (`InternalGetOrders`), `publish` (`UpdateOrders`, outside the mutex).
`offered` is what the room knows of us.  `withdrawn` is a history variable: the
orders that were removed, or became invalid at some time.

### OrderBook

Every operation holds the mutex to its end, so each is one action: broadcasts
of an account (`HandleMessage`), its disconnect (`HandleDisconnect`), both by
`UpdateOrders`, and a run of the timeouter.  An account is absent if it has no
orders, as `UpdateOrders` erases it then.  `OrderBookViews` adds `GetByAsset`
and `GetForAsset` for fixed assets, sides and prices of the orders (`Data`).

### Authenticator and Daemon

`DecodeName` works on sequences of character codes.  `Daemon` has the sessions
of one user: two on the trusted server, one of the same user name on another.
The user name is any of a set with simple names, encoded names and names that
are neither (`MCDaemon`).  A session joins, leaves, broadcasts (with or without
a valid stanza, with or without valid orders) and sends private messages.  While
we are not connected nothing reaches the handlers, and departures go unnoticed
(`unseen`).  `TakeOrder` looks the maker up on the user's thread; if a handler
writes to `knownJids` meanwhile, which has no mutex, the look-up may fail
(`raced`).  `SendMessage` without a connection aborts the daemon (`alive`): in
`TakeOrder`, in the broadcast of own orders, and in a reply, if the connection is
lost while the trades process the message.  `gone` has the sessions that have
left and have neither come back nor written since; private messages also come
from sessions outside of the room.  The order book has only the ages of accounts
here, and removes those older than `MaxAge`.

### MucClient

Three threads with a program counter each: the reconnecter, which runs
`Connect`; gloox's thread, which runs the handlers of presences and errors one
after the other; and the thread that `DisconnectAsync` starts.  What the mutex
protects is one step, except that `DisconnectAsync` is split between starting
its thread and storing it in `disconnecter`, with the mutex held.  `Connect`
joins the thread and clears `disconnecting` without the mutex, so it may do so
in this window too.  The `CHECK` of `Connect` is an action of its own
(`CheckFails`), which ends all threads.  The connection may be lost at any time
(`LoseConnection`): no handler runs, the room object stays, and a join that is
sent after it is never answered.  The room is the environment: it answers a join,
removes us, sends errors, and its members come, go, change nick names, reuse
those of others and send messages, which name their sender by nick.  Presences of
the members in `Anonymous` come with or without a full JID.

Three history variables say what the properties except.  `lost`: since the last
join, the connection was lost while we were not disconnecting.  `raced`: since
the last join, `Connect` was past joining the thread while `DisconnectAsync` had
not stored the one it starts.  A join while we are connected resets both.  `hidden`: nick names whose last presence had no full JID.

## Runs

| Run | Instance | Shows |
|---|---|---|
| `trading_bid` | BID, one taker that may take twice, a spend outside of the protocol | `AtomicTrade`, `SignaturesCommit`, `OutcomesAgree`, `TypeOK`, `AbandonedNotExecuted` and the inductive invariant `TradeInv` |
| `trading_orders` | ASK, two takers, partial fills, cancels, invalid orders, `refused`, `midway` and `update` | `ImplementsAtomicSwap`, `MakerTradeUnique`, `LockedOrderHasHolder`, `NotReoffered`, `FilledWithinOffer` |
| `trading_live` | BID, two orders, a taker that takes twice, one coin, `lostReply`, fairness | `InputsExclusive`, `NoLeakedLock`, `OrderFreed`, `AbandonedReleases` |
| `myorders` | three threads, two orders, fairness | `NoLostOrder`, `LockedWithdrawn`, `AvailableOffered` |
| `tracking` | 4 confirmations, up to two reorgs of up to 3 blocks, a GSP that is late with more than one block, fairness | `SuccessFinal`, `FailureExplained`, `ConfirmedDecided` |
| `buyer_check` | a tree of 6 blocks, 3 ancestors | `MinedTradeValid`, `MismatchExplained` |
| `trade_checker` | integers of 3 bits (`Half = 4`), a balance of 2, all builds | `SellerPaid`, `SignaturesScoped`, `HonestAccepted`, `ShownNoAbort` |
| `orderbook` | two accounts, three orders, four queued events, four ticks, fairness | `QueueCoversBook`, `ViewsBestFirst`, `TimeoutExact`, `StaleRemoved` |
| `muc` | two other members, one with a JID that is not always shown, two nick names, up to three stanzas under way, fairness | `RoomOutlivesHandler`, `MessagesAttributed`, `CheckExplained`, `ConnectReturns`, `DisconnectCompletes` |
| `daemon` | three sessions of a user, who has any of a set of user names | `PrivateToOwner`, `TakeFindsMaker`, `BookOfPresent`, `MakerReachable` |

**Bounds.** Mixing up two attempts needs two trades of the same pair for the
same order, so two takes and two trades of the maker; a race for an order needs
two takers; exclusive use of coins needs two concurrent trades, hence two
orders; a partial fill needs two units, and the reduced order is again taken by
the second taker.  A third trade repeats what the second does: the order IDs
and the seller's addresses are all a trade has in common with others, and the
theorems below do not depend on the numbers.  In the order book a stale event
needs two updates of an account, and four events allow one of another account
between and one after them.  In `tracking`, reorgs of one block less than the
confirmations are the longest that may not undo a SUCCESS, two of them can
undo what the first one did, and four confirmations are the fewest for which
`FailureExplained` holds if one block is not late (the default is 6).  In
`buyer_check`, six blocks have room for a reorg during the check, a GSP on
either branch and the trade in the block after; three ancestors are fewer than
the longest chain has.  In `trade_checker`, three bits have prices and units
whose product overflows to negative and to positive numbers, prices that are
negative as `Amount`, and balances below and above `max_units`.  In `muc`, two members
suffice to swap and reuse nick names; the answer to a join has up to three
stanzas, and the room sends more while fewer than two are under way, such as a
message or an error behind a removal or a change of nick.  In `daemon`, a second
session is enough to leave while the first stays; one user name at a time is
enough for `PrivateToOwner`, as it compares with the only name that the account
may have; ages beyond `MaxAge` are all alike.

**Fairness.** In `Trading`, the updater job and what `ProcessMessage` has begun
are weakly fair (an `IntervalJob` and a thread that holds no lock another one
waits for), time passes, and miners confirm what is in the mempool.  Users,
message delivery and double spends are not fair: a message may be lost for
ever.  In `MyOrders`, threads proceed and the refresher starts again.  In
`OrderBook` only the timeouter is fair (an `IntervalJob`).  In `TradeTracking`
the GSP follows the node and the updater runs again and again.  In `MucClient`
the three threads run; nothing is assumed of the room and of the connection, nor
that the reconnecter tries again.

**Deadlock** is checked in `myorders`, `orderbook` and `muc`.  The others set
`CHECK_DEADLOCK FALSE`: with orders, trades, spends and blocks bounded all may
be finished (`Trading`, `tracking`, `buyer_check`), a trade ends
(`trade_checker`), and a daemon may have aborted (`daemon`).

### Disagreements

Each of these runs ends with a counterexample to something the repository says.

| Run | Property | What happens |
|---|---|---|
| `trading_unlock` | `UnlockFindsOrder` | an order is cancelled (or dropped) while it is locked; when its trade is abandoned, the `CHECK`s of `Unlock` abort the daemon |
| `trading_lost_reply` | `AbandonedNotExecuted` | `sendrawtransaction` works but its reply is lost; the trade is abandoned, and then confirmed |

Others are behaviours of passing runs, whose properties name them as the only
exceptions.  Each of the exceptions is needed: TLC finds a counterexample when it
is taken out of the property.

* `FailureExplained` (`tracking`).  "The trade failed because an input was double
  spent" (`proto/trades.proto`), but an executed trade can be FAILED.
    * `late`: the GSP is catching up.  The node reports the inputs as spent, by
      the trade itself, and the GSP has not reached its block when the
      confirmations have passed since.
    * `contested`: a double spend stays in the mempool, which `gettxout` reports
      like a confirmed one, while the confirmations pass; then the trade is mined
      in its place.
    * A reorg replaces the double spend by the trade, which is FAILED already.
* `CheckExplained` (`muc`).  "Did not fully disconnect previously", the `CHECK` of
  `Connect` (`mucclient.cpp:66`), aborts the daemon.
    * `lost`: the connection is lost, the room object stays, and the reconnecter
      calls `Connect`.  The reconnecter exists for this very case.
    * `raced`: the reconnecter runs before `DisconnectAsync` has stored its
      thread (line 123); `Connect` does not wait for it and finds its room.
* `ConnectReturns` (`muc`).  `Connect` waits on `cvJoin` for ever (line 86).
    * `lost`: the connection is lost before the room has answered the join.
    * `raced`: the thread that `Connect` did not wait for cuts its new connection.
* `DisconnectCompletes` (`muc`), `raced`: `Connect` has cleared `disconnecting`
  (line 58) while a disconnect was about to start; a second error passes the
  early return (line 97) and its handler waits for the thread (line 101), which
  waits in `XmppClient::Disconnect` until no handler is running.  A lost
  connection does not do this.
* `MessagesAttributed` (`muc`), `hidden`: a change of the nick name without a full
  JID leaves the old nick name in the map (line 260).  When somebody else takes
  it, again without a JID, their messages count as the first one's.

Seen on the way, without a run of their own:

* An RPC call that throws after the wallet has locked an output, and before the
  trade has recorded it, leaves the lock for ever (`NoLeakedLock` holds in
  `trading_live` because its fault is none of these).
* Broadcasts of own orders can overtake each other, which the next refresh
  repairs (`myorders`).
* Readers of the order book do not take its mutex, and `Authenticator`'s map of
  known JIDs has none.
* While the GSP is detaching blocks, `conflict_height` is too low.
* The log message at the start of `handleMUCParticipantPresence` dereferences the
  full JID, which may be null, at verbosity 1 (`mucclient.cpp:205`).
* An exception of `ValidateOrder` in `RunRefresh` leaves the orders that the loop
  has moved already empty in the map (`myorders.cpp:44-45`); on the updater's
  thread, as in `UpdateThrows`, it ends the process.
* The test for overflow in `GetTotalSat` comes after the signed multiplication
  whose overflow is undefined, so that a compiler may remove it; `SellerPaid`
  excepts totals that overflow in such builds.
* An absent `min_units` is 1 in `ValidateOrder` and in the order's JSON, and 0
  in `CheckOrder`.  A taker that leaves the field out may take zero units, and
  `GetTotalSat` aborts; hence `ShownNoAbort` is about orders taken as shown.
* `HandleDisconnect` authenticates the JID that has left and so remembers it as
  the one to answer to, and removes the orders of an account of which another
  session is still there.  The second makes the first harmless
  (`MakerReachable`): orders come back only with a message of another session.
* `SendMessage` aborts when the connection is lost after the caller's check.
* The refresher's thread starts in the constructor of `MyOrders`, before the
  derived class whose virtual functions it calls is constructed.

Also, `TakeOrder` does not look for an active trade with the same identifier,
which `private/trades.hpp` says no two active trades have.  Run `trading_bid`
therefore has a taker that takes an order again at any time; what matters, that
a transaction belongs to one trade of each side, holds nevertheless.

## Proofs

The theorems hold for any number of takers, orders, trades, units, coins,
sessions, names and stanzas, from the assumptions named in the modules (`None`
is not one of the values, sets of nick names are finite, names are sequences of
character codes, the bounds are natural numbers).

| Module | Theorems | Under |
|---|---|---|
| `TradingProofs` | `TypeCorrect` (`TypeOK`) | all faults |
| `TradingProofs` | `TradeInvariant`, `AtomicTrades`, `SharedSignaturesCommit`, `SameOutcome`, `AbandonedIsUndone`, and `SwapImplemented` (`Trading` implements `AtomicSwap`) | all faults but `lostReply` |
| `TradingProofs` | `OrderLockInvariant`, `MakerTradesUnique`, `LockedOrdersHeld`, `WalletLockInvariant`, `InputsNotShared` | all faults |
| `TradingProofs` | `FilledNotReoffered` (`NotReoffered`), `NoUnitSoldTwice` (`FilledWithinOffer`) | all faults but `lostReply` |
| `TradingProofs` | `LocksNotLeaked` (`NoLeakedLock`) | all faults but `midway` |
| `TradingProofs` | `SwapsAtomic` (`AllOrNothing` of `AtomicSwap`) | |
| `TradeTrackingProofs` | `TrackingTyped` (`TypeOK`), `SuccessIsFinal` (`SuccessFinal`) | any confirmations, more than the deepest reorg |
| `TradeTrackingProofs` | `WrongFailureExplained` (`FailureExplained`) | more than one confirmation, and more than three times `MaxLag`, the blocks that are not yet late |
| `BuyerCheckProofs` | `BuyerCheckTyped` (`TypeOK`), `MinedIsValid` (`MinedTradeValid`), `MismatchIsExplained` (`MismatchExplained`) | any tree of blocks, any number of ancestors looked at |
| `TradeCheckerProofs` | `CheckerInvariant`, `SellerIsPaid`, `SignaturesInScope`, `HonestTradeAccepted`, `ShownTradeRuns` | integers of any width |
| `MyOrdersProofs` | `OrdersTyped`, `OrdersNotLost` (`NoLostOrder`) | any number of threads |
| `OrderBookProofs` | `BookTyped`, `QueueComplete` (`QueueCoversBook`), `TimeoutRemovesExactly` (`TimeoutExact`) | any timeout |
| `DaemonProofs` | `AccountHasOneName`, `DaemonInvariant`, `PrivateMessages` (`PrivateToOwner`), `MakerIsFound` (`TakeFindsMaker`), `BookIsOfPresent` (`BookOfPresent`), `MakerIsReachable` (`MakerReachable`) | any user names |
| `MucClientProofs` | `ClientInvariant`, `RoomAccessed` (`RoomOutlivesHandler`), `CheckFailureExplained` (`CheckExplained`), `SenderIsKnown` (`MessagesAttributed`) | all interleavings, lost connections |

The faults that are left out are the ones that really break the property:
`trading_lost_reply` shows it for `AbandonedNotExecuted`, the order of such a
trade is offered and sold again, and a call that throws after the wallet has locked an output leaks it.  So the theorems say that these
are the only modelled ways.

### The trade protocol

`AtomicTrade` is not inductive: it says nothing of messages under way, from
which the next transaction is made.  `TradeInv` adds where things come from.
Seller data that a party has or that is in a message was made by a trade of the
sender against the receiver for that order; a PSBT was built by a buyer's trade
with the right counterparty, order and units; a signature is of a trade that
has filled in this transaction, and when the PSBT was sent, of one that is
committed; a transaction in the network has both signatures.  These facts say
of a trade only what never changes: once started, its order, units and
counterparty stay, `sd`, `name` and `our` are set once, and it never leaves the
committed states (`Grows`, `Extends`); the chain only grows (`ChainGrows`).  So
the facts about old messages remain true, however late they are delivered, and
each action has to be looked at only for the message or trade that it changes.
`OutcomesAgree` follows from the fact that both sides judge the same inputs on
the same chain.

**Refinement.**  `SwapImplemented` takes the mapping of `TradingSwap` and shows
for each action of `Trading` which action of `AtomicSwap` it is, or that the
mapped state does not change.  Broadcasting is `Publish`, which needs from
`TradeInv` that the signer's side is bound to this very swap and that a trade is
in no other transaction; a confirmation is `Execute`, which needs that no side
has reported a failure: a trade is FAILED only if an input is spent by something
else, and a chain has no two transactions with a common input.  A run of the
updater is one `Settle` of all the sides that it decides about.

**Locks of orders.**  `OrderLockInv` has every order held at most once: by the
XMPP thread between `TryLock` and `OrderTaken`, by an active trade, or by the
updater between archiving the trade and `Unlock` or `RemoveById`; and an order
that is held is not on offer.  Each action hands the hold on, takes it together
with the lock, or gives both up.  A daemon that has aborted keeps its locks for
ever, which is why `LockedOrderHasHolder` is about daemons that run.
`NotReoffered` needs in addition that the maker's trade of a transaction in the
network holds the order until it is a success, and that a filled order is gone
once the updater has removed it.

**Units of an offer.**  `FilledWithinOffer` is about transactions that are final,
and says nothing of the orders that the next ones will be for.  `FillInv` has
three parts.  A trade of the maker that may succeed or has done so is the only
one of its order and within its units (`FillTrades`).  The order that the XMPP
thread has just locked has no such trade, and the thread's copy of it is true
(`FillTaking`); this is where `NotReoffered` is needed, since what `TryLock`
finds was on offer.  And of two orders that go back to the same one, one was
added for what is left after a successful trade with the other (`FillOrders`):
`HandleSuccess` adds the reduced order in the same step in which it is done with
the trade, so no trade leaves two of them.  Most steps neither add orders nor
start trades of the maker, and a lemma for all of them (`FillStays`) says so.

**Locks in wallets.**  `WalletInv` says that what a trade has chosen is locked
until its clean-up, and that two trades of one daemon that are not cleaned up
have chosen different outputs; what is locked already cannot be chosen, so no
new trade gets it.  For `NoLeakedLock` the converse is needed (`LeakInv`): every
lock has an owner or its output is spent.  A step leaves the owners alone, lets
one of them act, releases an owner together with its locks, or is a `TakeOrder`
that throws with the name locked, which is the fault `midway` (`WalletCases`).

**The abstract specification.**  `AllOrNothing` of `AtomicSwap` needs that both
sides of every published swap are committed: only then is `Execute` known to find
no side that was left.  `SwapsAtomic` is stated for the mapped specification
`Swap!Spec`, which is the one that `SwapImplemented` concludes.

### Decisions about a trade

In `TradeTracking`, a SUCCESS is final because the chain of the GSP, which may be
of a branch the node has left, agrees with the node's chain below the deepest
reorg (`ChainInv`); a trade with enough confirmations is there (`SettledInv`).

FAILED is about the time that passes between three answers.  The node says that
an input is spent without saying by whom, and if it is by the trade itself the
GSP must learn of its block before the conflict is old enough.  `ConflictInv`
bounds how much later that can be as long as nothing was `late`, there was no
reorg and no double spend was seen in the mempool: the answer that set
`conflict_height` was up to `MaxLag` blocks behind the node, up to as many pass
until the next answer, and up to as many until the trade's block is seen.  So more
confirmations than three times `MaxLag` suffice, and at least two
(`EnoughConfirmations`): this is no assumption about the code, but says which
`MaxLag` makes `late` an explanation.  It is tight: TLC finds `FailureExplained`
violated with 3 confirmations and a lag of 1, with 6 and a lag of 2, and with 1 and
no lag.  With the default of 6 confirmations (`trades.cpp:31`), a GSP may be one
block behind, and not two.

### The buyer's check

`BuyerCheck` has a tree of blocks.  `TreeInv` says that the ancestors of a block
are a chain with one block at each height, and that as long as the seller's name
output stays the same along it, the seller keeps the asset.  `AnswersInv` says
what the answers of the calls mean although they were given for different blocks
at different times.  When the check has passed, the block of the name output is
an ancestor of the block of the balance.  A block with the trade spends this very
output; if the block of the balance is among its ancestors, the output has not
changed in between, and so the seller still has the asset.  What `IsBlockAncestor`
finds is a chain of parents: the first step of the walk that would leave it is
taken as the least counterexample, which needs no induction over an operator.

### The other components

In `TradeChecker`, whether the seller is paid depends on arithmetic modulo the
width.  `TestTells` says that for every width the quotient test of `GetTotalSat`
finds each product that has wrapped around; so the total that buyer and seller
compute on their own is the true one (`ShownInv`) and what is signed pays it
(`SignedInv`).  The constant is half the range instead of the number of bits
because the provers know nothing of powers.

In `Daemon`, `PrivateToOwner` rests on `DecodeThenEncode`: for names of any
length, the one encoded name of the account that `DecodeName` returns is the
name it was given, digit by digit.  `KnownInv` says that whoever has orders on
the book has been authenticated, and that the JID known of an account belongs to
it: a session that leaves is then not the one known of any other account.

In `MucClient`, `ControlInv` relates what holds in all interleavings, also after
a lost connection and in the window of `DisconnectAsync`: the room is destroyed
only by a thread that has ended the connection after the last handler, and while
a handler runs or a stanza is under way that thread has not got there.  The flags
tell less: `CalmInv` says what they do as long as neither `lost` nor `raced` is
set, which is that there is a room only while we are online or about to
disconnect, and none once `Connect` has joined the thread.
`MessagesAttributed` looks at the first stanza only, so `AttributionInv` looks
ahead: for each message under way, the last presence before it that concerns the
nick name, or the nick map if there is none, gives the sender; and all presences
together give the members of the room.  The room may present the members in any
order.

In `MyOrders`, `NoLostOrder` needs in addition that an order that is not valid
has been recorded as withdrawn, so that the swap of the map drops no other.

In `OrderBook`, the loop of `RunTimeout` stops at the first event that is not
too old.  The events it pops are a prefix of the queue (`PoppedIsPrefix`, by the
least number that is not popped), and since the queue is in the order of time,
no event behind it is too old.  `QueueCoversBook` says the rest: each account on
the book still has the event of its last update, so an account that is too old
has it in the prefix, and one that is not keeps it behind the prefix.

### Only model-checked

* Liveness: fairness and `ENABLED` are beyond the prover.
* `ViewsBestFirst`: `SortSeq` chooses a sorted permutation, and that there is one
  for orders of any number needs induction over data.

Every other invariant and action property of the runs is a theorem.

## Not modelled

* Two daemons that track the same trade, more than one move per block in the
  GSP, its start-up and other RPC methods.
* `MucClient::Disconnect` (called by the destructor and tests only), the order
  of construction and destruction of the daemon's parts, start and stop of
  `IntervalJob`.
* Concurrent reads of the order book: a data race over a map has no outcomes to
  choose from.
* How the non-fungible adapter splits an asset's name; its `main`.
* Stanzas, the JSON of trades and lists, read-only RPC methods, transport:
  conversions without state or guards.
* Restarts: nothing is stored on disk.
* Tests and test doubles.

## Plan

1. `Trading`, `MyOrders`, `OrderBook`, first proofs (done).
2. `TradeTracking`, the connection in `MucClient` (done).
3. `BuyerCheck`, `TradeChecker`, `Authenticator`, `Daemon`, messages in
   `MucClient`, views of the order book (done).
4. `AtomicSwap` and its refinement (done).
5. Proofs of `QueueCoversBook`, `TimeoutExact`, `AllOrNothing` (done).
6. Proofs of the refinement, the locks of orders and wallets, `TradeChecker`,
   `Daemon` and `MucClient` (done).
7. Proofs of `TradeTracking`, `BuyerCheck` and of what is sold of an offer (done).
8. Left: start and stop of `IntervalJob`, two daemons that track the same trade
   with a GSP each.
