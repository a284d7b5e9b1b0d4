---------------------------- MODULE TradeChecker ----------------------------
(***************************************************************************)
(* The numbers and the transaction of one trade, from the order that the   *)
(* maker adds to the seller's signature: what ValidateOrder, the JSON that *)
(* the taker sees, CheckOrder and the TradeChecker each let through.       *)
(* Protocol buffers hold unsigned integers, and Amount is signed, of the   *)
(* same width.  The steps of the trade itself are in Trading.              *)
(***************************************************************************)
EXTENDS Integers, FiniteSets

CONSTANTS
    Half,       \* half the range of uint64_t and of Amount, 2^63
    Balance     \* units of the asset that the seller has

ASSUME HalfAssumption == Half \in Nat \ {0}
ASSUME BalanceAssumption == Balance \in Nat

UInts == 0 .. 2 * Half - 1
Amounts == -Half .. Half - 1
Unset == -1                          \* an absent optional field

VARIABLES
    pc,         \* how far the trade has come
    folds,      \* the compiler has removed the test for overflow
    order,      \* of the maker: type, price_sat, min_units, max_units
    asShown,    \* history: the taker's order is the one that was displayed
    units,      \* of the trade
    honest,     \* history: the PSBT is the one that the buyer's code makes
    psbt        \* inputs, outputs and the inputs that are signed

vars == <<pc, folds, order, asShown, units, honest, psbt>>

(* Conversion of an integer to Amount (int64_t).                           *)
Amount(n) == ((n + Half) % (2 * Half)) - Half

(* Division of C++ by a positive integer.                                  *)
Quotient(a, b) == IF a >= 0 THEN a \div b ELSE -((-a) \div b)

(***************************************************************************)
(* Orders                                                                  *)
(***************************************************************************)
Orders == [type: {"ask", "bid"}, price: UInts, min: {Unset} \cup UInts, max: UInts]

CanSell(n) == n <= Balance

(* The asset is known to the game, and all fields but min_units are there. *)
ValidateOrder(o) ==
    /\ o.max # 0
    /\ o.min # Unset => o.min # 0 /\ o.min <= o.max
    /\ o.type = "ask" => CanSell(Amount(o.max))

(* Mutant: an absent min_units is shown as zero.                           *)
ProtoToJsonZero(o) ==
    [o EXCEPT !.min = IF o.min = Unset THEN 0 ELSE Amount(o.min),
              !.max = Amount(o.max), !.price = Amount(o.price)]

(* IntToJson takes an int64_t.  The CHECK_GE in it holds for valid orders. *)
ProtoToJson(o) ==
    [o EXCEPT !.min = IF o.min = Unset THEN 1 ELSE Amount(o.min),
              !.max = Amount(o.max), !.price = Amount(o.price)]

(* ProtoFromJson accepts what isUInt64; min_units may be missing.          *)
ProtoFromJsonOk(j) == (j.min = Unset \/ j.min >= 0) /\ j.max >= 0 /\ j.price >= 0

(* The default value of an absent min_units is zero.                       *)
CheckOrder(o, n) ==
    /\ n <= Amount(o.max)
    /\ n >= IF o.min = Unset THEN 0 ELSE Amount(o.min)

(* addorder: invalid orders are refused.  The order is then broadcast, and *)
(* the receiver finds it valid as well, with the same balance.             *)
AddOrder ==
    /\ pc = "start"
    /\ order' \in {o \in Orders : ValidateOrder(o)}
    /\ pc' = "listed"
    /\ UNCHANGED <<folds, asShown, units, honest, psbt>>

(* takeorder by the other trader with the JSON of the order, which may     *)
(* leave out min_units.                                                    *)
TakeOrder(n, shown) ==
    LET json == [ProtoToJson(order) EXCEPT !.min = IF shown THEN @ ELSE Unset] IN
    /\ pc = "listed"
    /\ ProtoFromJsonOk(json)
    /\ CheckOrder(json, n)
    /\ asShown' = shown
    /\ units' = n
    /\ pc' = "taking"
    /\ UNCHANGED <<folds, order, honest, psbt>>

OrderTaken ==
    /\ pc = "taking"
    /\ pc' = IF CheckOrder(order, units) THEN "agreed" ELSE "notTaken"
    /\ UNCHANGED <<folds, order, asShown, units, honest, psbt>>

(***************************************************************************)
(* The total, and the seller's check of the outputs                        *)
(***************************************************************************)
Price == Amount(order.price)

(* Mutant: without the test of the result.                                 *)
GetTotalSatUntested ==
    [abort |-> units <= 0, ok |-> units > 0, total |-> Amount(Price * units)]

(* Signed overflow is undefined: builds wrap around, and some of them have *)
(* the test that follows removed.                                          *)
GetTotalSat ==
    LET total == Amount(Price * units) IN
    [abort |-> units <= 0,
     ok    |-> units > 0 /\ (folds \/ Quotient(total, units) = Price),
     total |-> total]

Inputs == {"name", "sellerCoin", "buyerCoin"}
SellerWallet == {"name", "sellerCoin"}

(* What the name is updated with, and what the game makes of the transfer. *)
GetTransferMove(n) == [n |-> n, r |-> "buyer"]
GetNameUpdateValue == [nf |-> GetTransferMove(units), dem |-> TRUE]

(* CHI outputs, and name operations of which one detail may be different   *)
(* from what the seller expects.                                           *)
Chi(addr, value) == [op |-> "none", addr |-> addr, value |-> value]
ChiOutputs == {Chi("chi", v) : v \in 0 .. Half - 1} \cup {Chi("other", Half - 1)}
NameUpdate ==
    [op |-> "name_update", name |-> "seller", move |-> GetNameUpdateValue, addr |-> "name"]
NameOutputs ==
    {NameUpdate,
     [NameUpdate EXCEPT !.op = "name_register"], [NameUpdate EXCEPT !.name = "other"],
     [NameUpdate EXCEPT !.move.dem = FALSE], [NameUpdate EXCEPT !.move.nf.n = units + 1],
     [NameUpdate EXCEPT !.move.nf.r = "other"],
     [NameUpdate EXCEPT !.addr = "chi"], [NameUpdate EXCEPT !.addr = "other"]}

(* Bound: two CHI outputs and one name output.                             *)
OutputSets ==
    {chi \cup name : chi \in {{c, d} : c, d \in ChiOutputs} \cup {{}},
                     name \in {{x} : x \in NameOutputs} \cup {{}}}

MatchesAddress(out, addr) == out.addr = addr

FoundName(out) ==
    /\ out.op = "name_update"
    /\ out.name = "seller"
    /\ out.move = GetNameUpdateValue
    /\ MatchesAddress(out, "name")

(* Mutant: more than the total is asked for.                               *)
FoundChiMore(out, total) ==
    out.op = "none" /\ MatchesAddress(out, "chi") /\ out.value > total

(* A name operation does not count as payment.                             *)
FoundChi(out, total) ==
    out.op = "none" /\ MatchesAddress(out, "chi") /\ ~(out.value < total)

CheckForSellerOutputs(total) ==
    /\ total = 0 \/ \E out \in psbt.outs : FoundChi(out, total)
    /\ \E out \in psbt.outs : FoundName(out)

(* Mutant: any number of inputs may have been signed, among them the name. *)
CheckForSellerSignatureLoose(before, after) == "name" \in psbt.ins

CheckForSellerSignature(before, after) ==
    /\ "name" \in psbt.ins
    /\ after \ before \subseteq {"name"}

CheckForBuyerSignature(before, after) ==
    Cardinality(after \ before) + 1 = Cardinality(psbt.ins)

(***************************************************************************)
(* The transaction                                                         *)
(***************************************************************************)
(* The buyer's wallet adds a coin and the change; the name part is joined  *)
(* to it.  The node refuses a negative amount.                             *)
ConstructTransaction ==
    LET t == GetTotalSat IN
    /\ pc = "agreed"
    /\ CanSell(units)
    /\ pc' = CASE t.abort -> "aborted"
               [] ~t.abort /\ ~t.ok -> "aborted"
               [] ~t.abort /\ t.ok /\ t.total < 0 -> "buyerRefused"
               [] OTHER -> "constructed"
    /\ psbt' = [ins    |-> {"name", "buyerCoin"},
                outs   |-> {NameUpdate, Chi("chi", t.total), Chi("other", 0)},
                signed |-> {}]
    /\ honest' = TRUE
    /\ UNCHANGED <<folds, order, asShown, units>>

(* The wallet signs what it has the keys for.  Buyer and seller may have   *)
(* the same wallet, so that it has that of the name as well.               *)
BuyerSigns(wallet) ==
    LET after == psbt.ins \cap wallet IN
    /\ pc = "constructed"
    /\ IF CheckForBuyerSignature(psbt.signed, after)
       THEN /\ pc' = "sent"
            /\ psbt' = [psbt EXCEPT !.signed = after]
       ELSE pc' = "buyerRefused" /\ UNCHANGED psbt
    /\ UNCHANGED <<folds, order, asShown, units, honest>>

(* A PSBT with anything in it is what the counterparty has sent.           *)
OtherPsbt ==
    /\ pc = "agreed"
    /\ \E outs \in OutputSets, ins \in SUBSET Inputs :
         psbt' = [ins |-> ins, outs |-> outs, signed |-> ins \ SellerWallet]
    /\ honest' = FALSE
    /\ pc' = "sent"
    /\ UNCHANGED <<folds, order, asShown, units>>

SellerSigns ==
    LET t     == GetTotalSat
        after == psbt.signed \cup (psbt.ins \cap SellerWallet)
        good  == t.ok /\ CheckForSellerOutputs(t.total)
    IN
    /\ pc = "sent"
    /\ \/ /\ t.abort \/ (t.ok /\ t.total < 0)
          /\ pc' = "aborted"
          /\ UNCHANGED psbt
       \/ /\ ~t.abort /\ (t.ok => t.total >= 0)
          /\ IF good /\ CheckForSellerSignature(psbt.signed, after)
             THEN pc' = "signed" /\ psbt' = [psbt EXCEPT !.signed = after]
             ELSE pc' = "sellerRefused" /\ UNCHANGED psbt
    /\ UNCHANGED <<folds, order, asShown, units, honest>>

(***************************************************************************)
(* Specification                                                           *)
(***************************************************************************)
Init ==
    /\ pc = "start"
    /\ folds \in BOOLEAN
    /\ order = [type |-> "ask", price |-> 0, min |-> Unset, max |-> 0]
    /\ asShown = FALSE /\ units = 0 /\ honest = FALSE
    /\ psbt = [ins |-> {}, outs |-> {}, signed |-> {}]

Next ==
    \/ AddOrder
    \/ \E n \in Amounts, shown \in BOOLEAN : TakeOrder(n, shown)
    \/ OrderTaken
    \/ ConstructTransaction
    \/ \E w \in {{"buyerCoin"}, Inputs} : BuyerSigns(w)
    \/ OtherPsbt
    \/ SellerSigns

Spec == Init /\ [][Next]_vars

(***************************************************************************)
(* Properties                                                              *)
(***************************************************************************)
Fits == order.price * units \in Amounts

(* Whatever PSBT the seller has signed, one output of it pays the price    *)
(* times the units of the order, as integers without a width, to the CHI   *)
(* address, and one moves the asset as agreed with the name still at the   *)
(* seller's address: several smaller payments, the value of the name       *)
(* output or a total that has wrapped around do not do.  Builds that drop  *)
(* the test are excepted for totals that overflow.                         *)
SellerPaid ==
    pc = "signed" /\ (folds => Fits) =>
        /\ \/ order.price * units = 0
           \/ \E out \in psbt.outs : /\ out.op = "none" /\ out.addr = "chi"
                                     /\ out.value >= order.price * units
        /\ NameUpdate \in psbt.outs

(* The seller's wallet has keys of other coins, and the buyer's perhaps    *)
(* that of the name: what leaves the one is signed for the name only, and  *)
(* what leaves the other for everything but the name.                      *)
SignaturesScoped ==
    /\ pc = "signed" => psbt.signed \cap SellerWallet = {"name"}
    /\ pc = "sent" /\ honest => psbt.signed = psbt.ins \ {"name"}

(* The two sides compute the total and the move on their own: the seller   *)
(* does not refuse what ConstructTransaction makes.                        *)
HonestAccepted == honest => pc # "sellerRefused"

(* No CHECK fails in the trade of an order that is taken as it is shown,   *)
(* unless the total overflows: zero or negative units, or a price beyond   *)
(* the range of Amount, do not come that far.                              *)
ShownNoAbort == asShown /\ Fits => pc # "aborted"
=============================================================================
