------------------------ MODULE TradeCheckerProofs ------------------------
(***************************************************************************)
(* Theorems about module TradeChecker, for integers of any width: what the *)
(* test for overflow in GetTotalSat is worth, and what follows for orders, *)
(* payments and signatures.                                                *)
(***************************************************************************)
EXTENDS TradeChecker, FiniteSetTheorems, TLAPS

(***************************************************************************)
(* Arithmetic of Amount                                                    *)
(***************************************************************************)
LEMMA Division ==
    ASSUME NEW a \in Int, NEW b \in Nat \ {0}
    PROVE  /\ a \div b \in Int /\ a % b \in 0 .. b - 1
           /\ a = b * (a \div b) + (a % b)
  BY SMT

LEMMA NegatedProduct ==
    ASSUME NEW a \in Int, NEW b \in Int
    PROVE  -b \in Int /\ a * (-b) = -(a * b)
  BY SMT

(* A multiple of m that is less than m is zero. *)
LEMMA SmallMultiple ==
    ASSUME NEW k \in Int, NEW m \in Nat \ {0}, -m < m * k, m * k < m
    PROVE  k = 0
  BY SMT

(* The conversion changes a number by a multiple of the range only. *)
LEMMA AmountWraps ==
    ASSUME NEW n \in Int
    PROVE  /\ Amount(n) \in Amounts
           /\ \E k \in Int : Amount(n) = n + (2 * Half) * k
<1>1. PICK m \in Nat \ {0} : m = 2 * Half
  BY HalfAssumption
<1>2. PICK q \in Int, r \in Int : /\ q = (n + Half) \div m /\ r = (n + Half) % m
                                  /\ r \in 0 .. m - 1 /\ n + Half = m * q + r
  BY <1>1, Division, HalfAssumption
<1>3. Amount(n) = r - Half
  BY <1>1, <1>2 DEF Amount
<1>4. Amount(n) \in Amounts
  BY <1>1, <1>2, <1>3, HalfAssumption DEF Amounts
<1>5. -q \in Int /\ m * (-q) = -(m * q)
  BY NegatedProduct
<1>6. Amount(n) = n + m * (-q)
  BY <1>1, <1>2, <1>3, <1>5, HalfAssumption
<1> QED
  BY <1>1, <1>4, <1>5, <1>6

(* What fits is not changed. *)
LEMMA AmountOfFitting ==
    ASSUME NEW n \in Amounts
    PROVE  Amount(n) = n
<1>1. n \in Int /\ -Half <= n /\ n < Half /\ Half \in Nat
  BY HalfAssumption DEF Amounts
<1>2. PICK k \in Int : Amount(n) = n + (2 * Half) * k
  BY <1>1, AmountWraps
<1>3. Amount(n) \in Int /\ -Half <= Amount(n) /\ Amount(n) < Half
  BY <1>1, AmountWraps DEF Amounts
<1>4. PICK m \in Nat \ {0} : m = 2 * Half
  BY HalfAssumption
<1>5. -m < m * k /\ m * k < m
  BY <1>1, <1>2, <1>3, <1>4
<1>6. k = 0
  BY <1>4, <1>5, SmallMultiple
<1> QED
  BY <1>1, <1>2, <1>6

(* An unsigned integer that does not become negative has not changed. *)
LEMMA AmountOfUnsigned ==
    ASSUME NEW n \in UInts, Amount(n) >= 0
    PROVE  n \in 0 .. Half - 1 /\ Amount(n) = n
<1>1. n \in Int /\ 0 <= n /\ n < 2 * Half /\ Half \in Nat
  BY HalfAssumption DEF UInts
<1>2. CASE n < Half
  <2>1. n \in Amounts
    BY <1>1, <1>2 DEF Amounts
  <2> QED
    BY <1>1, <1>2, <2>1, AmountOfFitting
<1>3. CASE n >= Half
  <2>1. PICK m \in Nat \ {0} : m = 2 * Half
    BY HalfAssumption
  <2>2. PICK k \in Int : Amount(n) = n + m * k
    BY <1>1, <2>1, AmountWraps
  <2>3. Amount(n) \in Int /\ Amount(n) < Half
    BY <1>1, AmountWraps DEF Amounts
  <2>4. -m < m * k /\ m * k < m
    BY <1>1, <1>3, <2>1, <2>2, <2>3
  <2>5. k = 0
    BY <2>1, <2>4, SmallMultiple
  <2> QED
    BY <1>1, <1>3, <2>2, <2>3, <2>5
<1> QED
  BY <1>1, <1>2, <1>3

(* The quotient is off by less than the divisor. *)
LEMMA QuotientBound ==
    ASSUME NEW t \in Int, NEW u \in Nat \ {0}
    PROVE  /\ Quotient(t, u) \in Int
           /\ -u < t - u * Quotient(t, u) /\ t - u * Quotient(t, u) < u
<1>1. CASE t >= 0
  <2>1. Quotient(t, u) = t \div u
    BY <1>1 DEF Quotient
  <2>2. PICK q \in Int, r \in Int : q = t \div u /\ r \in 0 .. u - 1 /\ t = u * q + r
    BY Division
  <2> QED
    BY <2>1, <2>2
<1>2. CASE t < 0
  <2>1. PICK s \in Int : s = -t /\ Quotient(t, u) = -(s \div u)
    BY <1>2 DEF Quotient
  <2>2. PICK q \in Int, r \in Int : q = s \div u /\ r \in 0 .. u - 1 /\ s = u * q + r
    BY Division
  <2>3. PICK p \in Int, n \in Int : p = -q /\ n = u * q /\ u * p = -n
    BY <2>2, NegatedProduct
  <2>4. Quotient(t, u) = p /\ t = -n - r
    BY <2>1, <2>2, <2>3
  <2> QED
    BY <2>2, <2>3, <2>4
<1> QED
  BY <1>1, <1>2

LEMMA QuotientOfProduct ==
    ASSUME NEW p \in Nat, NEW u \in Nat \ {0}
    PROVE  Quotient(p * u, u) = p
<1>1. PICK q \in Int, t \in Int : q = Quotient(t, u) /\ t = p * u
  BY QuotientBound
<1>2. -u < t - u * q /\ t - u * q < u
  BY <1>1, QuotientBound
<1>3. p - q \in Int /\ u * (p - q) = t - u * q
  BY <1>1
<1>4. p - q = 0
  BY <1>2, <1>3, SmallMultiple
<1> QED
  BY <1>1, <1>4

(* The test in GetTotalSat: a product that has wrapped around gives another*)
(* quotient.                                                               *)
LEMMA TestTells ==
    ASSUME NEW p \in Int, NEW u \in 1 .. Half - 1,
           Quotient(Amount(p * u), u) = p
    PROVE  Amount(p * u) = p * u
<1>1. PICK m \in Nat \ {0}, n \in Int : m = 2 * Half /\ n = p * u
  BY HalfAssumption
<1>2. u \in Nat \ {0} /\ u < m
  BY <1>1, HalfAssumption
<1>3. PICK t \in Int : t = Amount(n)
  BY <1>1, AmountWraps, HalfAssumption DEF Amounts
<1>4. PICK k \in Int : t = n + m * k
  BY <1>1, <1>3, AmountWraps
<1>5. Quotient(t, u) = p
  BY <1>1, <1>3
<1>6. -u < t - u * p /\ t - u * p < u
  BY <1>2, <1>5, QuotientBound
<1>7. u * p = n
  BY <1>1, <1>2
<1>8. -m < m * k /\ m * k < m
  BY <1>2, <1>4, <1>6, <1>7
<1>9. k = 0
  BY <1>8, SmallMultiple
<1> QED
  BY <1>1, <1>3, <1>4, <1>9

(***************************************************************************)
(* The inductive invariant                                                 *)
(***************************************************************************)
Total == GetTotalSat.total

OutputOK(out) ==
    \/ out.op = "none" /\ out.value \in Int
    \/ /\ out.op # "none"
       /\ out = [op |-> out.op, name |-> out.name, move |-> out.move, addr |-> out.addr]

TypeInv ==
    /\ folds \in BOOLEAN /\ asShown \in BOOLEAN /\ honest \in BOOLEAN
    /\ order \in Orders /\ units \in Amounts
    /\ psbt = [ins |-> psbt.ins, outs |-> psbt.outs, signed |-> psbt.signed]
    /\ psbt.ins \subseteq Inputs /\ psbt.signed \subseteq Inputs
    /\ \A out \in psbt.outs : OutputOK(out)

(* An order that was taken as it is shown has the price that is shown, and *)
(* its units are positive.                                                 *)
ShownInv ==
    /\ pc = "start" => ~asShown
    /\ asShown => units >= 1 /\ order.price \in 0 .. Half - 1

(* What the buyer's code has constructed.                                  *)
HonestPsbt ==
    /\ ~GetTotalSat.abort /\ GetTotalSat.ok /\ Total >= 0
    /\ psbt.ins = {"name", "buyerCoin"}
    /\ NameUpdate \in psbt.outs /\ Chi("chi", Total) \in psbt.outs

(* What has been signed when the PSBT gets to the buyer, to the seller, and*)
(* when the seller is done.                                                *)
SignedInv ==
    /\ pc = "constructed" => honest /\ HonestPsbt /\ psbt.signed = {}
    /\ pc = "sent" => psbt.signed \cap SellerWallet = {}
    /\ pc = "sent" /\ honest => HonestPsbt /\ psbt.signed = {"buyerCoin"}
    /\ pc = "signed" => /\ psbt.signed \cap SellerWallet = {"name"}
                        /\ ~GetTotalSat.abort /\ GetTotalSat.ok /\ Total >= 0
                        /\ CheckForSellerOutputs(Total)

CheckerInv ==
    TypeInv /\ ShownInv /\ SignedInv /\ HonestAccepted /\ ShownNoAbort

LEMMA TotalFields ==
    ASSUME TypeInv
    PROVE  /\ GetTotalSat.abort <=> units <= 0
           /\ GetTotalSat.ok <=> units > 0 /\ (folds \/ Quotient(Total, units) = Price)
           /\ Total = Amount(Price * units)
           /\ Price \in Amounts /\ Total \in Amounts /\ Total \in Int
<1>1. order.price \in Int /\ units \in Int
  BY HalfAssumption DEF TypeInv, Orders, UInts, Amounts
<1>2. Price \in Amounts
  BY <1>1, AmountWraps DEF Price
<1>3. Price * units \in Int
  BY <1>1, <1>2, HalfAssumption DEF Amounts
<1>4. Total = Amount(Price * units)
  BY DEF Total, GetTotalSat
<1>5. Total \in Amounts
  BY <1>3, <1>4, AmountWraps
<1>6. GetTotalSat.abort <=> units <= 0
  BY DEF GetTotalSat
<1>7. GetTotalSat.ok <=> units > 0 /\ (folds \/ Quotient(Total, units) = Price)
  BY <1>4 DEF GetTotalSat
<1> QED
  BY <1>2, <1>4, <1>5, <1>6, <1>7, HalfAssumption DEF Amounts

(* The total is what the seller is owed if the test is there, or the       *)
(* product fits.                                                           *)
LEMMA TotalRight ==
    ASSUME TypeInv, GetTotalSat.ok, Total >= 0, folds => Fits
    PROVE  Total = order.price * units
<1>1. /\ units \in Int /\ 1 <= units /\ units < Half /\ Half \in Nat
      /\ order.price \in UInts /\ order.price \in Int /\ order.price >= 0
  BY TotalFields, HalfAssumption DEF TypeInv, Orders, UInts, Amounts
<1>2. CASE Fits
  <2>1. PICK n \in Amounts : n = order.price * units
    BY <1>2 DEF Fits
  <2>2. n >= order.price
    BY <1>1, <2>1
  <2>3. order.price \in Amounts
    BY <1>1, <2>1, <2>2, HalfAssumption DEF Amounts
  <2>4. Price = order.price
    BY <2>3, AmountOfFitting DEF Price
  <2> QED
    BY <2>1, <2>4, AmountOfFitting, TotalFields
<1>3. CASE ~folds
  <2>1. PICK p \in Int : p = Price
    BY TotalFields, HalfAssumption DEF Amounts
  <2>2. units \in 1 .. Half - 1 /\ Total = Amount(p * units) /\ Quotient(Total, units) = p
    BY <1>1, <1>3, <2>1, TotalFields
  <2>3. Total = p * units
    BY <2>2, TestTells
  <2>4. p >= 0
    BY <1>1, <2>1, <2>3
  <2>5. p = order.price
    BY <1>1, <2>1, <2>4, AmountOfUnsigned DEF Price
  <2> QED
    BY <2>3, <2>5
<1> QED
  BY <1>2, <1>3 DEF TypeInv

LEMMA NameOutputOps == \A out \in NameOutputs : OutputOK(out)
  BY DEF NameOutputs, NameUpdate, OutputOK

LEMMA ChiFields ==
    ASSUME NEW addr, NEW value
    PROVE  LET out == Chi(addr, value) IN
           out.op = "none" /\ out.addr = addr /\ out.value = value
  BY DEF Chi

LEMMA Cards == /\ Cardinality({"buyerCoin"}) = 1
               /\ Cardinality({"name", "buyerCoin"}) = 2
<1>1. Cardinality({"buyerCoin"}) = 1 /\ IsFiniteSet({"buyerCoin"})
  BY FS_Singleton
<1>2. Cardinality({"buyerCoin"} \cup {"name"}) = Cardinality({"buyerCoin"}) + 1
  BY <1>1, FS_AddElement
<1>3. {"buyerCoin"} \cup {"name"} = {"name", "buyerCoin"}
  OBVIOUS
<1> QED
  BY <1>1, <1>2, <1>3

(* What is agreed on does not change, and so the total does not.           *)
LEMMA SameTotal ==
    ASSUME UNCHANGED <<folds, order, units>>
    PROVE  /\ UNCHANGED <<GetTotalSat, Total, NameUpdate>>
           /\ Fits' <=> Fits
           /\ \A out : FoundName(out)' <=> FoundName(out)
  BY DEF GetTotalSat, Total, NameUpdate, Fits, FoundName, GetNameUpdateValue,
         GetTransferMove, Price, MatchesAddress

(* The JSON of a valid order shows a positive minimum and the real price,  *)
(* or cannot be used.                                                      *)
LEMMA ShownUnits ==
    ASSUME TypeInv, NEW n \in Amounts, NEW json,
           json.price = Amount(order.price), json.max = Amount(order.max),
           json.min = (IF order.min = Unset THEN 1 ELSE Amount(order.min)),
           ValidateOrder(order), ProtoFromJsonOk(json), CheckOrder(json, n)
    PROVE  n >= 1 /\ order.price \in 0 .. Half - 1
<1>1. /\ order.price \in UInts /\ order.max \in UInts /\ order.max # 0
      /\ order.min = Unset \/ order.min \in UInts
      /\ order.min # Unset => order.min # 0 /\ order.min <= order.max
      /\ n \in Int /\ Half \in Nat
  BY HalfAssumption DEF TypeInv, Orders, ValidateOrder, Amounts
<1>2. json.price >= 0 /\ json.max >= 0
  BY DEF ProtoFromJsonOk
<1>3. order.price \in 0 .. Half - 1
  BY <1>1, <1>2, AmountOfUnsigned
<1>4. order.max \in 1 .. Half - 1 /\ json.max = order.max
  BY <1>1, <1>2, AmountOfUnsigned
<1>5. json.min \in 1 .. Half - 1
  <2>1. CASE order.min = Unset
    BY <1>1, <1>4, <2>1
  <2>2. CASE order.min # Unset
    <3>1. order.min \in 1 .. Half - 1
      BY <1>1, <1>4, <2>2 DEF UInts
    <3>2. order.min \in Amounts
      BY <1>1, <3>1 DEF Amounts
    <3> QED
      BY <2>2, <3>1, <3>2, AmountOfFitting
  <2> QED
    BY <2>1, <2>2
<1>6. json.min # Unset /\ json.min \in Amounts
  BY <1>1, <1>5 DEF Unset, Amounts
<1>7. n >= json.min
  BY <1>6, AmountOfFitting DEF CheckOrder
<1> QED
  BY <1>1, <1>3, <1>5, <1>7

(* Orders are valid once they are listed. *)
ListedInv == pc = "listed" => ValidateOrder(order)

LEMMA AddOrderInv == TypeInv /\ ShownInv /\ AddOrder => (CheckerInv /\ ListedInv)'
<1> SUFFICES ASSUME TypeInv, ShownInv, AddOrder PROVE (CheckerInv /\ ListedInv)'
  OBVIOUS
<1>1. /\ pc = "start" /\ pc' = "listed" /\ order' \in Orders /\ ValidateOrder(order')
      /\ UNCHANGED <<folds, asShown, units, honest, psbt>> /\ ~asShown
  BY DEF AddOrder, ShownInv
<1>2. TypeInv'
  BY <1>1 DEF TypeInv
<1>3. ListedInv'
  BY <1>1 DEF ListedInv, ValidateOrder, CanSell
<1> QED
  BY <1>1, <1>2, <1>3 DEF CheckerInv, ShownInv, SignedInv, HonestAccepted, ShownNoAbort

LEMMA TakeOrderInv ==
    ASSUME TypeInv, ListedInv, NEW n \in Amounts, NEW shown \in BOOLEAN, TakeOrder(n, shown)
    PROVE  (CheckerInv /\ ListedInv)'
<1>1. PICK json : json = [ProtoToJson(order) EXCEPT !.min = IF shown THEN @ ELSE Unset]
  OBVIOUS
<1>2. /\ pc = "listed" /\ pc' = "taking" /\ asShown' = shown /\ units' = n
      /\ ProtoFromJsonOk(json) /\ CheckOrder(json, n)
      /\ UNCHANGED <<folds, order, honest, psbt>> /\ ValidateOrder(order)
  BY <1>1 DEF TakeOrder, ListedInv
<1>3. TypeInv'
  BY <1>2 DEF TypeInv
<1>4. shown => n >= 1 /\ order.price \in 0 .. Half - 1
  <2>1. ASSUME shown
        PROVE  /\ json.price = Amount(order.price) /\ json.max = Amount(order.max)
               /\ json.min = (IF order.min = Unset THEN 1 ELSE Amount(order.min))
    BY <1>1, <2>1 DEF ProtoToJson, TypeInv, Orders
  <2> QED
    BY <1>2, <2>1, ShownUnits
<1>5. ShownInv'
  BY <1>2, <1>4 DEF ShownInv
<1> QED
  BY <1>2, <1>3, <1>5 DEF CheckerInv, SignedInv, HonestAccepted, ShownNoAbort, ListedInv

LEMMA OrderTakenInv == CheckerInv /\ OrderTaken => (CheckerInv /\ ListedInv)'
<1> SUFFICES ASSUME CheckerInv, OrderTaken PROVE (CheckerInv /\ ListedInv)'
  OBVIOUS
<1>1. /\ pc' \in {"agreed", "notTaken"}
      /\ UNCHANGED <<folds, order, asShown, units, honest, psbt>>
  BY DEF OrderTaken
<1>2. TypeInv' /\ ShownInv'
  BY <1>1 DEF CheckerInv, TypeInv, ShownInv
<1> QED
  BY <1>1, <1>2 DEF CheckerInv, SignedInv, HonestAccepted, ShownNoAbort, ListedInv

(* No CHECK fails for what was taken as it is shown and fits.              *)
LEMMA ShownTotal ==
    ASSUME TypeInv, ShownInv, asShown, Fits
    PROVE  ~GetTotalSat.abort /\ GetTotalSat.ok /\ Total >= 0
<1>1. /\ units \in Nat \ {0} /\ order.price \in Nat /\ order.price \in Amounts
  BY HalfAssumption DEF TypeInv, ShownInv, Amounts
<1>2. Price = order.price
  BY <1>1, AmountOfFitting DEF Price
<1>3. PICK n \in Amounts : n = order.price * units
  BY DEF Fits
<1>4. n >= 0
  BY <1>1, <1>3
<1>5. Total = n
  BY <1>2, <1>3, TotalFields, AmountOfFitting
<1>6. Quotient(n, units) = order.price
  BY <1>1, <1>3, QuotientOfProduct
<1> QED
  BY <1>1, <1>2, <1>4, <1>5, <1>6, TotalFields

LEMMA ConstructInv == CheckerInv /\ ConstructTransaction => (CheckerInv /\ ListedInv)'
<1> SUFFICES ASSUME CheckerInv, ConstructTransaction PROVE (CheckerInv /\ ListedInv)'
  OBVIOUS
<1>1. /\ UNCHANGED <<folds, order, asShown, units>> /\ honest' = TRUE
      /\ psbt' = [ins    |-> {"name", "buyerCoin"},
                  outs   |-> {NameUpdate, Chi("chi", Total), Chi("other", 0)},
                  signed |-> {}]
      /\ pc' = CASE GetTotalSat.abort -> "aborted"
                 [] ~GetTotalSat.abort /\ ~GetTotalSat.ok -> "aborted"
                 [] ~GetTotalSat.abort /\ GetTotalSat.ok /\ Total < 0 -> "buyerRefused"
                 [] OTHER -> "constructed"
  BY DEF ConstructTransaction, Total
<1>2. /\ Total \in Int
      /\ UNCHANGED <<GetTotalSat, Total, NameUpdate>> /\ (Fits' <=> Fits)
  BY <1>1, SameTotal, TotalFields DEF CheckerInv
<1>3. /\ psbt'.ins = {"name", "buyerCoin"} /\ psbt'.signed = {}
      /\ psbt'.outs = {NameUpdate, Chi("chi", Total), Chi("other", 0)}
  BY <1>1
<1>4. \A out \in psbt'.outs : OutputOK(out)
  BY <1>2, <1>3, ChiFields DEF NameUpdate, OutputOK
<1>5. TypeInv' /\ ShownInv'
  <2>1. psbt' = [ins |-> psbt'.ins, outs |-> psbt'.outs, signed |-> psbt'.signed]
    BY <1>1, <1>3
  <2>2. psbt'.ins \subseteq Inputs /\ psbt'.signed \subseteq Inputs
    BY <1>3 DEF Inputs
  <2>3. TypeInv'
    BY <1>1, <1>4, <2>1, <2>2 DEF CheckerInv, TypeInv
  <2>4. pc' # "start"
    BY <1>1
  <2> QED
    BY <1>1, <2>3, <2>4 DEF CheckerInv, ShownInv
<1>6. CASE GetTotalSat.abort \/ ~GetTotalSat.ok
  <2>1. pc' = "aborted"
    BY <1>1, <1>6
  <2>2. ShownNoAbort'
    BY <1>1, <1>2, <1>6, ShownTotal DEF CheckerInv, ShownNoAbort
  <2> QED
    BY <1>5, <2>1, <2>2 DEF CheckerInv, SignedInv, HonestAccepted, ListedInv
<1>7. CASE ~GetTotalSat.abort /\ GetTotalSat.ok /\ Total < 0
  <2>1. pc' = "buyerRefused"
    BY <1>1, <1>7
  <2> QED
    BY <1>5, <2>1 DEF CheckerInv, SignedInv, HonestAccepted, ShownNoAbort, ListedInv
<1>8. CASE ~GetTotalSat.abort /\ GetTotalSat.ok /\ Total >= 0
  <2>1. pc' = "constructed"
    BY <1>1, <1>2, <1>8
  <2>2. HonestPsbt'
    BY <1>2, <1>3, <1>8 DEF HonestPsbt, Chi
  <2> QED
    BY <1>1, <1>3, <1>5, <2>1, <2>2
       DEF CheckerInv, SignedInv, HonestAccepted, ShownNoAbort, ListedInv
<1> QED
  BY <1>2, <1>6, <1>7, <1>8

LEMMA BuyerSignsInv ==
    ASSUME CheckerInv, NEW w \in {{"buyerCoin"}, Inputs}, BuyerSigns(w)
    PROVE  (CheckerInv /\ ListedInv)'
<1>1. /\ pc = "constructed" /\ honest /\ HonestPsbt /\ psbt.signed = {}
      /\ UNCHANGED <<folds, order, asShown, units, honest>>
      /\ IF CheckForBuyerSignature(psbt.signed, psbt.ins \cap w)
         THEN pc' = "sent" /\ psbt' = [psbt EXCEPT !.signed = psbt.ins \cap w]
         ELSE pc' = "buyerRefused" /\ UNCHANGED psbt
  BY DEF BuyerSigns, CheckerInv, SignedInv
<1>2. UNCHANGED <<GetTotalSat, Total, NameUpdate>>
  BY <1>1, SameTotal
<1>3. psbt.ins = {"name", "buyerCoin"}
  BY <1>1 DEF HonestPsbt
<1>4. CASE CheckForBuyerSignature(psbt.signed, psbt.ins \cap w)
  <2>1. Cardinality(psbt.ins \cap w) + 1 = 2
    <3>1. (psbt.ins \cap w) \ {} = psbt.ins \cap w
      OBVIOUS
    <3> QED
      BY <1>1, <1>3, <1>4, <3>1, Cards DEF CheckForBuyerSignature
  <2>2. psbt.ins \cap w = {"buyerCoin"}
    <3>1. CASE w = Inputs
      <4>1. psbt.ins \cap w = {"name", "buyerCoin"}
        BY <1>3, <3>1 DEF Inputs
      <4> QED
        BY <2>1, <4>1, Cards
    <3>2. CASE w = {"buyerCoin"}
      BY <1>3, <3>2
    <3> QED
      BY <3>1, <3>2
  <2>3. /\ psbt'.ins = psbt.ins /\ psbt'.outs = psbt.outs /\ psbt'.signed = {"buyerCoin"}
        /\ psbt' = [ins |-> psbt'.ins, outs |-> psbt'.outs, signed |-> psbt'.signed]
        /\ pc' = "sent"
    BY <1>1, <1>4, <2>2 DEF CheckerInv, TypeInv
  <2>4. TypeInv' /\ ShownInv'
    BY <1>1, <2>3 DEF CheckerInv, TypeInv, ShownInv, Inputs
  <2>5. HonestPsbt'
    BY <1>1, <1>2, <2>3 DEF HonestPsbt, Chi
  <2> QED
    BY <1>1, <2>3, <2>4, <2>5
       DEF CheckerInv, SignedInv, HonestAccepted, ShownNoAbort, ListedInv, SellerWallet
<1>5. CASE ~CheckForBuyerSignature(psbt.signed, psbt.ins \cap w)
  <2>1. pc' = "buyerRefused" /\ UNCHANGED psbt
    BY <1>1, <1>5
  <2>2. TypeInv' /\ ShownInv'
    BY <1>1, <2>1 DEF CheckerInv, TypeInv, ShownInv
  <2> QED
    BY <2>1, <2>2 DEF CheckerInv, SignedInv, HonestAccepted, ShownNoAbort, ListedInv
<1> QED
  BY <1>4, <1>5

LEMMA OtherPsbtInv == CheckerInv /\ OtherPsbt => (CheckerInv /\ ListedInv)'
<1> SUFFICES ASSUME CheckerInv, OtherPsbt PROVE (CheckerInv /\ ListedInv)'
  OBVIOUS
<1>1. PICK outs \in OutputSets, ins \in SUBSET Inputs :
        psbt' = [ins |-> ins, outs |-> outs, signed |-> ins \ SellerWallet]
  BY DEF OtherPsbt
<1>2. /\ pc' = "sent" /\ honest' = FALSE /\ UNCHANGED <<folds, order, asShown, units>>
  BY DEF OtherPsbt
<1>3. /\ psbt'.ins = ins /\ psbt'.outs = outs /\ psbt'.signed = ins \ SellerWallet
      /\ psbt' = [ins |-> psbt'.ins, outs |-> psbt'.outs, signed |-> psbt'.signed]
  BY <1>1
<1>4. \A out \in outs : out \in ChiOutputs \/ out \in NameOutputs
  BY DEF OutputSets
<1>5. \A out \in ChiOutputs : OutputOK(out)
  BY ChiFields, HalfAssumption DEF ChiOutputs, OutputOK
<1>6. TypeInv'
  BY <1>2, <1>3, <1>4, <1>5, NameOutputOps DEF CheckerInv, TypeInv
<1>7. ShownInv'
  BY <1>2 DEF CheckerInv, ShownInv
<1> QED
  BY <1>2, <1>3, <1>6, <1>7
     DEF CheckerInv, SignedInv, HonestAccepted, ShownNoAbort, ListedInv

(* The seller finds what it looks for in what the buyer has constructed.   *)
LEMMA SellerFinds ==
    ASSUME TypeInv, HonestPsbt
    PROVE  CheckForSellerOutputs(Total)
<1>1. FoundChi(Chi("chi", Total), Total)
  BY ChiFields, TotalFields DEF FoundChi, MatchesAddress
<1>2. FoundName(NameUpdate)
  BY DEF FoundName, NameUpdate, MatchesAddress
<1> QED
  BY <1>1, <1>2 DEF HonestPsbt, CheckForSellerOutputs

LEMMA SellerSignsInv == CheckerInv /\ SellerSigns => (CheckerInv /\ ListedInv)'
<1> SUFFICES ASSUME CheckerInv, SellerSigns PROVE (CheckerInv /\ ListedInv)'
  OBVIOUS
<1>1. PICK after : after = psbt.signed \cup (psbt.ins \cap SellerWallet)
  OBVIOUS
<1>2. /\ pc = "sent" /\ UNCHANGED <<folds, order, asShown, units, honest>>
      /\ psbt.signed \cap SellerWallet = {}
      /\ honest => HonestPsbt /\ psbt.signed = {"buyerCoin"}
  BY DEF SellerSigns, CheckerInv, SignedInv
<1>3. /\ UNCHANGED <<GetTotalSat, Total, NameUpdate>> /\ (Fits' <=> Fits)
      /\ \A out : FoundName(out)' <=> FoundName(out)
  BY <1>2, SameTotal
<1>4. CASE /\ GetTotalSat.abort \/ (GetTotalSat.ok /\ Total < 0)
           /\ pc' = "aborted" /\ UNCHANGED psbt
  <2>1. TypeInv' /\ ShownInv'
    BY <1>2, <1>4 DEF CheckerInv, TypeInv, ShownInv
  <2>2. ShownNoAbort'
    <3>1. Total \in Int
      BY TotalFields DEF CheckerInv
    <3> QED
      BY <1>2, <1>3, <1>4, <3>1, ShownTotal DEF CheckerInv, ShownNoAbort
  <2> QED
    BY <1>4, <2>1, <2>2 DEF CheckerInv, SignedInv, HonestAccepted, ListedInv
<1>5. CASE /\ ~GetTotalSat.abort /\ GetTotalSat.ok /\ Total >= 0
           /\ CheckForSellerOutputs(Total) /\ CheckForSellerSignature(psbt.signed, after)
           /\ pc' = "signed" /\ psbt' = [psbt EXCEPT !.signed = after]
  <2>1. after \cap SellerWallet = {"name"} /\ after \subseteq Inputs
    BY <1>1, <1>2, <1>5 DEF CheckForSellerSignature, SellerWallet, Inputs, CheckerInv, TypeInv
  <2>2. /\ psbt'.ins = psbt.ins /\ psbt'.outs = psbt.outs /\ psbt'.signed = after
        /\ psbt' = [ins |-> psbt'.ins, outs |-> psbt'.outs, signed |-> psbt'.signed]
    BY <1>5 DEF CheckerInv, TypeInv
  <2>3. TypeInv' /\ ShownInv'
    BY <1>2, <1>5, <2>1, <2>2 DEF CheckerInv, TypeInv, ShownInv
  <2>4. CheckForSellerOutputs(Total)'
    BY <1>3, <1>5, <2>2 DEF CheckForSellerOutputs, FoundChi, MatchesAddress
  <2> QED
    BY <1>3, <1>5, <2>1, <2>2, <2>3, <2>4
       DEF CheckerInv, SignedInv, HonestAccepted, ShownNoAbort, ListedInv
<1>6. CASE /\ ~GetTotalSat.abort
           /\ ~(/\ GetTotalSat.ok /\ CheckForSellerOutputs(Total)
                /\ CheckForSellerSignature(psbt.signed, after))
           /\ pc' = "sellerRefused" /\ UNCHANGED psbt
  <2>1. TypeInv' /\ ShownInv'
    BY <1>2, <1>6 DEF CheckerInv, TypeInv, ShownInv
  <2>2. ~honest
    <3>1. SUFFICES ASSUME honest PROVE FALSE
      BY DEF CheckerInv, TypeInv
    <3>2. HonestPsbt /\ psbt.signed = {"buyerCoin"}
      BY <1>2, <3>1
    <3>3. GetTotalSat.ok /\ CheckForSellerOutputs(Total)
      BY <3>2, SellerFinds DEF CheckerInv, HonestPsbt
    <3>4. CheckForSellerSignature(psbt.signed, after)
      BY <1>1, <3>2 DEF HonestPsbt, CheckForSellerSignature, SellerWallet
    <3> QED
      BY <1>6, <3>3, <3>4
  <2> QED
    BY <1>2, <1>6, <2>1, <2>2 DEF CheckerInv, SignedInv, HonestAccepted, ShownNoAbort, ListedInv
<1> QED
  BY <1>1, <1>4, <1>5, <1>6 DEF SellerSigns, Total

LEMMA InitChecker == Init => CheckerInv /\ ListedInv
<1> SUFFICES ASSUME Init PROVE CheckerInv /\ ListedInv
  OBVIOUS
<1>1. TypeInv
  <2>1. order \in Orders
    BY HalfAssumption DEF Init, Orders, UInts
  <2>2. /\ psbt.ins = {} /\ psbt.outs = {} /\ psbt.signed = {}
        /\ psbt = [ins |-> psbt.ins, outs |-> psbt.outs, signed |-> psbt.signed]
    BY DEF Init
  <2>3. folds \in BOOLEAN /\ asShown \in BOOLEAN /\ honest \in BOOLEAN
    BY DEF Init
  <2>4. units \in Amounts
    BY HalfAssumption DEF Init, Amounts
  <2> QED
    BY <2>1, <2>2, <2>3, <2>4 DEF TypeInv
<1> QED
  BY <1>1 DEF Init, CheckerInv, ShownInv, SignedInv, HonestAccepted, ShownNoAbort, ListedInv

LEMMA NextChecker ==
    CheckerInv /\ ListedInv /\ [Next]_vars => (CheckerInv /\ ListedInv)'
<1> SUFFICES ASSUME CheckerInv, ListedInv, [Next]_vars PROVE (CheckerInv /\ ListedInv)'
  OBVIOUS
<1>1. CASE UNCHANGED vars
  <2>1. UNCHANGED <<GetTotalSat, Total, NameUpdate>> /\ (Fits' <=> Fits)
        /\ \A out : FoundName(out)' <=> FoundName(out)
    BY <1>1, SameTotal DEF vars
  <2>2. TypeInv' /\ ShownInv' /\ HonestAccepted' /\ ShownNoAbort' /\ ListedInv'
    BY <1>1, <2>1 DEF vars, CheckerInv, TypeInv, ShownInv, HonestAccepted, ShownNoAbort,
                      ListedInv, ValidateOrder, CanSell
  <2>3. CheckForSellerOutputs(Total)' <=> CheckForSellerOutputs(Total)
    BY <1>1, <2>1 DEF vars, CheckForSellerOutputs, FoundChi, MatchesAddress
  <2>4. HonestPsbt' <=> HonestPsbt
    BY <1>1, <2>1 DEF vars, HonestPsbt, Chi
  <2>5. SignedInv'
    BY <1>1, <2>1, <2>3, <2>4 DEF vars, CheckerInv, SignedInv
  <2> QED
    BY <2>2, <2>5 DEF CheckerInv
<1>2. CASE Next
  <2>1. TypeInv /\ ShownInv
    BY DEF CheckerInv
  <2> QED
    BY <1>2, <2>1, AddOrderInv, TakeOrderInv, OrderTakenInv, ConstructInv, BuyerSignsInv,
       OtherPsbtInv, SellerSignsInv DEF Next
<1> QED
  BY <1>1, <1>2

(***************************************************************************)
(* Theorems                                                                *)
(***************************************************************************)
(* The invariant that the results below follow from, whatever the width of *)
(* integers, the order and the PSBT.                                       *)
THEOREM CheckerInvariant == Spec => []CheckerInv
  BY InitChecker, NextChecker, PTL DEF Spec

(* Integers of any width: what the seller signs pays price times units as  *)
(* mathematical integers and moves the asset as agreed (GetTotalSat and    *)
(* CheckForSellerOutputs).                                                 *)
THEOREM SellerIsPaid == Spec => []SellerPaid
<1>1. CheckerInv => SellerPaid
  <2> SUFFICES ASSUME CheckerInv, pc = "signed", folds => Fits
               PROVE  /\ \/ order.price * units = 0
                         \/ \E out \in psbt.outs : /\ out.op = "none" /\ out.addr = "chi"
                                                   /\ out.value >= order.price * units
                      /\ NameUpdate \in psbt.outs
    BY DEF SellerPaid
  <2>1. /\ TypeInv /\ GetTotalSat.ok /\ Total >= 0 /\ CheckForSellerOutputs(Total)
    BY DEF CheckerInv, SignedInv
  <2>2. Total = order.price * units /\ Total \in Int
    BY <2>1, TotalRight, TotalFields
  <2>3. Total = 0 \/ \E out \in psbt.outs : /\ out.op = "none" /\ out.addr = "chi"
                                            /\ out.value >= Total
    BY <2>1, <2>2 DEF CheckForSellerOutputs, FoundChi, MatchesAddress, TypeInv, OutputOK
  <2>4. NameUpdate \in psbt.outs
    <3>1. PICK out \in psbt.outs : FoundName(out)
      BY <2>1 DEF CheckForSellerOutputs
    <3>2. out = [op |-> out.op, name |-> out.name, move |-> out.move, addr |-> out.addr]
      BY <2>1, <3>1 DEF FoundName, TypeInv, OutputOK
    <3>3. out = NameUpdate
      BY <3>1, <3>2 DEF FoundName, NameUpdate, MatchesAddress
    <3> QED
      BY <3>3
  <2> QED
    BY <2>2, <2>3, <2>4
<1> QED
  BY <1>1, CheckerInvariant, PTL

(* The wallets sign for no input but those that they are meant to, even if *)
(* they have the keys (CheckForSellerSignature, CheckForBuyerSignature).   *)
THEOREM SignaturesInScope == Spec => []SignaturesScoped
<1>1. CheckerInv => SignaturesScoped
  <2> SUFFICES ASSUME CheckerInv PROVE SignaturesScoped
    OBVIOUS
  <2>1. pc = "sent" /\ honest => psbt.signed = psbt.ins \ {"name"}
    BY DEF CheckerInv, SignedInv, HonestPsbt
  <2> QED
    BY <2>1 DEF CheckerInv, SignedInv, SignaturesScoped
<1> QED
  BY <1>1, CheckerInvariant, PTL

(* The seller does not refuse what the buyer's code has made for the same  *)
(* trade (GetTotalSat and CheckForSellerOutputs on the two sides).         *)
THEOREM HonestTradeAccepted == Spec => []HonestAccepted
<1>1. CheckerInv => HonestAccepted
  BY DEF CheckerInv
<1> QED
  BY <1>1, CheckerInvariant, PTL

(* No CHECK fails for an order that is taken as it is shown unless the     *)
(* total overflows (ValidateOrder, ProtoToJson, GetTotalSat).              *)
THEOREM ShownTradeRuns == Spec => []ShownNoAbort
<1>1. CheckerInv => ShownNoAbort
  BY DEF CheckerInv
<1> QED
  BY <1>1, CheckerInvariant, PTL
=============================================================================
