-------------------------- MODULE IBQtRefusal_proofs --------------------------
(***************************************************************************)
(* The converse of IBQtRequests_proofs: a request refuses an argument only *)
(* at versions whose messages have no place for it.                        *)
(***************************************************************************)
EXTENDS IBQtRequests_proofs

\* A message, or a part of one, that has nothing of an argument.
Without(s, a) == Message(s) /\ ~Carries(s, a)

--------------------------------------------------------------------------------
(* What the operators that write fields leave out.                         *)

\* A message written from two parts carries nothing that no part carries.
LEMMA JoinedWithout ==
  \A a, s, t : Without(s, a) /\ Without(t, a) => Without(s \o t, a)
  BY Joined DEF Without, Carries

\* Nothing carries nothing.
LEMMA EmptyWithout == \A a : Without(<<>>, a)
<1>1. Range(<<>>) = {}
  <2>1. DOMAIN <<>> = {}
    BY EmptySeq, LenProperties
  <2> QED
    BY <2>1 DEF Range
<1> QED
  BY <1>1, EmptyMessage DEF Without, Carries

\* A field shows only the argument that it is named after.
LEMMA ArgWithout ==
  \A a, b, u : \A n \in Nat : a # b => Without(Arg(b, n, u), a)
<1> SUFFICES ASSUME NEW a, NEW b, NEW u, NEW n \in Nat, a # b
             PROVE  Without(Arg(b, n, u), a)
  OBVIOUS
<1>1. DOMAIN Arg(b, n, u) = 1..n
  BY DEF Arg
<1>2. \A i \in 1..n : Arg(b, n, u)[i] # <<a, "set">>
  BY DEF Arg
<1> QED
  BY <1>1, <1>2, ArgFields DEF Without, Carries, Range

\* A field without a name shows no argument.
LEMMA PlainWithout == \A a : \A n \in Nat : Without(Plain(n), a)
<1> SUFFICES ASSUME NEW a, NEW n \in Nat PROVE Without(Plain(n), a)
  OBVIOUS
<1>1. DOMAIN Plain(n) = 1..n
  BY DEF Plain
<1>2. \A i \in 1..n : Plain(n)[i] # <<a, "set">>
  BY DEF Plain
<1> QED
  BY <1>1, <1>2, PlainFields DEF Without, Carries, Range

\* Nor does a field that is always written show another argument.
LEMMA FieldWithout == \A a, b : a # b => Without(<<<<b, "set">>>>, a)
<1> SUFFICES ASSUME NEW a, NEW b, a # b PROVE Without(<<<<b, "set">>>>, a)
  OBVIOUS
<1>1. DOMAIN <<<<b, "set">>>> = {1} /\ <<<<b, "set">>>>[1] # <<a, "set">>
  OBVIOUS
<1> QED
  BY <1>1, OneField DEF Without, Carries, Range

\* A message id is no argument.
LEMMA HeaderWithout ==
  \A a, id : \A n \in Nat : a # id => Without(Header(id, n), a)
  BY FieldWithout, PlainWithout, JoinedWithout DEF Header

\* A part that may be left out.
LEMMA WhenWithout ==
  \A a, c, s : (c => Without(s, a)) => Without(When(c, s), a)
  BY EmptyWithout DEF When

\* The legs have what is in a leg.
LEMMA ComboLegsWithout ==
  \A a, leg, u : a # "comboLeg" /\ Without(leg, a) => Without(ComboLegs(leg, u), a)
<1> SUFFICES ASSUME NEW a, NEW leg, NEW u, a # "comboLeg", Without(leg, a)
             PROVE  Without(ComboLegs(leg, u), a)
  OBVIOUS
<1>1. Without(Arg("comboLeg", 1, u), a)
  BY ArgWithout
<1>2. Without(When("comboLeg" \in u, leg), a)
  BY WhenWithout
<1> QED
  BY <1>1, <1>2, WhenWithout, JoinedWithout DEF ComboLegs

\* The contract has the two ids only from their versions on.
LEMMA ContractWithout ==
  ASSUME NEW v \in Nat, NEW m \in Nat, NEW n \in Nat, NEW u, NEW a, a # "BAG",
         a = "conId" => v < m,
         a = "tradingClass" => v < MinVer.TRADING_CLASS
  PROVE  Without(ContractFields(m, n, v, u), a)
<1>1. Without(When(v >= m, Arg("conId", 1, u)), a)
  <2>1. v >= m => a # "conId"
    OBVIOUS
  <2> QED
    BY <2>1, ArgWithout, WhenWithout
<1>2. Without(When(v >= MinVer.TRADING_CLASS, Arg("tradingClass", 1, u)), a)
  <2>1. v >= MinVer.TRADING_CLASS => a # "tradingClass"
    BY DEF MinVer
  <2> QED
    BY <2>1, ArgWithout, WhenWithout
<1>3. Without(Plain(1), a) /\ Without(Plain(n), a) /\ Without(Arg("BAG", 1, u), a)
  BY PlainWithout, ArgWithout
<1> QED
  BY <1>1, <1>2, <1>3, JoinedWithout DEF ContractFields

\* The UnderComp has its place from its version on.
LEMMA UnderCompWithout ==
  ASSUME NEW v \in Nat, NEW u, NEW a, a = "underComp" => v < MinVer.UNDER_COMP
  PROVE  Without(UnderComp(v, u), a)
<1> DEFINE s == Arg("underComp", 1, u) \o When("underComp" \in u, Plain(3))
<1>1. a # "underComp" => Without(s, a)
  BY ArgWithout, PlainWithout, WhenWithout, JoinedWithout
<1> HIDE DEF s
<1>2. v >= MinVer.UNDER_COMP => a # "underComp"
  BY DEF MinVer
<1>3. UnderComp(v, u) = When(v >= MinVer.UNDER_COMP, s)
  BY DEF UnderComp, s
<1>4. v >= MinVer.UNDER_COMP => Without(s, a)
  BY <1>1, <1>2
<1>5. Without(When(v >= MinVer.UNDER_COMP, s), a)
  BY <1>4, WhenWithout
<1> QED
  BY <1>3, <1>5

\* The options are one argument.
LEMMA OptionsWithout ==
  \A a, b, v, u : a # b => Without(Options(b, v, u), a)
  BY ArgWithout, WhenWithout DEF Options

--------------------------------------------------------------------------------
(* The messages other than orders.                                         *)

\* At a version that the check refuses, the message has not the argument.
LEMMA BothWithout ==
  ASSUME NEW v \in Nat, NEW u, NEW a \in DOMAIN BothGates, v < BothGates[a]
  PROVE  Without(HistoricalData(v, u), a) /\ Without(RealTimeBars(v, u), a)
<1>1. a \in {"conId", "tradingClass"} /\ v < MinVer.TRADING_CLASS
  BY DEF BothGates
<1>2. MinVer.TRADING_CLASS \in Nat
  BY DEF MinVer
<1>3. Without(ContractFields(MinVer.TRADING_CLASS, 8, v, u), a)
  BY <1>1, <1>2, ContractWithout
<1>4. /\ Without(Header("REQ_HISTORICAL_DATA", 2), a) /\ Without(Plain(7), a)
      /\ Without(Header("REQ_REAL_TIME_BARS", 2), a) /\ Without(Plain(3), a)
      /\ Without(ComboLegs(Plain(4), u), a)
      /\ Without(Options("chartOptions", v, u), a)
      /\ Without(Options("realTimeBarsOptions", v, u), a)
  BY <1>1, HeaderWithout, PlainWithout, ComboLegsWithout, OptionsWithout
<1> QED
  BY <1>3, <1>4, JoinedWithout DEF HistoricalData, RealTimeBars

\* Market data is refused by three checks.
LEMMA MktDataWithout ==
  ASSUME NEW v \in Nat, NEW u, NEW a \in DOMAIN MktDataGates, v < MktDataGates[a]
  PROVE  Without(MktData(v, u), a)
<1>1. /\ a \in {"underComp", "conId", "tradingClass"}
      /\ a = "underComp" => v < MinVer.UNDER_COMP
      /\ a = "conId" => v < MinVer.REQ_MKT_DATA_CONID
      /\ a = "tradingClass" => v < MinVer.TRADING_CLASS
  BY DEF MktDataGates
<1>2. MinVer.REQ_MKT_DATA_CONID \in Nat
  BY DEF MinVer
<1>3. Without(ContractFields(MinVer.REQ_MKT_DATA_CONID, 8, v, u), a)
  BY <1>1, <1>2, ContractWithout
<1>4. /\ Without(Header("REQ_MKT_DATA", 2), a) /\ Without(Plain(2), a)
      /\ Without(ComboLegs(Plain(4), u), a)
      /\ Without(Options("mktDataOptions", v, u), a)
  BY <1>1, HeaderWithout, PlainWithout, ComboLegsWithout, OptionsWithout
<1>5. Without(UnderComp(v, u), a)
  BY <1>1, UnderCompWithout
<1> QED
  BY <1>3, <1>4, <1>5, JoinedWithout DEF MktData

\* Where the class is all that is checked.
LEMMA ClassWithout ==
  ASSUME NEW v \in Nat, NEW u, v < MinVer.TRADING_CLASS
  PROVE  /\ Without(ExerciseOptions(v, u), "tradingClass")
         /\ Without(OptionPrice(v, u), "tradingClass")
<1>1. MinVer.TRADING_CLASS \in Nat
  BY DEF MinVer
<1>2. /\ Without(ContractFields(MinVer.TRADING_CLASS, 7, v, u), "tradingClass")
      /\ Without(ContractFields(0, 8, v, u), "tradingClass")
  BY <1>1, ContractWithout
<1>3. /\ Without(Header("EXERCISE_OPTIONS", 2), "tradingClass")
      /\ Without(Header("REQ_CALC_OPTION_PRICE", 2), "tradingClass")
      /\ Without(Plain(4), "tradingClass") /\ Without(Plain(2), "tradingClass")
  BY HeaderWithout, PlainWithout
<1> QED
  BY <1>2, <1>3, JoinedWithout DEF ExerciseOptions, OptionPrice

\* Contract details are refused by two checks.
LEMMA ContractDataWithout ==
  ASSUME NEW v \in Nat, NEW u, NEW a \in DOMAIN ContractDataGates,
         v < ContractDataGates[a]
  PROVE  Without(ContractData(v, u), a)
<1>1. /\ a \in {"secId", "tradingClass"}
      /\ a = "secId" => v < MinVer.SEC_ID_TYPE
      /\ a = "tradingClass" => v < MinVer.TRADING_CLASS
  BY DEF ContractDataGates
<1>2. Without(ContractFields(0, 7, v, u), a)
  BY <1>1, ContractWithout
<1>3. Without(When(v >= MinVer.SEC_ID_TYPE, Arg("secId", 2, u)), a)
  <2>1. v >= MinVer.SEC_ID_TYPE => a # "secId"
    BY <1>1 DEF MinVer
  <2> QED
    BY <2>1, ArgWithout, WhenWithout
<1>4. /\ Without(Header("REQ_CONTRACT_DATA", 1), a) /\ Without(Plain(1), a)
      /\ Without(When(v >= MinVer.CONTRACT_DATA_CHAIN, Plain(1)), a)
  BY <1>1, HeaderWithout, PlainWithout, WhenWithout
<1> QED
  BY <1>2, <1>3, <1>4, JoinedWithout DEF ContractData

--------------------------------------------------------------------------------
(* The parts of an order.                                                  *)

\* An argument that placeOrder refuses at a version, except that exempt codes
\* are encoded from SSHORTX_OLD on.
Unknown(v, a) ==
  /\ v \in Nat /\ a \in DOMAIN PlaceOrderGates /\ v < PlaceOrderGates[a]
  /\ a \in {"exemptCode", "legExemptCode"} => v < MinVer.SSHORTX_OLD

\* The gates, one by one.
LEMMA UnknownFrom ==
  ASSUME NEW v, NEW a, Unknown(v, a)
  PROVE  /\ v \in Nat
         /\ a \notin {"plain", "BAG", "comboLeg", "orderComboLeg", "smartComboRoutingParams",
                      "deltaNeutralOrderType", "scaleNumComponents", "scalePriceIncrement",
                      "hedgeParam", "clearingAccount", "algoParam", "orderMiscOptions",
                      "PLACE_ORDER"}
         /\ v >= MinVer.UNDER_COMP => a # "underComp"
         /\ v >= MinVer.SCALE_ORDERS2 => a # "scaleSubsLevelSize"
         /\ v >= MinVer.ALGO_ORDERS => a # "algoStrategy"
         /\ v >= MinVer.NOT_HELD => a # "notHeld"
         /\ v >= MinVer.SEC_ID_TYPE => a # "secId"
         /\ v >= MinVer.SSHORTX_OLD => a \notin {"exemptCode", "legExemptCode"}
         /\ v >= MinVer.HEDGE_ORDERS => a # "hedgeType"
         /\ v >= MinVer.OPT_OUT_SMART_ROUTING => a # "optOutSmartRouting"
         /\ v >= MinVer.DELTA_NEUTRAL_CONID => a # "deltaNeutralConId"
         /\ v >= MinVer.DELTA_NEUTRAL_OPEN_CLOSE => a # "deltaNeutralOpenClose"
         /\ v >= MinVer.SCALE_ORDERS3 => a # "scalePriceAdjustValue"
         /\ v >= MinVer.ORDER_COMBO_LEGS_PRICE => a # "orderComboLegPrice"
         /\ v >= MinVer.TRAILING_PERCENT => a # "trailingPercent"
         /\ v >= MinVer.SCALE_TABLE => a # "scaleTable"
         /\ a = "conId" => v < MinVer.PLACE_ORDER_CONID
         /\ a = "tradingClass" => v < MinVer.TRADING_CLASS
         /\ a = "underComp" => v < MinVer.UNDER_COMP
  BY DEF Unknown, PlaceOrderGates, MinVer

\* The contract of an order.
LEMMA OrderContractWithout ==
  ASSUME NEW v, NEW u, NEW a, Unknown(v, a)
  PROVE  Without(OrderContract(v, u), a)
<1>1. MinVer.PLACE_ORDER_CONID \in Nat
  BY DEF MinVer
<1>2. Without(ContractFields(MinVer.PLACE_ORDER_CONID, 8, v, u), a)
  BY <1>1, UnknownFrom, ContractWithout
<1>3. Without(When(v >= MinVer.SEC_ID_TYPE, Arg("secId", 2, u)), a)
  BY UnknownFrom, ArgWithout, WhenWithout
<1> QED
  BY <1>2, <1>3, JoinedWithout DEF OrderContract

\* Its legs, their prices and the routing.
LEMMA OrderComboLegsWithout ==
  ASSUME NEW v, NEW u, NEW a, Unknown(v, a)
  PROVE  Without(OrderComboLegs(v, u), a)
<1> DEFINE leg  == Plain(7) \o When(v >= MinVer.SSHORTX_OLD, Arg("legExemptCode", 1, u))
           legs == Arg("orderComboLeg", 1, u)
                     \o When("orderComboLeg" \in u, Arg("orderComboLegPrice", 1, u))
           two  == Arg("smartComboRoutingParams", 1, u)
                     \o When("smartComboRoutingParams" \in u, Plain(2))
<1>1. Without(leg, a)
  <2>1. Without(When(v >= MinVer.SSHORTX_OLD, Arg("legExemptCode", 1, u)), a)
    BY UnknownFrom, ArgWithout, WhenWithout
  <2> QED
    BY <2>1, PlainWithout, JoinedWithout
<1>2. v >= MinVer.ORDER_COMBO_LEGS_PRICE => Without(legs, a)
  BY UnknownFrom, ArgWithout, WhenWithout, JoinedWithout
<1>3. Without(two, a)
  BY UnknownFrom, PlainWithout, ArgWithout, WhenWithout, JoinedWithout
<1>4. OrderComboLegs(v, u) =
        ComboLegs(leg, u) \o When(v >= MinVer.ORDER_COMBO_LEGS_PRICE /\ "BAG" \in u, legs)
          \o When(v >= MinVer.SMART_COMBO_ROUTING_PARAMS /\ "BAG" \in u, two)
  BY DEF OrderComboLegs
<1> HIDE DEF leg, legs, two
<1>5. Without(ComboLegs(leg, u), a)
  BY <1>1, UnknownFrom, ComboLegsWithout
<1>6. Without(When(v >= MinVer.ORDER_COMBO_LEGS_PRICE /\ "BAG" \in u, legs), a)
  BY <1>2, WhenWithout
<1>7. Without(When(v >= MinVer.SMART_COMBO_ROUTING_PARAMS /\ "BAG" \in u, two), a)
  BY <1>3, WhenWithout
<1> QED
  BY <1>4, <1>5, <1>6, <1>7, JoinedWithout

\* From the shares allocation to the volatility.
LEMMA OrderExtendedWithout ==
  ASSUME NEW v, NEW u, NEW a, Unknown(v, a)
  PROVE  Without(OrderExtended(v, u), a)
<1>1. Without(When(v >= MinVer.SSHORTX_OLD, Arg("exemptCode", 1, u)), a)
  BY UnknownFrom, ArgWithout, WhenWithout
<1> QED
  BY <1>1, PlainWithout, JoinedWithout DEF OrderExtended

\* The delta neutral groups.
LEMMA OrderDeltaNeutralWithout ==
  ASSUME NEW v, NEW u, NEW a, Unknown(v, a)
  PROVE  Without(OrderDeltaNeutral(v, u), a)
<1> DEFINE set == "deltaNeutralOrderType" \in u
<1>1. Without(When(v >= MinVer.DELTA_NEUTRAL_CONID /\ set, Arg("deltaNeutralConId", 4, u)), a)
  BY UnknownFrom, ArgWithout, WhenWithout
<1>2. Without(When(v >= MinVer.DELTA_NEUTRAL_OPEN_CLOSE /\ set,
                   Arg("deltaNeutralOpenClose", 4, u)), a)
  BY UnknownFrom, ArgWithout, WhenWithout
<1>3. Without(When(v >= MinVer.TRAILING_PERCENT, Arg("trailingPercent", 1, u)), a)
  BY UnknownFrom, ArgWithout, WhenWithout
<1>4. /\ Without(Arg("deltaNeutralOrderType", 1, u), a)
      /\ Without(Plain(1), a) /\ Without(Plain(3), a)
  BY UnknownFrom, ArgWithout, PlainWithout
<1> QED
  BY <1>1, <1>2, <1>3, <1>4, JoinedWithout DEF OrderDeltaNeutral

\* The scale parameters.
LEMMA OrderScaleWithout ==
  ASSUME NEW v, NEW u, NEW a, Unknown(v, a)
  PROVE  Without(OrderScale(v, u), a)
<1> DEFINE n == Plain(1) \o Arg("scaleSubsLevelSize", 1, u)
           m == <<<<"scaleNumComponents", "set">>>> \o Plain(1)
           i == Arg("scalePriceIncrement", 1, u)
           p == When(v >= MinVer.SCALE_ORDERS3 /\ "scalePriceIncrement" \in u,
                     Arg("scalePriceAdjustValue", 7, u))
           t == When(v >= MinVer.SCALE_TABLE, Arg("scaleTable", 3, u))
<1>1. v >= MinVer.SCALE_ORDERS2 => Without(n, a)
  BY UnknownFrom, PlainWithout, ArgWithout, JoinedWithout
<1>2. Without(m, a)
  BY UnknownFrom, FieldWithout, PlainWithout, JoinedWithout
<1>3. Without(i, a)
  BY UnknownFrom, ArgWithout
<1>4. Without(p, a)
  BY UnknownFrom, ArgWithout, WhenWithout
<1>5. Without(t, a)
  BY UnknownFrom, ArgWithout, WhenWithout
<1>6. OrderScale(v, u) = (IF v >= MinVer.SCALE_ORDERS2 THEN n ELSE m) \o i \o p \o t
  BY DEF OrderScale
<1> HIDE DEF n, m, i, p, t
<1> QED
  BY <1>1, <1>2, <1>3, <1>4, <1>5, <1>6, JoinedWithout

\* The hedge.
LEMMA OrderHedgeWithout ==
  ASSUME NEW v, NEW u, NEW a, Unknown(v, a)
  PROVE  Without(OrderHedge(v, u), a)
<1>1. v >= MinVer.HEDGE_ORDERS =>
        Without(Arg("hedgeType", 1, u) \o When("hedgeType" \in u, Arg("hedgeParam", 1, u)), a)
  BY UnknownFrom, ArgWithout, WhenWithout, JoinedWithout
<1> QED
  BY <1>1, WhenWithout DEF OrderHedge

\* Routing and clearing.
LEMMA OrderRoutingWithout ==
  ASSUME NEW v, NEW u, NEW a, Unknown(v, a)
  PROVE  Without(OrderRouting(v, u), a)
<1>1. Without(When(v >= MinVer.OPT_OUT_SMART_ROUTING, Arg("optOutSmartRouting", 1, u)), a)
  BY UnknownFrom, ArgWithout, WhenWithout
<1>2. Without(When(v >= MinVer.PTA_ORDERS, Arg("clearingAccount", 2, u)), a)
  BY UnknownFrom, ArgWithout, WhenWithout
<1>3. Without(When(v >= MinVer.NOT_HELD, Arg("notHeld", 1, u)), a)
  BY UnknownFrom, ArgWithout, WhenWithout
<1> QED
  BY <1>1, <1>2, <1>3, JoinedWithout DEF OrderRouting

\* From the algorithm to the options.
LEMMA OrderTailWithout ==
  ASSUME NEW v, NEW u, NEW a, Unknown(v, a)
  PROVE  Without(OrderTail(v, u), a)
<1> DEFINE p == Arg("algoParam", 1, u) \o When("algoParam" \in u, Plain(2))
           s == Arg("algoStrategy", 1, u) \o When("algoStrategy" \in u, p)
<1>1. Without(p, a)
  BY UnknownFrom, ArgWithout, PlainWithout, WhenWithout, JoinedWithout
<1> HIDE DEF p
<1>2. v >= MinVer.ALGO_ORDERS => Without(s, a)
  BY <1>1, UnknownFrom, ArgWithout, WhenWithout, JoinedWithout
<1>3. OrderAlgo(v, u) = When(v >= MinVer.ALGO_ORDERS, s)
  BY DEF OrderAlgo, p
<1> HIDE DEF s
<1>4. Without(OrderAlgo(v, u), a)
  <2>1. Without(When(v >= MinVer.ALGO_ORDERS, s), a)
    BY <1>2, WhenWithout
  <2> QED
    BY <1>3, <2>1
<1>5. Without(Plain(1), a) /\ Without(Options("orderMiscOptions", v, u), a)
  BY UnknownFrom, PlainWithout, OptionsWithout
<1> QED
  BY <1>4, <1>5, JoinedWithout DEF OrderTail

\* The same for the whole order.
LEMMA PlaceOrderWithout ==
  ASSUME NEW v, NEW u, NEW a, Unknown(v, a)
  PROVE  Without(PlaceOrder(v, u), a)
<1>1. Without(Header("PLACE_ORDER", 2), a) /\ Without(OrderMain, a)
  BY UnknownFrom, HeaderWithout, PlainWithout DEF OrderMain
<1>2. /\ Without(OrderContract(v, u), a) /\ Without(OrderComboLegs(v, u), a)
      /\ Without(OrderExtended(v, u), a) /\ Without(OrderDeltaNeutral(v, u), a)
      /\ Without(OrderScale(v, u), a) /\ Without(OrderHedge(v, u), a)
      /\ Without(OrderRouting(v, u), a) /\ Without(OrderTail(v, u), a)
  BY OrderContractWithout, OrderComboLegsWithout, OrderExtendedWithout,
     OrderDeltaNeutralWithout, OrderScaleWithout, OrderHedgeWithout,
     OrderRoutingWithout, OrderTailWithout
<1>3. Without(UnderComp(v, u), a)
  BY UnknownFrom, UnderCompWithout
<1> QED
  BY <1>1, <1>2, <1>3, JoinedWithout DEF PlaceOrder

--------------------------------------------------------------------------------
(* The theorem.                                                            *)

\* What a request refuses it could not have sent.
LEMMA RefusedLacks ==
  ASSUME NEW req, NEW v \in Nat, NEW u,
         NEW a \in Checked(u) \cap DOMAIN ArgGates(req), v < ArgGates(req)[a]
  PROVE  \/ ~Carries(Fields(req, v, u), a)
         \/ v = MinVer.SSHORTX_OLD /\ a \in {"exemptCode", "legExemptCode"}
<1>1. CASE req \in {"reqHistoricalData", "reqRealTimeBars"}
  <2>1. ArgGates(req) = BothGates
        /\ Fields(req, v, u) \in {HistoricalData(v, u), RealTimeBars(v, u)}
    BY <1>1 DEF ArgGates, Fields, LogRequests, AccountRequests, CalculationRequests
  <2> QED
    BY <2>1, BothWithout DEF Without
<1>2. CASE req = "reqMktData"
  <2>1. ArgGates(req) = MktDataGates /\ Fields(req, v, u) = MktData(v, u)
    BY <1>2 DEF ArgGates, Fields, LogRequests, AccountRequests, CalculationRequests
  <2> QED
    BY <2>1, MktDataWithout DEF Without
<1>3. CASE req = "placeOrder"
  <2>1. ArgGates(req) = PlaceOrderGates /\ Fields(req, v, u) = PlaceOrder(v, u)
    BY <1>3 DEF ArgGates, Fields, LogRequests, AccountRequests, CalculationRequests
  <2>2. Unknown(v, a) \/ (v = MinVer.SSHORTX_OLD /\ a \in {"exemptCode", "legExemptCode"})
    BY <2>1 DEF Unknown, PlaceOrderGates, MinVer
  <2> QED
    BY <2>1, <2>2, PlaceOrderWithout DEF Without
<1>4. CASE req = "reqContractDetails"
  <2>1. ArgGates(req) = ContractDataGates /\ Fields(req, v, u) = ContractData(v, u)
    BY <1>4 DEF ArgGates, Fields, LogRequests, AccountRequests, CalculationRequests
  <2> QED
    BY <2>1, ContractDataWithout DEF Without
<1>5. CASE req \in {"excerciseOptions", "calculateOptionPrice"}
  <2>1. /\ ArgGates(req) = ClassGate
        /\ Fields(req, v, u) \in {ExerciseOptions(v, u), OptionPrice(v, u)}
    BY <1>5 DEF ArgGates, Fields, LogRequests, AccountRequests, CalculationRequests
  <2>2. a = "tradingClass" /\ v < MinVer.TRADING_CLASS
    BY <2>1 DEF ClassGate
  <2> QED
    BY <2>1, <2>2, ClassWithout DEF Without
<1>6. CASE req \notin {"reqHistoricalData", "reqRealTimeBars", "reqMktData", "placeOrder",
                      "reqContractDetails", "excerciseOptions", "calculateOptionPrice"}
  <2>1. ArgGates(req) = <<>>
    BY <1>6 DEF ArgGates
  <2>2. DOMAIN <<>> = {}
    OBVIOUS
  <2> QED
    BY <2>1, <2>2
<1> QED
  BY <1>1, <1>2, <1>3, <1>4, <1>5, <1>6

\* The session has a version whenever it is up.
CauseInv == m_serverVersion \in Nat /\ RefusedForCause

\* For every server version and every combination of arguments: a call is
\* refused only if the request is unknown to the server, or one of its
\* arguments has no place in the message, or is an exempt code at the one
\* version that encodes it and does not accept it.
THEOREM RefusedForCauseHolds == Spec => []RefusedForCause
<1>1. Init => CauseInv
  BY DEF Init, CauseInv, RefusedForCause
<1>2. ASSUME CauseInv, [Next]_vars PROVE CauseInv'
  <2>1. CASE Greeting
    <3>1. m_serverVersion' \in Nat
      BY <2>1, RequestsAssumption DEF Greeting
    <3> QED
      BY <2>1, <3>1 DEF Greeting, CauseInv, RefusedForCause
  <2>2. CASE DisconnectTWS
    BY <2>2 DEF DisconnectTWS, CauseInv, RefusedForCause
  <2>3. ASSUME NEW req \in DOMAIN Inputs, NEW u \in Inputs[req], Request(req, u)
        PROVE  CauseInv'
    <3>1. /\ m_serverVersion' = m_serverVersion /\ m_serverVersion \in Nat
          /\ last'.req = req /\ last'.uses = u /\ last'.outcome = Outcome(req, u)
      BY <1>2, <2>3 DEF Request, CauseInv
    <3>2. ASSUME Outcome(req, u) = "UPDATE_TWS", ~(m_serverVersion < RequestGate(req))
          PROVE  \/ /\ m_serverVersion = MinVer.SSHORTX_OLD
                    /\ u \cap {"exemptCode", "legExemptCode"} # {}
                 \/ \E a \in u : ~Carries(Fields(req, m_serverVersion, u), a)
      <4>1. Refuses(req, m_serverVersion, u)
        BY <3>2 DEF Outcome
      <4>2. PICK a \in Checked(u) \cap DOMAIN ArgGates(req) :
               m_serverVersion < ArgGates(req)[a]
        BY <3>2, <4>1 DEF Refuses
      <4>3. a \in u
        BY DEF Checked
      <4> QED
        BY <3>1, <4>2, <4>3, RefusedLacks
    <3> QED
      BY <3>1, <3>2 DEF CauseInv, RefusedForCause
  <2>4. CASE UNCHANGED vars
    BY <1>2, <2>4 DEF vars, CauseInv, RefusedForCause
  <2> QED
    BY <1>2, <2>1, <2>2, <2>3, <2>4 DEF Next
<1>3. CauseInv => RefusedForCause
  BY DEF CauseInv
<1> QED
  BY <1>1, <1>2, <1>3, PTL DEF Spec
================================================================================
