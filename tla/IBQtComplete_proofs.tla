-------------------------- MODULE IBQtComplete_proofs --------------------------
(***************************************************************************)
(* From MIN_SERVER_VER_LINKING on every argument of a request is written,  *)
(* the ones that no check guards included, and no message is empty.        *)
(* And at every version, calls that differ in one argument are the same    *)
(* message, or first differ in a field that both have in that place.       *)
(***************************************************************************)
EXTENDS IBQtRequests_proofs

\* The messages of the last version that the encodings know, and later ones.
Current(v) == v \in Nat /\ v >= MinVer.LINKING

\* No field is left out for the sake of the version.
LEMMA CurrentKnowsAll ==
  ASSUME NEW v, Current(v)
  PROVE  /\ v >= MinVer.PTA_ORDERS /\ v >= MinVer.UNDER_COMP /\ v >= MinVer.ALGO_ORDERS
         /\ v >= MinVer.CONTRACT_DATA_CHAIN /\ v >= MinVer.SCALE_ORDERS2
         /\ v >= MinVer.SEC_ID_TYPE /\ v >= MinVer.PLACE_ORDER_CONID
         /\ v >= MinVer.REQ_MKT_DATA_CONID /\ v >= MinVer.SSHORTX_OLD
         /\ v >= MinVer.HEDGE_ORDERS /\ v >= MinVer.ORDER_COMBO_LEGS_PRICE
         /\ v >= MinVer.SMART_COMBO_ROUTING_PARAMS /\ v >= MinVer.TRADING_CLASS
         /\ v >= MinVer.LINKING
         /\ \A a \in DOMAIN PlaceOrderGates : v >= PlaceOrderGates[a]
         /\ \A a \in DOMAIN MktDataGates : v >= MktDataGates[a]
         /\ \A a \in DOMAIN ContractDataGates : v >= ContractDataGates[a]
<1>1. v \in Nat /\ v >= 70
  BY DEF Current, MinVer
<1> QED
  BY <1>1 DEF MinVer, PlaceOrderGates, MktDataGates, ContractDataGates

--------------------------------------------------------------------------------
(* What the operators that write fields put in.                            *)

\* A message written from two parts carries what either part carries.
LEMMA JoinedHas ==
  \A a, s, t : Message(s) /\ Message(t) =>
    /\ Message(s \o t)
    /\ Carries(s, a) \/ Carries(t, a) => Carries(s \o t, a)
  BY Two

\* A field that is always there.
LEMMA FieldHas == \A a : Message(<<<<a, "set">>>>) /\ Carries(<<<<a, "set">>>>, a)
<1> SUFFICES ASSUME NEW a PROVE Message(<<<<a, "set">>>>) /\ Carries(<<<<a, "set">>>>, a)
  OBVIOUS
<1>1. DOMAIN <<<<a, "set">>>> = {1} /\ <<<<a, "set">>>>[1] = <<a, "set">>
  OBVIOUS
<1> QED
  BY <1>1, OneField DEF Carries, Range

\* A message carries its id, so it is not empty.
LEMMA HeaderHas == \A id : \A n \in Nat : Message(Header(id, n)) /\ Carries(Header(id, n), id)
  BY FieldHas, PlainFields, JoinedHas DEF Header

\* An argument that is set shows, and may be left out only under a condition.
LEMMA ArgHas ==
  \A a, u : \A n \in Nat \ {0} :
    Message(Arg(a, n, u)) /\ (a \in u => Carries(Arg(a, n, u), a))
  BY ArgFields

LEMMA PlainIs == \A n \in Nat : Message(Plain(n))
  BY PlainFields

LEMMA WhenHas ==
  \A a, c, s : Message(s) =>
    /\ Message(When(c, s))
    /\ c /\ Carries(s, a) => Carries(When(c, s), a)
  BY EmptyMessage DEF When

--------------------------------------------------------------------------------
(* Parts of messages.                                                      *)

\* The contract says whether it is a BAG, at every version.
LEMMA ContractHasBag ==
  ASSUME NEW v \in Nat, NEW m \in Nat, NEW n \in Nat, NEW u
  PROVE  /\ Message(ContractFields(m, n, v, u))
         /\ "BAG" \in u => Carries(ContractFields(m, n, v, u), "BAG")
<1>1. /\ Message(When(v >= m, Arg("conId", 1, u)))
      /\ Message(When(v >= MinVer.TRADING_CLASS, Arg("tradingClass", 1, u)))
  <2>1. Message(Arg("conId", 1, u)) /\ Message(Arg("tradingClass", 1, u))
    BY ArgHas
  <2> QED
    BY <2>1, WhenHas
<1>2. Message(Arg("BAG", 1, u)) /\ ("BAG" \in u => Carries(Arg("BAG", 1, u), "BAG"))
  BY ArgHas
<1>3. Message(Plain(1)) /\ Message(Plain(n))
  BY PlainIs
<1> QED
  BY <1>1, <1>2, <1>3, JoinedHas DEF ContractFields

\* All of the contract is there.
LEMMA ContractHas ==
  ASSUME NEW v, Current(v), NEW m \in Nat, v >= m, NEW n \in Nat, NEW u
  PROVE  /\ Message(ContractFields(m, n, v, u))
         /\ \A a \in u \cap {"conId", "tradingClass", "BAG"} :
              Carries(ContractFields(m, n, v, u), a)
<1>1. v \in Nat /\ v >= MinVer.TRADING_CLASS
  BY CurrentKnowsAll DEF Current
<1> QED
  BY <1>1, ContractPart, ContractHasBag

\* The number of legs.
LEMMA ComboLegsHas ==
  ASSUME NEW leg, Message(leg), NEW u
  PROVE  /\ Message(ComboLegs(leg, u))
         /\ "BAG" \in u /\ "comboLeg" \in u => Carries(ComboLegs(leg, u), "comboLeg")
<1>1. /\ Message(Arg("comboLeg", 1, u))
      /\ "comboLeg" \in u => Carries(Arg("comboLeg", 1, u), "comboLeg")
  BY ArgHas
<1>2. Message(When("comboLeg" \in u, leg))
  BY WhenHas
<1> QED
  BY <1>1, <1>2, JoinedHas, WhenHas DEF ComboLegs

\* The options.
LEMMA OptionsHas ==
  ASSUME NEW v, Current(v), NEW a, NEW u
  PROVE  Message(Options(a, v, u)) /\ (a \in u => Carries(Options(a, v, u), a))
<1>1. Message(Arg(a, 1, u)) /\ (a \in u => Carries(Arg(a, 1, u), a))
  BY ArgHas
<1>2. Options(a, v, u) = Arg(a, 1, u)
  BY DEF Options, When, Current
<1> QED
  BY <1>1, <1>2

--------------------------------------------------------------------------------
(* Messages other than orders.                                             *)

\* Historical data, market data and real time bars.
LEMMA DataHas ==
  ASSUME NEW v, Current(v), NEW u
  PROVE  /\ \A a \in Meaningful(u) \cap Arguments("reqHistoricalData") :
              Carries(HistoricalData(v, u), a)
         /\ \A a \in Meaningful(u) \cap Arguments("reqMktData") :
              Carries(MktData(v, u), a)
         /\ \A a \in Meaningful(u) \cap Arguments("reqRealTimeBars") :
              Carries(RealTimeBars(v, u), a)
<1>1. /\ v \in Nat /\ v >= MinVer.TRADING_CLASS /\ v >= MinVer.REQ_MKT_DATA_CONID
      /\ MinVer.TRADING_CLASS \in Nat /\ MinVer.REQ_MKT_DATA_CONID \in Nat
  BY CurrentKnowsAll DEF Current, MinVer
<1>2. ASSUME NEW m \in {MinVer.TRADING_CLASS, MinVer.REQ_MKT_DATA_CONID}
      PROVE  /\ Message(ContractFields(m, 8, v, u))
             /\ \A a \in u \cap {"conId", "tradingClass", "BAG"} :
                  Carries(ContractFields(m, 8, v, u), a)
  BY <1>1, ContractHas
<1>3. Message(Plain(2)) /\ Message(Plain(3)) /\ Message(Plain(4)) /\ Message(Plain(7))
  BY PlainIs
<1>4. /\ Message(ComboLegs(Plain(4), u))
      /\ "BAG" \in u /\ "comboLeg" \in u => Carries(ComboLegs(Plain(4), u), "comboLeg")
  BY <1>3, ComboLegsHas
<1>5. \A a : Message(Options(a, v, u)) /\ (a \in u => Carries(Options(a, v, u), a))
  BY OptionsHas
<1>6. /\ Message(UnderComp(v, u))
      /\ "underComp" \in u => Carries(UnderComp(v, u), "underComp")
  BY <1>1, CurrentKnowsAll, UnderCompPart
<1>7. \A id : Message(Header(id, 2))
  BY HeaderHas
<1>8. "comboLeg" \in Meaningful(u) => "BAG" \in u
  BY DEF Meaningful, Depends
<1>9. Meaningful(u) \subseteq u
  BY DEF Meaningful
<1>10. ASSUME NEW a \in Meaningful(u) \cap Arguments("reqHistoricalData")
       PROVE  Carries(HistoricalData(v, u), a)
  <2>1. \/ Carries(ContractFields(MinVer.TRADING_CLASS, 8, v, u), a)
        \/ Carries(ComboLegs(Plain(4), u), a)
        \/ Carries(Options("chartOptions", v, u), a)
    BY <1>2, <1>4, <1>5, <1>8, <1>9 DEF Arguments
  <2> QED
    BY <1>2, <1>3, <1>4, <1>5, <1>7, <2>1, JoinedHas DEF HistoricalData
<1>11. ASSUME NEW a \in Meaningful(u) \cap Arguments("reqMktData")
       PROVE  Carries(MktData(v, u), a)
  <2>1. \/ Carries(ContractFields(MinVer.REQ_MKT_DATA_CONID, 8, v, u), a)
        \/ Carries(ComboLegs(Plain(4), u), a) \/ Carries(UnderComp(v, u), a)
        \/ Carries(Options("mktDataOptions", v, u), a)
    BY <1>2, <1>4, <1>5, <1>6, <1>8, <1>9 DEF Arguments
  <2> QED
    BY <1>2, <1>3, <1>4, <1>5, <1>6, <1>7, <2>1, JoinedHas DEF MktData
<1>12. ASSUME NEW a \in Meaningful(u) \cap Arguments("reqRealTimeBars")
       PROVE  Carries(RealTimeBars(v, u), a)
  <2>1. \/ Carries(ContractFields(MinVer.TRADING_CLASS, 8, v, u), a)
        \/ Carries(Options("realTimeBarsOptions", v, u), a)
    BY <1>2, <1>5, <1>9 DEF Arguments
  <2> QED
    BY <1>2, <1>3, <1>5, <1>7, <2>1, JoinedHas DEF RealTimeBars
<1> QED
  BY <1>10, <1>11, <1>12

\* Contract details, exercises and calculations.
LEMMA ContractRequestsHave ==
  ASSUME NEW v, Current(v), NEW u
  PROVE  /\ \A a \in u \cap Arguments("reqContractDetails") : Carries(ContractData(v, u), a)
         /\ \A a \in u \cap Arguments("excerciseOptions") : Carries(ExerciseOptions(v, u), a)
         /\ \A a \in u \cap Arguments("calculateOptionPrice") : Carries(OptionPrice(v, u), a)
         /\ \A a \in u \cap Arguments("calculateImpliedVolatility") :
              Carries(ImpliedVolatility(v, u), a)
<1>1. /\ v \in Nat /\ v >= MinVer.TRADING_CLASS /\ v >= MinVer.SEC_ID_TYPE
      /\ v >= 0 /\ MinVer.TRADING_CLASS \in Nat
  BY CurrentKnowsAll DEF Current, MinVer
<1>2. ASSUME NEW m \in {0, MinVer.TRADING_CLASS}, NEW n \in {7, 8}
      PROVE  /\ Message(ContractFields(m, n, v, u))
             /\ \A a \in u \cap {"conId", "tradingClass", "BAG"} :
                  Carries(ContractFields(m, n, v, u), a)
  BY <1>1, ContractHas
<1>3. Message(Plain(1)) /\ Message(Plain(2)) /\ Message(Plain(4)) /\ Message(Plain(9))
  BY PlainIs
<1>4. \A id : Message(Header(id, 1)) /\ Message(Header(id, 2))
  BY HeaderHas
<1>5. \A a, n : n \in {1, 2} =>
        Message(Arg(a, n, u)) /\ (a \in u => Carries(Arg(a, n, u), a))
  BY ArgHas
<1>6. ASSUME NEW a \in u \cap Arguments("reqContractDetails")
      PROVE  Carries(ContractData(v, u), a)
  <2> DEFINE i == When(v >= MinVer.SEC_ID_TYPE, Arg("secId", 2, u))
             w == When(v >= MinVer.CONTRACT_DATA_CHAIN, Plain(1))
  <2>1. Message(i) /\ ("secId" \in u => Carries(i, "secId")) /\ Message(w)
    BY <1>1, <1>3, <1>5, WhenHas
  <2>2. Carries(ContractFields(0, 7, v, u), a) \/ Carries(i, a)
    BY <1>2, <2>1 DEF Arguments
  <2>3. ContractData(v, u) =
          Header("REQ_CONTRACT_DATA", 1) \o w \o ContractFields(0, 7, v, u) \o Plain(1) \o i
    BY DEF ContractData
  <2> HIDE DEF i, w
  <2> QED
    BY <1>2, <1>3, <1>4, <2>1, <2>2, <2>3, JoinedHas
<1>7. ASSUME NEW a \in u \cap {"conId", "tradingClass", "BAG"}
      PROVE  Carries(ExerciseOptions(v, u), a) /\ Carries(OptionPrice(v, u), a)
  BY <1>2, <1>3, <1>4, JoinedHas DEF ExerciseOptions, OptionPrice
<1>8. ASSUME NEW a \in u \cap {"conId", "tradingClass"}
      PROVE  Carries(ImpliedVolatility(v, u), a)
  <2> DEFINE c == When(v >= MinVer.TRADING_CLASS, Arg("tradingClass", 1, u))
  <2>1. Message(c) /\ ("tradingClass" \in u => Carries(c, "tradingClass"))
    BY <1>1, <1>5, WhenHas
  <2>2. Carries(Arg("conId", 1, u), a) \/ Carries(c, a)
    BY <1>5, <2>1
  <2>3. ImpliedVolatility(v, u) =
          Header("REQ_CALC_IMPLIED_VOLAT", 2) \o Arg("conId", 1, u) \o Plain(9) \o c \o Plain(2)
    BY DEF ImpliedVolatility
  <2> HIDE DEF c
  <2> QED
    BY <1>3, <1>4, <1>5, <2>1, <2>2, <2>3, Five
<1> QED
  BY <1>6, <1>7, <1>8 DEF Arguments

--------------------------------------------------------------------------------
(* Orders.  PlaceOrderCarries has the arguments that are checked.          *)

\* The lists of a BAG.
LEMMA OrderComboLegsHave ==
  ASSUME NEW v, Current(v), NEW u, "BAG" \in u
  PROVE  \A a \in u \cap {"comboLeg", "orderComboLeg", "smartComboRoutingParams"} :
           Carries(OrderComboLegs(v, u), a)
<1> DEFINE leg == Plain(7) \o When(v >= MinVer.SSHORTX_OLD, Arg("legExemptCode", 1, u))
           price == When("orderComboLeg" \in u, Arg("orderComboLegPrice", 1, u))
           q == Arg("orderComboLeg", 1, u) \o price
           two == When("smartComboRoutingParams" \in u, Plain(2))
           r == Arg("smartComboRoutingParams", 1, u) \o two
<1>1. \A a : Message(Arg(a, 1, u)) /\ (a \in u => Carries(Arg(a, 1, u), a))
  BY ArgHas
<1>2. Message(Plain(2)) /\ Message(Plain(7))
  BY PlainIs
<1>3. Message(leg)
  BY <1>1, <1>2, WhenHas, JoinedHas
<1>4. Message(price) /\ Message(two)
  BY <1>1, <1>2, WhenHas
<1>5. OrderComboLegs(v, u) = ComboLegs(leg, u) \o q \o r
  BY CurrentKnowsAll DEF OrderComboLegs, When
<1> HIDE DEF leg, price, two
<1>6. /\ Message(ComboLegs(leg, u))
      /\ "comboLeg" \in u => Carries(ComboLegs(leg, u), "comboLeg")
  BY <1>3, ComboLegsHas
<1>7. /\ Message(q) /\ ("orderComboLeg" \in u => Carries(q, "orderComboLeg"))
      /\ Message(r)
      /\ "smartComboRoutingParams" \in u => Carries(r, "smartComboRoutingParams")
  BY <1>1, <1>4, JoinedHas
<1> HIDE DEF q, r
<1> QED
  BY <1>5, <1>6, <1>7, Three

\* The type of the delta neutral order.
LEMMA OrderDeltaNeutralHas ==
  ASSUME NEW v \in Nat, NEW u, "deltaNeutralOrderType" \in u
  PROVE  Carries(OrderDeltaNeutral(v, u), "deltaNeutralOrderType")
<1> DEFINE d == Arg("deltaNeutralOrderType", 1, u)
           c == When(v >= MinVer.DELTA_NEUTRAL_CONID /\ "deltaNeutralOrderType" \in u,
                     Arg("deltaNeutralConId", 4, u))
           o == When(v >= MinVer.DELTA_NEUTRAL_OPEN_CLOSE /\ "deltaNeutralOrderType" \in u,
                     Arg("deltaNeutralOpenClose", 4, u))
           t == When(v >= MinVer.TRAILING_PERCENT, Arg("trailingPercent", 1, u))
<1>1. Message(d) /\ Carries(d, "deltaNeutralOrderType")
  BY ArgHas
<1>2. Message(c) /\ Message(o) /\ Message(t)
  <2>1. \A a, n : n \in {1, 4} => Message(Arg(a, n, u))
    BY ArgHas
  <2> QED
    BY <2>1, WhenHas
<1>3. Message(Plain(1)) /\ Message(Plain(3))
  BY PlainIs
<1>4. OrderDeltaNeutral(v, u) = d \o Plain(1) \o c \o o \o Plain(3) \o t
  BY DEF OrderDeltaNeutral
<1> HIDE DEF d, c, o, t
<1> QED
  BY <1>1, <1>2, <1>3, <1>4, Six

\* The increment that opens the scale parameters.
LEMMA OrderScaleHas ==
  ASSUME NEW v, Current(v), NEW u, "scalePriceIncrement" \in u
  PROVE  Carries(OrderScale(v, u), "scalePriceIncrement")
<1> DEFINE s == Plain(1) \o Arg("scaleSubsLevelSize", 1, u)
           i == Arg("scalePriceIncrement", 1, u)
           p == When(v >= MinVer.SCALE_ORDERS3 /\ "scalePriceIncrement" \in u,
                     Arg("scalePriceAdjustValue", 7, u))
           t == When(v >= MinVer.SCALE_TABLE, Arg("scaleTable", 3, u))
<1>1. Message(i) /\ Carries(i, "scalePriceIncrement")
  BY ArgHas
<1>2. Message(s) /\ Message(p) /\ Message(t)
  <2>1. \A a, n : n \in {1, 3, 7} => Message(Arg(a, n, u))
    BY ArgHas
  <2> QED
    BY <2>1, PlainIs, WhenHas, JoinedHas
<1>3. OrderScale(v, u) = s \o i \o p \o t
  BY CurrentKnowsAll DEF OrderScale
<1> HIDE DEF s, i, p, t
<1> QED
  BY <1>1, <1>2, <1>3, Four

\* The parameter of a hedge, the clearing pair, the parameters of an
\* algorithm and the options.
LEMMA OrderRestHas ==
  ASSUME NEW v, Current(v), NEW u
  PROVE  /\ {"hedgeType", "hedgeParam"} \subseteq u => Carries(OrderHedge(v, u), "hedgeParam")
         /\ "clearingAccount" \in u => Carries(OrderRouting(v, u), "clearingAccount")
         /\ {"algoStrategy", "algoParam"} \subseteq u => Carries(OrderTail(v, u), "algoParam")
         /\ "orderMiscOptions" \in u => Carries(OrderTail(v, u), "orderMiscOptions")
<1>1. \A a, n : n \in {1, 2} => Message(Arg(a, n, u)) /\ (a \in u => Carries(Arg(a, n, u), a))
  BY ArgHas
<1>2. Message(Plain(1)) /\ Message(Plain(2))
  BY PlainIs
<1>3. ASSUME {"hedgeType", "hedgeParam"} \subseteq u
      PROVE  Carries(OrderHedge(v, u), "hedgeParam")
  <2>1. OrderHedge(v, u) = Arg("hedgeType", 1, u) \o Arg("hedgeParam", 1, u)
    BY <1>3, CurrentKnowsAll DEF OrderHedge, When
  <2> QED
    BY <1>1, <1>3, <2>1, JoinedHas
<1>4. ASSUME "clearingAccount" \in u
      PROVE  Carries(OrderRouting(v, u), "clearingAccount")
  <2> DEFINE o == When(v >= MinVer.OPT_OUT_SMART_ROUTING, Arg("optOutSmartRouting", 1, u))
             n == When(v >= MinVer.NOT_HELD, Arg("notHeld", 1, u))
  <2>1. Message(o) /\ Message(n)
    BY <1>1, WhenHas
  <2>2. OrderRouting(v, u) = o \o Arg("clearingAccount", 2, u) \o n
    BY CurrentKnowsAll DEF OrderRouting, When
  <2> HIDE DEF o, n
  <2> QED
    BY <1>1, <1>4, <2>1, <2>2, Three
<1> DEFINE x == Options("orderMiscOptions", v, u)
<1>5. Message(x) /\ ("orderMiscOptions" \in u => Carries(x, "orderMiscOptions"))
  BY OptionsHas
<1>6. OrderTail(v, u) = OrderAlgo(v, u) \o Plain(1) \o x
  BY DEF OrderTail
<1> HIDE DEF x
<1>7. /\ Message(OrderAlgo(v, u))
      /\ {"algoStrategy", "algoParam"} \subseteq u => Carries(OrderAlgo(v, u), "algoParam")
  <2> DEFINE c == Arg("algoParam", 1, u)
             t == When("algoParam" \in u, Plain(2))
             w == When("algoStrategy" \in u, c \o t)
  <2>1. Message(c) /\ Message(t) /\ ("algoParam" \in u => Carries(c, "algoParam"))
    BY <1>1, <1>2, WhenHas
  <2>2. OrderAlgo(v, u) = Arg("algoStrategy", 1, u) \o w
    BY CurrentKnowsAll DEF OrderAlgo, When
  <2> HIDE DEF c, t
  <2>3. Message(c \o t) /\ ("algoParam" \in u => Carries(c \o t, "algoParam"))
    BY <2>1, JoinedHas
  <2>4. /\ Message(w)
        /\ {"algoStrategy", "algoParam"} \subseteq u => Carries(w, "algoParam")
    BY <2>3, WhenHas
  <2> HIDE DEF w
  <2> QED
    BY <1>1, <2>2, <2>4, JoinedHas
<1> QED
  BY <1>2, <1>3, <1>4, <1>5, <1>6, <1>7, Three

\* A whole order is its id and its parts.
LEMMA PlaceOrderHas ==
  ASSUME NEW v \in Nat, NEW u, WellFormed(u), NEW a,
         \/ a = "PLACE_ORDER"
         \/ Carries(OrderContract(v, u), a) \/ Carries(OrderComboLegs(v, u), a)
         \/ Carries(OrderDeltaNeutral(v, u), a) \/ Carries(OrderScale(v, u), a)
         \/ Carries(OrderHedge(v, u), a) \/ Carries(OrderRouting(v, u), a)
         \/ Carries(OrderTail(v, u), a)
  PROVE  Carries(PlaceOrder(v, u), a)
<1>1. /\ Message(Header("PLACE_ORDER", 2))
      /\ Carries(Header("PLACE_ORDER", 2), "PLACE_ORDER") /\ Message(OrderMain)
  BY HeaderHas, PlainIs DEF OrderMain
<1>2. /\ Message(OrderContract(v, u)) /\ Message(OrderComboLegs(v, u))
      /\ Message(OrderExtended(v, u)) /\ Message(OrderDeltaNeutral(v, u))
      /\ Message(OrderScale(v, u)) /\ Message(OrderHedge(v, u))
      /\ Message(OrderRouting(v, u)) /\ Message(UnderComp(v, u))
      /\ Message(OrderTail(v, u))
  BY OrderContractPart, OrderComboLegsPart, OrderExtendedPart, OrderDeltaNeutralPart,
     OrderScalePart, OrderHedgePart, OrderRoutingPart, UnderCompPart, OrderTailPart
<1> QED
  BY <1>1, <1>2, JoinedHas DEF PlaceOrder

\* An order has all of its arguments.
LEMMA PlaceOrderHasAll ==
  ASSUME NEW v, Current(v), NEW u, WellFormed(u),
         NEW a \in Meaningful(u) \cap OrderArguments
  PROVE  Carries(PlaceOrder(v, u), a)
<1>0. v \in Nat /\ a \in u
  BY DEF Current, Meaningful
<1>1. CASE a \in DOMAIN PlaceOrderGates
  BY <1>0, <1>1, CurrentKnowsAll, PlaceOrderCarries
<1>2. CASE a = "BAG"
  <2> DEFINE c == ContractFields(MinVer.PLACE_ORDER_CONID, 8, v, u)
             i == When(v >= MinVer.SEC_ID_TYPE, Arg("secId", 2, u))
  <2>1. MinVer.PLACE_ORDER_CONID \in Nat
    BY DEF MinVer
  <2>2. Message(c) /\ Carries(c, "BAG")
    BY <1>0, <1>2, <2>1, ContractHasBag
  <2>3. Message(Arg("secId", 2, u))
    BY ArgHas
  <2>4. Message(i)
    BY <2>3, WhenHas
  <2>5. Carries(OrderContract(v, u), a)
    BY <1>2, <2>2, <2>4, JoinedHas DEF OrderContract
  <2> QED
    BY <1>0, <2>5, PlaceOrderHas
<1>3. CASE a \in {"comboLeg", "orderComboLeg", "smartComboRoutingParams"}
  <2>1. "BAG" \in u
    BY <1>3 DEF Meaningful, Depends
  <2> QED
    BY <1>0, <1>3, <2>1, OrderComboLegsHave, PlaceOrderHas
<1>4. CASE a = "deltaNeutralOrderType"
  BY <1>0, <1>4, OrderDeltaNeutralHas, PlaceOrderHas
<1>5. CASE a = "scalePriceIncrement"
  BY <1>0, <1>5, OrderScaleHas, PlaceOrderHas
<1>6. CASE a \in {"hedgeParam", "clearingAccount", "algoParam", "orderMiscOptions"}
  <2>1. /\ a = "hedgeParam" => "hedgeType" \in u
        /\ a = "algoParam" => "algoStrategy" \in u
    BY <1>6 DEF Meaningful, Depends
  <2> QED
    BY <1>0, <1>6, <2>1, OrderRestHas, PlaceOrderHas
<1> QED
  BY <1>1, <1>2, <1>3, <1>4, <1>5, <1>6 DEF OrderArguments, PlaceOrderGates

--------------------------------------------------------------------------------
(* No message is empty.                                                    *)

\* What carries something is not empty.
LEMMA NotEmpty == \A s, a : Carries(s, a) => s # <<>>
<1>1. DOMAIN <<>> = {}
  BY EmptySeq, LenProperties
<1> QED
  BY <1>1 DEF Carries, Range

\* At every version, the messages begin with their ids.
LEMMA RichRequestsHaveId ==
  ASSUME NEW v \in Nat, NEW u
  PROVE  /\ Carries(HistoricalData(v, u), "REQ_HISTORICAL_DATA")
         /\ Carries(MktData(v, u), "REQ_MKT_DATA")
         /\ Carries(RealTimeBars(v, u), "REQ_REAL_TIME_BARS")
         /\ Carries(ContractData(v, u), "REQ_CONTRACT_DATA")
         /\ Carries(ExerciseOptions(v, u), "EXERCISE_OPTIONS")
         /\ Carries(OptionPrice(v, u), "REQ_CALC_OPTION_PRICE")
         /\ Carries(ImpliedVolatility(v, u), "REQ_CALC_IMPLIED_VOLAT")
<1>1. \A id, n : n \in {1, 2} => Message(Header(id, n)) /\ Carries(Header(id, n), id)
  BY HeaderHas
<1>2. \A n \in 1..9 : Message(Plain(n))
  BY PlainIs
<1>3. \A m, n : m \in {0, MinVer.TRADING_CLASS, MinVer.REQ_MKT_DATA_CONID} /\ n \in {7, 8} =>
        Message(ContractFields(m, n, v, u))
  <2>1. MinVer.TRADING_CLASS \in Nat /\ MinVer.REQ_MKT_DATA_CONID \in Nat
    BY DEF MinVer
  <2> QED
    BY <2>1, ContractHasBag
<1>4. /\ Message(ComboLegs(Plain(4), u)) /\ Message(UnderComp(v, u))
      /\ \A a : Message(Options(a, v, u))
  BY <1>2, ComboLegsHas, UnderCompPart, OptionsPart
<1>5. \A a, n : n \in {1, 2} => Message(Arg(a, n, u))
  BY ArgHas
<1>6. Carries(HistoricalData(v, u), "REQ_HISTORICAL_DATA")
  <2>1. /\ Message(ContractFields(MinVer.TRADING_CLASS, 8, v, u)) /\ Message(Plain(7))
        /\ Message(Header("REQ_HISTORICAL_DATA", 2))
        /\ Carries(Header("REQ_HISTORICAL_DATA", 2), "REQ_HISTORICAL_DATA")
    BY <1>1, <1>2, <1>3
  <2> QED
    BY <1>4, <2>1, Five DEF HistoricalData
<1>7. Carries(MktData(v, u), "REQ_MKT_DATA")
  <2>1. /\ Message(ContractFields(MinVer.REQ_MKT_DATA_CONID, 8, v, u)) /\ Message(Plain(2))
        /\ Message(Header("REQ_MKT_DATA", 2))
        /\ Carries(Header("REQ_MKT_DATA", 2), "REQ_MKT_DATA")
    BY <1>1, <1>2, <1>3
  <2> QED
    BY <1>4, <2>1, Six DEF MktData
<1>8. Carries(RealTimeBars(v, u), "REQ_REAL_TIME_BARS")
  BY <1>1, <1>2, <1>3, <1>4, JoinedHas DEF RealTimeBars
<1>9. Carries(ContractData(v, u), "REQ_CONTRACT_DATA")
  <2> DEFINE i == When(v >= MinVer.SEC_ID_TYPE, Arg("secId", 2, u))
             w == When(v >= MinVer.CONTRACT_DATA_CHAIN, Plain(1))
  <2>1. Message(i) /\ Message(w)
    <3>1. Message(Arg("secId", 2, u)) /\ Message(Plain(1))
      BY <1>2, <1>5
    <3> QED
      BY <3>1, WhenHas
  <2>2. ContractData(v, u) =
          Header("REQ_CONTRACT_DATA", 1) \o w \o ContractFields(0, 7, v, u) \o Plain(1) \o i
    BY DEF ContractData
  <2> HIDE DEF i, w
  <2> QED
    BY <1>1, <1>2, <1>3, <2>1, <2>2, Five
<1>10. /\ Carries(ExerciseOptions(v, u), "EXERCISE_OPTIONS")
       /\ Carries(OptionPrice(v, u), "REQ_CALC_OPTION_PRICE")
  BY <1>1, <1>2, <1>3, JoinedHas DEF ExerciseOptions, OptionPrice
<1>11. Carries(ImpliedVolatility(v, u), "REQ_CALC_IMPLIED_VOLAT")
  <2> DEFINE c == When(v >= MinVer.TRADING_CLASS, Arg("tradingClass", 1, u))
  <2>1. Message(c) /\ Message(Arg("conId", 1, u))
    BY <1>5, WhenHas
  <2>2. ImpliedVolatility(v, u) =
          Header("REQ_CALC_IMPLIED_VOLAT", 2) \o Arg("conId", 1, u) \o Plain(9) \o c \o Plain(2)
    BY DEF ImpliedVolatility
  <2> HIDE DEF c
  <2> QED
    BY <1>1, <1>2, <2>1, <2>2, Five
<1> QED
  BY <1>6, <1>7, <1>8, <1>9, <1>10, <1>11

\* So whatever is sent is a message.
LEMMA FieldsNotEmpty ==
  ASSUME NEW req \in Requests, NEW v \in Nat, NEW u, WellFormed(u)
  PROVE  Fields(req, v, u) # <<>>
<1>1. \A id, n : n \in {1, 2, 3} => Header(id, n) # <<>>
  BY HeaderHas, NotEmpty
<1>2. CASE req \in BareRequests
  BY <1>1, <1>2 DEF BareRequests, Fields, LogRequests, AccountRequests, CalculationRequests
<1>3. CASE req = "placeOrder"
  <2>1. Fields(req, v, u) = PlaceOrder(v, u)
    BY <1>3 DEF Fields, LogRequests, AccountRequests, CalculationRequests
  <2> QED
    BY <2>1, PlaceOrderHas, NotEmpty
<1>4. CASE req \in Requests \ (BareRequests \cup {"placeOrder"})
  <2>1. Fields(req, v, u) \in
          {HistoricalData(v, u), MktData(v, u), RealTimeBars(v, u), ContractData(v, u),
           ExerciseOptions(v, u), OptionPrice(v, u), ImpliedVolatility(v, u)}
    BY <1>4 DEF Requests, Fields, LogRequests, AccountRequests, CalculationRequests
  <2> QED
    BY <2>1, RichRequestsHaveId, NotEmpty
<1> QED
  BY <1>2, <1>3, <1>4

--------------------------------------------------------------------------------
(* The theorems.                                                           *)

\* A request has all of its arguments.
LEMMA CurrentHasAll ==
  ASSUME NEW req, NEW v, Current(v), NEW u, WellFormed(u),
         NEW a \in Meaningful(u) \cap Arguments(req)
  PROVE  Carries(Fields(req, v, u), a)
<1>1. a \in u
  BY DEF Meaningful
<1>2. CASE req \in {"reqHistoricalData", "reqMktData", "reqRealTimeBars"}
  <2>1. /\ req = "reqHistoricalData" => Fields(req, v, u) = HistoricalData(v, u)
        /\ req = "reqMktData" => Fields(req, v, u) = MktData(v, u)
        /\ req = "reqRealTimeBars" => Fields(req, v, u) = RealTimeBars(v, u)
    BY DEF Fields, LogRequests, AccountRequests, CalculationRequests
  <2> QED
    BY <1>2, <2>1, DataHas
<1>3. CASE req \in {"reqContractDetails", "excerciseOptions", "calculateOptionPrice",
                    "calculateImpliedVolatility"}
  <2>1. /\ req = "reqContractDetails" => Fields(req, v, u) = ContractData(v, u)
        /\ req = "excerciseOptions" => Fields(req, v, u) = ExerciseOptions(v, u)
        /\ req = "calculateOptionPrice" => Fields(req, v, u) = OptionPrice(v, u)
        /\ req = "calculateImpliedVolatility" => Fields(req, v, u) = ImpliedVolatility(v, u)
    BY DEF Fields, LogRequests, AccountRequests, CalculationRequests
  <2> QED
    BY <1>1, <1>3, <2>1, ContractRequestsHave
<1>4. CASE req = "placeOrder"
  <2>1. Fields(req, v, u) = PlaceOrder(v, u) /\ Arguments(req) = OrderArguments
    BY <1>4 DEF Fields, LogRequests, AccountRequests, CalculationRequests, Arguments
  <2> QED
    BY <2>1, PlaceOrderHasAll
<1>5. CASE req \notin {"reqHistoricalData", "reqMktData", "reqRealTimeBars",
                       "reqContractDetails", "excerciseOptions", "calculateOptionPrice",
                       "calculateImpliedVolatility", "placeOrder"}
  BY <1>5 DEF Arguments
<1> QED
  BY <1>2, <1>3, <1>4, <1>5

\* Every variable keeps its type, and what is sent is not empty.
THEOREM TypeCorrect == Spec => []TypeOK
<1>1. Init => TypeOK
  BY DEF Init, TypeOK
<1>2. ASSUME TypeOK, [Next]_vars PROVE TypeOK'
  <2>1. CASE Greeting
    <3>1. m_serverVersion' \in Versions /\ m_serverVersion' # 0
      BY <2>1, RequestsAssumption DEF Greeting
    <3> QED
      BY <2>1, <3>1 DEF Greeting, TypeOK
  <2>2. CASE DisconnectTWS
    BY <2>2 DEF DisconnectTWS, TypeOK
  <2>3. ASSUME NEW req \in DOMAIN Inputs, NEW u \in Inputs[req], Request(req, u)
        PROVE  TypeOK'
    <3>1. /\ last'.req = req /\ last'.uses = u /\ last'.outcome = Outcome(req, u)
          /\ last'.fields = IF Outcome(req, u) = "sent"
                            THEN Fields(req, m_serverVersion, u) ELSE <<>>
          /\ UNCHANGED <<m_connected, m_serverVersion>>
      BY <2>3 DEF Request
    <3>2. Outcome(req, u) \in {"sent", "NOT_CONNECTED", "UPDATE_TWS"}
      BY DEF Outcome
    <3>3. Fields(req, m_serverVersion, u) # <<>>
      <4>1. req \in Requests /\ WellFormed(u)
        BY RequestsAssumption
      <4>2. m_serverVersion \in Nat
        <5>1. m_serverVersion \in Versions \/ m_serverVersion = 0
          BY <1>2 DEF TypeOK
        <5>2. CASE m_serverVersion \in Versions
          BY <5>2, RequestsAssumption
        <5>3. CASE m_serverVersion = 0
          BY <5>3
        <5> QED
          BY <5>1, <5>2, <5>3
      <4> QED
        BY <4>1, <4>2, FieldsNotEmpty
    <3>4. last' # NoCall
      BY <2>3 DEF Request, NoCall
    <3>5. Accepted' <=> last'.fields # <<>>
      BY <3>1, <3>2, <3>3, <3>4 DEF Accepted
    <3> QED
      BY <1>2, <3>1, <3>2, <3>5 DEF TypeOK
  <2>4. CASE UNCHANGED vars
    BY <1>2, <2>4 DEF vars, TypeOK, Accepted
  <2> QED
    BY <1>2, <2>1, <2>2, <2>3, <2>4 DEF Next
<1> QED
  BY <1>1, <1>2, PTL DEF Spec

\* The session has a version whenever it is up.
CompleteInv == m_serverVersion \in Nat /\ CurrentServersLoseNothing

\* For every version from MIN_SERVER_VER_LINKING on and every combination of
\* arguments: what is accepted is in the message that send() gets, whether a
\* check guards it or not.
THEOREM CurrentServersLoseNothingHolds == Spec => []CurrentServersLoseNothing
<1>1. Init => CompleteInv
  BY DEF Init, CompleteInv, CurrentServersLoseNothing, Accepted
<1>2. ASSUME CompleteInv, [Next]_vars PROVE CompleteInv'
  <2>1. CASE Greeting \/ DisconnectTWS
    <3>1. m_serverVersion' \in Nat
      <4>1. CASE Greeting
        BY <4>1, RequestsAssumption DEF Greeting
      <4>2. CASE DisconnectTWS
        BY <4>2 DEF DisconnectTWS
      <4> QED
        BY <2>1, <4>1, <4>2
    <3>2. ~Accepted'
      BY <2>1 DEF Greeting, DisconnectTWS, Accepted, NoCall
    <3> QED
      BY <3>1, <3>2 DEF CompleteInv, CurrentServersLoseNothing
  <2>2. ASSUME NEW req \in DOMAIN Inputs, NEW u \in Inputs[req], Request(req, u)
        PROVE  CompleteInv'
    <3>1. /\ m_serverVersion' = m_serverVersion /\ m_serverVersion \in Nat
          /\ last'.uses = u /\ u \subseteq Arguments(req) /\ WellFormed(u)
      BY <1>2, <2>2, RequestsAssumption DEF Request, CompleteInv
    <3>2. ASSUME Accepted', m_serverVersion' >= MinVer.LINKING,
                 NEW a \in Meaningful(u)
          PROVE  Carries(last'.fields, a)
      <4>1. Outcome(req, u) = "sent"
        BY <2>2, <3>2 DEF Request, Accepted
      <4>2. last'.fields = Fields(req, m_serverVersion, u)
        BY <2>2, <4>1 DEF Request
      <4>3. Current(m_serverVersion) /\ a \in Meaningful(u) \cap Arguments(req)
        BY <3>1, <3>2 DEF Current, Meaningful
      <4> QED
        BY <3>1, <4>2, <4>3, CurrentHasAll
    <3> QED
      BY <3>1, <3>2 DEF CompleteInv, CurrentServersLoseNothing
  <2>3. CASE UNCHANGED vars
    BY <1>2, <2>3 DEF vars, CompleteInv, CurrentServersLoseNothing, Accepted
  <2> QED
    BY <1>2, <2>1, <2>2, <2>3 DEF Next
<1>3. CompleteInv => CurrentServersLoseNothing
  BY DEF CompleteInv
<1> QED
  BY <1>1, <1>2, <1>3, PTL DEF Spec

--------------------------------------------------------------------------------
(* Calls that differ in one argument: how parts that differ are joined.    *)

\* Two messages part in one field, and the name of the field tells them nothing
\* apart: what is set does.
Shows(s, t) == \E d \in DOMAIN s \cap DOMAIN t :
                 s[d] # t[d] /\ s[d][1] = t[d][1] /\ \A i \in 1..(d - 1) : s[i] = t[i]

\* Messages are the same, or part so.
Tells(s, t) == Message(s) /\ Message(t) /\ (s = t \/ Shows(s, t))

\* They do unless the argument a is b, and they part if it is.
Starts(s, t, b, a) == Tells(s, t) /\ (a = b => Shows(s, t))

\* They do unless the argument a is b, and if it is, they may be anything.
Goes(s, t, b, a) == Message(s) /\ Message(t) /\ (a # b => Tells(s, t))

\* What a message joined of two has where.
LEMMA JoinFields ==
  \A s, x : Message(s) /\ Message(x) =>
    /\ Message(s \o x) /\ Len(s) \in Nat /\ Len(x) \in Nat /\ DOMAIN s = 1..Len(s)
    /\ DOMAIN x = 1..Len(x) /\ DOMAIN (s \o x) = 1..(Len(s) + Len(x))
    /\ \A i \in 1..Len(s) : (s \o x)[i] = s[i]
    /\ \A i \in 1..Len(x) : (s \o x)[Len(s) + i] = x[i]
<1> SUFFICES ASSUME NEW s, NEW x, Message(s), Message(x)
             PROVE  /\ Message(s \o x) /\ Len(s) \in Nat /\ Len(x) \in Nat /\ DOMAIN s = 1..Len(s)
                    /\ DOMAIN x = 1..Len(x) /\ DOMAIN (s \o x) = 1..(Len(s) + Len(x))
                    /\ \A i \in 1..Len(s) : (s \o x)[i] = s[i]
                    /\ \A i \in 1..Len(x) : (s \o x)[Len(s) + i] = x[i]
  OBVIOUS
<1> DEFINE S == Range(s) \cup Range(x)
<1>1. s \in Seq(S) /\ x \in Seq(S)
  BY SeqMonotonic DEF Message
<1> HIDE DEF S
<1>2. Message(s \o x)
  BY Joined
<1>3. /\ Len(s) \in Nat /\ Len(x) \in Nat /\ DOMAIN s = 1..Len(s) /\ DOMAIN x = 1..Len(x)
      /\ DOMAIN (s \o x) = 1..(Len(s) + Len(x))
      /\ \A i \in 1..(Len(s) + Len(x)) :
           (s \o x)[i] = IF i <= Len(s) THEN s[i] ELSE x[i - Len(s)]
  BY <1>1, ConcatProperties, LenProperties
<1> DEFINE z == s \o x
<1> HIDE DEF z
<1>4. /\ \A i \in 1..Len(s) : z[i] = s[i]
      /\ \A i \in 1..Len(x) : z[Len(s) + i] = x[i]
  BY <1>3 DEF z
<1> QED
  BY <1>2, <1>3, <1>4 DEF z

\* Messages that part do so whatever follows.
LEMMA PartThen ==
  \A s, t, x, y :
    Message(s) /\ Message(t) /\ Message(x) /\ Message(y) /\ Shows(s, t) => Shows(s \o x, t \o y)
<1> SUFFICES ASSUME NEW s, NEW t, NEW x, NEW y, Message(s), Message(t), Message(x), Message(y),
                    Shows(s, t)
             PROVE  Shows(s \o x, t \o y)
  OBVIOUS
<1> DEFINE p == s \o x
           q == t \o y
<1>1. PICK d \in DOMAIN s \cap DOMAIN t :
        s[d] # t[d] /\ s[d][1] = t[d][1] /\ \A i \in 1..(d - 1) : s[i] = t[i]
  BY DEF Shows
<1>2. /\ Len(s) \in Nat /\ Len(x) \in Nat /\ DOMAIN s = 1..Len(s)
      /\ DOMAIN p = 1..(Len(s) + Len(x)) /\ \A i \in 1..Len(s) : p[i] = s[i]
  BY JoinFields
<1>3. /\ Len(t) \in Nat /\ Len(y) \in Nat /\ DOMAIN t = 1..Len(t)
      /\ DOMAIN q = 1..(Len(t) + Len(y)) /\ \A i \in 1..Len(t) : q[i] = t[i]
  BY JoinFields
<1> HIDE DEF p, q
<1>4. /\ d \in 1..Len(s) /\ d \in 1..Len(t) /\ d \in DOMAIN p /\ d \in DOMAIN q
      /\ \A i \in 1..(d - 1) : i \in 1..Len(s) /\ i \in 1..Len(t)
  BY <1>1, <1>2, <1>3
<1>5. Shows(p, q)
  BY <1>1, <1>2, <1>3, <1>4 DEF Shows
<1> QED
  BY <1>5 DEF p, q

\* They part as well behind what they share.
LEMMA ThenPart ==
  \A s, x, y : Message(s) /\ Message(x) /\ Message(y) /\ Shows(x, y) => Shows(s \o x, s \o y)
<1> SUFFICES ASSUME NEW s, NEW x, NEW y, Message(s), Message(x), Message(y), Shows(x, y)
             PROVE  Shows(s \o x, s \o y)
  OBVIOUS
<1> DEFINE p == s \o x
           q == s \o y
           n == Len(s)
<1>1. PICK d \in DOMAIN x \cap DOMAIN y :
        x[d] # y[d] /\ x[d][1] = y[d][1] /\ \A i \in 1..(d - 1) : x[i] = y[i]
  BY DEF Shows
<1>2. /\ n \in Nat /\ Len(x) \in Nat /\ DOMAIN x = 1..Len(x) /\ DOMAIN p = 1..(n + Len(x))
      /\ \A i \in 1..n : p[i] = s[i]
      /\ \A i \in 1..Len(x) : p[n + i] = x[i]
  BY JoinFields
<1>3. /\ Len(y) \in Nat /\ DOMAIN y = 1..Len(y) /\ DOMAIN q = 1..(n + Len(y))
      /\ \A i \in 1..n : q[i] = s[i]
      /\ \A i \in 1..Len(y) : q[n + i] = y[i]
  BY JoinFields
<1> HIDE DEF p, q, n
<1>4. n + d \in DOMAIN p /\ n + d \in DOMAIN q /\ p[n + d] = x[d] /\ q[n + d] = y[d]
  BY <1>1, <1>2, <1>3
<1>5. ASSUME NEW i \in 1..((n + d) - 1)
      PROVE  p[i] = q[i]
  <2>1. CASE i <= n
    BY <1>2, <1>3, <2>1
  <2>2. CASE i > n
    <3>1. PICK j \in 1..(d - 1) : i = n + j
      <4>1. i - n \in 1..(d - 1) /\ i = n + (i - n)
        BY <1>1, <1>2, <2>2
      <4> QED
        BY <4>1
    <3>2. j \in 1..Len(x) /\ j \in 1..Len(y)
      BY <1>1, <1>2, <1>3
    <3> QED
      BY <1>1, <1>2, <1>3, <3>1, <3>2
  <2> QED
    BY <1>1, <1>2, <2>1, <2>2
<1>6. Shows(p, q)
  BY <1>1, <1>4, <1>5 DEF Shows
<1> QED
  BY <1>6 DEF p, q

\* Parts that tell, joined.
LEMMA TellsThenTells ==
  \A s, t, x, y : Tells(s, t) /\ Tells(x, y) => Tells(s \o x, t \o y)
  BY JoinFields, PartThen, ThenPart DEF Tells

\* A part that parts on b, and what depends on b behind it.
LEMMA StartsThenGoes ==
  \A s, t, x, y, b, a :
    Starts(s, t, b, a) /\ Goes(x, y, b, a) => Starts(s \o x, t \o y, b, a)
<1> SUFFICES ASSUME NEW s, NEW t, NEW x, NEW y, NEW b, NEW a, Starts(s, t, b, a), Goes(x, y, b, a)
             PROVE  Starts(s \o x, t \o y, b, a)
  OBVIOUS
<1>1. Message(s) /\ Message(t) /\ Message(x) /\ Message(y) /\ Message(s \o x) /\ Message(t \o y)
  BY JoinFields DEF Starts, Goes, Tells
<1>2. CASE a = b
  BY <1>1, <1>2, PartThen DEF Starts, Tells
<1>3. CASE a # b
  BY <1>3, TellsThenTells DEF Starts, Goes
<1> QED
  BY <1>2, <1>3

\* What tells in front of it.
LEMMA TellsThenStarts ==
  \A s, t, x, y, b, a :
    Tells(s, t) /\ Starts(x, y, b, a) => Starts(s \o x, t \o y, b, a)
<1> SUFFICES ASSUME NEW s, NEW t, NEW x, NEW y, NEW b, NEW a, Tells(s, t), Starts(x, y, b, a)
             PROVE  Starts(s \o x, t \o y, b, a)
  OBVIOUS
<1>1. Tells(s \o x, t \o y)
  BY TellsThenTells DEF Starts
<1>2. CASE a = b
  <2>1. Message(s) /\ Message(t) /\ Message(x) /\ Message(y) /\ Shows(x, y) /\ (s = t \/ Shows(s, t))
    BY <1>2 DEF Starts, Tells
  <2>2. Shows(s \o x, t \o y)
    BY <2>1, PartThen, ThenPart
  <2> QED
    BY <1>1, <2>2 DEF Starts
<1> QED
  BY <1>1, <1>2 DEF Starts

\* Parts behind one that parts.
LEMMA GoesThenGoes ==
  \A s, t, x, y, b, a :
    Goes(s, t, b, a) /\ Goes(x, y, b, a) => Goes(s \o x, t \o y, b, a)
  BY JoinFields, TellsThenTells DEF Goes

\* What tells goes anywhere.
LEMMA TellsGoes == \A s, t, b, a : Tells(s, t) => Goes(s, t, b, a)
  BY DEF Tells, Goes

\* A message and itself.
LEMMA SameTells == \A s : Message(s) => Tells(s, s)
  BY DEF Tells

\* The field of an argument shows it.
LEMMA ArgStarts ==
  \A u, b, a : \A n \in Nat \ {0} :
    a \in u => Starts(Arg(b, n, u), Arg(b, n, u \ {a}), b, a)
<1> SUFFICES ASSUME NEW u, NEW b, NEW a, NEW n \in Nat \ {0}, a \in u
             PROVE  Starts(Arg(b, n, u), Arg(b, n, u \ {a}), b, a)
  OBVIOUS
<1> DEFINE s == Arg(b, n, u)
           t == Arg(b, n, u \ {a})
<1>1. Message(s) /\ Message(t)
  BY ArgFields
<1>2. CASE a # b
  <2>1. s = t
    BY <1>2 DEF Arg
  <2> QED
    BY <1>1, <1>2, <2>1 DEF Starts, Tells
<1>3. CASE a = b
  <2>1. DOMAIN s = 1..n /\ DOMAIN t = 1..n /\ 1 \in 1..n /\ 1..(1 - 1) = {}
    BY DEF Arg
  <2>2. s[1] = <<b, "set">> /\ t[1] = <<b, "default">>
    BY <1>3, <2>1 DEF Arg
  <2> HIDE DEF s, t
  <2>3. s[1] # t[1] /\ s[1][1] = t[1][1]
    BY <2>2
  <2>4. Shows(s, t)
    BY <2>1, <2>3 DEF Shows
  <2>5. Starts(s, t, b, a)
    BY <1>1, <2>4 DEF Starts, Tells
  <2> QED
    BY <2>5 DEF s, t
<1> QED
  BY <1>2, <1>3

\* A part that only some versions have.
LEMMA WhenTells ==
  \A c, x, y : Tells(x, y) => Tells(When(c, x), When(c, y))
  BY EmptyMessage DEF When, Tells

\* A part that some versions have and that depends on the argument b.
LEMMA WhenGoes ==
  \A v, n, x, y, u, b, a : Goes(x, y, b, a) =>
    Goes(When(v >= n /\ b \in u, x), When(v >= n /\ b \in u \ {a}, y), b, a)
  BY EmptyMessage DEF When, Goes, Tells

\* An argument that does.
LEMMA GatedArgGoes ==
  \A v, n, c, u, b, a : \A k \in Nat \ {0} : a \in u =>
    Goes(When(v >= n /\ b \in u, Arg(c, k, u)),
         When(v >= n /\ b \in u \ {a}, Arg(c, k, u \ {a})), b, a)
<1> SUFFICES ASSUME NEW v, NEW n, NEW c, NEW u, NEW b, NEW a \in u, NEW k \in Nat \ {0}
             PROVE  Goes(When(v >= n /\ b \in u, Arg(c, k, u)),
                         When(v >= n /\ b \in u \ {a}, Arg(c, k, u \ {a})), b, a)
  OBVIOUS
<1> DEFINE x == Arg(c, k, u)
           y == Arg(c, k, u \ {a})
<1>1. Goes(x, y, b, a)
  BY ArgStarts, TellsGoes DEF Starts
<1> HIDE DEF x, y
<1>2. Goes(When(v >= n /\ b \in u, x), When(v >= n /\ b \in u \ {a}, y), b, a)
  BY <1>1, WhenGoes
<1> QED
  BY <1>2 DEF x, y

\* One that depends on it alone.
LEMMA GroupGoes ==
  \A x, y, u, b, a : Goes(x, y, b, a) =>
    Goes(When(b \in u, x), When(b \in u \ {a}, y), b, a)
  BY EmptyMessage DEF When, Goes, Tells

\* The field of an argument and the group that is there when it is set.
LEMMA OpenerTells ==
  \A x, y, u, b, a : a \in u /\ Tells(x, y) =>
    Tells(Arg(b, 1, u) \o When(b \in u, x), Arg(b, 1, u \ {a}) \o When(b \in u \ {a}, y))
<1> SUFFICES ASSUME NEW x, NEW y, NEW u, NEW b, NEW a, a \in u, Tells(x, y)
             PROVE  Tells(Arg(b, 1, u) \o When(b \in u, x),
                          Arg(b, 1, u \ {a}) \o When(b \in u \ {a}, y))
  OBVIOUS
<1>1. Starts(Arg(b, 1, u), Arg(b, 1, u \ {a}), b, a)
  BY ArgStarts
<1>2. Goes(When(b \in u, x), When(b \in u \ {a}, y), b, a)
  BY TellsGoes, GroupGoes
<1> QED
  BY <1>1, <1>2, StartsThenGoes DEF Starts

--------------------------------------------------------------------------------
(* What the requests write for them.                                       *)

\* The contract says whether it is a BAG.
LEMMA ContractStarts ==
  \A m, v, u, a : \A n \in Nat : a \in u =>
    Starts(ContractFields(m, n, v, u), ContractFields(m, n, v, u \ {a}), "BAG", a)
<1> SUFFICES ASSUME NEW m, NEW v, NEW u, NEW a, NEW n \in Nat, a \in u
             PROVE  Starts(ContractFields(m, n, v, u), ContractFields(m, n, v, u \ {a}), "BAG", a)
  OBVIOUS
<1> DEFINE w == u \ {a}
           c(x) == When(v >= m, Arg("conId", 1, x))
           b(x) == Arg("BAG", 1, x)
           t(x) == When(v >= MinVer.TRADING_CLASS, Arg("tradingClass", 1, x))
<1>1. Starts(b(u), b(w), "BAG", a)
  BY ArgStarts
<1>2. Tells(c(u), c(w)) /\ Goes(t(u), t(w), "BAG", a)
  BY ArgStarts, WhenTells, TellsGoes DEF Starts
<1>3. Tells(Plain(1), Plain(1)) /\ Goes(Plain(n), Plain(n), "BAG", a)
  BY PlainFields, SameTells, TellsGoes
<1>4. /\ ContractFields(m, n, v, u) = c(u) \o Plain(1) \o b(u) \o Plain(n) \o t(u)
      /\ ContractFields(m, n, v, w) = c(w) \o Plain(1) \o b(w) \o Plain(n) \o t(w)
  BY DEF ContractFields
<1> HIDE DEF b, c, t, w
<1>5. Starts(c(u) \o Plain(1) \o b(u), c(w) \o Plain(1) \o b(w), "BAG", a)
  BY <1>1, <1>2, <1>3, TellsThenTells, TellsThenStarts
<1>6. Starts(c(u) \o Plain(1) \o b(u) \o Plain(n) \o t(u),
             c(w) \o Plain(1) \o b(w) \o Plain(n) \o t(w), "BAG", a)
  BY <1>2, <1>3, <1>5, StartsThenGoes
<1> QED
  BY <1>4, <1>6 DEF w

\* The legs of a BAG.
LEMMA ComboLegsGo ==
  \A x, y, u, a : a \in u /\ Tells(x, y) =>
    Goes(ComboLegs(x, u), ComboLegs(y, u \ {a}), "BAG", a)
<1> SUFFICES ASSUME NEW x, NEW y, NEW u, NEW a, a \in u, Tells(x, y)
             PROVE  Goes(ComboLegs(x, u), ComboLegs(y, u \ {a}), "BAG", a)
  OBVIOUS
<1>1. Tells(Arg("comboLeg", 1, u) \o When("comboLeg" \in u, x),
            Arg("comboLeg", 1, u \ {a}) \o When("comboLeg" \in u \ {a}, y))
  BY OpenerTells
<1> QED
  BY <1>1, TellsGoes, GroupGoes DEF ComboLegs

\* The options.
LEMMA OptionsTell ==
  \A b, v, u, a : a \in u => Tells(Options(b, v, u), Options(b, v, u \ {a}))
  BY ArgStarts, WhenTells DEF Options, Starts

\* The UnderComp, whose fields depend on whether it is there.
LEMMA UnderCompTells ==
  \A v, u, a : a \in u => Tells(UnderComp(v, u), UnderComp(v, u \ {a}))
<1> SUFFICES ASSUME NEW v, NEW u, NEW a, a \in u
             PROVE  Tells(UnderComp(v, u), UnderComp(v, u \ {a}))
  OBVIOUS
<1>1. Tells(Plain(3), Plain(3))
  BY PlainFields, SameTells
<1> QED
  BY <1>1, OpenerTells, WhenTells DEF UnderComp

\* Historical data, market data and bars.
LEMMA DataTells ==
  ASSUME NEW v, NEW u, NEW a \in u
  PROVE  /\ Tells(HistoricalData(v, u), HistoricalData(v, u \ {a}))
         /\ Tells(MktData(v, u), MktData(v, u \ {a}))
         /\ Tells(RealTimeBars(v, u), RealTimeBars(v, u \ {a}))
<1> DEFINE w == u \ {a}
           h == Header("REQ_HISTORICAL_DATA", 2)
           k == Header("REQ_MKT_DATA", 2)
           r == Header("REQ_REAL_TIME_BARS", 2)
           legs(x) == ComboLegs(Plain(4), x)
           c(x) == ContractFields(MinVer.TRADING_CLASS, 8, v, x)
           d(x) == ContractFields(MinVer.REQ_MKT_DATA_CONID, 8, v, x)
<1>1. Starts(c(u), c(w), "BAG", a) /\ Starts(d(u), d(w), "BAG", a)
  BY ContractStarts
<1>2. Tells(h, h) /\ Tells(k, k) /\ Tells(r, r)
  BY HeaderFields, SameTells
<1>3. \A n \in Nat : Goes(Plain(n), Plain(n), "BAG", a) /\ Tells(Plain(n), Plain(n))
  BY PlainFields, SameTells, TellsGoes
<1>4. Goes(legs(u), legs(w), "BAG", a)
  BY <1>3, ComboLegsGo
<1>5. \A b : Goes(Options(b, v, u), Options(b, v, w), "BAG", a)
  BY OptionsTell, TellsGoes
<1>6. Goes(UnderComp(v, u), UnderComp(v, w), "BAG", a)
  BY UnderCompTells, TellsGoes
<1>7. /\ \A x : HistoricalData(v, x) = h \o c(x) \o Plain(7) \o legs(x) \o Options("chartOptions", v, x)
      /\ \A x : MktData(v, x) = k \o d(x) \o legs(x) \o UnderComp(v, x) \o Plain(2)
                                  \o Options("mktDataOptions", v, x)
      /\ \A x : RealTimeBars(v, x) = r \o c(x) \o Plain(3) \o Options("realTimeBarsOptions", v, x)
  BY DEF HistoricalData, MktData, RealTimeBars
<1> HIDE DEF w, h, k, r, legs, c, d
<1>8. Starts(h \o c(u), h \o c(w), "BAG", a) /\ Starts(k \o d(u), k \o d(w), "BAG", a)
      /\ Starts(r \o c(u), r \o c(w), "BAG", a)
  BY <1>1, <1>2, TellsThenStarts
<1>9. Starts(HistoricalData(v, u), HistoricalData(v, w), "BAG", a)
  BY <1>3, <1>4, <1>5, <1>7, <1>8, StartsThenGoes
<1>10. Starts(MktData(v, u), MktData(v, w), "BAG", a)
  BY <1>3, <1>4, <1>5, <1>6, <1>7, <1>8, StartsThenGoes
<1>11. Starts(RealTimeBars(v, u), RealTimeBars(v, w), "BAG", a)
  BY <1>3, <1>5, <1>7, <1>8, StartsThenGoes
<1> QED
  BY <1>9, <1>10, <1>11 DEF w, Starts

\* Contract details, and what is done with options.
LEMMA ContractTells ==
  ASSUME NEW v, NEW u, NEW a \in u
  PROVE  /\ Tells(ContractData(v, u), ContractData(v, u \ {a}))
         /\ Tells(ExerciseOptions(v, u), ExerciseOptions(v, u \ {a}))
         /\ Tells(ImpliedVolatility(v, u), ImpliedVolatility(v, u \ {a}))
         /\ Tells(OptionPrice(v, u), OptionPrice(v, u \ {a}))
<1> DEFINE w == u \ {a}
           h == Header("REQ_CONTRACT_DATA", 1) \o When(v >= MinVer.CONTRACT_DATA_CHAIN, Plain(1))
           e == Header("EXERCISE_OPTIONS", 2)
           i == Header("REQ_CALC_IMPLIED_VOLAT", 2)
           o == Header("REQ_CALC_OPTION_PRICE", 2)
           c(x) == ContractFields(0, 7, v, x)
           d(x) == ContractFields(MinVer.TRADING_CLASS, 7, v, x)
           f(x) == ContractFields(0, 8, v, x)
           s(x) == When(v >= MinVer.SEC_ID_TYPE, Arg("secId", 2, x))
           t(x) == When(v >= MinVer.TRADING_CLASS, Arg("tradingClass", 1, x))
           k(x) == Arg("conId", 1, x)
<1>1. Starts(c(u), c(w), "BAG", a) /\ Starts(d(u), d(w), "BAG", a) /\ Starts(f(u), f(w), "BAG", a)
  BY ContractStarts
<1>2. \A n \in Nat : Goes(Plain(n), Plain(n), "BAG", a) /\ Tells(Plain(n), Plain(n))
  BY PlainFields, SameTells, TellsGoes
<1>3. Tells(h, h) /\ Tells(e, e) /\ Tells(i, i) /\ Tells(o, o)
  <2>1. /\ Message(When(v >= MinVer.CONTRACT_DATA_CHAIN, Plain(1)))
        /\ Message(Header("REQ_CONTRACT_DATA", 1)) /\ Message(e) /\ Message(i) /\ Message(o)
    BY HeaderFields, PlainFields, EmptyMessage DEF When
  <2>2. Message(h)
    BY <2>1, Joined
  <2> QED
    BY <2>1, <2>2, SameTells
<1>4. Tells(s(u), s(w)) /\ Tells(t(u), t(w)) /\ Tells(k(u), k(w)) /\ Goes(s(u), s(w), "BAG", a)
  BY ArgStarts, WhenTells, TellsGoes DEF Starts
<1>5. /\ \A x : ContractData(v, x) = h \o c(x) \o Plain(1) \o s(x)
      /\ \A x : ExerciseOptions(v, x) = e \o d(x) \o Plain(4)
      /\ \A x : ImpliedVolatility(v, x) = i \o k(x) \o Plain(9) \o t(x) \o Plain(2)
      /\ \A x : OptionPrice(v, x) = o \o f(x) \o Plain(2)
  BY DEF ContractData, ExerciseOptions, ImpliedVolatility, OptionPrice
<1> HIDE DEF w, h, e, i, o, c, d, f, s, t, k
<1>6. Starts(ContractData(v, u), ContractData(v, w), "BAG", a)
  BY <1>1, <1>2, <1>3, <1>4, <1>5, TellsThenStarts, StartsThenGoes
<1>7. Starts(ExerciseOptions(v, u), ExerciseOptions(v, w), "BAG", a)
  BY <1>1, <1>2, <1>3, <1>5, TellsThenStarts, StartsThenGoes
<1>8. Starts(OptionPrice(v, u), OptionPrice(v, w), "BAG", a)
  BY <1>1, <1>2, <1>3, <1>5, TellsThenStarts, StartsThenGoes
<1>9. Tells(ImpliedVolatility(v, u), ImpliedVolatility(v, w))
  BY <1>2, <1>3, <1>4, <1>5, TellsThenTells
<1> QED
  BY <1>6, <1>7, <1>8, <1>9 DEF w, Starts

\* The legs of an order that is a BAG, and what they come with.
LEMMA OrderComboLegsGo ==
  \A v, u, a : a \in u =>
    Goes(OrderComboLegs(v, u), OrderComboLegs(v, u \ {a}), "BAG", a)
<1> SUFFICES ASSUME NEW v, NEW u, NEW a \in u
             PROVE  Goes(OrderComboLegs(v, u), OrderComboLegs(v, u \ {a}), "BAG", a)
  OBVIOUS
<1> DEFINE w == u \ {a}
           leg(x) == Plain(7) \o When(v >= MinVer.SSHORTX_OLD, Arg("legExemptCode", 1, x))
           price(x) == Arg("orderComboLeg", 1, x)
                         \o When("orderComboLeg" \in x, Arg("orderComboLegPrice", 1, x))
           smart(x) == Arg("smartComboRoutingParams", 1, x)
                         \o When("smartComboRoutingParams" \in x, Plain(2))
           p(x) == When(v >= MinVer.ORDER_COMBO_LEGS_PRICE /\ "BAG" \in x, price(x))
           q(x) == When(v >= MinVer.SMART_COMBO_ROUTING_PARAMS /\ "BAG" \in x, smart(x))
<1>1. \A b, n : n \in Nat \ {0} => Tells(Arg(b, n, u), Arg(b, n, w))
  BY ArgStarts DEF Starts
<1>2. \A n \in Nat : Tells(Plain(n), Plain(n))
  BY PlainFields, SameTells
<1>3. Tells(leg(u), leg(w))
  BY <1>1, <1>2, WhenTells, TellsThenTells
<1>4. Tells(price(u), price(w)) /\ Tells(smart(u), smart(w))
  BY <1>1, <1>2, OpenerTells
<1> HIDE DEF leg, price, smart
<1>5. Goes(ComboLegs(leg(u), u), ComboLegs(leg(w), w), "BAG", a)
  BY <1>3, ComboLegsGo
<1>6. Goes(p(u), p(w), "BAG", a) /\ Goes(q(u), q(w), "BAG", a)
  BY <1>4, TellsGoes, WhenGoes
<1>7. \A x : OrderComboLegs(v, x) = ComboLegs(leg(x), x) \o p(x) \o q(x)
  BY DEF OrderComboLegs, leg, price, smart
<1> HIDE DEF w, p, q
<1>8. Goes(OrderComboLegs(v, u), OrderComboLegs(v, w), "BAG", a)
  BY <1>5, <1>6, <1>7, GoesThenGoes
<1> QED
  BY <1>8 DEF w

\* The delta neutral order: what follows its type depends on it.
LEMMA OrderDeltaNeutralTells ==
  \A v, u, a : a \in u => Tells(OrderDeltaNeutral(v, u), OrderDeltaNeutral(v, u \ {a}))
<1> SUFFICES ASSUME NEW v, NEW u, NEW a \in u
             PROVE  Tells(OrderDeltaNeutral(v, u), OrderDeltaNeutral(v, u \ {a}))
  OBVIOUS
<1> DEFINE w == u \ {a}
           b == "deltaNeutralOrderType"
           f(x) == Arg(b, 1, x)
           p(x) == When(v >= MinVer.DELTA_NEUTRAL_CONID /\ b \in x, Arg("deltaNeutralConId", 4, x))
           q(x) == When(v >= MinVer.DELTA_NEUTRAL_OPEN_CLOSE /\ b \in x,
                        Arg("deltaNeutralOpenClose", 4, x))
           r(x) == When(v >= MinVer.TRAILING_PERCENT, Arg("trailingPercent", 1, x))
<1>1. \A c, n : n \in Nat \ {0} => Tells(Arg(c, n, u), Arg(c, n, w)) /\ Goes(Arg(c, n, u), Arg(c, n, w), b, a)
  BY ArgStarts, TellsGoes DEF Starts
<1>2. \A n \in Nat : Goes(Plain(n), Plain(n), b, a)
  BY PlainFields, SameTells, TellsGoes
<1>3. Starts(f(u), f(w), b, a)
  BY ArgStarts
<1>4. Goes(p(u), p(w), b, a) /\ Goes(q(u), q(w), b, a)
  <2>1. Goes(p(u), p(w), b, a)
    BY GatedArgGoes
  <2>2. Goes(q(u), q(w), b, a)
    BY GatedArgGoes
  <2> QED
    BY <2>1, <2>2
<1>5. Goes(r(u), r(w), b, a)
  BY <1>1, WhenTells, TellsGoes
<1>6. \A x : OrderDeltaNeutral(v, x) = f(x) \o Plain(1) \o p(x) \o q(x) \o Plain(3) \o r(x)
  BY DEF OrderDeltaNeutral
<1> HIDE DEF w, b, f, p, q, r
<1>7. Starts(OrderDeltaNeutral(v, u), OrderDeltaNeutral(v, w), b, a)
  BY <1>2, <1>3, <1>4, <1>5, <1>6, StartsThenGoes
<1> QED
  BY <1>7 DEF w, Starts

\* The scale: what follows the increment of the price depends on it.
LEMMA OrderScaleTells ==
  \A v, u, a : a \in u => Tells(OrderScale(v, u), OrderScale(v, u \ {a}))
<1> SUFFICES ASSUME NEW v, NEW u, NEW a \in u
             PROVE  Tells(OrderScale(v, u), OrderScale(v, u \ {a}))
  OBVIOUS
<1> DEFINE w == u \ {a}
           b == "scalePriceIncrement"
           s(x) == IF v >= MinVer.SCALE_ORDERS2 THEN Plain(1) \o Arg("scaleSubsLevelSize", 1, x)
                   ELSE <<<<"scaleNumComponents", "set">>>> \o Plain(1)
           f(x) == Arg(b, 1, x)
           p(x) == When(v >= MinVer.SCALE_ORDERS3 /\ b \in x, Arg("scalePriceAdjustValue", 7, x))
           r(x) == When(v >= MinVer.SCALE_TABLE, Arg("scaleTable", 3, x))
<1>1. \A c, n : n \in Nat \ {0} => Tells(Arg(c, n, u), Arg(c, n, w)) /\ Goes(Arg(c, n, u), Arg(c, n, w), b, a)
  BY ArgStarts, TellsGoes DEF Starts
<1>2. Tells(s(u), s(w))
  <2>1. Tells(Plain(1), Plain(1))
    BY PlainFields, SameTells
  <2>2. Tells(Plain(1) \o Arg("scaleSubsLevelSize", 1, u), Plain(1) \o Arg("scaleSubsLevelSize", 1, w))
    BY <1>1, <2>1, TellsThenTells
  <2>3. Tells(<<<<"scaleNumComponents", "set">>>> \o Plain(1),
              <<<<"scaleNumComponents", "set">>>> \o Plain(1))
    BY <2>1, OneField, SameTells, TellsThenTells
  <2> QED
    BY <2>2, <2>3
<1>3. Starts(f(u), f(w), b, a)
  BY ArgStarts
<1>4. Goes(p(u), p(w), b, a)
  BY GatedArgGoes
<1>5. Goes(r(u), r(w), b, a)
  BY <1>1, WhenTells, TellsGoes
<1>6. \A x : OrderScale(v, x) = s(x) \o f(x) \o p(x) \o r(x)
  BY DEF OrderScale
<1> HIDE DEF w, b, s, f, p, r
<1>7. Starts(OrderScale(v, u), OrderScale(v, w), b, a)
  BY <1>2, <1>3, <1>4, <1>5, <1>6, TellsThenStarts, StartsThenGoes
<1> QED
  BY <1>7 DEF w, Starts

\* The hedge, the routing and the algorithm.
LEMMA OrderRestTells ==
  \A v, u, a : a \in u =>
    /\ Tells(OrderHedge(v, u), OrderHedge(v, u \ {a}))
    /\ Tells(OrderRouting(v, u), OrderRouting(v, u \ {a}))
    /\ Tells(OrderTail(v, u), OrderTail(v, u \ {a}))
    /\ Tells(OrderExtended(v, u), OrderExtended(v, u \ {a}))
<1> SUFFICES ASSUME NEW v, NEW u, NEW a \in u
             PROVE  /\ Tells(OrderHedge(v, u), OrderHedge(v, u \ {a}))
                    /\ Tells(OrderRouting(v, u), OrderRouting(v, u \ {a}))
                    /\ Tells(OrderTail(v, u), OrderTail(v, u \ {a}))
                    /\ Tells(OrderExtended(v, u), OrderExtended(v, u \ {a}))
  OBVIOUS
<1> DEFINE w == u \ {a}
           smart(x) == When(v >= MinVer.OPT_OUT_SMART_ROUTING, Arg("optOutSmartRouting", 1, x))
           clear(x) == When(v >= MinVer.PTA_ORDERS, Arg("clearingAccount", 2, x))
           held(x) == When(v >= MinVer.NOT_HELD, Arg("notHeld", 1, x))
           exempt(x) == When(v >= MinVer.SSHORTX_OLD, Arg("exemptCode", 1, x))
           param(x) == Arg("algoParam", 1, x) \o When("algoParam" \in x, Plain(2))
           algo(x) == Arg("algoStrategy", 1, x) \o When("algoStrategy" \in x, param(x))
           hedge(x) == Arg("hedgeType", 1, x) \o When("hedgeType" \in x, Arg("hedgeParam", 1, x))
<1>1. \A b, n : n \in Nat \ {0} => Tells(Arg(b, n, u), Arg(b, n, w))
  BY ArgStarts DEF Starts
<1>2. \A n \in Nat : Tells(Plain(n), Plain(n))
  BY PlainFields, SameTells
<1>3. /\ Tells(smart(u), smart(w)) /\ Tells(clear(u), clear(w))
      /\ Tells(held(u), held(w)) /\ Tells(exempt(u), exempt(w))
  BY <1>1, WhenTells
<1>4. Tells(param(u), param(w))
  BY <1>2, OpenerTells
<1> HIDE DEF param
<1>5. Tells(algo(u), algo(w)) /\ Tells(hedge(u), hedge(w))
  BY <1>1, <1>4, OpenerTells
<1> HIDE DEF algo, hedge
<1>6. Tells(OrderHedge(v, u), OrderHedge(v, w)) /\ Tells(OrderAlgo(v, u), OrderAlgo(v, w))
  <2>1. \A x : OrderHedge(v, x) = When(v >= MinVer.HEDGE_ORDERS, hedge(x))
    BY DEF OrderHedge, hedge
  <2>2. \A x : OrderAlgo(v, x) = When(v >= MinVer.ALGO_ORDERS, algo(x))
    BY DEF OrderAlgo, algo, param
  <2> QED
    BY <1>5, <2>1, <2>2, WhenTells
<1>7. Tells(Options("orderMiscOptions", v, u), Options("orderMiscOptions", v, w))
  BY OptionsTell
<1>8. /\ \A x : OrderRouting(v, x) = smart(x) \o clear(x) \o held(x)
      /\ \A x : OrderTail(v, x) = OrderAlgo(v, x) \o Plain(1) \o Options("orderMiscOptions", v, x)
      /\ \A x : OrderExtended(v, x) = Plain(10) \o exempt(x) \o Plain(18)
  BY DEF OrderRouting, OrderTail, OrderExtended
<1> HIDE DEF w, smart, clear, held, exempt
<1>9. Tells(OrderRouting(v, u), OrderRouting(v, w))
  BY <1>3, <1>8, TellsThenTells
<1>10. Tells(OrderTail(v, u), OrderTail(v, w))
  BY <1>2, <1>6, <1>7, <1>8, TellsThenTells
<1>11. Tells(OrderExtended(v, u), OrderExtended(v, w))
  BY <1>2, <1>3, <1>8, TellsThenTells
<1> QED
  BY <1>6, <1>9, <1>10, <1>11 DEF w

\* An order.
LEMMA PlaceOrderTells ==
  ASSUME NEW v, NEW u, NEW a \in u
  PROVE  Tells(PlaceOrder(v, u), PlaceOrder(v, u \ {a}))
<1> DEFINE w == u \ {a}
           h == Header("PLACE_ORDER", 2)
           c(x) == ContractFields(MinVer.PLACE_ORDER_CONID, 8, v, x)
           s(x) == When(v >= MinVer.SEC_ID_TYPE, Arg("secId", 2, x))
<1>1. Starts(OrderContract(v, u), OrderContract(v, w), "BAG", a)
  <2>1. Starts(c(u), c(w), "BAG", a)
    BY ContractStarts
  <2>2. Goes(s(u), s(w), "BAG", a)
    BY ArgStarts, WhenTells, TellsGoes DEF Starts
  <2>3. \A x : OrderContract(v, x) = c(x) \o s(x)
    BY DEF OrderContract
  <2> HIDE DEF w, c, s
  <2> QED
    BY <2>1, <2>2, <2>3, StartsThenGoes
<1>2. Tells(h, h)
  BY HeaderFields, SameTells
<1>3. Goes(OrderMain, OrderMain, "BAG", a)
  BY PlainFields, SameTells, TellsGoes DEF OrderMain
<1>4. Goes(OrderComboLegs(v, u), OrderComboLegs(v, w), "BAG", a)
  BY OrderComboLegsGo
<1>5. /\ Goes(OrderDeltaNeutral(v, u), OrderDeltaNeutral(v, w), "BAG", a)
      /\ Goes(OrderScale(v, u), OrderScale(v, w), "BAG", a)
      /\ Goes(UnderComp(v, u), UnderComp(v, w), "BAG", a)
  BY OrderDeltaNeutralTells, OrderScaleTells, UnderCompTells, TellsGoes
<1>6. /\ Goes(OrderHedge(v, u), OrderHedge(v, w), "BAG", a)
      /\ Goes(OrderRouting(v, u), OrderRouting(v, w), "BAG", a)
      /\ Goes(OrderTail(v, u), OrderTail(v, w), "BAG", a)
      /\ Goes(OrderExtended(v, u), OrderExtended(v, w), "BAG", a)
  BY OrderRestTells, TellsGoes
<1> DEFINE front(x) == h \o OrderContract(v, x) \o OrderMain \o OrderComboLegs(v, x)
                         \o OrderExtended(v, x)
<1>7. Starts(front(u), front(w), "BAG", a)
  <2> HIDE DEF w, h
  <2> QED
    BY <1>1, <1>2, <1>3, <1>4, <1>6, TellsThenStarts, StartsThenGoes
<1>8. \A x : PlaceOrder(v, x) =
               front(x) \o OrderDeltaNeutral(v, x) \o OrderScale(v, x) \o OrderHedge(v, x)
                 \o OrderRouting(v, x) \o UnderComp(v, x) \o OrderTail(v, x)
  BY DEF PlaceOrder
<1> HIDE DEF w, h, front
<1>9. Starts(PlaceOrder(v, u), PlaceOrder(v, w), "BAG", a)
  BY <1>5, <1>6, <1>7, <1>8, StartsThenGoes
<1> QED
  BY <1>9 DEF w, Starts

\* Any request: calls that differ in one argument.
LEMMA FieldsTell ==
  ASSUME NEW req \in Requests, NEW v, NEW u, NEW a \in u
  PROVE  Tells(Fields(req, v, u), Fields(req, v, u \ {a}))
<1> DEFINE w == u \ {a}
           Ordinary == {"reqHistoricalData", "reqMktData", "reqRealTimeBars", "reqContractDetails",
                        "placeOrder", "excerciseOptions", "calculateImpliedVolatility",
                        "calculateOptionPrice"}
<1>1. CASE req \in Ordinary
  <2>1. \A x :
          /\ Fields("reqHistoricalData", v, x) = HistoricalData(v, x)
          /\ Fields("reqMktData", v, x) = MktData(v, x)
          /\ Fields("reqRealTimeBars", v, x) = RealTimeBars(v, x)
          /\ Fields("reqContractDetails", v, x) = ContractData(v, x)
          /\ Fields("placeOrder", v, x) = PlaceOrder(v, x)
          /\ Fields("excerciseOptions", v, x) = ExerciseOptions(v, x)
          /\ Fields("calculateImpliedVolatility", v, x) = ImpliedVolatility(v, x)
          /\ Fields("calculateOptionPrice", v, x) = OptionPrice(v, x)
    BY DEF Fields, LogRequests, AccountRequests, CalculationRequests
  <2> QED
    BY <1>1, <2>1, DataTells, ContractTells, PlaceOrderTells
<1>2. CASE req \notin Ordinary
  <2>1. req \in BareRequests
    BY <1>2 DEF Requests
  <2>2. \E id : \E n \in Nat : \A x : Fields(req, v, x) = Header(id, n)
    BY <2>1 DEF BareRequests, Fields, LogRequests, AccountRequests, CalculationRequests
  <2> QED
    BY <2>2, HeaderFields, SameTells
<1> QED
  BY <1>1, <1>2

\* What was sent is what the request writes at the version of the server.
Sent == Accepted => /\ last.req \in DOMAIN Inputs
                    /\ last.fields = Fields(last.req, m_serverVersion, last.uses)

\* For every server version and every combination of arguments: two calls that
\* differ in one argument are the same message, or first differ in a field that
\* both have in that place, so that TWS is never left with a field it takes for
\* another one.
THEOREM ShowsBeforeItShiftsHolds == Spec => []ShowsBeforeItShifts
<1>1. Init => Sent
  BY DEF Init, Sent, Accepted
<1>2. ASSUME Sent, [Next]_vars
      PROVE  Sent'
  <2>1. CASE Greeting
    BY <2>1 DEF Greeting, Sent, Accepted, NoCall
  <2>2. CASE DisconnectTWS
    BY <2>2 DEF DisconnectTWS, Sent, Accepted, NoCall
  <2>3. ASSUME NEW req \in DOMAIN Inputs, NEW u \in Inputs[req], Request(req, u)
        PROVE  Sent'
    BY <2>3 DEF Request, Sent, Accepted
  <2>4. CASE UNCHANGED vars
    BY <1>2, <2>4 DEF vars, Sent, Accepted
  <2> QED
    BY <1>2, <2>1, <2>2, <2>3, <2>4 DEF Next
<1>3. Sent => ShowsBeforeItShifts
  <2> SUFFICES ASSUME Sent, Accepted, NEW a \in last.uses
               PROVE  LET one == last.fields
                          two == Fields(last.req, m_serverVersion, last.uses \ {a})
                      IN  \/ one = two
                          \/ \E d \in DOMAIN one \cap DOMAIN two :
                               /\ one[d] # two[d] /\ one[d][1] = two[d][1]
                               /\ \A i \in 1..(d - 1) : one[i] = two[i]
    BY DEF ShowsBeforeItShifts
  <2>1. last.req \in Requests /\ last.fields = Fields(last.req, m_serverVersion, last.uses)
    BY RequestsAssumption DEF Sent
  <2>2. Tells(last.fields, Fields(last.req, m_serverVersion, last.uses \ {a}))
    BY <2>1, FieldsTell
  <2> QED
    BY <2>2 DEF Tells, Shows
<1> QED
  BY <1>1, <1>2, <1>3, PTL DEF Spec
================================================================================
