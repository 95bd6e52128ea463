----------------------------- MODULE IBQtRequests -----------------------------
(***************************************************************************)
(* The public request functions of IBQt (ibqt.cpp, lines 121 to 1400).     *)
(* Each one checks m_connected, then refuses with UPDATE_TWS the arguments *)
(* the server is too old for, then writes the fields of its message in an  *)
(* order that depends on m_serverVersion and on some of the fields, then   *)
(* sends.  No event is handled within a call, so a call is one step.       *)
(*                                                                         *)
(* A call is described by the arguments it sets to something else than    *)
(* their default.  An argument that stands for a group (secIdType and      *)
(* secId, the delta neutral groups, ...) is set when a member of the group *)
(* is; the members share their gate and their place in the message.        *)
(* A field is a pair: its name and whether the argument is set.  Fields    *)
(* no version or other field has a say in are all named "plain".           *)
(***************************************************************************)
EXTENDS Naturals, Sequences, FiniteSets, Functions, IBQtDefines

CONSTANTS
  Versions,   \* server versions, at least 38
  Inputs      \* per request, the sets of arguments set in a call

VARIABLES
  m_connected,
  m_serverVersion,
  last        \* the call made on this session, NoCall before

\* The requests, those without arguments that matter here first.
BareRequests ==
  {"cancelHistoricalData", "reqCurrentTime", "setSeverLogLevel", "cancelMktData",
   "cancelRealTimeBars", "cancelOrder", "reqAccountUpdates", "reqPositions",
   "cancelPositions", "reqOpenOrders", "reqAllOpenOrders", "reqIds",
   "cancelCalculateImpliedVolatility", "cancelCalculateOptionPrice",
   "reqMarketDataType"}

OrderArguments ==
  {"BAG", "conId", "tradingClass", "secId", "comboLeg", "legExemptCode",
   "orderComboLeg", "orderComboLegPrice", "smartComboRoutingParams", "exemptCode",
   "deltaNeutralOrderType", "deltaNeutralConId", "deltaNeutralOpenClose",
   "trailingPercent", "scaleSubsLevelSize", "scalePriceIncrement",
   "scalePriceAdjustValue", "scaleTable", "hedgeType", "hedgeParam",
   "optOutSmartRouting", "clearingAccount", "notHeld", "underComp",
   "algoStrategy", "algoParam", "orderMiscOptions"}

Requests ==
  BareRequests \cup
  {"reqHistoricalData", "reqMktData", "reqRealTimeBars", "reqContractDetails",
   "placeOrder", "excerciseOptions", "calculateImpliedVolatility",
   "calculateOptionPrice"}

\* calculateImpliedVolatility has no field for a BAG, nor for any secType.
Arguments(req) ==
  CASE req = "reqHistoricalData"  -> {"conId", "tradingClass", "BAG", "comboLeg",
                                      "chartOptions"}
    [] req = "reqMktData"         -> {"conId", "tradingClass", "BAG", "comboLeg",
                                      "underComp", "mktDataOptions"}
    [] req = "reqRealTimeBars"    -> {"conId", "tradingClass", "BAG",
                                      "realTimeBarsOptions"}
    [] req = "reqContractDetails" -> {"conId", "tradingClass", "BAG", "secId"}
    [] req = "placeOrder"         -> OrderArguments
    [] req \in {"excerciseOptions", "calculateOptionPrice"} ->
         {"conId", "tradingClass", "BAG"}
    [] req = "calculateImpliedVolatility" -> {"conId", "tradingClass"}
    [] OTHER                      -> {}

\* What belongs to a leg is set only in a call that has the leg.
WellFormed(u) ==
  /\ "legExemptCode" \in u => "comboLeg" \in u
  /\ "orderComboLegPrice" \in u => "orderComboLeg" \in u

ASSUME RequestsAssumption ==
  /\ Versions \subseteq Nat \ {0}
  /\ DOMAIN Inputs \subseteq Requests
  /\ \A req \in DOMAIN Inputs : \A u \in Inputs[req] :
       u \subseteq Arguments(req) /\ WellFormed(u)

vars == <<m_connected, m_serverVersion, last>>

-------------------------------------------------------------------------------
(* The fields of messages. *)

Plain(n) == [i \in 1..n |-> <<"plain", "default">>]

Arg(a, n, u) == [i \in 1..n |-> <<a, IF a \in u THEN "set" ELSE "default">>]

When(condition, fields) == IF condition THEN fields ELSE <<>>

\* The message id, which starts every message, and n plain fields.
Header(id, n) == <<<<id, "set">>>> \o Plain(n)

\* The contract, where n fields follow secType; conId is sent from a version.
ContractFields(conIdFrom, n, v, u) ==
  When(v >= conIdFrom, Arg("conId", 1, u))
    \o Plain(1) \o Arg("BAG", 1, u) \o Plain(n)
    \o When(v >= MinVer.TRADING_CLASS, Arg("tradingClass", 1, u))

ComboLegs(leg, u) ==
  When("BAG" \in u, Arg("comboLeg", 1, u) \o When("comboLeg" \in u, leg))

UnderComp(v, u) ==
  When(v >= MinVer.UNDER_COMP,
       Arg("underComp", 1, u) \o When("underComp" \in u, Plain(3)))

\* Mutant: the first version that takes the options is left out.
OptionsAbove(a, v, u) == When(v > MinVer.LINKING, Arg(a, 1, u))

\* The list of tags and values that every later server gets as one string.
Options(a, v, u) == When(v >= MinVer.LINKING, Arg(a, 1, u))

HistoricalData(v, u) ==
  Header("REQ_HISTORICAL_DATA", 2)
    \o ContractFields(MinVer.TRADING_CLASS, 8, v, u) \o Plain(7)
    \o ComboLegs(Plain(4), u) \o Options("chartOptions", v, u)

MktData(v, u) ==
  Header("REQ_MKT_DATA", 2)
    \o ContractFields(MinVer.REQ_MKT_DATA_CONID, 8, v, u)
    \o ComboLegs(Plain(4), u) \o UnderComp(v, u) \o Plain(2)
    \o Options("mktDataOptions", v, u)

RealTimeBars(v, u) ==
  Header("REQ_REAL_TIME_BARS", 2)
    \o ContractFields(MinVer.TRADING_CLASS, 8, v, u) \o Plain(3)
    \o Options("realTimeBarsOptions", v, u)

\* Requests for contract details carry conId whatever the version.
ContractData(v, u) ==
  Header("REQ_CONTRACT_DATA", 1)
    \o When(v >= MinVer.CONTRACT_DATA_CHAIN, Plain(1))
    \o ContractFields(0, 7, v, u) \o Plain(1)
    \o When(v >= MinVer.SEC_ID_TYPE, Arg("secId", 2, u))

ExerciseOptions(v, u) ==
  Header("EXERCISE_OPTIONS", 2)
    \o ContractFields(MinVer.TRADING_CLASS, 7, v, u) \o Plain(4)

\* This one message has no field for secType.
ImpliedVolatility(v, u) ==
  Header("REQ_CALC_IMPLIED_VOLAT", 2) \o Arg("conId", 1, u) \o Plain(9)
    \o When(v >= MinVer.TRADING_CLASS, Arg("tradingClass", 1, u)) \o Plain(2)

OptionPrice(v, u) ==
  Header("REQ_CALC_OPTION_PRICE", 2) \o ContractFields(0, 8, v, u) \o Plain(2)

-------------------------------------------------------------------------------
(* The fields of an order, in the order placeOrder writes them.  The two   *)
(* prices are sent at every version, unset ones as 0 to an older server.  *)

OrderContract(v, u) ==
  ContractFields(MinVer.PLACE_ORDER_CONID, 8, v, u)
    \o When(v >= MinVer.SEC_ID_TYPE, Arg("secId", 2, u))

\* From the action to the hidden flag.
OrderMain == Plain(19)

OrderComboLegs(v, u) ==
  ComboLegs(Plain(7) \o When(v >= MinVer.SSHORTX_OLD, Arg("legExemptCode", 1, u)), u)
    \o When(v >= MinVer.ORDER_COMBO_LEGS_PRICE /\ "BAG" \in u,
            Arg("orderComboLeg", 1, u)
              \o When("orderComboLeg" \in u, Arg("orderComboLegPrice", 1, u)))
    \o When(v >= MinVer.SMART_COMBO_ROUTING_PARAMS /\ "BAG" \in u,
            Arg("smartComboRoutingParams", 1, u)
              \o When("smartComboRoutingParams" \in u, Plain(2)))

\* From the shares allocation to the type of the volatility.
OrderExtended(v, u) ==
  Plain(10) \o When(v >= MinVer.SSHORTX_OLD, Arg("exemptCode", 1, u)) \o Plain(18)

OrderDeltaNeutral(v, u) ==
  LET set == "deltaNeutralOrderType" \in u
  IN  Arg("deltaNeutralOrderType", 1, u) \o Plain(1)
        \o When(v >= MinVer.DELTA_NEUTRAL_CONID /\ set, Arg("deltaNeutralConId", 4, u))
        \o When(v >= MinVer.DELTA_NEUTRAL_OPEN_CLOSE /\ set,
                Arg("deltaNeutralOpenClose", 4, u))
        \o Plain(3)
        \o When(v >= MinVer.TRAILING_PERCENT, Arg("trailingPercent", 1, u))

\* Before SCALE_ORDERS2 the literal "" converts to bool: the field reads "1".
OrderScale(v, u) ==
  (IF v >= MinVer.SCALE_ORDERS2
   THEN Plain(1) \o Arg("scaleSubsLevelSize", 1, u)
   ELSE <<<<"scaleNumComponents", "set">>>> \o Plain(1))
    \o Arg("scalePriceIncrement", 1, u)
    \o When(v >= MinVer.SCALE_ORDERS3 /\ "scalePriceIncrement" \in u,
            Arg("scalePriceAdjustValue", 7, u))
    \o When(v >= MinVer.SCALE_TABLE, Arg("scaleTable", 3, u))

\* Mutant: the parameter of the hedge is sent when it is set itself.
OrderHedgeByParam(v, u) ==
  When(v >= MinVer.HEDGE_ORDERS,
       Arg("hedgeType", 1, u) \o When("hedgeParam" \in u, Arg("hedgeParam", 1, u)))

OrderHedge(v, u) ==
  When(v >= MinVer.HEDGE_ORDERS,
       Arg("hedgeType", 1, u) \o When("hedgeType" \in u, Arg("hedgeParam", 1, u)))

OrderAlgo(v, u) ==
  When(v >= MinVer.ALGO_ORDERS,
       Arg("algoStrategy", 1, u)
         \o When("algoStrategy" \in u,
                 Arg("algoParam", 1, u) \o When("algoParam" \in u, Plain(2))))

OrderTail(v, u) ==
  OrderAlgo(v, u) \o Plain(1) \o Options("orderMiscOptions", v, u)

OrderRouting(v, u) ==
  When(v >= MinVer.OPT_OUT_SMART_ROUTING, Arg("optOutSmartRouting", 1, u))
    \o When(v >= MinVer.PTA_ORDERS, Arg("clearingAccount", 2, u))
    \o When(v >= MinVer.NOT_HELD, Arg("notHeld", 1, u))

PlaceOrder(v, u) ==
  Header("PLACE_ORDER", 2) \o OrderContract(v, u) \o OrderMain
    \o OrderComboLegs(v, u) \o OrderExtended(v, u) \o OrderDeltaNeutral(v, u)
    \o OrderScale(v, u) \o OrderHedge(v, u) \o OrderRouting(v, u)
    \o UnderComp(v, u) \o OrderTail(v, u)
-------------------------------------------------------------------------------
(* Every request: its fields, the version each argument is checked against, *)
(* and the version the request itself is checked against.                   *)

LogRequests ==
  [ cancelHistoricalData |-> Header("CANCEL_HISTORICAL_DATA", 2),
    reqCurrentTime       |-> Header("REQ_CURRENT_TIME", 1),
    setSeverLogLevel     |-> Header("SET_SERVER_LOGLEVEL", 2) ]

AccountRequests ==
  [ cancelOrder       |-> Header("CANCEL_ORDER", 2),
    reqAccountUpdates |-> Header("REQ_ACCT_DATA", 3),
    reqPositions      |-> Header("REQ_POSITIONS", 1),
    cancelPositions   |-> Header("CANCEL_POSITIONS", 1),
    reqOpenOrders     |-> Header("REQ_OPEN_ORDERS", 1),
    reqAllOpenOrders  |-> Header("REQ_ALL_OPEN_ORDERS", 1) ]

CalculationRequests ==
  [ cancelCalculateImpliedVolatility |-> Header("CANCEL_CALC_IMPLIED_VOLAT", 2),
    cancelCalculateOptionPrice       |-> Header("CANCEL_CALC_OPTION_PRICE", 2),
    reqMarketDataType                |-> Header("REQ_MARKET_DATA_TYPE", 2) ]

Fields(req, v, u) ==
  CASE req \in DOMAIN LogRequests         -> LogRequests[req]
    [] req \in DOMAIN AccountRequests     -> AccountRequests[req]
    [] req \in DOMAIN CalculationRequests -> CalculationRequests[req]
    [] req = "reqHistoricalData"          -> HistoricalData(v, u)
    [] req = "reqMktData"                 -> MktData(v, u)
    [] req = "cancelMktData"              -> Header("CANCEL_MKT_DATA", 2)
    [] req = "reqRealTimeBars"            -> RealTimeBars(v, u)
    [] req = "cancelRealTimeBars"         -> Header("CANCEL_REAL_TIME_BARS", 2)
    [] req = "placeOrder"                 -> PlaceOrder(v, u)
    [] req = "reqContractDetails"         -> ContractData(v, u)
    [] req = "reqIds"                     -> Header("REQ_IDS", 2)
    [] req = "excerciseOptions"           -> ExerciseOptions(v, u)
    [] req = "calculateImpliedVolatility" -> ImpliedVolatility(v, u)
    [] req = "calculateOptionPrice"       -> OptionPrice(v, u)

PlaceOrderGates ==
  [ underComp |-> MinVer.UNDER_COMP, scaleSubsLevelSize |-> MinVer.SCALE_ORDERS2,
    algoStrategy |-> MinVer.ALGO_ORDERS, notHeld |-> MinVer.NOT_HELD,
    secId |-> MinVer.SEC_ID_TYPE, conId |-> MinVer.PLACE_ORDER_CONID,
    exemptCode |-> MinVer.SSHORTX, legExemptCode |-> MinVer.SSHORTX,
    hedgeType |-> MinVer.HEDGE_ORDERS,
    optOutSmartRouting |-> MinVer.OPT_OUT_SMART_ROUTING,
    deltaNeutralConId |-> MinVer.DELTA_NEUTRAL_CONID,
    deltaNeutralOpenClose |-> MinVer.DELTA_NEUTRAL_OPEN_CLOSE,
    scalePriceAdjustValue |-> MinVer.SCALE_ORDERS3,
    orderComboLegPrice |-> MinVer.ORDER_COMBO_LEGS_PRICE,
    trailingPercent |-> MinVer.TRAILING_PERCENT,
    tradingClass |-> MinVer.TRADING_CLASS, scaleTable |-> MinVer.SCALE_TABLE ]

MktDataGates ==
  [ underComp |-> MinVer.UNDER_COMP, conId |-> MinVer.REQ_MKT_DATA_CONID,
    tradingClass |-> MinVer.TRADING_CLASS ]

ContractDataGates ==
  [ secId |-> MinVer.SEC_ID_TYPE, tradingClass |-> MinVer.TRADING_CLASS ]

BothGates == [ conId |-> MinVer.TRADING_CLASS, tradingClass |-> MinVer.TRADING_CLASS ]

ClassGate == [ tradingClass |-> MinVer.TRADING_CLASS ]

ArgGates(req) ==
  CASE req \in {"reqHistoricalData", "reqRealTimeBars"}       -> BothGates
    [] req = "reqMktData"                                     -> MktDataGates
    [] req = "placeOrder"                                     -> PlaceOrderGates
    [] req = "reqContractDetails"                             -> ContractDataGates
    [] req \in {"excerciseOptions", "calculateOptionPrice"}   -> ClassGate
    [] OTHER                                                  -> <<>>

RequestGate(req) ==
  CASE req \in {"reqPositions", "cancelPositions"}   -> MinVer.POSITIONS
    [] req = "cancelCalculateImpliedVolatility"      -> MinVer.CANCEL_CALC_IMPLIED_VOLAT
    [] req = "calculateOptionPrice"                  -> MinVer.REQ_CALC_OPTION_PRICE
    [] req \in {"cancelCalculateOptionPrice", "reqMarketDataType"} ->
         MinVer.CANCEL_CALC_OPTION_PRICE
    [] OTHER                                         -> 0

\* Two gates look at an argument only when another is set.
Checked(u) ==
  {a \in u : /\ a = "scalePriceAdjustValue" => "scalePriceIncrement" \in u
            /\ a = "orderComboLegPrice" => "BAG" \in u}

\* Mutants: the first version without an argument is let through, and the
\* first version with it is refused.
RefusesOneLess(req, v, u) ==
  \/ v < RequestGate(req)
  \/ \E a \in Checked(u) \cap DOMAIN ArgGates(req) : v + 1 < ArgGates(req)[a]

RefusesOneMore(req, v, u) ==
  \/ v < RequestGate(req)
  \/ \E a \in Checked(u) \cap DOMAIN ArgGates(req) : v <= ArgGates(req)[a]

Refuses(req, v, u) ==
  \/ v < RequestGate(req)
  \/ \E a \in Checked(u) \cap DOMAIN ArgGates(req) : v < ArgGates(req)[a]

-------------------------------------------------------------------------------
(* The session, as far as requests see it, and a call. *)

NoCall == [req |-> "none"]

Init == m_connected = FALSE /\ m_serverVersion = 0 /\ last = NoCall

Greeting ==
  /\ ~m_connected
  /\ m_serverVersion' \in Versions
  /\ m_connected' = TRUE
  /\ last' = NoCall

\* Mutant: the version is cleared to -1.
DisconnectTWSBadVersion ==
  /\ m_connected' = FALSE
  /\ m_serverVersion' = 0 - 1
  /\ last' = NoCall

DisconnectTWS ==
  /\ m_connected' = FALSE
  /\ m_serverVersion' = 0
  /\ last' = NoCall

Outcome(req, u) ==
  IF ~m_connected THEN "NOT_CONNECTED"
  ELSE IF Refuses(req, m_serverVersion, u) THEN "UPDATE_TWS" ELSE "sent"

\* One call is kept: a call changes nothing the next one reads.
Request(req, u) ==
  /\ last = NoCall
  /\ last' = [req |-> req, uses |-> u, outcome |-> Outcome(req, u),
              fields |-> IF Outcome(req, u) = "sent"
                         THEN Fields(req, m_serverVersion, u) ELSE <<>>]
  /\ UNCHANGED <<m_connected, m_serverVersion>>

Next ==
  \/ Greeting \/ DisconnectTWS
  \/ \E req \in DOMAIN Inputs : \E u \in Inputs[req] : Request(req, u)

Spec == Init /\ [][Next]_vars
-------------------------------------------------------------------------------
(* Properties. *)

Accepted == last # NoCall /\ last.outcome = "sent"

\* The variables have their types, and a session that is up has a version.
TypeOK ==
  /\ m_connected \in BOOLEAN
  /\ m_serverVersion \in Versions \cup {0}
  /\ m_connected => m_serverVersion # 0
  /\ last # NoCall =>
       /\ last.req \in DOMAIN Inputs /\ last.uses \in Inputs[last.req]
       /\ last.outcome \in {"sent", "NOT_CONNECTED", "UPDATE_TWS"}
       /\ Accepted <=> last.fields # <<>>

\* The argument whose presence gives meaning to another one.
Depends ==
  [ comboLeg |-> "BAG", legExemptCode |-> "BAG", orderComboLeg |-> "BAG",
    orderComboLegPrice |-> "BAG", smartComboRoutingParams |-> "BAG",
    deltaNeutralConId |-> "deltaNeutralOrderType",
    deltaNeutralOpenClose |-> "deltaNeutralOrderType",
    scalePriceAdjustValue |-> "scalePriceIncrement",
    hedgeParam |-> "hedgeType", algoParam |-> "algoStrategy" ]

Meaningful(u) == {a \in u : a \in DOMAIN Depends => Depends[a] \in u}

Carries(fields, a) == <<a, "set">> \in Range(fields)

\* An argument that a request checks against the version of the server is
\* either refused or travels with the message: the version in the check and
\* the version and the conditions in the encoding, hundreds of lines apart
\* in placeOrder, never leave a gap through which an accepted order loses it.
CheckedArgumentsTravel ==
  Accepted =>
    \A a \in Meaningful(last.uses) \cap DOMAIN ArgGates(last.req) :
      Carries(last.fields, a)

\* On a server at least as new as the last version the encodings know
\* (MIN_SERVER_VER_LINKING), no argument of an accepted call is lost, the
\* ones no check guards included.
CurrentServersLoseNothing ==
  Accepted /\ m_serverVersion >= MinVer.LINKING =>
    \A a \in Meaningful(last.uses) : Carries(last.fields, a)

\* A call is refused only when the message could not have carried what it
\* asks for.  The one exception is the version between SSHORTX_OLD, from
\* which exempt codes are encoded, and SSHORTX, from which they are accepted.
RefusedForCause ==
  last # NoCall /\ last.outcome = "UPDATE_TWS" =>
    \/ m_serverVersion < RequestGate(last.req)
    \/ /\ m_serverVersion = MinVer.SSHORTX_OLD
       /\ last.uses \cap {"exemptCode", "legExemptCode"} # {}
    \/ \E a \in last.uses :
         ~Carries(Fields(last.req, m_serverVersion, last.uses), a)

\* TWS reads a message field by field, with nothing to tell it where the
\* message ends.  Setting one argument may change which field comes next only
\* after a field in which the argument shows: the first field in which two
\* messages that differ in one argument differ is the same field of both.
ShowsBeforeItShifts ==
  Accepted =>
    \A a \in last.uses : (last.uses \ {a}) \in Inputs[last.req] =>
      LET one == last.fields
          two == Fields(last.req, m_serverVersion, last.uses \ {a})
      IN  \/ one = two
          \/ \E d \in DOMAIN one \cap DOMAIN two :
               /\ one[d] # two[d] /\ one[d][1] = two[d][1]
               /\ \A i \in 1..(d - 1) : one[i] = two[i]

\* The version from which a server knows a request, by the constants that
\* ibdefines.h names after the requests.
KnownFrom ==
  [ calculateImpliedVolatility       |-> MinVer.REQ_CALC_IMPLIED_VOLAT,
    calculateOptionPrice             |-> MinVer.REQ_CALC_OPTION_PRICE,
    cancelCalculateImpliedVolatility |-> MinVer.CANCEL_CALC_IMPLIED_VOLAT,
    cancelCalculateOptionPrice       |-> MinVer.CANCEL_CALC_OPTION_PRICE,
    reqMarketDataType                |-> MinVer.REQ_MARKET_DATA_TYPE,
    reqPositions                     |-> MinVer.POSITIONS,
    cancelPositions                  |-> MinVer.POSITIONS ]

\* A request is not sent to a server that is older than the version the
\* constants say it needs; the error of reqMarketDataType calls such a server
\* one that does not support market data type requests.  Nor is a conId given
\* to excerciseOptions sent to a server below TRADING_CLASS, of which the
\* error there says that it does not support conId.
KnownToServer ==
  Accepted =>
    /\ last.req \in DOMAIN KnownFrom => m_serverVersion >= KnownFrom[last.req]
    /\ last.req = "excerciseOptions" /\ "conId" \in last.uses =>
         m_serverVersion >= MinVer.TRADING_CLASS

\* The comment in placeOrder calls scaleNumComponents not supported: below
\* SCALE_ORDERS2 its field carries no value.
NumComponentsIsEmpty == Accepted => ~Carries(last.fields, "scaleNumComponents")
================================================================================
