------------------------------ MODULE IBQtOrders ------------------------------
(***************************************************************************)
(* Orders and their ids: getOrderId and setOrderId (ibqt.cpp, line 89, and *)
(* ibqt.h, line 52), placeOrder and the conversions of encodeField, the    *)
(* OPEN_ORDER and NEXT_VALID_ID messages (1700 to 1991, 2074 to 2084) and  *)
(* the conversions of decodeField.  The application places orders, is told *)
(* of the orders TWS holds, and places what it was told again, which is    *)
(* how an order is modified.                                               *)
(*                                                                         *)
(* An order stands for the Order and the Contract of a placeOrder call: a  *)
(* function from fields to values.  A QByteArray is a text, <<>> or one    *)
(* token; all else is a number, a double in units small enough to have no  *)
(* fraction.  Lists have no or one element, in fields next to their count. *)
(* A message is a function too, from the names of its fields to texts; how *)
(* a message is cut out of the stream is in IBQtReader.                    *)
(***************************************************************************)
EXTENDS Integers, Sequences, FiniteSets, Functions, TLC, IBQtInbound

CONSTANTS
  IntMax,     \* INT_MAX
  Digits,     \* significant digits of QByteArray::number(double)
  Loads       \* the server, the order that is placed, how the application
              \* keeps its ids, and the bounds: how many placeOrders, reqIds
              \* and reqOpenOrders, and lost connections

\* UNSET_INTEGER is INT_MAX; UNSET_DOUBLE, DBL_MAX, is the same value here.
UNSET == IntMax

BAG   == <<FirstWord>>
O     == <<FirstWord + 1>>     \* "O", to open a position

ASSUME OrdersAssumption ==
  /\ IntMax \in Nat /\ Digits \in Nat \ {0}
  /\ FirstWord \in Nat /\ FirstWord > MinVer.LINKING
  /\ \A l \in Loads :
       /\ l.server \in Nat /\ l.server >= 38 /\ l.raises \in BOOLEAN
       /\ {l.placements, l.questions, l.downs} \subseteq Nat
       /\ l.placements <= IntMax

--------------------------------------------------------------------------------
(* The fields that placeOrder writes after the id, for a server version.   *)

PlaceContract(sv) ==
  When(sv >= MinVer.PLACE_ORDER_CONID, <<"conId">>)
    \o <<"symbol", "secType", "expiry", "strike", "right", "multiplier",
         "exchange", "primaryExchange", "currency", "localSymbol">>
    \o When(sv >= MinVer.TRADING_CLASS, <<"tradingClass">>)
    \o When(sv >= MinVer.SEC_ID_TYPE, <<"secIdType", "secId">>)

PlaceMain ==
  <<"action", "totalQuantity", "orderType", "lmtPrice", "auxPrice", "tif",
    "ocaGroup", "account", "openClose", "origin", "orderRef", "transmit",
    "parentId", "blockOrder", "sweepToFill", "displaySize", "triggerMethod",
    "outsideRth", "hidden">>

PlaceCombo(sv, o) ==
  <<"comboLegsCount">>
    \o When(o["comboLegsCount"] > 0,
            SubSeq(ComboLegFields, 1, 7)
              \o When(sv >= MinVer.SSHORTX_OLD, <<"comboLeg.exemptCode">>))
    \o When(sv >= MinVer.ORDER_COMBO_LEGS_PRICE,
            <<"orderComboLegsCount">>
              \o When(o["orderComboLegsCount"] > 0, <<"orderComboLeg.price">>))
    \o When(sv >= MinVer.SMART_COMBO_ROUTING_PARAMS,
            <<"smartComboRoutingParamsCount">>
              \o When(o["smartComboRoutingParamsCount"] > 0,
                      <<"smartComboRoutingParam.tag", "smartComboRoutingParam.value">>))

PlaceExtended(sv) ==
  <<"sharesAllocation", "discretionaryAmt", "goodAfterTime", "goodTillDate",
    "faGroup", "faMethod", "faPercentage", "faProfile", "shortSaleSlot",
    "designatedLocation">>
    \o When(sv >= MinVer.SSHORTX_OLD, <<"exemptCode">>)
    \o <<"ocaType", "rule80A", "settlingFirm", "allOrNone", "minQty",
         "percentOffset", "eTradeOnly", "firmQuoteOnly", "nbboPriceCap",
         "auctionStrategy", "startingPrice", "stockRefPrice", "delta",
         "stockRangeLower", "stockRangeUpper", "overridePercentageConstraints",
         "volatility", "volatilityType", "deltaNeutralOrderType",
         "deltaNeutralAuxPrice">>

PlaceDeltaNeutral(sv, o) ==
  LET set == o["deltaNeutralOrderType"] # <<>>
  IN  When(sv >= MinVer.DELTA_NEUTRAL_CONID /\ set,
           <<"deltaNeutralConId", "deltaNeutralSettlingFirm",
             "deltaNeutralClearingAccount", "deltaNeutralClearingIntent">>)
        \o When(sv >= MinVer.DELTA_NEUTRAL_OPEN_CLOSE /\ set,
                <<"deltaNeutralOpenClose", "deltaNeutralShortSale",
                  "deltaNeutralShortSaleSlot", "deltaNeutralDesignatedLocation">>)
        \o <<"continuousUpdate", "referencePriceType", "trailStopPrice">>
        \o When(sv >= MinVer.TRAILING_PERCENT, <<"trailingPercent">>)

HasScale(o) == o["scalePriceIncrement"] > 0 /\ o["scalePriceIncrement"] # UNSET

PlaceScale(sv, o) ==
  (IF sv >= MinVer.SCALE_ORDERS2 THEN <<"scaleInitLevelSize", "scaleSubsLevelSize">>
                                 ELSE <<"scaleNumComponents", "scaleInitLevelSize">>)
    \o <<"scalePriceIncrement">>
    \o When(sv >= MinVer.SCALE_ORDERS3 /\ HasScale(o),
            <<"scalePriceAdjustValue", "scalePriceAdjustInterval",
              "scaleProfitOffset", "scaleAutoReset", "scaleInitPosition",
              "scaleInitFillQty", "scaleRandomPercent">>)
    \o When(sv >= MinVer.SCALE_TABLE,
            <<"scaleTable", "activeStartTime", "activeStopTime">>)

PlaceRouting(sv, o) ==
  When(sv >= MinVer.HEDGE_ORDERS,
       <<"hedgeType">> \o When(o["hedgeType"] # <<>>, <<"hedgeParam">>))
    \o When(sv >= MinVer.OPT_OUT_SMART_ROUTING, <<"optOutSmartRouting">>)
    \o When(sv >= MinVer.PTA_ORDERS, <<"clearingAccount", "clearingIntent">>)
    \o When(sv >= MinVer.NOT_HELD, <<"notHeld">>)
    \o When(sv >= MinVer.UNDER_COMP,
            <<"underCompPresent">>
              \o When(o["underCompPresent"] # 0,
                      <<"underComp.conId", "underComp.delta", "underComp.price">>))

PlaceAlgo(sv, o) ==
  When(sv >= MinVer.ALGO_ORDERS,
       <<"algoStrategy">>
         \o When(o["algoStrategy"] # <<>>,
                 <<"algoParamsCount">>
                   \o When(o["algoParamsCount"] > 0,
                           <<"algoParam.tag", "algoParam.value">>)))
    \o <<"whatIf">> \o When(sv >= MinVer.LINKING, <<"orderMiscOptions">>)

PlaceFields(sv, o) ==
  PlaceContract(sv) \o PlaceMain \o When(o["secType"] = BAG, PlaceCombo(sv, o))
    \o PlaceExtended(sv) \o PlaceDeltaNeutral(sv, o) \o PlaceScale(sv, o)
    \o PlaceRouting(sv, o) \o PlaceAlgo(sv, o)

--------------------------------------------------------------------------------
(* The fields of an order and the values its constructors give them.       *)

Texts ==
  {"symbol", "secType", "expiry", "right", "multiplier", "exchange",
   "primaryExchange", "currency", "localSymbol", "tradingClass", "secIdType",
   "secId", "action", "orderType", "tif", "ocaGroup", "account", "openClose",
   "orderRef", "comboLeg.action", "comboLeg.exchange",
   "comboLeg.designatedLocation", "smartComboRoutingParam.tag",
   "smartComboRoutingParam.value", "sharesAllocation", "goodAfterTime",
   "goodTillDate", "faGroup", "faMethod", "faPercentage", "faProfile",
   "designatedLocation", "rule80A", "settlingFirm", "deltaNeutralOrderType",
   "deltaNeutralSettlingFirm", "deltaNeutralClearingAccount",
   "deltaNeutralClearingIntent", "deltaNeutralOpenClose",
   "deltaNeutralDesignatedLocation", "scaleTable", "activeStartTime",
   "activeStopTime", "hedgeType", "hedgeParam", "clearingAccount",
   "clearingIntent", "algoStrategy", "algoParam.tag", "algoParam.value",
   "orderMiscOptions"}

Longs ==
  {"conId", "totalQuantity", "parentId", "deltaNeutralConId", "comboLeg.conId",
   "comboLeg.ratio", "comboLeg.openClose", "comboLeg.shortSaleSlot",
   "underComp.conId"}

Doubles ==
  {"strike", "lmtPrice", "auxPrice", "discretionaryAmt", "percentOffset",
   "nbboPriceCap", "startingPrice", "stockRefPrice", "delta",
   "stockRangeLower", "stockRangeUpper", "volatility", "deltaNeutralAuxPrice",
   "trailStopPrice", "trailingPercent", "scalePriceIncrement",
   "scalePriceAdjustValue", "scaleProfitOffset", "orderComboLeg.price",
   "underComp.delta", "underComp.price"}

\* Written with encodeFieldMax; the two prices only for newer servers.
MaxWritten ==
  {"lmtPrice", "auxPrice", "minQty", "percentOffset", "nbboPriceCap",
   "startingPrice", "stockRefPrice", "delta", "stockRangeLower",
   "stockRangeUpper", "volatility", "volatilityType", "deltaNeutralAuxPrice",
   "referencePriceType", "trailStopPrice", "trailingPercent",
   "scaleInitLevelSize", "scaleSubsLevelSize", "scalePriceIncrement",
   "scalePriceAdjustValue", "scalePriceAdjustInterval", "scaleProfitOffset",
   "scaleInitPosition", "scaleInitFillQty", "orderComboLeg.price"}

\* Mutant: one more field is read with decodeField.
MaxReadButOne ==
  MaxWritten \ {"volatilityType", "referencePriceType", "trailStopPrice"}

\* Read with decodeFieldMax; the two prices only from newer versions.
MaxRead == MaxWritten \ {"volatilityType", "referencePriceType"}

\* scaleNumComponents is no member: its field always reads 1.
Default(name) ==
  CASE name = "openClose"                                  -> O
    [] name \in Texts \ {"openClose"}                      -> <<>>
    [] name \in MaxWritten                                 -> UNSET
    [] name \in {"transmit", "eTradeOnly", "firmQuoteOnly",
                 "scaleNumComponents"}                     -> 1
    [] name \in {"exemptCode", "comboLeg.exemptCode"}      -> -1
    [] OTHER                                               -> 0

\* An order with every field that opens a group, to name all that is written.
Opened ==
  LET texts   == {"secType", "hedgeType", "algoStrategy", "deltaNeutralOrderType"}
      numbers == {"comboLegsCount", "orderComboLegsCount", "algoParamsCount",
                  "smartComboRoutingParamsCount", "underCompPresent",
                  "scalePriceIncrement"}
  IN  [name \in texts \cup numbers |-> IF name \in texts THEN BAG ELSE 1]

Names == Range(PlaceFields(38, Opened)) \cup Range(PlaceFields(MinVer.LINKING, Opened))

DefaultOrder == [name \in Names |-> Default(name)]

--------------------------------------------------------------------------------
(* Conversions.                                                            *)

\* Mutant: the type in between has one bit less.
NarrowShort(n) == ((n + (IntMax + 1) \div 2) % (IntMax + 1)) - (IntMax + 1) \div 2

\* (int) of a long.
Narrow(n) == ((n + IntMax + 1) % (2 * (IntMax + 1))) - (IntMax + 1)

Pow10[n \in Nat] == IF n = 0 THEN 1 ELSE 10 * Pow10[n - 1]

\* Numbers below it are written with all their digits.
Limit == Pow10[Digits]

\* How many digits of n are more than are written.
Cut(n) ==
  CHOOSE e \in 0..(n \div Limit) :
    /\ n < Limit * Pow10[e]
    /\ e > 0 => n >= Limit * Pow10[e - 1]

\* Nearest number with so many significant digits; a tie goes away from zero here.
Near(n) ==
  LET unit == Pow10[Cut(n)]
  IN  unit * ((2 * n + unit) \div (2 * unit))
Round(x) == IF x < 0 THEN -Near(-x) ELSE Near(x)

\* encodeField and encodeFieldMax.
Write(name, value) ==
  IF name \in MaxWritten /\ value = UNSET THEN <<>>
  ELSE CASE name \in Texts   -> value
         [] name \in Longs   -> <<Narrow(value)>>
         [] name \in Doubles -> <<Round(value)>>
         [] OTHER            -> <<value>>

\* Older servers are sent 0 for a price that is not set.
UnsetAsZero(sv) ==
  When(sv < MinVer.ORDER_COMBO_LEGS_PRICE, <<"lmtPrice">>)
    \o When(sv < MinVer.TRAILING_PERCENT, <<"auxPrice">>)

Encode(sv, o) ==
  [name \in Range(PlaceFields(sv, o)) |->
     IF name \in Range(UnsetAsZero(sv)) /\ o[name] = UNSET THEN <<0>>
                                                           ELSE Write(name, o[name])]

\* decodeField and decodeFieldMax.
ReadPlain(text) == IF text = <<>> THEN 0 ELSE text[1]
Read(name, text, version) ==
  CASE name \in Texts -> text
    [] /\ name \in MaxRead /\ text = <<>>
       /\ name = "lmtPrice" => version >= 29
       /\ name = "auxPrice" => version >= 30 -> UNSET
    [] OTHER -> ReadPlain(text)

\* The Order and the Contract that OPEN_ORDER emits.
Decode(texts) ==
  [name \in Names |->
     IF name \in DOMAIN texts THEN Read(name, texts[name], ToInt(texts["version"]))
                              ELSE Default(name)]

\* Lists have no or one element.
Counts == {"comboLegsCount", "orderComboLegsCount", "algoParamsCount",
           "smartComboRoutingParamsCount"}

\* The values of an order: texts and numbers, of which the one that decides what
\* follows is written as a number.
IsOrder(o) ==
  /\ Names \subseteq DOMAIN o
  /\ \A name \in Names : o[name] \in IF name \in Texts THEN Text ELSE Int
  /\ \A name \in Counts \cup {"underCompPresent"} : o[name] \in {0, 1}
  /\ HasScale(o) => Round(o["scalePriceIncrement"]) < FirstWord

ASSUME ValuesAssumption ==
  /\ \A l \in Loads : IsOrder(l.order)
  /\ Round(UNSET) # UNSET    \* DBL_MAX has more digits than are written

--------------------------------------------------------------------------------
(* TWS.                                                                    *)

\* The version of OPEN_ORDER that a server sends: each version adds to it what
\* placeOrder sends from a server version.
OpenVersion(sv) ==
  19 + Cardinality({v \in {40, 41, 44, 52, 54, 56, 57, 58, 60, 61, 62, 66, 68} : v <= sv})

\* TWS gives back the texts that it was sent, and no text for fields that it
\* was not; the fields that it has of its own make no difference here.
OpenTexts(sv, texts) ==
  LET known == [name \in DOMAIN texts \cup {"version"} |->
                  IF name = "version" THEN <<OpenVersion(sv)>> ELSE texts[name]]
  IN  [name \in Range(OpenOrder(sv, known)) |->
         IF name \in DOMAIN known THEN known[name] ELSE <<>>]

--------------------------------------------------------------------------------
VARIABLES
  load,             \* one of the Loads, for good
  m_orderId,
  m_serverVersion,  \* 0 on an object that is not connected
  toTws, toClient,  \* messages in flight
  book,             \* orders that TWS holds: the texts of each, by id
  held,             \* what the last openOrder signal gave the application
  slot,             \* the slot of that signal is running
  placements, questions, downs

object == <<m_orderId, m_serverVersion>>
bounds == <<placements, questions, downs>>
vars   == <<load, object, toTws, toClient, book, held, slot, bounds>>

Nothing == [id |-> -1]

\* The id after all those that TWS has seen.
NextId == 1 + (CHOOSE n \in DOMAIN book \cup {0} : \A i \in DOMAIN book : i <= n)

Init ==
  /\ load \in Loads
  /\ m_orderId = 0 /\ m_serverVersion = 0
  /\ toTws = <<>> /\ toClient = <<>>
  /\ book = <<>>
  /\ held = Nothing /\ slot = FALSE
  /\ placements = 0 /\ questions = 0 /\ downs = 0

Up == m_serverVersion # 0

\* The greeting; TWS answers an identification with the next id, once it has
\* done with the connection before.
Connect ==
  /\ ~Up
  /\ toTws = <<>>
  /\ m_serverVersion' = load.server
  /\ toClient' = <<[kind |-> "nextValidId", id |-> NextId]>>
  /\ UNCHANGED <<load, m_orderId, toTws, book, held, slot, bounds>>

\* A connection ends: TWS reads n more of the messages in flight.
Lose(n) ==
  /\ downs < load.downs
  /\ downs' = downs + 1
  /\ m_serverVersion' = 0
  /\ toTws' = SubSeq(toTws, 1, n)
  /\ toClient' = <<>>
  /\ UNCHANGED <<load, book, placements, questions>>

\* disconnectTWS leaves m_orderId alone.
DisconnectTWS(n) ==
  /\ Up
  /\ Lose(n)
  /\ UNCHANGED <<m_orderId, held, slot>>

\* The application ends and is started again, with a new IBQt object.
Restart(n) ==
  /\ Lose(n)
  /\ m_orderId' = 0
  /\ held' = Nothing /\ slot' = FALSE

SendToTws(frame) == toTws' = Append(toTws, frame)

Ask(kind) ==
  /\ Up
  /\ questions < load.questions
  /\ questions' = questions + 1
  /\ SendToTws([kind |-> kind])
  /\ UNCHANGED <<load, object, toClient, book, held, slot, placements, downs>>

ReqIds        == Ask("reqIds")
ReqOpenOrders == Ask("reqOpenOrders")

PlaceOrder(id, order, answer, new) ==
  /\ Up
  /\ placements < load.placements
  /\ placements' = placements + 1
  /\ SendToTws([kind |-> "placeOrder", id |-> Narrow(id),
                texts |-> Encode(m_serverVersion, order),
                order |-> order, answer |-> answer, new |-> new, inSlot |-> slot])
  /\ UNCHANGED <<load, m_serverVersion, toClient, book, held, slot, questions, downs>>

\* Mutant: the counter goes down.
GetOrderIdDown == m_orderId' = m_orderId - 1

\* Mutant: the counter stays where it is.
GetOrderIdAgain == UNCHANGED m_orderId

GetOrderId == m_orderId' = m_orderId + 1

\* The code leaves it to the application when getOrderId may be trusted.  One
\* kind of application takes an id for a new order only when it has been told
\* the ids it asked for, the first one included, and sets the counter to each.
\* The other only ever raises the counter, so that a late answer does no harm,
\* and takes ids once a first answer has set it.
Asked ==
  \/ \E i \in DOMAIN toTws : toTws[i].kind = "reqIds"
  \/ \E i \in DOMAIN toClient : toClient[i].kind = "nextValidId"

MayTakeId == IF load.raises THEN m_orderId # 0 ELSE ~Asked

SetOrderId(id) == m_orderId' = IF load.raises /\ id < m_orderId THEN m_orderId ELSE id

PlaceNew ==
  /\ MayTakeId
  /\ GetOrderId
  /\ PlaceOrder(m_orderId, load.order, <<>>, TRUE)

\* The contract points to an UnderComp on the stack of onReadyRead: after the
\* slot its fields are whatever is there.
Garbage(order) ==
  IF slot \/ order["underCompPresent"] = 0 THEN {order}
  ELSE {order, [order EXCEPT !["underComp.conId"] = 77, !["underComp.delta"] = 77,
                             !["underComp.price"] = 77]}

\* The order that was received is placed again.
Modify ==
  /\ held # Nothing
  /\ \E order \in Garbage(held.order) :
       PlaceOrder(held.id, order, held.texts, FALSE)
  /\ UNCHANGED m_orderId

\* The slot of nextValidId calls setOrderId.
NextValidId ==
  /\ ~slot
  /\ toClient # <<>> /\ Head(toClient).kind = "nextValidId"
  /\ SetOrderId(Head(toClient).id)
  /\ toClient' = Tail(toClient)
  /\ UNCHANGED <<load, m_serverVersion, toTws, book, held, slot, bounds>>

OpenOrderSignal ==
  /\ ~slot
  /\ toClient # <<>> /\ Head(toClient).kind = "openOrder"
  /\ LET frame == Head(toClient)
     IN  held' = [id |-> frame.id, order |-> Decode(frame.texts),
                  texts |-> frame.texts, placed |-> frame.placed]
  /\ slot' = TRUE
  /\ toClient' = Tail(toClient)
  /\ UNCHANGED <<load, object, toTws, book, bounds>>

SlotReturns ==
  /\ slot
  /\ slot' = FALSE
  /\ UNCHANGED <<load, object, toTws, toClient, book, held, bounds>>

--------------------------------------------------------------------------------
(* What TWS does with the next message.                                    *)

SendToClient(frame) ==
  toClient' = IF Up THEN Append(toClient, frame) ELSE toClient

OpenFrame(id, entry) ==
  [kind |-> "openOrder", id |-> id, texts |-> OpenTexts(load.server, entry.texts),
   placed |-> entry.order]

TwsTakesOrder ==
  /\ Head(toTws).kind = "placeOrder"
  /\ book' = [id \in DOMAIN book \cup {Head(toTws).id} |->
                IF id = Head(toTws).id
                THEN [texts |-> Head(toTws).texts, order |-> Head(toTws).order]
                ELSE book[id]]
  /\ SendToClient(OpenFrame(Head(toTws).id, book'[Head(toTws).id]))

TwsGivesId ==
  /\ Head(toTws).kind = "reqIds"
  /\ SendToClient([kind |-> "nextValidId", id |-> NextId])
  /\ UNCHANGED book

TwsGivesOrder ==
  /\ Head(toTws).kind = "reqOpenOrders"
  /\ IF book = <<>> THEN UNCHANGED toClient
     ELSE \E id \in DOMAIN book : SendToClient(OpenFrame(id, book[id]))
  /\ UNCHANGED book

TwsReads ==
  /\ toTws # <<>>
  /\ toTws' = Tail(toTws)
  /\ TwsTakesOrder \/ TwsGivesId \/ TwsGivesOrder
  /\ UNCHANGED <<load, object, held, slot, bounds>>

Next ==
  \/ Connect
  \/ \E n \in 0..Len(toTws) : DisconnectTWS(n) \/ Restart(n)
  \/ ReqIds \/ ReqOpenOrders \/ PlaceNew \/ Modify
  \/ NextValidId \/ OpenOrderSignal \/ SlotReturns
  \/ TwsReads

Spec == Init /\ [][Next]_vars

--------------------------------------------------------------------------------
(* Properties.                                                             *)

\* Ids are numbers, and the application knows of orders that TWS knows of.
TypeOK ==
  /\ load \in Loads
  /\ m_orderId \in Nat
  /\ m_serverVersion \in {0, load.server}
  /\ DOMAIN book \subseteq Nat
  /\ held # Nothing => held.id \in DOMAIN book
  /\ slot \in BOOLEAN
  /\ \A i \in DOMAIN toTws :
       toTws[i].kind \in {"placeOrder", "reqIds", "reqOpenOrders"}
  /\ \A i \in DOMAIN toClient : toClient[i].kind \in {"nextValidId", "openOrder"}

\* The order messages that TWS has still to read.
InFlight == {i \in DOMAIN toTws : toTws[i].kind = "placeOrder"}

\* A new order never lands on an order that TWS holds or is about to hold,
\* over lost connections, restarts that begin at id 0 again, orders lost in
\* flight, and answers to reqIds that put the counter back or come late.
NewOrdersGetNewIds ==
  \A i \in InFlight : toTws[i].new =>
    /\ toTws[i].id \notin DOMAIN book
    /\ \A j \in InFlight : j < i => toTws[j].id # toTws[i].id

\* What no OPEN_ORDER carries, or not as it was sent.
NeverReturned ==
  {"transmit", "activeStartTime", "activeStopTime", "scaleTable",
   "overridePercentageConstraints", "primaryExchange", "secIdType", "secId",
   "orderMiscOptions", "scaleNumComponents"}

Fits(name, value) ==
  CASE name \in Longs   -> value \in (-IntMax - 1)..IntMax
    [] name \in Doubles -> \/ name \in MaxWritten /\ value = UNSET
                           \/ -Limit < value /\ value < Limit
    [] OTHER            -> TRUE

\* The two fields that are written with encodeFieldMax and read with
\* decodeField, and the prices that older servers get as 0.
UnsetComesBackAsZero ==
  {"volatilityType", "referencePriceType"} \cup Range(UnsetAsZero(load.server))

\* The application is told of an order what it placed: each field that was
\* sent comes back with the value it had, if it is in the range of what is
\* written.  From server version 68 on OPEN_ORDER has all the fields that
\* placeOrder sends but the ones above.
OrderComesBack ==
  held # Nothing =>
    \A name \in Range(PlaceFields(load.server, held.placed)) \ NeverReturned :
      /\ load.server >= MinVer.TRADING_CLASS => name \in DOMAIN held.texts
      /\ name \in DOMAIN held.texts /\ Fits(name, held.placed[name]) =>
           held.order[name] = IF name \in UnsetComesBackAsZero /\ held.placed[name] = UNSET
                              THEN 0 ELSE held.placed[name]

\* Placing an order as it was received changes nothing of what TWS said of it,
\* whatever its values: what a number loses on the way it loses once.  Only
\* volatilityType and referencePriceType become 0; and, once the slot has
\* returned, the UnderComp is whatever is on the stack.
Same(frame, name) ==
  \/ frame.texts[name] = frame.answer[name]
  \/ name \in UnsetComesBackAsZero /\ frame.answer[name] = <<>>
  \/ ~frame.inSlot
     /\ name \in {"underComp.conId", "underComp.delta", "underComp.price"}

ModifyDoesNotDrift ==
  \A i \in InFlight : ~toTws[i].new =>
    /\ toTws[i].id \in DOMAIN book
    /\ \A name \in DOMAIN toTws[i].texts \cap DOMAIN toTws[i].answer :
         Same(toTws[i], name)

\* Refuted: the comment at Order::volatilityType gives it two values, 1 for
\* daily and 2 for annual, next to UNSET_INTEGER.
VolatilityTypeAsDocumented ==
  held # Nothing => held.order["volatilityType"] \in {1, 2, UNSET}
================================================================================
