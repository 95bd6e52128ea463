------------------------------ MODULE IBQtInbound ------------------------------
(***************************************************************************)
(* The layouts of the 43 messages that onReadyRead dispatches (ibqt.cpp,   *)
(* lines 1491 to 2799): which fields it decodes after the message id.      *)
(*                                                                         *)
(* A layout is a sequence of field names and depends on the version of the *)
(* server and on fields decoded before, `got`, a function from names to    *)
(* texts.  Only the fields of orders, and those that decide what follows,  *)
(* have their name; the others are all "plain".                            *)
(*                                                                         *)
(* A text is a token or nothing.  A token below FirstWord is a number, the *)
(* others are words, which read as the number 0.                           *)
(***************************************************************************)
EXTENDS Naturals, Sequences, IBQtDefines

CONSTANT FirstWord

Text      == {text \in Seq(Nat) : Len(text) <= 1}

\* toInt() of what decodeField() returns.
ToInt(text) == IF text = <<>> \/ text[1] >= FirstWord THEN 0 ELSE text[1]

Num(got, name)   == IF name \in DOMAIN got THEN ToInt(got[name]) ELSE 0
Given(got, name) == name \in DOMAIN got /\ got[name] # <<>>
Version(got)     == Num(got, "version")

Plain(n)                == [i \in 1..n |-> "plain"]
When(condition, layout) == IF condition THEN layout ELSE <<>>

\* What the body of a loop decodes, n times.
Times(n, layout) ==
  [i \in 1..(n * Len(layout)) |-> layout[((i - 1) % Len(layout)) + 1]]

\* A list of tags and values, after its count.
TagValues(count, got) == <<count>> \o Times(Num(got, count), Plain(2))

--------------------------------------------------------------------------------
\* The messages whose layout is fixed: the number of fields after the id.
\* Ticks, order status and errors, account values and ids, market depth to
\* receiveFA, scanner parameters to commission reports, and the end of
\* positions to display groups.
Ticks   == [id \in {1, 2, 45, 46, 47} |->
              CASE id = 1 -> 6 [] id = 47 -> 10 [] OTHER -> 4]
Status  == [id \in {3, 4} |-> IF id = 3 THEN 11 ELSE 4]
Values  == [id \in {6, 8, 9} |-> IF id = 6 THEN 5 ELSE 2]
Depth   == [id \in 12..16 |->
              CASE id = 12 -> 7 [] id = 13 -> 8 [] id = 14 -> 5
                [] id = 15 -> 2 [] id = 16 -> 3]
Reports == [id \in {19, 49, 50, 51, 52, 53, 54, 55, 56, 57, 58, 59} |->
              CASE id = 50 -> 10 [] id \in {51, 58} -> 3 [] id = 53 -> 1
                [] id = 56 -> 5 [] id = 59 -> 7 [] OTHER -> 2]
Groups  == [id \in 62..68 |->
              CASE id = 62 -> 1 [] id = 63 -> 6 [] id \in {64, 65} -> 2
                [] OTHER -> 3]

--------------------------------------------------------------------------------
(* Ticks of options, positions, contracts, executions and bars.            *)

MODEL_OPTION == 13

TickOptionComputation(got) ==
  <<"version", "plain", "tickTypeInt">> \o Plain(2)
    \o When(Version(got) >= 6 \/ Num(got, "tickTypeInt") = MODEL_OPTION, Plain(2))
    \o When(Version(got) >= 6, Plain(4))

PortfolioValue(sv, got) ==
  <<"version">> \o Plain(6) \o When(Version(got) >= 7, Plain(2)) \o Plain(2)
    \o When(Version(got) >= 8, Plain(1)) \o Plain(7)
    \o When(Version(got) = 6 /\ sv = 39, Plain(1))

ContractData(got) ==
  <<"version">> \o When(Version(got) >= 3, Plain(1)) \o Plain(16)
    \o When(Version(got) >= 4, Plain(1)) \o When(Version(got) >= 5, Plain(2))
    \o When(Version(got) >= 6, Plain(7)) \o When(Version(got) >= 8, Plain(2))
    \o When(Version(got) >= 7, TagValues("secIdListCount", got))

BondContractData(got) ==
  <<"version">> \o When(Version(got) >= 3, Plain(1)) \o Plain(25)
    \o When(Version(got) >= 4, Plain(1)) \o When(Version(got) >= 6, Plain(2))
    \o When(Version(got) >= 5, TagValues("secIdListCount", got))

ExecutionData(got) ==
  <<"version">> \o When(Version(got) >= 7, Plain(1)) \o Plain(7)
    \o When(Version(got) >= 9, Plain(1)) \o Plain(3)
    \o When(Version(got) >= 10, Plain(1)) \o Plain(10)
    \o When(Version(got) >= 6, Plain(2)) \o When(Version(got) >= 8, Plain(1))
    \o When(Version(got) >= 9, Plain(2))

HistoricalData(got) ==
  <<"version">> \o Plain(3) \o <<"itemCount">>
    \o Times(Num(got, "itemCount"), Plain(9))

ScannerData(got) ==
  <<"version", "plain", "numberOfElements">>
    \o Times(Num(got, "numberOfElements"), Plain(16))

PositionData(got) ==
  <<"version">> \o Plain(11) \o When(Version(got) >= 2, Plain(1))
    \o Plain(1) \o When(Version(got) >= 3, Plain(1))

--------------------------------------------------------------------------------
(* OPEN_ORDER.                                                             *)

OpenContract(got) ==
  <<"conId", "symbol", "secType", "expiry", "strike", "right">>
    \o When(Version(got) >= 32, <<"multiplier">>)
    \o <<"exchange", "currency", "localSymbol">>
    \o When(Version(got) >= 32, <<"tradingClass">>)

\* From the action to the location of a short sale.
OpenMain ==
  <<"action", "totalQuantity", "orderType", "lmtPrice", "auxPrice", "tif",
    "ocaGroup", "account", "openClose", "origin", "orderRef", "clientId",
    "permId", "outsideRth", "hidden", "discretionaryAmt", "goodAfterTime",
    "sharesAllocation", "faGroup", "faMethod", "faPercentage", "faProfile",
    "goodTillDate", "rule80A", "percentOffset", "settlingFirm",
    "shortSaleSlot", "designatedLocation">>

\* In the first case the field is decoded into a local variable.
OpenExempt(sv, got) ==
  IF sv = MinVer.SSHORTX_OLD THEN <<"ignoredExemptCode">>
                      ELSE When(Version(got) >= 23, <<"exemptCode">>)

OpenExtended ==
  <<"auctionStrategy", "startingPrice", "stockRefPrice", "delta",
    "stockRangeLower", "stockRangeUpper", "displaySize", "blockOrder",
    "sweepToFill", "allOrNone", "minQty", "ocaType", "eTradeOnly",
    "firmQuoteOnly", "nbboPriceCap", "parentId", "triggerMethod", "volatility",
    "volatilityType", "deltaNeutralOrderType", "deltaNeutralAuxPrice">>

OpenDeltaNeutral(got) ==
  LET set == Given(got, "deltaNeutralOrderType")
  IN  When(Version(got) >= 27 /\ set,
           <<"deltaNeutralConId", "deltaNeutralSettlingFirm",
             "deltaNeutralClearingAccount", "deltaNeutralClearingIntent">>)
        \o When(Version(got) >= 31 /\ set,
                <<"deltaNeutralOpenClose", "deltaNeutralShortSale",
                  "deltaNeutralShortSaleSlot", "deltaNeutralDesignatedLocation">>)

ComboLegFields ==
  <<"comboLeg.conId", "comboLeg.ratio", "comboLeg.action", "comboLeg.exchange",
    "comboLeg.openClose", "comboLeg.shortSaleSlot", "comboLeg.designatedLocation",
    "comboLeg.exemptCode">>

OpenCombo(got) ==
  When(Version(got) >= 30, <<"trailingPercent">>)
    \o <<"basisPoints", "basisPointsType", "comboLegsDescrip">>
    \o When(Version(got) >= 29,
            <<"comboLegsCount">> \o Times(Num(got, "comboLegsCount"), ComboLegFields)
              \o <<"orderComboLegsCount">>
              \o Times(Num(got, "orderComboLegsCount"), <<"orderComboLeg.price">>))
    \o When(Version(got) >= 26,
            <<"smartComboRoutingParamsCount">>
              \o Times(Num(got, "smartComboRoutingParamsCount"),
                       <<"smartComboRoutingParam.tag", "smartComboRoutingParam.value">>))

\* The increment is decoded before it is compared with 0, so that an empty
\* one, UNSET_DOUBLE, is not above it here.
OpenScale(got) ==
  (IF Version(got) >= 20 THEN <<"scaleInitLevelSize", "scaleSubsLevelSize">>
                         ELSE <<"notSuppScaleNumComponents", "scaleInitLevelSize">>)
    \o <<"scalePriceIncrement">>
    \o When(Version(got) >= 28 /\ Num(got, "scalePriceIncrement") > 0,
            <<"scalePriceAdjustValue", "scalePriceAdjustInterval",
              "scaleProfitOffset", "scaleAutoReset", "scaleInitPosition",
              "scaleInitFillQty", "scaleRandomPercent">>)

OpenRouting(got) ==
  When(Version(got) >= 24,
       <<"hedgeType">> \o When(Given(got, "hedgeType"), <<"hedgeParam">>))
    \o When(Version(got) >= 25, <<"optOutSmartRouting">>)
    \o <<"clearingAccount", "clearingIntent">>
    \o When(Version(got) >= 22, <<"notHeld">>)
    \o When(Version(got) >= 20,
            <<"underCompPresent">>
              \o When(Num(got, "underCompPresent") # 0,
                      <<"underComp.conId", "underComp.delta", "underComp.price">>))

OpenAlgo(got) ==
  When(Version(got) >= 21,
       <<"algoStrategy">>
         \o When(Given(got, "algoStrategy"),
                 <<"algoParamsCount">>
                   \o Times(Num(got, "algoParamsCount"),
                            <<"algoParam.tag", "algoParam.value">>)))

OpenState ==
  <<"whatIf", "status", "initMargin", "maintMargin", "equityWithLoan",
    "commission", "minCommission", "maxCommission", "commissionCurrency",
    "warningText">>

OpenOrder(sv, got) ==
  <<"version", "orderId">> \o OpenContract(got) \o OpenMain
    \o OpenExempt(sv, got) \o OpenExtended \o OpenDeltaNeutral(got)
    \o <<"continuousUpdate", "referencePriceType", "trailStopPrice">>
    \o OpenCombo(got) \o OpenScale(got) \o OpenRouting(got) \o OpenAlgo(got)
    \o OpenState

--------------------------------------------------------------------------------
Fixed == {Ticks, Status, Values, Depth, Reports, Groups}

\* The messages that the switch has a case for.
Dispatched ==
  (UNION {DOMAIN table : table \in Fixed}) \cup {5, 7, 10, 11, 17, 18, 20, 21, 61}

\* What is decoded after the id of a message; nothing after an unknown one.
Layout(id, sv, got) ==
  CASE id = 5  -> OpenOrder(sv, got)
    [] id = 7  -> PortfolioValue(sv, got)
    [] id = 10 -> ContractData(got)
    [] id = 11 -> ExecutionData(got)
    [] id = 17 -> HistoricalData(got)
    [] id = 18 -> BondContractData(got)
    [] id = 20 -> ScannerData(got)
    [] id = 21 -> TickOptionComputation(got)
    [] id = 61 -> PositionData(got)
    [] id \in Dispatched \ {5, 7, 10, 11, 17, 18, 20, 21, 61} ->
         LET table == CHOOSE t \in Fixed : id \in DOMAIN t IN Plain(table[id])
    [] OTHER -> <<>>

\* The fields that decide what follows.
Deciding ==
  {"version", "tickTypeInt", "secIdListCount", "itemCount", "numberOfElements",
   "deltaNeutralOrderType", "comboLegsCount", "orderComboLegsCount",
   "smartComboRoutingParamsCount", "scalePriceIncrement", "hedgeType",
   "underCompPresent", "algoStrategy", "algoParamsCount"}
================================================================================
