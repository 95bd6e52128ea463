----------------------------- MODULE MCIBQtOrders -----------------------------
(* Values for the model checker: 24 bits for an int, so that a long of the  *)
(* model does not fit, and the six digits of QByteArray::number.            *)
EXTENDS IBQtOrders

\* A value of its own for every field, and every group open.
NameSeq == PlaceFields(MinVer.LINKING, Opened) \o <<"scaleNumComponents">>
Distinct ==
  [name \in Names |->
     LET i == CHOOSE i \in DOMAIN NameSeq : NameSeq[i] = name
     IN  CASE name = "secType"     -> BAG
           [] name \in {"scaleNumComponents", "underCompPresent"} -> 1
           [] name \in {"comboLegsCount", "orderComboLegsCount", "algoParamsCount",
                        "smartComboRoutingParamsCount"} -> 1
           [] name = "sharesAllocation" -> <<>>
           [] name \in {"volatilityType", "referencePriceType"} -> 2
           [] name \in Texts       -> <<FirstWord + 10 + i>>
           [] OTHER                -> 10 + i]

With(changes) == changes @@ DefaultOrder

\* Numbers out of the range of what is written.
Big ==
  With([name \in Longs |-> IntMax + 5000] @@ [name \in Doubles |-> 1234567]
         @@ "secType" :> BAG @@ "comboLegsCount" :> 1 @@ "underCompPresent" :> 1
         @@ "orderComboLegsCount" :> 1 @@ "deltaNeutralOrderType" :> <<FirstWord>>
         @@ "lmtPrice" :> 9999995 @@ "auxPrice" :> -1234567)

\* The largest numbers in that range.
Edge ==
  With([name \in Longs |-> IntMax] @@ [name \in Doubles |-> 10^Digits - 1]
         @@ "secType" :> BAG @@ "comboLegsCount" :> 1 @@ "underCompPresent" :> 1
         @@ "deltaNeutralOrderType" :> <<FirstWord>>)

Zeros == With([name \in MaxWritten |-> 0])

\* Groups whose lists are empty, and members of groups that are not open.
EmptyGroups ==
  With("secType" :> BAG @@ "algoStrategy" :> <<FirstWord>> @@ "hedgeType" :> <<FirstWord>>
         @@ "deltaNeutralOrderType" :> <<FirstWord>> @@ "scalePriceIncrement" :> 1)
Closed ==
  With("hedgeParam" :> <<FirstWord>> @@ "algoParamsCount" :> 1 @@ "comboLegsCount" :> 1
         @@ "scaleAutoReset" :> 1 @@ "deltaNeutralConId" :> 3)

MCServers == {38} \cup Range(MinVer)

Load(sv, order, raises, limits) ==
  [server |-> sv, order |-> order, raises |-> raises,
   placements |-> limits[1], questions |-> limits[2], downs |-> limits[3]]

MCLoads ==
  {Load(sv, o, FALSE, <<2, 1, 1>>) :
     sv \in MCServers,
     o \in {Distinct, DefaultOrder, Big, Edge, Zeros, EmptyGroups, Closed}}
    \cup {Load(70, DefaultOrder, FALSE, <<4, 2, 2>>),
           Load(70, DefaultOrder, TRUE, <<3, 2, 1>>)}
================================================================================
