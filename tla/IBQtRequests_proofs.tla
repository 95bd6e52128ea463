-------------------------- MODULE IBQtRequests_proofs --------------------------
(***************************************************************************)
(* Proofs about IBQtRequests, for any server versions and any calls.       *)
(***************************************************************************)
EXTENDS IBQtRequests, SequenceTheorems, TLAPS

\* A message is a finite sequence, of whatever fields.
Message(s) == s \in Seq(Range(s))

--------------------------------------------------------------------------------
(* What the operators that write fields return.                            *)

\* Any finite sequence is a message.
LEMMA MessageOf == ASSUME NEW S, NEW s \in Seq(S) PROVE Message(s)
<1>1. s \in [1..Len(s) -> S] /\ Len(s) \in Nat /\ DOMAIN s = 1..Len(s)
  BY LenProperties
<1>2. s \in [1..Len(s) -> Range(s)]
  BY <1>1 DEF Range
<1> QED
  BY <1>1, <1>2, SeqDef DEF Message

\* A message written from two parts carries what either part carries.
LEMMA Joined ==
  ASSUME NEW s, NEW t, Message(s), Message(t)
  PROVE  /\ Message(s \o t)
         /\ Range(s \o t) = Range(s) \cup Range(t)
<1> DEFINE S == Range(s) \cup Range(t)
<1>1. s \in Seq(S) /\ t \in Seq(S)
  BY SeqMonotonic DEF Message
<1> HIDE DEF S
<1>2. s \o t \in Seq(S)
  BY <1>1
<1>3. ASSUME NEW f \in Range(s \o t) PROVE f \in Range(s) \cup Range(t)
  <2>1. PICK i \in DOMAIN (s \o t) : f = (s \o t)[i]
    BY DEF Range
  <2>2. f \in S
    BY <1>2, <2>1
  <2> QED
    BY <2>2 DEF S
<1>4. ASSUME NEW f \in Range(s) PROVE f \in Range(s \o t)
  <2>1. PICK i \in DOMAIN s : f = s[i]
    BY DEF Range
  <2>2. i \in DOMAIN (s \o t) /\ (s \o t)[i] = f
    BY <1>1, <2>1
  <2> QED
    BY <2>2 DEF Range
<1>5. ASSUME NEW f \in Range(t) PROVE f \in Range(s \o t)
  <2>1. PICK i \in DOMAIN t : f = t[i]
    BY DEF Range
  <2>2. Len(s) + i \in DOMAIN (s \o t) /\ (s \o t)[Len(s) + i] = f
    BY <1>1, <2>1
  <2> QED
    BY <2>2 DEF Range
<1> QED
  BY <1>2, <1>3, <1>4, <1>5, MessageOf

\* The field of an argument shows that it is set.
LEMMA ArgFields ==
  ASSUME NEW a, NEW n \in Nat, NEW u
  PROVE  /\ Message(Arg(a, n, u))
         /\ n >= 1 /\ a \in u => Carries(Arg(a, n, u), a)
<1> DEFINE f == <<a, IF a \in u THEN "set" ELSE "default">>
<1>1. Arg(a, n, u) \in [1..n -> {f}]
  BY DEF Arg
<1>2. Arg(a, n, u) \in Seq({f})
  BY <1>1, SeqDef
<1>3. ASSUME n >= 1, a \in u PROVE Carries(Arg(a, n, u), a)
  <2>1. 1 \in 1..n
    BY <1>3
  <2>2. Arg(a, n, u)[1] = <<a, "set">> /\ DOMAIN Arg(a, n, u) = 1..n
    BY <1>3, <2>1 DEF Arg
  <2> QED
    BY <2>1, <2>2 DEF Range, Carries
<1> QED
  BY <1>2, <1>3, MessageOf

\* The pieces that messages are put together from are messages.
LEMMA PlainFields == ASSUME NEW n \in Nat PROVE Message(Plain(n))
<1>1. Plain(n) \in [1..n -> {<<"plain", "default">>}]
  BY DEF Plain
<1>2. Plain(n) \in Seq({<<"plain", "default">>})
  BY <1>1, SeqDef
<1> QED
  BY <1>2, MessageOf

LEMMA OneField == ASSUME NEW f PROVE Message(<<f>>)
<1>1. <<f>> \in Seq({f})
  OBVIOUS
<1> QED
  BY <1>1, MessageOf

LEMMA HeaderFields == ASSUME NEW id, NEW n \in Nat PROVE Message(Header(id, n))
  BY OneField, PlainFields, Joined DEF Header

LEMMA EmptyMessage == Message(<<>>)
  BY EmptySeq, MessageOf

\* What a part carries the whole carries.
LEMMA Two ==
  ASSUME NEW p, NEW q, Message(p), Message(q)
  PROVE  /\ Message(p \o q)
         /\ \A a : Carries(p, a) \/ Carries(q, a) => Carries(p \o q, a)
  BY Joined DEF Carries

\* So with three, four, five and six parts.
LEMMA Three ==
  ASSUME NEW p, NEW q, NEW r, Message(p), Message(q), Message(r)
  PROVE  /\ Message(p \o q \o r)
         /\ \A a : Carries(p, a) \/ Carries(q, a) \/ Carries(r, a) =>
                   Carries(p \o q \o r, a)
<1> DEFINE s == p \o q
<1>1. Message(s) /\ \A a : Carries(p, a) \/ Carries(q, a) => Carries(s, a)
  BY Two
<1> HIDE DEF s
<1>2. Message(s \o r) /\ \A a : Carries(s, a) \/ Carries(r, a) => Carries(s \o r, a)
  BY <1>1, Two
<1> QED
  BY <1>1, <1>2 DEF s

LEMMA Five ==
  ASSUME NEW p, NEW q, NEW r, NEW s, NEW t,
         Message(p), Message(q), Message(r), Message(s), Message(t)
  PROVE  /\ Message(p \o q \o r \o s \o t)
         /\ \A a : (Carries(p, a) \/ Carries(q, a) \/ Carries(r, a)
                   \/ Carries(s, a) \/ Carries(t, a)) =>
                   Carries(p \o q \o r \o s \o t, a)
<1> DEFINE w == p \o q \o r
<1>1. /\ Message(w)
      /\ \A a : Carries(p, a) \/ Carries(q, a) \/ Carries(r, a) => Carries(w, a)
  BY Three
<1> HIDE DEF w
<1>2. /\ Message(w \o s \o t)
      /\ \A a : Carries(w, a) \/ Carries(s, a) \/ Carries(t, a) =>
                Carries(w \o s \o t, a)
  BY <1>1, Three
<1> QED
  BY <1>1, <1>2 DEF w

LEMMA Four ==
  ASSUME NEW p, NEW q, NEW r, NEW s,
         Message(p), Message(q), Message(r), Message(s)
  PROVE  /\ Message(p \o q \o r \o s)
         /\ \A a : (Carries(p, a) \/ Carries(q, a) \/ Carries(r, a)
                   \/ Carries(s, a)) => Carries(p \o q \o r \o s, a)
<1> DEFINE w == p \o q
<1>1. Message(w) /\ \A a : Carries(p, a) \/ Carries(q, a) => Carries(w, a)
  BY Two
<1> HIDE DEF w
<1>2. /\ Message(w \o r \o s)
      /\ \A a : Carries(w, a) \/ Carries(r, a) \/ Carries(s, a) =>
                Carries(w \o r \o s, a)
  BY <1>1, Three
<1> QED
  BY <1>1, <1>2 DEF w

LEMMA Six ==
  ASSUME NEW p, NEW q, NEW r, NEW s, NEW t, NEW x, Message(p), Message(q),
         Message(r), Message(s), Message(t), Message(x)
  PROVE  /\ Message(p \o q \o r \o s \o t \o x)
         /\ \A a : (Carries(p, a) \/ Carries(q, a) \/ Carries(r, a)
                   \/ Carries(s, a) \/ Carries(t, a) \/ Carries(x, a)) =>
                   Carries(p \o q \o r \o s \o t \o x, a)
<1> DEFINE w == p \o q \o r \o s \o t
<1>1. /\ Message(w)
      /\ \A a : (Carries(p, a) \/ Carries(q, a) \/ Carries(r, a)
                   \/ Carries(s, a) \/ Carries(t, a)) => Carries(w, a)
  BY Five
<1> HIDE DEF w
<1>2. Message(w \o x) /\ \A a : Carries(w, a) \/ Carries(x, a) => Carries(w \o x, a)
  BY <1>1, Two
<1> QED
  BY <1>1, <1>2 DEF w

--------------------------------------------------------------------------------
(* The parts of messages.                                                  *)

\* What the contract carries, at the versions that have the argument.
LEMMA ContractPart ==
  ASSUME NEW v \in Nat, NEW m \in Nat, NEW n \in Nat, NEW u
  PROVE  /\ Message(ContractFields(m, n, v, u))
         /\ "conId" \in u /\ v >= m => Carries(ContractFields(m, n, v, u), "conId")
         /\ "tradingClass" \in u /\ v >= MinVer.TRADING_CLASS =>
              Carries(ContractFields(m, n, v, u), "tradingClass")
<1> DEFINE c == When(v >= m, Arg("conId", 1, u))
           b == Arg("BAG", 1, u)
           t == When(v >= MinVer.TRADING_CLASS, Arg("tradingClass", 1, u))
<1>1. Message(c) /\ ("conId" \in u /\ v >= m => Carries(c, "conId"))
  BY ArgFields, EmptyMessage DEF When
<1>2. Message(t) /\ ("tradingClass" \in u /\ v >= MinVer.TRADING_CLASS =>
                       Carries(t, "tradingClass"))
  BY ArgFields, EmptyMessage DEF When
<1>3. Message(Plain(1)) /\ Message(Plain(n)) /\ Message(b)
  BY PlainFields, ArgFields
<1>4. ContractFields(m, n, v, u) = c \o Plain(1) \o b \o Plain(n) \o t
  BY DEF ContractFields
<1> HIDE DEF b, c, t
<1> QED
  BY <1>1, <1>2, <1>3, <1>4, Five

\* The legs carry what a leg carries, in a BAG that has legs.
LEMMA ComboLegsPart ==
  ASSUME NEW leg, Message(leg), NEW u
  PROVE  /\ Message(ComboLegs(leg, u))
         /\ \A a : /\ "BAG" \in u /\ "comboLeg" \in u /\ Carries(leg, a)
                  => Carries(ComboLegs(leg, u), a)
<1>1. Message(Arg("comboLeg", 1, u))
  BY ArgFields
<1>2. Message(When("comboLeg" \in u, leg))
  BY EmptyMessage DEF When
<1>3. "comboLeg" \in u => When("comboLeg" \in u, leg) = leg
  BY DEF When
<1> DEFINE s == Arg("comboLeg", 1, u) \o When("comboLeg" \in u, leg)
<1>4. /\ Message(s)
      /\ \A a : Carries(When("comboLeg" \in u, leg), a) => Carries(s, a)
  BY <1>1, <1>2, Two
<1> HIDE DEF s
<1>5. ComboLegs(leg, u) = When("BAG" \in u, s)
  BY DEF ComboLegs, s
<1> QED
  BY <1>3, <1>4, <1>5, EmptyMessage DEF When

\* The UnderComp, from its version on.
LEMMA UnderCompPart ==
  ASSUME NEW v \in Nat, NEW u
  PROVE  /\ Message(UnderComp(v, u))
         /\ "underComp" \in u /\ v >= MinVer.UNDER_COMP =>
              Carries(UnderComp(v, u), "underComp")
<1> DEFINE a == Arg("underComp", 1, u)
           p == When("underComp" \in u, Plain(3))
<1>1. Message(a) /\ ("underComp" \in u => Carries(a, "underComp"))
  BY ArgFields
<1>2. Message(p)
  BY PlainFields, EmptyMessage DEF When
<1>3. UnderComp(v, u) = When(v >= MinVer.UNDER_COMP, a \o p)
  BY DEF UnderComp
<1> HIDE DEF a, p
<1>4. Message(a \o p) /\ ("underComp" \in u => Carries(a \o p, "underComp"))
  BY <1>1, <1>2, Two
<1> QED
  BY <1>3, <1>4, EmptyMessage DEF When

\* The options are a message at every version.
LEMMA OptionsPart == ASSUME NEW a, NEW v, NEW u PROVE Message(Options(a, v, u))
  BY ArgFields, EmptyMessage DEF Options, When

--------------------------------------------------------------------------------
(* The messages other than orders carry what they check.                   *)

\* From TRADING_CLASS on, both arguments it checks.
LEMMA HistoricalDataCarries ==
  ASSUME NEW v \in Nat, NEW u, v >= MinVer.TRADING_CLASS
  PROVE  \A a \in u \cap {"conId", "tradingClass"} : Carries(HistoricalData(v, u), a)
<1> DEFINE c == ContractFields(MinVer.TRADING_CLASS, 8, v, u)
<1>1. MinVer.TRADING_CLASS \in Nat
  BY DEF MinVer
<1>2. Message(c) /\ \A a \in u \cap {"conId", "tradingClass"} : Carries(c, a)
  BY <1>1, ContractPart
<1>3. /\ Message(Header("REQ_HISTORICAL_DATA", 2)) /\ Message(Plain(7))
      /\ Message(ComboLegs(Plain(4), u)) /\ Message(Options("chartOptions", v, u))
  BY HeaderFields, PlainFields, ComboLegsPart, OptionsPart
<1>4. HistoricalData(v, u) =
        Header("REQ_HISTORICAL_DATA", 2) \o c \o Plain(7) \o ComboLegs(Plain(4), u)
          \o Options("chartOptions", v, u)
  BY DEF HistoricalData
<1> HIDE DEF c
<1> QED
  BY <1>2, <1>3, <1>4, Five

\* The same for bars.
LEMMA RealTimeBarsCarries ==
  ASSUME NEW v \in Nat, NEW u, v >= MinVer.TRADING_CLASS
  PROVE  \A a \in u \cap {"conId", "tradingClass"} : Carries(RealTimeBars(v, u), a)
<1> DEFINE c == ContractFields(MinVer.TRADING_CLASS, 8, v, u)
<1>1. MinVer.TRADING_CLASS \in Nat
  BY DEF MinVer
<1>2. Message(c) /\ \A a \in u \cap {"conId", "tradingClass"} : Carries(c, a)
  BY <1>1, ContractPart
<1>3. /\ Message(Header("REQ_REAL_TIME_BARS", 2)) /\ Message(Plain(3))
      /\ Message(Options("realTimeBarsOptions", v, u))
  BY HeaderFields, PlainFields, OptionsPart
<1>4. RealTimeBars(v, u) = Header("REQ_REAL_TIME_BARS", 2) \o c \o Plain(3)
                             \o Options("realTimeBarsOptions", v, u)
  BY DEF RealTimeBars
<1> HIDE DEF c
<1> QED
  BY <1>2, <1>3, <1>4, Four

\* Each of its three arguments from the version it is checked against.
LEMMA MktDataCarries ==
  ASSUME NEW v \in Nat, NEW u, NEW a \in u \cap DOMAIN MktDataGates,
         v >= MktDataGates[a]
  PROVE  Carries(MktData(v, u), a)
<1> DEFINE c == ContractFields(MinVer.REQ_MKT_DATA_CONID, 8, v, u)
<1>1. MinVer.REQ_MKT_DATA_CONID \in Nat
  BY DEF MinVer
<1>2. /\ Message(c)
      /\ "conId" \in u /\ v >= MinVer.REQ_MKT_DATA_CONID => Carries(c, "conId")
      /\ "tradingClass" \in u /\ v >= MinVer.TRADING_CLASS => Carries(c, "tradingClass")
  BY <1>1, ContractPart
<1>3. /\ Message(Header("REQ_MKT_DATA", 2)) /\ Message(Plain(2))
      /\ Message(ComboLegs(Plain(4), u)) /\ Message(Options("mktDataOptions", v, u))
  BY HeaderFields, PlainFields, ComboLegsPart, OptionsPart
<1>4. /\ Message(UnderComp(v, u))
      /\ "underComp" \in u /\ v >= MinVer.UNDER_COMP => Carries(UnderComp(v, u), "underComp")
  BY UnderCompPart
<1>5. MktData(v, u) =
        Header("REQ_MKT_DATA", 2) \o c \o ComboLegs(Plain(4), u) \o UnderComp(v, u)
          \o Plain(2) \o Options("mktDataOptions", v, u)
  BY DEF MktData
<1> HIDE DEF c
<1>6. Carries(c, a) \/ Carries(UnderComp(v, u), a)
  BY <1>2, <1>4 DEF MktDataGates
<1> QED
  BY <1>2, <1>3, <1>4, <1>5, <1>6, Six

\* The two messages with a contract, its class being all they check.
LEMMA ClassCarries ==
  ASSUME NEW v \in Nat, NEW u, "tradingClass" \in u, v >= MinVer.TRADING_CLASS
  PROVE  /\ Carries(ExerciseOptions(v, u), "tradingClass")
         /\ Carries(OptionPrice(v, u), "tradingClass")
<1> DEFINE c == ContractFields(MinVer.TRADING_CLASS, 7, v, u)
           d == ContractFields(0, 8, v, u)
<1>1. MinVer.TRADING_CLASS \in Nat
  BY DEF MinVer
<1>2. Message(c) /\ Carries(c, "tradingClass") /\ Message(d) /\ Carries(d, "tradingClass")
  BY <1>1, ContractPart
<1>3. /\ Message(Header("EXERCISE_OPTIONS", 2)) /\ Message(Plain(4))
      /\ Message(Header("REQ_CALC_OPTION_PRICE", 2)) /\ Message(Plain(2))
  BY HeaderFields, PlainFields
<1>4. /\ ExerciseOptions(v, u) = Header("EXERCISE_OPTIONS", 2) \o c \o Plain(4)
      /\ OptionPrice(v, u) = Header("REQ_CALC_OPTION_PRICE", 2) \o d \o Plain(2)
  BY DEF ExerciseOptions, OptionPrice
<1> HIDE DEF c, d
<1> QED
  BY <1>2, <1>3, <1>4, Three

\* Each of its two arguments from the version it is checked against.
LEMMA ContractDataCarries ==
  ASSUME NEW v \in Nat, NEW u, NEW a \in u \cap DOMAIN ContractDataGates,
         v >= ContractDataGates[a]
  PROVE  Carries(ContractData(v, u), a)
<1> DEFINE w == When(v >= MinVer.CONTRACT_DATA_CHAIN, Plain(1))
           c == ContractFields(0, 7, v, u)
           i == When(v >= MinVer.SEC_ID_TYPE, Arg("secId", 2, u))
<1>1. /\ Message(c)
      /\ "tradingClass" \in u /\ v >= MinVer.TRADING_CLASS => Carries(c, "tradingClass")
  BY ContractPart
<1>2. Message(i) /\ ("secId" \in u /\ v >= MinVer.SEC_ID_TYPE => Carries(i, "secId"))
  BY ArgFields, EmptyMessage DEF When
<1>3. Message(w) /\ Message(Header("REQ_CONTRACT_DATA", 1)) /\ Message(Plain(1))
  BY PlainFields, HeaderFields, EmptyMessage DEF When
<1>4. ContractData(v, u) = Header("REQ_CONTRACT_DATA", 1) \o w \o c \o Plain(1) \o i
  BY DEF ContractData
<1> HIDE DEF w, c, i
<1>5. Carries(c, a) \/ Carries(i, a)
  BY <1>1, <1>2 DEF ContractDataGates
<1> QED
  BY <1>1, <1>2, <1>3, <1>4, <1>5, Five

--------------------------------------------------------------------------------
(* The parts of an order, each with the checked arguments it carries.      *)

\* The contract of an order.
LEMMA OrderContractPart ==
  ASSUME NEW v \in Nat, NEW u
  PROVE  /\ Message(OrderContract(v, u))
         /\ \A a \in u \cap {"conId", "tradingClass", "secId"} :
              v >= PlaceOrderGates[a] => Carries(OrderContract(v, u), a)
<1> DEFINE c == ContractFields(MinVer.PLACE_ORDER_CONID, 8, v, u)
           i == When(v >= MinVer.SEC_ID_TYPE, Arg("secId", 2, u))
<1>1. MinVer.PLACE_ORDER_CONID \in Nat
  BY DEF MinVer
<1>2. /\ Message(c)
      /\ "conId" \in u /\ v >= MinVer.PLACE_ORDER_CONID => Carries(c, "conId")
      /\ "tradingClass" \in u /\ v >= MinVer.TRADING_CLASS => Carries(c, "tradingClass")
  BY <1>1, ContractPart
<1>3. Message(i) /\ ("secId" \in u /\ v >= MinVer.SEC_ID_TYPE => Carries(i, "secId"))
  BY ArgFields, EmptyMessage DEF When
<1>4. OrderContract(v, u) = c \o i
  BY DEF OrderContract
<1> HIDE DEF c, i
<1>5. \A a \in u \cap {"conId", "tradingClass", "secId"} :
         v >= PlaceOrderGates[a] => Carries(c, a) \/ Carries(i, a)
  BY <1>2, <1>3 DEF PlaceOrderGates
<1> QED
  BY <1>2, <1>3, <1>4, <1>5, Two

\* The legs, their exempt codes and their prices.
LEMMA OrderComboLegsPart ==
  ASSUME NEW v \in Nat, NEW u, WellFormed(u)
  PROVE  /\ Message(OrderComboLegs(v, u))
         /\ \A a \in Meaningful(u) \cap {"legExemptCode", "orderComboLegPrice"} :
              v >= PlaceOrderGates[a] => Carries(OrderComboLegs(v, u), a)
<1> DEFINE e == When(v >= MinVer.SSHORTX_OLD, Arg("legExemptCode", 1, u))
           leg == Plain(7) \o e
           price == When("orderComboLeg" \in u, Arg("orderComboLegPrice", 1, u))
           legs == Arg("orderComboLeg", 1, u) \o price
           p == ComboLegs(leg, u)
           q == When(v >= MinVer.ORDER_COMBO_LEGS_PRICE /\ "BAG" \in u, legs)
           two == Arg("smartComboRoutingParams", 1, u)
                    \o When("smartComboRoutingParams" \in u, Plain(2))
           r == When(v >= MinVer.SMART_COMBO_ROUTING_PARAMS /\ "BAG" \in u, two)
<1>2. Message(e) /\ ("legExemptCode" \in u /\ v >= MinVer.SSHORTX_OLD =>
                       Carries(e, "legExemptCode"))
  BY ArgFields, EmptyMessage DEF When
<1>3. Message(price) /\ ("orderComboLeg" \in u /\ "orderComboLegPrice" \in u =>
                           Carries(price, "orderComboLegPrice"))
  BY ArgFields, EmptyMessage DEF When
<1>4. OrderComboLegs(v, u) = p \o q \o r
  BY DEF OrderComboLegs
<1>5. /\ Message(Plain(7)) /\ Message(Arg("orderComboLeg", 1, u))
      /\ Message(Arg("smartComboRoutingParams", 1, u))
      /\ Message(When("smartComboRoutingParams" \in u, Plain(2)))
  BY PlainFields, ArgFields, EmptyMessage DEF When
<1> HIDE DEF e, price
<1>6. Message(leg) /\ (Carries(e, "legExemptCode") => Carries(leg, "legExemptCode"))
  BY <1>2, <1>5, Two
<1>7. Message(legs) /\ (Carries(price, "orderComboLegPrice") =>
                          Carries(legs, "orderComboLegPrice"))
  BY <1>3, <1>5, Two
<1>8. Message(two)
  BY <1>5, Two
<1> HIDE DEF leg, legs, two
<1>9. Message(p) /\ ("BAG" \in u /\ "comboLeg" \in u /\ Carries(leg, "legExemptCode") =>
                       Carries(p, "legExemptCode"))
  BY <1>6, ComboLegsPart
<1>10. /\ Message(q)
       /\ /\ v >= MinVer.ORDER_COMBO_LEGS_PRICE /\ "BAG" \in u
          /\ Carries(legs, "orderComboLegPrice")
          => Carries(q, "orderComboLegPrice")
  BY <1>7, EmptyMessage DEF When
<1>11. Message(r)
  BY <1>8, EmptyMessage DEF When
<1> HIDE DEF p, q, r
<1>12. ASSUME NEW a \in Meaningful(u) \cap {"legExemptCode", "orderComboLegPrice"},
              v >= PlaceOrderGates[a]
       PROVE  Carries(p, a) \/ Carries(q, a)
  <2>1. a \in u /\ "BAG" \in u
    BY DEF Meaningful, Depends
  <2>2. CASE a = "legExemptCode"
    <3>1. v >= MinVer.SSHORTX_OLD /\ "comboLeg" \in u
      BY <1>12, <2>1, <2>2 DEF PlaceOrderGates, MinVer, WellFormed
    <3> QED
      BY <1>2, <1>6, <1>9, <2>1, <2>2, <3>1
  <2>3. CASE a = "orderComboLegPrice"
    <3>1. v >= MinVer.ORDER_COMBO_LEGS_PRICE /\ "orderComboLeg" \in u
      BY <1>12, <2>1, <2>3 DEF PlaceOrderGates, WellFormed
    <3> QED
      BY <1>3, <1>7, <1>10, <2>1, <2>3, <3>1
  <2> QED
    BY <2>2, <2>3
<1> QED
  BY <1>4, <1>9, <1>10, <1>11, <1>12, Three

\* The exempt code of the order.
LEMMA OrderExtendedPart ==
  ASSUME NEW v \in Nat, NEW u
  PROVE  /\ Message(OrderExtended(v, u))
         /\ "exemptCode" \in u /\ v >= MinVer.SSHORTX_OLD =>
              Carries(OrderExtended(v, u), "exemptCode")
<1> DEFINE e == When(v >= MinVer.SSHORTX_OLD, Arg("exemptCode", 1, u))
<1>1. Message(e) /\ ("exemptCode" \in u /\ v >= MinVer.SSHORTX_OLD =>
                       Carries(e, "exemptCode"))
  BY ArgFields, EmptyMessage DEF When
<1>2. Message(Plain(10)) /\ Message(Plain(18))
  BY PlainFields
<1>3. OrderExtended(v, u) = Plain(10) \o e \o Plain(18)
  BY DEF OrderExtended
<1> HIDE DEF e
<1> QED
  BY <1>1, <1>2, <1>3, Three

\* The delta neutral groups and the trailing percentage.
LEMMA OrderDeltaNeutralPart ==
  ASSUME NEW v \in Nat, NEW u
  PROVE  /\ Message(OrderDeltaNeutral(v, u))
         /\ \A a \in Meaningful(u) \cap
                    {"deltaNeutralConId", "deltaNeutralOpenClose", "trailingPercent"} :
              v >= PlaceOrderGates[a] => Carries(OrderDeltaNeutral(v, u), a)
<1> DEFINE set == "deltaNeutralOrderType" \in u
           c == When(v >= MinVer.DELTA_NEUTRAL_CONID /\ set,
                     Arg("deltaNeutralConId", 4, u))
           o == When(v >= MinVer.DELTA_NEUTRAL_OPEN_CLOSE /\ set,
                     Arg("deltaNeutralOpenClose", 4, u))
           t == When(v >= MinVer.TRAILING_PERCENT, Arg("trailingPercent", 1, u))
           d == Arg("deltaNeutralOrderType", 1, u)
<1>1. Message(c) /\ (set /\ "deltaNeutralConId" \in u /\ v >= MinVer.DELTA_NEUTRAL_CONID
                        => Carries(c, "deltaNeutralConId"))
  BY ArgFields, EmptyMessage DEF When
<1>2. Message(o) /\ (set /\ "deltaNeutralOpenClose" \in u
                          /\ v >= MinVer.DELTA_NEUTRAL_OPEN_CLOSE
                        => Carries(o, "deltaNeutralOpenClose"))
  BY ArgFields, EmptyMessage DEF When
<1>3. Message(t) /\ ("trailingPercent" \in u /\ v >= MinVer.TRAILING_PERCENT
                        => Carries(t, "trailingPercent"))
  BY ArgFields, EmptyMessage DEF When
<1>4. Message(d) /\ Message(Plain(1)) /\ Message(Plain(3))
  BY ArgFields, PlainFields
<1>5. OrderDeltaNeutral(v, u) = d \o Plain(1) \o c \o o \o Plain(3) \o t
  BY DEF OrderDeltaNeutral
<1> HIDE DEF c, o, t, d
<1>6. ASSUME NEW a \in Meaningful(u) \cap
                    {"deltaNeutralConId", "deltaNeutralOpenClose", "trailingPercent"},
             v >= PlaceOrderGates[a]
      PROVE  Carries(c, a) \/ Carries(o, a) \/ Carries(t, a)
  BY <1>1, <1>2, <1>3, <1>6 DEF Meaningful, Depends, PlaceOrderGates
<1> QED
  BY <1>1, <1>2, <1>3, <1>4, <1>5, <1>6, Six

\* The scale parameters.
LEMMA OrderScalePart ==
  ASSUME NEW v \in Nat, NEW u
  PROVE  /\ Message(OrderScale(v, u))
         /\ \A a \in Meaningful(u) \cap
                    {"scaleSubsLevelSize", "scalePriceAdjustValue", "scaleTable"} :
              v >= PlaceOrderGates[a] => Carries(OrderScale(v, u), a)
<1> DEFINE n == Plain(1) \o Arg("scaleSubsLevelSize", 1, u)
           m == <<<<"scaleNumComponents", "set">>>> \o Plain(1)
           s == IF v >= MinVer.SCALE_ORDERS2 THEN n ELSE m
           i == Arg("scalePriceIncrement", 1, u)
           p == When(v >= MinVer.SCALE_ORDERS3 /\ "scalePriceIncrement" \in u,
                     Arg("scalePriceAdjustValue", 7, u))
           t == When(v >= MinVer.SCALE_TABLE, Arg("scaleTable", 3, u))
<1>1. Message(n) /\ ("scaleSubsLevelSize" \in u => Carries(n, "scaleSubsLevelSize"))
  <2>1. /\ Message(Arg("scaleSubsLevelSize", 1, u)) /\ Message(Plain(1))
        /\ "scaleSubsLevelSize" \in u =>
             Carries(Arg("scaleSubsLevelSize", 1, u), "scaleSubsLevelSize")
    BY ArgFields, PlainFields
  <2> QED
    BY <2>1, Two
<1>2. Message(m)
  BY OneField, PlainFields, Two
<1> HIDE DEF n, m
<1>3. Message(s) /\ ("scaleSubsLevelSize" \in u /\ v >= MinVer.SCALE_ORDERS2 =>
                       Carries(s, "scaleSubsLevelSize"))
  BY <1>1, <1>2
<1>4. Message(i)
  BY ArgFields
<1>5. Message(p) /\ ("scalePriceIncrement" \in u /\ "scalePriceAdjustValue" \in u
                          /\ v >= MinVer.SCALE_ORDERS3
                        => Carries(p, "scalePriceAdjustValue"))
  BY ArgFields, EmptyMessage DEF When
<1>6. Message(t) /\ ("scaleTable" \in u /\ v >= MinVer.SCALE_TABLE =>
                       Carries(t, "scaleTable"))
  BY ArgFields, EmptyMessage DEF When
<1>7. OrderScale(v, u) = s \o i \o p \o t
  BY DEF OrderScale, n, m
<1> HIDE DEF s, i, p, t
<1>8. ASSUME NEW a \in Meaningful(u) \cap
                    {"scaleSubsLevelSize", "scalePriceAdjustValue", "scaleTable"},
             v >= PlaceOrderGates[a]
      PROVE  Carries(s, a) \/ Carries(p, a) \/ Carries(t, a)
  BY <1>3, <1>5, <1>6, <1>8 DEF Meaningful, Depends, PlaceOrderGates
<1> QED
  BY <1>3, <1>4, <1>5, <1>6, <1>7, <1>8, Four

\* The hedge.
LEMMA OrderHedgePart ==
  ASSUME NEW v \in Nat, NEW u
  PROVE  /\ Message(OrderHedge(v, u))
         /\ "hedgeType" \in u /\ v >= MinVer.HEDGE_ORDERS =>
              Carries(OrderHedge(v, u), "hedgeType")
<1> DEFINE h == Arg("hedgeType", 1, u)
           p == When("hedgeType" \in u, Arg("hedgeParam", 1, u))
<1>1. Message(h) /\ ("hedgeType" \in u => Carries(h, "hedgeType"))
  BY ArgFields
<1>2. Message(p)
  BY ArgFields, EmptyMessage DEF When
<1>3. OrderHedge(v, u) = When(v >= MinVer.HEDGE_ORDERS, h \o p)
  BY DEF OrderHedge
<1> HIDE DEF h, p
<1>4. Message(h \o p) /\ ("hedgeType" \in u => Carries(h \o p, "hedgeType"))
  BY <1>1, <1>2, Two
<1> QED
  BY <1>3, <1>4, EmptyMessage DEF When

\* Routing and holding.
LEMMA OrderRoutingPart ==
  ASSUME NEW v \in Nat, NEW u
  PROVE  /\ Message(OrderRouting(v, u))
         /\ \A a \in u \cap {"optOutSmartRouting", "notHeld"} :
              v >= PlaceOrderGates[a] => Carries(OrderRouting(v, u), a)
<1> DEFINE o == When(v >= MinVer.OPT_OUT_SMART_ROUTING, Arg("optOutSmartRouting", 1, u))
           c == When(v >= MinVer.PTA_ORDERS, Arg("clearingAccount", 2, u))
           n == When(v >= MinVer.NOT_HELD, Arg("notHeld", 1, u))
<1>1. Message(o) /\ ("optOutSmartRouting" \in u /\ v >= MinVer.OPT_OUT_SMART_ROUTING
                        => Carries(o, "optOutSmartRouting"))
  BY ArgFields, EmptyMessage DEF When
<1>2. Message(c)
  BY ArgFields, EmptyMessage DEF When
<1>3. Message(n) /\ ("notHeld" \in u /\ v >= MinVer.NOT_HELD => Carries(n, "notHeld"))
  BY ArgFields, EmptyMessage DEF When
<1>4. OrderRouting(v, u) = o \o c \o n
  BY DEF OrderRouting
<1> HIDE DEF o, c, n
<1>5. \A a \in u \cap {"optOutSmartRouting", "notHeld"} :
         v >= PlaceOrderGates[a] => Carries(o, a) \/ Carries(n, a)
  BY <1>1, <1>3 DEF PlaceOrderGates
<1> QED
  BY <1>1, <1>2, <1>3, <1>4, <1>5, Three

\* The algorithm.
LEMMA OrderTailPart ==
  ASSUME NEW v \in Nat, NEW u
  PROVE  /\ Message(OrderTail(v, u))
         /\ "algoStrategy" \in u /\ v >= MinVer.ALGO_ORDERS =>
              Carries(OrderTail(v, u), "algoStrategy")
<1> DEFINE s == Arg("algoStrategy", 1, u)
           c == Arg("algoParam", 1, u)
           t == When("algoParam" \in u, Plain(2))
           p == When("algoStrategy" \in u, c \o t)
<1>1. Message(s) /\ ("algoStrategy" \in u => Carries(s, "algoStrategy"))
  BY ArgFields
<1>2. Message(c) /\ Message(t)
  BY ArgFields, PlainFields, EmptyMessage DEF When
<1>3. OrderAlgo(v, u) = When(v >= MinVer.ALGO_ORDERS, s \o p)
  BY DEF OrderAlgo
<1> HIDE DEF s, c, t
<1>4. Message(p)
  <2>1. Message(c \o t)
    BY <1>2, Two
  <2> QED
    BY <2>1, EmptyMessage DEF When
<1> HIDE DEF p
<1>5. Message(s \o p) /\ ("algoStrategy" \in u => Carries(s \o p, "algoStrategy"))
  BY <1>1, <1>4, Two
<1>6. /\ Message(OrderAlgo(v, u))
      /\ "algoStrategy" \in u /\ v >= MinVer.ALGO_ORDERS =>
           Carries(OrderAlgo(v, u), "algoStrategy")
  BY <1>3, <1>5, EmptyMessage DEF When
<1>7. Message(Plain(1)) /\ Message(Options("orderMiscOptions", v, u))
  BY PlainFields, OptionsPart
<1> QED
  BY <1>6, <1>7, Three DEF OrderTail

\* The same for the whole order: every argument placeOrder checks against a
\* version is in the message from that version on.
LEMMA PlaceOrderCarries ==
  ASSUME NEW v \in Nat, NEW u, WellFormed(u),
         NEW a \in Meaningful(u) \cap DOMAIN PlaceOrderGates,
         v >= PlaceOrderGates[a]
  PROVE  Carries(PlaceOrder(v, u), a)
<1> DEFINE h == Header("PLACE_ORDER", 2)
           c == OrderContract(v, u)
           l == OrderComboLegs(v, u)
           e == OrderExtended(v, u)
           d == OrderDeltaNeutral(v, u)
           s == OrderScale(v, u)
           g == OrderHedge(v, u)
           r == OrderRouting(v, u)
           n == UnderComp(v, u)
           t == OrderTail(v, u)
           first == h \o c \o OrderMain \o l \o e
           most == first \o d \o s \o g \o r
<1>1. Message(h) /\ Message(OrderMain)
  BY HeaderFields, PlainFields DEF OrderMain
<1>2. /\ Message(c) /\ Message(l) /\ Message(e) /\ Message(d) /\ Message(s)
      /\ Message(g) /\ Message(r) /\ Message(n) /\ Message(t)
  BY OrderContractPart, OrderComboLegsPart, OrderExtendedPart, OrderDeltaNeutralPart,
     OrderScalePart, OrderHedgePart, OrderRoutingPart, UnderCompPart, OrderTailPart
<1>3. a \in u
  BY DEF Meaningful
<1>4. \/ Carries(c, a) \/ Carries(l, a) \/ Carries(e, a) \/ Carries(d, a)
      \/ Carries(s, a) \/ Carries(g, a) \/ Carries(r, a) \/ Carries(n, a)
      \/ Carries(t, a)
  <2>1. CASE a \in {"conId", "tradingClass", "secId"}
    BY <1>3, <2>1, OrderContractPart
  <2>2. CASE a \in {"legExemptCode", "orderComboLegPrice"}
    BY <2>2, OrderComboLegsPart
  <2>3. CASE a = "exemptCode"
    <3>1. v >= MinVer.SSHORTX_OLD
      BY <2>3 DEF PlaceOrderGates, MinVer
    <3> QED
      BY <1>3, <2>3, <3>1, OrderExtendedPart
  <2>4. CASE a \in {"deltaNeutralConId", "deltaNeutralOpenClose", "trailingPercent"}
    BY <2>4, OrderDeltaNeutralPart
  <2>5. CASE a \in {"scaleSubsLevelSize", "scalePriceAdjustValue", "scaleTable"}
    BY <2>5, OrderScalePart
  <2>6. CASE a = "hedgeType"
    BY <1>3, <2>6, OrderHedgePart DEF PlaceOrderGates
  <2>7. CASE a \in {"optOutSmartRouting", "notHeld"}
    BY <1>3, <2>7, OrderRoutingPart
  <2>8. CASE a = "underComp"
    BY <1>3, <2>8, UnderCompPart DEF PlaceOrderGates
  <2>9. CASE a = "algoStrategy"
    BY <1>3, <2>9, OrderTailPart DEF PlaceOrderGates
  <2> QED
    BY <2>1, <2>2, <2>3, <2>4, <2>5, <2>6, <2>7, <2>8, <2>9 DEF PlaceOrderGates
<1>5. PlaceOrder(v, u) = most \o n \o t
  BY DEF PlaceOrder
<1> HIDE DEF h, c, l, e, d, s, g, r, n, t
<1>6. /\ Message(first)
      /\ Carries(c, a) \/ Carries(l, a) \/ Carries(e, a) => Carries(first, a)
  BY <1>1, <1>2, Five
<1> HIDE DEF first
<1>7. /\ Message(most)
      /\ (Carries(first, a) \/ Carries(d, a) \/ Carries(s, a) \/ Carries(g, a)
            \/ Carries(r, a)) => Carries(most, a)
  BY <1>2, <1>6, Five
<1> HIDE DEF most
<1>8. Carries(most, a) \/ Carries(n, a) \/ Carries(t, a)
  BY <1>4, <1>6, <1>7
<1>9. Carries(most \o n \o t, a)
  BY <1>2, <1>7, <1>8, Three
<1> QED
  BY <1>5, <1>9

--------------------------------------------------------------------------------
(* The theorem.                                                            *)

\* A call that is not refused carries what it sets and the request checks.
LEMMA NotRefusedCarries ==
  ASSUME NEW req, NEW v \in Nat, NEW u, WellFormed(u), ~Refuses(req, v, u),
         NEW a \in Meaningful(u) \cap DOMAIN ArgGates(req)
  PROVE  Carries(Fields(req, v, u), a)
<1>1. a \in u /\ a \in Checked(u)
  BY DEF Meaningful, Depends, Checked
<1>2. ~(v < ArgGates(req)[a])
  BY <1>1 DEF Refuses
<1>3. CASE req = "reqHistoricalData"
  <2>1. ArgGates(req) = BothGates /\ Fields(req, v, u) = HistoricalData(v, u)
    BY <1>3 DEF ArgGates, Fields, LogRequests, AccountRequests, CalculationRequests
  <2>2. a \in {"conId", "tradingClass"} /\ v >= MinVer.TRADING_CLASS
    BY <1>2, <2>1 DEF BothGates, MinVer
  <2> QED
    BY <1>1, <2>1, <2>2, HistoricalDataCarries
<1>4. CASE req = "reqRealTimeBars"
  <2>1. ArgGates(req) = BothGates /\ Fields(req, v, u) = RealTimeBars(v, u)
    BY <1>4 DEF ArgGates, Fields, LogRequests, AccountRequests, CalculationRequests
  <2>2. a \in {"conId", "tradingClass"} /\ v >= MinVer.TRADING_CLASS
    BY <1>2, <2>1 DEF BothGates, MinVer
  <2> QED
    BY <1>1, <2>1, <2>2, RealTimeBarsCarries
<1>5. CASE req = "reqMktData"
  <2>1. ArgGates(req) = MktDataGates /\ Fields(req, v, u) = MktData(v, u)
    BY <1>5 DEF ArgGates, Fields, LogRequests, AccountRequests, CalculationRequests
  <2>2. a \in DOMAIN MktDataGates /\ v >= MktDataGates[a]
    BY <1>2, <2>1 DEF MktDataGates, MinVer
  <2> QED
    BY <1>1, <2>1, <2>2, MktDataCarries
<1>6. CASE req = "placeOrder"
  <2>1. ArgGates(req) = PlaceOrderGates /\ Fields(req, v, u) = PlaceOrder(v, u)
    BY <1>6 DEF ArgGates, Fields, LogRequests, AccountRequests, CalculationRequests
  <2>2. a \in DOMAIN PlaceOrderGates /\ v >= PlaceOrderGates[a]
    BY <1>2, <2>1 DEF PlaceOrderGates, MinVer
  <2> QED
    BY <2>1, <2>2, PlaceOrderCarries
<1>7. CASE req = "reqContractDetails"
  <2>1. ArgGates(req) = ContractDataGates /\ Fields(req, v, u) = ContractData(v, u)
    BY <1>7 DEF ArgGates, Fields, LogRequests, AccountRequests, CalculationRequests
  <2>2. a \in DOMAIN ContractDataGates /\ v >= ContractDataGates[a]
    BY <1>2, <2>1 DEF ContractDataGates, MinVer
  <2> QED
    BY <1>1, <2>1, <2>2, ContractDataCarries
<1>8. CASE req \in {"excerciseOptions", "calculateOptionPrice"}
  <2>1. /\ ArgGates(req) = ClassGate
        /\ Fields(req, v, u) \in {ExerciseOptions(v, u), OptionPrice(v, u)}
    BY <1>8 DEF ArgGates, Fields, LogRequests, AccountRequests, CalculationRequests
  <2>2. a = "tradingClass" /\ v >= MinVer.TRADING_CLASS
    BY <1>2, <2>1 DEF ClassGate, MinVer
  <2> QED
    BY <1>1, <2>1, <2>2, ClassCarries
<1>9. CASE req \notin {"reqHistoricalData", "reqRealTimeBars", "reqMktData", "placeOrder",
                      "reqContractDetails", "excerciseOptions", "calculateOptionPrice"}
  <2>1. ArgGates(req) = <<>>
    BY <1>9 DEF ArgGates
  <2>2. DOMAIN <<>> = {}
    OBVIOUS
  <2> QED
    BY <2>1, <2>2
<1> QED
  BY <1>3, <1>4, <1>5, <1>6, <1>7, <1>8, <1>9

\* The session has a version whenever it is up.
Inv == m_serverVersion \in Nat /\ CheckedArgumentsTravel

\* For every server version and every combination of arguments: an argument
\* that a request function checks against the version of the server is either
\* refused or is among the fields of the message that send() gets.
THEOREM CheckedArgumentsTravelHolds == Spec => []CheckedArgumentsTravel
<1>1. Init => Inv
  BY DEF Init, Inv, CheckedArgumentsTravel, Accepted
<1>2. ASSUME Inv, [Next]_vars PROVE Inv'
  <2>1. CASE Greeting
    <3>1. m_serverVersion' \in Nat
      BY <2>1, RequestsAssumption DEF Greeting
    <3>2. ~Accepted'
      BY <2>1 DEF Greeting, Accepted, NoCall
    <3> QED
      BY <3>1, <3>2 DEF Inv, CheckedArgumentsTravel
  <2>2. CASE DisconnectTWS
    <3>1. m_serverVersion' \in Nat
      BY <2>2 DEF DisconnectTWS
    <3>2. ~Accepted'
      BY <2>2 DEF DisconnectTWS, Accepted, NoCall
    <3> QED
      BY <3>1, <3>2 DEF Inv, CheckedArgumentsTravel
  <2>3. ASSUME NEW req \in DOMAIN Inputs, NEW u \in Inputs[req], Request(req, u)
        PROVE  Inv'
    <3>1. m_serverVersion' \in Nat
      BY <1>2, <2>3 DEF Request, Inv
    <3>2. ASSUME Accepted',
                 NEW a \in Meaningful(u) \cap DOMAIN ArgGates(req)
          PROVE  Carries(last'.fields, a)
      <4>1. Outcome(req, u) = "sent"
        BY <2>3, <3>2 DEF Request, Accepted
      <4>2. last'.fields = Fields(req, m_serverVersion, u)
        BY <2>3, <4>1 DEF Request
      <4>3. ~Refuses(req, m_serverVersion, u)
        BY <4>1 DEF Outcome
      <4>4. m_serverVersion \in Nat /\ WellFormed(u)
        BY <1>2, RequestsAssumption DEF Inv
      <4> QED
        BY <4>2, <4>3, <4>4, NotRefusedCarries
    <3>3. last'.req = req /\ last'.uses = u
      BY <2>3 DEF Request
    <3> QED
      BY <3>1, <3>2, <3>3 DEF Inv, CheckedArgumentsTravel
  <2>4. CASE UNCHANGED vars
    BY <1>2, <2>4 DEF vars, Inv, CheckedArgumentsTravel, Accepted
  <2> QED
    BY <1>2, <2>1, <2>2, <2>3, <2>4 DEF Next
<1>3. Inv => CheckedArgumentsTravel
  BY DEF Inv
<1> QED
  BY <1>1, <1>2, <1>3, PTL DEF Spec
================================================================================
