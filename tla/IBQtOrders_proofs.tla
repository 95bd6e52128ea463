--------------------------- MODULE IBQtOrders_proofs ---------------------------
(***************************************************************************)
(* Proofs about IBQtOrders, for any orders, servers and bounds: the ids,   *)
(* the conversions of encodeField and decodeField, the fields of           *)
(* placeOrder and of OPEN_ORDER, and what an order says after it was       *)
(* placed, told and placed again.                                          *)
(***************************************************************************)
EXTENDS IBQtOrders, IBQtInbound_proofs, SequenceTheorems, FiniteSetTheorems,
        WellFoundedInduction, TLAPS

--------------------------------------------------------------------------------
(* Sequences of frames of any kind.                                        *)

IsSeq(s) == \E S : s \in Seq(S)

\* The indices of a sequence.
LEMMA SeqDomain ==
  ASSUME NEW s, IsSeq(s)
  PROVE  Len(s) \in Nat /\ DOMAIN s = 1..Len(s)
  BY DEF IsSeq

\* A sequence of one element.
LEMMA OneSeq ==
  ASSUME NEW e
  PROVE  IsSeq(<<e>>) /\ DOMAIN <<e>> = {1} /\ <<e>>[1] = e
<1>1. <<e>> \in Seq({e}) /\ Len(<<e>>) = 1 /\ <<e>>[1] = e
  OBVIOUS
<1>2. DOMAIN <<e>> = 1..Len(<<e>>)
  BY <1>1, LenProperties
<1>3. 1..1 = {1}
  OBVIOUS
<1> QED
  BY <1>1, <1>2, <1>3 DEF IsSeq

\* Append() adds an element behind the others.
LEMMA AppendSeq ==
  ASSUME NEW s, IsSeq(s), NEW e
  PROVE  /\ IsSeq(Append(s, e))
         /\ DOMAIN Append(s, e) = 1..(Len(s) + 1)
         /\ \A i \in DOMAIN s : Append(s, e)[i] = s[i]
         /\ Append(s, e)[Len(s) + 1] = e
<1>1. PICK S : s \in Seq(S)
  BY DEF IsSeq
<1>2. s \in Seq(S \cup {e}) /\ e \in S \cup {e}
  BY <1>1, SeqMonotonic
<1>3. Append(s, e) \in Seq(S \cup {e})
  BY <1>2, AppendProperties
<1>4. /\ Len(Append(s, e)) = Len(s) + 1
      /\ \A i \in 1..Len(s) : Append(s, e)[i] = s[i]
      /\ Append(s, e)[Len(s) + 1] = e
  BY <1>2, AppendProperties
<1>5. DOMAIN Append(s, e) = 1..Len(Append(s, e)) /\ DOMAIN s = 1..Len(s)
  BY <1>2, <1>3, LenProperties
<1> QED
  BY <1>3, <1>4, <1>5 DEF IsSeq

\* Tail() moves the elements behind the first to the front.
LEMMA TailSeq ==
  ASSUME NEW s, IsSeq(s), s # <<>>
  PROVE  /\ 1 \in DOMAIN s /\ Head(s) = s[1]
         /\ IsSeq(Tail(s))
         /\ \A i : i \in DOMAIN Tail(s) <=> i \in Nat \ {0} /\ i + 1 \in DOMAIN s
         /\ \A i \in DOMAIN Tail(s) : Tail(s)[i] = s[i + 1]
<1>1. PICK S : s \in Seq(S)
  BY DEF IsSeq
<1>2. /\ Tail(s) \in Seq(S)
      /\ Len(Tail(s)) = Len(s) - 1
      /\ \A i \in 1..Len(Tail(s)) : Tail(s)[i] = s[i + 1]
  BY <1>1, HeadTailProperties
<1>3. Len(s) \in Nat \ {0} /\ DOMAIN s = 1..Len(s) /\ DOMAIN Tail(s) = 1..Len(Tail(s))
  BY <1>1, <1>2, EmptySeq, LenProperties
<1>4. Head(s) = s[1]
  BY <1>1
<1> QED
  BY <1>2, <1>3, <1>4 DEF IsSeq

\* A connection that ends keeps a beginning of what was in flight.
LEMMA FrontSeq ==
  ASSUME NEW s, IsSeq(s), NEW n \in 0..Len(s)
  PROVE  /\ IsSeq(SubSeq(s, 1, n))
         /\ DOMAIN SubSeq(s, 1, n) \subseteq DOMAIN s
         /\ \A i \in DOMAIN SubSeq(s, 1, n) : SubSeq(s, 1, n)[i] = s[i]
<1>1. PICK S : s \in Seq(S)
  BY DEF IsSeq
<1>2. Len(s) \in Nat /\ DOMAIN s = 1..Len(s) /\ \A i \in 1..n : s[i] \in S
  BY <1>1
<1>3. /\ SubSeq(s, 1, n) \in Seq(S)
      /\ Len(SubSeq(s, 1, n)) = IF 1 <= n THEN n - 1 + 1 ELSE 0
      /\ \A i \in 1..(n - 1 + 1) : SubSeq(s, 1, n)[i] = s[1 + i - 1]
  BY <1>2, SubSeqProperties
<1> QED
  BY <1>2, <1>3 DEF IsSeq

--------------------------------------------------------------------------------
(* Numbers.                                                                *)

\* Ids in the range of an int are sent as they are.
LEMMA NarrowFits ==
  ASSUME NEW id \in 0..IntMax
  PROVE  Narrow(id) = id
<1>1. IntMax \in Nat
  BY OrdersAssumption
<1>2. id + IntMax + 1 \in 0..(2 * (IntMax + 1) - 1)
  BY <1>1
<1>3. (id + IntMax + 1) % (2 * (IntMax + 1)) = id + IntMax + 1
  BY <1>1, <1>2
<1> QED
  BY <1>1, <1>3 DEF Narrow

\* A bounded set of ids has a greatest one, or is empty.
LEMMA Greatest ==
  ASSUME NEW n \in Nat, NEW D \in SUBSET (0..n)
  PROVE  \E g \in D \cup {0} : \A i \in D : i <= g
<1> DEFINE Bounds == {k \in Nat : \A i \in D : i <= k}
<1>1. PICK k \in Bounds : \A l \in Bounds : ~ (<<l, k>> \in OpToRel(<, Nat))
  <2>1. n \in Bounds /\ Bounds \subseteq Nat
    OBVIOUS
  <2> HIDE DEF Bounds
  <2> QED
    BY <2>1, WFMin, NatLessThanWellFounded
<1>2. \A l \in Bounds : ~ (l < k)
  BY <1>1 DEF OpToRel
<1>3. CASE k \in D \cup {0}
  BY <1>3
<1>4. CASE k \notin D \cup {0}
  <2>1. k - 1 \in Bounds
    BY <1>4
  <2> QED
    BY <2>1, <1>2
<1> QED
  BY <1>3, <1>4

\* The next id that TWS gives is greater than those of the orders it holds.
LEMMA NextIdIsNew ==
  ASSUME NEW n \in Nat, DOMAIN book \subseteq 0..n
  PROVE  /\ NextId \in 0..(n + 1)
         /\ \A i \in DOMAIN book : i < NextId
<1> DEFINE g == CHOOSE g \in DOMAIN book \cup {0} : \A i \in DOMAIN book : i <= g
<1>1. g \in DOMAIN book \cup {0} /\ \A i \in DOMAIN book : i <= g
  BY Greatest
<1>2. NextId = 1 + g
  BY DEF NextId
<1> HIDE DEF g
<1> QED
  BY <1>1, <1>2

--------------------------------------------------------------------------------
(* The inductive invariant of the ids.                                     *)

Kinds == {"placeOrder", "reqIds", "reqOpenOrders"}

\* The ids of the orders that TWS holds or is about to hold.
Used(id) ==
  \/ id \in DOMAIN book
  \/ \E i \in DOMAIN toTws : toTws[i].kind = "placeOrder" /\ toTws[i].id = id

\* Some reqIds is on its way to TWS.
ReqIdsInFlight == \E i \in DOMAIN toTws : toTws[i].kind = "reqIds"

Types ==
  /\ load \in Loads
  /\ placements \in 0..load.placements
  /\ m_orderId \in Nat
  /\ m_serverVersion \in {0, load.server}
  /\ slot \in BOOLEAN
  /\ IsSeq(toTws) /\ IsSeq(toClient)
  /\ \A i \in DOMAIN toTws : toTws[i].kind \in Kinds
  /\ \A i \in DOMAIN toClient : toClient[i].kind \in {"nextValidId", "openOrder"}

\* No id is ahead of the number of orders that were placed.
Bounded ==
  /\ DOMAIN book \subseteq 0..placements
  /\ m_orderId <= placements + 1
  /\ \A i \in DOMAIN toTws :
       toTws[i].kind = "placeOrder" => toTws[i].id \in 0..placements
  /\ \A i \in DOMAIN toClient :
       toClient[i].kind = "nextValidId" => toClient[i].id \in 0..(placements + 1)

\* What is modified, and what TWS tells of, is in the book.
Known ==
  /\ held # Nothing => held.id \in DOMAIN book
  /\ \A i \in DOMAIN toTws :
       toTws[i].kind = "placeOrder" /\ ~toTws[i].new => toTws[i].id \in DOMAIN book
  /\ \A i \in DOMAIN toClient :
       toClient[i].kind = "openOrder" => toClient[i].id \in DOMAIN book

\* No new order is sent behind a reqIds that TWS has still to read, by an
\* application that waits for the answer.
NoneBehindReqIds ==
  ~load.raises => \A i, j \in DOMAIN toTws :
    i < j /\ toTws[i].kind = "reqIds" /\ toTws[j].kind = "placeOrder" => ~toTws[j].new

\* The id that such an application goes by is ahead of all that were used: its
\* own counter, or, while answers are outstanding, the last answer.
CounterAhead == ~load.raises /\ Up /\ ~Asked => \A id : Used(id) => id < m_orderId

LastAnswer(i) ==
  /\ i \in DOMAIN toClient /\ toClient[i].kind = "nextValidId"
  /\ \A j \in DOMAIN toClient : j > i => toClient[j].kind # "nextValidId"

AnswerAhead ==
  ~load.raises /\ Up /\ ~ReqIdsInFlight =>
    \A i : LastAnswer(i) => \A id : Used(id) => id < toClient[i].id

\* The counter of an application that only raises it is ahead from the first
\* answer on, and before that no order is new and each answer is ahead.
RaisedAhead ==
  load.raises =>
    /\ m_orderId # 0 => \A id : Used(id) => id < m_orderId
    /\ m_orderId = 0 =>
         \A i \in DOMAIN toClient : toClient[i].kind = "nextValidId" =>
           \A id : Used(id) => id < toClient[i].id
    /\ m_orderId = 0 /\ Up =>
         \A i \in DOMAIN toTws : toTws[i].kind = "placeOrder" => ~toTws[i].new

IdInv ==
  /\ Types /\ Bounded /\ Known
  /\ NoneBehindReqIds /\ CounterAhead /\ AnswerAhead /\ RaisedAhead
  /\ NewOrdersGetNewIds

--------------------------------------------------------------------------------
\* There is nothing at the beginning.
LEMMA InitIdInv == Init => IdInv
<1> SUFFICES ASSUME Init PROVE IdInv
  OBVIOUS
<1>1. load \in Loads /\ load.placements \in Nat
  BY OrdersAssumption DEF Init
<1>2. IsSeq(<<>>) /\ DOMAIN <<>> = {}
  BY EmptySeq, LenProperties DEF IsSeq
<1>3. DOMAIN toTws = {} /\ DOMAIN toClient = {} /\ DOMAIN book = {}
  BY <1>2 DEF Init
<1>4. Types
  <2>1. IsSeq(toTws) /\ IsSeq(toClient)
    BY <1>2 DEF Init
  <2>2. placements \in 0..load.placements
    BY <1>1 DEF Init
  <2> QED
    BY <1>1, <1>3, <2>1, <2>2 DEF Init, Types
<1>5. Bounded /\ Known
  BY <1>3 DEF Init, Bounded, Known
<1>6. ~Up
  BY DEF Init, Up
<1> QED
  BY <1>3, <1>4, <1>5, <1>6
     DEF IdInv, NoneBehindReqIds, CounterAhead, AnswerAhead, RaisedAhead, NewOrdersGetNewIds,
         InFlight, Used, Init

\* The invariant over a step that leaves the ids and the messages alone.
LEMMA IdleIdInv ==
  ASSUME IdInv, UNCHANGED <<load, m_orderId, m_serverVersion, toTws, toClient, book,
                            held, placements>>,
         slot' \in BOOLEAN
  PROVE  IdInv'
  BY DEF IdInv, Types, Bounded, Known, NoneBehindReqIds, CounterAhead, AnswerAhead,
         RaisedAhead, NewOrdersGetNewIds, InFlight, Used, ReqIdsInFlight, LastAnswer, Asked, Up

\* The greeting: TWS has read all, and its answer is ahead of its book.
LEMMA ConnectIdInv ==
  ASSUME IdInv, Connect
  PROVE  IdInv'
<1> DEFINE frame == [kind |-> "nextValidId", id |-> NextId]
<1>1. toTws = <<>> /\ toTws' = <<>> /\ DOMAIN toTws = {} /\ toClient' = <<frame>>
  <2>1. DOMAIN <<>> = {}
    BY EmptySeq, LenProperties
  <2> QED
    BY <2>1 DEF Connect
<1>2. DOMAIN toClient' = {1} /\ toClient'[1] = frame /\ IsSeq(toClient')
  BY <1>1, OneSeq
<1>3. NextId \in 0..(placements + 1) /\ \A i \in DOMAIN book : i < NextId
  <2>1. placements \in Nat /\ DOMAIN book \subseteq 0..placements
    BY OrdersAssumption DEF IdInv, Types, Bounded
  <2> QED
    BY <2>1, NextIdIsNew
<1> HIDE DEF frame
<1>4. frame.kind = "nextValidId" /\ frame.id = NextId
  BY DEF frame
<1>5. UNCHANGED <<load, m_orderId, toTws, book, held, slot, placements>>
      /\ m_serverVersion' = load.server
  BY DEF Connect, bounds
<1>6. Types'
  BY <1>1, <1>2, <1>4, <1>5 DEF IdInv, Types
<1>7. Bounded' /\ Known'
  BY <1>1, <1>2, <1>3, <1>4, <1>5 DEF IdInv, Bounded, Known
<1>8. Asked'
  BY <1>2, <1>4 DEF Asked
<1>9. AnswerAhead'
  BY <1>1, <1>2, <1>3, <1>4, <1>5 DEF AnswerAhead, LastAnswer, Used
<1>10. RaisedAhead'
  BY <1>1, <1>2, <1>3, <1>4, <1>5 DEF IdInv, RaisedAhead, Used
<1> QED
  BY <1>1, <1>6, <1>7, <1>8, <1>9, <1>10
     DEF IdInv, NoneBehindReqIds, CounterAhead, NewOrdersGetNewIds, InFlight

\* A connection that ends: what is in flight is a part of what was.
LEMMA LoseIdInv ==
  ASSUME IdInv, NEW n \in 0..Len(toTws), Lose(n),
         m_orderId' \in {0, m_orderId}, held' \in {Nothing, held}, slot' \in {FALSE, slot}
  PROVE  IdInv'
<1>1. /\ toTws' = SubSeq(toTws, 1, n) /\ IsSeq(toTws)
      /\ toClient' = <<>> /\ UNCHANGED <<load, book, placements>>
      /\ m_serverVersion' = 0
  BY DEF Lose, IdInv, Types
<1>2. /\ IsSeq(toTws') /\ DOMAIN toTws' \subseteq DOMAIN toTws
      /\ \A i \in DOMAIN toTws' : toTws'[i] = toTws[i]
  BY <1>1, FrontSeq
<1>3. IsSeq(toClient') /\ DOMAIN toClient' = {}
  BY <1>1, EmptySeq, LenProperties DEF IsSeq
<1>4. placements \in Nat /\ m_orderId' \in Nat /\ m_orderId' <= placements + 1
  BY OrdersAssumption DEF IdInv, Types, Bounded
<1>5. Types'
  BY <1>1, <1>2, <1>3, <1>4 DEF IdInv, Types
<1>6. Bounded' /\ Known'
  BY <1>1, <1>2, <1>3, <1>4 DEF IdInv, Bounded, Known
<1>7. NoneBehindReqIds'
  BY <1>1, <1>2 DEF IdInv, NoneBehindReqIds
<1>8. NewOrdersGetNewIds'
  BY <1>1, <1>2 DEF IdInv, NewOrdersGetNewIds, InFlight
<1>9. ~Up'
  BY <1>1 DEF Up
<1>10. RaisedAhead'
  <2>1. \A id : Used(id)' => Used(id)
    BY <1>1, <1>2 DEF Used
  <2> QED
    BY <1>1, <1>3, <1>9, <2>1 DEF IdInv, RaisedAhead
<1> QED
  BY <1>5, <1>6, <1>7, <1>8, <1>9, <1>10 DEF IdInv, CounterAhead, AnswerAhead

\* A question behind the messages in flight.
LEMMA AskIdInv ==
  ASSUME IdInv, NEW kind \in {"reqIds", "reqOpenOrders"}, Ask(kind)
  PROVE  IdInv'
<1>1. /\ toTws' = Append(toTws, [kind |-> kind]) /\ IsSeq(toTws)
      /\ UNCHANGED <<load, m_orderId, m_serverVersion, toClient, book, held, slot,
                     placements>>
  BY DEF Ask, SendToTws, object, IdInv, Types
<1>2. /\ IsSeq(toTws') /\ DOMAIN toTws' = 1..(Len(toTws) + 1)
      /\ \A i \in DOMAIN toTws : toTws'[i] = toTws[i]
      /\ toTws'[Len(toTws) + 1].kind = kind
  BY <1>1, AppendSeq
<1>3. DOMAIN toTws = 1..Len(toTws) /\ Len(toTws) \in Nat
  BY <1>1, SeqDomain
<1>4. Types'
  BY <1>1, <1>2, <1>3 DEF IdInv, Types, Kinds
<1>5. Bounded' /\ Known'
  BY <1>1, <1>2, <1>3 DEF IdInv, Bounded, Known
<1>6. NoneBehindReqIds'
  BY <1>1, <1>2, <1>3 DEF IdInv, NoneBehindReqIds
<1>7. NewOrdersGetNewIds'
  BY <1>1, <1>2, <1>3 DEF IdInv, NewOrdersGetNewIds, InFlight
<1>8. /\ \A id : Used(id)' => Used(id)
      /\ Asked => Asked'
      /\ ReqIdsInFlight => ReqIdsInFlight'
      /\ Up' = Up
      /\ \A i : LastAnswer(i)' = LastAnswer(i)
  BY <1>1, <1>2, <1>3 DEF Used, Asked, ReqIdsInFlight, Up, LastAnswer
<1>9. CounterAhead' /\ AnswerAhead'
  BY <1>1, <1>8 DEF IdInv, CounterAhead, AnswerAhead
<1>10. RaisedAhead'
  BY <1>1, <1>2, <1>3, <1>8 DEF IdInv, RaisedAhead
<1> QED
  BY <1>4, <1>5, <1>6, <1>7, <1>9, <1>10 DEF IdInv

\* An order behind the messages in flight.
LEMMA PlaceIdInv ==
  ASSUME IdInv, NEW id \in Nat, id <= placements + 1, NEW order, NEW answer,
         NEW new \in BOOLEAN, PlaceOrder(id, order, answer, new),
         new => MayTakeId /\ id = m_orderId /\ m_orderId' = m_orderId + 1,
         ~new => id \in DOMAIN book /\ m_orderId' = m_orderId
  PROVE  IdInv'
<1> DEFINE last == Len(toTws) + 1
<1>1. /\ Up /\ placements < load.placements /\ placements' = placements + 1
      /\ UNCHANGED <<load, m_serverVersion, toClient, book, held, slot>>
  BY DEF PlaceOrder
<1>2. /\ placements \in Nat /\ load.placements \in Nat /\ load.placements <= IntMax
      /\ IntMax \in Nat
  BY OrdersAssumption DEF IdInv, Types
<1>3. Narrow(id) = id
  <2>1. id \in 0..IntMax
    BY <1>1, <1>2
  <2> QED
    BY <2>1, NarrowFits
<1>4. PICK frame : /\ toTws' = Append(toTws, frame)
                   /\ frame.kind = "placeOrder" /\ frame.id = id /\ frame.new = new
  BY <1>3 DEF PlaceOrder, SendToTws
<1>5. IsSeq(toTws) /\ DOMAIN toTws = 1..Len(toTws) /\ Len(toTws) \in Nat
  BY SeqDomain DEF IdInv, Types
<1>6. /\ IsSeq(toTws') /\ DOMAIN toTws' = 1..last
      /\ \A i \in DOMAIN toTws : toTws'[i] = toTws[i]
      /\ toTws'[last] = frame
  BY <1>4, <1>5, AppendSeq
<1>7. last \in Nat /\ DOMAIN toTws' = DOMAIN toTws \cup {last} /\ \A i \in DOMAIN toTws : i < last
  BY <1>5, <1>6
<1> HIDE DEF last
<1>8. Types'
  <2>1. m_orderId' \in Nat /\ placements' \in 0..load.placements
    BY <1>1, <1>2 DEF IdInv, Types
  <2> QED
    BY <1>1, <1>4, <1>6, <1>7, <2>1 DEF IdInv, Types, Kinds
<1>9. Bounded'
  <2>1. 0..placements \subseteq 0..placements' /\ 0..(placements + 1) \subseteq 0..(placements' + 1)
    BY <1>1, <1>2
  <2>2. id \in 0..placements'
    BY <1>1, <1>2
  <2>3. m_orderId' <= placements' + 1
    BY <1>1, <1>2 DEF IdInv, Types, Bounded
  <2> QED
    BY <1>1, <1>4, <1>6, <1>7, <2>1, <2>2, <2>3 DEF IdInv, Bounded
<1>10. Known'
  BY <1>1, <1>4, <1>6, <1>7 DEF IdInv, Known
<1>11. NoneBehindReqIds'
  BY <1>1, <1>4, <1>6, <1>7 DEF IdInv, NoneBehindReqIds, Asked, MayTakeId
<1>12. \A i : Used(i)' <=> Used(i) \/ i = id
  BY <1>1, <1>4, <1>6, <1>7 DEF Used
<1>13. /\ Asked' <=> Asked
       /\ ReqIdsInFlight' <=> ReqIdsInFlight
       /\ \A i : LastAnswer(i)' <=> LastAnswer(i)
       /\ Up' <=> Up
  BY <1>1, <1>4, <1>6, <1>7 DEF Asked, ReqIdsInFlight, LastAnswer, Up
<1>14. ~new => Used(id)
  BY DEF Used
<1>15. \A i : Used(i) => i \in Nat
  BY <1>2 DEF Used, IdInv, Bounded
<1>16. CounterAhead'
  BY <1>1, <1>12, <1>13, <1>14, <1>15 DEF IdInv, CounterAhead, Types
<1>17. AnswerAhead'
  <2>1. new /\ ~load.raises => \A i : ~LastAnswer(i)
    BY DEF LastAnswer, Asked, MayTakeId
  <2> QED
    BY <1>1, <1>12, <1>13, <1>14, <2>1 DEF IdInv, AnswerAhead
<1>18. NewOrdersGetNewIds'
  <2>1. new => ~Used(id)
    BY <1>1, <1>15 DEF IdInv, CounterAhead, RaisedAhead, MayTakeId, Types
  <2> QED
    BY <1>1, <1>4, <1>6, <1>7, <2>1 DEF IdInv, NewOrdersGetNewIds, InFlight, Used
<1>19. RaisedAhead'
  <2> SUFFICES ASSUME load.raises
               PROVE  RaisedAhead'
    BY <1>1 DEF RaisedAhead
  <2>1. CASE new
    <3>1. m_orderId # 0 /\ m_orderId \in Nat /\ \A i : Used(i) => i < m_orderId
      BY <2>1 DEF IdInv, RaisedAhead, MayTakeId, Types
    <3>2. m_orderId' # 0 /\ \A i : Used(i)' => i < m_orderId'
      BY <1>12, <1>15, <2>1, <3>1
    <3> QED
      BY <3>2 DEF RaisedAhead
  <2>2. CASE ~new
    <3>1. \A i : Used(i)' <=> Used(i)
      BY <1>12, <1>14, <2>2
    <3>2. m_orderId = 0 /\ Up =>
            \A i \in DOMAIN toTws' : toTws'[i].kind = "placeOrder" => ~toTws'[i].new
      BY <1>4, <1>6, <1>7, <2>2 DEF IdInv, RaisedAhead
    <3> QED
      BY <1>1, <2>2, <3>1, <3>2 DEF IdInv, RaisedAhead
  <2> QED
    BY <2>1, <2>2
<1> QED
  BY <1>8, <1>9, <1>10, <1>11, <1>16, <1>17, <1>18, <1>19 DEF IdInv

\* The counter takes the answer at the head.
LEMMA NextValidIdIdInv ==
  ASSUME IdInv, NextValidId
  PROVE  IdInv'
<1>1. /\ toClient # <<>> /\ Head(toClient).kind = "nextValidId"
      /\ SetOrderId(Head(toClient).id) /\ toClient' = Tail(toClient)
      /\ UNCHANGED <<load, m_serverVersion, toTws, book, held, slot, placements>>
      /\ IsSeq(toClient)
  BY DEF NextValidId, bounds, IdInv, Types
<1>2. /\ 1 \in DOMAIN toClient /\ Head(toClient) = toClient[1]
      /\ IsSeq(toClient')
      /\ \A i : i \in DOMAIN toClient' <=> i \in Nat \ {0} /\ i + 1 \in DOMAIN toClient
      /\ \A i \in DOMAIN toClient' : toClient'[i] = toClient[i + 1]
  BY <1>1, TailSeq
<1>3. DOMAIN toClient \subseteq Nat \ {0}
  BY <1>1, SeqDomain
<1>4. /\ placements \in Nat /\ m_orderId' \in 0..(placements + 1)
      /\ toClient[1].id \in Nat /\ m_orderId \in Nat
  BY <1>1, <1>2, OrdersAssumption DEF SetOrderId, IdInv, Types, Bounded
<1>5. Types'
  BY <1>1, <1>2, <1>4 DEF IdInv, Types
<1>6. Bounded' /\ Known'
  BY <1>1, <1>2, <1>4 DEF IdInv, Bounded, Known
<1>7. NoneBehindReqIds' /\ NewOrdersGetNewIds'
  BY <1>1 DEF IdInv, NoneBehindReqIds, NewOrdersGetNewIds, InFlight
<1>8. \A i : LastAnswer(i)' => LastAnswer(i + 1)
  <2> SUFFICES ASSUME NEW i, LastAnswer(i)' PROVE LastAnswer(i + 1)
    OBVIOUS
  <2>1. i \in Nat \ {0} /\ i + 1 \in DOMAIN toClient /\ toClient[i + 1].kind = "nextValidId"
    BY <1>2 DEF LastAnswer
  <2>2. ASSUME NEW j \in DOMAIN toClient, j > i + 1
        PROVE  toClient[j].kind # "nextValidId"
    <3>1. j - 1 \in DOMAIN toClient' /\ j - 1 > i /\ toClient'[j - 1] = toClient[j]
      BY <1>2, <1>3, <2>1, <2>2
    <3> QED
      BY <3>1 DEF LastAnswer
  <2> QED
    BY <2>1, <2>2 DEF LastAnswer
<1>9. AnswerAhead'
  <2> SUFFICES ASSUME ~load'.raises, Up', ~ReqIdsInFlight', NEW i, LastAnswer(i)',
                      NEW id, Used(id)'
               PROVE  id < toClient'[i].id
    BY DEF AnswerAhead
  <2>1. ~load.raises /\ Up /\ ~ReqIdsInFlight /\ LastAnswer(i + 1) /\ Used(id)
    BY <1>1, <1>8 DEF Up, ReqIdsInFlight, Used
  <2>2. toClient'[i] = toClient[i + 1]
    BY <1>2 DEF LastAnswer
  <2> QED
    BY <2>1, <2>2 DEF IdInv, AnswerAhead
<1>10. CounterAhead'
  <2> SUFFICES ASSUME ~load'.raises, Up', ~Asked', NEW id, Used(id)' PROVE id < m_orderId'
    BY DEF CounterAhead
  <2>1. ~load.raises /\ Up /\ ~ReqIdsInFlight /\ Used(id)
    BY <1>1 DEF Up, Asked, ReqIdsInFlight, Used
  <2>2. LastAnswer(1)
    <3>1. ASSUME NEW j \in DOMAIN toClient, j > 1
          PROVE  toClient[j].kind # "nextValidId"
      <4>1. j - 1 \in DOMAIN toClient' /\ toClient'[j - 1] = toClient[j]
        BY <1>2, <1>3, <3>1
      <4> QED
        BY <4>1 DEF Asked
    <3> QED
      BY <1>1, <1>2, <3>1 DEF LastAnswer
  <2> QED
    BY <1>1, <1>2, <2>1, <2>2 DEF IdInv, AnswerAhead, SetOrderId
<1>11. RaisedAhead'
  <2> SUFFICES ASSUME load.raises
               PROVE  RaisedAhead'
    BY <1>1 DEF RaisedAhead
  <2>1. (\A id : Used(id)' <=> Used(id)) /\ Up' = Up
    BY <1>1 DEF Used, Up
  <2>2. m_orderId' = IF toClient[1].id < m_orderId THEN m_orderId ELSE toClient[1].id
    BY <1>1, <1>2 DEF SetOrderId
  <2>3. ASSUME NEW id, Used(id), m_orderId' # 0
        PROVE  id < m_orderId'
    <3>1. id \in Nat
      BY <1>4, <2>3 DEF Used, IdInv, Bounded
    <3>2. CASE m_orderId # 0
      BY <1>4, <2>2, <2>3, <3>1, <3>2 DEF IdInv, RaisedAhead
    <3>3. CASE m_orderId = 0
      BY <1>1, <1>2, <1>4, <2>2, <2>3, <3>1, <3>3 DEF IdInv, RaisedAhead
    <3> QED
      BY <3>2, <3>3
  <2>4. CASE m_orderId' # 0
    BY <2>1, <2>3, <2>4 DEF RaisedAhead
  <2>5. CASE m_orderId' = 0
    <3>1. m_orderId = 0
      BY <1>4, <2>2, <2>5
    <3> QED
      BY <1>1, <1>2, <2>1, <2>5, <3>1 DEF IdInv, RaisedAhead
  <2> QED
    BY <2>4, <2>5
<1> QED
  BY <1>5, <1>6, <1>7, <1>9, <1>10, <1>11 DEF IdInv

\* openOrder: what the application is given is in the book.
LEMMA OpenOrderIdInv ==
  ASSUME IdInv, OpenOrderSignal
  PROVE  IdInv'
<1>1. /\ toClient # <<>> /\ Head(toClient).kind = "openOrder"
      /\ toClient' = Tail(toClient) /\ IsSeq(toClient)
      /\ held'.id = Head(toClient).id /\ slot' = TRUE
      /\ UNCHANGED <<load, m_orderId, m_serverVersion, toTws, book, placements>>
  BY DEF OpenOrderSignal, object, bounds, IdInv, Types
<1>2. /\ 1 \in DOMAIN toClient /\ Head(toClient) = toClient[1]
      /\ IsSeq(toClient')
      /\ \A i : i \in DOMAIN toClient' <=> i \in Nat \ {0} /\ i + 1 \in DOMAIN toClient
      /\ \A i \in DOMAIN toClient' : toClient'[i] = toClient[i + 1]
  BY <1>1, TailSeq
<1>3. DOMAIN toClient \subseteq Nat \ {0}
  BY <1>1, SeqDomain
<1>4. \A j \in DOMAIN toClient : toClient[j].kind = "nextValidId" =>
        j - 1 \in DOMAIN toClient' /\ toClient'[j - 1] = toClient[j]
  BY <1>1, <1>2, <1>3
<1>5. Types'
  BY <1>1, <1>2 DEF IdInv, Types
<1>6. Bounded' /\ Known'
  BY <1>1, <1>2 DEF IdInv, Bounded, Known
<1>7. NoneBehindReqIds' /\ NewOrdersGetNewIds'
  BY <1>1 DEF IdInv, NoneBehindReqIds, NewOrdersGetNewIds, InFlight
<1>8. Asked => Asked'
  BY <1>1, <1>4 DEF Asked
<1>9. \A i : LastAnswer(i)' => LastAnswer(i + 1)
  <2> SUFFICES ASSUME NEW i, LastAnswer(i)' PROVE LastAnswer(i + 1)
    OBVIOUS
  <2>1. i \in Nat \ {0} /\ i + 1 \in DOMAIN toClient /\ toClient[i + 1].kind = "nextValidId"
    BY <1>2 DEF LastAnswer
  <2>2. ASSUME NEW j \in DOMAIN toClient, j > i + 1
        PROVE  toClient[j].kind # "nextValidId"
    <3>1. j - 1 > i
      BY <1>3, <2>1, <2>2
    <3> QED
      BY <1>4, <3>1 DEF LastAnswer
  <2> QED
    BY <2>1, <2>2 DEF LastAnswer
<1>10. AnswerAhead'
  <2> SUFFICES ASSUME ~load'.raises, Up', ~ReqIdsInFlight', NEW i, LastAnswer(i)',
                      NEW id, Used(id)'
               PROVE  id < toClient'[i].id
    BY DEF AnswerAhead
  <2>1. ~load.raises /\ Up /\ ~ReqIdsInFlight /\ LastAnswer(i + 1) /\ Used(id)
    BY <1>1, <1>9 DEF Up, ReqIdsInFlight, Used
  <2>2. toClient'[i] = toClient[i + 1]
    BY <1>2 DEF LastAnswer
  <2> QED
    BY <2>1, <2>2 DEF IdInv, AnswerAhead
<1>11. CounterAhead'
  BY <1>1, <1>8 DEF IdInv, CounterAhead, Up, Used
<1>12. RaisedAhead'
  BY <1>1, <1>2 DEF IdInv, RaisedAhead, Up, Used
<1> QED
  BY <1>5, <1>6, <1>7, <1>10, <1>11, <1>12 DEF IdInv

\* What TWS has read is no longer in flight, the rest is as it was.
LEMMA TwsReadsFront ==
  ASSUME IdInv, TwsReads
  PROVE  /\ 1 \in DOMAIN toTws /\ Head(toTws) = toTws[1]
         /\ IsSeq(toTws')
         /\ DOMAIN toTws \subseteq Nat \ {0}
         /\ \A i : i \in DOMAIN toTws' <=> i \in Nat \ {0} /\ i + 1 \in DOMAIN toTws
         /\ \A i \in DOMAIN toTws' : toTws'[i] = toTws[i + 1]
         /\ UNCHANGED <<load, m_orderId, m_serverVersion, held, slot, placements>>
<1>1. toTws # <<>> /\ toTws' = Tail(toTws) /\ IsSeq(toTws)
  BY DEF TwsReads, IdInv, Types
<1>2. DOMAIN toTws \subseteq Nat \ {0}
  BY <1>1, SeqDomain
<1> QED
  BY <1>1, <1>2, TailSeq DEF TwsReads, object, bounds

\* An answer goes behind the messages in flight, if there is a connection.
LEMMA AnswerSeq ==
  ASSUME IdInv, NEW frame, SendToClient(frame)
  PROVE  /\ IsSeq(toClient')
         /\ ~Up => toClient' = toClient
         /\ Up => /\ DOMAIN toClient' = DOMAIN toClient \cup {Len(toClient) + 1}
                  /\ \A i \in DOMAIN toClient : toClient'[i] = toClient[i]
                  /\ toClient'[Len(toClient) + 1] = frame
                  /\ \A i \in DOMAIN toClient : i \in Nat /\ i < Len(toClient) + 1
         /\ Len(toClient) + 1 \in Nat
<1>1. IsSeq(toClient) /\ Len(toClient) \in Nat /\ DOMAIN toClient = 1..Len(toClient)
  BY SeqDomain DEF IdInv, Types
<1>2. 1..(Len(toClient) + 1) = DOMAIN toClient \cup {Len(toClient) + 1}
  BY <1>1
<1>3. CASE Up
  <2>1. toClient' = Append(toClient, frame)
    BY <1>3 DEF SendToClient
  <2>2. /\ IsSeq(Append(toClient, frame))
        /\ DOMAIN Append(toClient, frame) = 1..(Len(toClient) + 1)
        /\ \A i \in DOMAIN toClient : Append(toClient, frame)[i] = toClient[i]
        /\ Append(toClient, frame)[Len(toClient) + 1] = frame
    BY <1>1, AppendSeq
  <2>3. \A i \in DOMAIN toClient : i \in Nat /\ i < Len(toClient) + 1
    BY <1>1
  <2> QED
    BY <1>1, <1>2, <1>3, <2>1, <2>2, <2>3
<1>4. CASE ~Up
  BY <1>1, <1>4 DEF SendToClient
<1> QED
  BY <1>3, <1>4

\* The answer to reqIds is ahead of the book, and no new order is in flight.
LEMMA TwsGivesIdIdInv ==
  ASSUME IdInv, TwsReads, TwsGivesId
  PROVE  IdInv'
<1> DEFINE frame == [kind |-> "nextValidId", id |-> NextId]
           last  == Len(toClient) + 1
<1>1. toTws[1].kind = "reqIds" /\ book' = book /\ SendToClient(frame)
  BY TwsReadsFront DEF TwsGivesId
<1>2. frame.kind = "nextValidId" /\ frame.id = NextId
  OBVIOUS
<1>3. placements \in Nat /\ DOMAIN book \subseteq 0..placements
  BY OrdersAssumption DEF IdInv, Types, Bounded
<1>4. NextId \in 0..(placements + 1) /\ \A i \in DOMAIN book : i < NextId
  BY <1>3, NextIdIsNew
<1> HIDE DEF frame
<1>5. /\ IsSeq(toClient')
      /\ ~Up => toClient' = toClient
      /\ Up => /\ DOMAIN toClient' = DOMAIN toClient \cup {last}
               /\ \A i \in DOMAIN toClient : toClient'[i] = toClient[i]
               /\ toClient'[last] = frame
               /\ \A i \in DOMAIN toClient : i \in Nat /\ i < last
      /\ last \in Nat
  BY <1>1, AnswerSeq
<1> HIDE DEF last
<1>6. Types'
  BY <1>2, <1>5, TwsReadsFront DEF IdInv, Types
<1>7. Bounded' /\ Known'
  BY <1>1, <1>2, <1>4, <1>5, TwsReadsFront DEF IdInv, Bounded, Known
<1>8. NoneBehindReqIds'
  BY TwsReadsFront DEF IdInv, NoneBehindReqIds
<1>9. NewOrdersGetNewIds'
  BY <1>1, TwsReadsFront DEF IdInv, NewOrdersGetNewIds, InFlight
<1>10. Up' = Up /\ (Up' => Asked')
  BY <1>2, <1>5, TwsReadsFront DEF Up, Asked
<1>11. AnswerAhead'
  <2> SUFFICES ASSUME ~load'.raises, Up', NEW i, LastAnswer(i)', NEW id, Used(id)'
               PROVE  id < toClient'[i].id
    BY DEF AnswerAhead
  <2>1. i = last
    BY <1>2, <1>5, <1>10 DEF LastAnswer
  <2>2. id \in DOMAIN book
    <3>1. CASE id \in DOMAIN book'
      BY <1>1, <3>1
    <3>2. ASSUME NEW j \in DOMAIN toTws', toTws'[j].kind = "placeOrder", toTws'[j].id = id
          PROVE  id \in DOMAIN book
      <4>1. j + 1 \in DOMAIN toTws /\ toTws[j + 1] = toTws'[j] /\ 1 < j + 1
        BY TwsReadsFront
      <4>2. ~toTws[j + 1].new
        BY <1>1, <3>2, <4>1, TwsReadsFront DEF IdInv, NoneBehindReqIds
      <4> QED
        BY <3>2, <4>1, <4>2 DEF IdInv, Known
    <3> QED
      BY <3>1, <3>2 DEF Used
  <2> QED
    BY <1>2, <1>4, <1>5, <1>10, <2>1, <2>2
<1>12. RaisedAhead'
  <2> SUFFICES ASSUME load.raises
               PROVE  RaisedAhead'
    BY TwsReadsFront DEF RaisedAhead
  <2>1. \A id : Used(id)' => Used(id)
    BY <1>1, TwsReadsFront DEF Used
  <2>2. m_orderId = 0 /\ Up => \A id : Used(id)' => id < NextId
    <3> SUFFICES ASSUME m_orderId = 0, Up, NEW id, Used(id)'
                 PROVE  id < NextId
      OBVIOUS
    <3>1. id \in DOMAIN book
      BY <2>1 DEF Used, IdInv, RaisedAhead, Known
    <3> QED
      BY <1>4, <3>1
  <2>3. m_orderId = 0 /\ Up =>
          \A i \in DOMAIN toTws' : toTws'[i].kind = "placeOrder" => ~toTws'[i].new
    BY TwsReadsFront DEF IdInv, RaisedAhead
  <2>4. m_orderId = 0 =>
          \A i \in DOMAIN toClient' : toClient'[i].kind = "nextValidId" =>
            \A id : Used(id)' => id < toClient'[i].id
    <3>1. CASE Up
      BY <1>2, <1>5, <2>1, <2>2, <3>1 DEF IdInv, RaisedAhead
    <3>2. CASE ~Up
      BY <1>5, <2>1, <3>2 DEF IdInv, RaisedAhead
    <3> QED
      BY <3>1, <3>2
  <2> QED
    BY <1>10, <2>1, <2>3, <2>4, TwsReadsFront DEF IdInv, RaisedAhead
<1> QED
  BY <1>6, <1>7, <1>8, <1>9, <1>10, <1>11, <1>12 DEF IdInv, CounterAhead

\* TWS tells of an order in its book, or of none.
LEMMA TellsIdInv ==
  ASSUME IdInv, TwsReads, toTws[1].kind # "reqIds",
         NEW frame, frame.kind = "openOrder",
         \/ SendToClient(frame) /\ frame.id \in DOMAIN book'
         \/ toClient' = toClient,
         DOMAIN book' = DOMAIN book \cup {i \in {toTws[1].id} : toTws[1].kind = "placeOrder"}
  PROVE  IdInv'
<1> DEFINE last == Len(toClient) + 1
<1>1. /\ IsSeq(toClient') /\ last \in Nat
      /\ \/ toClient' = toClient
         \/ /\ DOMAIN toClient' = DOMAIN toClient \cup {last}
            /\ \A i \in DOMAIN toClient : toClient'[i] = toClient[i]
            /\ toClient'[last] = frame /\ frame.id \in DOMAIN book'
            /\ \A i \in DOMAIN toClient : i \in Nat /\ i < last
  <2>1. IsSeq(toClient) /\ Len(toClient) + 1 \in Nat
    BY SeqDomain DEF IdInv, Types
  <2> QED
    BY <2>1, AnswerSeq
<1> HIDE DEF last
<1>2. Types'
  BY <1>1, TwsReadsFront DEF IdInv, Types
<1>3. Bounded'
  BY <1>1, TwsReadsFront DEF IdInv, Bounded
<1>4. Known'
  BY <1>1, TwsReadsFront DEF IdInv, Known
<1>5. NoneBehindReqIds'
  BY TwsReadsFront DEF IdInv, NoneBehindReqIds
<1>6. NewOrdersGetNewIds'
  <2> SUFFICES ASSUME NEW i \in InFlight', toTws'[i].new
               PROVE  /\ toTws'[i].id \notin DOMAIN book'
                      /\ \A j \in InFlight' : j < i => toTws'[j].id # toTws'[i].id
    BY DEF NewOrdersGetNewIds
  <2>1. i \in Nat \ {0} /\ i + 1 \in InFlight /\ toTws'[i] = toTws[i + 1]
    BY TwsReadsFront DEF InFlight
  <2>2. toTws[i + 1].id \notin DOMAIN book
    BY <2>1 DEF IdInv, NewOrdersGetNewIds
  <2>3. toTws[1].kind = "placeOrder" => toTws[1].id # toTws[i + 1].id
    <3>1. 1 \in DOMAIN toTws /\ 1 < i + 1
      BY <2>1, TwsReadsFront
    <3> QED
      BY <2>1, <3>1 DEF IdInv, NewOrdersGetNewIds, InFlight
  <2>4. ASSUME NEW j \in InFlight', j < i
        PROVE  toTws'[j].id # toTws'[i].id
    <3>1. j \in Nat /\ j + 1 \in InFlight /\ toTws'[j] = toTws[j + 1] /\ j + 1 < i + 1
      BY <2>1, <2>4, TwsReadsFront DEF InFlight
    <3> QED
      BY <2>1, <3>1 DEF IdInv, NewOrdersGetNewIds
  <2> QED
    BY <2>1, <2>2, <2>3, <2>4
<1>7. \A i : Used(i)' => Used(i)
  BY TwsReadsFront DEF Used
<1>8. (Asked => Asked') /\ (ReqIdsInFlight => ReqIdsInFlight') /\ Up' = Up
  <2>1. ReqIdsInFlight => ReqIdsInFlight'
    <3> SUFFICES ASSUME NEW j \in DOMAIN toTws, toTws[j].kind = "reqIds"
                 PROVE  ReqIdsInFlight'
      BY DEF ReqIdsInFlight
    <3>1. j - 1 \in DOMAIN toTws' /\ toTws'[j - 1] = toTws[j]
      BY TwsReadsFront
    <3> QED
      BY <3>1 DEF ReqIdsInFlight
  <2> QED
    BY <1>1, <2>1, TwsReadsFront DEF Asked, ReqIdsInFlight, Up
<1>9. \A i : LastAnswer(i)' => LastAnswer(i) /\ toClient'[i] = toClient[i]
  <2>1. CASE toClient' = toClient
    BY <2>1 DEF LastAnswer
  <2>2. ASSUME toClient' # toClient, NEW i, LastAnswer(i)'
        PROVE  LastAnswer(i) /\ toClient'[i] = toClient[i]
    <3>1. i \in DOMAIN toClient /\ toClient'[i] = toClient[i]
      BY <1>1, <2>2 DEF LastAnswer
    <3> QED
      BY <1>1, <2>2, <3>1 DEF LastAnswer
  <2> QED
    BY <2>1, <2>2
<1>10. CounterAhead'
  BY <1>7, <1>8, TwsReadsFront DEF IdInv, CounterAhead
<1>11. AnswerAhead'
  BY <1>7, <1>8, <1>9, TwsReadsFront DEF IdInv, AnswerAhead
<1>12. RaisedAhead'
  <2>1. \A i \in DOMAIN toClient' : toClient'[i].kind = "nextValidId" =>
          i \in DOMAIN toClient /\ toClient'[i] = toClient[i]
    BY <1>1
  <2>2. \A i \in DOMAIN toTws' : i + 1 \in DOMAIN toTws /\ toTws'[i] = toTws[i + 1]
    BY TwsReadsFront
  <2> QED
    BY <1>7, <1>8, <2>1, <2>2, TwsReadsFront DEF IdInv, RaisedAhead
<1> QED
  BY <1>2, <1>3, <1>4, <1>5, <1>6, <1>10, <1>11, <1>12 DEF IdInv

\* What an openOrder frame names.
LEMMA OpenFrameKind ==
  \A id, entry : OpenFrame(id, entry).kind = "openOrder" /\ OpenFrame(id, entry).id = id
  BY DEF OpenFrame

\* TWS reads a message of any kind.
LEMMA TwsReadsIdInv ==
  ASSUME IdInv, TwsReads
  PROVE  IdInv'
<1>1. Head(toTws) = toTws[1] /\ 1 \in DOMAIN toTws
  BY TwsReadsFront
<1>2. CASE TwsTakesOrder
  <2>1. /\ toTws[1].kind = "placeOrder"
        /\ DOMAIN book' = DOMAIN book \cup {toTws[1].id}
        /\ SendToClient(OpenFrame(toTws[1].id, book'[toTws[1].id]))
        /\ OpenFrame(toTws[1].id, book'[toTws[1].id]).id \in DOMAIN book'
    BY <1>1, <1>2 DEF TwsTakesOrder, OpenFrame
  <2> QED
    BY <2>1, TellsIdInv, OpenFrameKind
<1>3. CASE TwsGivesId
  BY <1>3, TwsGivesIdIdInv
<1>4. CASE TwsGivesOrder
  <2>1. toTws[1].kind = "reqOpenOrders" /\ book' = book
    BY <1>1, <1>4 DEF TwsGivesOrder
  <2>2. CASE book = <<>>
    <3>1. toClient' = toClient
      BY <1>4, <2>2 DEF TwsGivesOrder
    <3>2. OpenFrame(0, book).kind = "openOrder"
      BY OpenFrameKind
    <3> QED
      BY <2>1, <3>1, <3>2, TellsIdInv
  <2>3. CASE book # <<>>
    <3>1. PICK id \in DOMAIN book : SendToClient(OpenFrame(id, book[id]))
      BY <1>4, <2>3 DEF TwsGivesOrder
    <3>2. /\ OpenFrame(id, book[id]).kind = "openOrder"
          /\ OpenFrame(id, book[id]).id \in DOMAIN book'
      BY <2>1, OpenFrameKind
    <3>3. DOMAIN book' = DOMAIN book \cup {i \in {toTws[1].id} : toTws[1].kind = "placeOrder"}
      BY <2>1
    <3> QED
      BY <2>1, <3>1, <3>2, <3>3, TellsIdInv
  <2> QED
    BY <2>2, <2>3
<1> QED
  BY <1>2, <1>3, <1>4 DEF TwsReads

\* Every step keeps the invariant.
LEMMA NextIdInv == IdInv /\ [Next]_vars => IdInv'
<1> SUFFICES ASSUME IdInv, [Next]_vars PROVE IdInv'
  OBVIOUS
<1>1. CASE Connect
  BY <1>1, ConnectIdInv
<1>2. ASSUME NEW n \in 0..Len(toTws), DisconnectTWS(n)
      PROVE  IdInv'
  BY <1>2, LoseIdInv DEF DisconnectTWS
<1>3. ASSUME NEW n \in 0..Len(toTws), Restart(n)
      PROVE  IdInv'
  BY <1>3, LoseIdInv DEF Restart
<1>4. CASE ReqIds \/ ReqOpenOrders
  BY <1>4, AskIdInv DEF ReqIds, ReqOpenOrders
<1>5. CASE PlaceNew
  <2>1. m_orderId \in Nat /\ m_orderId <= placements + 1
    BY DEF IdInv, Types, Bounded
  <2> QED
    BY <1>5, <2>1, PlaceIdInv DEF PlaceNew, GetOrderId
<1>6. CASE Modify
  <2>1. PICK order : PlaceOrder(held.id, order, held.texts, FALSE)
    BY <1>6 DEF Modify
  <2>2. held.id \in DOMAIN book /\ m_orderId' = m_orderId
    BY <1>6 DEF Modify, IdInv, Known
  <2>3. held.id \in Nat /\ held.id <= placements + 1
    BY <2>2, OrdersAssumption DEF IdInv, Types, Bounded
  <2> QED
    BY <2>1, <2>2, <2>3, PlaceIdInv
<1>7. CASE NextValidId
  BY <1>7, NextValidIdIdInv
<1>8. CASE OpenOrderSignal
  BY <1>8, OpenOrderIdInv
<1>9. CASE SlotReturns
  BY <1>9, IdleIdInv DEF SlotReturns, object, bounds
<1>10. CASE TwsReads
  BY <1>10, TwsReadsIdInv
<1>11. CASE UNCHANGED vars
  BY <1>11, IdleIdInv DEF vars, object, bounds, IdInv, Types
<1> QED
  BY <1>1, <1>2, <1>3, <1>4, <1>5, <1>6, <1>7, <1>8, <1>9, <1>10, <1>11 DEF Next

\* The invariant of the ids.
LEMMA IdInvAlways == Spec => []IdInv
  BY InitIdInv, NextIdInv, PTL DEF Spec

--------------------------------------------------------------------------------
\* Ids are numbers, and the application knows of orders that TWS knows of.
THEOREM TypeCorrect == Spec => []TypeOK
<1>1. IdInv => TypeOK
  BY OrdersAssumption DEF IdInv, Types, Bounded, Known, Kinds, TypeOK
<1> QED
  BY <1>1, IdInvAlways, PTL

\* A new order never lands on an order that TWS holds or is about to hold: for
\* any number of orders, questions and lost connections, as long as the ids fit
\* an int (OrdersAssumption) and the application either takes no id while an
\* answer is outstanding or only ever raises the counter (MayTakeId, SetOrderId).
THEOREM NewOrdersGetNewIdsHolds == Spec => []NewOrdersGetNewIds
<1>1. IdInv => NewOrdersGetNewIds
  BY DEF IdInv
<1> QED
  BY <1>1, IdInvAlways, PTL

--------------------------------------------------------------------------------
(* Powers of ten.                                                          *)

\* The powers of ten up to 10^n.
Powers(n, g) == /\ g \in [0..n -> Nat] /\ g[0] = 1
                /\ \A i \in 1..n : g[i] = 10 * g[i - 1]

\* The recursive function Pow10 is what it says.
LEMMA PowerStep ==
  /\ Pow10 \in [Nat -> Nat]
  /\ Pow10[0] = 1
  /\ \A n \in Nat : Pow10[n + 1] = 10 * Pow10[n]
<1> DEFINE Step(n) == [i \in 1..n |-> [m \in Nat |-> 10 * m]]
           F == [n \in Nat |-> (CHOOSE g : Powers(n, g))[n]]
<1>1. ASSUME NEW n \in Nat
      PROVE  Powers(n, CHOOSE g : Powers(n, g))
  <2>1. Step(n) \in Steps(n, Nat) /\ 1 \in Nat
    BY DEF Steps
  <2> HIDE DEF Step
  <2>2. PICK g \in Results(n, Nat) : Obeys(g, n, 1, Step(n))
    BY <2>1, Recursion
  <2>3. g \in [0..n -> Nat] /\ g[0] = 1 /\ \A i \in 1..n : g[i] = Step(n)[i][g[i - 1]]
    BY <2>2 DEF Results, Obeys
  <2>4. \A i \in 1..n : g[i - 1] \in Nat
    BY <2>3
  <2>5. Powers(n, g)
    BY <2>3, <2>4 DEF Powers, Step
  <2> QED
    BY <2>5
<1>2. F \in [Nat -> Nat]
  <2>1. \A n \in Nat : (CHOOSE g : Powers(n, g))[n] \in Nat
    BY <1>1 DEF Powers
  <2> QED
    BY <2>1
<1>3. F[0] = 1
  BY <1>1 DEF Powers
<1>4. ASSUME NEW n \in Nat
      PROVE  F[n + 1] = 10 * F[n]
  <2> DEFINE g == CHOOSE g : Powers(n + 1, g)
             h == CHOOSE h : Powers(n, h)
  <2>1. Powers(n + 1, g) /\ Powers(n, h) /\ F[n + 1] = g[n + 1] /\ F[n] = h[n]
    BY <1>1
  <2> HIDE DEF g, h, F
  <2>2. g[0] = h[0] /\ \A i \in 1..n : g[i - 1] = h[i - 1] => g[i] = h[i]
    BY <2>1 DEF Powers
  <2>3. g[n] = h[n]
    BY <2>2, Alike
  <2>4. g[n + 1] = 10 * g[n]
    BY <2>1 DEF Powers
  <2> QED
    BY <2>1, <2>3, <2>4
<1> HIDE DEF F
<1>5. F = [n \in Nat |-> IF n = 0 THEN 1 ELSE 10 * F[n - 1]]
  <2>1. \A n \in Nat : F[n] = IF n = 0 THEN 1 ELSE 10 * F[n - 1]
    <3>1. \A n \in Nat : n # 0 => F[n] = 10 * F[n - 1]
      <4>1. ASSUME NEW n \in Nat, n # 0
            PROVE  F[n] = 10 * F[n - 1]
        <5>1. n - 1 \in Nat /\ (n - 1) + 1 = n
          BY <4>1
        <5> QED
          BY <5>1, <1>4
      <4> QED
        BY <4>1
    <3> QED
      BY <1>3, <3>1
  <2> QED
    BY <1>2, <2>1
<1>6. Pow10 = [n \in Nat |-> IF n = 0 THEN 1 ELSE 10 * Pow10[n - 1]]
  BY <1>5 DEF Pow10
<1> DEFINE G == Pow10
<1>7. G = [n \in Nat |-> IF n = 0 THEN 1 ELSE 10 * G[n - 1]]
  BY <1>6
<1> HIDE DEF G
<1>8. G[0] = 1 /\ \A n \in Nat : G[n + 1] = 10 * G[n]
  <2>1. G[0] = 1
    BY <1>7
  <2>2. ASSUME NEW n \in Nat
        PROVE  G[n + 1] = 10 * G[n]
    <3>1. n + 1 \in Nat /\ n + 1 # 0 /\ (n + 1) - 1 = n
      OBVIOUS
    <3> QED
      BY <1>7, <3>1
  <2> QED
    BY <2>1, <2>2
<1>9. \A n \in Nat : G[n] = F[n]
  <2> DEFINE P == {n \in Nat : G[n] = F[n]}
  <2>1. 0 \in P
    BY <1>3, <1>8
  <2>2. \A n \in P : n + 1 \in P
    BY <1>4, <1>8
  <2> HIDE DEF P
  <2>3. P = Nat
    <3>1. P \in SUBSET Nat
      BY DEF P
    <3> QED
      BY <2>1, <2>2, <3>1, Induction
  <2> QED
    BY <2>3 DEF P
<1>10. G \in [Nat -> Nat]
  <2>1. G = [n \in Nat |-> G[n]]
    BY <1>7
  <2>2. \A n \in Nat : G[n] \in Nat
    BY <1>2, <1>9
  <2> QED
    BY <2>1, <2>2
<1> QED
  BY <1>8, <1>10 DEF G

\* The powers grow.
LEMMA PowerGrows ==
  /\ \A n \in Nat : Pow10[n] \in Nat /\ Pow10[n] > n
  /\ \A m, n \in Nat : m <= n => Pow10[m] <= Pow10[n]
<1>1. \A n \in Nat : Pow10[n] \in Nat
  BY PowerStep
<1>2. \A n \in Nat : Pow10[n] > n
  <2> DEFINE P == {n \in Nat : Pow10[n] > n}
  <2>1. 0 \in P
    BY PowerStep
  <2>2. \A n \in P : n + 1 \in P
    BY <1>1, PowerStep
  <2>3. P \in SUBSET Nat
    OBVIOUS
  <2> HIDE DEF P
  <2>4. P = Nat
    BY <2>1, <2>2, <2>3, Induction
  <2> QED
    BY <2>4 DEF P
<1>3. ASSUME NEW m \in Nat, NEW n \in Nat, m <= n
      PROVE  Pow10[m] <= Pow10[n]
  <2> DEFINE P == {k \in Nat : Pow10[m] <= Pow10[m + k]}
  <2>1. 0 \in P
    BY <1>1
  <2>2. ASSUME NEW k \in P
        PROVE  k + 1 \in P
    <3>1. Pow10[(m + k) + 1] = 10 * Pow10[m + k] /\ Pow10[m + k] \in Nat /\ Pow10[m] \in Nat
      BY <1>1, PowerStep
    <3>2. m + (k + 1) = (m + k) + 1
      OBVIOUS
    <3> QED
      BY <3>1, <3>2
  <2>3. P \in SUBSET Nat
    OBVIOUS
  <2> HIDE DEF P
  <2>4. n - m \in P
    <3>1. P = Nat /\ n - m \in Nat
      BY <1>3, <2>1, <2>2, <2>3, Induction
    <3> QED
      BY <3>1
  <2>5. m + (n - m) = n
    OBVIOUS
  <2> QED
    BY <2>4, <2>5 DEF P
<1> QED
  BY <1>1, <1>2, <1>3

\* The limit is a tenth of the next power.
LEMMA LimitTens ==
  /\ Limit \in Nat /\ Limit >= 10
  /\ \E k \in Nat \ {0} : Limit = 10 * k
<1>1. Digits \in Nat \ {0}
  BY OrdersAssumption
<1>2. Digits - 1 \in Nat /\ (Digits - 1) + 1 = Digits
  BY <1>1
<1>3. Limit = 10 * Pow10[Digits - 1]
  BY <1>2, PowerStep DEF Limit
<1>4. Pow10[Digits - 1] \in Nat /\ Pow10[Digits - 1] > 0
  BY <1>2, PowerGrows
<1> QED
  BY <1>3, <1>4

\* What multiplication does to an order of numbers.
LEMMA TimesGrows ==
  ASSUME NEW a \in Nat, NEW b \in Nat, NEW c \in Nat, a <= b
  PROVE  a * c \in Nat /\ a * c <= b * c /\ c * a <= c * b /\ a * c = c * a
<1>1. PICK d \in Nat : b = a + d
  <2>1. b - a \in Nat /\ b = a + (b - a)
    OBVIOUS
  <2> QED
    BY <2>1
<1>2. b * c = a * c + d * c /\ a * c \in Nat /\ d * c \in Nat
  BY <1>1
<1> QED
  BY <1>2

\* Which numbers of digits a number may be cut by.
Cuts(n, e) == n < Limit * Pow10[e] /\ (e > 0 => n >= Limit * Pow10[e - 1])

\* There is one, and one only.
LEMMA CutIs ==
  ASSUME NEW n \in Nat
  PROVE  /\ Cut(n) \in Nat /\ Cuts(n, Cut(n))
         /\ \A e \in Nat : Cuts(n, e) => e = Cut(n)
<1> DEFINE top == n \div Limit
           S == {e \in Nat : n < Limit * Pow10[e]}
<1>1. Limit \in Nat /\ Limit > 0 /\ \A e \in Nat : Pow10[e] \in Nat /\ Limit * Pow10[e] \in Nat
  BY LimitTens, PowerGrows
<1>2. top \in Nat /\ n < Limit * (top + 1)
  BY <1>1
<1> HIDE DEF top
<1>3. n < Limit * Pow10[top]
  <2>1. Pow10[top] \in Nat /\ top + 1 <= Pow10[top]
    BY <1>2, PowerGrows
  <2>2. Limit * (top + 1) <= Limit * Pow10[top]
    BY <1>1, <1>2, <2>1, TimesGrows
  <2> QED
    BY <1>1, <1>2, <2>1, <2>2
<1>4. PICK e \in S : \A j \in S : e <= j
  <2>1. top \in S /\ S \in SUBSET Nat
    BY <1>2, <1>3
  <2> HIDE DEF S
  <2> QED
    BY <2>1, Least
<1>5. e \in 0..top /\ Cuts(n, e)
  <2>1. e <= top
    BY <1>2, <1>3, <1>4
  <2>2. ASSUME e > 0
        PROVE  n >= Limit * Pow10[e - 1]
    <3>1. e - 1 \in Nat /\ ~(e <= e - 1)
      BY <2>2
    <3>2. e - 1 \notin S
      BY <1>4, <3>1
    <3> QED
      BY <1>1, <3>1, <3>2
  <2> QED
    BY <1>2, <2>1, <2>2 DEF Cuts
<1>6. ASSUME NEW d \in Nat, NEW f \in Nat, Cuts(n, d), Cuts(n, f)
      PROVE  ~(d < f)
  <2> SUFFICES ASSUME d < f PROVE FALSE
    OBVIOUS
  <2>1. f - 1 \in Nat /\ d <= f - 1 /\ f > 0
    OBVIOUS
  <2>2. Pow10[d] \in Nat /\ Pow10[f - 1] \in Nat /\ Pow10[d] <= Pow10[f - 1]
    BY <2>1, PowerGrows
  <2>3. Limit * Pow10[d] <= Limit * Pow10[f - 1]
    BY <1>1, <2>2, TimesGrows
  <2>4. n < Limit * Pow10[d] /\ n >= Limit * Pow10[f - 1]
    BY <1>6, <2>1 DEF Cuts
  <2> QED
    BY <1>1, <2>1, <2>3, <2>4
<1>7. Cut(n) \in 0..top /\ Cuts(n, Cut(n))
  BY <1>5 DEF Cut, Cuts, top
<1>8. Cut(n) \in Nat
  BY <1>2, <1>7
<1>9. ASSUME NEW f \in Nat, Cuts(n, f)
      PROVE  f = Cut(n)
  <2>1. ~(f < Cut(n)) /\ ~(Cut(n) < f)
    BY <1>6, <1>7, <1>8, <1>9
  <2> QED
    BY <1>8, <2>1
<1> QED
  BY <1>7, <1>8, <1>9

--------------------------------------------------------------------------------
(* Rounding: QByteArray::number(double) and the narrowing of a long.       *)

\* Division, rounded down.
LEMMA Quotient ==
  ASSUME NEW a \in Nat, NEW b \in Nat, b > 0
  PROVE  /\ a \div b \in Nat
         /\ b * (a \div b) <= a /\ a < b * (a \div b) + b
  OBVIOUS

\* There is one quotient only.
LEMMA QuotientIs ==
  ASSUME NEW a \in Nat, NEW b \in Nat, b > 0, NEW q \in Nat, b * q <= a, a < b * q + b
  PROVE  a \div b = q
  OBVIOUS

\* What a number cut by its last digits is.
NearBy(n, unit) == unit * ((2 * n + unit) \div (2 * unit))

\* A multiple of the unit is as near as can be.
LEMMA NearMultiple ==
  ASSUME NEW unit \in Nat, unit > 0, NEW q \in Nat
  PROVE  NearBy(unit * q, unit) = unit * q
<1> DEFINE a == 2 * (unit * q) + unit
           b == 2 * unit
<1>1. a \in Nat /\ b \in Nat /\ b > 0 /\ b * q = 2 * (unit * q) /\ unit * q \in Nat
  OBVIOUS
<1>2. b * q <= a /\ a < b * q + b
  BY <1>1
<1>3. a \div b = q
  BY <1>1, <1>2, QuotientIs
<1> QED
  BY <1>3 DEF NearBy

\* The nearest multiple lies between the bounds that are multiples.
LEMMA NearBetween ==
  ASSUME NEW unit \in Nat, unit > 0, NEW n \in Nat, NEW low \in Nat, NEW high \in Nat,
         unit * low <= n, n < unit * high
  PROVE  \E q \in low..high : NearBy(n, unit) = unit * q
<1> DEFINE a == 2 * n + unit
           b == 2 * unit
           q == a \div b
<1>1. a \in Nat /\ b \in Nat /\ b > 0
  OBVIOUS
<1>2. q \in Nat /\ b * q <= a /\ a < b * q + b
  BY <1>1, Quotient
<1> HIDE DEF q
<1>3. low <= q
  <2> SUFFICES ASSUME q + 1 <= low PROVE FALSE
    BY <1>2
  <2>1. b * (q + 1) <= b * low /\ b * (q + 1) = b * q + b /\ b * low = 2 * (unit * low)
    BY <1>1, <1>2, TimesGrows
  <2> QED
    BY <1>2, <2>1
<1>4. q <= high
  <2> SUFFICES ASSUME high + 1 <= q PROVE FALSE
    BY <1>2
  <2>1. b * (high + 1) <= b * q /\ b * (high + 1) = 2 * (unit * high) + 2 * unit
    BY <1>1, <1>2, TimesGrows
  <2> QED
    BY <1>2, <2>1
<1> QED
  BY <1>2, <1>3, <1>4 DEF NearBy, q

\* A number that is not longer than what is written is written as it is.
LEMMA NearFits ==
  ASSUME NEW n \in Nat, n < Limit
  PROVE  Near(n) = n
<1>1. Pow10[0] = 1
  BY PowerStep
<1>2. Cut(n) = 0
  <2>1. Cuts(n, 0)
    BY <1>1, LimitTens DEF Cuts
  <2> QED
    BY <2>1, CutIs
<1>3. NearBy(1 * n, 1) = 1 * n
  BY NearMultiple
<1>4. Near(n) = NearBy(n, 1)
  BY <1>1, <1>2 DEF Near, NearBy
<1> QED
  BY <1>3, <1>4

\* What a number loses when it is written it loses once.
LEMMA NearTwice ==
  ASSUME NEW n \in Nat
  PROVE  /\ Near(n) \in Nat /\ Near(Near(n)) = Near(n)
         /\ n > 0 => Near(n) > 0
<1> DEFINE e == Cut(n)
<1>1. e \in Nat /\ Cuts(n, e) /\ Pow10[0] = 1 /\ Limit \in Nat /\ Limit >= 10
  BY CutIs, PowerStep, LimitTens
<1>2. CASE e = 0
  <2>1. n < Limit
    BY <1>1, <1>2 DEF Cuts
  <2> QED
    BY <2>1, NearFits
<1>3. CASE e # 0
  <2> DEFINE u == Pow10[e]
             w == Pow10[e - 1]
             r == Near(n)
  <2>1. e - 1 \in Nat /\ (e - 1) + 1 = e /\ e > 0
    BY <1>1, <1>3
  <2>2. u = 10 * w /\ Pow10[e + 1] = 10 * u
    BY <1>1, <2>1, PowerStep
  <2>3. w \in Nat /\ w > 0
    BY <2>1, PowerGrows
  <2>4. PICK k \in Nat \ {0} : Limit = 10 * k
    BY LimitTens
  <2>5. Limit * w <= n /\ n < Limit * u
    BY <1>1, <2>1 DEF Cuts
  <2>6. r = NearBy(n, u)
    BY DEF Near, NearBy
  <2> HIDE DEF e, u, w, r
  <2>7. u \in Nat /\ u > 0 /\ Limit * w = u * k /\ Limit * u = u * Limit
    BY <1>1, <2>2, <2>3, <2>4
  <2>8. PICK q \in k..Limit : r = u * q
    <3>1. u * k <= n /\ n < u * Limit
      BY <2>5, <2>7
    <3>2. u \in Nat /\ u > 0 /\ n \in Nat /\ k \in Nat /\ Limit \in Nat
      BY <1>1, <2>4, <2>7
    <3>3. \E q \in k..Limit : NearBy(n, u) = u * q
      BY <3>1, <3>2, NearBetween, Zenon
    <3> QED
      BY <2>6, <3>3
  <2>9. q \in Nat /\ k <= q /\ q <= Limit /\ k \in Nat
    BY <1>1, <2>4, <2>8
  <2>10. u * k <= u * q /\ r \in Nat /\ u * k \in Nat
    BY <2>7, <2>8, <2>9, TimesGrows
  <2>11. r > 0
    <3>1. u * 1 <= u * k /\ u * 1 = u
      BY <2>4, <2>7, TimesGrows
    <3>2. u <= r
      <4> DEFINE a == u * k
                 b == u * q
      <4>1. u <= a /\ a <= b /\ r = b /\ a \in Nat /\ b \in Nat
        BY <2>8, <2>10, <3>1
      <4> HIDE DEF a, b
      <4> QED
        BY <2>7, <4>1
    <3> QED
      BY <2>7, <2>10, <3>2
  <2>12. CASE q < Limit
    <3>1. u * (q + 1) <= u * Limit /\ u * (q + 1) = r + u
      BY <1>1, <2>7, <2>8, <2>9, <2>12, TimesGrows
    <3>2. Cuts(r, e)
      <4>1. r < Limit * u
        BY <1>1, <2>7, <2>10, <3>1
      <4>2. r >= Limit * w
        BY <2>7, <2>8, <2>10
      <4> QED
        BY <4>1, <4>2 DEF Cuts, u, w
    <3>3. Cut(r) = e
      BY <1>1, <2>10, <3>2, CutIs
    <3>4. Near(r) = NearBy(r, u)
      BY <3>3 DEF Near, NearBy, u
    <3>5. Near(r) = r
      BY <2>7, <2>8, <2>9, <3>4, NearMultiple
    <3> QED
      BY <2>10, <2>11, <3>5 DEF r
  <2>13. CASE q = Limit
    <3>1. r = Limit * u
      BY <2>7, <2>8, <2>13
    <3>2. r < Limit * (10 * u)
      <4>1. Limit * (10 * u) = 10 * r
        BY <1>1, <2>7, <3>1
      <4> QED
        BY <2>10, <2>11, <4>1
    <3>3. Cuts(r, e + 1)
      <4>1. (e + 1) - 1 = e
        BY <1>1
      <4>2. r >= Limit * Pow10[(e + 1) - 1]
        BY <2>10, <3>1, <4>1 DEF u
      <4> QED
        BY <2>2, <3>2, <4>2 DEF Cuts
    <3>4. Cut(r) = e + 1
      BY <1>1, <2>10, <3>3, CutIs
    <3>5. Near(r) = NearBy(r, 10 * u)
      BY <2>2, <3>4 DEF Near, NearBy
    <3>6. r = (10 * u) * k /\ 10 * u \in Nat /\ 10 * u > 0
      BY <1>1, <2>4, <2>7, <3>1
    <3>7. Near(r) = r
      BY <2>9, <3>5, <3>6, NearMultiple
    <3> QED
      BY <2>10, <2>11, <3>7 DEF r
  <2> QED
    BY <1>1, <2>9, <2>12, <2>13
<1> QED
  BY <1>2, <1>3

\* And so for numbers below zero.
LEMMA RoundTwice ==
  ASSUME NEW x \in Int
  PROVE  /\ Round(x) \in Int /\ Round(Round(x)) = Round(x)
         /\ Round(x) > 0 <=> x > 0
         /\ -Limit < x /\ x < Limit => Round(x) = x
<1>1. Limit \in Nat
  BY LimitTens
<1>2. CASE x < 0
  <2>1. -x \in Nat /\ -x > 0 /\ Round(x) = -Near(-x)
    BY <1>2 DEF Round
  <2> DEFINE r == Near(-x)
  <2>2. r \in Nat /\ Near(r) = r /\ r > 0 /\ (-x < Limit => r = -x)
    BY <2>1, NearTwice, NearFits
  <2> HIDE DEF r
  <2>3. Round(-r) = -Near(r)
    <3>1. -r < 0 /\ -(-r) = r
      BY <2>2
    <3> QED
      BY <3>1 DEF Round
  <2>4. Round(x) = -r
    BY <2>1 DEF r
  <2> QED
    BY <1>1, <1>2, <2>1, <2>2, <2>3, <2>4
<1>3. CASE x >= 0
  <2>1. x \in Nat /\ Round(x) = Near(x)
    BY <1>3 DEF Round
  <2> DEFINE r == Near(x)
  <2>2. r \in Nat /\ Near(r) = r /\ (x > 0 => r > 0) /\ (x < Limit => r = x)
    BY <2>1, NearTwice, NearFits
  <2>3. x = 0 => r = 0
    BY <2>2, LimitTens
  <2> HIDE DEF r
  <2>4. Round(r) = Near(r)
    BY <2>2 DEF Round
  <2>5. Round(x) = r
    BY <2>1 DEF r
  <2> QED
    BY <1>1, <1>3, <2>1, <2>2, <2>3, <2>4, <2>5
<1> QED
  BY <1>2, <1>3

\* An int is written as it is, and any long as an int.
LEMMA NarrowTwice ==
  ASSUME NEW x \in Int
  PROVE  /\ Narrow(x) \in (-IntMax - 1)..IntMax
         /\ x \in (-IntMax - 1)..IntMax => Narrow(x) = x
         /\ Narrow(Narrow(x)) = Narrow(x)
<1> DEFINE m == 2 * (IntMax + 1)
<1>1. IntMax \in Nat /\ m \in Nat /\ m > 0 /\ m = IntMax + 1 + IntMax + 1
  BY OrdersAssumption
<1> HIDE DEF m
<1>2. \A y \in Int : y % m \in 0..(m - 1) /\ (y \in 0..(m - 1) => y % m = y)
  BY <1>1
<1>3. \A y \in Int : Narrow(y) = ((y + IntMax + 1) % m) - (IntMax + 1)
  BY DEF Narrow, m
<1>4. ASSUME NEW y \in Int
      PROVE  /\ Narrow(y) \in (-IntMax - 1)..IntMax
             /\ y \in (-IntMax - 1)..IntMax => Narrow(y) = y
  <2>1. y + IntMax + 1 \in Int
    BY <1>1
  <2>2. y \in (-IntMax - 1)..IntMax => y + IntMax + 1 \in 0..(m - 1)
    BY <1>1
  <2>3. (y + IntMax + 1) % m \in 0..(m - 1)
    BY <1>2, <2>1
  <2>4. y \in (-IntMax - 1)..IntMax => (y + IntMax + 1) % m = y + IntMax + 1
    BY <1>2, <2>1, <2>2
  <2> QED
    BY <1>1, <1>3, <2>3, <2>4
<1>5. Narrow(x) \in Int
  BY <1>1, <1>4
<1> QED
  BY <1>4, <1>5

--------------------------------------------------------------------------------
(* What a field is written and read as.                                    *)

\* A field is written in one way.
LEMMA OneWay ==
  \A name :
    /\ name \in Texts => name \notin Longs /\ name \notin Doubles /\ name \notin MaxWritten
    /\ name \in Longs => name \notin Doubles /\ name \notin MaxWritten
  BY DEF Texts, Longs, Doubles, MaxWritten

\* What is written.
LEMMA Written ==
  \A name, value :
    /\ name \in MaxWritten /\ value = UNSET => Write(name, value) = <<>>
    /\ ~(name \in MaxWritten /\ value = UNSET) =>
         /\ name \in Texts => Write(name, value) = value
         /\ name \in Longs => Write(name, value) = <<Narrow(value)>>
         /\ name \in Doubles => Write(name, value) = <<Round(value)>>
         /\ name \notin Texts \cup Longs \cup Doubles => Write(name, value) = <<value>>
  BY OneWay, Zenon DEF Write

\* Whether an empty field is a price or number that is not set.
ReadsUnset(name, version) ==
  /\ name \in MaxRead
  /\ name = "lmtPrice" => version >= 29
  /\ name = "auxPrice" => version >= 30

\* What is read.
LEMMA IsRead ==
  \A name, text, version :
    /\ name \in Texts => Read(name, text, version) = text
    /\ name \notin Texts =>
         /\ text = <<>> /\ ReadsUnset(name, version) => Read(name, text, version) = UNSET
         /\ text = <<>> /\ ~ReadsUnset(name, version) => Read(name, text, version) = 0
         /\ text # <<>> => Read(name, text, version) = text[1]
<1>1. \A name : name \in Texts => name \notin MaxRead
  BY OneWay DEF MaxRead
<1> SUFFICES ASSUME NEW name, NEW text, NEW version
             PROVE
    /\ name \in Texts => Read(name, text, version) = text
    /\ name \notin Texts =>
         /\ text = <<>> /\ ReadsUnset(name, version) => Read(name, text, version) = UNSET
         /\ text = <<>> /\ ~ReadsUnset(name, version) => Read(name, text, version) = 0
         /\ text # <<>> => Read(name, text, version) = text[1]
  OBVIOUS
<1>2. Read(name, text, version) =
        CASE name \in Texts -> text
          [] text = <<>> /\ ReadsUnset(name, version) -> UNSET
          [] OTHER -> ReadPlain(text)
  BY Zenon DEF Read, ReadsUnset
<1>3. ReadPlain(text) = IF text = <<>> THEN 0 ELSE text[1]
  BY DEF ReadPlain
<1>4. ReadsUnset(name, version) => name \notin Texts
  BY <1>1 DEF ReadsUnset
<1> QED
  BY <1>2, <1>3, <1>4, Zenon

\* The prices that older servers are sent as 0.
LEMMA AsZero ==
  ASSUME NEW sv \in Nat
  PROVE  /\ \A name : name \in Range(UnsetAsZero(sv)) <=>
                        \/ name = "lmtPrice" /\ sv < MinVer.ORDER_COMBO_LEGS_PRICE
                        \/ name = "auxPrice" /\ sv < MinVer.TRAILING_PERCENT
         /\ "lmtPrice" \in Doubles \cap MaxWritten /\ "auxPrice" \in Doubles \cap MaxWritten
<1>1. "lmtPrice" \in Doubles \cap MaxWritten /\ "auxPrice" \in Doubles \cap MaxWritten
  BY DEF Doubles, MaxWritten
<1>2. \A n : Range(<<n>>) = {n}
  BY DEF Range
<1>3. Range(<<>>) = {}
  BY EmptySeq DEF Range
<1>4. \A name : name \in Range(<<"lmtPrice">> \o <<"auxPrice">>) <=>
                  name = "lmtPrice" \/ name = "auxPrice"
  BY DEF Range
<1>5. /\ <<"lmtPrice">> \o <<>> = <<"lmtPrice">> /\ <<>> \o <<"auxPrice">> = <<"auxPrice">>
      /\ <<>> \o <<>> = <<>>
  OBVIOUS
<1> QED
  BY <1>1, <1>2, <1>3, <1>4, <1>5 DEF UnsetAsZero, When, MinVer

\* A set with one element more.
LEMMA OneMore ==
  ASSUME NEW S, IsFiniteSet(S), NEW n \in Nat, Cardinality(S) = n, NEW x, x \notin S
  PROVE  IsFiniteSet(S \cup {x}) /\ Cardinality(S \cup {x}) = n + 1
  BY FS_AddElement

\* The versions of OPEN_ORDER that the decoding of prices and of groups asks for.
LEMMA OpenVersions ==
  ASSUME NEW sv \in Nat
  PROVE  /\ OpenVersion(sv) \in 19..32
         /\ sv >= MinVer.ORDER_COMBO_LEGS_PRICE => OpenVersion(sv) >= 29
         /\ sv >= MinVer.TRAILING_PERCENT => OpenVersion(sv) >= 30
         /\ sv >= MinVer.TRADING_CLASS => OpenVersion(sv) = 32
<1> DEFINE A == {40, 41, 44, 52, 54, 56, 57, 58, 60, 61}
           B == A \cup {62}
           C == (B \cup {66}) \cup {68}
           S == {v \in {40, 41, 44, 52, 54, 56, 57, 58, 60, 61, 62, 66, 68} : v <= sv}
<1>1. IsFiniteSet(A) /\ Cardinality(A) = 10
  <2> DEFINE E == {40, 41, 44, 52, 54}
  <2>1. IsFiniteSet({}) /\ Cardinality({}) = 0
    BY FS_EmptySet
  <2>2. IsFiniteSet({40}) /\ Cardinality({40}) = 1
    BY <2>1, OneMore
  <2>3. IsFiniteSet({40, 41}) /\ Cardinality({40, 41}) = 2
    <3>1. {40, 41} = {40} \cup {41} /\ 41 \notin {40}
      OBVIOUS
    <3> QED
      BY <2>2, <3>1, OneMore
  <2>4. IsFiniteSet({40, 41, 44}) /\ Cardinality({40, 41, 44}) = 3
    <3>1. {40, 41, 44} = {40, 41} \cup {44} /\ 44 \notin {40, 41}
      OBVIOUS
    <3> QED
      BY <2>3, <3>1, OneMore
  <2>5. IsFiniteSet({40, 41, 44, 52}) /\ Cardinality({40, 41, 44, 52}) = 4
    <3>1. {40, 41, 44, 52} = {40, 41, 44} \cup {52} /\ 52 \notin {40, 41, 44}
      OBVIOUS
    <3> QED
      BY <2>4, <3>1, OneMore
  <2>6. IsFiniteSet(E) /\ Cardinality(E) = 5
    <3>1. E = {40, 41, 44, 52} \cup {54} /\ 54 \notin {40, 41, 44, 52}
      OBVIOUS
    <3> QED
      BY <2>5, <3>1, OneMore
  <2> DEFINE F == E \cup {56}
             G == F \cup {57}
             H == G \cup {58}
             I == H \cup {60}
  <2>7. IsFiniteSet(F) /\ Cardinality(F) = 6
    BY <2>6, OneMore
  <2>8. IsFiniteSet(G) /\ Cardinality(G) = 7
    <3>1. 57 \notin F
      OBVIOUS
    <3> HIDE DEF F
    <3> QED
      BY <2>7, <3>1, OneMore
  <2>9. IsFiniteSet(H) /\ Cardinality(H) = 8
    <3>1. 58 \notin G
      OBVIOUS
    <3> HIDE DEF G
    <3> QED
      BY <2>8, <3>1, OneMore
  <2>10. IsFiniteSet(I) /\ Cardinality(I) = 9
    <3>1. 60 \notin H
      OBVIOUS
    <3> HIDE DEF H
    <3> QED
      BY <2>9, <3>1, OneMore
  <2>11. A = I \cup {61} /\ 61 \notin I
    OBVIOUS
  <2> HIDE DEF A, I
  <2> QED
    BY <2>10, <2>11, OneMore
<1>2. IsFiniteSet(B) /\ Cardinality(B) = 11
  <2>1. 62 \notin A
    OBVIOUS
  <2> HIDE DEF A
  <2> QED
    BY <1>1, <2>1, OneMore
<1>3. IsFiniteSet(C) /\ Cardinality(C) = 13
  <2>1. 66 \notin B /\ 68 \notin B \cup {66}
    OBVIOUS
  <2> HIDE DEF B
  <2>2. IsFiniteSet(B \cup {66}) /\ Cardinality(B \cup {66}) = 12
    BY <1>2, <2>1, OneMore
  <2> QED
    BY <2>1, <2>2, OneMore
<1>4. /\ S \subseteq C
      /\ sv >= 61 => A \subseteq S
      /\ sv >= 62 => B \subseteq S
      /\ sv >= 68 => S = C
  OBVIOUS
<1>5. OpenVersion(sv) = 19 + Cardinality(S)
  BY DEF OpenVersion
<1> HIDE DEF A, B, C, S
<1>6. IsFiniteSet(S) /\ Cardinality(S) \in Nat /\ Cardinality(S) <= 13
  BY <1>3, <1>4, FS_Subset, FS_CardinalityType
<1>7. sv >= 61 => 10 <= Cardinality(S)
  BY <1>1, <1>4, <1>6, FS_Subset
<1>8. sv >= 62 => 11 <= Cardinality(S)
  BY <1>2, <1>4, <1>6, FS_Subset
<1>9. sv >= 68 => Cardinality(S) = 13
  BY <1>3, <1>4
<1> QED
  BY <1>5, <1>6, <1>7, <1>8, <1>9 DEF MinVer

\* The text that a field is sent as.
SentAs(sv, name, value) ==
  IF name \in Range(UnsetAsZero(sv)) /\ value = UNSET THEN <<0>> ELSE Write(name, value)

\* The type of a field.
ValuesOf(name) == IF name \in Texts THEN Text ELSE Int

\* The fields that come back as 0 when they are not set.
Zeroed(sv) == {"volatilityType", "referencePriceType"} \cup Range(UnsetAsZero(sv))

\* UNSET is no number that is written with so many digits.
LEMMA UnsetNotRound ==
  /\ UNSET \in Nat /\ UNSET >= 10
  /\ \A x \in Int : Round(x) # UNSET
<1>1. UNSET \in Nat /\ Round(UNSET) # UNSET
  BY OrdersAssumption, ValuesAssumption DEF UNSET
<1>2. Limit \in Nat /\ Limit >= 10
  BY LimitTens
<1>3. ~(-Limit < UNSET /\ UNSET < Limit)
  BY <1>1, RoundTwice
<1>4. UNSET >= 10
  BY <1>1, <1>2, <1>3
<1>5. \A x \in Int : Round(x) # UNSET
  BY <1>1, RoundTwice
<1> QED
  BY <1>1, <1>4, <1>5

\* A field that is sent and received: it keeps its type, comes back as it was if
\* it fits, and is sent again as it was sent.
LEMMA ThereAndBack ==
  ASSUME NEW sv \in Nat, NEW name, NEW value \in ValuesOf(name)
  PROVE  LET text == SentAs(sv, name, value)
             back == Read(name, text, OpenVersion(sv))
         IN  /\ back \in ValuesOf(name)
             /\ Fits(name, value) =>
                  back = IF name \in Zeroed(sv) /\ value = UNSET THEN 0 ELSE value
             /\ SentAs(sv, name, back) = text \/ (name \in Zeroed(sv) /\ text = <<>>)
<1> DEFINE text == SentAs(sv, name, value)
           back == Read(name, text, OpenVersion(sv))
           Zero == name \in Range(UnsetAsZero(sv))
           Max  == name \in MaxWritten
<1>1. UNSET \in Nat /\ UNSET >= 10
  BY UnsetNotRound
<1>2. Zero => name \in Doubles /\ Max /\ name \notin Texts /\ name \notin Longs
  BY AsZero, OneWay
<1>3. CASE name \in Texts
  <2>1. name \notin MaxWritten /\ ~Zero /\ name \notin Zeroed(sv)
    <3>1. "volatilityType" \in MaxWritten /\ "referencePriceType" \in MaxWritten
      BY DEF MaxWritten
    <3> QED
      BY <1>2, <1>3, <3>1, OneWay DEF Zeroed
  <2>2. text = value
    BY <1>3, <2>1, Written DEF SentAs
  <2>3. back = value
    BY <1>3, <2>2, IsRead
  <2> QED
    BY <2>1, <2>2, <2>3
<1>4. CASE name \notin Texts /\ Zero /\ value = UNSET
  <2>1. text = <<0>> /\ name \in Zeroed(sv)
    BY <1>4 DEF SentAs, Zeroed
  <2>2. back = 0
    BY <1>4, <2>1, IsRead
  <2>3. Round(0) = 0
    BY RoundTwice, LimitTens
  <2>4. SentAs(sv, name, 0) = <<0>>
    BY <1>1, <1>2, <1>4, <2>3, Written DEF SentAs
  <2> QED
    BY <1>4, <2>1, <2>2, <2>4 DEF ValuesOf
<1>5. CASE name \notin Texts /\ ~Zero /\ Max /\ value = UNSET
  <2>1. text = <<>>
    BY <1>5, Written DEF SentAs
  <2>2. CASE name \in {"volatilityType", "referencePriceType"}
    <3>1. ~ReadsUnset(name, OpenVersion(sv))
      BY <2>2 DEF ReadsUnset, MaxRead
    <3>2. back = 0
      BY <1>5, <2>1, <3>1, IsRead
    <3>3. name \in Zeroed(sv)
      BY <2>2 DEF Zeroed
    <3> QED
      BY <1>5, <2>1, <3>2, <3>3 DEF ValuesOf
  <2>3. CASE name \notin {"volatilityType", "referencePriceType"}
    <3>1. ReadsUnset(name, OpenVersion(sv))
      BY <1>5, <2>3, AsZero, OpenVersions DEF ReadsUnset, MaxRead, MinVer
    <3>2. back = UNSET
      BY <1>5, <2>1, <3>1, IsRead
    <3>3. name \notin Zeroed(sv)
      BY <1>5, <2>3 DEF Zeroed
    <3> QED
      BY <1>1, <1>5, <2>1, <3>2, <3>3 DEF ValuesOf
  <2> QED
    BY <2>2, <2>3
<1>6. CASE name \notin Texts /\ ~(Max /\ value = UNSET)
  <2>1. ~(Zero /\ value = UNSET) /\ value \in Int
    BY <1>2, <1>6 DEF ValuesOf
  <2>2. ~(name \in Zeroed(sv) /\ value = UNSET)
    <3>1. "volatilityType" \in MaxWritten /\ "referencePriceType" \in MaxWritten
      BY DEF MaxWritten
    <3> QED
      BY <1>6, <2>1, <3>1 DEF Zeroed
  <2> DEFINE z == IF name \in Longs THEN Narrow(value)
                  ELSE IF name \in Doubles THEN Round(value) ELSE value
  <2>3. text = <<z>>
    BY <1>6, <2>1, OneWay, Written DEF SentAs
  <2>4. z \in Int /\ ~(Max /\ z = UNSET)
    BY <1>6, <2>1, OneWay, NarrowTwice, RoundTwice, UnsetNotRound, OrdersAssumption
  <2>5. back = z
    BY <1>6, <2>3, IsRead
  <2>6. Fits(name, value) => z = value
    <3>1. CASE name \in Longs
      <4>1. Fits(name, value) => value \in (-IntMax - 1)..IntMax
        BY <3>1, OneWay, Zenon DEF Fits
      <4> QED
        BY <2>1, <3>1, <4>1, NarrowTwice
    <3>2. CASE name \in Doubles /\ name \notin Longs
      <4>1. Fits(name, value) => \/ name \in MaxWritten /\ value = UNSET
                                 \/ -Limit < value /\ value < Limit
        BY <3>2, Zenon DEF Fits
      <4> QED
        BY <1>6, <2>1, <3>2, <4>1, RoundTwice
    <3> QED
      BY <3>1, <3>2
  <2>7. SentAs(sv, name, z) = <<z>>
    <3>1. CASE name \in Longs
      <4>1. Narrow(z) = z
        BY <2>1, <3>1, NarrowTwice
      <4> HIDE DEF z
      <4> QED
        BY <1>2, <1>6, <2>4, <3>1, <4>1, Written DEF SentAs
    <3>2. CASE name \in Doubles /\ name \notin Longs
      <4>1. Round(z) = z
        BY <2>1, <3>2, RoundTwice
      <4> HIDE DEF z
      <4> QED
        BY <1>2, <1>6, <2>4, <3>2, <4>1, Written DEF SentAs
    <3>3. CASE name \notin Doubles /\ name \notin Longs
      <4> HIDE DEF z
      <4> QED
        BY <1>2, <1>6, <2>4, <3>3, Written DEF SentAs
    <3> QED
      BY <3>1, <3>2, <3>3
  <2> HIDE DEF z
  <2> QED
    BY <1>6, <2>2, <2>3, <2>4, <2>5, <2>6, <2>7 DEF ValuesOf
<1> QED
  BY <1>3, <1>4, <1>5, <1>6

--------------------------------------------------------------------------------
(* The names of the fields, and the fields of parts of a message.          *)

\* The fields that are neither text, long nor double.
Flags ==
  {"origin", "transmit", "blockOrder", "sweepToFill", "displaySize", "triggerMethod",
   "outsideRth", "hidden", "comboLegsCount", "orderComboLegsCount", "algoParamsCount",
   "smartComboRoutingParamsCount", "underCompPresent", "exemptCode",
   "comboLeg.exemptCode", "shortSaleSlot", "ocaType", "allOrNone", "eTradeOnly",
   "firmQuoteOnly", "auctionStrategy", "overridePercentageConstraints",
   "deltaNeutralShortSale", "deltaNeutralShortSaleSlot", "continuousUpdate",
   "scaleNumComponents", "scaleAutoReset", "scaleRandomPercent", "optOutSmartRouting",
   "notHeld", "whatIf"}

FieldName == Texts \cup Longs \cup Doubles \cup MaxWritten \cup Flags

\* The version of a message is no field of an order.
LEMMA NoVersion == "version" \notin FieldName
  BY DEF FieldName, Texts, Longs, Doubles, MaxWritten, Flags

\* What joins and conditions make of the names of fields.
LEMMA JoinNames ==
  \A S, s, t : s \in Seq(S) /\ t \in Seq(S) => s \o t \in Seq(S)
  BY ConcatProperties

\* A condition takes all the names or none.
LEMMA WhenNames ==
  \A S, c, s : s \in Seq(S) => When(c, s) \in Seq(S)
  BY EmptySeq DEF When

\* The fields of an order have such names.
LEMMA PlaceNames ==
  ASSUME NEW sv, NEW o
  PROVE  /\ PlaceContract(sv) \in Seq(FieldName)
         /\ PlaceMain \in Seq(FieldName)
         /\ PlaceCombo(sv, o) \in Seq(FieldName)
         /\ PlaceExtended(sv) \in Seq(FieldName)
         /\ PlaceDeltaNeutral(sv, o) \in Seq(FieldName)
         /\ PlaceScale(sv, o) \in Seq(FieldName)
         /\ PlaceRouting(sv, o) \in Seq(FieldName)
         /\ PlaceAlgo(sv, o) \in Seq(FieldName)
<1>1. PlaceContract(sv) \in Seq(FieldName)
  <2>1. /\ <<"conId">> \in Seq(FieldName) /\ <<"tradingClass">> \in Seq(FieldName)
        /\ <<"secIdType", "secId">> \in Seq(FieldName)
        /\ <<"symbol", "secType", "expiry", "strike", "right", "multiplier",
             "exchange", "primaryExchange", "currency", "localSymbol">> \in Seq(FieldName)
    BY DEF FieldName, Texts, Longs, Doubles, MaxWritten, Flags
  <2> QED
    BY <2>1, JoinNames, WhenNames DEF PlaceContract
<1>2. PlaceMain \in Seq(FieldName)
  BY DEF PlaceMain, FieldName, Texts, Longs, Doubles, MaxWritten, Flags
<1>3. PlaceCombo(sv, o) \in Seq(FieldName)
  <2> DEFINE legs == SubSeq(ComboLegFields, 1, 7)
             price == <<"orderComboLegsCount">>
                        \o When(o["orderComboLegsCount"] > 0, <<"orderComboLeg.price">>)
             smart == <<"smartComboRoutingParamsCount">>
                        \o When(o["smartComboRoutingParamsCount"] > 0,
                                <<"smartComboRoutingParam.tag", "smartComboRoutingParam.value">>)
  <2>1. legs \in Seq(FieldName)
    <3>1. ComboLegFields \in Seq(FieldName) /\ Len(ComboLegFields) = 8
      BY DEF ComboLegFields, FieldName, Texts, Longs, Doubles, MaxWritten, Flags
    <3>2. ASSUME NEW i \in 1..7
          PROVE  ComboLegFields[i] \in FieldName
      <4>1. i \in 1..Len(ComboLegFields)
        BY <3>1
      <4> QED
        BY <3>1, <4>1, ElementOfSeq
    <3> QED
      BY <3>2, SubSeqProperties
  <2>2. /\ <<"comboLegsCount">> \in Seq(FieldName) /\ <<"comboLeg.exemptCode">> \in Seq(FieldName)
        /\ <<"orderComboLegsCount">> \in Seq(FieldName)
        /\ <<"orderComboLeg.price">> \in Seq(FieldName)
        /\ <<"smartComboRoutingParamsCount">> \in Seq(FieldName)
        /\ <<"smartComboRoutingParam.tag", "smartComboRoutingParam.value">> \in Seq(FieldName)
    BY DEF FieldName, Texts, Longs, Doubles, MaxWritten, Flags
  <2>3. price \in Seq(FieldName) /\ smart \in Seq(FieldName)
    BY <2>2, JoinNames, WhenNames
  <2>4. PlaceCombo(sv, o) =
          <<"comboLegsCount">>
            \o When(o["comboLegsCount"] > 0,
                    legs \o When(sv >= MinVer.SSHORTX_OLD, <<"comboLeg.exemptCode">>))
            \o When(sv >= MinVer.ORDER_COMBO_LEGS_PRICE, price)
            \o When(sv >= MinVer.SMART_COMBO_ROUTING_PARAMS, smart)
    BY DEF PlaceCombo
  <2> HIDE DEF legs, price, smart
  <2> QED
    BY <2>1, <2>2, <2>3, <2>4, JoinNames, WhenNames
<1>4. PlaceExtended(sv) \in Seq(FieldName)
  <2>1. /\ <<"sharesAllocation", "discretionaryAmt", "goodAfterTime", "goodTillDate",
             "faGroup", "faMethod", "faPercentage", "faProfile", "shortSaleSlot",
             "designatedLocation">> \in Seq(FieldName)
        /\ <<"exemptCode">> \in Seq(FieldName)
    BY DEF FieldName, Texts, Longs, Doubles, MaxWritten, Flags
  <2>2. <<"ocaType", "rule80A", "settlingFirm", "allOrNone", "minQty",
         "percentOffset", "eTradeOnly", "firmQuoteOnly", "nbboPriceCap",
         "auctionStrategy", "startingPrice", "stockRefPrice", "delta",
         "stockRangeLower", "stockRangeUpper", "overridePercentageConstraints",
         "volatility", "volatilityType", "deltaNeutralOrderType",
         "deltaNeutralAuxPrice">> \in Seq(FieldName)
    BY DEF FieldName, Texts, Longs, Doubles, MaxWritten, Flags
  <2> QED
    BY <2>1, <2>2, JoinNames, WhenNames DEF PlaceExtended
<1>5. PlaceDeltaNeutral(sv, o) \in Seq(FieldName)
  <2>1. /\ <<"deltaNeutralConId", "deltaNeutralSettlingFirm",
             "deltaNeutralClearingAccount", "deltaNeutralClearingIntent">> \in Seq(FieldName)
        /\ <<"deltaNeutralOpenClose", "deltaNeutralShortSale",
             "deltaNeutralShortSaleSlot", "deltaNeutralDesignatedLocation">> \in Seq(FieldName)
        /\ <<"continuousUpdate", "referencePriceType", "trailStopPrice">> \in Seq(FieldName)
        /\ <<"trailingPercent">> \in Seq(FieldName)
    BY DEF FieldName, Texts, Longs, Doubles, MaxWritten, Flags
  <2> QED
    BY <2>1, JoinNames, WhenNames DEF PlaceDeltaNeutral
<1>6. PlaceScale(sv, o) \in Seq(FieldName)
  <2>1. /\ <<"scaleInitLevelSize", "scaleSubsLevelSize">> \in Seq(FieldName)
        /\ <<"scaleNumComponents", "scaleInitLevelSize">> \in Seq(FieldName)
        /\ <<"scalePriceIncrement">> \in Seq(FieldName)
        /\ <<"scaleTable", "activeStartTime", "activeStopTime">> \in Seq(FieldName)
        /\ <<"scalePriceAdjustValue", "scalePriceAdjustInterval",
             "scaleProfitOffset", "scaleAutoReset", "scaleInitPosition",
             "scaleInitFillQty", "scaleRandomPercent">> \in Seq(FieldName)
    BY DEF FieldName, Texts, Longs, Doubles, MaxWritten, Flags
  <2> QED
    BY <2>1, JoinNames, WhenNames DEF PlaceScale
<1>7. PlaceRouting(sv, o) \in Seq(FieldName)
  <2> DEFINE hedge == <<"hedgeType">> \o When(o["hedgeType"] # <<>>, <<"hedgeParam">>)
             comp == <<"underCompPresent">>
                       \o When(o["underCompPresent"] # 0,
                               <<"underComp.conId", "underComp.delta", "underComp.price">>)
  <2>1. /\ <<"hedgeType">> \in Seq(FieldName) /\ <<"hedgeParam">> \in Seq(FieldName)
        /\ <<"optOutSmartRouting">> \in Seq(FieldName)
        /\ <<"clearingAccount", "clearingIntent">> \in Seq(FieldName)
        /\ <<"notHeld">> \in Seq(FieldName) /\ <<"underCompPresent">> \in Seq(FieldName)
        /\ <<"underComp.conId", "underComp.delta", "underComp.price">> \in Seq(FieldName)
    BY DEF FieldName, Texts, Longs, Doubles, MaxWritten, Flags
  <2>2. hedge \in Seq(FieldName) /\ comp \in Seq(FieldName)
    BY <2>1, JoinNames, WhenNames
  <2>3. PlaceRouting(sv, o) =
          When(sv >= MinVer.HEDGE_ORDERS, hedge)
            \o When(sv >= MinVer.OPT_OUT_SMART_ROUTING, <<"optOutSmartRouting">>)
            \o When(sv >= MinVer.PTA_ORDERS, <<"clearingAccount", "clearingIntent">>)
            \o When(sv >= MinVer.NOT_HELD, <<"notHeld">>)
            \o When(sv >= MinVer.UNDER_COMP, comp)
    BY DEF PlaceRouting
  <2> HIDE DEF hedge, comp
  <2> QED
    BY <2>1, <2>2, <2>3, JoinNames, WhenNames
<1>8. PlaceAlgo(sv, o) \in Seq(FieldName)
  <2> DEFINE params == <<"algoParamsCount">>
                         \o When(o["algoParamsCount"] > 0, <<"algoParam.tag", "algoParam.value">>)
             algo == <<"algoStrategy">> \o When(o["algoStrategy"] # <<>>, params)
  <2>1. /\ <<"algoStrategy">> \in Seq(FieldName) /\ <<"algoParamsCount">> \in Seq(FieldName)
        /\ <<"algoParam.tag", "algoParam.value">> \in Seq(FieldName)
        /\ <<"whatIf">> \in Seq(FieldName) /\ <<"orderMiscOptions">> \in Seq(FieldName)
    BY DEF FieldName, Texts, Longs, Doubles, MaxWritten, Flags
  <2>2. params \in Seq(FieldName)
    <3>1. When(o["algoParamsCount"] > 0, <<"algoParam.tag", "algoParam.value">>) \in Seq(FieldName)
      BY <2>1, WhenNames, Zenon
    <3> QED
      BY <2>1, <3>1, JoinNames, Zenon
  <2>3. algo \in Seq(FieldName)
    <3> HIDE DEF params
    <3>1. When(o["algoStrategy"] # <<>>, params) \in Seq(FieldName)
      BY <2>2, WhenNames, Zenon
    <3> QED
      BY <2>1, <3>1, JoinNames, Zenon
  <2>4. PlaceAlgo(sv, o) =
          When(sv >= MinVer.ALGO_ORDERS, algo) \o <<"whatIf">>
            \o When(sv >= MinVer.LINKING, <<"orderMiscOptions">>)
    BY DEF PlaceAlgo
  <2> HIDE DEF algo
  <2> QED
    BY <2>1, <2>3, <2>4, JoinNames, WhenNames
<1> QED
  BY <1>1, <1>2, <1>3, <1>4, <1>5, <1>6, <1>7, <1>8

\* The fields of one layout are among those of another.
Among(t, s) == IsLayout(t) /\ IsLayout(s) /\ Range(t) \subseteq Range(s)

\* What is in two layouts joined.
LEMMA RangeJoin ==
  \A s, u : IsLayout(s) /\ IsLayout(u) => Range(s \o u) = Range(s) \cup Range(u)
<1> SUFFICES ASSUME NEW s, NEW u, IsLayout(s), IsLayout(u)
             PROVE  Range(s \o u) = Range(s) \cup Range(u)
  OBVIOUS
<1>1. /\ IsLayout(s \o u) /\ Len(s) \in Nat /\ Len(u) \in Nat
      /\ Len(s \o u) = Len(s) + Len(u)
      /\ \A i \in 1..(Len(s) + Len(u)) :
           (s \o u)[i] = IF i <= Len(s) THEN s[i] ELSE u[i - Len(s)]
  BY LayoutJoin
<1>2. /\ DOMAIN s = 1..Len(s) /\ DOMAIN u = 1..Len(u)
      /\ DOMAIN (s \o u) = 1..(Len(s) + Len(u))
  BY <1>1, LenProperties DEF IsLayout
<1> DEFINE j == s \o u
           m == Len(s)
           n == Len(u)
<1>3. /\ m \in Nat /\ n \in Nat /\ DOMAIN s = 1..m /\ DOMAIN u = 1..n /\ DOMAIN j = 1..(m + n)
      /\ \A i \in 1..(m + n) : j[i] = IF i <= m THEN s[i] ELSE u[i - m]
  BY <1>1, <1>2
<1> HIDE DEF j, m, n
<1>4. ASSUME NEW i \in DOMAIN j PROVE j[i] \in Range(s) \cup Range(u)
  <2>1. CASE i <= m
    BY <1>3, <2>1 DEF Range
  <2>2. CASE ~(i <= m)
    <3>1. i - m \in 1..n /\ j[i] = u[i - m]
      BY <1>3, <2>2
    <3> QED
      BY <1>3, <3>1 DEF Range
  <2> QED
    BY <2>1, <2>2
<1>5. ASSUME NEW i \in DOMAIN s PROVE s[i] \in Range(j)
  <2>1. i \in 1..(m + n) /\ j[i] = s[i]
    BY <1>3
  <2> QED
    BY <1>3, <2>1 DEF Range
<1>6. ASSUME NEW i \in DOMAIN u PROVE u[i] \in Range(j)
  <2>1. i + m \in 1..(m + n) /\ j[i + m] = u[i]
    BY <1>3
  <2> QED
    BY <1>3, <2>1 DEF Range
<1>7. Range(j) = Range(s) \cup Range(u)
  BY <1>4, <1>5, <1>6 DEF Range
<1> QED
  BY <1>7 DEF j

\* Joining, conditions, and layouts that are among themselves.
LEMMA AmongJoin ==
  \A s, t, u, v : Among(t, s) /\ Among(u, v) => Among(t \o u, s \o v)
<1> SUFFICES ASSUME NEW s, NEW t, NEW u, NEW v, Among(t, s), Among(u, v)
             PROVE  Among(t \o u, s \o v)
  OBVIOUS
<1>1. IsLayout(t \o u) /\ IsLayout(s \o v)
  BY LayoutJoin DEF Among
<1>2. Range(t \o u) = Range(t) \cup Range(u) /\ Range(s \o v) = Range(s) \cup Range(v)
  BY RangeJoin DEF Among
<1> QED
  BY <1>1, <1>2 DEF Among

\* An empty layout has no fields.
LEMMA NoNames == IsLayout(<<>>) /\ Range(<<>>) = {}
<1>1. IsLayout(<<>>)
  BY EmptySeq, LayoutOf
<1>2. DOMAIN <<>> = {}
  BY EmptySeq, LenProperties
<1> QED
  BY <1>1, <1>2 DEF Range

\* A part that depends on a weaker condition has more fields.
LEMMA AmongWhen ==
  \A c, d, s, t : (c => d) /\ Among(t, s) => Among(When(c, t), When(d, s))
  BY NoNames DEF Among, When

\* A layout is among itself.
LEMMA AmongSame == \A s : IsLayout(s) => Among(s, s)
  BY DEF Among

--------------------------------------------------------------------------------
(* The fields that placeOrder writes.                                      *)

\* A server of version w is sent all that one of version v is sent.
Reaches(v, w) == v \in Nat /\ w \in Nat /\ (v <= w \/ w >= MinVer.LINKING)

\* An order that opens all the groups that another one opens.
Covers(o, d) ==
  /\ d["secType"] = BAG => o["secType"] = BAG
  /\ \A name \in Counts : d[name] > 0 => o[name] > 0
  /\ d["underCompPresent"] # 0 => o["underCompPresent"] # 0
  /\ \A name \in {"hedgeType", "algoStrategy", "deltaNeutralOrderType"} :
       d[name] # <<>> => o[name] # <<>>
  /\ HasScale(d) => HasScale(o)

\* Its fields are among those of that order.
LEMMA PlaceAmong ==
  ASSUME NEW v, NEW w, Reaches(v, w), NEW d, NEW o, Covers(o, d)
  PROVE  /\ Among(PlaceContract(v), PlaceContract(w))
         /\ Among(PlaceMain, PlaceMain)
         /\ Among(When(d["secType"] = BAG, PlaceCombo(v, d)),
                  When(o["secType"] = BAG, PlaceCombo(w, o)))
         /\ Among(PlaceExtended(v), PlaceExtended(w))
         /\ Among(PlaceDeltaNeutral(v, d), PlaceDeltaNeutral(w, o))
         /\ (v >= 40 <=> w >= 40) => Among(PlaceScale(v, d), PlaceScale(w, o))
         /\ Among(PlaceRouting(v, d), PlaceRouting(w, o))
         /\ Among(PlaceAlgo(v, d), PlaceAlgo(w, o))
<1> DEFINE From(n) == v >= n => w >= n
<1>1. \A n \in Nat : n <= 70 => From(n)
  BY DEF Reaches, MinVer
<1>2. /\ From(MinVer.PLACE_ORDER_CONID) /\ From(MinVer.TRADING_CLASS)
      /\ From(MinVer.SEC_ID_TYPE) /\ From(MinVer.SSHORTX_OLD)
      /\ From(MinVer.ORDER_COMBO_LEGS_PRICE) /\ From(MinVer.SMART_COMBO_ROUTING_PARAMS)
      /\ From(MinVer.DELTA_NEUTRAL_CONID) /\ From(MinVer.DELTA_NEUTRAL_OPEN_CLOSE)
      /\ From(MinVer.TRAILING_PERCENT) /\ From(MinVer.SCALE_ORDERS3)
      /\ From(MinVer.SCALE_TABLE) /\ From(MinVer.HEDGE_ORDERS)
      /\ From(MinVer.OPT_OUT_SMART_ROUTING) /\ From(MinVer.PTA_ORDERS)
      /\ From(MinVer.NOT_HELD) /\ From(MinVer.UNDER_COMP)
      /\ From(MinVer.ALGO_ORDERS) /\ From(MinVer.LINKING)
  BY <1>1 DEF MinVer
<1>4. \A S : \A s \in Seq(S) : Among(s, s)
  BY LayoutOf, AmongSame
<1>5. Among(PlaceContract(v), PlaceContract(w))
  <2>1. /\ Among(<<"conId">>, <<"conId">>) /\ Among(<<"tradingClass">>, <<"tradingClass">>)
        /\ Among(<<"secIdType", "secId">>, <<"secIdType", "secId">>)
    BY SingleName, Short, AmongSame
  <2> DEFINE b == <<"symbol", "secType", "expiry", "strike", "right", "multiplier",
                    "exchange", "primaryExchange", "currency", "localSymbol">>
  <2>2. Among(b, b)
    <3>1. b \in Seq(FieldName)
      BY DEF FieldName, Texts, Longs, Doubles, MaxWritten, Flags
    <3> HIDE DEF b
    <3> QED
      BY <1>4, <3>1
  <2>3. /\ Among(When(v >= MinVer.PLACE_ORDER_CONID, <<"conId">>),
                 When(w >= MinVer.PLACE_ORDER_CONID, <<"conId">>))
        /\ Among(When(v >= MinVer.TRADING_CLASS, <<"tradingClass">>),
                 When(w >= MinVer.TRADING_CLASS, <<"tradingClass">>))
        /\ Among(When(v >= MinVer.SEC_ID_TYPE, <<"secIdType", "secId">>),
                 When(w >= MinVer.SEC_ID_TYPE, <<"secIdType", "secId">>))
    BY <1>2, <2>1, AmongWhen, Zenon
  <2>4. \A x : PlaceContract(x) =
          When(x >= MinVer.PLACE_ORDER_CONID, <<"conId">>) \o b
            \o When(x >= MinVer.TRADING_CLASS, <<"tradingClass">>)
            \o When(x >= MinVer.SEC_ID_TYPE, <<"secIdType", "secId">>)
    BY Zenon DEF PlaceContract
  <2> HIDE DEF b
  <2> QED
    BY <2>2, <2>3, <2>4, AmongJoin, Zenon
<1>6. Among(PlaceMain, PlaceMain)
  BY <1>4, PlaceNames
<1>7. Among(When(d["secType"] = BAG, PlaceCombo(v, d)), When(o["secType"] = BAG, PlaceCombo(w, o)))
  <2> DEFINE legs == SubSeq(ComboLegFields, 1, 7)
             e == <<"comboLeg.exemptCode">>
             q == <<"orderComboLeg.price">>
             t == <<"smartComboRoutingParam.tag", "smartComboRoutingParam.value">>
             m == <<"comboLegsCount">>
             n == <<"orderComboLegsCount">>
             r == <<"smartComboRoutingParamsCount">>
             L(x, y) == When(y["comboLegsCount"] > 0, legs \o When(x >= MinVer.SSHORTX_OLD, e))
             P(y) == n \o When(y["orderComboLegsCount"] > 0, q)
             R(y) == r \o When(y["smartComboRoutingParamsCount"] > 0, t)
  <2>1. /\ Among(m, m) /\ Among(e, e) /\ Among(q, q) /\ Among(t, t) /\ Among(n, n)
        /\ Among(r, r)
    BY SingleName, Short, AmongSame
  <2>2. Among(legs, legs)
    <3>1. ComboLegFields \in Seq(FieldName) /\ Len(ComboLegFields) = 8
      BY DEF ComboLegFields, FieldName, Texts, Longs, Doubles, MaxWritten, Flags
    <3>2. ASSUME NEW i \in 1..7
          PROVE  ComboLegFields[i] \in FieldName
      <4>1. i \in 1..Len(ComboLegFields)
        BY <3>1
      <4> QED
        BY <3>1, <4>1, ElementOfSeq
    <3>3. legs \in Seq(FieldName)
      BY <3>2, SubSeqProperties
    <3> QED
      BY <1>4, <3>3
  <2>3. \A x, y : PlaceCombo(x, y) =
          m \o L(x, y) \o When(x >= MinVer.ORDER_COMBO_LEGS_PRICE, P(y))
            \o When(x >= MinVer.SMART_COMBO_ROUTING_PARAMS, R(y))
    BY Zenon DEF PlaceCombo
  <2> HIDE DEF legs, e, q, t, m, n, r
  <2>4. /\ d["comboLegsCount"] > 0 => o["comboLegsCount"] > 0
        /\ d["orderComboLegsCount"] > 0 => o["orderComboLegsCount"] > 0
        /\ d["smartComboRoutingParamsCount"] > 0 => o["smartComboRoutingParamsCount"] > 0
    BY DEF Covers, Counts
  <2>5. Among(L(v, d), L(w, o))
    <3>1. Among(When(v >= MinVer.SSHORTX_OLD, e), When(w >= MinVer.SSHORTX_OLD, e))
      BY <1>2, <2>1, AmongWhen, Zenon
    <3>2. Among(legs \o When(v >= MinVer.SSHORTX_OLD, e), legs \o When(w >= MinVer.SSHORTX_OLD, e))
      BY <2>2, <3>1, AmongJoin, Zenon
    <3> QED
      BY <2>4, <3>2, AmongWhen, Zenon
  <2>6. Among(P(d), P(o)) /\ Among(R(d), R(o))
    <3>1. /\ Among(When(d["orderComboLegsCount"] > 0, q), When(o["orderComboLegsCount"] > 0, q))
          /\ Among(When(d["smartComboRoutingParamsCount"] > 0, t),
                   When(o["smartComboRoutingParamsCount"] > 0, t))
      BY <2>1, <2>4, AmongWhen, Zenon
    <3> QED
      BY <2>1, <3>1, AmongJoin, Zenon
  <2> HIDE DEF L, P, R
  <2>7. /\ Among(When(v >= MinVer.ORDER_COMBO_LEGS_PRICE, P(d)),
                 When(w >= MinVer.ORDER_COMBO_LEGS_PRICE, P(o)))
        /\ Among(When(v >= MinVer.SMART_COMBO_ROUTING_PARAMS, R(d)),
                 When(w >= MinVer.SMART_COMBO_ROUTING_PARAMS, R(o)))
    BY <1>2, <2>6, AmongWhen, Zenon
  <2>8. Among(PlaceCombo(v, d), PlaceCombo(w, o))
    BY <2>1, <2>3, <2>5, <2>7, AmongJoin, Zenon
  <2>9. d["secType"] = BAG => o["secType"] = BAG
    BY DEF Covers
  <2> QED
    BY <2>8, <2>9, AmongWhen, Zenon
<1>8. Among(PlaceExtended(v), PlaceExtended(w))
  <2> DEFINE a == <<"sharesAllocation", "discretionaryAmt", "goodAfterTime", "goodTillDate",
                    "faGroup", "faMethod", "faPercentage", "faProfile", "shortSaleSlot",
                    "designatedLocation">>
             b == <<"ocaType", "rule80A", "settlingFirm", "allOrNone", "minQty",
                    "percentOffset", "eTradeOnly", "firmQuoteOnly", "nbboPriceCap",
                    "auctionStrategy", "startingPrice", "stockRefPrice", "delta",
                    "stockRangeLower", "stockRangeUpper", "overridePercentageConstraints",
                    "volatility", "volatilityType", "deltaNeutralOrderType",
                    "deltaNeutralAuxPrice">>
             e == <<"exemptCode">>
  <2>1. Among(a, a) /\ Among(b, b)
    <3>1. a \in Seq(FieldName) /\ b \in Seq(FieldName)
      BY DEF FieldName, Texts, Longs, Doubles, MaxWritten, Flags
    <3> HIDE DEF a, b
    <3> QED
      BY <1>4, <3>1
  <2>2. Among(e, e)
    BY SingleName, AmongSame
  <2>3. \A x : PlaceExtended(x) = a \o When(x >= MinVer.SSHORTX_OLD, e) \o b
    BY Zenon DEF PlaceExtended
  <2> HIDE DEF a, b, e
  <2>4. Among(When(v >= MinVer.SSHORTX_OLD, e), When(w >= MinVer.SSHORTX_OLD, e))
    BY <1>2, <2>2, AmongWhen, Zenon
  <2> QED
    BY <2>1, <2>3, <2>4, AmongJoin, Zenon
<1>9. Among(PlaceDeltaNeutral(v, d), PlaceDeltaNeutral(w, o))
  <2> DEFINE a == <<"deltaNeutralConId", "deltaNeutralSettlingFirm",
                    "deltaNeutralClearingAccount", "deltaNeutralClearingIntent">>
             b == <<"deltaNeutralOpenClose", "deltaNeutralShortSale",
                    "deltaNeutralShortSaleSlot", "deltaNeutralDesignatedLocation">>
             c == <<"continuousUpdate", "referencePriceType", "trailStopPrice">>
             e == <<"trailingPercent">>
  <2>1. Among(a, a) /\ Among(b, b) /\ Among(c, c) /\ Among(e, e)
    BY SingleName, Short, AmongSame
  <2>2. \A x, y : PlaceDeltaNeutral(x, y) =
          When(x >= MinVer.DELTA_NEUTRAL_CONID /\ y["deltaNeutralOrderType"] # <<>>, a)
            \o When(x >= MinVer.DELTA_NEUTRAL_OPEN_CLOSE /\ y["deltaNeutralOrderType"] # <<>>, b)
            \o c \o When(x >= MinVer.TRAILING_PERCENT, e)
    BY Zenon DEF PlaceDeltaNeutral
  <2> HIDE DEF a, b, c, e
  <2>3. d["deltaNeutralOrderType"] # <<>> => o["deltaNeutralOrderType"] # <<>>
    BY DEF Covers
  <2>4. /\ Among(When(v >= MinVer.DELTA_NEUTRAL_CONID /\ d["deltaNeutralOrderType"] # <<>>, a),
                 When(w >= MinVer.DELTA_NEUTRAL_CONID /\ o["deltaNeutralOrderType"] # <<>>, a))
        /\ Among(When(v >= MinVer.DELTA_NEUTRAL_OPEN_CLOSE /\ d["deltaNeutralOrderType"] # <<>>, b),
                 When(w >= MinVer.DELTA_NEUTRAL_OPEN_CLOSE /\ o["deltaNeutralOrderType"] # <<>>, b))
        /\ Among(When(v >= MinVer.TRAILING_PERCENT, e), When(w >= MinVer.TRAILING_PERCENT, e))
    BY <1>2, <2>1, <2>3, AmongWhen, Zenon
  <2> QED
    BY <2>1, <2>2, <2>4, AmongJoin, Zenon
<1>10. (v >= 40 <=> w >= 40) => Among(PlaceScale(v, d), PlaceScale(w, o))
  <2> DEFINE f(x) == IF x >= MinVer.SCALE_ORDERS2 THEN <<"scaleInitLevelSize", "scaleSubsLevelSize">>
                                                  ELSE <<"scaleNumComponents", "scaleInitLevelSize">>
             b == <<"scalePriceIncrement">>
             a == <<"scalePriceAdjustValue", "scalePriceAdjustInterval",
                    "scaleProfitOffset", "scaleAutoReset", "scaleInitPosition",
                    "scaleInitFillQty", "scaleRandomPercent">>
             c == <<"scaleTable", "activeStartTime", "activeStopTime">>
  <2>1. Among(b, b) /\ Among(c, c) /\ IsLayout(f(v))
    BY SingleName, Short, AmongSame
  <2>2. Among(a, a)
    <3>1. a \in Seq(FieldName)
      BY DEF FieldName, Texts, Longs, Doubles, MaxWritten, Flags
    <3> HIDE DEF a
    <3> QED
      BY <1>4, <3>1
  <2>3. (v >= 40 <=> w >= 40) => f(v) = f(w)
    BY DEF MinVer
  <2>4. \A x, y : PlaceScale(x, y) =
          f(x) \o b \o When(x >= MinVer.SCALE_ORDERS3 /\ HasScale(y), a)
            \o When(x >= MinVer.SCALE_TABLE, c)
    BY Zenon DEF PlaceScale
  <2> HIDE DEF f, a, b, c
  <2>5. (v >= 40 <=> w >= 40) => Among(f(v), f(w))
    BY <2>1, <2>3, AmongSame
  <2>6. HasScale(d) => HasScale(o)
    BY DEF Covers
  <2>7. /\ Among(When(v >= MinVer.SCALE_ORDERS3 /\ HasScale(d), a),
                 When(w >= MinVer.SCALE_ORDERS3 /\ HasScale(o), a))
        /\ Among(When(v >= MinVer.SCALE_TABLE, c), When(w >= MinVer.SCALE_TABLE, c))
    BY <1>2, <2>1, <2>2, <2>6, AmongWhen, Zenon
  <2> QED
    BY <2>1, <2>4, <2>5, <2>7, AmongJoin, Zenon
<1>11. Among(PlaceRouting(v, d), PlaceRouting(w, o))
  <2> DEFINE a == <<"hedgeType">>
             b == <<"hedgeParam">>
             c == <<"optOutSmartRouting">>
             e == <<"clearingAccount", "clearingIntent">>
             f == <<"notHeld">>
             g == <<"underCompPresent">>
             h == <<"underComp.conId", "underComp.delta", "underComp.price">>
             H(y) == a \o When(y["hedgeType"] # <<>>, b)
             U(y) == g \o When(y["underCompPresent"] # 0, h)
  <2>1. /\ Among(a, a) /\ Among(b, b) /\ Among(c, c) /\ Among(e, e) /\ Among(f, f)
        /\ Among(g, g) /\ Among(h, h)
    BY SingleName, Short, AmongSame
  <2>2. \A x, y : PlaceRouting(x, y) =
          When(x >= MinVer.HEDGE_ORDERS, H(y)) \o When(x >= MinVer.OPT_OUT_SMART_ROUTING, c)
            \o When(x >= MinVer.PTA_ORDERS, e) \o When(x >= MinVer.NOT_HELD, f)
            \o When(x >= MinVer.UNDER_COMP, U(y))
    BY Zenon DEF PlaceRouting
  <2> HIDE DEF a, b, c, e, f, g, h
  <2>3. /\ d["hedgeType"] # <<>> => o["hedgeType"] # <<>>
        /\ d["underCompPresent"] # 0 => o["underCompPresent"] # 0
    BY DEF Covers
  <2>4. /\ Among(When(d["hedgeType"] # <<>>, b), When(o["hedgeType"] # <<>>, b))
        /\ Among(When(d["underCompPresent"] # 0, h), When(o["underCompPresent"] # 0, h))
    BY <2>1, <2>3, AmongWhen, Zenon
  <2>5. Among(H(d), H(o)) /\ Among(U(d), U(o))
    BY <2>1, <2>4, AmongJoin, Zenon
  <2> HIDE DEF H, U
  <2>6. /\ Among(When(v >= MinVer.HEDGE_ORDERS, H(d)), When(w >= MinVer.HEDGE_ORDERS, H(o)))
        /\ Among(When(v >= MinVer.OPT_OUT_SMART_ROUTING, c),
                 When(w >= MinVer.OPT_OUT_SMART_ROUTING, c))
        /\ Among(When(v >= MinVer.PTA_ORDERS, e), When(w >= MinVer.PTA_ORDERS, e))
        /\ Among(When(v >= MinVer.NOT_HELD, f), When(w >= MinVer.NOT_HELD, f))
        /\ Among(When(v >= MinVer.UNDER_COMP, U(d)), When(w >= MinVer.UNDER_COMP, U(o)))
    BY <1>2, <2>1, <2>5, AmongWhen, Zenon
  <2> QED
    BY <2>2, <2>6, AmongJoin, Zenon
<1>12. Among(PlaceAlgo(v, d), PlaceAlgo(w, o))
  <2> DEFINE a == <<"algoStrategy">>
             b == <<"algoParamsCount">>
             c == <<"algoParam.tag", "algoParam.value">>
             e == <<"whatIf">>
             f == <<"orderMiscOptions">>
             C(y) == b \o When(y["algoParamsCount"] > 0, c)
             A(y) == a \o When(y["algoStrategy"] # <<>>, C(y))
  <2>1. Among(a, a) /\ Among(b, b) /\ Among(c, c) /\ Among(e, e) /\ Among(f, f)
    BY SingleName, Short, AmongSame
  <2>2. \A x, y : PlaceAlgo(x, y) =
          When(x >= MinVer.ALGO_ORDERS, A(y)) \o e \o When(x >= MinVer.LINKING, f)
    BY Zenon DEF PlaceAlgo
  <2> HIDE DEF a, b, c, e, f
  <2>3. /\ d["algoParamsCount"] > 0 => o["algoParamsCount"] > 0
        /\ d["algoStrategy"] # <<>> => o["algoStrategy"] # <<>>
    BY DEF Covers, Counts
  <2>4. Among(C(d), C(o))
    <3>1. Among(When(d["algoParamsCount"] > 0, c), When(o["algoParamsCount"] > 0, c))
      BY <2>1, <2>3, AmongWhen, Zenon
    <3> QED
      BY <2>1, <3>1, AmongJoin, Zenon
  <2>5. Among(A(d), A(o))
    <3> HIDE DEF C
    <3>1. Among(When(d["algoStrategy"] # <<>>, C(d)), When(o["algoStrategy"] # <<>>, C(o)))
      BY <2>3, <2>4, AmongWhen, Zenon
    <3> QED
      BY <2>1, <3>1, AmongJoin, Zenon
  <2> HIDE DEF A
  <2>6. /\ Among(When(v >= MinVer.ALGO_ORDERS, A(d)), When(w >= MinVer.ALGO_ORDERS, A(o)))
        /\ Among(When(v >= MinVer.LINKING, f), When(w >= MinVer.LINKING, f))
    BY <1>2, <2>1, <2>5, AmongWhen, Zenon
  <2> QED
    BY <2>1, <2>2, <2>6, AmongJoin, Zenon
<1> QED
  BY <1>5, <1>6, <1>7, <1>8, <1>9, <1>10, <1>11, <1>12

\* The parts of what placeOrder writes.
Combo(sv, o) == When(o["secType"] = BAG, PlaceCombo(sv, o))

InParts(name, sv, o) ==
  \/ name \in Range(PlaceContract(sv)) \/ name \in Range(PlaceMain)
  \/ name \in Range(Combo(sv, o)) \/ name \in Range(PlaceExtended(sv))
  \/ name \in Range(PlaceDeltaNeutral(sv, o)) \/ name \in Range(PlaceScale(sv, o))
  \/ name \in Range(PlaceRouting(sv, o)) \/ name \in Range(PlaceAlgo(sv, o))

\* A field that is written is in one of the parts, and has a name of the above.
LEMMA PlaceParts ==
  ASSUME NEW sv, NEW o
  PROVE  /\ \A name : name \in Range(PlaceFields(sv, o)) <=> InParts(name, sv, o)
         /\ Range(PlaceFields(sv, o)) \subseteq FieldName
<1> DEFINE a == PlaceContract(sv)
           b == Combo(sv, o)
           c == PlaceExtended(sv)
           d == PlaceDeltaNeutral(sv, o)
           e == PlaceScale(sv, o)
           f == PlaceRouting(sv, o)
           g == PlaceAlgo(sv, o)
           m == PlaceMain
<1>1. b \in Seq(FieldName)
  BY PlaceNames, WhenNames, Zenon DEF Combo
<1>2. /\ a \in Seq(FieldName) /\ b \in Seq(FieldName) /\ c \in Seq(FieldName)
      /\ d \in Seq(FieldName) /\ e \in Seq(FieldName) /\ f \in Seq(FieldName)
      /\ g \in Seq(FieldName) /\ m \in Seq(FieldName)
  BY <1>1, PlaceNames
<1>3. PlaceFields(sv, o) = a \o m \o b \o c \o d \o e \o f \o g
  BY Zenon DEF PlaceFields, Combo
<1>4. \A name : InParts(name, sv, o) <=>
        \/ name \in Range(a) \/ name \in Range(m) \/ name \in Range(b) \/ name \in Range(c)
        \/ name \in Range(d) \/ name \in Range(e) \/ name \in Range(f) \/ name \in Range(g)
  BY DEF InParts
<1> HIDE DEF a, b, c, d, e, f, g, m
<1>5. \A s \in Seq(FieldName) : IsLayout(s) /\ Range(s) \subseteq FieldName
  <2> SUFFICES ASSUME NEW s \in Seq(FieldName)
               PROVE  IsLayout(s) /\ Range(s) \subseteq FieldName
    OBVIOUS
  <2>1. DOMAIN s = 1..Len(s) /\ \A i \in DOMAIN s : s[i] \in FieldName
    BY LenProperties
  <2> QED
    BY <2>1, LayoutOf DEF Range
<1>6. /\ a \o m \in Seq(FieldName) /\ a \o m \o b \in Seq(FieldName)
      /\ a \o m \o b \o c \in Seq(FieldName) /\ a \o m \o b \o c \o d \in Seq(FieldName)
      /\ a \o m \o b \o c \o d \o e \in Seq(FieldName)
      /\ a \o m \o b \o c \o d \o e \o f \in Seq(FieldName)
      /\ a \o m \o b \o c \o d \o e \o f \o g \in Seq(FieldName)
  BY <1>2, JoinNames, Zenon
<1>7. Range(a \o m) = Range(a) \cup Range(m)
  BY <1>2, <1>5, RangeJoin
<1>8. Range(a \o m \o b) = Range(a \o m) \cup Range(b)
  BY <1>2, <1>5, <1>6, RangeJoin, Zenon
<1>9. Range(a \o m \o b \o c) = Range(a \o m \o b) \cup Range(c)
  BY <1>2, <1>5, <1>6, RangeJoin, Zenon
<1>10. Range(a \o m \o b \o c \o d) = Range(a \o m \o b \o c) \cup Range(d)
  BY <1>2, <1>5, <1>6, RangeJoin, Zenon
<1>11. Range(a \o m \o b \o c \o d \o e) = Range(a \o m \o b \o c \o d) \cup Range(e)
  BY <1>2, <1>5, <1>6, RangeJoin, Zenon
<1>12. Range(a \o m \o b \o c \o d \o e \o f) = Range(a \o m \o b \o c \o d \o e) \cup Range(f)
  BY <1>2, <1>5, <1>6, RangeJoin, Zenon
<1>13. Range(a \o m \o b \o c \o d \o e \o f \o g)
         = Range(a \o m \o b \o c \o d \o e \o f) \cup Range(g)
  BY <1>2, <1>5, <1>6, RangeJoin, Zenon
<1>14. Range(PlaceFields(sv, o)) =
         Range(a) \cup Range(m) \cup Range(b) \cup Range(c) \cup Range(d) \cup Range(e)
           \cup Range(f) \cup Range(g)
  BY <1>3, <1>7, <1>8, <1>9, <1>10, <1>11, <1>12, <1>13, Zenon
<1>15. Range(PlaceFields(sv, o)) \subseteq FieldName
  BY <1>3, <1>5, <1>6
<1> QED
  BY <1>4, <1>14, <1>15

\* The fields of an order are among those of one that covers it.
LEMMA FieldsAmong ==
  ASSUME NEW v, NEW w, Reaches(v, w), v >= 40 <=> w >= 40, NEW d, NEW o, Covers(o, d)
  PROVE  Range(PlaceFields(v, d)) \subseteq Range(PlaceFields(w, o))
<1>1. \A name : InParts(name, v, d) => InParts(name, w, o)
  BY PlaceAmong DEF InParts, Combo, Among
<1> QED
  BY <1>1, PlaceParts

\* All fields that are written have a name in Names.
LEMMA AllNamed ==
  ASSUME NEW sv \in Nat, sv >= 38, NEW o
  PROVE  Range(PlaceFields(sv, o)) \subseteq Names
<1>1. Covers(Opened, o)
  <2>1. \A name \in {"secType", "hedgeType", "algoStrategy", "deltaNeutralOrderType"} :
          Opened[name] = BAG
    BY DEF Opened
  <2>2. \A name \in Counts \cup {"underCompPresent", "scalePriceIncrement"} : Opened[name] = 1
    BY DEF Opened, Counts
  <2>3. UNSET # 1
    BY UnsetNotRound
  <2>4. BAG # <<>>
    BY DEF BAG
  <2> QED
    BY <2>1, <2>2, <2>3, <2>4 DEF Covers, HasScale, Counts
<1>2. Reaches(sv, 70) /\ (sv < 40 => Reaches(sv, 38) \/ sv = 39)
  BY DEF Reaches, MinVer
<1>3. MinVer.LINKING = 70
  BY DEF MinVer
<1>4. CASE sv >= 40
  BY <1>1, <1>2, <1>3, <1>4, FieldsAmong DEF Names
<1>5. CASE sv < 40
  <2>1. Among(PlaceScale(sv, o), PlaceScale(38, Opened))
    <3>1. Among(PlaceScale(38, o), PlaceScale(38, Opened))
      <4>1. Reaches(38, 38)
        BY DEF Reaches
      <4> QED
        BY <1>1, <4>1, PlaceAmong
    <3>2. PlaceScale(39, o) = PlaceScale(38, o)
      BY DEF PlaceScale, When, MinVer
    <3>3. sv = 38 \/ sv = 39
      BY <1>5
    <3> QED
      BY <3>1, <3>2, <3>3
  <2>2. Reaches(sv, 70)
    BY <1>2
  <2>3. \A name : InParts(name, sv, o) => InParts(name, 70, Opened) \/ InParts(name, 38, Opened)
    BY <1>1, <2>1, <2>2, PlaceAmong DEF InParts, Combo, Among
  <2> QED
    BY <1>3, <2>3, PlaceParts DEF Names
<1> QED
  BY <1>4, <1>5

--------------------------------------------------------------------------------
(* The fields of OPEN_ORDER.                                               *)

\* What TWS tells of an order that was placed.
Told(sv, o) == OpenTexts(sv, Encode(sv, o))

\* The texts that placeOrder sends.
LEMMA EncodeIs ==
  ASSUME NEW sv, NEW o
  PROVE  /\ DOMAIN Encode(sv, o) = Range(PlaceFields(sv, o))
         /\ \A name \in Range(PlaceFields(sv, o)) :
              Encode(sv, o)[name] = SentAs(sv, name, o[name])
  BY Zenon DEF Encode, SentAs

\* What OPEN_ORDER may refer to.
KnownOf(sv, o) ==
  [name \in Range(PlaceFields(sv, o)) \cup {"version"} |->
     IF name = "version" THEN <<OpenVersion(sv)>> ELSE SentAs(sv, name, o[name])]

\* The parts of OPEN_ORDER, for what decides them.
Counted(k) == \A name \in Counts : Num(k, name) \in Nat

\* A field of OPEN_ORDER is in one of its parts.
LEMMA OpenParts ==
  ASSUME NEW sv, NEW k, Counted(k)
  PROVE  /\ IsLayout(OpenDeltaNeutral(k)) /\ IsLayout(OpenCombo(k)) /\ IsLayout(OpenScale(k))
         /\ IsLayout(OpenRouting(k)) /\ IsLayout(OpenAlgo(k))
         /\ \A name : name \in Range(OpenOrder(sv, k)) <=>
              \/ name \in {"version", "orderId", "continuousUpdate", "referencePriceType",
                          "trailStopPrice"}
              \/ name \in Range(OpenContract(k)) \/ name \in Range(OpenMain)
              \/ name \in Range(OpenExempt(sv, k)) \/ name \in Range(OpenExtended)
              \/ name \in Range(OpenDeltaNeutral(k)) \/ name \in Range(OpenCombo(k))
              \/ name \in Range(OpenScale(k)) \/ name \in Range(OpenRouting(k))
              \/ name \in Range(OpenAlgo(k)) \/ name \in Range(OpenState)
<1>1. \A s, u : IsLayout(s) /\ IsLayout(u) => IsLayout(s \o u)
  BY LayoutJoin
<1>2. \A c, s : IsLayout(s) => IsLayout(When(c, s))
  BY NoNames DEF When
<1>3. \A a, b : <<a, b>> # <<>> /\ <<a>> # <<>>
  OBVIOUS
<1>4. \A name \in Counts : \A a, b : IsLayout(Times(Num(k, name), <<a, b>>))
                                 /\ IsLayout(Times(Num(k, name), <<a>>))
  BY <1>3, Short, SingleName, TimesLayout DEF Counted
<1>5. IsLayout(OpenDeltaNeutral(k))
  <2> DEFINE a == <<"deltaNeutralConId", "deltaNeutralSettlingFirm",
                    "deltaNeutralClearingAccount", "deltaNeutralClearingIntent">>
             b == <<"deltaNeutralOpenClose", "deltaNeutralShortSale",
                    "deltaNeutralShortSaleSlot", "deltaNeutralDesignatedLocation">>
  <2>1. IsLayout(a) /\ IsLayout(b)
    BY Short
  <2>2. OpenDeltaNeutral(k) =
          When(Version(k) >= 27 /\ Given(k, "deltaNeutralOrderType"), a)
            \o When(Version(k) >= 31 /\ Given(k, "deltaNeutralOrderType"), b)
    BY Zenon DEF OpenDeltaNeutral
  <2> HIDE DEF a, b
  <2> QED
    BY <1>1, <1>2, <2>1, <2>2, Zenon
<1>6. IsLayout(OpenCombo(k))
  <2> DEFINE t == <<"trailingPercent">>
             b == <<"basisPoints", "basisPointsType", "comboLegsDescrip">>
             m == <<"comboLegsCount">>
             n == <<"orderComboLegsCount">>
             r == <<"smartComboRoutingParamsCount">>
             x == Times(Num(k, "comboLegsCount"), ComboLegFields)
             y == Times(Num(k, "orderComboLegsCount"), <<"orderComboLeg.price">>)
             z == Times(Num(k, "smartComboRoutingParamsCount"),
                        <<"smartComboRoutingParam.tag", "smartComboRoutingParam.value">>)
  <2>1. IsLayout(t) /\ IsLayout(b) /\ IsLayout(m) /\ IsLayout(n) /\ IsLayout(r)
    BY Short, SingleName
  <2>2. IsLayout(x)
    <3>1. ComboLegFields # <<>>
      BY DEF ComboLegFields
    <3> QED
      BY <3>1, Long, TimesLayout DEF Counted, Counts
  <2>3. IsLayout(y) /\ IsLayout(z)
    BY <1>4 DEF Counts
  <2>4. OpenCombo(k) =
          When(Version(k) >= 30, t) \o b
            \o When(Version(k) >= 29, m \o x \o n \o y) \o When(Version(k) >= 26, r \o z)
    BY Zenon DEF OpenCombo
  <2> HIDE DEF t, b, m, n, r, x, y, z
  <2>5. IsLayout(m \o x \o n \o y) /\ IsLayout(r \o z)
    BY <1>1, <2>1, <2>2, <2>3, Zenon
  <2> QED
    BY <1>1, <1>2, <2>1, <2>4, <2>5, Zenon
<1>7. IsLayout(OpenScale(k))
  <2> DEFINE f == IF Version(k) >= 20 THEN <<"scaleInitLevelSize", "scaleSubsLevelSize">>
                                      ELSE <<"notSuppScaleNumComponents", "scaleInitLevelSize">>
             b == <<"scalePriceIncrement">>
             a == <<"scalePriceAdjustValue", "scalePriceAdjustInterval",
                    "scaleProfitOffset", "scaleAutoReset", "scaleInitPosition",
                    "scaleInitFillQty", "scaleRandomPercent">>
  <2>1. IsLayout(f) /\ IsLayout(b)
    BY Short, SingleName
  <2>2. IsLayout(a)
    <3>1. a \in Seq(FieldName)
      BY DEF FieldName, Texts, Longs, Doubles, MaxWritten, Flags
    <3> HIDE DEF a
    <3> QED
      BY <3>1, LayoutOf
  <2>3. OpenScale(k) =
          f \o b \o When(Version(k) >= 28 /\ Num(k, "scalePriceIncrement") > 0, a)
    BY Zenon DEF OpenScale
  <2> HIDE DEF f, a, b
  <2> QED
    BY <1>1, <1>2, <2>1, <2>2, <2>3, Zenon
<1>8. IsLayout(OpenRouting(k))
  <2> DEFINE a == <<"hedgeType">>
             b == <<"hedgeParam">>
             c == <<"optOutSmartRouting">>
             e == <<"clearingAccount", "clearingIntent">>
             f == <<"notHeld">>
             g == <<"underCompPresent">>
             h == <<"underComp.conId", "underComp.delta", "underComp.price">>
  <2>1. /\ IsLayout(a) /\ IsLayout(b) /\ IsLayout(c) /\ IsLayout(e) /\ IsLayout(f)
        /\ IsLayout(g) /\ IsLayout(h)
    BY Short, SingleName
  <2>2. OpenRouting(k) =
          When(Version(k) >= 24, a \o When(Given(k, "hedgeType"), b))
            \o When(Version(k) >= 25, c) \o e \o When(Version(k) >= 22, f)
            \o When(Version(k) >= 20, g \o When(Num(k, "underCompPresent") # 0, h))
    BY Zenon DEF OpenRouting
  <2> HIDE DEF a, b, c, e, f, g, h
  <2>3. /\ IsLayout(a \o When(Given(k, "hedgeType"), b))
        /\ IsLayout(g \o When(Num(k, "underCompPresent") # 0, h))
    BY <1>1, <1>2, <2>1, Zenon
  <2> QED
    BY <1>1, <1>2, <2>1, <2>2, <2>3, Zenon
<1>9. IsLayout(OpenAlgo(k))
  <2> DEFINE a == <<"algoStrategy">>
             b == <<"algoParamsCount">>
             c == Times(Num(k, "algoParamsCount"), <<"algoParam.tag", "algoParam.value">>)
  <2>1. IsLayout(a) /\ IsLayout(b) /\ IsLayout(c)
    BY <1>4, SingleName DEF Counts
  <2>2. OpenAlgo(k) = When(Version(k) >= 21, a \o When(Given(k, "algoStrategy"), b \o c))
    BY Zenon DEF OpenAlgo
  <2> HIDE DEF a, b, c
  <2>3. IsLayout(a \o When(Given(k, "algoStrategy"), b \o c))
    BY <1>1, <1>2, <2>1, Zenon
  <2> QED
    BY <1>2, <2>2, <2>3, Zenon
<1>10. IsLayout(OpenContract(k)) /\ IsLayout(OpenExempt(sv, k))
  <2>1. IsLayout(OpenContract(k))
    BY <1>1, <1>2, Short, SingleName DEF OpenContract
  <2>2. IsLayout(OpenExempt(sv, k))
    BY <1>2, SingleName DEF OpenExempt
  <2> QED
    BY <2>1, <2>2
<1> DEFINE a == <<"version", "orderId">>
           m == <<"continuousUpdate", "referencePriceType", "trailStopPrice">>
<1>11. IsLayout(a) /\ IsLayout(m)
  BY Short
<1>12. /\ Range(a) = {"version", "orderId"}
       /\ Range(m) = {"continuousUpdate", "referencePriceType", "trailStopPrice"}
  BY DEF Range
<1>13. OpenOrder(sv, k) =
         a \o OpenContract(k) \o OpenMain \o OpenExempt(sv, k) \o OpenExtended
           \o OpenDeltaNeutral(k) \o m \o OpenCombo(k) \o OpenScale(k) \o OpenRouting(k)
           \o OpenAlgo(k) \o OpenState
  BY Zenon DEF OpenOrder
<1> HIDE DEF a, m
<1> DEFINE p1 == a \o OpenContract(k)
           p2 == p1 \o OpenMain
           p3 == p2 \o OpenExempt(sv, k)
           p4 == p3 \o OpenExtended
           p5 == p4 \o OpenDeltaNeutral(k)
           p6 == p5 \o m
           p7 == p6 \o OpenCombo(k)
           p8 == p7 \o OpenScale(k)
           p9 == p8 \o OpenRouting(k)
           p10 == p9 \o OpenAlgo(k)
           p11 == p10 \o OpenState
<1>14. OpenOrder(sv, k) = p11
  BY <1>13
<1>15. IsLayout(p1) /\ Range(p1) = Range(a) \cup Range(OpenContract(k))
  BY <1>1, <1>10, <1>11, RangeJoin
<1> HIDE DEF p1
<1>16. IsLayout(p2) /\ Range(p2) = Range(p1) \cup Range(OpenMain)
  BY <1>1, <1>15, Long, RangeJoin
<1> HIDE DEF p2
<1>17. IsLayout(p3) /\ Range(p3) = Range(p2) \cup Range(OpenExempt(sv, k))
  BY <1>1, <1>10, <1>16, RangeJoin
<1> HIDE DEF p3
<1>18. IsLayout(p4) /\ Range(p4) = Range(p3) \cup Range(OpenExtended)
  BY <1>1, <1>17, Long, RangeJoin
<1> HIDE DEF p4
<1>19. IsLayout(p5) /\ Range(p5) = Range(p4) \cup Range(OpenDeltaNeutral(k))
  BY <1>1, <1>5, <1>18, RangeJoin
<1> HIDE DEF p5
<1>20. IsLayout(p6) /\ Range(p6) = Range(p5) \cup Range(m)
  BY <1>1, <1>11, <1>19, RangeJoin
<1> HIDE DEF p6
<1>21. IsLayout(p7) /\ Range(p7) = Range(p6) \cup Range(OpenCombo(k))
  BY <1>1, <1>6, <1>20, RangeJoin
<1> HIDE DEF p7
<1>22. IsLayout(p8) /\ Range(p8) = Range(p7) \cup Range(OpenScale(k))
  BY <1>1, <1>7, <1>21, RangeJoin
<1> HIDE DEF p8
<1>23. IsLayout(p9) /\ Range(p9) = Range(p8) \cup Range(OpenRouting(k))
  BY <1>1, <1>8, <1>22, RangeJoin
<1> HIDE DEF p9
<1>24. IsLayout(p10) /\ Range(p10) = Range(p9) \cup Range(OpenAlgo(k))
  BY <1>1, <1>9, <1>23, RangeJoin
<1> HIDE DEF p10
<1>25. Range(p11) = Range(p10) \cup Range(OpenState)
  BY <1>24, Long, RangeJoin
<1> HIDE DEF p11
<1> QED
  BY <1>5, <1>6, <1>7, <1>8, <1>9, <1>12, <1>14, <1>15, <1>16, <1>17, <1>18, <1>19, <1>20,
     <1>21, <1>22, <1>23, <1>24, <1>25

\* The fields that are written as they are.
LEMMA SentPlainly ==
  ASSUME NEW sv \in Nat
  PROVE  /\ \A value : \A name \in Counts \cup {"underCompPresent"} :
              SentAs(sv, name, value) = <<value>>
         /\ \A value : \A name \in Texts : SentAs(sv, name, value) = value
<1>1. \A name \in Counts \cup {"underCompPresent"} :
        name \notin MaxWritten /\ name \notin Texts \cup Longs \cup Doubles
  BY DEF Counts, MaxWritten, Texts, Longs, Doubles
<1>2. \A name \in Range(UnsetAsZero(sv)) : name \in MaxWritten
  BY AsZero
<1>3. \A value : \A name \in Counts \cup {"underCompPresent"} :
        SentAs(sv, name, value) = <<value>>
  BY <1>1, <1>2, Written, Zenon DEF SentAs
<1>4. \A name \in Texts : name \notin MaxWritten
  BY OneWay
<1>5. \A value : \A name \in Texts : SentAs(sv, name, value) = value
  BY <1>2, <1>4, Written, Zenon DEF SentAs
<1> QED
  BY <1>3, <1>5

\* The fields of an order.
LEMMA OrderFields ==
  ASSUME NEW o, IsOrder(o)
  PROVE  /\ \A name \in Names : o[name] \in ValuesOf(name)
         /\ \A name \in Counts \cup {"underCompPresent"} : o[name] \in {0, 1}
         /\ HasScale(o) => Round(o["scalePriceIncrement"]) < FirstWord
  BY Zenon DEF IsOrder, ValuesOf

\* The fields that every server is sent.
LEMMA AlwaysSent ==
  ASSUME NEW sv, NEW o
  PROVE  /\ "secType" \in Range(PlaceFields(sv, o))
         /\ "deltaNeutralOrderType" \in Range(PlaceFields(sv, o))
         /\ "scalePriceIncrement" \in Range(PlaceFields(sv, o))
<1>1. "secType" \in Range(PlaceContract(sv))
  <2> DEFINE a == When(sv >= MinVer.PLACE_ORDER_CONID, <<"conId">>)
             b == <<"symbol", "secType", "expiry", "strike", "right", "multiplier",
                    "exchange", "primaryExchange", "currency", "localSymbol">>
             c == When(sv >= MinVer.TRADING_CLASS, <<"tradingClass">>)
             d == When(sv >= MinVer.SEC_ID_TYPE, <<"secIdType", "secId">>)
  <2>1. IsLayout(a) /\ IsLayout(c) /\ IsLayout(d)
    BY NoNames, SingleName, Short DEF When
  <2>2. IsLayout(b)
    <3>1. b \in Seq(FieldName)
      BY DEF FieldName, Texts, Longs, Doubles, MaxWritten, Flags
    <3> HIDE DEF b
    <3> QED
      BY <3>1, LayoutOf
  <2>3. "secType" \in Range(b)
    BY DEF Range
  <2>4. PlaceContract(sv) = a \o b \o c \o d
    BY Zenon DEF PlaceContract
  <2> HIDE DEF a, b, c, d
  <2>5. IsLayout(a \o b) /\ IsLayout(a \o b \o c)
    BY <2>1, <2>2, LayoutJoin, Zenon
  <2> QED
    BY <2>1, <2>2, <2>3, <2>4, <2>5, RangeJoin
<1>2. "deltaNeutralOrderType" \in Range(PlaceExtended(sv))
  <2> DEFINE a == <<"sharesAllocation", "discretionaryAmt", "goodAfterTime", "goodTillDate",
                    "faGroup", "faMethod", "faPercentage", "faProfile", "shortSaleSlot",
                    "designatedLocation">>
             b == <<"ocaType", "rule80A", "settlingFirm", "allOrNone", "minQty",
                    "percentOffset", "eTradeOnly", "firmQuoteOnly", "nbboPriceCap",
                    "auctionStrategy", "startingPrice", "stockRefPrice", "delta",
                    "stockRangeLower", "stockRangeUpper", "overridePercentageConstraints",
                    "volatility", "volatilityType", "deltaNeutralOrderType",
                    "deltaNeutralAuxPrice">>
             e == When(sv >= MinVer.SSHORTX_OLD, <<"exemptCode">>)
  <2>1. IsLayout(a) /\ IsLayout(b)
    <3>1. a \in Seq(FieldName) /\ b \in Seq(FieldName)
      BY DEF FieldName, Texts, Longs, Doubles, MaxWritten, Flags
    <3> HIDE DEF a, b
    <3> QED
      BY <3>1, LayoutOf
  <2>2. IsLayout(e)
    BY NoNames, SingleName DEF When
  <2>3. "deltaNeutralOrderType" \in Range(b)
    BY DEF Range
  <2>4. PlaceExtended(sv) = a \o e \o b
    BY Zenon DEF PlaceExtended
  <2> HIDE DEF a, b, e
  <2>5. IsLayout(a \o e)
    BY <2>1, <2>2, LayoutJoin, Zenon
  <2> QED
    BY <2>1, <2>2, <2>3, <2>4, <2>5, RangeJoin
<1>3. "scalePriceIncrement" \in Range(PlaceScale(sv, o))
  <2> DEFINE f == IF sv >= MinVer.SCALE_ORDERS2 THEN <<"scaleInitLevelSize", "scaleSubsLevelSize">>
                                                ELSE <<"scaleNumComponents", "scaleInitLevelSize">>
             b == <<"scalePriceIncrement">>
             a == When(sv >= MinVer.SCALE_ORDERS3 /\ HasScale(o),
                       <<"scalePriceAdjustValue", "scalePriceAdjustInterval",
                         "scaleProfitOffset", "scaleAutoReset", "scaleInitPosition",
                         "scaleInitFillQty", "scaleRandomPercent">>)
             c == When(sv >= MinVer.SCALE_TABLE,
                        <<"scaleTable", "activeStartTime", "activeStopTime">>)
  <2>1. IsLayout(f) /\ IsLayout(b) /\ IsLayout(c)
    BY NoNames, Short, SingleName DEF When
  <2>2. IsLayout(a)
    <3> DEFINE x == <<"scalePriceAdjustValue", "scalePriceAdjustInterval",
                      "scaleProfitOffset", "scaleAutoReset", "scaleInitPosition",
                      "scaleInitFillQty", "scaleRandomPercent">>
    <3>1. x \in Seq(FieldName)
      BY DEF FieldName, Texts, Longs, Doubles, MaxWritten, Flags
    <3>2. a \in {x, <<>>}
      BY Zenon DEF When
    <3> HIDE DEF x, a
    <3> QED
      BY <3>1, <3>2, NoNames, LayoutOf
  <2>3. "scalePriceIncrement" \in Range(b)
    BY DEF Range
  <2>4. PlaceScale(sv, o) = f \o b \o a \o c
    BY Zenon DEF PlaceScale
  <2> HIDE DEF a, b, c, f
  <2>5. IsLayout(f \o b) /\ IsLayout(f \o b \o a)
    BY <2>1, <2>2, LayoutJoin, Zenon
  <2> QED
    BY <2>1, <2>2, <2>3, <2>4, <2>5, RangeJoin
<1> QED
  BY <1>1, <1>2, <1>3, PlaceParts DEF InParts

\* What TWS decodes of the fields that decide.
LEMMA Decides ==
  ASSUME NEW sv \in Nat, NEW o, IsOrder(o), Range(PlaceFields(sv, o)) \subseteq Names
  PROVE  /\ \A name \in Counts \cup {"underCompPresent"} :
              Num(KnownOf(sv, o), name) = IF name \in Range(PlaceFields(sv, o)) THEN o[name] ELSE 0
         /\ Counted(KnownOf(sv, o))
         /\ HasScale(o) => Num(KnownOf(sv, o), "scalePriceIncrement") > 0
         /\ \A name \in Texts :
              Given(KnownOf(sv, o), name) <=> name \in Range(PlaceFields(sv, o)) /\ o[name] # <<>>
<1> DEFINE k == KnownOf(sv, o)
           F == Range(PlaceFields(sv, o))
<1>1. /\ DOMAIN k = F \cup {"version"}
      /\ \A name \in F : name # "version" => k[name] = SentAs(sv, name, o[name])
  BY Zenon DEF KnownOf
<1> HIDE DEF k
<1>2. FirstWord \in Nat /\ FirstWord > 70
  BY OrdersAssumption DEF MinVer
<1>3. \A n \in Int : <<n>> # <<>> /\ <<n>>[1] = n
  OBVIOUS
<1>4. \A n \in Int : n < FirstWord => ToInt(<<n>>) = n
  BY <1>2, <1>3 DEF ToInt
<1>5. \A name \in Counts \cup {"underCompPresent"} :
        /\ name # "version" /\ o[name] \in {0, 1}
        /\ Num(k, name) = IF name \in F THEN o[name] ELSE 0
  <2> SUFFICES ASSUME NEW name \in Counts \cup {"underCompPresent"}
               PROVE  /\ name # "version" /\ o[name] \in {0, 1}
                      /\ Num(k, name) = IF name \in F THEN o[name] ELSE 0
    OBVIOUS
  <2>1. name # "version" /\ o[name] \in {0, 1}
    BY OrderFields DEF Counts
  <2>2. SentAs(sv, name, o[name]) = <<o[name]>>
    BY SentPlainly, Zenon
  <2>3. ToInt(<<o[name]>>) = o[name]
    BY <1>2, <1>4, <2>1
  <2> HIDE DEF F
  <2> QED
    BY <1>1, <2>1, <2>2, <2>3 DEF Num
<1>6. Counted(k)
  BY <1>5 DEF Counted
<1>7. HasScale(o) => Num(k, "scalePriceIncrement") > 0
  <2> DEFINE x == o["scalePriceIncrement"]
  <2> SUFFICES ASSUME HasScale(o)
               PROVE  Num(k, "scalePriceIncrement") > 0
    OBVIOUS
  <2>1. "scalePriceIncrement" \in F
    BY AlwaysSent
  <2>2. "scalePriceIncrement" \in Doubles /\ "scalePriceIncrement" \notin Texts
        /\ "scalePriceIncrement" # "version"
    BY DEF Doubles, Texts
  <2>3. x \in Int /\ x > 0 /\ x # UNSET /\ Round(x) < FirstWord
    BY <2>1, <2>2, OrderFields DEF HasScale, ValuesOf
  <2>4. SentAs(sv, "scalePriceIncrement", x) = <<Round(x)>>
    BY <2>2, <2>3, OneWay, Written, Zenon DEF SentAs
  <2>5. Round(x) \in Int /\ Round(x) > 0
    BY <2>3, RoundTwice
  <2>6. ToInt(<<Round(x)>>) = Round(x)
    BY <1>4, <2>3, <2>5
  <2> HIDE DEF F, x
  <2>7. k["scalePriceIncrement"] = <<Round(x)>>
    BY <1>1, <2>1, <2>2, <2>4 DEF x
  <2> QED
    BY <1>1, <2>1, <2>5, <2>6, <2>7 DEF Num
<1>8. \A name \in Texts : Given(k, name) <=> name \in F /\ o[name] # <<>>
  <2>1. \A name \in Texts : name # "version"
    BY DEF Texts
  <2> HIDE DEF F
  <2> QED
    BY <1>1, <2>1, SentPlainly, Zenon DEF Given
<1> QED
  BY <1>5, <1>6, <1>7, <1>8 DEF k

\* The texts that TWS sends.
LEMMA ToldIs ==
  ASSUME NEW sv \in Nat, sv >= 38, NEW o, IsOrder(o)
  PROVE  /\ DOMAIN Told(sv, o) = Range(OpenOrder(sv, KnownOf(sv, o)))
         /\ "version" \in DOMAIN Told(sv, o)
         /\ ToInt(Told(sv, o)["version"]) = OpenVersion(sv)
         /\ Num(KnownOf(sv, o), "version") = OpenVersion(sv)
         /\ \A name \in DOMAIN Told(sv, o) :
              name # "version" =>
                Told(sv, o)[name] = IF name \in Range(PlaceFields(sv, o))
                                    THEN SentAs(sv, name, o[name]) ELSE <<>>
<1> DEFINE e == Encode(sv, o)
           k == [name \in DOMAIN e \cup {"version"} |->
                   IF name = "version" THEN <<OpenVersion(sv)>> ELSE e[name]]
<1>1. k = KnownOf(sv, o)
  BY EncodeIs DEF KnownOf
<1> HIDE DEF k
<1>2. Told(sv, o) = [name \in Range(OpenOrder(sv, k)) |->
                       IF name \in DOMAIN k THEN k[name] ELSE <<>>]
  BY Zenon DEF Told, OpenTexts, k
<1>3. "version" \in DOMAIN Told(sv, o)
  <2>1. Counted(k)
    BY <1>1, AllNamed, Decides
  <2>2. "version" \in Range(OpenOrder(sv, k))
    BY <2>1, OpenParts
  <2> QED
    BY <1>2, <2>2
<1>4. OpenVersion(sv) \in 19..32 /\ OpenVersion(sv) < FirstWord
  <2>1. FirstWord \in Nat /\ FirstWord > 70
    BY OrdersAssumption DEF MinVer
  <2> QED
    BY <2>1, OpenVersions
<1>5. DOMAIN k = Range(PlaceFields(sv, o)) \cup {"version"} /\ k["version"] = <<OpenVersion(sv)>>
  BY <1>1, Zenon DEF KnownOf
<1>6. ToInt(<<OpenVersion(sv)>>) = OpenVersion(sv)
  BY <1>4, OrdersAssumption DEF ToInt
<1> QED
  BY <1>1, <1>2, <1>3, <1>5, <1>6 DEF KnownOf, Num

\* What is in a part that depends on a condition, and in a list of one element.
LEMMA WhenRange ==
  \A c, s : IsLayout(s) =>
    /\ IsLayout(When(c, s))
    /\ (c => Range(When(c, s)) = Range(s))
    /\ (~c => Range(When(c, s)) = {})
  BY NoNames DEF When

\* A list of one element has its fields once.
LEMMA OnceRange == \A s : IsLayout(s) => Times(1, s) = s
<1> SUFFICES ASSUME NEW s, IsLayout(s) PROVE Times(1, s) = s
  OBVIOUS
<1>1. Len(s) \in Nat /\ s = [i \in 1..Len(s) |-> s[i]]
  BY LenProperties DEF IsLayout
<1>2. Times(1, s) = [i \in 1..(1 * Len(s)) |-> s[((i - 1) % Len(s)) + 1]]
  BY Zenon DEF Times
<1>3. ASSUME NEW i \in 1..Len(s) PROVE ((i - 1) % Len(s)) + 1 = i
  BY <1>1
<1> DEFINE t == Times(1, s)
<1>4. DOMAIN t = 1..Len(s) /\ \A i \in 1..Len(s) : t[i] = s[i]
  BY <1>2, <1>3
<1>5. t = [i \in DOMAIN t |-> t[i]]
  BY Zenon DEF Times
<1> HIDE DEF t
<1> QED
  BY <1>1, <1>4, <1>5 DEF t

\* Three parts and more.
LEMMA RangeJoins ==
  /\ \A a, b, c : IsLayout(a) /\ IsLayout(b) /\ IsLayout(c) =>
       IsLayout(a \o b \o c) /\ Range(a \o b \o c) = Range(a) \cup Range(b) \cup Range(c)
  /\ \A a, b, c, d : IsLayout(a) /\ IsLayout(b) /\ IsLayout(c) /\ IsLayout(d) =>
       /\ IsLayout(a \o b \o c \o d)
       /\ Range(a \o b \o c \o d) = Range(a) \cup Range(b) \cup Range(c) \cup Range(d)
  /\ \A a, b, c, d, e :
       IsLayout(a) /\ IsLayout(b) /\ IsLayout(c) /\ IsLayout(d) /\ IsLayout(e) =>
         /\ IsLayout(a \o b \o c \o d \o e)
         /\ Range(a \o b \o c \o d \o e) =
              Range(a) \cup Range(b) \cup Range(c) \cup Range(d) \cup Range(e)
<1>1. \A a, b : IsLayout(a) /\ IsLayout(b) =>
        IsLayout(a \o b) /\ Range(a \o b) = Range(a) \cup Range(b)
  BY LayoutJoin, RangeJoin
<1>2. \A a, b, c : IsLayout(a) /\ IsLayout(b) /\ IsLayout(c) =>
        IsLayout(a \o b \o c) /\ Range(a \o b \o c) = Range(a) \cup Range(b) \cup Range(c)
  BY <1>1
<1>3. \A a, b, c, d : IsLayout(a) /\ IsLayout(b) /\ IsLayout(c) /\ IsLayout(d) =>
        /\ IsLayout(a \o b \o c \o d)
        /\ Range(a \o b \o c \o d) = Range(a) \cup Range(b) \cup Range(c) \cup Range(d)
  BY <1>1, <1>2
<1>4. \A a, b, c, d, e :
        IsLayout(a) /\ IsLayout(b) /\ IsLayout(c) /\ IsLayout(d) /\ IsLayout(e) =>
          /\ IsLayout(a \o b \o c \o d \o e)
          /\ Range(a \o b \o c \o d \o e) =
               Range(a) \cup Range(b) \cup Range(c) \cup Range(d) \cup Range(e)
  BY <1>1, <1>3
<1> QED
  BY <1>2, <1>3, <1>4

\* What OPEN_ORDER has of its newest version on, and the groups that it opens.
LEMMA OpenHas ==
  ASSUME NEW sv \in Nat, sv # 51, NEW k, Counted(k), Version(k) = 32
  PROVE  /\ Range(OpenContract(k)) =
              {"conId", "symbol", "secType", "expiry", "strike", "right", "multiplier",
               "exchange", "currency", "localSymbol", "tradingClass"}
         /\ Range(OpenExempt(sv, k)) = {"exemptCode"}
         /\ Given(k, "deltaNeutralOrderType") =>
              {"deltaNeutralConId", "deltaNeutralSettlingFirm",
               "deltaNeutralClearingAccount", "deltaNeutralClearingIntent",
               "deltaNeutralOpenClose", "deltaNeutralShortSale",
               "deltaNeutralShortSaleSlot", "deltaNeutralDesignatedLocation"}
                \subseteq Range(OpenDeltaNeutral(k))
         /\ {"trailingPercent", "comboLegsCount", "orderComboLegsCount",
             "smartComboRoutingParamsCount"} \subseteq Range(OpenCombo(k))
         /\ Num(k, "comboLegsCount") = 1 => Range(ComboLegFields) \subseteq Range(OpenCombo(k))
         /\ Num(k, "orderComboLegsCount") = 1 => "orderComboLeg.price" \in Range(OpenCombo(k))
         /\ Num(k, "smartComboRoutingParamsCount") = 1 =>
              {"smartComboRoutingParam.tag", "smartComboRoutingParam.value"}
                \subseteq Range(OpenCombo(k))
         /\ {"scaleInitLevelSize", "scaleSubsLevelSize", "scalePriceIncrement"}
              \subseteq Range(OpenScale(k))
         /\ Num(k, "scalePriceIncrement") > 0 =>
              {"scalePriceAdjustValue", "scalePriceAdjustInterval", "scaleProfitOffset",
               "scaleAutoReset", "scaleInitPosition", "scaleInitFillQty",
               "scaleRandomPercent"} \subseteq Range(OpenScale(k))
         /\ {"hedgeType", "optOutSmartRouting", "clearingAccount", "clearingIntent",
             "notHeld", "underCompPresent"} \subseteq Range(OpenRouting(k))
         /\ Given(k, "hedgeType") => "hedgeParam" \in Range(OpenRouting(k))
         /\ Num(k, "underCompPresent") # 0 =>
              {"underComp.conId", "underComp.delta", "underComp.price"}
                 \subseteq Range(OpenRouting(k))
         /\ "algoStrategy" \in Range(OpenAlgo(k))
         /\ Given(k, "algoStrategy") => "algoParamsCount" \in Range(OpenAlgo(k))
         /\ Given(k, "algoStrategy") /\ Num(k, "algoParamsCount") = 1 =>
              {"algoParam.tag", "algoParam.value"} \subseteq Range(OpenAlgo(k))
<1>1. \A s, u : IsLayout(s) /\ IsLayout(u) =>
        IsLayout(s \o u) /\ Range(s \o u) = Range(s) \cup Range(u)
  BY LayoutJoin, RangeJoin
<1>2. \A s : When(TRUE, s) = s
  BY DEF When
<1>3. /\ \A a, b : <<a, b>> # <<>> /\ <<a>> # <<>>
      /\ \A a, b, c, d : Range(<<a>>) = {a} /\ Range(<<a, b>>) = {a, b}
           /\ Range(<<a, b, c>>) = {a, b, c} /\ Range(<<a, b, c, d>>) = {a, b, c, d}
  BY DEF Range
<1>4. \A name \in Counts : \A a, b : IsLayout(Times(Num(k, name), <<a, b>>))
                                 /\ IsLayout(Times(Num(k, name), <<a>>))
  BY <1>3, Short, SingleName, TimesLayout DEF Counted
<1>5. \A name, s : IsLayout(s) /\ Num(k, name) = 1 => Times(Num(k, name), s) = s
  BY OnceRange
<1>6. Range(OpenContract(k)) =
        {"conId", "symbol", "secType", "expiry", "strike", "right", "multiplier",
         "exchange", "currency", "localSymbol", "tradingClass"}
  <2> DEFINE a == <<"conId", "symbol", "secType", "expiry", "strike", "right">>
             b == <<"multiplier">>
             c == <<"exchange", "currency", "localSymbol">>
             d == <<"tradingClass">>
  <2>1. IsLayout(a) /\ IsLayout(b) /\ IsLayout(c) /\ IsLayout(d)
    BY Short, SingleName
  <2>2. OpenContract(k) = a \o b \o c \o d
    BY DEF OpenContract, When
  <2>3. /\ Range(a) = {"conId", "symbol", "secType", "expiry", "strike", "right"}
        /\ Range(b) = {"multiplier"} /\ Range(c) = {"exchange", "currency", "localSymbol"}
        /\ Range(d) = {"tradingClass"}
    BY DEF Range
  <2> HIDE DEF a, b, c, d
  <2>4. Range(a \o b \o c \o d) = Range(a) \cup Range(b) \cup Range(c) \cup Range(d)
    BY <2>1, RangeJoins
  <2> QED
    BY <2>2, <2>3, <2>4
<1>7. Range(OpenExempt(sv, k)) = {"exemptCode"}
  BY <1>3 DEF OpenExempt, When, MinVer
<1>8. Given(k, "deltaNeutralOrderType") =>
        {"deltaNeutralConId", "deltaNeutralSettlingFirm",
         "deltaNeutralClearingAccount", "deltaNeutralClearingIntent",
         "deltaNeutralOpenClose", "deltaNeutralShortSale",
         "deltaNeutralShortSaleSlot", "deltaNeutralDesignatedLocation"}
          \subseteq Range(OpenDeltaNeutral(k))
  <2> DEFINE a == <<"deltaNeutralConId", "deltaNeutralSettlingFirm",
                    "deltaNeutralClearingAccount", "deltaNeutralClearingIntent">>
             b == <<"deltaNeutralOpenClose", "deltaNeutralShortSale",
                    "deltaNeutralShortSaleSlot", "deltaNeutralDesignatedLocation">>
  <2> SUFFICES ASSUME Given(k, "deltaNeutralOrderType")
               PROVE  Range(a) \cup Range(b) \subseteq Range(OpenDeltaNeutral(k))
    BY <1>3
  <2>1. IsLayout(a) /\ IsLayout(b)
    BY Short
  <2>2. OpenDeltaNeutral(k) =
          When(Version(k) >= 27 /\ Given(k, "deltaNeutralOrderType"), a)
            \o When(Version(k) >= 31 /\ Given(k, "deltaNeutralOrderType"), b)
    BY Zenon DEF OpenDeltaNeutral
  <2> HIDE DEF a, b
  <2>3. OpenDeltaNeutral(k) = a \o b
    BY <2>2 DEF When
  <2> QED
    BY <1>1, <2>1, <2>3
<1> DEFINE t == <<"trailingPercent">>
           b == <<"basisPoints", "basisPointsType", "comboLegsDescrip">>
           m == <<"comboLegsCount">>
           n == <<"orderComboLegsCount">>
           r == <<"smartComboRoutingParamsCount">>
           x == Times(Num(k, "comboLegsCount"), ComboLegFields)
           y == Times(Num(k, "orderComboLegsCount"), <<"orderComboLeg.price">>)
           z == Times(Num(k, "smartComboRoutingParamsCount"),
                      <<"smartComboRoutingParam.tag", "smartComboRoutingParam.value">>)
<1>9. /\ Range(OpenCombo(k)) = Range(t) \cup Range(b) \cup Range(m) \cup Range(x) \cup Range(n)
                                 \cup Range(y) \cup Range(r) \cup Range(z)
      /\ Range(t) = {"trailingPercent"} /\ Range(m) = {"comboLegsCount"}
      /\ Range(n) = {"orderComboLegsCount"} /\ Range(r) = {"smartComboRoutingParamsCount"}
      /\ Num(k, "comboLegsCount") = 1 => Range(x) = Range(ComboLegFields)
      /\ Num(k, "orderComboLegsCount") = 1 => Range(y) = {"orderComboLeg.price"}
      /\ Num(k, "smartComboRoutingParamsCount") = 1 =>
           Range(z) = {"smartComboRoutingParam.tag", "smartComboRoutingParam.value"}
  <2>1. IsLayout(t) /\ IsLayout(b) /\ IsLayout(m) /\ IsLayout(n) /\ IsLayout(r)
    BY Short, SingleName
  <2>2. IsLayout(x)
    <3>1. ComboLegFields # <<>>
      BY DEF ComboLegFields
    <3> QED
      BY <3>1, Long, TimesLayout DEF Counted, Counts
  <2>3. IsLayout(y) /\ IsLayout(z)
    BY <1>4 DEF Counts
  <2>4. Num(k, "comboLegsCount") = 1 => x = ComboLegFields
    BY <1>5, Long
  <2>5. Num(k, "orderComboLegsCount") = 1 => y = <<"orderComboLeg.price">>
    BY <1>5, SingleName
  <2>6. Num(k, "smartComboRoutingParamsCount") = 1 =>
          z = <<"smartComboRoutingParam.tag", "smartComboRoutingParam.value">>
    BY <1>5, Short
  <2>7. OpenCombo(k) =
          When(Version(k) >= 30, t) \o b
            \o When(Version(k) >= 29, m \o x \o n \o y) \o When(Version(k) >= 26, r \o z)
    BY Zenon DEF OpenCombo
  <2>8. Range(t) = {"trailingPercent"} /\ Range(m) = {"comboLegsCount"}
        /\ Range(n) = {"orderComboLegsCount"} /\ Range(r) = {"smartComboRoutingParamsCount"}
    BY <1>3
  <2> HIDE DEF t, b, m, n, r, x, y, z
  <2>9. OpenCombo(k) = t \o b \o (m \o x \o n \o y) \o (r \o z)
    BY <2>7 DEF When
  <2>10. /\ IsLayout(m \o x \o n \o y) /\ IsLayout(r \o z)
         /\ Range(m \o x \o n \o y) = Range(m) \cup Range(x) \cup Range(n) \cup Range(y)
         /\ Range(r \o z) = Range(r) \cup Range(z)
    BY <2>1, <2>2, <2>3, RangeJoins, RangeJoin, LayoutJoin
  <2> DEFINE p == m \o x \o n \o y
             q == r \o z
  <2> HIDE DEF p, q
  <2>11. IsLayout(p) /\ IsLayout(q) /\ OpenCombo(k) = t \o b \o p \o q
    BY <2>9, <2>10 DEF p, q
  <2>12. Range(OpenCombo(k)) = Range(t) \cup Range(b) \cup Range(p) \cup Range(q)
    BY <2>1, <2>11, RangeJoins
  <2>13. Range(OpenCombo(k)) = Range(t) \cup Range(b) \cup Range(m) \cup Range(x) \cup Range(n)
                                 \cup Range(y) \cup Range(r) \cup Range(z)
    BY <2>10, <2>12 DEF p, q
  <2> QED
    BY <1>3, <2>4, <2>5, <2>6, <2>8, <2>13
<1> HIDE DEF t, b, m, n, r, x, y, z
<1>10. /\ {"scaleInitLevelSize", "scaleSubsLevelSize", "scalePriceIncrement"}
            \subseteq Range(OpenScale(k))
       /\ Num(k, "scalePriceIncrement") > 0 =>
            {"scalePriceAdjustValue", "scalePriceAdjustInterval", "scaleProfitOffset",
             "scaleAutoReset", "scaleInitPosition", "scaleInitFillQty",
             "scaleRandomPercent"} \subseteq Range(OpenScale(k))
  <2> DEFINE f == <<"scaleInitLevelSize", "scaleSubsLevelSize">>
             g == <<"scalePriceIncrement">>
             a == <<"scalePriceAdjustValue", "scalePriceAdjustInterval",
                    "scaleProfitOffset", "scaleAutoReset", "scaleInitPosition",
                    "scaleInitFillQty", "scaleRandomPercent">>
             w == When(Num(k, "scalePriceIncrement") > 0, a)
  <2>1. IsLayout(f) /\ IsLayout(g)
    BY Short, SingleName
  <2>2. IsLayout(a)
    <3>1. a \in Seq(FieldName)
      BY DEF FieldName, Texts, Longs, Doubles, MaxWritten, Flags
    <3> HIDE DEF a
    <3> QED
      BY <3>1, LayoutOf
  <2>3. OpenScale(k) = f \o g \o w
    BY DEF OpenScale, When
  <2>4. Range(a) = {"scalePriceAdjustValue", "scalePriceAdjustInterval", "scaleProfitOffset",
                    "scaleAutoReset", "scaleInitPosition", "scaleInitFillQty",
                    "scaleRandomPercent"}
        /\ Range(f) = {"scaleInitLevelSize", "scaleSubsLevelSize"}
        /\ Range(g) = {"scalePriceIncrement"}
    BY DEF Range
  <2> HIDE DEF f, g, a
  <2>5. IsLayout(w) /\ (Num(k, "scalePriceIncrement") > 0 => Range(w) = Range(a))
    BY <2>2, WhenRange, Zenon
  <2> HIDE DEF w
  <2>6. Range(OpenScale(k)) = Range(f) \cup Range(g) \cup Range(w)
    BY <2>1, <2>3, <2>5, RangeJoins
  <2> QED
    BY <2>4, <2>5, <2>6
<1>11. /\ {"hedgeType", "optOutSmartRouting", "clearingAccount", "clearingIntent",
           "notHeld", "underCompPresent"} \subseteq Range(OpenRouting(k))
       /\ Given(k, "hedgeType") => "hedgeParam" \in Range(OpenRouting(k))
       /\ Num(k, "underCompPresent") # 0 =>
            {"underComp.conId", "underComp.delta", "underComp.price"}
                 \subseteq Range(OpenRouting(k))
  <2> DEFINE a == <<"hedgeType">>
             c == <<"optOutSmartRouting">>
             e == <<"clearingAccount", "clearingIntent">>
             f == <<"notHeld">>
             g == <<"underCompPresent">>
             h == <<"underComp.conId", "underComp.delta", "underComp.price">>
             i == <<"hedgeParam">>
             u == When(Given(k, "hedgeType"), i)
             v == When(Num(k, "underCompPresent") # 0, h)
  <2>1. /\ IsLayout(a) /\ IsLayout(c) /\ IsLayout(e) /\ IsLayout(f)
        /\ IsLayout(g) /\ IsLayout(h) /\ IsLayout(i)
    BY Short, SingleName
  <2>2. OpenRouting(k) =
          When(Version(k) >= 24, a \o u) \o When(Version(k) >= 25, c) \o e
            \o When(Version(k) >= 22, f) \o When(Version(k) >= 20, g \o v)
    BY Zenon DEF OpenRouting
  <2>3. /\ Range(a) = {"hedgeType"} /\ Range(c) = {"optOutSmartRouting"}
        /\ Range(e) = {"clearingAccount", "clearingIntent"} /\ Range(f) = {"notHeld"}
        /\ Range(g) = {"underCompPresent"} /\ Range(i) = {"hedgeParam"}
        /\ Range(h) = {"underComp.conId", "underComp.delta", "underComp.price"}
    BY <1>3
  <2> HIDE DEF a, c, e, f, g, h, i
  <2>4. IsLayout(u) /\ (Given(k, "hedgeType") => Range(u) = Range(i))
    BY <2>1, WhenRange, Zenon
  <2>7. IsLayout(v) /\ (Num(k, "underCompPresent") # 0 => Range(v) = Range(h))
    BY <2>1, WhenRange, Zenon
  <2> HIDE DEF u, v
  <2>5. OpenRouting(k) = (a \o u) \o c \o e \o f \o (g \o v)
    BY <2>2 DEF When
  <2>6. Range(OpenRouting(k)) = (Range(a) \cup Range(u)) \cup Range(c) \cup Range(e) \cup Range(f)
                                  \cup (Range(g) \cup Range(v))
    <3>1. /\ IsLayout(a \o u) /\ Range(a \o u) = Range(a) \cup Range(u)
          /\ IsLayout(g \o v) /\ Range(g \o v) = Range(g) \cup Range(v)
      BY <1>1, <2>1, <2>4, <2>7
    <3> DEFINE p == a \o u
               q == g \o v
    <3> HIDE DEF p, q
    <3>2. IsLayout(p) /\ IsLayout(q) /\ OpenRouting(k) = p \o c \o e \o f \o q
      BY <2>5, <3>1 DEF p, q
    <3>3. Range(OpenRouting(k)) = Range(p) \cup Range(c) \cup Range(e) \cup Range(f) \cup Range(q)
      BY <2>1, <3>2, RangeJoins
    <3> QED
      BY <3>1, <3>3 DEF p, q
  <2> QED
    BY <2>3, <2>4, <2>6, <2>7
<1>12. /\ "algoStrategy" \in Range(OpenAlgo(k))
       /\ Given(k, "algoStrategy") => "algoParamsCount" \in Range(OpenAlgo(k))
       /\ Given(k, "algoStrategy") /\ Num(k, "algoParamsCount") = 1 =>
            {"algoParam.tag", "algoParam.value"} \subseteq Range(OpenAlgo(k))
  <2> DEFINE a == <<"algoStrategy">>
             c == <<"algoParamsCount">>
             d == Times(Num(k, "algoParamsCount"), <<"algoParam.tag", "algoParam.value">>)
             u == When(Given(k, "algoStrategy"), c \o d)
  <2>1. IsLayout(a) /\ IsLayout(c) /\ IsLayout(d)
    BY <1>4, SingleName DEF Counts
  <2>2. /\ Range(a) = {"algoStrategy"} /\ Range(c) = {"algoParamsCount"}
        /\ Num(k, "algoParamsCount") = 1 => Range(d) = {"algoParam.tag", "algoParam.value"}
    BY <1>3, <1>5, Short
  <2>3. OpenAlgo(k) = a \o u
    BY DEF OpenAlgo, When
  <2> HIDE DEF a, c, d
  <2>4. /\ IsLayout(c \o d) /\ Range(c \o d) = Range(c) \cup Range(d)
        /\ IsLayout(u) /\ (Given(k, "algoStrategy") => Range(u) = Range(c \o d))
    BY <1>1, <2>1, WhenRange, Zenon
  <2> HIDE DEF u
  <2>5. Range(OpenAlgo(k)) = Range(a) \cup Range(u)
    BY <1>1, <2>1, <2>3, <2>4
  <2> QED
    BY <2>2, <2>4, <2>5
<1> QED
  BY <1>6, <1>7, <1>8, <1>9, <1>10, <1>11, <1>12

\* A part of a message whose fields are all in a set.
Inside(s, G) == IsLayout(s) /\ Range(s) \subseteq G

\* Two parts in a set are in it when joined.
LEMMA InsideJoin ==
  \A s, t, G : Inside(s, G) /\ Inside(t, G) => Inside(s \o t, G)
  BY RangeJoins, LayoutJoin, RangeJoin DEF Inside

\* A part that depends on a condition is in a set if it is there without it.
LEMMA InsideWhen ==
  \A c, s, G : IsLayout(s) /\ (c => Inside(s, G)) => Inside(When(c, s), G)
  BY NoNames DEF Inside, When

\* A name, two, three and four.
LEMMA InsideNames ==
  /\ \A G : \A a \in G : Inside(<<a>>, G)
  /\ \A G : \A a, b \in G : Inside(<<a, b>>, G)
  /\ \A G : \A a, b, c \in G : Inside(<<a, b, c>>, G)
  /\ \A G : \A a, b, c, d \in G : Inside(<<a, b, c, d>>, G)
<1>1. \A a, b, c, d : Range(<<a>>) = {a} /\ Range(<<a, b>>) = {a, b}
        /\ Range(<<a, b, c>>) = {a, b, c} /\ Range(<<a, b, c, d>>) = {a, b, c, d}
  BY DEF Range
<1> QED
  BY <1>1, SingleName, Short DEF Inside

\* The fields that open groups are sent to the newest servers.
LEMMA GroupsSent ==
  ASSUME NEW sv \in Nat, sv >= MinVer.TRADING_CLASS, NEW o
  PROVE  /\ {"comboLegsCount", "orderComboLegsCount", "smartComboRoutingParamsCount"}
              \subseteq Range(PlaceCombo(sv, o))
         /\ {"hedgeType", "underCompPresent"} \subseteq Range(PlaceRouting(sv, o))
         /\ "algoStrategy" \in Range(PlaceAlgo(sv, o))
         /\ o["algoStrategy"] # <<>> => "algoParamsCount" \in Range(PlaceAlgo(sv, o))
<1>1. \A n \in {MinVer.ORDER_COMBO_LEGS_PRICE, MinVer.SMART_COMBO_ROUTING_PARAMS,
                MinVer.HEDGE_ORDERS, MinVer.UNDER_COMP, MinVer.ALGO_ORDERS} : sv >= n
  BY DEF MinVer
<1>2. \A c, s : c => When(c, s) = s
  BY DEF When
<1>3. \A a, b : Range(<<a>>) = {a} /\ Range(<<a, b>>) = {a, b}
  BY DEF Range
<1>4. {"comboLegsCount", "orderComboLegsCount", "smartComboRoutingParamsCount"}
        \subseteq Range(PlaceCombo(sv, o))
  <2> DEFINE legs == SubSeq(ComboLegFields, 1, 7)
             e == When(sv >= MinVer.SSHORTX_OLD, <<"comboLeg.exemptCode">>)
             m == <<"comboLegsCount">>
             n == <<"orderComboLegsCount">>
             r == <<"smartComboRoutingParamsCount">>
             l == When(o["comboLegsCount"] > 0, legs \o e)
             x == When(o["orderComboLegsCount"] > 0, <<"orderComboLeg.price">>)
             y == When(o["smartComboRoutingParamsCount"] > 0,
                       <<"smartComboRoutingParam.tag", "smartComboRoutingParam.value">>)
             P == When(sv >= MinVer.ORDER_COMBO_LEGS_PRICE, n \o x)
             R == When(sv >= MinVer.SMART_COMBO_ROUTING_PARAMS, r \o y)
  <2>1. IsLayout(m) /\ IsLayout(n) /\ IsLayout(r)
    BY SingleName
  <2>2. IsLayout(e) /\ IsLayout(x) /\ IsLayout(y)
    BY SingleName, Short, WhenRange, Zenon
  <2>3. IsLayout(legs)
    <3>1. ComboLegFields \in Seq(FieldName) /\ Len(ComboLegFields) = 8
      BY DEF ComboLegFields, FieldName, Texts, Longs, Doubles, MaxWritten, Flags
    <3>2. ASSUME NEW i \in 1..7
          PROVE  ComboLegFields[i] \in FieldName
      <4>1. i \in 1..Len(ComboLegFields)
        BY <3>1
      <4> QED
        BY <3>1, <4>1, ElementOfSeq
    <3>3. legs \in Seq(FieldName)
      BY <3>2, SubSeqProperties
    <3> QED
      BY <3>3, LayoutOf
  <2>4. PlaceCombo(sv, o) = m \o l \o P \o R
    BY Zenon DEF PlaceCombo
  <2>5. Range(m) = {"comboLegsCount"} /\ Range(n) = {"orderComboLegsCount"}
        /\ Range(r) = {"smartComboRoutingParamsCount"}
    BY <1>3
  <2>6. P = n \o x /\ R = r \o y
    BY <1>1, <1>2, Zenon
  <2> HIDE DEF legs, e, m, n, r, x, y, P, R
  <2>7. IsLayout(l)
    BY <2>2, <2>3, LayoutJoin, WhenRange, Zenon
  <2> HIDE DEF l
  <2>8. /\ IsLayout(P) /\ Range(P) = Range(n) \cup Range(x)
        /\ IsLayout(R) /\ Range(R) = Range(r) \cup Range(y)
    BY <2>1, <2>2, <2>6, LayoutJoin, RangeJoin
  <2>9. Range(PlaceCombo(sv, o)) = Range(m) \cup Range(l) \cup Range(P) \cup Range(R)
    BY <2>1, <2>4, <2>7, <2>8, RangeJoins
  <2> QED
    BY <2>5, <2>8, <2>9
<1>5. {"hedgeType", "underCompPresent"} \subseteq Range(PlaceRouting(sv, o))
  <2> DEFINE a == <<"hedgeType">>
             x == When(o["hedgeType"] # <<>>, <<"hedgeParam">>)
             g == <<"underCompPresent">>
             y == When(o["underCompPresent"] # 0,
                       <<"underComp.conId", "underComp.delta", "underComp.price">>)
             p == When(sv >= MinVer.HEDGE_ORDERS, a \o x)
             c == When(sv >= MinVer.OPT_OUT_SMART_ROUTING, <<"optOutSmartRouting">>)
             e == When(sv >= MinVer.PTA_ORDERS, <<"clearingAccount", "clearingIntent">>)
             f == When(sv >= MinVer.NOT_HELD, <<"notHeld">>)
             q == When(sv >= MinVer.UNDER_COMP, g \o y)
  <2>1. /\ IsLayout(a) /\ IsLayout(g) /\ Range(a) = {"hedgeType"}
        /\ Range(g) = {"underCompPresent"}
    BY <1>3, SingleName
  <2>2. IsLayout(x) /\ IsLayout(y)
    BY SingleName, Short, WhenRange, Zenon
  <2>3. IsLayout(c) /\ IsLayout(e) /\ IsLayout(f)
    BY SingleName, Short, WhenRange, Zenon
  <2>4. PlaceRouting(sv, o) = p \o c \o e \o f \o q
    BY Zenon DEF PlaceRouting
  <2>5. p = a \o x /\ q = g \o y
    BY <1>1, <1>2, Zenon
  <2> HIDE DEF a, x, g, y, p, c, e, f, q
  <2>6. /\ IsLayout(p) /\ Range(p) = Range(a) \cup Range(x)
        /\ IsLayout(q) /\ Range(q) = Range(g) \cup Range(y)
    BY <2>1, <2>2, <2>5, LayoutJoin, RangeJoin
  <2>7. Range(PlaceRouting(sv, o)) =
          Range(p) \cup Range(c) \cup Range(e) \cup Range(f) \cup Range(q)
    BY <2>3, <2>4, <2>6, RangeJoins
  <2> QED
    BY <2>1, <2>6, <2>7
<1>6. /\ "algoStrategy" \in Range(PlaceAlgo(sv, o))
      /\ o["algoStrategy"] # <<>> => "algoParamsCount" \in Range(PlaceAlgo(sv, o))
  <2> DEFINE a == <<"algoStrategy">>
             b == <<"algoParamsCount">>
             x == When(o["algoParamsCount"] > 0, <<"algoParam.tag", "algoParam.value">>)
             y == When(o["algoStrategy"] # <<>>, b \o x)
             p == When(sv >= MinVer.ALGO_ORDERS, a \o y)
             e == <<"whatIf">>
             f == When(sv >= MinVer.LINKING, <<"orderMiscOptions">>)
  <2>1. /\ IsLayout(a) /\ IsLayout(b) /\ IsLayout(e) /\ Range(a) = {"algoStrategy"}
        /\ Range(b) = {"algoParamsCount"}
    BY <1>3, SingleName
  <2>2. IsLayout(x) /\ IsLayout(f)
    BY SingleName, Short, WhenRange, Zenon
  <2>3. PlaceAlgo(sv, o) = p \o e \o f
    BY Zenon DEF PlaceAlgo
  <2>4. p = a \o y
    BY <1>1, <1>2, Zenon
  <2> HIDE DEF a, b, x, p, e, f
  <2>5. IsLayout(b \o x) /\ Range(b \o x) = Range(b) \cup Range(x)
    BY <2>1, <2>2, LayoutJoin, RangeJoin
  <2>6. IsLayout(y) /\ (o["algoStrategy"] # <<>> => Range(y) = Range(b \o x))
    BY <2>5, WhenRange, Zenon
  <2> HIDE DEF y
  <2>7. IsLayout(p) /\ Range(p) = Range(a) \cup Range(y)
    BY <2>1, <2>4, <2>6, LayoutJoin, RangeJoin
  <2>8. Range(PlaceAlgo(sv, o)) = Range(p) \cup Range(e) \cup Range(f)
    BY <2>1, <2>2, <2>3, <2>7, RangeJoins
  <2> QED
    BY <2>1, <2>5, <2>6, <2>7, <2>8
<1> QED
  BY <1>4, <1>5, <1>6

\* The newest servers tell of all that they were sent, but NeverReturned.
LEMMA AllComeBack ==
  ASSUME NEW sv \in Nat, sv >= MinVer.TRADING_CLASS, NEW o, IsOrder(o)
  PROVE  Range(PlaceFields(sv, o)) \subseteq Range(OpenOrder(sv, KnownOf(sv, o))) \cup NeverReturned
<1> DEFINE k == KnownOf(sv, o)
           F == Range(PlaceFields(sv, o))
           B == Range(OpenOrder(sv, k))
           G == B \cup NeverReturned
<1>1. sv >= 68
  BY DEF MinVer
<1>2. F \subseteq Names /\ \A name : name \in F <=> InParts(name, sv, o)
  BY <1>1, AllNamed, PlaceParts
<1>3. Counted(k) /\ Version(k) = 32
  BY <1>1, <1>2, Decides, ToldIs, OpenVersions DEF Version
<1>4. /\ \A name \in Counts \cup {"underCompPresent"} : name \in F => Num(k, name) = o[name]
      /\ HasScale(o) => Num(k, "scalePriceIncrement") > 0
      /\ \A name \in Texts : name \in F /\ o[name] # <<>> => Given(k, name)
  BY <1>2, Decides
<1>5. \A name \in Counts \cup {"underCompPresent"} : o[name] \in {0, 1}
  BY OrderFields
<1> HIDE DEF k, F
<1>6. /\ Range(OpenContract(k)) \subseteq G /\ Range(OpenMain) \subseteq G
      /\ Range(OpenExempt(sv, k)) \subseteq G /\ Range(OpenExtended) \subseteq G
      /\ Range(OpenDeltaNeutral(k)) \subseteq G /\ Range(OpenCombo(k)) \subseteq G
      /\ Range(OpenScale(k)) \subseteq G /\ Range(OpenRouting(k)) \subseteq G
      /\ Range(OpenAlgo(k)) \subseteq G /\ Range(OpenState) \subseteq G
      /\ {"continuousUpdate", "referencePriceType", "trailStopPrice"} \subseteq G
  BY <1>3, OpenParts
<1>7. NeverReturned \subseteq G
  OBVIOUS
<1> HIDE DEF B, G
<1>8. {"secIdType", "secId", "primaryExchange", "transmit", "overridePercentageConstraints",
       "scaleTable", "activeStartTime", "activeStopTime", "orderMiscOptions"} \subseteq G
  BY <1>7 DEF NeverReturned
<1>9. {"conId", "symbol", "secType", "expiry", "strike", "right", "multiplier",
       "exchange", "currency", "localSymbol", "tradingClass", "exemptCode"} \subseteq G
  BY <1>1, <1>3, <1>6, OpenHas
<1>10. {"action", "totalQuantity", "orderType", "lmtPrice", "auxPrice", "tif",
        "ocaGroup", "account", "openClose", "origin", "orderRef", "outsideRth", "hidden",
        "discretionaryAmt", "goodAfterTime", "sharesAllocation", "faGroup", "faMethod",
        "faPercentage", "faProfile", "goodTillDate", "rule80A", "percentOffset",
        "settlingFirm", "shortSaleSlot", "designatedLocation"} \subseteq G
  <2>1. Range(OpenMain) =
          {"action", "totalQuantity", "orderType", "lmtPrice", "auxPrice", "tif",
           "ocaGroup", "account", "openClose", "origin", "orderRef", "clientId",
           "permId", "outsideRth", "hidden", "discretionaryAmt", "goodAfterTime",
           "sharesAllocation", "faGroup", "faMethod", "faPercentage", "faProfile",
           "goodTillDate", "rule80A", "percentOffset", "settlingFirm",
           "shortSaleSlot", "designatedLocation"}
    BY DEF Range, OpenMain
  <2> QED
    BY <1>6, <2>1
<1>11. {"auctionStrategy", "startingPrice", "stockRefPrice", "delta",
        "stockRangeLower", "stockRangeUpper", "displaySize", "blockOrder",
        "sweepToFill", "allOrNone", "minQty", "ocaType", "eTradeOnly",
        "firmQuoteOnly", "nbboPriceCap", "parentId", "triggerMethod", "volatility",
        "volatilityType", "deltaNeutralOrderType", "deltaNeutralAuxPrice"} \subseteq G
  <2>1. Range(OpenExtended) =
          {"auctionStrategy", "startingPrice", "stockRefPrice", "delta",
           "stockRangeLower", "stockRangeUpper", "displaySize", "blockOrder",
           "sweepToFill", "allOrNone", "minQty", "ocaType", "eTradeOnly",
           "firmQuoteOnly", "nbboPriceCap", "parentId", "triggerMethod", "volatility",
           "volatilityType", "deltaNeutralOrderType", "deltaNeutralAuxPrice"}
    BY DEF Range, OpenExtended
  <2> QED
    BY <1>6, <2>1
<1>12. "whatIf" \in G
  <2>1. "whatIf" \in Range(OpenState)
    BY DEF Range, OpenState
  <2> QED
    BY <1>6, <2>1
<1>13. Inside(PlaceContract(sv), G)
  <2> DEFINE b == <<"symbol", "secType", "expiry", "strike", "right", "multiplier",
                    "exchange", "primaryExchange", "currency", "localSymbol">>
             a == <<"conId">>
             c == <<"tradingClass">>
             d == <<"secIdType", "secId">>
  <2>1. Inside(b, G)
    <3>1. b \in Seq(FieldName)
      BY DEF FieldName, Texts, Longs, Doubles, MaxWritten, Flags
    <3>2. Range(b) = {"symbol", "secType", "expiry", "strike", "right", "multiplier",
                      "exchange", "primaryExchange", "currency", "localSymbol"}
      BY DEF Range
    <3> HIDE DEF b
    <3> QED
      BY <1>8, <1>9, <3>1, <3>2, LayoutOf DEF Inside
  <2>2. Inside(a, G) /\ Inside(c, G) /\ Inside(d, G)
    BY <1>8, <1>9, InsideNames
  <2>3. PlaceContract(sv) =
          When(sv >= MinVer.PLACE_ORDER_CONID, a) \o b \o When(sv >= MinVer.TRADING_CLASS, c)
            \o When(sv >= MinVer.SEC_ID_TYPE, d)
    BY Zenon DEF PlaceContract
  <2> HIDE DEF a, b, c, d
  <2>4. /\ Inside(When(sv >= MinVer.PLACE_ORDER_CONID, a), G)
        /\ Inside(When(sv >= MinVer.TRADING_CLASS, c), G)
        /\ Inside(When(sv >= MinVer.SEC_ID_TYPE, d), G)
    BY <2>2, InsideWhen, Zenon DEF Inside
  <2> QED
    BY <2>1, <2>3, <2>4, InsideJoin, Zenon
<1>14. Inside(PlaceMain, G)
  <2>1. PlaceMain \in Seq(FieldName)
    BY PlaceNames
  <2>2. Range(PlaceMain) =
          {"action", "totalQuantity", "orderType", "lmtPrice", "auxPrice", "tif",
           "ocaGroup", "account", "openClose", "origin", "orderRef", "transmit",
           "parentId", "blockOrder", "sweepToFill", "displaySize", "triggerMethod",
           "outsideRth", "hidden"}
    BY DEF Range, PlaceMain
  <2> QED
    BY <1>8, <1>10, <1>11, <2>1, <2>2, LayoutOf DEF Inside
<1>15. Inside(Combo(sv, o), G)
  <2>1. SUFFICES ASSUME o["secType"] = BAG
                 PROVE  Inside(PlaceCombo(sv, o), G)
    <3>1. IsLayout(PlaceCombo(sv, o))
      BY PlaceNames, LayoutOf
    <3> QED
      BY <3>1, InsideWhen, Zenon DEF Combo
  <2> DEFINE legs == SubSeq(ComboLegFields, 1, 7)
             e == <<"comboLeg.exemptCode">>
             q == <<"orderComboLeg.price">>
             t == <<"smartComboRoutingParam.tag", "smartComboRoutingParam.value">>
             m == <<"comboLegsCount">>
             n == <<"orderComboLegsCount">>
             r == <<"smartComboRoutingParamsCount">>
             L == legs \o When(sv >= MinVer.SSHORTX_OLD, e)
             P == n \o When(o["orderComboLegsCount"] > 0, q)
             R == r \o When(o["smartComboRoutingParamsCount"] > 0, t)
  <2>2. Range(PlaceCombo(sv, o)) \subseteq F
    <3>1. Combo(sv, o) = PlaceCombo(sv, o)
      BY <2>1 DEF Combo, When
    <3> QED
      BY <1>2, <3>1 DEF InParts
  <2>3. PlaceCombo(sv, o) =
          m \o When(o["comboLegsCount"] > 0, L) \o When(sv >= MinVer.ORDER_COMBO_LEGS_PRICE, P)
            \o When(sv >= MinVer.SMART_COMBO_ROUTING_PARAMS, R)
    BY Zenon DEF PlaceCombo
  <2>4. IsLayout(legs) /\ Range(legs) \subseteq Range(ComboLegFields)
    <3>1. ComboLegFields \in Seq(FieldName) /\ Len(ComboLegFields) = 8
      BY DEF ComboLegFields, FieldName, Texts, Longs, Doubles, MaxWritten, Flags
    <3>2. ASSUME NEW i \in 1..7
          PROVE  ComboLegFields[i] \in Range(ComboLegFields)
      BY <3>1, LenProperties DEF Range
    <3>3. legs \in Seq(Range(ComboLegFields))
      BY <3>2, SubSeqProperties
    <3> HIDE DEF legs
    <3> QED
      BY <3>3, LayoutOf, LenProperties DEF Range
  <2>5. /\ IsLayout(m) /\ IsLayout(e) /\ IsLayout(q) /\ IsLayout(t) /\ IsLayout(n) /\ IsLayout(r)
        /\ Range(m) = {"comboLegsCount"} /\ Range(n) = {"orderComboLegsCount"}
        /\ Range(r) = {"smartComboRoutingParamsCount"} /\ Range(q) = {"orderComboLeg.price"}
        /\ Range(t) = {"smartComboRoutingParam.tag", "smartComboRoutingParam.value"}
        /\ Range(e) \subseteq Range(ComboLegFields)
    <3>1. Range(e) \subseteq Range(ComboLegFields)
      BY DEF Range, ComboLegFields
    <3> QED
      BY <3>1, SingleName, Short DEF Range
  <2> HIDE DEF legs, e, q, t, m, n, r
  <2>6. IsLayout(L) /\ IsLayout(P) /\ IsLayout(R)
    <3>1. /\ IsLayout(When(sv >= MinVer.SSHORTX_OLD, e))
          /\ IsLayout(When(o["orderComboLegsCount"] > 0, q))
          /\ IsLayout(When(o["smartComboRoutingParamsCount"] > 0, t))
      BY <2>5, WhenRange, Zenon
    <3> QED
      BY <2>4, <2>5, <3>1, LayoutJoin, Zenon
  <2>7. m \o When(o["comboLegsCount"] > 0, L) \o When(sv >= MinVer.ORDER_COMBO_LEGS_PRICE, P)
          \o When(sv >= MinVer.SMART_COMBO_ROUTING_PARAMS, R) = m \o When(o["comboLegsCount"] > 0, L) \o P \o R
    <3>1. sv >= MinVer.ORDER_COMBO_LEGS_PRICE /\ sv >= MinVer.SMART_COMBO_ROUTING_PARAMS
      BY <1>1 DEF MinVer
    <3> QED
      BY <3>1, Zenon DEF When
  <2>8. {"comboLegsCount", "orderComboLegsCount", "smartComboRoutingParamsCount"} \subseteq F
    BY <2>2, GroupsSent
  <2>9. /\ o["comboLegsCount"] > 0 => Num(k, "comboLegsCount") = 1
        /\ o["orderComboLegsCount"] > 0 => Num(k, "orderComboLegsCount") = 1
        /\ o["smartComboRoutingParamsCount"] > 0 => Num(k, "smartComboRoutingParamsCount") = 1
    BY <1>4, <1>5, <2>8 DEF Counts
  <2>10. Inside(m, G) /\ Inside(n, G) /\ Inside(r, G)
    BY <1>1, <1>3, <1>6, <2>5, OpenHas DEF Inside
  <2>11. /\ o["comboLegsCount"] > 0 => Inside(legs, G) /\ Inside(e, G)
         /\ o["orderComboLegsCount"] > 0 => Inside(q, G)
         /\ o["smartComboRoutingParamsCount"] > 0 => Inside(t, G)
    BY <1>1, <1>3, <1>6, <2>4, <2>5, <2>9, OpenHas DEF Inside
  <2>12. Inside(P, G) /\ Inside(R, G)
    <3>1. /\ Inside(When(o["orderComboLegsCount"] > 0, q), G)
          /\ Inside(When(o["smartComboRoutingParamsCount"] > 0, t), G)
      BY <2>5, <2>11, InsideWhen, Zenon
    <3> QED
      BY <2>10, <3>1, InsideJoin, Zenon
  <2>13. o["comboLegsCount"] > 0 => Inside(L, G)
    <3> SUFFICES ASSUME o["comboLegsCount"] > 0 PROVE Inside(L, G)
      OBVIOUS
    <3>1. Inside(When(sv >= MinVer.SSHORTX_OLD, e), G)
      BY <2>5, <2>11, InsideWhen, Zenon
    <3> QED
      BY <2>11, <3>1, InsideJoin, Zenon
  <2>14. Inside(When(o["comboLegsCount"] > 0, L), G)
    BY <2>6, <2>13, InsideWhen, Zenon
  <2> HIDE DEF P, R, L
  <2> QED
    BY <2>3, <2>7, <2>10, <2>12, <2>14, InsideJoin, Zenon
<1>16. Inside(PlaceExtended(sv), G)
  <2> DEFINE a == <<"sharesAllocation", "discretionaryAmt", "goodAfterTime", "goodTillDate",
                    "faGroup", "faMethod", "faPercentage", "faProfile", "shortSaleSlot",
                    "designatedLocation">>
             b == <<"ocaType", "rule80A", "settlingFirm", "allOrNone", "minQty",
                    "percentOffset", "eTradeOnly", "firmQuoteOnly", "nbboPriceCap",
                    "auctionStrategy", "startingPrice", "stockRefPrice", "delta",
                    "stockRangeLower", "stockRangeUpper", "overridePercentageConstraints",
                    "volatility", "volatilityType", "deltaNeutralOrderType",
                    "deltaNeutralAuxPrice">>
             e == <<"exemptCode">>
  <2>1. Inside(a, G)
    <3>1. a \in Seq(FieldName)
      BY DEF FieldName, Texts, Longs, Doubles, MaxWritten, Flags
    <3>2. Range(a) =
            {"sharesAllocation", "discretionaryAmt", "goodAfterTime", "goodTillDate",
             "faGroup", "faMethod", "faPercentage", "faProfile", "shortSaleSlot",
             "designatedLocation"}
      BY DEF Range
    <3> HIDE DEF a
    <3> QED
      BY <1>10, <3>1, <3>2, LayoutOf DEF Inside
  <2>2. Inside(b, G)
    <3>1. b \in Seq(FieldName)
      BY DEF FieldName, Texts, Longs, Doubles, MaxWritten, Flags
    <3>2. Range(b) =
            {"ocaType", "rule80A", "settlingFirm", "allOrNone", "minQty",
             "percentOffset", "eTradeOnly", "firmQuoteOnly", "nbboPriceCap",
             "auctionStrategy", "startingPrice", "stockRefPrice", "delta",
             "stockRangeLower", "stockRangeUpper", "overridePercentageConstraints",
             "volatility", "volatilityType", "deltaNeutralOrderType",
             "deltaNeutralAuxPrice"}
      BY DEF Range
    <3> HIDE DEF b
    <3> QED
      BY <1>8, <1>10, <1>11, <3>1, <3>2, LayoutOf DEF Inside
  <2>3. Inside(e, G)
    BY <1>9, InsideNames
  <2>4. PlaceExtended(sv) = a \o When(sv >= MinVer.SSHORTX_OLD, e) \o b
    BY Zenon DEF PlaceExtended
  <2> HIDE DEF a, b, e
  <2>5. Inside(When(sv >= MinVer.SSHORTX_OLD, e), G)
    BY <2>3, InsideWhen, Zenon DEF Inside
  <2> QED
    BY <2>1, <2>2, <2>4, <2>5, InsideJoin, Zenon
<1>17. Inside(PlaceDeltaNeutral(sv, o), G)
  <2> DEFINE a == <<"deltaNeutralConId", "deltaNeutralSettlingFirm",
                    "deltaNeutralClearingAccount", "deltaNeutralClearingIntent">>
             b == <<"deltaNeutralOpenClose", "deltaNeutralShortSale",
                    "deltaNeutralShortSaleSlot", "deltaNeutralDesignatedLocation">>
             c == <<"continuousUpdate", "referencePriceType", "trailStopPrice">>
             e == <<"trailingPercent">>
             set == o["deltaNeutralOrderType"] # <<>>
  <2>1. set => Given(k, "deltaNeutralOrderType")
    <3>1. "deltaNeutralOrderType" \in F /\ "deltaNeutralOrderType" \in Texts
      BY AlwaysSent DEF F, Texts
    <3> QED
      BY <1>4, <3>1
  <2>2. set => Inside(a, G) /\ Inside(b, G)
    <3>1. set => {"deltaNeutralConId", "deltaNeutralSettlingFirm",
                  "deltaNeutralClearingAccount", "deltaNeutralClearingIntent",
                  "deltaNeutralOpenClose", "deltaNeutralShortSale",
                  "deltaNeutralShortSaleSlot", "deltaNeutralDesignatedLocation"} \subseteq G
      BY <1>1, <1>3, <1>6, <2>1, OpenHas
    <3> QED
      BY <3>1, InsideNames
  <2>3. Inside(c, G) /\ Inside(e, G) /\ IsLayout(a) /\ IsLayout(b)
    <3>1. "trailingPercent" \in G
      BY <1>1, <1>3, <1>6, OpenHas
    <3> QED
      BY <1>6, <3>1, Short, InsideNames
  <2>4. PlaceDeltaNeutral(sv, o) =
          When(sv >= MinVer.DELTA_NEUTRAL_CONID /\ set, a)
            \o When(sv >= MinVer.DELTA_NEUTRAL_OPEN_CLOSE /\ set, b)
            \o c \o When(sv >= MinVer.TRAILING_PERCENT, e)
    BY Zenon DEF PlaceDeltaNeutral
  <2> HIDE DEF a, b, c, e, set
  <2>5. /\ Inside(When(sv >= MinVer.DELTA_NEUTRAL_CONID /\ set, a), G)
        /\ Inside(When(sv >= MinVer.DELTA_NEUTRAL_OPEN_CLOSE /\ set, b), G)
    BY <2>2, <2>3, InsideWhen, Zenon
  <2>6. Inside(When(sv >= MinVer.TRAILING_PERCENT, e), G)
    BY <2>3, InsideWhen, Zenon DEF Inside
  <2> QED
    BY <2>3, <2>4, <2>5, <2>6, InsideJoin, Zenon
<1>18. Inside(PlaceScale(sv, o), G)
  <2> DEFINE f == <<"scaleInitLevelSize", "scaleSubsLevelSize">>
             b == <<"scalePriceIncrement">>
             a == <<"scalePriceAdjustValue", "scalePriceAdjustInterval",
                    "scaleProfitOffset", "scaleAutoReset", "scaleInitPosition",
                    "scaleInitFillQty", "scaleRandomPercent">>
             c == <<"scaleTable", "activeStartTime", "activeStopTime">>
  <2>1. Inside(f, G) /\ Inside(b, G)
    <3>1. {"scaleInitLevelSize", "scaleSubsLevelSize", "scalePriceIncrement"} \subseteq G
      BY <1>1, <1>3, <1>6, OpenHas
    <3> QED
      BY <3>1, InsideNames
  <2>2. Inside(c, G)
    BY <1>8, InsideNames
  <2>3. IsLayout(a) /\ (HasScale(o) => Inside(a, G))
    <3>1. a \in Seq(FieldName)
      BY DEF FieldName, Texts, Longs, Doubles, MaxWritten, Flags
    <3>2. Range(a) = {"scalePriceAdjustValue", "scalePriceAdjustInterval", "scaleProfitOffset",
                      "scaleAutoReset", "scaleInitPosition", "scaleInitFillQty",
                      "scaleRandomPercent"}
      BY DEF Range
    <3> HIDE DEF a
    <3>3. IsLayout(a)
      BY <3>1, LayoutOf
    <3>4. HasScale(o) => Range(a) \subseteq G
      BY <1>1, <1>3, <1>4, <1>6, <3>2, OpenHas
    <3> QED
      BY <3>3, <3>4 DEF Inside
  <2>4. PlaceScale(sv, o) =
          f \o b \o When(sv >= MinVer.SCALE_ORDERS3 /\ HasScale(o), a)
            \o When(sv >= MinVer.SCALE_TABLE, c)
    <3>1. sv >= MinVer.SCALE_ORDERS2
      BY <1>1 DEF MinVer
    <3> QED
      BY <3>1, Zenon DEF PlaceScale
  <2> HIDE DEF f, a, b, c
  <2>5. Inside(When(sv >= MinVer.SCALE_ORDERS3 /\ HasScale(o), a), G)
    BY <2>3, InsideWhen, Zenon
  <2>6. Inside(When(sv >= MinVer.SCALE_TABLE, c), G)
    BY <2>2, InsideWhen, Zenon DEF Inside
  <2> QED
    BY <2>1, <2>4, <2>5, <2>6, InsideJoin, Zenon
<1>19. Inside(PlaceRouting(sv, o), G)
  <2> DEFINE a == <<"hedgeType">>
             b == <<"hedgeParam">>
             c == <<"optOutSmartRouting">>
             e == <<"clearingAccount", "clearingIntent">>
             f == <<"notHeld">>
             g == <<"underCompPresent">>
             h == <<"underComp.conId", "underComp.delta", "underComp.price">>
             x == When(o["hedgeType"] # <<>>, b)
             y == When(o["underCompPresent"] # 0, h)
  <2>1. /\ Inside(a, G) /\ Inside(c, G) /\ Inside(e, G) /\ Inside(f, G) /\ Inside(g, G)
        /\ IsLayout(b) /\ IsLayout(h)
    <3>1. {"hedgeType", "optOutSmartRouting", "clearingAccount", "clearingIntent",
           "notHeld", "underCompPresent"} \subseteq G
      BY <1>1, <1>3, <1>6, OpenHas
    <3> QED
      BY <3>1, SingleName, Short, InsideNames
  <2>2. PlaceRouting(sv, o) = (a \o x) \o c \o e \o f \o (g \o y)
    <3>1. PlaceRouting(sv, o) =
            When(sv >= MinVer.HEDGE_ORDERS, a \o x)
              \o When(sv >= MinVer.OPT_OUT_SMART_ROUTING, c)
              \o When(sv >= MinVer.PTA_ORDERS, e) \o When(sv >= MinVer.NOT_HELD, f)
              \o When(sv >= MinVer.UNDER_COMP, g \o y)
      BY Zenon DEF PlaceRouting
    <3>2. /\ sv >= MinVer.HEDGE_ORDERS /\ sv >= MinVer.OPT_OUT_SMART_ROUTING
          /\ sv >= MinVer.PTA_ORDERS /\ sv >= MinVer.NOT_HELD /\ sv >= MinVer.UNDER_COMP
      BY <1>1 DEF MinVer
    <3> HIDE DEF a, b, c, e, f, g, h, x, y
    <3> QED
      BY <3>1, <3>2, Zenon DEF When
  <2>3. /\ Range(a) = {"hedgeType"} /\ Range(g) = {"underCompPresent"}
        /\ Range(b) = {"hedgeParam"}
        /\ Range(h) = {"underComp.conId", "underComp.delta", "underComp.price"}
    BY DEF Range
  <2> HIDE DEF a, b, c, e, f, g, h
  <2>4. IsLayout(x) /\ IsLayout(y)
    BY <2>1, WhenRange, Zenon
  <2>5. "hedgeType" \in F /\ "underCompPresent" \in F
    BY <1>2, GroupsSent DEF InParts
  <2>6. o["hedgeType"] # <<>> => Inside(b, G)
    <3>1. o["hedgeType"] # <<>> => Given(k, "hedgeType")
      BY <1>4, <2>5 DEF Texts
    <3> QED
      BY <1>1, <1>3, <1>6, <2>1, <2>3, <3>1, OpenHas DEF Inside
  <2>7. o["underCompPresent"] # 0 => Inside(h, G)
    <3>1. o["underCompPresent"] # 0 => Num(k, "underCompPresent") # 0
      BY <1>4, <2>5
    <3> QED
      BY <1>1, <1>3, <1>6, <2>1, <2>3, <3>1, OpenHas DEF Inside
  <2>8. Inside(x, G)
    BY <2>1, <2>6, InsideWhen, Zenon
  <2>9. Inside(y, G)
    BY <2>1, <2>7, InsideWhen, Zenon
  <2> HIDE DEF x, y
  <2>10. Inside(a \o x, G) /\ Inside(g \o y, G)
    BY <2>1, <2>8, <2>9, InsideJoin
  <2> QED
    BY <2>1, <2>2, <2>10, InsideJoin, Zenon
<1>20. Inside(PlaceAlgo(sv, o), G)
  <2> DEFINE a == <<"algoStrategy">>
             b == <<"algoParamsCount">>
             c == <<"algoParam.tag", "algoParam.value">>
             e == <<"whatIf">>
             f == <<"orderMiscOptions">>
             x == When(o["algoParamsCount"] > 0, c)
             y == When(o["algoStrategy"] # <<>>, b \o x)
  <2>1. PlaceAlgo(sv, o) = (a \o y) \o e \o When(sv >= MinVer.LINKING, f)
    <3>1. PlaceAlgo(sv, o) =
            When(sv >= MinVer.ALGO_ORDERS, a \o y) \o e \o When(sv >= MinVer.LINKING, f)
      BY Zenon DEF PlaceAlgo
    <3>2. sv >= MinVer.ALGO_ORDERS
      BY <1>1 DEF MinVer
    <3> HIDE DEF a, b, c, e, f, x, y
    <3>3. When(sv >= MinVer.ALGO_ORDERS, a \o y) = a \o y
      BY <3>2, Zenon DEF When
    <3> QED
      BY <3>1, <3>3
  <2>2. /\ Inside(a, G) /\ Inside(e, G) /\ Inside(f, G) /\ IsLayout(b) /\ IsLayout(c)
        /\ IsLayout(f)
    <3>1. "algoStrategy" \in G
      BY <1>1, <1>3, <1>6, OpenHas
    <3> QED
      BY <1>8, <1>12, <3>1, SingleName, Short, InsideNames
  <2>3. /\ Range(a) = {"algoStrategy"} /\ Range(b) = {"algoParamsCount"}
        /\ Range(c) = {"algoParam.tag", "algoParam.value"}
    BY DEF Range
  <2> HIDE DEF a, b, c, e, f
  <2>4. IsLayout(x)
    BY <2>2, WhenRange, Zenon
  <2>5. IsLayout(b \o x) /\ Range(b \o x) = Range(b) \cup Range(x)
    <3> HIDE DEF x
    <3> QED
      BY <2>2, <2>4, LayoutJoin, RangeJoin
  <2>6. IsLayout(y) /\ (o["algoStrategy"] # <<>> => Range(y) = Range(b \o x))
    <3> HIDE DEF x
    <3> QED
      BY <2>5, WhenRange, Zenon
  <2>7. "algoStrategy" \in F /\ (o["algoStrategy"] # <<>> => "algoParamsCount" \in F)
    BY <1>2, GroupsSent DEF InParts
  <2>8. o["algoStrategy"] # <<>> => Given(k, "algoStrategy")
    BY <1>4, <2>7 DEF Texts
  <2>9. o["algoStrategy"] # <<>> => Inside(b, G)
    BY <1>1, <1>3, <1>6, <2>2, <2>3, <2>8, OpenHas DEF Inside
  <2>10. o["algoStrategy"] # <<>> /\ o["algoParamsCount"] > 0 => Inside(c, G)
    <3>1. o["algoStrategy"] # <<>> /\ o["algoParamsCount"] > 0 => Num(k, "algoParamsCount") = 1
      BY <1>4, <1>5, <2>7 DEF Counts
    <3> QED
      BY <1>1, <1>3, <1>6, <2>2, <2>3, <2>8, <3>1, OpenHas DEF Inside
  <2>11. o["algoStrategy"] # <<>> => Inside(b \o x, G)
    <3> SUFFICES ASSUME o["algoStrategy"] # <<>> PROVE Inside(b \o x, G)
      OBVIOUS
    <3>1. Inside(x, G)
      BY <2>2, <2>10, InsideWhen, Zenon
    <3> HIDE DEF x
    <3> QED
      BY <2>9, <3>1, InsideJoin
  <2>12. Inside(y, G)
    <3> HIDE DEF x
    <3> QED
      BY <2>5, <2>11, InsideWhen, Zenon
  <2> HIDE DEF x, y
  <2>13. Inside(a \o y, G)
    BY <2>2, <2>12, InsideJoin
  <2>14. Inside(When(sv >= MinVer.LINKING, f), G)
    BY <2>2, InsideWhen, Zenon
  <2> QED
    BY <2>1, <2>2, <2>13, <2>14, InsideJoin, Zenon
<1>21. \A name : InParts(name, sv, o) => name \in G
  BY <1>13, <1>14, <1>15, <1>16, <1>17, <1>18, <1>19, <1>20 DEF InParts, Inside
<1> QED
  BY <1>2, <1>21 DEF F, G, B, k

--------------------------------------------------------------------------------
(* The order that the application is told of, and what it places again.    *)

\* The order that the application is told of.
LEMMA DecodeIs ==
  ASSUME NEW sv \in Nat, sv >= 38, NEW o, IsOrder(o)
  PROVE  /\ DOMAIN Decode(Told(sv, o)) = Names
         /\ \A name \in Names :
              Decode(Told(sv, o))[name] =
                IF name \notin DOMAIN Told(sv, o) THEN Default(name)
                ELSE IF name \in Range(PlaceFields(sv, o))
                     THEN Read(name, SentAs(sv, name, o[name]), OpenVersion(sv))
                     ELSE Read(name, <<>>, OpenVersion(sv))
<1> DEFINE T == Told(sv, o)
<1>1. /\ ToInt(T["version"]) = OpenVersion(sv)
      /\ \A name \in DOMAIN T : name # "version" =>
           T[name] = IF name \in Range(PlaceFields(sv, o)) THEN SentAs(sv, name, o[name]) ELSE <<>>
  BY ToldIs
<1>2. \A name \in Names : name # "version"
  BY PlaceParts, NoVersion DEF Names
<1>3. Decode(T) = [name \in Names |-> IF name \in DOMAIN T
                                      THEN Read(name, T[name], OpenVersion(sv)) ELSE Default(name)]
  BY <1>1, Zenon DEF Decode
<1> HIDE DEF T
<1>4. DOMAIN Decode(T) = Names
  BY <1>3
<1>5. ASSUME NEW name \in Names
      PROVE  Decode(T)[name] =
               IF name \notin DOMAIN T THEN Default(name)
               ELSE IF name \in Range(PlaceFields(sv, o))
                    THEN Read(name, SentAs(sv, name, o[name]), OpenVersion(sv))
                    ELSE Read(name, <<>>, OpenVersion(sv))
  <2>1. Decode(T)[name] = IF name \in DOMAIN T
                          THEN Read(name, T[name], OpenVersion(sv)) ELSE Default(name)
    BY <1>3
  <2> QED
    BY <1>1, <1>2, <2>1
<1> QED
  BY <1>4, <1>5 DEF T

\* It has the values that were placed.
LEMMA ComesBack ==
  ASSUME NEW sv \in Nat, sv >= 38, NEW o, IsOrder(o),
         NEW name \in Range(PlaceFields(sv, o)) \ NeverReturned
  PROVE  /\ sv >= MinVer.TRADING_CLASS => name \in DOMAIN Told(sv, o)
         /\ name \in DOMAIN Told(sv, o) /\ Fits(name, o[name]) =>
              Decode(Told(sv, o))[name] =
                IF name \in Zeroed(sv) /\ o[name] = UNSET THEN 0 ELSE o[name]
<1>1. name \in Names /\ o[name] \in ValuesOf(name)
  BY AllNamed, OrderFields
<1>2. sv >= MinVer.TRADING_CLASS => name \in DOMAIN Told(sv, o)
  BY AllComeBack, ToldIs
<1>3. name \in DOMAIN Told(sv, o) =>
        Decode(Told(sv, o))[name] = Read(name, SentAs(sv, name, o[name]), OpenVersion(sv))
  BY <1>1, DecodeIs
<1> QED
  BY <1>1, <1>2, <1>3, ThereAndBack

\* The values that the constructors give have the types of their fields.
LEMMA DefaultValues ==
  /\ \A name : Default(name) \in ValuesOf(name)
  /\ \A name \in Counts \cup {"underCompPresent"} : Default(name) = 0
  /\ \A name \in Texts \ {"openClose"} : Default(name) = <<>>
  /\ Default("scalePriceIncrement") = UNSET
<1>1. UNSET \in Int
  BY UnsetNotRound
<1>2. O \in Text /\ <<>> \in Text
  <2>1. FirstWord + 1 \in Nat
    BY OrdersAssumption
  <2> QED
    BY <2>1 DEF O, Text
<1>3. \A name :
        /\ name = "openClose" => Default(name) = O
        /\ name \in Texts \ {"openClose"} => Default(name) = <<>>
        /\ name \in MaxWritten => Default(name) = UNSET
        /\ name \notin Texts \cup MaxWritten => Default(name) \in {1, -1, 0}
        /\ name \in Counts \cup {"underCompPresent"} => Default(name) = 0
  <2> DEFINE Ones == {"transmit", "eTradeOnly", "firmQuoteOnly", "scaleNumComponents"}
             Exempt == {"exemptCode", "comboLeg.exemptCode"}
             Zeros == Counts \cup {"underCompPresent"}
  <2>1. /\ \A name \in Texts : name \notin MaxWritten \cup Ones \cup Exempt \cup Zeros
        /\ \A name \in MaxWritten : name \notin Ones \cup Exempt \cup Zeros
        /\ \A name \in Ones : name \notin Exempt \cup Zeros
        /\ \A name \in Exempt : name \notin Zeros
        /\ "openClose" \in Texts
    BY DEF Texts, MaxWritten, Counts
  <2>2. \A name : Default(name) =
          CASE name = "openClose" -> O
            [] name \in Texts \ {"openClose"} -> <<>>
            [] name \in MaxWritten -> UNSET
            [] name \in Ones -> 1
            [] name \in Exempt -> -1
            [] OTHER -> 0
    BY Zenon DEF Default
  <2> HIDE DEF Ones, Exempt, Zeros
  <2>3. SUFFICES ASSUME NEW name
                 PROVE  /\ name = "openClose" => Default(name) = O
                        /\ name \in Texts \ {"openClose"} => Default(name) = <<>>
                        /\ name \in MaxWritten => Default(name) = UNSET
                        /\ name \notin Texts \cup MaxWritten => Default(name) \in {1, -1, 0}
                        /\ name \in Zeros => Default(name) = 0
    BY DEF Zeros
  <2> QED
    BY <2>1, <2>2
<1>4. "openClose" \in Texts /\ "scalePriceIncrement" \in MaxWritten
  BY DEF Texts, MaxWritten
<1> QED
  BY <1>1, <1>2, <1>3, <1>4 DEF ValuesOf

\* The fields that open groups are fields of orders.
LEMMA NamedGroups ==
  Counts \cup {"underCompPresent", "secType", "hedgeType", "algoStrategy",
             "deltaNeutralOrderType", "scalePriceIncrement"} \subseteq Names
<1>1. MinVer.LINKING = 70 /\ MinVer.TRADING_CLASS = 68
  BY DEF MinVer
<1>2. Opened["secType"] = BAG /\ Opened["algoStrategy"] = BAG /\ BAG # <<>>
  BY DEF Opened, BAG
<1>3. Combo(70, Opened) = PlaceCombo(70, Opened)
  BY <1>2 DEF Combo, When
<1>4. \A name : InParts(name, 70, Opened) => name \in Names
  BY <1>1, PlaceParts DEF Names
<1>5. /\ {"comboLegsCount", "orderComboLegsCount", "smartComboRoutingParamsCount"}
           \subseteq Range(PlaceCombo(70, Opened))
      /\ {"hedgeType", "underCompPresent"} \subseteq Range(PlaceRouting(70, Opened))
      /\ {"algoStrategy", "algoParamsCount"} \subseteq Range(PlaceAlgo(70, Opened))
  BY <1>1, <1>2, GroupsSent
<1>6. {"secType", "deltaNeutralOrderType", "scalePriceIncrement"} \subseteq Names
  BY <1>4, AlwaysSent, PlaceParts
<1> QED
  BY <1>3, <1>4, <1>5, <1>6 DEF InParts, Counts

\* It opens no group that was not placed, and is an order again.
LEMMA BackIsOrder ==
  ASSUME NEW sv \in Nat, sv >= 38, NEW o, IsOrder(o)
  PROVE  IsOrder(Decode(Told(sv, o))) /\ Covers(o, Decode(Told(sv, o)))
<1> DEFINE d == Decode(Told(sv, o))
           F == Range(PlaceFields(sv, o))
           T == Told(sv, o)
           ver == OpenVersion(sv)
<1>1. F \subseteq Names
  BY AllNamed
<1>2. /\ \A name \in Names : o[name] \in ValuesOf(name)
      /\ \A name \in Counts \cup {"underCompPresent"} : o[name] \in {0, 1}
      /\ HasScale(o) => Round(o["scalePriceIncrement"]) < FirstWord
  BY OrderFields
<1>3. /\ DOMAIN d = Names
      /\ \A name \in Names :
           d[name] = IF name \notin DOMAIN T THEN Default(name)
                     ELSE IF name \in F THEN Read(name, SentAs(sv, name, o[name]), ver)
                          ELSE Read(name, <<>>, ver)
  BY DecodeIs
<1>4. Counts \cup {"underCompPresent", "secType", "hedgeType", "algoStrategy",
                   "deltaNeutralOrderType", "scalePriceIncrement"} \subseteq Names
  BY NamedGroups
<1> HIDE DEF d, F, T, ver
<1>5. ASSUME NEW name \in Names
      PROVE  d[name] \in ValuesOf(name)
  <2>1. CASE name \notin DOMAIN T
    BY <1>3, <2>1, DefaultValues
  <2>2. CASE name \in DOMAIN T /\ name \in F
    BY <1>2, <1>3, <2>2, ThereAndBack DEF ver
  <2>3. CASE name \in DOMAIN T /\ name \notin F
    <3>1. d[name] = Read(name, <<>>, ver)
      BY <1>3, <2>3
    <3>2. UNSET \in Int /\ <<>> \in Text
      BY UnsetNotRound DEF Text
    <3> QED
      BY <3>1, <3>2, IsRead DEF ValuesOf
  <2> QED
    BY <2>1, <2>2, <2>3
<1>6. ASSUME NEW name \in Counts \cup {"underCompPresent"}
      PROVE  d[name] \in {0, 1} /\ (d[name] # 0 => o[name] = d[name])
  <2>1. name \notin Texts /\ name \notin MaxRead
    BY DEF Counts, Texts, MaxRead, MaxWritten
  <2>2. SentAs(sv, name, o[name]) = <<o[name]>>
    BY SentPlainly
  <2>3. Read(name, <<o[name]>>, ver) = o[name] /\ Read(name, <<>>, ver) = 0
    BY <2>1, IsRead DEF ReadsUnset
  <2> QED
    BY <1>2, <1>3, <1>4, <2>2, <2>3, DefaultValues
<1>7. ASSUME NEW name \in Texts \ {"openClose"}, name \in Names
      PROVE  d[name] # <<>> => o[name] = d[name]
  <2>1. SentAs(sv, name, o[name]) = o[name]
    BY SentPlainly
  <2>2. \A text : Read(name, text, ver) = text
    BY IsRead
  <2> QED
    BY <1>3, <1>7, <2>1, <2>2, DefaultValues
<1>8. HasScale(d) => HasScale(o) /\ d["scalePriceIncrement"] = Round(o["scalePriceIncrement"])
  <2> DEFINE name == "scalePriceIncrement"
             x == o[name]
  <2> SUFFICES ASSUME HasScale(d)
               PROVE  HasScale(o) /\ d[name] = Round(x)
    OBVIOUS
  <2>1. name \in F /\ name \in Doubles /\ name \in MaxRead /\ name \in MaxWritten
    BY AlwaysSent DEF F, Doubles, MaxRead, MaxWritten
  <2>2. d[name] > 0 /\ d[name] # UNSET
    BY DEF HasScale
  <2>3. d[name] = Read(name, SentAs(sv, name, x), ver) /\ x \in Int
    <3>1. name \in Names /\ name \in DOMAIN T
      BY <1>1, <1>3, <2>1, <2>2, DefaultValues
    <3>2. x \in ValuesOf(name)
      BY <1>2, <3>1
    <3> QED
      BY <1>3, <2>1, <3>1, <3>2, OneWay DEF ValuesOf
  <2>4. x # UNSET
    <3>1. ASSUME x = UNSET PROVE FALSE
      <4>1. name \notin Range(UnsetAsZero(sv))
        BY AsZero
      <4>2. SentAs(sv, name, x) = <<>>
        BY <2>1, <3>1, <4>1, Written DEF SentAs
      <4>3. ReadsUnset(name, ver)
        BY <2>1 DEF ReadsUnset
      <4>4. Read(name, <<>>, ver) = UNSET
        BY <2>1, <4>3, IsRead, OneWay
      <4> QED
        BY <2>2, <2>3, <4>2, <4>4
    <3> QED
      BY <3>1
  <2>5. d[name] = Round(x)
    <3>1. SentAs(sv, name, x) = <<Round(x)>>
      BY <2>1, <2>4, Written, OneWay DEF SentAs
    <3>2. Read(name, <<Round(x)>>, ver) = Round(x)
      BY <2>1, IsRead, OneWay
    <3> QED
      BY <2>3, <3>1, <3>2
  <2>6. x > 0
    BY <2>2, <2>3, <2>5, RoundTwice
  <2> QED
    BY <2>4, <2>5, <2>6 DEF HasScale
<1>9. HasScale(d) => Round(d["scalePriceIncrement"]) < FirstWord
  <2>1. o["scalePriceIncrement"] \in Int
    BY <1>2, <1>4 DEF ValuesOf, Texts
  <2> QED
    BY <1>2, <1>8, <2>1, RoundTwice
<1>10. IsOrder(d)
  BY <1>3, <1>5, <1>6, <1>9, Zenon DEF IsOrder, ValuesOf
<1>11. Covers(o, d)
  <2>1. {"secType", "hedgeType", "algoStrategy", "deltaNeutralOrderType"} \subseteq Texts \ {"openClose"}
    BY DEF Texts
  <2>2. BAG # <<>>
    BY DEF BAG
  <2>3. \A name \in {"secType", "hedgeType", "algoStrategy", "deltaNeutralOrderType"} :
          d[name] # <<>> => o[name] = d[name]
    BY <1>4, <1>7, <2>1
  <2>4. \A name \in Counts : d[name] > 0 => o[name] > 0
    BY <1>6
  <2>5. d["underCompPresent"] # 0 => o["underCompPresent"] # 0
    BY <1>6
  <2> QED
    BY <1>8, <2>2, <2>3, <2>4, <2>5 DEF Covers
<1> QED
  BY <1>10, <1>11 DEF d

\* The fields of the UnderComp.
UnderComp == {"underComp.conId", "underComp.delta", "underComp.price"}

\* What becomes of an order whose slot has returned is an order again, and it
\* opens no other groups.
LEMMA GarbageIs ==
  ASSUME NEW d, DOMAIN d = Names, IsOrder(d), NEW order \in Garbage(d)
  PROVE  /\ IsOrder(order)
         /\ \A o : Covers(o, d) => Covers(o, order)
         /\ \A name \in Names : order[name] = d[name] \/ (~slot /\ name \in UnderComp)
<1>1. CASE order = d
  BY <1>1
<1>2. CASE order # d
  <2>1. /\ ~slot
        /\ order = [d EXCEPT !["underComp.conId"] = 77, !["underComp.delta"] = 77,
                             !["underComp.price"] = 77]
    BY <1>2 DEF Garbage
  <2>2. /\ DOMAIN order = Names
        /\ \A name \in Names : name \notin UnderComp => order[name] = d[name]
        /\ \A name \in Names : name \in UnderComp => order[name] = 77
    BY <2>1 DEF UnderComp
  <2>3. /\ \A name \in UnderComp : name \notin Texts
        /\ \A name \in Counts \cup {"underCompPresent", "secType", "hedgeType", "algoStrategy",
                                   "deltaNeutralOrderType", "scalePriceIncrement"} :
             name \notin UnderComp
    BY DEF UnderComp, Texts, Counts
  <2>4. \A name \in Counts \cup {"underCompPresent", "secType", "hedgeType", "algoStrategy",
                                "deltaNeutralOrderType", "scalePriceIncrement"} :
          order[name] = d[name]
    BY <2>2, <2>3, NamedGroups
  <2>5. HasScale(order) <=> HasScale(d)
    BY <2>4 DEF HasScale
  <2>6. IsOrder(order)
    <3>1. \A name \in Names : order[name] \in IF name \in Texts THEN Text ELSE Int
      <4>1. 77 \in Int
        OBVIOUS
      <4> QED
        BY <2>2, <2>3, <4>1 DEF IsOrder
    <3> QED
      BY <2>2, <2>4, <2>5, <3>1 DEF IsOrder
  <2>7. \A o : Covers(o, d) => Covers(o, order)
    BY <2>4, <2>5 DEF Covers
  <2> QED
    BY <2>1, <2>2, <2>6, <2>7
<1> QED
  BY <1>1, <1>2

\* A field that is sent as it was received is sent as TWS told it.
LEMMA Again ==
  ASSUME NEW sv \in Nat, sv >= 38, NEW o, IsOrder(o), NEW order, Covers(o, order),
         NEW name \in DOMAIN Encode(sv, order) \cap DOMAIN Told(sv, o),
         order[name] = Decode(Told(sv, o))[name]
  PROVE  \/ Encode(sv, order)[name] = Told(sv, o)[name]
         \/ name \in Zeroed(sv) /\ Told(sv, o)[name] = <<>>
<1>1. /\ name \in Range(PlaceFields(sv, order))
      /\ Encode(sv, order)[name] = SentAs(sv, name, order[name])
  BY EncodeIs
<1>2. name \in Range(PlaceFields(sv, o))
  <2>1. Reaches(sv, sv)
    BY DEF Reaches
  <2> QED
    BY <1>1, <2>1, FieldsAmong
<1>3. name \in Names /\ o[name] \in ValuesOf(name)
  BY <1>2, AllNamed, OrderFields
<1>4. name # "version"
  BY <1>2, PlaceParts, NoVersion
<1>5. Told(sv, o)[name] = SentAs(sv, name, o[name])
  BY <1>2, <1>4, ToldIs
<1>6. order[name] = Read(name, SentAs(sv, name, o[name]), OpenVersion(sv))
  BY <1>2, <1>3, DecodeIs
<1> QED
  BY <1>1, <1>3, <1>5, <1>6, ThereAndBack

\* The same for all fields that are sent.
LEMMA PlacedAgain ==
  ASSUME NEW sv \in Nat, sv >= 38, NEW o, IsOrder(o),
         NEW order \in Garbage(Decode(Told(sv, o)))
  PROVE  /\ IsOrder(order)
         /\ \A name \in DOMAIN Encode(sv, order) \cap DOMAIN Told(sv, o) :
              \/ Encode(sv, order)[name] = Told(sv, o)[name]
              \/ name \in Zeroed(sv) /\ Told(sv, o)[name] = <<>>
              \/ ~slot /\ name \in UnderComp
<1> DEFINE d == Decode(Told(sv, o))
<1>1. IsOrder(d) /\ Covers(o, d) /\ DOMAIN d = Names
  BY BackIsOrder, DecodeIs
<1>2. IsOrder(order) /\ Covers(o, order)
  BY <1>1, GarbageIs
<1>3. \A name \in Names : order[name] = d[name] \/ (~slot /\ name \in UnderComp)
  BY <1>1, GarbageIs
<1>4. ASSUME NEW name \in DOMAIN Encode(sv, order) \cap DOMAIN Told(sv, o)
      PROVE  \/ Encode(sv, order)[name] = Told(sv, o)[name]
             \/ name \in Zeroed(sv) /\ Told(sv, o)[name] = <<>>
             \/ ~slot /\ name \in UnderComp
  <2>1. name \in Names
    BY EncodeIs, AllNamed
  <2> QED
    BY <1>2, <1>3, <2>1, Again
<1> QED
  BY <1>2, <1>4

--------------------------------------------------------------------------------
(* What is in flight after a step.                                         *)

\* What is in flight after a step was in flight before, or is new.
LEMMA RangeSeq ==
  ASSUME NEW s, IsSeq(s)
  PROVE  /\ \A e : Range(Append(s, e)) = Range(s) \cup {e}
         /\ s # <<>> => Head(s) \in Range(s) /\ Range(Tail(s)) \subseteq Range(s)
         /\ \A n \in 0..Len(s) : Range(SubSeq(s, 1, n)) \subseteq Range(s)
<1>1. ASSUME NEW e
      PROVE  Range(Append(s, e)) = Range(s) \cup {e}
  <2>1. Len(s) \in Nat /\ DOMAIN s = 1..Len(s)
    BY SeqDomain
  <2>2. /\ DOMAIN Append(s, e) = 1..(Len(s) + 1)
        /\ \A i \in DOMAIN s : Append(s, e)[i] = s[i]
        /\ Append(s, e)[Len(s) + 1] = e
    BY AppendSeq
  <2>3. 1..(Len(s) + 1) = DOMAIN s \cup {Len(s) + 1}
    BY <2>1
  <2> DEFINE t == Append(s, e)
  <2> HIDE DEF t
  <2>4. Range(t) = Range(s) \cup {e}
    BY <2>2, <2>3 DEF Range, t
  <2> QED
    BY <2>4 DEF t
<1>2. ASSUME s # <<>>
      PROVE  Head(s) \in Range(s) /\ Range(Tail(s)) \subseteq Range(s)
  BY <1>2, TailSeq DEF Range
<1>3. ASSUME NEW n \in 0..Len(s)
      PROVE  Range(SubSeq(s, 1, n)) \subseteq Range(s)
  <2>1. /\ DOMAIN SubSeq(s, 1, n) \subseteq DOMAIN s
        /\ \A i \in DOMAIN SubSeq(s, 1, n) : SubSeq(s, 1, n)[i] = s[i]
    BY FrontSeq
  <2> QED
    BY <2>1 DEF Range
<1> QED
  BY <1>1, <1>2, <1>3

--------------------------------------------------------------------------------
(* The inductive invariant of what orders say.                             *)

\* The fields of an order that is modified are sent as TWS told them.
SaysTheSame(sv, frame) ==
  \A name \in DOMAIN frame.texts \cap DOMAIN frame.answer :
    \/ frame.texts[name] = frame.answer[name]
    \/ name \in Zeroed(sv) /\ frame.answer[name] = <<>>
    \/ ~frame.inSlot /\ name \in UnderComp

\* An order on its way to TWS, in its book, and on its way back.
Placed(sv, frame) ==
  /\ IsOrder(frame.order) /\ frame.texts = Encode(sv, frame.order)
  /\ ~frame.new => SaysTheSame(sv, frame)

Booked(sv, entry) == IsOrder(entry.order) /\ entry.texts = Encode(sv, entry.order)

Heard(sv, frame) == IsOrder(frame.placed) /\ frame.texts = Told(sv, frame.placed)

OrderInv ==
  \A sv \in {load.server} :
    /\ \A frame \in Range(toTws) : frame.kind = "placeOrder" => Placed(sv, frame)
    /\ \A entry \in Range(book) : Booked(sv, entry)
    /\ \A frame \in Range(toClient) : frame.kind = "openOrder" => Heard(sv, frame)
    /\ \A h \in {held} : h # Nothing => Heard(sv, h) /\ h.order = Decode(h.texts)

\* The server of a load, and the version that the object has of it.
LEMMA Server ==
  ASSUME IdInv
  PROVE  /\ load.server \in Nat /\ load.server >= 38 /\ IsOrder(load.order)
         /\ Up => m_serverVersion = load.server
<1>1. load \in Loads /\ m_serverVersion \in {0, load.server}
  BY DEF IdInv, Types
<1> QED
  BY <1>1, OrdersAssumption, ValuesAssumption DEF Up

\* Nothing has been said at the beginning.
LEMMA InitOrderInv == Init => OrderInv
<1> SUFFICES ASSUME Init PROVE OrderInv
  OBVIOUS
<1>1. Range(<<>>) = {}
  BY NoNames
<1> QED
  BY <1>1 DEF Init, OrderInv

\* What is in flight, in the book or held after a step is as it was, or is as it
\* should be.
LEMMA SaysOrderInv ==
  ASSUME OrderInv, load' = load,
         \A frame \in Range(toTws') :
           frame \in Range(toTws) \/ (frame.kind = "placeOrder" => Placed(load.server, frame)),
         \A entry \in Range(book') : entry \in Range(book) \/ Booked(load.server, entry),
         \A frame \in Range(toClient') :
           frame \in Range(toClient) \/ (frame.kind = "openOrder" => Heard(load.server, frame)),
         \/ held' \in {held, Nothing}
         \/ Heard(load.server, held') /\ held'.order = Decode(held'.texts)
  PROVE  OrderInv'
<1> SUFFICES \A sv \in {load'.server} :
               /\ \A frame \in Range(toTws') : frame.kind = "placeOrder" => Placed(sv, frame)
               /\ \A entry \in Range(book') : Booked(sv, entry)
               /\ \A frame \in Range(toClient') : frame.kind = "openOrder" => Heard(sv, frame)
               /\ \A h \in {held'} : h # Nothing => Heard(sv, h) /\ h.order = Decode(h.texts)
  BY DEF OrderInv
<1> QED
  BY DEF OrderInv

\* The invariant over the frame that is sent to TWS.
LEMMA PlaceOrderInv ==
  ASSUME IdInv, OrderInv, NEW id, NEW order, NEW answer, NEW new,
         PlaceOrder(id, order, answer, new), IsOrder(order),
         ~new => \A name \in DOMAIN Encode(load.server, order) \cap DOMAIN answer :
                   \/ Encode(load.server, order)[name] = answer[name]
                   \/ name \in Zeroed(load.server) /\ answer[name] = <<>>
                   \/ ~slot /\ name \in UnderComp
  PROVE  OrderInv'
<1> DEFINE texts == Encode(load.server, order)
           frame == [kind |-> "placeOrder", id |-> Narrow(id), texts |-> texts,
                     order |-> order, answer |-> answer, new |-> new, inSlot |-> slot]
<1>1. /\ toTws' = Append(toTws, frame)
      /\ UNCHANGED <<load, toClient, book, held>>
  BY Server, Zenon DEF PlaceOrder, SendToTws
<1>2. /\ frame.texts = texts /\ frame.order = order /\ frame.answer = answer
      /\ frame.new = new /\ frame.inSlot = slot
  OBVIOUS
<1> HIDE DEF frame
<1>3. Placed(load.server, frame)
  <2>1. ~new => SaysTheSame(load.server, frame)
    BY <1>2 DEF SaysTheSame
  <2> QED
    BY <1>2, <2>1 DEF Placed
<1>4. Range(toTws') = Range(toTws) \cup {frame}
  BY <1>1, RangeSeq DEF IdInv, Types
<1> QED
  BY <1>1, <1>3, <1>4, SaysOrderInv

\* The order that is held is what TWS told: placing it again says the same.
LEMMA ModifyOrderInv ==
  ASSUME IdInv, OrderInv, Modify
  PROVE  OrderInv'
<1>1. PICK order \in Garbage(held.order) : PlaceOrder(held.id, order, held.texts, FALSE)
  BY DEF Modify
<1>2. Heard(load.server, held) /\ held.order = Decode(held.texts)
  BY DEF Modify, OrderInv
<1>3. IsOrder(held.placed) /\ held.texts = Told(load.server, held.placed)
  BY <1>2 DEF Heard
<1>4. /\ IsOrder(order)
      /\ \A name \in DOMAIN Encode(load.server, order) \cap DOMAIN held.texts :
           \/ Encode(load.server, order)[name] = held.texts[name]
           \/ name \in Zeroed(load.server) /\ held.texts[name] = <<>>
           \/ ~slot /\ name \in UnderComp
  <2>1. order \in Garbage(Decode(Told(load.server, held.placed)))
    BY <1>2, <1>3
  <2> QED
    BY <1>3, <2>1, Server, PlacedAgain
<1> QED
  BY <1>1, <1>4, PlaceOrderInv

\* The application holds what it was told.
LEMMA SignalOrderInv ==
  ASSUME IdInv, OrderInv, OpenOrderSignal
  PROVE  OrderInv'
<1> DEFINE frame == Head(toClient)
           h == [id |-> frame.id, order |-> Decode(frame.texts),
                 texts |-> frame.texts, placed |-> frame.placed]
<1>1. /\ toClient # <<>> /\ frame.kind = "openOrder" /\ held' = h
      /\ toClient' = Tail(toClient) /\ UNCHANGED <<load, toTws, book>>
  BY Zenon DEF OpenOrderSignal
<1>2. frame \in Range(toClient) /\ Range(toClient') \subseteq Range(toClient)
  BY <1>1, RangeSeq DEF IdInv, Types
<1>3. Heard(load.server, frame)
  BY <1>1, <1>2 DEF OrderInv
<1>4. h.order = Decode(h.texts) /\ h.texts = frame.texts /\ h.placed = frame.placed
  OBVIOUS
<1> HIDE DEF frame, h
<1>5. Heard(load.server, h)
  BY <1>3, <1>4 DEF Heard
<1> QED
  BY <1>1, <1>2, <1>4, <1>5, SaysOrderInv

\* What TWS tells of an entry of its book.
LEMMA OpenFrameHeard ==
  \A id, entry : Booked(load.server, entry) => Heard(load.server, OpenFrame(id, entry))
  BY DEF Booked, Heard, OpenFrame, Told

\* TWS reads a message and answers with a frame, or not.
LEMMA TellsOrderInv ==
  ASSUME IdInv, OrderInv, TwsReads,
         \A entry \in Range(book') : Booked(load.server, entry),
         NEW frame, frame.kind = "openOrder" => Heard(load.server, frame),
         SendToClient(frame) \/ toClient' = toClient
  PROVE  OrderInv'
<1>1. /\ UNCHANGED <<load, held>>
      /\ Range(toTws') \subseteq Range(toTws)
  BY RangeSeq DEF TwsReads, IdInv, Types
<1>2. Range(toClient') \subseteq Range(toClient) \cup {frame}
  <2>1. toClient' \in {toClient, Append(toClient, frame)}
    BY DEF SendToClient
  <2>2. Range(Append(toClient, frame)) = Range(toClient) \cup {frame}
    BY RangeSeq DEF IdInv, Types
  <2> QED
    BY <2>1, <2>2
<1> QED
  BY <1>1, <1>2, SaysOrderInv

\* TWS puts an order into its book, and tells of what is there.
LEMMA TwsReadsOrderInv ==
  ASSUME IdInv, OrderInv, TwsReads
  PROVE  OrderInv'
<1>1. toTws # <<>> /\ Head(toTws) \in Range(toTws)
  BY RangeSeq DEF TwsReads, IdInv, Types
<1>2. \A entry \in Range(book) : Booked(load.server, entry)
  BY DEF OrderInv
<1>3. CASE TwsTakesOrder
  <2> DEFINE head  == Head(toTws)
             new   == [texts |-> head.texts, order |-> head.order]
             book2 == [id \in DOMAIN book \cup {head.id} |->
                         IF id = head.id THEN new ELSE book[id]]
  <2>1. /\ head.kind = "placeOrder" /\ book' = book2
        /\ SendToClient(OpenFrame(head.id, book'[head.id]))
    BY <1>3, Zenon DEF TwsTakesOrder
  <2>2. Placed(load.server, head)
    BY <1>1, <2>1 DEF OrderInv
  <2>3. Booked(load.server, new)
    <3>1. new.order = head.order /\ new.texts = head.texts
      OBVIOUS
    <3> HIDE DEF new, head
    <3> QED
      BY <2>2, <3>1 DEF Placed, Booked
  <2> HIDE DEF new, head
  <2>4. book2[head.id] = new /\ \A entry \in Range(book2) : entry = new \/ entry \in Range(book)
    BY DEF Range
  <2>5. \A entry \in Range(book') : Booked(load.server, entry)
    BY <1>2, <2>1, <2>3, <2>4
  <2>6. Heard(load.server, OpenFrame(head.id, book'[head.id]))
    BY <2>1, <2>3, <2>4, OpenFrameHeard
  <2> QED
    BY <2>1, <2>5, <2>6, TellsOrderInv
<1>4. CASE TwsGivesId
  <2> DEFINE frame == [kind |-> "nextValidId", id |-> NextId]
  <2>1. book' = book /\ SendToClient(frame) /\ frame.kind # "openOrder"
    BY <1>4 DEF TwsGivesId
  <2> HIDE DEF frame
  <2> QED
    BY <1>2, <2>1, TellsOrderInv
<1>5. CASE TwsGivesOrder
  <2>1. book' = book
    BY <1>5 DEF TwsGivesOrder
  <2>2. CASE book = <<>>
    <3>1. toClient' = toClient
      BY <1>5, <2>2 DEF TwsGivesOrder
    <3>2. [kind |-> "nextValidId"].kind # "openOrder"
      OBVIOUS
    <3> QED
      BY <1>2, <2>1, <3>1, <3>2, TellsOrderInv
  <2>3. CASE book # <<>>
    <3>1. PICK id \in DOMAIN book : SendToClient(OpenFrame(id, book[id]))
      BY <1>5, <2>3 DEF TwsGivesOrder
    <3>2. book[id] \in Range(book)
      BY DEF Range
    <3>3. Heard(load.server, OpenFrame(id, book[id]))
      BY <1>2, <3>2, OpenFrameHeard
    <3> QED
      BY <1>2, <2>1, <3>1, <3>3, TellsOrderInv
  <2> QED
    BY <2>2, <2>3
<1> QED
  BY <1>3, <1>4, <1>5 DEF TwsReads

\* Every step keeps the invariant.
LEMMA NextOrderInv == IdInv /\ OrderInv /\ [Next]_vars => OrderInv'
<1> SUFFICES ASSUME IdInv, OrderInv, [Next]_vars PROVE OrderInv'
  OBVIOUS
<1>1. IsSeq(toTws) /\ IsSeq(toClient) /\ Range(<<>>) = {}
  BY NoNames DEF IdInv, Types
<1>2. CASE Connect
  <2> DEFINE frame == [kind |-> "nextValidId", id |-> NextId]
  <2>1. toClient' = <<frame>> /\ UNCHANGED <<load, toTws, book, held>>
    BY <1>2 DEF Connect
  <2>2. Range(toClient') = {frame}
    BY <2>1, OneSeq DEF Range
  <2>3. frame.kind # "openOrder"
    OBVIOUS
  <2> HIDE DEF frame
    <2> QED
    BY <2>1, <2>2, <2>3, SaysOrderInv
<1>3. ASSUME NEW n \in 0..Len(toTws), DisconnectTWS(n) \/ Restart(n)
      PROVE  OrderInv'
  <2>1. /\ UNCHANGED <<load, book>> /\ held' \in {held, Nothing}
        /\ toTws' = SubSeq(toTws, 1, n) /\ toClient' = <<>>
    BY <1>3 DEF DisconnectTWS, Restart, Lose
  <2>2. Range(toTws') \subseteq Range(toTws) /\ Range(toClient') \subseteq Range(toClient)
    BY <1>1, <2>1, RangeSeq
  <2> QED
    BY <2>1, <2>2, SaysOrderInv
<1>4. CASE ReqIds \/ ReqOpenOrders
  <2>1. PICK kind \in {"reqIds", "reqOpenOrders"} :
          /\ toTws' = Append(toTws, [kind |-> kind])
          /\ UNCHANGED <<load, toClient, book, held>>
    BY <1>4 DEF ReqIds, ReqOpenOrders, Ask, SendToTws
  <2>2. Range(toTws') = Range(toTws) \cup {[kind |-> kind]}
    BY <1>1, <2>1, RangeSeq
  <2>3. [kind |-> kind].kind # "placeOrder"
    OBVIOUS
    <2> QED
    BY <2>1, <2>2, <2>3, SaysOrderInv
<1>5. CASE PlaceNew
  BY <1>5, Server, PlaceOrderInv DEF PlaceNew
<1>6. CASE Modify
  BY <1>6, ModifyOrderInv
<1>7. CASE NextValidId
  <2>1. /\ UNCHANGED <<load, toTws, book, held>> /\ toClient # <<>> /\ toClient' = Tail(toClient)
    BY <1>7 DEF NextValidId
  <2> QED
    BY <1>1, <2>1, RangeSeq, SaysOrderInv
<1>8. CASE OpenOrderSignal
  BY <1>8, SignalOrderInv
<1>9. CASE SlotReturns \/ UNCHANGED vars
  <2>1. UNCHANGED <<load, toTws, toClient, book, held>>
    BY <1>9 DEF SlotReturns, vars
  <2> QED
    BY <2>1, SaysOrderInv
<1>10. CASE TwsReads
  BY <1>10, TwsReadsOrderInv
<1> QED
  BY <1>2, <1>3, <1>4, <1>5, <1>6, <1>7, <1>8, <1>9, <1>10 DEF Next

\* The invariant of what orders say, together with that of the ids.
LEMMA OrderInvAlways == Spec => [](IdInv /\ OrderInv)
  BY InitIdInv, NextIdInv, InitOrderInv, NextOrderInv, PTL DEF Spec

--------------------------------------------------------------------------------
\* The application is told of an order what it placed: every field that was
\* sent comes back with its value, for every order, every server from version
\* 38 on, and any messages lost or connections ended in between, as long as the
\* value is in the range of what is written.
THEOREM OrderComesBackHolds == Spec => []OrderComesBack
<1>1. IdInv /\ OrderInv => OrderComesBack
  <2> SUFFICES ASSUME IdInv, OrderInv, held # Nothing,
                      NEW name \in Range(PlaceFields(load.server, held.placed)) \ NeverReturned
               PROVE  /\ load.server >= MinVer.TRADING_CLASS => name \in DOMAIN held.texts
                      /\ name \in DOMAIN held.texts /\ Fits(name, held.placed[name]) =>
                           held.order[name] =
                             IF name \in UnsetComesBackAsZero /\ held.placed[name] = UNSET
                             THEN 0 ELSE held.placed[name]
    BY DEF OrderComesBack
  <2>1. /\ IsOrder(held.placed) /\ held.texts = Told(load.server, held.placed)
        /\ held.order = Decode(held.texts)
    BY DEF OrderInv, Heard
  <2>2. UnsetComesBackAsZero = Zeroed(load.server)
    BY DEF UnsetComesBackAsZero, Zeroed
  <2> QED
    BY <2>1, <2>2, Server, ComesBack
<1> QED
  BY <1>1, OrderInvAlways, PTL

\* An order that is placed as it was received is sent with the texts that TWS
\* told it with, whatever its values: no number drifts over any number of
\* modifications.  The exceptions are those that Same names.
THEOREM ModifyDoesNotDriftHolds == Spec => []ModifyDoesNotDrift
<1>1. IdInv /\ OrderInv => ModifyDoesNotDrift
  <2> SUFFICES ASSUME IdInv, OrderInv, NEW i \in DOMAIN toTws,
                      toTws[i].kind = "placeOrder", ~toTws[i].new
               PROVE  /\ toTws[i].id \in DOMAIN book
                      /\ \A name \in DOMAIN toTws[i].texts \cap DOMAIN toTws[i].answer :
                           Same(toTws[i], name)
    BY DEF ModifyDoesNotDrift, InFlight
  <2>1. toTws[i].id \in DOMAIN book
    BY DEF IdInv, Known
  <2>2. SaysTheSame(load.server, toTws[i])
    <3>1. toTws[i] \in Range(toTws)
      BY DEF Range
    <3> QED
      BY <3>1 DEF OrderInv, Placed
  <2>3. UnsetComesBackAsZero = Zeroed(load.server)
    BY DEF UnsetComesBackAsZero, Zeroed
  <2> QED
    BY <2>1, <2>2, <2>3 DEF SaysTheSame, Same, UnderComp
<1> QED
  BY <1>1, OrderInvAlways, PTL
================================================================================
