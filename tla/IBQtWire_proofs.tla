---------------------------- MODULE IBQtWire_proofs ----------------------------
(***************************************************************************)
(* Proofs about what IBQtSession puts on the wire of a connection, and      *)
(* what it takes a first message and an open lock for, for any client ids, *)
(* server versions and bounds.                                             *)
(***************************************************************************)
EXTENDS IBQtSession_proofs

\* After construction or disconnectTWS nothing is left that could be sent or
\* read on the connection that the next connectToTWS opens.
NothingLeft ==
  fresh =>
    /\ ~m_connected
    /\ m_serverVersion = 0
    /\ m_inBuffer = <<>> /\ m_outBuffer = <<>>
    /\ sock \notin {"Connecting", "Connected"}

\* A greeting has a version that the handshake identifies itself to.
Greets(msgs) == \A i \in DOMAIN msgs : msgs[i].kind = "hello" => msgs[i].ver >= 3

Versions ==
  /\ Greets(toClient) /\ Greets(m_inBuffer)
  /\ m_connected => m_serverVersion >= 3

Identified == \E i \in DOMAIN toTws : Identifies(toTws[i])
Announcing == stack # <<>> /\ Head(stack) = "twsConnected"

\* What WireOrder and NoStaleFrames say, and why the next frame keeps it: the
\* client id is the one of the call that opened the connection, or cleared,
\* and a session that is up has sent it or is in the slots of twsConnected.
WireInv ==
  clean =>
    /\ toTws # <<>>
    /\ \A i \in DOMAIN toTws :
         /\ toTws[i].kind = "version" <=> i = 1
         /\ toTws[i].kind = "request" =>
              \/ toTws[i].ctx = "twsConnected"
              \/ \E j \in 1..(i - 1) : Identifies(toTws[j])
         /\ Identifies(toTws[i]) => toTws[i].id = owner
         /\ toTws[i].conn = conn
    /\ m_clientId \in {owner, NoClient}
    /\ m_connected /\ sock # "Unconnected" => Identified \/ Announcing

--------------------------------------------------------------------------------
\* Every step keeps NothingLeft.
LEMMA NothingLeftStep ==
  ASSUME TypeOK, NothingLeft, [Next]_vars
  PROVE  NothingLeft'
<1> USE DEF NothingLeft
<1>1. ASSUME NEW c \in ClientIds, ConnectToTWS(c) PROVE NothingLeft'
  BY <1>1 DEF ConnectToTWS
<1>2. ASSUME Reset PROVE NothingLeft'
  BY <1>2 DEF Reset, ClearSession, ClearBuffers, DisconnectFromHost
<1>3. ASSUME ReadyRead PROVE NothingLeft'
  BY <1>3 DEF ReadyRead, OnReadyRead, history
<1>4. ASSUME Greeting PROVE NothingLeft'
  BY <1>4 DEF Greeting, Reading, history
<1>5. ASSUME Identify PROVE NothingLeft'
  BY <1>5 DEF Identify, SendId, CleanInBuffer, history
<1>6. ASSUME SlotsReturn PROVE NothingLeft'
  BY <1>6 DEF SlotsReturn, CleanInBuffer, network, history
<1>7. ASSUME Request \/ VerifyCompleted PROVE NothingLeft'
  BY <1>7 DEF Request, RequestAllowed, VerifyCompleted, history
<1>8. ASSUME Socket \/ OnSocketError PROVE NothingLeft'
  BY <1>8 DEF Socket, OnConnected, ConnectCloses, BytesGone, OnSocketError,
              SockStep, object, history
<1>9. ASSUME UNCHANGED <<fresh, m_connected, m_serverVersion, m_inBuffer,
                         m_outBuffer, sock>>
      PROVE  NothingLeft'
  BY <1>9
<1>10. \/ Application \/ ReadyRead \/ Greeting \/ Identify \/ SlotsReturn
       \/ VerifyCompleted \/ CloseOnUnknown \/ Socket \/ OnSocketError
       \/ UNCHANGED <<fresh, m_connected, m_serverVersion, m_inBuffer,
                      m_outBuffer, sock>>
  BY DEF Next, Dispatch, ConnectReturns, ManagedAccounts, Data, UnknownId,
         ReadyReadReturns, TwsReads, TwsPushes, vars, object, network, history
<1> QED
  BY <1>1, <1>2, <1>3, <1>4, <1>5, <1>6, <1>7, <1>8, <1>9, <1>10
  DEF Application, DisconnectTWS, CloseOnUnknown

\* Messages move from the connection to the buffer and leave it at its head.
LEMMA GreetsOf ==
  ASSUME NEW s \in Seq(Messages), Greets(s)
  PROVE  /\ \A t \in Seq(Messages) : Greets(t) => Greets(s \o t)
         /\ \A m \in Messages : (m.kind = "hello" => m.ver >= 3) => Greets(Append(s, m))
         /\ \A n \in 1..Len(s) : Greets(SubSeq(s, 1, n)) /\ Greets(SubSeq(s, n + 1, Len(s)))
         /\ s # <<>> => Greets(Tail(s)) /\ (Head(s).kind = "hello" => Head(s).ver >= 3)
         /\ Greets(<<>>)
  BY DEF Greets

\* Every step keeps Versions.
LEMMA VersionsStep ==
  ASSUME TypeOK, Versions, [Next]_vars
  PROVE  Versions'
<1>0. /\ toClient \in Seq(Messages) /\ m_inBuffer \in Seq(Messages)
      /\ Greets(toClient) /\ Greets(m_inBuffer) /\ Greets(<<>>)
  BY GreetsOf, EmptySeq DEF TypeOK, ObjectType, NetworkType, Versions
<1>1. ASSUME NEW c \in ClientIds, ConnectToTWS(c) PROVE Versions'
  <2>1. toClient' \in {<<>>, toClient} /\ UNCHANGED <<m_inBuffer, m_connected, m_serverVersion>>
    BY <1>1 DEF ConnectToTWS
  <2> QED
    BY <1>0, <2>1 DEF Versions
<1>2. ASSUME Reset PROVE Versions'
  BY <1>0, <1>2 DEF Reset, ClearSession, ClearBuffers, Versions
<1>3. ASSUME NEW n \in 1..Len(toClient), OnReadyRead(n) PROVE Versions'
  <2>1. /\ SubSeq(toClient, 1, n) \in Seq(Messages)
        /\ Greets(SubSeq(toClient, 1, n))
        /\ Greets(SubSeq(toClient, n + 1, Len(toClient)))
    BY <1>0, GreetsOf, SeqTypes
  <2>2. Greets(m_inBuffer \o SubSeq(toClient, 1, n))
    BY <1>0, <2>1, GreetsOf
  <2> QED
    BY <1>3, <2>1, <2>2 DEF OnReadyRead, Versions
<1>4. ASSUME Greeting PROVE Versions'
  <2>1. Head(m_inBuffer).ver >= 3
    BY <1>0, <1>4, GreetsOf DEF Greeting, Reading
  <2> QED
    BY <1>4, <2>1 DEF Greeting, Versions
<1>5. ASSUME Identify \/ SlotsReturn PROVE Versions'
  <2>1. m_inBuffer' \in {<<>>, Tail(m_inBuffer)} /\ (m_inBuffer = <<>> => m_inBuffer' = <<>>)
    BY <1>5 DEF Identify, SlotsReturn, CleanInBuffer
  <2>2. Greets(m_inBuffer')
    BY <1>0, <2>1, GreetsOf
  <2> QED
    BY <1>5, <2>2 DEF Identify, SlotsReturn, network, Versions
<1>6. ASSUME NEW m \in Messages, m.kind = "hello" => m.ver >= 3,
             toClient' = Append(toClient, m),
             UNCHANGED <<m_inBuffer, m_connected, m_serverVersion>>
      PROVE  Versions'
  BY <1>0, <1>6, GreetsOf DEF Versions
<1>7. ASSUME TwsReads PROVE Versions'
  <2>1. UNCHANGED <<m_inBuffer, m_connected, m_serverVersion>>
    BY <1>7 DEF TwsReads, object
  <2>2. CASE UNCHANGED toClient
    BY <2>1, <2>2 DEF Versions
  <2>3. CASE \E v \in ServerVersions : toClient' = Append(toClient, Msg("hello", v))
    <3>1. PICK v \in ServerVersions : toClient' = Append(toClient, Msg("hello", v))
      BY <2>3
    <3>2. v \in Nat /\ v >= 3
      BY SessionAssumption DEF IncomingIds
    <3>3. Msg("hello", v) \in Messages /\ Msg("hello", v).ver >= 3
      BY <3>2 DEF Msg, Messages, MessageKinds
    <3> QED
      BY <1>6, <2>1, <3>1, <3>3
  <2>4. CASE toClient' = toClient \o <<Msg("managedAccounts", 0), Msg("data", 0)>>
    <3>1. /\ <<Msg("managedAccounts", 0), Msg("data", 0)>> \in Seq(Messages)
          /\ Greets(<<Msg("managedAccounts", 0), Msg("data", 0)>>)
      BY DEF Msg, Messages, MessageKinds, Greets
    <3> QED
      BY <1>0, <2>1, <2>4, <3>1, GreetsOf DEF Versions
  <2> QED
    BY <1>7, <2>2, <2>3, <2>4 DEF TwsReads
<1>8. ASSUME NEW kind \in PushKinds, TwsPushes(kind) PROVE Versions'
  <2>1. Msg(kind, 0) \in Messages /\ Msg(kind, 0).kind # "hello"
    BY SessionAssumption DEF Msg, Messages
  <2> QED
    BY <1>6, <1>8, <2>1 DEF TwsPushes, object
<1>9. ASSUME UNCHANGED <<toClient, m_inBuffer, m_connected, m_serverVersion>>
      PROVE  Versions'
  BY <1>9 DEF Versions
<1>10. \/ \E c \in ClientIds : ConnectToTWS(c)
       \/ Reset \/ ReadyRead \/ Greeting \/ Identify \/ SlotsReturn
       \/ TwsReads \/ \E kind \in PushKinds : TwsPushes(kind)
       \/ UNCHANGED <<toClient, m_inBuffer, m_connected, m_serverVersion>>
  BY DEF Next, Application, DisconnectTWS, Dispatch, ConnectReturns, Request,
         ManagedAccounts, Data, UnknownId, VerifyCompleted, CloseOnUnknown,
         ReadyReadReturns, Socket, OnConnected, ConnectCloses, BytesGone,
         OnSocketError, SockStep, vars, object, network
<1> QED
  BY <1>1, <1>2, <1>3, <1>4, <1>5, <1>7, <1>8, <1>9, <1>10 DEF ReadyRead

--------------------------------------------------------------------------------
(* The frames of a connection.                                             *)

\* A call of send() outside connectToTWS puts its frame, and only that, at the
\* end of what is on the wire, or leaves the wire alone.
LEMMA OneFrame ==
  ASSUME TypeOK, RetainedOnlyWhileDown, UNCHANGED sock, NEW frame \in Frames,
         Send(toTws, <<frame>>)
  PROVE  IF sock = "Unconnected" THEN toTws' = toTws
                                 ELSE toTws' = Append(toTws, frame)
<1>1. toTws \in Seq(Frames)
  BY DEF TypeOK, NetworkType
<1>2. ASSUME sock # "Unconnected" PROVE toTws' = Append(toTws, frame)
  <2>1. m_outBuffer = <<>>
    BY <1>2 DEF RetainedOnlyWhileDown
  <2>2. toTws' = toTws \o (<<>> \o <<frame>>)
    BY <1>2, <2>1 DEF Send
  <2> QED
    BY <1>1, <2>2
<1> QED
  BY <1>2 DEF Send

\* Such a frame keeps the order if it is no version, if a request among them
\* comes after an identification or from twsConnected, and if an
\* identification has the id of the call that opened the connection.
LEMMA OrderedFrame ==
  ASSUME TypeOK, RetainedOnlyWhileDown, WireInv, clean, NEW kind \in FrameKinds,
         NEW id \in Int, Send(toTws, <<Frame(kind, id)>>),
         UNCHANGED <<sock, conn, owner, clean, m_clientId, m_connected>>,
         kind # "version",
         kind = "request" /\ sock # "Unconnected" => Identified \/ Announcing,
         kind \in IdentKinds => id = owner,
         \/ kind \in IdentKinds
         \/ m_connected /\ sock # "Unconnected" => Identified \/ Announcing'
  PROVE  WireInv'
<1> DEFINE frame == Frame(kind, id)
<1>1. /\ toTws \in Seq(Frames) /\ conn \in Nat
  BY DEF TypeOK, NetworkType
<1>2. /\ frame \in Frames /\ frame.kind = kind /\ frame.id = id
      /\ frame.ctx = Context /\ frame.conn = conn
      /\ Identifies(frame) <=> kind \in IdentKinds
  BY <1>1, FrameFacts DEF Frame, Identifies
<1>3. Announcing => frame.ctx = "twsConnected"
  BY <1>2 DEF Announcing, Context
<1>4. CASE sock = "Unconnected"
  <2>1. toTws' = toTws
    BY <1>2, <1>4, OneFrame
  <2> QED
    BY <1>4, <2>1 DEF WireInv, Identifies
<1>5. CASE sock # "Unconnected"
  <2>1. toTws' = Append(toTws, frame)
    BY <1>2, <1>5, OneFrame
  <2>2. /\ DOMAIN toTws = 1..Len(toTws) /\ DOMAIN toTws' = 1..(Len(toTws) + 1)
        /\ Len(toTws) \in Nat \ {0}
        /\ toTws'[Len(toTws) + 1] = frame
        /\ \A i \in DOMAIN toTws : toTws'[i] = toTws[i]
    BY <1>1, <1>2, <2>1 DEF WireInv
  <2>3. toTws' # <<>>
    BY <2>2
  <2>4. ASSUME NEW i \in DOMAIN toTws
        PROVE  /\ toTws'[i].kind = "version" <=> i = 1
               /\ toTws'[i].kind = "request" =>
                    \/ toTws'[i].ctx = "twsConnected"
                    \/ \E j \in 1..(i - 1) : Identifies(toTws'[j])
               /\ Identifies(toTws'[i]) => toTws'[i].id = owner
               /\ toTws'[i].conn = conn
    <3>1. \A j \in 1..(i - 1) : j \in DOMAIN toTws
      BY <2>2
    <3> QED
      BY <2>2, <3>1 DEF WireInv, Identifies
  <2>5. Identified => \E j \in 1..Len(toTws) : Identifies(toTws'[j])
    BY <2>2 DEF Identified, Identifies
  <2>6. LET i == Len(toTws) + 1
        IN  /\ toTws'[i].kind = "version" <=> i = 1
            /\ toTws'[i].kind = "request" =>
                 \/ toTws'[i].ctx = "twsConnected"
                 \/ \E j \in 1..(i - 1) : Identifies(toTws'[j])
            /\ Identifies(toTws'[i]) => toTws'[i].id = owner
            /\ toTws'[i].conn = conn
    <3>1. (Len(toTws) + 1) - 1 = Len(toTws) /\ Len(toTws) + 1 # 1
      BY <2>2
    <3> QED
      BY <1>2, <1>3, <1>5, <2>2, <2>5, <3>1
  <2>7. m_connected => Identified' \/ Announcing'
    <3>1. kind \in IdentKinds => Identified'
      BY <1>2, <2>2 DEF Identified
    <3>2. Identified => Identified'
      BY <2>2, <2>5 DEF Identified
    <3> QED
      BY <1>5, <3>1, <3>2
  <2> QED
    BY <2>2, <2>3, <2>4, <2>6, <2>7 DEF WireInv
<1> QED
  BY <1>4, <1>5

\* Steps that leave the frames and the client id alone keep the invariant, if
\* an announcing slot goes on and no socket or session comes up.
LEMMA WireKept ==
  ASSUME WireInv, UNCHANGED <<toTws, owner, clean, conn>>,
         m_clientId' \in {m_clientId, NoClient},
         m_connected' /\ sock' # "Unconnected" =>
           (m_connected /\ sock # "Unconnected" /\ UNCHANGED stack) \/ Announcing'
             \/ (m_connected /\ sock # "Unconnected" /\ ~Announcing)
  PROVE  WireInv'
  BY DEF WireInv, Identified, Announcing, Identifies

\* Every step keeps WireInv.
LEMMA WireInvStep ==
  ASSUME TypeOK, RetainedOnlyWhileDown, ResetHolds, NothingLeft, Versions,
         WireInv, [Next]_vars
  PROVE  WireInv'
<1>1. ASSUME NEW c \in ClientIds, ConnectToTWS(c) PROVE WireInv'
  <2>1. CASE fresh /\ sock = "Unconnected"
    <3>1. /\ Send(<<>>, <<Frame("version", NoClient)>>) /\ sock' = "Connecting"
          /\ conn' = conn + 1 /\ owner' = c /\ m_clientId' = c /\ ~m_connected'
      BY <1>1, <2>1 DEF ConnectToTWS, NothingLeft
    <3>2. m_outBuffer = <<>>
      BY <2>1 DEF NothingLeft
    <3>3. toTws' = <<Frame("version", NoClient)>>
      BY <3>1, <3>2 DEF Send
    <3>4. conn' \in Nat
      BY <3>1 DEF TypeOK, NetworkType
    <3>5. LET frame == Frame("version", NoClient)
          IN  /\ frame.kind = "version" /\ frame.conn = conn'
              /\ ~Identifies(frame)
      BY <3>4, FrameFacts DEF Frame, Identifies, IdentKinds
    <3> QED
      BY <3>1, <3>3, <3>5 DEF WireInv, Identifies
  <2>2. CASE ~(fresh /\ sock = "Unconnected")
    BY <1>1, <2>2 DEF ConnectToTWS, WireInv
  <2> QED
    BY <2>1, <2>2
<1>2. ASSUME Reset PROVE WireInv'
  BY <1>2, WireKept DEF Reset, ClearSession
<1>3. ASSUME Request PROVE WireInv'
  <2>1. /\ m_connected /\ Send(toTws, <<Frame("request", NoClient)>>)
        /\ UNCHANGED <<sock, conn, owner, clean, m_clientId, m_connected, stack>>
    BY <1>3 DEF Request, RequestAllowed, history
  <2>2. CASE clean
    <3>1. sock # "Unconnected" => Identified \/ Announcing
      BY <2>1, <2>2 DEF WireInv
    <3> QED
      BY <2>1, <2>2, <3>1, OrderedFrame
      DEF Announcing, FrameKinds, IdentKinds, NoClient
  <2>3. CASE ~clean
    BY <2>1, <2>3 DEF WireInv
  <2> QED
    BY <2>2, <2>3
<1>4. ASSUME NEW kind \in IdentKinds, Send(toTws, <<Frame(kind, m_clientId)>>),
             m_clientId # NoClient,
             UNCHANGED <<sock, conn, owner, clean, m_clientId, m_connected>>
      PROVE  WireInv'
  <2>1. CASE clean
    <3>1. m_clientId = owner /\ m_clientId \in Int
      BY <1>4, <2>1, ClientIdType DEF WireInv
    <3> QED
      BY <1>4, <2>1, <3>1, OrderedFrame DEF FrameKinds, IdentKinds
  <2>2. CASE ~clean
    BY <1>4, <2>2 DEF WireInv
  <2> QED
    BY <2>1, <2>2
<1>5. ASSUME VerifyCompleted PROVE WireInv'
  <2>1. m_clientId # NoClient
    BY <1>5 DEF VerifyCompleted, ResetHolds
  <2> QED
    BY <1>4, <1>5, <2>1 DEF VerifyCompleted, history, IdentKinds
<1>6. ASSUME Identify PROVE WireInv'
  <2>1. UNCHANGED <<sock, conn, owner, clean, m_clientId, m_connected>>
    BY <1>6 DEF Identify, history
  <2>2. CASE m_serverVersion < 3
    <3>1. ~m_connected /\ UNCHANGED toTws
      BY <1>6, <2>2 DEF Versions, Identify, SendId, TypeOK, ObjectType
    <3> QED
      BY <2>1, <3>1, WireKept
  <2>3. CASE ~(m_serverVersion < 3)
    <3>1. m_clientId # NoClient
      BY <2>3 DEF ResetHolds
    <3> QED
      BY <1>4, <1>6, <2>1, <2>3, <3>1 DEF Identify, SendId, IdentKinds
  <2> QED
    BY <2>2, <2>3
<1>7. ASSUME Greeting PROVE WireInv'
  <2>1. Announcing'
    BY <1>7 DEF Greeting, Become, Announcing
  <2> QED
    BY <1>7, <2>1, WireKept DEF Greeting, history
<1>8. ASSUME Socket \/ OnSocketError PROVE WireInv'
  BY <1>8, WireKept
  DEF Socket, OnConnected, ConnectCloses, BytesGone, OnSocketError, SockStep,
      object, history
<1>9. ASSUME UNCHANGED <<toTws, owner, clean, conn, m_clientId, m_connected, sock>>,
             UNCHANGED stack \/ ~Announcing
      PROVE  WireInv'
  BY <1>9, WireKept
<1>10. ASSUME ReadyRead \/ ConnectReturns \/ ManagedAccounts \/ Data \/ UnknownId
              \/ SlotsReturn \/ ReadyReadReturns
       PROVE  WireInv'
  <2>1. UNCHANGED <<toTws, owner, clean, conn, m_clientId, m_connected, sock>>
    BY <1>10 DEF ReadyRead, OnReadyRead, ConnectReturns, ManagedAccounts, Data,
                 UnknownId, SlotsReturn, ReadyReadReturns, object, network, history
  <2>2. ~Announcing
    BY <1>10 DEF ReadyRead, OnReadyRead, EventLoopRuns, ConnectReturns, WaitEnds,
                 ManagedAccounts, Data, UnknownId, SlotsReturn, ReadyReadReturns,
                 Reading, Running, Announcing
  <2> QED
    BY <1>9, <2>1, <2>2
<1>11. ASSUME TwsReads \/ (\E kind \in PushKinds : TwsPushes(kind)) \/ UNCHANGED vars
       PROVE  WireInv'
  BY <1>9, <1>11 DEF TwsReads, TwsPushes, vars, object, network, history
<1> QED
  BY <1>1, <1>2, <1>3, <1>5, <1>6, <1>7, <1>8, <1>10, <1>11
  DEF Next, Application, DisconnectTWS, Dispatch, CloseOnUnknown

\* The three hold together.
LEMMA WireInvariant == Spec => [](NothingLeft /\ Versions /\ WireInv)
<1>1. Init => NothingLeft /\ Versions /\ WireInv
  BY DEF Init, NothingLeft, Versions, Greets, WireInv
<1>2. TypeOK /\ RetainedOnlyWhileDown /\ (ResetHolds /\ NoInvalidId)
        /\ (NothingLeft /\ Versions /\ WireInv) /\ [Next]_vars
        => (NothingLeft /\ Versions /\ WireInv)'
  BY NothingLeftStep, VersionsStep, WireInvStep
<1> QED
  BY <1>1, <1>2, TypeCorrect, RetainedOnlyWhileDownHolds, NoInvalidIdHolds, PTL
  DEF Spec

\* What TWS reads from a connection that was opened on a clean object: the
\* version, requests from slots of twsConnected at most, the client id of the
\* call that opened it, and then what the application asks for.
THEOREM WireOrderHolds == Spec => []WireOrder
<1>1. WireInv => WireOrder
  BY DEF WireInv, WireOrder
<1> QED
  BY <1>1, WireInvariant, PTL

\* Such a connection carries no frame that was encoded for an earlier one.
THEOREM NoStaleFramesHolds == Spec => []NoStaleFrames
<1>1. WireInv => NoStaleFrames
  BY DEF WireInv, NoStaleFrames
<1> QED
  BY <1>1, WireInvariant, PTL

--------------------------------------------------------------------------------
(* What opens the lock.                                                    *)

\* TWS is up once it has read an identification, and on a connection opened on
\* a clean object only then are there managed accounts to read.
NoAccounts(msgs) == \A i \in DOMAIN msgs : msgs[i].kind # "managedAccounts"

UpInv ==
  /\ twsRead <= Len(toTws)
  /\ tws = "up" => \E i \in 1..twsRead : Identifies(toTws[i])
  /\ clean /\ tws # "up" => NoAccounts(toClient) /\ NoAccounts(m_inBuffer)

\* Messages without an account list stay so however they are moved.
LEMMA NoAccountsOf ==
  ASSUME NEW s \in Seq(Messages), NoAccounts(s)
  PROVE  /\ \A t \in Seq(Messages) : NoAccounts(t) => NoAccounts(s \o t)
         /\ \A m \in Messages : m.kind # "managedAccounts" => NoAccounts(Append(s, m))
         /\ \A n \in 1..Len(s) : /\ NoAccounts(SubSeq(s, 1, n))
                                 /\ NoAccounts(SubSeq(s, n + 1, Len(s)))
         /\ s # <<>> => NoAccounts(Tail(s))
         /\ NoAccounts(<<>>)
  BY DEF NoAccounts

\* What is on the wire stays there until the next connection.
LEMMA WireGrows ==
  ASSUME TypeOK, [Next]_vars
  PROVE  \/ conn' = conn + 1
         \/ /\ Len(toTws') >= Len(toTws)
            /\ \A i \in DOMAIN toTws : i \in DOMAIN toTws' /\ toTws'[i] = toTws[i]
<1>1. toTws \in Seq(Frames) /\ m_outBuffer \in Seq(Frames)
  BY DEF TypeOK, ObjectType, NetworkType
<1>2. ASSUME NEW kind \in FrameKinds, NEW id \in Int, conn' \in Nat,
             Send(toTws, <<Frame(kind, id)>>)
      PROVE  /\ Len(toTws') >= Len(toTws)
             /\ \A i \in DOMAIN toTws : i \in DOMAIN toTws' /\ toTws'[i] = toTws[i]
  <2>1. m_outBuffer \o <<Frame(kind, id)>> \in Seq(Frames)
    BY <1>1, <1>2, FrameType, SeqTypes
  <2> QED
    BY <1>1, <1>2, <2>1 DEF Send
<1>3. ASSUME NEW c \in ClientIds, ConnectToTWS(c), conn' # conn + 1
      PROVE  /\ conn' = conn /\ Send(toTws, <<Frame("version", NoClient)>>)
  BY <1>3 DEF ConnectToTWS
<1>4. CASE \E c \in ClientIds : ConnectToTWS(c)
  BY <1>2, <1>3, <1>4 DEF TypeOK, NetworkType, FrameKinds, NoClient
<1>5. CASE Request \/ VerifyCompleted \/ Identify
  <2>1. conn' \in Nat /\ m_clientId \in Int
    BY <1>5, ClientIdType DEF Request, VerifyCompleted, Identify, TypeOK, NetworkType
  <2>2. \/ \E kind \in FrameKinds, id \in {m_clientId, NoClient} :
             Send(toTws, <<Frame(kind, id)>>)
        \/ UNCHANGED toTws
    BY <1>5 DEF Request, VerifyCompleted, Identify, SendId, FrameKinds
  <2>3. CASE UNCHANGED toTws
    BY <1>1, <2>3
  <2>4. ASSUME NEW kind \in FrameKinds, NEW id \in {m_clientId, NoClient},
               Send(toTws, <<Frame(kind, id)>>)
        PROVE  /\ Len(toTws') >= Len(toTws)
               /\ \A i \in DOMAIN toTws : i \in DOMAIN toTws' /\ toTws'[i] = toTws[i]
    <3>1. id \in Int
      BY <2>1 DEF NoClient
    <3> QED
      BY <1>2, <2>1, <2>4, <3>1
  <2> QED
    BY <2>2, <2>3, <2>4
<1>6. CASE UNCHANGED toTws
  BY <1>1, <1>6
<1> QED
  BY <1>4, <1>5, <1>6
  DEF Next, Application, DisconnectTWS, Dispatch, ConnectReturns, ReadyRead,
      OnReadyRead, Greeting, ManagedAccounts, Data, UnknownId, CloseOnUnknown,
      SlotsReturn, ReadyReadReturns, Socket, OnConnected, ConnectCloses,
      BytesGone, OnSocketError, SockStep, Reset, TwsReads, TwsPushes, vars,
      object, network

\* Every step keeps UpInv.
LEMMA UpInvStep ==
  ASSUME TypeOK, NothingLeft, UpInv, [Next]_vars
  PROVE  UpInv'
<1>0. /\ toTws \in Seq(Frames) /\ twsRead \in Nat /\ conn \in Nat
      /\ toClient \in Seq(Messages) /\ m_inBuffer \in Seq(Messages)
      /\ NoAccounts(<<>>)
  BY DEF TypeOK, ObjectType, NetworkType, NoAccounts
<1>1. ASSUME NEW c \in ClientIds, ConnectToTWS(c), conn' = conn + 1 PROVE UpInv'
  <2>1. /\ twsRead' = 0 /\ tws' = "awaitVersion" /\ toClient' = <<>>
        /\ UNCHANGED m_inBuffer /\ (clean' => fresh)
    <3>1. conn' # conn
      BY <1>0, <1>1
    <3> QED
      BY <1>1, <3>1 DEF ConnectToTWS
  <2>2. toTws' \in Seq(Frames)
    BY NextTypeOK DEF TypeOK, NetworkType
  <2> QED
    BY <1>0, <2>1, <2>2 DEF UpInv, NothingLeft
<1>2. ASSUME conn' # conn + 1, UNCHANGED <<twsRead, tws>>,
             clean' /\ tws # "up" => NoAccounts(toClient') /\ NoAccounts(m_inBuffer')
      PROVE  UpInv'
  <2>1. /\ Len(toTws') >= Len(toTws)
        /\ \A i \in DOMAIN toTws : i \in DOMAIN toTws' /\ toTws'[i] = toTws[i]
    BY <1>2, WireGrows
  <2>2. Len(toTws') \in Nat
    BY NextTypeOK DEF TypeOK, NetworkType
  <2>3. tws = "up" => \E i \in 1..twsRead : Identifies(toTws'[i])
    BY <1>0, <2>1 DEF UpInv, Identifies
  <2> QED
    BY <1>0, <1>2, <2>1, <2>2, <2>3 DEF UpInv, Identifies
<1>3. ASSUME NEW c \in ClientIds, ConnectToTWS(c), conn' # conn + 1 PROVE UpInv'
  BY <1>2, <1>3 DEF ConnectToTWS
<1>4. ASSUME Reset PROVE UpInv'
  BY <1>0, <1>2, <1>4 DEF Reset, ClearBuffers, UpInv
<1>5. ASSUME NEW n \in 1..Len(toClient), OnReadyRead(n) PROVE UpInv'
  <2>1. ASSUME clean, tws # "up"
        PROVE  NoAccounts(toClient') /\ NoAccounts(m_inBuffer')
    <3>1. NoAccounts(toClient) /\ NoAccounts(m_inBuffer)
      BY <2>1 DEF UpInv
    <3>2. /\ SubSeq(toClient, 1, n) \in Seq(Messages)
          /\ NoAccounts(SubSeq(toClient, 1, n))
          /\ NoAccounts(SubSeq(toClient, n + 1, Len(toClient)))
      BY <1>0, <3>1, NoAccountsOf, SeqTypes
    <3>3. NoAccounts(m_inBuffer \o SubSeq(toClient, 1, n))
      BY <1>0, <3>1, <3>2, NoAccountsOf
    <3> QED
      BY <1>5, <3>2, <3>3 DEF OnReadyRead
  <2> QED
    BY <1>0, <1>2, <1>5, <2>1 DEF OnReadyRead, history
<1>6. ASSUME Identify \/ SlotsReturn PROVE UpInv'
  <2>1. m_inBuffer' \in {<<>>, Tail(m_inBuffer)} /\ (m_inBuffer = <<>> => m_inBuffer' = <<>>)
    BY <1>6 DEF Identify, SlotsReturn, CleanInBuffer
  <2>2. NoAccounts(m_inBuffer) => NoAccounts(m_inBuffer')
    BY <1>0, <2>1, NoAccountsOf
  <2> QED
    BY <1>0, <1>2, <1>6, <2>2 DEF Identify, SlotsReturn, network, history, UpInv
<1>7. ASSUME TwsReads PROVE UpInv'
  <2>1. /\ UNCHANGED <<toTws, clean, m_inBuffer>>
        /\ twsRead < Len(toTws) /\ twsRead' = twsRead + 1
    BY <1>7 DEF TwsReads, object, history
  <2>2. twsRead' <= Len(toTws') /\ \A i \in 1..twsRead : i \in 1..twsRead'
    BY <1>0, <2>1
  <2>3. CASE tws' = "up"
    <3>1. tws = "up" \/ Identifies(toTws[twsRead + 1])
      BY <1>7, <2>3 DEF TwsReads, Identifies, IdentKinds
    <3>2. twsRead + 1 \in 1..twsRead'
      BY <1>0, <2>1
    <3>3. \E i \in 1..twsRead' : Identifies(toTws[i])
      BY <2>2, <3>1, <3>2 DEF UpInv
    <3> QED
      BY <2>1, <2>2, <2>3, <3>3 DEF UpInv, Identifies
  <2>4. CASE tws' # "up"
    <3>1. /\ tws # "up"
          /\ \/ UNCHANGED toClient
             \/ \E v \in ServerVersions : toClient' = Append(toClient, Msg("hello", v))
      BY <1>7, <2>4 DEF TwsReads
    <3>2. \A v \in ServerVersions : /\ Msg("hello", v) \in Messages
                                    /\ Msg("hello", v).kind # "managedAccounts"
      BY SessionAssumption DEF Msg, Messages, MessageKinds
    <3>3. NoAccounts(toClient) => NoAccounts(toClient')
      BY <1>0, <3>1, <3>2, NoAccountsOf
    <3> QED
      BY <2>1, <2>2, <2>4, <3>1, <3>3 DEF UpInv
  <2> QED
    BY <2>3, <2>4
<1>8. ASSUME NEW kind \in PushKinds, TwsPushes(kind) PROVE UpInv'
  BY <1>0, <1>2, <1>8 DEF TwsPushes, object, history
<1>9. ASSUME UNCHANGED <<twsRead, tws, toClient, m_inBuffer, clean, conn>>
      PROVE  UpInv'
  BY <1>0, <1>2, <1>9 DEF UpInv
<1>10. \/ \E c \in ClientIds : ConnectToTWS(c)
       \/ Reset \/ ReadyRead \/ Identify \/ SlotsReturn
       \/ TwsReads \/ (\E kind \in PushKinds : TwsPushes(kind))
       \/ UNCHANGED <<twsRead, tws, toClient, m_inBuffer, clean, conn>>
  BY DEF Next, Application, DisconnectTWS, Dispatch, ConnectReturns, Request,
         Greeting, ManagedAccounts, Data, UnknownId, VerifyCompleted,
         CloseOnUnknown, ReadyReadReturns, Socket, OnConnected, ConnectCloses,
         BytesGone, OnSocketError, SockStep, vars, object, network, history
<1> QED
  BY <1>1, <1>3, <1>4, <1>5, <1>6, <1>7, <1>8, <1>9, <1>10 DEF ReadyRead

\* m_lock opens only when TWS has read the client id of the call that opened
\* the connection.
THEOREM LockOpensAfterIdentityHolds == Spec => LockOpensAfterIdentity
<1>1. Init => UpInv
  BY DEF Init, UpInv, NoAccounts
<1>2. TypeOK /\ (NothingLeft /\ Versions /\ WireInv) /\ UpInv /\ [Next]_vars => UpInv'
  BY UpInvStep
<1>3. TypeOK /\ (NothingLeft /\ Versions /\ WireInv) /\ UpInv /\ [Next]_vars =>
        [m_lock /\ ~m_lock' /\ clean =>
           \E i \in 1..twsRead : Identifies(toTws[i]) /\ toTws[i].id = owner]_vars
  <2> SUFFICES ASSUME TypeOK, WireInv, UpInv, [Next]_vars, m_lock, ~m_lock', clean
               PROVE  \E i \in 1..twsRead : Identifies(toTws[i]) /\ toTws[i].id = owner
    OBVIOUS
  <2>1. ManagedAccounts
    BY DEF Next, Application, DisconnectTWS, ConnectToTWS, Request, Dispatch,
           ConnectReturns, ReadyRead, OnReadyRead, Greeting, Identify, Data,
           UnknownId, VerifyCompleted, CloseOnUnknown, SlotsReturn,
           ReadyReadReturns, Socket, OnConnected, ConnectCloses, BytesGone,
           OnSocketError, SockStep, Reset, TwsReads, TwsPushes, vars, object
  <2>2. /\ m_inBuffer \in Seq(Messages) /\ m_inBuffer # <<>>
        /\ Head(m_inBuffer).kind = "managedAccounts"
    BY <2>1 DEF ManagedAccounts, Reading, TypeOK, ObjectType
  <2>3. ~NoAccounts(m_inBuffer)
    BY <2>2 DEF NoAccounts
  <2>4. PICK i \in 1..twsRead : Identifies(toTws[i])
    BY <2>3 DEF UpInv
  <2>5. i \in DOMAIN toTws
    BY DEF TypeOK, NetworkType, UpInv
  <2> QED
    BY <2>4, <2>5 DEF WireInv
<1> QED
  BY <1>1, <1>2, <1>3, TypeCorrect, WireInvariant, PTL
  DEF Spec, LockOpensAfterIdentity

--------------------------------------------------------------------------------
(* What is taken for a greeting.                                           *)

\* While the object is not connected, a slot has nothing behind its message in
\* the buffer, and the first message to come is the greeting.
Emitting == \E i \in DOMAIN stack : stack[i] \in Emits

GreetingInv ==
  ~m_connected =>
    /\ Emitting => m_inBuffer = <<>>
    /\ m_inBuffer # <<>> => Head(m_inBuffer).kind = "hello"
    /\ m_inBuffer = <<>> /\ sock \in {"Connecting", "Connected"} =>
         IF toClient = <<>> THEN tws \in {"awaitVersion", "confused"}
                            ELSE Head(toClient).kind = "hello"

\* A slot starts only when the object is connected, or is reset on the way.
LEMMA EmittingStep ==
  ASSUME TypeOK, [Next]_vars
  PROVE  \/ Emitting' => Emitting
         \/ m_connected /\ UNCHANGED m_inBuffer
         \/ m_connected'
<1> DEFINE C == "connectToTWS"
<1>0. stack \in Seq(StackFrames) /\ C \notin Emits /\ "loop" \notin Emits
      /\ C \in StackFrames /\ "loop" \in StackFrames
  BY DEF TypeOK, ObjectType, Emits, StackFrames
<1>1. ASSUME NEW frame \in {C, "loop"}, stack' = <<frame>> \o stack
      PROVE  Emitting' => Emitting
  <2>1. /\ DOMAIN stack = 1..Len(stack) /\ Len(stack) \in Nat
        /\ DOMAIN stack' = 1..(Len(stack) + 1)
        /\ stack'[1] = frame
        /\ \A i \in 2..(Len(stack) + 1) : stack'[i] = stack[i - 1]
    BY <1>0, <1>1, SeqElements
  <2>2. ASSUME NEW i \in DOMAIN stack', stack'[i] \in Emits
        PROVE  i - 1 \in DOMAIN stack /\ stack[i - 1] \in Emits
    <3>1. i # 1
      BY <1>0, <1>1, <2>1, <2>2
    <3> QED
      BY <2>1, <2>2, <3>1
  <2> QED
    BY <2>2 DEF Emitting
<1>2. ASSUME stack' = Tail(stack), stack # <<>> PROVE Emitting' => Emitting
  <2>1. /\ DOMAIN stack = 1..Len(stack) /\ Len(stack) \in Nat
        /\ DOMAIN Tail(stack) = 1..(Len(stack) - 1)
        /\ \A i \in 1..(Len(stack) - 1) : Tail(stack)[i] = stack[i + 1]
    BY <1>0, <1>2, SeqElements
  <2>2. ASSUME NEW i \in DOMAIN stack', stack'[i] \in Emits
        PROVE  i + 1 \in DOMAIN stack /\ stack[i + 1] \in Emits
    BY <1>2, <2>1, <2>2
  <2> QED
    BY <2>2 DEF Emitting
<1>3. ASSUME Running(Emits) PROVE Emitting
  BY <1>0, <1>3, SeqElements DEF Running, Emitting
<1>4. CASE Greeting \/ ManagedAccounts \/ Data \/ VerifyCompleted \/ UnknownId
  BY <1>4 DEF Greeting, ManagedAccounts, Data, VerifyCompleted, UnknownId, object
<1>5. CASE Identify \/ SlotsReturn \/ CloseOnUnknown
  BY <1>3, <1>5 DEF Identify, SlotsReturn, CloseOnUnknown, Running, Emits
<1>6. CASE ReadyRead \/ ReadyReadReturns \/ ConnectReturns
  BY <1>1, <1>2, <1>6
  DEF ReadyRead, OnReadyRead, ReadyReadReturns, ConnectReturns, WaitEnds, Running
<1>7. CASE Application
  <2>1. UNCHANGED stack \/ stack' = <<C>> \o stack
    BY <1>7 DEF Application, ConnectToTWS, DisconnectTWS, Request
  <2> QED
    BY <1>1, <2>1 DEF Emitting
<1>8. CASE UNCHANGED stack
  BY <1>8 DEF Emitting
<1> QED
  BY <1>4, <1>5, <1>6, <1>7, <1>8
  DEF Next, Dispatch, Socket, OnConnected, ConnectCloses, BytesGone,
      OnSocketError, SockStep, TwsReads, TwsPushes, vars

\* The first element of a concatenation.
LEMMA HeadOfConcat ==
  ASSUME NEW S, NEW s \in Seq(S), NEW t \in Seq(S), t # <<>>
  PROVE  s \o t # <<>> /\ Head(s \o t) = IF s = <<>> THEN Head(t) ELSE Head(s)
<1>1. /\ Len(t) \in Nat \ {0} /\ Len(s) \in Nat
      /\ Len(s \o t) = Len(s) + Len(t)
      /\ Head(s \o t) = (s \o t)[1]
  OBVIOUS
<1>2. CASE s = <<>>
  BY <1>1, <1>2
<1>3. CASE s # <<>>
  BY <1>1, <1>3
<1> QED
  BY <1>2, <1>3

\* Every step keeps GreetingInv.
LEMMA GreetingInvStep ==
  ASSUME TypeOK, GreetingInv, [Next]_vars
  PROVE  GreetingInv'
<1>0. /\ toClient \in Seq(Messages) /\ m_inBuffer \in Seq(Messages)
      /\ stack \in Seq(StackFrames)
  BY DEF TypeOK, ObjectType, NetworkType
<1>1. ASSUME m_connected' PROVE GreetingInv'
  BY <1>1 DEF GreetingInv
<1>2. ASSUME NEW c \in ClientIds, ConnectToTWS(c) PROVE GreetingInv'
  <2>1. Emitting' => Emitting \/ m_connected \/ m_connected'
    BY EmittingStep
  <2> QED
    BY <1>2, <2>1 DEF ConnectToTWS, GreetingInv
<1>3. ASSUME Reset PROVE GreetingInv'
  BY <1>3 DEF Reset, ClearBuffers, DisconnectFromHost, GreetingInv
<1>4. ASSUME NEW n \in 1..Len(toClient), OnReadyRead(n), ~m_connected
      PROVE  GreetingInv'
  <2>1. ~Emitting'
    <3>1. ~Emitting /\ "loop" \notin Emits
      BY <1>4 DEF OnReadyRead, InReadyRead, Emitting, Emits
    <3>2. stack' = <<"loop">> \o stack
      BY <1>4 DEF OnReadyRead
    <3>3. /\ DOMAIN stack = 1..Len(stack) /\ Len(stack) \in Nat
          /\ DOMAIN stack' = 1..(Len(stack) + 1)
          /\ stack'[1] = "loop"
          /\ \A i \in 2..(Len(stack) + 1) : stack'[i] = stack[i - 1]
      BY <1>0, <3>2, SeqElements DEF StackFrames
    <3>4. \A i \in DOMAIN stack' : i = 1 \/ i - 1 \in DOMAIN stack
      BY <3>3
    <3> QED
      BY <3>1, <3>3, <3>4 DEF Emitting
  <2>2. /\ toClient # <<>> /\ n \in Nat /\ n >= 1
        /\ SubSeq(toClient, 1, n) \in Seq(Messages)
        /\ SubSeq(toClient, 1, n) # <<>>
        /\ Head(SubSeq(toClient, 1, n)) = Head(toClient)
    BY <1>0
  <2>3. m_inBuffer' = m_inBuffer \o SubSeq(toClient, 1, n) /\ sock = "Connected"
    BY <1>4 DEF OnReadyRead
  <2>4. m_inBuffer' # <<>> /\ Head(m_inBuffer') = IF m_inBuffer = <<>>
                                                 THEN Head(toClient) ELSE Head(m_inBuffer)
    <3>1. \A s, t \in Seq(Messages) : t # <<>> =>
            s \o t # <<>> /\ Head(s \o t) = IF s = <<>> THEN Head(t) ELSE Head(s)
      BY HeadOfConcat
    <3> QED
      BY <1>0, <2>2, <2>3, <3>1
  <2>5. Head(m_inBuffer').kind = "hello"
    BY <1>4, <2>2, <2>3, <2>4 DEF GreetingInv
  <2> QED
    BY <2>1, <2>4, <2>5 DEF GreetingInv
<1>5. ASSUME Identify \/ SlotsReturn, ~m_connected PROVE GreetingInv'
  <2>1. Emitting
    BY <1>0, <1>5, SeqElements DEF Identify, SlotsReturn, Running, Emitting, Emits
  <2>2. m_inBuffer = <<>> /\ m_inBuffer' = <<>>
    BY <1>5, <2>1 DEF GreetingInv, Identify, SlotsReturn, CleanInBuffer
  <2> QED
    BY <1>5, <2>2 DEF Identify, SlotsReturn, network, GreetingInv
<1>6. ASSUME TwsReads, ~m_connected PROVE GreetingInv'
  <2>1. UNCHANGED <<m_connected, m_inBuffer, sock, stack>> /\ sock = "Connected"
    BY <1>6 DEF TwsReads, object
  <2>2. CASE m_inBuffer # <<>>
    BY <2>1, <2>2 DEF GreetingInv, Emitting
  <2>3. CASE m_inBuffer = <<>> /\ toClient # <<>>
    <3>1. toClient' # <<>> /\ Head(toClient') = Head(toClient)
      <4>1. \/ UNCHANGED toClient
            \/ \E v \in ServerVersions : toClient' = Append(toClient, Msg("hello", v))
            \/ toClient' = toClient \o <<Msg("managedAccounts", 0), Msg("data", 0)>>
        BY <1>6 DEF TwsReads
      <4> QED
        BY <1>0, <2>3, <4>1
    <3> QED
      BY <1>6, <2>1, <2>3, <3>1 DEF GreetingInv, Emitting
  <2>4. CASE m_inBuffer = <<>> /\ toClient = <<>>
    <3>1. tws \in {"awaitVersion", "confused"}
      BY <1>6, <2>1, <2>4 DEF GreetingInv
    <3>2. \/ \E v \in ServerVersions : toClient' = Append(toClient, Msg("hello", v))
          \/ UNCHANGED toClient /\ tws' = "confused"
      BY <1>6, <3>1 DEF TwsReads
    <3>3. \A m : Append(<<>>, m) # <<>> /\ Head(Append(<<>>, m)) = m
      OBVIOUS
    <3>4. \/ toClient' # <<>> /\ Head(toClient').kind = "hello"
          \/ toClient' = <<>> /\ tws' = "confused"
      BY <2>4, <3>2, <3>3 DEF Msg
    <3> QED
      BY <2>1, <2>4, <3>4 DEF GreetingInv, Emitting
  <2> QED
    BY <2>2, <2>3, <2>4
<1>7. ASSUME NEW kind \in PushKinds, TwsPushes(kind), ~m_connected
      PROVE  GreetingInv'
  <2>1. /\ UNCHANGED <<m_connected, m_inBuffer, sock, stack, tws>>
        /\ sock = "Connected" /\ tws = "up"
        /\ toClient' = Append(toClient, Msg(kind, 0))
    BY <1>7 DEF TwsPushes, object
  <2>2. toClient # <<>> => toClient' # <<>> /\ Head(toClient') = Head(toClient)
    BY <1>0, <2>1
  <2> QED
    BY <1>7, <2>1, <2>2 DEF GreetingInv, Emitting
<1>8. ASSUME UNCHANGED <<m_connected, m_inBuffer, toClient, tws>>, ~m_connected,
             sock' \in {"Connecting", "Connected"} => sock \in {"Connecting", "Connected"}
      PROVE  GreetingInv'
  <2>1. Emitting' => Emitting
    BY <1>8, EmittingStep
  <2> QED
    BY <1>8, <2>1 DEF GreetingInv
<1>9. ASSUME Socket \/ OnSocketError, ~m_connected PROVE GreetingInv'
  BY <1>8, <1>9
  DEF Socket, OnConnected, ConnectCloses, BytesGone, OnSocketError, SockStep, object
<1>10. CASE m_connected /\ ~m_connected'
  <2>1. Reset
    BY <1>10 DEF Next, Application, ConnectToTWS, DisconnectTWS, Request,
                Dispatch, ConnectReturns, ReadyRead, OnReadyRead, Greeting,
                Identify, ManagedAccounts, Data, UnknownId, VerifyCompleted,
                CloseOnUnknown, SlotsReturn, ReadyReadReturns, Socket,
                OnConnected, ConnectCloses, BytesGone, OnSocketError, SockStep,
                TwsReads, TwsPushes, vars, object
  <2> QED
    BY <1>3, <2>1
<1>11. CASE ~m_connected /\ ~m_connected'
  <2>1. \/ \E c \in ClientIds : ConnectToTWS(c)
        \/ Reset \/ ReadyRead \/ Identify \/ SlotsReturn
        \/ TwsReads \/ (\E kind \in PushKinds : TwsPushes(kind))
        \/ Socket \/ OnSocketError
        \/ UNCHANGED <<m_connected, m_inBuffer, toClient, tws, sock>>
    BY <1>11 DEF Next, Application, DisconnectTWS, Dispatch, ConnectReturns,
                Request, Greeting, ManagedAccounts, Data, UnknownId,
                VerifyCompleted, CloseOnUnknown, ReadyReadReturns, vars, object,
                network
  <2> QED
    BY <1>2, <1>3, <1>4, <1>5, <1>6, <1>7, <1>8, <1>9, <1>11, <2>1 DEF ReadyRead
<1> QED
  BY <1>1, <1>10, <1>11

\* Whatever an earlier connection left, what onReadyRead takes for a greeting
\* is one.
THEOREM GreetingFirstHolds == Spec => []GreetingFirst
<1>1. Init => GreetingInv
  BY DEF Init, GreetingInv, Emitting
<1>2. TypeOK /\ GreetingInv /\ [Next]_vars => GreetingInv'
  BY GreetingInvStep
<1>3. GreetingInv => GreetingFirst
  BY DEF GreetingInv, GreetingFirst
<1> QED
  BY <1>1, <1>2, <1>3, TypeCorrect, PTL DEF Spec
================================================================================
