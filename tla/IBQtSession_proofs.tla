-------------------------- MODULE IBQtSession_proofs --------------------------
(***************************************************************************)
(* Proofs about IBQtSession, for any client ids, server versions and       *)
(* bounds.                                                                 *)
(***************************************************************************)
EXTENDS IBQtSession, SequenceTheorems, TLAPS

--------------------------------------------------------------------------------
(* What the shared operators do to the types.                              *)

\* What the operators on sequences that the model uses return.
LEMMA SeqTypes ==
  ASSUME NEW S, NEW s \in Seq(S)
  PROVE  /\ \A e \in S : <<e>> \in Seq(S) /\ <<e>> \o s \in Seq(S)
         /\ \A e \in S : Append(s, e) \in Seq(S)
         /\ \A t \in Seq(S) : s \o t \in Seq(S)
         /\ \A n \in 1..Len(s) : /\ SubSeq(s, 1, n) \in Seq(S)
                                 /\ SubSeq(s, n + 1, Len(s)) \in Seq(S)
         /\ s # <<>> => Head(s) \in S /\ Tail(s) \in Seq(S)
  OBVIOUS

\* The frames that the calls of send() encode are frames.
LEMMA FrameType ==
  ASSUME TypeOK, conn' \in Nat, NEW kind \in FrameKinds, NEW id \in Int
  PROVE  <<Frame(kind, id)>> \in Seq(Frames)
<1>1. Context \in Contexts
  BY SeqTypes DEF TypeOK, ObjectType, Context, Contexts
<1>2. Frame(kind, id) \in Frames
  BY <1>1 DEF Frame, Frames
<1> QED
  BY <1>2

\* send() keeps the output buffer and the wire sequences of frames.
LEMMA SendType ==
  ASSUME TypeOK, NEW wire \in Seq(Frames), NEW frames \in Seq(Frames),
         Send(wire, frames)
  PROVE  m_outBuffer' \in Seq(Frames) /\ toTws' \in Seq(Frames)
<1>1. m_outBuffer \in Seq(Frames)
  BY DEF TypeOK, ObjectType
<1>2. m_outBuffer \o frames \in Seq(Frames)
  BY <1>1, SeqTypes
<1>3. wire \o (m_outBuffer \o frames) \in Seq(Frames)
  BY <1>2, SeqTypes
<1>4. <<>> \in Seq(Frames)
  BY EmptySeq
<1> QED
  BY <1>2, <1>3, <1>4 DEF Send

\* Client ids are integers.
LEMMA ClientIdType ==
  ASSUME TypeOK
  PROVE  m_clientId \in Int
  BY SessionAssumption DEF TypeOK, ObjectType, NoClient

\* disconnectTWS keeps the types.
LEMMA ResetType ==
  ASSUME TypeOK, Reset, stack' \in Seq(StackFrames), calls' \in Nat,
         pushes' \in Nat
  PROVE  TypeOK'
<1>1. ObjectType'
  <2>1. m_outBuffer' \in Seq(Frames) /\ m_inBuffer' \in Seq(Messages)
    BY EmptySeq DEF Reset, ClearBuffers
  <2>2. m_connected' \in BOOLEAN /\ m_lock' \in BOOLEAN
    BY DEF TypeOK, ObjectType, Reset, ClearSession
  <2>3. /\ m_serverVersion' \in Nat
        /\ m_clientId' \in ClientIds \cup {0, NoClient}
    BY DEF Reset, ClearSession
  <2> QED
    BY <2>1, <2>2, <2>3 DEF ObjectType
<1>2. NetworkType'
  <2>1. sock' \in SockStates
    BY DEF TypeOK, NetworkType, Reset, DisconnectFromHost, SockStates
  <2> QED
    BY <2>1 DEF TypeOK, NetworkType, Reset
<1>3. HistoryType'
  BY DEF TypeOK, HistoryType, Reset
<1> QED
  BY <1>1, <1>2, <1>3 DEF TypeOK

\* A handler that replaces or pops the innermost call leaves a call stack.
LEMMA StackType ==
  ASSUME TypeOK, stack # <<>>, NEW frame \in StackFrames,
         Become(frame) \/ stack' = Tail(stack)
  PROVE  stack' \in Seq(StackFrames)
<1>1. Tail(stack) \in Seq(StackFrames)
  BY SeqTypes DEF TypeOK, ObjectType
<1>2. <<frame>> \o Tail(stack) \in Seq(StackFrames)
  BY <1>1, SeqTypes
<1> QED
  BY <1>1, <1>2 DEF Become

\* So does a call.
LEMMA PushType ==
  ASSUME TypeOK, NEW frame \in StackFrames
  PROVE  <<frame>> \o stack \in Seq(StackFrames)
  BY SeqTypes DEF TypeOK, ObjectType

\* cleanInBuffer() leaves messages in the buffer.
LEMMA CleanType ==
  ASSUME TypeOK, CleanInBuffer
  PROVE  m_inBuffer' \in Seq(Messages)
  BY SeqTypes, EmptySeq DEF TypeOK, ObjectType, CleanInBuffer

--------------------------------------------------------------------------------
\* The object as it is constructed.
LEMMA InitTypeOK == Init => TypeOK
<1> SUFFICES ASSUME Init PROVE TypeOK
  OBVIOUS
<1>1. ObjectType
  BY EmptySeq DEF Init, ObjectType
<1>2. NetworkType
  BY EmptySeq DEF Init, NetworkType, SockStates, TwsStates
<1>3. HistoryType
  BY DEF Init, HistoryType
<1> QED
  BY <1>1, <1>2, <1>3 DEF TypeOK

\* One step per action; the calls are by the lemmas above.
LEMMA NextTypeOK == TypeOK /\ [Next]_vars => TypeOK'
<1> SUFFICES ASSUME TypeOK, [Next]_vars PROVE TypeOK'
  OBVIOUS
<1> USE DEF TypeOK
<1>1. ASSUME NEW c \in ClientIds, ConnectToTWS(c) PROVE TypeOK'
  <2>1. conn' \in Nat /\ sock' \in SockStates /\ owner' \in ClientIds \cup {NoClient}
    BY <1>1 DEF ConnectToTWS, NetworkType, HistoryType, SockStates
  <2>2. <<Frame("version", NoClient)>> \in Seq(Frames)
    BY <2>1, FrameType DEF FrameKinds, NoClient
  <2>3. m_outBuffer' \in Seq(Frames) /\ toTws' \in Seq(Frames)
    <3>1. <<>> \in Seq(Frames) /\ toTws \in Seq(Frames)
      BY EmptySeq DEF NetworkType
    <3>2. \/ Send(<<>>, <<Frame("version", NoClient)>>)
          \/ Send(toTws, <<Frame("version", NoClient)>>)
      BY <1>1 DEF ConnectToTWS
    <3> QED
      BY <2>2, <3>1, <3>2, SendType
  <2>4. stack' \in Seq(StackFrames) /\ returnedUp' \in BOOLEAN
    <3>1. stack' \in {stack, <<"connectToTWS">> \o stack}
      BY <1>1 DEF ConnectToTWS
    <3>2. returnedUp' \in BOOLEAN
      BY <1>1 DEF ConnectToTWS, ObjectType, HistoryType
    <3> QED
      BY <3>1, <3>2, PushType DEF ObjectType, StackFrames
  <2>5. toClient' \in Seq(Messages) /\ tws' \in TwsStates /\ twsRead' \in Nat
    <3>1. \/ toClient' = <<>> /\ tws' = "awaitVersion" /\ twsRead' = 0
          \/ toClient' = toClient /\ tws' = tws /\ twsRead' = twsRead
      BY <1>1 DEF ConnectToTWS
    <3>2. <<>> \in Seq(Messages)
      BY EmptySeq
    <3>3. toClient' \in Seq(Messages)
      BY <3>1, <3>2 DEF NetworkType
    <3> QED
      BY <3>1, <3>3 DEF NetworkType, TwsStates
  <2>6. ObjectType'
    BY <1>1, <2>3, <2>4 DEF ConnectToTWS, ObjectType
  <2>7. NetworkType'
    BY <2>1, <2>3, <2>5 DEF NetworkType
  <2>8. HistoryType'
    <3>1. clean' \in BOOLEAN /\ fresh' \in BOOLEAN
      BY <1>1 DEF ConnectToTWS, HistoryType
    <3>2. calls' \in Nat /\ pushes' \in Nat
      BY <1>1 DEF ConnectToTWS, HistoryType
    <3> QED
      BY <2>1, <2>4, <3>1, <3>2 DEF HistoryType
  <2> QED
    BY <2>6, <2>7, <2>8
<1>2. ASSUME ConnectReturns PROVE TypeOK'
  <2>1. stack' \in Seq(StackFrames)
    BY <1>2, StackType
    DEF ConnectReturns, WaitEnds, Running, StackFrames, Emits
  <2>2. ObjectType'
    BY <1>2, <2>1 DEF ConnectReturns, object, ObjectType
  <2>3. NetworkType'
    BY <1>2, <2>1 DEF ConnectReturns, network, NetworkType
  <2>4. HistoryType'
    BY <1>2 DEF ConnectReturns, ObjectType, HistoryType
  <2> QED
    BY <2>2, <2>3, <2>4
<1>3. ASSUME DisconnectTWS PROVE TypeOK'
  BY <1>3, ResetType DEF DisconnectTWS, ObjectType, HistoryType
<1>4. ASSUME Request PROVE TypeOK'
  <2>1. <<Frame("request", NoClient)>> \in Seq(Frames)
    BY <1>4, FrameType DEF Request, FrameKinds, NoClient, NetworkType
  <2>2. m_outBuffer' \in Seq(Frames) /\ toTws' \in Seq(Frames)
    BY <1>4, <2>1, SendType DEF Request, NetworkType
  <2>3. ObjectType'
    BY <1>4, <2>1, <2>2 DEF Request, ObjectType
  <2>4. NetworkType'
    BY <1>4, <2>1, <2>2 DEF Request, NetworkType
  <2>5. HistoryType'
    BY <1>4 DEF Request, history, HistoryType
  <2> QED
    BY <2>3, <2>4, <2>5
<1>5. ASSUME NEW n \in 1..Len(toClient), OnReadyRead(n) PROVE TypeOK'
  <2>1. /\ m_inBuffer' \in Seq(Messages)
        /\ toClient' \in Seq(Messages)
    BY <1>5, SeqTypes DEF OnReadyRead, ObjectType, NetworkType
  <2>2. stack' \in Seq(StackFrames)
    BY <1>5, PushType DEF OnReadyRead, StackFrames
  <2>3. ObjectType'
    BY <1>5, <2>1, <2>2 DEF OnReadyRead, ObjectType
  <2>4. NetworkType'
    BY <1>5, <2>1, <2>2 DEF OnReadyRead, NetworkType
  <2>5. HistoryType'
    BY <1>5 DEF OnReadyRead, history, HistoryType
  <2> QED
    BY <2>3, <2>4, <2>5
<1>6. ASSUME Greeting PROVE TypeOK'
  <2>1. m_serverVersion' \in Nat
    <3>1. Head(m_inBuffer) \in Messages
      BY <1>6, SeqTypes DEF Greeting, Reading, ObjectType
    <3> QED
      BY <1>6, <3>1 DEF Greeting, Messages
  <2>2. stack' \in Seq(StackFrames)
    BY <1>6, StackType
    DEF Greeting, Reading, Running, StackFrames, Emits
  <2>3. sock' \in SockStates
    BY <1>6 DEF Greeting, DisconnectFromHost, NetworkType, SockStates
  <2>4. ObjectType'
    BY <1>6, <2>1, <2>2, <2>3 DEF Greeting, ObjectType
  <2>5. NetworkType'
    BY <1>6, <2>1, <2>2, <2>3 DEF Greeting, NetworkType
  <2>6. HistoryType'
    BY <1>6 DEF Greeting, history, HistoryType
  <2> QED
    BY <2>4, <2>5, <2>6
<1>7. ASSUME Identify PROVE TypeOK'
  <2>1. \A kind \in FrameKinds : <<Frame(kind, m_clientId)>> \in Seq(Frames)
    BY <1>7, FrameType, ClientIdType DEF Identify, NetworkType
  <2>2. m_outBuffer' \in Seq(Frames) /\ toTws' \in Seq(Frames)
    BY <1>7, <2>1, SendType
    DEF Identify, SendId, ObjectType, NetworkType, FrameKinds
  <2>3. m_inBuffer' \in Seq(Messages)
    BY <1>7, CleanType DEF Identify
  <2>4. stack' \in Seq(StackFrames)
    BY <1>7, StackType
    DEF Identify, Running, StackFrames, Emits
  <2>5. ObjectType'
    BY <1>7, <2>1, <2>2, <2>3, <2>4 DEF Identify, ObjectType
  <2>6. NetworkType'
    BY <1>7, <2>1, <2>2, <2>3, <2>4 DEF Identify, NetworkType
  <2>7. HistoryType'
    BY <1>7 DEF Identify, history, HistoryType
  <2> QED
    BY <2>5, <2>6, <2>7
<1>8. ASSUME ManagedAccounts PROVE TypeOK'
  <2>1. stack' \in Seq(StackFrames)
    BY <1>8, StackType
    DEF ManagedAccounts, Reading, Running, StackFrames, Emits
  <2>2. ObjectType'
    BY <1>8, <2>1 DEF ManagedAccounts, OnManagedAccounts, ObjectType
  <2>3. NetworkType'
    BY <1>8, <2>1 DEF ManagedAccounts, network, NetworkType
  <2>4. HistoryType'
    BY <1>8 DEF ManagedAccounts, history, HistoryType
  <2> QED
    BY <2>2, <2>3, <2>4
<1>9. ASSUME Data \/ UnknownId PROVE TypeOK'
  <2>1. stack' \in Seq(StackFrames)
    BY <1>9, StackType
    DEF Data, UnknownId, Reading, Running, StackFrames, Emits
  <2>2. ObjectType'
    BY <1>9, <2>1 DEF Data, UnknownId, object, ObjectType
  <2>3. NetworkType'
    BY <1>9, <2>1 DEF Data, UnknownId, network, NetworkType
  <2>4. HistoryType'
    BY <1>9 DEF Data, UnknownId, history, HistoryType
  <2> QED
    BY <2>2, <2>3, <2>4
<1>10. ASSUME VerifyCompleted PROVE TypeOK'
  <2>1. <<Frame("startApi", m_clientId)>> \in Seq(Frames)
    BY <1>10, FrameType, ClientIdType DEF VerifyCompleted, NetworkType, FrameKinds
  <2>2. m_outBuffer' \in Seq(Frames) /\ toTws' \in Seq(Frames)
    BY <1>10, <2>1, SendType DEF VerifyCompleted, NetworkType
  <2>3. stack' \in Seq(StackFrames)
    BY <1>10, StackType
    DEF VerifyCompleted, Reading, Running, StackFrames, Emits
  <2>4. ObjectType'
    BY <1>10, <2>1, <2>2, <2>3 DEF VerifyCompleted, ObjectType
  <2>5. NetworkType'
    BY <1>10, <2>1, <2>2, <2>3 DEF VerifyCompleted, NetworkType
  <2>6. HistoryType'
    BY <1>10 DEF VerifyCompleted, history, HistoryType
  <2> QED
    BY <2>4, <2>5, <2>6
<1>11. ASSUME CloseOnUnknown PROVE TypeOK'
  <2>1. stack' \in Seq(StackFrames)
    BY <1>11, StackType DEF CloseOnUnknown, Running, StackFrames, Emits
  <2> QED
    BY <1>11, <2>1, ResetType DEF CloseOnUnknown, HistoryType
<1>12. ASSUME SlotsReturn PROVE TypeOK'
  <2>1. m_inBuffer' \in Seq(Messages)
    BY <1>12, CleanType DEF SlotsReturn
  <2>2. stack' \in Seq(StackFrames)
    BY <1>12, StackType
    DEF SlotsReturn, Running, StackFrames, Emits
  <2>3. ObjectType'
    BY <1>12, <2>1, <2>2 DEF SlotsReturn, ObjectType
  <2>4. NetworkType'
    BY <1>12, <2>1, <2>2 DEF SlotsReturn, network, NetworkType
  <2>5. HistoryType'
    BY <1>12 DEF SlotsReturn, history, HistoryType
  <2> QED
    BY <2>3, <2>4, <2>5
<1>13. ASSUME ReadyReadReturns PROVE TypeOK'
  <2>1. stack' \in Seq(StackFrames)
    BY <1>13, StackType
    DEF ReadyReadReturns, Running, StackFrames, Emits
  <2>2. ObjectType'
    BY <1>13, <2>1 DEF ReadyReadReturns, object, ObjectType
  <2>3. NetworkType'
    BY <1>13, <2>1 DEF ReadyReadReturns, network, NetworkType
  <2>4. HistoryType'
    BY <1>13 DEF ReadyReadReturns, history, HistoryType
  <2> QED
    BY <2>2, <2>3, <2>4
<1>14. ASSUME NEW from, NEW to \in SockStates, SockStep(from, to) PROVE TypeOK'
  <2>1. ObjectType'
    BY <1>14 DEF SockStep, ObjectType, object
  <2>2. NetworkType'
    BY <1>14 DEF SockStep, NetworkType
  <2>3. HistoryType'
    BY <1>14 DEF SockStep, HistoryType, history
  <2> QED
    BY <2>1, <2>2, <2>3
<1>15. ASSUME Socket \/ OnSocketError PROVE TypeOK'
  BY <1>14, <1>15
  DEF Socket, OnConnected, ConnectCloses, BytesGone, OnSocketError, SockStates
<1>16. ASSUME TwsReads PROVE TypeOK'
  <2>1. \A k \in MessageKinds, v \in ServerVersions \cup {0} :
          Msg(k, v) \in Messages
    BY SessionAssumption DEF Msg, Messages
  <2>2. toClient' \in Seq(Messages)
    <3>1. \A m1, m2 \in Messages : toClient \o <<m1, m2>> \in Seq(Messages)
      BY DEF NetworkType
    <3>2. \A m \in Messages : Append(toClient, m) \in Seq(Messages)
      BY SeqTypes DEF NetworkType
    <3>3. \/ \E v \in ServerVersions :
               toClient' = Append(toClient, Msg("hello", v))
          \/ toClient' = toClient \o <<Msg("managedAccounts", 0), Msg("data", 0)>>
          \/ toClient' = toClient
      BY <1>16 DEF TwsReads
    <3> QED
      BY <2>1, <3>1, <3>2, <3>3 DEF NetworkType, MessageKinds
  <2>3. tws' \in TwsStates /\ twsRead' \in Nat
    BY <1>16 DEF TwsReads, NetworkType, TwsStates
  <2>4. ObjectType'
    BY <1>16 DEF TwsReads, ObjectType, object
  <2>5. NetworkType'
    BY <1>16, <2>2, <2>3 DEF TwsReads, NetworkType
  <2>6. HistoryType'
    BY <1>16 DEF TwsReads, HistoryType, history
  <2> QED
    BY <2>4, <2>5, <2>6
<1>17. ASSUME NEW kind \in PushKinds, TwsPushes(kind) PROVE TypeOK'
  <2>1. Msg(kind, 0) \in Messages
    BY SessionAssumption DEF Msg, Messages
  <2>2. toClient' \in Seq(Messages)
    BY <1>17, <2>1, SeqTypes DEF TwsPushes, NetworkType
  <2>3. ObjectType'
    BY <1>17, <2>1, <2>2 DEF TwsPushes, object, ObjectType
  <2>4. NetworkType'
    BY <1>17, <2>1, <2>2 DEF TwsPushes, NetworkType
  <2>5. HistoryType'
    BY <1>17 DEF TwsPushes, history, HistoryType
  <2> QED
    BY <2>3, <2>4, <2>5
<1>18. CASE UNCHANGED vars
  <2>1. ObjectType'
    BY <1>18 DEF vars, ObjectType, object
  <2>2. NetworkType'
    BY <1>18 DEF vars, NetworkType, network
  <2>3. HistoryType'
    BY <1>18 DEF vars, HistoryType, history
  <2> QED
    BY <2>1, <2>2, <2>3
<1> QED
  BY <1>1, <1>2, <1>3, <1>4, <1>5, <1>6, <1>7, <1>8, <1>9, <1>10, <1>11,
     <1>12, <1>13, <1>15, <1>16, <1>17, <1>18
  DEF Next, Application, ReadyRead, Dispatch

\* Every variable of the session keeps its type, whatever the application, TWS
\* and the network do.
THEOREM TypeCorrect == Spec => []TypeOK
<1>1. Init => TypeOK
  BY InitTypeOK
<1>2. TypeOK /\ [Next]_vars => TypeOK'
  BY NextTypeOK
<1> QED
  BY <1>1, <1>2, PTL DEF Spec

--------------------------------------------------------------------------------
(* The output buffer.                                                      *)

\* Only a send() on an unconnected socket leaves bytes in m_outBuffer; every
\* other step that disturbs the buffer empties it, and the socket leaves the
\* unconnected state only in connectToTWS, which sends.
THEOREM RetainedOnlyWhileDownHolds == Spec => []RetainedOnlyWhileDown
<1>1. Init => RetainedOnlyWhileDown
  BY DEF Init, RetainedOnlyWhileDown
<1>2. RetainedOnlyWhileDown /\ [Next]_vars => RetainedOnlyWhileDown'
  <2> SUFFICES ASSUME RetainedOnlyWhileDown, [Next]_vars
               PROVE  RetainedOnlyWhileDown'
    OBVIOUS
  <2>1. ASSUME NEW wire, NEW frames, Send(wire, frames)
        PROVE  RetainedOnlyWhileDown'
    BY <2>1 DEF Send, RetainedOnlyWhileDown
  <2>2. ASSUME NEW c \in ClientIds, ConnectToTWS(c)
        PROVE  RetainedOnlyWhileDown'
    BY <2>1, <2>2 DEF ConnectToTWS
  <2>3. ASSUME Request PROVE RetainedOnlyWhileDown'
    BY <2>1, <2>3 DEF Request
  <2>4. ASSUME VerifyCompleted PROVE RetainedOnlyWhileDown'
    BY <2>1, <2>4 DEF VerifyCompleted
  <2>5. ASSUME Identify PROVE RetainedOnlyWhileDown'
    BY <2>1, <2>5 DEF Identify, SendId, RetainedOnlyWhileDown
  <2>6. ASSUME Reset PROVE RetainedOnlyWhileDown'
    BY <2>6 DEF Reset, ClearBuffers, RetainedOnlyWhileDown
  <2>7. ASSUME Greeting PROVE RetainedOnlyWhileDown'
    BY <2>7 DEF Greeting, DisconnectFromHost, RetainedOnlyWhileDown
  <2>8. ASSUME NEW from, NEW to, SockStep(from, to), "Unconnected" \notin from
        PROVE  RetainedOnlyWhileDown'
    BY <2>8 DEF SockStep, object, RetainedOnlyWhileDown
  <2>9. ASSUME Socket \/ OnSocketError PROVE RetainedOnlyWhileDown'
    BY <2>8, <2>9
    DEF Socket, OnConnected, ConnectCloses, BytesGone, OnSocketError
  <2>10. ASSUME UNCHANGED <<m_outBuffer, sock>> PROVE RetainedOnlyWhileDown'
    BY <2>10 DEF RetainedOnlyWhileDown
  <2>11. \/ Application \/ Greeting \/ Identify \/ VerifyCompleted
         \/ CloseOnUnknown \/ Socket \/ OnSocketError
         \/ UNCHANGED <<m_outBuffer, sock>>
    BY DEF Next, Dispatch, ReadyRead, ConnectReturns, OnReadyRead,
           ManagedAccounts, Data, UnknownId, SlotsReturn, ReadyReadReturns,
           TwsReads, TwsPushes, vars, object, network
  <2> QED
    BY <2>2, <2>3, <2>4, <2>5, <2>6, <2>7, <2>9, <2>10, <2>11
    DEF Application, DisconnectTWS, CloseOnUnknown
<1> QED
  BY <1>1, <1>2, PTL DEF Spec

--------------------------------------------------------------------------------
(* A connectToTWS inside onReadyRead.                                      *)

\* onReadyRead never runs twice at once.
OneReadyRead ==
  \A i, j \in DOMAIN stack :
    stack[i] # "connectToTWS" /\ stack[j] # "connectToTWS" => i = j

\* A nested wait starts while the lock is set, and the handler that opens the
\* lock would be at the top of the stack, where it cannot be.
NestedWaitInv == OneReadyRead /\ (NestedWait => m_lock)

\* Elements of a sequence with one more in front, and of a tail.
LEMMA SeqElements ==
  ASSUME NEW S, NEW s \in Seq(S), NEW e \in S
  PROVE  /\ DOMAIN s = 1..Len(s) /\ Len(s) \in Nat
         /\ DOMAIN (<<e>> \o s) = 1..(Len(s) + 1)
         /\ (<<e>> \o s)[1] = e
         /\ \A i \in 2..(Len(s) + 1) : (<<e>> \o s)[i] = s[i - 1]
         /\ s # <<>> => /\ 1 \in DOMAIN s
                        /\ Head(s) = s[1]
                        /\ DOMAIN Tail(s) = 1..(Len(s) - 1)
                        /\ \A i \in 1..(Len(s) - 1) : Tail(s)[i] = s[i + 1]
  OBVIOUS

\* What a step does to the call stack and to the lock.
LEMMA StackSteps ==
  ASSUME TypeOK, [Next]_vars
  PROVE  \/ stack' = stack /\ m_lock' = m_lock
         \/ /\ stack' = <<"connectToTWS">> \o stack
            /\ m_lock /\ m_lock' = m_lock
         \/ /\ stack' = <<"loop">> \o stack
            /\ ~InReadyRead /\ m_lock' = m_lock
         \/ /\ \E frame \in StackFrames \ {"connectToTWS"} : Become(frame)
            /\ stack # <<>> /\ Head(stack) # "connectToTWS"
         \/ /\ stack' = Tail(stack)
            /\ stack # <<>> /\ Head(stack) # "connectToTWS"
            /\ m_lock' = m_lock
         \/ /\ stack' = Tail(stack)
            /\ stack # <<>> /\ Head(stack) = "connectToTWS"
            /\ ~m_lock /\ m_lock' = m_lock
<1>1. ASSUME NEW c \in ClientIds, ConnectToTWS(c)
      PROVE  /\ m_lock' = m_lock
             /\ \/ stack' = stack
                \/ stack' = <<"connectToTWS">> \o stack /\ m_lock
  BY <1>1 DEF ConnectToTWS
<1>2. ASSUME DisconnectTWS \/ Request \/ Socket \/ OnSocketError \/ TwsReads
             \/ (\E kind \in PushKinds : TwsPushes(kind)) \/ UNCHANGED vars
      PROVE  stack' = stack /\ m_lock' = m_lock
  BY <1>2
  DEF DisconnectTWS, Reset, Request, Socket, OnConnected, ConnectCloses,
      BytesGone, OnSocketError, SockStep, TwsReads, TwsPushes, object, vars
<1>3. ASSUME ConnectReturns
      PROVE  /\ stack' = Tail(stack)
             /\ stack # <<>> /\ Head(stack) = "connectToTWS"
             /\ ~m_lock /\ m_lock' = m_lock
  BY <1>3 DEF ConnectReturns, WaitEnds, Running, object
<1>4. ASSUME ReadyRead
      PROVE  /\ stack' = <<"loop">> \o stack
             /\ ~InReadyRead /\ m_lock' = m_lock
  BY <1>4 DEF ReadyRead, OnReadyRead
<1>5. ASSUME ReadyReadReturns
      PROVE  /\ stack' = Tail(stack)
             /\ stack # <<>> /\ Head(stack) # "connectToTWS"
             /\ m_lock' = m_lock
  BY <1>5 DEF ReadyReadReturns, Running, object
<1>6. ASSUME Dispatch, ~ReadyReadReturns
      PROVE  /\ \E frame \in StackFrames \ {"connectToTWS"} : Become(frame)
             /\ stack # <<>> /\ Head(stack) # "connectToTWS"
  <2>1. Become("twsConnected") \/ Become("loop") \/ Become("signal")
        \/ Become("error") \/ Become("connectionClosed")
    BY <1>6
    DEF Dispatch, Greeting, Identify, ManagedAccounts, Data, VerifyCompleted,
        UnknownId, CloseOnUnknown, SlotsReturn
  <2>2. Running({"loop", "twsConnected", "error", "signal", "connectionClosed"})
    BY <1>6
    DEF Dispatch, Greeting, Identify, ManagedAccounts, Data, VerifyCompleted,
        UnknownId, CloseOnUnknown, SlotsReturn, Reading, Running
  <2> QED
    BY <2>1, <2>2 DEF Running, StackFrames, Emits
<1> QED
  BY <1>1, <1>2, <1>3, <1>4, <1>5, <1>6 DEF Next, Application

\* No step opens the lock below a wait, or returns from it.
LEMMA NestedWaitStep ==
  ASSUME TypeOK, NestedWaitInv, [Next]_vars
  PROVE  NestedWaitInv' /\ (NestedWait => NestedWait')
<1> USE DEF NestedWaitInv, OneReadyRead, NestedWait
<1> DEFINE C == "connectToTWS"
<1>0. stack \in Seq(StackFrames)
  BY DEF TypeOK, ObjectType
<1>1. CASE stack' = stack /\ m_lock' = m_lock
  BY <1>1
<1>2. CASE stack' = <<C>> \o stack /\ m_lock /\ m_lock' = m_lock
  <2>1. /\ DOMAIN stack = 1..Len(stack) /\ Len(stack) \in Nat
        /\ DOMAIN stack' = 1..(Len(stack) + 1)
        /\ stack'[1] = C
        /\ \A i \in 2..(Len(stack) + 1) : stack'[i] = stack[i - 1]
    BY <1>0, <1>2, SeqElements DEF StackFrames
  <2>2. OneReadyRead'
    <3>1. SUFFICES ASSUME NEW i \in DOMAIN stack', NEW j \in DOMAIN stack',
                          stack'[i] # C, stack'[j] # C
                   PROVE  i = j
      OBVIOUS
    <3>2. /\ i - 1 \in DOMAIN stack /\ stack[i - 1] # C
          /\ j - 1 \in DOMAIN stack /\ stack[j - 1] # C
      BY <2>1, <3>1
    <3>3. i - 1 = j - 1
      BY <3>2
    <3> QED
      BY <2>1, <3>1, <3>3
  <2>3. ASSUME NestedWait PROVE NestedWait'
    <3>1. PICK i, j \in DOMAIN stack : i < j /\ stack[i] = C /\ stack[j] # C
      BY <2>3
    <3>2. /\ i + 1 \in DOMAIN stack' /\ stack'[i + 1] = C
          /\ j + 1 \in DOMAIN stack' /\ stack'[j + 1] # C
          /\ i + 1 < j + 1
      BY <2>1, <3>1
    <3> QED
      BY <3>2
  <2> QED
    BY <1>2, <2>2, <2>3
<1>3. CASE stack' = <<"loop">> \o stack /\ ~InReadyRead /\ m_lock' = m_lock
  BY <1>0, <1>3, SeqElements DEF StackFrames, InReadyRead
<1>4. CASE /\ \E frame \in StackFrames \ {C} : Become(frame)
           /\ stack # <<>> /\ Head(stack) # C
  BY <1>0, <1>4, SeqElements DEF Become
<1>5. CASE /\ stack' = Tail(stack)
           /\ stack # <<>> /\ Head(stack) # C
           /\ m_lock' = m_lock
  BY <1>0, <1>5, SeqElements
<1>6. CASE /\ stack' = Tail(stack)
           /\ stack # <<>> /\ Head(stack) = C
           /\ ~m_lock /\ m_lock' = m_lock
  BY <1>0, <1>6, SeqElements
<1> QED
  BY <1>1, <1>2, <1>3, <1>4, <1>5, <1>6, StackSteps

\* A connectToTWS that a slot calls inside onReadyRead while m_lock is set is
\* never left again.
THEOREM NestedWaitIsForeverHolds == Spec => NestedWaitIsForever
<1>1. Init => NestedWaitInv
  BY DEF Init, NestedWaitInv, OneReadyRead, NestedWait
<1>2. TypeOK /\ NestedWaitInv /\ [Next]_vars =>
        NestedWaitInv' /\ (NestedWait => NestedWait')
  BY NestedWaitStep
<1>3. TypeOK /\ NestedWaitInv /\ [Next]_vars => [NestedWait => NestedWait']_vars
  BY <1>2
<1> QED
  BY <1>1, <1>2, <1>3, TypeCorrect, PTL DEF Spec, NestedWaitIsForever

--------------------------------------------------------------------------------
(* The client id after disconnectTWS.                                      *)

\* No identification in these frames has the id that disconnectTWS leaves.
Valid(frames) ==
  \A i \in DOMAIN frames : Identifies(frames[i]) => frames[i].id # NoClient

\* What a call of send() adds to the wire has a valid id if its frames have.
LEMMA ValidSend ==
  ASSUME TypeOK, NEW wire \in Seq(Frames), NEW frame \in Frames,
         Valid(wire), Valid(m_outBuffer), Send(wire, <<frame>>),
         Identifies(frame) => frame.id # NoClient
  PROVE  Valid(toTws') /\ Valid(m_outBuffer')
<1>1. \A s, t \in Seq(Frames) : Valid(s) /\ Valid(t) => Valid(s \o t)
  BY DEF Valid
<1>2. m_outBuffer \in Seq(Frames) /\ <<frame>> \in Seq(Frames)
  BY DEF TypeOK, ObjectType
<1>3. m_outBuffer \o <<frame>> \in Seq(Frames)
  BY <1>2, ConcatProperties
<1>4. Valid(<<>>) /\ Valid(<<frame>>)
  BY DEF Valid
<1>5. Valid(m_outBuffer \o <<frame>>)
  BY <1>1, <1>2, <1>4
<1>6. Valid(wire \o (m_outBuffer \o <<frame>>))
  BY <1>1, <1>3, <1>5
<1> QED
  BY <1>4, <1>5, <1>6 DEF Send

\* The frame that a call of send() encodes.
LEMMA FrameFacts ==
  ASSUME TypeOK, conn' \in Nat, NEW kind \in FrameKinds, NEW id \in Int
  PROVE  /\ Frame(kind, id) \in Frames
         /\ Frame(kind, id).id = id
         /\ Identifies(Frame(kind, id)) <=> kind \in IdentKinds
<1>1. Context \in Contexts
  BY SeqTypes DEF TypeOK, ObjectType, Context, Contexts
<1> QED
  BY <1>1 DEF Frame, Frames, Identifies

\* Sending such a frame keeps the invariant on what is on the wire and in the
\* output buffer.
LEMMA ValidFrameSend ==
  ASSUME TypeOK, NoInvalidId, conn' \in Nat, NEW kind \in FrameKinds,
         NEW id \in Int, kind \in IdentKinds => id # NoClient,
         NEW wire \in {<<>>, toTws}, Send(wire, <<Frame(kind, id)>>)
  PROVE  NoInvalidId'
<1>1. wire \in Seq(Frames) /\ Valid(wire) /\ Valid(m_outBuffer)
  <2>1. /\ <<>> \in Seq(Frames) /\ Valid(<<>>)
        /\ toTws \in Seq(Frames)
    BY EmptySeq DEF TypeOK, NetworkType, Valid
  <2>2. Valid(toTws) /\ Valid(m_outBuffer)
    BY DEF NoInvalidId, Valid
  <2> QED
    BY <2>1, <2>2
<1>2. /\ Frame(kind, id) \in Frames
      /\ Identifies(Frame(kind, id)) => Frame(kind, id).id # NoClient
  BY FrameFacts
<1>3. Valid(toTws') /\ Valid(m_outBuffer')
  BY <1>1, <1>2, ValidSend
<1> QED
  BY <1>3 DEF NoInvalidId, Valid

\* After disconnectTWS and before the next connectToTWS nothing identifies the
\* client: there is no version, no connection and no input.
LEMMA ResetHoldsStep ==
  ASSUME TypeOK, ResetHolds, [Next]_vars
  PROVE  ResetHolds'
<1> USE DEF ResetHolds
<1>1. ASSUME NEW c \in ClientIds, ConnectToTWS(c) PROVE ResetHolds'
  <2>1. m_clientId' # NoClient
    BY <1>1, SessionAssumption DEF ConnectToTWS, NoClient
  <2> QED
    BY <2>1
<1>2. ASSUME Reset PROVE ResetHolds'
  BY <1>2 DEF Reset, ClearSession, ClearBuffers, DisconnectFromHost
<1>3. ASSUME ReadyRead PROVE ResetHolds'
  BY <1>3 DEF ReadyRead, OnReadyRead
<1>4. ASSUME Greeting PROVE ResetHolds'
  BY <1>4 DEF Greeting, Reading
<1>5. ASSUME NEW from, NEW to, SockStep(from, to), m_clientId # NoClient \/
             to \notin {"Connecting", "Connected"}
      PROVE  ResetHolds'
  BY <1>5 DEF SockStep, object
<1>6. ASSUME Socket \/ OnSocketError PROVE ResetHolds'
  <2>1. ASSUME OnConnected PROVE m_clientId # NoClient
    BY <2>1 DEF OnConnected, SockStep
  <2> QED
    BY <1>5, <1>6, <2>1
    DEF Socket, OnConnected, ConnectCloses, BytesGone, OnSocketError
<1>7. ASSUME Identify \/ SlotsReturn PROVE ResetHolds'
  BY <1>7 DEF Identify, SlotsReturn, CleanInBuffer, network
<1>8. ASSUME UNCHANGED <<m_clientId, m_connected, m_serverVersion, m_inBuffer,
                         sock>>
      PROVE  ResetHolds'
  BY <1>8
<1>9. \/ Application \/ ReadyRead \/ Greeting \/ Identify \/ SlotsReturn
      \/ CloseOnUnknown \/ Socket \/ OnSocketError
      \/ UNCHANGED <<m_clientId, m_connected, m_serverVersion, m_inBuffer, sock>>
  BY DEF Next, Dispatch, ConnectReturns, ManagedAccounts, Data, UnknownId,
         VerifyCompleted, ReadyReadReturns, TwsReads, TwsPushes, vars, object,
         network
<1>10. ASSUME Request PROVE ResetHolds'
  BY <1>10 DEF Request
<1> QED
  BY <1>1, <1>2, <1>3, <1>4, <1>6, <1>7, <1>8, <1>9, <1>10
  DEF Application, DisconnectTWS, CloseOnUnknown

\* Every step keeps what NoInvalidId needs.
LEMMA NoInvalidIdStep ==
  ASSUME TypeOK, ResetHolds, NoInvalidId, [Next]_vars
  PROVE  NoInvalidId'
<1>1. ASSUME NEW c \in ClientIds, ConnectToTWS(c) PROVE NoInvalidId'
  <2>1. conn' \in Nat
    BY <1>1 DEF ConnectToTWS, TypeOK, NetworkType
  <2>2. \E wire \in {<<>>, toTws} :
          Send(wire, <<Frame("version", NoClient)>>)
    BY <1>1 DEF ConnectToTWS
  <2> QED
    BY <2>1, <2>2, ValidFrameSend DEF FrameKinds, IdentKinds, NoClient
<1>2. ASSUME Request PROVE NoInvalidId'
  <2>1. conn' \in Nat /\ Send(toTws, <<Frame("request", NoClient)>>)
    BY <1>2 DEF Request, TypeOK, NetworkType
  <2> QED
    BY <2>1, ValidFrameSend DEF FrameKinds, IdentKinds, NoClient
<1>3. ASSUME VerifyCompleted PROVE NoInvalidId'
  <2>1. conn' \in Nat /\ Send(toTws, <<Frame("startApi", m_clientId)>>)
    BY <1>3 DEF VerifyCompleted, TypeOK, NetworkType
  <2>2. m_clientId \in Int /\ m_clientId # NoClient
    BY <1>3, ClientIdType DEF VerifyCompleted, ResetHolds
  <2> QED
    BY <2>1, <2>2, ValidFrameSend DEF FrameKinds
<1>4. ASSUME Identify PROVE NoInvalidId'
  <2>1. conn' \in Nat
    BY <1>4 DEF Identify, TypeOK, NetworkType
  <2>2. CASE m_serverVersion < 3
    BY <1>4, <2>2 DEF Identify, SendId, NoInvalidId
  <2>3. CASE ~(m_serverVersion < 3)
    <3>1. m_clientId \in Int /\ m_clientId # NoClient
      BY <2>3, ClientIdType DEF ResetHolds
    <3>2. \E kind \in FrameKinds : Send(toTws, <<Frame(kind, m_clientId)>>)
      BY <1>4, <2>3 DEF Identify, SendId, FrameKinds
    <3> QED
      BY <2>1, <3>1, <3>2, ValidFrameSend
  <2> QED
    BY <2>2, <2>3
<1>5. ASSUME Reset PROVE NoInvalidId'
  BY <1>5 DEF Reset, ClearBuffers, NoInvalidId
<1>6. ASSUME UNCHANGED <<m_outBuffer, toTws>> PROVE NoInvalidId'
  BY <1>6 DEF NoInvalidId
<1>7. \/ Application \/ Identify \/ VerifyCompleted \/ CloseOnUnknown
      \/ UNCHANGED <<m_outBuffer, toTws>>
  BY DEF Next, Dispatch, ConnectReturns, ReadyRead, OnReadyRead, Greeting,
         ManagedAccounts, Data, UnknownId, SlotsReturn, ReadyReadReturns,
         Socket, OnConnected, ConnectCloses, BytesGone, OnSocketError,
         SockStep, TwsReads, TwsPushes, vars, object, network
<1> QED
  BY <1>1, <1>2, <1>3, <1>4, <1>5, <1>6, <1>7
  DEF Application, DisconnectTWS, CloseOnUnknown

\* Whenever disconnectTWS runs, in a slot of twsConnected or of a message too,
\* the id -1 it leaves in m_clientId is never sent as the client's id.
THEOREM NoInvalidIdHolds == Spec => [](ResetHolds /\ NoInvalidId)
<1>1. Init => ResetHolds /\ NoInvalidId
  BY DEF Init, ResetHolds, NoInvalidId, NoClient
<1>2. TypeOK /\ (ResetHolds /\ NoInvalidId) /\ [Next]_vars =>
        (ResetHolds /\ NoInvalidId)'
  BY ResetHoldsStep, NoInvalidIdStep
<1> QED
  BY <1>1, <1>2, TypeCorrect, PTL DEF Spec

\* After disconnectTWS nothing is connected until the next connectToTWS.
THEOREM ResetHoldsHolds == Spec => []ResetHolds
  BY NoInvalidIdHolds, PTL
================================================================================
