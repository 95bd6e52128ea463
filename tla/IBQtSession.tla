------------------------------ MODULE IBQtSession ------------------------------
(***************************************************************************)
(* The life of a session between an application, an IBQt object and TWS:  *)
(* connectToTWS and its blocking wait, the version handshake in           *)
(* onReadyRead, the dispatch of whole messages, the output buffer behind   *)
(* send(), disconnectTWS and the socket events (lib/ibqt.cpp).             *)
(*                                                                         *)
(* Everything runs on one thread.  What interleaves is decided by the     *)
(* call stack: connectToTWS pumps events while m_lock is set, so events    *)
(* and application code run inside it; onReadyRead emits signals, so       *)
(* application slots run inside it, in the middle of a message.  `stack'   *)
(* is that call stack, innermost call first.  Messages are whole here;     *)
(* IBQtReader models how they are cut out of the byte stream.              *)
(***************************************************************************)
EXTENDS Integers, Sequences

CONSTANTS
  ClientIds,        \* client ids the application connects with
  ServerVersions,   \* versions a TWS may announce
  PushKinds,        \* kinds of message a TWS sends on its own once it is up
  LoopCalls,        \* API calls the application makes from the event loop
  SlotCalls,        \* API calls it makes from slots that onReadyRead invokes
  Faults,           \* whether connections may fail or be closed by the peer
  MaxConnections,   \* bound: TCP connections opened
  MaxCalls,         \* bound: API calls made
  MaxPushes         \* bound: messages pushed by TWS

SERVER_VERSION         == 38
MIN_SERVER_VER_LINKING == 70
NoClient               == -1
ApiCalls               == {"connect", "disconnect", "request"}
MessageKinds == {"hello", "managedAccounts", "data", "verified", "unknown"}

\* The message ids that the dispatcher's switch knows.
IncomingIds == (1..21) \cup (45..47) \cup (49..59) \cup (61..68)

\* A version that is also a message id would be parsed as that message when
\* a greeting arrives in a connected session; here it is an unknown id.
ASSUME SessionAssumption ==
  /\ ClientIds \subseteq Nat
  /\ ServerVersions \subseteq Nat \ (IncomingIds \cup {0})
  /\ PushKinds \subseteq MessageKinds \ {"hello"}
  /\ LoopCalls \subseteq ApiCalls
  /\ SlotCalls \subseteq ApiCalls
  /\ Faults \in BOOLEAN
  /\ {MaxConnections, MaxCalls, MaxPushes} \subseteq Nat

VARIABLES
  \* the IBQt object
  m_connected, m_lock, m_serverVersion, m_clientId, m_outBuffer, m_inBuffer,
  stack,      \* running calls, innermost first
  \* the QTcpSocket and the connection
  sock,
  toTws,      \* frames written on the current connection, in order
  toClient,   \* messages in flight to the client
  \* TWS
  tws,        \* "awaitVersion", "awaitId", "up" or "confused"
  twsRead,    \* how many frames of toTws it has read
  \* history
  conn,       \* number of the current connection
  owner,      \* the client id given to the call that opened it
  fresh,      \* no connectToTWS since construction or the last disconnectTWS
  clean,      \* the current connection was opened fresh, and by the last call
  returnedUp, \* m_connected when connectToTWS last returned
  calls, pushes

object  == <<m_connected, m_lock, m_serverVersion, m_clientId, m_outBuffer,
             m_inBuffer>>
network == <<sock, toTws, toClient, tws, twsRead, conn>>
history == <<owner, fresh, clean, returnedUp>>
vars    == <<object, network, history, stack, calls, pushes>>

SockStates  == {"Unconnected", "Connecting", "PendingClose", "Connected",
                "Closing"}
TwsStates   == {"awaitVersion", "awaitId", "up", "confused"}
\* Where onReadyRead is: at the top of its loop, or inside an emit.
Emits       == {"twsConnected", "signal", "error", "connectionClosed"}
StackFrames == {"connectToTWS", "loop"} \cup Emits
Contexts    == {"main"} \cup StackFrames
FrameKinds  == {"version", "clientId", "startApi", "request"}
Frames      == [kind : FrameKinds, id : Int, ctx : Contexts, conn : Nat]
Messages    == [kind : MessageKinds, ver : Nat]

ObjectType ==
  /\ m_connected \in BOOLEAN
  /\ m_lock \in BOOLEAN
  /\ m_serverVersion \in Nat
  /\ m_clientId \in ClientIds \cup {0, NoClient}
  /\ m_outBuffer \in Seq(Frames)
  /\ m_inBuffer \in Seq(Messages)
  /\ stack \in Seq(StackFrames)

NetworkType ==
  /\ sock \in SockStates
  /\ toTws \in Seq(Frames)
  /\ toClient \in Seq(Messages)
  /\ tws \in TwsStates
  /\ twsRead \in Nat
  /\ conn \in Nat

HistoryType ==
  /\ owner \in ClientIds \cup {NoClient}
  /\ fresh \in BOOLEAN
  /\ clean \in BOOLEAN
  /\ returnedUp \in BOOLEAN
  /\ calls \in Nat
  /\ pushes \in Nat

\* Every variable has its type.
TypeOK == ObjectType /\ NetworkType /\ HistoryType

--------------------------------------------------------------------------------
(* The call stack.                                                         *)

Running(frames) == stack # <<>> /\ Head(stack) \in frames

\* Qt events are delivered in the main loop and inside delay().
EventLoopRuns == stack = <<>> \/ Running({"connectToTWS"})

\* readyRead() is not emitted again while one of its slots is running.
InReadyRead == \E i \in DOMAIN stack : stack[i] # "connectToTWS"

\* Application code runs from the event loop (timers, slots of ibSocketError)
\* or in a slot of a signal that onReadyRead emits.
MayCall(call) ==
  /\ calls < MaxCalls
  /\ \/ EventLoopRuns  /\ call \in LoopCalls
     \/ Running(Emits) /\ call \in SlotCalls

Context == IF stack = <<>> THEN "main" ELSE Head(stack)

Become(frame) == stack' = <<frame>> \o Tail(stack)

--------------------------------------------------------------------------------
(* send(), disconnectFromHost() and disconnectTWS().                       *)

Frame(kind, id) == [kind |-> kind, id |-> id, ctx |-> Context, conn |-> conn']

\* write() takes the whole buffer, or nothing (-1) on an unconnected socket,
\* and then the buffer is kept and goes out before the next message.
SendKeepsBuffer(wire, frames) ==     \* mutant: the clear() is missing
  /\ m_outBuffer' = m_outBuffer \o frames
  /\ toTws' = IF sock' = "Unconnected" THEN wire ELSE wire \o m_outBuffer'

Send(wire, frames) ==
  LET pending == m_outBuffer \o frames
  IN  IF sock' = "Unconnected"
      THEN m_outBuffer' = pending /\ toTws' = wire
      ELSE m_outBuffer' = <<>> /\ toTws' = wire \o pending

\* Unsent bytes keep a connected socket in Closing until they are gone; a
\* socket that is still connecting closes only once it is connected.
DisconnectOnlyConnected ==     \* mutant: a pending connection is left open
  IF sock = "Connected" THEN sock' \in {"Closing", "Unconnected"}
                        ELSE UNCHANGED sock

DisconnectFromHost ==
  \/ sock \in {"Unconnected", "Closing"} /\ sock' = sock
  \/ sock \in {"Connecting", "PendingClose"} /\ sock' = "PendingClose"
  \/ sock = "Connected" /\ sock' \in {"Closing", "Unconnected"}

ClearSessionKeepsVersion ==    \* mutant: m_serverVersion is not reset
  m_connected' = FALSE /\ m_clientId' = NoClient /\ UNCHANGED m_serverVersion

ClearSessionBadVersion ==      \* mutant: "no version" is -1
  m_connected' = FALSE /\ m_clientId' = NoClient /\ m_serverVersion' = -1

ClearSession ==
  m_connected' = FALSE /\ m_clientId' = NoClient /\ m_serverVersion' = 0

ClearInBufferOnly  == m_inBuffer' = <<>> /\ UNCHANGED m_outBuffer   \* mutant
ClearOutBufferOnly == m_outBuffer' = <<>> /\ UNCHANGED m_inBuffer   \* mutant
ClearBuffers       == m_outBuffer' = <<>> /\ m_inBuffer' = <<>>

Reset ==
  /\ ClearSession
  /\ ClearBuffers
  /\ DisconnectFromHost
  /\ fresh' = TRUE
  /\ UNCHANGED <<m_lock, toTws, toClient, tws, twsRead, conn, owner, clean,
                 returnedUp>>

--------------------------------------------------------------------------------
(* Calls of the application.                                               *)

\* connectToHost() opens a connection only on an unconnected socket; the
\* version is encoded and sent all the same.
ConnectToTWS(c) ==
  /\ MayCall("connect")
  /\ m_clientId' = c
  /\ \/ /\ sock = "Unconnected"
        /\ conn < MaxConnections
        /\ sock' = "Connecting"
        /\ conn' = conn + 1
        /\ owner' = c
        /\ toClient' = <<>>
        /\ tws' = "awaitVersion"
        /\ twsRead' = 0
        /\ Send(<<>>, <<Frame("version", NoClient)>>)
     \/ /\ sock # "Unconnected"
        /\ UNCHANGED <<sock, conn, owner, toClient, tws, twsRead>>
        /\ Send(toTws, <<Frame("version", NoClient)>>)
  /\ \/ /\ m_lock
        /\ stack' = <<"connectToTWS">> \o stack
        /\ UNCHANGED returnedUp
     \/ /\ ~m_lock
        /\ returnedUp' = m_connected
        /\ UNCHANGED stack
  /\ clean' = (fresh /\ sock = "Unconnected")
  /\ fresh' = FALSE
  /\ calls' = calls + 1
  /\ UNCHANGED <<m_connected, m_lock, m_serverVersion, m_inBuffer, pushes>>

\* while (m_lock) delay(100): the wait ends once the lock is open.
WaitEndsAnyway == Running({"connectToTWS"})    \* mutant: the wait times out
WaitEnds       == Running({"connectToTWS"}) /\ ~m_lock

ConnectReturns ==
  /\ WaitEnds
  /\ returnedUp' = m_connected
  /\ stack' = Tail(stack)
  /\ UNCHANGED <<object, network, owner, fresh, clean, calls, pushes>>

DisconnectTWS ==
  /\ MayCall("disconnect")
  /\ Reset
  /\ calls' = calls + 1
  /\ UNCHANGED <<stack, pushes>>

\* Any request function; when m_connected is FALSE it only emits an error.
RequestAllowedAnyway == MayCall("request")    \* mutant: no m_connected check
RequestAllowed       == MayCall("request") /\ m_connected

Request ==
  /\ RequestAllowed
  /\ UNCHANGED <<sock, conn>>
  /\ Send(toTws, <<Frame("request", NoClient)>>)
  /\ calls' = calls + 1
  /\ UNCHANGED <<m_connected, m_lock, m_serverVersion, m_clientId, m_inBuffer,
                 stack, toClient, tws, twsRead, history, pushes>>

--------------------------------------------------------------------------------
(* onReadyRead.                                                            *)

\* The socket hands over the first n messages that have arrived.
OnReadyRead(n) ==
  /\ EventLoopRuns /\ ~InReadyRead
  /\ sock = "Connected"
  /\ m_inBuffer' = m_inBuffer \o SubSeq(toClient, 1, n)
  /\ toClient' = SubSeq(toClient, n + 1, Len(toClient))
  /\ stack' = <<"loop">> \o stack
  /\ UNCHANGED <<m_connected, m_lock, m_serverVersion, m_clientId,
                 m_outBuffer, sock, toTws, tws, twsRead, conn, history, calls,
                 pushes>>

\* The message at the head of the buffer, and cleanInBuffer() after it.
Reading(kinds) ==
  /\ Running({"loop"})
  /\ m_inBuffer # <<>>
  /\ Head(m_inBuffer).kind \in kinds

CleanInBuffer == m_inBuffer' = IF m_inBuffer = <<>> THEN <<>>
                                                     ELSE Tail(m_inBuffer)

\* Not connected: the first message is the greeting.  A version that is too
\* old closes the socket, and the session is marked connected all the same.
EarlyGreeting ==    \* mutant: twsConnected opens the lock
  /\ ~m_connected
  /\ Reading({"hello"})
  /\ m_serverVersion' = Head(m_inBuffer).ver
  /\ m_connected' = TRUE
  /\ m_lock' = FALSE
  /\ Become("twsConnected")
  /\ UNCHANGED <<m_clientId, m_outBuffer, m_inBuffer, network, history, calls,
                 pushes>>

Greeting ==
  /\ ~m_connected
  /\ Reading({"hello"})
  /\ m_serverVersion' = Head(m_inBuffer).ver
  /\ IF m_serverVersion' < SERVER_VERSION THEN DisconnectFromHost
                                          ELSE UNCHANGED sock
  /\ m_connected' = TRUE
  /\ Become("twsConnected")
  /\ UNCHANGED <<m_lock, m_clientId, m_outBuffer, m_inBuffer, toTws, toClient,
                 tws, twsRead, conn, history, calls, pushes>>

\* The slots of twsConnected have returned: send the client id.
SendIdOldWay ==     \* mutant: START_API is forgotten
  IF m_serverVersion \in 3..(MIN_SERVER_VER_LINKING - 1)
  THEN Send(toTws, <<Frame("clientId", m_clientId)>>)
  ELSE UNCHANGED <<m_outBuffer, toTws>>

SendId ==
  IF m_serverVersion < 3
  THEN UNCHANGED <<m_outBuffer, toTws>>
  ELSE Send(toTws, <<Frame(IF m_serverVersion < MIN_SERVER_VER_LINKING
                           THEN "clientId" ELSE "startApi", m_clientId)>>)

Identify ==
  /\ Running({"twsConnected"})
  /\ UNCHANGED <<sock, conn>>
  /\ SendId
  /\ CleanInBuffer
  /\ Become("loop")
  /\ UNCHANGED <<m_connected, m_lock, m_serverVersion, m_clientId, toClient,
                 tws, twsRead, history, calls, pushes>>

\* onManagedAccounts was connected first, so it runs before other slots.
OnManagedAccountsIgnored == UNCHANGED m_lock    \* mutant: the lock stays shut
OnManagedAccounts        == m_lock' = FALSE

ManagedAccounts ==
  /\ m_connected
  /\ Reading({"managedAccounts"})
  /\ OnManagedAccounts
  /\ Become("signal")
  /\ UNCHANGED <<m_connected, m_serverVersion, m_clientId, m_outBuffer,
                 m_inBuffer, network, history, calls, pushes>>

\* A message whose handler only decodes fields and emits.
Data ==
  /\ m_connected
  /\ Reading({"data"})
  /\ Become("signal")
  /\ UNCHANGED <<object, network, history, calls, pushes>>

\* VERIFY_COMPLETED with "true": start the API, then emit.
VerifyCompleted ==
  /\ m_connected
  /\ Reading({"verified"})
  /\ UNCHANGED <<sock, conn>>
  /\ Send(toTws, <<Frame("startApi", m_clientId)>>)
  /\ Become("signal")
  /\ UNCHANGED <<m_connected, m_lock, m_serverVersion, m_clientId, m_inBuffer,
                 toClient, tws, twsRead, history, calls, pushes>>

\* default: emit error, then disconnectTWS(), then emit connectionClosed.
\* A greeting in a connected session lands here too.
UnknownId ==
  /\ m_connected
  /\ Reading({"unknown", "hello"})
  /\ Become("error")
  /\ UNCHANGED <<object, network, history, calls, pushes>>

CloseOnUnknown ==
  /\ Running({"error"})
  /\ Reset
  /\ Become("connectionClosed")
  /\ UNCHANGED <<calls, pushes>>

SlotsReturn ==
  /\ Running({"signal", "connectionClosed"})
  /\ CleanInBuffer
  /\ Become("loop")
  /\ UNCHANGED <<m_connected, m_lock, m_serverVersion, m_clientId,
                 m_outBuffer, network, history, calls, pushes>>

ReadyReadReturns ==
  /\ Running({"loop"})
  /\ m_inBuffer = <<>>
  /\ stack' = Tail(stack)
  /\ UNCHANGED <<object, network, history, calls, pushes>>

Dispatch == \/ Greeting \/ Identify \/ ManagedAccounts \/ Data
            \/ VerifyCompleted \/ UnknownId \/ CloseOnUnknown \/ SlotsReturn
            \/ ReadyReadReturns

--------------------------------------------------------------------------------
(* The socket.  onConnected() and onSocketError() change nothing: a        *)
(* connection that fails or that the peer closes leaves m_connected and    *)
(* the buffers as they are.                                                *)

SockStep(from, to) ==
  /\ EventLoopRuns
  /\ sock \in from
  /\ sock' = to
  /\ UNCHANGED <<object, toTws, toClient, tws, twsRead, conn, history, stack,
                 calls, pushes>>

OnConnected   == SockStep({"Connecting"}, "Connected")
ConnectCloses == SockStep({"PendingClose"}, "Closing")
BytesGone     == SockStep({"Closing"}, "Unconnected")
OnSocketError == Faults /\ SockStep({"Connecting", "PendingClose", "Connected"},
                                    "Unconnected")

(* TWS: greets a client that announces its version first, is up once it    *)
(* has the client id, and then sends what it likes.                        *)

Msg(kind, v) == [kind |-> kind, ver |-> v]

TwsReads ==
  /\ sock = "Connected"
  /\ twsRead < Len(toTws)
  /\ twsRead' = twsRead + 1
  /\ LET kind == toTws[twsRead + 1].kind
     IN  \/ /\ tws = "awaitVersion" /\ kind = "version"
            /\ \E v \in ServerVersions :
                 toClient' = Append(toClient, Msg("hello", v))
            /\ tws' = "awaitId"
         \/ /\ tws = "awaitVersion" /\ kind # "version"
            /\ tws' = "confused"
            /\ UNCHANGED toClient
         \/ /\ tws = "awaitId" /\ kind \in {"clientId", "startApi"}
            /\ tws' = "up"
            /\ toClient' = toClient \o <<Msg("managedAccounts", 0),
                                         Msg("data", 0)>>
         \/ /\ \/ tws = "awaitId" /\ kind \notin {"clientId", "startApi"}
               \/ tws \in {"up", "confused"}
            /\ UNCHANGED <<tws, toClient>>
  /\ UNCHANGED <<object, sock, toTws, conn, history, stack, calls, pushes>>

TwsPushes(kind) ==
  /\ sock = "Connected"
  /\ tws = "up"
  /\ pushes < MaxPushes
  /\ pushes' = pushes + 1
  /\ toClient' = Append(toClient, Msg(kind, 0))
  /\ UNCHANGED <<object, sock, toTws, tws, twsRead, conn, history, stack, calls>>

--------------------------------------------------------------------------------
Init ==
  /\ m_connected = FALSE
  /\ m_lock = TRUE
  /\ m_serverVersion = 0
  /\ m_clientId = 0
  /\ m_outBuffer = <<>>
  /\ m_inBuffer = <<>>
  /\ stack = <<>>
  /\ sock = "Unconnected"
  /\ toTws = <<>>
  /\ toClient = <<>>
  /\ tws = "awaitVersion"
  /\ twsRead = 0
  /\ conn = 0
  /\ owner = NoClient
  /\ fresh = TRUE
  /\ clean = FALSE
  /\ returnedUp = TRUE
  /\ calls = 0
  /\ pushes = 0

Application == (\E c \in ClientIds : ConnectToTWS(c)) \/ DisconnectTWS \/ Request
ReadyRead   == \E n \in 1..Len(toClient) : OnReadyRead(n)
Socket      == OnConnected \/ ConnectCloses \/ BytesGone
Next ==
  \/ Application \/ ConnectReturns \/ ReadyRead \/ Dispatch
  \/ Socket \/ OnSocketError
  \/ TwsReads \/ \E kind \in PushKinds : TwsPushes(kind)

Spec == Init /\ [][Next]_vars

\* The event loop keeps running (delay() pumps it, and so does the main loop
\* of the application), a handler that started goes on to its end, and TWS
\* reads what it is sent.  Calls, faults and pushed messages are not forced.
Fairness ==
  /\ WF_vars(ConnectReturns) /\ WF_vars(ReadyRead) /\ WF_vars(Dispatch)
  /\ WF_vars(Socket) /\ WF_vars(TwsReads)

FairSpec == Spec /\ Fairness

--------------------------------------------------------------------------------
(* Safety.                                                                 *)

IdentKinds   == {"clientId", "startApi"}
Identifies(f) == f.kind \in IdentKinds
Waiting      == \E i \in DOMAIN stack : stack[i] = "connectToTWS"

\* send() keeps what write() refused, and nothing else empties or fills the
\* buffer but disconnectTWS: bytes wait in m_outBuffer only while there is no
\* socket to take them, so a connected session never sits on a message.
RetainedOnlyWhileDown == m_outBuffer # <<>> => sock = "Unconnected"

\* What TWS reads from a connection that was opened after a disconnectTWS (or
\* construction) and on which connectToTWS was not called again: the version
\* once and first; then, before the client id, only requests made in slots of
\* twsConnected; and the client id of the call that opened the connection.
WireOrder ==
  clean =>
    \A i \in DOMAIN toTws :
      /\ toTws[i].kind = "version" <=> i = 1
      /\ toTws[i].kind = "request" =>
           \/ toTws[i].ctx = "twsConnected"
           \/ \E j \in 1..(i - 1) : Identifies(toTws[j])
      /\ Identifies(toTws[i]) => toTws[i].id = owner

\* disconnectTWS leaves nothing behind: such a connection carries no message
\* that was encoded for an earlier one.
NoStaleFrames ==
  clean => \A i \in DOMAIN toTws : toTws[i].conn = conn

\* disconnectTWS sets m_clientId to -1, possibly in the middle of a handshake
\* or of a message; that id is never sent or left to be sent.
NoInvalidId ==
  \A frames \in {toTws, m_outBuffer} : \A i \in DOMAIN frames :
    Identifies(frames[i]) => frames[i].id # NoClient

\* Whatever was left of an earlier connection, what onReadyRead parses as a
\* greeting (m_connected is FALSE) is one.
GreetingFirst ==
  ~m_connected /\ m_inBuffer # <<>> => Head(m_inBuffer).kind = "hello"

\* The object is never connected with a client id that disconnectTWS cleared,
\* and then no socket is open that could make it so: the reset survives calls
\* made at any point of onReadyRead.
ResetHolds ==
  m_clientId = NoClient =>
    /\ ~m_connected
    /\ m_serverVersion = 0
    /\ m_inBuffer = <<>>
    /\ sock \notin {"Connecting", "Connected"}

\* A connectToTWS called from a slot inside onReadyRead, while m_lock is set,
\* waits for a managedAccounts that cannot be read before the slot returns.
NestedWait ==
  \E i, j \in DOMAIN stack :
    i < j /\ stack[i] = "connectToTWS" /\ stack[j] # "connectToTWS"

\* So such a call never returns.
NestedWaitIsForever == [][NestedWait => NestedWait']_vars

\* m_lock opens, and a waiting connectToTWS returns, only after TWS has the
\* client id the application asked for.
LockOpensAfterIdentity ==
  [][m_lock /\ ~m_lock' /\ clean =>
       \E i \in 1..twsRead : Identifies(toTws[i]) /\ toTws[i].id = owner]_vars

\* Refuted: "m_serverVersion < 38 ... will never happen", the comments of
\* placeOrder say; a request is encoded for such a server.
RequestsOnlyAtVersion38 ==
  [][Request => m_serverVersion >= SERVER_VERSION]_vars

\* Refuted: the test program requests contract details as soon as
\* connectToTWS returns, which supposes that it returns connected.
ReturnsConnected == returnedUp

--------------------------------------------------------------------------------
(* Liveness.                                                               *)

\* If the socket that connectToTWS opens never goes down again (TWS stays
\* reachable and is new enough, and the application does not disconnect),
\* every connectToTWS returns, the ones called on an open connection included.
ConnectReturnsEventually ==
  []((conn = 0) \/ sock \in {"Connecting", "Connected"}) => (Waiting ~> ~Waiting)

\* In general a wait may last, but on a connection opened after a
\* disconnectTWS only because the socket is down: no lost wake-up.
WaitsOnlyOnDownSocket ==
  Waiting ~> (~Waiting \/ sock = "Unconnected" \/ ~clean)
================================================================================
