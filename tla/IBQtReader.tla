------------------------------ MODULE IBQtReader ------------------------------
(***************************************************************************)
(* How onReadyRead cuts messages out of the byte stream: readAll() into    *)
(* m_inBuffer, the loop, decodeField() with m_begIdx and m_endIdx, and     *)
(* cleanInBuffer() (lib/ibqt.cpp).                                         *)
(*                                                                         *)
(* A field on the wire is a text and a NUL byte.  A text is one token here *)
(* or empty, so the stream is a sequence of units, tokens (numbers) and    *)
(* NULs, and indices are 0-based as in QByteArray.  Nothing on the wire    *)
(* marks the end of a message: the reader knows it from the number of      *)
(* fields it decodes.                                                      *)
(***************************************************************************)
EXTENDS Integers, Sequences, FiniteSets, IBQtInbound

CONSTANTS
  Modes,        \* what TWS sends and how it arrives, see ModeAssumption
  MaxDelivered  \* bound: signals per connection

NUL            == -1
Unit           == Nat \cup {NUL}
SERVER_VERSION == 38

GreetingLength(fields) == IF ToInt(fields[1]) >= 20 THEN 2 ELSE 1

\* The name of the next field of a message whose id and more is decoded, and
\* the fields that decide what follows.
FieldName(fields, sv, got) == Layout(ToInt(fields[1]), sv, got)[Len(fields)]
Noted(got, name, text)     == [n \in DOMAIN got \cup {name} |-> IF n = name THEN text
                                                                 ELSE got[n]]
Note(got, name, text)      == IF name \in Deciding THEN Noted(got, name, text) ELSE got

\* The fields of a message that decide what follows: read where the layout
\* puts them, and again with what was read, since a field that decides comes
\* before what it decides.
NoField == <<>>
Located(m, layout) ==
  LET decides == {i \in DOMAIN layout : layout[i] \in Deciding /\ i < Len(m)}
  IN  [name \in {layout[i] : i \in decides} |->
         m[1 + (CHOOSE i \in decides : layout[i] = name)]]
Decided(m, sv) ==
  LET round[n \in 0..Cardinality(Deciding)] ==
        IF n = 0 THEN NoField ELSE Located(m, Layout(ToInt(m[1]), sv, round[n - 1]))
  IN  round[Cardinality(Deciding)]

\* The message fits the layout that its own deciding fields give it.
Fits(m, sv, decided) ==
  LET layout == Layout(ToInt(m[1]), sv, decided)
  IN  /\ Len(m) = 1 + Len(layout)
      /\ DOMAIN decided = Deciding \cap {layout[i - 1] : i \in 2..Len(m)}
      /\ \A i \in 2..Len(m) :
           layout[i - 1] \in Deciding => decided[layout[i - 1]] = m[i]
Complete(m, sv) == Fits(m, sv, Decided(m, sv))

\* A mode has the greeting of the server, <<version, time>>, the messages that
\* may follow, whether readAll() returns whole messages only, and two bounds:
\* the messages of a connection and the connections.
ASSUME ModeAssumption ==
  \A mode \in Modes :
    /\ mode.aligned \in BOOLEAN
    /\ mode.messages \in Nat /\ mode.connections \in Nat
    /\ mode.greeting \in Seq(Text) /\ mode.catalog \subseteq Seq(Text)
    /\ mode.greeting # <<>> /\ ToInt(mode.greeting[1]) >= SERVER_VERSION
    /\ Len(mode.greeting) = GreetingLength(mode.greeting)
    /\ \A m \in mode.catalog :
         m # <<>> /\ m[1] # <<>> /\ Complete(m, ToInt(mode.greeting[1]))

Messages == UNION {{mode.greeting} \cup mode.catalog : mode \in Modes}

ASSUME MaxDeliveredAssumption == MaxDelivered \in Nat

VARIABLES
  m_inBuffer, m_begIdx, m_endIdx, m_lastEndIdx, m_connected, m_serverVersion,
  pc,         \* "idle", or where onReadyRead is: "loop", "decode", "emit"
  fields,     \* fields decoded of the current message
  got,        \* those among them that decide what follows, by name
  mode,       \* one of the Modes, for good
  open,       \* the socket is connected
  toClient,   \* units in flight to the client
  \* history, per connection
  sent,       \* messages TWS has written
  delivered,  \* messages handed to the application by a signal
  taken,      \* units that readAll() returned
  whole,      \* messages before the first one that a readAll() has split
  conns

object  == <<m_inBuffer, m_begIdx, m_endIdx, m_lastEndIdx, m_connected,
             m_serverVersion>>
stream  == <<toClient, sent, taken, whole>>
message == <<fields, got>>
vars    == <<object, pc, message, open, stream, delivered, conns, mode>>

TypeOK ==
  /\ m_inBuffer \in Seq(Unit)
  /\ m_begIdx \in Nat
  /\ m_endIdx \in Nat \cup {-1}
  /\ m_lastEndIdx \in Nat \cup {-1}
  /\ m_connected \in BOOLEAN
  /\ m_serverVersion \in Nat
  /\ pc \in {"idle", "loop", "decode", "emit"}
  /\ fields \in Seq(Text)
  /\ DOMAIN got \subseteq Deciding
  /\ \A name \in DOMAIN got : got[name] \in Text
  /\ open \in BOOLEAN
  /\ toClient \in Seq(Unit)
  /\ sent \in Seq(Seq(Text))
  /\ delivered \in Seq(Seq(Text))
  /\ taken \in Nat
  /\ whole \in Nat
  /\ conns \in Nat

--------------------------------------------------------------------------------
(* QByteArray.                                                             *)

\* indexOf(NUL, from): the first NUL at or after from, or -1.
IndexOfNul(bytes, from) ==
  LET found == {i \in from..(Len(bytes) - 1) : bytes[i + 1] = NUL}
  IN  IF found = {} THEN -1 ELSE CHOOSE i \in found : \A j \in found : i <= j

\* mid(pos, len): a negative length reaches to the end.
Mid(bytes, pos, len) ==
  SubSeq(bytes, pos + 1, IF len < 0 THEN Len(bytes) ELSE pos + len)

\* remove(0, n).
RemoveFront(bytes, n) == SubSeq(bytes, n + 1, Len(bytes))

--------------------------------------------------------------------------------
(* The stream.                                                             *)

\* Units of a message: each text and a NUL.
Wire(m) ==
  LET upTo[i \in 0..Len(m)] ==
        IF i = 0 THEN <<>> ELSE upTo[i - 1] \o m[i] \o <<NUL>>
  IN  upTo[Len(m)]

\* Units up to the end of the i-th message.
WireLength(m) == Len(m) + Cardinality({i \in DOMAIN m : m[i] # <<>>})
EndOf(msgs, i) ==
  LET upTo[k \in 0..i] == IF k = 0 THEN 0 ELSE upTo[k - 1] + WireLength(msgs[k])
  IN  upTo[i]

AtBoundary(n) == \E i \in 0..Len(sent) : EndOf(sent, i) = n

\* A connection after construction or a disconnectTWS; IBQtSession has the
\* connections that are opened on what a lost one left.
Connect ==
  /\ pc = "idle"
  /\ ~open /\ ~m_connected
  /\ conns < mode.connections
  /\ conns' = conns + 1
  /\ open' = TRUE
  /\ toClient' = <<>> /\ sent' = <<>> /\ delivered' = <<>>
  /\ taken' = 0 /\ whole' = mode.messages
  /\ UNCHANGED <<object, pc, message, mode>>

TwsWrites(m) ==
  /\ open
  /\ Len(sent) < mode.messages
  /\ m \in IF sent = <<>> THEN {mode.greeting} ELSE mode.catalog
  /\ sent' = Append(sent, m)
  /\ toClient' = toClient \o Wire(m)
  /\ UNCHANGED <<object, pc, message, open, delivered, taken, whole, conns, mode>>

\* readAll() returns the n units that have arrived.
OnReadyRead(n) ==
  /\ pc = "idle"
  /\ open
  /\ mode.aligned => AtBoundary(taken + n)
  /\ m_inBuffer' = m_inBuffer \o SubSeq(toClient, 1, n)
  /\ toClient' = SubSeq(toClient, n + 1, Len(toClient))
  /\ taken' = taken + n
  /\ whole' = IF whole < mode.messages \/ AtBoundary(taken + n) THEN whole
              ELSE CHOOSE i \in 0..(Len(sent) - 1) :
                     EndOf(sent, i) < taken + n /\ taken + n < EndOf(sent, i + 1)
  /\ pc' = "loop"
  /\ UNCHANGED <<m_begIdx, m_endIdx, m_lastEndIdx, m_connected,
                 m_serverVersion, message, open, sent, delivered, conns, mode>>

--------------------------------------------------------------------------------
(* onReadyRead.                                                            *)

ReturnsAfterOne ==      \* mutant: the loop may stop after one message
  /\ pc = "loop"
  /\ m_inBuffer = <<>> \/ fields # <<>>
  /\ pc' = "idle"
  /\ UNCHANGED <<object, message, open, stream, delivered, conns, mode>>

ReadyReadReturns ==
  /\ pc = "loop"
  /\ m_inBuffer = <<>>
  /\ pc' = "idle"
  /\ UNCHANGED <<object, message, open, stream, delivered, conns, mode>>

\* A NUL at the head of the buffer is dropped.
LoopTop ==
  /\ pc = "loop"
  /\ m_inBuffer # <<>>
  /\ m_inBuffer' = IF Head(m_inBuffer) = NUL THEN Tail(m_inBuffer)
                                             ELSE m_inBuffer
  /\ fields' = <<>> /\ got' = NoField
  /\ pc' = "decode"
  /\ UNCHANGED <<m_begIdx, m_endIdx, m_lastEndIdx, m_connected,
                 m_serverVersion, open, stream, delivered, conns, mode>>

WantedButLast ==        \* mutant: a layout stops one field short
  IF fields = <<>> THEN 1
  ELSE IF m_connected THEN Len(Layout(ToInt(fields[1]), m_serverVersion, got))
  ELSE GreetingLength(fields)

Wanted == IF fields = <<>> THEN 1
          ELSE IF m_connected
          THEN 1 + Len(Layout(ToInt(fields[1]), m_serverVersion, got))
          ELSE GreetingLength(fields)

SetBegAtEnd == \* mutant: m_begIdx becomes -1 with m_endIdx
  m_endIdx' = IndexOfNul(m_inBuffer, m_begIdx) /\ m_begIdx' = m_endIdx'

SetEndStuck == \* mutant: the next field starts at the NUL of this one
  /\ m_endIdx' = IndexOfNul(m_inBuffer, m_begIdx)
  /\ m_begIdx' = IF m_endIdx' = -1 THEN 0 ELSE m_endIdx'

SetIndices ==
  /\ m_endIdx' = IndexOfNul(m_inBuffer, m_begIdx)
  /\ m_begIdx' = m_endIdx' + 1

DecodeField ==
  /\ pc = "decode"
  /\ Len(fields) < Wanted
  /\ SetIndices
  /\ m_lastEndIdx' = m_endIdx'
  /\ LET text == Mid(m_inBuffer, m_begIdx, m_endIdx' - m_begIdx)
     IN  /\ fields' = Append(fields, text)
         /\ got' = IF m_connected /\ fields # <<>>
                   THEN Note(got, FieldName(fields, m_serverVersion, got), text)
                   ELSE NoField
  /\ UNCHANGED <<m_inBuffer, m_connected, m_serverVersion, pc, open, stream,
                 delivered, conns, mode>>

Decoded == pc = "decode" /\ Len(fields) = Wanted

Deliver ==
  /\ Len(delivered) < MaxDelivered
  /\ delivered' = Append(delivered, fields)
  /\ pc' = "emit"
  /\ UNCHANGED <<m_inBuffer, m_begIdx, m_endIdx, m_lastEndIdx, message, stream,
                 conns, mode>>

Greeting ==
  /\ ~m_connected
  /\ m_serverVersion' = ToInt(fields[1])
  /\ m_connected' = TRUE
  /\ open' = (open /\ m_serverVersion' >= SERVER_VERSION)
  /\ Deliver

Dispatch ==
  /\ m_connected
  /\ ToInt(fields[1]) \in Dispatched
  /\ Deliver
  /\ UNCHANGED <<m_connected, m_serverVersion, open>>

\* disconnectTWS leaves the indices alone.
DisconnectTWS ==
  /\ m_serverVersion' = 0
  /\ m_connected' = FALSE
  /\ m_inBuffer' = <<>>
  /\ open' = FALSE
  /\ UNCHANGED <<m_begIdx, m_endIdx, m_lastEndIdx>>

UnknownId ==
  /\ m_connected
  /\ ToInt(fields[1]) \notin Dispatched
  /\ DisconnectTWS
  /\ pc' = "emit"
  /\ UNCHANGED <<message, stream, delivered, conns, mode>>

\* What is done with a message whose fields are all decoded.
Handle == Decoded /\ (Greeting \/ Dispatch \/ UnknownId)

\* The application may disconnect from the event loop or in a slot.
Disconnect ==
  /\ pc \in {"idle", "emit"}
  /\ open \/ m_connected
  /\ DisconnectTWS
  /\ UNCHANGED <<pc, message, stream, delivered, conns, mode>>

ClearAlways ==          \* mutant: remnants are dropped
  /\ m_inBuffer' = <<>>
  /\ m_begIdx' = 0 /\ m_endIdx' = 0

KeepBegIdx ==           \* mutant: m_begIdx is not reset
  IF m_endIdx = Len(m_inBuffer) - 1
  THEN m_inBuffer' = <<>> /\ m_begIdx' = 0 /\ m_endIdx' = 0
  ELSE /\ m_inBuffer' = RemoveFront(m_inBuffer, m_endIdx + 1)
       /\ UNCHANGED <<m_begIdx, m_endIdx>>

RemoveMessage ==
  IF m_endIdx = Len(m_inBuffer) - 1 \/ m_endIdx < m_lastEndIdx
  THEN m_inBuffer' = <<>> /\ m_begIdx' = 0 /\ m_endIdx' = 0
  ELSE /\ m_inBuffer' = RemoveFront(m_inBuffer, m_endIdx + 1)
       /\ m_begIdx' = 0
       /\ UNCHANGED m_endIdx

CleanInBuffer ==
  /\ pc = "emit"
  /\ RemoveMessage
  /\ pc' = "loop"
  /\ UNCHANGED <<m_lastEndIdx, m_connected, m_serverVersion, message, open,
                 stream, delivered, conns, mode>>

--------------------------------------------------------------------------------
\* m_lastEndIdx is not initialised, and is assigned before it is read.
Init ==
  /\ m_inBuffer = <<>>
  /\ m_begIdx = 0 /\ m_endIdx = 0 /\ m_lastEndIdx \in {-1, 0, 1}
  /\ m_connected = FALSE
  /\ m_serverVersion = 0
  /\ pc = "idle"
  /\ fields = <<>> /\ got = NoField
  /\ mode \in Modes
  /\ open = FALSE
  /\ toClient = <<>>
  /\ sent = <<>> /\ delivered = <<>>
  /\ taken = 0 /\ whole = mode.messages
  /\ conns = 0

ReadyRead == \E n \in 1..Len(toClient) : OnReadyRead(n)
Read == LoopTop \/ DecodeField \/ Handle \/ CleanInBuffer \/ ReadyReadReturns

Next == \/ Connect \/ \E m \in {mode.greeting} \cup mode.catalog : TwsWrites(m)
        \/ ReadyRead \/ Read \/ Disconnect

Spec == Init /\ [][Next]_vars

\* The event loop delivers what has arrived and a running slot goes on.
FairSpec == Spec /\ WF_vars(ReadyRead) /\ WF_vars(Read)

--------------------------------------------------------------------------------
\* However TCP cuts the stream, the messages before the first one that it
\* splits are delivered as they were sent, in order and once each, whatever
\* the reader made of the connection before.
InOrderUntilSplit ==
  \A i \in DOMAIN delivered :
    i <= whole => i <= Len(sent) /\ delivered[i] = sent[i]

\* disconnectTWS does not touch m_begIdx and may run in a slot, with m_begIdx
\* in the middle of a buffer it empties; every message, of this connection or
\* of the next, is still decoded from the start of the buffer.
EveryMessageFromTheStart == pc \in {"idle", "loop"} => m_begIdx = 0

\* onReadyRead drops a NUL at the head of the buffer; before the first message
\* that is split there is none to drop, since each layout takes exactly the
\* fields of its message, up to its last NUL, and a message begins with its id.
\* So the drop never eats a field, nor hides a layout that stops one short.
NothingDroppedUntilSplit ==
  [][LoopTop /\ Len(delivered) < whole => UNCHANGED m_inBuffer]_vars

\* With reads that end at message ends, the reader implements the channel.
Channel == INSTANCE IBQtChannel
  WITH Message   <- Messages,
       sent      <- IF mode.aligned THEN sent ELSE <<>>,
       delivered <- IF mode.aligned THEN delivered ELSE <<>>
ImplementsChannel == Channel!Spec

\* With such reads nothing that TWS sends is stuck in a buffer: the reader
\* catches up with what was sent unless the session ends.
EverythingDelivered ==
  mode.aligned /\ sent # <<>> ~> ~open \/ delivered = sent

\* Refuted: "m_lastEndIdx is used to fix continued parsing after raw data has
\* actually ended", says cleanInBuffer; but when the last field has run past
\* the end of the data, the buffer is kept and parsed again.
NoParsingPastTheEnd ==
  [][CleanInBuffer /\ m_endIdx = -1 => m_inBuffer' = <<>>]_vars
================================================================================
