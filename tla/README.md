# Verification of ibqt

ibqt is a port of the Interactive Brokers API to Qt: one class, `IBQt`
(`lib/ibqt.cpp`), that talks to Trader Workstation (TWS) over a TCP socket.  The
application calls request functions; what TWS answers arrives as Qt signals.
This directory holds TLA+ models of that class, the TLC configurations that
check them and TLAPS proofs of their main properties.

## Inventory

| Component | State | Operations | Correct when |
|---|---|---|---|
| Session (`connectToTWS`, `disconnectTWS`, handshake, socket slots) | `m_connected`, `m_lock`, `m_serverVersion`, `m_clientId`, the socket, the call stack | `connectToTWS` and its wait in `delay()`, `disconnectTWS`, the greeting in `onReadyRead`, `onManagedAccounts`, `onSocketError` | TWS reads version, then client id, then requests; nothing of an old connection reaches a new one; the wait ends when the session is up |
| Stream reader (`onReadyRead` loop, `decodeField`, `cleanInBuffer`) | `m_inBuffer`, `m_begIdx`, `m_endIdx`, `m_lastEndIdx` | `readAll`, the loop, one step per field | messages are delivered whole, once, in order, however TCP cuts the stream |
| Inbound messages (the switch of `onReadyRead`) | none of its own | 43 message layouts, one or more signals each | every message consumes exactly its own fields, at every version |
| Output path (`encodeField`, `encodeFieldMax`, `send`) | `m_outBuffer` | append a field; write the buffer | bytes reach the connection they were encoded for; a value is read as it was written |
| Requests (23 public functions) | none | gates on `m_connected` and `m_serverVersion`, then fields | a request is refused as a whole or sent with all that was asked |
| Order and ticker ids | `m_orderId`, `m_tickerId` | `getOrderId`, `setOrderId`, `reqIds`, `getTickerId` | a new order never gets the id of another one |
| Data records (contract, order, execution, bar, tick) | none | constructors, the values that mean "unset" | what is placed comes back, and placing what came back changes nothing |
| Error table, test program | none | none | - |

The components share one object and one thread.  The application calls into the
object; the object emits signals whose slots are application code, which may
call the object again in the middle of `onReadyRead`; `connectToTWS` runs the
event loop in `delay()`, so everything may run inside it as well.  The hard
behaviours are therefore re-entrance (which call runs inside which), what a call
leaves behind for the next connection, the cutting of a byte stream that has no
message ends, waits that nothing ends, and the agreement of code that is far
apart: the check of an argument with its encoding, the encoding of an order with
the decoding of the same order, an id with the ids that TWS already has.
`PROJECT.json` lists these hazards, each at its line, with the properties that
would catch it going wrong.  Some have none: a `connectToTWS` on a socket that is
already open, a slot that reconnects before an unknown id closes the session, the
growth of `m_outBuffer`, an `UnderComp` kept after its slot, signals that come
after a disconnect.  The models do what the code does there, and the notes say why
nothing is claimed.

## Modules

* `IBQtSession`: the session.  Actions are the calls of the application
  (`ConnectToTWS`, `DisconnectTWS`, `Request`), the parts of `onReadyRead`
  between two emits (`OnReadyRead`, `Greeting`, `Identify`, `ManagedAccounts`,
  `Data`, `VerifyCompleted`, `UnknownId`, `CloseOnUnknown`, `SlotsReturn`,
  `ReadyReadReturns`), the socket (`OnConnected`, `ConnectCloses`, `BytesGone`,
  `OnSocketError`) and TWS (`TwsReads`, `TwsPushes`).  The variable `stack` is
  the call stack: a call is pushed when it may be interrupted, an application
  slot is the state between an emit and the return to the loop.  A request other
  than its frame on the wire, and a data message other than the signal, have no
  content here; one signal stands for all signals of its message, since any
  number of calls may be made before the slot returns.  `conn`, `owner`, `fresh`,
  `clean` and `returnedUp` are history.  Qt (`disconnectFromHost`, the states of
  the socket, `readyRead` not being emitted inside its own slot) and TWS are
  modelled from how the code uses them.
* `IBQtDefines`: the server versions of `ibdefines.h`.
* `IBQtInbound`: the layouts of the 43 messages of the switch.  A layout is a
  sequence of field names that depends on the id, the version of the server and
  the fields decoded before it (the message version, counts, group openers).
* `IBQtReader`: the reader, one action per field, over the layouts.  The stream is
  a sequence of tokens and NULs; indices are 0-based and `IndexOfNul`, `Mid` and
  `RemoveFront` do what `QByteArray` does, out of range too.  A text is one token,
  so a split falls before or after a NUL and not inside a text.  A mode says what
  TWS sends and whether `readAll()` returns whole messages only.
* `IBQtChannel`: what the reader promises, an in-order channel.  `IBQtReader`
  implements it when reads end at message ends.
* `IBQtRequests`: the 23 request functions.  A call is the set of arguments it
  sets to something else than their default; an argument that stands for a group
  (`secIdType` and `secId`, the two delta neutral groups, the scale parameters,
  the scale table, the clearing pair) is set when a member is, since the members
  share gate and place.  `ArgGates` and `RequestGate` are the checks of
  `m_serverVersion` in front of the encoding, `Fields` is the encoding: a
  sequence of named fields whose presence depends on the version and on other
  arguments, as in the code; fields always present are all `"plain"`.  Lists have
  no or one element.  Nothing is handled inside a call, so `Request` is one step;
  it reads `m_connected` and `m_serverVersion` and writes neither, so one call per
  session shows what any number does.  `Greeting` and `DisconnectTWS` are what
  requests see of the session, which `IBQtSession` models.
* `IBQtOrders`: the life of an order and its id: `getOrderId`, `setOrderId`,
  `reqIds`, `placeOrder` with all its fields and their values, `OPEN_ORDER` and
  `NEXT_VALID_ID` with the conversions on both sides (`Write`, `Read`), lost
  connections and restarts of the application.  The application places an order,
  is told what TWS has of it (a signal whose slot may run on), and places what it
  was told again.  External here are TWS, which gives back the texts that it got,
  in the version of `OPEN_ORDER` that belongs to its own version (`OpenVersion`),
  and the discipline of the application, of which there are two (`raises`).  One
  takes no id for a new order while an answer to its questions is outstanding
  (`Asked`), and its slot of `nextValidId` sets the counter to each answer.  The
  other takes ids at any time after the first answer, so that answers come late,
  and its slot only raises the counter (`SetOrderId`).  An application with neither
  gets ids again, which the code does nothing against; the hazards say so.
* `IBQtSession_proofs`, `IBQtWire_proofs`, `IBQtRequests_proofs`,
  `IBQtRefusal_proofs`, `IBQtComplete_proofs`, `IBQtInbound_proofs`,
  `IBQtReader_proofs`, `IBQtOrders_proofs`: theorems.
* `MCIBQtSession`, `MCIBQtReader`, `MCIBQtRequests`, `MCIBQtOrders`: values for the
  model checker.

How they compose: `IBQtReader` and `IBQtOrders` are built on `IBQtInbound`, so
the layout that the reader cuts a stream by is the one that an order comes back
in; `IBQtInbound`, `IBQtRequests` and `IBQtOrders` share `IBQtDefines`.
`IBQtSession` takes whole messages, which is what `ImplementsChannel` gives it
when reads end at message ends; when they do not, the reader run shows what is
left.  Operators marked "mutant" are deliberate mistakes in the definition that
follows them; each is used to show that a property can fail.

## Runs

| Run | Checks | Shows |
|---|---|---|
| `session` | `TypeOK`, `RetainedOnlyWhileDown`, `WireOrder`, `NoStaleFrames`, `NoInvalidId`, `GreetingFirst`, `ResetHolds`, `NestedWaitIsForever`, `LockOpensAfterIdentity` | safety with calls from anywhere, faults, old servers |
| `session_wait` | `ConnectReturnsEventually`, `WaitsOnlyOnDownSocket` | `connectToTWS` returns while the socket stays up; on a fresh connection only a dead socket makes it wait for ever |
| `session_old_server` | `RequestsOnlyAtVersion38` | refuted, finding 1 |
| `session_reconnect` | `ReturnsConnected` | refuted, finding 2 |
| `reader` | `TypeOK`, `InOrderUntilSplit`, `EveryMessageFromTheStart`, `NothingDroppedUntilSplit`, `ImplementsChannel`, `EverythingDelivered` | a stream cut anywhere is right up to the first split message, and no field of it falls to the NUL that the loop drops; with whole messages the reader refines `IBQtChannel`, for every layout, and nothing is stuck |
| `reader_past_end` | `NoParsingPastTheEnd` | refuted, finding 3 |
| `requests` | `TypeOK`, `CheckedArgumentsTravel`, `CurrentServersLoseNothing`, `RefusedForCause`, `ShowsBeforeItShifts` | every request at every version: what is accepted arrives, what is refused could not have, and the fields can be told apart |
| `requests_known` | `KnownToServer` | refuted, findings 4 and 5 |
| `requests_scale` | `NumComponentsIsEmpty` | refuted, finding 6 |
| `orders` | `TypeOK`, `NewOrdersGetNewIds`, `OrderComesBack`, `ModifyDoesNotDrift` | ids over lost connections, restarts and late answers; orders there and back at every version |
| `orders_volatility` | `VolatilityTypeAsDocumented` | refuted, finding 7 |

Deadlock is not an error in the runs of the session, the reader and the orders: an
application that makes no more calls and a TWS that sends nothing stop the system.

### Bounds

`session`: two client ids, two connections, four calls, one message pushed by TWS
besides the two it answers an identification with.  A session needs one call, a
disconnect and a second session two more, and the fourth is any call inside or
between them: a retained message, a reset in a slot, a nested wait, each happens
with three.  Versions 37 (too old), 69 (a bare client id) and 70 (`START_API`)
are the three ways the handshake goes.  `session_wait` has one client id, and
slots that do not call `connectToTWS`.

`reader`: three kinds of modes.  Short messages (two fields, three, one that
ends in an empty field, an unknown id), cut anywhere and at message ends,
three per connection over two connections, so that what one connection leaves
meets the next.  A message of each of the 43 layouts, at each version where its
layout changes and with lists of different lengths, in reads that end at message
ends, two behind the greeting, so that one field too many or too few shows in the
second.  Two long messages cut anywhere.  `MaxDelivered` is six, more than there
are messages, since a split message is delivered again and again.

`requests`: the versions are 38 and all those at which a check or an encoding
changes.  A call sets up to three arguments: whether an argument travels depends
on at most two others (an exempt code of a leg needs the leg and a `BAG`), and
`ShowsBeforeItShifts` compares calls that differ in one.  The runs that refute
need one argument.

`orders`: seven orders (a value of its own in every field, the defaults, values
out of range, values at its edge, zeros, groups that are open and empty, members
of groups that are closed) at every version where something changes, with two
placements, one question and one lost connection: an order placed, received and
placed again.  For the ids one plain order with four placements, two questions
and two lost connections, by an application that waits for its answers, and with
three placements, two questions and one lost connection by one that raises its
counter: a late answer takes an order placed before the question is read, one
after it, and one after the answer.  An int has 24 bits, so that a long of the model does
not fit; a double has the six digits it is written with.  These are about 360,000
states.

### Fairness

The session has `WF` of the return of `connectToTWS`, of reading, of the handlers,
of the socket closing or connecting, and of TWS reading what it was sent: the
event loop runs all the time, in `main()` or in `delay()`, and a handler that has
started runs to its end.  Calls, faults and pushed messages are not forced.  The
premise of `ConnectReturnsEventually` is that the socket does not go down again
once it was opened.  Liveness is checked for applications whose slots do not call
`connectToTWS`: such a call in `onReadyRead` never returns, which
`NestedWaitIsForever` states.  The reader has `WF` of `readyRead` and of the loop.
Requests and orders have no liveness of their own: TWS owes no answer.

### Findings

1. A server older than version 38 gets `disconnectFromHost()`, but the session is
   marked connected and `twsConnected` is emitted: requests are encoded with
   `m_serverVersion < 38`, which comments in `placeOrder` call impossible.
2. `m_lock` is never set again: `connectToTWS` returns at once on every session
   after the first, before the session is up.
3. `m_lastEndIdx` does not do what its comment says: it always equals `m_endIdx`,
   and a split message is parsed again.
4. `excerciseOptions` says that `conId` is not supported by servers below version
   68, but refuses only `tradingClass`: a call with a `conId` is sent without it.
5. `reqMarketDataType` checks the version of another request (50, not 55) and
   `calculateImpliedVolatility` checks none (49): older servers are sent both.
6. The empty field that `placeOrder` means to send for `scaleNumComponents` to
   servers 38 and 39 reads `1`: the literal `""` converts to `bool`.
7. A `volatilityType` that is not set is written as an empty field
   (`encodeFieldMax`, line 841) and read as 0 (`decodeField`, line 1817), which is
   neither of the two values nor `UNSET_INTEGER`; an order that is placed again as
   it was received asks for type 0.  `referencePriceType` (line 1843) is the same.

What no check guards and an older server does not get (`smartComboRoutingParams`
below 57, `clearingAccount` below 39, the option lists below 70, `tradingClass` of
`calculateImpliedVolatility` below 68) is dropped in silence; nothing in the
repository promises otherwise, so this is listed as a hazard, and
`CurrentServersLoseNothing` bounds it to servers below version 70.

## Proofs

All theorems are for any values of the constants that the named assumptions allow.

`IBQtSession_proofs` (`SessionAssumption`: client ids are natural numbers, no
server version is the number of a message):

* `TypeCorrect`: `Spec => []TypeOK`.
* `RetainedOnlyWhileDownHolds`: inductive as it stands.
* `NestedWaitIsForeverHolds`: with the invariant that `onReadyRead` is on the call
  stack at most once (`OneReadyRead`) and that `m_lock` is set while a
  `connectToTWS` lies above it.  The lock is opened only by a handler at the top
  of the stack, and there is no second one.
* `ResetHoldsHolds` and `NoInvalidIdHolds`.  While `m_clientId` is -1 there is no
  server version (so `Identify` sends nothing), no connected session (so
  `VerifyCompleted` sends nothing), and no socket or input that could bring them
  back before the next `connectToTWS`.

`IBQtWire_proofs` (same assumption):

* `WireOrderHolds`, `NoStaleFramesHolds`.  They are not inductive: what the next
  frame is depends on what `disconnectTWS` left (`NothingLeft`), on the versions in
  flight, each of which leads to an identification (`Versions`), and on whether the
  client id has been sent or the session is in the slots of `twsConnected`
  (`WireInv`).
* `LockOpensAfterIdentityHolds`, with `UpInv`: TWS sends its account list only after
  it has read an identification, and none is left from before.
* `GreetingFirstHolds`, with `GreetingInv`: while the object is not connected a
  slot has nothing behind its message, and the first message to come is a greeting.

`IBQtRequests_proofs`, `IBQtRefusal_proofs` and `IBQtComplete_proofs`
(`RequestsAssumption`: versions are positive, calls set arguments that their
request has, and what belongs to a leg is set only in a call that has the leg):

* `CheckedArgumentsTravelHolds`.  The order is cut into the eleven parts the code
  writes, each part has a lemma that says which checked arguments it carries and
  from which version (`PlaceOrderCarries`), and `Joined` (the fields of a
  concatenation are those of its parts) puts them together.  `NotRefusedCarries`
  compares this with the gates.
* `RefusedForCauseHolds`, the converse: below the version of its gate no part of
  the message has the argument (`Without`, `JoinedWithout`).  The one exception is
  the version between `SSHORTX_OLD` and `SSHORTX`.
* `CurrentServersLoseNothingHolds`.  The arguments with a check come from the first
  proof, whose gates all lie at or below `LINKING`; the ones without are followed
  through their part (`OrderComboLegsHave`, `OrderScaleHas`, ...), where every
  condition on the version holds.
* `TypeCorrect`, for which every message carries at least its id.

* `ShowsBeforeItShiftsHolds`, in `IBQtComplete_proofs`.  Two messages tell a call
  apart (`Tells`) when they are the same or first differ in a field both have in
  that place.  A part that depends on whether an argument opens a group may only
  come behind a field that shows it: `Starts` says of a part that it shows the
  argument, `Goes` that it need only tell when another argument differs.  The
  lemmas about joining (`StartsThenGoes`, `TellsThenStarts`, `OpenerTells`) carry
  this over the parts of every request, with `BAG` as the opener of most.

`IBQtInbound_proofs` has no state.  `LayoutAgrees`: the layout of a message of any
of the 43 kinds, computed from a part of the fields that decide it, agrees with
the layout computed from all of them, up to the next deciding field that is not
known.  So `NextField`: what the reader takes for the next field, which it computes
from what it has decoded so far, is the next field of the message.

`IBQtReader_proofs` (`ModeAssumption`: the messages of a catalogue have the
fields of their layout; `MaxDeliveredAssumption`), for any catalogue, any number
of connections and any cuts:

* `InOrderUntilSplitHolds`, by `ReaderInv`: until the first split message, what is
  behind `m_endIdx` in `m_inBuffer`, followed by what is in flight, is the wire of
  exactly the messages that were not delivered (`Carries`).  In the middle of a
  message the buffer also has what was decoded of it, the decoded fields are those
  that were sent, and the indices are at the end of the last one (`InDecode`,
  `InEmit`).  A split is the first moment when this may fail, and after a split the
  invariant only keeps what was delivered before it.
* `TypeOKHolds`, which needs it: the indices stay in the buffer until the split.
* `EveryMessageFromTheStartHolds`.
* `NothingDroppedUntilSplitHolds`.  `onReadyRead` asks in a comment (line 1437) why
  messages start with a NUL, and drops it.  Until the first split message none
  does: every layout takes its message up to the last NUL (`NextIsWhole`), so the
  drop neither eats a field nor hides a layout that stops one field short.
* `ReaderImplementsChannel`: with reads that end at message ends there is no split,
  and every step is one of `IBQtChannel` or stutters.

The wire of a sequence of messages and its length are recursive functions.  The
induction theorems of the library take operators as parameters, so the proofs
have their own over sets of numbers and of sequences (`Induction`,
`SeqInduction`), from the well-foundedness of `<`, and from them what the recursive
functions return (`Recursion`, in `IBQtInbound_proofs`; the powers of ten of
`IBQtOrders` need it too).  The bytes of a message alternate between texts and
NULs (`Alternating`), which is why `indexOf` finds the end of a field at the next
NUL, and `mid` and `remove` of a wire are the wires of the rest.  `ReaderInv` was
checked by TLC on the catalogue of the run before it was proved.

`IBQtOrders_proofs` (`OrdersAssumption`: servers are of version 38 or newer, and an
int is wide enough for one id per placed order; `ValuesAssumption`: an order has
texts in its text fields and numbers in the others, its lists have no or one
element, and `DBL_MAX` has more digits than are written):

* `TypeCorrect`, and `NewOrdersGetNewIdsHolds`.  Which id is safe moves: it is
  the counter when no answer is outstanding (`CounterAhead`), the last answer in
  flight when one is (`AnswerAhead`), and nobody's while a `reqIds` is still on its
  way, behind which no new order is sent (`NoneBehindReqIds`).  With a counter that
  is only raised it is the counter from the first answer on, and before that every
  answer in flight (`RaisedAhead`).  `Bounded` keeps ids
  within an int, where `Narrow` is the identity (`NarrowFits`), and `Known` says
  that an order that is modified is in the book.  `IdInv` is their conjunction.
* `OrderComesBackHolds` and `ModifyDoesNotDriftHolds`.  The state part is small
  (`OrderInv`: what is in flight, in the book and held is what encoding and
  decoding make of the order that was placed); the work is in three questions
  about the operators.  What happens to one value: `Narrow` and `Round` lose
  nothing in their range and lose the rest once (`NarrowTwice`, `RoundTwice`), and
  a field that is read is written again with the same text (`ThereAndBack`).
  Which fields come back: those that decide what follows are read by `OPEN_ORDER`
  as `placeOrder` sent them (`Decides`), so every field that was sent is in one of
  its groups from version 68 on (`AllComeBack`).  And which fields are sent again:
  the received order opens no group that was closed (`BackIsOrder`, `GarbageIs`
  for an `UnderComp` that was overwritten), so it sends no field that was not sent
  before (`FieldsAmong`), and of those `Again` says that their text is the same.
  `OrderInv` was checked by TLC on the orders of the run before it was proved.

Numbers and tokens share the values of a text: `FirstWord` separates them.
`OrdersAssumption` asks that no version is a token, and `ValuesAssumption` that the
one double that opens a group, `scalePriceIncrement`, is none when it is written.

Only model-checked is liveness (`ConnectReturnsEventually`,
`WaitsOnlyOnDownSocket`, `EverythingDelivered`), for which the provers have no
rules; the runs that refute are model-checked by nature.

## Plan

1. `IBQtSession`, `IBQtReader`, `IBQtChannel`, `IBQtRequests`, `IBQtInbound`,
   `IBQtOrders` with their runs (done).
2. Proofs of the wire, the refusals, what current servers get, that fields can be
   told apart, the ids, the layouts, the stream and its channel, and of the values
   of an order there and back (done).
3. Left: reads that split inside a text; execution reports and positions with their
   values, as orders have.

## Not modelled

* Partial writes in `send()` (line 108): the `write()` of a `QTcpSocket` is
  buffered and takes all or fails, so the case does not arise.
* `getTickerId`, which is `m_tickerId++`: a counter of its own that nothing sets,
  resets or reads.
* Records other than orders and contracts, which have fields and no behaviour; the
  error table, which is labels; the test program, an application whose expectation
  is the run `session_reconnect`.
* What `calculateImpliedVolatility` should send where other requests send the
  security type: nothing in the repository says.
* Formatting of numbers beyond width and digits, logging, and threads (Qt delivers
  everything on one).
