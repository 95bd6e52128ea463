------------------------------ MODULE IBQtChannel ------------------------------
(***************************************************************************)
(* What the inbound side of an IBQt object promises the application: the  *)
(* messages of a connection are handed over whole, once each and in the    *)
(* order TWS sent them, and a new connection starts afresh.                *)
(***************************************************************************)
EXTENDS Naturals, Sequences

CONSTANT Message

VARIABLES
  sent,       \* messages TWS has written on the connection
  delivered   \* messages the application has been given

vars == <<sent, delivered>>

Init == sent = <<>> /\ delivered = <<>>

Write(m) == sent' = Append(sent, m) /\ UNCHANGED delivered

Deliver ==
  /\ Len(delivered) < Len(sent)
  /\ delivered' = Append(delivered, sent[Len(delivered) + 1])
  /\ UNCHANGED sent

Reconnect == sent' = <<>> /\ delivered' = <<>>

\* Without "sent' # sent", which Write(m) implies, the model checker would try
\* every message at every step.
Next == (sent' # sent /\ \E m \in Message : Write(m)) \/ Deliver \/ Reconnect

Spec == Init /\ [][Next]_vars
================================================================================
