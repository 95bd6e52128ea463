---------------------------- MODULE MCIBQtRequests ----------------------------
(* Calls for the model checker: every set of at most three arguments of a   *)
(* request, or of at most one for the runs that look for one outcome.       *)
EXTENDS IBQtRequests

UpToOneOf(S) == {u \in {{}} \cup {{a} : a \in S} : WellFormed(u)}

UpToThreeOf(S) ==
  {u \in {{}} \cup {{a, b, c} : a, b, c \in S} : WellFormed(u)}

\* A definition of its own, so that TLC computes it once.
OrdersUpToThree == UpToThreeOf(OrderArguments)

UpToOne == [ req \in Requests |-> UpToOneOf(Arguments(req)) ]

UpToThree ==
  [ req \in Requests |->
      IF req = "placeOrder" THEN OrdersUpToThree ELSE UpToThreeOf(Arguments(req)) ]

\* The versions at which a check or an encoding changes, and the oldest.
AllVersions == {38} \cup Range(MinVer)
================================================================================
