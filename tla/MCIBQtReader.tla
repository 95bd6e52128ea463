----------------------------- MODULE MCIBQtReader -----------------------------
(* Values for the model checker.  70 and 900 are no message ids.           *)
EXTENDS IBQtReader, TLC

Greet(sv) == << <<sv>>, <<900>> >>

\* CURRENT_TIME, ACCT_DOWNLOAD_END with an empty account, OPEN_ORDER_END and a
\* message that the dispatcher does not know.
CurrentTime   == << <<49>>, <<1>>, <<900>> >>
ShortMessages == {CurrentTime, << <<54>>, <<1>>, <<>> >>, << <<53>>, <<1>> >>,
                  << <<900>> >>}

\* A message from the values of its deciding fields.  The texts of the others
\* tell their places; some are empty.
Compose(id, sv, values) ==
  LET layout == Layout(id, sv, values)
  IN  << <<id>> >> \o
      [i \in DOMAIN layout |->
         IF layout[i] \in DOMAIN values THEN values[layout[i]]
         ELSE IF i % 5 = 3 THEN <<>> ELSE <<100 + i>>]

\* The fields that decide, from the version of the message, one more number,
\* and whether the fields that open a group are set.
Counts  == {"secIdListCount", "itemCount", "numberOfElements", "tickTypeInt",
           "comboLegsCount", "orderComboLegsCount", "algoParamsCount",
           "smartComboRoutingParamsCount", "underCompPresent"}
Opening == {"deltaNeutralOrderType", "hedgeType", "algoStrategy", "scalePriceIncrement"}
ValuesOf(version, n) ==
  "version" :> <<version>> @@ [name \in Counts |-> <<n>>]
    @@ [name \in Opening |-> IF n = 0 THEN <<>> ELSE <<5>>]

\* Each message that depends on versions, counts and groups, at the versions
\* where its layout changes and on the server versions that matter to it:
\* <<id, server version, version, number>>.
Rich ==
  {<<21, 70, 5, 12>>, <<21, 70, 5, 13>>, <<21, 70, 6, 12>>, <<7, 39, 6, 0>>}
    \cup {<<7, 40, v, 0>> : v \in 6..8}
    \cup {<<id, 70, v, 1>> : id \in {10, 18}, v \in 2..8}
    \cup {<<10, 70, 8, 0>>, <<18, 70, 6, 2>>}
    \cup {<<11, 70, v, 0>> : v \in 5..10}
    \cup {<<id, 70, 3, n>> : id \in {17, 20}, n \in 0..2}
    \cup {<<61, 70, v, 0>> : v \in 1..3}
    \cup {<<5, 51, 22, 0>>, <<5, 70, 19, 0>>, <<5, 70, 32, 0>>}
    \cup {<<5, 70, v, 1>> : v \in 19..32} \cup {<<5, 70, 32, 2>>}

\* The fixed layouts.
Flat == {<<id, 70, 1, 0>> : id \in UNION {DOMAIN table : table \in Fixed}}

Cut == {<<17, 70, 3, 1>>, <<21, 70, 6, 12>>}

Mode(sv, catalog, aligned, messages, connections) ==
  [greeting |-> Greet(sv), catalog |-> catalog, aligned |-> aligned,
   messages |-> messages, connections |-> connections]

Long(r) == Compose(r[1], r[2], ValuesOf(r[3], r[4]))

MCModes ==
  {Mode(70, ShortMessages, a, 3, 2) : a \in BOOLEAN}
    \cup {Mode(r[2], {Long(r)}, TRUE, 3, 1) : r \in Rich \cup Flat}
    \cup {Mode(70, {Long(r)}, FALSE, 2, 1) : r \in Cut}
================================================================================
