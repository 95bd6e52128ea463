--------------------------- MODULE IBQtInbound_proofs ---------------------------
(***************************************************************************)
(* Proofs about the layouts of IBQtInbound: a field that decides comes     *)
(* before what it decides, so what is decoded of a message tells what      *)
(* comes next.                                                             *)
(***************************************************************************)
EXTENDS IBQtInbound, SequenceTheorems, WellFoundedInduction, TLAPS

--------------------------------------------------------------------------------
(* Numbers and recursive functions.                                        *)

\* A set of numbers that is not empty has a least one.
LEMMA Least ==
  ASSUME NEW S \in SUBSET Nat, S # {}
  PROVE  \E i \in S : \A j \in S : i <= j
<1>1. PICK i \in S : \A j \in S : ~ (<<j, i>> \in OpToRel(<, Nat))
  BY WFMin, NatLessThanWellFounded
<1>2. \A j \in S : ~ (j < i)
  BY <1>1 DEF OpToRel
<1> QED
  BY <1>2

\* Induction, for a set of numbers.
LEMMA Induction ==
  ASSUME NEW P \in SUBSET Nat, 0 \in P, \A n \in P : n + 1 \in P
  PROVE  P = Nat
<1> DEFINE Rest == Nat \ P
<1> SUFFICES ASSUME Rest # {}
             PROVE  FALSE
  OBVIOUS
<1>1. PICK k \in Rest : \A l \in Rest : ~ (<<l, k>> \in OpToRel(<, Nat))
  <2>1. Rest \subseteq Nat
    OBVIOUS
  <2> HIDE DEF Rest
  <2> QED
    BY <2>1, WFMin, NatLessThanWellFounded
<1>2. \A l \in Rest : ~ (l < k)
  BY <1>1 DEF OpToRel
<1>3. k - 1 \in P
  BY <1>2
<1> QED
  BY <1>3

\* f has the first value at 0, and step gives what follows each value.
Steps(n, S)             == [1..n -> [S -> S]]
Results(n, S)           == [0..n -> S]
Obeys(f, n, first, step) == f[0] = first /\ \A i \in 1..n : f[i] = step[i][f[i - 1]]

\* There is such a function on 0..n.
LEMMA Recursion ==
  ASSUME NEW S, NEW n \in Nat, NEW first \in S, NEW step \in Steps(n, S)
  PROVE  \E f \in Results(n, S) : Obeys(f, n, first, step)
<1> USE DEF Steps, Results, Obeys
<1> DEFINE Upto(k, f) == f[0] = first /\ \A i \in 1..k : f[i] = step[i][f[i - 1]]
           P == {k \in Nat : k <= n => \E f \in [0..k -> S] : Upto(k, f)}
<1>1. 0 \in P
  <2>1. [i \in 0..0 |-> first] \in [0..0 -> S] /\ Upto(0, [i \in 0..0 |-> first])
    OBVIOUS
  <2> QED
    BY <2>1
<1>2. ASSUME NEW k \in P, k + 1 <= n
      PROVE  \E f \in [0..(k + 1) -> S] : Upto(k + 1, f)
  <2>1. PICK f \in [0..k -> S] : Upto(k, f)
    BY <1>2
  <2> DEFINE g == [i \in 0..(k + 1) |-> IF i = k + 1 THEN step[k + 1][f[k]] ELSE f[i]]
  <2>2. step[k + 1][f[k]] \in S
    BY <1>2
  <2>3. g \in [0..(k + 1) -> S]
    BY <2>2
  <2>4. k \in Nat /\ g[0] = first
    BY <1>2, <2>1
  <2>5. ASSUME NEW i \in 1..(k + 1)
        PROVE  g[i] = step[i][g[i - 1]]
    <3>1. CASE i = k + 1
      BY <2>4, <3>1
    <3>2. CASE i # k + 1
      BY <2>1, <2>4, <3>2
    <3> QED
      BY <3>1, <3>2
  <2> HIDE DEF g
  <2> QED
    BY <2>3, <2>4, <2>5
<1>3. ASSUME NEW k \in P
      PROVE  k + 1 \in P
  <2>1. k + 1 <= n => \E f \in [0..(k + 1) -> S] : Upto(k + 1, f)
    BY <1>2
  <2>2. k + 1 \in Nat
    OBVIOUS
  <2> QED
    BY <2>1, <2>2, Zenon
<1>4. P \in SUBSET Nat
  OBVIOUS
<1> HIDE DEF P
<1>5. n \in P
  BY <1>1, <1>3, <1>4, Induction
<1> QED
  BY <1>5 DEF P

\* Two functions that start alike and go on alike.
LEMMA Alike ==
  ASSUME NEW n \in Nat, NEW f, NEW g, f[0] = g[0],
         \A i \in 1..n : f[i - 1] = g[i - 1] => f[i] = g[i]
  PROVE  f[n] = g[n]
<1> DEFINE P == {i \in Nat : i <= n => f[i] = g[i]}
<1>1. 0 \in P
  OBVIOUS
<1>2. P \in SUBSET Nat
  OBVIOUS
<1>3. ASSUME NEW i \in P
      PROVE  i + 1 \in P
  <2>1. i + 1 <= n => f[i + 1 - 1] = g[i + 1 - 1]
    OBVIOUS
  <2>2. i + 1 <= n => f[i + 1] = g[i + 1]
    BY <2>1
  <2> QED
    BY <2>2
<1> HIDE DEF P
<1>4. n \in P
  BY <1>1, <1>2, <1>3, Induction
<1> QED
  BY <1>4 DEF P

--------------------------------------------------------------------------------
(* Layouts.                                                                *)

\* The layouts s and t are alike up to a field that decides and that is not
\* among the known ones, or all along.
Parts(s, t, known)  == \E d \in 1..Len(s) : /\ d <= Len(t) /\ t[d] \in Deciding \ known
                                            /\ \A i \in 1..d : s[i] = t[i]
Agrees(s, t, known) == s = t \/ Parts(s, t, known)

\* Some of the fields that decide, with their texts.
Knows(part, all) ==
  /\ DOMAIN part \subseteq DOMAIN all
  /\ \A name \in DOMAIN part : part[name] = all[name]
  /\ \A name \in DOMAIN all : all[name] \in Text

\* A layout is a finite sequence, of whatever names.
IsLayout(s) == s \in Seq(Range(s))

--------------------------------------------------------------------------------
(* Joining layouts.                                                        *)

\* A finite sequence is a layout, whatever it was made of.
LEMMA LayoutOf == ASSUME NEW S, NEW s \in Seq(S) PROVE IsLayout(s)
<1>1. s \in [1..Len(s) -> S] /\ Len(s) \in Nat /\ DOMAIN s = 1..Len(s)
  BY LenProperties
<1>2. s \in [1..Len(s) -> Range(s)]
  BY <1>1 DEF Range
<1> QED
  BY <1>1, <1>2, SeqDef DEF IsLayout

\* Two layouts joined are one, whose fields are those of both.
LEMMA LayoutJoin ==
  \A s, u :
    IsLayout(s) /\ IsLayout(u)
      => /\ IsLayout(s \o u) /\ Len(s) \in Nat /\ Len(u) \in Nat
         /\ Len(s \o u) = Len(s) + Len(u)
         /\ \A i \in 1..(Len(s) + Len(u)) :
              (s \o u)[i] = IF i <= Len(s) THEN s[i] ELSE u[i - Len(s)]
<1> SUFFICES ASSUME NEW s, NEW u, IsLayout(s), IsLayout(u)
             PROVE  /\ IsLayout(s \o u) /\ Len(s) \in Nat /\ Len(u) \in Nat
                    /\ Len(s \o u) = Len(s) + Len(u)
                    /\ \A i \in 1..(Len(s) + Len(u)) :
                         (s \o u)[i] = IF i <= Len(s) THEN s[i] ELSE u[i - Len(s)]
  OBVIOUS
<1> DEFINE S == Range(s) \cup Range(u)
<1>1. s \in Seq(S) /\ u \in Seq(S)
  BY SeqMonotonic DEF IsLayout
<1> HIDE DEF S
<1>2. /\ s \o u \in Seq(S) /\ Len(s \o u) = Len(s) + Len(u)
      /\ \A i \in 1..(Len(s) + Len(u)) :
           (s \o u)[i] = IF i <= Len(s) THEN s[i] ELSE u[i - Len(s)]
  BY <1>1, ConcatProperties
<1>3. IsLayout(s \o u)
  BY <1>2, LayoutOf
<1> QED
  BY <1>1, <1>2, <1>3, LenProperties

\* One field is a layout.
LEMMA SingleName == \A name : IsLayout(<<name>>)
<1>1. \A name : <<name>> \in Seq({name})
  OBVIOUS
<1> QED
  BY <1>1, LayoutOf

\* Layouts that part do so whatever follows.
LEMMA PartsFirst ==
  \A known, s, t, u, v :
    IsLayout(s) /\ IsLayout(t) /\ IsLayout(u) /\ IsLayout(v) /\ Parts(s, t, known)
      => Parts(s \o u, t \o v, known)
<1> SUFFICES ASSUME NEW known, NEW s, IsLayout(s), NEW t, IsLayout(t), NEW u, IsLayout(u),
                    NEW v, IsLayout(v), Parts(s, t, known)
             PROVE  Parts(s \o u, t \o v, known)
  OBVIOUS
<1>1. PICK d \in 1..Len(s) : /\ d <= Len(t) /\ t[d] \in Deciding \ known
                             /\ \A i \in 1..d : s[i] = t[i]
  BY DEF Parts
<1>2. /\ Len(s) \in Nat /\ Len(t) \in Nat /\ Len(u) \in Nat /\ Len(v) \in Nat
      /\ Len(s \o u) = Len(s) + Len(u) /\ \A i \in 1..Len(s) : (s \o u)[i] = s[i]
      /\ Len(t \o v) = Len(t) + Len(v) /\ \A i \in 1..Len(t) : (t \o v)[i] = t[i]
  BY LayoutJoin
<1>3. /\ d \in 1..Len(s \o u) /\ d <= Len(t \o v)
      /\ \A i \in 1..d : i \in 1..Len(s) /\ i \in 1..Len(t)
      /\ d \in 1..Len(t)
  BY <1>1, <1>2
<1>4. (t \o v)[d] = t[d] /\ \A i \in 1..d : (s \o u)[i] = (t \o v)[i]
  BY <1>1, <1>2, <1>3
<1> QED
  BY <1>1, <1>3, <1>4 DEF Parts

\* Layouts that part do so behind the same fields.
LEMMA PartsAfter ==
  \A known, s, u, v :
    IsLayout(s) /\ IsLayout(u) /\ IsLayout(v) /\ Parts(u, v, known)
      => Parts(s \o u, s \o v, known)
<1> SUFFICES ASSUME NEW known, NEW s, IsLayout(s), NEW u, IsLayout(u), NEW v, IsLayout(v),
                    Parts(u, v, known)
             PROVE  Parts(s \o u, s \o v, known)
  OBVIOUS
<1>1. PICK d \in 1..Len(u) : /\ d <= Len(v) /\ v[d] \in Deciding \ known
                             /\ \A i \in 1..d : u[i] = v[i]
  BY DEF Parts
<1> DEFINE x == s \o u
           y == s \o v
           n == Len(s)
<1>2. /\ n \in Nat /\ Len(u) \in Nat /\ Len(v) \in Nat
      /\ Len(x) = n + Len(u) /\ Len(y) = n + Len(v)
      /\ \A i \in 1..(n + Len(u)) : x[i] = IF i <= n THEN s[i] ELSE u[i - n]
      /\ \A i \in 1..(n + Len(v)) : y[i] = IF i <= n THEN s[i] ELSE v[i - n]
  BY LayoutJoin
<1> HIDE DEF x, y, n
<1>3. n + d \in 1..Len(x) /\ n + d <= Len(y)
  BY <1>1, <1>2
<1>4. y[n + d] = v[d]
  <2>1. n + d \in 1..(n + Len(v)) /\ ~ (n + d <= n) /\ (n + d) - n = d
    BY <1>1, <1>2
  <2> QED
    BY <1>2, <2>1
<1>5. ASSUME NEW i \in 1..(n + d)
      PROVE  x[i] = y[i]
  <2>1. i \in 1..(n + Len(u)) /\ i \in 1..(n + Len(v)) /\ (i > n => i - n \in 1..d)
    BY <1>1, <1>2
  <2>2. CASE i <= n
    BY <1>2, <2>1, <2>2
  <2>3. CASE i > n
    BY <1>1, <1>2, <2>1, <2>3
  <2> QED
    BY <1>2, <2>2, <2>3
<1>6. Parts(x, y, known)
  BY <1>1, <1>3, <1>4, <1>5 DEF Parts
<1> QED
  BY <1>6 DEF x, y

\* Layouts that agree agree with what follows, if that agrees.
LEMMA AgreesJoin ==
  \A known, s, t, u, v :
    /\ IsLayout(s) /\ IsLayout(t) /\ IsLayout(u) /\ IsLayout(v)
    /\ Agrees(s, t, known) /\ (s = t => Agrees(u, v, known))
    => IsLayout(s \o u) /\ IsLayout(t \o v) /\ Agrees(s \o u, t \o v, known)
<1> SUFFICES ASSUME NEW known, NEW s, IsLayout(s), NEW t, IsLayout(t), NEW u, IsLayout(u),
                    NEW v, IsLayout(v), Agrees(s, t, known), s = t => Agrees(u, v, known)
             PROVE  IsLayout(s \o u) /\ IsLayout(t \o v) /\ Agrees(s \o u, t \o v, known)
  OBVIOUS
<1>1. IsLayout(s \o u) /\ IsLayout(t \o v)
  BY LayoutJoin
<1>2. CASE Parts(s, t, known)
  BY <1>1, <1>2, PartsFirst DEF Agrees
<1>3. CASE s = t /\ Parts(u, v, known)
  BY <1>1, <1>3, PartsAfter DEF Agrees
<1>4. CASE s = t /\ u = v
  BY <1>1, <1>4 DEF Agrees
<1> QED
  BY <1>2, <1>3, <1>4 DEF Agrees

\* A field that decides, before what it decides.
LEMMA AgreesDecide ==
  \A known, name, s, t, u, v :
    /\ name \in Deciding /\ IsLayout(s) /\ IsLayout(t)
    /\ (name \in known => Agrees(s, t, known))
    => /\ IsLayout(<<name>> \o s) /\ IsLayout(<<name>> \o t)
       /\ Agrees(<<name>> \o s, <<name>> \o t, known)
<1> SUFFICES ASSUME NEW known, NEW name \in Deciding, NEW s, IsLayout(s), NEW t, IsLayout(t),
                    name \in known => Agrees(s, t, known)
             PROVE  /\ IsLayout(<<name>> \o s) /\ IsLayout(<<name>> \o t)
                    /\ Agrees(<<name>> \o s, <<name>> \o t, known)
  OBVIOUS
<1>1. IsLayout(<<name>>)
  BY SingleName
<1>2. CASE name \in known
  BY <1>1, <1>2, AgreesJoin DEF Agrees
<1>3. CASE name \notin known
  <2>1. Parts(<<name>>, <<name>>, known)
    <3>1. Len(<<name>>) = 1 /\ <<name>>[1] = name
      OBVIOUS
    <3> QED
      BY <1>3, <3>1 DEF Parts
  <2> QED
    BY <1>1, <2>1, PartsFirst, LayoutJoin DEF Agrees
<1> QED
  BY <1>2, <1>3

\* A layout agrees with itself.
LEMMA AgreesSame == \A known, s : Agrees(s, s, known)
  BY DEF Agrees

--------------------------------------------------------------------------------
(* The parts that layouts are made of.                                     *)

\* Fields that nothing depends on.
LEMMA PlainLayout == \A n \in Nat : IsLayout(Plain(n)) /\ Len(Plain(n)) = n
<1> SUFFICES ASSUME NEW n \in Nat
             PROVE  IsLayout(Plain(n)) /\ Len(Plain(n)) = n
  OBVIOUS
<1>1. Plain(n) \in [1..n -> {"plain"}]
  BY DEF Plain
<1>2. Plain(n) \in Seq({"plain"}) /\ Len(Plain(n)) = n
  BY <1>1
<1> QED
  BY <1>2, LayoutOf

\* The fields that a loop decodes.
LEMMA TimesLayout ==
  \A n \in Nat : \A layout : IsLayout(layout) /\ layout # <<>> => IsLayout(Times(n, layout))
<1> SUFFICES ASSUME NEW n \in Nat, NEW layout, IsLayout(layout), layout # <<>>
             PROVE  IsLayout(Times(n, layout))
  OBVIOUS
<1> DEFINE k == Len(layout)
<1>1. k \in Nat /\ k > 0
  BY EmptySeq DEF IsLayout
<1>2. n * k \in Nat
  BY <1>1
<1>3. ASSUME NEW i \in 1..(n * k)
      PROVE  layout[((i - 1) % k) + 1] \in Range(layout)
  <2>1. i - 1 \in Nat
    BY <1>2
  <2> HIDE DEF k
  <2>2. ((i - 1) % k) + 1 \in 1..k
    BY <1>1, <2>1
  <2> QED
    BY <2>2, ElementOfSeq DEF IsLayout, k
<1>4. Times(n, layout) \in [1..(n * k) -> Range(layout)]
  BY <1>3 DEF Times
<1> QED
  BY <1>2, <1>4, SeqDef, LayoutOf

\* What is known of a field is what all says of it.
LEMMA SameField ==
  ASSUME NEW part, NEW all, Knows(part, all)
  PROVE  /\ \A name : Num(part, name) \in Nat /\ Num(all, name) \in Nat
         /\ \A name \in DOMAIN part :
              /\ Num(part, name) = Num(all, name)
              /\ Given(part, name) <=> Given(all, name)
<1>1. \A text \in Text : ToInt(text) \in Nat
  <2> SUFFICES ASSUME NEW text \in Text
               PROVE  ToInt(text) \in Nat
    OBVIOUS
  <2>1. text \in Seq(Nat)
    BY DEF Text
  <2>2. text # <<>> => text[1] \in Nat
    BY <2>1, EmptySeq, ElementOfSeq
  <2> QED
    BY <2>2 DEF ToInt
<1>2. ASSUME NEW name
      PROVE  Num(part, name) \in Nat /\ Num(all, name) \in Nat
  BY <1>1 DEF Num, Knows
<1>3. ASSUME NEW name \in DOMAIN part
      PROVE  /\ Num(part, name) = Num(all, name)
             /\ Given(part, name) <=> Given(all, name)
  BY DEF Num, Given, Knows
<1> QED
  BY <1>2, <1>3

\* A count and what it counts.
LEMMA AgreesCount ==
  ASSUME NEW part, NEW all, Knows(part, all)
  PROVE  \A name, layout :
           name \in Deciding /\ IsLayout(layout) /\ layout # <<>>
           => LET s == <<name>> \o Times(Num(part, name), layout)
                  t == <<name>> \o Times(Num(all, name), layout)
              IN  IsLayout(s) /\ IsLayout(t) /\ Agrees(s, t, DOMAIN part)
<1> SUFFICES ASSUME NEW name, NEW layout, name \in Deciding, IsLayout(layout), layout # <<>>
             PROVE  LET s == <<name>> \o Times(Num(part, name), layout)
                        t == <<name>> \o Times(Num(all, name), layout)
                    IN  IsLayout(s) /\ IsLayout(t) /\ Agrees(s, t, DOMAIN part)
  OBVIOUS
<1>1. /\ IsLayout(Times(Num(part, name), layout))
      /\ IsLayout(Times(Num(all, name), layout))
  BY SameField, TimesLayout
<1>2. name \in DOMAIN part => Num(part, name) = Num(all, name)
  BY SameField
<1>3. name \in DOMAIN part => Agrees(Times(Num(part, name), layout),
                                     Times(Num(all, name), layout), DOMAIN part)
  BY <1>2, AgreesSame
<1> QED
  BY <1>1, <1>3, AgreesDecide

\* A count and the tags and values it counts.
LEMMA AgreesTags ==
  ASSUME NEW part, NEW all, Knows(part, all), NEW name \in Deciding
  PROVE  /\ IsLayout(TagValues(name, part)) /\ IsLayout(TagValues(name, all))
         /\ Agrees(TagValues(name, part), TagValues(name, all), DOMAIN part)
<1>1. IsLayout(Plain(2)) /\ Plain(2) # <<>>
  BY PlainLayout, EmptySeq DEF IsLayout
<1> QED
  BY <1>1, AgreesCount DEF TagValues

\* The parts that are written out are layouts.
LEMMA Short ==
  /\ \A a, b : IsLayout(<<a, b>>)
  /\ \A a, b, c : IsLayout(<<a, b, c>>)
  /\ \A a, b, c, d : IsLayout(<<a, b, c, d>>)
  /\ \A a, b, c, d, e, f : IsLayout(<<a, b, c, d, e, f>>)
<1>1. \A a, b : <<a, b>> \in Seq({a, b})
  OBVIOUS
<1>2. \A a, b, c : <<a, b, c>> \in Seq({a, b, c})
  OBVIOUS
<1>3. \A a, b, c, d : <<a, b, c, d>> \in Seq({a, b, c, d})
  OBVIOUS
<1>4. \A a, b, c, d, e, f : <<a, b, c, d, e, f>> \in Seq({a, b, c, d, e, f})
  OBVIOUS
<1> QED
  BY <1>1, <1>2, <1>3, <1>4, LayoutOf

\* Three fields, the last of which decides.
LEMMA ThreeNames ==
  ASSUME NEW i, NEW j, NEW l
  PROVE  <<i, j>> \o <<l>> = <<i, j, l>>
<1> DEFINE S == {i, j, l}
           s == <<i, j>> \o <<l>>
           t == <<i, j, l>>
<1>1. <<i, j>> \in Seq(S) /\ <<l>> \in Seq(S) /\ t \in Seq(S) /\ Len(t) = 3
  OBVIOUS
<1>2. s \in Seq(S) /\ Len(s) = 3 /\ s[1] = t[1] /\ s[2] = t[2] /\ s[3] = t[3]
  BY <1>1
<1> HIDE DEF s, t, S
<1>3. \A k \in 1..Len(s) : s[k] = t[k]
  BY <1>2
<1>4. s = t
  BY <1>1, <1>2, <1>3, SeqEqual
<1> QED
  BY <1>4 DEF s, t

\* The longer parts of an open order are layouts.
LEMMA Long ==
  IsLayout(OpenMain) /\ IsLayout(OpenExtended) /\ IsLayout(OpenState) /\ IsLayout(ComboLegFields)
<1>1. OpenMain \in Seq({OpenMain[i] : i \in 1..28})
  BY DEF OpenMain
<1>2. OpenExtended \in Seq({OpenExtended[i] : i \in 1..21})
  BY DEF OpenExtended
<1>3. OpenState \in Seq({OpenState[i] : i \in 1..10})
  BY DEF OpenState
<1>4. ComboLegFields \in Seq({ComboLegFields[i] : i \in 1..8})
  BY DEF ComboLegFields
<1> QED
  BY <1>1, <1>2, <1>3, <1>4, LayoutOf

--------------------------------------------------------------------------------
(* The layouts, where the version of the message is known.                 *)

\* Two layouts that agree.
Match(s, t, known) == IsLayout(s) /\ IsLayout(t) /\ Agrees(s, t, known)

\* Parts that match, one behind the other.
LEMMA MatchJoin ==
  \A known, s, t, u, v : Match(s, t, known) /\ Match(u, v, known) => Match(s \o u, t \o v, known)
  BY AgreesJoin DEF Match

\* A part that depends on nothing matches itself.
LEMMA MatchSame == \A known, s : IsLayout(s) => Match(s, s, known)
  BY AgreesSame DEF Match

\* The same, in front of which both have the same fields.
LEMMA MatchAfter ==
  \A known, front, name, s, t :
    /\ name \in Deciding /\ IsLayout(front) /\ IsLayout(s) /\ IsLayout(t)
    /\ (name \in known => s = t)
    => Match(front \o <<name>> \o s, front \o <<name>> \o t, known)
<1> SUFFICES ASSUME NEW known, NEW front, NEW name, NEW s, NEW t,
                    name \in Deciding, IsLayout(front), IsLayout(s), IsLayout(t),
                    name \in known => s = t
             PROVE  Match(front \o <<name>> \o s, front \o <<name>> \o t, known)
  OBVIOUS
<1>1. IsLayout(<<name>>) /\ IsLayout(front \o <<name>>)
  BY SingleName, LayoutJoin
<1>2. CASE name \in known
  BY <1>1, <1>2, LayoutJoin, MatchSame
<1>3. CASE name \notin known
  <2>1. Parts(<<name>>, <<name>>, known)
    <3>1. Len(<<name>>) = 1 /\ <<name>>[1] = name
      OBVIOUS
    <3> QED
      BY <1>3, <3>1 DEF Parts
  <2>2. Parts(front \o <<name>>, front \o <<name>>, known)
    BY <1>1, <2>1, PartsAfter
  <2> DEFINE g == front \o <<name>>
  <2> HIDE DEF g
  <2>3. Match(g \o s, g \o t, known)
    BY <1>1, <2>2, PartsFirst, LayoutJoin DEF Match, Agrees, g
  <2> QED
    BY <2>3 DEF g
<1> QED
  BY <1>2, <1>3

\* The same, in front of which the fields match.
LEMMA MatchNext ==
  \A known, f, g, name, s, t :
    /\ name \in Deciding /\ Match(f, g, known) /\ IsLayout(s) /\ IsLayout(t)
    /\ (name \in known => s = t)
    => Match(f \o <<name>> \o s, g \o <<name>> \o t, known)
<1> SUFFICES ASSUME NEW known, NEW f, NEW g, NEW name, NEW s, NEW t,
                    name \in Deciding, Match(f, g, known), IsLayout(s), IsLayout(t),
                    name \in known => s = t
             PROVE  Match(f \o <<name>> \o s, g \o <<name>> \o t, known)
  OBVIOUS
<1>1. IsLayout(f) /\ IsLayout(g) /\ IsLayout(<<name>>)
  BY SingleName DEF Match
<1>2. CASE f = g
  BY <1>1, <1>2, MatchAfter
<1>3. CASE Parts(f, g, known)
  <2> DEFINE x == <<name>>
  <2> HIDE DEF x
  <2>1. IsLayout(x)
    BY <1>1 DEF x
  <2>2. Parts(f \o x, g \o x, known) /\ IsLayout(f \o x) /\ IsLayout(g \o x)
    BY <1>1, <1>3, <2>1, PartsFirst, LayoutJoin
  <2>3. Match(f \o x \o s, g \o x \o t, known)
    BY <2>2, PartsFirst, LayoutJoin DEF Match, Agrees
  <2> QED
    BY <2>3 DEF x
<1> QED
  BY <1>2, <1>3 DEF Match, Agrees

\* A count and what it counts match.
LEMMA MatchCount ==
  ASSUME NEW part, NEW all, Knows(part, all)
  PROVE  \A name, layout :
           name \in Deciding /\ IsLayout(layout) /\ layout # <<>>
           => Match(<<name>> \o Times(Num(part, name), layout),
                    <<name>> \o Times(Num(all, name), layout), DOMAIN part)
  BY AgreesCount DEF Match

\* Ticks of options, portfolio, contracts, executions, bars and positions.
LEMMA MatchContracts ==
  ASSUME NEW part, NEW all, Knows(part, all), Version(part) = Version(all), NEW sv \in Nat
  PROVE  /\ Match(PortfolioValue(sv, part), PortfolioValue(sv, all), DOMAIN part)
         /\ Match(ExecutionData(part), ExecutionData(all), DOMAIN part)
         /\ Match(PositionData(part), PositionData(all), DOMAIN part)
         /\ Match(ContractData(part), ContractData(all), DOMAIN part)
         /\ Match(BondContractData(part), BondContractData(all), DOMAIN part)
         /\ Match(HistoricalData(part), HistoricalData(all), DOMAIN part)
         /\ Match(ScannerData(part), ScannerData(all), DOMAIN part)
<1> DEFINE v == Version(all)
<1>1. Version(part) = v /\ v \in Nat
  BY SameField DEF Version
<1> HIDE DEF v
<1>2. \A n \in Nat : IsLayout(Plain(n))
  BY PlainLayout
<1>3. \A s, u : IsLayout(s) /\ IsLayout(u) => IsLayout(s \o u)
  BY LayoutJoin
<1>4. IsLayout(<<>>)
  BY EmptySeq, LayoutOf
<1>5. Match(PortfolioValue(sv, part), PortfolioValue(sv, all), DOMAIN part)
  <2>1. IsLayout(PortfolioValue(sv, all))
    BY <1>2, <1>3, <1>4, SingleName DEF When, PortfolioValue
  <2>2. PortfolioValue(sv, part) = PortfolioValue(sv, all)
    BY <1>1 DEF PortfolioValue, v
  <2> QED
    BY <2>1, <2>2, MatchSame
<1>6. Match(ExecutionData(part), ExecutionData(all), DOMAIN part)
  <2>1. IsLayout(ExecutionData(all))
    BY <1>2, <1>3, <1>4, SingleName DEF When, ExecutionData
  <2>2. ExecutionData(part) = ExecutionData(all)
    BY <1>1 DEF ExecutionData, v
  <2> QED
    BY <2>1, <2>2, MatchSame
<1>7. Match(PositionData(part), PositionData(all), DOMAIN part)
  <2>1. IsLayout(PositionData(all))
    BY <1>2, <1>3, <1>4, SingleName DEF When, PositionData
  <2>2. PositionData(part) = PositionData(all)
    BY <1>1 DEF PositionData, v
  <2> QED
    BY <2>1, <2>2, MatchSame
<1>8. Match(ContractData(part), ContractData(all), DOMAIN part)
  <2>1. Match(TagValues("secIdListCount", part), TagValues("secIdListCount", all), DOMAIN part)
    BY AgreesTags DEF Match, Deciding
  <2> DEFINE front == <<"version">> \o When(v >= 3, Plain(1)) \o Plain(16)
                        \o When(v >= 4, Plain(1)) \o When(v >= 5, Plain(2))
                        \o When(v >= 6, Plain(7)) \o When(v >= 8, Plain(2))
  <2>2. IsLayout(front)
    BY <1>1, <1>2, <1>3, <1>4, SingleName DEF When
  <2>3. /\ ContractData(part) = front \o When(v >= 7, TagValues("secIdListCount", part))
        /\ ContractData(all) = front \o When(v >= 7, TagValues("secIdListCount", all))
    BY <1>1, Zenon DEF ContractData, v
  <2>4. Match(When(v >= 7, TagValues("secIdListCount", part)),
              When(v >= 7, TagValues("secIdListCount", all)), DOMAIN part)
    BY <1>4, <2>1, MatchSame DEF When
  <2> HIDE DEF front
  <2> QED
    BY <2>2, <2>3, <2>4, MatchSame, MatchJoin
<1>9. Match(BondContractData(part), BondContractData(all), DOMAIN part)
  <2>1. Match(TagValues("secIdListCount", part), TagValues("secIdListCount", all), DOMAIN part)
    BY AgreesTags DEF Match, Deciding
  <2> DEFINE front == <<"version">> \o When(v >= 3, Plain(1)) \o Plain(25)
                        \o When(v >= 4, Plain(1)) \o When(v >= 6, Plain(2))
  <2>2. IsLayout(front)
    BY <1>1, <1>2, <1>3, <1>4, SingleName DEF When
  <2>3. /\ BondContractData(part) = front \o When(v >= 5, TagValues("secIdListCount", part))
        /\ BondContractData(all) = front \o When(v >= 5, TagValues("secIdListCount", all))
    BY <1>1, Zenon DEF BondContractData, v
  <2>4. Match(When(v >= 5, TagValues("secIdListCount", part)),
              When(v >= 5, TagValues("secIdListCount", all)), DOMAIN part)
    BY <1>4, <2>1, MatchSame DEF When
  <2> HIDE DEF front
  <2> QED
    BY <2>2, <2>3, <2>4, MatchSame, MatchJoin
<1>10. Match(HistoricalData(part), HistoricalData(all), DOMAIN part)
  <2>1. Plain(9) # <<>>
    BY PlainLayout
  <2>2. /\ IsLayout(Times(Num(part, "itemCount"), Plain(9)))
        /\ IsLayout(Times(Num(all, "itemCount"), Plain(9)))
    BY <1>2, <2>1, SameField, TimesLayout
  <2>3. "itemCount" \in Deciding /\ IsLayout(<<"version">> \o Plain(3))
    BY <1>2, <1>3, SingleName DEF Deciding
  <2>4. "itemCount" \in DOMAIN part
          => Times(Num(part, "itemCount"), Plain(9)) = Times(Num(all, "itemCount"), Plain(9))
    BY SameField
  <2> QED
    BY <2>2, <2>3, <2>4, MatchAfter DEF HistoricalData
<1>11. Match(ScannerData(part), ScannerData(all), DOMAIN part)
  <2>1. Plain(16) # <<>>
    BY PlainLayout
  <2> DEFINE s == Times(Num(part, "numberOfElements"), Plain(16))
             t == Times(Num(all, "numberOfElements"), Plain(16))
             name == "numberOfElements"
  <2>2. IsLayout(s) /\ IsLayout(t)
    BY <1>2, <2>1, SameField, TimesLayout
  <2>3. name \in Deciding /\ IsLayout(<<"version", "plain">>)
    BY Short DEF Deciding
  <2>4. name \in DOMAIN part => s = t
    BY SameField
  <2>5. ScannerData(part) = <<"version", "plain">> \o <<name>> \o s
    BY DEF ScannerData
  <2>6. ScannerData(all) = <<"version", "plain">> \o <<name>> \o t
    BY DEF ScannerData
  <2> HIDE DEF s, t, name
  <2> QED
    BY <2>2, <2>3, <2>4, <2>5, <2>6, MatchAfter
<1> QED
  BY <1>5, <1>6, <1>7, <1>8, <1>9, <1>10, <1>11

\* The version and the computation, which depends on the type of the tick too.
LEMMA MatchTick ==
  ASSUME NEW part, NEW all, Knows(part, all), Version(part) = Version(all)
  PROVE  Match(TickOptionComputation(part), TickOptionComputation(all), DOMAIN part)
<1> DEFINE v == Version(all)
           name == "tickTypeInt"
           front == <<"version", "plain">>
           Rest(k) == Plain(2) \o When(v >= 6 \/ k = MODEL_OPTION, Plain(2)) \o When(v >= 6, Plain(4))
<1>1. Version(part) = v /\ v \in Nat
  BY SameField DEF Version
<1>2. \A n \in Nat : IsLayout(Plain(n))
  BY PlainLayout
<1>3. \A s, u : IsLayout(s) /\ IsLayout(u) => IsLayout(s \o u)
  BY LayoutJoin
<1>4. IsLayout(<<>>)
  BY EmptySeq, LayoutOf
<1>5. \A k : IsLayout(Rest(k))
  BY <1>2, <1>3, <1>4 DEF When
<1> DEFINE Tick(k) == <<"version", "plain", "tickTypeInt">> \o Plain(2)
                        \o When(v >= 6 \/ k = MODEL_OPTION, Plain(2)) \o When(v >= 6, Plain(4))
<1>6. ASSUME NEW k
      PROVE  Tick(k) = front \o <<name>> \o Rest(k)
  <2> DEFINE a == Plain(2)
             b == When(v >= 6 \/ k = MODEL_OPTION, Plain(2))
             c == When(v >= 6, Plain(4))
             f == front \o <<name>>
             S == Range(f) \cup Range(a) \cup Range(b) \cup Range(c)
  <2>1. IsLayout(a) /\ IsLayout(b) /\ IsLayout(c) /\ IsLayout(f)
    BY <1>2, <1>3, <1>4, Short, SingleName DEF When
  <2>2. f = <<"version", "plain", "tickTypeInt">>
    BY ThreeNames
  <2>3. Tick(k) = f \o a \o b \o c /\ Rest(k) = a \o b \o c
    BY <2>2
  <2> HIDE DEF a, b, c, f
  <2>4. a \in Seq(S) /\ b \in Seq(S) /\ c \in Seq(S) /\ f \in Seq(S)
    BY <2>1, SeqMonotonic DEF IsLayout
  <2> HIDE DEF S
  <2> DEFINE y == a \o b
  <2>5. y \in Seq(S)
    BY <2>4, ConcatProperties
  <2>6. f \o a \o b = f \o y
    BY <2>4, ConcatAssociative
  <2> HIDE DEF y
  <2>7. f \o y \o c = f \o (y \o c)
    BY <2>4, <2>5, ConcatAssociative
  <2> QED
    BY <2>3, <2>6, <2>7 DEF f, y
<1>7. /\ TickOptionComputation(part) = Tick(Num(part, name))
      /\ TickOptionComputation(all) = Tick(Num(all, name))
  BY <1>1, Zenon DEF TickOptionComputation
<1>8. name \in Deciding /\ IsLayout(front)
  BY Short DEF Deciding
<1>9. name \in DOMAIN part => Rest(Num(part, name)) = Rest(Num(all, name))
  BY SameField
<1> HIDE DEF Rest, Tick, front, name
<1> QED
  BY <1>5, <1>6, <1>7, <1>8, <1>9, MatchAfter

--------------------------------------------------------------------------------
(* OPEN_ORDER, where the version is known.                                 *)

\* The parts without a field that decides.
LEMMA OpenSame ==
  ASSUME NEW part, NEW all, Knows(part, all), Version(part) = Version(all), NEW sv \in Nat
  PROVE  /\ IsLayout(OpenContract(all)) /\ OpenContract(part) = OpenContract(all)
         /\ IsLayout(OpenExempt(sv, all)) /\ OpenExempt(sv, part) = OpenExempt(sv, all)
<1>1. Version(part) = Version(all) /\ Version(all) \in Nat
  BY SameField DEF Version
<1>2. \A s, u : IsLayout(s) /\ IsLayout(u) => IsLayout(s \o u)
  BY LayoutJoin
<1>3. IsLayout(<<>>)
  BY EmptySeq, LayoutOf
<1>4. IsLayout(OpenContract(all)) /\ OpenContract(part) = OpenContract(all)
  BY <1>1, <1>2, <1>3, Short, SingleName DEF OpenContract, When
<1>5. IsLayout(OpenExempt(sv, all)) /\ OpenExempt(sv, part) = OpenExempt(sv, all)
  BY <1>1, <1>3, SingleName DEF OpenExempt, When
<1> QED
  BY <1>4, <1>5

\* The fields of a delta neutral order, behind those with its type.
LEMMA MatchDeltaNeutral ==
  ASSUME NEW part, NEW all, Knows(part, all), Version(part) = Version(all),
         NEW f, IsLayout(f)
  PROVE  Match(f \o OpenExtended \o OpenDeltaNeutral(part),
               f \o OpenExtended \o OpenDeltaNeutral(all), DOMAIN part)
<1> DEFINE name == "deltaNeutralOrderType"
           s == OpenDeltaNeutral(part)
           t == OpenDeltaNeutral(all)
<1>1. Version(part) = Version(all) /\ Version(all) \in Nat
  BY SameField DEF Version
<1>2. IsLayout(s) /\ IsLayout(t)
  <2>1. \A u, v : IsLayout(u) /\ IsLayout(v) => IsLayout(u \o v)
    BY LayoutJoin
  <2>2. IsLayout(<<>>)
    BY EmptySeq, LayoutOf
  <2> QED
    BY <2>1, <2>2, Short DEF OpenDeltaNeutral, When
<1>3. IsLayout(f \o OpenExtended) /\ IsLayout(OpenExtended)
  BY Long, LayoutJoin
<1>4. CASE name \in DOMAIN part
  <2>1. s = t
    BY <1>1, <1>4, SameField DEF OpenDeltaNeutral
  <2> QED
    BY <1>2, <1>3, <2>1, LayoutJoin, MatchSame
<1>5. CASE name \notin DOMAIN part
  <2>1. Len(OpenExtended) = 21 /\ OpenExtended[20] = name
    BY DEF OpenExtended
  <2>2. name \in Deciding
    BY DEF Deciding
  <2> HIDE DEF name
  <2>3. Parts(OpenExtended, OpenExtended, DOMAIN part)
    BY <1>5, <2>1, <2>2 DEF Parts
  <2>4. Parts(f \o OpenExtended, f \o OpenExtended, DOMAIN part)
    BY <1>3, <2>3, PartsAfter
  <2> DEFINE g == f \o OpenExtended
  <2> HIDE DEF g, s, t
  <2>5. Match(g \o s, g \o t, DOMAIN part)
    BY <1>2, <1>3, <2>4, PartsFirst, LayoutJoin DEF Match, Agrees, g
  <2> QED
    BY <2>5 DEF g, s, t
<1> QED
  BY <1>4, <1>5

\* The legs of a combo order, their prices and how it is routed.
LEMMA MatchCombo ==
  ASSUME NEW part, NEW all, Knows(part, all), Version(part) = Version(all)
  PROVE  Match(OpenCombo(part), OpenCombo(all), DOMAIN part)
<1> DEFINE v == Version(all)
           A(got) == <<"comboLegsCount">> \o Times(Num(got, "comboLegsCount"), ComboLegFields)
           P(got) == Times(Num(got, "orderComboLegsCount"), <<"orderComboLeg.price">>)
           R(got) == <<"smartComboRoutingParamsCount">>
                       \o Times(Num(got, "smartComboRoutingParamsCount"),
                                <<"smartComboRoutingParam.tag", "smartComboRoutingParam.value">>)
           L(got) == A(got) \o <<"orderComboLegsCount">> \o P(got)
           f == When(v >= 30, <<"trailingPercent">>)
                  \o <<"basisPoints", "basisPointsType", "comboLegsDescrip">>
<1>1. Version(part) = v /\ v \in Nat
  BY SameField DEF Version
<1>2. IsLayout(<<>>)
  BY EmptySeq, LayoutOf
<1>3. Match(A(part), A(all), DOMAIN part)
  <2>1. ComboLegFields # <<>>
    BY DEF ComboLegFields
  <2> QED
    BY <2>1, Long, MatchCount DEF Deciding
<1>4. Match(L(part), L(all), DOMAIN part)
  <2>1. IsLayout(P(part)) /\ IsLayout(P(all))
    <3>1. \A n : <<n>> # <<>>
      OBVIOUS
    <3> QED
      BY <3>1, SameField, TimesLayout, SingleName
  <2>2. "orderComboLegsCount" \in DOMAIN part => P(part) = P(all)
    BY SameField
  <2>3. "orderComboLegsCount" \in Deciding
    BY DEF Deciding
  <2> HIDE DEF A, P
  <2> QED
    BY <1>3, <2>1, <2>2, <2>3, MatchNext
<1>5. Match(R(part), R(all), DOMAIN part)
  <2>1. \A m, n : <<m, n>> # <<>>
    OBVIOUS
  <2>2. "smartComboRoutingParamsCount" \in Deciding
    BY DEF Deciding
  <2> QED
    BY <2>1, <2>2, Short, MatchCount
<1>6. IsLayout(f)
  BY <1>1, <1>2, Short, SingleName, LayoutJoin DEF When
<1>7. \A got : OpenCombo(got) = When(Version(got) >= 30, <<"trailingPercent">>)
                  \o <<"basisPoints", "basisPointsType", "comboLegsDescrip">>
                  \o When(Version(got) >= 29, L(got)) \o When(Version(got) >= 26, R(got))
  BY Zenon DEF OpenCombo
<1> HIDE DEF L, R
<1>8. /\ OpenCombo(part) = f \o When(v >= 29, L(part)) \o When(v >= 26, R(part))
      /\ OpenCombo(all) = f \o When(v >= 29, L(all)) \o When(v >= 26, R(all))
  BY <1>1, <1>7, Zenon
<1> HIDE DEF f, v
<1>9. /\ Match(When(v >= 29, L(part)), When(v >= 29, L(all)), DOMAIN part)
      /\ Match(When(v >= 26, R(part)), When(v >= 26, R(all)), DOMAIN part)
  BY <1>2, <1>4, <1>5, MatchSame DEF When
<1>10. Match(f \o When(v >= 29, L(part)), f \o When(v >= 29, L(all)), DOMAIN part)
  BY <1>6, <1>9, MatchSame, MatchJoin
<1> QED
  BY <1>8, <1>9, <1>10, MatchJoin

\* The scale of an order.
LEMMA MatchScale ==
  ASSUME NEW part, NEW all, Knows(part, all), Version(part) = Version(all)
  PROVE  Match(OpenScale(part), OpenScale(all), DOMAIN part)
<1> DEFINE v == Version(all)
           name == "scalePriceIncrement"
           f == IF v >= 20 THEN <<"scaleInitLevelSize", "scaleSubsLevelSize">>
                ELSE <<"notSuppScaleNumComponents", "scaleInitLevelSize">>
           More == <<"scalePriceAdjustValue", "scalePriceAdjustInterval",
                     "scaleProfitOffset", "scaleAutoReset", "scaleInitPosition",
                     "scaleInitFillQty", "scaleRandomPercent">>
           Rest(got) == When(v >= 28 /\ Num(got, name) > 0, More)
<1>1. Version(part) = v /\ v \in Nat
  BY SameField DEF Version
<1>2. IsLayout(f) /\ IsLayout(More) /\ IsLayout(<<>>)
  <2>1. More \in Seq({More[i] : i \in 1..7})
    OBVIOUS
  <2> QED
    BY <2>1, EmptySeq, LayoutOf, Short
<1>3. name \in Deciding
  BY DEF Deciding
<1>4. /\ OpenScale(part) = f \o <<name>> \o Rest(part)
      /\ OpenScale(all) = f \o <<name>> \o Rest(all)
  BY <1>1, Zenon DEF OpenScale
<1>5. IsLayout(Rest(part)) /\ IsLayout(Rest(all))
  BY <1>2 DEF When
<1>6. name \in DOMAIN part => Rest(part) = Rest(all)
  BY SameField
<1> HIDE DEF f, name, Rest
<1> QED
  BY <1>2, <1>3, <1>4, <1>5, <1>6, MatchAfter

\* A field that opens another group, whose fields match when it is known.
LEMMA MatchGroup ==
  \A known, name, s, t :
    /\ name \in Deciding /\ IsLayout(s) /\ IsLayout(t)
    /\ (name \in known => Match(s, t, known))
    => Match(<<name>> \o s, <<name>> \o t, known)
  BY AgreesDecide DEF Match

\* Hedging, clearing and the underlying component.
LEMMA MatchRouting ==
  ASSUME NEW part, NEW all, Knows(part, all), Version(part) = Version(all)
  PROVE  Match(OpenRouting(part), OpenRouting(all), DOMAIN part)
<1> DEFINE v == Version(all)
           h(got) == When(Given(got, "hedgeType"), <<"hedgeParam">>)
           H(got) == <<"hedgeType">> \o h(got)
           u(got) == When(Num(got, "underCompPresent") # 0,
                          <<"underComp.conId", "underComp.delta", "underComp.price">>)
           U(got) == <<"underCompPresent">> \o u(got)
           a == When(v >= 25, <<"optOutSmartRouting">>)
           b == <<"clearingAccount", "clearingIntent">>
           c == When(v >= 22, <<"notHeld">>)
<1>1. Version(part) = v /\ v \in Nat
  BY SameField DEF Version
<1>2. IsLayout(<<>>)
  BY EmptySeq, LayoutOf
<1>3. Match(H(part), H(all), DOMAIN part)
  <2>1. IsLayout(h(part)) /\ IsLayout(h(all))
    BY <1>2, SingleName DEF When
  <2>2. "hedgeType" \in DOMAIN part => h(part) = h(all)
    BY SameField DEF When
  <2>3. "hedgeType" \in Deciding
    BY DEF Deciding
  <2> HIDE DEF h
  <2> QED
    BY <2>1, <2>2, <2>3, MatchGroup, MatchSame
<1>4. Match(U(part), U(all), DOMAIN part)
  <2>1. IsLayout(u(part)) /\ IsLayout(u(all))
    BY <1>2, Short DEF When
  <2>2. "underCompPresent" \in DOMAIN part => u(part) = u(all)
    BY SameField
  <2>3. "underCompPresent" \in Deciding
    BY DEF Deciding
  <2> HIDE DEF u
  <2> QED
    BY <2>1, <2>2, <2>3, MatchGroup, MatchSame
<1>5. IsLayout(a) /\ IsLayout(b) /\ IsLayout(c)
  BY <1>2, Short, SingleName DEF When
<1>6. /\ OpenRouting(part) = When(v >= 24, H(part)) \o a \o b \o c \o When(v >= 20, U(part))
      /\ OpenRouting(all) = When(v >= 24, H(all)) \o a \o b \o c \o When(v >= 20, U(all))
  BY <1>1, Zenon DEF OpenRouting
<1>7. /\ Match(When(v >= 24, H(part)), When(v >= 24, H(all)), DOMAIN part)
      /\ Match(When(v >= 20, U(part)), When(v >= 20, U(all)), DOMAIN part)
  <2> HIDE DEF H, U
  <2> QED
    BY <1>2, <1>3, <1>4, MatchSame DEF When
<1> DEFINE s == When(v >= 24, H(part))
           t == When(v >= 24, H(all))
           x == When(v >= 20, U(part))
           y == When(v >= 20, U(all))
<1> HIDE DEF a, b, c, s, t, x, y
<1>8. Match(s \o a, t \o a, DOMAIN part)
  BY <1>5, <1>7, MatchSame, MatchJoin DEF s, t
<1>9. Match(s \o a \o b, t \o a \o b, DOMAIN part)
  BY <1>5, <1>8, MatchSame, MatchJoin
<1>10. Match(s \o a \o b \o c, t \o a \o b \o c, DOMAIN part)
  BY <1>5, <1>9, MatchSame, MatchJoin
<1>11. Match(s \o a \o b \o c \o x, t \o a \o b \o c \o y, DOMAIN part)
  BY <1>7, <1>10, MatchJoin DEF x, y
<1> QED
  BY <1>6, <1>11 DEF s, t, x, y

\* The strategy of an algorithmic order and its parameters.
LEMMA MatchAlgo ==
  ASSUME NEW part, NEW all, Knows(part, all), Version(part) = Version(all)
  PROVE  Match(OpenAlgo(part), OpenAlgo(all), DOMAIN part)
<1> DEFINE v == Version(all)
           C(got) == <<"algoParamsCount">>
                       \o Times(Num(got, "algoParamsCount"), <<"algoParam.tag", "algoParam.value">>)
           w(got) == When(Given(got, "algoStrategy"), C(got))
           A(got) == <<"algoStrategy">> \o w(got)
<1>1. Version(part) = v /\ v \in Nat
  BY SameField DEF Version
<1>2. IsLayout(<<>>)
  BY EmptySeq, LayoutOf
<1>3. Match(C(part), C(all), DOMAIN part)
  <2>1. \A m, n : <<m, n>> # <<>>
    OBVIOUS
  <2>2. "algoParamsCount" \in Deciding
    BY DEF Deciding
  <2> QED
    BY <2>1, <2>2, Short, MatchCount
<1>4. Match(A(part), A(all), DOMAIN part)
  <2> HIDE DEF C
  <2>1. IsLayout(w(part)) /\ IsLayout(w(all))
    BY <1>2, <1>3 DEF When, Match
  <2>2. "algoStrategy" \in DOMAIN part => Match(w(part), w(all), DOMAIN part)
    <3>1. "algoStrategy" \in DOMAIN part => (Given(part, "algoStrategy") <=> Given(all, "algoStrategy"))
      BY SameField
    <3> QED
      BY <1>2, <1>3, <3>1, MatchSame DEF When
  <2>3. "algoStrategy" \in Deciding
    BY DEF Deciding
  <2> HIDE DEF w
  <2> QED
    BY <2>1, <2>2, <2>3, MatchGroup
<1>5. OpenAlgo(part) = When(v >= 21, A(part)) /\ OpenAlgo(all) = When(v >= 21, A(all))
  BY <1>1, Zenon DEF OpenAlgo
<1> HIDE DEF A
<1> QED
  BY <1>2, <1>4, <1>5, MatchSame DEF When

\* The whole message.
LEMMA MatchOpenOrder ==
  ASSUME NEW part, NEW all, Knows(part, all), Version(part) = Version(all), NEW sv \in Nat
  PROVE  Match(OpenOrder(sv, part), OpenOrder(sv, all), DOMAIN part)
<1> DEFINE known == DOMAIN part
           f == <<"version", "orderId">> \o OpenContract(all) \o OpenMain \o OpenExempt(sv, all)
           i == OpenDeltaNeutral(part)
           j == OpenDeltaNeutral(all)
           b == <<"continuousUpdate", "referencePriceType", "trailStopPrice">>
           l == OpenCombo(part)
           m == OpenCombo(all)
           n == OpenScale(part)
           o == OpenScale(all)
           p == OpenRouting(part)
           q == OpenRouting(all)
           r == OpenAlgo(part)
           s == OpenAlgo(all)
           e == OpenState
<1>1. IsLayout(f)
  BY OpenSame, Long, Short, LayoutJoin
<1>2. Match(f \o OpenExtended \o i, f \o OpenExtended \o j, known)
  BY <1>1, MatchDeltaNeutral
<1>3. /\ OpenOrder(sv, part) = f \o OpenExtended \o i \o b \o l \o n \o p \o r \o e
      /\ OpenOrder(sv, all) = f \o OpenExtended \o j \o b \o m \o o \o q \o s \o e
  BY OpenSame, Zenon DEF OpenOrder
<1>4. /\ Match(b, b, known) /\ Match(l, m, known) /\ Match(n, o, known)
      /\ Match(p, q, known) /\ Match(r, s, known) /\ Match(e, e, known)
  BY Short, Long, MatchSame, MatchCombo, MatchScale, MatchRouting, MatchAlgo
<1> DEFINE x == f \o OpenExtended \o i
           y == f \o OpenExtended \o j
<1>5. /\ OpenOrder(sv, part) = x \o b \o l \o n \o p \o r \o e
      /\ OpenOrder(sv, all) = y \o b \o m \o o \o q \o s \o e
      /\ Match(x, y, known)
  BY <1>2, <1>3
<1> HIDE DEF b, e, f, i, j, l, m, n, o, p, q, r, s, x, y, known
<1>6. Match(x \o b \o l, y \o b \o m, known)
  BY <1>4, <1>5, MatchJoin
<1>7. Match(x \o b \o l \o n \o p, y \o b \o m \o o \o q, known)
  BY <1>4, <1>6, MatchJoin
<1>8. Match(x \o b \o l \o n \o p \o r \o e, y \o b \o m \o o \o q \o s \o e, known)
  BY <1>4, <1>7, MatchJoin
<1> QED
  BY <1>5, <1>8 DEF known

--------------------------------------------------------------------------------
(* The layouts, whatever is known.                                         *)

\* The messages whose layout depends on what is decoded.
Varying == {5, 7, 10, 11, 17, 18, 20, 21, 61}

\* A layout that begins with the version of the message.
Opens(s) == IsLayout(s) /\ Len(s) >= 1 /\ s[1] = "version"

\* What follows does not change what comes first.
LEMMA OpensJoin == \A s, u : Opens(s) /\ IsLayout(u) => Opens(s \o u)
<1> SUFFICES ASSUME NEW s, NEW u, Opens(s), IsLayout(u)
             PROVE  Opens(s \o u)
  OBVIOUS
<1> QED
  BY LayoutJoin DEF Opens

\* The messages of varying layout tell their version first.
LEMMA VersionFirst ==
  ASSUME NEW part, NEW all, Knows(part, all), NEW sv \in Nat, NEW id \in Varying
  PROVE  Opens(Layout(id, sv, part))
<1>1. \A n \in Nat : IsLayout(Plain(n))
  BY PlainLayout
<1>2. IsLayout(<<>>)
  BY EmptySeq, LayoutOf
<1>3. \A s : Opens(<<"version">>) /\ Opens(<<"version", s>>)
  BY SingleName, Short DEF Opens
<1>4. \A s, t : Opens(<<"version", s, t>>)
  BY Short DEF Opens
<1>5. Knows(part, part)
  BY DEF Knows
<1>6. \A name : \A n \in Nat \ {0} : IsLayout(Times(Num(part, name), Plain(n)))
  <2> SUFFICES ASSUME NEW name, NEW n \in Nat \ {0}
               PROVE  IsLayout(Times(Num(part, name), Plain(n)))
    OBVIOUS
  <2>1. IsLayout(Plain(n)) /\ Plain(n) # <<>>
    <3>1. IsLayout(Plain(n)) /\ Len(Plain(n)) = n /\ Len(<<>>) = 0
      BY PlainLayout
    <3> QED
      BY <3>1
  <2> QED
    BY <1>5, <2>1, SameField, TimesLayout
<1>7. /\ \A name : IsLayout(TagValues(name, part))
      /\ \A name : IsLayout(Times(Num(part, name), Plain(9)))
      /\ \A name : IsLayout(Times(Num(part, name), Plain(16)))
  <2>1. 2 \in Nat \ {0} /\ 9 \in Nat \ {0} /\ 16 \in Nat \ {0}
    OBVIOUS
  <2>2. /\ \A name : IsLayout(Times(Num(part, name), Plain(2)))
        /\ \A name : IsLayout(Times(Num(part, name), Plain(9)))
        /\ \A name : IsLayout(Times(Num(part, name), Plain(16)))
    BY <1>6, <2>1, Zenon
  <2> QED
    BY <2>2, SingleName, LayoutJoin DEF TagValues
<1> DEFINE v == Version(part)
<1> HIDE DEF v
<1>8. Opens(PortfolioValue(sv, part))
  BY <1>1, <1>2, <1>3, OpensJoin DEF PortfolioValue, When
<1>9. Opens(ContractData(part))
  BY <1>1, <1>2, <1>3, <1>7, OpensJoin DEF ContractData, When
<1>10. Opens(ExecutionData(part))
  BY <1>1, <1>2, <1>3, OpensJoin DEF ExecutionData, When
<1>11. Opens(HistoricalData(part))
  BY <1>1, <1>3, <1>7, SingleName, OpensJoin DEF HistoricalData
<1>12. Opens(BondContractData(part))
  BY <1>1, <1>2, <1>3, <1>7, OpensJoin DEF BondContractData, When
<1>13. Opens(ScannerData(part))
  BY <1>4, <1>7, OpensJoin DEF ScannerData
<1>14. Opens(TickOptionComputation(part))
  BY <1>1, <1>2, <1>4, OpensJoin DEF TickOptionComputation, When
<1>15. Opens(PositionData(part))
  BY <1>1, <1>2, <1>3, OpensJoin DEF PositionData, When
<1>16. Opens(OpenOrder(sv, part))
  <2> DEFINE b == <<"continuousUpdate", "referencePriceType", "trailStopPrice">>
             a == <<"version", "orderId">>
  <2>1. /\ IsLayout(OpenContract(part)) /\ IsLayout(OpenExempt(sv, part))
        /\ IsLayout(OpenCombo(part)) /\ IsLayout(OpenScale(part))
        /\ IsLayout(OpenRouting(part)) /\ IsLayout(OpenAlgo(part))
    BY <1>5, OpenSame, MatchCombo, MatchScale, MatchRouting, MatchAlgo DEF Match
  <2>2. /\ IsLayout(OpenMain) /\ IsLayout(OpenExtended) /\ IsLayout(OpenState) /\ IsLayout(b)
        /\ Opens(a)
    BY <1>3, Long, Short
  <2>3. IsLayout(OpenDeltaNeutral(part))
    BY <1>2, Short, LayoutJoin DEF OpenDeltaNeutral, When
  <2> HIDE DEF a, b
  <2> QED
    BY <2>1, <2>2, <2>3, OpensJoin DEF OpenOrder, a, b
<1> QED
  BY <1>8, <1>9, <1>10, <1>11, <1>12, <1>13, <1>14, <1>15, <1>16, Zenon DEF Layout, Varying

\* The others do not depend on what is decoded.
LEMMA FixedLayout ==
  ASSUME NEW part, NEW all, NEW sv, NEW id, id \notin Varying
  PROVE  IsLayout(Layout(id, sv, all)) /\ Layout(id, sv, part) = Layout(id, sv, all)
<1>1. CASE id \in Dispatched
  <2> DEFINE t == CHOOSE t \in Fixed : id \in DOMAIN t
  <2>1. \E u \in Fixed : id \in DOMAIN u
    BY <1>1 DEF Dispatched, Varying
  <2>2. t \in Fixed /\ id \in DOMAIN t
    BY <2>1
  <2>3. \A u \in Fixed : \A k \in DOMAIN u : u[k] \in Nat
    BY DEF Fixed, Ticks, Status, Values, Depth, Reports, Groups
  <2>4. Layout(id, sv, part) = Plain(t[id]) /\ Layout(id, sv, all) = Plain(t[id])
    BY <1>1 DEF Layout, Varying
  <2> HIDE DEF t
  <2> QED
    BY <2>2, <2>3, <2>4, PlainLayout
<1>2. CASE id \notin Dispatched
  <2>1. Layout(id, sv, part) = <<>> /\ Layout(id, sv, all) = <<>>
    BY <1>2 DEF Layout, Varying, Dispatched
  <2> QED
    BY <2>1, EmptySeq, LayoutOf
<1> QED
  BY <1>1, <1>2

\* What is decoded of a message tells what follows: where the layout that the
\* fields known so far give differs from that of the whole message, a field
\* that decides and is not known comes before (the switch of onReadyRead tests
\* nothing that it has not decoded).
THEOREM LayoutAgrees ==
  ASSUME NEW part, NEW all, Knows(part, all), NEW sv \in Nat, NEW id
  PROVE  Match(Layout(id, sv, part), Layout(id, sv, all), DOMAIN part)
<1>1. CASE id \notin Varying
  BY <1>1, FixedLayout, MatchSame
<1>2. CASE id \in Varying /\ Version(part) = Version(all)
  <2>1. /\ Match(PortfolioValue(sv, part), PortfolioValue(sv, all), DOMAIN part)
        /\ Match(ExecutionData(part), ExecutionData(all), DOMAIN part)
        /\ Match(PositionData(part), PositionData(all), DOMAIN part)
        /\ Match(ContractData(part), ContractData(all), DOMAIN part)
        /\ Match(BondContractData(part), BondContractData(all), DOMAIN part)
        /\ Match(HistoricalData(part), HistoricalData(all), DOMAIN part)
        /\ Match(ScannerData(part), ScannerData(all), DOMAIN part)
    BY <1>2, MatchContracts
  <2>2. /\ Match(TickOptionComputation(part), TickOptionComputation(all), DOMAIN part)
        /\ Match(OpenOrder(sv, part), OpenOrder(sv, all), DOMAIN part)
    BY <1>2, MatchTick, MatchOpenOrder
  <2>3. \A got : /\ Layout(5, sv, got) = OpenOrder(sv, got)
                 /\ Layout(7, sv, got) = PortfolioValue(sv, got)
                 /\ Layout(10, sv, got) = ContractData(got)
                 /\ Layout(11, sv, got) = ExecutionData(got)
                 /\ Layout(17, sv, got) = HistoricalData(got)
                 /\ Layout(18, sv, got) = BondContractData(got)
                 /\ Layout(20, sv, got) = ScannerData(got)
                 /\ Layout(21, sv, got) = TickOptionComputation(got)
                 /\ Layout(61, sv, got) = PositionData(got)
    BY DEF Layout
  <2> QED
    BY <1>2, <2>1, <2>2, <2>3 DEF Varying
<1>3. CASE id \in Varying /\ Version(part) # Version(all)
  <2> DEFINE s == Layout(id, sv, part)
             t == Layout(id, sv, all)
  <2>1. Knows(all, all)
    BY DEF Knows
  <2>2. Opens(s) /\ Opens(t)
    BY <1>3, <2>1, VersionFirst
  <2>3. "version" \in Deciding \ DOMAIN part
    BY <1>3, SameField DEF Version, Deciding
  <2> HIDE DEF s, t
  <2>4. Len(s) \in Nat /\ Len(t) \in Nat
    BY <2>2, LayoutJoin DEF Opens
  <2>5. 1 \in 1..Len(s) /\ 1 <= Len(t) /\ t[1] \in Deciding \ DOMAIN part /\ \A i \in 1..1 : s[i] = t[i]
    BY <2>2, <2>3, <2>4 DEF Opens
  <2>6. Match(s, t, DOMAIN part)
    BY <2>2, <2>5 DEF Match, Agrees, Parts, Opens
  <2> QED
    BY <2>6 DEF s, t
<1> QED
  BY <1>1, <1>2, <1>3

\* So the name of the next field is known, and whether there is one.
THEOREM NextField ==
  ASSUME NEW part, NEW all, Knows(part, all), NEW sv \in Nat, NEW id, NEW n \in Nat,
         n <= Len(Layout(id, sv, all)),
         \A i \in 1..n : Layout(id, sv, all)[i] \in Deciding => Layout(id, sv, all)[i] \in DOMAIN part
  PROVE  /\ Len(Layout(id, sv, part)) \in Nat /\ Len(Layout(id, sv, all)) \in Nat
         /\ n <= Len(Layout(id, sv, part))
         /\ (n = Len(Layout(id, sv, part)) <=> n = Len(Layout(id, sv, all)))
         /\ \A i \in 1..(n + 1) : n < Len(Layout(id, sv, all)) \/ i <= n
               => Layout(id, sv, part)[i] = Layout(id, sv, all)[i]
<1> DEFINE s == Layout(id, sv, part)
           t == Layout(id, sv, all)
<1>1. Match(s, t, DOMAIN part)
  BY LayoutAgrees
<1> HIDE DEF s, t
<1>2. Len(s) \in Nat /\ Len(t) \in Nat
  BY <1>1, LayoutJoin DEF Match
<1>3. CASE s = t
  BY <1>2, <1>3 DEF s, t
<1>4. CASE Parts(s, t, DOMAIN part)
  <2>1. PICK d \in 1..Len(s) : /\ d <= Len(t) /\ t[d] \in Deciding \ DOMAIN part
                               /\ \A i \in 1..d : s[i] = t[i]
    BY <1>4 DEF Parts
  <2>2. d > n
    BY <1>2, <2>1 DEF t
  <2> QED
    BY <1>2, <2>1, <2>2 DEF s, t
<1> QED
  BY <1>1, <1>3, <1>4 DEF Match, Agrees
================================================================================
