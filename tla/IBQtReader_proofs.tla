--------------------------- MODULE IBQtReader_proofs ---------------------------
(***************************************************************************)
(* Proofs about IBQtReader, for any messages, cuts and connections.        *)
(*                                                                         *)
(* The wire is defined by recursive functions, so the proofs start with    *)
(* induction over sets of sequences, and what it gives about Wire, EndOf   *)
(* and the indices.  ReaderInv is the inductive invariant: until the first split   *)
(* message the buffer and what is in flight carry exactly the messages     *)
(* that are not handled yet.                                               *)
(***************************************************************************)
EXTENDS IBQtReader, IBQtInbound_proofs, SequenceTheorems, FiniteSetTheorems,
        WellFoundedInduction, TLAPS

--------------------------------------------------------------------------------
(* Sequences.                                                              *)

\* Induction, for a set of sequences.
LEMMA SeqInduction ==
  ASSUME NEW S, NEW P \in SUBSET Seq(S), <<>> \in P,
         \A s \in P, e \in S : Append(s, e) \in P
  PROVE  \A s \in Seq(S) : s \in P
<1> DEFINE Lengths == {n \in Nat : \A s \in Seq(S) : Len(s) = n => s \in P}
<1>1. 0 \in Lengths
  <2>1. \A s \in Seq(S) : Len(s) = 0 => s \in P
    BY EmptySeq
  <2> QED
    BY <2>1
<1>2. ASSUME NEW n \in Lengths
      PROVE  n + 1 \in Lengths
  <2>1. n \in Nat /\ \A s \in Seq(S) : Len(s) = n => s \in P
    OBVIOUS
  <2>2. ASSUME NEW s \in Seq(S), Len(s) = n + 1
        PROVE  s \in P
    <3>1. s # <<>>
      BY <2>1, <2>2, EmptySeq
    <3>2. PICK front \in Seq(S), e \in S : s = Append(front, e)
      BY <3>1, SequenceEmptyOrAppend
    <3>3. Len(front) = n
      BY <2>1, <2>2, <3>2, AppendProperties, LenProperties
    <3> QED
      BY <2>1, <3>2, <3>3
  <2> QED
    BY <2>1, <2>2
<1>3. Lengths \in SUBSET Nat
  OBVIOUS
<1> HIDE DEF Lengths
<1>4. ASSUME NEW s \in Seq(S)
      PROVE  s \in P
  <2>1. Len(s) \in Lengths
    BY <1>1, <1>2, <1>3, Induction, LenProperties
  <2> QED
    BY <2>1 DEF Lengths
<1> QED
  BY <1>4

\* Append and SubSeq.
LEMMA Fronts ==
  ASSUME NEW S, NEW s \in Seq(S)
  PROVE  /\ \A e \in S, p \in 0..Len(s) : SubSeq(Append(s, e), 1, p) = SubSeq(s, 1, p)
         /\ \A p \in 0..Len(s) : SubSeq(s, 1, p) \in Seq(S) /\ Len(SubSeq(s, 1, p)) = p
         /\ \A p \in 0..(Len(s) - 1) :
              SubSeq(s, 1, p + 1) = Append(SubSeq(s, 1, p), s[p + 1])
<1>0. Len(s) \in Nat /\ \A i \in 1..Len(s) : s[i] \in S
  BY LenProperties, ElementOfSeq
<1>1. ASSUME NEW p \in 0..Len(s)
      PROVE  /\ SubSeq(s, 1, p) \in Seq(S) /\ Len(SubSeq(s, 1, p)) = p
             /\ \A i \in 1..p : SubSeq(s, 1, p)[i] = s[i]
  <2>1. p \in Nat /\ \A i \in 1..p : s[i] \in S
    BY <1>0
  <2>2. /\ SubSeq(s, 1, p) \in Seq(S)
        /\ Len(SubSeq(s, 1, p)) = IF 1 <= p THEN p - 1 + 1 ELSE 0
        /\ \A i \in 1..(p - 1 + 1) : SubSeq(s, 1, p)[i] = s[1 + i - 1]
    BY <2>1, SubSeqProperties
  <2> QED
    BY <2>1, <2>2
<1>2. ASSUME NEW e \in S, NEW p \in 0..Len(s)
      PROVE  SubSeq(Append(s, e), 1, p) = SubSeq(s, 1, p)
  <2>1. Append(s, e) \in Seq(S) /\ Len(Append(s, e)) = Len(s) + 1
    BY AppendProperties
  <2>2. p \in Nat /\ \A i \in 1..p : Append(s, e)[i] = s[i] /\ s[i] \in S
    BY <1>0, AppendProperties
  <2>3. /\ SubSeq(Append(s, e), 1, p) \in Seq(S)
        /\ Len(SubSeq(Append(s, e), 1, p)) = IF 1 <= p THEN p - 1 + 1 ELSE 0
        /\ \A i \in 1..(p - 1 + 1) : SubSeq(Append(s, e), 1, p)[i] = Append(s, e)[1 + i - 1]
    BY <2>2, SubSeqProperties
  <2>4. /\ Len(SubSeq(Append(s, e), 1, p)) = p
        /\ \A i \in 1..p : SubSeq(Append(s, e), 1, p)[i] = s[i]
    BY <2>2, <2>3
  <2> QED
    BY <1>1, <2>3, <2>4, SeqEqual
<1>3. ASSUME NEW p \in 0..(Len(s) - 1)
      PROVE  SubSeq(s, 1, p + 1) = Append(SubSeq(s, 1, p), s[p + 1])
  <2> DEFINE f == SubSeq(s, 1, p)
             g == SubSeq(s, 1, p + 1)
  <2>1. p \in 0..Len(s) /\ p + 1 \in 0..Len(s) /\ s[p + 1] \in S
    BY <1>0
  <2>2. f \in Seq(S) /\ Len(f) = p /\ \A i \in 1..p : f[i] = s[i]
    BY <1>1, <2>1
  <2>3. g \in Seq(S) /\ Len(g) = p + 1 /\ \A i \in 1..(p + 1) : g[i] = s[i]
    BY <1>1, <2>1
  <2> HIDE DEF f, g
  <2>4. /\ Append(f, s[p + 1]) \in Seq(S) /\ Len(Append(f, s[p + 1])) = p + 1
        /\ \A i \in 1..p : Append(f, s[p + 1])[i] = f[i]
        /\ Append(f, s[p + 1])[p + 1] = s[p + 1]
    BY <2>1, <2>2, AppendProperties
  <2>5. \A i \in 1..(p + 1) : g[i] = Append(f, s[p + 1])[i]
    BY <2>1, <2>2, <2>3, <2>4
  <2>6. g = Append(f, s[p + 1])
    BY <2>3, <2>4, <2>5, SeqEqual
  <2> QED
    BY <2>6 DEF f, g
<1> QED
  BY <1>1, <1>2, <1>3

--------------------------------------------------------------------------------
(* The units of a message.                                                 *)

\* A text is units.
LEMMA TextIsUnits ==
  \A t \in Text : t \in Seq(Unit) /\ t \in Seq(Nat) /\ Len(t) \in {0, 1}
<1>1. Nat \subseteq Unit
  BY DEF Unit
<1>2. ASSUME NEW t \in Text
      PROVE  t \in Seq(Nat) /\ Len(t) \in {0, 1}
  <2>1. t \in Seq(Nat)
    BY DEF Text
  <2>2. Len(t) <= 1
    BY DEF Text
  <2>3. Len(t) \in Nat
    BY <2>1, LenProperties
  <2>4. Len(t) \in {0, 1}
    BY <2>2, <2>3
  <2> QED
    BY <2>1, <2>4
<1> QED
  BY <1>1, <1>2, SeqMonotonic

\* The recursion of Wire: nothing, and a text and a NUL for each field.
LEMMA WireRec ==
  ASSUME NEW m \in Seq(Text)
  PROVE  \E f : /\ f[0] = <<>> /\ Wire(m) = f[Len(m)]
                /\ \A i \in 1..Len(m) : f[i] = f[i - 1] \o m[i] \o <<NUL>>
<1> DEFINE S == Seq(Unit)
           n == Len(m)
           step == [i \in 1..n |-> [s \in S |-> s \o m[i] \o <<NUL>>]]
           Rec(f) == f = [i \in 0..n |-> IF i = 0 THEN <<>> ELSE f[i - 1] \o m[i] \o <<NUL>>]
<1>1. n \in Nat /\ <<>> \in S
  OBVIOUS
<1>2. ASSUME NEW i \in 1..n, NEW s \in S
      PROVE  s \o m[i] \o <<NUL>> \in S
  <2>1. m[i] \in Seq(Unit) /\ <<NUL>> \in Seq(Unit)
    BY TextIsUnits DEF Unit
  <2> QED
    BY <2>1
<1>3. step \in [1..n -> [S -> S]]
  BY <1>2
<1>4. PICK f \in [0..n -> S] : f[0] = <<>> /\ \A i \in 1..n : f[i] = step[i][f[i - 1]]
  <2>1. step \in Steps(n, S)
    BY <1>3 DEF Steps
  <2>2. \E f \in Results(n, S) : Obeys(f, n, <<>>, step)
    <3> HIDE DEF step, S, n
    <3> QED
      BY <1>1, <2>1, Recursion
  <2> QED
    BY <2>2 DEF Results, Obeys
<1>6. ASSUME NEW i \in 0..n
      PROVE  f[i] = IF i = 0 THEN <<>> ELSE f[i - 1] \o m[i] \o <<NUL>>
  <2>1. CASE i = 0
    BY <1>4, <2>1
  <2>2. CASE i # 0
    <3>1. f[i] = step[i][f[i - 1]]
      <4> HIDE DEF step
      <4> QED
        BY <1>4, <2>2
    <3>2. i \in 1..n /\ f[i - 1] \in S
      BY <1>1, <2>2
    <3> QED
      BY <3>1, <3>2, <2>2
  <2> QED
    BY <2>1, <2>2
<1>7. Rec(f)
  <2>1. f = [i \in 0..n |-> f[i]]
    <3> HIDE DEF S
    <3> QED
      OBVIOUS
  <2> QED
    BY <2>1, <1>6
<1> DEFINE h == CHOOSE h : Rec(h)
<1>8. Rec(h) /\ Wire(m) = h[n]
  <2>1. Wire(m) = h[n]
    BY Zenon DEF Wire
  <2>2. Rec(h)
    <3> HIDE DEF Rec
    <3> QED
      BY <1>7, Zenon
  <2> QED
    BY <2>1, <2>2
<1>9. h[0] = <<>> /\ \A i \in 1..n : h[i] = h[i - 1] \o m[i] \o <<NUL>>
  <2> HIDE DEF h
  <2> QED
    BY <1>8, <1>1
<1> QED
  <2> HIDE DEF h
  <2> QED
    BY <1>8, <1>9

\* What Wire puts on the wire for one field more.
LEMMA WireAppend ==
  ASSUME NEW m \in Seq(Text), NEW t \in Text
  PROVE  Wire(Append(m, t)) = Wire(m) \o t \o <<NUL>>
<1> DEFINE n == Len(m)
           a == Append(m, t)
<1>1. /\ n \in Nat /\ a \in Seq(Text) /\ Len(a) = n + 1 /\ a[n + 1] = t
      /\ \A i \in 1..n : a[i] = m[i]
  BY AppendProperties
<1>2. PICK f : /\ f[0] = <<>> /\ Wire(m) = f[Len(m)]
               /\ \A i \in 1..Len(m) : f[i] = f[i - 1] \o m[i] \o <<NUL>>
  BY WireRec
<1>3. PICK g : /\ g[0] = <<>> /\ Wire(a) = g[Len(a)]
               /\ \A i \in 1..Len(a) : g[i] = g[i - 1] \o a[i] \o <<NUL>>
  BY <1>1, WireRec
<1> HIDE DEF n, a
<1>4. f[n] = g[n]
  <2>1. ASSUME NEW i \in 1..n, f[i - 1] = g[i - 1]
        PROVE  f[i] = g[i]
    <3>1. i \in 1..Len(m) /\ i \in 1..Len(a)
      BY <1>1 DEF n
    <3>2. f[i] = f[i - 1] \o m[i] \o <<NUL>>
      BY <1>2, <3>1
    <3>3. g[i] = g[i - 1] \o a[i] \o <<NUL>>
      BY <1>3, <3>1
    <3>4. a[i] = m[i]
      BY <1>1
    <3> QED
      BY <2>1, <3>2, <3>3, <3>4
  <2>2. f[0] = g[0] /\ n \in Nat
    BY <1>1, <1>2, <1>3
  <2> QED
    BY <2>1, <2>2, Alike
<1>5. g[n + 1] = g[n] \o t \o <<NUL>>
  <2>1. n + 1 \in 1..Len(a) /\ (n + 1) - 1 = n
    BY <1>1
  <2>2. g[n + 1] = g[(n + 1) - 1] \o a[n + 1] \o <<NUL>>
    BY <1>3, <2>1
  <2> QED
    BY <1>1, <2>1, <2>2
<1> QED
  BY <1>1, <1>2, <1>3, <1>4, <1>5 DEF n, a

\* A message without fields.
LEMMA WireNothing == Wire(<<>>) = <<>>
<1>1. <<>> \in Seq(Text) /\ Len(<<>>) = 0
  OBVIOUS
<1> QED
  BY <1>1, WireRec

\* The number of units of a message with one field more.
LEMMA WireLengthAppend ==
  ASSUME NEW m \in Seq(Text), NEW t \in Text
  PROVE  /\ WireLength(m) \in Nat
         /\ WireLength(Append(m, t)) = WireLength(m) + Len(t) + 1
<1> DEFINE n == Len(m)
           a == Append(m, t)
           G(s) == {i \in DOMAIN s : s[i] # <<>>}
<1>1. /\ n \in Nat /\ a \in Seq(Text) /\ Len(a) = n + 1 /\ a[n + 1] = t
      /\ \A i \in 1..n : a[i] = m[i]
      /\ DOMAIN m = 1..n /\ DOMAIN a = 1..(n + 1)
  BY AppendProperties, LenProperties
<1>6. WireLength(m) = n + Cardinality(G(m)) /\ WireLength(a) = Len(a) + Cardinality(G(a))
  BY Zenon DEF WireLength
<1> HIDE DEF n, a
<1>2. IsFiniteSet(G(m)) /\ Cardinality(G(m)) \in Nat
  <2>1. G(m) \subseteq 1..n /\ IsFiniteSet(1..n)
    BY <1>1, FS_Interval
  <2> QED
    BY <2>1, FS_Subset, FS_CardinalityType
<1>3. t \in Seq(Nat) /\ Len(t) \in {0, 1} /\ (Len(t) = 0 <=> t = <<>>)
  BY TextIsUnits, EmptySeq
<1>4. CASE t = <<>>
  <2>1. G(a) = G(m)
    BY <1>1, <1>4
  <2>2. WireLength(m) \in Nat /\ WireLength(a) = WireLength(m) + Len(t) + 1
    <3> HIDE DEF G
    <3> QED
      BY <1>1, <1>2, <1>3, <1>4, <1>6, <2>1
  <2> QED
    BY <2>2 DEF a
<1>5. CASE t # <<>>
  <2>1. G(a) = G(m) \cup {n + 1} /\ n + 1 \notin G(m)
    BY <1>1, <1>5
  <2>2. Cardinality(G(a)) = Cardinality(G(m)) + 1
    BY <1>2, <2>1, FS_AddElement
  <2>3. WireLength(m) \in Nat /\ WireLength(a) = WireLength(m) + Len(t) + 1
    <3>1. Len(t) = 1
      BY <1>3, <1>5
    <3> HIDE DEF G
    <3> QED
      BY <1>1, <1>2, <1>6, <2>2, <3>1
  <2> QED
    BY <2>3 DEF a
<1> QED
  BY <1>4, <1>5

\* No token is followed by another.
Alternating(units) == \A i \in 1..(Len(units) - 1) : units[i] = NUL \/ units[i + 1] = NUL

\* What a message is on the wire: units, as many as WireLength says, no two
\* tokens in a row, and a NUL at the end.
WireOf(m) == /\ Wire(m) \in Seq(Unit) /\ Len(Wire(m)) = WireLength(m)
             /\ Len(m) <= WireLength(m)
             /\ Alternating(Wire(m))
             /\ m # <<>> => WireLength(m) > 0 /\ Wire(m)[WireLength(m)] = NUL

\* A field more keeps this.
LEMMA WireOfAppend ==
  ASSUME NEW m \in Seq(Text), NEW t \in Text, WireOf(m)
  PROVE  WireOf(Append(m, t))
<1> DEFINE w == Wire(m)
           z == Wire(m) \o t \o <<NUL>>
           a == Append(m, t)
<1>1. /\ a \in Seq(Text) /\ Len(a) = Len(m) + 1 /\ Len(m) \in Nat
      /\ WireLength(m) \in Nat /\ WireLength(a) = WireLength(m) + Len(t) + 1
      /\ Wire(a) = z
  BY AppendProperties, LenProperties, WireAppend, WireLengthAppend
<1>2. /\ w \in Seq(Unit) /\ Len(w) = WireLength(m) /\ Len(w) \in Nat
      /\ Len(m) <= WireLength(m) /\ Alternating(w) /\ (m # <<>> => w[Len(w)] = NUL)
  BY <1>1 DEF WireOf
<1>3. t \in Seq(Unit) /\ t \in Seq(Nat) /\ Len(t) \in {0, 1}
  BY TextIsUnits
<1>4. <<NUL>> \in Seq(Unit) /\ Len(<<NUL>>) = 1 /\ <<NUL>>[1] = NUL
  BY DEF Unit
<1>5. /\ z \in Seq(Unit) /\ Len(z) = Len(w) + Len(t) + 1
      /\ \A i \in 1..Len(w) : z[i] = w[i]
      /\ z[Len(w) + Len(t) + 1] = NUL
  <2>1. w \o t \in Seq(Unit) /\ Len(w \o t) = Len(w) + Len(t)
    BY <1>2, <1>3, ConcatProperties
  <2>2. \A i \in 1..Len(w) : (w \o t)[i] = w[i]
    BY <1>2, <1>3, ConcatProperties
  <2> DEFINE wt == w \o t
  <2> HIDE DEF wt
  <2>3. /\ wt \o <<NUL>> \in Seq(Unit) /\ Len(wt \o <<NUL>>) = Len(wt) + 1
        /\ \A i \in 1..(Len(wt) + 1) :
             (wt \o <<NUL>>)[i] = IF i <= Len(wt) THEN wt[i] ELSE <<NUL>>[i - Len(wt)]
    BY <1>4, <2>1, ConcatProperties DEF wt
  <2>4. Len(wt) = Len(w) + Len(t) /\ \A i \in 1..Len(w) : wt[i] = w[i]
    BY <2>1, <2>2 DEF wt
  <2>5. (wt \o <<NUL>>)[Len(wt) + 1] = NUL
    BY <1>2, <1>3, <1>4, <2>3, <2>4
  <2>6. \A i \in 1..Len(w) : (wt \o <<NUL>>)[i] = w[i]
    BY <1>2, <1>3, <2>3, <2>4
  <2> QED
    BY <2>3, <2>4, <2>5, <2>6 DEF wt
<1> HIDE DEF w, z
<1>6. Alternating(z)
  <2> SUFFICES ASSUME NEW i \in 1..(Len(z) - 1)
               PROVE  z[i] = NUL \/ z[i + 1] = NUL
    BY DEF Alternating
  <2>0. i \in Nat /\ i >= 1 /\ i < Len(w) + Len(t) + 1 /\ Len(t) \in Nat
    BY <1>2, <1>3, <1>5
  <2>1. CASE i < Len(w)
    <3>1. i \in 1..(Len(w) - 1) /\ i \in 1..Len(w) /\ i + 1 \in 1..Len(w)
      BY <1>2, <2>0, <2>1
    <3>2. w[i] = NUL \/ w[i + 1] = NUL
      BY <1>2, <3>1 DEF Alternating
    <3> QED
      BY <1>5, <3>1, <3>2
  <2>2. CASE i = Len(w)
    <3>1. m # <<>>
      <4> SUFFICES ASSUME m = <<>>
                   PROVE  FALSE
        OBVIOUS
      <4>1. w = <<>>
        BY WireNothing DEF w
      <4> QED
        BY <2>2, <4>1
    <3>2. z[i] = w[Len(w)] /\ w[Len(w)] = NUL
      BY <1>2, <1>5, <2>0, <2>2, <3>1
    <3> QED
      BY <3>2
  <2>3. CASE i > Len(w)
    <3>1. i + 1 = Len(w) + Len(t) + 1
      <4>1. Len(t) = 0 \/ Len(t) = 1
        BY <1>3
      <4>2. Len(w) \in Nat
        BY <1>2
      <4>3. \A l, x \in Nat : (x = 0 \/ x = 1) /\ i > l /\ i < l + x + 1 => i + 1 = l + x + 1
        BY <2>0
      <4> QED
        BY <2>0, <2>3, <4>1, <4>2, <4>3
    <3> QED
      BY <1>5, <3>1
  <2> QED
    BY <1>2, <2>0, <2>1, <2>2, <2>3
<1> QED
  BY <1>1, <1>2, <1>3, <1>5, <1>6 DEF WireOf

\* So every message is like that.
LEMMA WireShape == \A m \in Seq(Text) : WireOf(m)
<1> DEFINE P == {m \in Seq(Text) : WireOf(m)}
<1>1. <<>> \in P
  <2>1. WireLength(<<>>) = 0
    <3>1. {i \in DOMAIN <<>> : <<>>[i] # <<>>} = {}
      OBVIOUS
    <3> QED
      BY <3>1, FS_EmptySet DEF WireLength
  <2>2. Wire(<<>>) \in Seq(Unit) /\ Len(Wire(<<>>)) = 0
    BY WireNothing, EmptySeq, Zenon
  <2>3. Alternating(Wire(<<>>))
    BY <2>2 DEF Alternating
  <2>4. WireOf(<<>>)
    BY <2>1, <2>2, <2>3 DEF WireOf
  <2> QED
    BY <2>4
<1>2. \A m \in P, t \in Text : Append(m, t) \in P
  BY WireOfAppend, AppendProperties
<1>3. P \in SUBSET Seq(Text)
  OBVIOUS
<1> HIDE DEF P
<1>4. \A m \in Seq(Text) : m \in P
  BY <1>1, <1>2, <1>3, SeqInduction
<1> QED
  BY <1>4 DEF P

\* s is how w begins.
Starts(s, w) == Len(s) <= Len(w) /\ \A i \in 1..Len(s) : w[i] = s[i]

\* The first fields of a message are the first units of its wire.
LEMMA WirePrefix ==
  \A m \in Seq(Text) : \A p \in 0..Len(m) : Starts(Wire(SubSeq(m, 1, p)), Wire(m))
<1> DEFINE P == {m \in Seq(Text) : \A p \in 0..Len(m) : Starts(Wire(SubSeq(m, 1, p)), Wire(m))}
<1>1. ASSUME NEW m \in Seq(Text)
      PROVE  SubSeq(m, 1, Len(m)) = m /\ Starts(Wire(m), Wire(m))
  <2>1. SubSeq(m, 1, Len(m)) = m
    BY SubSeqFull
  <2>2. Len(Wire(m)) \in Nat
    BY WireShape DEF WireOf
  <2> QED
    BY <2>1, <2>2 DEF Starts
<1>2. <<>> \in P
  <2>1. <<>> \in Seq(Text) /\ Len(<<>>) = 0
    BY EmptySeq
  <2>2. Starts(Wire(SubSeq(<<>>, 1, 0)), Wire(<<>>))
    BY <1>1, <2>1
  <2> QED
    BY <2>1, <2>2
<1>3. ASSUME NEW m \in P, NEW t \in Text
      PROVE  Append(m, t) \in P
  <2>1. m \in Seq(Text) /\ \A p \in 0..Len(m) : Starts(Wire(SubSeq(m, 1, p)), Wire(m))
    OBVIOUS
  <2> DEFINE a == Append(m, t)
  <2>2. a \in Seq(Text) /\ Len(a) = Len(m) + 1 /\ Len(m) \in Nat
    BY <2>1, AppendProperties, LenProperties
  <2>3. Starts(Wire(m), Wire(a))
    <3>1. Wire(a) = Wire(m) \o t \o <<NUL>>
      BY <2>1, WireAppend
    <3>2. Wire(m) \in Seq(Unit) /\ t \in Seq(Unit) /\ <<NUL>> \in Seq(Unit)
      BY <2>1, WireShape, TextIsUnits DEF WireOf, Unit
    <3> DEFINE w == Wire(m)
    <3> HIDE DEF w
    <3>3. /\ w \o t \in Seq(Unit) /\ Len(w \o t) = Len(w) + Len(t)
          /\ Len(w) \in Nat /\ Len(t) \in Nat
          /\ \A i \in 1..Len(w) : (w \o t)[i] = w[i]
      BY <3>2, ConcatProperties DEF w
    <3> DEFINE x == w \o t
    <3>4. x \in Seq(Unit)
      BY <3>3
    <3> HIDE DEF x
    <3>5. /\ Len(x \o <<NUL>>) = Len(x) + 1
          /\ \A i \in 1..Len(x) : (x \o <<NUL>>)[i] = x[i]
      BY <3>2, <3>4, ConcatProperties
    <3>6. Len(x) = Len(w) + Len(t) /\ \A i \in 1..Len(w) : x[i] = w[i]
      BY <3>3 DEF x
    <3>7. Starts(w, x \o <<NUL>>)
      BY <3>3, <3>5, <3>6 DEF Starts
    <3> QED
      BY <3>1, <3>7 DEF x, w
  <2>4. ASSUME NEW p \in 0..Len(a)
        PROVE  Starts(Wire(SubSeq(a, 1, p)), Wire(a))
    <3>1. CASE p = Len(a)
      BY <1>1, <2>2, <3>1
    <3>2. CASE p # Len(a)
      <4>1. p \in 0..Len(m) /\ SubSeq(a, 1, p) = SubSeq(m, 1, p)
        BY <2>1, <2>2, <3>2, Fronts
      <4>2. Starts(Wire(SubSeq(m, 1, p)), Wire(m))
        BY <2>1, <4>1
      <4>3. SubSeq(m, 1, p) \in Seq(Text)
        BY <2>1, <4>1, Fronts
      <4>4. /\ Len(Wire(SubSeq(m, 1, p))) \in Nat /\ Len(Wire(m)) \in Nat
            /\ Len(Wire(a)) \in Nat
        BY <2>1, <2>2, <4>3, WireShape DEF WireOf
      <4>5. Starts(Wire(SubSeq(m, 1, p)), Wire(a))
        BY <2>3, <4>2, <4>4 DEF Starts
      <4> QED
        BY <4>1, <4>5
    <3> QED
      BY <3>1, <3>2
  <2> HIDE DEF a
  <2>5. a \in P
    BY <2>2, <2>4
  <2> QED
    BY <2>5 DEF a
<1>4. P \in SUBSET Seq(Text)
  OBVIOUS
<1> HIDE DEF P
<1>5. \A m \in Seq(Text) : m \in P
  BY <1>2, <1>3, <1>4, SeqInduction
<1> QED
  BY <1>5 DEF P

\* Where a field is: after the fields before it, and a NUL follows it.
LEMMA FieldAt ==
  ASSUME NEW m \in Seq(Text), NEW p \in 0..(Len(m) - 1)
  PROVE  LET w == Wire(m)
             t == m[p + 1]
             b == Len(Wire(SubSeq(m, 1, p)))
         IN  /\ b \in Nat
             /\ Len(Wire(SubSeq(m, 1, p + 1))) = b + Len(t) + 1
             /\ b + Len(t) + 1 <= Len(w)
             /\ \A i \in 1..Len(t) : w[b + i] = t[i]
             /\ w[b + Len(t) + 1] = NUL
<1> DEFINE w == Wire(m)
           t == m[p + 1]
           f == SubSeq(m, 1, p)
           b == Len(Wire(f))
           g == SubSeq(m, 1, p + 1)
<1>1. p \in 0..Len(m) /\ p + 1 \in 0..Len(m) /\ t \in Text
  BY LenProperties, ElementOfSeq
<1>2. f \in Seq(Text) /\ g \in Seq(Text) /\ g = Append(f, t)
  BY <1>1, Fronts
<1>3. Starts(Wire(g), w)
  BY <1>1, WirePrefix
<1> HIDE DEF w, t, f, g
<1>4. Wire(g) = Wire(f) \o t \o <<NUL>>
  BY <1>1, <1>2, WireAppend
<1>5. /\ Wire(f) \in Seq(Unit) /\ t \in Seq(Unit) /\ Len(t) \in Nat
      /\ <<NUL>> \in Seq(Unit) /\ Len(<<NUL>>) = 1 /\ <<NUL>>[1] = NUL
      /\ b \in Nat
  BY <1>1, <1>2, WireShape, TextIsUnits, LenProperties DEF WireOf, Unit
<1> DEFINE x == Wire(f) \o t
<1>6. /\ x \in Seq(Unit) /\ Len(x) = b + Len(t)
      /\ \A i \in 1..(b + Len(t)) : x[i] = IF i <= b THEN Wire(f)[i] ELSE t[i - b]
  BY <1>5, ConcatProperties
<1> HIDE DEF x
<1>7. /\ Len(x \o <<NUL>>) = Len(x) + 1
      /\ \A i \in 1..(Len(x) + 1) :
           (x \o <<NUL>>)[i] = IF i <= Len(x) THEN x[i] ELSE <<NUL>>[i - Len(x)]
  BY <1>5, <1>6, ConcatProperties
<1>8. Wire(g) = x \o <<NUL>>
  BY <1>4 DEF x
<1> DEFINE z == x \o <<NUL>>
<1> HIDE DEF z
<1>9. Len(z) = b + Len(t) + 1 /\ z[b + Len(t) + 1] = NUL
  <2>1. Len(z) = b + Len(t) + 1
    BY <1>5, <1>6, <1>7 DEF z
  <2>2. b + Len(t) + 1 \in 1..(Len(x) + 1) /\ ~ (b + Len(t) + 1 <= Len(x)) /\ b + Len(t) + 1 - Len(x) = 1
    <3> HIDE DEF b
    <3> QED
      BY <1>5, <1>6
  <2>3. z[b + Len(t) + 1] = <<NUL>>[b + Len(t) + 1 - Len(x)]
    <3> HIDE DEF b
    <3> QED
      BY <1>7, <2>2 DEF z
  <2> QED
    BY <1>5, <2>1, <2>2, <2>3
<1>10. \A i \in 1..Len(t) : z[b + i] = t[i]
  <2> SUFFICES ASSUME NEW i \in 1..Len(t)
               PROVE  z[b + i] = t[i]
    OBVIOUS
  <2> HIDE DEF b
  <2>1. b + i \in 1..(b + Len(t)) /\ b + i <= Len(x) /\ ~ (b + i <= b) /\ (b + i) - b = i
    BY <1>5, <1>6
  <2>2. z[b + i] = x[b + i]
    BY <1>5, <1>6, <1>7, <2>1 DEF z
  <2>3. x[b + i] = t[(b + i) - b]
    BY <1>6, <2>1
  <2> QED
    BY <2>1, <2>2, <2>3
<1>11. Starts(z, w) /\ Wire(g) = z
  BY <1>3, <1>8 DEF z
<1>12. /\ b + Len(t) + 1 <= Len(w)
       /\ \A i \in 1..Len(t) : w[b + i] = t[i]
       /\ w[b + Len(t) + 1] = NUL
  <2> HIDE DEF b
  <2>1. \A i \in 1..(b + Len(t) + 1) : w[i] = z[i]
    BY <1>9, <1>11 DEF Starts
  <2>2. b + Len(t) + 1 \in 1..(b + Len(t) + 1) /\ \A i \in 1..Len(t) : b + i \in 1..(b + Len(t) + 1)
    BY <1>5
  <2> QED
    BY <1>9, <1>10, <1>11, <2>1, <2>2 DEF Starts
<1> QED
  BY <1>5, <1>9, <1>11, <1>12 DEF w, t, f, g

--------------------------------------------------------------------------------
(* Bytes: indexOf, mid and remove.                                         *)

\* What indexOf finds: the first NUL, if there is one.
LEMMA FirstNul ==
  ASSUME NEW bytes \in Seq(Unit), NEW from \in Nat
  PROVE  LET i == IndexOfNul(bytes, from)
         IN  /\ Len(bytes) \in Nat
             /\ \/ i = -1 /\ \A j \in from..(Len(bytes) - 1) : bytes[j + 1] # NUL
                \/ /\ i \in from..(Len(bytes) - 1) /\ bytes[i + 1] = NUL
                   /\ \A j \in from..(i - 1) : bytes[j + 1] # NUL
<1> DEFINE found == {i \in from..(Len(bytes) - 1) : bytes[i + 1] = NUL}
           least == CHOOSE i \in found : \A j \in found : i <= j
<1>1. Len(bytes) \in Nat
  BY LenProperties
<1>2. IndexOfNul(bytes, from) = IF found = {} THEN -1 ELSE least
  BY DEF IndexOfNul
<1>3. CASE found = {}
  BY <1>1, <1>2, <1>3
<1>4. CASE found # {}
  <2>1. found \in SUBSET Nat
    BY <1>1
  <2>2. \E i \in found : \A j \in found : i <= j
    <3> HIDE DEF found
    <3> QED
      BY <1>4, <2>1, Least
  <2>3. least \in found /\ \A j \in found : least <= j
    <3> HIDE DEF found
    <3> QED
      BY <2>2
  <2>4. \A j \in from..(least - 1) : bytes[j + 1] # NUL
    <3> SUFFICES ASSUME NEW j \in from..(least - 1), bytes[j + 1] = NUL
                 PROVE  FALSE
      OBVIOUS
    <3>1. least \in from..(Len(bytes) - 1)
      BY <2>3
    <3> HIDE DEF least
    <3>2. j \in from..(Len(bytes) - 1) /\ j < least
      BY <1>1, <3>1
    <3>3. j \in found
      BY <3>2
    <3> QED
      BY <2>3, <3>1, <3>2, <3>3
  <2> HIDE DEF least
  <2> QED
    BY <1>1, <1>2, <1>4, <2>3, <2>4
<1> QED
  BY <1>3, <1>4

\* What decodeField() reads up to the next NUL, or to the end, is a text.
LEMMA NextText ==
  ASSUME NEW bytes \in Seq(Unit), Alternating(bytes), NEW from \in Nat
  PROVE  LET i == IndexOfNul(bytes, from)
         IN  i \in Nat \cup {-1} /\ Mid(bytes, from, i - from) \in Text
<1> DEFINE i == IndexOfNul(bytes, from)
           last == IF i - from < 0 THEN Len(bytes) ELSE i
           text == SubSeq(bytes, from + 1, last)
<1>1. /\ Len(bytes) \in Nat
      /\ \/ i = -1 /\ \A j \in from..(Len(bytes) - 1) : bytes[j + 1] # NUL
         \/ /\ i \in from..(Len(bytes) - 1) /\ bytes[i + 1] = NUL
            /\ \A j \in from..(i - 1) : bytes[j + 1] # NUL
  BY FirstNul
<1>2. i \in Nat \cup {-1} /\ last \in 0..Len(bytes)
  <2> HIDE DEF i
  <2> QED
    BY <1>1
<1>3. Mid(bytes, from, i - from) = text
  <2> HIDE DEF i
  <2>1. i - from < 0 \/ from + (i - from) = i
    BY <1>2
  <2> QED
    BY <2>1 DEF Mid
<1>4. \A j \in (from + 1)..last : bytes[j] \in Nat
  <2> SUFFICES ASSUME NEW j \in (from + 1)..last
               PROVE  bytes[j] \in Nat
    OBVIOUS
  <2> HIDE DEF i
  <2>1. j - 1 \in from..(Len(bytes) - 1) /\ (i # -1 => j - 1 \in from..(i - 1)) /\ (j - 1) + 1 = j
    BY <1>1, <1>2
  <2>2. bytes[(j - 1) + 1] # NUL
    BY <1>1, <2>1
  <2>3. bytes[j] \in Unit
    BY <1>1, <2>1, ElementOfSeq
  <2> QED
    BY <2>1, <2>2, <2>3 DEF Unit
<1>5. last <= from + 1
  <2> SUFFICES ASSUME last > from + 1
               PROVE  FALSE
    BY <1>2
  <2> HIDE DEF last, i
  <2>1. from + 1 \in (from + 1)..last /\ from + 2 \in (from + 1)..last /\ from + 1 \in 1..(Len(bytes) - 1)
    BY <1>1, <1>2
  <2>2. bytes[from + 1] = NUL \/ bytes[(from + 1) + 1] = NUL
    BY <2>1 DEF Alternating
  <2>3. (from + 1) + 1 = from + 2 /\ NUL \notin Nat
    BY DEF NUL
  <2> QED
    BY <1>4, <2>1, <2>2, <2>3
<1>6. text \in Seq(Nat) /\ Len(text) <= 1
  <2> HIDE DEF last
  <2>1. \A j \in (from + 1)..last : bytes[j] \in Nat
    BY <1>4
  <2>2. /\ SubSeq(bytes, from + 1, last) \in Seq(Nat)
        /\ Len(SubSeq(bytes, from + 1, last)) = IF from + 1 <= last THEN last - (from + 1) + 1 ELSE 0
    BY <1>1, <1>2, <2>1, SubSeqProperties
  <2> QED
    BY <1>2, <1>5, <2>2
<1> QED
  BY <1>2, <1>3, <1>6 DEF Text

\* What is left of a stream when its first n units are gone.
LEMMA Rest ==
  ASSUME NEW s \in Seq(Unit), NEW n \in Nat
  PROVE  LET r == SubSeq(s, n + 1, Len(s)) IN
         /\ r \in Seq(Unit) /\ Len(s) \in Nat /\ Len(r) \in Nat
         /\ Len(r) = (IF n <= Len(s) THEN Len(s) - n ELSE 0)
         /\ \A x \in 1..Len(r) : r[x] = s[n + x] /\ n + x \in 1..Len(s)
         /\ (Alternating(s) => Alternating(r))
         /\ r # <<>> => r[Len(r)] = s[Len(s)]
<1> DEFINE r == SubSeq(s, n + 1, Len(s))
<1>1. Len(s) \in Nat /\ \A i \in (n + 1)..Len(s) : s[i] \in Unit
  BY LenProperties, ElementOfSeq
<1>2. /\ r \in Seq(Unit) /\ Len(r) = IF n + 1 <= Len(s) THEN Len(s) - (n + 1) + 1 ELSE 0
      /\ \A x \in 1..(Len(s) - (n + 1) + 1) : r[x] = s[(n + 1) + x - 1]
  BY <1>1, SubSeqProperties
<1> HIDE DEF r
<1>3. Len(r) \in Nat /\ Len(r) = IF n <= Len(s) THEN Len(s) - n ELSE 0
  BY <1>1, <1>2
<1>4. ASSUME NEW x \in 1..Len(r)
      PROVE  r[x] = s[n + x] /\ n + x \in 1..Len(s)
  <2>1. n + 1 <= Len(s) /\ x \in 1..(Len(s) - (n + 1) + 1) /\ (n + 1) + x - 1 = n + x /\ n + x \in 1..Len(s)
    BY <1>1, <1>3
  <2> QED
    BY <1>2, <2>1
<1>5. ASSUME Alternating(s)
      PROVE  Alternating(r)
  <2> SUFFICES ASSUME NEW x \in 1..(Len(r) - 1)
               PROVE  r[x] = NUL \/ r[x + 1] = NUL
    BY DEF Alternating
  <2>1. x \in 1..Len(r) /\ x + 1 \in 1..Len(r) /\ n + (x + 1) = (n + x) + 1
    BY <1>3
  <2>2. r[x] = s[n + x] /\ r[x + 1] = s[n + (x + 1)] /\ n + x \in 1..(Len(s) - 1)
    BY <1>1, <1>3, <1>4, <2>1
  <2> QED
    BY <1>5, <2>1, <2>2 DEF Alternating
<1>6. r # <<>> => r[Len(r)] = s[Len(s)]
  <2> SUFFICES ASSUME r # <<>>
               PROVE  r[Len(r)] = s[Len(s)]
    OBVIOUS
  <2>1. Len(r) # 0
    BY <1>2, EmptySeq
  <2>2. Len(r) \in 1..Len(r) /\ n + Len(r) = Len(s)
    BY <1>1, <1>3, <2>1
  <2> QED
    BY <1>4, <2>2
<1> QED
  BY <1>1, <1>2, <1>3, <1>4, <1>5, <1>6 DEF r

\* A stream that ends with the end of a field, or is empty.
Ended(units) == units # <<>> => units[Len(units)] = NUL

\* A stream cut in two.
LEMMA Cut ==
  ASSUME NEW s \in Seq(Unit), NEW n \in 0..Len(s)
  PROVE  /\ SubSeq(s, 1, n) \in Seq(Unit) /\ Len(SubSeq(s, 1, n)) = n
         /\ SubSeq(s, 1, n) \o SubSeq(s, n + 1, Len(s)) = s
         /\ Alternating(s) => Alternating(SubSeq(s, 1, n))
<1> DEFINE f == SubSeq(s, 1, n)
           r == SubSeq(s, n + 1, Len(s))
<1>1. Len(s) \in Nat /\ n \in Nat /\ \A i \in 1..n : s[i] \in Unit
  BY LenProperties, ElementOfSeq
<1>2. f \in Seq(Unit) /\ Len(f) = n /\ \A i \in 1..n : f[i] = s[i]
  <2>1. /\ f \in Seq(Unit) /\ Len(f) = IF 1 <= n THEN n - 1 + 1 ELSE 0
        /\ \A i \in 1..(n - 1 + 1) : f[i] = s[1 + i - 1]
    BY <1>1, SubSeqProperties
  <2> QED
    BY <1>1, <2>1
<1>3. /\ r \in Seq(Unit) /\ Len(r) = Len(s) - n
      /\ \A x \in 1..Len(r) : r[x] = s[n + x]
  BY <1>1, Rest
<1> HIDE DEF f, r
<1>4. /\ f \o r \in Seq(Unit) /\ Len(f \o r) = Len(s)
      /\ \A i \in 1..Len(s) : (f \o r)[i] = IF i <= n THEN f[i] ELSE r[i - n]
  <2>1. /\ f \o r \in Seq(Unit) /\ Len(f \o r) = Len(f) + Len(r)
        /\ \A i \in 1..(Len(f) + Len(r)) : (f \o r)[i] = IF i <= Len(f) THEN f[i] ELSE r[i - Len(f)]
    BY <1>2, <1>3, ConcatProperties
  <2>2. Len(f) + Len(r) = Len(s)
    BY <1>1, <1>2, <1>3
  <2> QED
    BY <1>2, <2>1, <2>2
<1>5. ASSUME NEW i \in 1..Len(s)
      PROVE  (f \o r)[i] = s[i]
  <2>1. CASE i <= n
    <3>1. i \in 1..n
      BY <1>1, <2>1
    <3> QED
      BY <1>2, <1>4, <2>1, <3>1
  <2>2. CASE ~ (i <= n)
    <3>1. i - n \in 1..Len(r) /\ n + (i - n) = i
      BY <1>1, <1>3, <2>2
    <3> QED
      BY <1>3, <1>4, <2>2, <3>1
  <2> QED
    BY <2>1, <2>2
<1>6. f \o r = s
  BY <1>4, <1>5, SeqEqual
<1>7. Alternating(s) => Alternating(f)
  <2> SUFFICES ASSUME Alternating(s), NEW i \in 1..(Len(f) - 1)
               PROVE  f[i] = NUL \/ f[i + 1] = NUL
    BY DEF Alternating
  <2>1. i \in 1..n /\ i + 1 \in 1..n /\ i \in 1..(Len(s) - 1)
    BY <1>1, <1>2
  <2> QED
    BY <1>2, <2>1 DEF Alternating
<1> QED
  BY <1>2, <1>6, <1>7 DEF f, r

\* The units of two streams, one behind the other.
LEMMA JoinUnits ==
  ASSUME NEW s \in Seq(Unit), NEW w \in Seq(Unit)
  PROVE  /\ s \o w \in Seq(Unit) /\ Len(s) \in Nat /\ Len(w) \in Nat
         /\ Len(s \o w) = Len(s) + Len(w)
         /\ \A i \in 1..Len(s) : (s \o w)[i] = s[i]
         /\ \A i \in 1..Len(w) : (s \o w)[Len(s) + i] = w[i]
<1> DEFINE z == s \o w
<1>1. /\ z \in Seq(Unit) /\ Len(s) \in Nat /\ Len(w) \in Nat /\ Len(z) = Len(s) + Len(w)
      /\ \A i \in 1..(Len(s) + Len(w)) : z[i] = IF i <= Len(s) THEN s[i] ELSE w[i - Len(s)]
  BY ConcatProperties, LenProperties
<1> HIDE DEF z
<1>2. \A i \in 1..Len(s) : z[i] = s[i]
  BY <1>1
<1>3. ASSUME NEW i \in 1..Len(w)
      PROVE  z[Len(s) + i] = w[i]
  <2>1. Len(s) + i \in 1..(Len(s) + Len(w)) /\ ~ (Len(s) + i <= Len(s)) /\ (Len(s) + i) - Len(s) = i
    BY <1>1
  <2> QED
    BY <1>1, <2>1
<1> QED
  BY <1>1, <1>2, <1>3 DEF z

\* A message is written behind what is in flight.
LEMMA WriteUnits ==
  ASSUME NEW s \in Seq(Unit), Alternating(s), Ended(s), NEW m \in Seq(Text), m # <<>>
  PROVE  /\ s \o Wire(m) \in Seq(Unit) /\ Len(s \o Wire(m)) = Len(s) + WireLength(m)
         /\ Alternating(s \o Wire(m)) /\ Ended(s \o Wire(m))
<1> DEFINE w == Wire(m)
           z == s \o w
<1>1. /\ w \in Seq(Unit) /\ Len(w) = WireLength(m) /\ Alternating(w)
      /\ Len(w) > 0 /\ w[Len(w)] = NUL
  BY WireShape DEF WireOf
<1> HIDE DEF w
<1>2. /\ z \in Seq(Unit) /\ Len(s) \in Nat /\ Len(w) \in Nat /\ Len(z) = Len(s) + Len(w)
      /\ \A i \in 1..Len(s) : z[i] = s[i]
      /\ \A i \in 1..Len(w) : z[Len(s) + i] = w[i]
  BY <1>1, JoinUnits
<1> HIDE DEF z
<1>3. Ended(z)
  <2>1. Len(w) \in 1..Len(w)
    BY <1>1, <1>2
  <2> QED
    BY <1>1, <1>2, <2>1 DEF Ended
<1>4. Alternating(z)
  <2> SUFFICES ASSUME NEW i \in 1..(Len(z) - 1)
               PROVE  z[i] = NUL \/ z[i + 1] = NUL
    BY DEF Alternating
  <2>1. CASE i < Len(s)
    <3>1. i \in 1..(Len(s) - 1) /\ i \in 1..Len(s) /\ i + 1 \in 1..Len(s)
      BY <1>2, <2>1
    <3> QED
      BY <1>2, <3>1 DEF Alternating
  <2>2. CASE i = Len(s)
    <3>1. s # <<>> /\ i \in 1..Len(s)
      BY <1>2, <2>2, EmptySeq
    <3> QED
      BY <1>2, <2>2, <3>1 DEF Ended
  <2>3. CASE i > Len(s)
    <3> DEFINE j == i - Len(s)
    <3>1. /\ j \in 1..(Len(w) - 1) /\ j \in 1..Len(w) /\ j + 1 \in 1..Len(w)
          /\ Len(s) + j = i /\ Len(s) + (j + 1) = i + 1
      BY <1>2, <2>3
    <3> HIDE DEF j
    <3>2. z[Len(s) + j] = w[j] /\ z[Len(s) + (j + 1)] = w[j + 1]
      BY <1>2, <3>1
    <3>3. w[j] = NUL \/ w[j + 1] = NUL
      BY <1>1, <3>1 DEF Alternating
    <3> QED
      BY <3>1, <3>2, <3>3
  <2> QED
    BY <1>2, <2>1, <2>2, <2>3
<1> QED
  BY <1>1, <1>2, <1>3, <1>4 DEF z, w

\* What is left of two streams when the front of the first is gone.
LEMMA RestOfJoin ==
  ASSUME NEW s \in Seq(Unit), NEW w \in Seq(Unit), NEW n \in 0..Len(s)
  PROVE  SubSeq(s, n + 1, Len(s)) \o w = SubSeq(s \o w, n + 1, Len(s \o w))
<1> DEFINE z == s \o w
           r == SubSeq(s, n + 1, Len(s))
           q == SubSeq(z, n + 1, Len(z))
           y == r \o w
<1>1. /\ z \in Seq(Unit) /\ Len(s) \in Nat /\ Len(w) \in Nat /\ Len(z) = Len(s) + Len(w)
      /\ \A i \in 1..Len(s) : z[i] = s[i]
      /\ \A i \in 1..Len(w) : z[Len(s) + i] = w[i]
      /\ n \in Nat /\ n <= Len(s)
  BY JoinUnits, LenProperties
<1> HIDE DEF z
<1>2. /\ r \in Seq(Unit) /\ Len(r) = Len(s) - n
      /\ \A x \in 1..Len(r) : r[x] = s[n + x] /\ n + x \in 1..Len(s)
  BY <1>1, Rest
<1>3. /\ q \in Seq(Unit) /\ Len(q) = Len(z) - n
      /\ \A x \in 1..Len(q) : q[x] = z[n + x] /\ n + x \in 1..Len(z)
  BY <1>1, Rest
<1> HIDE DEF r, q
<1>4. /\ y \in Seq(Unit) /\ Len(y) = Len(r) + Len(w)
      /\ \A i \in 1..Len(r) : y[i] = r[i]
      /\ \A i \in 1..Len(w) : y[Len(r) + i] = w[i]
  BY <1>2, JoinUnits
<1> HIDE DEF y
<1>5. ASSUME NEW i \in 1..Len(y)
      PROVE  y[i] = q[i]
  <2>1. i \in 1..Len(q) /\ q[i] = z[n + i]
    BY <1>1, <1>2, <1>3, <1>4
  <2>2. CASE i <= Len(r)
    <3>1. i \in 1..Len(r) /\ n + i \in 1..Len(s)
      BY <1>1, <1>2, <2>2
    <3> QED
      BY <1>1, <1>2, <1>4, <2>1, <3>1
  <2>3. CASE ~ (i <= Len(r))
    <3> DEFINE j == i - Len(r)
    <3>0. Len(r) \in Nat /\ i \in 1..(Len(r) + Len(w)) /\ Len(s) = n + Len(r)
      BY <1>1, <1>2, <1>4
    <3>1. j \in 1..Len(w) /\ Len(r) + j = i /\ Len(s) + j = n + i
      <4>1. \A a, b, c, d \in Nat : d \in 1..(a + b) /\ ~ (d <= a)
                => d - a \in 1..b /\ a + (d - a) = d /\ (c + a) + (d - a) = c + d
        OBVIOUS
      <4> QED
        BY <1>1, <2>3, <3>0, <4>1
    <3> HIDE DEF j
    <3>2. y[Len(r) + j] = w[j] /\ z[Len(s) + j] = w[j]
      BY <1>1, <1>4, <3>1
    <3> QED
      BY <2>1, <3>1, <3>2
  <2> QED
    BY <2>2, <2>3
<1>6. Len(y) = Len(q)
  BY <1>1, <1>2, <1>3, <1>4
<1>7. y = q
  BY <1>3, <1>4, <1>5, <1>6, SeqEqual
<1> QED
  BY <1>7 DEF y, q, r, z

--------------------------------------------------------------------------------
(* The units of the messages sent.                                         *)

\* f counts the units of the first messages, up to the k-th.
Counts(f, msgs, k) == /\ f[0] = 0 /\ EndOf(msgs, k) = f[k] /\ f[k] \in Nat
                      /\ \A i \in 1..k : f[i] = f[i - 1] + WireLength(msgs[i])

\* The recursion of EndOf: nothing, and the units of each message.
LEMMA EndRec ==
  ASSUME NEW msgs \in Seq(Seq(Text)), NEW k \in 0..Len(msgs)
  PROVE  \E f : Counts(f, msgs, k)
<1> DEFINE step == [i \in 1..k |-> [e \in Nat |-> e + WireLength(msgs[i])]]
           Rec(f) == f = [i \in 0..k |-> IF i = 0 THEN 0 ELSE f[i - 1] + WireLength(msgs[i])]
<1>1. k \in Nat /\ \A i \in 1..k : WireLength(msgs[i]) \in Nat
  <2>1. <<>> \in Text
    BY DEF Text
  <2>2. k \in Nat /\ \A i \in 1..k : msgs[i] \in Seq(Text)
    BY LenProperties, ElementOfSeq
  <2> QED
    BY <2>1, <2>2, WireLengthAppend
<1>2. step \in Steps(k, Nat)
  BY <1>1 DEF Steps
<1>3. PICK f \in [0..k -> Nat] : f[0] = 0 /\ \A i \in 1..k : f[i] = step[i][f[i - 1]]
  <2>1. \E f \in Results(k, Nat) : Obeys(f, k, 0, step)
    <3> HIDE DEF step
    <3> QED
      BY <1>1, <1>2, Recursion
  <2> QED
    BY <2>1 DEF Results, Obeys
<1>4. ASSUME NEW i \in 0..k
      PROVE  f[i] = IF i = 0 THEN 0 ELSE f[i - 1] + WireLength(msgs[i])
  <2>1. CASE i = 0
    BY <1>3, <2>1
  <2>2. CASE i # 0
    <3>1. i \in 1..k /\ f[i - 1] \in Nat
      BY <1>1, <1>3, <2>2
    <3>2. f[i] = step[i][f[i - 1]]
      <4> HIDE DEF step
      <4> QED
        BY <1>3, <3>1
    <3> QED
      BY <3>1, <3>2, <2>2
  <2> QED
    BY <2>1, <2>2
<1>5. Rec(f)
  <2>1. f = [i \in 0..k |-> f[i]]
    OBVIOUS
  <2> QED
    BY <2>1, <1>4
<1> DEFINE h == CHOOSE h : Rec(h)
<1>6. Rec(h) /\ EndOf(msgs, k) = h[k]
  <2>1. EndOf(msgs, k) = h[k]
    BY Zenon DEF EndOf
  <2>2. Rec(h)
    <3> HIDE DEF Rec
    <3> QED
      BY <1>5, Zenon
  <2> QED
    BY <2>1, <2>2
<1>7. h[0] = 0 /\ \A i \in 1..k : h[i] = h[i - 1] + WireLength(msgs[i])
  <2> HIDE DEF h, step
  <2>1. \A i \in 0..k : h[i] = IF i = 0 THEN 0 ELSE h[i - 1] + WireLength(msgs[i])
    BY <1>6
  <2>2. 0 \in 0..k /\ \A i \in 1..k : i \in 0..k /\ i # 0
    BY <1>1
  <2> QED
    BY <2>1, <2>2
<1>8. h[k] \in Nat
  <2> HIDE DEF h
  <2>1. \A i \in 1..k : f[i - 1] = h[i - 1] => f[i] = h[i]
    BY <1>4, <1>7
  <2>2. f[0] = h[0]
    BY <1>3, <1>7
  <2>3. f[k] = h[k]
    BY <1>1, <2>1, <2>2, Alike
  <2> QED
    BY <1>1, <1>3, <2>3
<1> QED
  <2> HIDE DEF h
  <2> QED
    BY <1>6, <1>7, <1>8 DEF Counts

\* Each message ends its own units after the one before it.
LEMMA Ends ==
  ASSUME NEW msgs \in Seq(Seq(Text))
  PROVE  /\ Len(msgs) \in Nat
         /\ EndOf(msgs, 0) = 0
         /\ \A k \in 0..Len(msgs) : EndOf(msgs, k) \in Nat
         /\ \A k \in 1..Len(msgs) :
              EndOf(msgs, k) = EndOf(msgs, k - 1) + WireLength(msgs[k])
<1>1. Len(msgs) \in Nat /\ 0 \in 0..Len(msgs)
  BY LenProperties
<1>2. EndOf(msgs, 0) = 0 /\ \A k \in 0..Len(msgs) : EndOf(msgs, k) \in Nat
  BY <1>1, EndRec DEF Counts
<1>3. ASSUME NEW k \in 1..Len(msgs)
      PROVE  EndOf(msgs, k) = EndOf(msgs, k - 1) + WireLength(msgs[k])
  <2>1. k \in 0..Len(msgs) /\ k - 1 \in 0..Len(msgs) /\ k \in Nat /\ k - 1 \in Nat
    BY <1>1
  <2>2. PICK f : Counts(f, msgs, k)
    BY <2>1, EndRec
  <2>3. PICK g : Counts(g, msgs, k - 1)
    BY <2>1, EndRec
  <2>4. \A i \in 1..(k - 1) : f[i - 1] = g[i - 1] => f[i] = g[i]
    BY <2>1, <2>2, <2>3 DEF Counts
  <2>5. f[0] = g[0]
    BY <2>2, <2>3 DEF Counts
  <2>6. f[k - 1] = g[k - 1]
    BY <2>1, <2>4, <2>5, Alike
  <2>7. f[k] = f[k - 1] + WireLength(msgs[k])
    BY <2>1, <2>2 DEF Counts
  <2> QED
    BY <2>2, <2>3, <2>6, <2>7 DEF Counts
<1> QED
  BY <1>1, <1>2, <1>3

\* One message more does not move the ends of those before it.
LEMMA EndsAppend ==
  ASSUME NEW msgs \in Seq(Seq(Text)), NEW m \in Seq(Text)
  PROVE  LET a == Append(msgs, m) IN
         /\ a \in Seq(Seq(Text)) /\ Len(a) = Len(msgs) + 1
         /\ \A i \in 1..Len(msgs) : a[i] = msgs[i]
         /\ a[Len(msgs) + 1] = m
         /\ \A k \in 0..Len(msgs) : EndOf(a, k) = EndOf(msgs, k)
         /\ EndOf(a, Len(a)) = EndOf(msgs, Len(msgs)) + WireLength(m)
<1> DEFINE a == Append(msgs, m)
<1>1. /\ a \in Seq(Seq(Text)) /\ Len(a) = Len(msgs) + 1 /\ Len(msgs) \in Nat
      /\ \A i \in 1..Len(msgs) : a[i] = msgs[i]
      /\ a[Len(msgs) + 1] = m
  BY AppendProperties, LenProperties
<1> HIDE DEF a
<1>2. ASSUME NEW k \in 0..Len(msgs)
      PROVE  EndOf(a, k) = EndOf(msgs, k)
  <2>1. k \in 0..Len(a) /\ k \in Nat
    BY <1>1
  <2>2. PICK f : Counts(f, msgs, k)
    BY EndRec
  <2>3. PICK g : Counts(g, a, k)
    BY <1>1, <2>1, EndRec
  <2>4. ASSUME NEW i \in 1..k, f[i - 1] = g[i - 1]
        PROVE  f[i] = g[i]
    <3>1. i \in 1..Len(msgs)
      BY <1>1
    <3>2. a[i] = msgs[i]
      BY <1>1, <3>1
    <3> QED
      BY <2>2, <2>3, <2>4, <3>2 DEF Counts
  <2>5. f[0] = g[0]
    BY <2>2, <2>3 DEF Counts
  <2>6. f[k] = g[k]
    BY <2>1, <2>4, <2>5, Alike
  <2> QED
    BY <2>2, <2>3, <2>6 DEF Counts
<1>3. EndOf(a, Len(msgs) + 1) = EndOf(a, (Len(msgs) + 1) - 1) + WireLength(a[Len(msgs) + 1])
  <2>1. Len(msgs) + 1 \in 1..Len(a)
    BY <1>1
  <2> QED
    BY <1>1, <2>1, Ends
<1>4. EndOf(a, Len(a)) = EndOf(msgs, Len(msgs)) + WireLength(m)
  <2>1. (Len(msgs) + 1) - 1 = Len(msgs) /\ Len(msgs) \in 0..Len(msgs)
    BY <1>1
  <2> QED
    BY <1>1, <1>2, <1>3, <2>1
<1> QED
  BY <1>1, <1>2, <1>4 DEF a

\* A later message ends later.
LEMMA EndsGrow ==
  ASSUME NEW msgs \in Seq(Seq(Text)), \A i \in DOMAIN msgs : msgs[i] # <<>>,
         NEW j \in 0..Len(msgs), NEW k \in 0..Len(msgs), j < k
  PROVE  EndOf(msgs, j) < EndOf(msgs, k)
<1> DEFINE P == {d \in Nat : j + d + 1 <= Len(msgs) => EndOf(msgs, j) < EndOf(msgs, j + d + 1)}
<1>1. /\ Len(msgs) \in Nat /\ DOMAIN msgs = 1..Len(msgs)
      /\ \A i \in 0..Len(msgs) : EndOf(msgs, i) \in Nat
      /\ \A i \in 1..Len(msgs) : EndOf(msgs, i) = EndOf(msgs, i - 1) + WireLength(msgs[i])
  BY Ends, LenProperties
<1>2. \A i \in 1..Len(msgs) : WireLength(msgs[i]) \in Nat /\ WireLength(msgs[i]) > 0
  <2>1. <<>> \in Text
    BY DEF Text
  <2>2. \A i \in 1..Len(msgs) : msgs[i] \in Seq(Text)
    BY ElementOfSeq
  <2> QED
    BY <1>1, <2>1, <2>2, WireShape, WireLengthAppend DEF WireOf
<1>3. \A i \in 1..Len(msgs) : EndOf(msgs, i - 1) < EndOf(msgs, i)
  <2> SUFFICES ASSUME NEW i \in 1..Len(msgs)
               PROVE  EndOf(msgs, i - 1) < EndOf(msgs, i)
    OBVIOUS
  <2>1. EndOf(msgs, i - 1) \in Nat /\ EndOf(msgs, i) \in Nat
    BY <1>1
  <2> QED
    BY <1>1, <1>2, <2>1
<1>4. 0 \in P
  <2>1. j + 1 <= Len(msgs) => EndOf(msgs, (j + 1) - 1) < EndOf(msgs, j + 1)
    BY <1>1, <1>3
  <2> QED
    BY <2>1
<1>5. ASSUME NEW d \in P
      PROVE  d + 1 \in P
  <2>1. d \in Nat /\ j \in Nat
    OBVIOUS
  <2>2. ASSUME j + d + 2 <= Len(msgs)
        PROVE  EndOf(msgs, j) < EndOf(msgs, j + d + 2)
    <3>1. EndOf(msgs, j) < EndOf(msgs, j + d + 1)
      BY <1>1, <2>1, <2>2
    <3>2. j + d + 2 \in 1..Len(msgs) /\ (j + d + 2) - 1 = j + d + 1 /\ j + d + 1 \in 0..Len(msgs)
      BY <1>1, <2>1, <2>2
    <3>3. EndOf(msgs, j + d + 1) < EndOf(msgs, j + d + 2)
      BY <1>3, <3>2
    <3>4. EndOf(msgs, j) \in Nat /\ EndOf(msgs, j + d + 1) \in Nat /\ EndOf(msgs, j + d + 2) \in Nat
      BY <1>1, <3>2
    <3> QED
      BY <3>1, <3>3, <3>4
  <2>3. j + (d + 1) + 1 = j + d + 2
    BY <2>1
  <2> QED
    BY <2>1, <2>2, <2>3
<1>6. P \in SUBSET Nat
  OBVIOUS
<1>7. k - j - 1 \in Nat /\ j + (k - j - 1) + 1 = k /\ k <= Len(msgs)
  BY <1>1
<1> HIDE DEF P
<1>8. k - j - 1 \in P
  BY <1>4, <1>5, <1>6, <1>7, Induction
<1> QED
  BY <1>7, <1>8 DEF P

\* A place in the stream is at the end of a message or inside one.
LEMMA EndsBetween ==
  ASSUME NEW msgs \in Seq(Seq(Text)), NEW n \in Nat, n <= EndOf(msgs, Len(msgs))
  PROVE  \/ \E i \in 0..Len(msgs) : EndOf(msgs, i) = n
         \/ \E i \in 0..(Len(msgs) - 1) : EndOf(msgs, i) < n /\ n < EndOf(msgs, i + 1)
<1> DEFINE At == \E i \in 0..Len(msgs) : EndOf(msgs, i) = n
           In == \E i \in 0..(Len(msgs) - 1) : EndOf(msgs, i) < n /\ n < EndOf(msgs, i + 1)
           P == {k \in Nat : k <= Len(msgs) /\ n <= EndOf(msgs, k) => At \/ In}
<1>1. /\ Len(msgs) \in Nat /\ EndOf(msgs, 0) = 0
      /\ \A i \in 0..Len(msgs) : EndOf(msgs, i) \in Nat
  BY Ends
<1>2. 0 \in P
  <2>1. n <= EndOf(msgs, 0) => EndOf(msgs, 0) = n
    BY <1>1
  <2> QED
    BY <1>1, <2>1
<1>3. ASSUME NEW k \in P
      PROVE  k + 1 \in P
  <2>1. k \in Nat /\ (k <= Len(msgs) /\ n <= EndOf(msgs, k) => At \/ In)
    OBVIOUS
  <2>2. ASSUME k + 1 <= Len(msgs), n <= EndOf(msgs, k + 1)
        PROVE  At \/ In
    <3>1. k \in 0..Len(msgs) /\ k + 1 \in 0..Len(msgs) /\ k \in 0..(Len(msgs) - 1)
      BY <1>1, <2>1, <2>2
    <3>2. EndOf(msgs, k) \in Nat /\ EndOf(msgs, k + 1) \in Nat
      BY <1>1, <3>1
    <3>3. CASE n <= EndOf(msgs, k)
      <4> HIDE DEF At, In
      <4> QED
        BY <1>1, <2>1, <2>2, <3>3
    <3>4. CASE n = EndOf(msgs, k + 1)
      BY <3>1, <3>4
    <3>5. CASE EndOf(msgs, k) < n /\ n < EndOf(msgs, k + 1)
      BY <3>1, <3>5
    <3> HIDE DEF At, In
    <3> QED
      BY <2>2, <3>2, <3>3, <3>4, <3>5
  <2> HIDE DEF At, In
  <2> QED
    BY <2>1, <2>2
<1>4. P \in SUBSET Nat
  OBVIOUS
<1> HIDE DEF P
<1>5. Len(msgs) \in P
  BY <1>1, <1>2, <1>3, <1>4, Induction
<1> HIDE DEF At, In
<1>6. At \/ In
  BY <1>1, <1>5 DEF P
<1> QED
  BY <1>6 DEF At, In

\* Messages that have at least one field each.
WithFields(msgs) == msgs \in Seq(Seq(Text)) /\ \A i \in DOMAIN msgs : msgs[i] # <<>>

\* The units are those of the messages after the k-th.
Carries(units, msgs, k) ==
  /\ Len(units) = EndOf(msgs, Len(msgs)) - EndOf(msgs, k)
  /\ \A i \in (k + 1)..Len(msgs) : \A x \in 1..WireLength(msgs[i]) :
       units[EndOf(msgs, i - 1) - EndOf(msgs, k) + x] = Wire(msgs[i])[x]

\* The ends of messages, in order.
LEMMA EndsInOrder ==
  ASSUME NEW msgs, WithFields(msgs), NEW j \in 0..Len(msgs), NEW k \in 0..Len(msgs), j <= k
  PROVE  EndOf(msgs, j) \in Nat /\ EndOf(msgs, k) \in Nat /\ EndOf(msgs, j) <= EndOf(msgs, k)
<1>1. EndOf(msgs, j) \in Nat /\ EndOf(msgs, k) \in Nat
  BY Ends DEF WithFields
<1>2. CASE j = k
  BY <1>1, <1>2
<1>3. CASE j < k
  <2>1. msgs \in Seq(Seq(Text)) /\ \A i \in DOMAIN msgs : msgs[i] # <<>>
    BY DEF WithFields
  <2>2. EndOf(msgs, j) < EndOf(msgs, k)
    BY <1>3, <2>1, EndsGrow
  <2> QED
    BY <1>1, <2>2
<1> QED
  BY <1>2, <1>3

\* Where the units of a message are, in what carries it.
LEMMA Places ==
  ASSUME NEW msgs, WithFields(msgs), NEW k \in 0..Len(msgs), NEW i \in (k + 1)..Len(msgs)
  PROVE  LET a == EndOf(msgs, k)
             b == EndOf(msgs, i - 1)
             c == EndOf(msgs, Len(msgs))
             l == WireLength(msgs[i])
         IN  /\ a \in Nat /\ b \in Nat /\ c \in Nat /\ l \in Nat /\ l > 0
             /\ a <= b /\ b + l <= c /\ EndOf(msgs, i) = b + l
             /\ \A x \in 1..l : b - a + x \in 1..(c - a)
<1> DEFINE a == EndOf(msgs, k)
           b == EndOf(msgs, i - 1)
           c == EndOf(msgs, Len(msgs))
           l == WireLength(msgs[i])
<1>1. /\ Len(msgs) \in Nat /\ k \in Nat /\ i \in 1..Len(msgs) /\ i \in Nat
      /\ i - 1 \in 0..Len(msgs) /\ i \in 0..Len(msgs) /\ Len(msgs) \in 0..Len(msgs)
      /\ k <= i - 1 /\ i <= Len(msgs)
  BY LenProperties DEF WithFields
<1>2. a \in Nat /\ b \in Nat /\ c \in Nat /\ a <= b
  BY <1>1, EndsInOrder
<1>3. EndOf(msgs, i) <= c /\ EndOf(msgs, i) = b + l
  BY <1>1, EndsInOrder, Ends DEF WithFields
<1>4. l \in Nat /\ l > 0
  <2>1. msgs[i] \in Seq(Text) /\ msgs[i] # <<>>
    BY <1>1, ElementOfSeq DEF WithFields
  <2>2. Len(Wire(msgs[i])) = l /\ Wire(msgs[i]) \in Seq(Unit)
    BY <2>1, WireShape DEF WireOf
  <2>3. l > 0 /\ Len(Wire(msgs[i])) \in Nat
    BY <2>1, <2>2, WireShape, LenProperties DEF WireOf
  <2> QED
    BY <2>2, <2>3
<1> HIDE DEF a, b, c, l
<1>5. \A x \in 1..l : b - a + x \in 1..(c - a)
  BY <1>2, <1>3, <1>4
<1> QED
  BY <1>2, <1>3, <1>4, <1>5 DEF a, b, c, l

\* One more message is written.
LEMMA CarriesWrite ==
  ASSUME NEW msgs, WithFields(msgs), NEW k \in 0..Len(msgs), NEW units \in Seq(Unit),
         Carries(units, msgs, k), NEW m \in Seq(Text), m # <<>>
  PROVE  /\ WithFields(Append(msgs, m))
         /\ Carries(units \o Wire(m), Append(msgs, m), k)
<1> DEFINE s == Append(msgs, m)
           w == Wire(m)
           z == units \o w
<1>1. /\ s \in Seq(Seq(Text)) /\ Len(s) = Len(msgs) + 1 /\ Len(msgs) \in Nat
      /\ \A i \in 1..Len(msgs) : s[i] = msgs[i]
      /\ s[Len(msgs) + 1] = m
      /\ \A i \in 0..Len(msgs) : EndOf(s, i) = EndOf(msgs, i)
      /\ EndOf(s, Len(s)) = EndOf(msgs, Len(msgs)) + WireLength(m)
      /\ EndOf(msgs, k) \in Nat /\ EndOf(msgs, Len(msgs)) \in Nat
      /\ k \in Nat /\ k <= Len(msgs)
  BY EndsAppend, Ends DEF WithFields
<1>2. w \in Seq(Unit) /\ Len(w) = WireLength(m)
  BY WireShape DEF WireOf
<1>3. WithFields(s)
  <2>1. DOMAIN s = 1..Len(s) /\ DOMAIN msgs = 1..Len(msgs)
    BY <1>1, LenProperties DEF WithFields
  <2>2. \A i \in 1..Len(s) : i \in 1..Len(msgs) \/ i = Len(msgs) + 1
    BY <1>1
  <2> HIDE DEF s
  <2> QED
    BY <1>1, <2>1, <2>2 DEF WithFields
<1> HIDE DEF s, w
<1>4. /\ Len(units) \in Nat /\ Len(w) \in Nat /\ Len(z) = Len(units) + Len(w)
      /\ \A x \in 1..Len(units) : z[x] = units[x]
      /\ \A x \in 1..Len(w) : z[Len(units) + x] = w[x]
  BY <1>2, JoinUnits
<1> HIDE DEF z
<1>5. Len(units) = EndOf(msgs, Len(msgs)) - EndOf(msgs, k)
  BY DEF Carries
<1>6. Len(z) = EndOf(s, Len(s)) - EndOf(s, k)
  BY <1>1, <1>2, <1>4, <1>5
<1>7. ASSUME NEW i \in (k + 1)..Len(s), NEW x \in 1..WireLength(s[i])
      PROVE  z[EndOf(s, i - 1) - EndOf(s, k) + x] = Wire(s[i])[x]
  <2>1. CASE i = Len(msgs) + 1
    <3>1. i - 1 = Len(msgs) /\ Len(msgs) \in 0..Len(msgs) /\ s[i] = m /\ k \in 0..Len(msgs)
      BY <1>1, <2>1
    <3>2. EndOf(s, i - 1) - EndOf(s, k) = Len(units)
      BY <1>1, <1>5, <3>1
    <3> QED
      BY <1>2, <1>4, <3>1, <3>2 DEF w
  <2>2. CASE i # Len(msgs) + 1
    <3>1. i \in (k + 1)..Len(msgs) /\ i \in 1..Len(msgs) /\ i - 1 \in 0..Len(msgs)
      BY <1>1, <2>2
    <3>2. s[i] = msgs[i] /\ EndOf(s, i - 1) = EndOf(msgs, i - 1) /\ EndOf(s, k) = EndOf(msgs, k)
      BY <1>1, <3>1
    <3>3. EndOf(msgs, i - 1) - EndOf(msgs, k) + x \in 1..Len(units)
      BY <1>5, <3>1, <3>2, Places
    <3>4. units[EndOf(msgs, i - 1) - EndOf(msgs, k) + x] = Wire(msgs[i])[x]
      BY <3>1, <3>2 DEF Carries
    <3> QED
      BY <1>4, <3>2, <3>3, <3>4
  <2> QED
    BY <2>1, <2>2
<1>8. Carries(z, s, k)
  BY <1>6, <1>7 DEF Carries
<1> QED
  BY <1>3, <1>8 DEF z, s, w

\* The next message is at the front.
LEMMA CarriesHead ==
  ASSUME NEW msgs, WithFields(msgs), NEW k \in 0..(Len(msgs) - 1), NEW units \in Seq(Unit),
         Carries(units, msgs, k)
  PROVE  /\ WireLength(msgs[k + 1]) \in Nat /\ WireLength(msgs[k + 1]) > 0
         /\ WireLength(msgs[k + 1]) <= Len(units)
         /\ \A x \in 1..WireLength(msgs[k + 1]) : units[x] = Wire(msgs[k + 1])[x]
<1> DEFINE l == WireLength(msgs[k + 1])
<1>1. Len(msgs) \in Nat /\ k \in 0..Len(msgs) /\ k + 1 \in (k + 1)..Len(msgs) /\ (k + 1) - 1 = k
  BY LenProperties DEF WithFields
<1>2. /\ EndOf(msgs, k) \in Nat /\ EndOf(msgs, Len(msgs)) \in Nat /\ l \in Nat /\ l > 0
      /\ EndOf(msgs, k) + l <= EndOf(msgs, Len(msgs))
  BY <1>1, Places
<1>3. Len(units) = EndOf(msgs, Len(msgs)) - EndOf(msgs, k)
  BY DEF Carries
<1>4. ASSUME NEW x \in 1..l
      PROVE  units[x] = Wire(msgs[k + 1])[x]
  <2>1. units[EndOf(msgs, (k + 1) - 1) - EndOf(msgs, k) + x] = Wire(msgs[k + 1])[x]
    BY <1>1 DEF Carries
  <2>2. EndOf(msgs, (k + 1) - 1) - EndOf(msgs, k) + x = x
    BY <1>1, <1>2
  <2> QED
    BY <2>1, <2>2
<1> HIDE DEF l
<1>5. l <= Len(units)
  BY <1>2, <1>3
<1> QED
  BY <1>2, <1>4, <1>5 DEF l

\* The next message is taken from the front.
LEMMA CarriesNext ==
  ASSUME NEW msgs, WithFields(msgs), NEW k \in 0..(Len(msgs) - 1), NEW units \in Seq(Unit),
         Carries(units, msgs, k)
  PROVE  Carries(SubSeq(units, WireLength(msgs[k + 1]) + 1, Len(units)), msgs, k + 1)
<1> DEFINE l == WireLength(msgs[k + 1])
           r == SubSeq(units, l + 1, Len(units))
<1>1. /\ Len(msgs) \in Nat /\ k \in Nat /\ k \in 0..Len(msgs) /\ k + 1 \in 0..Len(msgs)
      /\ k + 1 \in 1..Len(msgs) /\ (k + 1) - 1 = k
  BY LenProperties DEF WithFields
<1>2. l \in Nat /\ l <= Len(units)
  BY CarriesHead
<1> HIDE DEF l
<1>3. /\ Len(r) \in Nat /\ Len(units) \in Nat /\ Len(r) = Len(units) - l
      /\ \A x \in 1..Len(r) : r[x] = units[l + x]
  BY <1>2, Rest
<1> HIDE DEF r
<1>4. /\ EndOf(msgs, k + 1) = EndOf(msgs, k) + l
      /\ EndOf(msgs, k) \in Nat /\ EndOf(msgs, k + 1) \in Nat /\ EndOf(msgs, Len(msgs)) \in Nat
  <2>1. Len(msgs) \in 0..Len(msgs)
    BY <1>1
  <2>2. EndOf(msgs, k + 1) = EndOf(msgs, (k + 1) - 1) + WireLength(msgs[k + 1])
    BY <1>1, Ends DEF WithFields
  <2> QED
    BY <1>1, <2>1, <2>2, Ends DEF WithFields, l
<1>5. Len(r) = EndOf(msgs, Len(msgs)) - EndOf(msgs, k + 1)
  <2>1. Len(units) = EndOf(msgs, Len(msgs)) - EndOf(msgs, k)
    BY DEF Carries
  <2> QED
    BY <1>2, <1>3, <1>4, <2>1
<1>6. ASSUME NEW i \in ((k + 1) + 1)..Len(msgs), NEW x \in 1..WireLength(msgs[i])
      PROVE  r[EndOf(msgs, i - 1) - EndOf(msgs, k + 1) + x] = Wire(msgs[i])[x]
  <2>1. i \in (k + 1)..Len(msgs)
    BY <1>1
  <2>2. units[EndOf(msgs, i - 1) - EndOf(msgs, k) + x] = Wire(msgs[i])[x]
    BY <2>1 DEF Carries
  <2>3. EndOf(msgs, i - 1) \in Nat /\ EndOf(msgs, i - 1) - EndOf(msgs, k + 1) + x \in 1..Len(r)
    BY <1>1, <1>5, Places
  <2>4. l + (EndOf(msgs, i - 1) - EndOf(msgs, k + 1) + x) = EndOf(msgs, i - 1) - EndOf(msgs, k) + x
    <3>1. WireLength(msgs[i]) \in Nat
      BY <1>1, Places
    <3>2. x \in Nat
      BY <3>1
    <3> DEFINE a == EndOf(msgs, i - 1)
               b == EndOf(msgs, k)
               c == EndOf(msgs, k + 1)
    <3>3. a \in Nat /\ b \in Nat /\ c \in Nat /\ c = b + l
      BY <1>4, <2>3
    <3> HIDE DEF a, b, c
    <3>4. l + (a - c + x) = a - b + x
      BY <1>2, <3>2, <3>3
    <3> QED
      BY <3>4 DEF a, b, c
  <2> QED
    BY <1>3, <2>2, <2>3, <2>4
<1>7. Carries(r, msgs, k + 1)
  BY <1>5, <1>6 DEF Carries
<1> QED
  BY <1>7 DEF r, l

--------------------------------------------------------------------------------
(* Decoding a message that is in the buffer.                               *)

\* toInt() of a text.
LEMMA ToIntIsNat == ASSUME NEW t \in Text PROVE ToInt(t) \in Nat
<1>1. CASE t = <<>>
  BY <1>1 DEF ToInt
<1>2. CASE t # <<>>
  <2>1. t \in Seq(Nat)
    BY TextIsUnits
  <2>2. 1 \in 1..Len(t)
    <3>1. Len(t) \in Nat /\ Len(t) # 0
      BY <1>2, <2>1, LenProperties, EmptySeq
    <3> QED
      BY <3>1
  <2>3. t[1] \in Nat
    BY <2>1, <2>2, ElementOfSeq
  <2> QED
    BY <2>3 DEF ToInt
<1> QED
  BY <1>1, <1>2

\* The message is at the front of the buffer.
Holds(units, m) == /\ WireLength(m) \in Nat /\ Len(units) \in Nat /\ WireLength(m) <= Len(units)
                   /\ \A x \in 1..WireLength(m) : units[x] = Wire(m)[x]

\* decodeField() reads the next field of a message that is in the buffer, and
\* leaves m_begIdx behind it.
LEMMA DecodesNext ==
  ASSUME NEW units \in Seq(Unit), NEW m \in Seq(Text), Holds(units, m),
         NEW p \in 0..(Len(m) - 1)
  PROVE  LET b == Len(Wire(SubSeq(m, 1, p)))
             i == IndexOfNul(units, b)
         IN  /\ b \in Nat /\ i \in Nat
             /\ Mid(units, b, i - b) = m[p + 1]
             /\ i + 1 = Len(Wire(SubSeq(m, 1, p + 1)))
<1> DEFINE t == m[p + 1]
           b == Len(Wire(SubSeq(m, 1, p)))
           e == Len(Wire(SubSeq(m, 1, p + 1)))
           i == IndexOfNul(units, b)
           w == Wire(m)
<1>1. /\ b \in Nat /\ e = b + Len(t) + 1 /\ e <= Len(w)
      /\ \A x \in 1..Len(t) : w[b + x] = t[x]
      /\ w[b + Len(t) + 1] = NUL
  BY FieldAt
<1>2. t \in Text /\ t \in Seq(Nat) /\ Len(t) \in Nat
  <2>1. p + 1 \in 1..Len(m)
    BY LenProperties
  <2> QED
    BY <2>1, ElementOfSeq, TextIsUnits
<1>3. Len(w) = WireLength(m)
  BY WireShape DEF WireOf
<1> HIDE DEF t, b, e, w
<1>4. /\ Len(units) \in Nat /\ e <= Len(units)
      /\ \A x \in 1..Len(w) : units[x] = w[x]
  BY <1>1, <1>2, <1>3 DEF Holds, w
<1>5. \A x \in 1..Len(t) : units[b + x] = t[x] /\ t[x] \in Nat
  <2> SUFFICES ASSUME NEW x \in 1..Len(t)
               PROVE  units[b + x] = t[x] /\ t[x] \in Nat
    OBVIOUS
  <2>1. b + x \in 1..Len(w) /\ t[x] \in Nat
    <3>1. Len(w) \in Nat
      BY <1>3 DEF Holds
    <3>2. b + x <= Len(w) /\ b + x >= 1
      BY <1>1, <1>2, <3>1
    <3> QED
      BY <1>1, <1>2, <3>1, <3>2, ElementOfSeq
  <2> QED
    BY <1>1, <1>4, <2>1
<1>6. units[b + Len(t) + 1] = NUL
  <2>1. b + Len(t) + 1 \in 1..Len(w)
    BY <1>1, <1>2, <1>3 DEF Holds
  <2> QED
    BY <1>1, <1>4, <2>1
<1>7. \/ i = -1 /\ \A j \in b..(Len(units) - 1) : units[j + 1] # NUL
      \/ /\ i \in b..(Len(units) - 1) /\ units[i + 1] = NUL
         /\ \A j \in b..(i - 1) : units[j + 1] # NUL
  BY <1>1, FirstNul
<1> HIDE DEF i
<1>8. i = b + Len(t)
  <2>1. b + Len(t) \in b..(Len(units) - 1) /\ (b + Len(t)) + 1 = b + Len(t) + 1
    BY <1>1, <1>2, <1>4
  <2>2. i \in b..(Len(units) - 1) /\ units[i + 1] = NUL /\ i <= b + Len(t)
    <3>1. i # -1
      <4> DEFINE j == b + Len(t)
      <4>1. j \in b..(Len(units) - 1) /\ units[j + 1] = NUL
        BY <1>6, <2>1
      <4> HIDE DEF j
      <4> QED
        BY <1>1, <1>7, <4>1
    <3>2. i > b + Len(t) => b + Len(t) \in b..(i - 1)
      BY <1>1, <1>2, <1>7, <3>1
    <3>3. ~ (i > b + Len(t))
      BY <1>6, <1>7, <2>1, <3>1, <3>2
    <3> QED
      BY <1>1, <1>2, <1>4, <1>7, <3>1, <3>3
  <2>3. ASSUME i < b + Len(t)
        PROVE  FALSE
    <3> DEFINE x == i + 1 - b
    <3>1. x \in 1..Len(t) /\ b + x = i + 1
      BY <1>1, <1>2, <1>4, <2>2, <2>3
    <3> HIDE DEF x
    <3>2. units[i + 1] \in Nat
      BY <1>5, <3>1
    <3> QED
      BY <2>2, <3>2 DEF NUL
  <2> QED
    BY <1>1, <1>2, <1>4, <2>2, <2>3
<1>9. Mid(units, b, i - b) = t
  <2> DEFINE s == SubSeq(units, b + 1, b + Len(t))
  <2>1. Mid(units, b, i - b) = s
    <3>1. i - b = Len(t) /\ ~ (i - b < 0)
      BY <1>1, <1>2, <1>8
    <3> QED
      BY <3>1 DEF Mid
  <2>2. \A x \in (b + 1)..(b + Len(t)) : units[x] \in Nat
    <3> SUFFICES ASSUME NEW x \in (b + 1)..(b + Len(t))
                 PROVE  units[x] \in Nat
      OBVIOUS
    <3>1. x - b \in 1..Len(t) /\ b + (x - b) = x
      BY <1>1, <1>2
    <3> QED
      BY <1>5, <3>1
  <2>3. /\ s \in Seq(Nat)
        /\ Len(s) = IF b + 1 <= b + Len(t) THEN (b + Len(t)) - (b + 1) + 1 ELSE 0
        /\ \A x \in 1..((b + Len(t)) - (b + 1) + 1) : s[x] = units[(b + 1) + x - 1]
    BY <1>1, <1>2, <2>2, SubSeqProperties
  <2> HIDE DEF s
  <2>4. Len(s) = Len(t)
    BY <1>1, <1>2, <2>3
  <2>5. ASSUME NEW x \in 1..Len(s)
        PROVE  s[x] = t[x]
    <3>1. x \in 1..Len(t) /\ x \in 1..((b + Len(t)) - (b + 1) + 1) /\ (b + 1) + x - 1 = b + x
      BY <1>1, <1>2, <2>4
    <3> QED
      BY <1>5, <2>3, <3>1
  <2>6. s = t
    BY <1>2, <2>3, <2>4, <2>5, SeqEqual
  <2> QED
    BY <2>1, <2>6
<1>10. i \in Nat /\ i + 1 = e
  BY <1>1, <1>2, <1>8
<1> QED
  BY <1>1, <1>9, <1>10 DEF i, b, e, t

\* got has the deciding fields among the first n behind the id of a message.
Known(m, sv, decided, known, n) ==
  LET layout == Layout(ToInt(m[1]), sv, decided)
  IN  /\ DOMAIN known = Deciding \cap {layout[i] : i \in 1..n}
      /\ \A name \in DOMAIN known : known[name] = decided[name]

\* With them the reader knows whether the message is complete, and if it is
\* not, the name of the next field, so that it notes what decides.
LEMMA KnowsNext ==
  ASSUME NEW m \in Seq(Text), NEW sv \in Nat, NEW decided, Fits(m, sv, decided),
         NEW known, NEW n \in Nat, n < Len(m), Known(m, sv, decided, known, n)
  PROVE  LET layout == Layout(ToInt(m[1]), sv, known)
         IN  /\ Len(layout) \in Nat /\ n <= Len(layout)
             /\ n = Len(layout) <=> n + 1 = Len(m)
             /\ n < Len(layout) =>
                  Known(m, sv, decided, Note(known, layout[n + 1], m[n + 2]), n + 1)
<1> DEFINE id == ToInt(m[1])
           s == Layout(id, sv, known)
           t == Layout(id, sv, decided)
<1>1. /\ Len(m) = 1 + Len(t) /\ DOMAIN decided = Deciding \cap {t[i - 1] : i \in 2..Len(m)}
      /\ \A i \in 2..Len(m) : t[i - 1] \in Deciding => decided[t[i - 1]] = m[i]
  BY DEF Fits
<1>2. /\ DOMAIN known = Deciding \cap {t[i] : i \in 1..n}
      /\ \A name \in DOMAIN known : known[name] = decided[name]
  BY DEF Known
<1> HIDE DEF id, s, t
<1>3. Len(m) \in Nat /\ \A i \in 1..Len(m) : m[i] \in Text
  BY LenProperties, ElementOfSeq
<1>4. \A name \in DOMAIN decided : decided[name] \in Text
  <2> SUFFICES ASSUME NEW name \in DOMAIN decided
               PROVE  decided[name] \in Text
    OBVIOUS
  <2>1. PICK i \in 2..Len(m) : name = t[i - 1] /\ name \in Deciding
    BY <1>1
  <2>2. i \in 1..Len(m)
    BY <1>3
  <2> QED
    BY <1>1, <1>3, <2>1, <2>2
<1>5. \A i \in 1..n : i + 1 \in 2..Len(m) /\ (i + 1) - 1 = i
  BY <1>3
<1>6. Knows(known, decided)
  <2>1. DOMAIN known \subseteq DOMAIN decided
    <3> SUFFICES ASSUME NEW name \in DOMAIN known
                 PROVE  name \in DOMAIN decided
      OBVIOUS
    <3>1. PICK i \in 1..n : name = t[i] /\ name \in Deciding
      BY <1>2
    <3>2. name = t[(i + 1) - 1]
      BY <1>5, <3>1
    <3> QED
      BY <1>1, <1>5, <3>1, <3>2
  <2> QED
    BY <1>2, <1>4, <2>1 DEF Knows
<1>7. Match(s, t, DOMAIN known)
  BY <1>6, LayoutAgrees DEF s, t
<1>8. Len(s) \in Nat /\ Len(t) \in Nat
  BY <1>7, LayoutJoin DEF Match
<1>9. \A i \in 1..n : t[i] \in Deciding => t[i] \in DOMAIN known
  BY <1>2
<1>10. /\ n <= Len(s) /\ (n = Len(s) <=> n = Len(t))
       /\ \A i \in 1..(n + 1) : n < Len(t) \/ i <= n => s[i] = t[i]
  <2>1. n <= Len(t)
    BY <1>1, <1>3, <1>8
  <2> QED
    BY <1>6, <1>9, <2>1, NextField DEF s, t
<1>11. n = Len(s) <=> n + 1 = Len(m)
  BY <1>1, <1>3, <1>8, <1>10
<1>12. ASSUME n < Len(s)
       PROVE  Known(m, sv, decided, Note(known, s[n + 1], m[n + 2]), n + 1)
  <2>1. n < Len(t) /\ n + 1 \in 1..(n + 1)
    BY <1>1, <1>3, <1>8, <1>10, <1>12
  <2>2. s[n + 1] = t[n + 1]
    BY <1>10, <2>1
  <2>3. t[n + 1] \in Deciding => decided[t[n + 1]] = m[n + 2]
    <3>1. n + 2 \in 2..Len(m) /\ (n + 2) - 1 = n + 1
      BY <1>1, <1>3, <1>8, <2>1
    <3> QED
      BY <1>1, <3>1
  <2>4. {t[i] : i \in 1..(n + 1)} = {t[i] : i \in 1..n} \cup {t[n + 1]}
    BY <2>1
  <2> DEFINE name == t[n + 1]
             text == m[n + 2]
             next == Note(known, name, text)
  <2>5. /\ DOMAIN next = Deciding \cap {t[i] : i \in 1..(n + 1)}
        /\ \A x \in DOMAIN next : next[x] = decided[x]
    <3> HIDE DEF name, text
    <3>1. CASE name \in Deciding
      <4>1. next = [x \in DOMAIN known \cup {name} |-> IF x = name THEN text ELSE known[x]]
        BY <3>1 DEF Note, Noted
      <4> QED
        BY <1>2, <2>3, <2>4, <3>1, <4>1 DEF name, text
    <3>2. CASE name \notin Deciding
      <4>1. next = known
        BY <3>2 DEF Note
      <4> QED
        BY <1>2, <2>4, <3>2, <4>1 DEF name
    <3> QED
      BY <3>1, <3>2
  <2> QED
    BY <2>2, <2>5 DEF Known, t, id
<1> QED
  BY <1>8, <1>10, <1>11, <1>12 DEF s, id

--------------------------------------------------------------------------------
(* The inductive invariant.                                                *)

\* What is in flight and in the buffer, and what TWS has sent.
StreamInv ==
  /\ mode \in Modes
  /\ Alternating(m_inBuffer) /\ Alternating(toClient) /\ Ended(toClient)
  /\ Len(sent) <= mode.messages
  /\ \A i \in DOMAIN sent : sent[i] \in IF i = 1 THEN {mode.greeting} ELSE mode.catalog
  /\ taken + Len(toClient) = EndOf(sent, Len(sent))
  /\ pc = "idle" => m_inBuffer = <<>>
  /\ EveryMessageFromTheStart

\* No message is split so far, or the first one is known that is.
SplitInv ==
  /\ whole <= mode.messages
  /\ mode.aligned => whole = mode.messages
  /\ whole = mode.messages => AtBoundary(taken)
  /\ whole < mode.messages => whole < Len(sent) /\ EndOf(sent, whole) < taken

\* Messages that the reader is done with.
Handled == IF pc = "emit" THEN Len(delivered) - 1 ELSE Len(delivered)

\* The session is over.
Closed == ~open /\ m_inBuffer = <<>> /\ pc # "decode"

\* The reader is past the last message that was not split.
Garbage == whole < mode.messages /\ whole <= Handled

\* A message is decoded from the front of the buffer.
InDecode(m) ==
  /\ Holds(m_inBuffer, m)
  /\ Len(fields) <= Len(m) /\ fields = SubSeq(m, 1, Len(fields))
  /\ m_begIdx = Len(Wire(fields))
  /\ fields # <<>> =>
       /\ m_endIdx = m_begIdx - 1 /\ m_lastEndIdx = m_endIdx
       /\ m_connected =>
            Known(m, m_serverVersion, Decided(m, m_serverVersion), got, Len(fields) - 1)

\* A message has been handed over and is still at the front of the buffer.
InEmit(m) ==
  /\ WireLength(m) <= Len(m_inBuffer)
  /\ m_endIdx = WireLength(m) - 1 /\ m_lastEndIdx = m_endIdx

\* The buffer begins with the message after those that are handled.
InStep ==
  /\ Handled \in 0..Len(sent)
  /\ Carries(m_inBuffer \o toClient, sent, Handled)
  /\ Len(m_inBuffer) = taken - EndOf(sent, Handled)
  /\ m_connected <=> delivered # <<>>
  /\ m_connected => m_serverVersion = ToInt(mode.greeting[1])
  /\ pc = "decode" => Handled < Len(sent) /\ InDecode(sent[Handled + 1])
  /\ pc = "emit"   => Handled < Len(sent) /\ InEmit(sent[Handled + 1])

ReaderInv == TypeOK /\ StreamInv /\ SplitInv /\ InOrderUntilSplit /\ (Closed \/ Garbage \/ InStep)

\* What every mode is.
LEMMA ModeFacts ==
  ASSUME NEW md \in Modes
  PROVE  /\ md.aligned \in BOOLEAN /\ md.messages \in Nat /\ md.connections \in Nat
         /\ ToInt(md.greeting[1]) \in Nat /\ ToInt(md.greeting[1]) >= SERVER_VERSION
         /\ Len(md.greeting) = GreetingLength(md.greeting)
         /\ \A m \in {md.greeting} \cup md.catalog :
              m \in Seq(Text) /\ m # <<>> /\ Len(m) > 0 /\ Len(m) \in Nat /\ m[1] # <<>> /\ m[1] \in Text
         /\ \A m \in md.catalog : Complete(m, ToInt(md.greeting[1]))
<1>1. /\ md.aligned \in BOOLEAN /\ md.messages \in Nat /\ md.connections \in Nat
      /\ md.greeting \in Seq(Text) /\ md.catalog \subseteq Seq(Text)
      /\ md.greeting # <<>> /\ ToInt(md.greeting[1]) >= SERVER_VERSION
      /\ Len(md.greeting) = GreetingLength(md.greeting)
      /\ \A m \in md.catalog :
           m # <<>> /\ m[1] # <<>> /\ Complete(m, ToInt(md.greeting[1]))
  BY ModeAssumption
<1>2. \A m \in Seq(Text) : m # <<>> => Len(m) > 0 /\ Len(m) \in Nat /\ m[1] \in Text
  <2> SUFFICES ASSUME NEW m \in Seq(Text), m # <<>>
               PROVE  Len(m) > 0 /\ Len(m) \in Nat /\ m[1] \in Text
    OBVIOUS
  <2>1. Len(m) \in Nat /\ Len(m) # 0
    BY LenProperties, EmptySeq
  <2>2. 1 \in 1..Len(m)
    BY <2>1
  <2> QED
    BY <2>1, <2>2, ElementOfSeq
<1>3. md.greeting[1] # <<>>
  <2> SUFFICES ASSUME md.greeting[1] = <<>>
               PROVE  FALSE
    OBVIOUS
  <2>1. ToInt(md.greeting[1]) = 0
    BY DEF ToInt
  <2> QED
    BY <1>1, <2>1 DEF SERVER_VERSION
<1>4. ToInt(md.greeting[1]) \in Nat
  <2>1. md.greeting[1] \in Text
    BY <1>1, <1>2
  <2>2. md.greeting[1][1] \in Nat
    <3> DEFINE t == md.greeting[1]
    <3>1. t \in Seq(Nat) /\ t # <<>>
      BY <1>3, <2>1 DEF Text
    <3> HIDE DEF t
    <3>2. Len(t) # 0 /\ Len(t) \in Nat
      BY <3>1, EmptySeq, LenProperties
    <3>3. t[1] \in Nat
      BY <3>1, <3>2, ElementOfSeq
    <3> QED
      BY <3>3 DEF t
  <2> QED
    BY <2>2 DEF ToInt
<1> QED
  BY <1>1, <1>2, <1>3, <1>4

\* What is known of the messages sent.
LEMMA SentFacts ==
  ASSUME TypeOK, StreamInv
  PROVE  /\ WithFields(sent) /\ Len(sent) \in Nat /\ DOMAIN sent = 1..Len(sent)
         /\ EndOf(sent, 0) = 0
         /\ \A i \in 0..Len(sent) : EndOf(sent, i) \in Nat
         /\ \A i \in 1..Len(sent) :
              /\ sent[i] \in {mode.greeting} \cup mode.catalog
              /\ sent[i] \in Seq(Text) /\ Len(sent[i]) > 0 /\ sent[i][1] # <<>>
              /\ i = 1 => sent[i] = mode.greeting
              /\ i # 1 => sent[i] \in mode.catalog
<1>1. sent \in Seq(Seq(Text)) /\ Len(sent) \in Nat /\ DOMAIN sent = 1..Len(sent)
  BY LenProperties DEF TypeOK
<1>2. mode \in Modes /\ \A i \in 1..Len(sent) : sent[i] \in IF i = 1 THEN {mode.greeting} ELSE mode.catalog
  BY <1>1 DEF StreamInv
<1>3. \A m \in {mode.greeting} \cup mode.catalog :
        m \in Seq(Text) /\ m # <<>> /\ Len(m) > 0 /\ m[1] # <<>>
  BY <1>2, ModeFacts
<1>4. \A i \in 1..Len(sent) : sent[i] \in {mode.greeting} \cup mode.catalog
  BY <1>2
<1>5. WithFields(sent)
  BY <1>1, <1>3, <1>4 DEF WithFields
<1> QED
  BY <1>1, <1>2, <1>3, <1>4, <1>5, Ends

\* Decoding has the message that TWS sent in front of it, and stops at its end.
LEMMA WantedFields ==
  ASSUME TypeOK, StreamInv, InStep, pc = "decode"
  PROVE  LET m == sent[Len(delivered) + 1]
         IN  /\ Len(delivered) < Len(sent) /\ Len(delivered) \in Nat /\ Len(fields) \in Nat
             /\ m \in Seq(Text) /\ Len(m) \in Nat /\ Len(m) > 0
             /\ m[1] # <<>> /\ InDecode(m)
             /\ fields # <<>> => fields[1] = m[1]
             /\ Len(fields) < Wanted => Len(fields) < Len(m)
             /\ Len(fields) = Wanted => Len(fields) = Len(m) /\ fields = m
             /\ m_connected => Fits(m, m_serverVersion, Decided(m, m_serverVersion))
             /\ ~m_connected => Len(delivered) = 0 /\ m = mode.greeting
<1> DEFINE m == sent[Len(delivered) + 1]
           sv == m_serverVersion
<1>1. /\ Handled = Len(delivered) /\ Len(delivered) < Len(sent) /\ InDecode(m)
      /\ Len(delivered) \in Nat /\ Len(fields) \in Nat
      /\ delivered # <<>> <=> Len(delivered) # 0
      /\ fields # <<>> <=> Len(fields) # 0
  BY LenProperties, EmptySeq DEF InStep, Handled, TypeOK
<1>2. Len(delivered) + 1 \in 1..Len(sent) /\ mode \in Modes
  BY <1>1, SentFacts DEF StreamInv
<1>3. /\ m \in Seq(Text) /\ Len(m) \in Nat /\ Len(m) > 0 /\ m[1] # <<>>
      /\ Len(delivered) = 0 => m = mode.greeting
      /\ Len(delivered) # 0 => m \in mode.catalog
  BY <1>1, <1>2, SentFacts, LenProperties
<1> HIDE DEF m
<1>4. fields # <<>> => fields[1] = m[1]
  <2> SUFFICES ASSUME fields # <<>>
               PROVE  fields[1] = m[1]
    OBVIOUS
  <2>1. fields = SubSeq(m, 1, Len(fields)) /\ Len(fields) <= Len(m) /\ 1 <= Len(fields)
    BY <1>1 DEF InDecode
  <2>2. \A i \in 1..Len(fields) : m[i] \in Text
    BY <1>1, <1>3, <2>1, ElementOfSeq
  <2>3. \A i \in 1..(Len(fields) - 1 + 1) : SubSeq(m, 1, Len(fields))[i] = m[1 + i - 1]
    BY <1>1, <2>2, SubSeqProperties
  <2>4. 1 \in 1..(Len(fields) - 1 + 1) /\ 1 + 1 - 1 = 1
    BY <1>1, <2>1
  <2> QED
    BY <2>1, <2>3, <2>4
<1>5. m_connected => Fits(m, sv, Decided(m, sv)) /\ sv \in Nat
  <2> SUFFICES ASSUME m_connected
               PROVE  Fits(m, sv, Decided(m, sv)) /\ sv \in Nat
    OBVIOUS
  <2>1. m \in mode.catalog /\ sv = ToInt(mode.greeting[1])
    BY <1>1, <1>3 DEF InStep
  <2> QED
    BY <1>2, <2>1, ModeFacts DEF Complete
<1>6. ~m_connected => Len(delivered) = 0 /\ m = mode.greeting
  BY <1>1, <1>3 DEF InStep
<1>7. /\ Len(fields) < Wanted => Len(fields) < Len(m)
      /\ Len(fields) = Wanted => Len(fields) = Len(m)
  <2>1. CASE fields = <<>>
    BY <1>1, <1>3, <2>1 DEF Wanted
  <2>2. CASE fields # <<>> /\ m_connected
    <3> DEFINE n == Len(fields) - 1
               l == Len(Layout(ToInt(m[1]), sv, got))
    <3>1. n \in Nat /\ n < Len(m) /\ Len(fields) = n + 1
      BY <1>1, <1>3, <2>2 DEF InDecode
    <3>2. Known(m, sv, Decided(m, sv), got, n)
      BY <1>1, <2>2 DEF InDecode
    <3>3. l \in Nat /\ n <= l /\ (n = l <=> n + 1 = Len(m))
      <4> DEFINE d == Decided(m, sv)
      <4>1. Fits(m, sv, d) /\ sv \in Nat /\ Known(m, sv, d, got, n)
        BY <1>5, <2>2, <3>2
      <4> HIDE DEF d, n, sv
      <4> QED
        BY <1>3, <3>1, <4>1, KnowsNext
    <3>4. Wanted = 1 + l
      BY <1>4, <2>2 DEF Wanted
    <3> HIDE DEF n, l
    <3> QED
      BY <1>3, <3>1, <3>3, <3>4
  <2>3. CASE fields # <<>> /\ ~m_connected
    <3>1. Wanted = GreetingLength(m)
      BY <1>4, <2>3 DEF Wanted, GreetingLength
    <3>2. Len(m) = GreetingLength(m)
      BY <1>2, <1>6, <2>3, ModeFacts
    <3> QED
      BY <3>1, <3>2
  <2> QED
    BY <2>1, <2>2, <2>3
<1>8. Len(fields) = Len(m) => fields = m
  <2>1. SubSeq(m, 1, Len(m)) = m
    BY <1>3, SubSeqFull
  <2> QED
    BY <1>1, <2>1 DEF InDecode
<1> QED
  BY <1>1, <1>3, <1>4, <1>5, <1>6, <1>7, <1>8 DEF m

\* Until the first split message the next one is wholly in a buffer that is
\* not empty, and its first unit is no NUL.
LEMMA NextIsWhole ==
  ASSUME ReaderInv, InStep, ~Garbage, pc = "loop", m_inBuffer # <<>>
  PROVE  LET m == sent[Handled + 1]
         IN  /\ Handled < Len(sent) /\ Holds(m_inBuffer, m)
             /\ Head(m_inBuffer) # NUL
<1> DEFINE k == Handled
           m == sent[Handled + 1]
<1>1. /\ k \in 0..Len(sent) /\ Len(m_inBuffer) = taken - EndOf(sent, k)
      /\ Carries(m_inBuffer \o toClient, sent, k)
  BY DEF InStep
<1>2. /\ m_inBuffer \in Seq(Unit) /\ toClient \in Seq(Unit) /\ taken \in Nat
      /\ whole \in Nat /\ Len(m_inBuffer) \in Nat /\ Len(m_inBuffer) > 0
      /\ mode.messages \in Nat /\ Len(sent) \in Nat
  <2>1. Len(m_inBuffer) \in Nat /\ Len(m_inBuffer) # 0
    BY LenProperties, EmptySeq DEF ReaderInv, TypeOK
  <2>2. mode.messages \in Nat
    BY ModeFacts DEF ReaderInv, StreamInv
  <2> QED
    BY <2>1, <2>2, LenProperties DEF ReaderInv, TypeOK
<1>3. /\ WithFields(sent) /\ \A i \in 0..Len(sent) : EndOf(sent, i) \in Nat
      /\ \A i \in 1..Len(sent) : sent[i] \in Seq(Text) /\ Len(sent[i]) > 0 /\ sent[i][1] # <<>>
  BY SentFacts DEF ReaderInv
<1> HIDE DEF k
<1>4. k < Len(sent) /\ EndOf(sent, k + 1) <= taken
  <2>1. CASE whole = mode.messages
    <3>1. PICK j \in 0..Len(sent) : EndOf(sent, j) = taken
      BY <2>1 DEF ReaderInv, SplitInv, AtBoundary
    <3>2. EndOf(sent, k) \in Nat /\ taken > EndOf(sent, k)
      BY <1>1, <1>2, <1>3
    <3>3. j > k
      <4>1. j <= k => EndOf(sent, j) <= EndOf(sent, k)
        BY <1>1, <1>3, EndsInOrder
      <4> QED
        BY <1>1, <1>2, <3>1, <3>2, <4>1
    <3>4. k + 1 \in 0..Len(sent) /\ k + 1 <= j
      BY <1>1, <1>2, <3>3
    <3>5. EndOf(sent, k + 1) <= EndOf(sent, j)
      BY <1>3, <3>4, EndsInOrder
    <3> QED
      BY <1>1, <1>2, <3>1, <3>3, <3>5
  <2>2. CASE whole # mode.messages
    <3>1. whole < mode.messages /\ whole < Len(sent) /\ EndOf(sent, whole) < taken
      BY <1>2, <2>2 DEF ReaderInv, SplitInv
    <3>2. k < whole
      BY <1>1, <1>2, <3>1 DEF Garbage, k
    <3>3. k + 1 \in 0..Len(sent) /\ whole \in 0..Len(sent) /\ k + 1 <= whole
      BY <1>1, <1>2, <3>1, <3>2
    <3>4. EndOf(sent, k + 1) <= EndOf(sent, whole) /\ EndOf(sent, k + 1) \in Nat /\ EndOf(sent, whole) \in Nat
      BY <1>3, <3>3, EndsInOrder
    <3> QED
      BY <1>1, <1>2, <3>1, <3>2, <3>4
  <2> QED
    BY <2>1, <2>2
<1>5. m \in Seq(Text) /\ Len(m) > 0 /\ m[1] # <<>>
  BY <1>1, <1>2, <1>3, <1>4 DEF k
<1>6. WireLength(m) <= Len(m_inBuffer) /\ WireLength(m) \in Nat /\ WireLength(m) > 0
  <2>1. k + 1 \in (k + 1)..Len(sent) /\ (k + 1) - 1 = k
    BY <1>1, <1>2, <1>4
  <2>2. EndOf(sent, k + 1) = EndOf(sent, k) + WireLength(m) /\ WireLength(m) \in Nat /\ WireLength(m) > 0
    BY <1>1, <1>3, <2>1, Places DEF k
  <2>3. EndOf(sent, k) \in Nat
    BY <1>1, <1>3
  <2> QED
    BY <1>1, <1>2, <1>4, <2>2, <2>3
<1>7. \A x \in 1..WireLength(m) : m_inBuffer[x] = Wire(m)[x]
  <2>1. /\ m_inBuffer \o toClient \in Seq(Unit)
        /\ \A i \in 1..Len(m_inBuffer) : (m_inBuffer \o toClient)[i] = m_inBuffer[i]
    BY <1>2, JoinUnits
  <2>2. k \in 0..(Len(sent) - 1)
    BY <1>1, <1>2, <1>4
  <2>3. \A x \in 1..WireLength(m) : (m_inBuffer \o toClient)[x] = Wire(m)[x]
    <3> DEFINE z == m_inBuffer \o toClient
    <3> HIDE DEF z
    <3>1. z \in Seq(Unit) /\ Carries(z, sent, k)
      BY <1>1, <2>1 DEF z
    <3>2. \A x \in 1..WireLength(sent[k + 1]) : z[x] = Wire(sent[k + 1])[x]
      BY <1>3, <2>2, <3>1, CarriesHead
    <3> QED
      BY <3>2 DEF z, k
  <2>4. \A x \in 1..WireLength(m) : x \in 1..Len(m_inBuffer)
    BY <1>2, <1>6
  <2> QED
    BY <2>1, <2>3, <2>4
<1>8. Holds(m_inBuffer, m)
  BY <1>2, <1>6, <1>7 DEF Holds
<1>9. Wire(m)[1] \in Nat
  <2> DEFINE t == m[1]
  <2> HIDE DEF m
  <2>0. Len(m) \in Nat
    BY <1>5, LenProperties
  <2>1. t \in Text /\ t \in Seq(Nat) /\ Len(t) \in {0, 1} /\ Len(t) # 0
    BY <1>5, <2>0, ElementOfSeq, TextIsUnits, EmptySeq
  <2>2. 0 \in 0..(Len(m) - 1) /\ 0 + 1 = 1 /\ 0 \in 0..Len(m)
    BY <1>5, <2>0
  <2>3. Len(Wire(SubSeq(m, 1, 0))) = 0
    <3>1. SubSeq(m, 1, 0) \in Seq(Text) /\ Len(SubSeq(m, 1, 0)) = 0
      BY <1>5, <2>2, Fronts
    <3>2. SubSeq(m, 1, 0) = <<>>
      BY <3>1, EmptySeq
    <3>3. Wire(SubSeq(m, 1, 0)) = <<>>
      BY <3>2, WireNothing, Zenon
    <3> QED
      BY <3>3
  <2>4. \A i \in 1..Len(m[0 + 1]) : Wire(m)[Len(Wire(SubSeq(m, 1, 0))) + i] = m[0 + 1][i]
    BY <1>5, <2>2, FieldAt
  <2>5. Wire(m)[0 + 1] = t[1] /\ t[1] \in Nat
    <3>1. 1 \in 1..Len(t)
      BY <2>1
    <3> QED
      BY <2>1, <2>2, <2>3, <2>4, <3>1, ElementOfSeq
  <2> QED
    BY <2>2, <2>5
<1>10. Head(m_inBuffer) # NUL
  <2>1. Head(m_inBuffer) = m_inBuffer[1]
    OBVIOUS
  <2>2. 1 \in 1..WireLength(m)
    BY <1>6
  <2> QED
    BY <1>7, <1>9, <2>1, <2>2 DEF NUL
<1> QED
  BY <1>4, <1>8, <1>10 DEF k

--------------------------------------------------------------------------------
(* Its steps.                                                              *)

\* A step that leaves the stream and the mode alone.
LEMMA StreamKept ==
  ASSUME ReaderInv, UNCHANGED <<stream, mode>>, Alternating(m_inBuffer'),
         pc' = "idle" => m_inBuffer' = <<>>, EveryMessageFromTheStart'
  PROVE  StreamInv' /\ SplitInv'
<1>1. StreamInv'
  BY DEF ReaderInv, StreamInv, stream
<1>2. SplitInv'
  BY DEF ReaderInv, SplitInv, stream, AtBoundary
<1> QED
  BY <1>1, <1>2

\* A new connection.
LEMMA ConnectStep == ASSUME ReaderInv, Connect PROVE ReaderInv'
<1>1. mode \in Modes /\ mode.messages \in Nat /\ m_inBuffer = <<>> /\ EveryMessageFromTheStart
  BY ModeFacts DEF ReaderInv, StreamInv, Connect
<1>2. TypeOK'
  <2>1. conns' \in Nat /\ whole' \in Nat /\ taken' \in Nat
    BY <1>1 DEF ReaderInv, TypeOK, Connect
  <2>2. toClient' \in Seq(Unit) /\ sent' \in Seq(Seq(Text)) /\ delivered' \in Seq(Seq(Text))
    BY DEF Connect
  <2> QED
    BY <2>1, <2>2 DEF ReaderInv, TypeOK, Connect, object, message
<1>3. EndOf(<<>>, 0) = 0
  <2>1. <<>> \in Seq(Seq(Text))
    OBVIOUS
  <2> QED
    BY <2>1, Ends
<1>4. StreamInv'
  <2>1. Alternating(<<>>) /\ Ended(<<>>) /\ Len(<<>>) = 0 /\ DOMAIN <<>> = {}
    BY DEF Alternating, Ended
  <2> QED
    BY <1>1, <1>3, <2>1 DEF ReaderInv, StreamInv, Connect, object, EveryMessageFromTheStart
<1>5. SplitInv'
  <2>1. AtBoundary(taken)'
    BY <1>3 DEF Connect, AtBoundary
  <2> QED
    BY <1>1, <2>1 DEF SplitInv, Connect
<1>6. InOrderUntilSplit'
  BY DEF Connect, InOrderUntilSplit
<1>7. InStep'
  <2>1. Handled' = 0 /\ sent' = <<>> /\ (m_inBuffer \o toClient)' = <<>> /\ taken' = 0
    <3>1. <<>> \o <<>> = <<>>
      OBVIOUS
    <3> QED
      BY <1>1, <3>1 DEF Connect, object, Handled
  <2>2. Carries(<<>>, <<>>, 0)
    BY <1>3 DEF Carries
  <2>3. (m_inBuffer' = <<>>) /\ ~m_connected' /\ delivered' = <<>> /\ pc' = "idle"
    BY <1>1 DEF Connect, object
  <2> QED
    BY <1>3, <2>1, <2>2, <2>3 DEF InStep
<1> QED
  BY <1>2, <1>4, <1>5, <1>6, <1>7 DEF ReaderInv

\* TWS writes a message.
LEMMA WriteStep == ASSUME ReaderInv, NEW m, TwsWrites(m) PROVE ReaderInv'
<1> DEFINE s == Append(sent, m)
<1>1. /\ mode \in Modes /\ mode.messages \in Nat
      /\ m \in Seq(Text) /\ m # <<>>
      /\ m_inBuffer \in Seq(Unit) /\ toClient \in Seq(Unit) /\ sent \in Seq(Seq(Text))
  <2>1. mode \in Modes
    BY DEF ReaderInv, StreamInv
  <2>2. m \in {mode.greeting} \cup mode.catalog
    BY DEF TwsWrites
  <2> QED
    BY <2>1, <2>2, ModeFacts DEF ReaderInv, TypeOK
<1>2. /\ WithFields(sent) /\ Len(sent) \in Nat /\ DOMAIN sent = 1..Len(sent)
      /\ \A i \in 0..Len(sent) : EndOf(sent, i) \in Nat
  BY SentFacts DEF ReaderInv
<1>3. /\ s \in Seq(Seq(Text)) /\ Len(s) = Len(sent) + 1 /\ DOMAIN s = 1..(Len(sent) + 1)
      /\ \A i \in 1..Len(sent) : s[i] = sent[i]
      /\ s[Len(sent) + 1] = m
      /\ \A i \in 0..Len(sent) : EndOf(s, i) = EndOf(sent, i)
      /\ EndOf(s, Len(s)) = EndOf(sent, Len(sent)) + WireLength(m)
  BY <1>1, <1>2, EndsAppend, AppendProperties
<1>4. /\ toClient \o Wire(m) \in Seq(Unit) /\ Len(toClient \o Wire(m)) = Len(toClient) + WireLength(m)
      /\ Alternating(toClient \o Wire(m)) /\ Ended(toClient \o Wire(m))
      /\ Wire(m) \in Seq(Unit) /\ WireLength(m) \in Nat /\ Len(toClient) \in Nat
  <2>1. Alternating(toClient) /\ Ended(toClient)
    BY DEF ReaderInv, StreamInv
  <2>2. Wire(m) \in Seq(Unit) /\ Len(Wire(m)) = WireLength(m)
    BY <1>1, WireShape DEF WireOf
  <2> QED
    BY <1>1, <2>1, <2>2, WriteUnits, LenProperties
<1>5. sent' = s /\ toClient' = toClient \o Wire(m)
  BY DEF TwsWrites
<1> HIDE DEF s
<1>6. TypeOK'
  BY <1>3, <1>4, <1>5 DEF ReaderInv, TypeOK, TwsWrites, object, message
<1>7. StreamInv'
  <2>1. Len(sent') <= mode.messages
    BY <1>1, <1>2, <1>3, <1>5 DEF TwsWrites
  <2>2. \A i \in DOMAIN s : s[i] \in IF i = 1 THEN {mode.greeting} ELSE mode.catalog
    <3> SUFFICES ASSUME NEW i \in DOMAIN s
                 PROVE  s[i] \in IF i = 1 THEN {mode.greeting} ELSE mode.catalog
      OBVIOUS
    <3>1. CASE i = Len(sent) + 1
      <4>1. i = 1 <=> sent = <<>>
        BY <1>1, <1>2, <3>1, EmptySeq
      <4> QED
        BY <1>3, <3>1, <4>1 DEF TwsWrites
    <3>2. CASE i # Len(sent) + 1
      <4>1. i \in DOMAIN sent
        BY <1>2, <1>3, <3>2
      <4> QED
        BY <1>2, <1>3, <4>1 DEF ReaderInv, StreamInv
    <3> QED
      BY <3>1, <3>2
  <2>3. taken + Len(toClient') = EndOf(s, Len(s))
    <3>1. taken \in Nat /\ taken + Len(toClient) = EndOf(sent, Len(sent))
      BY DEF ReaderInv, TypeOK, StreamInv
    <3>2. EndOf(sent, Len(sent)) \in Nat
      BY <1>2
    <3> DEFINE a == EndOf(sent, Len(sent))
               b == Len(toClient)
               l == WireLength(m)
    <3>3. Len(toClient') = b + l /\ EndOf(s, Len(s)) = a + l
      BY <1>3, <1>4, <1>5
    <3>4. a \in Nat /\ b \in Nat /\ l \in Nat /\ taken + b = a
      BY <1>4, <3>1, <3>2
    <3> HIDE DEF a, b, l
    <3> QED
      BY <3>1, <3>3, <3>4
  <2>4. EveryMessageFromTheStart' /\ Alternating(m_inBuffer)'
    BY DEF ReaderInv, StreamInv, EveryMessageFromTheStart, TwsWrites, object
  <2> QED
    BY <1>1, <1>4, <1>5, <2>1, <2>2, <2>3, <2>4 DEF ReaderInv, StreamInv, TwsWrites, object
<1>8. SplitInv'
  <2>1. AtBoundary(taken) => AtBoundary(taken)'
    <3> SUFFICES ASSUME AtBoundary(taken)
                 PROVE  AtBoundary(taken)'
      OBVIOUS
    <3>1. PICK i \in 0..Len(sent) : EndOf(sent, i) = taken
      BY DEF AtBoundary
    <3>2. i \in 0..Len(s) /\ EndOf(s, i) = taken /\ taken' = taken
      BY <1>2, <1>3, <3>1 DEF TwsWrites
    <3> QED
      BY <1>5, <3>2 DEF AtBoundary
  <2>2. whole < Len(sent) => whole < Len(s) /\ EndOf(s, whole) = EndOf(sent, whole)
    <3>1. whole \in Nat
      BY DEF ReaderInv, TypeOK
    <3> QED
      BY <1>2, <1>3, <3>1
  <2> QED
    BY <1>5, <2>1, <2>2 DEF ReaderInv, SplitInv, TwsWrites
<1>9. InOrderUntilSplit'
  <2>1. whole \in Nat
    BY DEF ReaderInv, TypeOK
  <2> SUFFICES ASSUME NEW i \in DOMAIN delivered, i <= whole
               PROVE  i <= Len(s) /\ delivered[i] = s[i]
    BY <1>5 DEF InOrderUntilSplit, TwsWrites
  <2>2. i <= Len(sent) /\ delivered[i] = sent[i]
    BY DEF ReaderInv, InOrderUntilSplit
  <2>3. i \in 1..Len(sent)
    <3>1. delivered \in Seq(Seq(Text))
      BY DEF ReaderInv, TypeOK
    <3>2. DOMAIN delivered = 1..Len(delivered) /\ Len(delivered) \in Nat
      BY <3>1, LenProperties
    <3> QED
      BY <1>2, <2>2, <3>2
  <2> QED
    BY <1>2, <1>3, <2>2, <2>3
<1>10. CASE Garbage
  <2>1. Garbage'
    BY <1>10 DEF Garbage, Handled, TwsWrites
  <2> QED
    BY <1>6, <1>7, <1>8, <1>9, <2>1 DEF ReaderInv
<1>11. CASE InStep
  <2> DEFINE k == Handled
             z == m_inBuffer \o toClient
  <2>1. k \in 0..Len(sent) /\ Carries(z, sent, k) /\ z \in Seq(Unit)
    BY <1>1, <1>11, JoinUnits DEF InStep
  <2>2. Carries(z \o Wire(m), s, k)
    <3> HIDE DEF z, k
    <3> QED
      BY <1>1, <1>2, <2>1, CarriesWrite DEF s
  <2>3. (m_inBuffer \o toClient)' = z \o Wire(m)
    <3>1. m_inBuffer' = m_inBuffer
      BY DEF TwsWrites, object
    <3>2. m_inBuffer \o (toClient \o Wire(m)) = (m_inBuffer \o toClient) \o Wire(m)
      <4> DEFINE x == m_inBuffer
                 y == toClient
                 w == Wire(m)
      <4>1. x \in Seq(Unit) /\ y \in Seq(Unit) /\ w \in Seq(Unit)
        BY <1>1, <1>4
      <4> HIDE DEF x, y, w
      <4>2. x \o (y \o w) = (x \o y) \o w
        BY <4>1, ConcatAssociative
      <4> QED
        BY <4>2 DEF x, y, w
    <3> QED
      BY <1>5, <3>1, <3>2
  <2>4. Handled' = k /\ EndOf(s, k) = EndOf(sent, k) /\ k \in 0..Len(s)
    <3> HIDE DEF k
    <3>1. EndOf(s, k) = EndOf(sent, k) /\ k \in 0..Len(s)
      BY <1>2, <1>3, <2>1
    <3> QED
      BY <3>1 DEF k, Handled, TwsWrites
  <2>5. k < Len(sent) => k < Len(s) /\ s[k + 1] = sent[k + 1]
    <3> HIDE DEF k
    <3> QED
      BY <1>2, <1>3, <2>1
  <2>6. UNCHANGED <<m_inBuffer, m_begIdx, m_endIdx, m_lastEndIdx, m_connected, m_serverVersion,
                    fields, got, pc, delivered, taken, mode>>
    BY DEF TwsWrites, object, message
  <2>7. Handled < Len(sent) => Handled' < Len(sent') /\ sent'[Handled' + 1] = sent[Handled + 1]
    BY <1>5, <2>4, <2>5 DEF k
  <2>8. InStep'
    <3>1. /\ Handled' \in 0..Len(sent')
          /\ Carries((m_inBuffer \o toClient)', sent', Handled')
          /\ Len(m_inBuffer') = taken' - EndOf(sent', Handled')
      <4> HIDE DEF z, k
      <4> QED
        BY <1>5, <1>11, <2>2, <2>3, <2>4, <2>6 DEF InStep, k
    <3>2. pc' = "decode" => Handled' < Len(sent') /\ InDecode(sent[Handled + 1])'
      BY <1>11, <2>6, <2>7 DEF InStep, InDecode
    <3>3. pc' = "emit" => Handled' < Len(sent') /\ InEmit(sent[Handled + 1])'
      BY <1>11, <2>6, <2>7 DEF InStep, InEmit
    <3> QED
      BY <1>11, <2>6, <3>1, <3>2, <3>3 DEF InStep
  <2> QED
    BY <1>6, <1>7, <1>8, <1>9, <2>8 DEF ReaderInv
<1> QED
  BY <1>10, <1>11 DEF ReaderInv, Closed, TwsWrites

\* onReadyRead() takes what has arrived.
LEMMA ReadStep ==
  ASSUME ReaderInv, NEW n \in 1..Len(toClient), OnReadyRead(n)
  PROVE  ReaderInv'
<1> DEFINE Inside(i) == EndOf(sent, i) < taken + n /\ taken + n < EndOf(sent, i + 1)
           split == CHOOSE i \in 0..(Len(sent) - 1) : Inside(i)
           front == SubSeq(toClient, 1, n)
           rest == SubSeq(toClient, n + 1, Len(toClient))
<1>1. /\ mode \in Modes /\ mode.messages \in Nat /\ mode.aligned \in BOOLEAN
      /\ m_inBuffer = <<>> /\ m_begIdx = 0
      /\ toClient \in Seq(Unit) /\ Len(toClient) \in Nat /\ n \in Nat /\ n \in 0..Len(toClient)
      /\ taken \in Nat /\ whole \in Nat /\ taken + n \in Nat
  <2>1. mode \in Modes /\ toClient \in Seq(Unit) /\ taken \in Nat /\ whole \in Nat
    BY DEF ReaderInv, StreamInv, TypeOK
  <2>2. m_inBuffer = <<>> /\ m_begIdx = 0
    BY DEF ReaderInv, StreamInv, EveryMessageFromTheStart, OnReadyRead
  <2>3. Len(toClient) \in Nat /\ n \in Nat /\ n \in 0..Len(toClient)
    BY <2>1, LenProperties
  <2> QED
    BY <2>1, <2>2, <2>3, ModeFacts
<1>2. /\ WithFields(sent) /\ sent \in Seq(Seq(Text)) /\ Len(sent) \in Nat
      /\ \A i \in 0..Len(sent) : EndOf(sent, i) \in Nat
  BY SentFacts DEF ReaderInv, TypeOK
<1>3. /\ front \in Seq(Unit) /\ Len(front) = n /\ front \o rest = toClient
      /\ Alternating(toClient) => Alternating(front)
  BY <1>1, Cut
<1>4. /\ rest \in Seq(Unit) /\ Len(rest) \in Nat /\ Len(rest) = Len(toClient) - n
      /\ Alternating(toClient) => Alternating(rest)
      /\ rest # <<>> => rest[Len(rest)] = toClient[Len(toClient)]
  <2>1. /\ rest \in Seq(Unit) /\ Len(rest) \in Nat
        /\ Len(rest) = IF n <= Len(toClient) THEN Len(toClient) - n ELSE 0
        /\ Alternating(toClient) => Alternating(rest)
        /\ rest # <<>> => rest[Len(rest)] = toClient[Len(toClient)]
    BY <1>1, Rest
  <2> HIDE DEF rest
  <2> QED
    BY <1>1, <2>1
<1> HIDE DEF front, rest
<1>5. m_inBuffer' = front /\ toClient' = rest /\ taken' = taken + n /\ sent' = sent /\ pc' = "loop"
  <2>1. <<>> \o front = front
    BY <1>3
  <2> QED
    BY <1>1, <2>1 DEF OnReadyRead, front, rest
<1>6. taken + n <= EndOf(sent, Len(sent))
  <2>1. taken + Len(toClient) = EndOf(sent, Len(sent))
    BY DEF ReaderInv, StreamInv
  <2> QED
    BY <1>1, <2>1
<1>8. \/ /\ whole' = whole
         /\ whole < mode.messages \/ AtBoundary(taken + n)
      \/ /\ whole = mode.messages /\ ~mode.aligned
         /\ whole' \in 0..(Len(sent) - 1) /\ EndOf(sent, whole') < taken + n
  <2>1. CASE whole < mode.messages \/ AtBoundary(taken + n)
    BY <2>1 DEF OnReadyRead
  <2>2. CASE ~ (whole < mode.messages \/ AtBoundary(taken + n))
    <3>1. \E i \in 0..(Len(sent) - 1) : Inside(i)
      BY <1>1, <1>2, <1>6, <2>2, EndsBetween DEF AtBoundary
    <3>2. split \in 0..(Len(sent) - 1) /\ Inside(split)
      <4> HIDE DEF Inside
      <4> QED
        BY <3>1
    <3>3. whole' = split
      BY <2>2, Zenon DEF OnReadyRead
    <3>4. whole = mode.messages /\ ~mode.aligned
      <4>1. whole <= mode.messages
        BY DEF ReaderInv, SplitInv
      <4>2. mode.aligned => AtBoundary(taken + n)
        BY DEF OnReadyRead
      <4> QED
        BY <1>1, <2>2, <4>1, <4>2
    <3> HIDE DEF split
    <3> QED
      BY <3>2, <3>3, <3>4
  <2> QED
    BY <2>1, <2>2
<1>9. whole' \in Nat /\ whole' <= whole
  <2>1. Len(sent) <= mode.messages
    BY DEF ReaderInv, StreamInv
  <2> QED
    BY <1>1, <1>2, <1>8, <2>1
<1>10. TypeOK'
  BY <1>1, <1>3, <1>4, <1>5, <1>9 DEF ReaderInv, TypeOK, OnReadyRead, message
<1>11. StreamInv'
  <2>1. taken' + Len(toClient') = EndOf(sent, Len(sent))
    <3>1. taken + Len(toClient) = EndOf(sent, Len(sent))
      BY DEF ReaderInv, StreamInv
    <3> QED
      BY <1>1, <1>4, <1>5, <3>1
  <2>2. Ended(toClient)'
    <3>1. Ended(toClient) /\ (rest # <<>> => toClient # <<>>)
      <4>1. toClient = <<>> => Len(rest) = 0 - n
        BY <1>4
      <4> QED
        BY <1>1, <1>4, <4>1 DEF ReaderInv, StreamInv
    <3> QED
      BY <1>4, <1>5, <3>1 DEF Ended
  <2>3. EveryMessageFromTheStart'
    BY <1>1 DEF EveryMessageFromTheStart, OnReadyRead
  <2> QED
    BY <1>3, <1>4, <1>5, <2>1, <2>2, <2>3 DEF ReaderInv, StreamInv, OnReadyRead
<1>12. SplitInv'
  <2>1. AtBoundary(taken)' <=> AtBoundary(taken + n)
    BY <1>5 DEF AtBoundary
  <2>2. CASE whole' = whole /\ (whole < mode.messages \/ AtBoundary(taken + n))
    <3>1. whole < mode.messages => EndOf(sent, whole) \in Nat /\ EndOf(sent, whole) < taken + n
      BY <1>1, <1>2 DEF ReaderInv, SplitInv
    <3> QED
      BY <1>1, <1>5, <2>1, <2>2, <3>1 DEF ReaderInv, SplitInv, OnReadyRead
  <2>3. CASE whole = mode.messages /\ ~mode.aligned
              /\ whole' \in 0..(Len(sent) - 1) /\ EndOf(sent, whole') < taken + n
    <3>1. Len(sent) <= mode.messages
      BY DEF ReaderInv, StreamInv
    <3>2. whole' < Len(sent) /\ whole' < mode.messages
      BY <1>1, <1>2, <2>3, <3>1
    <3> QED
      BY <1>1, <1>5, <2>3, <3>2 DEF SplitInv, OnReadyRead
  <2> QED
    BY <1>8, <2>2, <2>3
<1>13. InOrderUntilSplit'
  <2>1. delivered \in Seq(Seq(Text))
    BY DEF ReaderInv, TypeOK
  <2>2. \A i \in DOMAIN delivered : i <= whole' => i <= whole
    <3>1. DOMAIN delivered = 1..Len(delivered) /\ Len(delivered) \in Nat
      BY <2>1, LenProperties
    <3> QED
      BY <1>1, <1>9, <3>1
  <2> QED
    BY <1>5, <2>2 DEF ReaderInv, InOrderUntilSplit, OnReadyRead
<1>14. CASE Garbage
  <2>1. whole < mode.messages /\ whole' = whole
    BY <1>1, <1>8, <1>14 DEF Garbage
  <2>2. Garbage'
    BY <1>14, <2>1 DEF Garbage, Handled, OnReadyRead
  <2> QED
    BY <1>10, <1>11, <1>12, <1>13, <2>2 DEF ReaderInv
<1>15. CASE InStep
  <2>1. Handled' = Handled
    BY DEF Handled, OnReadyRead
  <2>2. (m_inBuffer \o toClient)' = m_inBuffer \o toClient
    <3>1. <<>> \o toClient = toClient
      BY <1>1
    <3> QED
      BY <1>1, <1>3, <1>5, <3>1
  <2>3. Len(m_inBuffer') = taken' - EndOf(sent, Handled)
    <3> DEFINE e == EndOf(sent, Handled)
    <3>1. Len(m_inBuffer) = taken - e /\ Len(m_inBuffer) = 0 /\ e \in Nat
      BY <1>1, <1>2, <1>15 DEF InStep
    <3>2. Len(m_inBuffer') = n
      BY <1>3, <1>5
    <3>3. taken' = taken + n
      BY <1>5
    <3> HIDE DEF e
    <3>4. Len(m_inBuffer') = taken' - e
      BY <1>1, <3>1, <3>2, <3>3
    <3> QED
      BY <3>4 DEF e
  <2>4. InStep'
    BY <1>5, <1>15, <2>1, <2>2, <2>3 DEF InStep, OnReadyRead
  <2> QED
    BY <1>10, <1>11, <1>12, <1>13, <2>4 DEF ReaderInv
<1> QED
  BY <1>14, <1>15 DEF ReaderInv, Closed, OnReadyRead

\* onReadyRead() goes on to the next message.
LEMMA LoopStep == ASSUME ReaderInv, LoopTop PROVE ReaderInv'
<1>1. m_inBuffer \in Seq(Unit) /\ Alternating(m_inBuffer) /\ m_begIdx = 0 /\ m_inBuffer # <<>>
  BY DEF ReaderInv, TypeOK, StreamInv, EveryMessageFromTheStart, LoopTop
<1>2. Tail(m_inBuffer) \in Seq(Unit) /\ Alternating(Tail(m_inBuffer))
  <2> DEFINE s == m_inBuffer
             r == Tail(s)
  <2>1. /\ r \in Seq(Unit) /\ Len(r) = Len(s) - 1 /\ Len(s) \in Nat
        /\ \A i \in 1..Len(r) : r[i] = s[i + 1]
    BY <1>1, HeadTailProperties, LenProperties
  <2>2. \A i \in 1..(Len(s) - 1) : s[i] = NUL \/ s[i + 1] = NUL
    BY <1>1 DEF Alternating
  <2> HIDE DEF s, r
  <2>3. \A i \in 1..(Len(r) - 1) : r[i] = NUL \/ r[i + 1] = NUL
    <3> SUFFICES ASSUME NEW i \in 1..(Len(r) - 1)
                 PROVE  r[i] = NUL \/ r[i + 1] = NUL
      OBVIOUS
    <3>1. i \in 1..Len(r) /\ i + 1 \in 1..Len(r) /\ i + 1 \in 1..(Len(s) - 1)
      BY <2>1
    <3>2. r[i] = s[i + 1] /\ r[i + 1] = s[(i + 1) + 1]
      BY <2>1, <3>1
    <3> QED
      BY <2>2, <3>1, <3>2
  <2>4. r \in Seq(Unit) /\ Alternating(r)
    BY <2>1, <2>3 DEF Alternating
  <2> QED
    BY <2>4 DEF r, s
<1>3. m_inBuffer' \in Seq(Unit) /\ Alternating(m_inBuffer')
  BY <1>1, <1>2 DEF LoopTop
<1>4. TypeOK'
  BY <1>3 DEF ReaderInv, TypeOK, LoopTop, stream, NoField
<1>5. StreamInv' /\ SplitInv'
  <2>1. EveryMessageFromTheStart' /\ pc' = "decode" /\ UNCHANGED <<stream, mode>>
    BY DEF LoopTop, EveryMessageFromTheStart
  <2> QED
    BY <1>3, <2>1, StreamKept
<1>6. InOrderUntilSplit'
  BY DEF ReaderInv, InOrderUntilSplit, LoopTop, stream
<1>7. CASE Garbage
  <2>1. Garbage'
    BY <1>7 DEF Garbage, Handled, LoopTop, stream
  <2> QED
    BY <1>4, <1>5, <1>6, <2>1 DEF ReaderInv
<1>8. CASE InStep /\ ~Garbage
  <2> DEFINE m == sent[Handled + 1]
  <2>1. Handled < Len(sent) /\ Holds(m_inBuffer, m) /\ Head(m_inBuffer) # NUL
    BY <1>1, <1>8, NextIsWhole DEF LoopTop
  <2>2. m_inBuffer' = m_inBuffer /\ m_begIdx' = 0 /\ fields' = <<>> /\ pc' = "decode" /\ sent' = sent
    BY <1>1, <2>1 DEF LoopTop, stream
  <2>3. Handled' = Handled
    BY DEF Handled, LoopTop
  <2>4. InDecode(m)'
    <3>1. m \in Seq(Text)
      <4>1. Handled + 1 \in 1..Len(sent)
        <5>1. Handled \in 0..Len(sent) /\ Len(sent) \in Nat
          BY <1>8, SentFacts DEF InStep, ReaderInv
        <5> QED
          BY <2>1, <5>1
      <4> QED
        BY <4>1, SentFacts DEF ReaderInv
    <3> HIDE DEF m
    <3>2. Len(m) \in Nat /\ 0 \in 0..Len(m)
      BY <3>1, LenProperties
    <3>3. SubSeq(m, 1, 0) = <<>>
      <4>1. SubSeq(m, 1, 0) \in Seq(Text) /\ Len(SubSeq(m, 1, 0)) = 0
        BY <3>1, <3>2, Fronts
      <4> QED
        BY <4>1, EmptySeq
    <3>4. Len(Wire(<<>>)) = 0 /\ Len(<<>>) = 0
      BY WireNothing, EmptySeq, Zenon
    <3>5. m' = m
      BY <2>2, <2>3 DEF m
    <3> QED
      BY <2>1, <2>2, <3>2, <3>3, <3>4, <3>5 DEF InDecode
  <2>5. InStep'
    BY <1>8, <2>1, <2>2, <2>3, <2>4 DEF InStep, LoopTop, stream
  <2> QED
    BY <1>4, <1>5, <1>6, <2>5 DEF ReaderInv
<1> QED
  BY <1>1, <1>7, <1>8 DEF ReaderInv, Closed

\* onReadyRead() returns with an empty buffer.
LEMMA ReturnStep == ASSUME ReaderInv, ReadyReadReturns PROVE ReaderInv'
<1>1. UNCHANGED <<object, message, open, stream, delivered, conns, mode>> /\ pc' = "idle" /\ pc = "loop"
      /\ m_inBuffer = <<>>
  BY DEF ReadyReadReturns
<1>2. TypeOK'
  BY <1>1 DEF ReaderInv, TypeOK, object, message, stream
<1>3. StreamInv' /\ SplitInv'
  <2>1. EveryMessageFromTheStart' /\ Alternating(m_inBuffer')
    BY <1>1 DEF ReaderInv, StreamInv, EveryMessageFromTheStart, object
  <2> QED
    BY <1>1, <2>1, StreamKept DEF object
<1>4. InOrderUntilSplit'
  BY <1>1 DEF ReaderInv, InOrderUntilSplit, stream
<1>5. Handled' = Handled
  BY <1>1 DEF Handled
<1>6. Closed' \/ Garbage' \/ InStep'
  <2>1. Closed => Closed'
    BY <1>1 DEF Closed, object
  <2>2. Garbage => Garbage'
    BY <1>1, <1>5 DEF Garbage, stream
  <2>3. InStep => InStep'
    BY <1>1, <1>5 DEF InStep, object, stream
  <2> QED
    BY <2>1, <2>2, <2>3 DEF ReaderInv
<1> QED
  BY <1>2, <1>3, <1>4, <1>6 DEF ReaderInv

\* The session is disconnected.
LEMMA DisconnectStep ==
  ASSUME ReaderInv, DisconnectTWS, UNCHANGED <<message, stream, delivered, conns, mode>>,
         pc' \in {"idle", "emit"}, pc' = pc \/ pc' = "emit"
  PROVE  ReaderInv'
<1>1. TypeOK'
  <2>1. UNCHANGED <<m_begIdx, m_endIdx, m_lastEndIdx, fields, got, toClient, sent, taken, whole,
                    delivered, conns>>
    BY DEF DisconnectTWS, message, stream
  <2>2. m_serverVersion' \in Nat /\ m_connected' \in BOOLEAN /\ open' \in BOOLEAN
    BY DEF DisconnectTWS
  <2>3. m_inBuffer' \in Seq(Unit)
    BY DEF DisconnectTWS
  <2>4. pc' \in {"idle", "loop", "decode", "emit"}
    OBVIOUS
  <2> QED
    BY <2>1, <2>2, <2>3, <2>4 DEF ReaderInv, TypeOK
<1>2. StreamInv' /\ SplitInv'
  <2>1. EveryMessageFromTheStart'
    BY DEF ReaderInv, StreamInv, EveryMessageFromTheStart, DisconnectTWS
  <2>2. Alternating(<<>>)
    BY DEF Alternating
  <2>3. m_inBuffer' = <<>>
    BY DEF DisconnectTWS
  <2> QED
    BY <2>1, <2>2, <2>3, StreamKept
<1>3. InOrderUntilSplit'
  BY DEF ReaderInv, InOrderUntilSplit, stream
<1>4. Closed'
  BY DEF Closed, DisconnectTWS
<1> QED
  BY <1>1, <1>2, <1>3, <1>4 DEF ReaderInv

\* cleanInBuffer() removes the message that has been handed over.
LEMMA CleanStep == ASSUME ReaderInv, CleanInBuffer PROVE ReaderInv'
<1> DEFINE r == SubSeq(m_inBuffer, (m_endIdx + 1) + 1, Len(m_inBuffer))
<1>1. /\ m_inBuffer \in Seq(Unit) /\ Alternating(m_inBuffer) /\ Len(m_inBuffer) \in Nat
      /\ m_endIdx \in Nat \cup {-1} /\ m_endIdx + 1 \in Nat
      /\ delivered \in Seq(Seq(Text)) /\ Len(delivered) \in Nat
  <2>1. m_inBuffer \in Seq(Unit) /\ Alternating(m_inBuffer) /\ m_endIdx \in Nat \cup {-1} /\ delivered \in Seq(Seq(Text))
    BY DEF ReaderInv, TypeOK, StreamInv
  <2> QED
    BY <2>1, LenProperties
<1>2. /\ r \in Seq(Unit) /\ Len(r) \in Nat /\ Alternating(r)
      /\ Len(r) = IF m_endIdx + 1 <= Len(m_inBuffer) THEN Len(m_inBuffer) - (m_endIdx + 1) ELSE 0
  BY <1>1, Rest
<1> HIDE DEF r
<1>3. m_inBuffer' = <<>> \/ m_inBuffer' = r
  BY DEF CleanInBuffer, RemoveMessage, RemoveFront, r
<1>4. m_begIdx' = 0 /\ m_endIdx' \in Nat \cup {-1} /\ pc' = "loop"
  BY <1>1 DEF CleanInBuffer, RemoveMessage
<1>5. m_inBuffer' \in Seq(Unit) /\ Alternating(m_inBuffer')
  <2>1. <<>> \in Seq(Unit) /\ Alternating(<<>>)
    BY DEF Alternating
  <2> QED
    BY <1>2, <1>3, <2>1
<1>6. TypeOK'
  BY <1>4, <1>5 DEF ReaderInv, TypeOK, CleanInBuffer, message, stream
<1>7. StreamInv' /\ SplitInv'
  <2>1. EveryMessageFromTheStart' /\ UNCHANGED <<stream, mode>>
    BY <1>4 DEF EveryMessageFromTheStart, CleanInBuffer
  <2> QED
    BY <1>4, <1>5, <2>1, StreamKept
<1>8. InOrderUntilSplit'
  BY DEF ReaderInv, InOrderUntilSplit, CleanInBuffer, stream
<1>9. CASE Closed
  <2>1. m_inBuffer' = <<>>
    <3>1. Len(m_inBuffer) = 0
      BY <1>9 DEF Closed
    <3>2. Len(r) = 0
      BY <1>1, <1>2, <3>1
    <3> QED
      BY <1>2, <1>3, <3>2, EmptySeq
  <2>2. Closed'
    BY <1>4, <1>9, <2>1 DEF Closed, CleanInBuffer
  <2> QED
    BY <1>6, <1>7, <1>8, <2>2 DEF ReaderInv
<1>10. Handled = Len(delivered) - 1 /\ Handled' = Len(delivered)
  BY <1>4 DEF Handled, CleanInBuffer
<1>11. CASE Garbage
  <2>1. whole \in Nat
    BY DEF ReaderInv, TypeOK
  <2>2. Garbage'
    BY <1>1, <1>10, <1>11, <2>1 DEF Garbage, CleanInBuffer, stream
  <2> QED
    BY <1>6, <1>7, <1>8, <2>2 DEF ReaderInv
<1>12. CASE InStep
  <2> DEFINE k == Handled
             m == sent[k + 1]
             l == WireLength(m)
             z == m_inBuffer \o toClient
             e == EndOf(sent, k)
  <2>1. /\ WithFields(sent) /\ Len(sent) \in Nat
        /\ \A i \in 0..Len(sent) : EndOf(sent, i) \in Nat
        /\ toClient \in Seq(Unit) /\ taken \in Nat
    BY SentFacts DEF ReaderInv, TypeOK
  <2>2. /\ k \in 0..(Len(sent) - 1) /\ Carries(z, sent, k)
        /\ Len(m_inBuffer) = taken - e
        /\ l <= Len(m_inBuffer) /\ m_endIdx = l - 1 /\ m_lastEndIdx = m_endIdx
    <3>1. k \in 0..Len(sent) /\ k < Len(sent) /\ InEmit(m) /\ Carries(z, sent, k) /\ Len(m_inBuffer) = taken - e
      BY <1>12 DEF InStep, CleanInBuffer
    <3> HIDE DEF k, m, z, e
    <3>2. k \in 0..(Len(sent) - 1)
      BY <2>1, <3>1
    <3> QED
      BY <3>1, <3>2 DEF InEmit
  <2>3. z \in Seq(Unit)
    BY <1>1, <2>1, JoinUnits
  <2>4. l \in Nat /\ l > 0
    <3> HIDE DEF k, z
    <3> QED
      BY <2>1, <2>2, <2>3, CarriesHead
  <2>5. m_endIdx + 1 = l /\ l \in 0..Len(m_inBuffer)
    <3> HIDE DEF l, e
    <3> QED
      BY <1>1, <2>2, <2>4
  <2>6. m_inBuffer' = SubSeq(m_inBuffer, l + 1, Len(m_inBuffer)) /\ Len(m_inBuffer') = Len(m_inBuffer) - l
    <3> HIDE DEF l, e
    <3>0. r = SubSeq(m_inBuffer, l + 1, Len(m_inBuffer))
      BY <2>5 DEF r
    <3>1. r = SubSeq(m_inBuffer, l + 1, Len(m_inBuffer)) /\ Len(r) = Len(m_inBuffer) - l
      <4>1. l <= Len(m_inBuffer) /\ m_endIdx + 1 = l
        BY <1>1, <2>4, <2>5
      <4>2. Len(r) = Len(m_inBuffer) - (m_endIdx + 1)
        BY <1>2, <4>1
      <4> QED
        BY <3>0, <4>1, <4>2
    <3>2. CASE m_endIdx = Len(m_inBuffer) - 1
      <4>1. Len(r) = 0
        BY <1>1, <2>4, <2>5, <3>1, <3>2
      <4>2. r = <<>>
        BY <1>2, <4>1, EmptySeq
      <4> QED
        BY <1>3, <3>1, <4>2
    <3>3. CASE m_endIdx # Len(m_inBuffer) - 1
      <4>1. ~ (m_endIdx < m_lastEndIdx)
        BY <1>1, <2>2
      <4>2. m_inBuffer' = r
        BY <3>3, <4>1 DEF CleanInBuffer, RemoveMessage, RemoveFront, r
      <4> QED
        BY <3>1, <4>2
    <3> QED
      BY <3>2, <3>3
  <2>7. (m_inBuffer \o toClient)' = SubSeq(z, l + 1, Len(z))
    <3>1. toClient' = toClient
      BY DEF CleanInBuffer, stream
    <3> HIDE DEF l
    <3>2. SubSeq(m_inBuffer, l + 1, Len(m_inBuffer)) \o toClient = SubSeq(z, l + 1, Len(z))
      BY <1>1, <2>1, <2>5, RestOfJoin
    <3> QED
      BY <2>6, <3>1, <3>2
  <2>8. Carries(SubSeq(z, l + 1, Len(z)), sent, k + 1)
    <3> HIDE DEF k, z
    <3> QED
      BY <2>1, <2>2, <2>3, CarriesNext
  <2>9. k + 1 \in 0..Len(sent) /\ EndOf(sent, k + 1) = e + l /\ e \in Nat
    <3> HIDE DEF k
    <3>1. k + 1 \in 1..Len(sent) /\ (k + 1) - 1 = k /\ k \in 0..Len(sent) /\ k + 1 \in 0..Len(sent)
      BY <2>1, <2>2
    <3> QED
      BY <2>1, <3>1, Ends DEF WithFields
  <2>10. Handled' = k + 1
    BY <1>1, <1>10
  <2>11. Len(m_inBuffer') = taken - EndOf(sent, k + 1)
    <3> HIDE DEF k, l, e
    <3> QED
      BY <1>1, <2>1, <2>2, <2>4, <2>6, <2>9
  <2> HIDE DEF k, l, e, z
  <2>12. InStep'
    <3>1. UNCHANGED <<sent, taken, m_connected, m_serverVersion, delivered, mode>>
      BY DEF CleanInBuffer, stream
    <3> QED
      BY <1>4, <1>12, <2>7, <2>8, <2>9, <2>10, <2>11, <3>1 DEF InStep
  <2> QED
    BY <1>6, <1>7, <1>8, <2>12 DEF ReaderInv
<1> QED
  BY <1>9, <1>11, <1>12 DEF ReaderInv

\* decodeField() decodes a field.
LEMMA DecodeStep == ASSUME ReaderInv, DecodeField PROVE ReaderInv'
<1> DEFINE text == Mid(m_inBuffer, m_begIdx, IndexOfNul(m_inBuffer, m_begIdx) - m_begIdx)
           p == Len(fields)
<1>1. /\ m_inBuffer \in Seq(Unit) /\ Alternating(m_inBuffer) /\ m_begIdx \in Nat
      /\ fields \in Seq(Text) /\ p \in Nat
  <2>1. /\ m_inBuffer \in Seq(Unit) /\ Alternating(m_inBuffer) /\ m_begIdx \in Nat
        /\ fields \in Seq(Text)
    BY DEF ReaderInv, TypeOK, StreamInv
  <2> QED
    BY <2>1, LenProperties
<1>2. IndexOfNul(m_inBuffer, m_begIdx) \in Nat \cup {-1} /\ text \in Text
  BY <1>1, NextText
<1>3. /\ m_endIdx' = IndexOfNul(m_inBuffer, m_begIdx) /\ m_begIdx' = m_endIdx' + 1
      /\ m_lastEndIdx' = m_endIdx' /\ fields' = Append(fields, text)
      /\ got' = IF m_connected /\ fields # <<>>
                THEN Note(got, FieldName(fields, m_serverVersion, got), text) ELSE NoField
      /\ pc = "decode" /\ p < Wanted
  BY DEF DecodeField, SetIndices
<1>4. UNCHANGED <<m_inBuffer, m_connected, m_serverVersion, pc, open, toClient, sent, taken, whole,
                  delivered, conns, mode>>
  BY DEF DecodeField, stream
<1> HIDE DEF text, p
<1>5. TypeOK'
  <2>1. DOMAIN got' \subseteq Deciding /\ \A name \in DOMAIN got' : got'[name] \in Text
    <3>1. DOMAIN got \subseteq Deciding /\ \A name \in DOMAIN got : got[name] \in Text
      BY DEF ReaderInv, TypeOK
    <3>2. DOMAIN NoField = {}
      BY DEF NoField
    <3>3. ASSUME NEW name
          PROVE  /\ DOMAIN Note(got, name, text) \subseteq Deciding
                 /\ \A x \in DOMAIN Note(got, name, text) : Note(got, name, text)[x] \in Text
      BY <1>2, <3>1 DEF Note, Noted
    <3> QED
      BY <1>3, <3>2, <3>3
  <2>2. fields' \in Seq(Text)
    BY <1>1, <1>2, <1>3, AppendProperties
  <2>3. m_endIdx' \in Nat \cup {-1} /\ m_lastEndIdx' \in Nat \cup {-1} /\ m_begIdx' \in Nat
    BY <1>2, <1>3
  <2> QED
    BY <1>4, <2>1, <2>2, <2>3 DEF ReaderInv, TypeOK
<1>6. StreamInv' /\ SplitInv'
  <2>1. pc' = "decode" /\ Alternating(m_inBuffer') /\ UNCHANGED <<stream, mode>>
    BY <1>1, <1>3, <1>4 DEF stream
  <2>2. EveryMessageFromTheStart'
    BY <2>1 DEF EveryMessageFromTheStart
  <2> QED
    BY <2>1, <2>2, StreamKept
<1>7. InOrderUntilSplit'
  BY <1>4 DEF ReaderInv, InOrderUntilSplit
<1>8. Handled' = Handled /\ Handled = Len(delivered)
  BY <1>3, <1>4 DEF Handled
<1>9. CASE Garbage
  <2>1. Garbage'
    BY <1>4, <1>8, <1>9 DEF Garbage
  <2> QED
    BY <1>5, <1>6, <1>7, <2>1 DEF ReaderInv
<1>10. CASE InStep
  <2> DEFINE k == Len(delivered)
             m == sent[k + 1]
             sv == m_serverVersion
             d == Decided(m, sv)
  <2>1. /\ k < Len(sent) /\ m \in Seq(Text) /\ Len(m) \in Nat /\ Len(m) > 0 /\ InDecode(m)
        /\ p < Len(m)
        /\ fields # <<>> => fields[1] = m[1]
        /\ m_connected => Fits(m, sv, d)
    BY <1>3, <1>10, WantedFields DEF ReaderInv, p
  <2>2. m' = m /\ sv' = sv
    BY <1>4
  <2>3. sv \in Nat
    BY DEF ReaderInv, TypeOK
  <2> HIDE DEF m, k, sv
  <2>4. /\ Holds(m_inBuffer, m) /\ fields = SubSeq(m, 1, p) /\ m_begIdx = Len(Wire(fields))
        /\ fields # <<>> /\ m_connected => Known(m, sv, d, got, p - 1)
    BY <2>1 DEF InDecode, p, sv
  <2>5. p \in 0..(Len(m) - 1) /\ p + 1 \in 1..Len(m) /\ p \in 0..Len(m) /\ p + 1 \in 0..Len(m)
    BY <1>1, <2>1
  <2>6. /\ IndexOfNul(m_inBuffer, m_begIdx) \in Nat /\ text = m[p + 1]
        /\ IndexOfNul(m_inBuffer, m_begIdx) + 1 = Len(Wire(SubSeq(m, 1, p + 1)))
    BY <1>1, <2>1, <2>4, <2>5, DecodesNext DEF text
  <2>7. fields' = SubSeq(m, 1, p + 1) /\ Len(fields') = p + 1 /\ fields' # <<>>
    <3>1. SubSeq(m, 1, p + 1) = Append(SubSeq(m, 1, p), m[p + 1])
      BY <2>1, <2>5, Fronts
    <3>2. fields' = SubSeq(m, 1, p + 1)
      BY <1>3, <2>4, <2>6, <3>1
    <3>3. Len(fields') = p + 1
      BY <1>1, <1>2, <1>3, AppendProperties DEF p
    <3>4. fields' # <<>>
      BY <1>1, <1>2, <1>3, AppendProperties
    <3> QED
      BY <3>2, <3>3, <3>4
  <2>8. m_connected => Known(m, sv, d, got', p)
    <3> SUFFICES ASSUME m_connected
                 PROVE  Known(m, sv, d, got', p)
      OBVIOUS
    <3>1. CASE fields = <<>>
      <4>1. p = 0 /\ got' = NoField
        BY <1>3, <3>1 DEF p
      <4>2. DOMAIN NoField = {} /\ 1..0 = {}
        BY DEF NoField
      <4> QED
        BY <4>1, <4>2 DEF Known
    <3>2. CASE fields # <<>>
      <4> DEFINE layout == Layout(ToInt(m[1]), sv, got)
                 n == p - 1
                 dd == d
      <4>1. n \in Nat /\ n < Len(m) /\ n + 1 = p /\ n + 2 = p + 1
        <5>1. p # 0
          BY <1>1, <3>2, EmptySeq DEF p
        <5> QED
          BY <1>1, <2>1, <5>1
      <4>2. Known(m, sv, dd, got, n) /\ Fits(m, sv, dd)
        BY <2>1, <2>4, <3>2
      <4>3. FieldName(fields, m_serverVersion, got) = layout[p] /\ Wanted = 1 + Len(layout)
        BY <2>1, <3>2, Zenon DEF FieldName, Wanted, sv, p
      <4>4. got' = Note(got, layout[n + 1], m[n + 2])
        BY <1>3, <2>6, <3>2, <4>1, <4>3
      <4> HIDE DEF dd, n
      <4>5. /\ Len(layout) \in Nat /\ n <= Len(layout)
            /\ n = Len(layout) <=> n + 1 = Len(m)
            /\ n < Len(layout) => Known(m, sv, dd, Note(got, layout[n + 1], m[n + 2]), n + 1)
        BY <2>1, <2>3, <4>1, <4>2, KnowsNext
      <4>6. Known(m, sv, dd, got', p)
        <5> HIDE DEF layout
        <5>1. n < Len(layout)
          BY <2>1, <4>1, <4>5
        <5> QED
          BY <4>1, <4>4, <4>5, <5>1
      <4> QED
        BY <4>6 DEF dd
    <3> QED
      BY <3>1, <3>2
  <2>9. InDecode(m)'
    <3>1. m_begIdx' = Len(Wire(fields')) /\ m_endIdx' = m_begIdx' - 1
      <4> DEFINE i == IndexOfNul(m_inBuffer, m_begIdx)
                 e == Len(Wire(SubSeq(m, 1, p + 1)))
      <4>1. i \in Nat /\ i + 1 = e /\ m_endIdx' = i /\ m_begIdx' = m_endIdx' + 1
        BY <1>3, <2>6
      <4>2. Len(Wire(fields')) = e
        BY <2>7
      <4> HIDE DEF i, e
      <4> QED
        BY <4>1, <4>2
    <3>2. Len(fields') <= Len(m) /\ Len(fields') - 1 = p
      BY <2>5, <2>7, <1>1
    <3> QED
      BY <1>3, <1>4, <2>2, <2>4, <2>7, <2>8, <3>1, <3>2 DEF InDecode, sv
  <2>10. InStep'
    <3>1. Handled' < Len(sent') /\ InDecode(sent[Handled + 1])'
      BY <1>4, <1>8, <2>1, <2>9 DEF m, k
    <3> QED
      BY <1>3, <1>4, <1>8, <1>10, <3>1 DEF InStep
  <2> QED
    BY <1>5, <1>6, <1>7, <2>10 DEF ReaderInv
<1> QED
  BY <1>3, <1>9, <1>10 DEF ReaderInv, Closed

\* A message is handed to the application.
LEMMA HandleStep == ASSUME ReaderInv, Handle PROVE ReaderInv'
<1>1. /\ pc = "decode" /\ Len(fields) = Wanted
      /\ fields \in Seq(Text) /\ delivered \in Seq(Seq(Text)) /\ Len(delivered) \in Nat
      /\ whole \in Nat
  <2>1. fields \in Seq(Text) /\ delivered \in Seq(Seq(Text)) /\ whole \in Nat
    BY DEF ReaderInv, TypeOK
  <2> QED
    BY <2>1, LenProperties DEF Handle, Decoded
<1>2. CASE UnknownId
  <2>1. DisconnectTWS /\ pc' = "emit" /\ UNCHANGED <<message, stream, delivered, conns, mode>>
    BY <1>2 DEF UnknownId
  <2> QED
    BY <2>1, DisconnectStep
<1>3. CASE Greeting \/ Dispatch
  <2>1. /\ delivered' = Append(delivered, fields) /\ pc' = "emit"
        /\ UNCHANGED <<m_inBuffer, m_begIdx, m_endIdx, m_lastEndIdx, fields, got, toClient, sent,
                       taken, whole, conns, mode>>
    BY <1>3 DEF Greeting, Dispatch, Deliver, message, stream
  <2>2. /\ m_connected'
        /\ m_connected => m_serverVersion' = m_serverVersion
        /\ ~m_connected => m_serverVersion' = ToInt(fields[1])
    BY <1>3 DEF Greeting, Dispatch
  <2>3. /\ delivered' \in Seq(Seq(Text)) /\ Len(delivered') = Len(delivered) + 1 /\ delivered' # <<>>
        /\ \A i \in 1..Len(delivered) : delivered'[i] = delivered[i]
        /\ delivered'[Len(delivered) + 1] = fields
        /\ DOMAIN delivered' = 1..(Len(delivered) + 1) /\ DOMAIN delivered = 1..Len(delivered)
    BY <1>1, <2>1, AppendProperties, LenProperties
  <2>4. Handled' = Len(delivered) /\ Handled = Len(delivered)
    BY <1>1, <2>1, <2>3 DEF Handled
  <2>5. StreamInv' /\ SplitInv'
    <3>1. EveryMessageFromTheStart'
      BY <2>1 DEF EveryMessageFromTheStart
    <3>2. Alternating(m_inBuffer') /\ UNCHANGED <<stream, mode>>
      BY <2>1 DEF ReaderInv, StreamInv, stream
    <3> QED
      BY <2>1, <3>1, <3>2, StreamKept
  <2>6. ASSUME m_serverVersion' \in Nat
        PROVE  TypeOK'
    <3>1. m_connected' \in BOOLEAN /\ open' \in BOOLEAN
      BY <1>3 DEF ReaderInv, TypeOK, Greeting, Dispatch
    <3> QED
      BY <2>1, <2>3, <2>6, <3>1 DEF ReaderInv, TypeOK
  <2>7. CASE Garbage
    <3>1. m_serverVersion' \in Nat
      <4>1. fields # <<>>
        BY <1>1 DEF Wanted
      <4>2. 1 \in 1..Len(fields)
        <5>1. Len(fields) \in Nat /\ Len(fields) # 0
          BY <1>1, <4>1, LenProperties, EmptySeq
        <5> QED
          BY <5>1
      <4>3. fields[1] \in Text
        BY <1>1, <4>2, ElementOfSeq
      <4>4. ToInt(fields[1]) \in Nat
        BY <4>3, ToIntIsNat
      <4>5. m_serverVersion \in Nat
        BY DEF ReaderInv, TypeOK
      <4> QED
        BY <2>2, <4>4, <4>5
    <3>2. Garbage'
      BY <2>1, <2>4, <2>7 DEF Garbage
    <3>3. InOrderUntilSplit'
      <4> SUFFICES ASSUME NEW i \in 1..(Len(delivered) + 1), i <= whole
                   PROVE  i <= Len(sent) /\ delivered'[i] = sent[i]
        BY <2>1, <2>3 DEF InOrderUntilSplit
      <4>1. i \in 1..Len(delivered)
        BY <1>1, <2>4, <2>7 DEF Garbage
      <4> QED
        BY <2>3, <4>1 DEF ReaderInv, InOrderUntilSplit
    <3> QED
      BY <2>5, <2>6, <3>1, <3>2, <3>3 DEF ReaderInv
  <2>8. CASE InStep
    <3> DEFINE k == Len(delivered)
               m == sent[k + 1]
    <3>1. /\ k < Len(sent) /\ m \in Seq(Text) /\ Len(m) \in Nat /\ InDecode(m)
          /\ fields = m /\ Len(m) > 0
          /\ ~m_connected => k = 0 /\ m = mode.greeting
      BY <1>1, <2>8, WantedFields DEF ReaderInv
    <3>2. m_serverVersion' = ToInt(mode.greeting[1]) /\ m_serverVersion' \in Nat
      <4>1. m_serverVersion' = ToInt(mode.greeting[1])
        BY <2>2, <2>8, <3>1 DEF InStep
      <4> QED
        BY <4>1, ModeFacts DEF ReaderInv, StreamInv
    <3>3. InOrderUntilSplit'
      <4> SUFFICES ASSUME NEW i \in 1..(Len(delivered) + 1), i <= whole
                   PROVE  i <= Len(sent) /\ delivered'[i] = sent[i]
        BY <2>1, <2>3 DEF InOrderUntilSplit
      <4>1. CASE i \in 1..Len(delivered)
        BY <2>3, <4>1 DEF ReaderInv, InOrderUntilSplit
      <4>2. CASE i = Len(delivered) + 1
        <5>1. Len(sent) \in Nat
          BY SentFacts DEF ReaderInv
        <5> QED
          BY <1>1, <2>3, <3>1, <4>2, <5>1
      <4> QED
        BY <1>1, <4>1, <4>2
    <3>4. /\ WireLength(m) <= Len(m_inBuffer')
          /\ m_endIdx' = WireLength(m) - 1 /\ m_lastEndIdx' = m_endIdx'
      <4>1. Len(Wire(m)) = WireLength(m)
        BY <3>1, WireShape DEF WireOf
      <4>2. fields # <<>>
        BY <3>1, EmptySeq
      <4> HIDE DEF m
      <4>3. m_begIdx = WireLength(m) /\ m_endIdx = m_begIdx - 1 /\ m_lastEndIdx = m_endIdx
        BY <3>1, <4>1, <4>2 DEF InDecode
      <4> QED
        BY <2>1, <3>1, <4>3 DEF InDecode, Holds
    <3>5. Handled' < Len(sent') /\ InEmit(sent[Handled + 1])'
      <4>1. Handled' < Len(sent') /\ sent'[Handled' + 1] = m
        BY <2>1, <2>4, <3>1
      <4> HIDE DEF m
      <4> QED
        BY <3>4, <4>1 DEF InEmit
    <3>6. InStep'
      <4>1. /\ Handled' \in 0..Len(sent')
            /\ Carries((m_inBuffer \o toClient)', sent', Handled')
            /\ Len(m_inBuffer') = taken' - EndOf(sent', Handled')
        BY <2>1, <2>4, <2>8 DEF InStep
      <4>2. m_connected' /\ delivered' # <<>> /\ mode' = mode
        BY <2>1, <2>2, <2>3
      <4> QED
        BY <2>1, <3>2, <3>5, <4>1, <4>2 DEF InStep
    <3> QED
      BY <2>5, <2>6, <3>2, <3>3, <3>6 DEF ReaderInv
  <2> QED
    BY <1>1, <2>7, <2>8 DEF ReaderInv, Closed
<1> QED
  BY <1>2, <1>3 DEF Handle

\* The invariant holds when an IBQt object is constructed.
LEMMA InitInv == Init => ReaderInv
<1> SUFFICES ASSUME Init
             PROVE  ReaderInv
  OBVIOUS
<1>1. mode \in Modes /\ mode.messages \in Nat
  BY ModeFacts DEF Init
<1>2. EndOf(<<>>, 0) = 0
  <2>1. <<>> \in Seq(Seq(Text))
    OBVIOUS
  <2> QED
    BY <2>1, Ends
<1>3. /\ <<>> \in Seq(Unit) /\ <<>> \in Seq(Text) /\ <<>> \in Seq(Seq(Text))
      /\ Alternating(<<>>) /\ Ended(<<>>) /\ Len(<<>>) = 0 /\ DOMAIN <<>> = {}
  BY DEF Alternating, Ended
<1>4. TypeOK
  <2>1. DOMAIN got = {}
    BY DEF Init, NoField
  <2>2. m_lastEndIdx \in Nat \cup {-1} /\ whole \in Nat
    BY <1>1 DEF Init
  <2>3. fields \in Seq(Text) /\ m_inBuffer \in Seq(Unit) /\ toClient \in Seq(Unit)
        /\ sent \in Seq(Seq(Text)) /\ delivered \in Seq(Seq(Text))
    BY <1>3 DEF Init
  <2> QED
    BY <2>1, <2>2, <2>3 DEF Init, TypeOK
<1>5. StreamInv
  BY <1>1, <1>2, <1>3 DEF Init, StreamInv, EveryMessageFromTheStart
<1>6. SplitInv
  <2>1. AtBoundary(0)
    BY <1>2, <1>3 DEF Init, AtBoundary
  <2> QED
    BY <1>1, <2>1 DEF Init, SplitInv
<1>7. InOrderUntilSplit
  BY <1>3 DEF Init, InOrderUntilSplit
<1>8. Closed
  BY DEF Init, Closed
<1> QED
  BY <1>4, <1>5, <1>6, <1>7, <1>8 DEF ReaderInv

\* Every step keeps it.
LEMMA NextInv == ReaderInv /\ [Next]_vars => ReaderInv'
<1> SUFFICES ASSUME ReaderInv, [Next]_vars
             PROVE  ReaderInv'
  OBVIOUS
<1>1. CASE Connect
  BY <1>1, ConnectStep
<1>2. ASSUME NEW m, TwsWrites(m)
      PROVE  ReaderInv'
  BY <1>2, WriteStep
<1>3. ASSUME NEW n \in 1..Len(toClient), OnReadyRead(n)
      PROVE  ReaderInv'
  BY <1>3, ReadStep
<1>4. CASE LoopTop
  BY <1>4, LoopStep
<1>5. CASE DecodeField
  BY <1>5, DecodeStep
<1>6. CASE Handle
  BY <1>6, HandleStep
<1>7. CASE CleanInBuffer
  BY <1>7, CleanStep
<1>8. CASE ReadyReadReturns
  BY <1>8, ReturnStep
<1>9. CASE Disconnect
  <2>1. /\ DisconnectTWS /\ UNCHANGED <<message, stream, delivered, conns, mode>>
        /\ pc' \in {"idle", "emit"} /\ (pc' = pc \/ pc' = "emit")
    BY <1>9 DEF Disconnect
  <2> QED
    BY <2>1, DisconnectStep
<1>10. CASE UNCHANGED vars
  <2>1. UNCHANGED <<m_inBuffer, m_begIdx, m_endIdx, m_lastEndIdx, m_connected, m_serverVersion, pc,
                    fields, got, open, toClient, sent, delivered, taken, whole, conns, mode>>
    BY <1>10 DEF vars, object, message, stream
  <2>2. TypeOK' /\ InOrderUntilSplit'
    BY <2>1 DEF ReaderInv, TypeOK, InOrderUntilSplit
  <2>3. StreamInv' /\ SplitInv'
    BY <2>1 DEF ReaderInv, StreamInv, SplitInv, EveryMessageFromTheStart, AtBoundary
  <2>4. Closed' \/ Garbage' \/ InStep'
    BY <2>1 DEF ReaderInv, Closed, Garbage, InStep, Handled, InDecode, InEmit
  <2> QED
    BY <2>2, <2>3, <2>4 DEF ReaderInv
<1> QED
  BY <1>1, <1>2, <1>3, <1>4, <1>5, <1>6, <1>7, <1>8, <1>9, <1>10 DEF Next, ReadyRead, Read

--------------------------------------------------------------------------------
(* What follows for every behaviour.                                       *)

\* The invariant holds of every state.
THEOREM ReaderInvHolds == Spec => []ReaderInv
<1> QED
  BY InitInv, NextInv, PTL DEF Spec

\* Whatever TWS sends, however it is cut and wherever a slot disconnects, the
\* variables keep their types: the indices of decodeField() and cleanInBuffer()
\* never become negative but for the -1 of m_endIdx.
THEOREM TypeOKHolds == Spec => []TypeOK
<1>1. ReaderInv => TypeOK
  BY DEF ReaderInv
<1> QED
  BY <1>1, ReaderInvHolds, PTL

\* However TCP cuts the stream, for any messages, any number of them and any
\* number of connections: those before the first that a readAll() splits are
\* delivered as they were sent, in order and once each.
THEOREM InOrderUntilSplitHolds == Spec => []InOrderUntilSplit
<1>1. ReaderInv => InOrderUntilSplit
  BY DEF ReaderInv
<1> QED
  BY <1>1, ReaderInvHolds, PTL

\* Wherever a slot disconnects: the decoding of a message begins at the start
\* of the buffer.
THEOREM EveryMessageFromTheStartHolds == Spec => []EveryMessageFromTheStart
<1>1. ReaderInv => EveryMessageFromTheStart
  BY DEF ReaderInv, StreamInv
<1> QED
  BY <1>1, ReaderInvHolds, PTL

\* Until the first split message onReadyRead finds no NUL to drop at the head
\* of the buffer, whatever the layouts and the values of the messages.
THEOREM NothingDroppedUntilSplitHolds == Spec => NothingDroppedUntilSplit
<1>1. ReaderInv /\ LoopTop /\ Len(delivered) < whole => UNCHANGED m_inBuffer
  <2> SUFFICES ASSUME ReaderInv, LoopTop, Len(delivered) < whole
               PROVE  m_inBuffer' = m_inBuffer
    OBVIOUS
  <2>1. pc = "loop" /\ m_inBuffer # <<>> /\ Handled = Len(delivered)
    BY DEF LoopTop, Handled
  <2>2. ~Garbage
    BY <2>1, LenProperties DEF Garbage, ReaderInv, TypeOK
  <2>3. InStep
    BY <2>1, <2>2 DEF ReaderInv, Closed
  <2>4. Head(m_inBuffer) # NUL
    BY <2>1, <2>2, <2>3, NextIsWhole
  <2> QED
    BY <2>4 DEF LoopTop
<1>2. ReaderInv => [LoopTop /\ Len(delivered) < whole => UNCHANGED m_inBuffer]_vars
  BY <1>1
<1> QED
  BY <1>2, ReaderInvHolds, PTL DEF NothingDroppedUntilSplit

--------------------------------------------------------------------------------
(* The channel.                                                            *)

\* With reads that end at message ends, a write of TWS is a write on the channel,
\* a message handed to the application is the next one written, a connection
\* starts afresh, and the other steps stutter.
LEMMA StepsOfTheChannel == ReaderInv /\ [Next]_vars => [Channel!Next]_(Channel!vars)
<1> SUFFICES ASSUME ReaderInv, [Next]_vars
             PROVE  [Channel!Next]_(Channel!vars)
  OBVIOUS
<1>1. CASE UNCHANGED <<sent, delivered, mode>>
  BY <1>1 DEF Channel!vars
<1>2. CASE ~mode.aligned /\ mode' = mode
  BY <1>2 DEF Channel!vars
<1>3. CASE mode.aligned /\ Connect
  BY <1>3 DEF Connect, Channel!Next, Channel!Reconnect
<1>4. ASSUME mode.aligned, NEW m \in {mode.greeting} \cup mode.catalog, TwsWrites(m)
      PROVE  [Channel!Next]_(Channel!vars)
  <2>1. m \in Messages
    BY DEF ReaderInv, StreamInv, Messages
  <2>2. sent' = Append(sent, m) /\ delivered' = delivered /\ mode' = mode
    BY <1>4 DEF TwsWrites
  <2>3. Append(sent, m) # sent
    <3>1. sent \in Seq(Seq(Text)) /\ m \in Seq(Text)
      BY ModeFacts DEF ReaderInv, TypeOK, StreamInv
    <3>2. Len(Append(sent, m)) = Len(sent) + 1 /\ Len(sent) \in Nat
      BY <3>1, AppendProperties, LenProperties
    <3> QED
      BY <3>2
  <2> QED
    BY <1>4, <2>1, <2>2, <2>3 DEF Channel!Next, Channel!Write
<1>5. CASE mode.aligned /\ Handle /\ (Greeting \/ Dispatch)
  <2>1. pc = "decode" /\ Len(fields) = Wanted
    BY <1>5 DEF Handle, Decoded
  <2>2. /\ sent' = sent /\ delivered' = Append(delivered, fields) /\ mode' = mode
    BY <1>5 DEF Greeting, Dispatch, Deliver, stream
  <2>3. InStep
    <3>1. whole = mode.messages /\ mode.messages \in Nat
      BY <1>5, ModeFacts DEF ReaderInv, StreamInv, SplitInv
    <3> QED
      BY <2>1, <3>1 DEF ReaderInv, Closed, Garbage
  <2>4. Len(delivered) < Len(sent) /\ fields = sent[Len(delivered) + 1]
    BY <2>1, <2>3, WantedFields DEF ReaderInv
  <2> QED
    BY <1>5, <2>2, <2>4 DEF Channel!Next, Channel!Deliver
<1>6. mode' = mode
  BY DEF Next, vars, Connect, TwsWrites, ReadyRead, OnReadyRead, Read, LoopTop, DecodeField, Handle,
         Greeting, Dispatch, UnknownId, Deliver, CleanInBuffer, ReadyReadReturns, Disconnect
<1>7. \/ UNCHANGED <<sent, delivered>>
      \/ Connect \/ (\E m \in {mode.greeting} \cup mode.catalog : TwsWrites(m))
      \/ Handle /\ (Greeting \/ Dispatch)
  BY DEF Next, vars, ReadyRead, OnReadyRead, Read, LoopTop, DecodeField, Handle,
         UnknownId, CleanInBuffer, ReadyReadReturns, Disconnect, stream
<1> QED
  BY <1>1, <1>2, <1>3, <1>4, <1>5, <1>6, <1>7 DEF ReaderInv, StreamInv

\* With reads that end at message ends the reader implements the channel:
\* onReadyRead(), decodeField() and cleanInBuffer() lose, repeat, reorder and
\* alter no message.
THEOREM ReaderImplementsChannel == Spec => ImplementsChannel
<1>1. Init => Channel!Init
  BY DEF Init, Channel!Init
<1> QED
  BY <1>1, ReaderInvHolds, StepsOfTheChannel, PTL DEF Spec, ImplementsChannel, Channel!Spec
================================================================================
