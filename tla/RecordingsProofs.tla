-------------------------- MODULE RecordingsProofs ---------------------------
(***************************************************************************)
(* The files, proved for any number of processes, receivers and templates. *)
(***************************************************************************)
EXTENDS Recordings, WellFoundedInduction, FiniteSetTheorems, SequenceTheorems, TLAPS

-----------------------------------------------------------------------------
(* Texts that are strung together.  Induction is the smallest number of a  *)
(* set, since no theorem with an operator for a parameter can be used.     *)

LEMMA Least ==
  ASSUME NEW T \in SUBSET Nat, T # {}
  PROVE  \E x \in T : \A y \in T : x <= y
<1>1. PICK R : IsWellFoundedOn(R, Nat) /\ \A x, y \in Nat : x < y => <<x, y>> \in R
  <2>1. IsWellFoundedOn(OpToRel(<,Nat), Nat)
    BY NatLessThanWellFounded
  <2>2. \A x, y \in Nat : x < y => <<x, y>> \in OpToRel(<,Nat)
    BY DEF OpToRel
  <2> QED
    BY <2>1, <2>2, Zenon
<1>2. \E x \in T : \A y \in T : ~(<<y, x>> \in R)
  <2>1. IsWellFoundedOn(R, Nat) /\ T \subseteq Nat /\ T # {}
    BY <1>1
  <2> QED
    BY <2>1, WFMin, Zenon
<1>3. PICK x \in T : \A y \in T : ~(<<y, x>> \in R)
  BY <1>2
<1>4. \A y \in T : x \in Nat /\ y \in Nat /\ ~(y < x)
  BY <1>1, <1>3
<1>5. \A y \in T : x <= y
  BY <1>4
<1> QED
  BY <1>5

\* A set of numbers from 1 to n in which each follows from the one before it.
LEMMA Upward ==
  ASSUME NEW n \in Nat, NEW S, n >= 1 => 1 \in S,
         \A k \in 1..n : k > 1 /\ k - 1 \in S => k \in S
  PROVE  \A k \in 1..n : k \in S
<1> DEFINE T == (1..n) \ S
<1> SUFFICES ASSUME T # {} PROVE FALSE
  OBVIOUS
<1>1. T \in SUBSET Nat
  OBVIOUS
<1>2. PICK x \in T : \A y \in T : x <= y
  <2> HIDE DEF T
  <2> QED
    BY <1>1, Least
<1>3. x \in 1..n /\ x \notin S /\ x > 1
  BY <1>2
<1>4. x - 1 \in S
  <2>1. x - 1 \in 1..n /\ ~(x <= x - 1)
    BY <1>3
  <2> QED
    BY <1>2, <2>1
<1> QED
  BY <1>3, <1>4

\* What FlattenSeq puts together step by step.
Grows(s, k, f) == f = [i \in 1..k |-> IF i = 1 THEN s[i] ELSE f[i - 1] \o s[i]]

LEMMA GrowsOneMore ==
  ASSUME NEW s, NEW k \in Nat, k > 1, NEW f, Grows(s, k - 1, f)
  PROVE  \E g : Grows(s, k, g)
<1> DEFINE g == [i \in 1..k |-> IF i = k THEN f[k - 1] \o s[k] ELSE f[i]]
<1>1. \A i \in 1..(k - 1) : f[i] = IF i = 1 THEN s[i] ELSE f[i - 1] \o s[i]
  BY DEF Grows
<1>2. \A i \in 1..k : g[i] = IF i = k THEN f[k - 1] \o s[k] ELSE f[i]
  BY Zenon
<1> HIDE DEF g
<1>3. ASSUME NEW i \in 1..k
      PROVE  g[i] = IF i = 1 THEN s[i] ELSE g[i - 1] \o s[i]
  <2>1. CASE i = k
    <3>1. k \in 1..k /\ k - 1 \in 1..k /\ k # 1 /\ k - 1 # k
      OBVIOUS
    <3>2. g[k] = f[k - 1] \o s[k] /\ g[k - 1] = f[k - 1]
      BY <1>2, <3>1
    <3> QED
      BY <2>1, <3>1, <3>2
  <2>2. CASE i # k
    <3>1. i \in 1..(k - 1) /\ (i # 1 => i - 1 \in 1..k /\ i - 1 # k)
      BY <2>2
    <3>2. g[i] = f[i] /\ (i # 1 => g[i - 1] = f[i - 1])
      BY <1>2, <2>2, <3>1
    <3> QED
      BY <1>1, <3>1, <3>2
  <2> QED
    BY <2>1, <2>2
<1>4. g = [i \in 1..k |-> g[i]]
  BY DEF g
<1>5. g = [i \in 1..k |-> IF i = 1 THEN s[i] ELSE g[i - 1] \o s[i]]
  BY <1>3, <1>4
<1>6. Grows(s, k, g)
  BY <1>5, Zenon DEF Grows
<1> QED
  BY <1>6

LEMMA FlattenGrows ==
  ASSUME NEW s, NEW n \in Nat, n = Len(s), n # 0
  PROVE  \E f : Grows(s, n, f) /\ FlattenSeq(s) = f[n]
<1> DEFINE S == {k \in 1..n : \E f : Grows(s, k, f)}
<1>1. 1 \in S
  <2> DEFINE f == [i \in 1..1 |-> s[1]]
  <2>1. f = [i \in 1..1 |-> IF i = 1 THEN s[i] ELSE f[i - 1] \o s[i]]
    OBVIOUS
  <2>2. Grows(s, 1, f)
    BY <2>1, Zenon DEF Grows
  <2>3. 1 \in 1..n
    OBVIOUS
  <2> HIDE DEF f
  <2> QED
    BY <2>2, <2>3
<1>2. ASSUME NEW k \in 1..n, k > 1, k - 1 \in S PROVE k \in S
  <2>1. k \in Nat
    OBVIOUS
  <2>2. \E f : Grows(s, k - 1, f)
    BY <1>2
  <2>3. \E f : Grows(s, k, f)
    BY <1>2, <2>1, <2>2, GrowsOneMore
  <2> QED
    BY <2>3
<1>3. n \in S
  <2> HIDE DEF S
  <2>1. n \in 1..n
    OBVIOUS
  <2> QED
    BY <1>1, <1>2, <2>1, Upward
<1>4. \E f : f = [i \in 1..Len(s) |-> IF i = 1 THEN s[i] ELSE f[i - 1] \o s[i]]
  <2>1. \E f : Grows(s, n, f)
    BY <1>3
  <2> QED
    BY <2>1, Zenon DEF Grows
<1> DEFINE g == CHOOSE f : f = [i \in 1..Len(s) |-> IF i = 1 THEN s[i] ELSE f[i - 1] \o s[i]]
<1>5. g = [i \in 1..Len(s) |-> IF i = 1 THEN s[i] ELSE g[i - 1] \o s[i]]
  BY <1>4, Zenon
<1>6. FlattenSeq(s) = g[Len(s)]
  <2>1. Len(s) # 0
    OBVIOUS
  <2> QED
    BY <2>1, Zenon DEF FlattenSeq
<1> HIDE DEF g
<1>7. Grows(s, n, g) /\ FlattenSeq(s) = g[n]
  BY <1>5, <1>6, Zenon DEF Grows
<1> QED
  BY <1>7

LEMMA Concatenation ==
  ASSUME NEW C, NEW u \in Seq(C), NEW v \in Seq(C)
  PROVE  /\ u \o v \in Seq(C)
         /\ Len(u) \in Nat /\ Len(v) \in Nat
         /\ Len(u \o v) = Len(u) + Len(v)
         /\ \A p \in 1..Len(u) : (u \o v)[p] = u[p]
         /\ \A p \in 1..Len(v) : (u \o v)[Len(u) + p] = v[p]
OBVIOUS

\* Item i begins after place o[i - 1] of the text.
Places(s, n, o, text) ==
  /\ o \in [0..n -> Nat] /\ o[0] = 0 /\ o[n] = Len(text)
  /\ \A i \in 1..n : /\ o[i] = o[i - 1] + Len(s[i])
                     /\ \A p \in 1..Len(s[i]) : text[o[i - 1] + p] = s[i][p]

LEMMA FlattenPlaces ==
  ASSUME NEW C, NEW n \in Nat, n # 0, NEW s, n = Len(s), \A i \in 1..n : s[i] \in Seq(C)
  PROVE  \E o : Places(s, n, o, FlattenSeq(s))
<1>1. PICK f : Grows(s, n, f) /\ FlattenSeq(s) = f[n]
  BY FlattenGrows
<1>2. \A i \in 1..n : f[i] = IF i = 1 THEN s[i] ELSE f[i - 1] \o s[i]
  BY <1>1 DEF Grows
<1> DEFINE o == [i \in 0..n |-> IF i = 0 THEN 0 ELSE Len(f[i])]
<1>3. o[0] = 0 /\ \A i \in 1..n : o[i] = Len(f[i])
  OBVIOUS
<1> DEFINE Good(k) ==
      /\ f[k] \in Seq(C)
      /\ \A i \in 1..k : /\ o[i] \in Nat /\ o[i - 1] \in Nat /\ o[i] <= o[k]
                         /\ o[i] = o[i - 1] + Len(s[i])
                         /\ \A p \in 1..Len(s[i]) : f[k][o[i - 1] + p] = s[i][p]
           S == {k \in 1..n : Good(k)}
<1> HIDE DEF o
<1>4. 1 \in S
  <2>1. 1 \in 1..n /\ f[1] = s[1] /\ s[1] \in Seq(C) /\ Len(s[1]) \in Nat
    BY <1>2
  <2>2. o[1] = Len(s[1]) /\ o[1] \in Nat
    BY <1>3, <2>1
  <2>3. ASSUME NEW i \in 1..1
        PROVE  /\ o[i] \in Nat /\ o[i - 1] \in Nat /\ o[i] <= o[1]
               /\ o[i] = o[i - 1] + Len(s[i])
               /\ \A p \in 1..Len(s[i]) : f[1][o[i - 1] + p] = s[i][p]
    <3>1. i = 1 /\ i - 1 = 0
      OBVIOUS
    <3>2. \A p \in 1..Len(s[1]) : 0 + p = p
      OBVIOUS
    <3> QED
      BY <1>3, <2>1, <2>2, <3>1, <3>2
  <2> QED
    BY <2>1, <2>3
<1>5. ASSUME NEW k \in 1..n, k > 1, k - 1 \in S PROVE k \in S
  <2>1. Good(k - 1) /\ k - 1 \in 1..n /\ k # 1
    BY <1>5
  <2>2. f[k] = f[k - 1] \o s[k] /\ f[k - 1] \in Seq(C) /\ s[k] \in Seq(C)
    BY <1>2, <2>1
  <2>3. /\ f[k] \in Seq(C) /\ Len(s[k]) \in Nat /\ o[k - 1] \in Nat
        /\ o[k] = o[k - 1] + Len(s[k])
        /\ \A p \in 1..o[k - 1] : f[k][p] = f[k - 1][p]
        /\ \A p \in 1..Len(s[k]) : f[k][o[k - 1] + p] = s[k][p]
    <3>1. o[k - 1] = Len(f[k - 1]) /\ o[k] = Len(f[k])
      BY <1>3, <2>1
    <3>2. /\ f[k - 1] \o s[k] \in Seq(C) /\ Len(f[k - 1]) \in Nat /\ Len(s[k]) \in Nat
          /\ Len(f[k - 1] \o s[k]) = Len(f[k - 1]) + Len(s[k])
          /\ \A p \in 1..Len(f[k - 1]) : (f[k - 1] \o s[k])[p] = f[k - 1][p]
          /\ \A p \in 1..Len(s[k]) : (f[k - 1] \o s[k])[Len(f[k - 1]) + p] = s[k][p]
      <4> DEFINE u == f[k - 1]
                 v == s[k]
      <4>1. u \in Seq(C) /\ v \in Seq(C)
        BY <2>2
      <4> HIDE DEF u, v
      <4>2. /\ u \o v \in Seq(C) /\ Len(u) \in Nat /\ Len(v) \in Nat
            /\ Len(u \o v) = Len(u) + Len(v)
            /\ \A p \in 1..Len(u) : (u \o v)[p] = u[p]
            /\ \A p \in 1..Len(v) : (u \o v)[Len(u) + p] = v[p]
        BY <4>1, Concatenation
      <4> QED
        BY <4>2, Zenon DEF u, v
    <3> QED
      BY <2>2, <3>1, <3>2, Zenon
  <2>4. ASSUME NEW i \in 1..k
        PROVE  /\ o[i] \in Nat /\ o[i - 1] \in Nat /\ o[i] <= o[k]
               /\ o[i] = o[i - 1] + Len(s[i])
               /\ \A p \in 1..Len(s[i]) : f[k][o[i - 1] + p] = s[i][p]
    <3>1. CASE i = k
      BY <2>3, <3>1
    <3>2. CASE i # k
      <4>1. i \in 1..(k - 1)
        BY <3>2
      <4>2. /\ o[i] \in Nat /\ o[i - 1] \in Nat /\ o[i] <= o[k - 1]
            /\ o[i] = o[i - 1] + Len(s[i])
            /\ \A p \in 1..Len(s[i]) : f[k - 1][o[i - 1] + p] = s[i][p]
        BY <2>1, <4>1
      <4>3. s[i] \in Seq(C) /\ Len(s[i]) \in Nat
        BY <4>1
      <4>4. \A p \in 1..Len(s[i]) : o[i - 1] + p \in 1..o[k - 1]
        <5>1. \A a, b, c, d \in Nat : b <= c /\ b = a + d =>
                \A p \in 1..d : a + p \in 1..c
          OBVIOUS
        <5> QED
          BY <2>3, <4>2, <4>3, <5>1, Zenon
      <4>5. o[i] <= o[k]
        BY <2>3, <4>2
      <4> QED
        BY <2>3, <4>2, <4>4, <4>5
    <3> QED
      BY <3>1, <3>2
  <2> QED
    BY <2>3, <2>4
<1>6. n \in S
  <2> HIDE DEF S
  <2>1. n \in 1..n
    OBVIOUS
  <2> QED
    BY <1>4, <1>5, <2>1, Upward
<1>7. Good(n)
  BY <1>6
<1>8. o \in [0..n -> Nat]
  <2>1. \A i \in 0..n : o[i] \in Nat
    <3> SUFFICES ASSUME NEW i \in 0..n PROVE o[i] \in Nat
      OBVIOUS
    <3>1. i = 0 \/ i \in 1..n
      OBVIOUS
    <3> QED
      BY <1>3, <1>7, <3>1
  <2>2. o = [i \in 0..n |-> o[i]]
    BY DEF o
  <2> QED
    BY <2>1, <2>2
<1>9. o[n] = Len(FlattenSeq(s))
  BY <1>1, <1>3
<1>10. Places(s, n, o, FlattenSeq(s))
  BY <1>1, <1>3, <1>7, <1>8, <1>9 DEF Places
<1> QED
  BY <1>10

\* Items of two texts: where they differ they do not contain the character dot, and
\* are followed by one or end the text.
DotsBetween(n, s, t, dot) ==
  \A i \in 1..n :
    \/ s[i] = t[i]
    \/ /\ \A p \in 1..Len(s[i]) : s[i][p] # dot
       /\ \A p \in 1..Len(t[i]) : t[i][p] # dot
       /\ i = n \/ (s[i + 1] = <<dot>> /\ t[i + 1] = <<dot>>)

\* Then the texts are equal only if all the items are.
LEMMA PlacesApart ==
  ASSUME NEW n \in Nat, NEW s, NEW t, NEW text, NEW dot, NEW o, NEW q,
         Places(s, n, o, text), Places(t, n, q, text),
         \A i \in 1..n : Len(s[i]) \in Nat /\ Len(t[i]) \in Nat,
         DotsBetween(n, s, t, dot)
  PROVE  \A i \in 1..n : Len(s[i]) = Len(t[i]) /\ \A p \in 1..Len(s[i]) : s[i][p] = t[i][p]
<1>1. /\ o \in [0..n -> Nat] /\ o[0] = 0 /\ q \in [0..n -> Nat] /\ q[0] = 0 /\ o[n] = q[n]
      /\ \A i \in 1..n : o[i] = o[i - 1] + Len(s[i]) /\ q[i] = q[i - 1] + Len(t[i])
      /\ \A i \in 1..n : \A p \in 1..Len(s[i]) : text[o[i - 1] + p] = s[i][p]
      /\ \A i \in 1..n : \A p \in 1..Len(t[i]) : text[q[i - 1] + p] = t[i][p]
  BY DEF Places
<1>2. ASSUME NEW k \in 1..n, o[k - 1] = q[k - 1] PROVE o[k] = q[k]
  <2>1. /\ k - 1 \in 0..n /\ k \in 0..n /\ o[k - 1] \in Nat /\ o[k] \in Nat /\ q[k] \in Nat
        /\ Len(s[k]) \in Nat /\ Len(t[k]) \in Nat
        /\ o[k] = o[k - 1] + Len(s[k]) /\ q[k] = o[k - 1] + Len(t[k])
    BY <1>1, <1>2
  <2>2. CASE s[k] = t[k]
    BY <2>1, <2>2
  <2>3. CASE k = n
    BY <1>1, <2>3
  <2>4. CASE s[k] # t[k] /\ k # n
    <3>1. /\ \A p \in 1..Len(s[k]) : s[k][p] # dot
          /\ \A p \in 1..Len(t[k]) : t[k][p] # dot
          /\ s[k + 1] = <<dot>> /\ t[k + 1] = <<dot>>
      BY <2>4, Zenon DEF DotsBetween
    <3>2. k + 1 \in 1..n /\ k + 1 - 1 = k
      BY <2>4
    <3>3. Len(s[k + 1]) = 1 /\ s[k + 1][1] = dot /\ Len(t[k + 1]) = 1 /\ t[k + 1][1] = dot
      BY <3>1
    <3>4. text[o[k] + 1] = dot /\ text[q[k] + 1] = dot
      <4>1. 1 \in 1..Len(s[k + 1]) /\ 1 \in 1..Len(t[k + 1])
        BY <3>3
      <4>2. /\ text[o[k + 1 - 1] + 1] = s[k + 1][1]
            /\ text[q[k + 1 - 1] + 1] = t[k + 1][1]
        <5>1. ASSUME NEW j \in 1..n, 1 \in 1..Len(s[j]), 1 \in 1..Len(t[j])
              PROVE  /\ text[o[j - 1] + 1] = s[j][1]
                     /\ text[q[j - 1] + 1] = t[j][1]
          BY <1>1, <5>1, Zenon
        <5> QED
          BY <3>2, <4>1, <5>1
      <4> QED
        BY <3>2, <3>3, <4>2, Zenon
    <3>5. ~(Len(s[k]) < Len(t[k]))
      <4> SUFFICES ASSUME Len(s[k]) < Len(t[k]) PROVE FALSE
        OBVIOUS
      <4>1. Len(s[k]) + 1 \in 1..Len(t[k]) /\ q[k - 1] + (Len(s[k]) + 1) = o[k] + 1
        BY <1>2, <2>1
      <4>2. t[k][Len(s[k]) + 1] = text[q[k - 1] + (Len(s[k]) + 1)]
        BY <1>1, <4>1, Zenon
      <4> QED
        BY <3>1, <3>4, <4>1, <4>2, Zenon
    <3>6. ~(Len(t[k]) < Len(s[k]))
      <4> SUFFICES ASSUME Len(t[k]) < Len(s[k]) PROVE FALSE
        OBVIOUS
      <4>1. Len(t[k]) + 1 \in 1..Len(s[k]) /\ o[k - 1] + (Len(t[k]) + 1) = q[k] + 1
        BY <2>1
      <4>2. s[k][Len(t[k]) + 1] = text[o[k - 1] + (Len(t[k]) + 1)]
        BY <1>1, <4>1, Zenon
      <4> QED
        BY <3>1, <3>4, <4>1, <4>2, Zenon
    <3> QED
      BY <2>1, <3>5, <3>6
  <2> QED
    BY <2>2, <2>3, <2>4
<1> DEFINE S == {k \in 1..n : o[k] = q[k]}
<1>3. \A k \in 1..n : k \in S
  <2>1. n >= 1 => 1 \in S
    <3> SUFFICES ASSUME n >= 1 PROVE 1 \in S
      OBVIOUS
    <3>1. 1 \in 1..n /\ 1 - 1 = 0
      OBVIOUS
    <3>2. o[1] = q[1]
      BY <1>1, <1>2, <3>1
    <3> QED
      BY <3>1, <3>2
  <2>2. ASSUME NEW k \in 1..n, k > 1, k - 1 \in S PROVE k \in S
    BY <1>2, <2>2
  <2> HIDE DEF S
  <2> QED
    BY <2>1, <2>2, Upward
<1>4. ASSUME NEW i \in 1..n
      PROVE  Len(s[i]) = Len(t[i]) /\ \A p \in 1..Len(s[i]) : s[i][p] = t[i][p]
  <2>1. o[i] = q[i] /\ o[i - 1] = q[i - 1]
    <3>1. i - 1 = 0 \/ i - 1 \in 1..n
      OBVIOUS
    <3> QED
      BY <1>1, <1>3, <3>1
  <2>2. i - 1 \in 0..n /\ o[i - 1] \in Nat
    BY <1>1
  <2>3. Len(s[i]) = Len(t[i])
    <3>1. o[i] = o[i - 1] + Len(s[i]) /\ q[i] = q[i - 1] + Len(t[i])
      BY <1>1, Zenon
    <3>2. \A a, b, c \in Nat : a + b = a + c => b = c
      OBVIOUS
    <3> QED
      BY <2>1, <2>2, <3>1, <3>2, Zenon
  <2>4. /\ \A p \in 1..Len(s[i]) : text[o[i - 1] + p] = s[i][p]
        /\ \A p \in 1..Len(t[i]) : text[q[i - 1] + p] = t[i][p]
    BY <1>1, Zenon
  <2> QED
    BY <2>1, <2>3, <2>4, Zenon
<1> QED
  BY <1>4

-----------------------------------------------------------------------------
(* The items of a name.                                                    *)

\* All of them strings, which the provers cannot tell.
Character == STRING \cup Field \cup {Dot}

LEMMA StringsAreCharacters ==
  ASSUME NEW u \in Seq(STRING)
  PROVE  u \in Seq(Character)
<1>1. \A i \in 1..Len(u) : u[i] \in Character
  <2>1. \A i \in 1..Len(u) : u[i] \in STRING
    OBVIOUS
  <2> QED
    BY <2>1, Zenon DEF Character
<1>2. u = [i \in 1..Len(u) |-> u[i]] /\ Len(u) \in Nat
  OBVIOUS
<1> QED
  BY <1>1, <1>2

LEMMA NumbersGrow ==
  ASSUME NEW template \in Seq(Character), NEW k \in 0..Len(template)
  PROVE  /\ Numbers(template, k) \in Nat
         /\ Numbers(template, k) <= Numbers(template, Len(template))
         /\ "%n" \in Range(template) => Numbers(template, Len(template)) # 0
<1> DEFINE N(j) == {i \in 1..j : template[i] = "%n"}
           n == Len(template)
<1>1. n \in Nat /\ k \in Nat /\ k <= n
  OBVIOUS
<1>2. IsFiniteSet(1..n) /\ N(k) \subseteq N(n) /\ N(n) \subseteq 1..n
  <2>1. IsFiniteSet(1..n)
    BY <1>1, FS_Interval
  <2> HIDE DEF n
  <2>2. N(k) \subseteq N(n) /\ N(n) \subseteq 1..n
    BY <1>1
  <2> QED
    BY <2>1, <2>2
<1>3. "%n" \in Range(template) => N(n) # {}
  <2>1. DOMAIN template = 1..n
    OBVIOUS
  <2> QED
    BY <2>1, Zenon DEF Range
<1> HIDE DEF n, N
<1>4. IsFiniteSet(N(n)) /\ IsFiniteSet(N(k))
  BY <1>2, FS_Subset
<1>5. /\ Cardinality(N(k)) \in Nat /\ Cardinality(N(k)) <= Cardinality(N(n))
      /\ N(n) # {} => Cardinality(N(n)) # 0
  BY <1>2, <1>4, FS_Subset, FS_CardinalityType, FS_EmptySet
<1> QED
  BY <1>3, <1>5, Zenon DEF Numbers, N, n

\* What a name is made from.
IsFile(f) ==
  /\ f.template \in Seq(Character) /\ f.n \in Nat
  /\ f.n + Numbers(f.template, Len(f.template)) <= MaxNumber
  /\ f.p \in Server /\ f.s \in Receiver \cup {None}

\* No number and no serial number contains the character that follows a field.
LEMMA TextsWithoutDot ==
  ASSUME NEW texts, Distinct(texts), NEW i \in DOMAIN texts
  PROVE  /\ texts[i] \in Seq(Character) /\ texts[i] # <<>>
         /\ \A p \in 1..Len(texts[i]) : texts[i][p] # Dot
<1>1. texts[i] \in Seq(STRING) /\ texts[i] # <<>> /\ Dot \notin Range(texts[i])
  BY Zenon DEF Distinct
<1>2. DOMAIN texts[i] = 1..Len(texts[i])
  BY <1>1
<1>3. texts[i] \in Seq(Character)
  BY <1>1, StringsAreCharacters
<1> QED
  BY <1>1, <1>2, <1>3, Zenon DEF Range

LEMMA ItemOfField ==
  ASSUME NEW f, IsFile(f), NEW i \in 1..Len(f.template)
  PROVE  /\ Item(f, i) \in Seq(Character)
         /\ f.template[i] \in Field => \A p \in 1..Len(Item(f, i)) : Item(f, i)[p] # Dot
         /\ f.template[i] \notin Field => Item(f, i) = <<f.template[i]>>
         /\ f.n + Numbers(f.template, i - 1) \in 0..MaxNumber /\ f.p \in 0..MaxNumber
         /\ Numbers(f.template, i - 1) \in Nat
<1>1. f.template \in Seq(Character) /\ f.template[i] \in Character /\ i - 1 \in 0..Len(f.template)
  BY DEF IsFile
<1>2. /\ Numbers(f.template, i - 1) \in Nat
      /\ f.n + Numbers(f.template, i - 1) \in 0..MaxNumber
  <2>1. /\ Numbers(f.template, i - 1) \in Nat
        /\ Numbers(f.template, i - 1) <= Numbers(f.template, Len(f.template))
    BY <1>1, NumbersGrow
  <2>2. Len(f.template) \in 0..Len(f.template)
    BY <1>1
  <2>3. Numbers(f.template, Len(f.template)) \in Nat
    BY <1>1, <2>2, NumbersGrow
  <2> QED
    BY <2>1, <2>3, NumbersAssumption DEF IsFile
<1>3. f.p \in 0..MaxNumber
  BY NumbersAssumption, NServerAssumption DEF IsFile, Server
<1>4. CASE f.template[i] = "%n"
  <2>1. Item(f, i) = Digits[f.n + Numbers(f.template, i - 1)]
    BY <1>4, Zenon DEF Item
  <2> QED
    BY <1>2, <1>3, <1>4, <2>1, DigitsAssumption, TextsWithoutDot, Zenon DEF Field
<1>5. CASE f.template[i] = "%p"
  <2>1. Item(f, i) = Digits[f.p]
    BY <1>5 DEF Item
  <2> QED
    BY <1>2, <1>3, <1>5, <2>1, DigitsAssumption, TextsWithoutDot, Zenon DEF Field
<1>6. CASE f.template[i] = "%s"
  <2>1. Item(f, i) = IF f.s = None THEN <<>> ELSE SerialNumber[f.s]
    BY <1>6 DEF Item
  <2>2. <<>> \in Seq(Character) /\ Len(<<>>) = 0 /\ 1..0 = {}
    OBVIOUS
  <2>3. f.s # None => f.s \in DOMAIN SerialNumber
    BY SerialNumberAssumption, Zenon DEF IsFile
  <2>4. CASE f.s = None
    BY <1>2, <1>3, <1>6, <2>1, <2>2, <2>4, Zenon DEF Field
  <2>5. CASE f.s # None
    BY <1>2, <1>3, <1>6, <2>1, <2>3, <2>5, SerialNumberAssumption, TextsWithoutDot, Zenon DEF Field
  <2> QED
    BY <2>4, <2>5
<1>7. CASE f.template[i] \notin Field
  <2>1. Item(f, i) = <<f.template[i]>>
    BY <1>7, Zenon DEF Item, Field
  <2>2. <<f.template[i]>> \in Seq(Character)
    BY <1>1
  <2> QED
    BY <1>2, <1>3, <1>7, <2>1, <2>2, Zenon
<1> QED
  BY <1>4, <1>5, <1>6, <1>7, Zenon DEF Field

\* Two names from one template, in which the fields are apart, are the same only if
\* every field has the same value in both.
LEMMA NamesTold ==
  ASSUME NEW f, NEW g, IsFile(f), IsFile(g), f.template = g.template, Apart(f.template),
         ExpandName(f) = ExpandName(g)
  PROVE  /\ "%n" \in Range(f.template) => f.n = g.n
         /\ "%p" \in Range(f.template) => f.p = g.p
         /\ "%s" \in Range(f.template) => f.s = g.s
<1> DEFINE n == Len(f.template)
           s == [i \in 1..n |-> Item(f, i)]
           t == [i \in 1..n |-> Item(g, i)]
<1>1. n \in Nat /\ f.template \in Seq(Character) /\ DOMAIN f.template = 1..n
  BY DEF IsFile
<1>2. /\ \A i \in 1..n : s[i] = Item(f, i) /\ t[i] = Item(g, i)
      /\ FlattenSeq(s) = FlattenSeq(t)
  BY Zenon DEF ExpandName
<1>3. \A i \in 1..n : s[i] \in Seq(Character) /\ t[i] \in Seq(Character)
  BY <1>2, ItemOfField, Zenon
<1>4. Len(s) = n /\ Len(t) = n
  BY <1>1
<1>5. ASSUME NEW i \in 1..n, f.template[i] \notin Field
      PROVE  s[i] = <<f.template[i]>> /\ t[i] = <<f.template[i]>>
  <2>1. Item(f, i) = <<f.template[i]>>
    BY <1>5, ItemOfField, Zenon
  <2>2. i \in 1..Len(g.template) /\ g.template[i] \notin Field
    BY <1>5, Zenon
  <2>3. Item(g, i) = <<g.template[i]>>
    BY <2>2, ItemOfField, Zenon
  <2> QED
    BY <1>2, <2>1, <2>3, Zenon
<1>6. DotsBetween(n, s, t, Dot)
  <2> SUFFICES ASSUME NEW i \in 1..n
               PROVE  \/ s[i] = t[i]
                      \/ /\ \A p \in 1..Len(s[i]) : s[i][p] # Dot
                         /\ \A p \in 1..Len(t[i]) : t[i][p] # Dot
                         /\ i = n \/ (s[i + 1] = <<Dot>> /\ t[i + 1] = <<Dot>>)
    BY Zenon DEF DotsBetween
  <2>1. CASE f.template[i] \notin Field
    BY <1>5, <2>1, Zenon
  <2>2. CASE f.template[i] \in Field
    <3>1. /\ \A p \in 1..Len(s[i]) : s[i][p] # Dot
          /\ \A p \in 1..Len(t[i]) : t[i][p] # Dot
      BY <1>2, <2>2, ItemOfField, Zenon
    <3>2. i = n \/ f.template[i + 1] = Dot
      BY <2>2, Zenon DEF Apart
    <3>3. Dot \notin Field
      BY DEF Dot, Field
    <3>4. i # n => i + 1 \in 1..n
      BY <1>1
    <3>5. i # n => s[i + 1] = <<Dot>> /\ t[i + 1] = <<Dot>>
      BY <1>5, <3>2, <3>3, <3>4, Zenon
    <3> QED
      BY <3>1, <3>5, Zenon
  <2> QED
    BY <2>1, <2>2
<1>7. ASSUME NEW i \in 1..n PROVE Item(f, i) = Item(g, i)
  <2> DEFINE text == FlattenSeq(s)
  <2> HIDE DEF n, s, t
  <2>1. n # 0
    BY <1>1
  <2>2. PICK o : Places(s, n, o, text)
    BY <1>1, <1>3, <1>4, <2>1, FlattenPlaces
  <2>3. PICK q : Places(t, n, q, text)
    <3>1. \E q : Places(t, n, q, FlattenSeq(t))
      BY <1>1, <1>3, <1>4, <2>1, FlattenPlaces
    <3> QED
      BY <1>2, <3>1
  <2>4. \A j \in 1..n : Len(s[j]) \in Nat /\ Len(t[j]) \in Nat
    BY <1>3
  <2>5. Len(s[i]) = Len(t[i]) /\ \A p \in 1..Len(s[i]) : s[i][p] = t[i][p]
    <3> HIDE DEF text
    <3> QED
      BY <1>1, <1>6, <2>2, <2>3, <2>4, PlacesApart
  <2>6. s[i] \in Seq(Character) /\ t[i] \in Seq(Character)
    BY <1>3
  <2>7. s[i] = t[i]
    BY <2>5, <2>6, SeqEqual
  <2> QED
    BY <1>2, <2>7
<1>8. ASSUME "%n" \in Range(f.template) PROVE f.n = g.n
  <2>1. PICK i \in 1..n : f.template[i] = "%n"
    BY <1>1, <1>8, Zenon DEF Range
  <2>2. /\ Item(f, i) = Digits[f.n + Numbers(f.template, i - 1)]
        /\ Item(g, i) = Digits[g.n + Numbers(f.template, i - 1)]
    BY <2>1, Zenon DEF Item
  <2>3. /\ f.n + Numbers(f.template, i - 1) \in 0..MaxNumber
        /\ g.n + Numbers(f.template, i - 1) \in 0..MaxNumber
        /\ Numbers(f.template, i - 1) \in Nat
    BY ItemOfField, Zenon
  <2>4. f.n + Numbers(f.template, i - 1) = g.n + Numbers(f.template, i - 1)
    BY <1>7, <2>2, <2>3, DigitsAssumption, Zenon DEF Distinct
  <2>5. f.n \in Nat /\ g.n \in Nat
    BY Zenon DEF IsFile
  <2> HIDE DEF n
  <2> QED
    BY <2>3, <2>4, <2>5
<1>9. ASSUME "%p" \in Range(f.template) PROVE f.p = g.p
  <2>1. PICK i \in 1..n : f.template[i] = "%p"
    BY <1>1, <1>9, Zenon DEF Range
  <2>2. Item(f, i) = Digits[f.p] /\ Item(g, i) = Digits[g.p]
    BY <2>1 DEF Item
  <2>3. f.p \in 0..MaxNumber /\ g.p \in 0..MaxNumber
    BY <2>1, ItemOfField, Zenon
  <2> QED
    BY <1>7, <2>2, <2>3, DigitsAssumption, Zenon DEF Distinct
<1>10. ASSUME "%s" \in Range(f.template) PROVE f.s = g.s
  <2>1. PICK i \in 1..n : f.template[i] = "%s"
    BY <1>1, <1>10, Zenon DEF Range
  <2>2. /\ Item(f, i) = IF f.s = None THEN <<>> ELSE SerialNumber[f.s]
        /\ Item(g, i) = IF g.s = None THEN <<>> ELSE SerialNumber[g.s]
    BY <2>1 DEF Item
  <2>3. /\ f.s # None => f.s \in DOMAIN SerialNumber
        /\ g.s # None => g.s \in DOMAIN SerialNumber
    BY SerialNumberAssumption, Zenon DEF IsFile
  <2>4. \A d, e \in DOMAIN SerialNumber :
          SerialNumber[d] # <<>> /\ (SerialNumber[d] = SerialNumber[e] => d = e)
    BY SerialNumberAssumption, Zenon DEF Distinct
  <2> QED
    BY <1>7, <2>2, <2>3, <2>4, Zenon
<1> QED
  BY <1>8, <1>9, <1>10

-----------------------------------------------------------------------------
(* What the properties rest on.                                            *)

LEMMA MinIsIn ==
  ASSUME NEW S \in SUBSET Nat, S # {}
  PROVE  Min(S) \in S
<1>1. \E x \in S : \A y \in S : x <= y
  BY Least
<1> QED
  BY <1>1, Zenon DEF Min

\* Nobody chooses a receiver who has one, or who collects.
ChoosingInv ==
  \A p \in Server : p \in choosing => holds[p] = None /\ p \notin collecting

\* A receiver is held by one process, whose configuration has its serial number or
\* none: a number left behind by a choice that failed is that of a process
\* without a receiver, and is overwritten by the choice that gives it one.
HoldInv ==
  /\ holds \in [Server -> Receiver \cup {None}]
  /\ serial \in [Server -> Receiver \cup {None}]
  /\ listed \in [Server -> SUBSET Receiver]
  /\ \A p, q \in Server : p # q /\ holds[p] # None => holds[p] # holds[q]
  /\ \A p \in Server : holds[p] # None => serial[p] \in {None, holds[p]}

\* The file of a recording has the number of the process that made it, and the
\* serial number it had then.
FileInv ==
  /\ mFile = [p \in Server |-> mFile[p]]
  /\ \A q \in Server : q \in collecting =>
       /\ IsFile(mFile[q]) /\ mFile[q].p = q
       /\ holds[q] # None => mFile[q].s \in {None, holds[q]}

\* Every number given is below the next one.
NumberInv ==
  /\ fileName \in [Server -> Seq(Character)]
  /\ mSequenceNumber \in [Server -> Nat]
  /\ \A f \in made :
       /\ IsFile(f)
       /\ "%n" \in Range(f.template) => f.n < mSequenceNumber[f.p]

IInv == ChoosingInv /\ HoldInv /\ FileInv /\ NumberInv

LEMMA InitIInv == Init => IInv
<1> SUFFICES ASSUME Init PROVE IInv
  OBVIOUS
<1>1. ChoosingInv
  BY DEF Init, ChoosingInv
<1>2. HoldInv
  BY DEF Init, HoldInv
<1>3. FileInv
  BY DEF Init, FileInv
<1>4. NumberInv
  <2> DEFINE name == <<"%s", Dot>>
  <2>1. ASSUME NEW a \in Character, NEW b \in Character PROVE <<a, b>> \in Seq(Character)
    OBVIOUS
  <2>2. "%s" \in Character /\ Dot \in Character
    BY Zenon DEF Character, Field
  <2>3. name \in Seq(Character)
    BY <2>1, <2>2, Zenon
  <2>4. /\ fileName = [p \in Server |-> name]
        /\ mSequenceNumber = [p \in Server |-> 1] /\ made = {}
    BY Zenon DEF Init
  <2> HIDE DEF name
  <2> QED
    BY <2>3, <2>4 DEF NumberInv
<1> QED
  BY <1>1, <1>2, <1>3, <1>4 DEF IInv

-----------------------------------------------------------------------------
(* One lemma for each command.                                             *)

LEMMA ListStep ==
  ASSUME IInv, NEW p \in Server, List(p)
  PROVE  IInv'
BY DEF IInv, ChoosingInv, HoldInv, FileInv, NumberInv, List, Available, IsFile

LEMMA ChooseStep ==
  ASSUME IInv, NEW p \in Server, Choose(p)
  PROVE  IInv'
<1> DEFINE d == Min(listed[p])
<1>1. /\ p \in choosing /\ holds[p] = None /\ p \notin collecting
      /\ choosing' = choosing \ {p}
      /\ listed' = [listed EXCEPT ![p] = {}]
      /\ serial' = [serial EXCEPT ![p] = d]
      /\ \/ holds' = holds
         \/ d \in Available /\ holds' = [holds EXCEPT ![p] = d]
      /\ UNCHANGED <<fileName, mSequenceNumber, mFile, collecting, made>>
  BY DEF Choose, Chosen, IInv, ChoosingInv
<1>2. d \in Receiver
  <2>1. listed[p] \in SUBSET Nat /\ listed[p] # {} /\ listed[p] \subseteq Receiver
    BY ReceiversAssumption DEF IInv, HoldInv, Choose, Receiver
  <2>2. d \in listed[p]
    BY <2>1, MinIsIn
  <2> QED
    BY <2>1, <2>2, Zenon
<1> HIDE DEF d
<1>3. \A q \in Server : q # p => holds'[q] = holds[q] /\ serial'[q] = serial[q]
  BY <1>1 DEF IInv, HoldInv
<1>4. serial'[p] = d /\ holds'[p] \in {None, d}
  BY <1>1 DEF IInv, HoldInv
<1>5. holds'[p] # None => d \in Available
  BY <1>1
<1>6. HoldInv'
  <2>1. /\ (holds \in [Server -> Receiver \cup {None}])'
        /\ (serial \in [Server -> Receiver \cup {None}])'
        /\ (listed \in [Server -> SUBSET Receiver])'
    BY <1>1, <1>2 DEF IInv, HoldInv
  <2>2. \A q \in Server : q # p /\ holds'[p] # None => holds'[q] # holds'[p]
    BY <1>3, <1>4, <1>5 DEF Available
  <2>3. \A q \in Server : holds'[q] # None => serial'[q] \in {None, holds'[q]}
    BY <1>3, <1>4 DEF IInv, HoldInv
  <2> QED
    BY <1>3, <2>1, <2>2, <2>3 DEF IInv, HoldInv
<1>7. ChoosingInv' /\ FileInv'
  BY <1>1, <1>3 DEF IInv, ChoosingInv, FileInv, IsFile
<1>8. NumberInv'
  BY <1>1 DEF IInv, NumberInv, IsFile
<1> QED
  BY <1>6, <1>7, <1>8 DEF IInv

LEMMA ChooseNoneStep ==
  ASSUME IInv, NEW p \in Server, ChooseNone(p)
  PROVE  IInv'
BY DEF IInv, ChoosingInv, HoldInv, FileInv, NumberInv, ChooseNone, Chosen, IsFile

LEMMA CloseStep ==
  ASSUME IInv, NEW p \in Server, Close(p)
  PROVE  IInv'
BY DEF IInv, ChoosingInv, HoldInv, FileInv, NumberInv, Close, IsFile

LEMMA LoadStep ==
  ASSUME IInv, NEW p \in Server, NEW template \in Templates, Load(p, template)
  PROVE  IInv'
<1>1. template \in Seq(Character)
  BY TemplatesAssumption, StringsAreCharacters
<1> QED
  BY <1>1 DEF IInv, ChoosingInv, HoldInv, FileInv, NumberInv, Load, IsFile

LEMMA CompleteStep ==
  ASSUME IInv, NEW p \in Server, Complete(p)
  PROVE  IInv'
BY DEF IInv, ChoosingInv, HoldInv, FileInv, NumberInv, Complete, IsFile

\* The file a collect creates, and the number after it.
LEMMA NewFile ==
  ASSUME IInv, NEW p \in Server, Collect(p)
  PROVE  /\ IsFile(File(p))
         /\ mSequenceNumber' \in [Server -> Nat]
         /\ \A q \in Server : mSequenceNumber[q] <= mSequenceNumber'[q]
         /\ "%n" \in Range(fileName[p]) => mSequenceNumber[p] < mSequenceNumber'[p]
<1> DEFINE count == Numbers(fileName[p], Len(fileName[p]))
<1>1. /\ fileName[p] \in Seq(Character) /\ mSequenceNumber \in [Server -> Nat]
      /\ serial[p] \in Receiver \cup {None}
  BY DEF IInv, HoldInv, NumberInv
<1>2. count \in Nat /\ ("%n" \in Range(fileName[p]) => count # 0)
  <2>1. Len(fileName[p]) \in 0..Len(fileName[p])
    BY <1>1
  <2> QED
    BY <1>1, <2>1, NumbersGrow
<1>3. /\ mSequenceNumber[p] + count <= MaxNumber
      /\ mSequenceNumber' = [mSequenceNumber EXCEPT ![p] = mSequenceNumber[p] + count]
  BY DEF Collect
<1>4. IsFile(File(p))
  BY <1>1, <1>3, Zenon DEF IsFile, File
<1> HIDE DEF count
<1> QED
  BY <1>1, <1>2, <1>3, <1>4

LEMMA CollectStep ==
  ASSUME IInv, NEW p \in Server, Collect(p)
  PROVE  IInv'
<1> DEFINE f == File(p)
<1>1. /\ IsFile(f) /\ f.p = p /\ f.s = serial[p] /\ f.n = mSequenceNumber[p]
      /\ f.template = fileName[p]
  BY NewFile DEF File
<1>2. /\ mFile' = [mFile EXCEPT ![p] = f]
      /\ collecting' = collecting \cup {p}
      /\ made' = made \cup {f}
      /\ p \notin choosing
      /\ UNCHANGED <<holds, serial, fileName, choosing, listed>>
  BY DEF Collect
<1>3. /\ mSequenceNumber \in [Server -> Nat] /\ mSequenceNumber' \in [Server -> Nat]
      /\ \A q \in Server : mSequenceNumber[q] <= mSequenceNumber'[q]
      /\ "%n" \in Range(f.template) => f.n < mSequenceNumber'[p]
  BY <1>1, NewFile DEF IInv, NumberInv
<1> HIDE DEF f
<1>4. ChoosingInv' /\ HoldInv'
  BY <1>2 DEF IInv, ChoosingInv, HoldInv
<1>5. FileInv'
  <2>1. /\ (mFile = [q \in Server |-> mFile[q]])' /\ mFile'[p] = f
        /\ \A q \in Server : q # p => mFile'[q] = mFile[q]
    BY <1>2 DEF IInv, FileInv
  <2>2. holds[p] # None => serial[p] \in {None, holds[p]}
    BY DEF IInv, HoldInv
  <2> QED
    BY <1>1, <1>2, <2>1, <2>2 DEF IInv, FileInv, IsFile
<1>6. NumberInv'
  <2>1. ASSUME NEW g \in made'
        PROVE  IsFile(g) /\ ("%n" \in Range(g.template) => g.n < mSequenceNumber'[g.p])
    <3>1. CASE g = f
      BY <1>1, <1>3, <3>1
    <3>2. CASE g \in made
      <4>1. IsFile(g) /\ ("%n" \in Range(g.template) => g.n < mSequenceNumber[g.p])
        BY <3>2 DEF IInv, NumberInv
      <4>2. g.p \in Server /\ g.n \in Nat
        BY <4>1 DEF IsFile
      <4> QED
        BY <1>3, <4>1, <4>2
    <3> QED
      BY <1>2, <3>1, <3>2
  <2> QED
    BY <1>2, <1>3, <2>1 DEF IInv, NumberInv, IsFile
<1> QED
  BY <1>4, <1>5, <1>6 DEF IInv

LEMMA NextIInv == IInv /\ [Next]_vars => IInv'
<1> SUFFICES ASSUME IInv, [Next]_vars PROVE IInv'
  OBVIOUS
<1>1. CASE Next
  BY <1>1, ListStep, ChooseStep, ChooseNoneStep, CloseStep, LoadStep, CollectStep,
     CompleteStep DEF Next
<1>2. CASE UNCHANGED vars
  BY <1>2 DEF vars, IInv, ChoosingInv, HoldInv, FileInv, NumberInv, IsFile
<1> QED
  BY <1>1, <1>2

LEMMA Invariant == Spec => []IInv
BY InitIInv, NextIInv, PTL DEF Spec

-----------------------------------------------------------------------------
\* However many radios and receivers there are, and whatever the template whose
\* fields are apart, no recording is emptied by another process if the process
\* number is in the name, or the serial number of the receiver it holds (collect,
\* expandName, open and load).
THEOREM RecordingsFileKept == Spec => FileKept
<1>1. ASSUME IInv, NEW p \in Server, NEW q \in Server, Collect(p), p # q, Recording(q),
             OneTemplate(p, q), ExpandName(File(p)) = ExpandName(mFile[q])
      PROVE  /\ "%p" \notin Range(fileName[p])
             /\ "%s" \in Range(fileName[p]) => holds[p] = None \/ serial[p] = None
  <2>1. /\ IsFile(mFile[q]) /\ mFile[q].p = q /\ holds[q] # None
        /\ mFile[q].s \in {None, holds[q]}
    BY <1>1 DEF IInv, FileInv, Recording
  <2>2. /\ IsFile(File(p)) /\ File(p).template = fileName[p]
        /\ File(p).p = p /\ File(p).s = serial[p]
    BY <1>1, NewFile DEF File
  <2>3. File(p).template = mFile[q].template /\ Apart(File(p).template)
    BY <1>1, <2>2, Zenon DEF OneTemplate
  <2>4. /\ "%p" \in Range(fileName[p]) => p = q
        /\ "%s" \in Range(fileName[p]) => serial[p] = mFile[q].s
    BY <1>1, <2>1, <2>2, <2>3, NamesTold, Zenon
  <2>5. ASSUME "%s" \in Range(fileName[p]), holds[p] # None, serial[p] # None
        PROVE  FALSE
    <3>1. serial[p] = holds[p] /\ holds[p] # holds[q]
      BY <1>1, <2>5 DEF IInv, HoldInv
    <3> QED
      BY <2>1, <2>4, <2>5, <3>1
  <2> QED
    BY <1>1, <2>4, <2>5
<1>2. IInv => [\A p, q \in Server :
                 /\ Collect(p) /\ p # q /\ Recording(q) /\ OneTemplate(p, q)
                 /\ ExpandName(File(p)) = ExpandName(mFile[q])
                 => /\ "%p" \notin Range(fileName[p])
                    /\ "%s" \in Range(fileName[p]) => holds[p] = None \/ serial[p] = None]_vars
  BY <1>1
<1> QED
  BY <1>2, Invariant, PTL DEF FileKept

\* However many radios there are and whatever they load, a number of a process comes
\* into the name of one file of a template whose fields are apart (collect and
\* expandName).
THEOREM RecordingsNumberedFresh == Spec => NumberedFresh
<1>1. ASSUME IInv, NEW p \in Server, Collect(p), {"%n", "%p"} \subseteq Range(fileName[p]),
             Apart(fileName[p]), NEW f \in made, f.template = fileName[p]
      PROVE  ExpandName(f) # ExpandName(File(p))
  <2> SUFFICES ASSUME ExpandName(f) = ExpandName(File(p)) PROVE FALSE
    OBVIOUS
  <2>1. IsFile(f) /\ f.n < mSequenceNumber[f.p]
    BY <1>1 DEF IInv, NumberInv
  <2>2. /\ IsFile(File(p)) /\ File(p).template = fileName[p]
        /\ File(p).p = p /\ File(p).n = mSequenceNumber[p]
    BY <1>1, NewFile DEF File
  <2>3. f.n = mSequenceNumber[p] /\ f.p = p
    BY <1>1, <2>1, <2>2, NamesTold
  <2>4. mSequenceNumber[p] \in Nat
    BY <1>1 DEF IInv, NumberInv
  <2> QED
    BY <2>1, <2>3, <2>4
<1>2. IInv => [\A p \in Server :
                 Collect(p) /\ {"%n", "%p"} \subseteq Range(fileName[p]) /\ Apart(fileName[p]) =>
                   \A f \in made : f.template = fileName[p] =>
                     ExpandName(f) # ExpandName(File(p))]_vars
  BY <1>1
<1> QED
  BY <1>2, Invariant, PTL DEF NumberedFresh
=============================================================================
