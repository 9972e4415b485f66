---------------------------- MODULE StreamProofs ----------------------------
EXTENDS Stream, FiniteSetTheorems, WellFoundedInduction, TLAPS

LEMMA MinIs ==
    ASSUME NEW S \in SUBSET Nat, NEW m \in S, \A x \in S : m <= x
    PROVE  Min(S) = m
<1>1. \A x \in S : (\A y \in S : x <= y) => x = m
  OBVIOUS
<1>2. Min(S) \in S /\ \A y \in S : Min(S) <= y
  BY DEF Min
<1> QED
  BY <1>1, <1>2

LEMMA MaxIs ==
    ASSUME NEW S \in SUBSET Nat, NEW m \in S, \A x \in S : x <= m
    PROVE  Max(S) = m
<1>1. \A x \in S : (\A y \in S : x >= y) => x = m
  OBVIOUS
<1>2. Max(S) \in S /\ \A y \in S : Max(S) >= y
  BY DEF Max
<1> QED
  BY <1>1, <1>2

LEMMA LeastOf ==
    ASSUME NEW S \in SUBSET Nat, S # {}
    PROVE  Min(S) \in S /\ \A x \in S : Min(S) <= x
<1> DEFINE R == OpToRel(<, Nat)
<1>1. \E x \in S : \A y \in S : ~ (<<y, x>> \in R)
  BY NatLessThanWellFounded, WFMin, Zenon
<1>2. \A x \in S : \A y \in S : y < x => <<y, x>> \in R
  BY Zenon DEF OpToRel
<1> HIDE DEF R
<1>3. \E x \in S : \A y \in S : ~ (y < x)
  BY <1>1, <1>2
<1>4. \E x \in S : \A y \in S : x <= y
  BY <1>3
<1> QED
  BY <1>4 DEF Min

(* Sequences, index by index.                                              *)
LEMMA CatIs ==
    ASSUME NEW T, NEW s \in Seq(T), NEW t \in Seq(T)
    PROVE  /\ s \o t \in Seq(T) /\ Len(s \o t) = Len(s) + Len(t)
           /\ \A i \in 1..Len(s) : (s \o t)[i] = s[i]
           /\ \A i \in 1..Len(t) : (s \o t)[Len(s) + i] = t[i]
           /\ \A i \in Len(s) + 1..Len(s) + Len(t) : (s \o t)[i] = t[i - Len(s)]
OBVIOUS

LEMMA SubIs ==
    ASSUME NEW T, NEW s \in Seq(T), NEW m \in Nat \ {0}, NEW n \in Nat,
           n <= Len(s), m <= n + 1
    PROVE  /\ SubSeq(s, m, n) \in Seq(T) /\ Len(SubSeq(s, m, n)) = n + 1 - m
           /\ \A i \in 1..n + 1 - m : SubSeq(s, m, n)[i] = s[i + m - 1]
OBVIOUS

LEMMA Same ==
    ASSUME NEW T, NEW s \in Seq(T), NEW t \in Seq(T), Len(s) = Len(t),
           \A i \in 1..Len(s) : s[i] = t[i]
    PROVE  s = t
OBVIOUS

LEMMA NoneAll ==
    ASSUME NEW T, NEW s \in Seq(T)
    PROVE  SubSeq(s, 1, 0) = <<>> /\ SubSeq(s, 1, Len(s)) = s /\ s \o <<>> = s /\ <<>> \o s = s
<1>1. SubSeq(s, 1, 0) = <<>>
  <2>1. SubSeq(s, 1, 0) \in Seq(T) /\ Len(SubSeq(s, 1, 0)) = 0
    OBVIOUS
  <2> QED
    BY <2>1
<1>2. SubSeq(s, 1, Len(s)) = s
  <2> DEFINE t == SubSeq(s, 1, Len(s))
  <2>1. t \in Seq(T) /\ Len(t) = Len(s) /\ \A i \in 1..Len(s) : t[i] = s[i]
    OBVIOUS
  <2> HIDE DEF t
  <2>2. t = s
    BY <2>1
  <2> QED
    BY <2>2 DEF t
<1>3. s \o <<>> = s /\ <<>> \o s = s
  OBVIOUS
<1> QED
  BY <1>1, <1>2, <1>3

LEMMA Recut ==
    ASSUME NEW T, NEW s \in Seq(T), NEW t \in Seq(T), NEW n \in 0..Len(t)
    PROVE  (s \o SubSeq(t, 1, n)) \o SubSeq(t, n + 1, Len(t)) = s \o t
<1> DEFINE a == SubSeq(t, 1, n)
           c == SubSeq(t, n + 1, Len(t))
<1>1. a \in Seq(T) /\ c \in Seq(T) /\ Len(a) = n /\ Len(c) = Len(t) - n
  OBVIOUS
<1>2. \A i \in 1..n : a[i] = t[i]
  OBVIOUS
<1>3. \A i \in 1..Len(t) - n : c[i] = t[i + n]
  OBVIOUS
<1> HIDE DEF a, c
<1>4. /\ s \o a \in Seq(T) /\ Len(s \o a) = Len(s) + n
      /\ \A i \in 1..Len(s) : (s \o a)[i] = s[i]
      /\ \A i \in Len(s) + 1..Len(s) + n : (s \o a)[i] = t[i - Len(s)]
  BY <1>1, <1>2
<1> DEFINE sa == s \o a
<1>t. sa \in Seq(T) /\ Len(sa) = Len(s) + n
  BY <1>4
<1> HIDE DEF sa
<1>5. /\ sa \o c \in Seq(T) /\ Len(sa \o c) = Len(sa) + Len(c)
      /\ \A i \in 1..Len(sa) : (sa \o c)[i] = sa[i]
      /\ \A i \in Len(sa) + 1..Len(sa) + Len(c) : (sa \o c)[i] = c[i - Len(sa)]
  <2>1. sa \in Seq(T)
    BY <1>t
  <2>2. c \in Seq(T)
    BY <1>1
  <2> QED
    BY <2>1, <2>2, CatIs, Zenon
<1>6. /\ s \o t \in Seq(T) /\ Len(s \o t) = Len(s) + Len(t)
      /\ \A i \in 1..Len(s) : (s \o t)[i] = s[i]
      /\ \A i \in Len(s) + 1..Len(s) + Len(t) : (s \o t)[i] = t[i - Len(s)]
  BY CatIs, Zenon
<1>7. \A i \in 1..Len(s) : (sa \o c)[i] = (s \o t)[i]
  BY <1>4, <1>5, <1>6, <1>t DEF sa
<1>8. \A i \in Len(s) + 1..Len(s) + n : (sa \o c)[i] = (s \o t)[i]
  <2> TAKE i \in Len(s) + 1..Len(s) + n
  <2>1. i \in 1..Len(sa) /\ i \in Len(s) + 1..Len(s) + Len(t)
    BY <1>t
  <2> QED
    BY <2>1, <1>4, <1>5, <1>6 DEF sa
<1>9. \A i \in Len(s) + n + 1..Len(s) + Len(t) : (sa \o c)[i] = (s \o t)[i]
  <2> TAKE i \in Len(s) + n + 1..Len(s) + Len(t)
  <2>1. /\ i \in Len(sa) + 1..Len(sa) + Len(c) /\ i \in Len(s) + 1..Len(s) + Len(t)
        /\ i - Len(sa) \in 1..Len(t) - n /\ i - Len(sa) + n = i - Len(s)
    BY <1>1, <1>t
  <2> QED
    BY <2>1, <1>3, <1>5, <1>6
<1>10. \A i \in 1..Len(s) + Len(t) : (sa \o c)[i] = (s \o t)[i]
  <2> DEFINE u == sa \o c
             v == s \o t
  <2> HIDE DEF u, v
  <2>1. /\ \A i \in 1..Len(s) : u[i] = v[i]
        /\ \A i \in Len(s) + 1..Len(s) + n : u[i] = v[i]
        /\ \A i \in Len(s) + n + 1..Len(s) + Len(t) : u[i] = v[i]
    BY <1>7, <1>8, <1>9 DEF u, v
  <2>2. Len(s) \in Nat /\ Len(t) \in Nat
    OBVIOUS
  <2>3. \A i \in 1..Len(s) + Len(t) : u[i] = v[i]
    BY <2>1, <2>2
  <2> QED
    BY <2>3 DEF u, v
<1>11. Len(sa \o c) = Len(s \o t) /\ Len(sa \o c) = Len(s) + Len(t)
  BY <1>1, <1>5, <1>6, <1>t
<1>12. sa \o c = s \o t
  BY <1>5, <1>6, <1>10, <1>11, Same, Zenon
<1> QED
  BY <1>12 DEF sa, a, c

-----------------------------------------------------------------------------
(* What has been told of an answer a, from a backend k: so much of the text, *)
(* of each call begun so many pieces, and some calls once more as a whole.   *)
Prog == [said : Nat, given : Seq(Nat), whole : SUBSET Nat]

Sound(a, k, p) ==
    /\ p \in Prog /\ p.said <= Len(a.text) /\ Len(p.given) <= Len(a.calls)
    /\ \A i \in 1..Len(p.given) : p.given[i] <= Len(a.calls[i].args)
    /\ p.whole \subseteq 1..Len(p.given)
    /\ p.given # <<>> => p.said = Len(a.text)
    /\ k = "anthropic" =>
         \A i \in 1..Len(p.given) : i < Len(p.given) => p.given[i] = Len(a.calls[i].args)
    /\ k # "responses" => p.whole = {}

Complete(a, p) ==
    /\ p.said = Len(a.text) /\ Len(p.given) = Len(a.calls)
    /\ \A i \in 1..Len(p.given) : p.given[i] = Len(a.calls[i].args) \/ i \in p.whole

Mark(u) == u.kind \in {"\n", "\r"}

(* A unit of the wire takes what has been told from p to n.                  *)
TellsText(a, p, u, n) ==
    /\ u.kind = "text" /\ p.given = <<>> /\ n.given = <<>> /\ n.whole = {}
    /\ p.said <= n.said /\ u.text = SubSeq(a.text, p.said + 1, n.said)
TellsBegin(a, k, p, u, n) ==
    /\ u.kind = "begin" /\ n.said = p.said /\ n.whole = p.whole
    /\ n.given = Append(p.given, Len(u.args)) /\ Len(p.given) < Len(a.calls)
    /\ u.name = a.calls[Len(p.given) + 1].name
    /\ \/ u.call = {Len(p.given) + 1} /\ u.args = <<>>
       \/ k = "openai" /\ u.call = {} /\ u.args = a.calls[Len(p.given) + 1].args
TellsArgs(a, k, p, u, n) ==
    /\ u.kind = "args" /\ n.said = p.said /\ n.whole = p.whole
    /\ \E i \in 1..Len(p.given) :
         /\ u.call = {i} /\ u.name = "" /\ i \notin p.whole
         /\ p.given[i] < Len(a.calls[i].args)
         /\ u.args = <<a.calls[i].args[p.given[i] + 1]>>
         /\ n.given = [p.given EXCEPT ![i] = @ + 1]
         /\ k = "anthropic" => i = Len(p.given)
TellsWhole(a, k, p, u, n) ==
    /\ k = "responses" /\ u.kind = "whole" /\ n.said = p.said /\ n.given = p.given
    /\ \E i \in 1..Len(p.given) :
         u.call = {i} /\ u.args = a.calls[i].args /\ n.whole = p.whole \cup {i}
Tells(a, k, p, u, n) ==
    \/ Mark(u) /\ n = p
    \/ TellsText(a, p, u, n) \/ TellsBegin(a, k, p, u, n)
    \/ TellsArgs(a, k, p, u, n) \/ TellsWhole(a, k, p, u, n)
    \/ u.kind = "end" /\ n = p /\ Complete(a, p)
    \/ u.kind = "error" /\ n = p

(* h is what has been told after each unit of b.                             *)
Chain(a, k, b, h) ==
    /\ h \in [0..Len(b) -> Prog]
    /\ \A i \in 0..Len(b) : Sound(a, k, h[i])
    /\ \A i \in 1..Len(b) : Tells(a, k, h[i - 1], b[i], h[i])

(* The units of b come in turns: an event, then the marks m of a blank line. *)
Turns(m, b) ==
    /\ b # <<>> => ~ Mark(b[1])
    /\ \A i \in 1..Len(b) : ~ Mark(b[i]) =>
         /\ \A j \in 1..Len(m) : i + j <= Len(b) => b[i + j] = m[j]
         /\ i + Len(m) + 1 <= Len(b) => ~ Mark(b[i + Len(m) + 1])
Entire(m, b) == b # <<>> => Len(b) > Len(m) /\ ~ Mark(b[Len(b) - Len(m)])

(* c is b and another turn; it is the beginning of b; it is b without its    *)
(* first turn.                                                               *)
Longer(m, b, e, c) ==
    /\ Len(c) = Len(b) + 1 + Len(m)
    /\ \A i \in 1..Len(b) : c[i] = b[i]
    /\ c[Len(b) + 1] = e
    /\ \A j \in 1..Len(m) : c[Len(b) + 1 + j] = m[j]
Shorter(b, c) == Len(c) <= Len(b) /\ \A i \in 1..Len(c) : c[i] = b[i]
Later(m, b, c) ==
    /\ Len(b) = Len(c) + 1 + Len(m)
    /\ \A i \in 1..Len(c) : c[i] = b[i + 1 + Len(m)]

Marks(m) == \A j \in 1..Len(m) : Mark(m[j])

LEMMA TurnsLonger ==
    ASSUME NEW T, NEW b \in Seq(T), NEW c \in Seq(T), NEW m \in Seq(T), NEW e,
           Turns(m, b), Entire(m, b), Longer(m, b, e, c), Marks(m), ~ Mark(e)
    PROVE  Turns(m, c) /\ Entire(m, c)
<1>1. Len(m) \in Nat /\ Len(b) \in Nat /\ Len(c) \in Nat
  OBVIOUS
<1>2. c # <<>> /\ ~ Mark(c[1])
  <2>1. CASE b = <<>>
    BY <1>1, <2>1 DEF Longer
  <2>2. CASE b # <<>>
    <3>1. Len(b) >= 1 /\ ~ Mark(b[1])
      BY <1>1, <2>2 DEF Turns
    <3>2. Len(c) >= 1 /\ c[1] = b[1]
      BY <1>1, <3>1 DEF Longer
    <3> QED
      BY <3>1, <3>2
  <2> QED
    BY <2>1, <2>2
<1>3. Entire(m, c)
  BY <1>1 DEF Entire, Longer
<1>4. ASSUME NEW i \in 1..Len(c), ~ Mark(c[i])
      PROVE  /\ \A j \in 1..Len(m) : i + j <= Len(c) => c[i + j] = m[j]
             /\ i + Len(m) + 1 <= Len(c) => ~ Mark(c[i + Len(m) + 1])
  <2>1. i = Len(b) + 1 \/ i <= Len(b)
    <3> SUFFICES ASSUME i > Len(b) + 1 PROVE FALSE
      BY <1>1
    <3>1. i - Len(b) - 1 \in 1..Len(m) /\ i = Len(b) + 1 + (i - Len(b) - 1)
      BY <1>1 DEF Longer
    <3> QED
      BY <1>4, <3>1 DEF Longer, Marks
  <2>2. CASE i = Len(b) + 1
    BY <1>1, <2>2 DEF Longer
  <2>3. CASE i <= Len(b)
    <3>1. i \in 1..Len(b) /\ ~ Mark(b[i]) /\ b # <<>>
      BY <1>1, <1>4, <2>3 DEF Longer
    <3>2. i + Len(m) <= Len(b)
      <4> SUFFICES ASSUME i + Len(m) > Len(b) PROVE FALSE
        BY <1>1
      <4>1. /\ Len(b) - Len(m) \in 1..Len(b) /\ ~ Mark(b[Len(b) - Len(m)])
            /\ i > Len(b) - Len(m)
        BY <1>1, <3>1 DEF Entire
      <4> DEFINE z == Len(b) - Len(m)
                 j == i - z
      <4>2. j \in 1..Len(m) /\ z + j = i /\ z + j <= Len(b)
        BY <1>1, <3>1, <4>1
      <4>m. \A y \in 1..Len(m) : z + y <= Len(b) => b[z + y] = m[y]
        BY <4>1 DEF Turns
      <4> HIDE DEF z, j
      <4>3. b[i] = m[j]
        BY <4>2, <4>m
      <4> QED
        BY <3>1, <4>2, <4>3 DEF Marks
    <3>3. \A j \in 1..Len(m) : i + j \in 1..Len(b) /\ b[i + j] = m[j]
      BY <1>1, <3>1, <3>2 DEF Turns
    <3>4. \A j \in 1..Len(m) : c[i + j] = m[j]
      BY <3>3 DEF Longer
    <3>5. i + Len(m) + 1 <= Len(b) => ~ Mark(c[i + Len(m) + 1])
      <4> SUFFICES ASSUME i + Len(m) + 1 <= Len(b) PROVE ~ Mark(c[i + Len(m) + 1])
        OBVIOUS
      <4>1. ~ Mark(b[i + Len(m) + 1])
        BY <3>1 DEF Turns
      <4>2. c[i + Len(m) + 1] = b[i + Len(m) + 1]
        BY <1>1, <3>1 DEF Longer
      <4> QED
        BY <4>1, <4>2
    <3>6. i + Len(m) + 1 > Len(b) => i + Len(m) + 1 = Len(b) + 1
      BY <1>1, <3>1, <3>2
    <3>7. ~ Mark(c[i + Len(m) + 1])
      BY <1>1, <3>1, <3>5, <3>6 DEF Longer
    <3> QED
      BY <3>4, <3>7
  <2> QED
    BY <2>1, <2>2, <2>3
<1> QED
  BY <1>2, <1>3, <1>4 DEF Turns

LEMMA TurnsShorter ==
    ASSUME NEW T, NEW b \in Seq(T), NEW c \in Seq(T), NEW m \in Seq(T),
           Turns(m, b), Shorter(b, c)
    PROVE  Turns(m, c)
<1>1. Len(m) \in Nat /\ Len(b) \in Nat /\ Len(c) \in Nat
  OBVIOUS
<1>2. c # <<>> => ~ Mark(c[1])
  BY <1>1 DEF Turns, Shorter
<1>3. ASSUME NEW i \in 1..Len(c), ~ Mark(c[i])
      PROVE  /\ \A j \in 1..Len(m) : i + j <= Len(c) => c[i + j] = m[j]
             /\ i + Len(m) + 1 <= Len(c) => ~ Mark(c[i + Len(m) + 1])
  <2>1. i \in 1..Len(b) /\ ~ Mark(b[i])
    BY <1>1, <1>3 DEF Shorter
  <2>2. /\ \A j \in 1..Len(m) : i + j <= Len(b) => b[i + j] = m[j]
        /\ i + Len(m) + 1 <= Len(b) => ~ Mark(b[i + Len(m) + 1])
    BY <2>1 DEF Turns
  <2> QED
    BY <1>1, <2>2 DEF Shorter
<1> QED
  BY <1>2, <1>3 DEF Turns

LEMMA TurnsLater ==
    ASSUME NEW T, NEW b \in Seq(T), NEW c \in Seq(T), NEW m \in Seq(T),
           Turns(m, b), Later(m, b, c), Marks(m)
    PROVE  Turns(m, c) /\ (Entire(m, b) => Entire(m, c))
<1>1. Len(m) \in Nat /\ Len(b) \in Nat /\ Len(c) \in Nat /\ Len(b) = Len(c) + 1 + Len(m)
  BY DEF Later
<1>2. c # <<>> => ~ Mark(c[1])
  <2> SUFFICES ASSUME c # <<>> PROVE ~ Mark(c[1])
    OBVIOUS
  <2>1. b # <<>> /\ ~ Mark(b[1]) /\ Len(c) >= 1
    BY <1>1 DEF Turns
  <2>2. ~ Mark(b[1 + Len(m) + 1])
    BY <1>1, <2>1 DEF Turns
  <2>3. c[1] = b[1 + 1 + Len(m)]
    BY <1>1, <2>1 DEF Later
  <2> QED
    BY <1>1, <2>2, <2>3
<1>3. ASSUME NEW i \in 1..Len(c), ~ Mark(c[i])
      PROVE  /\ \A j \in 1..Len(m) : i + j <= Len(c) => c[i + j] = m[j]
             /\ i + Len(m) + 1 <= Len(c) => ~ Mark(c[i + Len(m) + 1])
  <2> DEFINE z == i + 1 + Len(m)
  <2>1. z \in 1..Len(b) /\ ~ Mark(b[z])
    BY <1>1, <1>3 DEF Later
  <2>2. /\ \A j \in 1..Len(m) : z + j <= Len(b) => b[z + j] = m[j]
        /\ z + Len(m) + 1 <= Len(b) => ~ Mark(b[z + Len(m) + 1])
    BY <2>1 DEF Turns
  <2>3. ASSUME NEW j \in 1..Len(m), i + j <= Len(c) PROVE c[i + j] = m[j]
    <3>1. i + j \in 1..Len(c) /\ z + j <= Len(b) /\ i + j + 1 + Len(m) = z + j
      BY <1>1, <2>3
    <3>2. c[i + j] = b[i + j + 1 + Len(m)]
      BY <3>1 DEF Later
    <3> QED
      BY <2>2, <3>1, <3>2
  <2>4. ASSUME i + Len(m) + 1 <= Len(c) PROVE ~ Mark(c[i + Len(m) + 1])
    <3>1. /\ z \in 1..Len(c) /\ z + Len(m) + 1 <= Len(b) /\ z + 1 + Len(m) = z + Len(m) + 1
          /\ z = i + Len(m) + 1
      BY <1>1, <2>4
    <3>2. c[z] = b[z + 1 + Len(m)]
      BY <3>1 DEF Later
    <3> QED
      BY <2>2, <3>1, <3>2
  <2> QED
    BY <2>3, <2>4
<1>4. Entire(m, b) => Entire(m, c)
  <2> SUFFICES ASSUME Entire(m, b), c # <<>> PROVE Len(c) > Len(m) /\ ~ Mark(c[Len(c) - Len(m)])
    BY DEF Entire
  <2>1. ~ Mark(b[Len(b) - Len(m)]) /\ Len(b) - Len(m) = Len(c) + 1 /\ Len(c) >= 1 /\ ~ Mark(b[1])
    BY <1>1 DEF Entire, Turns
  <2>2. Len(c) > Len(m)
    <3> SUFFICES ASSUME Len(c) <= Len(m) PROVE FALSE
      BY <1>1
    <3>1. Len(c) \in 1..Len(m) /\ 1 + Len(c) <= Len(b) /\ 1 \in 1..Len(b)
      BY <1>1, <2>1
    <3>2. b[1 + Len(c)] = m[Len(c)]
      BY <2>1, <3>1 DEF Turns
    <3> QED
      BY <1>1, <2>1, <3>1, <3>2 DEF Marks
  <2>3. c[Len(c) - Len(m)] = b[Len(c) - Len(m) + 1 + Len(m)] /\ Len(c) - Len(m) + 1 + Len(m) = Len(c) + 1
    BY <1>1, <2>2 DEF Later
  <2> QED
    BY <2>1, <2>2, <2>3
<1> QED
  BY <1>2, <1>3, <1>4 DEF Turns

-----------------------------------------------------------------------------
(* The wire.                                                                 *)
Kinds == {"text", "begin", "args", "whole", "end", "error", "\n", "\r"}
Names == STRING \cup {""}
Unit == [kind : Kinds, text : Seq(STRING), call : SUBSET Nat, name : Names,
         args : Seq(STRING)]

LEMMA MarkUnits ==
    /\ Lf \in Unit /\ Cr \in Unit /\ Lf # Cr /\ Mark(Lf) /\ Mark(Cr)
    /\ <<Lf, Lf>> \in Seq(Unit) /\ <<Cr, Lf, Cr, Lf>> \in Seq(Unit)
<1>1. Lf \in Unit /\ Cr \in Unit
  <2>1. <<>> \in Seq(STRING) /\ {} \in SUBSET Nat /\ "" \in Names
    BY DEF Names
  <2>2. \A t \in Seq(STRING), c \in SUBSET Nat, n \in Names, k \in Kinds :
          Event(k, t, c, n, t) \in Unit
    BY DEF Event, Unit
  <2>3. "\n" \in Kinds /\ "\r" \in Kinds
    BY DEF Kinds
  <2> QED
    BY <2>1, <2>2, <2>3 DEF Lf, Cr, Plain
<1>2. Lf.kind = "\n" /\ Cr.kind = "\r"
  BY DEF Lf, Cr, Plain, Event
<1>3. Lf # Cr /\ Mark(Lf) /\ Mark(Cr)
  BY <1>2 DEF Mark
<1>4. <<Lf, Lf>> \in Seq(Unit) /\ <<Cr, Lf, Cr, Lf>> \in Seq(Unit)
  BY <1>1
<1> QED
  BY <1>1, <1>3, <1>4

LEMMA FoundTwo ==
    ASSUME NEW T, NEW b \in Seq(T), NEW x \in T, NEW y \in T, NEW i \in Nat
    PROVE  i \in Found(<<x, y>>, b) <=> i \in 1..Len(b) - 1 /\ b[i] = x /\ b[i + 1] = y
<1>1. Len(<<x, y>>) = 2
  OBVIOUS
<1>2. i \in Found(<<x, y>>, b) <=> i \in 1..Len(b) - 1 /\ SubSeq(b, i, i + 1) = <<x, y>>
  BY <1>1 DEF Found
<1>3. ASSUME i \in 1..Len(b) - 1
      PROVE  SubSeq(b, i, i + 1) = <<x, y>> <=> b[i] = x /\ b[i + 1] = y
  <2>1. /\ SubSeq(b, i, i + 1) \in Seq(T) /\ Len(SubSeq(b, i, i + 1)) = 2
        /\ SubSeq(b, i, i + 1)[1] = b[i] /\ SubSeq(b, i, i + 1)[2] = b[i + 1]
    <3>1. SubSeq(b, i, i + 1) \in Seq(T) /\ Len(SubSeq(b, i, i + 1)) = 2
      BY <1>3
    <3>2. \A j \in 1..2 : SubSeq(b, i, i + 1)[j] = b[j + i - 1]
      BY <1>3
    <3> QED
      BY <3>1, <3>2
  <2> DEFINE s == SubSeq(b, i, i + 1)
  <2> HIDE DEF s
  <2> DEFINE t == <<x, y>>
  <2>t. t \in Seq(T) /\ Len(t) = 2 /\ t[1] = x /\ t[2] = y
    OBVIOUS
  <2> HIDE DEF t
  <2>s. s \in Seq(T) /\ Len(s) = 2
    BY <2>1 DEF s
  <2>2. s = t <=> s[1] = x /\ s[2] = y
    BY <2>s, <2>t
  <2> QED
    BY <2>1, <2>2 DEF s, t
<1> QED
  BY <1>2, <1>3

LEMMA FoundFour ==
    ASSUME NEW T, NEW b \in Seq(T), NEW x \in T, NEW y \in T, NEW i \in Nat
    PROVE  i \in Found(<<x, y, x, y>>, b) <=>
             /\ i \in 1..Len(b) - 3
             /\ b[i] = x /\ b[i + 1] = y /\ b[i + 2] = x /\ b[i + 3] = y
<1>1. Len(<<x, y, x, y>>) = 4
  OBVIOUS
<1>2. i \in Found(<<x, y, x, y>>, b) <=>
        i \in 1..Len(b) - 3 /\ SubSeq(b, i, i + 3) = <<x, y, x, y>>
  BY <1>1 DEF Found
<1>3. ASSUME i \in 1..Len(b) - 3
      PROVE  SubSeq(b, i, i + 3) = <<x, y, x, y>> <=>
               b[i] = x /\ b[i + 1] = y /\ b[i + 2] = x /\ b[i + 3] = y
  <2>1. /\ SubSeq(b, i, i + 3) \in Seq(T) /\ Len(SubSeq(b, i, i + 3)) = 4
        /\ SubSeq(b, i, i + 3)[1] = b[i] /\ SubSeq(b, i, i + 3)[2] = b[i + 1]
        /\ SubSeq(b, i, i + 3)[3] = b[i + 2] /\ SubSeq(b, i, i + 3)[4] = b[i + 3]
    BY <1>3
  <2> DEFINE s == SubSeq(b, i, i + 3)
  <2> HIDE DEF s
  <2> DEFINE t == <<x, y, x, y>>
  <2>t. t \in Seq(T) /\ Len(t) = 4 /\ t[1] = x /\ t[2] = y /\ t[3] = x /\ t[4] = y
    OBVIOUS
  <2> HIDE DEF t
  <2>s. s \in Seq(T) /\ Len(s) = 4
    BY <2>1 DEF s
  <2>2. s = t <=> s[1] = x /\ s[2] = y /\ s[3] = x /\ s[4] = y
    <3>1. s[1] = x /\ s[2] = y /\ s[3] = x /\ s[4] = y => \A j \in 1..4 : s[j] = t[j]
      BY <2>t
    <3> QED
      BY <2>s, <2>t, <3>1
  <2> QED
    BY <2>1, <2>2 DEF s, t
<1> QED
  BY <1>2, <1>3

(* A blank line is found after the first event, once all of it has come.     *)
LEMMA EndsAt ==
    ASSUME NEW b \in Seq(Unit), Turns(Blank, b), server.blank \in {"\n", "\r\n"},
           backend = "anthropic" => server.blank = "\n"
    PROVE  /\ Ends(b) # {} <=> Len(b) > Len(Blank)
           /\ Ends(b) # {} =>
                Min(Ends(b)) = 2 /\ 2 + (IF b[2] = Lf THEN 2 ELSE 4) = Len(Blank) + 2
           /\ Marks(Blank) /\ Blank \in Seq(Unit)
<1> DEFINE two  == Found(<<Lf, Lf>>, b)
           four == Found(<<Cr, Lf, Cr, Lf>>, b)
<1>1. \A i \in Nat : i \in two <=> i \in 1..Len(b) - 1 /\ b[i] = Lf /\ b[i + 1] = Lf
  BY FoundTwo, MarkUnits, b \in Seq(Unit)
<1>2. \A i \in Nat : i \in four <=>
        i \in 1..Len(b) - 3 /\ b[i] = Cr /\ b[i + 1] = Lf /\ b[i + 2] = Cr /\ b[i + 3] = Lf
  BY FoundFour, MarkUnits, b \in Seq(Unit)
<1>3. two \in SUBSET Nat /\ four \in SUBSET Nat
  BY DEF Found
<1>4. Ends(b) = two \/ Ends(b) = two \cup four
  BY DEF Ends
<1>5. backend # "anthropic" => Ends(b) = two \cup four
  BY DEF Ends
<1> HIDE DEF two, four
<1>6. Len(b) \in Nat /\ (Len(b) >= 1 => b[1] # Lf /\ b[1] # Cr /\ ~ Mark(b[1]))
  BY MarkUnits DEF Turns
<1>7. 1 \notin two /\ 1 \notin four
  BY <1>1, <1>2, <1>6
<1>8. CASE server.blank = "\n"
  <2>1. Blank = <<Lf, Lf>> /\ Len(Blank) = 2 /\ Blank[1] = Lf /\ Blank[2] = Lf
    BY <1>8 DEF Blank
  <2>2. Marks(Blank) /\ Blank \in Seq(Unit)
    BY <2>1, MarkUnits DEF Marks
  <2>3. ASSUME Len(b) > 2 PROVE 2 \in two /\ b[2] = Lf
    <3>1. b[1 + 1] = Lf /\ b[1 + 2] = Lf
      BY <1>6, <2>1, <2>3 DEF Turns
    <3> QED
      BY <1>1, <2>3, <3>1
  <2>4. \A i \in two \cup four : i >= 2 /\ Len(b) > 2
    BY <1>1, <1>2, <1>3, <1>6, <1>7
  <2>5. Ends(b) # {} <=> Len(b) > 2
    BY <1>4, <2>3, <2>4
  <2>6. Len(b) > 2 => Min(Ends(b)) = 2
    <3> SUFFICES ASSUME Len(b) > 2 PROVE Min(Ends(b)) = 2
      OBVIOUS
    <3>1. 2 \in Ends(b) /\ Ends(b) \in SUBSET Nat /\ \A i \in Ends(b) : 2 <= i
      BY <1>3, <1>4, <2>3, <2>4
    <3> QED
      BY <3>1, MinIs, Zenon
  <2> QED
    BY <2>1, <2>2, <2>3, <2>5, <2>6
<1>9. CASE server.blank = "\r\n"
  <2>1. /\ Blank = <<Cr, Lf, Cr, Lf>> /\ Len(Blank) = 4 /\ Blank[1] = Cr /\ Blank[2] = Lf
        /\ Blank[3] = Cr /\ Blank[4] = Lf
    BY <1>9 DEF Blank
  <2>2. Marks(Blank) /\ Blank \in Seq(Unit)
    BY <2>1, MarkUnits DEF Marks
  <2>3. \A j \in 1..4 : Len(b) >= 1 /\ 1 + j <= Len(b) => b[1 + j] = Blank[j]
    <3> SUFFICES ASSUME NEW j \in 1..4, 1 + j <= Len(b) PROVE b[1 + j] = Blank[j]
      OBVIOUS
    <3>1. 1 \in 1..Len(b) /\ ~ Mark(b[1])
      BY <1>6
    <3> QED
      BY <2>1, <3>1 DEF Turns
  <2>4. /\ Len(b) >= 2 => b[2] = Cr
        /\ Len(b) >= 3 => b[3] = Lf
        /\ Len(b) >= 4 => b[4] = Cr
        /\ Len(b) >= 5 => b[5] = Lf
    BY <1>6, <2>1, <2>3
  <2>5. Len(b) > 4 => 2 \in four /\ b[2] # Lf
    BY <1>2, <1>6, <2>4, MarkUnits
  <2>6. \A i \in two \cup four : i >= 2 /\ Len(b) > 4
    <3> TAKE i \in two \cup four
    <3>1. i \in Nat /\ i # 1 /\ i >= 1
      BY <1>1, <1>2, <1>3, <1>7
    <3>2. CASE i \in four
      BY <1>2, <1>6, <3>1, <3>2
    <3>3. CASE i \in two
      <4>1. i \in 2..Len(b) - 1 /\ b[i] = Lf /\ b[i + 1] = Lf
        BY <1>1, <3>1, <3>3
      <4>2. i # 2 /\ i # 3
        BY <1>6, <2>4, <4>1, MarkUnits
      <4> QED
        BY <1>6, <4>1, <4>2
    <3> QED
      BY <3>2, <3>3
  <2>7. Ends(b) = two \cup four
    BY <1>5, <1>9
  <2>8. Len(b) > 4 => Min(Ends(b)) = 2
    <3> SUFFICES ASSUME Len(b) > 4 PROVE Min(Ends(b)) = 2
      OBVIOUS
    <3>1. 2 \in Ends(b) /\ Ends(b) \in SUBSET Nat /\ \A i \in Ends(b) : 2 <= i
      BY <1>3, <2>5, <2>6, <2>7
    <3> QED
      BY <3>1, MinIs, Zenon
  <2>9. Ends(b) # {} <=> Len(b) > 4
    BY <2>5, <2>6, <2>7
  <2> QED
    BY <2>1, <2>2, <2>5, <2>8, <2>9
<1> QED
  BY <1>8, <1>9

-----------------------------------------------------------------------------
(* What has been told along the wire, as the wire grows, is cut and is read. *)
LEMMA MarkTellsNothing ==
    ASSUME NEW a, NEW k, NEW p, NEW u, NEW n, Mark(u)
    PROVE  Tells(a, k, p, u, n) <=> n = p
BY DEF Mark, Tells, TellsText, TellsBegin, TellsArgs, TellsWhole

LEMMA ChainLonger ==
    ASSUME NEW a, NEW k, NEW b \in Seq(Unit), NEW c \in Seq(Unit), NEW m \in Seq(Unit),
           NEW e, Marks(m), Longer(m, b, e, c),
           NEW h, Chain(a, k, b, h), NEW n, Sound(a, k, n), Tells(a, k, h[Len(b)], e, n)
    PROVE  \E g : Chain(a, k, c, g) /\ g[0] = h[0] /\ g[Len(c)] = n
<1> DEFINE g == [i \in 0..Len(c) |-> IF i <= Len(b) THEN h[i] ELSE n]
<1>1. Len(b) \in Nat /\ Len(m) \in Nat /\ Len(c) \in Nat /\ Len(c) = Len(b) + 1 + Len(m)
  BY DEF Longer
<1>2. \A i \in 0..Len(c) : g[i] = IF i <= Len(b) THEN h[i] ELSE n
  OBVIOUS
<1>3. \A i \in 0..Len(c) : Sound(a, k, g[i])
  BY <1>1, <1>2 DEF Chain
<1>4. g \in [0..Len(c) -> Prog]
  BY <1>3 DEF Sound
<1>5. g[0] = h[0] /\ g[Len(c)] = n
  BY <1>1, <1>2
<1> HIDE DEF g
<1>6. ASSUME NEW i \in 1..Len(c) PROVE Tells(a, k, g[i - 1], c[i], g[i])
  <2>1. CASE i <= Len(b)
    BY <1>1, <1>2, <2>1, SMTT(30) DEF Chain, Longer
  <2>2. CASE i = Len(b) + 1
    <3>1. g[i - 1] = h[Len(b)] /\ g[i] = n /\ c[i] = e
      BY <1>1, <1>2, <2>2 DEF Longer
    <3> QED
      BY <3>1
  <2>3. CASE i > Len(b) + 1
    <3>1. i - Len(b) - 1 \in 1..Len(m) /\ i = Len(b) + 1 + (i - Len(b) - 1)
      BY <1>1, <2>3
    <3>2. Mark(c[i])
      BY <3>1 DEF Longer, Marks
    <3>3. g[i - 1] = n /\ g[i] = n
      BY <1>1, <1>2, <2>3, SMTT(30)
    <3> QED
      BY <3>2, <3>3 DEF Tells
  <2> QED
    BY <1>1, <2>1, <2>2, <2>3
<1> QED
  BY <1>3, <1>4, <1>5, <1>6 DEF Chain

LEMMA ChainShorter ==
    ASSUME NEW a, NEW k, NEW b \in Seq(Unit), NEW c \in Seq(Unit), Shorter(b, c),
           NEW h, Chain(a, k, b, h)
    PROVE  \E g : Chain(a, k, c, g) /\ g[0] = h[0]
<1> DEFINE g == [i \in 0..Len(c) |-> h[i]]
<1>1. Len(b) \in Nat /\ Len(c) \in Nat /\ Len(c) <= Len(b)
  BY DEF Shorter
<1>2. \A i \in 0..Len(c) : g[i] = h[i] /\ Sound(a, k, g[i])
  BY <1>1 DEF Chain
<1>3. g \in [0..Len(c) -> Prog] /\ g[0] = h[0]
  BY <1>1, <1>2 DEF Sound
<1> HIDE DEF g
<1>4. \A i \in 1..Len(c) : Tells(a, k, g[i - 1], c[i], g[i])
  BY <1>1, <1>2 DEF Chain, Shorter
<1> QED
  BY <1>2, <1>3, <1>4 DEF Chain

LEMMA ChainLater ==
    ASSUME NEW a, NEW k, NEW b \in Seq(Unit), NEW c \in Seq(Unit), NEW m \in Seq(Unit),
           Marks(m), Len(m) \in {2, 4}, Turns(m, b), Later(m, b, c),
           NEW h, Chain(a, k, b, h)
    PROVE  \E g : /\ Chain(a, k, c, g) /\ g[0] = h[1] /\ g[Len(c)] = h[Len(b)]
                  /\ Sound(a, k, h[0]) /\ Sound(a, k, h[1]) /\ Tells(a, k, h[0], b[1], h[1])
<1> DEFINE z == 1 + Len(m)
           g == [i \in 0..Len(c) |-> h[i + z]]
<1>1. /\ z \in {3, 5} /\ Len(b) \in Nat /\ Len(c) \in Nat /\ Len(b) = Len(c) + z
      /\ \A i \in 1..Len(c) : c[i] = b[i + z]
  <2>1. Len(b) \in Nat /\ Len(c) \in Nat /\ Len(b) = Len(c) + z
    BY DEF Later
  <2>2. \A i \in 1..Len(c) : i + 1 + Len(m) = i + z
    OBVIOUS
  <2>3. \A i \in 1..Len(c) : c[i] = b[i + z]
    BY <2>2 DEF Later
  <2>4. z \in {3, 5}
    <3>1. CASE Len(m) = 2
      BY <3>1
    <3>2. CASE Len(m) = 4
      BY <3>2
    <3> QED
      BY <3>1, <3>2
  <2> HIDE DEF z
  <2> QED
    BY <2>1, <2>3, <2>4
<1>2. \A i \in 0..Len(c) : g[i] = h[i + z] /\ Sound(a, k, g[i])
  BY <1>1 DEF Chain
<1>3. g \in [0..Len(c) -> Prog] /\ g[Len(c)] = h[Len(b)] /\ g[0] = h[z]
  <2>1. Len(c) + z = Len(b) /\ 0 + z = z /\ 0 \in 0..Len(c) /\ Len(c) \in 0..Len(c)
    BY <1>1
  <2> QED
    BY <1>2, <2>1 DEF Sound
<1>4. \A j \in 1..Len(m) : Mark(b[1 + j])
  <2>1. 1 \in 1..Len(b) /\ ~ Mark(b[1])
    BY <1>1 DEF Turns
  <2>2. \A j \in 1..Len(m) : 1 + j <= Len(b)
    BY <1>1
  <2> QED
    BY <2>1, <2>2 DEF Turns, Marks
<1>5. \A j \in 1..Len(m) : h[1 + j] = h[j]
  <2> TAKE j \in 1..Len(m)
  <2>1. 1 + j \in 1..Len(b) /\ (1 + j) - 1 = j
    BY <1>1
  <2> QED
    BY <1>4, <2>1, MarkTellsNothing DEF Chain
<1>6. h[z] = h[1]
  <2>1. CASE Len(m) = 2
    BY <1>5, <2>1
  <2>2. CASE Len(m) = 4
    BY <1>5, <2>2
  <2> QED
    BY <2>1, <2>2
<1> HIDE DEF g
<1>7. ASSUME NEW i \in 1..Len(c) PROVE Tells(a, k, g[i - 1], c[i], g[i])
  <2>1. i + z \in 1..Len(b) /\ (i + z) - 1 = (i - 1) + z /\ i - 1 \in 0..Len(c)
    BY <1>1
  <2>2. Tells(a, k, h[(i + z) - 1], b[i + z], h[i + z])
    BY <2>1 DEF Chain
  <2> HIDE DEF z
  <2> QED
    BY <1>1, <1>2, <2>1, <2>2
<1>8. Sound(a, k, h[0]) /\ Sound(a, k, h[1]) /\ Tells(a, k, h[0], b[1], h[1])
  <2>1. 0 \in 0..Len(b) /\ 1 \in 1..Len(b) /\ 1 \in 0..Len(b) /\ 1 - 1 = 0
    BY <1>1
  <2> QED
    BY <2>1 DEF Chain
<1> QED
  BY <1>2, <1>3, <1>6, <1>7, <1>8 DEF Chain

-----------------------------------------------------------------------------
(* The queue.  From what has been told follow the reader's calls; a message  *)
(* takes what the agent knows from p to n, of the calls only where the       *)
(* reader sends them one by one.                                             *)
Tool    == [name : Names, args : Seq(STRING)]
CallNow == [index : Nat, name : Names, args : Seq(STRING)]
Msg     == [kind : {"text", "calls", "done", "error"}, text : Seq(STRING),
            calls : Seq(CallNow)]

ToolAt(a, p, i) ==
    [name |-> a.calls[i].name,
     args |-> IF i \in p.whole THEN a.calls[i].args
              ELSE SubSeq(a.calls[i].args, 1, p.given[i])]
Tools(a, p)    == [i \in 1..Len(p.given) |-> ToolAt(a, p, i)]
AsCalls(tools) == [i \in 1..Len(tools) |-> Numbered(i, tools[i])]

BringsText(a, p, x, n) ==
    /\ x.kind = "text" /\ p.given = <<>> /\ n.given = <<>> /\ n.whole = {}
    /\ p.said <= n.said /\ x.text = SubSeq(a.text, p.said + 1, n.said)
BringsCall(a, k, p, x, n) ==
    /\ x.kind = "calls" /\ k = "openai" /\ n.said = p.said
    /\ \E j \in 1..Len(n.given) :
         /\ x.calls = <<Numbered(j, ToolAt(a, n, j))>>
         /\ \/ Len(p.given) = Len(n.given)
            \/ Len(p.given) + 1 = Len(n.given) /\ j = Len(n.given)
         /\ \A i \in 1..Len(n.given) : i # j => ToolAt(a, n, i) = ToolAt(a, p, i)
Brings(a, k, p, x, n) ==
    \/ BringsText(a, p, x, n) \/ BringsCall(a, k, p, x, n)
    \/ x.kind \in {"done", "error"} /\ n = p

Course(a, k, s, f) ==
    /\ f \in [0..Len(s) -> Prog]
    /\ \A i \in 0..Len(s) : Sound(a, k, f[i])
    /\ \A i \in 1..Len(s) : Brings(a, k, f[i - 1], s[i], f[i])
    /\ k # "openai" => \A i \in 0..Len(s) : f[i].given = <<>>

LEMMA CourseLonger ==
    ASSUME NEW a, NEW k, NEW s \in Seq(Msg), NEW x \in Msg, NEW f, Course(a, k, s, f),
           NEW n, Sound(a, k, n), Brings(a, k, f[Len(s)], x, n),
           k # "openai" => n.given = <<>>
    PROVE  \E g : /\ Course(a, k, Append(s, x), g) /\ g[0] = f[0]
                  /\ g[Len(Append(s, x))] = n
<1> DEFINE t == Append(s, x)
           g == [i \in 0..Len(t) |-> IF i <= Len(s) THEN f[i] ELSE n]
<1>1. /\ Len(s) \in Nat /\ Len(t) = Len(s) + 1 /\ t[Len(t)] = x
      /\ \A i \in 1..Len(s) : t[i] = s[i]
  OBVIOUS
<1> HIDE DEF t
<1>2. \A i \in 0..Len(t) : g[i] = IF i <= Len(s) THEN f[i] ELSE n
  OBVIOUS
<1>3. \A i \in 0..Len(t) : Sound(a, k, g[i])
  BY <1>1, <1>2 DEF Course
<1>4. g \in [0..Len(t) -> Prog]
  BY <1>3 DEF Sound
<1>5. g[0] = f[0] /\ g[Len(t)] = n
  BY <1>1, <1>2
<1> HIDE DEF g
<1>6. \A i \in 1..Len(t) : Brings(a, k, g[i - 1], t[i], g[i])
  <2> TAKE i \in 1..Len(t)
  <2>1. CASE i <= Len(s)
    <3>1. i \in 1..Len(s) /\ g[i - 1] = f[i - 1] /\ g[i] = f[i] /\ t[i] = s[i]
      BY <1>1, <1>2, <2>1
    <3> QED
      BY <3>1 DEF Course
  <2>2. CASE i = Len(s) + 1
    BY <1>1, <1>2, <2>2
  <2> QED
    BY <1>1, <2>1, <2>2
<1>c. k # "openai" => \A i \in 0..Len(t) : g[i].given = <<>>
  <2> SUFFICES ASSUME k # "openai", NEW i \in 0..Len(t) PROVE g[i].given = <<>>
    OBVIOUS
  <2>1. CASE i <= Len(s)
    <3>1. i \in 0..Len(s) /\ g[i] = f[i]
      BY <1>1, <1>2, <2>1
    <3> QED
      BY <3>1 DEF Course
  <2>2. CASE i > Len(s)
    BY <1>2, <2>2
  <2> QED
    BY <1>1, <2>1, <2>2
<1>7. Course(a, k, t, g)
  BY <1>3, <1>4, <1>6, <1>c DEF Course
<1> QED
  BY <1>5, <1>7 DEF t

LEMMA CourseLater ==
    ASSUME NEW a, NEW k, NEW s \in Seq(Msg), s # <<>>, NEW f, Course(a, k, s, f)
    PROVE  \E g : /\ Course(a, k, Tail(s), g) /\ g[0] = f[1] /\ g[Len(Tail(s))] = f[Len(s)]
                  /\ Sound(a, k, f[0]) /\ Sound(a, k, f[1])
                  /\ Brings(a, k, f[0], Head(s), f[1])
<1> DEFINE t == Tail(s)
           g == [i \in 0..Len(t) |-> f[i + 1]]
<1>1. /\ Len(s) \in Nat /\ Len(t) = Len(s) - 1 /\ Len(s) >= 1 /\ Head(s) = s[1]
      /\ \A i \in 1..Len(t) : t[i] = s[i + 1]
  OBVIOUS
<1> HIDE DEF t
<1>2. \A i \in 0..Len(t) : g[i] = f[i + 1] /\ Sound(a, k, g[i])
  BY <1>1 DEF Course
<1>3. g \in [0..Len(t) -> Prog] /\ g[0] = f[1] /\ g[Len(t)] = f[Len(s)]
  BY <1>1, <1>2 DEF Sound
<1> HIDE DEF g
<1>4. \A i \in 1..Len(t) : Brings(a, k, g[i - 1], t[i], g[i])
  <2> TAKE i \in 1..Len(t)
  <2>1. /\ i + 1 \in 1..Len(s) /\ g[i - 1] = f[i] /\ g[i] = f[i + 1] /\ t[i] = s[i + 1]
        /\ (i + 1) - 1 = i
    BY <1>1, <1>2, SMTT(30)
  <2> QED
    BY <2>1 DEF Course
<1>5. Sound(a, k, f[0]) /\ Sound(a, k, f[1]) /\ Brings(a, k, f[0], s[1], f[1])
  <2>1. 0 \in 0..Len(s) /\ 1 \in 1..Len(s) /\ 1 \in 0..Len(s) /\ 1 - 1 = 0
    BY <1>1
  <2> QED
    BY <2>1 DEF Course
<1>c. k # "openai" => \A i \in 0..Len(t) : g[i].given = <<>>
  BY <1>1, <1>2 DEF Course
<1>6. Course(a, k, t, g)
  BY <1>2, <1>3, <1>4, <1>c DEF Course
<1> QED
  BY <1>1, <1>3, <1>5, <1>6 DEF t

-----------------------------------------------------------------------------
(* The invariant.                                                            *)
Line    == buffer \o wire
AllSaid == [said |-> server.said, given |-> server.given, whole |-> server.whole]
Going   == server.ends \in {"no", "whole", "error"}

Ending == {"no", "whole", "error", "closed", "broken"}
Server == [said : Nat, given : Seq(Nat), whole : SUBSET Nat, ends : Ending,
           blank : {"\n", "\r\n"}]

Thought == {t \in Seq(STRING) : Len(t) <= Hold}
Locals == [pc : {"listening", "over", "left"}, opening : BOOLEAN,
           prefix : Seq(STRING), thinking : BOOLEAN, thought : Thought,
           white : Seq(STRING), started : BOOLEAN, content : Seq(STRING),
           calls : Seq(CallNow), error : BOOLEAN]

Types ==
    /\ backend \in Backends /\ answer \in Answers
    /\ server \in Server /\ (backend = "anthropic" => server.blank = "\n")
    /\ wire \in Seq(Unit) /\ buffer \in Seq(Unit)
    /\ reader \in [pc : {"reading", "over"}, tools : Seq(Tool), current : SUBSET Nat]
    /\ queue \in Seq(Msg)
    /\ agent \in Locals
    /\ heard \in Seq(STRING) /\ ran \in Seq(CallNow)

Wired ==
    /\ Turns(Blank, Line) /\ (Going => Entire(Blank, Line))
    /\ \A i \in 1..Len(Line) : /\ Line[i].kind = "end" => server.ends = "whole"
                               /\ Line[i].kind = "error" => server.ends = "error"
    /\ server.ends \in {"whole", "error"} /\ reader.pc = "reading" =>
         /\ Line # <<>>
         /\ Line[Len(Line) - Len(Blank)].kind =
              IF server.ends = "whole" THEN "end" ELSE "error"
    /\ reader.pc = "over" /\ agent.pc # "left" => server.ends # "no"

Bad  == \/ server.ends \in {"error", "broken"}
        \/ server.ends = "closed" /\ backend = "anthropic"
Good == \/ server.ends = "whole"
        \/ server.ends = "closed" /\ backend # "anthropic"

Verdicts ==
    /\ \A i \in 1..Len(queue) : queue[i].kind = "done" =>
         Good /\ reader.pc = "over" /\ i = Len(queue) /\ queue[i].calls = AsCalls(reader.tools)
    /\ \A i \in 1..Len(queue) : queue[i].kind = "error" =>
         Bad /\ reader.pc = "over" /\ i = Len(queue)
    /\ agent.pc = "over" => IF agent.error THEN Bad ELSE Good
    /\ agent.pc # "over" => ~ agent.error

ToldOnWire(h) ==
    /\ Chain(answer, backend, Line, h)
    /\ Going => h[Len(Line)] = AllSaid
    /\ reader.tools = Tools(answer, h[0])
    /\ reader.current = IF backend = "anthropic" /\ reader.tools # <<>>
                          THEN {Len(reader.tools)} ELSE {}
    /\ reader.pc = "over" /\ server.ends = "whole" /\ agent.pc # "left" =>
         Complete(answer, h[0])
ToldInQueue(h, f) ==
    /\ Course(answer, backend, queue, f)
    /\ f[Len(queue)].said = h[0].said
    /\ backend = "openai" => f[Len(queue)] = h[0]
    /\ agent.pc = "listening" =>
         heard = SubSeq(answer.text, 1, f[0].said) /\ agent.calls = AsCalls(Tools(answer, f[0]))
AllTold == \E h, f : ToldOnWire(h) /\ ToldInQueue(h, f)

Inv == /\ Types /\ Sound(answer, backend, AllSaid)
       /\ Wired /\ Verdicts /\ AllTold /\ RunAsAsked

-----------------------------------------------------------------------------
(* The server writes an event.                                               *)
Told(s) == [said |-> s.said, given |-> s.given, whole |-> s.whole]
Writing(e, s) ==
    /\ e \in Unit /\ ~ Mark(e) /\ s \in Server /\ s.blank = server.blank
    /\ Write(e, s)
    /\ s.ends \in {"no", "whole", "error"}
    /\ (e.kind = "end" <=> s.ends = "whole") /\ (e.kind = "error" <=> s.ends = "error")
    /\ Sound(answer, backend, Told(s)) /\ Tells(answer, backend, AllSaid, e, Told(s))

LEMMA BlankIs ==
    ASSUME server.blank \in {"\n", "\r\n"}
    PROVE  Marks(Blank) /\ Blank \in Seq(Unit) /\ Len(Blank) \in {2, 4}
<1>1. CASE server.blank = "\n"
  <2>1. Blank = <<Lf, Lf>> /\ Len(Blank) = 2 /\ Blank[1] = Lf /\ Blank[2] = Lf
    BY <1>1 DEF Blank
  <2> QED
    BY <2>1, MarkUnits DEF Marks
<1>2. CASE server.blank = "\r\n"
  <2>1. /\ Blank = <<Cr, Lf, Cr, Lf>> /\ Len(Blank) = 4 /\ Blank[1] = Cr /\ Blank[2] = Lf
        /\ Blank[3] = Cr /\ Blank[4] = Lf
    BY <1>2 DEF Blank
  <2> QED
    BY <2>1, MarkUnits DEF Marks
<1> QED
  BY <1>1, <1>2

LEMMA CatLonger ==
    ASSUME NEW b \in Seq(Unit), NEW w \in Seq(Unit), NEW m \in Seq(Unit), NEW e \in Unit
    PROVE  /\ w \o <<e>> \o m \in Seq(Unit)
           /\ Longer(m, b \o w, e, b \o (w \o <<e>> \o m))
<1> DEFINE we == w \o <<e>>
<1>1. /\ we \in Seq(Unit) /\ Len(we) = Len(w) + 1 /\ we[Len(w) + 1] = e
      /\ \A i \in 1..Len(w) : we[i] = w[i]
  OBVIOUS
<1> HIDE DEF we
<1> DEFINE wm == we \o m
<1>2. /\ wm \in Seq(Unit) /\ Len(wm) = Len(we) + Len(m)
      /\ \A i \in 1..Len(we) : wm[i] = we[i]
      /\ \A i \in 1..Len(m) : wm[Len(we) + i] = m[i]
  <2>1. we \in Seq(Unit)
    BY <1>1
  <2>2. /\ we \o m \in Seq(Unit) /\ Len(we \o m) = Len(we) + Len(m)
        /\ \A i \in 1..Len(we) : (we \o m)[i] = we[i]
        /\ \A i \in 1..Len(m) : (we \o m)[Len(we) + i] = m[i]
        /\ \A i \in Len(we) + 1..Len(we) + Len(m) : (we \o m)[i] = m[i - Len(we)]
    BY <2>1, CatIs, Zenon
  <2> QED
    BY <2>2
<1> HIDE DEF wm
<1> DEFINE bw == b \o w
           c  == b \o wm
<1>3. /\ bw \in Seq(Unit) /\ Len(bw) = Len(b) + Len(w)
      /\ \A i \in 1..Len(b) : bw[i] = b[i]
      /\ \A i \in Len(b) + 1..Len(b) + Len(w) : bw[i] = w[i - Len(b)]
  OBVIOUS
<1>4. /\ c \in Seq(Unit) /\ Len(c) = Len(b) + Len(wm)
      /\ \A i \in 1..Len(b) : c[i] = b[i]
      /\ \A i \in 1..Len(wm) : c[Len(b) + i] = wm[i]
  <2>1. wm \in Seq(Unit)
    BY <1>2
  <2>2. /\ b \o wm \in Seq(Unit) /\ Len(b \o wm) = Len(b) + Len(wm)
        /\ \A i \in 1..Len(b) : (b \o wm)[i] = b[i]
        /\ \A i \in 1..Len(wm) : (b \o wm)[Len(b) + i] = wm[i]
        /\ \A i \in Len(b) + 1..Len(b) + Len(wm) : (b \o wm)[i] = wm[i - Len(b)]
    BY <2>1, CatIs, Zenon
  <2> QED
    BY <2>2
<1> HIDE DEF bw, c
<1>5. Len(b) \in Nat /\ Len(w) \in Nat /\ Len(m) \in Nat
  OBVIOUS
<1>6. Len(c) = Len(bw) + 1 + Len(m)
  BY <1>1, <1>2, <1>3, <1>4, <1>5
<1>7. \A i \in 1..Len(bw) : c[i] = bw[i]
  <2> TAKE i \in 1..Len(bw)
  <2>1. CASE i <= Len(b)
    BY <1>3, <1>4, <1>5, <2>1
  <2>2. CASE i > Len(b)
    <3> DEFINE j == i - Len(b)
    <3>1. j \in 1..Len(w) /\ j \in 1..Len(we) /\ j \in 1..Len(wm) /\ Len(b) + j = i
      BY <1>1, <1>2, <1>3, <1>5, <2>2
    <3>2. bw[i] = w[j]
      BY <1>3, <1>5, <2>2
    <3> HIDE DEF j
    <3>3. c[Len(b) + j] = wm[j] /\ wm[j] = we[j] /\ we[j] = w[j]
      BY <1>1, <1>2, <1>4, <3>1
    <3> QED
      BY <3>1, <3>2, <3>3
  <2> QED
    BY <1>3, <1>5, <2>1, <2>2
<1>8. c[Len(bw) + 1] = e
  <2>1. Len(bw) + 1 = Len(b) + (Len(w) + 1) /\ Len(w) + 1 \in 1..Len(we) /\ Len(w) + 1 \in 1..Len(wm)
    BY <1>1, <1>2, <1>3, <1>5
  <2> QED
    BY <1>1, <1>2, <1>4, <2>1
<1>9. \A j \in 1..Len(m) : c[Len(bw) + 1 + j] = m[j]
  <2> TAKE j \in 1..Len(m)
  <2>1. Len(bw) + 1 + j = Len(b) + (Len(we) + j) /\ Len(we) + j \in 1..Len(wm)
    BY <1>1, <1>2, <1>3, <1>5
  <2> QED
    BY <1>2, <1>4, <2>1
<1>10. Longer(m, bw, e, c) /\ wm \in Seq(Unit)
  BY <1>2, <1>6, <1>7, <1>8, <1>9 DEF Longer
<1> QED
  BY <1>10 DEF bw, c, wm, we

LEMMA LineIs ==
    ASSUME Types
    PROVE  Line \in Seq(Unit) /\ Len(Line) \in Nat
BY DEF Types, Line

LEMMA Wrote ==
    ASSUME Inv, NEW e, NEW s, Writing(e, s)
    PROVE  Inv'
<1> DEFINE m == Blank
<1>1. /\ Types /\ wire \in Seq(Unit) /\ buffer \in Seq(Unit) /\ Line \in Seq(Unit)
      /\ server.blank \in {"\n", "\r\n"} /\ e \in Unit /\ ~ Mark(e)
  BY LineIs DEF Inv, Types, Writing, Server
<1>2. /\ Marks(m) /\ m \in Seq(Unit) /\ Len(m) \in {2, 4}
  BY <1>1, BlankIs
<1>3. /\ server.ends = "no" /\ wire' = wire \o <<e>> \o Blank /\ server' = s
      /\ UNCHANGED <<backend, answer, Reader, Agent>>
  BY DEF Writing, Write
<1>4. UNCHANGED <<backend, answer, buffer, reader, queue, agent, shown, heard, ran>>
  BY <1>3 DEF Reader, Agent
<1>5. Blank' = Blank
  BY <1>3 DEF Writing, Blank
<1>6. wire' \in Seq(Unit) /\ Longer(m, Line, e, Line') /\ Line' \in Seq(Unit)
  <2>1. wire' \in Seq(Unit) /\ Longer(m, Line, e, Line')
    BY <1>1, <1>2, <1>3, <1>4, CatLonger DEF Line
  <2> QED
    BY <1>1, <1>4, <2>1 DEF Line
<1>7. Types'
  BY <1>1, <1>3, <1>4, <1>6 DEF Types, Writing
<1>8. Sound(answer, backend, AllSaid)' /\ AllSaid' = Told(s)
  <2>1. AllSaid' = Told(s)
    BY <1>3 DEF AllSaid, Told
  <2> QED
    BY <1>4, <2>1 DEF Writing
<1>9. agent.pc # "over" /\ ~ (reader.pc = "over" /\ agent.pc # "left") /\ Going
  BY <1>3 DEF Inv, Wired, Verdicts, Good, Bad, Going
<1>10. Wired'
  <2>1. Turns(Blank, Line) /\ Entire(Blank, Line)
    BY <1>9 DEF Inv, Wired
  <2>2. Turns(m, Line') /\ Entire(m, Line')
    BY <1>1, <1>2, <1>6, <2>1, TurnsLonger
  <2> HIDE DEF m
  <2>3. /\ Len(Line') = Len(Line) + 1 + Len(m) /\ Line'[Len(Line) + 1] = e
        /\ \A i \in 1..Len(Line) : Line'[i] = Line[i]
        /\ \A j \in 1..Len(m) : Line'[Len(Line) + 1 + j] = m[j]
        /\ Len(Line) \in Nat /\ Len(m) \in Nat
    BY <1>1, <1>2, <1>6 DEF Longer
  <2>4. Line' # <<>> /\ Line'[Len(Line') - Len(m)] = e
    BY <1>6, <2>3
  <2>5. ASSUME NEW i \in 1..Len(Line')
        PROVE  /\ Line'[i].kind = "end" => s.ends = "whole"
               /\ Line'[i].kind = "error" => s.ends = "error"
    <3>1. CASE i <= Len(Line)
      BY <1>3, <2>3, <3>1 DEF Inv, Wired
    <3>2. CASE i = Len(Line) + 1
      BY <2>3, <3>2 DEF Writing
    <3>3. CASE i > Len(Line) + 1
      <4>1. i - Len(Line) - 1 \in 1..Len(m) /\ i = Len(Line) + 1 + (i - Len(Line) - 1)
        BY <2>3, <3>3
      <4>2. Mark(Line'[i])
        BY <1>2, <2>3, <4>1 DEF Marks
      <4> QED
        BY <4>2 DEF Mark
    <3> QED
      BY <2>3, <3>1, <3>2, <3>3
  <2>6. s.ends \in {"whole", "error"} => e.kind = IF s.ends = "whole" THEN "end" ELSE "error"
    BY DEF Writing
  <2>7. m = Blank'
    BY <1>5 DEF m
  <2> QED
    BY <1>3, <1>4, <1>9, <2>2, <2>4, <2>5, <2>6, <2>7 DEF Wired
<1>11. Verdicts'
  BY <1>3, <1>4, <1>9 DEF Inv, Verdicts, Good, Bad
<1>12. AllTold'
  <2>1. PICK h, f : ToldOnWire(h) /\ ToldInQueue(h, f)
    BY DEF Inv, AllTold
  <2>2. Tells(answer, backend, h[Len(Line)], e, Told(s)) /\ Sound(answer, backend, Told(s))
    BY <1>9, <2>1 DEF ToldOnWire, Writing
  <2>3. Chain(answer, backend, Line, h)
    BY <2>1 DEF ToldOnWire
  <2>4. PICK g : Chain(answer, backend, Line', g) /\ g[0] = h[0] /\ g[Len(Line')] = Told(s)
    BY <1>1, <1>2, <1>6, <2>2, <2>3, ChainLonger
  <2>5. ToldOnWire(g)'
    BY <1>4, <1>8, <1>9, <2>1, <2>4 DEF ToldOnWire
  <2>6. ToldInQueue(g, f)'
    BY <1>4, <2>1, <2>4 DEF ToldInQueue
  <2> QED
    BY <2>5, <2>6 DEF AllTold
<1>13. RunAsAsked'
  BY <1>4, <1>9 DEF RunAsAsked
<1> QED
  BY <1>7, <1>8, <1>10, <1>11, <1>12, <1>13 DEF Inv

LEMMA WroteSome ==
    ASSUME Inv, \E e, s : Writing(e, s)
    PROVE  Inv'
<1>1. PICK e, s : Writing(e, s)
  OBVIOUS
<1> QED
  BY <1>1, Wrote

Call == [name : STRING \ {""}, args : Seq(STRING)]

LEMMA AnswerIs ==
    ASSUME Types
    PROVE  /\ answer.text \in Seq(STRING) /\ Len(answer.text) \in Nat
           /\ Calls \in Seq(Call) /\ Calls = answer.calls /\ Len(Calls) \in Nat
           /\ \A i \in 1..Len(Calls) :
                /\ Calls[i].args \in Seq(STRING) /\ Pieces(i) \in Nat
                /\ Pieces(i) = Len(Calls[i].args)
                /\ Calls[i].name \in Names /\ Calls[i].name # ""
<1>1. answer \in [text : Seq(STRING), calls : Seq(Call)]
  BY StreamAssumption DEF Types, Call
<1>2. /\ answer.text \in Seq(STRING) /\ Len(answer.text) \in Nat
      /\ Calls \in Seq(Call) /\ Calls = answer.calls /\ Len(Calls) \in Nat
  BY <1>1 DEF Calls
<1>3. \A i \in 1..Len(Calls) : Calls[i] \in Call
  BY <1>2
<1>4. \A i \in 1..Len(Calls) :
        /\ Calls[i].args \in Seq(STRING) /\ Len(Calls[i].args) \in Nat
        /\ Calls[i].name \in Names /\ Calls[i].name # ""
  <2> TAKE i \in 1..Len(Calls)
  <2>1. \A c \in Call : c.args \in Seq(STRING) /\ c.name \in STRING \ {""}
    BY DEF Call
  <2>2. Calls[i].args \in Seq(STRING) /\ Calls[i].name \in STRING \ {""}
    BY <1>3, <2>1
  <2>3. \A t \in Seq(STRING) : Len(t) \in Nat
    OBVIOUS
  <2> QED
    BY <2>2, <2>3 DEF Names
<1> QED
  BY <1>2, <1>4 DEF Pieces

(* What the server has said, in the terms of its actions.                    *)
LEMMA ServerIs ==
    ASSUME Types, Sound(answer, backend, AllSaid)
    PROVE  /\ server.said \in 0..Len(answer.text) /\ server.given \in Seq(Nat)
           /\ server.whole \in SUBSET (1..Len(server.given)) /\ Begun = Len(server.given)
           /\ Begun \in 0..Len(Calls) /\ server.whole \in SUBSET Nat
           /\ \A i \in 1..Begun : /\ i \in 1..Len(Calls) /\ server.given[i] \in 0..Pieces(i)
                                  /\ Given(i) <=> server.given[i] = Pieces(i)
           /\ server.given # <<>> => server.said = Len(answer.text)
           /\ backend = "anthropic" => \A i \in 1..Begun : i < Begun => Given(i)
           /\ backend # "responses" => server.whole = {}
           /\ AllSaid.said = server.said /\ AllSaid.given = server.given
           /\ AllSaid.whole = server.whole
           /\ server \in Server
<1>1. /\ AllSaid.said = server.said /\ AllSaid.given = server.given
      /\ AllSaid.whole = server.whole
  BY DEF AllSaid
<1>2. server \in Server /\ server.said \in Nat /\ server.given \in Seq(Nat) /\ server.whole \in SUBSET Nat
  BY DEF Types, Server
<1>3. /\ \A i \in 1..Len(server.given) : server.given[i] \in Nat
      /\ Len(server.given) \in Nat /\ Begun = Len(server.given)
  BY <1>2 DEF Begun
<1>4. \A i : Given(i) <=> server.given[i] = Len(answer.calls[i].args)
  BY DEF Given, Pieces, Calls
<1>5. \A i : Pieces(i) = Len(answer.calls[i].args)
  BY DEF Pieces, Calls
<1>6. /\ server.said <= Len(answer.text) /\ Len(server.given) <= Len(answer.calls)
      /\ \A i \in 1..Len(server.given) : server.given[i] <= Len(answer.calls[i].args)
      /\ server.whole \subseteq 1..Len(server.given)
      /\ server.given # <<>> => server.said = Len(answer.text)
      /\ backend = "anthropic" =>
           \A i \in 1..Len(server.given) :
             i < Len(server.given) => server.given[i] = Len(answer.calls[i].args)
      /\ backend # "responses" => server.whole = {}
  BY <1>1 DEF Sound
<1>7. /\ Len(answer.text) \in Nat /\ Len(Calls) \in Nat /\ Calls = answer.calls
      /\ \A i \in 1..Len(Calls) : Pieces(i) \in Nat
  BY AnswerIs
<1>8. server.said \in 0..Len(answer.text) /\ Begun \in 0..Len(Calls)
  BY <1>2, <1>3, <1>6, <1>7
<1>9. \A i \in 1..Begun : /\ i \in 1..Len(Calls) /\ server.given[i] \in 0..Pieces(i)
                          /\ Given(i) <=> server.given[i] = Pieces(i)
  <2> TAKE i \in 1..Begun
  <2>1. i \in 1..Len(Calls) /\ i \in 1..Len(server.given)
    BY <1>3, <1>7, <1>8
  <2>2. Pieces(i) \in Nat /\ server.given[i] \in Nat /\ server.given[i] <= Pieces(i)
    BY <1>3, <1>5, <1>6, <1>7, <2>1
  <2> QED
    BY <1>4, <1>5, <2>1, <2>2
<1>10. backend = "anthropic" => \A i \in 1..Begun : i < Begun => Given(i)
  BY <1>3, <1>4, <1>6
<1> QED
  BY <1>1, <1>2, <1>3, <1>6, <1>8, <1>9, <1>10

LEMMA SayTextInv ==
    ASSUME Inv, NEW n \in 1..Len(answer.text), SayText(n)
    PROVE  Inv'
<1> DEFINE t == SubSeq(answer.text, server.said + 1, server.said + n)
           e == Event("text", t, {}, "", <<>>)
           s == [server EXCEPT !.said = @ + n]
<1>1. Types /\ Sound(answer, backend, AllSaid)
  BY DEF Inv
<1>w. Write(e, s)
  BY DEF SayText
<1>2. n \in 1..Len(answer.text) - server.said /\ server.ends = "no"
  BY DEF SayText, Write
<1>n. n \in Nat /\ n >= 1 /\ server.said + n \in 1..Len(answer.text) /\ server.said < Len(answer.text)
  <2>1. server.said \in 0..Len(answer.text) /\ Len(answer.text) \in Nat
    BY <1>1, ServerIs, AnswerIs
  <2> QED
    BY <1>2, <2>1
<1>a. answer.text \in Seq(STRING) /\ Len(answer.text) \in Nat
  BY <1>1, AnswerIs
<1>s. /\ server \in Server /\ server.said \in 0..Len(answer.text)
      /\ server.given \in Seq(Nat) /\ server.whole \in SUBSET (1..Len(server.given))
      /\ server.given # <<>> => server.said = Len(answer.text)
      /\ AllSaid.said = server.said /\ AllSaid.given = server.given
  BY <1>1, ServerIs
<1>3. server.given = <<>> /\ server.whole = {}
  <2>1. server.given = <<>>
    BY <1>n, <1>s
  <2>2. Len(server.given) = 0
    BY <2>1
  <2> QED
    BY <1>s, <2>1, <2>2
<1>4. /\ s \in Server /\ s.said = server.said + n /\ s.given = <<>> /\ s.whole = {}
      /\ s.ends = "no" /\ s.blank = server.blank
  BY <1>2, <1>3, <1>n, <1>s DEF Server
<1>5. t \in Seq(STRING)
  BY <1>n, <1>a, <1>s
<1> HIDE DEF t
<1>6. e \in Unit /\ e.kind = "text" /\ ~ Mark(e) /\ e.text = t
  BY <1>5 DEF Event, Unit, Kinds, Names, Mark
<1> HIDE DEF e, s
<1> DEFINE p == Told(s)
<1>8. p = [said |-> server.said + n, given |-> <<>>, whole |-> {}]
  BY <1>4 DEF Told
<1>p. /\ p \in Prog /\ p.said = server.said + n /\ p.given = <<>> /\ p.whole = {}
      /\ Len(p.given) = 0
  BY <1>n, <1>8, <1>s DEF Prog
<1> HIDE DEF p
<1>9. Sound(answer, backend, p)
  <2>1. p.said <= Len(answer.text) /\ Len(p.given) <= Len(answer.calls)
    <3>1. Len(answer.calls) \in Nat
      BY <1>1, AnswerIs
    <3> QED
      BY <3>1, <1>n, <1>p
  <2> QED
    BY <1>p, <2>1 DEF Sound
<1>10. TellsText(answer, AllSaid, e, p)
  <2>1. AllSaid.said <= p.said
    BY <1>n, <1>s, <1>p
  <2> QED
    BY <1>3, <1>6, <1>p, <1>s, <2>1 DEF TellsText, t
<1>11. Tells(answer, backend, AllSaid, e, p)
  BY <1>10 DEF Tells
<1>12. Writing(e, s)
  BY <1>w, <1>4, <1>6, <1>9, <1>11 DEF Writing, p
<1> QED
  BY <1>12, WroteSome

LEMMA BeginInv ==
    ASSUME Inv, NEW call, NEW args, TextSaid, Begun < Len(Calls),
           \/ call = {Begun + 1} /\ args = <<>>
           \/ backend = "openai" /\ call = {} /\ args = Calls[Begun + 1].args,
           backend = "anthropic" => \A j \in 1..Begun : Given(j),
           Write(Event("begin", <<>>, call, Calls[Begun + 1].name, args),
                 [server EXCEPT !.given = Append(@, Len(args))])
    PROVE  Inv'
<1> DEFINE i == Begun + 1
           g == Append(server.given, Len(args))
           e == Event("begin", <<>>, call, Calls[Begun + 1].name, args)
           s == [server EXCEPT !.given = Append(@, Len(args))]
<1>1. Types /\ Sound(answer, backend, AllSaid)
  BY DEF Inv
<1>2. Write(e, s) /\ server.said = Len(answer.text) /\ server.ends = "no"
  BY DEF Write, TextSaid
<1>a. /\ Len(Calls) \in Nat /\ Calls = answer.calls
      /\ \A j \in 1..Len(Calls) :
           /\ Calls[j].args \in Seq(STRING) /\ Pieces(j) = Len(Calls[j].args)
           /\ Pieces(j) \in Nat /\ Calls[j].name \in Names
  BY <1>1, AnswerIs
<1>s. /\ server \in Server /\ server.given \in Seq(Nat) /\ Begun = Len(server.given)
      /\ server.whole \in SUBSET (1..Len(server.given)) /\ Begun \in 0..Len(Calls)
      /\ server.said \in Nat
      /\ \A j \in 1..Begun : server.given[j] \in 0..Pieces(j) /\ (Given(j) <=> server.given[j] = Pieces(j))
      /\ backend # "responses" => server.whole = {}
      /\ AllSaid.said = server.said /\ AllSaid.given = server.given
      /\ AllSaid.whole = server.whole
  BY <1>1, <1>2, ServerIs
<1>i. /\ i \in 1..Len(Calls) /\ i = Len(server.given) + 1 /\ i \in Nat
      /\ Calls[i].args \in Seq(STRING) /\ Calls[i].name \in Names
      /\ Pieces(i) = Len(Calls[i].args) /\ Pieces(i) \in Nat
  BY <1>a, <1>s
<1>c. /\ args \in Seq(STRING) /\ Len(args) \in 0..Pieces(i) /\ call \in SUBSET Nat
      /\ \/ call = {i} /\ args = <<>>
         \/ backend = "openai" /\ call = {} /\ args = Calls[i].args
  <2>1. CASE call = {i} /\ args = <<>>
    <3>1. Len(args) = 0 /\ args \in Seq(STRING)
      BY <2>1
    <3>2. 0 \in 0..Pieces(i) /\ {i} \in SUBSET Nat
      BY <1>i
    <3> QED
      BY <2>1, <3>1, <3>2
  <2>2. CASE backend = "openai" /\ call = {} /\ args = Calls[i].args
    <3>1. Len(args) = Pieces(i) /\ args \in Seq(STRING)
      BY <1>i, <2>2
    <3> QED
      BY <1>i, <2>2, <3>1
  <2> QED
    BY <2>1, <2>2
<1>5. /\ g \in Seq(Nat) /\ Len(g) = i /\ g[i] = Len(args)
      /\ \A j \in 1..Begun : g[j] = server.given[j]
  <2>1. Len(args) \in Nat
    BY <1>c, <1>i
  <2> QED
    BY <1>i, <1>s, <2>1
<1> HIDE DEF g
<1>4. /\ s \in Server /\ s.said = server.said /\ s.given = g
      /\ s.whole = server.whole /\ s.ends = "no" /\ s.blank = server.blank
  BY <1>2, <1>s, <1>5 DEF Server, g
<1>6. /\ e \in Unit /\ e.kind = "begin" /\ ~ Mark(e) /\ e.call = call /\ e.args = args
      /\ e.name = Calls[i].name
  BY <1>c, <1>i DEF Event, Unit, Kinds, Mark
<1> HIDE DEF e, s, i
<1> DEFINE p == Told(s)
<1>8. p = [said |-> server.said, given |-> g, whole |-> server.whole]
  BY <1>4 DEF Told
<1>p. /\ p \in Prog /\ p.said = server.said /\ p.given = g /\ p.whole = server.whole
  <2>1. server.whole \in SUBSET Nat
    BY <1>s
  <2> QED
    BY <1>8, <1>s, <1>5, <2>1 DEF Prog
<1> HIDE DEF p
<1>9. Sound(answer, backend, p)
  <2>1. \A j \in 1..i : j \in 1..Begun \/ j = i
    BY <1>i, <1>s
  <2>2. \A j \in 1..i : g[j] <= Len(answer.calls[j].args)
    <3> TAKE j \in 1..i
    <3>1. j \in 1..Len(Calls) /\ Pieces(j) = Len(answer.calls[j].args) /\ Pieces(j) \in Nat
      BY <1>a, <1>i
    <3>2. CASE j = i
      BY <1>5, <1>c, <1>i, <3>1, <3>2
    <3>3. CASE j \in 1..Begun
      <4>1. g[j] = server.given[j] /\ server.given[j] \in 0..Pieces(j)
        BY <1>5, <1>s, <3>3
      <4> QED
        BY <3>1, <4>1
    <3> QED
      BY <2>1, <3>2, <3>3
  <2>3. backend = "anthropic" => \A j \in 1..i : j < i => g[j] = Len(answer.calls[j].args)
    <3> SUFFICES ASSUME backend = "anthropic", NEW j \in 1..i, j < i
                 PROVE  g[j] = Len(answer.calls[j].args)
      OBVIOUS
    <3>1. j \in 1..Begun /\ j \in 1..Len(Calls) /\ Pieces(j) = Len(answer.calls[j].args)
      BY <1>a, <1>i, <1>s
    <3> QED
      BY <1>5, <1>s, <3>1
  <2>4. server.whole \subseteq 1..i /\ i <= Len(answer.calls)
    BY <1>a, <1>i, <1>s
  <2> QED
    BY <1>2, <1>5, <1>s, <1>p, <2>2, <2>3, <2>4, SMTT(30) DEF Sound
<1>10. TellsBegin(answer, backend, AllSaid, e, p)
  <2>1. Len(server.given) < Len(answer.calls)
    BY <1>a, <1>i, <1>s
  <2> QED
    BY <1>6, <1>a, <1>c, <1>i, <1>p, <1>s, <2>1 DEF TellsBegin, g
<1>11. Tells(answer, backend, AllSaid, e, p)
  BY <1>10 DEF Tells
<1>12. Writing(e, s)
  BY <1>2, <1>4, <1>6, <1>9, <1>11 DEF Writing, p
<1> QED
  BY <1>12, WroteSome

LEMMA GivePieceInv ==
    ASSUME Inv, NEW i \in 1..Begun, GivePiece(i)
    PROVE  Inv'
<1> DEFINE x == <<Calls[i].args[server.given[i] + 1]>>
           g == [server.given EXCEPT ![i] = @ + 1]
           e == Event("args", <<>>, {i}, "", x)
           s == [server EXCEPT !.given[i] = @ + 1]
<1>1. Types /\ Sound(answer, backend, AllSaid)
  BY DEF Inv
<1>w. Write(e, s)
  BY DEF GivePiece
<1>2. ~ Given(i) /\ i \notin server.whole /\ server.ends = "no"
  BY DEF GivePiece, Write
<1>a. /\ Len(Calls) \in Nat /\ Calls = answer.calls
      /\ \A j \in 1..Len(Calls) :
           /\ Calls[j].args \in Seq(STRING) /\ Pieces(j) = Len(Calls[j].args)
           /\ Pieces(j) \in Nat
  BY <1>1, AnswerIs
<1>s. /\ server \in Server /\ server.given \in Seq(Nat) /\ Begun = Len(server.given)
      /\ server.whole \in SUBSET (1..Len(server.given)) /\ Begun \in 0..Len(Calls)
      /\ server.said \in Nat
      /\ \A j \in 1..Begun : /\ j \in 1..Len(Calls) /\ server.given[j] \in 0..Pieces(j)
                             /\ Given(j) <=> server.given[j] = Pieces(j)
      /\ server.given # <<>> => server.said = Len(answer.text)
      /\ backend = "anthropic" => \A j \in 1..Begun : j < Begun => Given(j)
      /\ backend # "responses" => server.whole = {}
      /\ AllSaid.said = server.said /\ AllSaid.given = server.given
      /\ AllSaid.whole = server.whole
  BY <1>1, ServerIs
<1>i. /\ i \in Nat /\ i \in 1..Len(Calls) /\ Calls[i].args \in Seq(STRING)
      /\ Pieces(i) = Len(Calls[i].args) /\ Pieces(i) \in Nat
      /\ server.given[i] \in Nat /\ server.given[i] < Pieces(i)
  <2>1. i \in 1..Len(Calls) /\ server.given[i] \in 0..Pieces(i)
    BY <1>s
  <2>2. server.given[i] # Pieces(i)
    BY <1>2, <1>s
  <2>3. /\ Calls[i].args \in Seq(STRING) /\ Pieces(i) = Len(Calls[i].args)
        /\ Pieces(i) \in Nat
    BY <1>a, <2>1
  <2> DEFINE a == server.given[i]
             b == Pieces(i)
  <2>4. a \in 0..b /\ b \in Nat /\ a # b
    BY <2>1, <2>2, <2>3
  <2> HIDE DEF a, b
  <2>5. a \in Nat /\ a < b
    BY <2>4
  <2>6. i \in Nat
    OBVIOUS
  <2> QED
    BY <2>1, <2>3, <2>5, <2>6 DEF a, b
<1>5. /\ g \in Seq(Nat) /\ Len(g) = Begun /\ g[i] = server.given[i] + 1
      /\ \A j \in 1..Begun : j # i => g[j] = server.given[j]
  BY <1>i, <1>s
<1>x. x \in Seq(STRING)
  <2>1. server.given[i] + 1 \in 1..Len(Calls[i].args)
    BY <1>i
  <2>2. Calls[i].args[server.given[i] + 1] \in STRING
    BY <1>i, <2>1
  <2> QED
    BY <2>2
<1>4. /\ s \in Server /\ s.said = server.said /\ s.given = g
      /\ s.whole = server.whole /\ s.ends = "no" /\ s.blank = server.blank
  <2>1. s = [server EXCEPT !.given = g]
    BY <1>s DEF Server
  <2> HIDE DEF s, g
  <2> QED
    BY <1>2, <1>s, <1>5, <2>1 DEF Server
<1> HIDE DEF g, x
<1>6. /\ e \in Unit /\ e.kind = "args" /\ ~ Mark(e) /\ e.call = {i} /\ e.args = x
      /\ e.name = ""
  BY <1>x, <1>i DEF Event, Unit, Kinds, Mark, Names
<1> HIDE DEF e, s
<1> DEFINE p == Told(s)
<1>8. p = [said |-> server.said, given |-> g, whole |-> server.whole]
  BY <1>4 DEF Told
<1>p. /\ p \in Prog /\ p.said = server.said /\ p.given = g /\ p.whole = server.whole
  <2>1. server.whole \in SUBSET Nat
    BY <1>s
  <2> QED
    BY <1>8, <1>s, <1>5, <2>1 DEF Prog
<1> HIDE DEF p
<1>9. Sound(answer, backend, p)
  <2>2. \A j \in 1..Begun : g[j] <= Len(answer.calls[j].args)
    <3> TAKE j \in 1..Begun
    <3>1. Pieces(j) = Len(answer.calls[j].args) /\ Pieces(j) \in Nat /\ server.given[j] \in 0..Pieces(j)
      BY <1>a, <1>s
    <3>2. CASE j = i
      BY <1>5, <1>i, <3>1, <3>2
    <3>3. CASE j # i
      BY <1>5, <3>1, <3>3
    <3> QED
      BY <3>2, <3>3
  <2>3. backend = "anthropic" => \A j \in 1..Begun : j < Begun => g[j] = Len(answer.calls[j].args)
    <3> SUFFICES ASSUME backend = "anthropic", NEW j \in 1..Begun, j < Begun
                 PROVE  g[j] = Len(answer.calls[j].args)
      OBVIOUS
    <3>1. Given(j) /\ j # i /\ Pieces(j) = Len(answer.calls[j].args)
      BY <1>2, <1>a, <1>s
    <3> QED
      BY <1>5, <1>s, <3>1
  <2>4. server.whole \subseteq 1..Begun /\ Begun <= Len(answer.calls)
    BY <1>a, <1>s
  <2>5. p.said = Len(answer.text) /\ p.said <= Len(answer.text)
    <3>1. Len(answer.text) \in Nat
      BY <1>1, AnswerIs
    <3>2. server.given # <<>>
      BY <1>s
    <3> QED
      BY <1>p, <1>s, <3>1, <3>2
  <2> QED
    BY <1>5, <1>s, <1>p, <2>2, <2>3, <2>4, <2>5 DEF Sound
<1>10. TellsArgs(answer, backend, AllSaid, e, p)
  <2>1. server.given[i] < Len(answer.calls[i].args)
    BY <1>a, <1>i
  <2>2. backend = "anthropic" => i = Len(server.given)
    BY <1>2, <1>s, <1>i
  <2>3. /\ i \in 1..Len(AllSaid.given)
        /\ e.call = {i} /\ e.name = "" /\ i \notin AllSaid.whole
        /\ AllSaid.given[i] < Len(answer.calls[i].args)
        /\ e.args = <<answer.calls[i].args[AllSaid.given[i] + 1]>>
        /\ p.given = [AllSaid.given EXCEPT ![i] = @ + 1]
        /\ backend = "anthropic" => i = Len(AllSaid.given)
    BY <1>2, <1>6, <1>a, <1>p, <1>s, <2>1, <2>2 DEF x, g
  <2> QED
    BY <1>6, <1>p, <1>s, <2>3 DEF TellsArgs
<1>11. Tells(answer, backend, AllSaid, e, p)
  BY <1>10 DEF Tells
<1>12. Writing(e, s)
  BY <1>w, <1>4, <1>6, <1>9, <1>11 DEF Writing, p
<1> QED
  BY <1>12, WroteSome

LEMMA GiveWholeInv ==
    ASSUME Inv, NEW i \in 1..Begun, GiveWhole(i)
    PROVE  Inv'
<1> DEFINE x == Calls[i].args
           e == Event("whole", <<>>, {i}, "", x)
           s == [server EXCEPT !.whole = @ \cup {i}]
<1>1. Types /\ Sound(answer, backend, AllSaid)
  BY DEF Inv
<1>w. Write(e, s)
  BY DEF GiveWhole
<1>2. backend = "responses" /\ server.ends = "no"
  BY DEF GiveWhole, Write
<1>a. /\ Len(Calls) \in Nat /\ Calls = answer.calls
      /\ \A j \in 1..Len(Calls) : Calls[j].args \in Seq(STRING)
  BY <1>1, AnswerIs
<1>s. /\ server \in Server /\ server.given \in Seq(Nat) /\ Begun = Len(server.given)
      /\ server.whole \in SUBSET (1..Len(server.given)) /\ Begun \in 0..Len(Calls)
      /\ server.said \in Nat
      /\ AllSaid.said = server.said /\ AllSaid.given = server.given
      /\ AllSaid.whole = server.whole
  BY <1>1, ServerIs
<1>i. i \in Nat /\ i \in 1..Len(server.given) /\ x \in Seq(STRING)
  BY <1>a, <1>s
<1> DEFINE v == server.whole \cup {i}
<1>v. v \in SUBSET (1..Len(server.given)) /\ v \in SUBSET Nat
  BY <1>i, <1>s
<1>4. /\ s \in Server /\ s.said = server.said /\ s.given = server.given
      /\ s.whole = v /\ s.ends = "no" /\ s.blank = server.blank
  BY <1>2, <1>s, <1>v DEF Server
<1> HIDE DEF x, v
<1>6. e \in Unit /\ e.kind = "whole" /\ ~ Mark(e) /\ e.call = {i} /\ e.args = x
  BY <1>i DEF Event, Unit, Kinds, Mark, Names
<1> HIDE DEF e, s
<1> DEFINE p == Told(s)
<1>8. p = [said |-> server.said, given |-> server.given, whole |-> v]
  BY <1>4 DEF Told
<1>p. /\ p \in Prog /\ p.said = server.said /\ p.given = server.given /\ p.whole = v
  BY <1>8, <1>s, <1>v DEF Prog
<1> HIDE DEF p
<1>9. Sound(answer, backend, p)
  BY <1>1, <1>2, <1>p, <1>s, <1>v DEF Sound
<1>10. TellsWhole(answer, backend, AllSaid, e, p)
  BY <1>2, <1>6, <1>a, <1>i, <1>p, <1>s DEF TellsWhole, x, v
<1>11. Tells(answer, backend, AllSaid, e, p)
  BY <1>10 DEF Tells
<1>12. Writing(e, s)
  BY <1>w, <1>4, <1>6, <1>9, <1>11 DEF Writing, p
<1> QED
  BY <1>12, WroteSome

LEMMA FinishInv ==
    ASSUME Inv, \/ Finish
                \/ Write(Plain("error"), [server EXCEPT !.ends = "error"])
    PROVE  Inv'
<1>1. Types /\ Sound(answer, backend, AllSaid) /\ server \in Server
  BY DEF Inv, Types
<1>a. Calls = answer.calls
  BY <1>1, AnswerIs
<1>s. /\ Begun = Len(server.given)
      /\ \A j \in 1..Begun : Given(j) <=> server.given[j] = Len(answer.calls[j].args)
      /\ AllSaid.said = server.said /\ AllSaid.given = server.given
      /\ AllSaid.whole = server.whole
  BY DEF Begun, Given, Pieces, Calls, AllSaid
<1>2. ASSUME NEW how \in {"whole", "error"}, NEW kind \in {"end", "error"},
             (how = "whole") <=> (kind = "end"),
             how = "whole" => Complete(answer, AllSaid),
             Write(Plain(kind), [server EXCEPT !.ends = how])
      PROVE  Inv'
  <2> DEFINE e == Plain(kind)
             s == [server EXCEPT !.ends = how]
  <2>1. /\ s \in Server /\ s.ends = how /\ s.blank = server.blank
        /\ s.said = server.said /\ s.given = server.given /\ s.whole = server.whole
    BY <1>1 DEF Server, Ending
  <2>2. e \in Unit /\ e.kind = kind /\ ~ Mark(e)
    <3>1. <<>> \in Seq(STRING) /\ {} \in SUBSET Nat /\ "" \in Names /\ kind \in Kinds
      BY DEF Names, Kinds
    <3>2. \A t \in Seq(STRING), c \in SUBSET Nat, n \in Names, k \in Kinds :
            Event(k, t, c, n, t) \in Unit /\ Event(k, t, c, n, t).kind = k
      BY DEF Event, Unit
    <3> QED
      BY <3>1, <3>2 DEF Plain, Mark
  <2>w. Write(e, s)
    BY <1>2
  <2> HIDE DEF e, s
  <2>3. Told(s) = AllSaid
    BY <2>1 DEF Told, AllSaid
  <2>4. Tells(answer, backend, AllSaid, e, Told(s))
    BY <1>2, <2>2, <2>3 DEF Tells
  <2>5. Writing(e, s)
    BY <1>1, <1>2, <2>1, <2>2, <2>3, <2>4, <2>w DEF Writing
  <2> QED
    BY <2>5, WroteSome
<1>3. CASE Finish
  <2>1. Complete(answer, AllSaid)
    BY <1>3, <1>a, <1>s DEF Finish, TextSaid, Complete
  <2>2. Write(Plain("end"), [server EXCEPT !.ends = "whole"])
    BY <1>3 DEF Finish
  <2> QED
    BY <1>2, <2>1, <2>2
<1>4. CASE Write(Plain("error"), [server EXCEPT !.ends = "error"])
  BY <1>2, <1>4
<1> QED
  BY <1>3, <1>4

(* The connection is lost, with what was on its way.                         *)
LEMMA LostInv ==
    ASSUME Inv, NEW how \in {"closed", "broken"}, Stop(how)
    PROVE  Inv'
<1>1. Types /\ wire \in Seq(Unit) /\ buffer \in Seq(Unit) /\ Line \in Seq(Unit) /\ server \in Server
  BY LineIs DEF Inv, Types
<1>2. PICK n \in 0..Len(wire) :
        /\ server.ends = "no" /\ server' = [server EXCEPT !.ends = how]
        /\ wire' = SubSeq(wire, 1, n)
        /\ UNCHANGED <<backend, answer, Reader, Agent>>
  BY DEF Stop
<1>3. UNCHANGED <<backend, answer, buffer, reader, queue, agent, shown, heard, ran>>
  BY <1>2 DEF Reader, Agent
<1>4. /\ server' \in Server /\ server'.ends = how /\ server'.blank = server.blank
      /\ server'.said = server.said /\ server'.given = server.given
      /\ server'.whole = server.whole
  BY <1>1, <1>2 DEF Server, Ending
<1>5. Blank' = Blank
  BY <1>4 DEF Blank
<1>6. wire' \in Seq(Unit) /\ Line' \in Seq(Unit) /\ Shorter(Line, Line')
  <2>1. /\ wire' \in Seq(Unit) /\ Len(wire') = n /\ \A i \in 1..n : wire'[i] = wire[i]
    BY <1>1, <1>2
  <2> DEFINE w == wire'
  <2> HIDE DEF w
  <2>2. w \in Seq(Unit) /\ Len(w) = n /\ \A i \in 1..n : w[i] = wire[i]
    BY <2>1 DEF w
  <2>3. buffer \o w \in Seq(Unit) /\ Shorter(buffer \o wire, buffer \o w)
    BY <1>1, <2>2 DEF Shorter
  <2> QED
    BY <1>3, <2>1, <2>3 DEF Line, w
<1>7. Types'
  BY <1>1, <1>3, <1>4, <1>6 DEF Types
<1>8. Sound(answer, backend, AllSaid)'
  BY <1>3, <1>4 DEF AllSaid, Inv
<1>9. agent.pc # "over" /\ ~ (reader.pc = "over" /\ agent.pc # "left") /\ ~ Going'
  BY <1>2, <1>4 DEF Inv, Wired, Verdicts, Good, Bad, Going
<1>10. Wired'
  <2>1. Turns(Blank, Line)
    BY DEF Inv, Wired
  <2>2. Turns(Blank, Line')
    <3>1. Blank \in Seq(Unit)
      BY <1>1, BlankIs DEF Server
    <3> QED
      BY <1>1, <1>6, <2>1, <3>1, TurnsShorter
  <2>3. \A i \in 1..Len(Line') : Line'[i].kind # "end" /\ Line'[i].kind # "error"
    <3> TAKE i \in 1..Len(Line')
    <3>1. i \in 1..Len(Line) /\ Line'[i] = Line[i]
      BY <1>1, <1>6 DEF Shorter
    <3> QED
      BY <1>2, <3>1 DEF Inv, Wired
  <2> QED
    BY <1>3, <1>4, <1>5, <1>9, <2>2, <2>3 DEF Wired
<1>11. Verdicts'
  BY <1>2, <1>3, <1>9 DEF Inv, Verdicts, Good, Bad
<1>12. AllTold'
  <2>1. PICK h, f : ToldOnWire(h) /\ ToldInQueue(h, f)
    BY DEF Inv, AllTold
  <2>2. PICK g : Chain(answer, backend, Line', g) /\ g[0] = h[0]
    BY <1>1, <1>6, <2>1, ChainShorter DEF ToldOnWire
  <2>3. ToldOnWire(g)'
    BY <1>3, <1>4, <1>9, <2>1, <2>2 DEF ToldOnWire
  <2>4. ToldInQueue(g, f)'
    BY <1>3, <2>1, <2>2 DEF ToldInQueue
  <2> QED
    BY <2>3, <2>4 DEF AllTold
<1>13. RunAsAsked'
  BY <1>3, <1>9 DEF RunAsAsked
<1> QED
  BY <1>7, <1>8, <1>10, <1>11, <1>12, <1>13 DEF Inv

LEMMA ServeInv ==
    ASSUME Inv, Serve
    PROVE  Inv'
<1>1. CASE \E n \in 1..Len(answer.text) : SayText(n)
  BY <1>1, SayTextInv
<1>2. CASE BeginCall
  <2>1. Len(<<>>) = 0
    OBVIOUS
  <2>2. /\ TextSaid /\ Begun < Len(Calls)
        /\ backend = "anthropic" => \A j \in 1..Begun : Given(j)
        /\ Write(Event("begin", <<>>, {Begun + 1}, Calls[Begun + 1].name, <<>>),
                 [server EXCEPT !.given = Append(@, Len(<<>>))])
    BY <1>2, <2>1 DEF BeginCall
  <2>3. PICK call, args : /\ call = {Begun + 1} /\ args = <<>>
                          /\ Write(Event("begin", <<>>, call, Calls[Begun + 1].name, args),
                                   [server EXCEPT !.given = Append(@, Len(args))])
    BY <2>2
  <2> QED
    BY <2>2, <2>3, BeginInv
<1>3. CASE WholeCall
  <2>1. /\ backend = "openai" /\ TextSaid /\ Begun < Len(Calls)
        /\ Write(Event("begin", <<>>, {}, Calls[Begun + 1].name, Calls[Begun + 1].args),
                 [server EXCEPT !.given = Append(@, Len(Calls[Begun + 1].args))])
    BY <1>3 DEF WholeCall, Pieces
  <2>2. PICK call, args : /\ call = {} /\ args = Calls[Begun + 1].args
                          /\ Write(Event("begin", <<>>, call, Calls[Begun + 1].name, args),
                                   [server EXCEPT !.given = Append(@, Len(args))])
    BY <2>1
  <2> QED
    BY <2>1, <2>2, BeginInv
<1>4. CASE \E i \in 1..Begun : GivePiece(i) \/ GiveWhole(i)
  BY <1>4, GivePieceInv, GiveWholeInv
<1>5. CASE Finish
  BY <1>5, FinishInv
<1>6. CASE \E how \in Faults : Stop(how)
  <2>1. PICK how \in Faults : Stop(how)
    BY <1>6
  <2>2. CASE how = "error" /\ Write(Plain("error"), [server EXCEPT !.ends = "error"])
    BY <2>2, FinishInv
  <2>3. CASE how \in {"closed", "broken"}
    BY <2>1, <2>3, LostInv
  <2> QED
    BY <2>1, <2>2, <2>3 DEF Stop
<1> QED
  BY <1>1, <1>2, <1>3, <1>4, <1>5, <1>6 DEF Serve

-----------------------------------------------------------------------------
(* The reader receives a chunk: the units in order stay as they are.         *)
LEMMA ReceiveInv ==
    ASSUME Inv, NEW n \in 1..Len(wire), Receive(n)
    PROVE  Inv'
<1>1. Types /\ wire \in Seq(Unit) /\ buffer \in Seq(Unit)
  BY DEF Inv, Types
<1>2. /\ buffer' = buffer \o SubSeq(wire, 1, n) /\ wire' = SubSeq(wire, n + 1, Len(wire))
      /\ UNCHANGED <<backend, answer, server, reader, queue, agent, shown, heard, ran>>
  BY DEF Receive, Agent
<1>3. Line' = Line
  <2>1. n \in 0..Len(wire)
    OBVIOUS
  <2>2. (buffer \o SubSeq(wire, 1, n)) \o SubSeq(wire, n + 1, Len(wire)) = buffer \o wire
    BY <1>1, <2>1, Recut
  <2> QED
    BY <1>2, <2>2 DEF Line
<1>4. buffer' \in Seq(Unit) /\ wire' \in Seq(Unit)
  <2>1. SubSeq(wire, 1, n) \in Seq(Unit) /\ SubSeq(wire, n + 1, Len(wire)) \in Seq(Unit)
    BY <1>1
  <2> DEFINE w == SubSeq(wire, 1, n)
  <2> HIDE DEF w
  <2>2. w \in Seq(Unit)
    BY <2>1 DEF w
  <2>3. buffer \o w \in Seq(Unit)
    BY <1>1, <2>2
  <2> QED
    BY <1>2, <2>1, <2>3 DEF w
<1>5. Types'
  BY <1>1, <1>2, <1>4 DEF Types
<1>6. Sound(answer, backend, AllSaid)' /\ Wired' /\ Verdicts'
  BY <1>2, <1>3 DEF Inv, AllSaid, Wired, Verdicts, Good, Bad, Blank, Going
<1>7. AllTold'
  <2>1. PICK h, f : ToldOnWire(h) /\ ToldInQueue(h, f)
    BY DEF Inv, AllTold
  <2>2. ToldOnWire(h)' /\ ToldInQueue(h, f)'
    BY <1>2, <1>3, <2>1 DEF ToldOnWire, ToldInQueue, AllSaid, Going
  <2> QED
    BY <2>2 DEF AllTold
<1>8. RunAsAsked'
  BY <1>2 DEF Inv, RunAsAsked, Asked, Calls
<1> QED
  BY <1>5, <1>6, <1>7, <1>8 DEF Inv

-----------------------------------------------------------------------------
(* The reader takes an event from the buffer.                                *)
LEMMA CatLater ==
    ASSUME NEW b \in Seq(Unit), NEW w \in Seq(Unit), NEW m \in Seq(Unit), Len(b) > Len(m)
    PROVE  /\ SubSeq(b, Len(m) + 2, Len(b)) \in Seq(Unit)
           /\ Later(m, b \o w, SubSeq(b, Len(m) + 2, Len(b)) \o w)
<1> DEFINE c == SubSeq(b, Len(m) + 2, Len(b))
           z == Len(m) + 1
<1>1. Len(b) \in Nat /\ Len(w) \in Nat /\ Len(m) \in Nat
  OBVIOUS
<1>2. c \in Seq(Unit) /\ Len(c) = Len(b) - z /\ \A i \in 1..Len(b) - z : c[i] = b[i + z]
  <2>1. c \in Seq(Unit) /\ Len(c) = Len(b) - z
    BY <1>1
  <2>2. \A i \in 1..Len(b) - z : c[i] = b[i + (Len(m) + 2) - 1] /\ i + (Len(m) + 2) - 1 = i + z
    BY <1>1
  <2> QED
    BY <2>1, <2>2
<1> HIDE DEF c
<1> DEFINE bw == b \o w
           cw == c \o w
<1>3. /\ bw \in Seq(Unit) /\ Len(bw) = Len(b) + Len(w)
      /\ \A i \in 1..Len(b) : bw[i] = b[i]
      /\ \A i \in 1..Len(w) : bw[Len(b) + i] = w[i]
      /\ \A i \in Len(b) + 1..Len(b) + Len(w) : bw[i] = w[i - Len(b)]
  BY CatIs, Zenon
<1>4. /\ cw \in Seq(Unit) /\ Len(cw) = Len(c) + Len(w)
      /\ \A i \in 1..Len(c) : cw[i] = c[i]
      /\ \A i \in 1..Len(w) : cw[Len(c) + i] = w[i]
      /\ \A i \in Len(c) + 1..Len(c) + Len(w) : cw[i] = w[i - Len(c)]
  <2>1. c \in Seq(Unit)
    BY <1>2
  <2> QED
    BY <2>1, CatIs, Zenon
<1> HIDE DEF bw, cw
<1>5. Len(bw) = Len(cw) + 1 + Len(m)
  BY <1>1, <1>2, <1>3, <1>4
<1>6. \A i \in 1..Len(cw) : cw[i] = bw[i + 1 + Len(m)]
  <2> TAKE i \in 1..Len(cw)
  <2>1. i + 1 + Len(m) = i + z
    BY <1>1
  <2>2. CASE i <= Len(c)
    <3>1. i \in 1..Len(c) /\ i \in 1..Len(b) - z /\ i + z \in 1..Len(b)
      BY <1>1, <1>2, <2>2
    <3> QED
      BY <1>2, <1>3, <1>4, <2>1, <3>1
  <2>3. CASE i > Len(c)
    <3>1. /\ i \in Len(c) + 1..Len(c) + Len(w) /\ i + z \in Len(b) + 1..Len(b) + Len(w)
          /\ i + z - Len(b) = i - Len(c)
      BY <1>1, <1>2, <1>4, <2>3
    <3>2. cw[i] = w[i - Len(c)]
      BY <1>4, <3>1
    <3> DEFINE j == i + z
    <3>3. j \in Len(b) + 1..Len(b) + Len(w) /\ j - Len(b) = i - Len(c)
      BY <3>1
    <3> HIDE DEF j
    <3>4. bw[j] = w[j - Len(b)]
      BY <1>3, <3>3
    <3> QED
      BY <2>1, <3>2, <3>3, <3>4 DEF j
  <2> QED
    BY <1>1, <1>2, <2>2, <2>3
<1>7. Later(m, bw, cw)
  BY <1>5, <1>6 DEF Later
<1> QED
  BY <1>2, <1>7 DEF bw, cw, c

LEMMA Extracted ==
    ASSUME Inv, NEW kind, NEW messages, NEW r, Extract(kind, messages, r)
    PROVE  /\ reader.pc = "reading" /\ agent.pc = "listening" /\ reader' = r
           /\ queue' = queue \o messages
           /\ UNCHANGED <<backend, answer, server, wire, agent, shown, heard, ran>>
           /\ buffer' \in Seq(Unit) /\ Line' \in Seq(Unit) /\ Later(Blank, Line, Line')
           /\ Line # <<>> /\ Len(Line) >= 1 /\ Line[1] = buffer[1] /\ InHand = Line[1]
           /\ Line[1] \in Unit /\ Line[1].kind = kind
           /\ Turns(Blank, Line') /\ (Going => Entire(Blank, Line')) /\ Blank' = Blank
           /\ \A i \in 1..Len(Line') : /\ Line'[i].kind = "end" => server.ends = "whole"
                                       /\ Line'[i].kind = "error" => server.ends = "error"
           /\ Marks(Blank) /\ Blank \in Seq(Unit) /\ Len(Blank) \in {2, 4}
<1>1. /\ Types /\ wire \in Seq(Unit) /\ buffer \in Seq(Unit) /\ Line \in Seq(Unit)
      /\ server.blank \in {"\n", "\r\n"} /\ (backend = "anthropic" => server.blank = "\n")
  BY LineIs DEF Inv, Types, Server
<1>2. Marks(Blank) /\ Blank \in Seq(Unit) /\ Len(Blank) \in {2, 4}
  BY <1>1, BlankIs
<1>3. /\ reader.pc = "reading" /\ agent.pc = "listening" /\ reader' = r
      /\ queue' = queue \o messages /\ Ends(buffer) # {} /\ buffer[1].kind = kind
      /\ UNCHANGED <<backend, answer, server, wire, agent, shown, heard, ran>>
      /\ buffer' = SubSeq(buffer, Min(Ends(buffer)) +
                            (IF buffer[Min(Ends(buffer))] = Lf THEN 2 ELSE 4), Len(buffer))
  BY DEF Extract, Listening, Agent
<1>4. Turns(Blank, Line) /\ (Going => Entire(Blank, Line))
  BY DEF Inv, Wired
<1>5. Shorter(Line, buffer)
  BY <1>1 DEF Shorter, Line
<1>6. Turns(Blank, buffer)
  BY <1>1, <1>2, <1>4, <1>5, TurnsShorter
<1>7. /\ Len(buffer) > Len(Blank) /\ Min(Ends(buffer)) = 2
      /\ 2 + (IF buffer[2] = Lf THEN 2 ELSE 4) = Len(Blank) + 2
  BY <1>1, <1>3, <1>6, EndsAt
<1>8. buffer' = SubSeq(buffer, Len(Blank) + 2, Len(buffer))
  BY <1>3, <1>7
<1>9. buffer' \in Seq(Unit) /\ Later(Blank, Line, Line')
  <2>1. /\ SubSeq(buffer, Len(Blank) + 2, Len(buffer)) \in Seq(Unit)
        /\ Later(Blank, buffer \o wire, SubSeq(buffer, Len(Blank) + 2, Len(buffer)) \o wire)
    BY <1>1, <1>2, <1>7, CatLater
  <2> QED
    BY <1>3, <1>8, <2>1 DEF Line
<1>10. Line' \in Seq(Unit)
  BY <1>1, <1>3, <1>9 DEF Line
<1>11. Turns(Blank, Line') /\ (Going => Entire(Blank, Line'))
  BY <1>1, <1>2, <1>4, <1>9, <1>10, TurnsLater
<1>12. Len(buffer) >= 1 /\ Len(Line) >= 1 /\ Line # <<>> /\ Line[1] = buffer[1] /\ Line[1] \in Unit
  <2>1. Len(buffer) >= 1 /\ Len(buffer) \in Nat
    BY <1>1, <1>2, <1>7
  <2>2. Len(buffer) <= Len(Line) /\ Len(Line) \in Nat /\ Line[1] = buffer[1]
    BY <1>1, <1>5, <2>1 DEF Shorter
  <2> QED
    BY <1>1, <2>1, <2>2
<1>13. \A i \in 1..Len(Line') : /\ Line'[i].kind = "end" => server.ends = "whole"
                                /\ Line'[i].kind = "error" => server.ends = "error"
  <2> TAKE i \in 1..Len(Line')
  <2>1. Line'[i] = Line[i + 1 + Len(Blank)] /\ i + 1 + Len(Blank) \in 1..Len(Line)
    BY <1>1, <1>2, <1>9, <1>10 DEF Later
  <2> QED
    BY <2>1 DEF Inv, Wired
<1>14. Blank' = Blank /\ InHand = Line[1]
  BY <1>3, <1>12 DEF Blank, InHand
<1> QED
  BY <1>2, <1>3, <1>9, <1>10, <1>11, <1>12, <1>13, <1>14

-----------------------------------------------------------------------------
(* What has been told of the calls is what they are as far as they have come.*)
LEMMA ToolsType ==
    ASSUME Types, NEW p, Sound(answer, backend, p)
    PROVE  /\ p.said \in 0..Len(answer.text) /\ p.given \in Seq(Nat) /\ p.whole \in SUBSET Nat
           /\ Len(p.given) \in 0..Len(Calls) /\ p \in Prog
           /\ \A i \in 1..Len(p.given) : /\ ToolAt(answer, p, i) \in Tool /\ i \in 1..Len(Calls)
                                        /\ p.given[i] \in 0..Pieces(i)
                                        /\ ToolAt(answer, p, i).name # ""
           /\ Tools(answer, p) \in Seq(Tool) /\ Len(Tools(answer, p)) = Len(p.given)
           /\ DOMAIN Tools(answer, p) = 1..Len(p.given)
           /\ \A i \in 1..Len(p.given) : Tools(answer, p)[i] = ToolAt(answer, p, i)
           /\ AsCalls(Tools(answer, p)) \in Seq(CallNow)
           /\ Len(AsCalls(Tools(answer, p))) = Len(p.given)
           /\ \A i \in 1..Len(p.given) :
                AsCalls(Tools(answer, p))[i] = Numbered(i, ToolAt(answer, p, i))
<1>1. /\ p \in Prog /\ p.said \in Nat /\ p.given \in Seq(Nat) /\ p.whole \in SUBSET Nat
      /\ p.said <= Len(answer.text) /\ Len(p.given) <= Len(answer.calls)
      /\ \A i \in 1..Len(p.given) : p.given[i] <= Len(answer.calls[i].args)
  BY DEF Sound, Prog
<1>2. /\ Len(answer.text) \in Nat /\ Calls = answer.calls /\ Len(Calls) \in Nat
      /\ \A i \in 1..Len(Calls) :
           /\ Calls[i].args \in Seq(STRING) /\ Pieces(i) \in Nat
           /\ Pieces(i) = Len(Calls[i].args)
           /\ Calls[i].name \in Names /\ Calls[i].name # ""
  BY AnswerIs
<1>3. /\ Len(p.given) \in Nat /\ Len(p.given) \in 0..Len(Calls) /\ p.said \in 0..Len(answer.text)
      /\ \A i \in 1..Len(p.given) : i \in 1..Len(Calls) /\ p.given[i] \in Nat
  <2> DEFINE g == p.given
  <2>1. g \in Seq(Nat) /\ Len(g) <= Len(Calls)
    BY <1>1, <1>2
  <2> HIDE DEF g
  <2>2. Len(g) \in Nat /\ \A i \in 1..Len(g) : g[i] \in Nat
    BY <2>1
  <2>l. Len(Calls) \in Nat /\ Len(answer.text) \in Nat /\ Len(g) \in Nat /\ Len(g) <= Len(Calls)
    BY <1>2, <2>1, <2>2
  <2>3. Len(g) \in 0..Len(Calls) /\ \A i \in 1..Len(g) : i \in 1..Len(Calls)
    BY <2>l
  <2>s. p.said \in Nat /\ p.said <= Len(answer.text)
    BY <1>1
  <2>4. p.said \in 0..Len(answer.text)
    BY <2>l, <2>s
  <2> QED
    BY <2>2, <2>3, <2>4 DEF g
<1>4. \A i \in 1..Len(p.given) : p.given[i] \in 0..Pieces(i)
  <2> TAKE i \in 1..Len(p.given)
  <2>1. /\ p.given[i] \in Nat /\ Pieces(i) \in Nat /\ Pieces(i) = Len(answer.calls[i].args)
        /\ p.given[i] <= Len(answer.calls[i].args)
    BY <1>1, <1>2, <1>3
  <2> QED
    BY <2>1
<1>5. ASSUME NEW i \in 1..Len(p.given)
      PROVE  ToolAt(answer, p, i) \in Tool /\ ToolAt(answer, p, i).name # ""
  <2> DEFINE c == answer.calls[i]
  <2>1. c.args \in Seq(STRING) /\ c.name \in Names /\ c.name # "" /\ p.given[i] \in 0..Len(c.args)
    BY <1>2, <1>3, <1>4
  <2> HIDE DEF c
  <2>2. SubSeq(c.args, 1, p.given[i]) \in Seq(STRING)
    <3>1. \A t \in Seq(STRING) : \A n \in 0..Len(t) : SubSeq(t, 1, n) \in Seq(STRING)
      OBVIOUS
    <3> QED
      BY <2>1, <3>1
  <2>3. ToolAt(answer, p, i) = [name |-> c.name,
                                args |-> IF i \in p.whole THEN c.args ELSE SubSeq(c.args, 1, p.given[i])]
    BY DEF ToolAt, c
  <2>4. \A x \in Names, y \in Seq(STRING) :
          [name |-> x, args |-> y] \in Tool /\ [name |-> x, args |-> y].name = x
    BY DEF Tool
  <2> DEFINE y == IF i \in p.whole THEN c.args ELSE SubSeq(c.args, 1, p.given[i])
  <2>5. y \in Seq(STRING) /\ ToolAt(answer, p, i) = [name |-> c.name, args |-> y]
    BY <2>1, <2>2, <2>3
  <2> HIDE DEF y
  <2> QED
    BY <2>1, <2>4, <2>5
<1> DEFINE t == Tools(answer, p)
<1>6. t \in Seq(Tool) /\ Len(t) = Len(p.given) /\ \A i \in 1..Len(p.given) : t[i] = ToolAt(answer, p, i)
  <2> DEFINE n == Len(p.given)
  <2>1. n \in Nat /\ t = [i \in 1..n |-> ToolAt(answer, p, i)]
    BY <1>3 DEF Tools
  <2>2. \A i \in 1..n : ToolAt(answer, p, i) \in Tool
    BY <1>5
  <2> HIDE DEF n, t
  <2>3. t \in Seq(Tool) /\ Len(t) = n /\ \A i \in 1..n : t[i] = ToolAt(answer, p, i)
    BY <2>1, <2>2
  <2> QED
    BY <2>3 DEF n
<1> HIDE DEF t
<1>7. \A i \in 1..Len(t) : Numbered(i, t[i]) \in CallNow
  <2> TAKE i \in 1..Len(t)
  <2>1. i \in Nat /\ t[i] \in Tool
    BY <1>6
  <2> QED
    BY <2>1 DEF Tool, CallNow, Numbered
<1>8. /\ AsCalls(t) \in Seq(CallNow) /\ Len(AsCalls(t)) = Len(t)
      /\ \A i \in 1..Len(t) : AsCalls(t)[i] = Numbered(i, t[i])
  BY <1>6, <1>7 DEF AsCalls
<1>9. DOMAIN t = 1..Len(p.given)
  BY <1>6
<1> QED
  BY <1>1, <1>3, <1>4, <1>5, <1>6, <1>8, <1>9 DEF t

(* No call is without a name, so none is a gap.                              *)
LEMMA FinalizedIs ==
    ASSUME Types, NEW p, Sound(answer, backend, p), reader.tools = Tools(answer, p)
    PROVE  Finalized = AsCalls(reader.tools) /\ Finalized \in Seq(CallNow)
<1> DEFINE n == Len(reader.tools)
<1>1. /\ reader.tools \in Seq(Tool) /\ n \in Nat /\ DOMAIN reader.tools = 1..n
      /\ \A i \in 1..n : reader.tools[i] # NoTool
  <2>1. /\ Tools(answer, p) \in Seq(Tool) /\ Len(Tools(answer, p)) = Len(p.given)
        /\ DOMAIN Tools(answer, p) = 1..Len(p.given)
        /\ \A i \in 1..Len(p.given) : Tools(answer, p)[i] = ToolAt(answer, p, i)
        /\ \A i \in 1..Len(p.given) : ToolAt(answer, p, i).name # ""
    BY ToolsType
  <2>2. NoTool.name = ""
    BY DEF NoTool
  <2> DEFINE t == Tools(answer, p)
  <2>3. t \in Seq(Tool) /\ Len(t) = Len(p.given) /\ DOMAIN t = 1..Len(p.given)
    BY <2>1
  <2>4. \A i \in 1..Len(p.given) : t[i] # NoTool
    BY <2>1, <2>2
  <2> HIDE DEF t
  <2>5. t \in Seq(Tool) /\ Len(t) \in Nat /\ DOMAIN t = 1..Len(t) /\ \A i \in 1..Len(t) : t[i] # NoTool
    BY <2>3, <2>4
  <2> QED
    BY <2>5 DEF t
<1>2. Kept = 1..n
  BY <1>1 DEF Kept
<1> HIDE DEF n
<1>3. Cardinality(Kept) = n
  BY <1>1, <1>2, FS_Interval
<1>4. \A i \in 1..n : Cardinality({j \in Kept : j <= i}) = i
  <2> TAKE i \in 1..n
  <2>1. {j \in Kept : j <= i} = 1..i
    BY <1>1, <1>2
  <2>2. i \in Int /\ 1 \in Int /\ ~ (1 > i) /\ i - 1 + 1 = i
    BY <1>1
  <2>3. Cardinality(1..i) = i
    BY <2>2, FS_Interval
  <2> QED
    BY <2>1, <2>3
<1>5. \A k \in 1..n : Nth(k) = k
  <2> TAKE k \in 1..n
  <2>1. \A i \in Kept : Cardinality({j \in Kept : j <= i}) = k <=> i = k
    BY <1>2, <1>4
  <2>2. k \in Kept
    BY <1>2
  <2> QED
    BY <2>1, <2>2 DEF Nth
<1>6. Finalized = [k \in 1..n |-> Numbered(k, reader.tools[k])]
  BY <1>3, <1>5 DEF Finalized
<1>7. Finalized = AsCalls(reader.tools)
  BY <1>6 DEF AsCalls, n
<1> QED
  BY <1>7, ToolsType

-----------------------------------------------------------------------------
(* What a line still tells once its first event has been read.               *)
LEMMA StillTold ==
    ASSUME Inv, NEW kind, NEW messages, NEW r, Extract(kind, messages, r),
           NEW h, ToldOnWire(h)
    PROVE  \E g : /\ Chain(answer, backend, Line', g) /\ g[0] = h[1]
                  /\ g[Len(Line')] = h[Len(Line)]
                  /\ Sound(answer, backend, h[0]) /\ Sound(answer, backend, h[1])
                  /\ Tells(answer, backend, h[0], InHand, h[1])
<1>1. /\ Line' \in Seq(Unit) /\ Later(Blank, Line, Line') /\ InHand = Line[1]
      /\ Marks(Blank) /\ Blank \in Seq(Unit) /\ Len(Blank) \in {2, 4}
  BY Extracted
<1>2. Line \in Seq(Unit) /\ Turns(Blank, Line)
  BY LineIs DEF Inv, Wired
<1>3. Chain(answer, backend, Line, h)
  BY DEF ToldOnWire
<1>4. \E g : /\ Chain(answer, backend, Line', g) /\ g[0] = h[1] /\ g[Len(Line')] = h[Len(Line)]
             /\ Sound(answer, backend, h[0]) /\ Sound(answer, backend, h[1])
             /\ Tells(answer, backend, h[0], Line[1], h[1])
  BY <1>1, <1>2, <1>3, ChainLater
<1> QED
  BY <1>1, <1>4

(* Reading text or a piece of a call.                                        *)
LEMMA ReadInv ==
    ASSUME Inv, NEW kind \in {"text", "begin", "args", "whole"}, NEW messages, NEW r,
           Extract(kind, messages, r), NEW h, NEW f, ToldOnWire(h), ToldInQueue(h, f),
           r \in [pc : {"reading"}, tools : Seq(Tool), current : SUBSET Nat],
           r.tools = Tools(answer, h[1]),
           r.current = IF backend = "anthropic" /\ r.tools # <<>>
                         THEN {Len(r.tools)} ELSE {},
           \/ messages = <<>> /\ backend # "openai" /\ h[1].said = h[0].said
           \/ \E x \in Msg :
                /\ messages = <<x>> /\ x.kind \in {"text", "calls"}
                /\ Brings(answer, backend, f[Len(queue)], x, h[1])
                /\ backend # "openai" => h[1].given = <<>>
    PROVE  Inv'
<1>1. /\ Types /\ queue \in Seq(Msg) /\ Line \in Seq(Unit) /\ Len(Line) \in Nat
      /\ Verdicts /\ Wired
  BY LineIs DEF Inv, Types
<1>2. /\ reader.pc = "reading" /\ agent.pc = "listening" /\ reader' = r
      /\ queue' = queue \o messages
      /\ UNCHANGED <<backend, answer, server, wire, agent, shown, heard, ran>>
      /\ buffer' \in Seq(Unit) /\ Line' \in Seq(Unit) /\ Later(Blank, Line, Line')
      /\ Line[1].kind = kind /\ Turns(Blank, Line') /\ (Going => Entire(Blank, Line'))
      /\ Blank' = Blank /\ Len(Blank) \in {2, 4}
      /\ \A i \in 1..Len(Line') : /\ Line'[i].kind = "end" => server.ends = "whole"
                                  /\ Line'[i].kind = "error" => server.ends = "error"
  BY Extracted
<1>3. PICK g : /\ Chain(answer, backend, Line', g) /\ g[0] = h[1]
               /\ g[Len(Line')] = h[Len(Line)]
               /\ Sound(answer, backend, h[0]) /\ Sound(answer, backend, h[1])
               /\ Tells(answer, backend, h[0], InHand, h[1])
  BY StillTold
<1>4. /\ queue' \in Seq(Msg)
      /\ \A i \in 1..Len(queue') : queue'[i].kind \notin {"done", "error"}
      /\ \E e : /\ Course(answer, backend, queue', e) /\ e[0] = f[0]
                /\ e[Len(queue')].said = h[1].said
                /\ backend = "openai" => e[Len(queue')] = h[1]
  <2>1. \A i \in 1..Len(queue) : queue[i].kind \notin {"done", "error"}
    BY <1>1, <1>2 DEF Verdicts
  <2>2. /\ Course(answer, backend, queue, f) /\ f[Len(queue)].said = h[0].said
        /\ backend = "openai" => f[Len(queue)] = h[0]
    BY DEF ToldInQueue
  <2>3. CASE messages = <<>> /\ backend # "openai" /\ h[1].said = h[0].said
    <3>1. queue' = queue
      BY <1>1, <1>2, <2>3
    <3> QED
      BY <1>1, <2>1, <2>2, <2>3, <3>1
  <2>4. CASE \E x \in Msg :
                /\ messages = <<x>> /\ x.kind \in {"text", "calls"}
                /\ Brings(answer, backend, f[Len(queue)], x, h[1])
                /\ backend # "openai" => h[1].given = <<>>
    <3>1. PICK x \in Msg :
                /\ messages = <<x>> /\ x.kind \in {"text", "calls"}
                /\ Brings(answer, backend, f[Len(queue)], x, h[1])
                /\ backend # "openai" => h[1].given = <<>>
      BY <2>4
    <3>2. queue' = Append(queue, x)
      BY <1>1, <1>2, <3>1
    <3>3. /\ Append(queue, x) \in Seq(Msg) /\ Len(Append(queue, x)) = Len(queue) + 1
          /\ \A i \in 1..Len(queue) : Append(queue, x)[i] = queue[i]
          /\ Append(queue, x)[Len(queue) + 1] = x /\ Len(queue) \in Nat
      BY <1>1
    <3>4. \A i \in 1..Len(Append(queue, x)) : Append(queue, x)[i].kind \notin {"done", "error"}
      <4> TAKE i \in 1..Len(Append(queue, x))
      <4>1. i \in 1..Len(queue) \/ i = Len(queue) + 1
        BY <3>3
      <4> QED
        BY <2>1, <3>1, <3>3, <4>1
    <3>5. \E e : /\ Course(answer, backend, Append(queue, x), e) /\ e[0] = f[0]
                 /\ e[Len(Append(queue, x))] = h[1]
      <4> DEFINE n == h[1]
      <4>1. /\ queue \in Seq(Msg) /\ Course(answer, backend, queue, f)
            /\ Sound(answer, backend, n) /\ Brings(answer, backend, f[Len(queue)], x, n)
            /\ backend # "openai" => n.given = <<>>
        BY <1>1, <1>3, <2>2, <3>1
      <4> HIDE DEF n
      <4>2. \E e : /\ Course(answer, backend, Append(queue, x), e) /\ e[0] = f[0]
                   /\ e[Len(Append(queue, x))] = n
        BY <4>1, CourseLonger
      <4> QED
        BY <4>2 DEF n
    <3> QED
      BY <3>2, <3>3, <3>4, <3>5
  <2> QED
    BY <2>3, <2>4
<1>5. Types'
  <2>1. reader' \in [pc : {"reading", "over"}, tools : Seq(Tool), current : SUBSET Nat]
    BY <1>2
  <2>2. wire' \in Seq(Unit)
    BY <1>1, <1>2 DEF Types
  <2> QED
    BY <1>1, <1>2, <1>4, <2>1, <2>2 DEF Types
<1>6. Sound(answer, backend, AllSaid)'
  BY <1>2 DEF Inv, AllSaid
<1>7. Wired'
  <2>1. Going => Entire(Blank, Line)
    BY <1>1 DEF Wired
  <2>2. ASSUME server.ends \in {"whole", "error"}
        PROVE  /\ Line' # <<>>
               /\ Line'[Len(Line') - Len(Blank)].kind =
                    IF server.ends = "whole" THEN "end" ELSE "error"
    <3>1. /\ Line[Len(Line) - Len(Blank)].kind =
               IF server.ends = "whole" THEN "end" ELSE "error"
          /\ Going
      BY <1>1, <1>2, <2>2 DEF Wired, Going
    <3>2. /\ Len(Line') \in Nat /\ Len(Blank) \in Nat
          /\ Len(Line) = Len(Line') + 1 + Len(Blank)
          /\ \A i \in 1..Len(Line') : Line'[i] = Line[i + 1 + Len(Blank)]
      <4>1. Later(Blank, Line, Line')
        BY <1>2
      <4>2. Len(Line') \in Nat /\ Len(Blank) \in Nat
        BY <1>2
      <4> QED
        BY <4>1, <4>2 DEF Later
    <3>3. Len(Line') # 0
      <4> SUFFICES ASSUME Len(Line') = 0 PROVE FALSE
        OBVIOUS
      <4>1. Len(Line) - Len(Blank) = 1
        BY <3>2
      <4> QED
        BY <1>2, <3>1, <4>1
    <3>4. Line' # <<>> /\ Len(Line') > Len(Blank)
      <4>1. Line' # <<>>
        BY <3>3
      <4> QED
        BY <1>2, <3>1, <4>1 DEF Entire
    <3>5. Len(Line') - Len(Blank) \in 1..Len(Line')
      BY <3>2, <3>4
    <3>6. (Len(Line') - Len(Blank)) + 1 + Len(Blank) = Len(Line) - Len(Blank)
      BY <3>2
    <3> QED
      BY <3>1, <3>2, <3>4, <3>5, <3>6
  <2>3. r.pc = "reading"
    OBVIOUS
  <2> QED
    BY <1>2, <2>2, <2>3 DEF Wired, Going
<1>8. Verdicts'
  <2>1. \A i \in 1..Len(queue') : queue'[i].kind # "done" /\ queue'[i].kind # "error"
    BY <1>4
  <2>2. agent.pc = "listening" /\ agent.error = FALSE /\ agent' = agent
    BY <1>2 DEF Verdicts, Inv
  <2> QED
    BY <2>1, <2>2 DEF Verdicts
<1>9. AllTold'
  <2>1. PICK e : /\ Course(answer, backend, queue', e) /\ e[0] = f[0]
                 /\ e[Len(queue')].said = h[1].said
                 /\ backend = "openai" => e[Len(queue')] = h[1]
    BY <1>4
  <2>2. r.pc = "reading"
    OBVIOUS
  <2>3. ToldOnWire(g)'
    <3>1. Going' = Going /\ AllSaid' = AllSaid /\ (Going => h[Len(Line)] = AllSaid)
      BY <1>2 DEF Going, AllSaid, ToldOnWire
    <3> QED
      BY <1>2, <1>3, <2>2, <3>1 DEF ToldOnWire
  <2>4. ToldInQueue(g, e)'
    BY <1>2, <1>3, <2>1 DEF ToldInQueue
  <2> QED
    BY <2>3, <2>4 DEF AllTold
<1>10. RunAsAsked'
  BY <1>2 DEF RunAsAsked
<1> QED
  BY <1>5, <1>6, <1>7, <1>8, <1>9, <1>10 DEF Inv

-----------------------------------------------------------------------------
(* What each event of a call does to what has been told of the calls.        *)
LEMMA Begins ==
    ASSUME Types, NEW p, NEW n, NEW u, Sound(answer, backend, p), Sound(answer, backend, n),
           TellsBegin(answer, backend, p, u, n)
    PROVE  /\ Len(n.given) = Len(p.given) + 1 /\ n.said = p.said
           /\ \A i \in 1..Len(p.given) : ToolAt(answer, n, i) = ToolAt(answer, p, i)
           /\ ToolAt(answer, n, Len(p.given) + 1) = [name |-> u.name, args |-> u.args]
           /\ u.name # ""
<1> DEFINE g == p.given
           j == Len(g) + 1
           c == answer.calls[j].args
<1>1. /\ g \in Seq(Nat) /\ p.whole \in SUBSET (1..Len(g)) /\ Len(g) \in 0..Len(Calls)
      /\ n.said = p.said /\ n.whole = p.whole /\ n.given = Append(g, Len(u.args))
      /\ Len(g) < Len(Calls) /\ u.name = Calls[j].name
      /\ u.args = <<>> \/ u.args = c
  <2>1. /\ p.given \in Seq(Nat) /\ Len(p.given) \in 0..Len(Calls)
    BY ToolsType
  <2> QED
    BY <2>1 DEF Sound, TellsBegin, Calls
<1>2. j \in 1..Len(Calls) /\ c \in Seq(STRING) /\ u.name # "" /\ Len(g) \in Nat
  <2>1. /\ Len(Calls) \in Nat /\ Calls = answer.calls
        /\ \A i \in 1..Len(Calls) : Calls[i].args \in Seq(STRING) /\ Calls[i].name # ""
    BY AnswerIs
  <2>2. j \in 1..Len(Calls) /\ Len(g) \in Nat
    <3>1. Len(g) \in 0..Len(Calls) /\ Len(g) < Len(Calls) /\ Len(Calls) \in Nat
      BY <1>1, <2>1
    <3> HIDE DEF g
    <3> QED
      BY <3>1
  <2> QED
    BY <1>1, <2>1, <2>2
<1> HIDE DEF g, c
<1>3. /\ Len(n.given) = j /\ n.given[j] = Len(u.args)
      /\ \A i \in 1..Len(g) : n.given[i] = g[i]
  <2>1. Len(u.args) \in Nat
    <3>1. <<>> \in Seq(STRING)
      OBVIOUS
    <3>2. u.args \in Seq(STRING)
      BY <1>1, <1>2, <3>1
    <3> QED
      BY <3>2
  <2> QED
    BY <1>1, <2>1
<1>4. \A i \in 1..Len(g) : ToolAt(answer, n, i) = ToolAt(answer, p, i)
  BY <1>1, <1>3 DEF ToolAt, g
<1>5. SubSeq(c, 1, Len(u.args)) = u.args
  <2>1. SubSeq(c, 1, 0) = <<>> /\ SubSeq(c, 1, Len(c)) = c /\ Len(<<>>) = 0
    BY <1>2, NoneAll
  <2>2. CASE u.args = <<>>
    BY <2>1, <2>2
  <2>3. CASE u.args = c
    BY <2>1, <2>3
  <2> QED
    BY <1>1, <2>2, <2>3
<1>6. j \notin n.whole
  <2>1. n.whole \in SUBSET (1..Len(g)) /\ Len(g) \in Nat
    BY <1>1, <1>2
  <2> QED
    BY <2>1
<1>7. ToolAt(answer, n, j) = [name |-> u.name, args |-> u.args]
  <2>1. ToolAt(answer, n, j) = [name |-> answer.calls[j].name, args |-> SubSeq(c, 1, n.given[j])]
    BY <1>6 DEF ToolAt, c
  <2>2. answer.calls[j].name = u.name
    BY <1>1 DEF Calls
  <2> QED
    BY <1>3, <1>5, <2>1, <2>2
<1> QED
  BY <1>1, <1>2, <1>3, <1>4, <1>7 DEF g

LEMMA Gives ==
    ASSUME Types, NEW p, NEW n, NEW u, Sound(answer, backend, p), Sound(answer, backend, n),
           TellsArgs(answer, backend, p, u, n)
    PROVE  \E j \in 1..Len(p.given) :
             /\ u.call = {j} /\ u.name = "" /\ Len(n.given) = Len(p.given) /\ n.said = p.said
             /\ \A i \in 1..Len(p.given) :
                  i # j => ToolAt(answer, n, i) = ToolAt(answer, p, i)
             /\ ToolAt(answer, n, j) = [name |-> ToolAt(answer, p, j).name,
                                        args |-> ToolAt(answer, p, j).args \o u.args]
             /\ backend = "anthropic" => j = Len(p.given)
<1>1. PICK j \in 1..Len(p.given) :
         /\ u.call = {j} /\ u.name = "" /\ j \notin p.whole
         /\ p.given[j] < Len(answer.calls[j].args)
         /\ u.args = <<answer.calls[j].args[p.given[j] + 1]>>
         /\ n.given = [p.given EXCEPT ![j] = @ + 1]
         /\ backend = "anthropic" => j = Len(p.given)
  BY DEF TellsArgs
<1>2. n.said = p.said /\ n.whole = p.whole
  BY DEF TellsArgs
<1> DEFINE g == p.given
           c == answer.calls[j].args
           x == g[j]
<1>3. g \in Seq(Nat) /\ c \in Seq(STRING) /\ x \in Nat /\ x < Len(c)
  <2>1. /\ g \in Seq(Nat) /\ \A i \in 1..Len(g) : i \in 1..Len(Calls) /\ g[i] \in 0..Pieces(i)
    BY ToolsType
  <2>2. \A i \in 1..Len(Calls) : Calls[i].args \in Seq(STRING)
    BY AnswerIs
  <2>3. c \in Seq(STRING) /\ x \in Nat
    BY <2>1, <2>2 DEF Calls
  <2> QED
    BY <1>1, <2>1, <2>3
<1>4. /\ Len(n.given) = Len(g) /\ n.given[j] = x + 1
      /\ \A i \in 1..Len(g) : i # j => n.given[i] = g[i]
  <2>1. n.given = [g EXCEPT ![j] = x + 1] /\ j \in 1..Len(g)
    BY <1>1
  <2> HIDE DEF g, x
  <2> QED
    BY <1>3, <2>1
<1>5. SubSeq(c, 1, x + 1) = SubSeq(c, 1, x) \o <<c[x + 1]>>
  <2> HIDE DEF c, x
  <2> QED
    BY <1>3
<1>6. \A i \in 1..Len(g) : i # j => ToolAt(answer, n, i) = ToolAt(answer, p, i)
  BY <1>2, <1>4 DEF ToolAt
<1>7. ToolAt(answer, p, j) = [name |-> answer.calls[j].name, args |-> SubSeq(c, 1, x)]
  BY <1>1 DEF ToolAt
<1>8. ToolAt(answer, n, j) = [name |-> answer.calls[j].name, args |-> SubSeq(c, 1, x + 1)]
  BY <1>1, <1>2, <1>4 DEF ToolAt
<1>9. u.args = <<c[x + 1]>>
  BY <1>1
<1> HIDE DEF c, x
<1>10. ToolAt(answer, n, j) = [name |-> ToolAt(answer, p, j).name,
                               args |-> ToolAt(answer, p, j).args \o u.args]
  <2>1. /\ ToolAt(answer, p, j).name = answer.calls[j].name
        /\ ToolAt(answer, p, j).args = SubSeq(c, 1, x)
    <3> DEFINE v == SubSeq(c, 1, x)
    <3>1. ToolAt(answer, p, j) = [name |-> answer.calls[j].name, args |-> v]
      BY <1>7
    <3> HIDE DEF v
    <3>2. ToolAt(answer, p, j).name = answer.calls[j].name /\ ToolAt(answer, p, j).args = v
      BY <3>1
    <3> QED
      BY <3>2 DEF v
  <2> QED
    BY <1>5, <1>8, <1>9, <2>1, Zenon
<1> QED
  BY <1>1, <1>2, <1>4, <1>6, <1>10

LEMMA GivesWhole ==
    ASSUME Types, NEW p, NEW n, NEW u, Sound(answer, backend, p), Sound(answer, backend, n),
           TellsWhole(answer, backend, p, u, n)
    PROVE  \E j \in 1..Len(p.given) :
             /\ u.call = {j} /\ Len(n.given) = Len(p.given) /\ n.said = p.said
             /\ \A i \in 1..Len(p.given) :
                  i # j => ToolAt(answer, n, i) = ToolAt(answer, p, i)
             /\ ToolAt(answer, n, j) = [name |-> ToolAt(answer, p, j).name, args |-> u.args]
BY DEF TellsWhole, ToolAt

(* The reader's table of calls, with an entry enlarged or replaced.          *)
Before(i) == IF i <= Len(reader.tools) THEN reader.tools[i] ELSE NoTool
Size(i)   == IF i <= Len(reader.tools) THEN Len(reader.tools) ELSE i

LEMMA EnlargedIs ==
    ASSUME reader.tools \in Seq(Tool), NEW i \in 1..Len(reader.tools) + 1
    PROVE  /\ Enlarged(i) = [j \in 1..Size(i) |-> IF j = i THEN Before(i) ELSE reader.tools[j]]
           /\ Size(i) \in Nat /\ i \in 1..Size(i) /\ Max({i}) = i
<1> DEFINE n == Len(reader.tools)
           t == reader.tools
<1>1. n \in Nat /\ i \in Nat /\ i <= n + 1 /\ i >= 1 /\ DOMAIN t = 1..n
  OBVIOUS
<1> HIDE DEF n, t
<1>2. Max({i, n}) = IF i <= n THEN n ELSE i
  <2>1. CASE i <= n
    <3>1. {i, n} \in SUBSET Nat /\ n \in {i, n} /\ \A x \in {i, n} : x <= n
      BY <1>1, <2>1
    <3>2. Max({i, n}) = n
      BY <3>1, MaxIs, Zenon
    <3> QED
      BY <2>1, <3>2
  <2>2. CASE ~ (i <= n)
    <3>1. {i, n} \in SUBSET Nat /\ i \in {i, n} /\ \A x \in {i, n} : x <= i
      BY <1>1, <2>2
    <3>2. Max({i, n}) = i
      BY <3>1, MaxIs, Zenon
    <3> QED
      BY <2>2, <3>2
  <2> QED
    BY <2>1, <2>2
<1>3. Max({i}) = i
  <2>1. {i} \in SUBSET Nat /\ i \in {i} /\ \A x \in {i} : x <= i
    BY <1>1
  <2> QED
    BY <2>1, MaxIs, Zenon
<1>4. Size(i) = Max({i, n}) /\ Size(i) \in Nat /\ i \in 1..Size(i)
  BY <1>1, <1>2 DEF Size, n
<1>5. \A j \in 1..Size(i) :
        (IF j \in DOMAIN t THEN t[j] ELSE NoTool) = IF j = i THEN Before(i) ELSE t[j]
  <2> TAKE j \in 1..Size(i)
  <2>1. Before(i) = IF i <= n THEN t[i] ELSE NoTool
    BY DEF Before, n, t
  <2>2. Size(i) = IF i <= n THEN n ELSE i
    BY DEF Size, n
  <2> QED
    BY <1>1, <2>1, <2>2
<1>6. Enlarged(i) = [j \in 1..Max({i, n}) |-> IF j \in DOMAIN t THEN t[j] ELSE NoTool]
  BY DEF Enlarged, n, t
<1>7. Enlarged(i) = [j \in 1..Size(i) |-> IF j = i THEN Before(i) ELSE t[j]]
  BY <1>4, <1>5, <1>6
<1> QED
  BY <1>3, <1>4, <1>7 DEF t

LEMMA UpdatedIs ==
    ASSUME reader.tools \in Seq(Tool), NEW i \in 1..Len(reader.tools) + 1
    PROVE  /\ Updated(i) = [j \in 1..Size(i) |-> IF j = i
                THEN [name |-> IF InHand.name = "" THEN Before(i).name ELSE InHand.name,
                      args |-> Before(i).args \o InHand.args]
                ELSE reader.tools[j]]
           /\ Whole(i) = [j \in 1..Size(i) |-> IF j = i
                THEN [name |-> Before(i).name, args |-> InHand.args]
                ELSE reader.tools[j]]
<1> DEFINE t == reader.tools
           b == Before(i)
           e == [j \in 1..Size(i) |-> IF j = i THEN b ELSE t[j]]
           x == IF InHand.name = "" THEN b.name ELSE InHand.name
           a == b.args \o InHand.args
           v == InHand.args
<1>1. Enlarged(i) = e /\ i \in 1..Size(i)
  BY EnlargedIs
<1>2. b = [name |-> b.name, args |-> b.args]
  <2>1. \A y \in Tool : y = [name |-> y.name, args |-> y.args]
    BY DEF Tool
  <2>2. NoTool = [name |-> NoTool.name, args |-> NoTool.args]
    BY DEF NoTool
  <2>3. b \in Tool \/ b = NoTool
    BY DEF Before
  <2> QED
    BY <2>1, <2>2, <2>3
<1>3. /\ Updated(i) = [Enlarged(i) EXCEPT ![i] =
           [name |-> IF InHand.name = "" THEN Enlarged(i)[i].name ELSE InHand.name,
            args |-> Enlarged(i)[i].args \o InHand.args]]
      /\ Whole(i) = [Enlarged(i) EXCEPT ![i] = [Enlarged(i)[i] EXCEPT !.args = v]]
  BY DEF Updated, Whole
<1>4. Enlarged(i)[i] = b
  BY <1>1
<1>5. [b EXCEPT !.args = v] = [name |-> b.name, args |-> v]
  <2> HIDE DEF b, v
  <2> QED
    BY <1>2
<1>6. /\ Updated(i) = [Enlarged(i) EXCEPT ![i] = [name |-> x, args |-> a]]
      /\ Whole(i) = [Enlarged(i) EXCEPT ![i] = [name |-> b.name, args |-> v]]
  BY <1>3, <1>4, <1>5, Zenon
<1>7. \A y : [e EXCEPT ![i] = y] = [j \in 1..Size(i) |-> IF j = i THEN y ELSE t[j]]
  <2> HIDE DEF b, t
  <2> QED
    BY <1>1
<1> HIDE DEF x, a, v, e, b, t
<1>8. /\ Updated(i) = [j \in 1..Size(i) |-> IF j = i THEN [name |-> x, args |-> a] ELSE t[j]]
      /\ Whole(i) = [j \in 1..Size(i) |-> IF j = i THEN [name |-> b.name, args |-> v] ELSE t[j]]
  BY <1>1, <1>6, <1>7, Zenon
<1> QED
  BY <1>8, Zenon DEF x, a, v, b, t

(* Whichever way an event names its call, the entry that it touches is the   *)
(* one of that call.                                                         *)
LEMMA Placed ==
    ASSUME Types, NEW p, NEW n, Sound(answer, backend, p), Sound(answer, backend, n),
           reader.tools = Tools(answer, p), InHand \in Unit,
           \/ TellsBegin(answer, backend, p, InHand, n)
           \/ TellsArgs(answer, backend, p, InHand, n)
           \/ TellsWhole(answer, backend, p, InHand, n)
    PROVE  LET i == Place(InHand.call) IN
           /\ n.said = p.said /\ i \in 1..Len(n.given) /\ Len(n.given) \in Nat
           /\ \/ Len(p.given) = Len(n.given)
              \/ Len(p.given) + 1 = Len(n.given) /\ i = Len(n.given)
           /\ \A j \in 1..Len(n.given) : j # i => ToolAt(answer, n, j) = ToolAt(answer, p, j)
           /\ Tools(answer, n) =
                IF TellsWhole(answer, backend, p, InHand, n) THEN Whole(i) ELSE Updated(i)
<1> DEFINE t == reader.tools
           m == Len(p.given)
           u == InHand
<1>1. /\ t \in Seq(Tool) /\ Len(t) = m /\ m \in Nat
      /\ \A j \in 1..m : t[j] = ToolAt(answer, p, j)
  <2>1. /\ Tools(answer, p) \in Seq(Tool) /\ Len(Tools(answer, p)) = Len(p.given)
        /\ \A j \in 1..Len(p.given) : Tools(answer, p)[j] = ToolAt(answer, p, j)
        /\ Len(p.given) \in 0..Len(Calls)
    BY ToolsType
  <2>2. Len(Calls) \in Nat
    BY AnswerIs
  <2> HIDE DEF m, t
  <2>3. t \in Seq(Tool) /\ Len(t) = m /\ \A j \in 1..m : t[j] = ToolAt(answer, p, j)
    BY <2>1 DEF m, t
  <2> QED
    BY <2>3
<1>2. Tools(answer, n) = [j \in 1..Len(n.given) |-> ToolAt(answer, n, j)]
  BY DEF Tools
<1>3. /\ u.args \in Seq(STRING) /\ <<>> \o u.args = u.args
  <2>1. u.args \in Seq(STRING)
    BY DEF Unit
  <2> QED
    BY <2>1, NoneAll
<1> DEFINE k == Len(n.given)
<1>u. ASSUME NEW i \in 1..m + 1
      PROVE  /\ Max({i}) = i
             /\ Updated(i) = [j \in 1..Size(i) |-> IF j = i
                  THEN [name |-> IF u.name = "" THEN Before(i).name ELSE u.name,
                        args |-> Before(i).args \o u.args]
                  ELSE t[j]]
             /\ Whole(i) = [j \in 1..Size(i) |-> IF j = i
                  THEN [name |-> Before(i).name, args |-> u.args] ELSE t[j]]
             /\ Size(i) = (IF i <= m THEN m ELSE i)
             /\ Before(i) = (IF i <= m THEN t[i] ELSE NoTool)
  <2>1. reader.tools \in Seq(Tool) /\ i \in 1..Len(reader.tools) + 1
    BY <1>1
  <2>2. Max({i}) = i
    BY <2>1, EnlargedIs
  <2>3. /\ Updated(i) = [j \in 1..Size(i) |-> IF j = i
                  THEN [name |-> IF u.name = "" THEN Before(i).name ELSE u.name,
                        args |-> Before(i).args \o u.args]
                  ELSE t[j]]
        /\ Whole(i) = [j \in 1..Size(i) |-> IF j = i
                  THEN [name |-> Before(i).name, args |-> u.args] ELSE t[j]]
    BY <2>1, UpdatedIs
  <2> QED
    BY <1>1, <2>2, <2>3 DEF Size, Before
<1>5. CASE TellsBegin(answer, backend, p, u, n)
  <2> DEFINE i == m + 1
  <2>1. /\ k = i /\ n.said = p.said /\ u.name # ""
        /\ \A j \in 1..m : ToolAt(answer, n, j) = ToolAt(answer, p, j)
        /\ ToolAt(answer, n, i) = [name |-> u.name, args |-> u.args]
    BY <1>5, Begins
  <2>2. i \in 1..m + 1 /\ i \in Nat /\ ~ (i <= m)
    BY <1>1
  <2>3. Place(u.call) = i
    <3>1. u.call = {} \/ u.call = {i}
      BY <1>5 DEF TellsBegin
    <3>2. Max({i}) = i
      BY <1>u, <2>2
    <3>3. {i} # {}
      OBVIOUS
    <3>4. Place(u.call) = IF u.call = {} THEN Len(t) + 1 ELSE Max(u.call)
      BY DEF Place
    <3> QED
      BY <1>1, <3>1, <3>2, <3>3, <3>4
  <2>4. Before(i) = NoTool /\ NoTool.args = <<>> /\ Size(i) = i
    <3>1. NoTool.args = <<>>
      BY DEF NoTool
    <3> QED
      BY <1>u, <2>2, <3>1
  <2>5. Updated(i) = [j \in 1..i |-> IF j = i THEN [name |-> u.name, args |-> u.args] ELSE t[j]]
    <3>1. Updated(i) = [j \in 1..Size(i) |-> IF j = i
                  THEN [name |-> IF u.name = "" THEN Before(i).name ELSE u.name,
                        args |-> Before(i).args \o u.args]
                  ELSE t[j]]
      BY <1>u, <2>2
    <3>2. (IF u.name = "" THEN Before(i).name ELSE u.name) = u.name
      BY <2>1
    <3>3. Before(i).args \o u.args = u.args
      BY <1>3, <2>4
    <3> QED
      BY <2>4, <3>1, <3>2, <3>3, Zenon
  <2>6. \A j \in 1..i : ToolAt(answer, n, j) =
                         IF j = i THEN [name |-> u.name, args |-> u.args] ELSE t[j]
    <3> TAKE j \in 1..i
    <3>1. j = i \/ j \in 1..m
      BY <1>1
    <3> QED
      BY <1>1, <2>1, <2>2, <3>1
  <2>7. ~ TellsWhole(answer, backend, p, u, n)
    BY <1>5 DEF TellsBegin, TellsWhole
  <2>8. Tools(answer, n) = Updated(i)
    <3> HIDE DEF i, t
    <3> QED
      BY <1>2, <2>1, <2>5, <2>6
  <2>9. \A j \in 1..i : j # i => ToolAt(answer, n, j) = ToolAt(answer, p, j)
    <3> TAKE j \in 1..i
    <3>1. j # i => j \in 1..m
      BY <1>1
    <3> QED
      BY <2>1, <3>1
  <2> HIDE DEF i, m
  <2>10. m + 1 = k /\ k \in Nat /\ i \in 1..k
    BY <2>1, <2>2 DEF i
  <2> QED
    BY <2>1, <2>3, <2>7, <2>8, <2>9, <2>10 DEF m
<1>6. CASE TellsArgs(answer, backend, p, u, n)
  <2>1. PICK i \in 1..m :
             /\ u.call = {i} /\ u.name = "" /\ k = m /\ n.said = p.said
             /\ \A j \in 1..m : j # i => ToolAt(answer, n, j) = ToolAt(answer, p, j)
             /\ ToolAt(answer, n, i) = [name |-> ToolAt(answer, p, i).name,
                                        args |-> ToolAt(answer, p, i).args \o u.args]
    <3>1. \E j \in 1..Len(p.given) :
             /\ u.call = {j} /\ u.name = "" /\ Len(n.given) = Len(p.given) /\ n.said = p.said
             /\ \A i \in 1..Len(p.given) :
                  i # j => ToolAt(answer, n, i) = ToolAt(answer, p, i)
             /\ ToolAt(answer, n, j) = [name |-> ToolAt(answer, p, j).name,
                                        args |-> ToolAt(answer, p, j).args \o u.args]
             /\ backend = "anthropic" => j = Len(p.given)
      BY <1>6, Gives, Zenon
    <3> QED
      BY <3>1, Zenon
  <2>2. i \in 1..m + 1 /\ i <= m
    BY <1>1
  <2>3. Place(u.call) = i
    <3>1. Max({i}) = i
      BY <1>u, <2>2
    <3> QED
      BY <2>1, <3>1 DEF Place
  <2>4. Before(i) = ToolAt(answer, p, i) /\ Size(i) = m
    BY <1>1, <1>u, <2>2
  <2>5. Updated(i) = [j \in 1..m |-> IF j = i THEN ToolAt(answer, n, i) ELSE t[j]]
    <3>1. Updated(i) = [j \in 1..Size(i) |-> IF j = i
                  THEN [name |-> IF u.name = "" THEN Before(i).name ELSE u.name,
                        args |-> Before(i).args \o u.args]
                  ELSE t[j]]
      BY <1>u, <2>2
    <3>2. (IF u.name = "" THEN Before(i).name ELSE u.name) = Before(i).name
      BY <2>1
    <3> QED
      BY <2>1, <2>4, <3>1, <3>2, Zenon
  <2>6. \A j \in 1..m : ToolAt(answer, n, j) =
                         IF j = i THEN ToolAt(answer, n, i) ELSE t[j]
    BY <1>1, <2>1
  <2>7. ~ TellsWhole(answer, backend, p, u, n)
    BY <1>6 DEF TellsArgs, TellsWhole
  <2>8. Tools(answer, n) = Updated(i)
    <3> HIDE DEF m, t
    <3> QED
      BY <1>2, <2>1, <2>5, <2>6
  <2> QED
    BY <1>1, <2>1, <2>3, <2>7, <2>8
<1>7. CASE TellsWhole(answer, backend, p, u, n)
  <2>1. PICK i \in 1..m :
             /\ u.call = {i} /\ k = m /\ n.said = p.said
             /\ \A j \in 1..m : j # i => ToolAt(answer, n, j) = ToolAt(answer, p, j)
             /\ ToolAt(answer, n, i) = [name |-> ToolAt(answer, p, i).name, args |-> u.args]
    BY <1>7, GivesWhole
  <2>2. i \in 1..m + 1 /\ i <= m
    BY <1>1
  <2>3. Place(u.call) = i
    <3>1. Max({i}) = i
      BY <1>u, <2>2
    <3> QED
      BY <2>1, <3>1 DEF Place
  <2>4. Before(i) = ToolAt(answer, p, i) /\ Size(i) = m
    BY <1>1, <1>u, <2>2
  <2>5. Whole(i) = [j \in 1..m |-> IF j = i THEN ToolAt(answer, n, i) ELSE t[j]]
    <3>1. Whole(i) = [j \in 1..Size(i) |-> IF j = i
                  THEN [name |-> Before(i).name, args |-> u.args] ELSE t[j]]
      BY <1>u, <2>2
    <3> QED
      BY <2>1, <2>4, <3>1, Zenon
  <2>6. \A j \in 1..m : ToolAt(answer, n, j) =
                         IF j = i THEN ToolAt(answer, n, i) ELSE t[j]
    BY <1>1, <2>1
  <2>8. Tools(answer, n) = Whole(i)
    <3> HIDE DEF m, t
    <3> QED
      BY <1>2, <2>1, <2>5, <2>6
  <2> QED
    BY <1>1, <1>7, <2>1, <2>3, <2>8
<1> QED
  BY <1>5, <1>6, <1>7

(* What the reader and the queue know while the reader is at work.           *)
LEMMA AtWork ==
    ASSUME Inv, NEW kind, NEW messages, NEW r, Extract(kind, messages, r),
           NEW h, NEW f, ToldOnWire(h), ToldInQueue(h, f)
    PROVE  /\ Types /\ InHand \in Unit /\ InHand.kind = kind
           /\ Sound(answer, backend, h[0]) /\ Sound(answer, backend, h[1])
           /\ Tells(answer, backend, h[0], InHand, h[1])
           /\ reader \in [pc : {"reading"}, tools : Seq(Tool), current : SUBSET Nat]
           /\ reader.tools = Tools(answer, h[0])
           /\ reader.current = IF backend = "anthropic" /\ reader.tools # <<>>
                                 THEN {Len(reader.tools)} ELSE {}
           /\ Tools(answer, h[1]) \in Seq(Tool)
           /\ f[Len(queue)].said = h[0].said
           /\ IF backend = "openai" THEN f[Len(queue)] = h[0] ELSE f[Len(queue)].given = <<>>
<1>1. Types /\ InHand \in Unit /\ InHand.kind = kind /\ reader.pc = "reading"
  BY Extracted DEF Inv
<1>2. \E g : /\ Chain(answer, backend, Line', g) /\ g[0] = h[1]
             /\ g[Len(Line')] = h[Len(Line)]
             /\ Sound(answer, backend, h[0]) /\ Sound(answer, backend, h[1])
             /\ Tells(answer, backend, h[0], InHand, h[1])
  BY StillTold
<1>3. reader \in [pc : {"reading"}, tools : Seq(Tool), current : SUBSET Nat]
  BY <1>1 DEF Types
<1>4. /\ reader.tools = Tools(answer, h[0])
      /\ reader.current = IF backend = "anthropic" /\ reader.tools # <<>>
                            THEN {Len(reader.tools)} ELSE {}
  BY DEF ToldOnWire
<1>5. Tools(answer, h[1]) \in Seq(Tool)
  <2> DEFINE p == h[1]
  <2>1. Sound(answer, backend, p)
    BY <1>2
  <2> HIDE DEF p
  <2>2. Tools(answer, p) \in Seq(Tool)
    BY <1>1, <2>1, ToolsType
  <2> QED
    BY <2>2 DEF p
<1>6. /\ f[Len(queue)].said = h[0].said
      /\ IF backend = "openai" THEN f[Len(queue)] = h[0] ELSE f[Len(queue)].given = <<>>
  <2>1. Len(queue) \in 0..Len(queue)
    <3>1. queue \in Seq(Msg)
      BY <1>1 DEF Types
    <3> QED
      BY <3>1
  <2> QED
    BY <2>1 DEF ToldInQueue, Course
<1> QED
  BY <1>1, <1>2, <1>3, <1>4, <1>5, <1>6

LEMMA ReadQuietInv ==
    ASSUME Inv, NEW kind \in {"begin", "args", "whole"}, NEW messages, NEW r,
           Extract(kind, messages, r), NEW h, NEW f, ToldOnWire(h), ToldInQueue(h, f),
           r \in [pc : {"reading"}, tools : Seq(Tool), current : SUBSET Nat],
           r.tools = Tools(answer, h[1]),
           r.current = IF backend = "anthropic" /\ r.tools # <<>>
                         THEN {Len(r.tools)} ELSE {},
           messages = <<>>, backend # "openai", h[1].said = h[0].said
    PROVE  Inv'
<1>1. kind \in {"text", "begin", "args", "whole"}
  OBVIOUS
<1> QED
  BY <1>1, ReadInv, Zenon

LEMMA ReadTextInv ==
    ASSUME Inv, ReadText
    PROVE  Inv'
<1> DEFINE x == Message("text", InHand.text, <<>>)
<1>1. PICK messages, r : messages = <<x>> /\ r = reader /\ Extract("text", messages, r)
  BY DEF ReadText
<1>2. PICK h, f : ToldOnWire(h) /\ ToldInQueue(h, f)
  BY DEF Inv, AllTold
<1>3. /\ Types /\ InHand \in Unit /\ InHand.kind = "text"
      /\ Sound(answer, backend, h[0]) /\ Sound(answer, backend, h[1])
      /\ Tells(answer, backend, h[0], InHand, h[1])
      /\ reader \in [pc : {"reading"}, tools : Seq(Tool), current : SUBSET Nat]
      /\ reader.tools = Tools(answer, h[0])
      /\ reader.current = IF backend = "anthropic" /\ reader.tools # <<>>
                            THEN {Len(reader.tools)} ELSE {}
      /\ f[Len(queue)].said = h[0].said
      /\ IF backend = "openai" THEN f[Len(queue)] = h[0] ELSE f[Len(queue)].given = <<>>
  BY <1>1, <1>2, AtWork
<1>4. TellsText(answer, h[0], InHand, h[1])
  BY <1>3 DEF Tells, Mark, TellsBegin, TellsArgs, TellsWhole
<1>5. Tools(answer, h[1]) = Tools(answer, h[0])
  BY <1>4 DEF TellsText, Tools
<1>6. x \in Msg /\ x.kind = "text" /\ x.text = InHand.text
  <2>1. InHand.text \in Seq(STRING) /\ <<>> \in Seq(CallNow)
    BY <1>3 DEF Unit
  <2> QED
    BY <2>1 DEF Message, Msg
<1> HIDE DEF x
<1>7. BringsText(answer, f[Len(queue)], x, h[1])
  BY <1>3, <1>4, <1>6 DEF TellsText, BringsText
<1>8. Brings(answer, backend, f[Len(queue)], x, h[1]) /\ h[1].given = <<>>
  BY <1>4, <1>7 DEF Brings, TellsText
<1>9. \E y \in Msg :
        /\ messages = <<y>> /\ y.kind \in {"text", "calls"}
        /\ Brings(answer, backend, f[Len(queue)], y, h[1])
        /\ backend # "openai" => h[1].given = <<>>
  BY <1>1, <1>6, <1>8
<1>10. /\ r \in [pc : {"reading"}, tools : Seq(Tool), current : SUBSET Nat]
       /\ r.tools = Tools(answer, h[1])
       /\ r.current = IF backend = "anthropic" /\ r.tools # <<>>
                        THEN {Len(r.tools)} ELSE {}
  BY <1>1, <1>3, <1>5
<1> QED
  BY <1>1, <1>2, <1>9, <1>10, ReadInv

LEMMA ReadOpenAiCallInv ==
    ASSUME Inv, ReadOpenAiCall
    PROVE  Inv'
<1> DEFINE i == Place(InHand.call)
           x == Message("calls", <<>>, <<Numbered(i, Updated(i)[i])>>)
<1>1. PICK kind \in {"begin", "args"} :
         Extract(kind, <<x>>, [reader EXCEPT !.tools = Updated(i)])
  BY DEF ReadOpenAiCall
<1>2. PICK messages, r : /\ messages = <<x>> /\ r = [reader EXCEPT !.tools = Updated(i)]
                         /\ Extract(kind, messages, r)
  BY <1>1
<1>3. PICK h, f : ToldOnWire(h) /\ ToldInQueue(h, f)
  BY DEF Inv, AllTold
<1>o. backend = "openai"
  BY DEF ReadOpenAiCall
<1>4. /\ Types /\ InHand \in Unit /\ InHand.kind = kind
      /\ Sound(answer, backend, h[0]) /\ Sound(answer, backend, h[1])
      /\ Tells(answer, backend, h[0], InHand, h[1])
      /\ reader \in [pc : {"reading"}, tools : Seq(Tool), current : SUBSET Nat]
      /\ reader.tools = Tools(answer, h[0]) /\ Tools(answer, h[1]) \in Seq(Tool)
      /\ reader.current = {}
      /\ f[Len(queue)] = h[0]
  BY <1>2, <1>3, <1>o, AtWork
<1>5. /\ TellsBegin(answer, backend, h[0], InHand, h[1])
         \/ TellsArgs(answer, backend, h[0], InHand, h[1])
      /\ ~ TellsWhole(answer, backend, h[0], InHand, h[1])
  BY <1>4 DEF Tells, Mark, TellsText, TellsWhole
<1> DEFINE p == h[0]
           n == h[1]
<1>6. /\ n.said = p.said /\ i \in 1..Len(n.given) /\ Len(n.given) \in Nat
      /\ \/ Len(p.given) = Len(n.given)
         \/ Len(p.given) + 1 = Len(n.given) /\ i = Len(n.given)
      /\ \A j \in 1..Len(n.given) : j # i => ToolAt(answer, n, j) = ToolAt(answer, p, j)
      /\ Tools(answer, n) = Updated(i)
  BY <1>4, <1>5, Placed
<1>7. Updated(i)[i] = ToolAt(answer, n, i) /\ ToolAt(answer, n, i) \in Tool
  <2>1. \A j \in 1..Len(n.given) : /\ ToolAt(answer, n, j) \in Tool
                                    /\ Tools(answer, n)[j] = ToolAt(answer, n, j)
    BY <1>4, ToolsType
  <2> QED
    BY <1>6, <2>1
<1>8. x.kind = "calls" /\ x.calls = <<Numbered(i, ToolAt(answer, n, i))>>
  BY <1>7 DEF Message
<1>9. x \in Msg
  <2>1. Numbered(i, Updated(i)[i]) \in CallNow
    BY <1>6, <1>7 DEF Tool, CallNow, Numbered
  <2> DEFINE c == <<Numbered(i, Updated(i)[i])>>
  <2>2. c \in Seq(CallNow)
    BY <2>1
  <2> HIDE DEF c
  <2>3. <<>> \in Seq(STRING) /\ Message("calls", <<>>, c) \in Msg
    BY <2>2 DEF Message, Msg
  <2> QED
    BY <2>3 DEF c
<1> HIDE DEF x, i
<1>10. BringsCall(answer, backend, p, x, n)
  BY <1>6, <1>8, <1>o DEF BringsCall
<1>11. Brings(answer, backend, f[Len(queue)], x, h[1])
  BY <1>4, <1>10 DEF Brings
<1>12. \E y \in Msg :
        /\ messages = <<y>> /\ y.kind \in {"text", "calls"}
        /\ Brings(answer, backend, f[Len(queue)], y, h[1])
        /\ backend # "openai" => h[1].given = <<>>
  BY <1>2, <1>8, <1>9, <1>11, <1>o
<1>13. /\ r \in [pc : {"reading"}, tools : Seq(Tool), current : SUBSET Nat]
       /\ r.tools = Tools(answer, h[1])
       /\ r.current = IF backend = "anthropic" /\ r.tools # <<>>
                        THEN {Len(r.tools)} ELSE {}
  BY <1>2, <1>4, <1>6, <1>o
<1>14. kind \in {"text", "begin", "args", "whole"} /\ Extract(kind, messages, r)
  BY <1>2
<1> HIDE DEF p, n
<1> QED
  BY <1>3, <1>12, <1>13, <1>14, ReadInv, ZenonT(30)

LEMMA ReadResponsesCallInv ==
    ASSUME Inv, ReadResponsesCall
    PROVE  Inv'
<1> DEFINE i == Place(InHand.call)
<1>o. backend = "responses"
  BY DEF ReadResponsesCall
<1>1. PICK kind \in {"begin", "args", "whole"} :
         Extract(kind, <<>>, [reader EXCEPT !.tools =
                                IF kind = "whole" THEN Whole(i) ELSE Updated(i)])
  <2>1. \/ \E kind \in {"begin", "args"} :
             Extract(kind, <<>>, [reader EXCEPT !.tools = Updated(i)])
        \/ Extract("whole", <<>>, [reader EXCEPT !.tools = Whole(i)])
    BY DEF ReadResponsesCall
  <2> QED
    BY <2>1
<1>2. PICK messages, r :
         /\ messages = <<>>
         /\ r = [reader EXCEPT !.tools = IF kind = "whole" THEN Whole(i) ELSE Updated(i)]
         /\ Extract(kind, messages, r)
  BY <1>1
<1>3. PICK h, f : ToldOnWire(h) /\ ToldInQueue(h, f)
  BY DEF Inv, AllTold
<1>4. /\ Types /\ InHand \in Unit /\ InHand.kind = kind
      /\ Sound(answer, backend, h[0]) /\ Sound(answer, backend, h[1])
      /\ Tells(answer, backend, h[0], InHand, h[1])
      /\ reader \in [pc : {"reading"}, tools : Seq(Tool), current : SUBSET Nat]
      /\ reader.tools = Tools(answer, h[0]) /\ Tools(answer, h[1]) \in Seq(Tool)
      /\ reader.current = {}
  BY <1>2, <1>3, <1>o, AtWork
<1>5. /\ \/ TellsBegin(answer, backend, h[0], InHand, h[1])
         \/ TellsArgs(answer, backend, h[0], InHand, h[1])
         \/ TellsWhole(answer, backend, h[0], InHand, h[1])
      /\ TellsWhole(answer, backend, h[0], InHand, h[1]) <=> kind = "whole"
  BY <1>4 DEF Tells, Mark, TellsText, TellsWhole, TellsBegin, TellsArgs
<1> DEFINE p == h[0]
           n == h[1]
<1>6. /\ n.said = p.said
      /\ Tools(answer, n) =
           IF TellsWhole(answer, backend, p, InHand, n) THEN Whole(i) ELSE Updated(i)
  BY <1>4, <1>5, Placed
<1>7. /\ r \in [pc : {"reading"}, tools : Seq(Tool), current : SUBSET Nat]
      /\ r.tools = Tools(answer, h[1])
      /\ r.current = IF backend = "anthropic" /\ r.tools # <<>>
                       THEN {Len(r.tools)} ELSE {}
  <2>1. r = [reader EXCEPT !.tools = Tools(answer, n)]
    BY <1>2, <1>5, <1>6
  <2> QED
    BY <1>4, <1>o, <2>1
<1>8. messages = <<>> /\ backend # "openai" /\ h[1].said = h[0].said
  BY <1>2, <1>6, <1>o
<1> QED
  BY <1>2, <1>3, <1>7, <1>8, ReadQuietInv, ZenonT(30)

LEMMA ReadAnthropicCallInv ==
    ASSUME Inv, ReadAnthropicCall
    PROVE  Inv'
<1> DEFINE rb == [reader EXCEPT
                    !.tools = Append(@, [name |-> InHand.name, args |-> <<>>]),
                    !.current = {Len(reader.tools) + 1}]
           ra == [reader EXCEPT !.tools = Grown]
<1>o. backend = "anthropic"
  BY DEF ReadAnthropicCall
<1>1. PICK kind \in {"begin", "args"} :
         Extract(kind, <<>>, IF kind = "begin" THEN rb ELSE ra)
  BY DEF ReadAnthropicCall
<1>2. PICK messages, r :
         /\ messages = <<>> /\ r = (IF kind = "begin" THEN rb ELSE ra)
         /\ Extract(kind, messages, r)
  BY <1>1
<1>3. PICK h, f : ToldOnWire(h) /\ ToldInQueue(h, f)
  BY DEF Inv, AllTold
<1> DEFINE p == h[0]
           n == h[1]
           t == reader.tools
           m == Len(p.given)
           v == Tools(answer, n)
<1>4. /\ Types /\ InHand \in Unit /\ InHand.kind = kind
      /\ Sound(answer, backend, h[0]) /\ Sound(answer, backend, h[1])
      /\ Tells(answer, backend, h[0], InHand, h[1])
      /\ reader \in [pc : {"reading"}, tools : Seq(Tool), current : SUBSET Nat]
      /\ reader.tools = Tools(answer, h[0]) /\ Tools(answer, h[1]) \in Seq(Tool)
      /\ reader.current = IF reader.tools # <<>> THEN {Len(reader.tools)} ELSE {}
  BY <1>2, <1>3, <1>o, AtWork
<1>5. /\ t \in Seq(Tool) /\ Len(t) = m /\ m \in Nat /\ DOMAIN t = 1..m
      /\ \A j \in 1..m : t[j] = ToolAt(answer, p, j) /\ t[j] \in Tool
      /\ v \in Seq(Tool) /\ Len(v) = Len(n.given)
      /\ \A j \in 1..Len(n.given) : v[j] = ToolAt(answer, n, j)
  <2> DEFINE w == Tools(answer, p)
  <2>1. /\ w \in Seq(Tool) /\ Len(w) = m
        /\ \A j \in 1..m : w[j] = ToolAt(answer, p, j)
    BY <1>4, ToolsType
  <2>2. /\ v \in Seq(Tool) /\ Len(v) = Len(n.given)
        /\ \A j \in 1..Len(n.given) : v[j] = ToolAt(answer, n, j)
    BY <1>4, ToolsType
  <2>3. t = w
    BY <1>4
  <2> HIDE DEF m, t, v, w
  <2>4. Len(t) \in Nat /\ DOMAIN t = 1..Len(t) /\ \A j \in 1..Len(t) : t[j] \in Tool
    BY <2>1, <2>3
  <2> QED
    BY <2>1, <2>2, <2>3, <2>4
<1>6. CASE kind = "begin"
  <2>1. TellsBegin(answer, backend, p, InHand, n) /\ InHand.args = <<>>
    <3>1. TellsBegin(answer, backend, p, InHand, n)
      BY <1>4, <1>6 DEF Tells, Mark, TellsText, TellsWhole, TellsArgs
    <3> QED
      BY <1>o, <3>1 DEF TellsBegin
  <2>2. /\ Len(n.given) = m + 1 /\ n.said = p.said
        /\ \A j \in 1..m : ToolAt(answer, n, j) = ToolAt(answer, p, j)
        /\ ToolAt(answer, n, m + 1) = [name |-> InHand.name, args |-> InHand.args]
    BY <1>4, <2>1, Begins, ZenonT(30)
  <2> DEFINE c == [name |-> InHand.name, args |-> <<>>]
  <2>3. c = ToolAt(answer, n, m + 1)
    BY <2>1, <2>2
  <2>4. v = Append(t, c)
    <3>1. c \in Tool
      BY <1>5, <2>2, <2>3
    <3> HIDE DEF c, t, v, m
    <3>2. /\ Append(t, c) \in Seq(Tool) /\ Len(Append(t, c)) = m + 1
          /\ \A j \in 1..m : Append(t, c)[j] = t[j]
          /\ Append(t, c)[m + 1] = c
      BY <1>5, <3>1
    <3>3. \A j \in 1..m + 1 : v[j] = Append(t, c)[j]
      <4> TAKE j \in 1..m + 1
      <4>1. j \in 1..m \/ j = m + 1
        BY <1>5
      <4>2. v[j] = ToolAt(answer, n, j)
        BY <1>5, <2>2
      <4> QED
        BY <1>5, <2>2, <2>3, <3>2, <4>1, <4>2
    <3> QED
      BY <1>5, <2>2, <3>2, <3>3, Same, Zenon
  <2>5. r = [reader EXCEPT !.tools = v, !.current = {m + 1}]
    BY <1>2, <1>5, <1>6, <2>4
  <2>6. v # <<>> /\ Len(v) = m + 1 /\ m + 1 \in Nat
    <3> HIDE DEF v, m
    <3> QED
      BY <1>5, <2>2
  <2>7. /\ r \in [pc : {"reading"}, tools : Seq(Tool), current : SUBSET Nat]
        /\ r.tools = Tools(answer, h[1])
        /\ r.current = IF backend = "anthropic" /\ r.tools # <<>>
                         THEN {Len(r.tools)} ELSE {}
    <3> HIDE DEF v, m
    <3>1. r.tools = v /\ r.current = {m + 1}
      BY <1>4, <2>5
    <3>2. r \in [pc : {"reading"}, tools : Seq(Tool), current : SUBSET Nat]
      BY <1>4, <1>5, <2>5, <2>6
    <3>3. v = Tools(answer, h[1])
      BY DEF v
    <3> QED
      BY <1>o, <2>6, <3>1, <3>2, <3>3
  <2>8. messages = <<>> /\ backend # "openai" /\ h[1].said = h[0].said
    BY <1>2, <1>o, <2>2
  <2>k. kind \in {"begin", "args", "whole"} /\ Extract(kind, messages, r)
    BY <1>2
  <2> QED
    BY <1>3, <2>k, <2>7, <2>8, ReadQuietInv, Zenon
<1>7. CASE kind = "args"
  <2>1. TellsArgs(answer, backend, p, InHand, n)
    BY <1>4, <1>7 DEF Tells, Mark, TellsText, TellsWhole, TellsBegin
  <2>2. PICK j \in 1..m :
             /\ Len(n.given) = m /\ n.said = p.said
             /\ \A i \in 1..m : i # j => ToolAt(answer, n, i) = ToolAt(answer, p, i)
             /\ ToolAt(answer, n, j) = [name |-> ToolAt(answer, p, j).name,
                                        args |-> ToolAt(answer, p, j).args \o InHand.args]
             /\ j = m
    <3>1. \E j \in 1..Len(p.given) :
             /\ InHand.call = {j} /\ InHand.name = "" /\ Len(n.given) = Len(p.given)
             /\ n.said = p.said
             /\ \A i \in 1..Len(p.given) :
                  i # j => ToolAt(answer, n, i) = ToolAt(answer, p, i)
             /\ ToolAt(answer, n, j) = [name |-> ToolAt(answer, p, j).name,
                                        args |-> ToolAt(answer, p, j).args \o InHand.args]
             /\ backend = "anthropic" => j = Len(p.given)
      <4>1. Types /\ Sound(answer, backend, p) /\ Sound(answer, backend, n)
        BY <1>4
      <4> HIDE DEF p, n
      <4>2. \E j \in 1..Len(p.given) :
             /\ InHand.call = {j} /\ InHand.name = "" /\ Len(n.given) = Len(p.given)
                /\ n.said = p.said
             /\ \A i \in 1..Len(p.given) :
                  i # j => ToolAt(answer, n, i) = ToolAt(answer, p, i)
             /\ ToolAt(answer, n, j) = [name |-> ToolAt(answer, p, j).name,
                                        args |-> ToolAt(answer, p, j).args \o InHand.args]
             /\ backend = "anthropic" => j = Len(p.given)
        BY <2>1, <4>1, Gives, Zenon
      <4> QED
        BY <4>2, Zenon
    <3> QED
      BY <1>o, <3>1, Zenon
  <2>3. reader.current = {m} /\ t # <<>>
    <3>1. t # <<>>
      <4> HIDE DEF t, m
      <4> QED
        BY <1>5
    <3> QED
      BY <1>4, <1>5, <3>1
  <2> DEFINE q == [i \in DOMAIN t |->
                     IF i \in {m} THEN [t[i] EXCEPT !.args = @ \o InHand.args] ELSE t[i]]
  <2>4. r = [reader EXCEPT !.tools = q]
    <3>1. Grown = q
      BY <2>3 DEF Grown
    <3>2. r = [reader EXCEPT !.tools = Grown]
      BY <1>2, <1>7
    <3> QED
      BY <3>1, <3>2, Zenon
  <2>5. q = v
    <3>1. \A i \in 1..m : q[i] = v[i]
      <4> TAKE i \in 1..m
      <4>1. CASE i # m
        BY <1>5, <2>2, <4>1
      <4>2. CASE i = m
        <5> DEFINE y == t[m]
                   w == InHand.args
        <5>1. q[i] = [y EXCEPT !.args = y.args \o w] /\ y \in Tool
          BY <1>5, <4>2
        <5>2. v[i] = [name |-> y.name, args |-> y.args \o w]
          BY <1>5, <2>2, <4>2
        <5> DEFINE z == y.args \o w
        <5> HIDE DEF y, z
        <5>3. [y EXCEPT !.args = z] = [name |-> y.name, args |-> z]
          BY <5>1 DEF Tool
        <5> QED
          BY <5>1, <5>2, <5>3 DEF z
      <4> QED
        BY <4>1, <4>2
    <3>2. DOMAIN q = 1..m
      BY <1>5
    <3>3. q = [i \in 1..m |-> q[i]]
      BY <3>2
    <3> HIDE DEF q, v, m
    <3>4. Len(v) = m /\ v \in Seq(Tool) /\ m \in Nat
      BY <1>5, <2>2
    <3> QED
      BY <3>1, <3>3, <3>4
  <2>6. /\ r \in [pc : {"reading"}, tools : Seq(Tool), current : SUBSET Nat]
        /\ r.tools = Tools(answer, h[1])
        /\ r.current = IF backend = "anthropic" /\ r.tools # <<>>
                         THEN {Len(r.tools)} ELSE {}
    <3> HIDE DEF q
    <3>1. Len(v) = m /\ v # <<>> /\ r = [reader EXCEPT !.tools = v]
      <4>1. r = [reader EXCEPT !.tools = v]
        BY <2>4, <2>5
      <4> HIDE DEF v, m
      <4> QED
        BY <1>5, <2>2, <4>1
    <3>2. v = Tools(answer, h[1]) /\ v \in Seq(Tool)
      BY <1>5
    <3> HIDE DEF v, m
    <3>3. r.tools = v /\ r.current = {m}
      BY <1>4, <2>3, <3>1
    <3>4. r \in [pc : {"reading"}, tools : Seq(Tool), current : SUBSET Nat]
      BY <1>4, <3>1, <3>2
    <3> QED
      BY <1>o, <3>1, <3>2, <3>3, <3>4
  <2>7. messages = <<>> /\ backend # "openai" /\ h[1].said = h[0].said
    BY <1>2, <1>o, <2>2
  <2>k. kind \in {"begin", "args", "whole"} /\ Extract(kind, messages, r)
    BY <1>2
  <2> QED
    BY <1>3, <2>k, <2>6, <2>7, ReadQuietInv, Zenon
<1> QED
  BY <1>6, <1>7

-----------------------------------------------------------------------------
LEMMA CourseOn ==
    ASSUME queue \in Seq(Msg), NEW x \in Msg, NEW f, Course(answer, backend, queue, f),
           NEW n, Sound(answer, backend, n), Brings(answer, backend, f[Len(queue)], x, n),
           backend # "openai" => n.given = <<>>
    PROVE  \E e : /\ Course(answer, backend, Append(queue, x), e) /\ e[0] = f[0]
                  /\ e[Len(Append(queue, x))] = n
<1>1. PICK a, k, s, m : a = answer /\ k = backend /\ s = queue /\ m = Len(queue)
  OBVIOUS
<1>2. /\ s \in Seq(Msg) /\ Course(a, k, s, f) /\ Sound(a, k, n)
      /\ Brings(a, k, f[Len(s)], x, n)
      /\ k # "openai" => n.given = <<>>
  BY <1>1
<1>3. \E e : /\ Course(a, k, Append(s, x), e) /\ e[0] = f[0]
             /\ e[Len(Append(s, x))] = n
  BY <1>2, CourseLonger
<1> QED
  BY <1>1, <1>3

(* The reader comes to an end and says how.                                  *)
LEMMA CloseInv ==
    ASSUME Inv, NEW x \in Msg, x.kind \in {"done", "error"},
           queue' = Append(queue, x), reader' = [reader EXCEPT !.pc = "over"],
           UNCHANGED <<backend, answer, server, agent, shown, heard, ran>>,
           reader.pc = "reading", agent.pc = "listening", server.ends # "no",
           wire' \in Seq(Unit), buffer' \in Seq(Unit),
           Turns(Blank, Line'), Going => Entire(Blank, Line'),
           \A i \in 1..Len(Line') : /\ Line'[i].kind = "end" => server.ends = "whole"
                                    /\ Line'[i].kind = "error" => server.ends = "error",
           x.kind = "done" => Good /\ x.calls = AsCalls(reader.tools),
           x.kind = "error" => Bad,
           NEW h, NEW f, ToldOnWire(h), ToldInQueue(h, f),
           NEW g, Chain(answer, backend, Line', g), g[0] = h[0],
           g[Len(Line')] = h[Len(Line)],
           server.ends = "whole" => Complete(answer, h[0])
    PROVE  Inv'
<1>1. Types /\ Verdicts /\ queue \in Seq(Msg) /\ Blank' = Blank
  BY DEF Inv, Types, Blank
<1>2. /\ queue' \in Seq(Msg) /\ Len(queue') = Len(queue) + 1 /\ Len(queue) \in Nat
      /\ \A i \in 1..Len(queue) : queue'[i] = queue[i]
      /\ queue'[Len(queue) + 1] = x
  BY <1>1
<1>3. /\ reader' \in [pc : {"reading", "over"}, tools : Seq(Tool), current : SUBSET Nat]
      /\ reader'.pc = "over" /\ reader'.tools = reader.tools /\ reader'.current = reader.current
  BY <1>1 DEF Types
<1>4. Types'
  BY <1>1, <1>2, <1>3 DEF Types
<1>5. Sound(answer, backend, AllSaid)'
  BY DEF Inv, AllSaid
<1>6. Wired'
  BY <1>1, <1>3 DEF Wired, Going
<1>7. Verdicts'
  <2>1. Good' = Good /\ Bad' = Bad
    BY DEF Good, Bad
  <2>2. \A i \in 1..Len(queue) : queue[i].kind \notin {"done", "error"}
    BY <1>1 DEF Verdicts
  <2>3. \A i \in 1..Len(queue') :
           \/ queue'[i].kind \notin {"done", "error"}
           \/ i = Len(queue') /\ queue'[i] = x
    <3> TAKE i \in 1..Len(queue')
    <3>1. i \in 1..Len(queue) \/ i = Len(queue')
      BY <1>2
    <3> QED
      BY <1>2, <2>2, <3>1
  <2>4. agent'.pc = "listening" /\ ~ agent'.error
    BY <1>1 DEF Verdicts
  <2>5. \A i \in 1..Len(queue') : queue'[i].kind = "done" =>
           Good /\ i = Len(queue') /\ queue'[i].calls = AsCalls(reader.tools)
    BY <2>3
  <2>6. \A i \in 1..Len(queue') : queue'[i].kind = "error" => Bad /\ i = Len(queue')
    BY <2>3
  <2> QED
    BY <1>3, <2>1, <2>4, <2>5, <2>6 DEF Verdicts
<1>8. AllTold'
  <2> DEFINE n == f[Len(queue)]
  <2>1. /\ Course(answer, backend, queue, f) /\ n.said = h[0].said
        /\ backend = "openai" => n = h[0]
    BY DEF ToldInQueue
  <2>2. Sound(answer, backend, n) /\ (backend # "openai" => n.given = <<>>)
    <3>1. Len(queue) \in 0..Len(queue)
      BY <1>2
    <3> QED
      BY <2>1, <3>1 DEF Course
  <2>3. Brings(answer, backend, n, x, n)
    BY DEF Brings
  <2> HIDE DEF n
  <2>n. n = f[Len(queue)]
    BY DEF n
  <2>4. PICK e : /\ Course(answer, backend, queue', e) /\ e[0] = f[0]
                 /\ e[Len(queue')] = n
    <3>1. Brings(answer, backend, f[Len(queue)], x, n)
      BY <2>3, <2>n
    <3>2. \E e : /\ Course(answer, backend, Append(queue, x), e) /\ e[0] = f[0]
                 /\ e[Len(Append(queue, x))] = n
      <4>1. queue \in Seq(Msg) /\ x \in Msg /\ Course(answer, backend, queue, f)
        BY <1>1, <2>1
      <4> QED
        BY <2>2, <3>1, <4>1, CourseOn, SMTT(60)
    <3> QED
      BY <3>2
  <2>5. ToldOnWire(g)'
    <3>1. Going' = Going /\ AllSaid' = AllSaid /\ (Going => h[Len(Line)] = AllSaid)
      BY DEF Going, AllSaid, ToldOnWire
    <3>2. /\ reader.tools = Tools(answer, h[0])
          /\ reader.current = IF backend = "anthropic" /\ reader.tools # <<>>
                                THEN {Len(reader.tools)} ELSE {}
      BY DEF ToldOnWire
    <3> QED
      BY <1>3, <3>1, <3>2 DEF ToldOnWire
  <2>6. ToldInQueue(g, e)'
    <3>1. agent.pc = "listening" =>
            heard = SubSeq(answer.text, 1, f[0].said) /\ agent.calls = AsCalls(Tools(answer, f[0]))
      BY DEF ToldInQueue
    <3> QED
      BY <2>1, <2>4, <3>1 DEF ToldInQueue
  <2> QED
    BY <2>5, <2>6 DEF AllTold
<1>9. RunAsAsked'
  BY DEF RunAsAsked
<1> QED
  BY <1>4, <1>5, <1>6, <1>7, <1>8, <1>9 DEF Inv

(* What the reader says at its end.                                          *)
LEMMA LastWord ==
    ASSUME Types, NEW h, ToldOnWire(h)
    PROVE  /\ Error \in Msg /\ Error.kind = "error"
           /\ Done \in Msg /\ Done.kind = "done" /\ Done.calls = AsCalls(reader.tools)
<1>1. Finalized = AsCalls(reader.tools) /\ Finalized \in Seq(CallNow)
  <2> DEFINE p == h[0]
  <2>1. Sound(answer, backend, p) /\ reader.tools = Tools(answer, p)
    <3>1. 0 \in 0..Len(Line)
      BY LineIs
    <3> QED
      BY <3>1 DEF ToldOnWire, Chain
  <2> HIDE DEF p
  <2> QED
    BY <2>1, FinalizedIs
<1> HIDE DEF Finalized
<1>2. <<>> \in Seq(STRING) /\ <<>> \in Seq(CallNow)
  OBVIOUS
<1>3. \A c \in Seq(CallNow), t \in Seq(STRING), k \in {"done", "error"} :
        /\ Message(k, t, c) \in Msg /\ Message(k, t, c).kind = k
        /\ Message(k, t, c).calls = c
  BY DEF Message, Msg
<1> QED
  BY <1>1, <1>2, <1>3 DEF Error, Done

LEMMA ReadCloseInv ==
    ASSUME Inv, ReadEnd \/ ReadError
    PROVE  Inv'
<1>1. PICK kind \in {"end", "error"} :
        Extract(kind, <<IF kind = "end" THEN Done ELSE Error>>, Over)
  BY DEF ReadEnd, ReadError
<1>2. PICK messages, r, x :
        /\ x = (IF kind = "end" THEN Done ELSE Error) /\ messages = <<x>> /\ r = Over
        /\ Extract(kind, messages, r)
  BY <1>1
<1>3. PICK h, f : ToldOnWire(h) /\ ToldInQueue(h, f)
  BY DEF Inv, AllTold
<1>4. /\ Types /\ InHand \in Unit /\ InHand.kind = kind
      /\ Tells(answer, backend, h[0], InHand, h[1])
  BY <1>2, <1>3, AtWork
<1>5. h[1] = h[0] /\ (kind = "end" => Complete(answer, h[0]))
  BY <1>4 DEF Tells, Mark, TellsText, TellsBegin, TellsArgs, TellsWhole
<1>6. PICK g : /\ Chain(answer, backend, Line', g) /\ g[0] = h[1]
               /\ g[Len(Line')] = h[Len(Line)]
               /\ Sound(answer, backend, h[0]) /\ Sound(answer, backend, h[1])
               /\ Tells(answer, backend, h[0], InHand, h[1])
  BY <1>2, <1>3, StillTold
<1>7. /\ reader.pc = "reading" /\ agent.pc = "listening" /\ reader' = r
      /\ queue' = queue \o messages
      /\ UNCHANGED <<backend, answer, server, wire, agent, shown, heard, ran>>
      /\ buffer' \in Seq(Unit) /\ Line # <<>> /\ Len(Line) >= 1 /\ Line[1].kind = kind
      /\ Turns(Blank, Line') /\ (Going => Entire(Blank, Line'))
      /\ \A i \in 1..Len(Line') : /\ Line'[i].kind = "end" => server.ends = "whole"
                                  /\ Line'[i].kind = "error" => server.ends = "error"
  BY <1>2, Extracted
<1>8. /\ kind = "end" => server.ends = "whole"
      /\ kind = "error" => server.ends = "error"
  <2>1. 1 \in 1..Len(Line)
    BY <1>4, <1>7, LineIs
  <2> QED
    BY <1>7, <2>1 DEF Inv, Wired
<1>9. /\ x \in Msg /\ x.kind = (IF kind = "end" THEN "done" ELSE "error")
      /\ kind = "end" => x.calls = AsCalls(reader.tools)
  BY <1>2, <1>3, <1>4, LastWord
<1>10. /\ queue' = Append(queue, x) /\ reader' = [reader EXCEPT !.pc = "over"]
       /\ wire' \in Seq(Unit) /\ UNCHANGED <<backend, answer, server, agent, shown, heard, ran>>
  <2>1. queue \in Seq(Msg) /\ wire \in Seq(Unit)
    BY <1>4 DEF Types
  <2>2. queue \o <<x>> = Append(queue, x)
    BY <1>9, <2>1
  <2> QED
    BY <1>2, <1>7, <2>1, <2>2 DEF Over
<1>11. /\ x.kind \in {"done", "error"} /\ server.ends # "no"
       /\ x.kind = "done" => Good /\ x.calls = AsCalls(reader.tools)
       /\ x.kind = "error" => Bad
       /\ server.ends = "whole" => Complete(answer, h[0])
  BY <1>5, <1>8, <1>9 DEF Good, Bad
<1>12. g[0] = h[0] /\ Chain(answer, backend, Line', g) /\ g[Len(Line')] = h[Len(Line)]
  BY <1>5, <1>6
<1> QED
  BY <1>3, <1>7, <1>9, <1>10, <1>11, <1>12, CloseInv

LEMMA BodyEndsInv ==
    ASSUME Inv, BodyEnds
    PROVE  Inv'
<1>1. /\ Types /\ Wired /\ wire = <<>> /\ Ends(buffer) = {} /\ server.ends # "no"
      /\ queue' = Append(queue, Verdict) /\ reader' = [reader EXCEPT !.pc = "over"]
      /\ reader.pc = "reading" /\ agent.pc = "listening"
      /\ UNCHANGED <<backend, answer, server, wire, buffer, agent, shown, heard, ran>>
  BY DEF BodyEnds, Over, Agent, Listening, Inv
<1>2. PICK h, f : ToldOnWire(h) /\ ToldInQueue(h, f)
  BY DEF Inv, AllTold
<1>3. /\ Line = buffer /\ Line' = Line /\ Line \in Seq(Unit) /\ Len(Line) \in Nat
      /\ wire \in Seq(Unit) /\ buffer \in Seq(Unit)
  <2>1. buffer \in Seq(Unit) /\ wire \in Seq(Unit)
    BY <1>1 DEF Types
  <2>2. buffer \o wire = buffer
    BY <1>1, <2>1
  <2> QED
    BY <1>1, <2>1, <2>2 DEF Line
<1>4. Turns(Blank, buffer) /\ (Going => Entire(Blank, buffer))
  BY <1>1, <1>3 DEF Wired
<1>5. server.ends \in {"closed", "broken"}
  <2> SUFFICES ASSUME server.ends \in {"whole", "error"} PROVE FALSE
    BY <1>1 DEF Types, Server, Ending
  <2>1. buffer # <<>> /\ Going
    BY <1>1, <1>3 DEF Wired, Going
  <2>2. Len(buffer) > Len(Blank)
    BY <1>4, <2>1 DEF Entire
  <2>3. Ends(buffer) # {}
    <3>1. /\ server.blank \in {"\n", "\r\n"} /\ (backend = "anthropic" => server.blank = "\n")
      BY <1>1 DEF Types, Server
    <3> QED
      BY <1>3, <1>4, <2>2, <3>1, EndsAt
  <2> QED
    BY <1>1, <2>3
<1>6. PICK x : x = Verdict
  OBVIOUS
<1>7. /\ x \in Msg /\ x.kind \in {"done", "error"}
      /\ x.kind = "done" => Good /\ x.calls = AsCalls(reader.tools)
      /\ x.kind = "error" => Bad
  <2>1. /\ Error \in Msg /\ Error.kind = "error"
        /\ Done \in Msg /\ Done.kind = "done" /\ Done.calls = AsCalls(reader.tools)
    BY <1>1, <1>2, LastWord
  <2>2. x = IF server.ends = "broken" \/ backend = "anthropic" THEN Error ELSE Done
    BY <1>6 DEF Verdict
  <2> QED
    BY <1>5, <2>1, <2>2 DEF Good, Bad
<1>8. /\ queue' = Append(queue, x) /\ wire' \in Seq(Unit) /\ buffer' \in Seq(Unit)
  BY <1>1, <1>3, <1>6
<1>9. /\ Turns(Blank, Line') /\ (Going => Entire(Blank, Line'))
      /\ \A i \in 1..Len(Line') : /\ Line'[i].kind = "end" => server.ends = "whole"
                                  /\ Line'[i].kind = "error" => server.ends = "error"
      /\ Chain(answer, backend, Line', h) /\ h[Len(Line')] = h[Len(Line)]
      /\ server.ends = "whole" => Complete(answer, h[0])
  BY <1>1, <1>2, <1>3, <1>5 DEF Wired, ToldOnWire
<1> QED
  BY <1>1, <1>2, <1>7, <1>8, <1>9, CloseInv

LEMMA AbandonInv ==
    ASSUME Inv, Abandon
    PROVE  Inv'
<1>1. /\ Types /\ Wired /\ Verdicts /\ agent.pc = "left" /\ reader.pc = "reading"
      /\ reader' = [reader EXCEPT !.pc = "over"]
      /\ UNCHANGED <<backend, answer, server, wire, buffer, queue, agent, shown, heard, ran>>
  BY DEF Abandon, Over, Agent, Inv
<1>2. /\ reader' \in [pc : {"reading", "over"}, tools : Seq(Tool), current : SUBSET Nat]
      /\ reader'.pc = "over" /\ reader'.tools = reader.tools /\ reader'.current = reader.current
  BY <1>1 DEF Types
<1>3. Types'
  BY <1>1, <1>2 DEF Types
<1>4. Sound(answer, backend, AllSaid)' /\ Line' = Line /\ Blank' = Blank
  BY <1>1 DEF Inv, AllSaid, Line, Blank
<1>5. Wired'
  BY <1>1, <1>2, <1>4 DEF Wired, Going
<1>6. Verdicts'
  BY <1>1, <1>2 DEF Verdicts, Good, Bad
<1>7. AllTold'
  <2>1. PICK h, f : ToldOnWire(h) /\ ToldInQueue(h, f)
    BY DEF Inv, AllTold
  <2>2. ToldOnWire(h)' /\ ToldInQueue(h, f)'
    BY <1>1, <1>2, <1>4, <2>1 DEF ToldOnWire, ToldInQueue, AllSaid, Going
  <2> QED
    BY <2>2 DEF AllTold
<1>8. RunAsAsked'
  BY <1>1 DEF RunAsAsked
<1> QED
  BY <1>3, <1>4, <1>5, <1>6, <1>7, <1>8 DEF Inv

-----------------------------------------------------------------------------
(* The agent.                                                                *)
Does == [a : Locals, think : Seq(STRING), say : Seq(STRING)]

LEMMA LocalsWith ==
    ASSUME NEW l \in Locals
    PROVE  /\ \A x \in Seq(STRING) :
                /\ [l EXCEPT !.prefix = x] \in Locals /\ [l EXCEPT !.white = x] \in Locals
                /\ [l EXCEPT !.content = x] \in Locals
           /\ \A x \in Thought : [l EXCEPT !.thought = x] \in Locals
           /\ \A b \in BOOLEAN :
                /\ [l EXCEPT !.opening = b] \in Locals /\ [l EXCEPT !.thinking = b] \in Locals
                /\ [l EXCEPT !.started = b] \in Locals /\ [l EXCEPT !.error = b] \in Locals
           /\ \A c \in Seq(CallNow) : [l EXCEPT !.calls = c] \in Locals
           /\ \A c \in {"listening", "over", "left"} : [l EXCEPT !.pc = c] \in Locals
BY DEF Locals

LEMMA SayIs ==
    ASSUME NEW s \in Does, NEW t \in Seq(STRING)
    PROVE  /\ Say(s, t) \in Does
           /\ Say(s, t) =
                IF ~ s.a.started /\ ~ HasVisible(t)
                  THEN [a |-> [s.a EXCEPT !.white = s.a.white \o t],
                        think |-> s.think, say |-> s.say]
                  ELSE [a |-> [s.a EXCEPT !.white = <<>>,
                                          !.content = s.a.content \o s.a.white \o t,
                                          !.started = s.a.started \/ HasVisible(t)],
                        think |-> s.think, say |-> s.say \o s.a.white \o t]
<1> DEFINE w == s.a.white \o t
           c == s.a.content \o s.a.white \o t
           y == s.say \o s.a.white \o t
           b == s.a.started \/ HasVisible(t)
           nil == <<>>
<1>1. /\ s.a \in Locals /\ s.think \in Seq(STRING) /\ s.say \in Seq(STRING)
      /\ s = [a |-> s.a, think |-> s.think, say |-> s.say]
  BY DEF Does
<1>2. /\ s.a.white \in Seq(STRING) /\ s.a.content \in Seq(STRING) /\ s.a.started \in BOOLEAN
  BY <1>1 DEF Locals
<1>3. /\ w \in Seq(STRING) /\ c \in Seq(STRING) /\ y \in Seq(STRING) /\ b \in BOOLEAN
      /\ nil \in Seq(STRING)
  BY <1>1, <1>2
<1>4. Say(s, t) = IF ~ s.a.started /\ ~ HasVisible(t)
                    THEN [s EXCEPT !.a.white = w]
                    ELSE [s EXCEPT !.a.white = nil, !.a.content = c, !.say = y,
                                   !.a.started = b]
  BY DEF Say
<1> HIDE DEF w, c, y, b, nil
<1>5. [s EXCEPT !.a.white = w] = [a |-> [s.a EXCEPT !.white = w], think |-> s.think, say |-> s.say]
  BY <1>1
<1> DEFINE a1 == [s.a EXCEPT !.white = nil]
           a2 == [a1 EXCEPT !.content = c]
           a3 == [a2 EXCEPT !.started = b]
           s1 == [s EXCEPT !.a.white = nil]
           s2 == [s1 EXCEPT !.a.content = c]
           s3 == [s2 EXCEPT !.say = y]
           s4 == [s3 EXCEPT !.a.started = b]
<1> HIDE DEF a1, a2, a3, s1, s2, s3, s4
<1>6. s4 = [a |-> a3, think |-> s.think, say |-> y]
  <2>1. s1 = [a |-> a1, think |-> s.think, say |-> s.say]
    BY <1>1 DEF s1, a1
  <2>2. s2 = [a |-> a2, think |-> s.think, say |-> s.say]
    BY <2>1 DEF s2, a2
  <2>3. s3 = [a |-> a2, think |-> s.think, say |-> y]
    BY <2>2 DEF s3
  <2> QED
    BY <2>3 DEF s4, a3
<1>7. a3 \in Locals /\ [s.a EXCEPT !.white = w] \in Locals
  <2>1. a1 \in Locals /\ [s.a EXCEPT !.white = w] \in Locals
    BY <1>1, <1>3, LocalsWith, Zenon DEF a1
  <2>2. a2 \in Locals
    BY <1>3, <2>1, LocalsWith, Zenon DEF a2
  <2>3. a3 \in Locals
    BY <1>3, <2>2, LocalsWith, Zenon DEF a3
  <2> QED
    BY <2>1, <2>3
<1>8. Say(s, t) = IF ~ s.a.started /\ ~ HasVisible(t)
                    THEN [a |-> [s.a EXCEPT !.white = w], think |-> s.think, say |-> s.say]
                    ELSE [a |-> a3, think |-> s.think, say |-> y]
  BY <1>4, <1>5, <1>6, Zenon DEF s1, s2, s3, s4
<1>9. Say(s, t) \in Does
  <2>1. \A k \in Locals, p, q \in Seq(STRING) : [a |-> k, think |-> p, say |-> q] \in Does
    BY DEF Does
  <2> QED
    BY <1>1, <1>3, <1>7, <1>8, <2>1
<1> QED
  BY <1>8, <1>9, Zenon DEF w, c, y, b, nil, a1, a2, a3

(* Text, and where it is cut.                                                *)
LEMMA AfterIs ==
    ASSUME NEW t \in Seq(STRING), NEW n \in 0..Len(t)
    PROVE  /\ After(t, n) \in Seq(STRING) /\ Len(After(t, n)) = Len(t) - n
           /\ \A i \in 1..Len(t) - n : After(t, n)[i] = t[i + n]
           /\ SubSeq(t, 1, n) \in Seq(STRING) /\ Len(SubSeq(t, 1, n)) = n
           /\ \A i \in 1..n : SubSeq(t, 1, n)[i] = t[i]
           /\ SubSeq(t, 1, n) \o After(t, n) = t
<1>1. /\ After(t, n) \in Seq(STRING) /\ Len(After(t, n)) = Len(t) - n
      /\ \A i \in 1..Len(t) - n : After(t, n)[i] = t[i + n]
  <2>1. SubSeq(t, n + 1, Len(t)) \in Seq(STRING) /\ Len(SubSeq(t, n + 1, Len(t))) = Len(t) - n
    OBVIOUS
  <2>2. \A i \in 1..Len(t) - n : SubSeq(t, n + 1, Len(t))[i] = t[i + n]
    OBVIOUS
  <2> QED
    BY <2>1, <2>2 DEF After
<1>2. /\ SubSeq(t, 1, n) \in Seq(STRING) /\ Len(SubSeq(t, 1, n)) = n
      /\ \A i \in 1..n : SubSeq(t, 1, n)[i] = t[i]
  OBVIOUS
<1>3. SubSeq(t, 1, n) \o After(t, n) = t
  <2> DEFINE a == SubSeq(t, 1, n)
             c == After(t, n)
  <2>1. a \in Seq(STRING) /\ c \in Seq(STRING) /\ Len(a) = n /\ Len(c) = Len(t) - n
    BY <1>1, <1>2
  <2>2. \A i \in 1..n : a[i] = t[i]
    BY <1>2
  <2>3. \A i \in 1..Len(t) - n : c[i] = t[i + n]
    BY <1>1
  <2> HIDE DEF a, c
  <2>4. /\ a \o c \in Seq(STRING) /\ Len(a \o c) = Len(a) + Len(c)
        /\ \A i \in 1..Len(a) : (a \o c)[i] = a[i]
        /\ \A i \in 1..Len(c) : (a \o c)[Len(a) + i] = c[i]
        /\ \A i \in Len(a) + 1..Len(a) + Len(c) : (a \o c)[i] = c[i - Len(a)]
    BY <2>1, CatIs, Zenon
  <2> DEFINE u == a \o c
  <2> HIDE DEF u
  <2>5. \A i \in 1..Len(t) : u[i] = t[i]
    <3> TAKE i \in 1..Len(t)
    <3>1. CASE i <= n
      BY <2>1, <2>2, <2>4, <3>1 DEF u
    <3>2. CASE i > n
      <4> DEFINE j == i - n
      <4>1. j \in 1..Len(t) - n /\ j + n = i /\ i \in Len(a) + 1..Len(a) + Len(c) /\ i - Len(a) = j
        BY <2>1, <3>2
      <4> HIDE DEF j
      <4>2. u[i] = c[j]
        BY <2>4, <4>1 DEF u
      <4> QED
        BY <2>3, <4>1, <4>2
    <3> QED
      BY <3>1, <3>2
  <2>6. u \in Seq(STRING) /\ Len(u) = Len(t)
    BY <2>1, <2>4 DEF u
  <2>7. u = t
    BY <2>5, <2>6, Same, Zenon
  <2> QED
    BY <2>7 DEF u, a, c
<1> QED
  BY <1>1, <1>2, <1>3

LEMMA TagsAre ==
    /\ OpenTag \in Seq(STRING) /\ OpenTag # <<>> /\ Len(OpenTag) \in Nat /\ Len(OpenTag) >= 1
    /\ CloseTag \in Seq(STRING) /\ Len(CloseTag) \in Nat /\ Len(CloseTag) >= 1
    /\ Hold \in Nat /\ Len(CloseTag) <= Hold + 1
<1>1. OpenTag \in Seq(STRING) /\ CloseTag \in Seq(STRING) /\ OpenTag # <<>>
  BY StreamAssumption
<1>2. Len(OpenTag) \in Nat /\ Len(OpenTag) >= 1 /\ Len(CloseTag) \in Nat
  BY <1>1
<1>3. Hold \in Nat /\ Len(CloseTag) \in 1..Hold + 1
  BY StreamAssumption
<1> QED
  BY <1>1, <1>2, <1>3

LEMMA FoundIs ==
    ASSUME NEW t \in Seq(STRING)
    PROVE  /\ Found(CloseTag, t) \in SUBSET Nat
           /\ \A i \in Found(CloseTag, t) :
                i \in 1..Len(t) /\ i + Len(CloseTag) - 1 \in 1..Len(t)
           /\ Found(CloseTag, t) # {} =>
                /\ Min(Found(CloseTag, t)) \in Found(CloseTag, t)
                /\ \A i \in Found(CloseTag, t) : Min(Found(CloseTag, t)) <= i
<1>1. Len(CloseTag) \in Nat /\ Len(CloseTag) >= 1 /\ Len(t) \in Nat
  BY TagsAre
<1>2. \A i \in Found(CloseTag, t) : i \in 1..Len(t) + 1 - Len(CloseTag)
  BY DEF Found
<1>3. \A i \in Found(CloseTag, t) :
        i \in Nat /\ i \in 1..Len(t) /\ i + Len(CloseTag) - 1 \in 1..Len(t)
  BY <1>1, <1>2
<1>4. Found(CloseTag, t) \in SUBSET Nat
  BY <1>3
<1> QED
  BY <1>3, <1>4, LeastOf

LEMMA HeldIs ==
    ASSUME NEW t \in Seq(STRING)
    PROVE  /\ Held(t).show \in Seq(STRING) /\ Held(t).keep \in Seq(STRING)
           /\ Held(t).show \o Held(t).keep = t
           /\ Len(Held(t).keep) <= Hold
           /\ Held(t).show # <<>> => Len(Held(t).keep) = Hold
           /\ Len(t) > Hold => Held(t).show # <<>>
<1>1. Hold \in Nat /\ Len(t) \in Nat /\ <<>> \in Seq(STRING)
  BY TagsAre
<1>2. CASE Len(t) <= Hold
  <2>1. Held(t).show = <<>> /\ Held(t).keep = t
    BY <1>2 DEF Held
  <2>2. <<>> \o t = t
    OBVIOUS
  <2> QED
    BY <1>1, <1>2, <2>1, <2>2
<1>3. CASE Len(t) > Hold
  <2> DEFINE n == Len(t) - Hold
  <2>1. n \in 0..Len(t) /\ n >= 1
    BY <1>1, <1>3
  <2>2. Held(t).show = SubSeq(t, 1, n) /\ Held(t).keep = After(t, n)
    BY <1>1, <1>3 DEF Held, After
  <2> HIDE DEF n
  <2>3. /\ After(t, n) \in Seq(STRING) /\ Len(After(t, n)) = Len(t) - n
        /\ SubSeq(t, 1, n) \in Seq(STRING) /\ Len(SubSeq(t, 1, n)) = n
        /\ SubSeq(t, 1, n) \o After(t, n) = t
    BY <2>1, AfterIs
  <2>4. Len(t) - n = Hold
    BY <1>1 DEF n
  <2> DEFINE a == SubSeq(t, 1, n)
             c == After(t, n)
  <2>a. a = Held(t).show /\ c = Held(t).keep
    BY <2>2
  <2>c. a \in Seq(STRING) /\ Len(a) = n /\ c \in Seq(STRING) /\ Len(c) = Hold /\ a \o c = t
    BY <2>3, <2>4
  <2> HIDE DEF a, c
  <2>5. a # <<>>
    BY <2>1, <2>c
  <2> QED
    BY <1>1, <2>5, <2>a, <2>c
<1>4. Len(t) <= Hold \/ Len(t) > Hold
  BY <1>1
<1> QED
  BY <1>2, <1>3, <1>4, Zenon

(* A thought that is not over yet, and one that is.                          *)
OnWith(s, all) ==
    [a |-> [s.a EXCEPT !.thought = Held(all).keep],
     think |-> s.think \o Held(all).show, say |-> s.say]
OverAt(s, all, i) ==
    [a |-> [[s.a EXCEPT !.thinking = FALSE] EXCEPT !.thought = <<>>],
     think |-> s.think \o SubSeq(all, 1, i - 1), say |-> s.say]

LEMMA DoesIs ==
    ASSUME NEW s \in Does
    PROVE  /\ s.a \in Locals /\ s.think \in Seq(STRING) /\ s.say \in Seq(STRING)
           /\ s = [a |-> s.a, think |-> s.think, say |-> s.say]
           /\ s.a.thought \in Seq(STRING) /\ s.a.prefix \in Seq(STRING)
           /\ s.a.white \in Seq(STRING) /\ s.a.content \in Seq(STRING)
           /\ s.a.calls \in Seq(CallNow)
           /\ s.a.opening \in BOOLEAN /\ s.a.thinking \in BOOLEAN /\ s.a.started \in BOOLEAN
           /\ s.a.error \in BOOLEAN /\ s.a.thought \in Thought /\ <<>> \in Thought
<1>1. s.a.thought \in Seq(STRING)
  BY DEF Does, Locals, Thought
<1>2. <<>> \in Seq(STRING) /\ Len(<<>>) <= Hold
  BY TagsAre
<1>3. <<>> \in Thought
  BY <1>2 DEF Thought
<1> QED
  BY <1>1, <1>3 DEF Does, Locals

LEMMA DoesWith ==
    ASSUME NEW l \in Locals, NEW p \in Seq(STRING), NEW q \in Seq(STRING)
    PROVE  [a |-> l, think |-> p, say |-> q] \in Does
BY DEF Does

LEMMA Put ==
    ASSUME NEW s \in Does, NEW l
    PROVE  [s EXCEPT !.a = l] = [a |-> l, think |-> s.think, say |-> s.say]
BY DEF Does

All(s, t)    == s.a.thought \o t
Closed(s, t) == Found(CloseTag, All(s, t))
Past(s, t)   == Min(Closed(s, t)) + Len(CloseTag) - 1
Closing(s, t) == OverAt(s, All(s, t), Min(Closed(s, t)))
Rest(s, t)   == After(All(s, t), Past(s, t))

LEMMA ThinkIs ==
    ASSUME NEW s \in Does, NEW t \in Seq(STRING), t # <<>>
    PROVE  /\ All(s, t) \in Seq(STRING) /\ Think(s, t) \in Does
           /\ Closed(s, t) = {} => Think(s, t) = OnWith(s, All(s, t))
           /\ Closed(s, t) # {} =>
                /\ Closing(s, t) \in Does /\ Past(s, t) \in 0..Len(All(s, t))
                /\ Min(Closed(s, t)) - 1 \in 0..Len(All(s, t))
                /\ Rest(s, t) \in Seq(STRING)
                /\ Think(s, t) = IF Rest(s, t) = <<>> THEN Closing(s, t)
                                 ELSE Say(Closing(s, t), Rest(s, t))
<1>p. PICK all, F, n : /\ all = s.a.thought \o t /\ F = Found(CloseTag, all)
                       /\ n = Min(F) + Len(CloseTag) - 1
  OBVIOUS
<1>q. SUFFICES
           /\ all \in Seq(STRING) /\ Think(s, t) \in Does
           /\ F = {} => Think(s, t) = OnWith(s, all)
           /\ F # {} =>
                /\ OverAt(s, all, Min(F)) \in Does /\ n \in 0..Len(all)
                /\ Min(F) - 1 \in 0..Len(all) /\ After(all, n) \in Seq(STRING)
                /\ Think(s, t) = IF After(all, n) = <<>> THEN OverAt(s, all, Min(F))
                                 ELSE Say(OverAt(s, all, Min(F)), After(all, n))
  <2>1. /\ all = All(s, t) /\ F = Closed(s, t) /\ n = Past(s, t)
        /\ OverAt(s, all, Min(F)) = Closing(s, t) /\ After(all, n) = Rest(s, t)
    BY <1>p, Zenon DEF All, Closed, Past, Closing, Rest
  <2> QED
    BY <2>1
<1> DEFINE nil == <<>>
<1>1. /\ s.a \in Locals /\ s.think \in Seq(STRING) /\ s.say \in Seq(STRING)
      /\ s = [a |-> s.a, think |-> s.think, say |-> s.say] /\ s.a.thought \in Seq(STRING)
      /\ nil \in Seq(STRING) /\ nil \in Thought
  BY DoesIs
<1>2. all \in Seq(STRING) /\ Len(all) \in Nat
  BY <1>1, <1>p
<1>3. Think(s, t) =
        IF F = {} THEN [s EXCEPT !.a.thought = Held(all).keep, !.think = @ \o Held(all).show]
        ELSE LET i    == Min(F)
                 over == [s EXCEPT !.a.thinking = FALSE, !.a.thought = <<>>,
                                   !.think = @ \o SubSeq(all, 1, i - 1)]
                 rest == After(all, i + Len(CloseTag) - 1)
             IN IF rest = <<>> THEN over ELSE Say(over, rest)
  BY <1>p DEF Think
<1>4. CASE F = {}
  <2> DEFINE k == Held(all).keep
             w == s.think \o Held(all).show
  <2>1. k \in Seq(STRING) /\ w \in Seq(STRING)
    <3> DEFINE y == Held(all).show
    <3>1. k \in Seq(STRING) /\ y \in Seq(STRING)
      BY <1>2, HeldIs
    <3> HIDE DEF y
    <3>2. s.think \o y \in Seq(STRING)
      BY <1>1, <3>1
    <3> QED
      BY <3>1, <3>2 DEF y
  <2>2. Think(s, t) = [s EXCEPT !.a.thought = k, !.think = w]
    BY <1>3, <1>4
  <2> HIDE DEF k, w
  <2>3. Think(s, t) = [a |-> [s.a EXCEPT !.thought = k], think |-> w, say |-> s.say]
    <3> DEFINE b == [s EXCEPT !.a.thought = k]
    <3>1. b = [a |-> [s.a EXCEPT !.thought = k], think |-> s.think, say |-> s.say]
      BY Put
    <3>2. Think(s, t) = [b EXCEPT !.think = w]
      BY <2>2
    <3> HIDE DEF b
    <3> QED
      BY <3>1, <3>2
  <2>4. [s.a EXCEPT !.thought = k] \in Locals
    <3>1. k \in Thought
      <4>1. Len(k) <= Hold
        BY <1>2, HeldIs DEF k
      <4> QED
        BY <2>1, <4>1 DEF Thought
    <3> QED
      BY <1>1, <3>1, LocalsWith, Zenon
  <2>5. Think(s, t) \in Does
    BY <1>1, <2>1, <2>3, <2>4, DoesWith, Zenon
  <2> QED
    BY <1>2, <1>4, <2>3, <2>5 DEF OnWith, k, w
<1>5. CASE F # {}
  <2> DEFINE m == Min(F)
             z == SubSeq(all, 1, m - 1)
             w == s.think \o z
             r == After(all, n)
  <2>1. m \in 1..Len(all) /\ m + Len(CloseTag) - 1 \in 1..Len(all)
    BY <1>2, <1>5, <1>p, FoundIs
  <2>2. n \in 0..Len(all) /\ m - 1 \in 0..Len(all)
    BY <1>2, <1>p, <2>1
  <2>3. z \in Seq(STRING) /\ r \in Seq(STRING)
    <3> DEFINE e == m - 1
    <3> HIDE DEF e
    <3>1. e \in 0..Len(all)
      BY <2>2 DEF e
    <3>2. SubSeq(all, 1, e) \in Seq(STRING) /\ After(all, n) \in Seq(STRING)
      BY <1>2, <2>2, <3>1, AfterIs
    <3> QED
      BY <3>2 DEF e
  <2>4. Think(s, t) = LET over == [s EXCEPT !.a.thinking = FALSE, !.a.thought = nil,
                                            !.think = s.think \o z]
                      IN IF r = nil THEN over ELSE Say(over, r)
    BY <1>3, <1>5, <1>p
  <2> HIDE DEF m, z, r
  <2>w. w \in Seq(STRING)
    BY <1>1, <2>3
  <2> DEFINE a1 == [s.a EXCEPT !.thinking = FALSE]
             a2 == [a1 EXCEPT !.thought = nil]
             s1 == [s EXCEPT !.a.thinking = FALSE]
             s2 == [s1 EXCEPT !.a.thought = nil]
             s3 == [s2 EXCEPT !.think = w]
  <2>5. Think(s, t) = IF r = nil THEN s3 ELSE Say(s3, r)
    BY <2>4
  <2> HIDE DEF nil, w, a1, a2, s1, s2, s3
  <2>6. s3 = [a |-> a2, think |-> w, say |-> s.say]
    <3>1. s1 = [a |-> a1, think |-> s.think, say |-> s.say]
      BY Put DEF s1, a1
    <3>2. s2 = [a |-> a2, think |-> s.think, say |-> s.say]
      BY <3>1 DEF s2, a2
    <3> QED
      BY <3>2 DEF s3
  <2>7. a2 \in Locals
    <3>1. FALSE \in BOOLEAN
      OBVIOUS
    <3>2. a1 \in Locals
      BY <1>1, <3>1, LocalsWith, Zenon DEF a1
    <3> QED
      BY <1>1, <3>2, LocalsWith, Zenon DEF a2
  <2>8. s3 \in Does
    BY <1>1, <2>w, <2>6, <2>7, DoesWith, Zenon
  <2>9. s3 = OverAt(s, all, m)
    BY <2>6, Zenon DEF OverAt, w, z, a1, a2, nil
  <2>10. Think(s, t) \in Does
    BY <2>3, <2>5, <2>8, SayIs
  <2> QED
    BY <1>2, <1>5, <2>2, <2>3, <2>5, <2>8, <2>9, <2>10 DEF m, r, nil
<1> QED
  BY <1>4, <1>5

(* White space in front.                                                     *)
LEMMA FirstIs ==
    ASSUME NEW t \in Seq(STRING), HasVisible(t)
    PROVE  /\ FirstVisible(t) \in 1..Len(t) /\ t[FirstVisible(t)] \notin Spaces
           /\ \A i \in 1..Len(t) : i < FirstVisible(t) => t[i] \in Spaces
           /\ FirstVisible(t) - 1 \in 0..Len(t) /\ Trimmed(t) = After(t, FirstVisible(t) - 1)
           /\ Trimmed(t) \in Seq(STRING) /\ Len(Trimmed(t)) = Len(t) - (FirstVisible(t) - 1)
<1> DEFINE V == {i \in DOMAIN t : t[i] \notin Spaces}
           f == FirstVisible(t)
<1>1. V # {} /\ V \in SUBSET Nat /\ f = Min(V) /\ Len(t) \in Nat
  BY DEF HasVisible, FirstVisible
<1>2. f \in V /\ \A i \in V : f <= i
  BY <1>1, LeastOf
<1> HIDE DEF f
<1>3. f \in 1..Len(t) /\ t[f] \notin Spaces
  BY <1>2
<1>4. \A i \in 1..Len(t) : i < f => t[i] \in Spaces
  BY <1>2, <1>3
<1> DEFINE m == f - 1
<1>5. m \in 0..Len(t) /\ m + 1 = f
  BY <1>1, <1>3
<1>6. Trimmed(t) = After(t, m)
  BY <1>5, Zenon DEF Trimmed, After, f
<1> HIDE DEF m
<1>7. After(t, m) \in Seq(STRING) /\ Len(After(t, m)) = Len(t) - m
  BY <1>5, AfterIs
<1> QED
  BY <1>3, <1>4, <1>5, <1>6, <1>7 DEF f, m

LEMMA FirstAt ==
    ASSUME NEW t \in Seq(STRING), NEW f \in 1..Len(t), t[f] \notin Spaces,
           \A i \in 1..Len(t) : i < f => t[i] \in Spaces
    PROVE  HasVisible(t) /\ FirstVisible(t) = f
<1> DEFINE V == {i \in DOMAIN t : t[i] \notin Spaces}
<1>1. V \in SUBSET Nat /\ f \in V /\ FirstVisible(t) = Min(V)
  BY DEF FirstVisible
<1>2. \A i \in V : f <= i
  OBVIOUS
<1> HIDE DEF V
<1>3. Min(V) = f
  BY <1>1, <1>2, MinIs
<1> QED
  BY <1>1, <1>3 DEF HasVisible

(* What neither text nor thought touches.                                    *)
Keeps(l, k) == k.pc = l.pc /\ k.calls = l.calls /\ k.error = l.error

LEMMA SayKeeps ==
    ASSUME NEW s \in Does, NEW t \in Seq(STRING)
    PROVE  Keeps(s.a, Say(s, t).a)
<1>1. s.a \in Locals
  BY DoesIs
<1> DEFINE w == s.a.white \o t
           c == s.a.content \o s.a.white \o t
           b == s.a.started \/ HasVisible(t)
           nil == <<>>
           l1 == [s.a EXCEPT !.white = w]
           l2 == [s.a EXCEPT !.white = nil, !.content = c, !.started = b]
           y == s.say \o s.a.white \o t
<1>i. Say(s, t) = IF ~ s.a.started /\ ~ HasVisible(t)
                    THEN [a |-> l1, think |-> s.think, say |-> s.say]
                    ELSE [a |-> l2, think |-> s.think, say |-> y]
  BY SayIs, Zenon
<1> HIDE DEF l1, l2, y
<1>2. Say(s, t).a \in {l1, l2}
  BY <1>i
<1> USE DEF l1, l2
<1> HIDE DEF w, c, b, nil
<1>3. Keeps(s.a, l1) /\ Keeps(s.a, l2)
  BY <1>1 DEF Locals, Keeps
<1> HIDE DEF l1, l2
<1> QED
  BY <1>2, <1>3

LEMMA ThinkKeeps ==
    ASSUME NEW s \in Does, NEW t \in Seq(STRING)
    PROVE  Think(s, t) \in Does /\ Keeps(s.a, Think(s, t).a)
<1>1. CASE t = <<>>
  BY <1>1 DEF Think, Keeps
<1>2. CASE t # <<>>
  <2> DEFINE o == Closing(s, t)
             r == Rest(s, t)
             k == OnWith(s, All(s, t))
             C == Closed(s, t)
  <2>1. /\ Think(s, t) \in Does
        /\ C = {} => Think(s, t) = k
        /\ C # {} => /\ o \in Does /\ r \in Seq(STRING)
                     /\ Think(s, t) = IF r = <<>> THEN o ELSE Say(o, r)
    BY <1>2, ThinkIs, Zenon
  <2>2. s.a \in Locals
    BY DoesIs
  <2>3. Keeps(s.a, k.a)
    <3> DEFINE x == Held(All(s, t)).keep
    <3> HIDE DEF x
    <3>1. Keeps(s.a, [s.a EXCEPT !.thought = x])
      BY <2>2 DEF Locals, Keeps
    <3> QED
      BY <3>1 DEF OnWith, x
  <2>4. Keeps(s.a, o.a)
    <3>1. Keeps(s.a, [[s.a EXCEPT !.thinking = FALSE] EXCEPT !.thought = <<>>])
      BY <2>2 DEF Locals, Keeps
    <3> QED
      BY <3>1 DEF OverAt, Closing
  <2> HIDE DEF o, r, k, C
  <2>6. C # {} => Keeps(o.a, Say(o, r).a)
    BY <2>1, SayKeeps
  <2>7. C # {} => Think(s, t) = o \/ Think(s, t) = Say(o, r)
    BY <2>1
  <2> QED
    BY <2>1, <2>3, <2>4, <2>6, <2>7 DEF Keeps
<1> QED
  BY <1>1, <1>2

LEMMA NowIs ==
    ASSUME agent \in Locals
    PROVE  Now \in Does /\ Now.a = agent
<1>1. <<>> \in Seq(STRING)
  OBVIOUS
<1> QED
  BY <1>1 DEF Now, Does

(* A chunk while it is open whether the text begins with a thought.          *)
Fresh(l)    == [a |-> l, think |-> <<>>, say |-> <<>>]
Waits(l, all) == Fresh([l EXCEPT !.prefix = all])
Decides(l)    == Fresh([[l EXCEPT !.opening = FALSE] EXCEPT !.prefix = <<>>])
Enters(l)     == Fresh([[[l EXCEPT !.opening = FALSE] EXCEPT !.prefix = <<>>]
                            EXCEPT !.thinking = TRUE])

LEMMA PutIn ==
    ASSUME NEW l, NEW p, NEW q, NEW s, s = [a |-> l, think |-> p, say |-> q], NEW k
    PROVE  [s EXCEPT !.a = k] = [a |-> k, think |-> p, say |-> q] /\ s.a = l
OBVIOUS

LEMMA StartsIs ==
    ASSUME NEW l \in Locals, NEW all \in Seq(STRING)
    PROVE  /\ Fresh(l) \in Does /\ Waits(l, all) \in Does
           /\ Decides(l) \in Does /\ Enters(l) \in Does
           /\ Keeps(l, Fresh(l).a) /\ Keeps(l, Waits(l, all).a)
           /\ Keeps(l, Decides(l).a) /\ Keeps(l, Enters(l).a)
           /\ [Fresh(l) EXCEPT !.a.prefix = all] = Waits(l, all)
           /\ [Fresh(l) EXCEPT !.a.opening = FALSE, !.a.prefix = <<>>] = Decides(l)
           /\ [Decides(l) EXCEPT !.a.thinking = TRUE] = Enters(l)
<1> DEFINE nil == <<>>
           a0 == [l EXCEPT !.prefix = all]
           a1 == [l EXCEPT !.opening = FALSE]
           a2 == [a1 EXCEPT !.prefix = nil]
           a3 == [a2 EXCEPT !.thinking = TRUE]
<1>1. /\ Fresh(l) = [a |-> l, think |-> nil, say |-> nil]
      /\ Waits(l, all) = [a |-> a0, think |-> nil, say |-> nil]
      /\ Decides(l) = [a |-> a2, think |-> nil, say |-> nil]
      /\ Enters(l) = [a |-> a3, think |-> nil, say |-> nil]
  BY Zenon DEF Fresh, Waits, Decides, Enters
<1>2. nil \in Seq(STRING) /\ FALSE \in BOOLEAN /\ TRUE \in BOOLEAN
  OBVIOUS
<1> DEFINE s1 == [Fresh(l) EXCEPT !.a.opening = FALSE]
<1>g. [Fresh(l) EXCEPT !.a.opening = FALSE, !.a.prefix = nil] = [s1 EXCEPT !.a.prefix = nil]
  OBVIOUS
<1> HIDE DEF nil
<1>3. a0 \in Locals /\ a1 \in Locals
  BY <1>2, LocalsWith, Zenon
<1>4. Keeps(l, a0) /\ Keeps(l, a1) /\ Keeps(l, l)
  BY DEF Keeps, Locals
<1> HIDE DEF a0, a1
<1>5. a2 \in Locals
  BY <1>2, <1>3, LocalsWith, Zenon
<1>6. Keeps(l, a2)
  BY <1>3, <1>4 DEF Keeps, Locals
<1> HIDE DEF a2
<1>7. a3 \in Locals
  BY <1>2, <1>5, LocalsWith, Zenon
<1>8. Keeps(l, a3)
  BY <1>5, <1>6 DEF Keeps, Locals
<1> HIDE DEF a3
<1>9. /\ Fresh(l) \in Does /\ Waits(l, all) \in Does
      /\ Decides(l) \in Does /\ Enters(l) \in Does
  BY <1>1, <1>2, <1>3, <1>5, <1>7, DoesWith, Zenon
<1>10. /\ Fresh(l).a = l /\ Waits(l, all).a = a0
       /\ Decides(l).a = a2 /\ Enters(l).a = a3
  BY <1>1
<1>11. [Fresh(l) EXCEPT !.a.prefix = all] = Waits(l, all)
  BY <1>1, <1>10 DEF a0
<1>12. s1 = [a |-> a1, think |-> nil, say |-> nil]
  <2> DEFINE b == Fresh(l)
  <2>1. b = [a |-> l, think |-> nil, say |-> nil]
    BY <1>1
  <2> HIDE DEF b
  <2>2. b.a = l
    BY <2>1
  <2>3. s1 = [b EXCEPT !.a = a1]
    BY <2>2, Zenon DEF s1, b, a1
  <2> QED
    BY <2>1, <2>3
<1> HIDE DEF s1
<1>13. [s1 EXCEPT !.a.prefix = nil] = Decides(l)
  BY <1>1, <1>12 DEF a2
<1>14. [Decides(l) EXCEPT !.a.thinking = TRUE] = Enters(l)
  <2> DEFINE b == Decides(l)
  <2>1. b = [a |-> a2, think |-> nil, say |-> nil]
    BY <1>1
  <2> HIDE DEF b
  <2>2. b.a = a2
    BY <2>1
  <2>3. [b EXCEPT !.a.thinking = TRUE] = [b EXCEPT !.a = a3]
    BY <2>2, Zenon DEF a3
  <2>4. [b EXCEPT !.a = a3] = Enters(l)
    BY <1>1, <2>1
  <2> QED
    BY <2>3, <2>4 DEF b
<1>15. [Fresh(l) EXCEPT !.a.opening = FALSE, !.a.prefix = <<>>] = Decides(l)
  BY <1>g, <1>13 DEF nil, s1
<1> QED
  BY <1>4, <1>6, <1>8, <1>9, <1>10, <1>11, <1>14, <1>15, Zenon

LEMMA HeedIs ==
    ASSUME agent \in Locals, NEW t \in Seq(STRING), NEW l, l = agent,
           NEW all, all = l.prefix \o t
    PROVE  /\ l \in Locals /\ all \in Seq(STRING)
           /\ Heed(t) =
                IF ~ l.opening
                  THEN IF l.thinking THEN Think(Fresh(l), t) ELSE Say(Fresh(l), t)
                  ELSE CASE Undecided(all) -> Waits(l, all)
                         [] Opens(all) -> Think(Enters(l), After(Trimmed(all), Len(OpenTag)))
                         [] OTHER -> Say(Decides(l), all)
<1>1. l \in Locals /\ all \in Seq(STRING)
  BY DEF Locals
<1>2. Now = Fresh(l)
  BY DEF Now, Fresh
<1>3. /\ [Now EXCEPT !.a.prefix = all] = Waits(l, all)
      /\ [Now EXCEPT !.a.opening = FALSE, !.a.prefix = <<>>] = Decides(l)
      /\ [Decides(l) EXCEPT !.a.thinking = TRUE] = Enters(l)
  BY <1>1, <1>2, StartsIs
<1> DEFINE b == Fresh(l)
           w == Waits(l, all)
           d == Decides(l)
           e == Enters(l)
<1>4. Heed(t) = IF ~ agent.opening THEN IF agent.thinking THEN Think(Now, t) ELSE Say(Now, t)
                ELSE CASE Undecided(all) -> [Now EXCEPT !.a.prefix = all]
                       [] Opens(all) ->
                            Think([[Now EXCEPT !.a.opening = FALSE, !.a.prefix = <<>>]
                                     EXCEPT !.a.thinking = TRUE],
                                  After(Trimmed(all), Len(OpenTag)))
                       [] OTHER -> Say([Now EXCEPT !.a.opening = FALSE, !.a.prefix = <<>>], all)
  BY DEF Heed
<1>5. Heed(t) = IF ~ l.opening THEN IF l.thinking THEN Think(b, t) ELSE Say(b, t)
                ELSE CASE Undecided(all) -> w
                       [] Opens(all) -> Think(e, After(Trimmed(all), Len(OpenTag)))
                       [] OTHER -> Say(d, all)
  BY <1>2, <1>3, <1>4, Zenon
<1> QED
  BY <1>1, <1>5

LEMMA HeedKeeps ==
    ASSUME agent \in Locals, NEW t \in Seq(STRING)
    PROVE  Heed(t) \in Does /\ Keeps(agent, Heed(t).a)
<1>1. PICK l, all : l = agent /\ all = l.prefix \o t
  OBVIOUS
<1> DEFINE b == Fresh(l)
           w == Waits(l, all)
           d == Decides(l)
           e == Enters(l)
           u == After(Trimmed(all), Len(OpenTag))
<1>2. /\ l \in Locals /\ all \in Seq(STRING)
      /\ Heed(t) = IF ~ l.opening THEN IF l.thinking THEN Think(b, t) ELSE Say(b, t)
                   ELSE CASE Undecided(all) -> w
                          [] Opens(all) -> Think(e, u)
                          [] OTHER -> Say(d, all)
  BY <1>1, HeedIs
<1>3. /\ b \in Does /\ w \in Does /\ d \in Does /\ e \in Does
      /\ Keeps(l, b.a) /\ Keeps(l, w.a) /\ Keeps(l, d.a) /\ Keeps(l, e.a)
  BY <1>2, StartsIs
<1>4. Opens(all) => u \in Seq(STRING)
  <2> SUFFICES ASSUME Opens(all) PROVE u \in Seq(STRING)
    OBVIOUS
  <2>1. HasVisible(all) /\ IsPrefix(OpenTag, Trimmed(all))
    BY DEF Opens
  <2>2. Trimmed(all) \in Seq(STRING)
    BY <1>2, <2>1, FirstIs
  <2>3. Len(OpenTag) \in 0..Len(Trimmed(all))
    BY <2>1, <2>2, TagsAre DEF IsPrefix
  <2> QED
    BY <2>2, <2>3, AfterIs
<1> HIDE DEF b, w, d, e, u
<1>5. \/ Heed(t) = Think(b, t) \/ Heed(t) = Say(b, t) \/ Heed(t) = w
      \/ Opens(all) /\ Heed(t) = Think(e, u)
      \/ Heed(t) = Say(d, all)
  BY <1>2, Zenon
<1>6. Think(b, t) \in Does /\ Keeps(l, Think(b, t).a)
  BY <1>3, ThinkKeeps DEF Keeps
<1>7. Say(b, t) \in Does /\ Keeps(l, Say(b, t).a)
  BY <1>3, SayKeeps, SayIs DEF Keeps
<1>8. Say(d, all) \in Does /\ Keeps(l, Say(d, all).a)
  BY <1>2, <1>3, SayKeeps, SayIs DEF Keeps
<1>9. Opens(all) => Think(e, u) \in Does /\ Keeps(l, Think(e, u).a)
  BY <1>3, <1>4, ThinkKeeps DEF Keeps
<1> QED
  BY <1>1, <1>3, <1>5, <1>6, <1>7, <1>8, <1>9

(* What is left of a thought is shown when a call comes or the stream ends.  *)
Emptied(s) ==
    [a |-> [[s.a EXCEPT !.thought = <<>>] EXCEPT !.thinking = FALSE],
     think |-> s.think \o s.a.thought, say |-> s.say]

LEMMA FlushedIs ==
    ASSUME NEW s \in Does
    PROVE  /\ Flushed(s) = IF ~ s.a.thinking \/ s.a.thought = <<>> THEN s ELSE Emptied(s)
           /\ Flushed(s) \in Does /\ Emptied(s) \in Does /\ Keeps(s.a, Flushed(s).a)
<1> DEFINE nil == <<>>
           w == s.think \o s.a.thought
           l == s.a
           a1 == [l EXCEPT !.thought = nil]
           a2 == [a1 EXCEPT !.thinking = FALSE]
           s1 == [s EXCEPT !.think = w]
           s2 == [s1 EXCEPT !.a.thought = nil]
           s3 == [s2 EXCEPT !.a.thinking = FALSE]
<1>1. /\ s.a \in Locals /\ s.think \in Seq(STRING) /\ s.say \in Seq(STRING)
      /\ s = [a |-> s.a, think |-> s.think, say |-> s.say] /\ s.a.thought \in Seq(STRING)
      /\ nil \in Thought /\ FALSE \in BOOLEAN
  BY DoesIs
<1>2. w \in Seq(STRING)
  BY <1>1
<1>3. Flushed(s) = IF ~ s.a.thinking \/ s.a.thought = nil THEN s ELSE s3
  BY DEF Flushed
<1>4. Emptied(s) = [a |-> a2, think |-> w, say |-> s.say]
  BY Zenon DEF Emptied
<1> HIDE DEF nil, w, a1, a2, s1, s2, s3
<1>5. s1 = [a |-> l, think |-> w, say |-> s.say]
  BY <1>1 DEF s1
<1> HIDE DEF l
<1>6. s2 = [a |-> a1, think |-> w, say |-> s.say]
  BY <1>5 DEF s2, a1
<1>7. s3 = [a |-> a2, think |-> w, say |-> s.say]
  <2>1. s2.a = a1
    BY <1>6
  <2>2. s3 = [s2 EXCEPT !.a = a2]
    BY <2>1, Zenon DEF s3, a2
  <2> QED
    BY <1>6, <2>2
<1>8. l \in Locals /\ a1 \in Locals
  BY <1>1, LocalsWith, Zenon DEF a1, l
<1>9. a2 \in Locals
  BY <1>1, <1>8, LocalsWith, Zenon DEF a2
<1>10. Keeps(l, a1)
  BY <1>8 DEF a1, Keeps, Locals
<1>11. Keeps(l, a2)
  BY <1>8, <1>10 DEF a2, Keeps, Locals
<1>12. s3 \in Does /\ s3 = Emptied(s) /\ s3.a = a2
  <2>1. [a |-> a2, think |-> w, say |-> s.say] \in Does
    BY <1>1, <1>2, <1>9, DoesWith, Zenon
  <2> QED
    BY <1>4, <1>7, <2>1
<1>13. Keeps(s.a, s3.a) /\ Keeps(s.a, s.a)
  BY <1>11, <1>12 DEF Keeps, l
<1> QED
  BY <1>3, <1>12, <1>13 DEF nil

(* The last of the text is shown.                                            *)
Said(s) ==
    [a |-> [[[s.a EXCEPT !.content = s.a.content \o s.a.prefix] EXCEPT !.prefix = <<>>]
               EXCEPT !.pc = "over"],
     think |-> s.think, say |-> s.say \o s.a.prefix]

LEMMA LeaveIs ==
    ASSUME NEW s \in Does, Leave(s)
    PROVE  /\ Said(s) \in Does /\ Flushed(Said(s)) \in Does
           /\ agent' = Flushed(Said(s)).a
           /\ shown' = [thoughts |-> shown.thoughts \o Flushed(Said(s)).think,
                        text |-> shown.text \o Flushed(Said(s)).say]
           /\ agent'.pc = "over" /\ agent'.calls = s.a.calls /\ agent'.error = s.a.error
           /\ ran' = s.a.calls
           /\ UNCHANGED <<backend, answer, server, wire, buffer, reader, heard>>
<1> DEFINE nil == <<>>
           l == s.a
           c == s.a.content \o s.a.prefix
           y == s.say \o s.a.prefix
           a1 == [l EXCEPT !.content = c]
           a2 == [a1 EXCEPT !.prefix = nil]
           a3 == [a2 EXCEPT !.pc = "over"]
           s1 == [s EXCEPT !.say = y]
           s2 == [s1 EXCEPT !.a.content = c]
           s3 == [s2 EXCEPT !.a.prefix = nil]
           s4 == [s3 EXCEPT !.a.pc = "over"]
           said == [s EXCEPT !.say = @ \o s.a.prefix, !.a.content = @ \o s.a.prefix,
                             !.a.prefix = <<>>, !.a.pc = "over"]
<1>1. /\ s.a \in Locals /\ s.think \in Seq(STRING) /\ s.say \in Seq(STRING)
      /\ s = [a |-> s.a, think |-> s.think, say |-> s.say]
      /\ s.a.content \in Seq(STRING) /\ s.a.prefix \in Seq(STRING)
      /\ nil \in Seq(STRING) /\ "over" \in {"listening", "over", "left"}
  BY DoesIs
<1>2. c \in Seq(STRING) /\ y \in Seq(STRING)
  BY <1>1
<1>3. /\ agent' = Flushed(said).a
      /\ shown' = [thoughts |-> shown.thoughts \o Flushed(said).think,
                   text |-> shown.text \o Flushed(said).say]
      /\ ran' = s.a.calls
      /\ UNCHANGED <<backend, answer, server, wire, buffer, reader, heard>>
  BY Zenon DEF Leave, Show
<1>4. said = s4
  OBVIOUS
<1>5. Said(s) = [a |-> a3, think |-> s.think, say |-> y]
  BY Zenon DEF Said
<1> HIDE DEF nil, c, y, a1, a2, a3, s1, s2, s3, s4, said
<1>6. s1 = [a |-> l, think |-> s.think, say |-> y]
  BY <1>1 DEF s1
<1> HIDE DEF l
<1>7. s2 = [a |-> a1, think |-> s.think, say |-> y]
  BY <1>6 DEF s2, a1
<1>8. s3 = [a |-> a2, think |-> s.think, say |-> y]
  BY <1>7 DEF s3, a2
<1>9. s4 = [a |-> a3, think |-> s.think, say |-> y]
  BY <1>8 DEF s4, a3
<1>10. l \in Locals /\ a1 \in Locals
  BY <1>1, <1>2, LocalsWith, Zenon DEF a1, l
<1>11. a2 \in Locals
  BY <1>1, <1>10, LocalsWith, Zenon DEF a2
<1>12. a3 \in Locals
  BY <1>1, <1>11, LocalsWith, Zenon DEF a3
<1>13. a1.calls = l.calls /\ a1.error = l.error
  BY <1>10 DEF a1, Locals
<1>14. a2.calls = l.calls /\ a2.error = l.error
  BY <1>10, <1>13 DEF a2, Locals
<1>15. a3.calls = l.calls /\ a3.error = l.error /\ a3.pc = "over"
  BY <1>11, <1>14 DEF a3, Locals
<1>16. Said(s) \in Does /\ Said(s).a = a3 /\ said = Said(s)
  <2>1. [a |-> a3, think |-> s.think, say |-> y] \in Does
    BY <1>1, <1>2, <1>12, DoesWith, Zenon
  <2> QED
    BY <1>4, <1>5, <1>9, <2>1
<1>17. Flushed(Said(s)) \in Does /\ Keeps(Said(s).a, Flushed(Said(s)).a)
  BY <1>16, FlushedIs
<1>18. agent'.pc = "over" /\ agent'.calls = s.a.calls /\ agent'.error = s.a.error
  BY <1>3, <1>15, <1>16, <1>17 DEF Keeps, l
<1> QED
  BY <1>3, <1>16, <1>17, <1>18, Zenon

-----------------------------------------------------------------------------
(* The agent takes a message, and knows more than it did.                    *)
LEMMA Taking ==
    ASSUME queue \in Seq(Msg), queue # <<>>, queue' = Tail(queue),
           NEW f, Course(answer, backend, queue, f)
    PROVE  /\ queue' \in Seq(Msg) /\ Len(queue) \in Nat /\ Len(queue) >= 1
           /\ Len(queue') = Len(queue) - 1 /\ Head(queue) = queue[1]
           /\ \A i \in 1..Len(queue') : queue'[i] = queue[i + 1] /\ i + 1 \in 1..Len(queue)
           /\ Sound(answer, backend, f[0]) /\ Sound(answer, backend, f[1])
           /\ Brings(answer, backend, f[0], Head(queue), f[1])
           /\ backend # "openai" => f[0].given = <<>> /\ f[1].given = <<>>
           /\ \E g : /\ Course(answer, backend, queue', g) /\ g[0] = f[1]
                     /\ g[Len(queue')] = f[Len(queue)]
<1>1. PICK a, k, s : a = answer /\ k = backend /\ s = queue
  OBVIOUS
<1>2. s \in Seq(Msg) /\ s # <<>> /\ Course(a, k, s, f)
  BY <1>1
<1>3. \E g : /\ Course(a, k, Tail(s), g) /\ g[0] = f[1] /\ g[Len(Tail(s))] = f[Len(s)]
             /\ Sound(a, k, f[0]) /\ Sound(a, k, f[1])
             /\ Brings(a, k, f[0], Head(s), f[1])
  BY <1>2, CourseLater
<1>4. /\ Tail(s) \in Seq(Msg) /\ Len(s) \in Nat /\ Len(s) >= 1
      /\ Len(Tail(s)) = Len(s) - 1 /\ Head(s) = s[1]
      /\ \A i \in 1..Len(Tail(s)) : Tail(s)[i] = s[i + 1] /\ i + 1 \in 1..Len(s)
  BY <1>2
<1>5. k # "openai" => f[0].given = <<>> /\ f[1].given = <<>>
  <2>1. 0 \in 0..Len(s) /\ 1 \in 0..Len(s)
    BY <1>4
  <2> QED
    BY <1>2, <2>1 DEF Course
<1> QED
  BY <1>1, <1>3, <1>4, <1>5

LEMMA TakenInv ==
    ASSUME Inv, NEW kind \in {"text", "calls"}, Take(kind), agent' \in Locals,
           agent'.pc = "listening", agent'.error = agent.error, heard' \in Seq(STRING),
           NEW h, NEW f, ToldOnWire(h), ToldInQueue(h, f),
           heard' = SubSeq(answer.text, 1, f[1].said),
           agent'.calls = AsCalls(Tools(answer, f[1]))
    PROVE  Inv'
<1>1. /\ Types /\ Verdicts /\ Wired /\ agent.pc = "listening" /\ queue # <<>>
      /\ queue' = Tail(queue) /\ queue \in Seq(Msg)
      /\ UNCHANGED <<backend, answer, server, wire, buffer, reader, ran>>
  BY DEF Take, Inv, Types
<1>2. Course(answer, backend, queue, f)
  BY DEF ToldInQueue
<1>3. /\ queue' \in Seq(Msg) /\ Len(queue) \in Nat /\ Len(queue) >= 1
      /\ Len(queue') = Len(queue) - 1
      /\ \A i \in 1..Len(queue') : queue'[i] = queue[i + 1] /\ i + 1 \in 1..Len(queue)
      /\ \E g : /\ Course(answer, backend, queue', g) /\ g[0] = f[1]
                /\ g[Len(queue')] = f[Len(queue)]
  BY <1>1, <1>2, Taking
<1>4. Types'
  BY <1>1, <1>3 DEF Types
<1>5. Sound(answer, backend, AllSaid)' /\ Line' = Line /\ Blank' = Blank
  BY <1>1 DEF Inv, AllSaid, Line, Blank
<1>6. Wired'
  BY <1>1, <1>5 DEF Wired, Going
<1>7. Verdicts'
  <2>1. Good' = Good /\ Bad' = Bad
    BY <1>1 DEF Good, Bad
  <2>2. agent'.pc = "listening" /\ ~ agent'.error
    BY <1>1 DEF Verdicts
  <2>3. \A i \in 1..Len(queue') : queue'[i].kind = "done" =>
           Good /\ reader.pc = "over" /\ i = Len(queue') /\ queue'[i].calls = AsCalls(reader.tools)
    <3> TAKE i \in 1..Len(queue')
    <3>1. i + 1 \in 1..Len(queue) /\ queue'[i] = queue[i + 1] /\ (i + 1 = Len(queue) => i = Len(queue'))
      BY <1>3
    <3> QED
      BY <1>1, <3>1 DEF Verdicts
  <2>4. \A i \in 1..Len(queue') : queue'[i].kind = "error" =>
           Bad /\ reader.pc = "over" /\ i = Len(queue')
    <3> TAKE i \in 1..Len(queue')
    <3>1. i + 1 \in 1..Len(queue) /\ queue'[i] = queue[i + 1] /\ (i + 1 = Len(queue) => i = Len(queue'))
      BY <1>3
    <3> QED
      BY <1>1, <3>1 DEF Verdicts
  <2> QED
    BY <1>1, <2>1, <2>2, <2>3, <2>4 DEF Verdicts
<1>8. AllTold'
  <2>1. PICK g : /\ Course(answer, backend, queue', g) /\ g[0] = f[1]
                 /\ g[Len(queue')] = f[Len(queue)]
    BY <1>3
  <2>2. ToldOnWire(h)'
    BY <1>1, <1>5 DEF ToldOnWire, AllSaid, Going
  <2>3. ToldInQueue(h, g)'
    <3>1. f[Len(queue)].said = h[0].said /\ (backend = "openai" => f[Len(queue)] = h[0])
      BY DEF ToldInQueue
    <3> QED
      BY <1>1, <2>1, <3>1 DEF ToldInQueue
  <2> QED
    BY <2>2, <2>3 DEF AllTold
<1>9. RunAsAsked'
  BY DEF RunAsAsked
<1> QED
  BY <1>4, <1>5, <1>6, <1>7, <1>8, <1>9 DEF Inv

(* What is sent next joins what has been.                                    *)
LEMMA JoinIs ==
    ASSUME NEW t \in Seq(STRING), NEW a \in Nat, NEW b \in Nat, a <= b, b <= Len(t)
    PROVE  /\ SubSeq(t, 1, a) \o SubSeq(t, a + 1, b) = SubSeq(t, 1, b)
           /\ SubSeq(t, 1, b) \in Seq(STRING)
<1> DEFINE p == SubSeq(t, 1, a)
           q == SubSeq(t, a + 1, b)
           r == SubSeq(t, 1, b)
<1>1. /\ p \in Seq(STRING) /\ Len(p) = a /\ \A i \in 1..a : p[i] = t[i]
      /\ r \in Seq(STRING) /\ Len(r) = b /\ \A i \in 1..b : r[i] = t[i]
      /\ q \in Seq(STRING) /\ Len(q) = b - a
  OBVIOUS
<1>2. \A i \in 1..b - a : q[i] = t[a + i]
  <2>1. \A i \in 1..b + 1 - (a + 1) : SubSeq(t, a + 1, b)[i] = t[i + (a + 1) - 1]
    BY SubIs
  <2> TAKE i \in 1..b - a
  <2>2. i \in 1..b + 1 - (a + 1) /\ i + (a + 1) - 1 = a + i
    OBVIOUS
  <2> QED
    BY <2>1, <2>2
<1> HIDE DEF p, q, r
<1>3. /\ p \o q \in Seq(STRING) /\ Len(p \o q) = Len(p) + Len(q)
      /\ \A i \in 1..Len(p) : (p \o q)[i] = p[i]
      /\ \A i \in 1..Len(q) : (p \o q)[Len(p) + i] = q[i]
      /\ \A i \in Len(p) + 1..Len(p) + Len(q) : (p \o q)[i] = q[i - Len(p)]
  BY <1>1, CatIs, Zenon
<1> DEFINE u == p \o q
<1> HIDE DEF u
<1>4. u \in Seq(STRING) /\ Len(u) = b
  BY <1>1, <1>3 DEF u
<1>5. \A i \in 1..b : u[i] = r[i]
  <2> TAKE i \in 1..b
  <2>1. CASE i <= a
    <3>1. i \in 1..a /\ i \in 1..Len(p)
      BY <1>1, <2>1
    <3>2. u[i] = p[i]
      BY <1>3, <3>1, Zenon DEF u
    <3> QED
      BY <1>1, <3>1, <3>2
  <2>2. CASE i > a
    <3> DEFINE j == i - a
    <3>1. j \in 1..b - a /\ a + j = i /\ i \in Len(p) + 1..Len(p) + Len(q) /\ i - Len(p) = j
      BY <1>1, <2>2
    <3> HIDE DEF j
    <3>2. u[i] = q[j]
      BY <1>3, <3>1 DEF u
    <3> QED
      BY <1>1, <1>2, <3>1, <3>2
  <2> QED
    BY <2>1, <2>2
<1>6. u = r
  BY <1>1, <1>4, <1>5, Same
<1> QED
  BY <1>1, <1>6 DEF u, p, q, r

LEMMA TakeTextInv ==
    ASSUME Inv, TakeText
    PROVE  Inv'
<1>1. /\ Types /\ Verdicts /\ Take("text") /\ agent.pc = "listening" /\ queue # <<>>
      /\ queue' = Tail(queue) /\ Head(queue).kind = "text" /\ queue \in Seq(Msg)
      /\ agent' = Heed(Head(queue).text).a /\ heard' = heard \o Head(queue).text
  BY DEF TakeText, Take, Show, Inv, Types
<1>2. PICK h, f : ToldOnWire(h) /\ ToldInQueue(h, f)
  BY DEF Inv, AllTold
<1>3. /\ Course(answer, backend, queue, f)
      /\ heard = SubSeq(answer.text, 1, f[0].said) /\ agent.calls = AsCalls(Tools(answer, f[0]))
  BY <1>1, <1>2 DEF ToldInQueue
<1>4. /\ Sound(answer, backend, f[0]) /\ Sound(answer, backend, f[1])
      /\ Brings(answer, backend, f[0], Head(queue), f[1])
      /\ Len(queue) >= 1 /\ Len(queue) \in Nat /\ Head(queue) = queue[1]
  BY <1>1, <1>3, Taking
<1>5. BringsText(answer, f[0], Head(queue), f[1])
  BY <1>1, <1>4 DEF Brings, BringsCall
<1>6. /\ f[0].given = <<>> /\ f[1].given = <<>> /\ f[0].said <= f[1].said
      /\ Head(queue).text = SubSeq(answer.text, f[0].said + 1, f[1].said)
  BY <1>5 DEF BringsText
<1>7. answer.text \in Seq(STRING) /\ agent \in Locals
  BY <1>1, AnswerIs DEF Types
<1>8. f[0].said \in Nat /\ f[1].said \in Nat /\ f[1].said <= Len(answer.text)
  BY <1>4 DEF Sound, Prog
<1>9. heard' = SubSeq(answer.text, 1, f[1].said) /\ heard' \in Seq(STRING)
  <2>1. PICK t, a, b : t = answer.text /\ a = f[0].said /\ b = f[1].said
    OBVIOUS
  <2>2. /\ SubSeq(t, 1, a) \o SubSeq(t, a + 1, b) = SubSeq(t, 1, b)
        /\ SubSeq(t, 1, b) \in Seq(STRING)
    BY <1>6, <1>7, <1>8, <2>1, JoinIs
  <2> QED
    BY <1>1, <1>3, <1>6, <2>1, <2>2
<1>10. Tools(answer, f[1]) = Tools(answer, f[0])
  BY <1>6 DEF Tools
<1>11. /\ agent' \in Locals /\ agent'.pc = "listening" /\ agent'.error = agent.error
       /\ agent'.calls = agent.calls
  <2>1. Head(queue).text \in Seq(STRING)
    <3>1. queue[1] \in Msg
      BY <1>1, <1>4
    <3> QED
      BY <1>4, <3>1 DEF Msg
  <2>2. PICK t : t = Head(queue).text
    OBVIOUS
  <2>3. Heed(t) \in Does /\ Keeps(agent, Heed(t).a)
    BY <1>7, <2>1, <2>2, HeedKeeps
  <2>4. Heed(t).a \in Locals
    BY <2>3 DEF Does
  <2> QED
    BY <1>1, <2>2, <2>3, <2>4 DEF Keeps
<1> QED
  BY <1>1, <1>2, <1>3, <1>9, <1>10, <1>11, TakenInv

(* A call's state takes the place of what was known of it.                   *)
LEMMA SeqAs ==
    ASSUME NEW T, NEW s \in Seq(T)
    PROVE  s = [i \in 1..Len(s) |-> s[i]]
OBVIOUS

LEMMA InsertedIs ==
    ASSUME NEW s \in Seq(CallNow), NEW r \in Seq(CallNow), NEW j \in 1..Len(r),
           \A i \in 1..Len(s) : s[i].index = i, r[j].index = j,
           \A i \in 1..Len(r) : i # j => i \in 1..Len(s) /\ r[i] = s[i],
           Len(s) = Len(r) \/ (Len(s) + 1 = Len(r) /\ j = Len(r))
    PROVE  Inserted(s, r[j]) = r
<1>1. Len(s) \in Nat /\ Len(r) \in Nat /\ DOMAIN s = 1..Len(s) /\ DOMAIN r = 1..Len(r)
  OBVIOUS
<1>2. CASE Len(s) = Len(r)
  <2>1. j \in DOMAIN s /\ s[j].index = r[j].index
    BY <1>1, <1>2
  <2>2. Inserted(s, r[j]) =
          [i \in DOMAIN s |-> IF s[i].index = r[j].index THEN r[j] ELSE s[i]]
    BY <2>1, Zenon DEF Inserted
  <2> DEFINE g == [i \in DOMAIN s |-> IF s[i].index = r[j].index THEN r[j] ELSE s[i]]
  <2>3. \A i \in 1..Len(r) : (IF s[i].index = r[j].index THEN r[j] ELSE s[i]) = r[i]
    <3> TAKE i \in 1..Len(r)
    <3>1. s[i].index = i
      BY <1>2
    <3> QED
      BY <3>1
  <2>4. g = [i \in 1..Len(r) |-> r[i]]
    BY <1>1, <1>2, <2>3
  <2>5. r = [i \in 1..Len(r) |-> r[i]]
    BY SeqAs, Zenon
  <2> QED
    BY <2>2, <2>4, <2>5
<1>3. CASE Len(s) + 1 = Len(r) /\ j = Len(r)
  <2>1. \A i \in DOMAIN s : s[i].index # r[j].index
    <3> TAKE i \in DOMAIN s
    <3>1. i \in 1..Len(s)
      BY <1>1
    <3>2. s[i].index = i
      BY <3>1
    <3>a. \A a, b \in Nat : \A x \in 1..a : a + 1 = b => x # b
      OBVIOUS
    <3>3. i # j
      BY <1>1, <1>3, <3>1, <3>a, Zenon
    <3> QED
      BY <3>2, <3>3
  <2>2. Inserted(s, r[j]) = Append(s, r[j])
    BY <2>1, Zenon DEF Inserted
  <2> DEFINE c == r[j]
             u == Append(s, c)
  <2>3. c \in CallNow
    OBVIOUS
  <2> HIDE DEF c
  <2>4. /\ u \in Seq(CallNow) /\ Len(u) = Len(s) + 1 /\ u[Len(s) + 1] = c
        /\ \A i \in 1..Len(s) : u[i] = s[i]
    BY <2>3
  <2> HIDE DEF u
  <2>5. \A i \in 1..Len(u) : u[i] = r[i]
    <3> TAKE i \in 1..Len(u)
    <3>1. CASE i = j
      BY <1>3, <2>4, <3>1 DEF c
    <3>2. CASE i # j
      <4>1. i \in 1..Len(r) /\ i \in 1..Len(s)
        BY <1>1, <1>3, <2>4, <3>2
      <4> QED
        BY <2>4, <3>2, <4>1
    <3> QED
      BY <3>1, <3>2
  <2>6. u = r
    BY <1>3, <2>4, <2>5, Same
  <2> QED
    BY <2>2, <2>6 DEF u, c
<1> QED
  BY <1>2, <1>3

LEMMA CallsJoin ==
    ASSUME Types, NEW p, NEW n, Sound(answer, backend, p), Sound(answer, backend, n),
           NEW j \in 1..Len(n.given),
           \/ Len(p.given) = Len(n.given)
           \/ Len(p.given) + 1 = Len(n.given) /\ j = Len(n.given),
           \A i \in 1..Len(n.given) : i # j => ToolAt(answer, n, i) = ToolAt(answer, p, i)
    PROVE  /\ Inserted(AsCalls(Tools(answer, p)), Numbered(j, ToolAt(answer, n, j)))
                = AsCalls(Tools(answer, n))
           /\ AsCalls(Tools(answer, n)) \in Seq(CallNow)
<1> DEFINE s == AsCalls(Tools(answer, p))
           r == AsCalls(Tools(answer, n))
<1>1. /\ s \in Seq(CallNow) /\ Len(s) = Len(p.given)
      /\ \A i \in 1..Len(p.given) : s[i] = Numbered(i, ToolAt(answer, p, i))
  BY ToolsType
<1>2. /\ r \in Seq(CallNow) /\ Len(r) = Len(n.given)
      /\ \A i \in 1..Len(n.given) : r[i] = Numbered(i, ToolAt(answer, n, i))
  BY ToolsType
<1> HIDE DEF s, r
<1>3. \A i, t : Numbered(i, t).index = i
  BY DEF Numbered
<1>4. \A i \in 1..Len(s) : s[i].index = i
  BY <1>1, <1>3
<1>5. r[j].index = j
  BY <1>2, <1>3
<1>6. \A i \in 1..Len(r) : i # j => i \in 1..Len(s) /\ r[i] = s[i]
  <2> SUFFICES ASSUME NEW i \in 1..Len(r), i # j PROVE i \in 1..Len(s) /\ r[i] = s[i]
    OBVIOUS
  <2>1. i \in 1..Len(p.given)
    <3>1. Len(s) \in Nat /\ Len(r) \in Nat
      BY <1>1, <1>2
    <3> QED
      BY <1>1, <1>2, <3>1
  <2> QED
    BY <1>1, <1>2, <2>1
<1>7. PICK a, b, m : a = s /\ b = r /\ m = Len(r)
  OBVIOUS
<1>8. Inserted(a, b[j]) = b
  <2>1. /\ a \in Seq(CallNow) /\ b \in Seq(CallNow) /\ j \in 1..Len(b)
        /\ \A i \in 1..Len(a) : a[i].index = i
        /\ b[j].index = j
        /\ \A i \in 1..Len(b) : i # j => i \in 1..Len(a) /\ b[i] = a[i]
        /\ Len(a) = Len(b) \/ (Len(a) + 1 = Len(b) /\ j = Len(b))
    BY <1>1, <1>2, <1>4, <1>5, <1>6, <1>7
  <2> QED
    BY <2>1, InsertedIs
<1>9. r[j] = Numbered(j, ToolAt(answer, n, j))
  BY <1>2
<1> QED
  BY <1>2, <1>7, <1>8, <1>9 DEF s, r

LEMMA TakeCallsInv ==
    ASSUME Inv, TakeCalls
    PROVE  Inv'
<1>1. /\ Types /\ Verdicts /\ Take("calls") /\ agent.pc = "listening" /\ queue # <<>>
      /\ queue' = Tail(queue) /\ Head(queue).kind = "calls" /\ queue \in Seq(Msg)
      /\ agent' = [Flushed(Now) EXCEPT !.a.calls = Inserted(@, Head(Head(queue).calls))].a
      /\ heard' = heard
  BY DEF TakeCalls, Take, Show, Inv, Types
<1>2. PICK h, f : ToldOnWire(h) /\ ToldInQueue(h, f)
  BY DEF Inv, AllTold
<1>3. /\ Course(answer, backend, queue, f)
      /\ heard = SubSeq(answer.text, 1, f[0].said) /\ agent.calls = AsCalls(Tools(answer, f[0]))
  BY <1>1, <1>2 DEF ToldInQueue
<1>4. /\ Sound(answer, backend, f[0]) /\ Sound(answer, backend, f[1])
      /\ Brings(answer, backend, f[0], Head(queue), f[1])
  BY <1>1, <1>3, Taking
<1>5. BringsCall(answer, backend, f[0], Head(queue), f[1])
  BY <1>1, <1>4 DEF Brings, BringsText
<1>6. PICK j \in 1..Len(f[1].given) :
         /\ Head(queue).calls = <<Numbered(j, ToolAt(answer, f[1], j))>>
         /\ \/ Len(f[0].given) = Len(f[1].given)
            \/ Len(f[0].given) + 1 = Len(f[1].given) /\ j = Len(f[1].given)
         /\ \A i \in 1..Len(f[1].given) :
              i # j => ToolAt(answer, f[1], i) = ToolAt(answer, f[0], i)
  BY <1>5 DEF BringsCall
<1>7. f[1].said = f[0].said
  BY <1>5 DEF BringsCall
<1> DEFINE c == Head(Head(queue).calls)
<1>8. c = Numbered(j, ToolAt(answer, f[1], j))
  BY <1>6
<1> HIDE DEF c
<1>9. PICK p, n : p = f[0] /\ n = f[1]
  OBVIOUS
<1>10. Inserted(agent.calls, c) = AsCalls(Tools(answer, n)) /\ AsCalls(Tools(answer, n)) \in Seq(CallNow)
  <2>1. /\ Inserted(AsCalls(Tools(answer, p)), Numbered(j, ToolAt(answer, n, j)))
             = AsCalls(Tools(answer, n))
        /\ AsCalls(Tools(answer, n)) \in Seq(CallNow)
    BY <1>1, <1>4, <1>6, <1>9, CallsJoin
  <2> QED
    BY <1>3, <1>8, <1>9, <2>1
<1>11. Flushed(Now) \in Does /\ Keeps(agent, Flushed(Now).a)
  <2>1. agent \in Locals
    BY <1>1 DEF Types
  <2>2. PICK s : s = Now
    OBVIOUS
  <2>3. s \in Does /\ s.a = agent
    BY <2>1, <2>2, NowIs
  <2>4. Flushed(s) \in Does /\ Keeps(s.a, Flushed(s).a)
    BY <2>3, FlushedIs
  <2> QED
    BY <2>2, <2>3, <2>4
<1>12. PICK s, k : s = Flushed(Now) /\ k = Inserted(s.a.calls, c)
  OBVIOUS
<1>13. s.a \in Locals /\ k = AsCalls(Tools(answer, n)) /\ k \in Seq(CallNow)
       /\ s.a.pc = agent.pc /\ s.a.error = agent.error
  BY <1>10, <1>11, <1>12 DEF Keeps, Does
<1>14. agent' = [s.a EXCEPT !.calls = k]
  <2>1. agent' = [s EXCEPT !.a.calls = k].a
    BY <1>1, <1>12 DEF c
  <2>2. s \in Does
    BY <1>11, <1>12
  <2>3. s = [a |-> s.a, think |-> s.think, say |-> s.say]
    BY <2>2, DoesIs
  <2> DEFINE l == [s.a EXCEPT !.calls = k]
  <2>4. agent' = [s EXCEPT !.a = l].a
    BY <2>1
  <2> HIDE DEF l
  <2>5. [s EXCEPT !.a = l] = [a |-> l, think |-> s.think, say |-> s.say]
    BY <2>2, Put
  <2> QED
    BY <2>4, <2>5 DEF l
<1>15. /\ agent' \in Locals /\ agent'.pc = "listening" /\ agent'.error = agent.error
       /\ agent'.calls = AsCalls(Tools(answer, f[1]))
  <2>1. [s.a EXCEPT !.calls = k] \in Locals
    BY <1>13, LocalsWith, Zenon
  <2>2. /\ [s.a EXCEPT !.calls = k].pc = s.a.pc /\ [s.a EXCEPT !.calls = k].error = s.a.error
        /\ [s.a EXCEPT !.calls = k].calls = k
    BY <1>13 DEF Locals
  <2> QED
    BY <1>1, <1>9, <1>13, <1>14, <2>1, <2>2
<1>16. heard' \in Seq(STRING) /\ heard' = SubSeq(answer.text, 1, f[1].said)
  BY <1>1, <1>3, <1>7 DEF Types
<1> QED
  BY <1>1, <1>2, <1>15, <1>16, TakenInv

(* The last message.                                                         *)
LEMMA OverInv ==
    ASSUME Inv, agent.pc = "listening", queue # <<>>, Head(queue).kind \in {"done", "error"},
           queue' = Tail(queue), agent' \in Locals, agent'.pc = "over",
           ran' \in Seq(CallNow),
           UNCHANGED <<backend, answer, server, wire, buffer, reader, heard>>,
           IF agent'.error THEN Bad ELSE Good, RunAsAsked'
    PROVE  Inv'
<1>1. Types /\ Verdicts /\ Wired /\ queue \in Seq(Msg)
  BY DEF Inv, Types
<1>2. PICK h, f : ToldOnWire(h) /\ ToldInQueue(h, f)
  BY DEF Inv, AllTold
<1>3. Course(answer, backend, queue, f)
  BY <1>2 DEF ToldInQueue
<1>4. /\ queue' \in Seq(Msg) /\ Len(queue) \in Nat /\ Len(queue) >= 1
      /\ Len(queue') = Len(queue) - 1 /\ Head(queue) = queue[1]
      /\ \E g : /\ Course(answer, backend, queue', g) /\ g[0] = f[1]
                /\ g[Len(queue')] = f[Len(queue)]
  BY <1>1, <1>3, Taking
<1>5. Len(queue) = 1
  <2>1. 1 \in 1..Len(queue)
    BY <1>4
  <2> QED
    BY <1>1, <1>4, <2>1 DEF Verdicts
<1>6. Types'
  BY <1>1, <1>4 DEF Types
<1>7. Sound(answer, backend, AllSaid)' /\ Line' = Line /\ Blank' = Blank
  BY DEF Inv, AllSaid, Line, Blank
<1>8. Wired'
  BY <1>1, <1>7 DEF Wired, Going
<1>9. Verdicts'
  <2>1. Good' = Good /\ Bad' = Bad
    BY DEF Good, Bad
  <2>2. Len(queue') = 0
    BY <1>4, <1>5
  <2> QED
    BY <2>1, <2>2, SMTT(30) DEF Verdicts
<1>10. AllTold'
  <2>1. PICK g : /\ Course(answer, backend, queue', g) /\ g[0] = f[1]
                 /\ g[Len(queue')] = f[Len(queue)]
    BY <1>4
  <2>2. ToldOnWire(h)'
    BY <1>2, <1>7 DEF ToldOnWire, AllSaid, Going
  <2>3. ToldInQueue(h, g)'
    <3>1. f[Len(queue)].said = h[0].said /\ (backend = "openai" => f[Len(queue)] = h[0])
      BY <1>2 DEF ToldInQueue
    <3> QED
      BY <2>1, <3>1 DEF ToldInQueue
  <2> QED
    BY <2>2, <2>3 DEF AllTold
<1> QED
  BY <1>6, <1>7, <1>8, <1>9, <1>10 DEF Inv

(* What is known of an answer told to its end is the answer.                 *)
LEMMA CompleteIs ==
    ASSUME Types, NEW p, Sound(answer, backend, p), Complete(answer, p)
    PROVE  /\ AsCalls(Tools(answer, p)) = Asked
           /\ SubSeq(answer.text, 1, p.said) = answer.text
<1> DEFINE s == AsCalls(Tools(answer, p))
<1>1. /\ s \in Seq(CallNow) /\ Len(s) = Len(p.given)
      /\ \A i \in 1..Len(p.given) : s[i] = Numbered(i, ToolAt(answer, p, i))
  BY ToolsType
<1>2. /\ Calls \in Seq(Call) /\ Calls = answer.calls /\ Len(Calls) \in Nat
      /\ answer.text \in Seq(STRING)
      /\ \A i \in 1..Len(Calls) : /\ Calls[i].args \in Seq(STRING)
                                  /\ Pieces(i) = Len(Calls[i].args)
  BY AnswerIs
<1>3. /\ p.said = Len(answer.text) /\ Len(p.given) = Len(Calls)
      /\ \A i \in 1..Len(p.given) : p.given[i] = Len(Calls[i].args) \/ i \in p.whole
  BY <1>2 DEF Complete
<1> HIDE DEF s
<1>4. \A t \in Seq(STRING) : SubSeq(t, 1, Len(t)) = t
  OBVIOUS
<1>5. \A i \in 1..Len(Calls) : s[i] = Numbered(i, Calls[i])
  <2> TAKE i \in 1..Len(Calls)
  <2>1. s[i] = Numbered(i, ToolAt(answer, p, i))
    BY <1>1, <1>3
  <2>2. ToolAt(answer, p, i).name = Calls[i].name
    BY <1>2 DEF ToolAt
  <2>3. ToolAt(answer, p, i).args = Calls[i].args
    <3>1. SubSeq(Calls[i].args, 1, Len(Calls[i].args)) = Calls[i].args
      BY <1>2, <1>4
    <3>2. p.given[i] = Len(Calls[i].args) \/ i \in p.whole
      BY <1>3
    <3> QED
      BY <1>2, <3>1, <3>2 DEF ToolAt
  <2> QED
    BY <2>1, <2>2, <2>3 DEF Numbered
<1>6. Asked = [i \in 1..Len(Calls) |-> Numbered(i, Calls[i])]
  <2>1. DOMAIN Calls = 1..Len(Calls)
    BY <1>2
  <2> QED
    BY <2>1 DEF Asked
<1>7. s = [i \in 1..Len(s) |-> s[i]]
  BY <1>1, SeqAs, Zenon
<1>8. s = Asked
  <2>1. Len(s) = Len(Calls)
    BY <1>1, <1>3
  <2>2. [i \in 1..Len(s) |-> s[i]] = [i \in 1..Len(Calls) |-> Numbered(i, Calls[i])]
    BY <1>5, <2>1
  <2> QED
    BY <1>6, <1>7, <2>2, Zenon
<1> QED
  BY <1>2, <1>3, <1>4, <1>8 DEF s

LEMMA AtLast ==
    ASSUME Inv, agent.pc = "listening", queue # <<>>, Head(queue).kind \in {"done", "error"},
           queue' = Tail(queue),
           NEW h, NEW f, ToldOnWire(h), ToldInQueue(h, f)
    PROVE  /\ Types /\ Verdicts /\ queue \in Seq(Msg) /\ Head(queue) \in Msg
           /\ Head(queue).kind = "done" =>
                Good /\ reader.pc = "over" /\ Head(queue).calls = AsCalls(Tools(answer, h[0]))
           /\ Head(queue).kind = "error" => Bad /\ reader.pc = "over"
           /\ Sound(answer, backend, h[0])
           /\ heard = SubSeq(answer.text, 1, h[0].said)
           /\ agent.calls \in {<<>>, AsCalls(Tools(answer, h[0]))}
           /\ backend # "openai" => agent.calls = <<>>
           /\ server.ends = "whole" /\ reader.pc = "over" => Complete(answer, h[0])
           /\ AsCalls(Tools(answer, h[0])) \in Seq(CallNow) /\ agent \in Locals
<1>1. Types /\ Verdicts /\ queue \in Seq(Msg) /\ agent \in Locals
  BY DEF Inv, Types
<1>2. /\ Course(answer, backend, queue, f) /\ f[Len(queue)].said = h[0].said
      /\ backend = "openai" => f[Len(queue)] = h[0]
      /\ heard = SubSeq(answer.text, 1, f[0].said) /\ agent.calls = AsCalls(Tools(answer, f[0]))
      /\ reader.tools = Tools(answer, h[0])
  BY DEF ToldInQueue, ToldOnWire
<1>3. /\ Len(queue) \in Nat /\ Len(queue) >= 1 /\ Head(queue) = queue[1]
      /\ Sound(answer, backend, f[0])
      /\ Brings(answer, backend, f[0], Head(queue), f[1])
      /\ backend # "openai" => f[0].given = <<>>
  BY <1>1, <1>2, Taking
<1>4. Head(queue) \in Msg /\ 1 \in 1..Len(queue)
  BY <1>1, <1>3
<1>5. Len(queue) = 1
  BY <1>1, <1>3, <1>4 DEF Verdicts
<1>6. f[1] = f[0]
  BY <1>3 DEF Brings, BringsText, BringsCall
<1>7. /\ f[0].said = h[0].said /\ (backend = "openai" => f[0] = h[0])
  BY <1>2, <1>5, <1>6
<1>8. Sound(answer, backend, h[0])
  <2>1. 0 \in 0..Len(Line)
    BY <1>1, LineIs
  <2> QED
    BY <2>1 DEF ToldOnWire, Chain
<1>9. backend # "openai" => agent.calls = <<>>
  <2> SUFFICES ASSUME backend # "openai" PROVE AsCalls(Tools(answer, f[0])) = <<>>
    BY <1>2
  <2> DEFINE s == AsCalls(Tools(answer, f[0]))
  <2>1. s \in Seq(CallNow) /\ Len(s) = Len(f[0].given)
    BY <1>1, <1>3, ToolsType
  <2>2. f[0].given = <<>>
    BY <1>3
  <2> HIDE DEF s
  <2>3. Len(s) = 0
    BY <2>1, <2>2
  <2>4. s = <<>>
    BY <2>1, <2>3
  <2> QED
    BY <2>4 DEF s
<1>10. /\ Head(queue).kind = "done" =>
            Good /\ reader.pc = "over" /\ Head(queue).calls = AsCalls(Tools(answer, h[0]))
       /\ Head(queue).kind = "error" => Bad /\ reader.pc = "over"
  BY <1>1, <1>2, <1>3, <1>4 DEF Verdicts
<1>11. AsCalls(Tools(answer, h[0])) \in Seq(CallNow)
  BY <1>1, <1>8, ToolsType
<1>12. agent.calls \in {<<>>, AsCalls(Tools(answer, h[0]))}
  BY <1>2, <1>7, <1>9
<1>13. server.ends = "whole" /\ reader.pc = "over" => Complete(answer, h[0])
  BY DEF ToldOnWire
<1> QED
  BY <1>1, <1>2, <1>4, <1>7, <1>8, <1>9, <1>10, <1>11, <1>12, <1>13

LEMMA TakeDoneInv ==
    ASSUME Inv, TakeDone
    PROVE  Inv'
<1>1. PICK s : /\ s = [Now EXCEPT !.a.calls = IF @ = <<>> THEN Head(queue).calls ELSE @]
               /\ Leave(s)
  BY Zenon DEF TakeDone
<1>2. /\ agent.pc = "listening" /\ queue # <<>> /\ Head(queue).kind = "done"
      /\ queue' = Tail(queue)
  BY DEF TakeDone, TakeEnd
<1>3. PICK h, f : ToldOnWire(h) /\ ToldInQueue(h, f)
  BY DEF Inv, AllTold
<1>4. /\ Types /\ Verdicts /\ Good /\ reader.pc = "over"
      /\ Head(queue).calls = AsCalls(Tools(answer, h[0]))
      /\ Sound(answer, backend, h[0]) /\ heard = SubSeq(answer.text, 1, h[0].said)
      /\ agent.calls \in {<<>>, AsCalls(Tools(answer, h[0]))}
      /\ server.ends = "whole" /\ reader.pc = "over" => Complete(answer, h[0])
      /\ AsCalls(Tools(answer, h[0])) \in Seq(CallNow) /\ agent \in Locals
  BY <1>2, <1>3, AtLast
<1>5. PICK k : k = AsCalls(Tools(answer, h[0]))
  OBVIOUS
<1>6. s \in Does /\ s.a.calls = k /\ s.a.error = agent.error
  <2>1. PICK b, l : b = Now /\ l = agent
    OBVIOUS
  <2>2. b \in Does /\ b.a = l /\ l \in Locals
    BY <1>4, <2>1, NowIs
  <2>3. (IF l.calls = <<>> THEN Head(queue).calls ELSE l.calls) = k
    BY <1>4, <1>5, <2>1
  <2>4. s = [b EXCEPT !.a.calls = k]
    BY <1>1, <2>1, <2>2, <2>3
  <2>5. [l EXCEPT !.calls = k] \in Locals
    BY <1>4, <1>5, <2>2, LocalsWith, Zenon
  <2>6. [l EXCEPT !.calls = k].calls = k /\ [l EXCEPT !.calls = k].error = l.error
    BY <2>2 DEF Locals
  <2> DEFINE m == [l EXCEPT !.calls = k]
  <2>7. s = [b EXCEPT !.a = m]
    BY <2>2, <2>4
  <2> HIDE DEF m
  <2>8. s = [a |-> m, think |-> b.think, say |-> b.say]
    BY <2>2, <2>7, Put
  <2>9. b.think \in Seq(STRING) /\ b.say \in Seq(STRING) /\ m \in Locals
    BY <2>2, <2>5, DoesIs DEF m
  <2>10. s \in Does
    BY <2>8, <2>9, DoesWith, Zenon
  <2> QED
    BY <2>1, <2>6, <2>8, <2>10 DEF m
<1>7. /\ agent' \in Locals /\ agent'.pc = "over" /\ agent'.error = agent.error /\ ran' = k
      /\ UNCHANGED <<backend, answer, server, wire, buffer, reader, heard>>
  <2>1. /\ Flushed(Said(s)) \in Does /\ agent' = Flushed(Said(s)).a
        /\ agent'.pc = "over" /\ agent'.error = s.a.error /\ ran' = s.a.calls
        /\ UNCHANGED <<backend, answer, server, wire, buffer, reader, heard>>
    BY <1>1, <1>6, LeaveIs
  <2> QED
    BY <1>6, <2>1 DEF Does
<1>8. RunAsAsked'
  <2>1. server.ends = "whole" => heard = answer.text /\ k = Asked
    <3> SUFFICES ASSUME server.ends = "whole" PROVE heard = answer.text /\ k = Asked
      OBVIOUS
    <3>1. PICK p : p = h[0]
      OBVIOUS
    <3>2. Sound(answer, backend, p) /\ Complete(answer, p)
      BY <1>4, <3>1
    <3>3. AsCalls(Tools(answer, p)) = Asked /\ SubSeq(answer.text, 1, p.said) = answer.text
      BY <1>4, <3>2, CompleteIs
    <3> QED
      BY <1>4, <1>5, <3>1, <3>3
  <2>2. backend = "anthropic" => server.ends = "whole"
    BY <1>4 DEF Good
  <2>3. Asked' = Asked
    BY <1>7 DEF Asked, Calls
  <2> QED
    BY <1>7, <2>1, <2>2, <2>3 DEF RunAsAsked
<1>9. IF agent'.error THEN Bad ELSE Good
  BY <1>2, <1>4, <1>7 DEF Verdicts
<1>10. ran' \in Seq(CallNow)
  BY <1>4, <1>5, <1>7
<1> QED
  BY <1>2, <1>7, <1>8, <1>9, <1>10, OverInv

LEMMA TakeErrorInv ==
    ASSUME Inv, TakeError
    PROVE  Inv'
<1>1. PICK s : s = [Now EXCEPT !.a.error = TRUE] /\ Leave(s)
  BY Zenon DEF TakeError
<1>2. /\ agent.pc = "listening" /\ queue # <<>> /\ Head(queue).kind = "error"
      /\ queue' = Tail(queue)
  BY DEF TakeError, TakeEnd
<1>3. PICK h, f : ToldOnWire(h) /\ ToldInQueue(h, f)
  BY DEF Inv, AllTold
<1>4. Types /\ Bad /\ agent \in Locals
  BY <1>2, <1>3, AtLast
<1>5. s \in Does /\ s.a.calls = agent.calls /\ s.a.error
  <2>1. PICK b, l : b = Now /\ l = agent
    OBVIOUS
  <2>2. b \in Does /\ b.a = l /\ l \in Locals /\ TRUE \in BOOLEAN
    BY <1>2, <1>3, <2>1, NowIs, AtLast
  <2>4. s = [b EXCEPT !.a.error = TRUE]
    BY <1>1, <2>1
  <2>5. [l EXCEPT !.error = TRUE] \in Locals
    BY <2>2, LocalsWith, Zenon
  <2>6. [l EXCEPT !.error = TRUE].calls = l.calls /\ [l EXCEPT !.error = TRUE].error
    BY <2>2 DEF Locals
  <2> DEFINE m == [l EXCEPT !.error = TRUE]
  <2>7. s = [b EXCEPT !.a = m]
    BY <2>2, <2>4
  <2> HIDE DEF m
  <2>8. s = [a |-> m, think |-> b.think, say |-> b.say]
    BY <2>2, <2>7, Put
  <2>9. b.think \in Seq(STRING) /\ b.say \in Seq(STRING) /\ m \in Locals
    BY <2>2, <2>5, DoesIs DEF m
  <2>10. s \in Does
    BY <2>8, <2>9, DoesWith, Zenon
  <2> QED
    BY <2>1, <2>6, <2>8, <2>10 DEF m
<1>6. /\ agent' \in Locals /\ agent'.pc = "over" /\ agent'.error /\ ran' = agent.calls
      /\ UNCHANGED <<backend, answer, server, wire, buffer, reader, heard>>
  <2>1. /\ Flushed(Said(s)) \in Does /\ agent' = Flushed(Said(s)).a
        /\ agent'.pc = "over" /\ agent'.error = s.a.error /\ ran' = s.a.calls
        /\ UNCHANGED <<backend, answer, server, wire, buffer, reader, heard>>
    BY <1>1, <1>5, LeaveIs
  <2> QED
    BY <1>5, <2>1 DEF Does
<1>7. RunAsAsked'
  <2>1. server.ends # "whole"
    BY <1>4 DEF Bad
  <2>2. backend = "anthropic" => ran' = <<>>
    BY <1>2, <1>3, <1>6, AtLast
  <2> QED
    BY <1>6, <2>1, <2>2 DEF RunAsAsked
<1>8. ran' \in Seq(CallNow) /\ (IF agent'.error THEN Bad ELSE Good)
  <2>1. agent.calls \in Seq(CallNow) /\ Bad
    BY <1>2, <1>3, AtLast DEF Locals
  <2> QED
    BY <1>6, <2>1
<1> QED
  BY <1>2, <1>6, <1>7, <1>8, OverInv

LEMMA CancelInv ==
    ASSUME Inv, Cancel
    PROVE  Inv'
<1>1. /\ Types /\ Wired /\ Verdicts /\ agent.pc = "listening"
      /\ agent' = [agent EXCEPT !.pc = "left"]
      /\ UNCHANGED <<backend, answer, server, wire, buffer, reader, queue, heard, ran>>
  BY DEF Cancel, Reader, Inv
<1>2. agent' \in Locals /\ agent'.pc = "left" /\ agent'.error = agent.error
  <2>1. agent \in Locals
    BY <1>1 DEF Types
  <2>2. PICK l : l = agent
    OBVIOUS
  <2>3. [l EXCEPT !.pc = "left"] \in Locals
    BY <2>1, <2>2, LocalsWith
  <2>4. [l EXCEPT !.pc = "left"].pc = "left" /\ [l EXCEPT !.pc = "left"].error = l.error
    BY <2>1, <2>2 DEF Locals
  <2> QED
    BY <1>1, <2>2, <2>3, <2>4
<1>3. Types'
  BY <1>1, <1>2 DEF Types
<1>4. Sound(answer, backend, AllSaid)' /\ Line' = Line /\ Blank' = Blank
  BY <1>1 DEF Inv, AllSaid, Line, Blank
<1>5. Wired'
  BY <1>1, <1>2, <1>4 DEF Wired, Going
<1>6. Verdicts'
  BY <1>1, <1>2 DEF Verdicts, Good, Bad
<1>7. AllTold'
  <2>1. PICK h, f : ToldOnWire(h) /\ ToldInQueue(h, f)
    BY DEF Inv, AllTold
  <2>2. ToldOnWire(h)' /\ ToldInQueue(h, f)'
    BY <1>1, <1>2, <1>4, <2>1 DEF ToldOnWire, ToldInQueue, AllSaid, Going
  <2> QED
    BY <2>2 DEF AllTold
<1>8. RunAsAsked'
  BY <1>2 DEF RunAsAsked
<1> QED
  BY <1>3, <1>4, <1>5, <1>6, <1>7, <1>8 DEF Inv

-----------------------------------------------------------------------------
LEMMA InitInv ==
    ASSUME Init
    PROVE  Inv
<1> DEFINE p == [said |-> 0, given |-> <<>>, whole |-> {}]
<1>1. /\ backend \in Backends /\ answer \in Answers
      /\ server.said = 0 /\ server.given = <<>> /\ server.whole = {} /\ server.ends = "no"
      /\ server \in Server /\ (backend = "anthropic" => server.blank = "\n")
  <2>1. server \in [said : {0}, given : {<<>>}, whole : {{}}, ends : {"no"},
                    blank : IF backend = "anthropic" THEN {"\n"} ELSE {"\n", "\r\n"}]
    BY DEF Init
  <2>2. /\ server.blank \in {"\n", "\r\n"} /\ (backend = "anthropic" => server.blank = "\n")
        /\ server.said = 0 /\ server.given = <<>> /\ server.whole = {} /\ server.ends = "no"
        /\ server = [said |-> server.said, given |-> server.given, whole |-> server.whole,
                     ends |-> server.ends, blank |-> server.blank]
    BY <2>1
  <2>3. 0 \in Nat /\ <<>> \in Seq(Nat) /\ {} \in SUBSET Nat /\ "no" \in Ending
    BY DEF Ending
  <2>4. server \in Server
    BY <2>2, <2>3 DEF Server
  <2> QED
    BY <2>2, <2>4 DEF Init
<1>2. /\ wire = <<>> /\ buffer = <<>> /\ queue = <<>> /\ heard = <<>> /\ ran = <<>>
      /\ reader = [pc |-> "reading", tools |-> <<>>, current |-> {}]
      /\ agent.pc = "listening" /\ agent.calls = <<>> /\ ~ agent.error
  BY DEF Init
<1>3. agent \in Locals
  <2>1. <<>> \in Thought
    <3>1. <<>> \in Seq(STRING) /\ Len(<<>>) <= Hold
      BY TagsAre
    <3> QED
      BY <3>1 DEF Thought
  <2>2. <<>> \in Seq(STRING) /\ <<>> \in Seq(CallNow)
    OBVIOUS
  <2> QED
    BY <2>1, <2>2 DEF Init, Locals
<1>4. Types
  <2>1. <<>> \in Seq(Unit) /\ <<>> \in Seq(Msg) /\ <<>> \in Seq(STRING) /\ <<>> \in Seq(CallNow)
    OBVIOUS
  <2>2. reader \in [pc : {"reading", "over"}, tools : Seq(Tool), current : SUBSET Nat]
    <3>1. <<>> \in Seq(Tool) /\ {} \in SUBSET Nat
      OBVIOUS
    <3> QED
      BY <1>2, <3>1
  <2> QED
    BY <1>1, <1>2, <1>3, <2>1, <2>2 DEF Types
<1>5. p \in Prog /\ p.said = 0 /\ p.given = <<>> /\ p.whole = {}
  BY DEF Prog
<1>6. AllSaid = p
  BY <1>1 DEF AllSaid
<1> HIDE DEF p
<1>7. Sound(answer, backend, p)
  <2>1. Len(answer.text) \in Nat /\ Len(answer.calls) \in Nat /\ Len(p.given) = 0
    BY <1>4, <1>5, AnswerIs
  <2> QED
    BY <1>5, <2>1 DEF Sound
<1>8. Line = <<>> /\ Len(Line) = 0
  BY <1>2 DEF Line
<1>9. Wired
  <2>1. Turns(Blank, Line) /\ Entire(Blank, Line)
    BY <1>8 DEF Turns, Entire
  <2> QED
    BY <1>1, <1>2, <1>8, <2>1 DEF Wired
<1>10. Verdicts
  BY <1>2 DEF Verdicts
<1>11. RunAsAsked
  BY <1>2 DEF RunAsAsked
<1>12. AllTold
  <2> DEFINE h == [i \in 0..0 |-> p]
  <2>1. h \in [0..0 -> Prog] /\ h[0] = p /\ \A i \in 0..0 : h[i] = p
    BY <1>5
  <2> HIDE DEF h
  <2>2. Chain(answer, backend, Line, h) /\ Course(answer, backend, queue, h)
    <3>1. Len(queue) = 0 /\ Len(Line) = 0 /\ 1..0 = {}
      BY <1>2, <1>8
    <3> QED
      BY <1>5, <1>7, <2>1, <3>1 DEF Chain, Course
  <2>3. Tools(answer, p) = <<>> /\ AsCalls(Tools(answer, p)) = <<>>
    <3> DEFINE s == Tools(answer, p)
               r == AsCalls(Tools(answer, p))
    <3>1. s \in Seq(Tool) /\ Len(s) = Len(p.given) /\ r \in Seq(CallNow) /\ Len(r) = Len(p.given)
      BY <1>4, <1>7, ToolsType
    <3> HIDE DEF s, r
    <3>2. Len(p.given) = 0
      BY <1>5
    <3>3. s = <<>> /\ r = <<>>
      BY <3>1, <3>2
    <3> QED
      BY <3>3 DEF s, r
  <2>4. SubSeq(answer.text, 1, 0) = <<>>
    <3>1. answer.text \in Seq(STRING)
      BY <1>4, AnswerIs
    <3>2. \A t \in Seq(STRING) : SubSeq(t, 1, 0) = <<>>
      OBVIOUS
    <3> QED
      BY <3>1, <3>2
  <2>5. ToldOnWire(h)
    BY <1>2, <1>6, <1>8, <2>1, <2>2, <2>3 DEF ToldOnWire
  <2>6. ToldInQueue(h, h)
    <3>1. Len(queue) = 0
      BY <1>2
    <3> QED
      BY <1>2, <1>5, <2>1, <2>2, <2>3, <2>4, <3>1 DEF ToldInQueue
  <2> QED
    BY <2>5, <2>6 DEF AllTold
<1> QED
  BY <1>4, <1>6, <1>7, <1>9, <1>10, <1>11, <1>12 DEF Inv

LEMMA NextInv ==
    ASSUME Inv, [Next]_vars
    PROVE  Inv'
<1>1. CASE Serve
  BY <1>1, ServeInv
<1>2. CASE \E n \in 1..Len(wire) : Receive(n)
  BY <1>2, ReceiveInv
<1>3. CASE ReadText
  BY <1>3, ReadTextInv
<1>4. CASE ReadOpenAiCall
  BY <1>4, ReadOpenAiCallInv
<1>5. CASE ReadAnthropicCall
  BY <1>5, ReadAnthropicCallInv
<1>6. CASE ReadResponsesCall
  BY <1>6, ReadResponsesCallInv
<1>7. CASE ReadEnd \/ ReadError
  BY <1>7, ReadCloseInv
<1>8. CASE BodyEnds
  BY <1>8, BodyEndsInv
<1>9. CASE Abandon
  BY <1>9, AbandonInv
<1>10. CASE TakeText
  BY <1>10, TakeTextInv
<1>11. CASE TakeCalls
  BY <1>11, TakeCallsInv
<1>12. CASE TakeDone
  BY <1>12, TakeDoneInv
<1>13. CASE TakeError
  BY <1>13, TakeErrorInv
<1>14. CASE Cancel
  BY <1>14, CancelInv
<1>15. CASE UNCHANGED vars
  <2>1. /\ UNCHANGED <<backend, answer, server, wire, buffer, reader, queue, agent, heard, ran>>
    BY <1>15 DEF vars
  <2>2. Line' = Line /\ Blank' = Blank /\ AllSaid' = AllSaid /\ Going' = Going
    BY <2>1 DEF Line, Blank, AllSaid, Going
  <2>3. Types' /\ Sound(answer, backend, AllSaid)'
    BY <2>1, <2>2 DEF Inv, Types
  <2>4. Wired' /\ Verdicts' /\ RunAsAsked'
    BY <2>1, <2>2 DEF Inv, Wired, Verdicts, RunAsAsked, Good, Bad, Asked, Calls
  <2>5. AllTold'
    <3>1. PICK h, f : ToldOnWire(h) /\ ToldInQueue(h, f)
      BY DEF Inv, AllTold
    <3>2. ToldOnWire(h)' /\ ToldInQueue(h, f)'
      BY <2>1, <2>2, <3>1 DEF ToldOnWire, ToldInQueue
    <3> QED
      BY <3>2 DEF AllTold
  <2> QED
    BY <2>3, <2>4, <2>5 DEF Inv
<1> QED
  BY <1>1, <1>2, <1>3, <1>4, <1>5, <1>6, <1>7, <1>8, <1>9, <1>10, <1>11, <1>12, <1>13,
     <1>14, <1>15 DEF Next, ReadOn

(* What has been told is known everywhere on the way.                        *)
THEOREM InvCorrect == Spec => []Inv
<1>1. Init => Inv
  BY InitInv
<1>2. Inv /\ [Next]_vars => Inv'
  BY NextInv
<1> QED
  BY <1>1, <1>2, PTL DEF Spec

(***************************************************************************)
(* The calls that are run are those the model asked for, and all of its    *)
(* text was heard: update_streaming_tool_calls, finalize_tools and the     *)
(* SSE readers, wherever the network and the server cut.                   *)
(***************************************************************************)
THEOREM RunAsAskedCorrect == Spec => []RunAsAsked
<1>1. Inv => RunAsAsked
  BY DEF Inv
<1> QED
  BY <1>1, InvCorrect, PTL

(***************************************************************************)
(* An answer that was cut short ends in an error the user is told of.      *)
(***************************************************************************)
THEOREM CutShortIsToldCorrect == Spec => []CutShortIsTold
<1>1. Inv => CutShortIsTold
  BY DEF Inv, Verdicts, CutShortIsTold, Good, Bad
<1> QED
  BY <1>1, InvCorrect, PTL

(***************************************************************************)
(* The state is what process_* and run_generation make of it: no more      *)
(* calls are known than there are, and no more of a thought is held back   *)
(* than may be the beginning of the closing tag.                           *)
(***************************************************************************)
THEOREM TypeCorrect == Spec => []TypeOK
<1>1. Inv => TypeOK
  <2> SUFFICES ASSUME Inv PROVE TypeOK
    OBVIOUS
  <2>1. Types /\ Sound(answer, backend, AllSaid)
    BY DEF Inv
  <2>2. server.said \in 0..Len(answer.text) /\ Begun \in 0..Len(Calls)
    BY <2>1, ServerIs
  <2>3. PICK h, f : ToldOnWire(h) /\ ToldInQueue(h, f)
    BY DEF Inv, AllTold
  <2>4. PICK p : p = h[0]
    OBVIOUS
  <2>5. /\ reader.tools = Tools(answer, p) /\ Sound(answer, backend, p)
        /\ reader.current = IF backend = "anthropic" /\ reader.tools # <<>>
                              THEN {Len(reader.tools)} ELSE {}
    <3>1. 0 \in 0..Len(Line)
      BY <2>1, LineIs
    <3> QED
      BY <2>3, <2>4, <3>1 DEF ToldOnWire, Chain
  <2>6. /\ Len(reader.tools) = Len(p.given) /\ reader.tools \in Seq(Tool)
        /\ Len(p.given) <= Len(Calls)
    BY <2>1, <2>5, ToolsType DEF Sound, Calls
  <2>7. reader.current \subseteq DOMAIN reader.tools
    BY <2>5, <2>6
  <2>8. agent.pc \in {"listening", "over", "left"} /\ Len(agent.thought) <= Hold
    <3>1. agent \in Locals
      BY <2>1 DEF Types
    <3>2. agent.thought \in Thought /\ agent.pc \in {"listening", "over", "left"}
      BY <3>1 DEF Locals
    <3> QED
      BY <3>2 DEF Thought
  <2>9. reader.pc \in {"reading", "over"}
    BY <2>1 DEF Types
  <2> QED
    BY <2>2, <2>6, <2>7, <2>8, <2>9 DEF TypeOK
<1> QED
  BY <1>1, InvCorrect, PTL

-----------------------------------------------------------------------------
(* Thought and text.  Lemmas on sequences that grow.                         *)
LEMMA CatThree == \A s, t, u \in Seq(STRING) : (s \o t) \o u = s \o (t \o u)
OBVIOUS

LEMMA CatMany ==
    ASSUME NEW s \in Seq(STRING), NEW t \in Seq(STRING), NEW u \in Seq(STRING)
    PROVE  /\ (s \o t) \o u = s \o (t \o u) /\ s \o t \in Seq(STRING)
           /\ s \o <<>> = s /\ <<>> \o s = s
OBVIOUS

LEMMA CatCut ==
    ASSUME NEW s \in Seq(STRING), NEW t \in Seq(STRING)
    PROVE  /\ \A n \in 0..Len(s) : /\ SubSeq(s \o t, 1, n) = SubSeq(s, 1, n)
                                   /\ After(s \o t, n) = After(s, n) \o t
           /\ \A n \in 0..Len(t) : /\ SubSeq(s \o t, 1, Len(s) + n) = s \o SubSeq(t, 1, n)
                                   /\ After(s \o t, Len(s) + n) = After(t, n)
<1>1. \A n \in 0..Len(s) : SubSeq(s \o t, 1, n) = SubSeq(s, 1, n)
  OBVIOUS
<1>2. \A u, v \in Seq(STRING) : SubSeq(u \o v, Len(u) + 1, Len(u \o v)) = v
  OBVIOUS
<1>3. \A n \in 0..Len(t) : SubSeq(s \o t, 1, Len(s) + n) = s \o SubSeq(t, 1, n)
  OBVIOUS
<1>4. \A n \in 0..Len(t) :
        SubSeq(s \o t, Len(s) + n + 1, Len(s \o t)) = SubSeq(t, n + 1, Len(t))
  OBVIOUS
<1>5. \A n \in 0..Len(s) : After(s \o t, n) = After(s, n) \o t
  <2> TAKE n \in 0..Len(s)
  <2>1. PICK u, v : u = SubSeq(s, 1, n) /\ v = After(s, n)
    OBVIOUS
  <2>2. u \in Seq(STRING) /\ v \in Seq(STRING) /\ Len(u) = n /\ u \o v = s
    BY <2>1, AfterIs
  <2>3. s \o t = u \o (v \o t) /\ v \o t \in Seq(STRING)
    <3>1. (u \o v) \o t = u \o (v \o t)
      <4>1. \A x, y, z \in Seq(STRING) : (x \o y) \o z = x \o (y \o z)
        BY CatThree
      <4>2. u \in Seq(STRING) /\ v \in Seq(STRING)
        BY <2>2
      <4> QED
        BY <4>1, <4>2, Zenon
    <3>2. v \o t \in Seq(STRING)
      BY <2>2
    <3> QED
      BY <2>2, <3>1, <3>2, Zenon
  <2>4. SubSeq(u \o (v \o t), Len(u) + 1, Len(u \o (v \o t))) = v \o t
    BY <1>2, <2>2, <2>3
  <2> QED
    BY <2>1, <2>2, <2>3, <2>4, Zenon DEF After
<1> QED
  BY <1>1, <1>3, <1>4, <1>5 DEF After

LEMMA PrefixIs ==
    ASSUME NEW s \in Seq(STRING), NEW t \in Seq(STRING)
    PROVE  IsPrefix(s, t) <=> Len(s) <= Len(t) /\ \A i \in 1..Len(s) : s[i] = t[i]
BY DEF IsPrefix

LEMMA PrefixCat ==
    ASSUME NEW s \in Seq(STRING), NEW t \in Seq(STRING)
    PROVE  IsPrefix(s, s \o t) /\ IsPrefix(s, s) /\ IsPrefix(<<>>, s)
<1>1. s \o t \in Seq(STRING) /\ Len(s) <= Len(s \o t) /\ \A i \in 1..Len(s) : s[i] = (s \o t)[i]
  OBVIOUS
<1>2. IsPrefix(s, s \o t)
  BY <1>1, PrefixIs
<1>3. IsPrefix(s, s)
  <2>1. Len(s) \in Nat
    OBVIOUS
  <2> QED
    BY <2>1 DEF IsPrefix
<1>4. IsPrefix(<<>>, s)
  BY DEF IsPrefix
<1> QED
  BY <1>2, <1>3, <1>4

(* Whether text begins with a tag is decided once and for all.               *)
LEMMA DecidedCat ==
    ASSUME NEW o \in Seq(STRING), NEW g \in Seq(STRING), NEW t \in Seq(STRING)
    PROVE  /\ IsPrefix(o, g) => /\ IsPrefix(o, g \o t) /\ Len(o) \in 0..Len(g)
                                /\ ~ IsStrictPrefix(g, o)
           /\ ~ IsPrefix(o, g) /\ ~ IsStrictPrefix(g, o) =>
                ~ IsPrefix(o, g \o t) /\ ~ IsStrictPrefix(g \o t, o)
<1> DEFINE u == g \o t
<1>1. /\ u \in Seq(STRING) /\ Len(u) = Len(g) + Len(t)
      /\ \A i \in 1..Len(g) : u[i] = g[i]
  OBVIOUS
<1>2. Len(o) \in Nat /\ Len(g) \in Nat /\ Len(t) \in Nat
  OBVIOUS
<1> HIDE DEF u
<1>3. /\ IsPrefix(o, g) <=> Len(o) <= Len(g) /\ \A i \in 1..Len(o) : o[i] = g[i]
      /\ IsPrefix(g, o) <=> Len(g) <= Len(o) /\ \A i \in 1..Len(g) : g[i] = o[i]
      /\ IsPrefix(o, u) <=> Len(o) <= Len(u) /\ \A i \in 1..Len(o) : o[i] = u[i]
      /\ IsPrefix(u, o) <=> Len(u) <= Len(o) /\ \A i \in 1..Len(u) : u[i] = o[i]
  BY <1>1, PrefixIs
<1>4. ASSUME IsPrefix(o, g)
      PROVE  IsPrefix(o, u) /\ Len(o) \in 0..Len(g) /\ ~ IsStrictPrefix(g, o)
  <2>1. Len(o) <= Len(g) /\ \A i \in 1..Len(o) : o[i] = g[i]
    BY <1>3, <1>4
  <2>2. Len(o) <= Len(u)
    BY <1>1, <1>2, <2>1
  <2>3. \A i \in 1..Len(o) : o[i] = u[i]
    <3> TAKE i \in 1..Len(o)
    <3>1. i \in 1..Len(g)
      BY <1>2, <2>1
    <3> QED
      BY <1>1, <2>1, <3>1
  <2>4. ~ IsStrictPrefix(g, o)
    <3> SUFFICES ASSUME IsPrefix(g, o) PROVE g = o
      BY DEF IsStrictPrefix
    <3>1. Len(g) = Len(o) /\ \A i \in 1..Len(g) : g[i] = o[i]
      BY <1>2, <1>3, <2>1
    <3> QED
      BY <3>1, Same, Zenon
  <2> QED
    BY <1>2, <1>3, <2>1, <2>2, <2>3, <2>4
<1>5. ASSUME ~ IsPrefix(o, g), ~ IsStrictPrefix(g, o)
      PROVE  ~ IsPrefix(o, u) /\ ~ IsStrictPrefix(u, o)
  <2>1. ~ IsPrefix(g, o)
    <3> SUFFICES ASSUME IsPrefix(g, o) PROVE FALSE
      OBVIOUS
    <3>1. g = o
      BY <1>5 DEF IsStrictPrefix
    <3>2. IsPrefix(o, g)
      BY <3>1, PrefixCat
    <3> QED
      BY <1>5, <3>2
  <2>2. \E i \in Nat : i \in 1..Len(o) /\ i \in 1..Len(g) /\ o[i] # g[i]
    <3>1. CASE Len(o) <= Len(g)
      <4>1. PICK i \in 1..Len(o) : o[i] # g[i]
        BY <1>3, <1>5, <3>1
      <4> QED
        BY <1>2, <3>1, <4>1
    <3>2. CASE Len(g) <= Len(o)
      <4>1. PICK i \in 1..Len(g) : g[i] # o[i]
        BY <1>3, <2>1, <3>2
      <4> QED
        BY <1>2, <3>2, <4>1
    <3> QED
      BY <1>2, <3>1, <3>2
  <2>3. PICK i \in Nat : i \in 1..Len(o) /\ i \in 1..Len(g) /\ o[i] # g[i]
    BY <2>2
  <2>4. u[i] # o[i] /\ i \in 1..Len(u)
    BY <1>1, <1>2, <2>3
  <2> QED
    BY <1>3, <2>3, <2>4 DEF IsStrictPrefix
<1> QED
  BY <1>4, <1>5 DEF u

LEMMA TrimCat ==
    ASSUME NEW h \in Seq(STRING), NEW t \in Seq(STRING), HasVisible(h)
    PROVE  HasVisible(h \o t) /\ Trimmed(h \o t) = Trimmed(h) \o t
<1> DEFINE f == FirstVisible(h)
           u == h \o t
<1>1. /\ f \in 1..Len(h) /\ h[f] \notin Spaces
      /\ \A i \in 1..Len(h) : i < f => h[i] \in Spaces
      /\ f - 1 \in 0..Len(h) /\ Trimmed(h) = After(h, f - 1)
  BY FirstIs
<1>2. /\ u \in Seq(STRING) /\ Len(u) = Len(h) + Len(t)
      /\ \A i \in 1..Len(h) : u[i] = h[i]
      /\ Len(h) \in Nat /\ Len(t) \in Nat
  OBVIOUS
<1> HIDE DEF f, u
<1>3. f \in 1..Len(u) /\ u[f] \notin Spaces
  BY <1>1, <1>2
<1>4. \A i \in 1..Len(u) : i < f => u[i] \in Spaces
  <2> SUFFICES ASSUME NEW i \in 1..Len(u), i < f PROVE u[i] \in Spaces
    OBVIOUS
  <2>1. i \in 1..Len(h)
    BY <1>1, <1>2
  <2> QED
    BY <1>1, <1>2, <2>1
<1>5. HasVisible(u) /\ FirstVisible(u) = f
  BY <1>2, <1>3, <1>4, FirstAt
<1>6. Trimmed(u) = After(u, f - 1)
  BY <1>2, <1>5, FirstIs
<1>7. After(h \o t, f - 1) = After(h, f - 1) \o t
  <2> DEFINE n == f - 1
  <2>1. n \in 0..Len(h)
    BY <1>1
  <2> HIDE DEF n
  <2>2. After(h \o t, n) = After(h, n) \o t
    BY <2>1, CatCut
  <2> QED
    BY <2>2 DEF n
<1> QED
  BY <1>1, <1>5, <1>6, <1>7 DEF u

LEMMA VisibleCat ==
    ASSUME NEW s \in Seq(STRING), NEW t \in Seq(STRING)
    PROVE  HasVisible(s \o t) => HasVisible(s) \/ HasVisible(t)
<1>1. /\ s \o t \in Seq(STRING) /\ Len(s \o t) = Len(s) + Len(t)
      /\ \A i \in 1..Len(s) : (s \o t)[i] = s[i]
      /\ \A i \in Len(s) + 1..Len(s) + Len(t) : (s \o t)[i] = t[i - Len(s)]
      /\ Len(s) \in Nat /\ Len(t) \in Nat
      /\ DOMAIN s = 1..Len(s) /\ DOMAIN t = 1..Len(t) /\ DOMAIN (s \o t) = 1..Len(s \o t)
  OBVIOUS
<1> SUFFICES ASSUME NEW i \in 1..Len(s \o t), (s \o t)[i] \notin Spaces
             PROVE  HasVisible(s) \/ HasVisible(t)
  BY <1>1 DEF HasVisible
<1>2. CASE i <= Len(s)
  <2>1. i \in 1..Len(s)
    BY <1>1, <1>2
  <2> QED
    BY <1>1, <2>1 DEF HasVisible
<1>3. CASE i > Len(s)
  <2>1. i \in Len(s) + 1..Len(s) + Len(t) /\ i - Len(s) \in 1..Len(t)
    BY <1>1, <1>3
  <2> QED
    BY <1>1, <2>1 DEF HasVisible
<1> QED
  BY <1>1, <1>2, <1>3

(* Where the closing tag is found, in a text that grows and in one of which   *)
(* the front has been shown already.                                         *)
LEMMA FoundAt ==
    ASSUME NEW t \in Seq(STRING), NEW i \in Nat
    PROVE  i \in Found(CloseTag, t) <=>
             /\ i >= 1 /\ i + Len(CloseTag) <= Len(t) + 1
             /\ \A j \in 1..Len(CloseTag) : t[i + j - 1] = CloseTag[j]
<1>1. /\ CloseTag \in Seq(STRING) /\ Len(CloseTag) \in Nat /\ Len(CloseTag) >= 1
      /\ Len(t) \in Nat
  BY TagsAre
<1>2. i \in 1..Len(t) + 1 - Len(CloseTag) <=> i >= 1 /\ i + Len(CloseTag) <= Len(t) + 1
  BY <1>1
<1>3. ASSUME i >= 1, i + Len(CloseTag) <= Len(t) + 1
      PROVE  SubSeq(t, i, i + Len(CloseTag) - 1) = CloseTag <=>
               \A j \in 1..Len(CloseTag) : t[i + j - 1] = CloseTag[j]
  <2> DEFINE n == i + Len(CloseTag) - 1
             c == SubSeq(t, i, n)
  <2>1. /\ n \in Nat /\ i \in Nat \ {0} /\ n <= Len(t) /\ i <= n + 1
        /\ n + 1 - i = Len(CloseTag)
    BY <1>1, <1>3
  <2> HIDE DEF n
  <2>2. /\ c \in Seq(STRING) /\ Len(c) = n + 1 - i
        /\ \A j \in 1..n + 1 - i : c[j] = t[j + i - 1]
    BY <2>1, SubIs
  <2> HIDE DEF c
  <2>3. \A j \in 1..Len(CloseTag) : c[j] = t[i + j - 1]
    <3> TAKE j \in 1..Len(CloseTag)
    <3>1. j + i - 1 = i + j - 1
      OBVIOUS
    <3> QED
      BY <2>1, <2>2, <3>1
  <2>4. c = CloseTag <=> \A j \in 1..Len(CloseTag) : t[i + j - 1] = CloseTag[j]
    <3>1. ASSUME \A j \in 1..Len(CloseTag) : t[i + j - 1] = CloseTag[j] PROVE c = CloseTag
      <4>1. \A j \in 1..Len(c) : c[j] = CloseTag[j]
        BY <2>1, <2>2, <2>3, <3>1
      <4>2. Len(c) = Len(CloseTag)
        BY <2>1, <2>2
      <4> QED
        BY <1>1, <2>2, <4>1, <4>2, Same, Zenon
    <3> QED
      BY <2>3, <3>1
  <2> QED
    BY <2>4 DEF c, n
<1> QED
  BY <1>2, <1>3 DEF Found

LEMMA FoundLeast ==
    ASSUME NEW s \in Seq(STRING), NEW t \in Seq(STRING), Found(CloseTag, s) # {}
    PROVE  /\ Found(CloseTag, s \o t) # {}
           /\ Min(Found(CloseTag, s \o t)) = Min(Found(CloseTag, s))
<1> DEFINE u == s \o t
           m == Min(Found(CloseTag, s))
<1>1. /\ u \in Seq(STRING) /\ Len(u) = Len(s) + Len(t) /\ \A i \in 1..Len(s) : u[i] = s[i]
      /\ Len(s) \in Nat /\ Len(t) \in Nat
  OBVIOUS
<1>2. /\ Len(CloseTag) \in Nat /\ Len(CloseTag) >= 1
      /\ Found(CloseTag, s) \in SUBSET Nat /\ m \in Found(CloseTag, s)
      /\ \A i \in Found(CloseTag, s) : m <= i
  BY FoundIs, TagsAre
<1> HIDE DEF u, m
<1>3. Found(CloseTag, u) \in SUBSET Nat
  BY <1>1, FoundIs
<1>4. \A i \in Nat : i + Len(CloseTag) <= Len(s) + 1 =>
        (i \in Found(CloseTag, u) <=> i \in Found(CloseTag, s))
  <2> SUFFICES ASSUME NEW i \in Nat, i + Len(CloseTag) <= Len(s) + 1
               PROVE  i \in Found(CloseTag, u) <=> i \in Found(CloseTag, s)
    OBVIOUS
  <2>1. /\ i \in Found(CloseTag, s) <=>
             /\ i >= 1 /\ i + Len(CloseTag) <= Len(s) + 1
             /\ \A j \in 1..Len(CloseTag) : s[i + j - 1] = CloseTag[j]
        /\ i \in Found(CloseTag, u) <=>
             /\ i >= 1 /\ i + Len(CloseTag) <= Len(u) + 1
             /\ \A j \in 1..Len(CloseTag) : u[i + j - 1] = CloseTag[j]
    BY <1>1, FoundAt
  <2>2. i >= 1 => \A j \in 1..Len(CloseTag) : u[i + j - 1] = s[i + j - 1]
    <3> SUFFICES ASSUME i >= 1, NEW j \in 1..Len(CloseTag) PROVE u[i + j - 1] = s[i + j - 1]
      OBVIOUS
    <3>1. i + j - 1 \in 1..Len(s)
      BY <1>1, <1>2
    <3> QED
      BY <1>1, <3>1
  <2>3. i + Len(CloseTag) <= Len(u) + 1
    BY <1>1, <1>2
  <2> QED
    BY <2>1, <2>2, <2>3
<1>5. m \in Nat /\ m + Len(CloseTag) <= Len(s) + 1
  BY <1>2, FoundAt
<1>6. m \in Found(CloseTag, u)
  BY <1>2, <1>4, <1>5
<1>7. \A i \in Found(CloseTag, u) : m <= i
  <2> TAKE i \in Found(CloseTag, u)
  <2>1. i \in Nat
    BY <1>3
  <2>2. CASE i < m
    <3>1. i + Len(CloseTag) <= Len(s) + 1
      BY <1>1, <1>2, <1>5, <2>1, <2>2
    <3>2. i \in Found(CloseTag, s)
      BY <1>4, <2>1, <3>1
    <3> QED
      BY <1>2, <3>2
  <2> QED
    BY <1>5, <2>1, <2>2
<1>8. Min(Found(CloseTag, u)) = m
  BY <1>3, <1>6, <1>7, MinIs
<1> QED
  BY <1>6, <1>8 DEF u, m

LEMMA FoundCat ==
    ASSUME NEW p \in Seq(STRING), NEW u \in Seq(STRING), NEW t \in Seq(STRING),
           Found(CloseTag, p \o u) = {}, p # <<>> => Len(u) = Hold
    PROVE  /\ Found(CloseTag, p \o (u \o t)) = {} <=> Found(CloseTag, u \o t) = {}
           /\ Found(CloseTag, u \o t) # {} =>
                /\ Min(Found(CloseTag, p \o (u \o t))) = Len(p) + Min(Found(CloseTag, u \o t))
                /\ Min(Found(CloseTag, u \o t)) \in Nat
<1> DEFINE v == u \o t
           w == p \o v
           z == p \o u
<1>1. v \in Seq(STRING) /\ z \in Seq(STRING) /\ Len(z) = Len(p) + Len(u)
  OBVIOUS
<1>2. /\ Len(v) = Len(u) + Len(t) /\ Len(p) \in Nat /\ Len(u) \in Nat /\ Len(t) \in Nat
  OBVIOUS
<1>3. w = z \o t
  <2>1. \A x, y, q \in Seq(STRING) : (x \o y) \o q = x \o (y \o q)
    BY CatThree
  <2> QED
    BY <2>1, Zenon
<1>4. \A i \in 1..Len(z) : (z \o t)[i] = z[i]
  BY <1>1
<1> HIDE DEF v, z
<1>5. /\ w \in Seq(STRING) /\ Len(w) = Len(p) + Len(v)
      /\ \A i \in 1..Len(v) : w[Len(p) + i] = v[i]
  BY <1>1, CatIs
<1> HIDE DEF w
<1>6. \A i \in 1..Len(z) : w[i] = z[i]
  BY <1>3, <1>4
<1>7. Len(CloseTag) \in Nat /\ Len(CloseTag) >= 1 /\ Len(CloseTag) <= Hold + 1 /\ Hold \in Nat
  BY TagsAre
<1>8. /\ Found(CloseTag, v) \in SUBSET Nat /\ Found(CloseTag, w) \in SUBSET Nat
      /\ Found(CloseTag, v) # {} => /\ Min(Found(CloseTag, v)) \in Found(CloseTag, v)
                                    /\ \A i \in Found(CloseTag, v) : Min(Found(CloseTag, v)) <= i
  BY <1>1, <1>5, FoundIs
<1>9. \A i \in Found(CloseTag, w) : i > Len(p)
  <2> SUFFICES ASSUME NEW i \in Found(CloseTag, w), i <= Len(p) PROVE FALSE
    BY <1>2, <1>8
  <2>1. /\ i \in Nat /\ i >= 1
        /\ \A j \in 1..Len(CloseTag) : w[i + j - 1] = CloseTag[j]
    BY <1>5, <1>8, FoundAt
  <2>2. p # <<>> /\ Len(u) = Hold
    BY <2>1
  <2>3. i + Len(CloseTag) <= Len(z) + 1
    BY <1>1, <1>2, <1>7, <2>1, <2>2 DEF z
  <2>4. \A j \in 1..Len(CloseTag) : z[i + j - 1] = CloseTag[j]
    <3> TAKE j \in 1..Len(CloseTag)
    <3>1. i + j - 1 \in 1..Len(z)
      BY <1>1, <1>2, <1>7, <2>1, <2>3
    <3> QED
      BY <1>6, <2>1, <3>1
  <2>5. i \in Found(CloseTag, z)
    BY <1>1, <2>1, <2>3, <2>4, FoundAt
  <2> QED
    BY <2>5 DEF z
<1>10. \A i \in Nat : Len(p) + i \in Found(CloseTag, w) /\ i >= 1 <=> i \in Found(CloseTag, v)
  <2> TAKE i \in Nat
  <2>1. /\ i \in Found(CloseTag, v) <=>
             /\ i >= 1 /\ i + Len(CloseTag) <= Len(v) + 1
             /\ \A j \in 1..Len(CloseTag) : v[i + j - 1] = CloseTag[j]
        /\ Len(p) + i \in Found(CloseTag, w) <=>
             /\ Len(p) + i >= 1 /\ Len(p) + i + Len(CloseTag) <= Len(w) + 1
             /\ \A j \in 1..Len(CloseTag) : w[Len(p) + i + j - 1] = CloseTag[j]
    <3>1. Len(p) + i \in Nat
      BY <1>2
    <3> QED
      BY <1>1, <1>5, <3>1, FoundAt
  <2>2. i >= 1 /\ i + Len(CloseTag) <= Len(v) + 1 =>
          \A j \in 1..Len(CloseTag) : w[Len(p) + i + j - 1] = v[i + j - 1]
    <3> SUFFICES ASSUME i >= 1, i + Len(CloseTag) <= Len(v) + 1, NEW j \in 1..Len(CloseTag)
                 PROVE  w[Len(p) + i + j - 1] = v[i + j - 1]
      OBVIOUS
    <3>1. /\ i + j - 1 \in 1..Len(v) /\ Len(p) + i + j - 1 = Len(p) + (i + j - 1)
      BY <1>2, <1>7
    <3> QED
      BY <1>5, <3>1
  <2>3. /\ i >= 1 => Len(p) + i >= 1
        /\ Len(p) + i + Len(CloseTag) <= Len(w) + 1 <=> i + Len(CloseTag) <= Len(v) + 1
    BY <1>2, <1>5, <1>7
  <2> QED
    BY <2>1, <2>2, <2>3
<1>11. ASSUME Found(CloseTag, w) # {} PROVE Found(CloseTag, v) # {}
  <2>1. PICK i \in Found(CloseTag, w) : i > Len(p) /\ i \in Nat
    BY <1>8, <1>9, <1>11
  <2>2. i - Len(p) \in Nat /\ Len(p) + (i - Len(p)) = i /\ i - Len(p) >= 1
    BY <1>2, <2>1
  <2> QED
    BY <1>10, <2>1, <2>2
<1>12. ASSUME Found(CloseTag, v) # {}
       PROVE  /\ Found(CloseTag, w) # {} /\ Min(Found(CloseTag, v)) \in Nat
              /\ Min(Found(CloseTag, w)) = Len(p) + Min(Found(CloseTag, v))
  <2> DEFINE m == Min(Found(CloseTag, v))
  <2>1. m \in Found(CloseTag, v) /\ m \in Nat /\ \A i \in Found(CloseTag, v) : m <= i
    BY <1>8, <1>12
  <2> HIDE DEF m
  <2>2. Len(p) + m \in Found(CloseTag, w)
    BY <1>10, <2>1
  <2>3. \A i \in Found(CloseTag, w) : Len(p) + m <= i
    <3> TAKE i \in Found(CloseTag, w)
    <3>1. i \in Nat /\ i > Len(p)
      BY <1>8, <1>9
    <3>2. i - Len(p) \in Nat /\ Len(p) + (i - Len(p)) = i /\ i - Len(p) >= 1
      BY <1>2, <3>1
    <3>3. i - Len(p) \in Found(CloseTag, v)
      BY <1>10, <3>2
    <3>4. m <= i - Len(p)
      BY <2>1, <3>3
    <3> QED
      BY <1>2, <2>1, <3>1, <3>4
  <2>4. Min(Found(CloseTag, w)) = Len(p) + m
    BY <1>8, <2>2, <2>3, MinIs
  <2> QED
    BY <2>1, <2>2, <2>4 DEF m
<1> QED
  BY <1>11, <1>12 DEF v, w

(* A text and more of it: what Thoughts and Words make of it.                *)
LEMMA DecidedIs ==
    ASSUME NEW h \in Seq(STRING), NEW t \in Seq(STRING)
    PROVE  /\ Opens(h) => /\ ~ Undecided(h) /\ Inside(h) \in Seq(STRING)
                          /\ Opens(h \o t) /\ Inside(h \o t) = Inside(h) \o t
           /\ ~ Opens(h) /\ ~ Undecided(h) => ~ Opens(h \o t) /\ ~ Undecided(h \o t)
<1>1. OpenTag \in Seq(STRING) /\ Len(OpenTag) \in Nat
  BY TagsAre
<1>2. ASSUME HasVisible(h)
      PROVE  /\ Trimmed(h) \in Seq(STRING) /\ HasVisible(h \o t)
             /\ Trimmed(h \o t) = Trimmed(h) \o t
  BY <1>2, FirstIs, TrimCat
<1>3. ASSUME HasVisible(h)
      PROVE  /\ IsPrefix(OpenTag, Trimmed(h)) =>
                  /\ IsPrefix(OpenTag, Trimmed(h) \o t) /\ Len(OpenTag) \in 0..Len(Trimmed(h))
                  /\ ~ IsStrictPrefix(Trimmed(h), OpenTag)
             /\ ~ IsPrefix(OpenTag, Trimmed(h)) /\ ~ IsStrictPrefix(Trimmed(h), OpenTag) =>
                  /\ ~ IsPrefix(OpenTag, Trimmed(h) \o t)
                  /\ ~ IsStrictPrefix(Trimmed(h) \o t, OpenTag)
  <2>1. PICK g \in Seq(STRING) : g = Trimmed(h)
    BY <1>2, <1>3
  <2> QED
    BY <1>1, <2>1, DecidedCat
<1>4. ASSUME Opens(h)
      PROVE  /\ ~ Undecided(h) /\ Inside(h) \in Seq(STRING)
             /\ Opens(h \o t) /\ Inside(h \o t) = Inside(h) \o t
  <2>1. HasVisible(h) /\ IsPrefix(OpenTag, Trimmed(h))
    BY <1>4 DEF Opens
  <2>2. ~ Undecided(h) /\ Opens(h \o t)
    BY <1>2, <1>3, <2>1 DEF Undecided, Opens
  <2>3. PICK g \in Seq(STRING) : g = Trimmed(h)
    BY <1>2, <2>1
  <2>4. PICK n \in 0..Len(g) : n = Len(OpenTag)
    BY <1>3, <2>1, <2>3
  <2>5. After(g, n) \in Seq(STRING) /\ After(g \o t, n) = After(g, n) \o t
    BY AfterIs, CatCut
  <2> QED
    BY <1>2, <2>1, <2>2, <2>3, <2>4, <2>5 DEF Inside
<1>5. ASSUME ~ Opens(h), ~ Undecided(h)
      PROVE  ~ Opens(h \o t) /\ ~ Undecided(h \o t)
  <2>1. HasVisible(h) /\ ~ IsPrefix(OpenTag, Trimmed(h)) /\ ~ IsStrictPrefix(Trimmed(h), OpenTag)
    BY <1>5 DEF Opens, Undecided
  <2> QED
    BY <1>2, <1>3, <2>1 DEF Opens, Undecided
<1> QED
  BY <1>4, <1>5

LEMMA UndecidedIs ==
    ASSUME NEW h \in Seq(STRING), Undecided(h)
    PROVE  ~ Opens(h) /\ Thoughts(h) = <<>> /\ Words(h) = h
<1>1. ~ Opens(h)
  BY DecidedIs, <<>> \in Seq(STRING)
<1> QED
  BY <1>1 DEF Thoughts, Words

(* Nothing more of a text can be thought.                                    *)
Beyond(h) == \/ Opens(h) /\ Found(CloseTag, Inside(h)) # {}
             \/ ~ Opens(h) /\ ~ Undecided(h)

LEMMA ThoughtsIs ==
    ASSUME NEW h \in Seq(STRING)
    PROVE  /\ ~ Opens(h) => Thoughts(h) = <<>> /\ Words(h) = h
           /\ Opens(h) /\ Found(CloseTag, Inside(h)) = {} =>
                Thoughts(h) = Inside(h) /\ Words(h) = <<>>
           /\ Opens(h) /\ Found(CloseTag, Inside(h)) # {} =>
                \E m \in Nat : /\ m = Min(Found(CloseTag, Inside(h))) - 1
                               /\ m + Len(CloseTag) \in 0..Len(Inside(h))
                               /\ m \in 0..Len(Inside(h))
                               /\ Thoughts(h) = SubSeq(Inside(h), 1, m)
                               /\ Words(h) = After(Inside(h), m + Len(CloseTag))
           /\ Thoughts(h) \in Seq(STRING) /\ Words(h) \in Seq(STRING)
<1>1. ASSUME ~ Opens(h) PROVE Thoughts(h) = <<>> /\ Words(h) = h
  BY <1>1 DEF Thoughts, Words
<1>2. Opens(h) => Inside(h) \in Seq(STRING)
  BY DecidedIs, <<>> \in Seq(STRING)
<1>3. Len(CloseTag) \in Nat /\ Len(CloseTag) >= 1
  BY TagsAre
<1>4. ASSUME Opens(h), Found(CloseTag, Inside(h)) = {}
      PROVE  Thoughts(h) = Inside(h) /\ Words(h) = <<>>
  <2>1. PICK g \in Seq(STRING) : g = Inside(h)
    BY <1>2, <1>4
  <2>2. Thoughts(h) = g
    BY <1>4, <2>1 DEF Thoughts
  <2>3. Words(h) = SubSeq(g, Len(g) + Len(CloseTag) + 1, Len(g))
    BY <1>4, <2>1, <2>2 DEF Words, After
  <2>4. SubSeq(g, Len(g) + Len(CloseTag) + 1, Len(g)) = <<>>
    <3>1. Len(g) + Len(CloseTag) + 1 > Len(g) /\ Len(g) \in Nat
      BY <1>3
    <3> QED
      BY <1>3, <3>1
  <2> QED
    BY <2>1, <2>2, <2>3, <2>4
<1>5. ASSUME Opens(h), Found(CloseTag, Inside(h)) # {}
      PROVE  \E m \in Nat : /\ m = Min(Found(CloseTag, Inside(h))) - 1
                            /\ m + Len(CloseTag) \in 0..Len(Inside(h))
                            /\ m \in 0..Len(Inside(h))
                            /\ Thoughts(h) = SubSeq(Inside(h), 1, m)
                            /\ Words(h) = After(Inside(h), m + Len(CloseTag))
  <2>1. PICK g \in Seq(STRING) : g = Inside(h)
    BY <1>2, <1>5
  <2>2. PICK i : i = Min(Found(CloseTag, g))
    OBVIOUS
  <2>3. /\ i \in 1..Len(g) /\ i + Len(CloseTag) - 1 \in 1..Len(g)
    BY <1>5, <2>1, <2>2, FoundIs
  <2>4. PICK m \in Nat : m = i - 1
    BY <2>3
  <2>5. m + Len(CloseTag) \in 0..Len(g) /\ m \in 0..Len(g)
    BY <1>3, <2>3, <2>4
  <2>6. Thoughts(h) = SubSeq(g, 1, m)
    BY <1>5, <2>1, <2>2, <2>4 DEF Thoughts
  <2>7. Len(Thoughts(h)) = m
    BY <2>5, <2>6, AfterIs
  <2>8. Words(h) = After(g, m + Len(CloseTag))
    BY <1>5, <2>1, <2>7 DEF Words
  <2> QED
    BY <2>1, <2>2, <2>4, <2>5, <2>6, <2>8
<1>6. Thoughts(h) \in Seq(STRING) /\ Words(h) \in Seq(STRING)
  <2>1. CASE ~ Opens(h)
    BY <1>1, <2>1
  <2>2. CASE Opens(h) /\ Found(CloseTag, Inside(h)) = {}
    BY <1>2, <1>4, <2>2
  <2>3. CASE Opens(h) /\ Found(CloseTag, Inside(h)) # {}
    <3>1. PICK g \in Seq(STRING) : g = Inside(h)
      BY <1>2, <2>3
    <3>2. PICK m \in Nat : /\ m + Len(CloseTag) \in 0..Len(g) /\ m \in 0..Len(g)
                           /\ Thoughts(h) = SubSeq(g, 1, m)
                           /\ Words(h) = After(g, m + Len(CloseTag))
      BY <1>5, <2>3, <3>1
    <3> QED
      BY <3>2, AfterIs
  <2> QED
    BY <2>1, <2>2, <2>3
<1> QED
  BY <1>1, <1>4, <1>5, <1>6

LEMMA BeyondCat ==
    ASSUME NEW h \in Seq(STRING), NEW t \in Seq(STRING), Beyond(h)
    PROVE  /\ Beyond(h \o t) /\ Thoughts(h \o t) = Thoughts(h)
           /\ Words(h \o t) = Words(h) \o t
<1>1. h \o t \in Seq(STRING)
  OBVIOUS
<1>2. CASE Opens(h) /\ Found(CloseTag, Inside(h)) # {}
  <2>1. Opens(h \o t) /\ Inside(h) \in Seq(STRING) /\ Inside(h \o t) = Inside(h) \o t
    BY <1>2, DecidedIs
  <2>2. PICK g \in Seq(STRING) : g = Inside(h)
    BY <2>1
  <2>3. PICK m \in Nat : /\ m = Min(Found(CloseTag, g)) - 1
                         /\ m + Len(CloseTag) \in 0..Len(g) /\ m \in 0..Len(g)
                         /\ Thoughts(h) = SubSeq(g, 1, m)
                         /\ Words(h) = After(g, m + Len(CloseTag))
    BY <1>2, <2>2, ThoughtsIs
  <2>4. /\ Found(CloseTag, g \o t) # {}
        /\ Min(Found(CloseTag, g \o t)) = Min(Found(CloseTag, g))
    BY <1>2, <2>2, FoundLeast
  <2>5. PICK k \in Nat : /\ k = Min(Found(CloseTag, g \o t)) - 1
                         /\ Thoughts(h \o t) = SubSeq(g \o t, 1, k)
                         /\ Words(h \o t) = After(g \o t, k + Len(CloseTag))
    <3>1. PICK n, c : n = h \o t /\ c = g \o t /\ n \in Seq(STRING)
      BY <1>1
    <3>2. Opens(n) /\ Inside(n) = c /\ Found(CloseTag, c) # {}
      BY <2>1, <2>2, <2>4, <3>1
    <3>3. \E k \in Nat : /\ k = Min(Found(CloseTag, c)) - 1
                         /\ Thoughts(n) = SubSeq(c, 1, k)
                         /\ Words(n) = After(c, k + Len(CloseTag))
      BY <3>1, <3>2, ThoughtsIs, ZenonT(40)
    <3> QED
      BY <3>1, <3>3
  <2>6. k = m
    BY <2>3, <2>4, <2>5
  <2>7. /\ SubSeq(g \o t, 1, m) = SubSeq(g, 1, m)
        /\ After(g \o t, m + Len(CloseTag)) = After(g, m + Len(CloseTag)) \o t
    BY <2>3, CatCut
  <2> QED
    BY <2>1, <2>2, <2>3, <2>4, <2>5, <2>6, <2>7 DEF Beyond
<1>3. CASE ~ Opens(h) /\ ~ Undecided(h)
  <2>1. ~ Opens(h \o t) /\ ~ Undecided(h \o t)
    BY <1>3, DecidedIs
  <2> QED
    BY <1>1, <1>3, <2>1, ThoughtsIs DEF Beyond
<1> QED
  BY <1>2, <1>3 DEF Beyond

(* How far the text that was heard has been taken apart: nothing of it, its   *)
(* thought, or what follows that.  A thought is shown but for what may be the *)
(* beginning of the closing tag, text but for white space in front.          *)
Opening(l, p, x, h) ==
    /\ l.opening /\ ~ l.thinking /\ ~ l.started
    /\ l.prefix = h /\ l.thought = <<>> /\ l.white = <<>>
    /\ Undecided(h) /\ p = <<>> /\ x = <<>>
Inward(l, p, x, h) ==
    /\ ~ l.opening /\ l.thinking /\ ~ l.started
    /\ l.prefix = <<>> /\ l.white = <<>>
    /\ Opens(h) /\ Found(CloseTag, Inside(h)) = {} /\ p \o l.thought = Inside(h)
    /\ p # <<>> => Len(l.thought) = Hold
    /\ x = <<>>
Saying(l, x, q) ==
    /\ ~ l.opening /\ ~ l.thinking
    /\ l.prefix = <<>> /\ l.thought = <<>>
    /\ x \o l.white = q
    /\ IF l.started THEN l.white = <<>> ELSE x = <<>> /\ ~ HasVisible(l.white)
Outward(l, p, x, h) == p = Thoughts(h) /\ Saying(l, x, Words(h))
TellsApart(l, p, x, h) ==
    \/ Opening(l, p, x, h) \/ Inward(l, p, x, h)
    \/ Outward(l, p, x, h) /\ (Beyond(h) \/ l.calls # <<>>)
AllShown(p, x, h) ==
    /\ p = Thoughts(h)
    /\ x = Words(h) \/ (x = <<>> /\ ~ HasVisible(Words(h)))

LEMMA SayTells ==
    ASSUME NEW s \in Does, NEW t \in Seq(STRING), NEW x \in Seq(STRING), s.say = <<>>,
           NEW q, Saying(s.a, x, q)
    PROVE  LET r == Say(s, t) IN r.think = s.think /\ Saying(r.a, x \o r.say, q \o t)
<1> DEFINE l == s.a
           w == l.white \o t
           c == l.content \o l.white \o t
           b == l.started \/ HasVisible(t)
<1>1. /\ l \in Locals /\ l.white \in Seq(STRING) /\ l.content \in Seq(STRING)
      /\ l.started \in BOOLEAN /\ b \in BOOLEAN
  BY DoesIs
<1>2. /\ w \in Seq(STRING) /\ (x \o l.white) \o t = x \o w
      /\ x \o <<>> = x /\ <<>> \o w = w /\ <<>> \in Seq(STRING)
      /\ c \in Seq(STRING) /\ (x \o w) \o <<>> = x \o w
  <2>1. \A u, v, z \in Seq(STRING) : (u \o v) \o z = u \o (v \o z)
    BY CatThree
  <2>2. (x \o l.white) \o t = x \o w
    BY <1>1, <2>1, Zenon
  <2>3. w \in Seq(STRING) /\ c \in Seq(STRING)
    BY <1>1
  <2>4. \A u \in Seq(STRING) : u \o <<>> = u /\ <<>> \o u = u
    OBVIOUS
  <2>5. x \o w \in Seq(STRING)
    BY <2>3
  <2> QED
    BY <2>2, <2>3, <2>4, <2>5
<1>3. /\ ~ l.opening /\ ~ l.thinking /\ l.prefix = <<>> /\ l.thought = <<>>
      /\ x \o l.white = q
      /\ IF l.started THEN l.white = <<>> ELSE x = <<>> /\ ~ HasVisible(l.white)
  BY DEF Saying
<1>4. q \o t = x \o w
  BY <1>2, <1>3
<1>5. <<>> \o l.white \o t = w
  <2>1. <<>> \o l.white = l.white
    BY <1>1
  <2> QED
    BY <2>1
<1>6. CASE ~ l.started /\ ~ HasVisible(t)
  <2> DEFINE k == [l EXCEPT !.white = w]
  <2>1. Say(s, t) = [a |-> k, think |-> s.think, say |-> <<>>]
    BY <1>6, SayIs, Zenon
  <2> HIDE DEF l, w
  <2>2. /\ k.opening = l.opening /\ k.thinking = l.thinking /\ k.prefix = l.prefix
        /\ k.thought = l.thought /\ k.started = l.started /\ k.white = w
    BY <1>1 DEF Locals
  <2>3. ~ HasVisible(w)
    BY <1>1, <1>3, <1>6, VisibleCat DEF w
  <2> HIDE DEF k
  <2>4. Saying(k, x, q \o t)
    BY <1>3, <1>4, <1>6, <2>2, <2>3 DEF Saying
  <2> QED
    BY <1>2, <2>1, <2>4
<1>7. CASE ~ (~ l.started /\ ~ HasVisible(t))
  <2> DEFINE k == [l EXCEPT !.white = <<>>, !.content = c, !.started = b]
  <2>1. Say(s, t) = [a |-> k, think |-> s.think, say |-> w]
    <3>1. Say(s, t) = [a |-> k, think |-> s.think, say |-> s.say \o l.white \o t]
      BY <1>7, SayIs, Zenon
    <3> QED
      BY <1>5, <3>1, Zenon
  <2> HIDE DEF l, w, c
  <2>2. /\ k.opening = l.opening /\ k.thinking = l.thinking /\ k.prefix = l.prefix
        /\ k.thought = l.thought /\ k.white = <<>>
    BY <1>1 DEF Locals
  <2>3. k.started = TRUE
    BY <1>1, <1>7 DEF Locals
  <2> HIDE DEF k
  <2>4. Saying(k, x \o w, q \o t)
    BY <1>2, <1>3, <1>4, <2>2, <2>3 DEF Saying
  <2> QED
    BY <1>2, <2>1, <2>4
<1> QED
  BY <1>6, <1>7

(* Chunk after chunk of a thought, and the one that brings the closing tag.  *)
LEMMA ThinkTells ==
    ASSUME NEW s \in Does, NEW t \in Seq(STRING), NEW p \in Seq(STRING),
           NEW n \in Seq(STRING), s.think = <<>>, s.say = <<>>,
           ~ s.a.opening, s.a.thinking, ~ s.a.started,
           s.a.prefix = <<>>, s.a.white = <<>>,
           Opens(n), Inside(n) = (p \o s.a.thought) \o t,
           Found(CloseTag, p \o s.a.thought) = {},
           p # <<>> => Len(s.a.thought) = Hold
    PROVE  LET r == Think(s, t) IN
           \/ Inward(r.a, p \o r.think, <<>> \o r.say, n)
           \/ Outward(r.a, p \o r.think, <<>> \o r.say, n) /\ Beyond(n)
<1> DEFINE l == s.a
           u == l.thought
           v == u \o t
           d == Found(CloseTag, v)
           w == p \o v
           none == <<>>
<1>1. /\ l \in Locals /\ u \in Seq(STRING) /\ Len(u) <= Hold /\ none \in Seq(STRING)
      /\ u \in Thought
  BY DoesIs DEF Thought
<1>2. /\ v \in Seq(STRING) /\ w \in Seq(STRING) /\ Inside(n) = w
      /\ none \o none = none
  <2>1. \A x, y, z \in Seq(STRING) : (x \o y) \o z = x \o (y \o z)
    BY CatThree
  <2>2. (p \o u) \o t = w
    BY <1>1, <2>1, Zenon
  <2>3. \A x, y \in Seq(STRING) : x \o y \in Seq(STRING)
    OBVIOUS
  <2> QED
    BY <1>1, <2>2, <2>3
<1>3. /\ Found(CloseTag, w) = {} <=> d = {}
      /\ d # {} => Min(Found(CloseTag, w)) = Len(p) + Min(d) /\ Min(d) \in Nat
  BY <1>1, FoundCat
<1>4. CASE t = <<>>
  <2>1. Think(s, t) = s
    BY <1>4 DEF Think
  <2>2. v = u /\ p \o none = p
    BY <1>1, <1>4
  <2>3. Inward(l, p, none, n)
    BY <1>2, <1>3, <2>2 DEF Inward
  <2> QED
    BY <1>2, <2>1, <2>2, <2>3
<1>5. CASE t # <<>> /\ d = {}
  <2> DEFINE k == [l EXCEPT !.thought = Held(v).keep]
             z == Held(v).show
             y == Held(v).keep
  <2>1. Think(s, t) = [a |-> k, think |-> none \o z, say |-> none]
    <3>1. Closed(s, t) = {} /\ All(s, t) = v
      BY <1>5 DEF Closed, All
    <3>2. Think(s, t) = OnWith(s, v)
      BY <1>5, <3>1, ThinkIs
    <3> QED
      BY <3>2 DEF OnWith
  <2>2. /\ z \in Seq(STRING) /\ y \in Seq(STRING) /\ z \o y = v
        /\ z # <<>> => Len(y) = Hold
        /\ Len(v) > Hold => z # <<>>
    BY <1>2, HeldIs
  <2>3. p # <<>> => z # <<>>
    <3>1. Len(v) = Len(u) + Len(t) /\ Len(t) >= 1 /\ Len(u) \in Nat
      BY <1>1, <1>5
    <3> QED
      BY <2>2, <3>1
  <2> HIDE DEF z, y, l, u, v, d, w
  <2>4. /\ k.opening = l.opening /\ k.thinking = l.thinking /\ k.prefix = l.prefix
        /\ k.white = l.white /\ k.started = l.started /\ k.thought = y
    BY <1>1 DEF Locals, y
  <2> HIDE DEF k
  <2>5. (p \o z) \o y = w /\ none \o z = z /\ p \o z \in Seq(STRING)
    <3>1. \A a, b, c \in Seq(STRING) : (a \o b) \o c = a \o (b \o c)
      BY CatThree
    <3>2. (p \o z) \o y = p \o (z \o y)
      BY <2>2, <3>1, Zenon
    <3>3. none \o z = z /\ p \o z \in Seq(STRING)
      BY <2>2
    <3> QED
      BY <2>2, <3>2, <3>3 DEF w
  <2>6. p \o z # <<>> => Len(y) = Hold
    BY <2>2, <2>3
  <2>7. Inward(k, p \o z, none, n)
    BY <1>2, <1>3, <1>5, <2>4, <2>5, <2>6 DEF Inward, l, u
  <2> QED
    BY <1>2, <2>1, <2>5, <2>7
<1>6. CASE t # <<>> /\ d # {}
  <2> DEFINE i == Min(d)
             k == [[l EXCEPT !.thinking = FALSE] EXCEPT !.thought = <<>>]
             z == SubSeq(v, 1, i - 1)
             c == [a |-> k, think |-> none \o z, say |-> none]
             m == i + Len(CloseTag) - 1
             y == After(v, m)
  <2>1. /\ c \in Does /\ y \in Seq(STRING) /\ m \in 0..Len(v) /\ i - 1 \in 0..Len(v)
        /\ Think(s, t) = IF y = <<>> THEN c ELSE Say(c, y)
    <3>1. Closed(s, t) = d /\ All(s, t) = v
      BY DEF Closed, All
    <3>2. Closing(s, t) = c /\ Past(s, t) = m /\ Rest(s, t) = y
      BY <3>1 DEF Closing, OverAt, Past, Rest
    <3> QED
      BY <1>6, <3>1, <3>2, ThinkIs
  <2> HIDE DEF l, u, v, d, w
  <2>2. /\ k.opening = l.opening /\ k.thinking = FALSE /\ k.prefix = l.prefix
        /\ k.white = l.white /\ k.started = l.started /\ k.thought = <<>>
    BY <1>1 DEF Locals
  <2>3. i \in Nat /\ i >= 1 /\ Len(CloseTag) \in Nat
    BY <1>3, <1>6, <2>1, TagsAre, SMTT(30)
  <2>4. Thoughts(n) = SubSeq(w, 1, Len(p) + i - 1) /\ Words(n) = After(w, Len(p) + i - 1 + Len(CloseTag))
    <3>1. Found(CloseTag, w) # {} /\ Min(Found(CloseTag, w)) = Len(p) + i
      BY <1>3, <1>6
    <3>2. PICK j \in Nat : /\ j = Min(Found(CloseTag, w)) - 1
                           /\ Thoughts(n) = SubSeq(w, 1, j)
                           /\ Words(n) = After(w, j + Len(CloseTag))
      BY <1>2, <3>1, ThoughtsIs
    <3>3. j = Len(p) + i - 1
      <4>1. Len(p) \in Nat
        OBVIOUS
      <4> QED
        BY <2>3, <3>1, <3>2, <4>1
    <3> HIDE DEF i
    <3> QED
      BY <3>2, <3>3, Zenon
  <2>5. Beyond(n)
    BY <1>2, <1>3, <1>6 DEF Beyond
  <2>6. Thoughts(n) = p \o z /\ Words(n) = y
    <3> DEFINE j == i - 1
    <3>1. j \in 0..Len(v) /\ m \in 0..Len(v)
      BY <2>1
    <3>2. Len(p) + i - 1 = Len(p) + j /\ Len(p) + i - 1 + Len(CloseTag) = Len(p) + m
      <4>1. Len(p) \in Nat
        OBVIOUS
      <4> QED
        BY <2>3, <4>1
    <3> HIDE DEF m, i, j
    <3>3. SubSeq(p \o v, 1, Len(p) + j) = p \o SubSeq(v, 1, j) /\ After(p \o v, Len(p) + m) = After(v, m)
      <4>1. \A a \in 0..Len(v) : /\ SubSeq(p \o v, 1, Len(p) + a) = p \o SubSeq(v, 1, a)
                                 /\ After(p \o v, Len(p) + a) = After(v, a)
        BY <1>2, CatCut, Zenon
      <4> QED
        BY <3>1, <4>1, Zenon
    <3> QED
      BY <2>4, <3>2, <3>3 DEF w, j, i
  <2>7. z \in Seq(STRING) /\ none \o z = z /\ p \o z \in Seq(STRING)
    <3> DEFINE j == i - 1
    <3>1. j \in 0..Len(v)
      BY <2>1
    <3> HIDE DEF j
    <3>2. SubSeq(v, 1, j) \in Seq(STRING)
      BY <1>2, <3>1, AfterIs
    <3>3. z \in Seq(STRING)
      BY <3>2 DEF j
    <3> QED
      BY <3>3
  <2> HIDE DEF y, z, i, m
  <2>8. CASE y = <<>>
    <3>1. Outward(k, p \o z, none, n)
      <4>1. ~ HasVisible(none)
        BY DEF HasVisible
      <4> QED
        BY <1>2, <2>2, <2>6, <2>8, <4>1 DEF Outward, Saying, l
    <3> QED
      BY <1>2, <2>1, <2>5, <2>7, <2>8, <3>1
  <2>9. CASE y # <<>>
    <3>1. Saying(k, none, none)
      <4>1. ~ HasVisible(none)
        BY DEF HasVisible
      <4> QED
        BY <1>2, <2>2, <4>1 DEF Saying, l
    <3>2. c.a = k /\ c.think = none \o z /\ c.say = none
      OBVIOUS
    <3> HIDE DEF c
    <3>3. LET r == Say(c, y) IN r.think = c.think /\ Saying(r.a, none \o r.say, none \o y)
      BY <1>1, <2>1, <3>1, <3>2, SayTells
    <3>4. none \o y = y
      BY <2>1
    <3> QED
      BY <2>1, <2>5, <2>6, <2>7, <2>9, <3>2, <3>3, <3>4 DEF Outward
  <2> QED
    BY <2>8, <2>9
<1> QED
  BY <1>4, <1>5, <1>6

(* A call brought or an end announced leaves it at that.                     *)
Apart(l, p, x, h) == Opening(l, p, x, h) \/ Inward(l, p, x, h) \/ Outward(l, p, x, h)
Alike(l, k) ==
    /\ k.opening = l.opening /\ k.thinking = l.thinking /\ k.started = l.started
    /\ k.prefix = l.prefix /\ k.thought = l.thought /\ k.white = l.white

LEMMA AlikeTells ==
    ASSUME NEW l, NEW k, Alike(l, k), NEW p, NEW x, NEW h
    PROVE  Apart(l, p, x, h) => /\ Apart(k, p, x, h)
                                /\ k.calls # <<>> => TellsApart(k, p, x, h)
BY DEF Alike, Apart, Opening, Inward, Outward, Saying, TellsApart

LEMMA TellsIs ==
    ASSUME NEW l, NEW p, NEW x, NEW h, TellsApart(l, p, x, h)
    PROVE  Apart(l, p, x, h) /\ (l.calls = <<>> /\ Outward(l, p, x, h) => Beyond(h))
<1>1. Apart(l, p, x, h)
  BY DEF TellsApart, Apart
<1>2. ASSUME l.calls = <<>>, Outward(l, p, x, h) PROVE Beyond(h)
  BY <1>2 DEF TellsApart, Outward, Saying, Opening, Inward
<1> QED
  BY <1>1, <1>2

LEMMA StartsFields ==
    ASSUME NEW l \in Locals, NEW all \in Seq(STRING)
    PROVE  /\ LET k == Waits(l, all).a IN
                /\ k.opening = l.opening /\ k.thinking = l.thinking /\ k.started = l.started
                /\ k.prefix = all /\ k.thought = l.thought /\ k.white = l.white
           /\ LET k == Decides(l).a IN
                /\ k.opening = FALSE /\ k.thinking = l.thinking /\ k.started = l.started
                /\ k.prefix = <<>> /\ k.thought = l.thought /\ k.white = l.white
           /\ LET k == Enters(l).a IN
                /\ k.opening = FALSE /\ k.thinking = TRUE /\ k.started = l.started
                /\ k.prefix = <<>> /\ k.thought = l.thought /\ k.white = l.white
           /\ Fresh(l).a = l
           /\ Fresh(l).think = <<>> /\ Fresh(l).say = <<>>
           /\ Waits(l, all).think = <<>> /\ Waits(l, all).say = <<>>
           /\ Decides(l).think = <<>> /\ Decides(l).say = <<>>
           /\ Enters(l).think = <<>> /\ Enters(l).say = <<>>
<1> DEFINE w == [l EXCEPT !.prefix = all]
           d == [l EXCEPT !.opening = FALSE]
           e == [d EXCEPT !.prefix = <<>>]
           g == [e EXCEPT !.thinking = TRUE]
<1>1. /\ w.opening = l.opening /\ w.thinking = l.thinking /\ w.started = l.started
      /\ w.prefix = all /\ w.thought = l.thought /\ w.white = l.white
  BY DEF Locals
<1>2. /\ d.opening = FALSE /\ d.thinking = l.thinking /\ d.started = l.started
      /\ d.thought = l.thought /\ d.white = l.white
  BY DEF Locals
<1>3. d \in Locals /\ e \in Locals
  <2>1. FALSE \in BOOLEAN /\ <<>> \in Seq(STRING)
    OBVIOUS
  <2>2. d \in Locals
    BY <2>1, LocalsWith, Zenon
  <2> QED
    BY <2>1, <2>2, LocalsWith, Zenon
<1> HIDE DEF d
<1>4. /\ e.opening = FALSE /\ e.thinking = l.thinking /\ e.started = l.started
      /\ e.prefix = <<>> /\ e.thought = l.thought /\ e.white = l.white
  BY <1>2, <1>3 DEF Locals
<1> HIDE DEF e
<1>5. /\ g.opening = FALSE /\ g.thinking = TRUE /\ g.started = l.started
      /\ g.prefix = <<>> /\ g.thought = l.thought /\ g.white = l.white
  BY <1>3, <1>4 DEF Locals
<1> HIDE DEF w, g
<1>6. Waits(l, all).a = w /\ Decides(l).a = e /\ Enters(l).a = g
  BY DEF Waits, Decides, Enters, Fresh, d, e, w, g
<1>7. /\ Fresh(l).a = l
      /\ Fresh(l).think = <<>> /\ Fresh(l).say = <<>>
      /\ Waits(l, all).think = <<>> /\ Waits(l, all).say = <<>>
      /\ Decides(l).think = <<>> /\ Decides(l).say = <<>>
      /\ Enters(l).think = <<>> /\ Enters(l).say = <<>>
  BY DEF Waits, Decides, Enters, Fresh
<1> QED
  BY <1>1, <1>4, <1>5, <1>6, <1>7

LEMMA WaitsFields ==
    ASSUME NEW l \in Locals, NEW all \in Seq(STRING), NEW k, k = Waits(l, all)
    PROVE  /\ k.a.opening = l.opening /\ k.a.thinking = l.thinking
           /\ k.a.started = l.started /\ k.a.prefix = all
           /\ k.a.thought = l.thought /\ k.a.white = l.white
           /\ k.think = <<>> /\ k.say = <<>>
BY StartsFields

LEMMA HeedTells ==
    ASSUME agent \in Locals, NEW t \in Seq(STRING), NEW p \in Seq(STRING),
           NEW x \in Seq(STRING), NEW h \in Seq(STRING),
           TellsApart(agent, p, x, h), agent.calls = <<>>
    PROVE  LET r == Heed(t) IN TellsApart(r.a, p \o r.think, x \o r.say, h \o t)
<1> DEFINE none == <<>>
<1>1. PICK l : l = agent
  OBVIOUS
<1>2. PICK n \in Seq(STRING) : n = h \o t
  <2>1. h \o t \in Seq(STRING)
    OBVIOUS
  <2> QED
    BY <2>1
<1>3. /\ l \in Locals /\ Apart(l, p, x, h)
      /\ Outward(l, p, x, h) => Beyond(h)
  BY <1>1, TellsIs
<1>4. Heed(t) =
        IF ~ l.opening
          THEN IF l.thinking THEN Think(Fresh(l), t) ELSE Say(Fresh(l), t)
          ELSE CASE Undecided(l.prefix \o t) -> Waits(l, l.prefix \o t)
                 [] Opens(l.prefix \o t) ->
                      Think(Enters(l), After(Trimmed(l.prefix \o t), Len(OpenTag)))
                 [] OTHER -> Say(Decides(l), l.prefix \o t)
  BY <1>1, HeedIs, ZenonT(40)
<1>5. /\ none \in Seq(STRING) /\ none \o none = none /\ ~ HasVisible(none)
      /\ \A y \in Seq(STRING) : none \o y = y /\ y \o none = y
  BY DEF HasVisible
<1>6. /\ Fresh(l) \in Does /\ Waits(l, n) \in Does
      /\ Decides(l) \in Does /\ Enters(l) \in Does
  BY <1>3, StartsIs
<1>7. Opens(n) => ~ Undecided(n) /\ Inside(n) \in Seq(STRING)
  BY DecidedIs, <1>5
<1>8. CASE Opening(l, p, x, h)
  <2>1. /\ l.opening /\ ~ l.thinking /\ ~ l.started /\ l.prefix \o t = n
        /\ l.thought = none /\ l.white = none /\ p = none /\ x = none
    BY <1>2, <1>8 DEF Opening
  <2>2. CASE Undecided(n)
    <3>1. Heed(t) = Waits(l, n)
      <4>1. ~ Opens(n)
        BY <1>7, <2>2
      <4> QED
        BY <1>4, <2>1, <2>2, <4>1
    <3>2. PICK k : k = Waits(l, n)
      OBVIOUS
    <3>3. /\ k.a.opening = l.opening /\ k.a.thinking = l.thinking
          /\ k.a.started = l.started /\ k.a.prefix = n /\ k.a.thought = l.thought
          /\ k.a.white = l.white /\ k.think = none /\ k.say = none
      BY <1>3, <3>2, WaitsFields
    <3>4. Opening(k.a, none, none, n)
      BY <2>1, <2>2, <3>3 DEF Opening
    <3> QED
      BY <1>2, <1>5, <2>1, <3>1, <3>2, <3>3, <3>4 DEF TellsApart
  <2>3. CASE Opens(n)
    <3> DEFINE k == Enters(l)
               r == Think(k, Inside(n))
    <3>1. Heed(t) = r
      BY <1>4, <1>7, <2>1, <2>3 DEF Inside
    <3>2. /\ k.a.opening = FALSE /\ k.a.thinking = TRUE
          /\ k.a.started = l.started /\ k.a.prefix = none /\ k.a.thought = l.thought
          /\ k.a.white = l.white /\ k.think = none /\ k.say = none /\ k \in Does
      BY <1>3, <1>5, <1>6, StartsFields
    <3>3. Found(CloseTag, none) = {}
      <4>1. \A i \in Found(CloseTag, none) : i \in 1..Len(none)
        BY <1>5, FoundIs
      <4> QED
        BY <4>1
    <3> HIDE DEF k
    <3>4. Inside(n) = (none \o k.a.thought) \o Inside(n) /\ none \o k.a.thought = none
      BY <1>5, <1>7, <2>1, <2>3, <3>2
    <3>5. \/ Inward(r.a, none \o r.think, none \o r.say, n)
          \/ Outward(r.a, none \o r.think, none \o r.say, n) /\ Beyond(n)
      <4>1. /\ ~ k.a.opening /\ k.a.thinking /\ ~ k.a.started
            /\ k.a.prefix = <<>> /\ k.a.white = <<>> /\ k.think = <<>> /\ k.say = <<>>
        BY <2>1, <3>2
      <4>2. /\ Inside(n) \in Seq(STRING) /\ none \in Seq(STRING) /\ k \in Does
            /\ Opens(n) /\ Found(CloseTag, none \o k.a.thought) = {}
            /\ none # <<>> => Len(k.a.thought) = Hold
        BY <1>5, <1>7, <2>3, <3>2, <3>3, <3>4
      <4> HIDE DEF none
      <4>3. \/ Inward(r.a, none \o r.think, <<>> \o r.say, n)
            \/ Outward(r.a, none \o r.think, <<>> \o r.say, n) /\ Beyond(n)
        BY <3>4, <4>1, <4>2, ThinkTells, Zenon
      <4> QED
        BY <4>3 DEF none
    <3> QED
      BY <1>2, <2>1, <3>1, <3>5 DEF TellsApart
  <2>4. CASE ~ Undecided(n) /\ ~ Opens(n)
    <3> DEFINE k == Decides(l)
               r == Say(k, n)
    <3>1. Heed(t) = r
      BY <1>4, <2>1, <2>4
    <3>2. /\ k.a.opening = FALSE /\ k.a.thinking = l.thinking
          /\ k.a.started = l.started /\ k.a.prefix = none /\ k.a.thought = l.thought
          /\ k.a.white = l.white /\ k.think = none /\ k.say = none /\ k \in Does
      BY <1>3, <1>5, <1>6, StartsFields
    <3> HIDE DEF k
    <3>3. Saying(k.a, none, none)
      BY <1>5, <2>1, <3>2 DEF Saying
    <3>4. r.think = k.think /\ Saying(r.a, none \o r.say, none \o n)
      BY <1>5, <3>2, <3>3, SayTells
    <3>5. Thoughts(n) = none /\ Words(n) = n /\ none \o n = n /\ Beyond(n)
      BY <1>5, <2>4, ThoughtsIs DEF Beyond
    <3>6. Outward(r.a, none \o r.think, none \o r.say, n)
      BY <1>5, <3>2, <3>4, <3>5 DEF Outward
    <3> QED
      BY <1>2, <2>1, <3>1, <3>5, <3>6 DEF TellsApart
  <2> QED
    BY <2>2, <2>3, <2>4
<1>9. CASE Inward(l, p, x, h)
  <2> DEFINE k == Fresh(l)
             r == Think(k, t)
  <2>1. /\ ~ l.opening /\ l.thinking /\ ~ l.started /\ l.prefix = none /\ l.white = none
        /\ Opens(h) /\ Found(CloseTag, Inside(h)) = {} /\ p \o l.thought = Inside(h)
        /\ p # none => Len(l.thought) = Hold
        /\ x = none
    BY <1>9 DEF Inward
  <2>2. Opens(n) /\ Inside(n) = Inside(h) \o t
    BY <1>2, <2>1, DecidedIs
  <2>3. Heed(t) = r
    BY <1>4, <2>1
  <2>4. k.a = l /\ k.think = none /\ k.say = none /\ k \in Does
    BY <1>3, <1>5, <1>6, StartsFields
  <2> HIDE DEF k
  <2>5. \/ Inward(r.a, p \o r.think, none \o r.say, n)
        \/ Outward(r.a, p \o r.think, none \o r.say, n) /\ Beyond(n)
    BY <2>1, <2>2, <2>4, ThinkTells
  <2> QED
    BY <1>2, <2>1, <2>3, <2>5 DEF TellsApart
<1>10. CASE Outward(l, p, x, h)
  <2> DEFINE k == Fresh(l)
             r == Say(k, t)
  <2>1. p = Thoughts(h) /\ Saying(l, x, Words(h)) /\ Beyond(h) /\ ~ l.opening /\ ~ l.thinking
    BY <1>3, <1>10 DEF Outward, Saying
  <2>2. Beyond(n) /\ Thoughts(n) = Thoughts(h) /\ Words(n) = Words(h) \o t
    BY <1>2, <2>1, BeyondCat
  <2>3. Heed(t) = r
    BY <1>4, <2>1
  <2>4. k.a = l /\ k.think = none /\ k.say = none /\ k \in Does
    BY <1>3, <1>5, <1>6, StartsFields
  <2> HIDE DEF k
  <2>5. r.think = none /\ Saying(r.a, x \o r.say, Words(n))
    BY <2>1, <2>2, <2>4, SayTells
  <2>6. Outward(r.a, p \o r.think, x \o r.say, n)
    BY <1>5, <2>1, <2>2, <2>5 DEF Outward
  <2> QED
    BY <1>2, <2>2, <2>3, <2>6 DEF TellsApart
<1> QED
  BY <1>3, <1>8, <1>9, <1>10 DEF Apart

LEMMA FlushTells ==
    ASSUME NEW s \in Does, NEW p \in Seq(STRING), NEW x \in Seq(STRING),
           NEW h \in Seq(STRING), s.think = <<>>, s.say = <<>>, Apart(s.a, p, x, h)
    PROVE  LET r == Flushed(s) IN
           /\ r.a \in Locals /\ r.think \in Seq(STRING) /\ r.say = <<>>
           /\ Apart(r.a, p \o r.think, x, h)
           /\ r.a.prefix = s.a.prefix
           /\ Inward(r.a, p \o r.think, x, h) => r.a.thought = <<>>
<1> DEFINE none == <<>>
           l == s.a
           k == [[l EXCEPT !.thought = <<>>] EXCEPT !.thinking = FALSE]
           r == Flushed(s)
<1>1. /\ l \in Locals /\ l.thought \in Seq(STRING) /\ none \in Seq(STRING)
      /\ p \o none = p /\ none \o l.thought = l.thought /\ x \o none = x
      /\ p \o l.thought \in Seq(STRING) /\ ~ HasVisible(none)
  <2>1. l \in Locals /\ l.thought \in Seq(STRING) /\ none \in Seq(STRING)
    BY DoesIs
  <2> QED
    BY <2>1 DEF HasVisible
<1>2. /\ r \in Does /\ Emptied(s) \in Does
      /\ r = IF ~ l.thinking \/ l.thought = <<>> THEN s ELSE Emptied(s)
  BY FlushedIs
<1>3. Emptied(s).a = k /\ Emptied(s).think = none \o l.thought /\ Emptied(s).say = none
  BY DEF Emptied
<1>4. r.a \in Locals /\ r.think \in Seq(STRING)
  BY <1>2, DoesIs
<1> HIDE DEF r, l
<1>5. /\ k.opening = l.opening /\ k.thinking = FALSE /\ k.started = l.started
      /\ k.prefix = l.prefix /\ k.thought = none /\ k.white = l.white
  BY <1>1 DEF Locals
<1> HIDE DEF k
<1>6. CASE ~ l.thinking \/ l.thought = <<>>
  <2>1. r.a = l /\ r.think = none /\ r.say = none
    BY <1>2, <1>6 DEF l
  <2>2. Inward(l, p, x, h) => l.thought = <<>>
    BY <1>6 DEF Inward
  <2> QED
    BY <1>1, <1>4, <2>1, <2>2 DEF r, l
<1>7. CASE l.thinking /\ l.thought # <<>>
  <2>1. r.a = k /\ r.think = l.thought /\ r.say = none
    BY <1>1, <1>2, <1>3, <1>7
  <2>2. Inward(l, p, x, h)
    BY <1>7 DEF Apart, Opening, Outward, Saying, l
  <2>3. /\ ~ l.opening /\ ~ l.started /\ l.prefix = none /\ l.white = none
        /\ Opens(h) /\ Found(CloseTag, Inside(h)) = {} /\ p \o l.thought = Inside(h)
        /\ x = none
    BY <2>2 DEF Inward
  <2>4. Thoughts(h) = Inside(h) /\ Words(h) = none
    BY <2>3, ThoughtsIs
  <2>5. Outward(k, p \o l.thought, x, h)
    BY <1>1, <1>5, <2>3, <2>4 DEF Outward, Saying
  <2>6. ~ Inward(k, p \o l.thought, x, h)
    BY <1>5 DEF Inward
  <2> QED
    BY <1>4, <1>5, <2>1, <2>5, <2>6 DEF Apart, r, l
<1> QED
  BY <1>6, <1>7

LEMMA LeaveTells ==
    ASSUME NEW s \in Does, NEW p \in Seq(STRING), NEW x \in Seq(STRING),
           NEW h \in Seq(STRING), s.think = <<>>, s.say = <<>>, Apart(s.a, p, x, h)
    PROVE  LET r == Flushed(Said(s)) IN AllShown(p \o r.think, x \o r.say, h)
<1> DEFINE none == <<>>
           l == s.a
           a1 == [l EXCEPT !.content = l.content \o l.prefix]
           a2 == [a1 EXCEPT !.prefix = none]
           a3 == [a2 EXCEPT !.pc = "over"]
           q == Said(s)
           k == [[a3 EXCEPT !.thought = none] EXCEPT !.thinking = FALSE]
           r == Flushed(q)
<1>1. /\ l \in Locals /\ l.thought \in Seq(STRING) /\ l.prefix \in Seq(STRING)
      /\ l.content \in Seq(STRING) /\ l.white \in Seq(STRING) /\ none \in Seq(STRING)
  BY DoesIs
<1>2. /\ p \o none = p /\ none \o l.thought = l.thought /\ x \o none = x
      /\ none \o l.prefix = l.prefix /\ ~ HasVisible(none)
  BY <1>1 DEF HasVisible
<1>3. /\ a1 \in Locals /\ a2 \in Locals /\ a3 \in Locals
  <2>1. l.content \o l.prefix \in Seq(STRING)
    BY <1>1
  <2>2. a1 \in Locals
    BY <1>1, <2>1, LocalsWith, Zenon
  <2>3. a2 \in Locals
    BY <1>1, <2>2, LocalsWith, Zenon
  <2>4. "over" \in {"listening", "over", "left"}
    OBVIOUS
  <2> QED
    BY <2>2, <2>3, <2>4, LocalsWith, Zenon
<1>4. q = [a |-> a3, think |-> s.think, say |-> s.say \o l.prefix]
  BY DEF Said
<1>5. q \in Does
  <2>1. s.say \o l.prefix \in Seq(STRING) /\ s.think \in Seq(STRING)
    BY <1>1, DoesIs
  <2> QED
    BY <1>3, <1>4, <2>1, DoesWith, Zenon
<1>6. q.a = a3 /\ q.think = none /\ q.say = l.prefix
  BY <1>2, <1>4
<1>7. r = IF ~ q.a.thinking \/ q.a.thought = <<>> THEN q ELSE Emptied(q)
  BY <1>5, FlushedIs
<1>8. Emptied(q).think = q.think \o q.a.thought /\ Emptied(q).say = q.say
  BY DEF Emptied
<1> HIDE DEF l, q, r
<1>9. a3.thinking = l.thinking /\ a3.thought = l.thought
  <2> HIDE DEF none
  <2>1. a1.thinking = l.thinking /\ a1.thought = l.thought
    BY <1>1 DEF Locals
  <2> HIDE DEF a1
  <2>2. a2.thinking = l.thinking /\ a2.thought = l.thought
    BY <1>3, <2>1 DEF Locals
  <2> HIDE DEF a2
  <2> QED
    BY <1>3, <2>2 DEF Locals
<1> HIDE DEF a3
<1>10. r.think = (IF l.thinking THEN l.thought ELSE none) /\ r.say = l.prefix
  <2>1. CASE ~ l.thinking \/ l.thought = <<>>
    BY <1>6, <1>7, <1>9, <2>1
  <2>2. CASE l.thinking /\ l.thought # <<>>
    BY <1>2, <1>6, <1>7, <1>8, <1>9, <2>2
  <2> QED
    BY <2>1, <2>2
<1>11. CASE Opening(l, p, x, h)
  <2>1. ~ l.thinking /\ l.prefix = h /\ Undecided(h) /\ p = none /\ x = none
    BY <1>11 DEF Opening
  <2>2. Thoughts(h) = none /\ Words(h) = h
    BY <2>1, UndecidedIs
  <2>3. p \o r.think = none /\ x \o r.say = h
    BY <1>2, <1>10, <2>1
  <2> QED
    BY <2>2, <2>3 DEF AllShown, r, q
<1>12. CASE Inward(l, p, x, h)
  <2>1. /\ l.thinking /\ l.prefix = none /\ x = none
        /\ Opens(h) /\ Found(CloseTag, Inside(h)) = {} /\ p \o l.thought = Inside(h)
    BY <1>12 DEF Inward
  <2>2. Thoughts(h) = Inside(h) /\ Words(h) = none
    BY <2>1, ThoughtsIs
  <2>3. p \o r.think = Inside(h) /\ x \o r.say = none
    BY <1>2, <1>10, <2>1
  <2> QED
    BY <2>2, <2>3 DEF AllShown, r, q
<1>13. CASE Outward(l, p, x, h)
  <2>1. /\ ~ l.thinking /\ l.prefix = none /\ p = Thoughts(h) /\ x \o l.white = Words(h)
        /\ IF l.started THEN l.white = none ELSE x = none /\ ~ HasVisible(l.white)
    BY <1>13 DEF Outward, Saying
  <2>2. p \o r.think = p /\ x \o r.say = x
    BY <1>2, <1>10, <2>1
  <2>3. x = Words(h) \/ (x = none /\ ~ HasVisible(Words(h)))
    <3>1. CASE l.started
      BY <1>2, <2>1, <3>1
    <3>2. CASE ~ l.started
      <4>1. none \o l.white = l.white
        BY <1>1
      <4> QED
        BY <2>1, <3>2, <4>1
    <3> QED
      BY <3>1, <3>2
  <2> QED
    BY <2>1, <2>2, <2>3 DEF AllShown, r, q
<1> QED
  BY <1>11, <1>12, <1>13 DEF Apart, l

-----------------------------------------------------------------------------
(* What the user has been shown, as long as the agent listens and when it has *)
(* come to its end.                                                          *)
Faithful ==
    /\ shown \in [thoughts : Seq(STRING), text : Seq(STRING)]
    /\ agent.pc = "listening" => TellsApart(agent, shown.thoughts, shown.text, heard)
    /\ agent.pc = "over" => AllShown(shown.thoughts, shown.text, heard)

LEMMA ShownIs ==
    ASSUME Types, Faithful
    PROVE  /\ agent \in Locals /\ heard \in Seq(STRING)
           /\ shown.thoughts \in Seq(STRING) /\ shown.text \in Seq(STRING)
BY DEF Types, Faithful

LEMMA Showing ==
    ASSUME NEW y \in Seq(STRING), NEW z \in Seq(STRING),
           shown' = [thoughts |-> y, text |-> z], agent'.pc \in {"listening", "over"},
           IF agent'.pc = "listening" THEN TellsApart(agent', y, z, heard')
                                      ELSE AllShown(y, z, heard')
    PROVE  Faithful'
<1>1. shown'.thoughts = y /\ shown'.text = z
  OBVIOUS
<1>2. shown' \in [thoughts : Seq(STRING), text : Seq(STRING)]
  OBVIOUS
<1> QED
  BY <1>1, <1>2 DEF Faithful

LEMMA InsertedSome ==
    ASSUME NEW s \in Seq(CallNow), NEW c
    PROVE  Inserted(s, c) # <<>>
<1>1. CASE \E i \in DOMAIN s : s[i].index = c.index
  <2>1. Inserted(s, c) = [i \in DOMAIN s |-> IF s[i].index = c.index THEN c ELSE s[i]]
    BY <1>1 DEF Inserted
  <2>2. DOMAIN Inserted(s, c) # {}
    BY <1>1, <2>1
  <2>3. DOMAIN <<>> = {}
    OBVIOUS
  <2> QED
    BY <2>2, <2>3
<1>2. CASE ~ \E i \in DOMAIN s : s[i].index = c.index
  <2>1. Inserted(s, c) = Append(s, c)
    BY <1>2 DEF Inserted
  <2>2. Append(s, c) # <<>>
    <3>1. PICK T : T = CallNow \cup {c}
      OBVIOUS
    <3>2. s \in Seq(T) /\ c \in T
      BY <3>1
    <3> QED
      BY <3>2
  <2> QED
    BY <2>1, <2>2
<1> QED
  BY <1>1, <1>2

LEMMA TakeTextFaithful ==
    ASSUME Inv, Faithful, TakeText
    PROVE  Faithful'
<1>1. /\ Types /\ Take("text") /\ agent.pc = "listening" /\ queue # <<>>
      /\ queue' = Tail(queue) /\ Head(queue).kind = "text" /\ queue \in Seq(Msg)
      /\ agent' = Heed(Head(queue).text).a /\ heard' = heard \o Head(queue).text
      /\ shown' = [thoughts |-> shown.thoughts \o Heed(Head(queue).text).think,
                   text |-> shown.text \o Heed(Head(queue).text).say]
  BY DEF TakeText, Take, Show, Inv, Types
<1>2. PICK h, f : ToldOnWire(h) /\ ToldInQueue(h, f)
  BY DEF Inv, AllTold
<1>3. Course(answer, backend, queue, f) /\ agent.calls = AsCalls(Tools(answer, f[0]))
  BY <1>1, <1>2 DEF ToldInQueue
<1>4. /\ Sound(answer, backend, f[0])
      /\ Brings(answer, backend, f[0], Head(queue), f[1])
      /\ Len(queue) >= 1 /\ Len(queue) \in Nat /\ Head(queue) = queue[1]
  BY <1>1, <1>3, Taking
<1>5. f[0].given = <<>>
  BY <1>1, <1>4 DEF Brings, BringsText, BringsCall
<1>6. agent.calls = <<>>
  <2>1. PICK p : p = f[0]
    OBVIOUS
  <2>2. AsCalls(Tools(answer, p)) \in Seq(CallNow) /\ Len(AsCalls(Tools(answer, p))) = Len(p.given)
    BY <1>1, <1>4, <2>1, ToolsType
  <2>3. Len(p.given) = 0
    BY <1>5, <2>1
  <2>4. PICK c : c = AsCalls(Tools(answer, p))
    OBVIOUS
  <2>5. c = <<>>
    BY <2>2, <2>3, <2>4
  <2> QED
    BY <1>3, <2>1, <2>4, <2>5
<1>7. Head(queue).text \in Seq(STRING)
  <2>1. queue[1] \in Msg
    BY <1>1, <1>4
  <2> QED
    BY <1>4, <2>1 DEF Msg
<1>8. PICK t, p, x, n : /\ t = Head(queue).text /\ p = shown.thoughts /\ x = shown.text
                        /\ n = heard
  OBVIOUS
<1>9. /\ t \in Seq(STRING) /\ p \in Seq(STRING) /\ x \in Seq(STRING) /\ n \in Seq(STRING)
      /\ agent \in Locals /\ TellsApart(agent, p, x, n)
  BY <1>1, <1>7, <1>8, ShownIs DEF Faithful
<1>10. PICK r : r = Heed(t)
  OBVIOUS
<1>11. TellsApart(r.a, p \o r.think, x \o r.say, n \o t)
  BY <1>6, <1>9, <1>10, HeedTells
<1>12. r \in Does /\ Keeps(agent, r.a)
  BY <1>9, <1>10, HeedKeeps
<1>13. r.think \in Seq(STRING) /\ r.say \in Seq(STRING)
  BY <1>12, DoesIs
<1>14. /\ agent' = r.a /\ agent'.pc = "listening" /\ heard' = n \o t
       /\ shown' = [thoughts |-> p \o r.think, text |-> x \o r.say]
  BY <1>1, <1>8, <1>10, <1>12 DEF Keeps
<1>15. PICK y, z : y = p \o r.think /\ z = x \o r.say
  OBVIOUS
<1>16. y \in Seq(STRING) /\ z \in Seq(STRING)
  BY <1>9, <1>13, <1>15
<1>17. TellsApart(agent', y, z, heard') /\ shown' = [thoughts |-> y, text |-> z]
  BY <1>11, <1>14, <1>15
<1> QED
  BY <1>14, <1>16, <1>17, Showing

LEMMA FreshIs ==
    ASSUME NEW l \in Locals, NEW b, b = Fresh(l)
    PROVE  b \in Does /\ b.a = l /\ b.think = <<>> /\ b.say = <<>>
<1>1. <<>> \in Seq(STRING)
  OBVIOUS
<1>2. b \in Does
  BY <1>1, DoesWith DEF Fresh
<1> QED
  BY <1>2 DEF Fresh

LEMMA TakeCallsFaithful ==
    ASSUME Inv, Faithful, TakeCalls
    PROVE  Faithful'
<1>1. PICK c : c = Head(Head(queue).calls)
  OBVIOUS
<1>2. /\ Types /\ agent.pc = "listening" /\ heard' = heard
      /\ Show([Flushed(Now) EXCEPT !.a.calls = Inserted(@, c)])
  BY <1>1 DEF TakeCalls, Take, Inv
<1>3. PICK p, x, n, l : /\ p = shown.thoughts /\ x = shown.text /\ n = heard /\ l = agent
  OBVIOUS
<1>4. /\ p \in Seq(STRING) /\ x \in Seq(STRING) /\ n \in Seq(STRING)
      /\ l \in Locals /\ TellsApart(l, p, x, n)
  BY <1>2, <1>3, ShownIs DEF Faithful
<1>5. PICK b : b = Fresh(l)
  OBVIOUS
<1>6. b \in Does /\ b.a = l /\ b.think = <<>> /\ b.say = <<>> /\ Now = b
  <2>1. b \in Does /\ b.a = l /\ b.think = <<>> /\ b.say = <<>>
    BY <1>4, <1>5, FreshIs
  <2>2. Now = b
    BY <1>3, <1>5 DEF Now, Fresh
  <2> QED
    BY <2>1, <2>2
<1>7. PICK s : s = Flushed(b)
  OBVIOUS
<1>8. /\ s \in Does /\ Keeps(l, s.a) /\ s.a \in Locals /\ s.think \in Seq(STRING)
      /\ s.say = <<>> /\ Apart(s.a, p \o s.think, x, n)
  <2>1. Apart(b.a, p, x, n)
    BY <1>4, <1>6, TellsIs
  <2>2. Flushed(b) \in Does /\ Keeps(b.a, Flushed(b).a)
    BY <1>6, FlushedIs
  <2>3. /\ Flushed(b).a \in Locals /\ Flushed(b).think \in Seq(STRING) /\ Flushed(b).say = <<>>
        /\ Apart(Flushed(b).a, p \o Flushed(b).think, x, n)
    BY <1>4, <1>6, <2>1, FlushTells
  <2> QED
    BY <1>6, <1>7, <2>2, <2>3
<1>9. PICK k : k = Inserted(s.a.calls, c)
  OBVIOUS
<1>10. k # <<>>
  <2>1. s.a.calls \in Seq(CallNow)
    BY <1>8, DoesIs
  <2> QED
    BY <1>9, <2>1, InsertedSome
<1> DEFINE m == [s.a EXCEPT !.calls = k]
<1>11. [s EXCEPT !.a.calls = k] = [a |-> m, think |-> s.think, say |-> s.say]
  <2>1. [s EXCEPT !.a.calls = k] = [s EXCEPT !.a = m]
    BY <1>8, DoesIs
  <2> HIDE DEF m
  <2>2. [s EXCEPT !.a = m] = [a |-> m, think |-> s.think, say |-> s.say]
    BY <1>8, Put
  <2> QED
    BY <2>1, <2>2
<1>12. Alike(s.a, m) /\ m.calls = k /\ m.pc = s.a.pc
  <2>1. PICK g : g = s.a
    OBVIOUS
  <2>2. Alike(g, [g EXCEPT !.calls = k]) /\ [g EXCEPT !.calls = k].calls = k
        /\ [g EXCEPT !.calls = k].pc = g.pc
    BY <1>8, <2>1 DEF Locals, Alike
  <2> QED
    BY <2>1, <2>2
<1> HIDE DEF m
<1>13. /\ agent' = m /\ shown' = [thoughts |-> p \o s.think, text |-> x \o <<>>]
  <2>1. Show([a |-> m, think |-> s.think, say |-> s.say])
    BY <1>2, <1>6, <1>7, <1>9, <1>11
  <2> QED
    BY <1>3, <1>8, <2>1 DEF Show
<1>14. x \o <<>> = x /\ <<>> \in Seq(STRING)
  BY <1>4
<1>15. TellsApart(m, p \o s.think, x \o <<>>, n)
  BY <1>8, <1>10, <1>12, <1>14, AlikeTells
<1>16. agent'.pc = "listening"
  BY <1>2, <1>3, <1>8, <1>12, <1>13 DEF Keeps
<1>17. PICK y, z : y = p \o s.think /\ z = x \o <<>>
  OBVIOUS
<1>18. y \in Seq(STRING) /\ z \in Seq(STRING)
  BY <1>4, <1>8, <1>14, <1>17
<1>19. TellsApart(agent', y, z, heard') /\ shown' = [thoughts |-> y, text |-> z]
  BY <1>2, <1>3, <1>13, <1>15, <1>17
<1> QED
  BY <1>16, <1>18, <1>19, Showing

LEMMA LeaveFaithful ==
    ASSUME Types, Faithful, agent.pc = "listening", NEW s \in Does, NEW l, l = agent,
           Alike(l, s.a), s.think = <<>>, s.say = <<>>, Leave(s)
    PROVE  Faithful'
<1>1. PICK p, x, n : p = shown.thoughts /\ x = shown.text /\ n = heard
  OBVIOUS
<1>2. /\ p \in Seq(STRING) /\ x \in Seq(STRING) /\ n \in Seq(STRING)
      /\ TellsApart(l, p, x, n)
  BY <1>1, ShownIs DEF Faithful
<1>3. Apart(s.a, p, x, n)
  BY <1>2, TellsIs, AlikeTells
<1>4. PICK r : r = Flushed(Said(s))
  OBVIOUS
<1>5. /\ r \in Does /\ agent' = r.a /\ agent'.pc = "over" /\ heard' = n
      /\ shown' = [thoughts |-> p \o r.think, text |-> x \o r.say]
  BY <1>1, <1>4, LeaveIs
<1>6. r.think \in Seq(STRING) /\ r.say \in Seq(STRING)
  BY <1>5, DoesIs
<1>7. AllShown(p \o r.think, x \o r.say, n)
  BY <1>2, <1>3, <1>4, LeaveTells
<1>8. PICK y, z : y = p \o r.think /\ z = x \o r.say
  OBVIOUS
<1>9. y \in Seq(STRING) /\ z \in Seq(STRING)
  BY <1>2, <1>6, <1>8
<1>10. AllShown(y, z, heard') /\ shown' = [thoughts |-> y, text |-> z]
  BY <1>5, <1>7, <1>8
<1> QED
  BY <1>5, <1>9, <1>10, Showing

LEMMA TakeDoneFaithful ==
    ASSUME Inv, Faithful, TakeDone
    PROVE  Faithful'
<1>1. PICK s : /\ s = [Now EXCEPT !.a.calls = IF @ = <<>> THEN Head(queue).calls ELSE @]
               /\ Leave(s)
  BY Zenon DEF TakeDone
<1>2. /\ Types /\ agent.pc = "listening" /\ queue # <<>> /\ Head(queue).kind = "done"
      /\ queue' = Tail(queue)
  BY DEF TakeDone, TakeEnd, Inv
<1>3. PICK h, f : ToldOnWire(h) /\ ToldInQueue(h, f)
  BY DEF Inv, AllTold
<1>4. /\ Head(queue).calls \in Seq(CallNow) /\ agent \in Locals
  BY <1>2, <1>3, AtLast
<1>5. PICK l, b : l = agent /\ b = Fresh(l)
  OBVIOUS
<1>6. b \in Does /\ b.a = l /\ b.think = <<>> /\ b.say = <<>> /\ Now = b /\ l \in Locals
  <2>1. Now = b
    BY <1>5 DEF Now, Fresh
  <2> QED
    BY <1>4, <1>5, <2>1, FreshIs
<1>7. PICK k : k = IF l.calls = <<>> THEN Head(queue).calls ELSE l.calls
  OBVIOUS
<1>8. k \in Seq(CallNow)
  BY <1>4, <1>6, <1>7 DEF Locals
<1> DEFINE m == [l EXCEPT !.calls = k]
<1>9. m \in Locals /\ Alike(l, m)
  <2>1. m \in Locals
    BY <1>6, <1>8, LocalsWith, Zenon
  <2> QED
    BY <1>6, <2>1 DEF Locals, Alike
<1>10. s = [b EXCEPT !.a = m]
  BY <1>1, <1>6, <1>7
<1> HIDE DEF m
<1>11. s = [a |-> m, think |-> b.think, say |-> b.say]
  BY <1>6, <1>10, Put
<1>12. s \in Does /\ s.a = m /\ s.think = <<>> /\ s.say = <<>>
  <2>1. <<>> \in Seq(STRING)
    OBVIOUS
  <2> QED
    BY <1>6, <1>9, <1>11, <2>1, DoesWith
<1> QED
  BY <1>1, <1>2, <1>5, <1>9, <1>12, LeaveFaithful

LEMMA TakeErrorFaithful ==
    ASSUME Inv, Faithful, TakeError
    PROVE  Faithful'
<1>1. PICK s : s = [Now EXCEPT !.a.error = TRUE] /\ Leave(s)
  BY Zenon DEF TakeError
<1>2. Types /\ agent.pc = "listening" /\ agent \in Locals
  BY DEF TakeError, TakeEnd, Inv, Types
<1>3. PICK l, b : l = agent /\ b = Fresh(l)
  OBVIOUS
<1>4. b \in Does /\ b.a = l /\ b.think = <<>> /\ b.say = <<>> /\ Now = b /\ l \in Locals
  <2>1. Now = b
    BY <1>3 DEF Now, Fresh
  <2> QED
    BY <1>2, <1>3, <2>1, FreshIs
<1> DEFINE m == [l EXCEPT !.error = TRUE]
<1>5. m \in Locals /\ Alike(l, m)
  <2>1. m \in Locals
    BY <1>4, LocalsWith
  <2> QED
    BY <1>4, <2>1 DEF Locals, Alike
<1>6. s = [b EXCEPT !.a = m]
  BY <1>1, <1>4
<1> HIDE DEF m
<1>7. s = [a |-> m, think |-> b.think, say |-> b.say]
  BY <1>4, <1>6, Put
<1>8. s \in Does /\ s.a = m /\ s.think = <<>> /\ s.say = <<>>
  <2>1. <<>> \in Seq(STRING)
    OBVIOUS
  <2> QED
    BY <1>4, <1>5, <1>7, <2>1, DoesWith
<1> QED
  BY <1>1, <1>2, <1>3, <1>5, <1>8, LeaveFaithful

LEMMA CancelFaithful ==
    ASSUME Inv, Faithful, Cancel
    PROVE  Faithful'
<1>1. /\ Types /\ agent.pc = "listening" /\ agent' = [agent EXCEPT !.pc = "left"]
      /\ shown' = IF agent.thinking THEN shown
                  ELSE [shown EXCEPT !.text = @ \o agent.content]
  BY DEF Cancel, Inv
<1>2. agent \in Locals /\ shown \in [thoughts : Seq(STRING), text : Seq(STRING)]
  BY <1>1 DEF Types, Faithful
<1>3. agent'.pc = "left"
  BY <1>1, <1>2 DEF Locals
<1>4. shown' \in [thoughts : Seq(STRING), text : Seq(STRING)]
  <2>1. PICK s, c : s = shown /\ c = agent.content
    OBVIOUS
  <2>2. s.text \o c \in Seq(STRING)
    BY <1>2, <2>1 DEF Locals
  <2>3. [s EXCEPT !.text = s.text \o c] \in [thoughts : Seq(STRING), text : Seq(STRING)]
    BY <1>2, <2>1, <2>2
  <2> QED
    BY <1>1, <1>2, <2>1, <2>3
<1> QED
  BY <1>3, <1>4 DEF Faithful

LEMMA InitFaithful ==
    ASSUME Init
    PROVE  Faithful
<1>1. /\ shown = [thoughts |-> <<>>, text |-> <<>>] /\ heard = <<>>
      /\ agent.opening /\ ~ agent.thinking /\ ~ agent.started /\ agent.pc = "listening"
      /\ agent.prefix = <<>> /\ agent.thought = <<>> /\ agent.white = <<>>
  BY DEF Init
<1>2. <<>> \in Seq(STRING) /\ Undecided(<<>>)
  BY DEF Undecided, HasVisible
<1>3. Opening(agent, <<>>, <<>>, heard)
  BY <1>1, <1>2 DEF Opening
<1> QED
  BY <1>1, <1>2, <1>3 DEF Faithful, TellsApart

LEMMA NextFaithful ==
    ASSUME Inv, Faithful, [Next]_vars
    PROVE  Faithful'
<1>1. ASSUME UNCHANGED <<agent, shown, heard>> PROVE Faithful'
  BY <1>1 DEF Faithful
<1>2. CASE Serve
  BY <1>1, <1>2 DEF Serve, SayText, BeginCall, WholeCall, GivePiece, GiveWhole, Finish, Stop,
                    Write, Agent
<1>3. CASE ReadOn
  BY <1>1, <1>3 DEF ReadOn, Receive, ReadText, ReadOpenAiCall, ReadAnthropicCall,
                    ReadResponsesCall, ReadEnd, ReadError, BodyEnds, Abandon, Extract, Agent
<1>4. CASE TakeText
  BY <1>4, TakeTextFaithful
<1>5. CASE TakeCalls
  BY <1>5, TakeCallsFaithful
<1>6. CASE TakeDone
  BY <1>6, TakeDoneFaithful
<1>7. CASE TakeError
  BY <1>7, TakeErrorFaithful
<1>8. CASE Cancel
  BY <1>8, CancelFaithful
<1>9. CASE UNCHANGED vars
  BY <1>1, <1>9 DEF vars
<1> QED
  BY <1>2, <1>3, <1>4, <1>5, <1>6, <1>7, <1>8, <1>9 DEF Next

(***************************************************************************)
(* Thoughts and text are told apart as the whole of the text has them, and *)
(* nothing of either is lost, shown twice or shown as the other: the inner *)
(* loop of run_generation and analyze_thinking_start, for every text, every *)
(* way it is cut and every pair of tags whose closing one is no longer     *)
(* than what is held back and one character more.                          *)
(***************************************************************************)
THEOREM ShownAsWrittenCorrect == Spec => []ShownAsWritten
<1>1. Init => Faithful
  BY InitFaithful
<1>2. Inv /\ Faithful /\ [Next]_vars => Faithful'
  BY NextFaithful
<1>3. Inv /\ Faithful => ShownAsWritten
  <2> SUFFICES ASSUME Inv, Faithful, agent.pc # "left" PROVE ShownAsWritten
    BY DEF ShownAsWritten
  <2>1. PICK l, p, x, h : l = agent /\ p = shown.thoughts /\ x = shown.text /\ h = heard
    OBVIOUS
  <2>2. /\ l \in Locals /\ p \in Seq(STRING) /\ x \in Seq(STRING) /\ h \in Seq(STRING)
        /\ l.pc = "listening" => TellsApart(l, p, x, h)
        /\ l.pc = "over" => AllShown(p, x, h)
        /\ l.pc \in {"listening", "over"}
    <3>1. Types
      BY DEF Inv
    <3> QED
      BY <2>1, <3>1, ShownIs DEF Faithful, Locals
  <2>3. /\ l.white \in Seq(STRING) /\ l.thought \in Seq(STRING)
        /\ Thoughts(h) \in Seq(STRING) /\ Words(h) \in Seq(STRING) /\ <<>> \in Seq(STRING)
    BY <2>2, ThoughtsIs DEF Locals, Thought
  <2>4. /\ \A s \in Seq(STRING) : IsPrefix(s, s) /\ IsPrefix(<<>>, s)
        /\ \A s, t \in Seq(STRING) : IsPrefix(s, s \o t)
    BY <2>3, PrefixCat
  <2>5. IsPrefix(p, Thoughts(h)) /\ IsPrefix(x, Words(h))
    <3>1. CASE AllShown(p, x, h)
      BY <2>3, <2>4, <3>1 DEF AllShown
    <3>2. CASE Opening(l, p, x, h)
      BY <2>3, <2>4, <3>2 DEF Opening
    <3>3. CASE Inward(l, p, x, h)
      <4>1. Thoughts(h) = p \o l.thought /\ x = <<>>
        BY <2>2, <3>3, ThoughtsIs DEF Inward
      <4> QED
        BY <2>2, <2>3, <2>4, <4>1
    <3>4. CASE Outward(l, p, x, h)
      BY <2>2, <2>3, <2>4, <3>4 DEF Outward, Saying
    <3> QED
      BY <2>2, <3>1, <3>2, <3>3, <3>4 DEF TellsApart
  <2>6. l.pc = "over" => p = Thoughts(h) /\ (x = Words(h) \/ ~ HasVisible(Words(h)))
    BY <2>2 DEF AllShown
  <2> QED
    BY <2>1, <2>5, <2>6 DEF ShownAsWritten
<1> QED
  BY <1>1, <1>2, <1>3, InvCorrect, PTL DEF Spec
=============================================================================
