----------------------------- MODULE LineProofs -----------------------------
(***************************************************************************)
(* What striking out does to a line: lemmas for the proofs about the job   *)
(* queue and about the rows of a query.                                    *)
(***************************************************************************)
EXTENDS Line, SequenceTheorems, WellFoundedInduction, TLAPS

(* Induction over the naturals, as the provers can use it: about a set of  *)
(* numbers rather than a predicate.                                        *)

\* A set of numbers that is not empty has a least one.
LEMMA NatLeast ==
  ASSUME NEW T, T \subseteq Nat, T # {}
  PROVE  \E x \in T : \A y \in T : x <= y
<1> DEFINE R == OpToRel(<, Nat)
<1>1. IsWellFoundedOn(R, Nat)
  BY NatLessThanWellFounded
<1>2. PICK x \in T : \A y \in T : ~(<<y, x>> \in R)
  BY <1>1, WFMin
<1>3. ASSUME NEW y \in T PROVE x <= y
  <2>1. y < x => <<y, x>> \in R
    BY DEF OpToRel
  <2>2. ~(<<y, x>> \in R)
    BY <1>2
  <2>3. ~(y < x)
    BY <2>1, <2>2
  <2> HIDE DEF R
  <2> QED BY <2>3
<1> HIDE DEF R
<1> QED BY <1>3

\* What holds of 0 and goes on from each number below n to the next holds up to n.
LEMMA UpTo ==
  ASSUME NEW n \in Nat, NEW G, 0 \in G, \A i \in 1 .. n : i - 1 \in G => i \in G
  PROVE  \A i \in 0 .. n : i \in G
<1> DEFINE Bad == (0 .. n) \ G
<1> SUFFICES ASSUME Bad # {} PROVE FALSE
  OBVIOUS
<1>1. Bad \subseteq Nat
  OBVIOUS
<1> HIDE DEF Bad
<1>2. PICK m \in Bad : \A j \in Bad : m <= j
  BY <1>1, NatLeast
<1>3. m \in 1 .. n /\ m \notin G
  BY <1>2 DEF Bad
<1>4. m - 1 \in 0 .. n /\ ~(m <= m - 1)
  BY <1>3
<1>5. m - 1 \in G
  BY <1>2, <1>4 DEF Bad
<1> QED BY <1>3, <1>5

-----------------------------------------------------------------------------
(* Kept, prefix by prefix.                                                 *)

\* kept satisfies the equation of Kept up to n.
KeptTo(s, x, n, kept) ==
  kept = [i \in 0 .. n |-> IF i = 0 THEN <<>>
                           ELSE IF s[i] = x THEN kept[i - 1]
                           ELSE Append(kept[i - 1], s[i])]

\* The recursive function Kept defines exists.
LEMMA KeptExists ==
  ASSUME NEW s, NEW x, NEW n \in Nat
  PROVE  \E kept : KeptTo(s, x, n, kept)
<1> DEFINE G == {m \in Nat : \E kept : KeptTo(s, x, m, kept)}
<1>1. 0 \in G
  <2> DEFINE g == [i \in 0 .. 0 |-> <<>>]
  <2>1. g = [i \in 0 .. 0 |-> IF i = 0 THEN <<>>
                              ELSE IF s[i] = x THEN g[i - 1]
                              ELSE Append(g[i - 1], s[i])]
    OBVIOUS
  <2> QED BY <2>1 DEF KeptTo
<1>2. ASSUME NEW m \in 1 .. n, m - 1 \in G PROVE m \in G
  <2>1. PICK kept : KeptTo(s, x, m - 1, kept)
    BY <1>2
  <2> DEFINE h == [i \in 0 .. m |-> IF i < m THEN kept[i]
                                    ELSE IF s[i] = x THEN kept[i - 1]
                                    ELSE Append(kept[i - 1], s[i])]
  <2>2. \A i \in 0 .. m - 1 : kept[i] = IF i = 0 THEN <<>>
                                        ELSE IF s[i] = x THEN kept[i - 1]
                                        ELSE Append(kept[i - 1], s[i])
    BY <2>1 DEF KeptTo
  <2>3. ASSUME NEW i \in 0 .. m
        PROVE  h[i] = IF i = 0 THEN <<>>
                      ELSE IF s[i] = x THEN h[i - 1]
                      ELSE Append(h[i - 1], s[i])
    <3>1. CASE i = m
      BY <3>1
    <3>2. CASE i < m
      <4>1. h[i] = kept[i] /\ (i # 0 => h[i - 1] = kept[i - 1])
        BY <3>2
      <4> HIDE DEF h
      <4> QED BY <3>2, <4>1, <2>2
    <3> QED BY <3>1, <3>2
  <2>4. KeptTo(s, x, m, h)
    <3>1. h = [i \in 0 .. m |-> h[i]]
      OBVIOUS
    <3> HIDE DEF h
    <3> QED BY <3>1, <2>3 DEF KeptTo
  <2> QED BY <2>4
<1> HIDE DEF G
<1>3. n \in G
  <2> Len(s) \in Nat
    OBVIOUS
  <2> QED BY <1>1, <1>2, UpTo
<1> QED BY <1>3 DEF G

\* Kept satisfies its equation.
LEMMA KeptDef ==
  ASSUME NEW S, NEW s \in Seq(S), NEW x
  PROVE  /\ Kept(s, x)[0] = <<>>
         /\ \A i \in 1 .. Len(s) :
              Kept(s, x)[i] = IF s[i] = x THEN Kept(s, x)[i - 1]
                              ELSE Append(Kept(s, x)[i - 1], s[i])
<1> DEFINE k == Kept(s, x)
<1>1. k = CHOOSE kept : KeptTo(s, x, Len(s), kept)
  BY DEF Kept, KeptTo
<1>2. Len(s) \in Nat
  OBVIOUS
<1>3. KeptTo(s, x, Len(s), k)
  BY <1>1, <1>2, KeptExists
<1> HIDE DEF k
<1>4. \A i \in 0 .. Len(s) : k[i] = IF i = 0 THEN <<>>
                                      ELSE IF s[i] = x THEN k[i - 1]
                                      ELSE Append(k[i - 1], s[i])
  BY <1>3 DEF KeptTo
<1>5. k[0] = <<>>
  BY <1>2, <1>4
<1>6. \A i \in 1 .. Len(s) : k[i] = IF s[i] = x THEN k[i - 1] ELSE Append(k[i - 1], s[i])
  BY <1>2, <1>4
<1> QED BY <1>5, <1>6 DEF k

\* What is kept is a line of entries of s, and not longer.
LEMMA KeptType ==
  ASSUME NEW S, NEW s \in Seq(S), NEW x
  PROVE  \A i \in 0 .. Len(s) : Kept(s, x)[i] \in Seq(S) /\ Len(Kept(s, x)[i]) <= i
<1> DEFINE k == Kept(s, x)
           G == {i \in 0 .. Len(s) : k[i] \in Seq(S) /\ Len(k[i]) <= i}
<1>1. k[0] = <<>> /\ \A i \in 1 .. Len(s) : k[i] = IF s[i] = x THEN k[i - 1] ELSE Append(k[i - 1], s[i])
  BY KeptDef
<1> HIDE DEF k
<1>2. 0 \in G
  <2>1. <<>> \in Seq(S) /\ Len(<<>>) = 0
    OBVIOUS
  <2>2. 0 \in 0 .. Len(s) /\ k[0] \in Seq(S) /\ Len(k[0]) <= 0
    BY <1>1, <2>1
  <2> QED BY <2>2
<1>3. ASSUME NEW i \in 1 .. Len(s), i - 1 \in G PROVE i \in G
  <2>1. k[i - 1] \in Seq(S) /\ Len(k[i - 1]) <= i - 1 /\ s[i] \in S
    BY <1>3
  <2> DEFINE r == k[i - 1]
  <2>2. k[i] = IF s[i] = x THEN r ELSE Append(r, s[i])
    BY <1>1
  <2> HIDE DEF r
  <2>3. Append(r, s[i]) \in Seq(S) /\ Len(Append(r, s[i])) = Len(r) + 1 /\ Len(r) \in Nat
    BY <2>1 DEF r
  <2>4. r \in Seq(S) /\ Len(r) <= i - 1
    BY <2>1 DEF r
  <2>5. k[i] \in Seq(S) /\ Len(k[i]) <= i
    BY <2>2, <2>3, <2>4
  <2> QED BY <2>5
<1> HIDE DEF G
<1>4. \A i \in 0 .. Len(s) : i \in G
  <2> Len(s) \in Nat
    OBVIOUS
  <2> QED BY <1>2, <1>3, UpTo
<1> QED BY <1>4 DEF G, k

-----------------------------------------------------------------------------
(* Without, from the end of the line.                                      *)

\* A line stays a line, and gets no longer.
LEMMA WithoutType ==
  ASSUME NEW S, NEW s \in Seq(S), NEW x
  PROVE  Without(s, x) \in Seq(S) /\ Len(Without(s, x)) <= Len(s)
BY KeptType DEF Without

\* There is nothing to strike out of the empty line.
LEMMA WithoutEmpty ==
  ASSUME NEW x
  PROVE  Without(<<>>, x) = <<>>
<1>1. <<>> \in Seq({x}) /\ Len(<<>>) = 0
  OBVIOUS
<1>2. Len(Without(<<>>, x)) <= 0 /\ Without(<<>>, x) \in Seq({x})
  BY <1>1, WithoutType
<1> QED BY <1>2

\* An entry at the end is kept, unless it is the one struck out.
LEMMA WithoutAppend ==
  ASSUME NEW S, NEW s \in Seq(S), NEW v \in S, NEW x
  PROVE  Without(Append(s, v), x) = IF v = x THEN Without(s, x) ELSE Append(Without(s, x), v)
<1> DEFINE t == Append(s, v)
           k == Kept(s, x)
           l == Kept(t, x)
           G == {i \in 0 .. Len(s) : l[i] = k[i]}
<1>1. /\ t \in Seq(S) /\ Len(t) = Len(s) + 1 /\ t[Len(s) + 1] = v
      /\ \A i \in 1 .. Len(s) : t[i] = s[i]
  OBVIOUS
<1> HIDE DEF t
<1>2. k[0] = <<>> /\ \A i \in 1 .. Len(s) : k[i] = IF s[i] = x THEN k[i - 1] ELSE Append(k[i - 1], s[i])
  BY KeptDef
<1>3. l[0] = <<>> /\ \A i \in 1 .. Len(s) + 1 : l[i] = IF t[i] = x THEN l[i - 1] ELSE Append(l[i - 1], t[i])
  BY <1>1, KeptDef
<1> HIDE DEF k, l
<1>4. 0 \in G
  BY <1>2, <1>3
<1>5. ASSUME NEW i \in 1 .. Len(s), i - 1 \in G PROVE i \in G
  BY <1>1, <1>2, <1>3, <1>5
<1> HIDE DEF G
<1>6. Len(s) \in G
  <2>1. Len(s) \in Nat /\ Len(s) \in 0 .. Len(s)
    OBVIOUS
  <2>2. \A i \in 0 .. Len(s) : i \in G
    BY <2>1, <1>4, <1>5, UpTo
  <2> QED BY <2>1, <2>2
<1>7. l[Len(s)] = k[Len(s)]
  BY <1>6 DEF G
<1>8. l[Len(s) + 1] = IF v = x THEN k[Len(s)] ELSE Append(k[Len(s)], v)
  BY <1>1, <1>3, <1>7
<1> QED BY <1>1, <1>8 DEF Without, k, l, t

\* What is true of the empty line and remains true when an entry is added at the end is
\* true of every line.
LEMMA EveryLine ==
  ASSUME NEW S, NEW G, <<>> \in G,
         \A t \in Seq(S), v \in S : t \in G => Append(t, v) \in G
  PROVE  Seq(S) \subseteq G
<1> SUFFICES ASSUME NEW s \in Seq(S) PROVE s \in G
  OBVIOUS
<1> DEFINE L == {n \in 0 .. Len(s) : \A t \in Seq(S) : Len(t) = n => t \in G}
<1>1. 0 \in L
  OBVIOUS
<1>2. ASSUME NEW n \in 1 .. Len(s), n - 1 \in L PROVE n \in L
  <2> SUFFICES ASSUME NEW t \in Seq(S), Len(t) = n PROVE t \in G
    OBVIOUS
  <2>0. t # <<>>
    OBVIOUS
  <2>1. PICK r \in Seq(S), v \in S : t = Append(r, v)
    BY <2>0, SequenceEmptyOrAppend
  <2>2. Len(r) = n - 1
    BY <2>1
  <2> QED BY <1>2, <2>1, <2>2
<1> HIDE DEF L
<1>3. Len(s) \in L
  <2>1. Len(s) \in Nat /\ Len(s) \in 0 .. Len(s)
    OBVIOUS
  <2>2. \A i \in 0 .. Len(s) : i \in L
    BY <2>1, <1>1, <1>2, UpTo
  <2> QED BY <2>1, <2>2
<1> QED BY <1>3 DEF L

Members(s) == {s[i] : i \in DOMAIN s}

\* An entry added at the end is the one new member.
LEMMA MembersAppend ==
  ASSUME NEW S, NEW s \in Seq(S), NEW v \in S
  PROVE  Members(Append(s, v)) = Members(s) \union {v}
<1>1. Len(Append(s, v)) = Len(s) + 1 /\ \A i \in 1 .. Len(s) : Append(s, v)[i] = s[i]
  OBVIOUS
<1>2. Append(s, v)[Len(s) + 1] = v
  OBVIOUS
<1>3. DOMAIN s = 1 .. Len(s) /\ DOMAIN Append(s, v) = 1 .. Len(s) + 1
  BY <1>1
<1> QED BY <1>1, <1>2, <1>3 DEF Members

\* Nobody but x leaves the line.
LEMMA WithoutMembers ==
  ASSUME NEW S, NEW s \in Seq(S), NEW x
  PROVE  Members(Without(s, x)) = Members(s) \ {x}
<1> DEFINE G == {t \in Seq(S) : Members(Without(t, x)) = Members(t) \ {x}}
<1>1. <<>> \in G
  BY WithoutEmpty DEF Members
<1>2. ASSUME NEW t \in Seq(S), NEW v \in S, t \in G PROVE Append(t, v) \in G
  <2> DEFINE r == Without(t, x)
  <2>1. r \in Seq(S) /\ Members(r) = Members(t) \ {x}
    BY <1>2, WithoutType
  <2>2. Without(Append(t, v), x) = IF v = x THEN r ELSE Append(r, v)
    BY WithoutAppend
  <2> HIDE DEF r
  <2>3. Members(Append(t, v)) = Members(t) \union {v} /\ Members(Append(r, v)) = Members(r) \union {v}
    BY <2>1, MembersAppend
  <2>4. Append(t, v) \in Seq(S)
    OBVIOUS
  <2> QED BY <2>1, <2>2, <2>3, <2>4
<1> HIDE DEF G
<1>3. s \in G
  BY <1>1, <1>2, EveryLine
<1> QED BY <1>3 DEF G

\* Striking out comes to the first entry and to the rest alike.
LEMMA WithoutFirst ==
  ASSUME NEW S, NEW s \in Seq(S), s # <<>>, NEW x
  PROVE  IF s[1] = x
         THEN Without(s, x) = Without(Tail(s), x)
         ELSE /\ Without(s, x) # <<>>
              /\ Head(Without(s, x)) = s[1]
              /\ Tail(Without(s, x)) = Without(Tail(s), x)
<1> DEFINE P(t) == IF t[1] = x
                   THEN Without(t, x) = Without(Tail(t), x)
                   ELSE /\ Without(t, x) # <<>>
                        /\ Head(Without(t, x)) = t[1]
                        /\ Tail(Without(t, x)) = Without(Tail(t), x)
           G == {t \in Seq(S) : t # <<>> => P(t)}
<1>1. <<>> \in G
  OBVIOUS
<1>2. ASSUME NEW t \in Seq(S), NEW v \in S, t \in G PROVE Append(t, v) \in G
  <2> DEFINE r == Without(t, x)
             a == Append(t, v)
  <2>1. r \in Seq(S) /\ a \in Seq(S)
    BY WithoutType
  <2>2. Without(a, x) = IF v = x THEN r ELSE Append(r, v)
    BY WithoutAppend
  <2>3. CASE t = <<>>
    <3>1. r = <<>> /\ Without(Tail(a), x) = <<>> /\ a[1] = v
      <4>1. Tail(a) = <<>> /\ a[1] = v
        BY <2>3
      <4> QED BY <2>3, <4>1, WithoutEmpty
    <3> HIDE DEF r, a
    <3>2. P(a)
      BY <2>2, <3>1
    <3> QED BY <2>1, <3>2 DEF a
  <2>4. CASE t # <<>>
    <3>1. P(t)
      BY <1>2, <2>4
    <3>2. Tail(t) \in Seq(S) /\ Tail(a) = Append(Tail(t), v) /\ a[1] = t[1]
      BY <2>4
    <3>3. Without(Tail(a), x) = IF v = x THEN Without(Tail(t), x) ELSE Append(Without(Tail(t), x), v)
      <4> DEFINE rest == Tail(t)
      <4>0. rest \in Seq(S)
        BY <3>2
      <4> HIDE DEF rest
      <4>1. Without(Append(rest, v), x) = IF v = x THEN Without(rest, x) ELSE Append(Without(rest, x), v)
        BY <4>0, WithoutAppend
      <4> HIDE DEF a
      <4> QED BY <3>2, <4>1 DEF rest
    <3>4. r # <<>> => /\ Head(Append(r, v)) = Head(r)
                      /\ Tail(Append(r, v)) = Append(Tail(r), v)
      <4> HIDE DEF r
      <4> QED BY <2>1
    <3>5. Append(r, v) # <<>>
      <4> HIDE DEF r
      <4> QED BY <2>1
    <3>6. P(a)
      <4> HIDE DEF a
      <4>1. CASE t[1] = x
        BY <4>1, <2>2, <3>1, <3>2, <3>3
      <4>2. CASE t[1] # x
        BY <4>2, <2>2, <3>1, <3>2, <3>3, <3>4, <3>5
      <4> QED BY <4>1, <4>2
    <3> QED BY <2>1, <3>6
  <2> QED BY <2>3, <2>4
<1> HIDE DEF G
<1>3. s \in G
  BY <1>1, <1>2, EveryLine
<1> QED BY <1>3 DEF G

\* A line that is not empty has a last entry.
LEMMA LastEntry ==
  ASSUME NEW S, NEW s \in Seq(S), s # <<>>
  PROVE  \E t \in Seq(S), v \in S : s = Append(t, v)
BY SequenceEmptyOrAppend

\* q is t with holes n for every u.
HoleFor(v, u, n) == IF v = u THEN n ELSE v
Holes(q, t, u, n) == Len(q) = Len(t) /\ \A i \in 1 .. Len(t) : q[i] = HoleFor(t[i], u, n)

\* Holes for the line without its last entry, then for that entry.
LEMMA HolesAppend ==
  ASSUME NEW S, NEW n, NEW u, NEW t \in Seq(S), NEW v \in S, NEW p \in Seq(S), NEW w \in S,
         Holes(Append(p, w), Append(t, v), u, n)
  PROVE  Holes(p, t, u, n) /\ w = HoleFor(v, u, n)
<1>1. Len(Append(t, v)) = Len(t) + 1 /\ Append(t, v)[Len(t) + 1] = v /\ \A i \in 1 .. Len(t) : Append(t, v)[i] = t[i]
  OBVIOUS
<1>2. Len(Append(p, w)) = Len(p) + 1 /\ Append(p, w)[Len(p) + 1] = w /\ \A i \in 1 .. Len(p) : Append(p, w)[i] = p[i]
  OBVIOUS
<1>3. Len(p) = Len(t)
  BY <1>1, <1>2 DEF Holes
<1> QED BY <1>1, <1>2, <1>3 DEF Holes

\* A line with holes is empty only if the line was.
LEMMA HolesNonempty ==
  ASSUME NEW S, NEW n, NEW u, NEW t \in Seq(S), NEW v \in S, NEW q \in Seq(S), Holes(q, Append(t, v), u, n)
  PROVE  q # <<>>
BY DEF Holes

\* Striking u out after the holes is making holes of u and leaving the holes out.
HolesOut(S, t, u, n) ==
  \A q \in Seq(S) : Holes(q, t, u, n) => Without(q, n) = Without(Without(t, n), u)

\* Leaving out the holes goes on from a line to the line with one more entry.
LEMMA HolesOutAppend ==
  ASSUME NEW S, NEW n, NEW u, u # n, NEW t \in Seq(S), NEW v \in S, HolesOut(S, t, u, n)
  PROVE  HolesOut(S, Append(t, v), u, n)
<1> SUFFICES ASSUME NEW q \in Seq(S), Holes(q, Append(t, v), u, n)
             PROVE  Without(q, n) = Without(Without(Append(t, v), n), u)
  BY DEF HolesOut
<1>1. q # <<>>
  BY HolesNonempty
<1>2. PICK p \in Seq(S), x \in S : q = Append(p, x)
  BY <1>1, LastEntry
<1>3. Holes(p, t, u, n) /\ x = HoleFor(v, u, n)
  <2>1. Holes(Append(p, x), Append(t, v), u, n)
    BY <1>2
  <2> QED BY <2>1, HolesAppend
<1> DEFINE a == Without(t, n)
           b == Without(p, n)
<1>4. b = Without(a, u) /\ a \in Seq(S) /\ b \in Seq(S)
  BY <1>3, WithoutType DEF HolesOut
<1>5. Without(Append(p, x), n) = IF x = n THEN b ELSE Append(b, x)
  BY WithoutAppend
<1>6. Without(Append(t, v), n) = IF v = n THEN a ELSE Append(a, v)
  BY WithoutAppend
<1> HIDE DEF a, b
<1>7. Without(Append(a, v), u) = IF v = u THEN b ELSE Append(b, v)
  BY <1>4, WithoutAppend
<1>8. CASE v = u
  BY <1>2, <1>3, <1>4, <1>5, <1>6, <1>7, <1>8 DEF HoleFor
<1>9. CASE v = n
  BY <1>2, <1>3, <1>4, <1>5, <1>6, <1>9 DEF HoleFor
<1>10. CASE v # u /\ v # n
  BY <1>2, <1>3, <1>4, <1>5, <1>6, <1>7, <1>10 DEF HoleFor
<1> QED BY <1>8, <1>9, <1>10

\* Making holes of the entries u and leaving out the holes is striking out u.
LEMMA WithoutHoles ==
  ASSUME NEW S, NEW n, NEW u, u # n, NEW s \in Seq(S)
  PROVE  HolesOut(S, s, u, n)
<1> DEFINE G == {t \in Seq(S) : HolesOut(S, t, u, n)}
<1>1. <<>> \in G
  <2>1. ASSUME NEW q \in Seq(S), Holes(q, <<>>, u, n) PROVE q = <<>>
    <3>1. Len(q) = 0
      BY <2>1 DEF Holes
    <3> QED BY <3>1
  <2>2. Without(<<>>, n) = <<>> /\ Without(<<>>, u) = <<>>
    BY WithoutEmpty
  <2>3. <<>> \in Seq(S)
    OBVIOUS
  <2> QED BY <2>1, <2>2, <2>3 DEF HolesOut
<1>2. ASSUME NEW t \in Seq(S), NEW v \in S, t \in G PROVE Append(t, v) \in G
  <2>1. Append(t, v) \in Seq(S)
    OBVIOUS
  <2>2. HolesOut(S, Append(t, v), u, n)
    BY <1>2, HolesOutAppend
  <2> QED BY <2>1, <2>2
<1> HIDE DEF G
<1>3. s \in G
  BY <1>1, <1>2, EveryLine
<1> QED BY <1>3 DEF G

-----------------------------------------------------------------------------
(* A line of numbers in their places, with zeros where one is missing.     *)

\* Each number is greater than those before it.
Ascending(q) == \A i, j \in 1 .. Len(q) : i < j => q[i] < q[j]

\* A greater number at the end keeps it so.
LEMMA AscendingAppend ==
  ASSUME NEW r \in Seq(Nat), NEW v \in Nat, Ascending(r), \A i \in 1 .. Len(r) : r[i] < v
  PROVE  Ascending(Append(r, v))
<1> DEFINE q == Append(r, v)
<1>1. Len(q) = Len(r) + 1 /\ q[Len(r) + 1] = v /\ Len(r) \in Nat
  OBVIOUS
<1>2. \A i \in 1 .. Len(r) : q[i] = r[i]
  OBVIOUS
<1> HIDE DEF q
<1>3. ASSUME NEW i \in 1 .. Len(q), NEW j \in 1 .. Len(q), i < j PROVE q[i] < q[j]
  <2>1. i \in 1 .. Len(r) /\ (j \in 1 .. Len(r) \/ j = Len(r) + 1)
    BY <1>1, <1>3
  <2>2. CASE j \in 1 .. Len(r)
    BY <1>2, <1>3, <2>1, <2>2 DEF Ascending
  <2>3. CASE j = Len(r) + 1
    BY <1>1, <1>2, <2>1, <2>3
  <2> QED BY <2>1, <2>2, <2>3
<1> QED BY <1>3 DEF Ascending, q

\* What is left of it without the zeros ascends.
LEMMA WithoutAscending ==
  ASSUME NEW s \in Seq(Nat), \A i \in 1 .. Len(s) : s[i] \in {0, i}
  PROVE  Ascending(Without(s, 0))
<1> DEFINE InPlace(t) == \A i \in 1 .. Len(t) : t[i] \in {0, i}
           G == {t \in Seq(Nat) : InPlace(t) => Ascending(Without(t, 0))}
<1>1. <<>> \in G
  BY WithoutEmpty DEF Ascending
<1>2. ASSUME NEW t \in Seq(Nat), NEW v \in Nat, t \in G PROVE Append(t, v) \in G
  <2> DEFINE r == Without(t, 0)
  <2>1. r \in Seq(Nat) /\ Members(r) = Members(t) \ {0}
    <3>1. r \in Seq(Nat)
      BY WithoutType
    <3>2. Members(r) = Members(t) \ {0}
      BY WithoutMembers
    <3> HIDE DEF G, InPlace, r
    <3> QED BY <3>1, <3>2
  <2>2. Without(Append(t, v), 0) = IF v = 0 THEN r ELSE Append(r, v)
    BY WithoutAppend, ZenonT(60)
  <2>3. Append(t, v) \in Seq(Nat)
    OBVIOUS
  <2> SUFFICES ASSUME InPlace(Append(t, v)) PROVE Ascending(Without(Append(t, v), 0))
    BY <2>3
  <2>4. InPlace(t) /\ v \in {0, Len(t) + 1}
    <3>1. Len(Append(t, v)) = Len(t) + 1 /\ Append(t, v)[Len(t) + 1] = v
      OBVIOUS
    <3>2. \A i \in 1 .. Len(t) : Append(t, v)[i] = t[i]
      OBVIOUS
    <3> QED BY <3>1, <3>2
  <2>5. Ascending(r)
    BY <1>2, <2>4
  <2> HIDE DEF r
  <2>6. \A i \in 1 .. Len(r) : r[i] \in 1 .. Len(t)
    <3>1. \A i \in 1 .. Len(r) : r[i] \in Members(r)
      BY <2>1 DEF Members
    <3>2. DOMAIN t = 1 .. Len(t)
      OBVIOUS
    <3>3. \A x \in Members(t) : x = 0 \/ x \in 1 .. Len(t)
      BY <2>4, <3>2 DEF Members
    <3> QED BY <2>1, <3>1, <3>3
  <2>7. v # 0 => \A i \in 1 .. Len(r) : r[i] < v
    BY <2>4, <2>6
  <2>8. v # 0 => Ascending(Append(r, v))
    BY <2>1, <2>5, <2>7, AscendingAppend
  <2> QED BY <2>2, <2>5, <2>8
<1> HIDE DEF G
<1>3. s \in G
  BY <1>1, <1>2, EveryLine
<1> QED BY <1>3 DEF G

-----------------------------------------------------------------------------
(* Taking an entry out of a line by its place, and putting one in.         *)

\* Two pieces, one behind the other.
LEMMA Joined ==
  ASSUME NEW S, NEW a \in Seq(S), NEW b \in Seq(S)
  PROVE  /\ a \o b \in Seq(S) /\ Len(a \o b) = Len(a) + Len(b)
         /\ \A j \in 1 .. Len(a) + Len(b) : (a \o b)[j] = IF j <= Len(a) THEN a[j] ELSE b[j - Len(a)]
BY ConcatProperties

\* A line of one entry.
LEMMA OneEntry ==
  ASSUME NEW S, NEW s \in Seq(S), Len(s) = 1
  PROVE  Tail(s) = <<>> /\ Head(s) = s[1] /\ s[1] \in S
<1>1. s # <<>> /\ Head(s) = s[1] /\ s[1] \in S
  OBVIOUS
<1>2. Tail(s) \in Seq(S) /\ Len(Tail(s)) = 0
  BY <1>1
<1>3. Tail(s) = <<>>
  BY <1>2, EmptySeq
<1> QED BY <1>1, <1>3

\* The first n entries.
LEMMA FirstOnes ==
  ASSUME NEW S, NEW c \in Seq(S), NEW n \in Nat, n <= Len(c)
  PROVE  /\ SubSeq(c, 1, n) \in Seq(S) /\ Len(SubSeq(c, 1, n)) = n
         /\ \A j \in 1 .. n : SubSeq(c, 1, n)[j] = c[j]
OBVIOUS

\* The entries behind the one that is taken out move up.
LEMMA CutOut ==
  ASSUME NEW S, NEW c \in Seq(S), NEW i \in 1 .. Len(c)
  PROVE  LET r == SubSeq(c, 1, i - 1) \o SubSeq(c, i + 1, Len(c))
         IN /\ r \in Seq(S) /\ Len(r) = Len(c) - 1
            /\ \A j \in 1 .. Len(c) - 1 : r[j] = IF j < i THEN c[j] ELSE c[j + 1]
<1> DEFINE a == SubSeq(c, 1, i - 1)
           b == SubSeq(c, i + 1, Len(c))
           N == Len(c)
           r == a \o b
<1>0. N \in Nat /\ i \in 1 .. N
  OBVIOUS
<1>1. /\ a \in Seq(S) /\ Len(a) = i - 1
      /\ \A j \in 1 .. i - 1 : a[j] = c[j]
  OBVIOUS
<1>2. /\ b \in Seq(S) /\ Len(b) = N - i
      /\ \A j \in 1 .. N - i : b[j] = c[i + j]
  OBVIOUS
<1> HIDE DEF a, b, N
<1>3. /\ r \in Seq(S) /\ Len(r) = N - 1
      /\ \A j \in 1 .. N - 1 : r[j] = IF j <= i - 1 THEN a[j] ELSE b[j - (i - 1)]
  <2>1. /\ r \in Seq(S) /\ Len(r) = Len(a) + Len(b)
        /\ \A j \in 1 .. Len(a) + Len(b) : r[j] = IF j <= Len(a) THEN a[j] ELSE b[j - Len(a)]
    BY <1>1, <1>2, Joined
  <2>2. Len(a) = i - 1 /\ Len(b) = N - i /\ (i - 1) + (N - i) = N - 1
    BY <1>0, <1>1, <1>2
  <2> HIDE DEF r
  <2> QED BY <2>1, <2>2
<1> HIDE DEF r
<1>4. ASSUME NEW j \in 1 .. N - 1 PROVE r[j] = IF j < i THEN c[j] ELSE c[j + 1]
  <2>1. CASE j < i
    <3>1. j \in 1 .. i - 1 /\ j <= i - 1
      BY <1>0, <2>1
    <3> QED BY <1>1, <1>3, <2>1, <3>1
  <2>2. CASE ~(j < i)
    <3>1. j - (i - 1) \in 1 .. N - i /\ i + (j - (i - 1)) = j + 1 /\ ~(j <= i - 1)
      BY <1>0, <2>2
    <3> QED BY <1>2, <1>3, <2>2, <3>1
  <2> QED BY <2>1, <2>2
<1> QED BY <1>3, <1>4 DEF N, r, a, b

\* The line c with entry e before its last one.
BeforeLast(c, e) == (SubSeq(c, 1, Len(c) - 1) \o <<e>>) \o SubSeq(c, Len(c), Len(c))

\* The other entries keep their order.
LEMMA PutBeforeLast ==
  ASSUME NEW S, NEW c \in Seq(S), c # <<>>, NEW e \in S
  PROVE  LET r == BeforeLast(c, e)
         IN /\ r \in Seq(S) /\ Len(r) = Len(c) + 1
            /\ r[Len(c)] = e /\ r[Len(c) + 1] = c[Len(c)]
            /\ \A j \in 1 .. Len(c) - 1 : r[j] = c[j]
<1> DEFINE a == SubSeq(c, 1, Len(c) - 1)
           b == SubSeq(c, Len(c), Len(c))
           N == Len(c)
           d == a \o <<e>>
           r == d \o b
<1>0. N \in Nat /\ N >= 1
  OBVIOUS
<1>1. /\ a \in Seq(S) /\ Len(a) = N - 1
      /\ \A j \in 1 .. N - 1 : a[j] = c[j]
  <2>1. N - 1 \in Nat /\ N - 1 <= Len(c)
    BY <1>0
  <2> QED BY <2>1, FirstOnes
<1>2. /\ b \in Seq(S) /\ Len(b) = 1 /\ b[1] = c[N]
  BY <1>0
<1>3. <<e>> \in Seq(S) /\ Len(<<e>>) = 1 /\ <<e>>[1] = e
  OBVIOUS
<1> HIDE DEF a, b, N
<1>5. /\ d \in Seq(S) /\ Len(d) = N
      /\ \A j \in 1 .. N : d[j] = IF j <= N - 1 THEN a[j] ELSE e
  <2>1. /\ d \in Seq(S) /\ Len(d) = Len(a) + 1
        /\ \A j \in 1 .. Len(a) + 1 : d[j] = IF j <= Len(a) THEN a[j] ELSE <<e>>[j - Len(a)]
    BY <1>1, <1>3, Joined
  <2>2. Len(a) + 1 = N /\ \A j \in 1 .. N : ~(j <= N - 1) => j - Len(a) = 1
    BY <1>0, <1>1
  <2> HIDE DEF d
  <2> QED BY <1>0, <1>1, <1>3, <2>1, <2>2
<1> HIDE DEF d
<1>6. /\ r \in Seq(S) /\ Len(r) = N + 1
      /\ \A j \in 1 .. N + 1 : r[j] = IF j <= N THEN d[j] ELSE b[j - N]
  <2>1. /\ r \in Seq(S) /\ Len(r) = Len(d) + Len(b)
        /\ \A j \in 1 .. Len(d) + Len(b) : r[j] = IF j <= Len(d) THEN d[j] ELSE b[j - Len(d)]
    BY <1>2, <1>5, Joined
  <2> HIDE DEF r
  <2> QED BY <1>2, <1>5, <2>1
<1> HIDE DEF r
<1>7. N \in 1 .. N + 1 /\ N + 1 \in 1 .. N + 1 /\ ~(N + 1 <= N) /\ (N + 1) - N = 1 /\ N \in 1 .. N /\ ~(N <= N - 1)
  BY <1>0
<1>8. r[N] = e /\ r[N + 1] = c[N]
  BY <1>2, <1>5, <1>6, <1>7
<1>9. ASSUME NEW j \in 1 .. N - 1 PROVE r[j] = c[j]
  <2>1. j \in 1 .. N + 1 /\ j \in 1 .. N /\ j <= N /\ j <= N - 1
    BY <1>0
  <2> QED BY <1>1, <1>5, <1>6, <2>1
<1> QED BY <1>6, <1>8, <1>9 DEF BeforeLast, N, r, d, a, b
=============================================================================
