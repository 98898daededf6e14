--------------------------- MODULE SequenceLemmas ---------------------------
(***************************************************************************)
(* Functions that are defined by iteration, for sums and for chains of     *)
(* blocks; and what RemoveFirst and Append do to a sequence without        *)
(* repetitions, for the rosters of rooms and the queue of connections to   *)
(* be accepted.                                                            *)
(***************************************************************************)
EXTENDS SequencesExt, SequenceTheorems, WellFoundedInduction, TLAPS

(* Functions defined by iteration.                                         *)

\* A nonempty set of natural numbers has a least element.
LEMMA LeastNatural ==
    ASSUME NEW I, I \subseteq Nat, I # {}
    PROVE  \E m \in I : \A n \in I : m <= n
<1> DEFINE R == OpToRel(<, Nat)
<1>1. IsWellFoundedOn(R, Nat)
  BY NatLessThanWellFounded
<1>2. PICK m \in I : \A n \in I : ~ (<<n, m>> \in R)
  <2> HIDE DEF R
  <2> QED
    BY <1>1, WFMin
<1>3. ASSUME NEW n \in I
      PROVE  m <= n
  <2>1. m \in Nat /\ n \in Nat
    OBVIOUS
  <2>2. <<n, m>> \in R <=> n < m
    BY <2>1 DEF OpToRel
  <2> HIDE DEF R
  <2> QED
    BY <1>2, <2>1, <2>2
<1> QED
  BY <1>3

\* What is true of 0, and of a number up to n if of the one before, is true of
\* all of them.
LEMMA UpTo ==
    ASSUME NEW n \in Nat, NEW I, 0 \in I, \A k \in 1 .. n : k - 1 \in I => k \in I
    PROVE  \A k \in 0 .. n : k \in I
<1> DEFINE Out == {k \in 0 .. n : k \notin I}
<1>1. SUFFICES ASSUME Out # {}
               PROVE  FALSE
  OBVIOUS
<1>2. PICK m \in Out : \A i \in Out : m <= i
  <2>1. Out \subseteq Nat
    OBVIOUS
  <2> HIDE DEF Out
  <2> QED
    BY <1>1, <2>1, LeastNatural
<1>3. m \in 1 .. n /\ m \notin I
  OBVIOUS
<1>4. m - 1 \in 0 .. n /\ m - 1 \notin Out
  <2>1. m - 1 \in 0 .. n /\ ~(m <= m - 1)
    BY <1>3
  <2> HIDE DEF Out
  <2> QED
    BY <1>2, <2>1
<1> QED
  BY <1>3, <1>4

\* What is iterated a number of times: every step a value from the last one
\* and its own number.
Iterates(f, n, a, step) ==
  /\ f[0] = a
  /\ \A k \in 1 .. n : f[k] = step[<< f[k - 1], k >>]

\* A function of the numbers up to n can be defined from its first value, each
\* value from the one before.
LEMMA IterationExists ==
    ASSUME NEW n \in Nat, NEW S, NEW a \in S, NEW step \in [S \X (1 .. n) -> S]
    PROVE  \E f \in [0 .. n -> S] : Iterates(f, n, a, step)
<1> DEFINE Reached == {m \in 0 .. n : \E f \in [0 .. m -> S] : Iterates(f, m, a, step)}
<1>1. 0 \in Reached
  <2>1. [k \in 0 .. 0 |-> a] \in [0 .. 0 -> S]
    OBVIOUS
  <2>2. Iterates([k \in 0 .. 0 |-> a], 0, a, step)
    BY DEF Iterates
  <2> QED
    BY <2>1, <2>2
<1>2. ASSUME NEW m \in 1 .. n, m - 1 \in Reached
      PROVE  m \in Reached
  <2>1. PICK f \in [0 .. m - 1 -> S] : Iterates(f, m - 1, a, step)
    BY <1>2
  <2> DEFINE g == [k \in 0 .. m |-> IF k = m THEN step[<< f[m - 1], m >>] ELSE f[k]]
  <2>2. g \in [0 .. m -> S]
    <3>1. m - 1 \in 0 .. m - 1 /\ step[<< f[m - 1], m >>] \in S
      OBVIOUS
    <3> QED
      BY <3>1
  <2>3. Iterates(g, m, a, step)
    <3>1. g[0] = a
      BY <2>1 DEF Iterates
    <3>2. ASSUME NEW k \in 1 .. m
          PROVE  g[k] = step[<< g[k - 1], k >>]
      <4>1. g[k - 1] = f[k - 1]
        OBVIOUS
      <4>2. CASE k = m
        <5>1. g[m] = step[<< f[m - 1], m >>]
          OBVIOUS
        <5> QED
          BY <4>1, <4>2, <5>1
      <4>3. CASE k # m
        <5>1. k \in 1 .. m - 1 /\ g[k] = f[k]
          BY <4>3
        <5>2. f[k] = step[<< f[k - 1], k >>]
          BY <2>1, <5>1 DEF Iterates
        <5> QED
          BY <4>1, <5>1, <5>2
      <4> QED
        BY <4>2, <4>3
    <3> QED
      BY <3>1, <3>2 DEF Iterates
  <2> QED
    BY <2>2, <2>3
<1>3. n \in 0 .. n
  OBVIOUS
<1> HIDE DEF Reached
<1>4. n \in Reached
  BY <1>1, <1>2, <1>3, UpTo
<1> QED
  BY <1>4 DEF Reached

\* Values that each come from the one before have its type.
LEMMA IterationType ==
    ASSUME NEW n \in Nat, NEW S, NEW f, f[0] \in S,
         \A k \in 1 .. n : f[k - 1] \in S => f[k] \in S
    PROVE  \A k \in 0 .. n : f[k] \in S
<1> DEFINE Typed == {k \in 0 .. n : f[k] \in S}
<1>1. 0 \in Typed
  OBVIOUS
<1>2. \A k \in 1 .. n : k - 1 \in Typed => k \in Typed
  OBVIOUS
<1> HIDE DEF Typed
<1>3. \A k \in 0 .. n : k \in Typed
  BY <1>1, <1>2, UpTo
<1> QED
  BY <1>3 DEF Typed
-----------------------------------------------------------------------------
(* Positions of a sequence.                                                *)

\* The least element of a set of natural numbers is what Min returns.
LEMMA MinOfNaturals ==
    ASSUME NEW I, I \subseteq Nat, I # {}
    PROVE  Min(I) \in I /\ \A n \in I : Min(I) <= n
BY LeastNatural DEF Min

\* Removing the first occurrence of an element is removing one position
\* that holds it.
LEMMA RemoveFirstIsRemoveAt ==
    ASSUME NEW S, NEW s \in Seq(S), NEW e, \E n \in 1 .. Len(s) : s[n] = e
    PROVE  \E k \in 1 .. Len(s) : s[k] = e /\ RemoveFirst(s, e) = RemoveAt(s, k)
<1> DEFINE I == {n \in 1 .. Len(s) : s[n] = e}
<1>1. I \subseteq Nat /\ I # {}
  BY LenProperties
<1>2. Min(I) \in I
  <2> HIDE DEF I
  <2> QED
    BY <1>1, MinOfNaturals
<1>3. SelectInSeq(s, LAMBDA v : v = e) = Min(I)
  BY <1>1 DEF SelectInSeq
<1>4. RemoveFirst(s, e) = RemoveAt(s, Min(I))
  BY <1>3 DEF RemoveFirst
<1> QED
  BY <1>2, <1>4

\* What is left of a sequence without the element at one position.
LEMMA RemoveAtProperties ==
    ASSUME NEW S, NEW s \in Seq(S), NEW k \in 1 .. Len(s)
    PROVE  /\ RemoveAt(s, k) \in Seq(S)
           /\ Len(RemoveAt(s, k)) = Len(s) - 1
           /\ \A n \in 1 .. Len(s) - 1 :
                 RemoveAt(s, k)[n] = IF n < k THEN s[n] ELSE s[n + 1]
<1> DEFINE front == SubSeq(s, 1, k - 1)
           back == SubSeq(s, k + 1, Len(s))
<1>1. Len(s) \in Nat /\ \A n \in 1 .. Len(s) : s[n] \in S
  BY LenProperties
<1>2. /\ front \in Seq(S)
      /\ Len(front) = k - 1
      /\ \A n \in 1 .. k - 1 : front[n] = s[n]
  BY <1>1, SubSeqProperties
<1>3. /\ back \in Seq(S)
      /\ Len(back) = Len(s) - k
      /\ \A n \in 1 .. Len(s) - k : back[n] = s[k + n]
  BY <1>1, SubSeqProperties
<1> HIDE DEF front, back
<1>4. /\ front \o back \in Seq(S)
      /\ Len(front \o back) = Len(s) - 1
      /\ \A n \in 1 .. Len(s) - 1 :
            (front \o back)[n] = IF n <= k - 1 THEN front[n] ELSE back[n - (k - 1)]
  <2>1. /\ front \o back \in Seq(S)
        /\ Len(front \o back) = Len(front) + Len(back)
        /\ \A n \in 1 .. Len(front) + Len(back) :
              (front \o back)[n] = IF n <= Len(front) THEN front[n] ELSE back[n - Len(front)]
    BY <1>2, <1>3, ConcatProperties
  <2>2. Len(front) + Len(back) = Len(s) - 1
    BY <1>1, <1>2, <1>3
  <2> QED
    BY <1>2, <2>1, <2>2
<1>5. ASSUME NEW n \in 1 .. Len(s) - 1
      PROVE  (front \o back)[n] = IF n < k THEN s[n] ELSE s[n + 1]
  <2>1. CASE n < k
    BY <1>1, <1>2, <1>4, <2>1
  <2>2. CASE ~(n < k)
    <3>1. n - (k - 1) \in 1 .. Len(s) - k /\ k + (n - (k - 1)) = n + 1
      BY <1>1, <2>2
    <3> QED
      BY <1>1, <1>3, <1>4, <2>2, <3>1
  <2> QED
    BY <2>1, <2>2
<1> QED
  BY <1>4, <1>5 DEF front, back, RemoveAt

\* Removing an element keeps the others distinct.
LEMMA RemoveFirstProperties ==
    ASSUME NEW S, NEW s \in Seq(S), NEW e, \E n \in 1 .. Len(s) : s[n] = e
    PROVE  /\ RemoveFirst(s, e) \in Seq(S)
           /\ IsInjective(s) => IsInjective(RemoveFirst(s, e))
           /\ Range(RemoveFirst(s, e)) \subseteq Range(s)
           /\ IsInjective(s) =>
                 \A n \in DOMAIN RemoveFirst(s, e) : RemoveFirst(s, e)[n] # e
<1>1. PICK k \in 1 .. Len(s) : s[k] = e /\ RemoveFirst(s, e) = RemoveAt(s, k)
  BY RemoveFirstIsRemoveAt
<1> DEFINE t == RemoveFirst(s, e)
           p(n) == IF n < k THEN n ELSE n + 1
<1>2. DOMAIN s = 1 .. Len(s) /\ Len(s) \in Nat
  BY LenProperties
<1>3. /\ t \in Seq(S)
      /\ DOMAIN t = 1 .. Len(s) - 1
      /\ \A n \in 1 .. Len(s) - 1 : t[n] = s[p(n)]
  <2>1. /\ t \in Seq(S)
        /\ Len(t) = Len(s) - 1
        /\ \A n \in 1 .. Len(s) - 1 : t[n] = IF n < k THEN s[n] ELSE s[n + 1]
    BY <1>1, RemoveAtProperties
  <2> HIDE DEF t
  <2> QED
    BY <2>1, LenProperties
<1>4. \A n \in 1 .. Len(s) - 1 : p(n) \in DOMAIN s
  BY <1>2
<1>5. \A a, b \in 1 .. Len(s) - 1 : p(a) = p(b) => a = b
  BY <1>2
<1> HIDE DEF t, p
<1>6. IsInjective(s) => IsInjective(t)
  <2>1. ASSUME IsInjective(s),
               NEW a \in 1 .. Len(s) - 1, NEW b \in 1 .. Len(s) - 1, t[a] = t[b]
        PROVE  a = b
    <3>1. s[p(a)] = s[p(b)]
      BY <1>3, <2>1
    <3>2. p(a) \in DOMAIN s /\ p(b) \in DOMAIN s
      BY <1>4
    <3>3. p(a) = p(b)
      BY <2>1, <3>1, <3>2 DEF IsInjective
    <3> QED
      BY <1>5, <3>3
  <2>2. DOMAIN t = 1 .. Len(s) - 1
    BY <1>3
  <2> QED
    BY <2>1, <2>2 DEF IsInjective
<1>7. Range(t) \subseteq Range(s)
  BY <1>3, <1>4 DEF Range
<1>8. IsInjective(s) => \A n \in DOMAIN t : t[n] # e
  <2>1. ASSUME IsInjective(s), NEW n \in 1 .. Len(s) - 1
        PROVE  s[p(n)] # e
    <3>1. p(n) \in DOMAIN s /\ p(n) # k
      BY <1>2 DEF p
    <3> QED
      BY <1>1, <1>2, <2>1, <3>1 DEF IsInjective
  <2> QED
    BY <1>3, <2>1
<1> QED
  BY <1>3, <1>6, <1>7, <1>8 DEF t

\* Appending a new element keeps all elements distinct.
LEMMA AppendKeepsInjective ==
    ASSUME NEW S, NEW s \in Seq(S), NEW e \in S,
           IsInjective(s), \A n \in DOMAIN s : s[n] # e
    PROVE  IsInjective(Append(s, e))
<1>1. DOMAIN s = 1 .. Len(s) /\ Len(s) \in Nat
  BY LenProperties
<1>2. /\ DOMAIN Append(s, e) = 1 .. Len(s) + 1
      /\ \A n \in 1 .. Len(s) : Append(s, e)[n] = s[n]
      /\ Append(s, e)[Len(s) + 1] = e
  BY AppendProperties, LenProperties
<1> QED
  BY <1>1, <1>2 DEF IsInjective
\* Removing an element keeps the order of the others.
LEMMA RemoveFirstKeepsOrder ==
    ASSUME NEW S, NEW s \in Seq(S), IsInjective(s), NEW e, \E n \in 1 .. Len(s) : s[n] = e,
           NEW j \in DOMAIN s, NEW k \in DOMAIN s, j < k,
           {s[j], s[k]} \subseteq Range(RemoveFirst(s, e))
    PROVE  \E m, n \in DOMAIN RemoveFirst(s, e) :
              /\ m < n
              /\ RemoveFirst(s, e)[m] = s[j]
              /\ RemoveFirst(s, e)[n] = s[k]
<1> DEFINE t == RemoveFirst(s, e)
<1>1. PICK x \in 1 .. Len(s) : s[x] = e /\ t = RemoveAt(s, x)
  BY RemoveFirstIsRemoveAt
<1> DEFINE p(n) == IF n < x THEN n ELSE n + 1
<1>2. DOMAIN s = 1 .. Len(s) /\ Len(s) \in Nat
  BY LenProperties
<1>3. /\ DOMAIN t = 1 .. Len(s) - 1
      /\ \A n \in 1 .. Len(s) - 1 : t[n] = s[p(n)]
  <2> HIDE DEF t
  <2>1. /\ t \in Seq(S)
        /\ Len(t) = Len(s) - 1
        /\ \A n \in 1 .. Len(s) - 1 : t[n] = IF n < x THEN s[n] ELSE s[n + 1]
    BY <1>1, RemoveAtProperties
  <2> QED
    BY <2>1, LenProperties
<1> HIDE DEF t
<1>4. PICK m \in DOMAIN t, n \in DOMAIN t : t[m] = s[j] /\ t[n] = s[k]
  <2>1. s[j] \in Range(t) /\ s[k] \in Range(t)
    BY DEF t
  <2> QED
    BY <2>1 DEF Range
<1>5. p(m) \in DOMAIN s /\ p(n) \in DOMAIN s
  BY <1>2, <1>3
<1>6. p(m) = j /\ p(n) = k
  <2> HIDE DEF p
  <2> QED
    BY <1>3, <1>4, <1>5 DEF IsInjective
<1>7. m < n
  BY <1>2, <1>3, <1>6
<1> QED
  BY <1>4, <1>7 DEF t

\* Removing an element of a sequence without repetitions takes it, and
\* nothing else, out of its range.
LEMMA RemoveFirstRange ==
    ASSUME NEW S, NEW s \in Seq(S), IsInjective(s), NEW e, \E n \in 1 .. Len(s) : s[n] = e
    PROVE  Range(RemoveFirst(s, e)) = Range(s) \ {e}
<1> DEFINE t == RemoveFirst(s, e)
<1>1. /\ Range(t) \subseteq Range(s)
      /\ \A n \in DOMAIN t : t[n] # e
  BY RemoveFirstProperties
<1>2. PICK x \in 1 .. Len(s) : s[x] = e /\ t = RemoveAt(s, x)
  BY RemoveFirstIsRemoveAt
<1>3. DOMAIN s = 1 .. Len(s) /\ Len(s) \in Nat
  BY LenProperties
<1> HIDE DEF t
<1>4. /\ DOMAIN t = 1 .. Len(s) - 1
      /\ \A n \in 1 .. Len(s) - 1 : t[n] = IF n < x THEN s[n] ELSE s[n + 1]
  BY <1>2, RemoveAtProperties, LenProperties
<1>5. ASSUME NEW n \in 1 .. Len(s), s[n] # e
      PROVE  \E m \in DOMAIN t : t[m] = s[n]
  <2>1. CASE n < x
    <3>1. n \in DOMAIN t /\ t[n] = s[n]
      BY <1>3, <1>4, <2>1
    <3> QED
      BY <3>1
  <2>2. CASE n > x
    <3>1. n - 1 \in DOMAIN t /\ t[n - 1] = s[n]
      BY <1>3, <1>4, <2>2
    <3> QED
      BY <3>1
  <2>3. n # x
    BY <1>2, <1>5
  <2> QED
    BY <1>3, <2>1, <2>2, <2>3
<1>6. \A v \in Range(s) : v # e => v \in Range(t)
  BY <1>3, <1>5 DEF Range
<1>7. \A v \in Range(t) : v # e
  BY <1>1 DEF Range
<1>8. Range(t) = Range(s) \ {e}
  BY <1>1, <1>6, <1>7
<1> QED
  BY <1>8 DEF t

\* Appending adds one element to the range.
LEMMA RangeOfAppend ==
    ASSUME NEW S, NEW s \in Seq(S), NEW e \in S
    PROVE  Range(Append(s, e)) = Range(s) \cup {e}
<1>1. DOMAIN s = 1 .. Len(s) /\ Len(s) \in Nat
  BY LenProperties
<1>2. /\ DOMAIN Append(s, e) = 1 .. Len(s) + 1
      /\ \A n \in 1 .. Len(s) : Append(s, e)[n] = s[n]
      /\ Append(s, e)[Len(s) + 1] = e
  BY AppendProperties, LenProperties
<1>3. \A n \in 1 .. Len(s) + 1 : n \in 1 .. Len(s) \/ n = Len(s) + 1
  BY <1>1
<1>4. 1 .. Len(s) \subseteq 1 .. Len(s) + 1 /\ Len(s) + 1 \in 1 .. Len(s) + 1
  BY <1>1
<1> QED
  BY <1>1, <1>2, <1>3, <1>4 DEF Range

=============================================================================
