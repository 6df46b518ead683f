------------------------- MODULE EventStream_proofs -------------------------
(***************************************************************************)
(* What a client shows is sound for every value of EventStream's constants *)
(* and whatever its environment does: however many sockets die, snapshots  *)
(* cross and messages are undone.                                          *)
(***************************************************************************)
EXTENDS EventStream, SequenceTheorems, WellFoundedInduction, TLAPS

(***************************************************************************)
(* The view's functions.                                                   *)
(***************************************************************************)

\* A set of numbers has a least one.
LEMMA LeastOf ==
  ASSUME NEW T, T \subseteq Nat, T # {}
  PROVE  \E k \in T : \A j \in T : k <= j
<1>1. PICK k \in T : \A j \in T : ~ <<j, k>> \in OpToRel(<, Nat)
  BY NatLessThanWellFounded, WFMin
<1>2. ASSUME NEW j \in T
      PROVE  k <= j
  <2>1. j \in Nat /\ k \in Nat
    OBVIOUS
  <2>2. ~ (j < k)
    BY <1>1, <2>1 DEF OpToRel
  <2>3. QED BY <2>1, <2>2
<1>3. QED BY <1>2

\* Without's recursion defines what it says.
KeptUpTo(messages, gone, N, g) ==
    g = [n \in 0..N |-> IF n = 0 THEN <<>>
                        ELSE IF messages[n] \in gone THEN g[n-1]
                        ELSE Append(g[n-1], messages[n])]

LEMMA KeptExists ==
  ASSUME NEW messages, NEW gone, NEW L \in Nat
  PROVE  \E g : KeptUpTo(messages, gone, L, g)
<1> DEFINE bad == {N \in 0..L : ~ \E g : KeptUpTo(messages, gone, N, g)}
<1>1. SUFFICES ASSUME bad # {}
               PROVE  FALSE
  OBVIOUS
<1>2. PICK N \in bad : \A j \in bad : N <= j
  <2>1. bad \subseteq Nat
    OBVIOUS
  <2> HIDE DEF bad
  <2>2. QED BY <1>1, <2>1, LeastOf
<1>3. N # 0
  <2>1. KeptUpTo(messages, gone, 0, [n \in 0..0 |-> <<>>])
    BY DEF KeptUpTo
  <2>2. QED BY <2>1
<1>4. PICK g : KeptUpTo(messages, gone, N-1, g)
  BY <1>2, <1>3
<1> DEFINE new == IF messages[N] \in gone THEN g[N-1] ELSE Append(g[N-1], messages[N])
           h == [n \in 0..N |-> IF n = N THEN new ELSE g[n]]
<1>5. ASSUME NEW n \in 0..N
      PROVE  h[n] = IF n = 0 THEN <<>>
                    ELSE IF messages[n] \in gone THEN h[n-1]
                    ELSE Append(h[n-1], messages[n])
  <2>1. CASE n = N
    BY <1>3, <2>1
  <2>2. CASE n # N
    <3>1. n \in 0..(N-1) /\ (n # 0 => n-1 \in 0..(N-1) /\ h[n-1] = g[n-1]) /\ h[n] = g[n]
      BY <2>2
    <3>2. g[n] = IF n = 0 THEN <<>>
                 ELSE IF messages[n] \in gone THEN g[n-1]
                 ELSE Append(g[n-1], messages[n])
      BY <1>4, <3>1 DEF KeptUpTo
    <3> HIDE DEF h
    <3>3. QED BY <3>1, <3>2
  <2>3. QED BY <2>1, <2>2
<1>6. KeptUpTo(messages, gone, N, h)
  <2>1. h = [n \in 0..N |-> h[n]]
    OBVIOUS
  <2> HIDE DEF h
  <2>2. QED BY <1>5, <2>1 DEF KeptUpTo
<1>7. QED BY <1>2, <1>6

\* filterRemoved keeps what is not gone, in its order.
LEMMA WithoutKept ==
  ASSUME NEW S, NEW messages \in Seq(S), NEW gone
  PROVE  \E g :
           /\ g[0] = <<>>
           /\ \A n \in 1..Len(messages) :
                 g[n] = IF messages[n] \in gone THEN g[n-1]
                                                ELSE Append(g[n-1], messages[n])
           /\ Without(messages, gone) =
                 IF gone = {} THEN messages ELSE g[Len(messages)]
<1> DEFINE g == CHOOSE g : KeptUpTo(messages, gone, Len(messages), g)
<1>1. Len(messages) \in Nat
  BY LenProperties
<1>2. KeptUpTo(messages, gone, Len(messages), g)
  BY <1>1, KeptExists
<1>3. Without(messages, gone) = IF gone = {} THEN messages ELSE g[Len(messages)]
  BY DEF Without, KeptUpTo
<1> HIDE DEF g
<1>4. ASSUME NEW n \in 0..Len(messages)
      PROVE  g[n] = IF n = 0 THEN <<>>
                    ELSE IF messages[n] \in gone THEN g[n-1]
                    ELSE Append(g[n-1], messages[n])
  BY <1>2 DEF KeptUpTo
<1>5. g[0] = <<>>
  BY <1>1, <1>4
<1>6. ASSUME NEW n \in 1..Len(messages)
      PROVE  g[n] = IF messages[n] \in gone THEN g[n-1]
                                             ELSE Append(g[n-1], messages[n])
  <2>1. n \in 0..Len(messages) /\ n # 0
    BY <1>1
  <2>2. QED BY <1>4, <2>1
<1>7. QED BY <1>3, <1>5, <1>6

\* What holds at 0, and of n when it holds of n - 1, holds up to L.
LEMMA UpTo ==
  ASSUME NEW L \in Nat, NEW T, 0 \in T, \A n \in 1..L : n-1 \in T => n \in T
  PROVE  \A n \in 0..L : n \in T
<1> DEFINE bad == {n \in 0..L : n \notin T}
<1>1. SUFFICES ASSUME bad # {}
               PROVE  FALSE
  OBVIOUS
<1>2. PICK n \in bad : \A j \in bad : n <= j
  <2>1. bad \subseteq Nat
    OBVIOUS
  <2> HIDE DEF bad
  <2>2. QED BY <1>1, <2>1, LeastOf
<1>3. n \in 1..L /\ n-1 \in 0..L /\ ~ (n <= n-1)
  BY <1>2
<1>4. n-1 \in T
  BY <1>2, <1>3
<1>5. QED BY <1>2, <1>3, <1>4

\* Joining sequences joins what is in them.
LEMMA ConcatOnce ==
  ASSUME NEW S, NEW s \in Seq(S), NEW t \in Seq(S)
  PROVE  /\ s \o t \in Seq(S)
         /\ Len(s \o t) = Len(s) + Len(t)
         /\ \A i \in DOMAIN s : i \in DOMAIN (s \o t) /\ (s \o t)[i] = s[i]
         /\ \A i \in DOMAIN t : /\ Len(s) + i \in DOMAIN (s \o t)
                                /\ (s \o t)[Len(s) + i] = t[i]
         /\ \A k \in DOMAIN (s \o t) : \/ k \in DOMAIN s
                                       \/ \E i \in DOMAIN t : k = Len(s) + i
         /\ ToSet(s \o t) = ToSet(s) \cup ToSet(t)
         /\ IsInjective(s) /\ IsInjective(t) /\ ToSet(s) \cap ToSet(t) = {}
              => IsInjective(s \o t)
<1> DEFINE u == s \o t
<1>1. /\ u \in Seq(S) /\ Len(u) = Len(s) + Len(t)
      /\ \A i \in 1..Len(s) : u[i] = s[i]
      /\ \A i \in 1..Len(t) : u[Len(s) + i] = t[i]
  BY ConcatProperties
<1>2. /\ Len(s) \in Nat /\ Len(t) \in Nat /\ DOMAIN s = 1..Len(s) /\ DOMAIN t = 1..Len(t)
      /\ DOMAIN u = 1..(Len(s) + Len(t))
  BY <1>1, LenProperties
<1> HIDE DEF u
<1>3. \A i \in DOMAIN s : i \in DOMAIN u /\ u[i] = s[i]
  BY <1>1, <1>2
<1>4. \A i \in DOMAIN t : Len(s) + i \in DOMAIN u /\ u[Len(s) + i] = t[i]
  BY <1>1, <1>2
<1>5. ASSUME NEW k \in DOMAIN u
      PROVE  k \in DOMAIN s \/ \E i \in DOMAIN t : k = Len(s) + i
  <2>1. CASE k <= Len(s)
    BY <1>2, <2>1
  <2>2. CASE ~ (k <= Len(s))
    <3>1. k - Len(s) \in DOMAIN t /\ k = Len(s) + (k - Len(s))
      BY <1>2, <2>2
    <3>2. QED BY <3>1
  <2>3. QED BY <2>1, <2>2
<1>6. ToSet(u) = ToSet(s) \cup ToSet(t)
  <2>1. ASSUME NEW x \in ToSet(u)
        PROVE  x \in ToSet(s) \cup ToSet(t)
    <3>1. PICK k \in DOMAIN u : x = u[k]
      BY <2>1 DEF ToSet
    <3>2. QED BY <1>3, <1>4, <1>5, <3>1 DEF ToSet
  <2>2. ToSet(s) \subseteq ToSet(u)
    BY <1>3 DEF ToSet
  <2>3. ToSet(t) \subseteq ToSet(u)
    BY <1>4 DEF ToSet
  <2>4. QED BY <2>1, <2>2, <2>3
<1>7. ASSUME IsInjective(s), IsInjective(t), ToSet(s) \cap ToSet(t) = {}
      PROVE  IsInjective(u)
  <2>1. \A i \in DOMAIN s, j \in DOMAIN t : s[i] # t[j]
    BY <1>7 DEF ToSet
  <2>2. ASSUME NEW a \in DOMAIN u, NEW b \in DOMAIN u, u[a] = u[b]
        PROVE  a = b
    <3>1. CASE a \in DOMAIN s /\ b \in DOMAIN s
      BY <1>3, <1>7, <2>2, <3>1 DEF IsInjective
    <3>2. CASE a \in DOMAIN s /\ \E j \in DOMAIN t : b = Len(s) + j
      BY <1>3, <1>4, <2>1, <2>2, <3>2
    <3>3. CASE b \in DOMAIN s /\ \E j \in DOMAIN t : a = Len(s) + j
      BY <1>3, <1>4, <2>1, <2>2, <3>3
    <3>4. ASSUME NEW i \in DOMAIN t, NEW j \in DOMAIN t, a = Len(s) + i, b = Len(s) + j
          PROVE  a = b
      BY <1>4, <1>7, <2>2, <3>4 DEF IsInjective
    <3>5. QED BY <1>5, <3>1, <3>2, <3>3, <3>4
  <2>3. QED BY <2>2 DEF IsInjective
<1>8. QED BY <1>1, <1>3, <1>4, <1>5, <1>6, <1>7 DEF u

\* A sequence of one.
LEMMA OneOnce ==
  ASSUME NEW S, NEW e \in S
  PROVE  /\ <<e>> \in Seq(S) /\ ToSet(<<e>>) = {e} /\ IsInjective(<<e>>)
         /\ Len(<<e>>) = 1 /\ DOMAIN <<e>> = {1} /\ <<e>>[1] = e
<1>1. DOMAIN <<e>> = {1} /\ <<e>>[1] = e /\ <<e>> \in Seq(S) /\ Len(<<e>>) = 1
  OBVIOUS
<1>2. QED BY <1>1 DEF ToSet, IsInjective

\* The empty sequence.
LEMMA NoneOnce ==
  \A S : /\ <<>> \in Seq(S) /\ ToSet(<<>>) = {} /\ IsInjective(<<>>)
         /\ DOMAIN <<>> = {} /\ Len(<<>>) = 0
<1>1. DOMAIN <<>> = {}
  OBVIOUS
<1>2. QED BY <1>1 DEF ToSet, IsInjective

\* Appending.
LEMMA AppendOnce ==
  ASSUME NEW S, NEW s \in Seq(S), NEW e \in S
  PROVE  /\ Append(s, e) \in Seq(S)
         /\ ToSet(Append(s, e)) = ToSet(s) \cup {e}
         /\ IsInjective(s) /\ e \notin ToSet(s) => IsInjective(Append(s, e))
<1> DEFINE one == <<e>>
<1>1. Append(s, e) = s \o one
  BY AppendIsConcat
<1>2. one \in Seq(S) /\ ToSet(one) = {e} /\ IsInjective(one)
  BY OneOnce
<1> HIDE DEF one
<1>3. /\ s \o one \in Seq(S)
      /\ ToSet(s \o one) = ToSet(s) \cup ToSet(one)
      /\ IsInjective(s) /\ ToSet(s) \cap ToSet(one) = {} => IsInjective(s \o one)
  BY <1>2, ConcatOnce
<1>4. QED BY <1>1, <1>2, <1>3

\* Parts of a sequence.
LEMMA SubOnce ==
  ASSUME NEW S, NEW s \in Seq(S), NEW a \in 1..(Len(s) + 1), NEW b \in 0..Len(s)
  PROVE  /\ SubSeq(s, a, b) \in Seq(S)
         /\ ToSet(SubSeq(s, a, b)) = {s[k] : k \in a..b}
         /\ IsInjective(s) => IsInjective(SubSeq(s, a, b))
<1> DEFINE u == SubSeq(s, a, b)
<1>1. Len(s) \in Nat /\ DOMAIN s = 1..Len(s)
  BY LenProperties
<1>2. /\ u \in Seq(S)
      /\ Len(u) = IF a <= b THEN b - a + 1 ELSE 0
      /\ \A i \in 1..(b - a + 1) : u[i] = s[a + i - 1]
  BY <1>1, SubSeqProperties
<1>3. DOMAIN u = 1..(b - a + 1)
  BY <1>1, <1>2, LenProperties
<1> HIDE DEF u
<1>4. ToSet(u) = {s[k] : k \in a..b}
  <2>1. ASSUME NEW k \in a..b
        PROVE  s[k] \in ToSet(u)
    <3>1. k - a + 1 \in DOMAIN u /\ a + (k - a + 1) - 1 = k
      BY <1>1, <1>3
    <3>2. u[k - a + 1] = s[k]
      BY <1>2, <1>3, <3>1
    <3>3. QED BY <3>1, <3>2 DEF ToSet
  <2>2. ASSUME NEW i \in DOMAIN u
        PROVE  u[i] \in {s[k] : k \in a..b}
    <3>1. a + i - 1 \in a..b
      BY <1>1, <1>3
    <3>2. QED BY <1>2, <1>3, <3>1
  <2>3. QED BY <2>1, <2>2 DEF ToSet
<1>5. ASSUME IsInjective(s), NEW i \in DOMAIN u, NEW j \in DOMAIN u, u[i] = u[j]
      PROVE  i = j
  <2>1. a + i - 1 \in DOMAIN s /\ a + j - 1 \in DOMAIN s
    BY <1>1, <1>3
  <2>2. s[a + i - 1] = s[a + j - 1]
    BY <1>2, <1>3, <1>5
  <2>3. a + i - 1 = a + j - 1
    BY <1>5, <2>1, <2>2 DEF IsInjective
  <2>4. QED BY <1>1, <1>3, <2>3
<1>6. QED BY <1>2, <1>4, <1>5 DEF IsInjective, u

\* filterRemoved and messages_truncated: nothing that is gone is left, nothing
\* is new and nothing is there twice.
LEMMA WithoutOnce ==
  ASSUME NEW S, NEW messages \in Seq(S), NEW gone
  PROVE  /\ Without(messages, gone) \in Seq(S)
         /\ ToSet(Without(messages, gone)) \subseteq ToSet(messages) \ gone
         /\ IsInjective(messages) => IsInjective(Without(messages, gone))
<1>1. Len(messages) \in Nat /\ DOMAIN messages = 1..Len(messages)
  BY LenProperties
<1>2. PICK g :
        /\ g[0] = <<>>
        /\ \A n \in 1..Len(messages) :
              g[n] = IF messages[n] \in gone THEN g[n-1]
                                             ELSE Append(g[n-1], messages[n])
        /\ Without(messages, gone) =
              IF gone = {} THEN messages ELSE g[Len(messages)]
  BY WithoutKept
<1> DEFINE Kept(n) == /\ g[n] \in Seq(S)
                      /\ ToSet(g[n]) \subseteq {messages[i] : i \in 1..n} \ gone
                      /\ IsInjective(messages) => IsInjective(g[n])
           T == {n \in 0..Len(messages) : Kept(n)}
<1>3. 0 \in T
  <2>1. Kept(0)
    BY <1>2, NoneOnce
  <2>2. QED BY <1>1, <2>1
<1>4. ASSUME NEW n \in 1..Len(messages), n-1 \in T
      PROVE  n \in T
  <2>1. n \in 0..Len(messages) /\ n \in DOMAIN messages /\ Kept(n-1)
    BY <1>1, <1>4
  <2>2. \A i \in 1..(n-1) : i \in 1..n /\ i \in DOMAIN messages /\ i # n
    BY <1>1
  <2>3. n \in 1..n /\ messages[n] \in S
    BY <1>1, <2>1, ElementOfSeq
  <2>4. CASE messages[n] \in gone
    BY <1>2, <2>1, <2>2, <2>4
  <2>5. CASE messages[n] \notin gone
    <3>1. g[n] = Append(g[n-1], messages[n])
      BY <1>2, <2>5
    <3>2. IsInjective(messages) => messages[n] \notin ToSet(g[n-1])
      BY <2>1, <2>2 DEF IsInjective
    <3>3. g[n-1] \in Seq(S)
      BY <2>1
    <3>4. /\ g[n] \in Seq(S) /\ ToSet(g[n]) = ToSet(g[n-1]) \cup {messages[n]}
          /\ IsInjective(g[n-1]) /\ messages[n] \notin ToSet(g[n-1]) => IsInjective(g[n])
      BY <2>3, <3>1, <3>3, AppendOnce
    <3>5. QED BY <2>1, <2>2, <2>3, <2>5, <3>2, <3>4
  <2>6. QED BY <2>4, <2>5
<1>5. Len(messages) \in T
  <2> HIDE DEF T
  <2>1. Len(messages) \in 0..Len(messages)
    BY <1>1
  <2>2. \A n \in 1..Len(messages) : n-1 \in T => n \in T
    BY <1>4
  <2>3. QED BY <1>1, <1>3, <2>1, <2>2, UpTo
<1>6. {messages[i] : i \in 1..Len(messages)} = ToSet(messages)
  BY <1>1 DEF ToSet
<1>7. CASE gone = {}
  BY <1>2, <1>7
<1>8. CASE gone # {}
  BY <1>2, <1>5, <1>6, <1>8
<1>9. QED BY <1>7, <1>8

\* So does Merged's.
PlacedUpTo(have, page, N, g) ==
    g = [n \in 0..N |-> IF n = 0 THEN [out |-> <<>>, new |-> <<>>, next |-> 1]
                        ELSE Placed(have, g[n-1], page[n])]

LEMMA PlacedExists ==
  ASSUME NEW have, NEW page, NEW L \in Nat
  PROVE  \E g : PlacedUpTo(have, page, L, g)
<1> DEFINE T == {N \in 0..L : \E g : PlacedUpTo(have, page, N, g)}
           first == [out |-> <<>>, new |-> <<>>, next |-> 1]
<1>1. 0 \in T
  <2>1. PlacedUpTo(have, page, 0, [n \in 0..0 |-> first])
    BY DEF PlacedUpTo
  <2>2. QED BY <2>1
<1>2. ASSUME NEW N \in 1..L, N-1 \in T
      PROVE  N \in T
  <2>1. PICK g : PlacedUpTo(have, page, N-1, g)
    BY <1>2
  <2> DEFINE new == Placed(have, g[N-1], page[N])
             h == [n \in 0..N |-> IF n = N THEN new ELSE g[n]]
  <2> HIDE DEF first, new
  <2>2. ASSUME NEW n \in 0..N
        PROVE  h[n] = IF n = 0 THEN first ELSE Placed(have, h[n-1], page[n])
    <3>1. CASE n = N
      <4>1. h[n] = new /\ n # 0 /\ h[n-1] = g[N-1]
        BY <3>1
      <4> HIDE DEF h
      <4>2. QED BY <3>1, <4>1 DEF new
    <3>2. CASE n # N
      <4>1. n \in 0..(N-1) /\ (n # 0 => n-1 \in 0..(N-1) /\ h[n-1] = g[n-1]) /\ h[n] = g[n]
        BY <3>2
      <4>2. g[n] = IF n = 0 THEN first ELSE Placed(have, g[n-1], page[n])
        BY <2>1, <4>1 DEF PlacedUpTo, first
      <4> HIDE DEF h
      <4>3. QED BY <4>1, <4>2
    <3>3. QED BY <3>1, <3>2
  <2>3. PlacedUpTo(have, page, N, h)
    <3>1. h = [n \in 0..N |-> h[n]]
      OBVIOUS
    <3> HIDE DEF h
    <3>2. QED BY <2>2, <3>1 DEF PlacedUpTo, first
  <2>4. N \in 0..L
    OBVIOUS
  <2>5. QED BY <2>3, <2>4
<1> HIDE DEF T
<1>3. \A N \in 1..L : N-1 \in T => N \in T
  BY <1>2
<1>4. L \in T
  BY <1>1, <1>3, UpTo
<1>5. QED BY <1>4 DEF T

\* mergeNewestWindow places one message of the page after the other.
MergeSteps(have, page, g) ==
    /\ g[0] = [out |-> <<>>, new |-> <<>>, next |-> 1]
    /\ \A n \in 1..Len(page) : g[n] = Placed(have, g[n-1], page[n])
    /\ Merged(have, page) =
         IF page = <<>> THEN have
         ELSE IF ToSet(have) \cap ToSet(page) = {} THEN page
         ELSE g[Len(page)].out
                \o SubSeq(have, g[Len(page)].next, Len(have))
                \o g[Len(page)].new

LEMMA MergedPlaces ==
  ASSUME NEW S, NEW have, NEW page \in Seq(S)
  PROVE  \E g : MergeSteps(have, page, g)
<1> DEFINE g == CHOOSE g : PlacedUpTo(have, page, Len(page), g)
<1>1. Len(page) \in Nat
  BY LenProperties
<1>2. PlacedUpTo(have, page, Len(page), g)
  BY <1>1, PlacedExists
<1>3. Merged(have, page) =
        IF page = <<>> THEN have
        ELSE IF ToSet(have) \cap ToSet(page) = {} THEN page
        ELSE g[Len(page)].out
               \o SubSeq(have, g[Len(page)].next, Len(have))
               \o g[Len(page)].new
  BY DEF Merged, PlacedUpTo
<1> HIDE DEF g
<1>4. ASSUME NEW n \in 0..Len(page)
      PROVE  g[n] = IF n = 0 THEN [out |-> <<>>, new |-> <<>>, next |-> 1]
                    ELSE Placed(have, g[n-1], page[n])
  BY <1>2 DEF PlacedUpTo
<1>5. g[0] = [out |-> <<>>, new |-> <<>>, next |-> 1]
  BY <1>1, <1>4
<1>6. ASSUME NEW n \in 1..Len(page)
      PROVE  g[n] = Placed(have, g[n-1], page[n])
  <2>1. n \in 0..Len(page) /\ n # 0
    BY <1>1
  <2>2. QED BY <1>4, <2>1
<1>7. QED BY <1>3, <1>5, <1>6 DEF MergeSteps

\* What is placed is the view up to some message and new messages of the page;
\* what waits are new messages of the page that are not placed.
Acc(S) == [out : Seq(S), new : Seq(S), next : Nat]
PlacedWell(S, have, page, n, acc) ==
    /\ acc \in Acc(S) /\ acc.next \in 1..(Len(have) + 1)
    /\ ToSet(acc.out) \subseteq {have[k] : k \in 1..(acc.next - 1)}
                                \cup ({page[k] : k \in 1..n} \ ToSet(have))
    /\ ToSet(acc.new) \subseteq {page[k] : k \in 1..n} \ ToSet(have)
    /\ ToSet(acc.out) \cap ToSet(acc.new) = {}
    /\ IsInjective(acc.out) /\ IsInjective(acc.new)

LEMMA PlacedOnce ==
  ASSUME NEW S, NEW have \in Seq(S), NEW page \in Seq(S),
         IsInjective(have), IsInjective(page),
         NEW n \in 1..Len(page), NEW acc, PlacedWell(S, have, page, n-1, acc)
  PROVE  PlacedWell(S, have, page, n, Placed(have, acc, page[n]))
<1> DEFINE m == page[n]
           out == acc.out
           new == acc.new
           next == acc.next
           at == CHOOSE i \in DOMAIN have : have[i] = m
           before == {page[k] : k \in 1..(n-1)}
           upto == {page[k] : k \in 1..n}
<1>1. /\ Len(page) \in Nat /\ DOMAIN page = 1..Len(page)
      /\ Len(have) \in Nat /\ DOMAIN have = 1..Len(have)
  BY LenProperties
<1>2. /\ acc = [out |-> out, new |-> new, next |-> next]
      /\ out \in Seq(S) /\ new \in Seq(S) /\ next \in 1..(Len(have) + 1)
      /\ ToSet(out) \subseteq {have[k] : k \in 1..(next - 1)} \cup (before \ ToSet(have))
      /\ ToSet(new) \subseteq before \ ToSet(have)
      /\ ToSet(out) \cap ToSet(new) = {} /\ IsInjective(out) /\ IsInjective(new)
  BY DEF PlacedWell, Acc
<1>3. m \in S /\ n \in DOMAIN page
  BY <1>1, ElementOfSeq
<1>4. upto = before \cup {m}
  <2>1. 1..n = 1..(n-1) \cup {n}
    BY <1>1
  <2>2. QED BY <2>1
<1>5. m \notin before
  <2>1. \A k \in 1..(n-1) : k \in DOMAIN page /\ k # n
    BY <1>1
  <2>2. QED BY <1>3, <2>1 DEF IsInjective
<1> HIDE DEF m, out, new, next, before, upto
<1>6. Contains(have, m) <=> m \in ToSet(have)
  BY <1>1 DEF Contains, ToSet
<1>7. Placed(have, acc, m) =
        IF ~ Contains(have, m) THEN [out |-> out, new |-> Append(new, m), next |-> next]
        ELSE IF at < next THEN acc
        ELSE [out |-> out \o SubSeq(have, next, at - 1) \o new \o <<m>>,
              new |-> <<>>, next |-> at + 1]
  <2>1. acc.out = out /\ acc.new = new /\ acc.next = next
    BY DEF out, new, next
  <2>2. [acc EXCEPT !.new = Append(@, m)] = [out |-> out, new |-> Append(new, m), next |-> next]
    <3>1. \A o, w, x, v : [[out |-> o, new |-> w, next |-> x] EXCEPT !.new = v]
                             = [out |-> o, new |-> v, next |-> x]
      OBVIOUS
    <3>2. acc = [out |-> out, new |-> new, next |-> next] /\ acc.new = new
      BY <1>2, <2>1
    <3>3. QED BY <3>1, <3>2
  <2>3. QED BY <2>1, <2>2 DEF Placed
<1>8. SUFFICES PlacedWell(S, have, page, n, Placed(have, acc, m))
  BY DEF m
<1>9. SUFFICES ASSUME NEW o, NEW w, NEW x,
                      Placed(have, acc, m) = [out |-> o, new |-> w, next |-> x]
               PROVE  /\ o \in Seq(S) /\ w \in Seq(S) /\ x \in 1..(Len(have) + 1)
                      /\ ToSet(o) \subseteq {have[k] : k \in 1..(x - 1)} \cup (upto \ ToSet(have))
                      /\ ToSet(w) \subseteq upto \ ToSet(have)
                      /\ ToSet(o) \cap ToSet(w) = {} /\ IsInjective(o) /\ IsInjective(w)
  <2>1. \E o, w, x : Placed(have, acc, m) = [out |-> o, new |-> w, next |-> x]
    <3>1. CASE ~ Contains(have, m)
      BY <1>7, <3>1
    <3>2. CASE Contains(have, m) /\ at < next
      BY <1>2, <1>7, <3>2
    <3>3. CASE Contains(have, m) /\ ~ (at < next)
      BY <1>7, <3>3
    <3>4. QED BY <3>1, <3>2, <3>3
  <2>2. PICK o, w, x : Placed(have, acc, m) = [out |-> o, new |-> w, next |-> x]
    BY <2>1
  <2>3. /\ o \in Seq(S) /\ w \in Seq(S) /\ x \in 1..(Len(have) + 1)
        /\ ToSet(o) \subseteq {have[k] : k \in 1..(x - 1)} \cup (upto \ ToSet(have))
        /\ ToSet(w) \subseteq upto \ ToSet(have)
        /\ ToSet(o) \cap ToSet(w) = {} /\ IsInjective(o) /\ IsInjective(w)
    BY <2>2, <1>9
  <2>4. x \in Nat
    BY <1>1, <2>3
  <2>5. QED BY <2>2, <2>3, <2>4 DEF PlacedWell, Acc, upto
<1>10. CASE ~ Contains(have, m)
  <2>1. o = out /\ w = Append(new, m) /\ x = next
    BY <1>7, <1>9, <1>10
  <2>2. m \notin ToSet(new)
    BY <1>2, <1>5
  <2>3. /\ w \in Seq(S) /\ ToSet(w) = ToSet(new) \cup {m} /\ IsInjective(w)
    BY <1>2, <1>3, <2>1, <2>2, AppendOnce
  <2>4. m \notin ToSet(have)
    BY <1>6, <1>10
  <2>5. m \notin ToSet(out)
    <3>1. \A k \in 1..(next-1) : have[k] \in ToSet(have)
      <4>1. \A k \in 1..(next-1) : k \in DOMAIN have
        BY <1>1, <1>2
      <4>2. QED BY <4>1 DEF ToSet
    <3>2. QED BY <1>2, <1>5, <2>4, <3>1
  <2>6. QED BY <1>2, <1>4, <2>1, <2>3, <2>4, <2>5
<1>11. CASE Contains(have, m) /\ at < next
  <2>1. o = out /\ w = new /\ x = next
    BY <1>2, <1>7, <1>9, <1>11
  <2>2. QED BY <1>2, <1>4, <2>1
<1>12. CASE Contains(have, m) /\ ~ (at < next)
  <2> DEFINE mid == SubSeq(have, next, at - 1)
             one == <<m>>
  <2>1. o = ((out \o mid) \o new) \o one /\ w = <<>> /\ x = at + 1
    <3> HIDE DEF at
    <3>1. Placed(have, acc, m) =
            [out |-> ((out \o mid) \o new) \o one, new |-> <<>>, next |-> at + 1]
      BY <1>7, <1>12
    <3> HIDE DEF mid, one
    <3>2. QED BY <1>9, <3>1
  <2>2. at \in DOMAIN have /\ have[at] = m
    BY <1>6, <1>12 DEF ToSet
  <2> HIDE DEF at
  <2>3. at \in 1..Len(have) /\ at - 1 \in 0..Len(have) /\ next <= at /\ next \in Nat
    BY <1>1, <1>2, <1>12, <2>2
  <2>4. /\ mid \in Seq(S) /\ ToSet(mid) = {have[k] : k \in next..(at-1)} /\ IsInjective(mid)
    BY <1>2, <2>3, SubOnce
  <2>5. one \in Seq(S) /\ ToSet(one) = {m} /\ IsInjective(one)
    BY <1>3, OneOnce
  <2> HIDE DEF mid, one
  <2>6. \A k \in 1..(next-1) : k \in DOMAIN have /\ have[k] \in ToSet(have) /\ k < next
    <3>1. \A k \in 1..(next-1) : k \in DOMAIN have /\ k < next
      BY <1>1, <1>2
    <3>2. QED BY <3>1 DEF ToSet
  <2>7. \A k \in next..(at-1) : k \in DOMAIN have /\ have[k] \in ToSet(have) /\ ~(k < next) /\ k < at
    <3>1. \A k \in next..(at-1) : k \in DOMAIN have /\ ~(k < next) /\ k < at
      BY <1>1, <1>2, <2>3
    <3>2. QED BY <3>1 DEF ToSet
  <2>8. ToSet(out) \cap ToSet(mid) = {}
    BY <1>2, <2>4, <2>6, <2>7 DEF IsInjective
  <2>9. /\ out \o mid \in Seq(S) /\ IsInjective(out \o mid)
        /\ ToSet(out \o mid) = ToSet(out) \cup ToSet(mid)
    BY <1>2, <2>4, <2>8, ConcatOnce
  <2> DEFINE first == out \o mid
  <2> HIDE DEF first
  <2>10. ToSet(first) \cap ToSet(new) = {}
    BY <1>2, <2>4, <2>7, <2>9 DEF first
  <2>11. /\ first \o new \in Seq(S) /\ IsInjective(first \o new)
         /\ ToSet(first \o new) = ToSet(first) \cup ToSet(new)
    <3>1. first \in Seq(S) /\ IsInjective(first)
      BY <2>9 DEF first
    <3>2. QED BY <1>2, <2>10, <3>1, ConcatOnce
  <2> DEFINE all == first \o new
  <2> HIDE DEF all
  <2>12. m \in ToSet(have)
    BY <2>2 DEF ToSet
  <2>13. m \notin {have[k] : k \in 1..(next-1)} /\ m \notin ToSet(mid)
    <3>1. \A k \in DOMAIN have : have[k] = m => k = at
      BY <2>2 DEF IsInjective
    <3>2. at \notin 1..(next-1) /\ at \notin next..(at-1)
      BY <2>3
    <3>3. QED BY <2>4, <2>6, <2>7, <3>1, <3>2
  <2>14. ToSet(all) \cap ToSet(one) = {}
    BY <1>2, <2>5, <2>9, <2>11, <2>12, <2>13 DEF all, first
  <2>15. /\ all \o one \in Seq(S) /\ IsInjective(all \o one)
         /\ ToSet(all \o one) = ToSet(all) \cup ToSet(one)
    <3>1. all \in Seq(S) /\ IsInjective(all)
      BY <2>11 DEF all
    <3>2. QED BY <2>5, <2>14, <3>1, ConcatOnce
  <2>16. o = all \o one
    BY <2>1 DEF all, first
  <2>17. {have[k] : k \in 1..(next-1)} \cup ToSet(mid) \cup {m}
           = {have[k] : k \in 1..(x - 1)}
    <3>1. 1..(x - 1) = 1..(next-1) \cup next..(at-1) \cup {at}
      BY <2>1, <2>3, <1>1, <1>2
    <3>2. QED BY <2>2, <2>4, <3>1
  <2>18. ToSet(o) = ToSet(out) \cup ToSet(mid) \cup ToSet(new) \cup {m}
    BY <2>5, <2>9, <2>11, <2>15, <2>16 DEF all, first
  <2>19. ToSet(o) \subseteq {have[k] : k \in 1..(x - 1)} \cup (upto \ ToSet(have))
    BY <1>2, <1>4, <2>17, <2>18
  <2>20. w \in Seq(S) /\ ToSet(w) = {} /\ IsInjective(w)
    BY <2>1, NoneOnce
  <2>21. x \in 1..(Len(have) + 1)
    BY <1>1, <2>1, <2>3
  <2>22. QED BY <2>15, <2>16, <2>19, <2>20, <2>21
<1>13. QED BY <1>10, <1>11, <1>12

\* The view after a page was merged holds nothing twice.
LEMMA MergedOnce ==
  ASSUME NEW S, NEW have \in Seq(S), NEW page \in Seq(S),
         IsInjective(have), IsInjective(page)
  PROVE  Merged(have, page) \in Seq(S) /\ IsInjective(Merged(have, page))
<1>1. /\ Len(page) \in Nat /\ DOMAIN page = 1..Len(page)
      /\ Len(have) \in Nat /\ DOMAIN have = 1..Len(have)
  BY LenProperties
<1>2. PICK g : MergeSteps(have, page, g)
  BY MergedPlaces
<1> DEFINE T == {n \in 0..Len(page) : PlacedWell(S, have, page, n, g[n])}
<1>3. 0 \in T
  <2>1. g[0].out = <<>> /\ g[0].new = <<>> /\ g[0].next = 1 /\ g[0] \in Acc(S)
    BY <1>2, NoneOnce DEF Acc, MergeSteps
  <2>2. PlacedWell(S, have, page, 0, g[0])
    BY <1>1, <2>1, NoneOnce DEF PlacedWell
  <2>3. QED BY <1>1, <2>2
<1>4. ASSUME NEW n \in 1..Len(page), n-1 \in T
      PROVE  n \in T
  <2>1. PlacedWell(S, have, page, n, Placed(have, g[n-1], page[n]))
    BY <1>4, PlacedOnce
  <2>2. n \in 0..Len(page)
    BY <1>1
  <2>3. QED BY <1>2, <2>1, <2>2 DEF MergeSteps
<1>5. PlacedWell(S, have, page, Len(page), g[Len(page)])
  <2> HIDE DEF T
  <2>1. \A n \in 1..Len(page) : n-1 \in T => n \in T
    BY <1>4
  <2>2. Len(page) \in 0..Len(page)
    BY <1>1
  <2>3. Len(page) \in T
    BY <1>1, <1>3, <2>1, <2>2, UpTo
  <2>4. QED BY <2>3 DEF T
<1> DEFINE all == g[Len(page)]
           out == all.out
           new == all.new
           next == all.next
           rest == SubSeq(have, next, Len(have))
<1>6. /\ out \in Seq(S) /\ new \in Seq(S) /\ next \in 1..(Len(have) + 1)
      /\ ToSet(out) \subseteq {have[k] : k \in 1..(next - 1)}
                              \cup ({page[k] : k \in 1..Len(page)} \ ToSet(have))
      /\ ToSet(new) \cap ToSet(have) = {}
      /\ ToSet(out) \cap ToSet(new) = {} /\ IsInjective(out) /\ IsInjective(new)
  BY <1>5 DEF PlacedWell, Acc
<1>7. Merged(have, page) \in {have, page, out \o rest \o new}
  BY <1>2 DEF MergeSteps
<1> HIDE DEF all, out, new, next
<1>8. rest \in Seq(S) /\ ToSet(rest) = {have[k] : k \in next..Len(have)} /\ IsInjective(rest)
  <2>1. Len(have) \in 0..Len(have)
    BY <1>1
  <2>2. QED BY <1>6, <2>1, SubOnce
<1> HIDE DEF rest
<1>9. ToSet(out) \cap ToSet(rest) = {}
  <2>1. \A k \in 1..(next-1) : k \in DOMAIN have /\ k < next
    BY <1>1, <1>6
  <2>2. \A k \in next..Len(have) :
           k \in DOMAIN have /\ have[k] \in ToSet(have) /\ ~ (k < next)
    BY <1>1, <1>6 DEF ToSet
  <2>3. QED BY <1>6, <1>8, <2>1, <2>2 DEF IsInjective
<1>10. /\ out \o rest \in Seq(S) /\ IsInjective(out \o rest)
       /\ ToSet(out \o rest) = ToSet(out) \cup ToSet(rest)
  BY <1>6, <1>8, <1>9, ConcatOnce
<1> DEFINE both == out \o rest
<1> HIDE DEF both
<1>11. ToSet(both) \cap ToSet(new) = {}
  <2>1. ToSet(rest) \subseteq ToSet(have)
    <3>1. \A k \in next..Len(have) : k \in DOMAIN have
      BY <1>1, <1>6
    <3>2. QED BY <1>8, <3>1 DEF ToSet
  <2>2. QED BY <1>6, <1>10, <2>1 DEF both
<1>12. both \o new \in Seq(S) /\ IsInjective(both \o new)
  BY <1>6, <1>10, <1>11, ConcatOnce DEF both
<1>13. QED BY <1>7, <1>12 DEF both

(***************************************************************************)
(* The invariant.                                                          *)
(***************************************************************************)
Panels == {"none", "running", "finished"}

\* What is on the wire.
Frames ==
    [type : {"start", "begin", "end"}, rev : Nat]
    \cup [type : {"message"}, rev : Nat, message : Messages, turn : Nat]
    \cup [type : {"checkpoint"}, rev : Nat, message : Messages, before : Messages]
    \cup [type : {"truncated"}, rev : Nat, removed : SUBSET Messages]
    \cup [type : {"task"}, rev : Nat, status : {"running", "finished"}]
    \cup [type : {"delta"}, rev : Nat, text : Seq(Nat)]

Views == [messages : Seq(Messages), removed : SUBSET Messages,
          run : {"idle", "running", "ended"}, text : Seq(Nat), panel : Panels]

Reads == [at : {"snapshot", "panels", "apply"}, ok : BOOLEAN,
          messages : Seq(Messages), running : BOOLEAN, rev : Nat,
          panel : Panels, moved : BOOLEAN]

SessionTypes ==
    /\ transcript \in Seq(Messages) /\ steers \in Seq(Messages)
    /\ running \in BOOLEAN /\ writing \in BOOLEAN /\ (writing => running)
    /\ rev \in 0 .. MaxRev /\ turn \in 0 .. rev /\ stamps \in 0 .. MaxMsgs
    /\ panel \in Panels

LinkTypes ==
    /\ socket \in {"opening", "up", "dead", "down"}
    /\ wire \in Seq(Frames) /\ batch \in [text : Seq(Nat), rev : Nat]
    /\ socket \in {"dead", "down"} => wire = <<>> /\ batch = NoText

ClientTypes ==
    /\ view \in Views /\ pending \in Seq(Nat) /\ known \in 0 .. rev
    /\ told \in Nat

ReadTypes ==
    /\ syncs \in Seq(Reads) /\ Len(syncs) <= MaxSyncs
    /\ probe \in 0 .. rev \cup {Idle} /\ drops \in 0 .. MaxDrops

\* A revision that is somewhere was counted.
RevsAreCounted ==
    /\ \A i \in DOMAIN wire : wire[i].rev \in 1 .. rev
    /\ batch.text # <<>> => batch.rev \in 1 .. rev
    /\ \A i \in DOMAIN syncs : syncs[i].rev <= rev

\* A message is stored once, in the transcript or behind the running answer, and
\* so in every page that was read of it.
StoredOnce ==
    /\ IsInjective(transcript) /\ IsInjective(steers)
    /\ ToSet(transcript) \cap ToSet(steers) = {}
    /\ ToSet(transcript) \cup ToSet(steers) \subseteq 1 .. stamps
    /\ \A i \in DOMAIN syncs : IsInjective(syncs[i].messages)

\* The view has a tombstone for what it heard undone, and nothing on the wire
\* brings back what was undone before.
UndoneIsKnown ==
    /\ undone = view.removed /\ view.removed \subseteq 1 .. stamps
    /\ ToSet(view.messages) \cap view.removed = {}
    /\ \A i \in DOMAIN wire :
          wire[i].type = "truncated" => wire[i].removed \subseteq 1 .. stamps
    /\ \A j \in DOMAIN wire : wire[j].type \in {"message", "checkpoint"} =>
          /\ wire[j].message \notin view.removed
          /\ \A i \in 1 .. (j-1) :
                wire[i].type = "truncated" => wire[j].message \notin wire[i].removed

\* Text is of an answer whose end is behind it, wherever text and end are.
TextIsAhead ==
    /\ \A k \in DOMAIN pending : pending[k] > told
    /\ \A j \in DOMAIN wire : wire[j].type = "delta" =>
          \A k \in DOMAIN wire[j].text :
             /\ wire[j].text[k] > told
             /\ \A i \in 1 .. (j-1) :
                   wire[i].type = "message" => wire[j].text[k] > wire[i].turn
    /\ \A k \in DOMAIN batch.text :
          /\ batch.text[k] > told
          /\ \A i \in DOMAIN wire :
                wire[i].type = "message" => batch.text[k] > wire[i].turn
    /\ told <= turn
    /\ \A i \in DOMAIN wire : wire[i].type = "message" => wire[i].turn <= turn
    /\ writing =>
          /\ told < turn
          /\ \A i \in DOMAIN wire : wire[i].type = "message" => wire[i].turn < turn

StreamInv ==
    /\ SessionTypes /\ LinkTypes /\ ClientTypes /\ ReadTypes
    /\ RevsAreCounted /\ StoredOnce /\ ShownOnce /\ UndoneIsKnown /\ TextIsAhead

\* The invariant implies the type invariant.
LEMMA StreamTypeOK == StreamInv => TypeOK
<1> SUFFICES ASSUME StreamInv
             PROVE  TypeOK
  OBVIOUS
<1>1. /\ transcript \in Seq(Messages) /\ steers \in Seq(Messages)
      /\ running \in BOOLEAN /\ writing \in BOOLEAN /\ (writing => running)
      /\ turn \in 0 .. MaxRev /\ stamps \in 0 .. MaxMsgs /\ rev \in 0 .. MaxRev
      /\ panel \in {"none", "running", "finished"}
  BY BoundAssumption DEF StreamInv, SessionTypes, Panels, BoundAssumption
<1>2. /\ socket \in {"opening", "up", "dead", "down"}
      /\ \A i \in DOMAIN wire : wire[i].rev \in 1 .. rev
      /\ (socket \in {"dead", "down"} => wire = <<>> /\ batch = NoText)
  BY DEF StreamInv, LinkTypes, RevsAreCounted
<1>3. /\ view.messages \in Seq(Messages) /\ view.removed \subseteq Messages
      /\ view.run \in {"idle", "running", "ended"}
      /\ view.panel \in {"none", "running", "finished"}
  BY DEF StreamInv, ClientTypes, Views, Panels
<1>4. /\ known \in 0 .. rev /\ probe \in 0 .. Idle
      /\ Len(syncs) <= MaxSyncs /\ drops \in 0 .. MaxDrops
  BY BoundAssumption
     DEF StreamInv, SessionTypes, ClientTypes, ReadTypes, Idle, BoundAssumption
<1>5. QED BY <1>1, <1>2, <1>3, <1>4 DEF TypeOK

\* The kinds of frames.
LEMMA FrameKinds ==
  ASSUME NEW f \in Frames
  PROVE  /\ f.rev \in Nat
         /\ f.type \in {"start", "begin", "end", "message", "checkpoint", "truncated",
                        "task", "delta"}
         /\ f.type = "message" => f.message \in Messages /\ f.turn \in Nat
         /\ f.type = "checkpoint" => f.message \in Messages /\ f.before \in Messages
         /\ f.type = "truncated" => f.removed \subseteq Messages
         /\ f.type = "task" => f.status \in {"running", "finished"}
         /\ f.type = "delta" => f.text \in Seq(Nat)
BY DEF Frames

\* What is on the wire and in the batch are frames and text.
TextFrame == [type |-> "delta", rev |-> batch.rev, text |-> batch.text]

LEMMA BatchedIs ==
  ASSUME LinkTypes
  PROVE  /\ TextFrame \in Frames /\ Batched \in Seq(Frames)
         /\ Batched = IF batch.text = <<>> THEN <<>> ELSE <<TextFrame>>
         /\ TextFrame.type = "delta" /\ TextFrame.text = batch.text
         /\ TextFrame.rev = batch.rev
<1>1. batch.rev \in Nat /\ batch.text \in Seq(Nat)
  BY DEF LinkTypes
<1>2. TextFrame \in Frames
  BY <1>1 DEF TextFrame, Frames
<1>3. Batched = IF batch.text = <<>> THEN <<>> ELSE <<TextFrame>>
  BY DEF Batched, TextFrame
<1>4. <<TextFrame>> \in Seq(Frames) /\ <<>> \in Seq(Frames)
  <2> HIDE DEF TextFrame
  <2>1. QED BY <1>2, OneOnce, NoneOnce
<1>5. Batched \in Seq(Frames)
  BY <1>3, <1>4
<1>6. QED BY <1>2, <1>3, <1>5 DEF TextFrame

\* The frames of a wire that has grown by the buffered text, and by a frame f
\* behind it.
Grown(w, f) ==
    /\ w \in Seq(Frames) /\ DOMAIN w = 1..Len(w) /\ Len(w) \in Nat
    /\ \A j \in DOMAIN w :
          \/ j \in DOMAIN wire /\ w[j] = wire[j]
          \/ j = Len(wire) + 1 /\ j < Len(w) /\ batch.text # <<>> /\ w[j] = TextFrame
          \/ j = Len(w) /\ j > Len(wire) /\ w[j] = f

LEMMA WireGrows ==
  ASSUME LinkTypes, NEW f \in Frames
  PROVE  /\ Grown(wire \o Batched \o <<f>>, f)
         /\ wire \o Batched \in Seq(Frames)
         /\ \A j \in DOMAIN (wire \o Batched) :
               \/ j \in DOMAIN wire /\ (wire \o Batched)[j] = wire[j]
               \/ j = Len(wire) + 1 /\ batch.text # <<>> /\ (wire \o Batched)[j] = TextFrame
<1> DEFINE b == Batched
           u == wire \o b
           one == <<f>>
           w == u \o one
<1>1. wire \in Seq(Frames) /\ b \in Seq(Frames)
  BY BatchedIs DEF LinkTypes
<1>2. Len(wire) \in Nat /\ DOMAIN wire = 1..Len(wire)
  BY <1>1, LenProperties
<1>3. one \in Seq(Frames) /\ Len(one) = 1 /\ DOMAIN one = {1} /\ one[1] = f
  BY OneOnce
<1>4. /\ b = <<>> => DOMAIN b = {} /\ Len(b) = 0
      /\ batch.text # <<>> => b = <<TextFrame>> /\ DOMAIN b = {1} /\ b[1] = TextFrame
                              /\ Len(b) = 1
      /\ batch.text = <<>> => b = <<>>
  <2>1. /\ batch.text # <<>> => b = <<TextFrame>>
        /\ batch.text = <<>> => b = <<>>
    BY BatchedIs
  <2>2. TextFrame \in Frames
    BY BatchedIs
  <2>3. DOMAIN <<TextFrame>> = {1} /\ <<TextFrame>>[1] = TextFrame /\ Len(<<TextFrame>>) = 1
    <3> HIDE DEF TextFrame
    <3>1. QED BY <2>2, OneOnce
  <2>4. QED BY <2>1, <2>3, NoneOnce
<1> HIDE DEF b, one
<1>5. /\ u \in Seq(Frames) /\ Len(u) = Len(wire) + Len(b)
      /\ \A i \in DOMAIN wire : i \in DOMAIN u /\ u[i] = wire[i]
      /\ \A i \in DOMAIN b : Len(wire) + i \in DOMAIN u /\ u[Len(wire) + i] = b[i]
      /\ \A k \in DOMAIN u : k \in DOMAIN wire \/ \E i \in DOMAIN b : k = Len(wire) + i
  BY <1>1, ConcatOnce
<1> HIDE DEF u
<1>6. /\ w \in Seq(Frames) /\ Len(w) = Len(u) + 1
      /\ \A i \in DOMAIN u : i \in DOMAIN w /\ w[i] = u[i]
      /\ w[Len(u) + 1] = f
      /\ \A k \in DOMAIN w : k \in DOMAIN u \/ k = Len(u) + 1
  <2>1. /\ u \o one \in Seq(Frames) /\ Len(u \o one) = Len(u) + Len(one)
        /\ \A i \in DOMAIN u : i \in DOMAIN (u \o one) /\ (u \o one)[i] = u[i]
        /\ \A i \in DOMAIN one : (u \o one)[Len(u) + i] = one[i]
        /\ \A k \in DOMAIN (u \o one) :
              k \in DOMAIN u \/ \E i \in DOMAIN one : k = Len(u) + i
    <3>1. u \in Seq(Frames) /\ one \in Seq(Frames)
      BY <1>3, <1>5
    <3>2. QED BY <3>1, ConcatOnce
  <2> HIDE DEF w
  <2>2. w = u \o one
    BY DEF w
  <2>3. QED BY <1>3, <2>1, <2>2
<1> HIDE DEF w
<1>7. Len(w) \in Nat /\ DOMAIN w = 1..Len(w)
  BY <1>6, LenProperties
<1>8. ASSUME NEW j \in DOMAIN u
      PROVE  \/ j \in DOMAIN wire /\ u[j] = wire[j]
             \/ j = Len(wire) + 1 /\ batch.text # <<>> /\ u[j] = TextFrame
  BY <1>4, <1>5
<1>9. ASSUME NEW j \in DOMAIN w
      PROVE  \/ j \in DOMAIN wire /\ w[j] = wire[j]
             \/ j = Len(wire) + 1 /\ j < Len(w) /\ batch.text # <<>> /\ w[j] = TextFrame
             \/ j = Len(w) /\ j > Len(wire) /\ w[j] = f
  <2>1. CASE j \in DOMAIN u
    <3>1. j <= Len(u) /\ w[j] = u[j]
      BY <1>5, <1>6, <2>1, LenProperties
    <3>2. j < Len(w)
      BY <1>6, <1>7, <2>1, <3>1, <1>5, LenProperties
    <3>3. QED BY <1>8, <2>1, <3>1, <3>2
  <2>2. CASE j = Len(u) + 1
    <3>1. Len(b) \in Nat /\ Len(u) \in Nat
      <4>1. Len(b) \in Nat
        BY <1>1, LenProperties DEF b
      <4>2. QED BY <1>2, <1>5, <4>1
    <3>2. QED BY <1>2, <1>5, <1>6, <2>2, <3>1
  <2>3. QED BY <1>6, <2>1, <2>2
<1>10. Grown(w, f)
  BY <1>6, <1>7, <1>9 DEF Grown
<1>11. QED BY <1>5, <1>8, <1>10 DEF w, u, one, b

\* A frame is written, and the text before it, or both are lost with the socket.
LEMMA WriteKeeps ==
  ASSUME LinkTypes, NEW f \in Frames, Write(f)
  PROVE  /\ LinkTypes'
         /\ \/ wire' = <<>> /\ batch' = NoText
            \/ Grown(wire', f) /\ batch' = NoText
<1>1. NoText \in [text : Seq(Nat), rev : Nat]
  BY NoneOnce DEF NoText
<1>2. CASE socket \in {"opening", "up"}
  <2>1. wire' = wire \o Batched \o <<f>> /\ batch' = NoText /\ socket' = socket
    BY <1>2 DEF Write
  <2>2. Grown(wire', f)
    BY <2>1, WireGrows
  <2>3. wire' \in Seq(Frames)
    BY <2>2 DEF Grown
  <2>4. QED BY <1>1, <1>2, <2>1, <2>2, <2>3 DEF LinkTypes
<1>3. CASE socket \notin {"opening", "up"}
  <2>1. UNCHANGED <<socket, wire, batch>>
    BY <1>3 DEF Write, link
  <2>2. wire = <<>> /\ batch = NoText
    BY <1>3 DEF LinkTypes
  <2>3. QED BY <2>1, <2>2 DEF LinkTypes
<1>4. QED BY <1>2, <1>3

\* An event that is emitted: nothing else of the session's but what the event is
\* about changes.
EmitsWell(f) ==
    /\ f \in Frames /\ f.type # "delta" /\ f.rev = rev'
    /\ Write(f) /\ rev < MaxRev /\ rev' = rev + 1
    /\ UNCHANGED <<view, pending, known, syncs, probe, drops, undone, told>>
    /\ turn' \in Nat /\ turn <= turn'
    /\ writing' => turn' = turn + 1 \/ (writing /\ turn' = turn)
    /\ stamps' \in Nat /\ stamps <= stamps'
    /\ f.type \in {"message", "checkpoint"} => f.message > stamps
    /\ f.type = "truncated" => f.removed \subseteq 1 .. stamps
    /\ f.type = "message" => f.turn <= turn' /\ (writing' => f.turn < turn')

LEMMA EmitRevs ==
  ASSUME StreamInv, NEW f, EmitsWell(f)
  PROVE  LinkTypes' /\ ClientTypes' /\ ReadTypes' /\ RevsAreCounted'
<1>1. LinkTypes /\ ClientTypes /\ ReadTypes /\ RevsAreCounted /\ rev \in Nat
  BY BoundAssumption DEF StreamInv, SessionTypes, BoundAssumption
<1>2. /\ f \in Frames /\ Write(f) /\ rev' = rev + 1 /\ f.rev = rev'
      /\ UNCHANGED <<view, pending, known, syncs, probe, drops, told>>
  BY DEF EmitsWell
<1>3. LinkTypes' /\ batch' = NoText /\ (wire' = <<>> \/ Grown(wire', f))
  BY <1>1, <1>2, WriteKeeps
<1>4. ClientTypes'
  BY <1>1, <1>2 DEF ClientTypes
<1>5. ReadTypes'
  BY <1>1, <1>2 DEF ReadTypes, Idle
<1>6. \A i \in DOMAIN wire' : wire'[i].rev \in 1 .. rev'
  <2>1. CASE wire' = <<>>
    BY <2>1, NoneOnce
  <2>2. CASE Grown(wire', f)
    <3>1. TextFrame.rev = batch.rev
      BY <1>1, BatchedIs
    <3>2. \A i \in DOMAIN wire : wire[i].rev \in 1 .. rev'
      BY <1>1, <1>2 DEF RevsAreCounted
    <3>3. batch.text # <<>> => batch.rev \in 1 .. rev'
      BY <1>1, <1>2 DEF RevsAreCounted
    <3>4. f.rev \in 1 .. rev'
      BY <1>1, <1>2
    <3>5. QED BY <2>2, <3>1, <3>2, <3>3, <3>4 DEF Grown
  <2>3. QED BY <1>3, <2>1, <2>2
<1>7. RevsAreCounted'
  <2>1. batch'.text = <<>>
    BY <1>3 DEF NoText
  <2>2. \A i \in DOMAIN syncs : syncs[i].rev <= rev'
    <3>1. \A i \in DOMAIN syncs : syncs[i].rev \in Nat /\ syncs[i].rev <= rev
      <4>1. \A i \in DOMAIN syncs : syncs[i] \in Reads
        BY <1>1, LenProperties, ElementOfSeq DEF ReadTypes
      <4>2. QED BY <1>1, <4>1 DEF RevsAreCounted, Reads
    <3>2. QED BY <1>1, <1>2, <3>1
  <2>3. QED BY <1>2, <1>6, <2>1, <2>2 DEF RevsAreCounted
<1>8. QED BY <1>3, <1>4, <1>5, <1>7

LEMMA EmitUndone ==
  ASSUME StreamInv, NEW f, EmitsWell(f)
  PROVE  UndoneIsKnown'
<1>1. LinkTypes /\ UndoneIsKnown /\ stamps \in Nat
  BY BoundAssumption DEF StreamInv, SessionTypes, BoundAssumption
<1>2. /\ f \in Frames /\ Write(f)
      /\ UNCHANGED <<view, undone>> /\ stamps' \in Nat /\ stamps <= stamps'
      /\ f.type \in {"message", "checkpoint"} => f.message > stamps
      /\ f.type = "truncated" => f.removed \subseteq 1 .. stamps
  BY DEF EmitsWell
<1>3. wire' = <<>> \/ Grown(wire', f)
  BY <1>1, <1>2, WriteKeeps
<1>4. 1 .. stamps \subseteq 1 .. stamps'
  BY <1>1, <1>2
<1>5. /\ undone' = view'.removed /\ view'.removed \subseteq 1 .. stamps'
      /\ ToSet(view'.messages) \cap view'.removed = {}
  BY <1>1, <1>2, <1>4 DEF UndoneIsKnown
<1>6. CASE wire' = <<>>
  <2>1. DOMAIN wire' = {}
    BY <1>6, NoneOnce
  <2>2. QED BY <1>5, <2>1 DEF UndoneIsKnown
<1>7. CASE Grown(wire', f)
  <2>1. TextFrame.type = "delta"
    BY <1>1, BatchedIs
  <2>2. DOMAIN wire = 1..Len(wire) /\ Len(wire) \in Nat
    BY <1>1, LenProperties DEF LinkTypes
  <2>3. DOMAIN wire' = 1..Len(wire')
    BY <1>7 DEF Grown
  <2>4. ASSUME NEW i \in DOMAIN wire', wire'[i].type = "truncated"
        PROVE  /\ wire'[i].removed \subseteq 1 .. stamps
               /\ i \in DOMAIN wire => wire[i].type = "truncated"
                                       /\ wire'[i].removed = wire[i].removed
    <3>1. \/ i \in DOMAIN wire /\ wire'[i] = wire[i]
          \/ i \notin DOMAIN wire /\ wire'[i] = f
      BY <1>7, <2>1, <2>2, <2>4 DEF Grown
    <3>2. QED BY <1>1, <1>2, <2>4, <3>1 DEF UndoneIsKnown
  <2>5. ASSUME NEW j \in DOMAIN wire', wire'[j].type \in {"message", "checkpoint"}
        PROVE  /\ wire'[j].message \notin view'.removed
               /\ \A i \in 1 .. (j-1) :
                     wire'[i].type = "truncated" => wire'[j].message \notin wire'[i].removed
    <3>1. \/ j \in DOMAIN wire /\ wire'[j] = wire[j]
          \/ j \notin DOMAIN wire /\ wire'[j] = f
      BY <1>7, <2>1, <2>2, <2>5 DEF Grown
    <3>2. CASE j \in DOMAIN wire /\ wire'[j] = wire[j]
      <4>1. \A i \in 1..(j-1) : i \in DOMAIN wire /\ i \in DOMAIN wire'
        BY <2>2, <2>3, <2>5, <3>2
      <4>2. /\ wire[j].message \notin view.removed
            /\ \A i \in 1..(j-1) :
                 wire[i].type = "truncated" => wire[j].message \notin wire[i].removed
        BY <1>1, <2>5, <3>2 DEF UndoneIsKnown
      <4>3. QED BY <1>2, <2>4, <3>2, <4>1, <4>2
    <3>3. CASE j \notin DOMAIN wire /\ wire'[j] = f
      <4>1. f.message \notin 1..stamps
        BY <1>1, <1>2, <2>5, <3>3
      <4>2. \A i \in 1..(j-1) : i \in DOMAIN wire'
        BY <2>3, <2>5
      <4>3. f.message \notin view.removed
        BY <1>1, <4>1 DEF UndoneIsKnown
      <4>4. QED BY <1>2, <2>4, <3>3, <4>1, <4>2, <4>3
    <3>4. QED BY <3>1, <3>2, <3>3
  <2>6. QED BY <1>4, <1>5, <2>4, <2>5 DEF UndoneIsKnown
<1>8. QED BY <1>3, <1>6, <1>7

LEMMA EmitText ==
  ASSUME StreamInv, NEW f, EmitsWell(f)
  PROVE  TextIsAhead'
<1>1. /\ LinkTypes /\ ClientTypes /\ TextIsAhead /\ turn \in Nat
      /\ told \in Nat
  BY BoundAssumption DEF StreamInv, SessionTypes, ClientTypes, BoundAssumption
<1>2. /\ f \in Frames /\ f.type # "delta" /\ Write(f)
      /\ UNCHANGED <<pending, told>>
      /\ turn' \in Nat /\ turn <= turn'
      /\ writing' => turn' = turn + 1 \/ (writing /\ turn' = turn)
      /\ f.type = "message" => f.turn <= turn' /\ (writing' => f.turn < turn')
  BY DEF EmitsWell
<1>3. batch' = NoText /\ (wire' = <<>> \/ Grown(wire', f))
  BY <1>1, <1>2, WriteKeeps
<1>4. /\ \A k \in DOMAIN pending' : pending'[k] > told'
      /\ told' <= turn' /\ (writing' => told' < turn')
  BY <1>1, <1>2 DEF TextIsAhead
<1>5. DOMAIN batch'.text = {}
  BY <1>3, NoneOnce DEF NoText
<1>6. CASE wire' = <<>>
  <2>1. DOMAIN wire' = {}
    BY <1>6, NoneOnce
  <2>2. QED BY <1>4, <1>5, <2>1 DEF TextIsAhead
<1>7. CASE Grown(wire', f)
  <2>1. TextFrame.type = "delta" /\ TextFrame.text = batch.text
    BY <1>1, BatchedIs
  <2>2. /\ DOMAIN wire = 1..Len(wire) /\ Len(wire) \in Nat
        /\ \A i \in DOMAIN wire : wire[i] \in Frames
    BY <1>1, LenProperties, ElementOfSeq DEF LinkTypes
  <2>3. DOMAIN wire' = 1..Len(wire') /\ Len(wire') \in Nat
    BY <1>7 DEF Grown
  <2>4. ASSUME NEW i \in DOMAIN wire', wire'[i].type = "message"
        PROVE  \/ i \in DOMAIN wire /\ wire'[i] = wire[i] /\ wire[i].type = "message"
               \/ i = Len(wire') /\ wire'[i] = f
    BY <1>7, <2>1, <2>4 DEF Grown
  <2>5. ASSUME NEW i \in DOMAIN wire', wire'[i].type = "message"
        PROVE  wire'[i].turn <= turn' /\ (writing' => wire'[i].turn < turn')
    <3>1. CASE i \in DOMAIN wire /\ wire'[i] = wire[i] /\ wire[i].type = "message"
      <4>1. wire[i].turn \in Nat
        BY <2>2, <3>1, FrameKinds
      <4>2. wire[i].turn <= turn /\ (writing => wire[i].turn < turn)
        BY <1>1, <3>1 DEF TextIsAhead
      <4>3. QED BY <1>1, <1>2, <3>1, <4>1, <4>2
    <3>2. CASE wire'[i] = f
      BY <1>2, <2>5, <3>2
    <3>3. QED BY <2>4, <2>5, <3>1, <3>2
  <2>6. ASSUME NEW j \in DOMAIN wire', wire'[j].type = "delta",
               NEW k \in DOMAIN wire'[j].text
        PROVE  /\ wire'[j].text[k] > told'
               /\ \A i \in 1 .. (j-1) :
                     wire'[i].type = "message" => wire'[j].text[k] > wire'[i].turn
    <3>1. \/ j \in DOMAIN wire /\ wire'[j] = wire[j]
          \/ j = Len(wire) + 1 /\ wire'[j] = TextFrame
      BY <1>2, <1>7, <2>6 DEF Grown
    <3>2. ASSUME NEW i \in 1..(j-1), wire'[i].type = "message"
          PROVE  i \in DOMAIN wire /\ wire'[i] = wire[i] /\ wire[i].type = "message"
      <4>1. i \in DOMAIN wire' /\ i # Len(wire')
        BY <2>3, <2>6
      <4>2. QED BY <2>4, <3>2, <4>1
    <3>3. CASE j \in DOMAIN wire /\ wire'[j] = wire[j]
      <4>1. /\ wire[j].text[k] > told
            /\ \A i \in 1 .. (j-1) :
                  wire[i].type = "message" => wire[j].text[k] > wire[i].turn
        BY <1>1, <2>6, <3>3 DEF TextIsAhead
      <4>2. QED BY <1>2, <3>2, <3>3, <4>1
    <3>4. CASE wire'[j] = TextFrame
      <4>1. /\ batch.text[k] > told
            /\ \A i \in DOMAIN wire :
                  wire[i].type = "message" => batch.text[k] > wire[i].turn
        BY <1>1, <2>1, <2>6, <3>4 DEF TextIsAhead
      <4>2. QED BY <1>2, <2>1, <3>2, <3>4, <4>1
    <3>5. QED BY <3>1, <3>3, <3>4
  <2>7. QED BY <1>4, <1>5, <2>5, <2>6 DEF TextIsAhead
<1>8. QED BY <1>3, <1>6, <1>7

\* Drawing a message that is new puts it behind the others.
LEMMA UpsertOnce ==
  ASSUME NEW messages \in Seq(Messages), NEW m \in Messages
  PROVE  /\ Upsert(messages, m) \in Seq(Messages)
         /\ ToSet(Upsert(messages, m)) \subseteq ToSet(messages) \cup {m}
         /\ IsInjective(messages) => IsInjective(Upsert(messages, m))
<1>1. Contains(messages, m) <=> m \in ToSet(messages)
  BY LenProperties DEF Contains, ToSet
<1>2. CASE Contains(messages, m)
  BY <1>2 DEF Upsert
<1>3. CASE ~ Contains(messages, m)
  <2>1. Upsert(messages, m) = Append(messages, m)
    BY <1>3 DEF Upsert
  <2>2. QED BY <1>1, <1>3, <2>1, AppendOnce
<1>4. QED BY <1>2, <1>3

\* Insertion in front of a place.
LEMMA InsertOnce ==
  ASSUME NEW S, NEW s \in Seq(S), NEW i \in DOMAIN s, NEW e \in S
  PROVE  /\ InsertAt(s, i, e) \in Seq(S)
         /\ ToSet(InsertAt(s, i, e)) = ToSet(s) \cup {e}
         /\ IsInjective(s) /\ e \notin ToSet(s) => IsInjective(InsertAt(s, i, e))
<1> DEFINE front == SubSeq(s, 1, i-1)
           one == <<e>>
           back == SubSeq(s, i, Len(s))
<1>1. Len(s) \in Nat /\ DOMAIN s = 1..Len(s)
  BY LenProperties
<1>2. /\ 1 \in 1..(Len(s) + 1) /\ i-1 \in 0..Len(s) /\ i \in 1..(Len(s) + 1)
      /\ Len(s) \in 0..Len(s)
  BY <1>1
<1>3. /\ front \in Seq(S) /\ ToSet(front) = {s[k] : k \in 1..(i-1)}
      /\ IsInjective(s) => IsInjective(front)
  BY <1>2, SubOnce
<1>4. /\ back \in Seq(S) /\ ToSet(back) = {s[k] : k \in i..Len(s)}
      /\ IsInjective(s) => IsInjective(back)
  BY <1>2, SubOnce
<1>5. one \in Seq(S) /\ ToSet(one) = {e} /\ IsInjective(one)
  BY OneOnce
<1>6. InsertAt(s, i, e) = (front \o one) \o back
  BY DEF InsertAt
<1> HIDE DEF front, one, back
<1>7. ToSet(front) \cup ToSet(back) = ToSet(s)
  <2>1. 1..Len(s) = 1..(i-1) \cup i..Len(s)
    BY <1>1
  <2>2. ToSet(s) = {s[k] : k \in 1..Len(s)}
    BY <1>1 DEF ToSet
  <2>3. QED BY <1>3, <1>4, <2>1, <2>2
<1>8. IsInjective(s) => ToSet(front) \cap ToSet(back) = {}
  <2>1. \A k \in 1..(i-1), l \in i..Len(s) : k \in DOMAIN s /\ l \in DOMAIN s /\ k # l
    BY <1>1
  <2>2. QED BY <1>3, <1>4, <2>1 DEF IsInjective
<1> DEFINE u == front \o one
<1>9. /\ u \in Seq(S) /\ ToSet(u) = ToSet(front) \cup {e}
      /\ IsInjective(front) /\ e \notin ToSet(front) => IsInjective(u)
  <2>1. front \in Seq(S) /\ one \in Seq(S)
    BY <1>3, <1>5
  <2>2. /\ front \o one \in Seq(S) /\ ToSet(front \o one) = ToSet(front) \cup ToSet(one)
        /\ IsInjective(front) /\ IsInjective(one) /\ ToSet(front) \cap ToSet(one) = {}
             => IsInjective(front \o one)
    BY <2>1, ConcatOnce
  <2>3. QED BY <1>5, <2>2
<1> HIDE DEF u
<1>10. /\ u \o back \in Seq(S) /\ ToSet(u \o back) = ToSet(u) \cup ToSet(back)
       /\ IsInjective(u) /\ IsInjective(back) /\ ToSet(u) \cap ToSet(back) = {}
            => IsInjective(u \o back)
  <2>1. u \in Seq(S) /\ back \in Seq(S)
    BY <1>4, <1>9
  <2>2. QED BY <2>1, ConcatOnce
<1>11. InsertAt(s, i, e) = u \o back
  BY <1>6 DEF u
<1>12. ASSUME IsInjective(s), e \notin ToSet(s)
       PROVE  IsInjective(u \o back)
  <2>1. IsInjective(front) /\ IsInjective(back) /\ ToSet(front) \cap ToSet(back) = {}
    BY <1>3, <1>4, <1>8, <1>12
  <2>2. e \notin ToSet(front) /\ e \notin ToSet(back)
    BY <1>7, <1>12
  <2>3. QED BY <1>9, <1>10, <2>1, <2>2
<1>13. QED BY <1>7, <1>9, <1>10, <1>11, <1>12

LEMMA InsertedOnce ==
  ASSUME NEW messages \in Seq(Messages), NEW m \in Messages, NEW before
  PROVE  /\ Inserted(messages, m, before) \in Seq(Messages)
         /\ ToSet(Inserted(messages, m, before)) \subseteq ToSet(messages) \cup {m}
         /\ IsInjective(messages) => IsInjective(Inserted(messages, m, before))
<1>1. \A x : Contains(messages, x) <=> x \in ToSet(messages)
  BY LenProperties DEF Contains, ToSet
<1>2. CASE Contains(messages, m) \/ ~ Contains(messages, before)
  BY <1>2 DEF Inserted
<1>3. CASE ~ Contains(messages, m) /\ Contains(messages, before)
  <2> DEFINE i == CHOOSE i \in DOMAIN messages : messages[i] = before
  <2>1. i \in DOMAIN messages
    BY <1>1, <1>3 DEF ToSet
  <2>2. Inserted(messages, m, before) = InsertAt(messages, i, m)
    BY <1>3 DEF Inserted
  <2> HIDE DEF i
  <2>3. m \notin ToSet(messages)
    BY <1>1, <1>3
  <2>4. QED BY <2>1, <2>2, <2>3, InsertOnce
<1>4. QED BY <1>2, <1>3

\* The reducer keeps the view a view: it adds the message of the event only, and
\* takes out what the event says.
LEMMA ReducedKeeps ==
  ASSUME NEW v \in Views, NEW f \in Frames, f.type # "delta"
  PROVE  /\ Reduced(v, f) \in Views
         /\ IsInjective(v.messages) => IsInjective(Reduced(v, f).messages)
         /\ Reduced(v, f).removed =
              IF f.type = "truncated" THEN v.removed \cup f.removed ELSE v.removed
         /\ ToSet(Reduced(v, f).messages) \subseteq
              CASE f.type \in {"message", "checkpoint"} -> ToSet(v.messages) \cup {f.message}
                [] f.type = "truncated" -> ToSet(v.messages) \ f.removed
                [] OTHER -> ToSet(v.messages)
<1>1. /\ v.messages \in Seq(Messages) /\ v.removed \subseteq Messages
      /\ v.run \in {"idle", "running", "ended"} /\ v.text \in Seq(Nat) /\ v.panel \in Panels
      /\ \A x : [v EXCEPT !.run = x] = [v EXCEPT !.run = x]
  BY DEF Views
<1>2. <<>> \in Seq(Nat)
  BY NoneOnce
<1>3. CASE f.type = "start"
  <2>1. Reduced(v, f) = [v EXCEPT !.run = "running"]
    BY <1>3 DEF Reduced
  <2>2. QED BY <1>3, <2>1 DEF Views
<1>4. CASE f.type = "begin"
  <2>1. Reduced(v, f) = [v EXCEPT !.text = <<>>]
    BY <1>4 DEF Reduced
  <2>2. QED BY <1>2, <1>4, <2>1 DEF Views
<1>5. CASE f.type = "message"
  <2>1. CASE ~ Drawn(v.messages, f.message)
    <3>1. Reduced(v, f) = v
      BY <1>5, <2>1 DEF Reduced
    <3>2. QED BY <1>5, <3>1
  <2>2. CASE Drawn(v.messages, f.message)
    <3> DEFINE ms == Upsert(v.messages, f.message)
    <3>1. Reduced(v, f) = [v EXCEPT !.messages = ms, !.text = <<>>]
      BY <1>5, <2>2 DEF Reduced
    <3>2. f.message \in Messages
      BY <1>5, FrameKinds
    <3>3. /\ ms \in Seq(Messages) /\ ToSet(ms) \subseteq ToSet(v.messages) \cup {f.message}
          /\ IsInjective(v.messages) => IsInjective(ms)
      BY <1>1, <3>2, UpsertOnce
    <3> HIDE DEF ms
    <3>4. /\ Reduced(v, f) \in Views /\ Reduced(v, f).messages = ms
          /\ Reduced(v, f).removed = v.removed
      BY <1>2, <3>1, <3>3 DEF Views
    <3>5. QED BY <1>5, <3>3, <3>4
  <2>3. QED BY <2>1, <2>2
<1>6. CASE f.type = "checkpoint"
  <2> DEFINE ms == Inserted(v.messages, f.message, f.before)
  <2>1. Reduced(v, f) = [v EXCEPT !.messages = ms]
    BY <1>6 DEF Reduced
  <2>2. f.message \in Messages
    BY <1>6, FrameKinds
  <2>3. /\ ms \in Seq(Messages) /\ ToSet(ms) \subseteq ToSet(v.messages) \cup {f.message}
        /\ IsInjective(v.messages) => IsInjective(ms)
    BY <1>1, <2>2, InsertedOnce
  <2> HIDE DEF ms
  <2>4. /\ Reduced(v, f) \in Views /\ Reduced(v, f).messages = ms
        /\ Reduced(v, f).removed = v.removed
    BY <2>1, <2>3 DEF Views
  <2>5. QED BY <1>6, <2>3, <2>4
<1>7. CASE f.type = "truncated"
  <2> DEFINE ms == Without(v.messages, f.removed)
  <2>1. Reduced(v, f) = [v EXCEPT !.messages = ms, !.text = <<>>,
                                  !.removed = v.removed \cup f.removed, !.run = "idle"]
    BY <1>7 DEF Reduced, Tombstones
  <2>2. f.removed \subseteq Messages
    BY <1>7, FrameKinds
  <2>3. /\ ms \in Seq(Messages) /\ ToSet(ms) \subseteq ToSet(v.messages) \ f.removed
        /\ IsInjective(v.messages) => IsInjective(ms)
    BY <1>1, WithoutOnce
  <2> HIDE DEF ms
  <2>4. /\ Reduced(v, f) \in Views /\ Reduced(v, f).messages = ms
        /\ Reduced(v, f).removed = v.removed \cup f.removed
    BY <1>1, <1>2, <2>1, <2>2, <2>3 DEF Views
  <2>5. QED BY <1>7, <2>3, <2>4
<1>8. CASE f.type = "end"
  <2>1. Reduced(v, f) = [v EXCEPT !.run = IF v.run = "idle" THEN "idle" ELSE "ended"]
    BY <1>8 DEF Reduced
  <2>2. QED BY <1>8, <2>1 DEF Views
<1>9. CASE f.type = "task"
  <2> DEFINE p == IF (v.panel = "none") = (f.status = "running") THEN f.status ELSE v.panel
  <2>1. Reduced(v, f) = [v EXCEPT !.panel = p]
    BY <1>9 DEF Reduced
  <2>2. p \in Panels
    BY <1>1, <1>9, FrameKinds DEF Panels
  <2> HIDE DEF p
  <2>3. QED BY <1>9, <2>1, <2>2 DEF Views
<1>10. QED BY <1>3, <1>4, <1>5, <1>6, <1>7, <1>8, <1>9, FrameKinds

\* So does a snapshot; what has a tombstone does not come back with it.
LEMMA AppliedKeeps ==
  ASSUME NEW v \in Views, NEW s \in Reads,
         IsInjective(v.messages), IsInjective(s.messages),
         ToSet(v.messages) \cap v.removed = {}
  PROVE  /\ Applied(v, s) \in Views
         /\ IsInjective(Applied(v, s).messages)
         /\ Applied(v, s).removed = v.removed
         /\ ToSet(Applied(v, s).messages) \cap v.removed = {}
<1> DEFINE ms == IF s.ok THEN Without(Merged(v.messages, s.messages), v.removed)
                         ELSE v.messages
           r == IF s.ok /\ ~ s.moved THEN RunAs(v.run, s.running) ELSE v.run
           p == PanelAs(v.panel, s.panel)
<1>1. Applied(v, s) = [v EXCEPT !.messages = ms, !.run = r, !.panel = p]
  BY DEF Applied
<1>2. v.messages \in Seq(Messages) /\ s.messages \in Seq(Messages)
  BY DEF Views, Reads
<1>3. Merged(v.messages, s.messages) \in Seq(Messages)
      /\ IsInjective(Merged(v.messages, s.messages))
  BY <1>2, MergedOnce
<1>4. ms \in Seq(Messages) /\ IsInjective(ms) /\ ToSet(ms) \cap v.removed = {}
  <2> DEFINE all == Merged(v.messages, s.messages)
  <2> HIDE DEF all
  <2>1. all \in Seq(Messages) /\ IsInjective(all)
    BY <1>3 DEF all
  <2>2. /\ Without(all, v.removed) \in Seq(Messages) /\ IsInjective(Without(all, v.removed))
        /\ ToSet(Without(all, v.removed)) \subseteq ToSet(all) \ v.removed
    BY <2>1, WithoutOnce
  <2>3. QED BY <1>2, <2>2 DEF all
<1>5. r \in {"idle", "running", "ended"}
  BY DEF RunAs, Views
<1>6. p \in Panels
  BY DEF PanelAs, Views, Reads
<1> HIDE DEF ms, r, p
<1>7. /\ Applied(v, s) \in Views /\ Applied(v, s).messages = ms
      /\ Applied(v, s).removed = v.removed
  BY <1>1, <1>4, <1>5, <1>6 DEF Views
<1>8. QED BY <1>4, <1>7

(***************************************************************************)
(* Every step preserves the invariant: the session's.                      *)
(***************************************************************************)
LEMMA EmitKeeps ==
  ASSUME StreamInv, NEW f, EmitsWell(f), SessionTypes', StoredOnce'
  PROVE  StreamInv'
<1>1. LinkTypes' /\ ClientTypes' /\ ReadTypes' /\ RevsAreCounted'
  BY EmitRevs
<1>2. UndoneIsKnown'
  BY EmitUndone
<1>3. TextIsAhead'
  BY EmitText
<1>4. ShownOnce'
  BY DEF StreamInv, EmitsWell, ShownOnce
<1>5. QED BY <1>1, <1>2, <1>3, <1>4 DEF StreamInv

\* What the session's steps start from.
LEMMA SessionFacts ==
  ASSUME StreamInv
  PROVE  /\ transcript \in Seq(Messages) /\ steers \in Seq(Messages)
         /\ running \in BOOLEAN /\ writing \in BOOLEAN /\ (writing => running)
         /\ rev \in Nat /\ rev <= MaxRev /\ MaxRev \in Nat
         /\ turn \in Nat /\ turn <= rev
         /\ stamps \in Nat /\ stamps <= MaxMsgs /\ MaxMsgs \in Nat
         /\ panel \in Panels
         /\ (writing => 0 < turn)
<1>1. SessionTypes /\ TextIsAhead /\ told \in Nat
  BY DEF StreamInv, ClientTypes
<1>2. writing => told < turn
  BY <1>1 DEF TextIsAhead
<1>3. QED BY <1>1, <1>2, BoundAssumption DEF SessionTypes, BoundAssumption

\* An event that is about neither messages nor text.
LEMMA PlainEmits ==
  ASSUME StreamInv, NEW f, f \in Frames, f.rev = rev', Write(f), rev < MaxRev, rev' = rev + 1,
         f.type \in {"start", "begin", "end", "task"},
         UNCHANGED <<others, transcript, steers, stamps>>,
         turn' \in {turn, turn + 1}, writing' \in BOOLEAN, running' \in BOOLEAN,
         writing' => running', writing' => turn' = turn + 1 \/ (writing /\ turn' = turn),
         panel' \in Panels
  PROVE  StreamInv'
<1>1. SessionTypes' /\ StoredOnce'
  <2>1. SessionTypes'
    BY SessionFacts DEF SessionTypes
  <2>2. StoredOnce'
    BY DEF StoredOnce, StreamInv, others
  <2>3. QED BY <2>1, <2>2
<1>2. EmitsWell(f)
  BY SessionFacts DEF EmitsWell, others, client, history
<1>3. QED BY <1>1, <1>2, EmitKeeps

LEMMA StartRunKeeps == StreamInv /\ StartRun => StreamInv'
<1> SUFFICES ASSUME StreamInv, StartRun
             PROVE  StreamInv'
  OBVIOUS
<1> DEFINE f == [type |-> "start", rev |-> rev']
<1>1. [Frame("start") EXCEPT !.rev = rev'] = f
  BY DEF Frame
<1>2. f \in Frames /\ f.rev = rev' /\ f.type = "start"
  BY SessionFacts DEF StartRun, Emits, Frames
<1>3. Write(f) /\ rev < MaxRev /\ rev' = rev + 1
  BY <1>1 DEF StartRun, Emits
<1> HIDE DEF f
<1>4. QED BY <1>2, <1>3, SessionFacts, PlainEmits DEF StartRun

LEMMA BeginKeeps == StreamInv /\ Begin => StreamInv'
<1> SUFFICES ASSUME StreamInv, Begin
             PROVE  StreamInv'
  OBVIOUS
<1> DEFINE f == [type |-> "begin", rev |-> rev']
<1>1. [Frame("begin") EXCEPT !.rev = rev'] = f
  BY DEF Frame
<1>2. f \in Frames /\ f.rev = rev' /\ f.type = "begin"
  BY SessionFacts DEF Begin, Emits, Frames
<1>3. Write(f) /\ rev < MaxRev /\ rev' = rev + 1
  BY <1>1 DEF Begin, Emits
<1> HIDE DEF f
<1>4. /\ UNCHANGED <<others, transcript, steers, stamps>> /\ turn' = turn + 1
      /\ writing' = TRUE /\ running' = TRUE /\ panel' \in Panels
  BY SessionFacts DEF Begin
<1>5. /\ turn' \in {turn, turn + 1} /\ writing' \in BOOLEAN /\ running' \in BOOLEAN
      /\ writing' => running'
      /\ writing' => turn' = turn + 1 \/ (writing /\ turn' = turn)
      /\ f.type \in {"start", "begin", "end", "task"}
  BY <1>2, <1>4
<1>6. QED BY <1>2, <1>3, <1>4, <1>5, PlainEmits

LEMMA EndRunKeeps == StreamInv /\ EndRun => StreamInv'
<1> SUFFICES ASSUME StreamInv, EndRun
             PROVE  StreamInv'
  OBVIOUS
<1> DEFINE f == [type |-> "end", rev |-> rev']
<1>1. [Frame("end") EXCEPT !.rev = rev'] = f
  BY DEF Frame
<1>2. f \in Frames /\ f.rev = rev' /\ f.type = "end"
  BY SessionFacts DEF EndRun, Emits, Frames
<1>3. Write(f) /\ rev < MaxRev /\ rev' = rev + 1
  BY <1>1 DEF EndRun, Emits
<1> HIDE DEF f
<1>4. QED BY <1>2, <1>3, SessionFacts, PlainEmits DEF EndRun

LEMMA TaskMovesKeeps == StreamInv /\ TaskMoves => StreamInv'
<1> SUFFICES ASSUME StreamInv, TaskMoves
             PROVE  StreamInv'
  OBVIOUS
<1> DEFINE f == [type |-> "task", rev |-> rev', status |-> panel']
<1>1. [[type |-> "task", rev |-> 0, status |-> panel'] EXCEPT !.rev = rev'] = f
  OBVIOUS
<1>2. panel' \in {"running", "finished"}
  BY DEF TaskMoves
<1>3. f \in Frames /\ f.rev = rev' /\ f.type = "task"
  BY <1>2, SessionFacts DEF TaskMoves, Emits, Frames
<1>4. Write(f) /\ rev < MaxRev /\ rev' = rev + 1
  BY <1>1 DEF TaskMoves, Emits
<1> HIDE DEF f
<1>5. panel' \in Panels
  BY <1>2 DEF Panels
<1>6. QED BY <1>3, <1>4, <1>5, SessionFacts, PlainEmits DEF TaskMoves

\* A message's stamp is new.
LEMMA StampIsNew ==
  ASSUME StreamInv, stamps < MaxMsgs
  PROVE  /\ stamps + 1 \in Messages
         /\ stamps + 1 \notin ToSet(transcript) /\ stamps + 1 \notin ToSet(steers)
         /\ ToSet(transcript) \subseteq 1 .. stamps /\ ToSet(steers) \subseteq 1 .. stamps
         /\ 1 .. (stamps + 1) = 1 .. stamps \cup {stamps + 1}
<1>1. ToSet(transcript) \cup ToSet(steers) \subseteq 1 .. stamps
  BY DEF StreamInv, StoredOnce
<1>2. stamps + 1 \notin 1 .. stamps
  BY SessionFacts
<1>3. stamps + 1 \in Messages /\ 1 .. (stamps + 1) = 1 .. stamps \cup {stamps + 1}
  BY SessionFacts DEF Messages
<1>4. QED BY <1>1, <1>2, <1>3

\* A message that is announced, and stored or to be stored.
LEMMA MessageEmits ==
  ASSUME StreamInv, NEW f, f \in Frames, f.rev = rev', Write(f), rev < MaxRev, rev' = rev + 1,
         f.type = "message", f.message = stamps + 1, stamps' = stamps + 1, stamps < MaxMsgs,
         f.turn \in {0, turn}, f.turn = turn => ~ writing',
         UNCHANGED <<view, pending, known, syncs, probe, drops, undone, told>>,
         turn' = turn, running' = running, panel' = panel,
         writing' \in {FALSE, writing},
         transcript' \in Seq(Messages), steers' \in Seq(Messages),
         IsInjective(transcript'), IsInjective(steers'),
         ToSet(transcript') \cap ToSet(steers') = {},
         ToSet(transcript') \cup ToSet(steers')
           \subseteq ToSet(transcript) \cup ToSet(steers) \cup {stamps + 1}
  PROVE  StreamInv'
<1>1. SessionTypes'
  <2>1. running' \in BOOLEAN /\ writing' \in BOOLEAN /\ (writing' => running')
    <3>1. writing' = FALSE \/ writing' = writing
      OBVIOUS
    <3>2. /\ running \in BOOLEAN /\ writing \in BOOLEAN /\ (writing => running)
          /\ running' = running
      BY SessionFacts
    <3>3. CASE writing' = FALSE
      BY <3>2, <3>3
    <3>4. CASE writing' = writing
      BY <3>2, <3>4
    <3>5. QED BY <3>1, <3>3, <3>4
  <2>2. /\ rev' \in 0 .. MaxRev /\ turn' \in 0 .. rev' /\ stamps' \in 0 .. MaxMsgs
        /\ panel' \in Panels
    BY SessionFacts
  <2>3. QED BY <2>1, <2>2 DEF SessionTypes
<1>2. StoredOnce'
  <2>1. ToSet(transcript') \cup ToSet(steers') \subseteq 1 .. stamps'
    BY StampIsNew
  <2>2. \A i \in DOMAIN syncs : IsInjective(syncs[i].messages)
    BY DEF StreamInv, StoredOnce
  <2>3. QED BY <2>1, <2>2 DEF StoredOnce
<1>3. EmitsWell(f)
  <2>1. /\ turn' \in Nat /\ turn <= turn' /\ stamps' \in Nat /\ stamps <= stamps'
        /\ f.message > stamps /\ f.turn <= turn'
    BY SessionFacts
  <2>2. writing' => writing /\ turn' = turn
    BY SessionFacts, Zenon
  <2>3. writing' => f.turn < turn'
    <3>1. writing' => f.turn = 0 /\ 0 < turn
      BY <2>2, SessionFacts
    <3>2. QED BY <3>1
  <2>4. QED BY <2>1, <2>2, <2>3 DEF EmitsWell
<1>4. QED BY <1>1, <1>2, <1>3, EmitKeeps

LEMMA AnswerKeeps == StreamInv /\ Answer => StreamInv'
<1> SUFFICES ASSUME StreamInv, Answer
             PROVE  StreamInv'
  OBVIOUS
<1> DEFINE m == stamps + 1
           f == [type |-> "message", rev |-> rev', message |-> m, turn |-> turn]
           log == Append(transcript, m)
<1>1. [[type |-> "message", rev |-> 0, message |-> m, turn |-> turn] EXCEPT !.rev = rev'] = f
  OBVIOUS
<1>2. stamps < MaxMsgs
  BY DEF Answer
<1>3. /\ f \in Frames /\ f.rev = rev' /\ f.type = "message" /\ f.message = stamps + 1
      /\ f.turn = turn
  <2>1. m \in Messages /\ rev' \in Nat /\ turn \in Nat
    BY <1>2, StampIsNew, SessionFacts DEF Answer, Emits
  <2>2. QED BY <2>1 DEF Frames
<1>4. Write(f) /\ rev < MaxRev /\ rev' = rev + 1
  BY <1>1 DEF Answer, Emits
<1>5. log \in Seq(Messages) /\ ToSet(log) = ToSet(transcript) \cup {m} /\ IsInjective(log)
  <2>1. IsInjective(transcript)
    BY DEF StreamInv, StoredOnce
  <2>2. QED BY <1>2, <2>1, StampIsNew, SessionFacts, AppendOnce
<1>6. IsInjective(steers) /\ ToSet(transcript) \cap ToSet(steers) = {}
  BY DEF StreamInv, StoredOnce
<1>7. transcript' = log \o steers /\ steers' = <<>> /\ stamps' = stamps + 1
  BY DEF Answer
<1>8. /\ UNCHANGED <<view, pending, known, syncs, probe, drops, undone, told>>
      /\ turn' = turn /\ running' = running /\ panel' = panel /\ writing' = FALSE
  BY DEF Answer, others, client, history
<1> HIDE DEF f, log
<1>9. /\ log \o steers \in Seq(Messages) /\ IsInjective(log \o steers)
      /\ ToSet(log \o steers) = ToSet(log) \cup ToSet(steers)
  <2>1. log \in Seq(Messages) /\ steers \in Seq(Messages)
    BY <1>5, SessionFacts
  <2>2. ToSet(log) \cap ToSet(steers) = {}
    BY <1>2, <1>5, <1>6, StampIsNew
  <2>3. QED BY <1>5, <1>6, <2>1, <2>2, ConcatOnce
<1>10. /\ transcript' \in Seq(Messages) /\ steers' \in Seq(Messages)
       /\ IsInjective(transcript') /\ IsInjective(steers')
       /\ ToSet(steers') = {}
       /\ ToSet(transcript') = ToSet(transcript) \cup {m} \cup ToSet(steers)
  BY <1>5, <1>7, <1>9, NoneOnce
<1>11. /\ ToSet(transcript') \cap ToSet(steers') = {}
       /\ ToSet(transcript') \cup ToSet(steers')
            \subseteq ToSet(transcript) \cup ToSet(steers) \cup {stamps + 1}
  BY <1>10
<1>12. QED BY <1>2, <1>3, <1>4, <1>7, <1>8, <1>10, <1>11, MessageEmits

LEMMA AddKeeps == StreamInv /\ Add => StreamInv'
<1> SUFFICES ASSUME StreamInv, Add
             PROVE  StreamInv'
  OBVIOUS
<1> DEFINE m == stamps + 1
           f == [type |-> "message", rev |-> rev', message |-> m, turn |-> 0]
           log == Append(transcript, m)
<1>1. [[type |-> "message", rev |-> 0, message |-> m, turn |-> 0] EXCEPT !.rev = rev'] = f
  OBVIOUS
<1>2. stamps < MaxMsgs
  BY DEF Add
<1>3. /\ f \in Frames /\ f.rev = rev' /\ f.type = "message" /\ f.message = stamps + 1
      /\ f.turn = 0
  <2>1. m \in Messages /\ rev' \in Nat
    BY <1>2, StampIsNew, SessionFacts DEF Add, Emits
  <2>2. QED BY <2>1 DEF Frames
<1>4. Write(f) /\ rev < MaxRev /\ rev' = rev + 1
  BY <1>1 DEF Add, Emits
<1>5. log \in Seq(Messages) /\ ToSet(log) = ToSet(transcript) \cup {m} /\ IsInjective(log)
  <2>1. IsInjective(transcript)
    BY DEF StreamInv, StoredOnce
  <2>2. QED BY <1>2, <2>1, StampIsNew, SessionFacts, AppendOnce
<1>6. IsInjective(steers) /\ ToSet(transcript) \cap ToSet(steers) = {}
  BY DEF StreamInv, StoredOnce
<1>7. transcript' = log /\ steers' = steers /\ stamps' = stamps + 1
  BY DEF Add
<1>8. /\ UNCHANGED <<view, pending, known, syncs, probe, drops, undone, told>>
      /\ turn' = turn /\ running' = running /\ panel' = panel
      /\ writing' = writing /\ ~ writing
  BY DEF Add, others, client, history
<1> HIDE DEF f, log
<1>9. /\ transcript' \in Seq(Messages) /\ steers' \in Seq(Messages)
      /\ IsInjective(transcript') /\ IsInjective(steers')
      /\ ToSet(transcript') \cap ToSet(steers') = {}
      /\ ToSet(transcript') \cup ToSet(steers')
           \subseteq ToSet(transcript) \cup ToSet(steers) \cup {stamps + 1}
  BY <1>2, <1>5, <1>6, <1>7, StampIsNew, SessionFacts
<1>10. QED BY <1>2, <1>3, <1>4, <1>7, <1>8, <1>9, MessageEmits

LEMMA SteerKeeps == StreamInv /\ Steer => StreamInv'
<1> SUFFICES ASSUME StreamInv, Steer
             PROVE  StreamInv'
  OBVIOUS
<1> DEFINE m == stamps + 1
           f == [type |-> "message", rev |-> rev', message |-> m, turn |-> 0]
           queue == Append(steers, m)
<1>1. [[type |-> "message", rev |-> 0, message |-> m, turn |-> 0] EXCEPT !.rev = rev'] = f
  OBVIOUS
<1>2. stamps < MaxMsgs
  BY SessionFacts DEF Steer
<1>3. /\ f \in Frames /\ f.rev = rev' /\ f.type = "message" /\ f.message = stamps + 1
      /\ f.turn = 0
  <2>1. m \in Messages /\ rev' \in Nat
    BY <1>2, StampIsNew, SessionFacts DEF Steer, Emits
  <2>2. QED BY <2>1 DEF Frames
<1>4. Write(f) /\ rev < MaxRev /\ rev' = rev + 1
  BY <1>1 DEF Steer, Emits
<1>5. queue \in Seq(Messages) /\ ToSet(queue) = ToSet(steers) \cup {m} /\ IsInjective(queue)
  <2>1. IsInjective(steers)
    BY DEF StreamInv, StoredOnce
  <2>2. QED BY <1>2, <2>1, StampIsNew, SessionFacts, AppendOnce
<1>6. IsInjective(transcript) /\ ToSet(transcript) \cap ToSet(steers) = {}
  BY DEF StreamInv, StoredOnce
<1>7. transcript' = transcript /\ steers' = queue /\ stamps' = stamps + 1
  BY DEF Steer
<1>8. /\ UNCHANGED <<view, pending, known, syncs, probe, drops, undone, told>>
      /\ turn' = turn /\ running' = running /\ panel' = panel /\ writing' = writing
      /\ writing
  BY DEF Steer, client
<1> HIDE DEF f, queue
<1>9. /\ transcript' \in Seq(Messages) /\ steers' \in Seq(Messages)
      /\ IsInjective(transcript') /\ IsInjective(steers')
      /\ ToSet(transcript') \cap ToSet(steers') = {}
      /\ ToSet(transcript') \cup ToSet(steers')
           \subseteq ToSet(transcript) \cup ToSet(steers) \cup {stamps + 1}
  BY <1>2, <1>5, <1>6, <1>7, StampIsNew, SessionFacts
<1>10. f.turn # turn
  BY <1>3, <1>8, SessionFacts
<1>11. QED BY <1>2, <1>3, <1>4, <1>7, <1>8, <1>9, <1>10, MessageEmits

LEMMA CheckpointKeeps == StreamInv /\ Checkpoint => StreamInv'
<1> SUFFICES ASSUME StreamInv, Checkpoint
             PROVE  StreamInv'
  OBVIOUS
<1> DEFINE m == stamps + 1
           n == Len(transcript)
           f == [type |-> "checkpoint", rev |-> rev', message |-> m,
                 before |-> transcript[n]]
           log == InsertAt(transcript, n, m)
<1>1. [[type |-> "checkpoint", rev |-> 0, message |-> m, before |-> transcript[n]]
         EXCEPT !.rev = rev'] = f
  OBVIOUS
<1>2. stamps < MaxMsgs /\ n > 0
  BY DEF Checkpoint
<1>3. m \in Messages /\ n \in DOMAIN transcript /\ transcript[n] \in Messages
  <2>1. n \in DOMAIN transcript
    BY <1>2, SessionFacts, LenProperties
  <2>2. transcript[n] \in Messages
    BY <2>1, SessionFacts, LenProperties, ElementOfSeq
  <2>3. QED BY <1>2, <2>1, <2>2, StampIsNew
<1>4. /\ f \in Frames /\ f.rev = rev' /\ f.type = "checkpoint" /\ f.message = stamps + 1
  <2>1. rev' \in Nat
    BY SessionFacts DEF Checkpoint, Emits
  <2>2. QED BY <1>3, <2>1 DEF Frames
<1>5. Write(f) /\ rev < MaxRev /\ rev' = rev + 1
  BY <1>1 DEF Checkpoint, Emits
<1>6. /\ UNCHANGED <<view, pending, known, syncs, probe, drops, undone, told>>
      /\ turn' = turn /\ running' = running /\ panel' = panel /\ writing' = writing
      /\ steers' = steers /\ transcript' = log /\ stamps' = stamps + 1
  BY DEF Checkpoint, others, client, history
<1>7. log \in Seq(Messages) /\ ToSet(log) = ToSet(transcript) \cup {m} /\ IsInjective(log)
  <2>1. IsInjective(transcript)
    BY DEF StreamInv, StoredOnce
  <2> HIDE DEF m, n
  <2>2. m \notin ToSet(transcript)
    BY <1>2, StampIsNew DEF m
  <2>3. transcript \in Seq(Messages)
    BY SessionFacts
  <2>4. QED BY <1>3, <2>1, <2>2, <2>3, InsertOnce
<1> HIDE DEF f, log, n
<1>8. SessionTypes'
  <2>1. /\ running' \in BOOLEAN /\ writing' \in BOOLEAN /\ (writing' => running')
        /\ panel' \in Panels
    BY <1>6, SessionFacts
  <2>2. rev' \in 0 .. MaxRev /\ turn' \in 0 .. rev' /\ stamps' \in 0 .. MaxMsgs
    BY <1>2, <1>5, <1>6, SessionFacts
  <2>3. transcript' \in Seq(Messages) /\ steers' \in Seq(Messages)
    BY <1>6, <1>7, SessionFacts
  <2>4. QED BY <2>1, <2>2, <2>3 DEF SessionTypes
<1>9. StoredOnce'
  <2>1. /\ IsInjective(steers) /\ ToSet(transcript) \cap ToSet(steers) = {}
        /\ \A i \in DOMAIN syncs : IsInjective(syncs[i].messages)
    BY DEF StreamInv, StoredOnce
  <2>2. ToSet(transcript') \cap ToSet(steers') = {}
    BY <1>2, <1>6, <1>7, <2>1, StampIsNew
  <2>3. ToSet(transcript') \cup ToSet(steers') \subseteq 1 .. stamps'
    BY <1>2, <1>6, <1>7, StampIsNew
  <2>4. QED BY <1>6, <1>7, <2>1, <2>2, <2>3 DEF StoredOnce
<1>10. EmitsWell(f)
  BY <1>4, <1>5, <1>6, SessionFacts DEF EmitsWell
<1>11. QED BY <1>8, <1>9, <1>10, EmitKeeps

LEMMA UndoKeeps == StreamInv /\ Undo => StreamInv'
<1> SUFFICES ASSUME StreamInv, Undo
             PROVE  StreamInv'
  OBVIOUS
<1>1. PICK n \in 1 .. Len(transcript) :
        /\ transcript' = SubSeq(transcript, 1, n - 1)
        /\ Emits([type |-> "truncated", rev |-> 0,
                  removed |-> {transcript[i] : i \in n .. Len(transcript)}])
  BY DEF Undo
<1> DEFINE gone == {transcript[i] : i \in n .. Len(transcript)}
           f == [type |-> "truncated", rev |-> rev', removed |-> gone]
           log == SubSeq(transcript, 1, n - 1)
<1>2. [[type |-> "truncated", rev |-> 0, removed |-> gone] EXCEPT !.rev = rev'] = f
  <2> HIDE DEF gone
  <2>1. QED OBVIOUS
<1>3. Write(f) /\ rev < MaxRev /\ rev' = rev + 1
  BY <1>1, <1>2 DEF Emits
<1>4. Len(transcript) \in Nat /\ DOMAIN transcript = 1..Len(transcript)
  BY SessionFacts, LenProperties
<1>5. \A i \in 1..Len(transcript) : transcript[i] \in Messages /\ transcript[i] \in ToSet(transcript)
  BY <1>4, SessionFacts, ElementOfSeq DEF ToSet
<1>6. gone \subseteq Messages /\ gone \subseteq 1 .. stamps
  <2>1. n .. Len(transcript) \subseteq 1 .. Len(transcript)
    BY <1>4
  <2>2. ToSet(transcript) \subseteq 1 .. stamps
    BY DEF StreamInv, StoredOnce
  <2>3. QED BY <1>5, <2>1, <2>2
<1>7. f \in Frames /\ f.rev = rev' /\ f.type = "truncated" /\ f.removed = gone
  <2>1. rev' \in Nat
    BY <1>3, SessionFacts
  <2> HIDE DEF gone
  <2>2. QED BY <1>6, <2>1 DEF Frames
<1>8. log \in Seq(Messages) /\ ToSet(log) \subseteq ToSet(transcript) /\ IsInjective(log)
  <2>1. 1 \in 1..(Len(transcript) + 1) /\ n - 1 \in 0 .. Len(transcript)
    BY <1>4
  <2>2. IsInjective(transcript)
    BY DEF StreamInv, StoredOnce
  <2>3. transcript \in Seq(Messages)
    BY SessionFacts
  <2>4. log \in Seq(Messages) /\ ToSet(log) = {transcript[k] : k \in 1 .. (n-1)}
        /\ IsInjective(log)
    BY <2>1, <2>2, <2>3, SubOnce
  <2>5. 1 .. (n-1) \subseteq 1 .. Len(transcript)
    BY <1>4
  <2>6. QED BY <1>5, <2>4, <2>5
<1>9. /\ UNCHANGED <<view, pending, known, syncs, probe, drops, undone, told>>
      /\ turn' = turn /\ running' = running /\ panel' = panel /\ writing' = writing
      /\ steers' = steers /\ stamps' = stamps
  BY DEF Undo, others, client, history
<1>10. transcript' = log
  BY <1>1
<1> HIDE DEF f, log, gone
<1>11. SessionTypes'
  BY <1>3, <1>8, <1>9, <1>10, SessionFacts DEF SessionTypes
<1>12. StoredOnce'
  <2>1. /\ IsInjective(steers) /\ ToSet(transcript) \cap ToSet(steers) = {}
        /\ ToSet(transcript) \cup ToSet(steers) \subseteq 1 .. stamps
        /\ \A i \in DOMAIN syncs : IsInjective(syncs[i].messages)
    BY DEF StreamInv, StoredOnce
  <2>2. /\ ToSet(transcript') \cap ToSet(steers') = {}
        /\ ToSet(transcript') \cup ToSet(steers') \subseteq 1 .. stamps'
    BY <1>8, <1>9, <1>10, <2>1
  <2>3. QED BY <1>8, <1>9, <1>10, <2>1, <2>2 DEF StoredOnce
<1>13. EmitsWell(f)
  BY <1>3, <1>6, <1>7, <1>9, SessionFacts DEF EmitsWell
<1>14. QED BY <1>11, <1>12, <1>13, EmitKeeps

(***************************************************************************)
(* The client's steps.                                                     *)
(***************************************************************************)
\* Snapshots being read, when R events are emitted.
ReadsWell(s, R) ==
    /\ s \in Seq(Reads)
    /\ \A i \in DOMAIN s : s[i].rev <= R /\ IsInjective(s[i].messages)

LEMMA ReadsAreWell ==
  ASSUME StreamInv
  PROVE  /\ ReadsWell(syncs, rev) /\ Len(syncs) \in Nat /\ Len(syncs) <= MaxSyncs
         /\ rev \in Nat /\ MaxSyncs \in Nat
<1>1. syncs \in Seq(Reads) /\ Len(syncs) <= MaxSyncs
  BY DEF StreamInv, ReadTypes
<1>2. \A i \in DOMAIN syncs : syncs[i].rev <= rev /\ IsInjective(syncs[i].messages)
  BY DEF StreamInv, RevsAreCounted, StoredOnce
<1>3. QED
  BY <1>1, <1>2, SessionFacts, LenProperties, BoundAssumption DEF ReadsWell, BoundAssumption

\* One more snapshot is asked for, or all are told that the run moved.
LEMMA AskedWell ==
  ASSUME NEW R \in Nat, NEW s, ReadsWell(s, R)
  PROVE  /\ ReadsWell(Append(s, NewSync), R) /\ Len(Append(s, NewSync)) = Len(s) + 1
         /\ ReadsWell(Moved(s), R) /\ Len(Moved(s)) = Len(s)
<1>1. s \in Seq(Reads) /\ Len(s) \in Nat /\ DOMAIN s = 1..Len(s)
  BY LenProperties DEF ReadsWell
<1>2. \A i \in DOMAIN s : s[i] \in Reads /\ s[i].rev <= R /\ IsInjective(s[i].messages)
  BY <1>1, ElementOfSeq DEF ReadsWell
<1>3. NewSync \in Reads /\ NewSync.rev <= R /\ IsInjective(NewSync.messages)
  BY NoneOnce DEF NewSync, Reads, Panels
<1> HIDE DEF NewSync
<1>4. ReadsWell(Append(s, NewSync), R) /\ Len(Append(s, NewSync)) = Len(s) + 1
  <2> DEFINE t == Append(s, NewSync)
  <2>1. /\ t \in Seq(Reads) /\ Len(t) = Len(s) + 1
        /\ \A i \in 1..Len(s) : t[i] = s[i]
        /\ t[Len(s) + 1] = NewSync
    BY <1>1, <1>3, AppendProperties
  <2> HIDE DEF t
  <2>2. DOMAIN t = 1..(Len(s) + 1)
    BY <2>1, LenProperties
  <2>3. \A i \in DOMAIN t : i \in 1..Len(s) \/ i = Len(s) + 1
    BY <1>1, <2>2
  <2>4. ReadsWell(t, R)
    BY <1>1, <1>2, <1>3, <2>1, <2>3 DEF ReadsWell
  <2>5. QED BY <2>1, <2>4 DEF t
<1>5. ReadsWell(Moved(s), R) /\ Len(Moved(s)) = Len(s)
  <2> DEFINE t == Moved(s)
  <2>1. t = [i \in 1..Len(s) |-> [s[i] EXCEPT !.moved = TRUE]]
    BY <1>1 DEF Moved
  <2> HIDE DEF t
  <2>2. ASSUME NEW i \in 1..Len(s)
        PROVE  t[i] \in Reads /\ t[i].rev <= R /\ IsInjective(t[i].messages)
    <3>1. s[i] \in Reads /\ s[i].rev <= R /\ IsInjective(s[i].messages)
      BY <1>1, <1>2
    <3>2. t[i] = [s[i] EXCEPT !.moved = TRUE]
      BY <2>1
    <3>3. t[i] \in Reads /\ t[i].rev = s[i].rev /\ t[i].messages = s[i].messages
      BY <3>1, <3>2 DEF Reads
    <3>4. QED BY <3>1, <3>3
  <2>3. DOMAIN t = 1..Len(s)
    BY <2>1
  <2>4. t \in Seq(Reads) /\ Len(t) = Len(s)
    <3>1. t \in [1..Len(s) -> Reads]
      BY <2>1, <2>2
    <3>2. QED BY <1>1, <3>1
  <2>5. QED BY <2>2, <2>3, <2>4 DEF ReadsWell, t
<1>6. QED BY <1>4, <1>5

\* A step of the client that takes nothing off the wire: its view may change as
\* long as it has no message twice and none that it has heard undone.
ClientMoves ==
    /\ UNCHANGED <<server, rev, wire, batch, undone, told>>
    /\ view' \in Views /\ IsInjective(view'.messages) /\ view'.removed = view.removed
    /\ ToSet(view'.messages) \cap view.removed = {}
    /\ pending' \in {pending, <<>>} /\ known' \in 0 .. rev
    /\ ReadsWell(syncs', rev) /\ Len(syncs') <= MaxSyncs
    /\ probe' \in 0 .. rev \cup {Idle} /\ drops' \in 0 .. MaxDrops

LEMMA ClientKeeps ==
  ASSUME StreamInv, LinkTypes', ClientMoves
  PROVE  StreamInv'
<1>1. /\ UNCHANGED <<transcript, running, turn, writing, steers, stamps, panel>>
      /\ UNCHANGED <<rev, wire, batch, undone, told>>
      /\ view' \in Views /\ IsInjective(view'.messages) /\ view'.removed = view.removed
      /\ ToSet(view'.messages) \cap view.removed = {}
      /\ pending' \in {pending, <<>>} /\ known' \in 0 .. rev
      /\ ReadsWell(syncs', rev) /\ Len(syncs') <= MaxSyncs
      /\ probe' \in 0 .. rev \cup {Idle} /\ drops' \in 0 .. MaxDrops
  BY DEF ClientMoves, server
<1>2. SessionTypes'
  BY <1>1 DEF StreamInv, SessionTypes
<1>3. pending' \in Seq(Nat) /\ told' \in Nat
  BY <1>1, NoneOnce DEF StreamInv, ClientTypes
<1>4. ClientTypes'
  BY <1>1, <1>3 DEF ClientTypes
<1>5. ReadTypes'
  BY <1>1 DEF ReadTypes, ReadsWell, Idle
<1>6. RevsAreCounted'
  BY <1>1 DEF StreamInv, RevsAreCounted, ReadsWell
<1>7. StoredOnce'
  BY <1>1 DEF StreamInv, StoredOnce, ReadsWell
<1>8. ShownOnce'
  BY <1>1 DEF ShownOnce
<1>9. UndoneIsKnown'
  BY <1>1 DEF StreamInv, UndoneIsKnown
<1>10. TextIsAhead'
  <2>1. \A k \in DOMAIN pending' : pending'[k] > told
    <3>1. CASE pending' = pending
      BY <3>1 DEF StreamInv, TextIsAhead
    <3>2. CASE pending' = <<>>
      BY <3>2, NoneOnce
    <3>3. QED BY <1>1, <3>1, <3>2
  <2>2. TextIsAhead
    BY DEF StreamInv
  <2>3. QED BY <1>1, <2>1, <2>2 DEF TextIsAhead
<1>11. QED BY <1>2, <1>4, <1>5, <1>6, <1>7, <1>8, <1>9, <1>10 DEF StreamInv

\* What the client's steps start from.
LEMMA ClientFacts ==
  ASSUME StreamInv
  PROVE  /\ LinkTypes /\ view \in Views /\ pending \in Seq(Nat) /\ known \in 0 .. rev
         /\ IsInjective(view.messages) /\ ToSet(view.messages) \cap view.removed = {}
         /\ ReadsWell(syncs, rev) /\ Len(syncs) \in Nat /\ Len(syncs) <= MaxSyncs
         /\ rev \in Nat /\ MaxSyncs \in Nat
         /\ probe \in 0 .. rev \cup {Idle} /\ drops \in 0 .. MaxDrops
<1>1. ReadsWell(syncs, rev) /\ Len(syncs) \in Nat /\ rev \in Nat /\ MaxSyncs \in Nat
  BY ReadsAreWell
<1>2. QED
  BY <1>1 DEF StreamInv, ClientTypes, ReadTypes, ShownOnce, UndoneIsKnown

\* A snapshot is asked for.
LEMMA SyncAsked ==
  ASSUME StreamInv, CanSync
  PROVE  ReadsWell(Append(syncs, NewSync), rev) /\ Len(Append(syncs, NewSync)) <= MaxSyncs
<1>1. ReadsWell(Append(syncs, NewSync), rev) /\ Len(Append(syncs, NewSync)) = Len(syncs) + 1
  BY ClientFacts, AskedWell
<1>2. QED BY <1>1, ClientFacts DEF CanSync

LEMMA RefreshKeeps == StreamInv /\ Refresh => StreamInv'
<1> SUFFICES ASSUME StreamInv, Refresh
             PROVE  StreamInv'
  OBVIOUS
<1>1. LinkTypes'
  BY DEF Refresh, link, StreamInv, LinkTypes
<1>2. ReadsWell(syncs', rev) /\ Len(syncs') <= MaxSyncs
  BY SyncAsked DEF Refresh
<1>3. ClientMoves
  BY <1>2, ClientFacts DEF ClientMoves, Refresh, link, client, history
<1>4. QED BY <1>1, <1>3, ClientKeeps

\* One snapshot of those being read is a step further.
LEMMA OneRead ==
  ASSUME StreamInv, NEW i \in DOMAIN syncs, NEW s \in Reads,
         s.rev <= rev, IsInjective(s.messages), syncs' = [syncs EXCEPT ![i] = s],
         UNCHANGED <<server, rev, link, client, probe, drops, history>>
  PROVE  StreamInv'
<1>1. syncs \in Seq(Reads) /\ i \in 1..Len(syncs) /\ DOMAIN syncs = 1..Len(syncs)
  BY ClientFacts, LenProperties DEF ReadsWell
<1>2. /\ syncs' \in Seq(Reads) /\ Len(syncs') = Len(syncs)
      /\ \A j \in 1..Len(syncs) : syncs'[j] = IF j = i THEN s ELSE syncs[j]
  BY <1>1, ExceptSeq
<1>3. DOMAIN syncs' = 1..Len(syncs)
  BY <1>2, LenProperties
<1>4. ReadsWell(syncs', rev) /\ Len(syncs') <= MaxSyncs
  BY <1>1, <1>2, <1>3, ClientFacts DEF ReadsWell
<1>5. LinkTypes'
  BY DEF link, StreamInv, LinkTypes
<1>6. ClientMoves
  BY <1>4, ClientFacts DEF ClientMoves, link, client, history
<1>7. QED BY <1>5, <1>6, ClientKeeps

LEMMA ReadSnapshotKeeps ==
  ASSUME StreamInv, NEW i \in DOMAIN syncs, ReadSnapshot(i)
  PROVE  StreamInv'
<1> DEFINE page == Newest(transcript, Page)
           s == [syncs[i] EXCEPT !.at = "panels", !.ok = TRUE, !.messages = page,
                                 !.running = running, !.rev = rev]
<1>1. page \in Seq(Messages) /\ IsInjective(page)
  <2> DEFINE a == IF Len(transcript) > Page THEN Len(transcript) - Page + 1 ELSE 1
  <2>1. Len(transcript) \in Nat /\ transcript \in Seq(Messages)
    BY SessionFacts, LenProperties
  <2>2. a \in 1..(Len(transcript) + 1) /\ Len(transcript) \in 0..Len(transcript)
    BY <2>1, LimitAssumption DEF LimitAssumption
  <2> HIDE DEF a
  <2>3. page = SubSeq(transcript, a, Len(transcript))
    BY DEF Newest, a
  <2>4. IsInjective(transcript)
    BY DEF StreamInv, StoredOnce
  <2>5. QED BY <2>1, <2>2, <2>3, <2>4, SubOnce
<1> HIDE DEF page
<1>2. syncs[i] \in Reads
  BY ClientFacts, LenProperties, ElementOfSeq DEF ReadsWell
<1>3. running \in BOOLEAN /\ rev \in Nat
  BY SessionFacts
<1>4. s \in Reads /\ s.rev = rev /\ s.messages = page
  BY <1>1, <1>2, <1>3 DEF Reads
<1>5. syncs' = [syncs EXCEPT ![i] = s]
  BY DEF ReadSnapshot, page
<1> HIDE DEF s
<1>6. UNCHANGED <<server, rev, link, client, probe, drops, history>>
  BY DEF ReadSnapshot
<1>7. s.rev <= rev /\ IsInjective(s.messages)
  BY <1>1, <1>3, <1>4
<1>8. QED BY <1>4, <1>5, <1>6, <1>7, OneRead

LEMMA ReadPanelsKeeps ==
  ASSUME StreamInv, NEW i \in DOMAIN syncs, ReadPanels(i)
  PROVE  StreamInv'
<1> DEFINE s == [syncs[i] EXCEPT !.at = "apply", !.panel = panel]
<1>1. syncs[i] \in Reads /\ syncs[i].rev <= rev /\ IsInjective(syncs[i].messages)
  BY ClientFacts, LenProperties, ElementOfSeq DEF ReadsWell
<1>2. panel \in Panels
  BY SessionFacts
<1>3. s \in Reads /\ s.rev = syncs[i].rev /\ s.messages = syncs[i].messages
  BY <1>1, <1>2 DEF Reads
<1>4. syncs' = [syncs EXCEPT ![i] = s]
  BY DEF ReadPanels
<1> HIDE DEF s
<1>5. UNCHANGED <<server, rev, link, client, probe, drops, history>>
  BY DEF ReadPanels
<1>6. s.rev <= rev /\ IsInjective(s.messages)
  BY <1>1, <1>3
<1>7. QED BY <1>3, <1>4, <1>5, <1>6, OneRead

LEMMA ReadFailsKeeps ==
  ASSUME StreamInv, NEW i \in DOMAIN syncs, ReadFails(i)
  PROVE  StreamInv'
<1>1. PICK at \in {"panels", "apply"} : syncs' = [syncs EXCEPT ![i].at = at]
  BY DEF ReadFails
<1> DEFINE s == [syncs[i] EXCEPT !.at = at]
<1>2. syncs[i] \in Reads /\ syncs[i].rev <= rev /\ IsInjective(syncs[i].messages)
  BY ClientFacts, LenProperties, ElementOfSeq DEF ReadsWell
<1>3. s \in Reads /\ s.rev = syncs[i].rev /\ s.messages = syncs[i].messages
  BY <1>2 DEF Reads
<1>4. syncs' = [syncs EXCEPT ![i] = s]
  BY <1>1
<1> HIDE DEF s
<1>5. UNCHANGED <<server, rev, link, client, probe, drops, history>>
  BY DEF ReadFails
<1>6. s.rev <= rev /\ IsInjective(s.messages)
  BY <1>2, <1>3
<1>7. QED BY <1>3, <1>4, <1>5, <1>6, OneRead

\* The snapshots that are left when one was applied.
LEMMA LeftWell ==
  ASSUME NEW R \in Nat, NEW s, ReadsWell(s, R), NEW i \in DOMAIN s
  PROVE  ReadsWell(RemoveAt(s, i), R) /\ Len(RemoveAt(s, i)) <= Len(s)
<1> DEFINE front == SubSeq(s, 1, i-1)
           back == SubSeq(s, i+1, Len(s))
           t == RemoveAt(s, i)
<1>1. s \in Seq(Reads) /\ Len(s) \in Nat /\ DOMAIN s = 1..Len(s)
  BY LenProperties DEF ReadsWell
<1>2. /\ 1 \in 1..(Len(s)+1) /\ i-1 \in 0..Len(s) /\ i+1 \in 1..(Len(s)+1)
      /\ Len(s) \in 0..Len(s)
  BY <1>1
<1>3. /\ front \in Seq(Reads) /\ ToSet(front) = {s[k] : k \in 1..(i-1)}
      /\ Len(front) = i-1
  <2>1. front \in Seq(Reads) /\ ToSet(front) = {s[k] : k \in 1..(i-1)}
    BY <1>1, <1>2, SubOnce
  <2>2. Len(front) = i-1
    BY <1>1, <1>2, SubSeqProperties
  <2>3. QED BY <2>1, <2>2
<1>4. /\ back \in Seq(Reads) /\ ToSet(back) = {s[k] : k \in (i+1)..Len(s)}
      /\ Len(back) = Len(s) - i
  <2>1. back \in Seq(Reads) /\ ToSet(back) = {s[k] : k \in (i+1)..Len(s)}
    BY <1>1, <1>2, SubOnce
  <2>2. Len(back) = Len(s) - i
    BY <1>1, <1>2, SubSeqProperties
  <2>3. QED BY <2>1, <2>2
<1>5. t = front \o back
  BY DEF RemoveAt
<1> HIDE DEF front, back, t
<1>6. t \in Seq(Reads) /\ ToSet(t) = ToSet(front) \cup ToSet(back) /\ Len(t) = Len(front) + Len(back)
  <2>1. front \in Seq(Reads) /\ back \in Seq(Reads)
    BY <1>3, <1>4
  <2>2. /\ front \o back \in Seq(Reads) /\ Len(front \o back) = Len(front) + Len(back)
        /\ ToSet(front \o back) = ToSet(front) \cup ToSet(back)
    BY <2>1, ConcatOnce
  <2>3. QED BY <1>5, <2>2
<1>7. \A x \in ToSet(t) : \E k \in DOMAIN s : x = s[k]
  <2>1. 1..(i-1) \subseteq DOMAIN s /\ (i+1)..Len(s) \subseteq DOMAIN s
    BY <1>1
  <2>2. QED BY <1>3, <1>4, <1>6, <2>1
<1>8. \A j \in DOMAIN t : t[j].rev <= R /\ IsInjective(t[j].messages)
  <2>1. \A j \in DOMAIN t : t[j] \in ToSet(t)
    BY DEF ToSet
  <2>2. QED BY <1>7, <2>1 DEF ReadsWell
<1>9. Len(t) <= Len(s)
  BY <1>1, <1>3, <1>4, <1>6
<1>10. QED BY <1>6, <1>8, <1>9 DEF ReadsWell, t

LEMMA ApplyKeeps ==
  ASSUME StreamInv, NEW i \in DOMAIN syncs, Apply(i)
  PROVE  StreamInv'
<1> DEFINE s == syncs[i]
           left == RemoveAt(syncs, i)
<1>1. s \in Reads /\ s.rev <= rev /\ IsInjective(s.messages)
  BY ClientFacts, LenProperties, ElementOfSeq DEF ReadsWell
<1>2. /\ ReadsWell(left, rev) /\ Len(left) <= Len(syncs)
      /\ ReadsWell(Moved(left), rev) /\ Len(Moved(left)) = Len(left)
  <2>1. ReadsWell(left, rev) /\ Len(left) <= Len(syncs)
    BY ClientFacts, LeftWell
  <2> HIDE DEF left
  <2>2. QED BY <2>1, ClientFacts, AskedWell
<1>3. syncs' \in {left, Moved(left)}
  BY DEF Apply
<1>4. view' = Applied(view, s) /\ known' = IF s.ok /\ s.rev > known THEN s.rev ELSE known
  BY DEF Apply
<1>5. UNCHANGED <<server, rev, link, pending, probe, drops, history>>
  BY DEF Apply
<1> HIDE DEF s, left
<1>6. /\ Applied(view, s) \in Views /\ IsInjective(Applied(view, s).messages)
      /\ Applied(view, s).removed = view.removed
      /\ ToSet(Applied(view, s).messages) \cap view.removed = {}
  BY <1>1, ClientFacts, AppliedKeeps
<1>7. ReadsWell(syncs', rev) /\ Len(syncs') <= MaxSyncs
  <2>1. left \in Seq(Reads)
    BY <1>2 DEF ReadsWell
  <2>2. Len(left) \in Nat
    BY <2>1, LenProperties
  <2>3. QED BY <1>2, <1>3, <2>2, ClientFacts
<1>8. known' \in 0 .. rev
  <2>1. s.rev \in Nat
    BY <1>1 DEF Reads
  <2>2. QED BY <1>1, <1>4, <2>1, ClientFacts
<1>9. LinkTypes'
  BY <1>5 DEF link, StreamInv, LinkTypes
<1>10. ClientMoves
  BY <1>4, <1>5, <1>6, <1>7, <1>8, ClientFacts DEF ClientMoves, link, history
<1>11. QED BY <1>9, <1>10, ClientKeeps

LEMMA ProbeReadsKeeps == StreamInv /\ ProbeReads => StreamInv'
<1> SUFFICES ASSUME StreamInv, ProbeReads
             PROVE  StreamInv'
  OBVIOUS
<1>1. LinkTypes'
  BY DEF ProbeReads, link, StreamInv, LinkTypes
<1>2. probe' \in 0 .. rev \cup {Idle}
  BY ClientFacts DEF ProbeReads
<1>3. ClientMoves
  BY <1>2, ClientFacts DEF ClientMoves, ProbeReads, link, client, history
<1>4. QED BY <1>1, <1>3, ClientKeeps

LEMMA ProbeAnswersKeeps == StreamInv /\ ProbeAnswers => StreamInv'
<1> SUFFICES ASSUME StreamInv, ProbeAnswers
             PROVE  StreamInv'
  OBVIOUS
<1>1. LinkTypes'
  BY DEF ProbeAnswers, link, StreamInv, LinkTypes
<1>2. ReadsWell(syncs', rev) /\ Len(syncs') <= MaxSyncs
  <2>1. CASE probe # known
    BY <2>1, SyncAsked DEF ProbeAnswers
  <2>2. CASE probe = known
    BY <2>2, ClientFacts DEF ProbeAnswers
  <2>3. QED BY <2>1, <2>2
<1>3. known' \in 0 .. rev /\ probe' \in 0 .. rev \cup {Idle}
  BY ClientFacts DEF ProbeAnswers
<1>4. ClientMoves
  BY <1>2, <1>3, ClientFacts DEF ClientMoves, ProbeAnswers, link, history
<1>5. QED BY <1>1, <1>4, ClientKeeps

\* The text of a view is replaced.
LEMMA TextChanges ==
  ASSUME NEW v \in Views, NEW t \in Seq(Nat)
  PROVE  /\ [v EXCEPT !.text = t] \in Views
         /\ [v EXCEPT !.text = t].messages = v.messages
         /\ [v EXCEPT !.text = t].removed = v.removed
         /\ [v EXCEPT !.text = t].run = v.run
BY DEF Views

LEMMA FlushedIs ==
  ASSUME StreamInv
  PROVE  /\ Flushed \in Views /\ Flushed.messages = view.messages
         /\ Flushed.removed = view.removed /\ Flushed.run = view.run
<1> DEFINE t == view.text \o pending
<1>1. view \in Views /\ view.text \in Seq(Nat) /\ pending \in Seq(Nat)
  BY ClientFacts DEF Views
<1>2. t \in Seq(Nat)
  BY <1>1, ConcatOnce
<1>3. Flushed = [view EXCEPT !.text = t]
  BY DEF Flushed
<1> HIDE DEF t
<1>4. QED BY <1>1, <1>2, <1>3, TextChanges

LEMMA PaintKeeps == StreamInv /\ Paint => StreamInv'
<1> SUFFICES ASSUME StreamInv, Paint
             PROVE  StreamInv'
  OBVIOUS
<1>1. LinkTypes'
  BY DEF Paint, link, StreamInv, LinkTypes
<1>2. view' = Flushed /\ pending' = <<>>
  BY DEF Paint
<1>3. ClientMoves
  BY <1>2, ClientFacts, FlushedIs DEF ClientMoves, Paint, link, history
<1>4. QED BY <1>1, <1>3, ClientKeeps

LEMMA ResyncMoves ==
  ASSUME StreamInv, Resync, UNCHANGED <<server, rev, wire, batch, known, probe, drops, history>>
  PROVE  ClientMoves
<1>1. <<>> \in Seq(Nat)
  BY NoneOnce
<1>2. view' = [view EXCEPT !.text = <<>>] /\ pending' = <<>>
  BY DEF Resync
<1>3. /\ view' \in Views /\ view'.messages = view.messages /\ view'.removed = view.removed
  BY <1>1, <1>2, ClientFacts, TextChanges
<1>4. ReadsWell(syncs', rev) /\ Len(syncs') <= MaxSyncs
  BY SyncAsked DEF Resync
<1>5. QED BY <1>2, <1>3, <1>4, ClientFacts DEF ClientMoves, history

LEMMA NoticedKeeps == StreamInv /\ Noticed => StreamInv'
<1> SUFFICES ASSUME StreamInv, Noticed
             PROVE  StreamInv'
  OBVIOUS
<1>1. LinkTypes'
  BY DEF Noticed, StreamInv, LinkTypes
<1>2. ClientMoves
  BY ResyncMoves DEF Noticed
<1>3. QED BY <1>1, <1>2, ClientKeeps

LEMMA OpenKeeps == StreamInv /\ Open => StreamInv'
<1> SUFFICES ASSUME StreamInv, Open
             PROVE  StreamInv'
  OBVIOUS
<1>1. LinkTypes'
  BY DEF Open, StreamInv, LinkTypes
<1>2. ClientMoves
  BY ClientFacts DEF ClientMoves, Open, client, history
<1>3. QED BY <1>1, <1>2, ClientKeeps

LEMMA OpenedKeeps == StreamInv /\ Opened => StreamInv'
<1> SUFFICES ASSUME StreamInv, Opened
             PROVE  StreamInv'
  OBVIOUS
<1>1. LinkTypes'
  BY DEF Opened, StreamInv, LinkTypes
<1>2. ClientMoves
  BY ResyncMoves DEF Opened
<1>3. QED BY <1>1, <1>2, ClientKeeps

(***************************************************************************)
(* The steps of text, the socket's death and the delivery.                 *)
(***************************************************************************)
\* What is still said of the session and the snapshots when only they stand.
LEMMA RestStands ==
  ASSUME StreamInv, UNCHANGED <<server, syncs, probe>>, rev' \in {rev, rev + 1},
         rev' <= MaxRev, drops' \in 0 .. MaxDrops
  PROVE  /\ SessionTypes' /\ ReadTypes' /\ StoredOnce'
         /\ \A i \in DOMAIN syncs' : syncs'[i].rev <= rev'
<1>1. /\ UNCHANGED <<transcript, running, turn, writing, steers, stamps, panel>>
      /\ UNCHANGED <<syncs, probe>>
  BY DEF server
<1>2. rev \in Nat /\ rev' \in Nat /\ rev <= rev'
  BY SessionFacts
<1>3. SessionTypes'
  <2>1. turn \in 0 .. rev'
    BY <1>2, SessionFacts
  <2>2. rev' \in 0 .. MaxRev
    BY <1>2, SessionFacts
  <2>3. QED BY <1>1, <2>1, <2>2 DEF StreamInv, SessionTypes
<1>4. ReadTypes'
  <2>1. probe \in 0 .. rev' \cup {Idle}
    BY <1>2, ClientFacts
  <2>2. QED BY <1>1, <2>1 DEF StreamInv, ReadTypes, Idle
<1>5. StoredOnce'
  BY <1>1 DEF StreamInv, StoredOnce
<1>6. \A i \in DOMAIN syncs' : syncs'[i].rev <= rev'
  <2>1. \A i \in DOMAIN syncs : syncs[i].rev \in Nat /\ syncs[i].rev <= rev
    <3>1. \A i \in DOMAIN syncs : syncs[i] \in Reads /\ syncs[i].rev <= rev
      BY ClientFacts, LenProperties, ElementOfSeq DEF ReadsWell
    <3>2. QED BY <3>1 DEF Reads
  <2>2. QED BY <1>1, <1>2, <2>1
<1>7. QED BY <1>3, <1>4, <1>5, <1>6

LEMMA DropKeeps == StreamInv /\ Drop => StreamInv'
<1> SUFFICES ASSUME StreamInv, Drop
             PROVE  StreamInv'
  OBVIOUS
<1>1. /\ socket' = "dead" /\ wire' = <<>> /\ batch' = NoText
      /\ UNCHANGED <<server, rev, syncs, probe>>
      /\ UNCHANGED <<view, pending, known, undone, told>>
  BY DEF Drop, client, history
<1>2. drops' \in 0 .. MaxDrops /\ rev <= MaxRev
  BY ClientFacts, SessionFacts, BoundAssumption DEF Drop, BoundAssumption
<1>3. /\ SessionTypes' /\ ReadTypes' /\ StoredOnce'
      /\ \A i \in DOMAIN syncs' : syncs'[i].rev <= rev'
  BY <1>1, <1>2, RestStands
<1>4. DOMAIN wire' = {} /\ wire' \in Seq(Frames) /\ NoText \in [text : Seq(Nat), rev : Nat]
      /\ DOMAIN batch'.text = {} /\ batch'.text = <<>>
  BY <1>1, NoneOnce DEF NoText
<1>5. LinkTypes'
  BY <1>1, <1>4 DEF LinkTypes
<1>6. ClientTypes' /\ ShownOnce'
  BY <1>1 DEF StreamInv, ClientTypes, ShownOnce
<1>7. RevsAreCounted'
  BY <1>3, <1>4 DEF RevsAreCounted
<1>8. UndoneIsKnown'
  BY <1>1, <1>4 DEF StreamInv, UndoneIsKnown, server
<1>9. TextIsAhead'
  BY <1>1, <1>4 DEF StreamInv, TextIsAhead, server
<1>10. QED BY <1>3, <1>5, <1>6, <1>7, <1>8, <1>9 DEF StreamInv

LEMMA TypeKeeps == StreamInv /\ Type => StreamInv'
<1> SUFFICES ASSUME StreamInv, Type
             PROVE  StreamInv'
  OBVIOUS
<1>1. /\ writing /\ rev < MaxRev /\ rev' = rev + 1
      /\ batch' = IF socket \in {"opening", "up"}
                    THEN [text |-> Append(batch.text, turn), rev |-> rev']
                    ELSE batch
      /\ UNCHANGED <<socket, wire, server, syncs, probe, drops>>
      /\ UNCHANGED <<view, pending, known, undone, told>>
  BY DEF Type, others, client, history
<1>2. LinkTypes /\ ClientTypes /\ RevsAreCounted /\ UndoneIsKnown /\ TextIsAhead
  BY DEF StreamInv
<1>3. rev' \in Nat /\ rev \in Nat /\ turn \in Nat /\ rev' <= MaxRev
  BY <1>1, SessionFacts
<1>4. /\ SessionTypes' /\ ReadTypes' /\ StoredOnce'
      /\ \A i \in DOMAIN syncs' : syncs'[i].rev <= rev'
  BY <1>1, <1>3, ClientFacts, RestStands
<1>5. batch.text \in Seq(Nat) /\ batch \in [text : Seq(Nat), rev : Nat]
  BY <1>2 DEF LinkTypes
<1>6. /\ batch' \in [text : Seq(Nat), rev : Nat]
      /\ batch' = batch \/ batch'.rev = rev'
      /\ \A k \in DOMAIN batch'.text :
            \/ k \in DOMAIN batch.text /\ batch'.text[k] = batch.text[k]
            \/ batch'.text[k] = turn
  <2>1. CASE socket \in {"opening", "up"}
    <3> DEFINE t == Append(batch.text, turn)
    <3>1. batch' = [text |-> t, rev |-> rev']
      BY <1>1, <2>1
    <3>2. /\ t \in Seq(Nat) /\ Len(t) = Len(batch.text) + 1
          /\ \A k \in 1..Len(batch.text) : t[k] = batch.text[k]
          /\ t[Len(batch.text) + 1] = turn
      BY <1>3, <1>5, AppendProperties
    <3>3. DOMAIN batch.text = 1..Len(batch.text) /\ Len(batch.text) \in Nat
      BY <1>5, LenProperties
    <3> HIDE DEF t
    <3>4. DOMAIN t = 1..(Len(batch.text) + 1)
      BY <3>2, LenProperties
    <3>5. \A k \in DOMAIN t : \/ k \in DOMAIN batch.text /\ t[k] = batch.text[k]
                              \/ t[k] = turn
      <4>1. \A k \in DOMAIN t : k \in 1..Len(batch.text) \/ k = Len(batch.text) + 1
        BY <3>3, <3>4
      <4>2. QED BY <3>2, <3>3, <4>1
    <3>6. batch'.text = t /\ batch'.rev = rev' /\ batch' \in [text : Seq(Nat), rev : Nat]
      BY <1>3, <3>1, <3>2
    <3>7. QED BY <3>5, <3>6
  <2>2. CASE socket \notin {"opening", "up"}
    BY <1>1, <1>5, <2>2
  <2>3. QED BY <2>1, <2>2
<1>7. LinkTypes'
  BY <1>1, <1>2, <1>6 DEF LinkTypes
<1>8. ClientTypes' /\ ShownOnce'
  <2>1. known \in 0 .. rev'
    BY <1>1, <1>3, ClientFacts
  <2>2. QED BY <1>1, <1>2, <2>1 DEF StreamInv, ClientTypes, ShownOnce
<1>9. RevsAreCounted'
  <2>1. \A i \in DOMAIN wire' : wire'[i].rev \in 1 .. rev'
    <3>1. \A i \in DOMAIN wire : wire[i].rev \in 1 .. rev
      BY <1>2 DEF RevsAreCounted
    <3>2. 1 .. rev \subseteq 1 .. rev'
      BY <1>1, <1>3
    <3>3. QED BY <1>1, <3>1, <3>2
  <2>2. batch'.text # <<>> => batch'.rev \in 1 .. rev'
    BY <1>1, <1>2, <1>3, <1>6 DEF RevsAreCounted
  <2>3. QED BY <1>4, <2>1, <2>2 DEF RevsAreCounted
<1>10. UndoneIsKnown'
  BY <1>1, <1>2 DEF UndoneIsKnown, server
<1>11. TextIsAhead'
  <2>1. ASSUME NEW k \in DOMAIN batch'.text
        PROVE  /\ batch'.text[k] > told
               /\ \A i \in DOMAIN wire :
                     wire[i].type = "message" => batch'.text[k] > wire[i].turn
    <3>1. CASE k \in DOMAIN batch.text /\ batch'.text[k] = batch.text[k]
      BY <1>2, <3>1 DEF TextIsAhead
    <3>2. CASE batch'.text[k] = turn
      <4>1. \A i \in DOMAIN wire : wire[i] \in Frames
        BY <1>2, LenProperties, ElementOfSeq DEF LinkTypes
      <4>2. \A i \in DOMAIN wire : wire[i].type = "message" => wire[i].turn \in Nat
        BY <4>1, FrameKinds
      <4>3. /\ told \in Nat /\ told < turn
            /\ \A i \in DOMAIN wire : wire[i].type = "message" => wire[i].turn < turn
        BY <1>1, <1>2 DEF TextIsAhead, ClientTypes
      <4>4. QED BY <1>3, <3>2, <4>2, <4>3
    <3>3. QED BY <1>6, <3>1, <3>2
  <2>2. UNCHANGED <<turn, writing>>
    BY <1>1 DEF server
  <2>3. QED BY <1>1, <1>2, <2>1, <2>2 DEF TextIsAhead
<1>12. QED BY <1>4, <1>7, <1>8, <1>9, <1>10, <1>11 DEF StreamInv

LEMMA FlushKeeps == StreamInv /\ Flush => StreamInv'
<1> SUFFICES ASSUME StreamInv, Flush
             PROVE  StreamInv'
  OBVIOUS
<1>1. /\ batch.text # <<>> /\ wire' = wire \o Batched /\ batch' = NoText
      /\ UNCHANGED <<rev, socket, server, syncs, probe, drops>>
      /\ UNCHANGED <<view, pending, known, undone, told>>
  BY DEF Flush, others, client, history
<1>2. LinkTypes /\ ClientTypes /\ RevsAreCounted /\ UndoneIsKnown /\ TextIsAhead
  BY DEF StreamInv
<1>3. /\ SessionTypes' /\ ReadTypes' /\ StoredOnce'
      /\ \A i \in DOMAIN syncs' : syncs'[i].rev <= rev'
  <2>1. rev <= MaxRev /\ rev' = rev
    BY <1>1, SessionFacts
  <2>2. QED BY <1>1, <2>1, ClientFacts, RestStands
<1>4. /\ wire' \in Seq(Frames)
      /\ \A j \in DOMAIN wire' :
            \/ j \in DOMAIN wire /\ wire'[j] = wire[j]
            \/ j = Len(wire) + 1 /\ wire'[j] = TextFrame
  <2>1. [type |-> "start", rev |-> 0] \in Frames
    BY DEF Frames
  <2>2. QED BY <1>1, <1>2, <2>1, WireGrows
<1>5. /\ TextFrame.type = "delta" /\ TextFrame.text = batch.text
      /\ TextFrame.rev = batch.rev
  BY <1>2, BatchedIs
<1>6. /\ DOMAIN wire = 1..Len(wire) /\ Len(wire) \in Nat
      /\ DOMAIN wire' = 1..Len(wire') /\ Len(wire') \in Nat
  BY <1>2, <1>4, LenProperties DEF LinkTypes
<1>7. /\ NoText \in [text : Seq(Nat), rev : Nat]
      /\ DOMAIN batch'.text = {} /\ batch'.text = <<>>
  BY <1>1, NoneOnce DEF NoText
<1>8. LinkTypes'
  <2>1. socket \notin {"dead", "down"}
    BY <1>1, <1>2 DEF LinkTypes, NoText
  <2>2. QED BY <1>1, <1>2, <1>4, <1>7, <2>1 DEF LinkTypes
<1>9. ClientTypes' /\ ShownOnce'
  BY <1>1, <1>2 DEF StreamInv, ClientTypes, ShownOnce
<1>10. RevsAreCounted'
  <2>1. \A i \in DOMAIN wire' : wire'[i].rev \in 1 .. rev
    BY <1>1, <1>2, <1>4, <1>5 DEF RevsAreCounted
  <2>2. QED BY <1>1, <1>3, <1>7, <2>1 DEF RevsAreCounted
<1>11. ASSUME NEW i \in DOMAIN wire', wire'[i].type # "delta"
       PROVE  i \in DOMAIN wire /\ wire'[i] = wire[i]
  BY <1>4, <1>5, <1>11
<1>12. UndoneIsKnown'
  <2>1. ASSUME NEW j \in DOMAIN wire', wire'[j].type \in {"message", "checkpoint"}
        PROVE  /\ wire'[j].message \notin view.removed
               /\ \A i \in 1 .. (j-1) :
                     wire'[i].type = "truncated" => wire'[j].message \notin wire'[i].removed
    <3>1. j \in DOMAIN wire /\ wire'[j] = wire[j]
      BY <1>11, <2>1
    <3>2. \A i \in 1 .. (j-1) : i \in DOMAIN wire'
      BY <1>6, <2>1
    <3>3. QED BY <1>2, <1>11, <2>1, <3>1, <3>2 DEF UndoneIsKnown
  <2>2. UNCHANGED stamps
    BY <1>1 DEF server
  <2>3. QED BY <1>1, <1>2, <1>11, <2>1, <2>2 DEF UndoneIsKnown
<1>13. TextIsAhead'
  <2>1. ASSUME NEW j \in DOMAIN wire', wire'[j].type = "delta",
               NEW k \in DOMAIN wire'[j].text
        PROVE  /\ wire'[j].text[k] > told
               /\ \A i \in 1 .. (j-1) :
                     wire'[i].type = "message" => wire'[j].text[k] > wire'[i].turn
    <3>1. \A i \in 1 .. (j-1) : i \in DOMAIN wire'
      BY <1>6, <2>1
    <3>2. CASE j \in DOMAIN wire /\ wire'[j] = wire[j]
      BY <1>2, <1>11, <2>1, <3>1, <3>2 DEF TextIsAhead
    <3>3. CASE wire'[j] = TextFrame
      BY <1>2, <1>5, <1>11, <2>1, <3>1, <3>3 DEF TextIsAhead
    <3>4. QED BY <1>4, <3>2, <3>3
  <2>2. UNCHANGED <<turn, writing>>
    BY <1>1 DEF server
  <2>3. QED BY <1>1, <1>2, <1>7, <1>11, <2>1, <2>2 DEF TextIsAhead
<1>14. QED BY <1>3, <1>8, <1>9, <1>10, <1>12, <1>13 DEF StreamInv

\* The wire without its first frame.
LEMMA WireShrinks ==
  ASSUME LinkTypes, wire # <<>>, wire' = Tail(wire)
  PROVE  /\ Head(wire) = wire[1] /\ wire[1] \in Frames /\ 1 \in DOMAIN wire
         /\ wire' \in Seq(Frames) /\ DOMAIN wire' = 1..Len(wire')
         /\ \A j \in DOMAIN wire' :
               /\ j+1 \in DOMAIN wire /\ wire'[j] = wire[j+1]
               /\ 1 \in 1..((j+1)-1)
               /\ \A i \in 1..(j-1) : i \in DOMAIN wire' /\ i+1 \in 1..((j+1)-1)
<1>1. /\ wire \in Seq(Frames) /\ Len(wire) \in Nat /\ DOMAIN wire = 1..Len(wire)
  BY LenProperties DEF LinkTypes
<1>2. /\ Head(wire) \in Frames /\ Tail(wire) \in Seq(Frames)
      /\ Len(Tail(wire)) = Len(wire) - 1
      /\ \A i \in 1..Len(Tail(wire)) : Tail(wire)[i] = wire[i+1]
  BY <1>1, HeadTailProperties
<1>3. Len(wire) # 0
  BY <1>1, EmptySeq
<1>4. Head(wire) = wire[1]
  BY <1>1, <1>3
<1>5. DOMAIN wire' = 1..(Len(wire) - 1) /\ Len(wire') = Len(wire) - 1
  BY <1>2, LenProperties
<1>6. 1 \in DOMAIN wire
  BY <1>1, <1>3
<1>7. ASSUME NEW j \in DOMAIN wire'
      PROVE  /\ j+1 \in DOMAIN wire /\ wire'[j] = wire[j+1]
             /\ 1 \in 1..((j+1)-1)
             /\ \A i \in 1..(j-1) : i \in DOMAIN wire' /\ i+1 \in 1..((j+1)-1)
  <2>1. j \in 1..(Len(wire) - 1)
    BY <1>5
  <2>2. j+1 \in DOMAIN wire /\ 1 \in 1..((j+1)-1)
    BY <1>1, <2>1
  <2>3. \A i \in 1..(j-1) : i \in DOMAIN wire' /\ i+1 \in 1..((j+1)-1)
    BY <1>1, <1>5, <2>1
  <2>4. wire'[j] = wire[j+1]
    BY <1>2, <1>5, <2>1
  <2>5. QED BY <2>2, <2>3, <2>4
<1>8. QED BY <1>2, <1>4, <1>5, <1>6, <1>7

\* Text is delivered.
LEMMA TextDelivered ==
  ASSUME StreamInv, Deliver, Head(wire).type = "delta"
  PROVE  StreamInv'
<1> DEFINE f == wire[1]
<1>1. LinkTypes /\ ClientTypes /\ RevsAreCounted /\ UndoneIsKnown /\ TextIsAhead
  BY DEF StreamInv
<1>2. wire # <<>> /\ wire' = Tail(wire) /\ socket = "up"
  BY DEF Deliver
<1>3. /\ Head(wire) = f /\ f \in Frames /\ 1 \in DOMAIN wire
      /\ wire' \in Seq(Frames) /\ DOMAIN wire' = 1..Len(wire')
      /\ \A j \in DOMAIN wire' :
            /\ j+1 \in DOMAIN wire /\ wire'[j] = wire[j+1]
            /\ 1 \in 1..((j+1)-1)
            /\ \A i \in 1..(j-1) : i \in DOMAIN wire' /\ i+1 \in 1..((j+1)-1)
  BY <1>1, <1>2, WireShrinks
<1> HIDE DEF f
<1>4. f.type = "delta" /\ f.text \in Seq(Nat)
  BY <1>3, FrameKinds
<1>5. /\ pending' = pending \o f.text
      /\ UNCHANGED <<view, known, syncs, undone, told>>
      /\ UNCHANGED <<server, rev, socket, batch, probe, drops>>
  BY <1>3 DEF Deliver, history
<1>6. /\ SessionTypes' /\ ReadTypes' /\ StoredOnce'
      /\ \A i \in DOMAIN syncs' : syncs'[i].rev <= rev'
  <2>1. rev <= MaxRev /\ rev' = rev
    BY <1>5, SessionFacts
  <2>2. QED BY <1>5, <2>1, ClientFacts, RestStands
<1>7. LinkTypes'
  BY <1>1, <1>2, <1>3, <1>5 DEF LinkTypes
<1>8. /\ pending' \in Seq(Nat)
      /\ \A k \in DOMAIN pending' : \/ k \in DOMAIN pending /\ pending'[k] = pending[k]
                                    \/ \E i \in DOMAIN f.text : pending'[k] = f.text[i]
  <2>1. pending \in Seq(Nat) /\ f.text \in Seq(Nat)
    BY <1>1, <1>4 DEF ClientTypes
  <2> DEFINE u == pending \o f.text
  <2>2. /\ u \in Seq(Nat)
        /\ \A i \in DOMAIN pending : i \in DOMAIN u /\ u[i] = pending[i]
        /\ \A i \in DOMAIN f.text : u[Len(pending) + i] = f.text[i]
        /\ \A k \in DOMAIN u : k \in DOMAIN pending \/ \E i \in DOMAIN f.text : k = Len(pending) + i
    BY <2>1, ConcatOnce
  <2>3. pending' = u
    BY <1>5
  <2> HIDE DEF u
  <2>4. QED BY <2>2, <2>3
<1>9. ClientTypes' /\ ShownOnce'
  BY <1>1, <1>5, <1>8 DEF StreamInv, ClientTypes, ShownOnce
<1>10. RevsAreCounted'
  BY <1>1, <1>3, <1>5, <1>6 DEF RevsAreCounted
<1>11. UNCHANGED <<stamps, turn, writing>>
  BY <1>5 DEF server
<1>12. UndoneIsKnown'
  <2>1. ASSUME NEW j \in DOMAIN wire', wire'[j].type \in {"message", "checkpoint"}
        PROVE  /\ wire'[j].message \notin view.removed
               /\ \A i \in 1 .. (j-1) :
                     wire'[i].type = "truncated" => wire'[j].message \notin wire'[i].removed
    <3>1. /\ wire[j+1].message \notin view.removed
          /\ \A i \in 1 .. ((j+1)-1) :
                wire[i].type = "truncated" => wire[j+1].message \notin wire[i].removed
      BY <1>1, <1>3, <2>1 DEF UndoneIsKnown
    <3>2. QED BY <1>3, <3>1
  <2>2. \A i \in DOMAIN wire' :
           wire'[i].type = "truncated" => wire'[i].removed \subseteq 1 .. stamps
    BY <1>1, <1>3 DEF UndoneIsKnown
  <2>3. QED BY <1>1, <1>5, <1>11, <2>1, <2>2 DEF UndoneIsKnown
<1>13. TextIsAhead'
  <2>1. \A k \in DOMAIN pending' : pending'[k] > told
    BY <1>1, <1>3, <1>4, <1>8 DEF TextIsAhead
  <2>2. ASSUME NEW j \in DOMAIN wire', wire'[j].type = "delta",
               NEW k \in DOMAIN wire'[j].text
        PROVE  /\ wire'[j].text[k] > told
               /\ \A i \in 1 .. (j-1) :
                     wire'[i].type = "message" => wire'[j].text[k] > wire'[i].turn
    <3>1. /\ wire[j+1].text[k] > told
          /\ \A i \in 1 .. ((j+1)-1) :
                wire[i].type = "message" => wire[j+1].text[k] > wire[i].turn
      BY <1>1, <1>3, <2>2 DEF TextIsAhead
    <3>2. QED BY <1>3, <3>1
  <2>3. \A i \in DOMAIN wire' : wire'[i] = wire[i+1] /\ i+1 \in DOMAIN wire
    BY <1>3
  <2>4. QED BY <1>1, <1>5, <1>11, <2>1, <2>2, <2>3 DEF TextIsAhead
<1>14. QED BY <1>6, <1>7, <1>9, <1>10, <1>12, <1>13 DEF StreamInv

\* Any other event is delivered.
LEMMA EventDelivered ==
  ASSUME StreamInv, Deliver, Head(wire).type # "delta"
  PROVE  StreamInv'
<1> DEFINE f == wire[1]
           asked == IF Gap(f) THEN Append(syncs, NewSync) ELSE syncs
<1>1. LinkTypes /\ ClientTypes /\ RevsAreCounted /\ UndoneIsKnown /\ TextIsAhead
  BY DEF StreamInv
<1>2. wire # <<>> /\ wire' = Tail(wire) /\ socket = "up"
  BY DEF Deliver
<1>3. /\ Head(wire) = f /\ f \in Frames /\ 1 \in DOMAIN wire
      /\ wire' \in Seq(Frames) /\ DOMAIN wire' = 1..Len(wire')
      /\ \A j \in DOMAIN wire' :
            /\ j+1 \in DOMAIN wire /\ wire'[j] = wire[j+1]
            /\ 1 \in 1..((j+1)-1)
            /\ \A i \in 1..(j-1) : i \in DOMAIN wire' /\ i+1 \in 1..((j+1)-1)
  BY <1>1, <1>2, WireShrinks
<1>4. f.type # "delta" /\ wire[1] = f
  BY <1>3
<1>5. /\ Gap(f) => CanSync
      /\ known' = f.rev /\ view' = Reduced(Flushed, f) /\ pending' = <<>>
      /\ syncs' \in {asked, Moved(asked)}
      /\ told' = IF f.type = "message" /\ f.turn > 0 THEN f.turn ELSE told
      /\ undone' = IF f.type = "truncated" THEN undone \cup f.removed ELSE undone
      /\ UNCHANGED <<server, rev, socket, batch, probe, drops>>
  <2> HIDE DEF f
  <2>1. QED BY <1>3, <1>4 DEF Deliver
<1>6. f.rev \in 1 .. rev
  BY <1>1, <1>3 DEF RevsAreCounted
<1> HIDE DEF f
<1>7. UNCHANGED <<transcript, running, turn, writing, steers, stamps, panel>>
  BY <1>5 DEF server
<1>8. ReadsWell(syncs', rev) /\ Len(syncs') <= MaxSyncs
  <2>1. ReadsWell(asked, rev) /\ Len(asked) <= MaxSyncs
    <3>1. CASE Gap(f)
      BY <1>5, <3>1, SyncAsked
    <3>2. CASE ~ Gap(f)
      BY <3>2, ClientFacts
    <3>3. QED BY <3>1, <3>2
  <2> HIDE DEF asked
  <2>2. ReadsWell(Moved(asked), rev) /\ Len(Moved(asked)) = Len(asked)
    BY <2>1, ClientFacts, AskedWell
  <2>3. QED BY <1>5, <2>1, <2>2
<1> HIDE DEF asked
<1>9. SessionTypes' /\ StoredOnce'
  <2>1. SessionTypes'
    BY <1>5, <1>7 DEF StreamInv, SessionTypes
  <2>2. StoredOnce'
    BY <1>7, <1>8 DEF StreamInv, StoredOnce, ReadsWell
  <2>3. QED BY <2>1, <2>2
<1>10. ReadTypes'
  BY <1>5, <1>8, ClientFacts DEF ReadTypes, ReadsWell, Idle
<1>11. LinkTypes'
  BY <1>1, <1>2, <1>3, <1>5 DEF LinkTypes
<1>12. RevsAreCounted'
  BY <1>1, <1>3, <1>5, <1>8 DEF RevsAreCounted, ReadsWell
<1> DEFINE v == Flushed
<1>13. /\ v \in Views /\ v.messages = view.messages /\ v.removed = view.removed
       /\ IsInjective(v.messages)
  BY FlushedIs, ClientFacts
<1> HIDE DEF v
<1>14. /\ Reduced(v, f) \in Views
       /\ IsInjective(v.messages) => IsInjective(Reduced(v, f).messages)
       /\ Reduced(v, f).removed =
            IF f.type = "truncated" THEN v.removed \cup f.removed ELSE v.removed
       /\ ToSet(Reduced(v, f).messages) \subseteq
            CASE f.type \in {"message", "checkpoint"} -> ToSet(v.messages) \cup {f.message}
              [] f.type = "truncated" -> ToSet(v.messages) \ f.removed
              [] OTHER -> ToSet(v.messages)
  BY <1>3, <1>4, <1>13, ReducedKeeps
<1>15. view' = Reduced(v, f)
  BY <1>5 DEF v
<1>16. told' \in Nat /\ told \in Nat
  <2>1. f.type = "message" => f.turn \in Nat
    BY <1>3, FrameKinds
  <2>2. QED BY <1>1, <1>5, <2>1 DEF ClientTypes
<1>17. ClientTypes'
  <2>1. known' \in 0 .. rev'
    BY <1>5, <1>6, SessionFacts
  <2>2. pending' \in Seq(Nat)
    BY <1>5, NoneOnce
  <2>3. QED BY <1>14, <1>15, <1>16, <2>1, <2>2 DEF ClientTypes
<1>18. ShownOnce'
  BY <1>13, <1>14, <1>15 DEF ShownOnce
<1>19. UndoneIsKnown'
  <2>1. /\ undone = view.removed /\ view.removed \subseteq 1 .. stamps
        /\ ToSet(view.messages) \cap view.removed = {}
        /\ f.type = "truncated" => f.removed \subseteq 1 .. stamps
        /\ f.type \in {"message", "checkpoint"} => f.message \notin view.removed
    BY <1>1, <1>3, <1>4 DEF UndoneIsKnown
  <2>2. undone' = view'.removed /\ view'.removed \subseteq 1 .. stamps
    BY <1>5, <1>13, <1>14, <1>15, <2>1
  <2>3. ToSet(view'.messages) \cap view'.removed = {}
    <3>1. CASE f.type \in {"message", "checkpoint"}
      <4>1. /\ ToSet(view'.messages) \subseteq ToSet(view.messages) \cup {f.message}
            /\ view'.removed = view.removed
        BY <1>13, <1>14, <1>15, <3>1
      <4>2. QED BY <2>1, <3>1, <4>1
    <3>2. CASE f.type = "truncated"
      <4>1. /\ ToSet(view'.messages) \subseteq ToSet(view.messages) \ f.removed
            /\ view'.removed = view.removed \cup f.removed
        BY <1>13, <1>14, <1>15, <3>2
      <4>2. QED BY <2>1, <4>1
    <3>3. CASE f.type \notin {"message", "checkpoint", "truncated"}
      <4>1. /\ ToSet(view'.messages) \subseteq ToSet(view.messages)
            /\ view'.removed = view.removed
        BY <1>13, <1>14, <1>15, <3>3
      <4>2. QED BY <2>1, <4>1
    <3>4. QED BY <3>1, <3>2, <3>3
  <2>4. ASSUME NEW j \in DOMAIN wire', wire'[j].type \in {"message", "checkpoint"}
        PROVE  /\ wire'[j].message \notin view'.removed
               /\ \A i \in 1 .. (j-1) :
                     wire'[i].type = "truncated" => wire'[j].message \notin wire'[i].removed
    <3>1. /\ wire[j+1].message \notin view.removed
          /\ \A i \in 1 .. ((j+1)-1) :
                wire[i].type = "truncated" => wire[j+1].message \notin wire[i].removed
      BY <1>1, <1>3, <2>4 DEF UndoneIsKnown
    <3>2. f.type = "truncated" => wire[j+1].message \notin f.removed
      BY <1>3, <1>4, <2>4, <3>1
    <3>3. wire'[j].message \notin view'.removed
      BY <1>3, <1>13, <1>14, <1>15, <2>4, <3>1, <3>2
    <3>4. QED BY <1>3, <2>4, <3>1, <3>3
  <2>5. \A i \in DOMAIN wire' :
           wire'[i].type = "truncated" => wire'[i].removed \subseteq 1 .. stamps
    BY <1>1, <1>3 DEF UndoneIsKnown
  <2>6. QED BY <1>7, <2>2, <2>3, <2>4, <2>5 DEF UndoneIsKnown
<1>20. TextIsAhead'
  <2>1. DOMAIN pending' = {}
    BY <1>5, NoneOnce
  <2>2. told' = told \/ (f.type = "message" /\ told' = f.turn)
    BY <1>5
  <2>3. ASSUME NEW j \in DOMAIN wire', wire'[j].type = "delta",
               NEW k \in DOMAIN wire'[j].text
        PROVE  /\ wire'[j].text[k] > told'
               /\ \A i \in 1 .. (j-1) :
                     wire'[i].type = "message" => wire'[j].text[k] > wire'[i].turn
    <3>1. /\ wire[j+1].text[k] > told
          /\ \A i \in 1 .. ((j+1)-1) :
                wire[i].type = "message" => wire[j+1].text[k] > wire[i].turn
      BY <1>1, <1>3, <2>3 DEF TextIsAhead
    <3>2. f.type = "message" => wire[j+1].text[k] > f.turn
      BY <1>3, <1>4, <2>3, <3>1
    <3>3. QED BY <1>3, <2>2, <2>3, <3>1, <3>2
  <2>4. ASSUME NEW k \in DOMAIN batch.text
        PROVE  /\ batch.text[k] > told'
               /\ \A i \in DOMAIN wire' :
                     wire'[i].type = "message" => batch.text[k] > wire'[i].turn
    <3>1. /\ batch.text[k] > told
          /\ \A i \in DOMAIN wire :
                wire[i].type = "message" => batch.text[k] > wire[i].turn
      BY <1>1, <2>4 DEF TextIsAhead
    <3>2. f.type = "message" => batch.text[k] > f.turn
      BY <1>3, <1>4, <3>1
    <3>3. QED BY <1>3, <2>2, <3>1, <3>2
  <2>5. /\ told <= turn /\ (writing => told < turn)
        /\ \A i \in DOMAIN wire : wire[i].type = "message" => wire[i].turn <= turn
        /\ writing => \A i \in DOMAIN wire : wire[i].type = "message" => wire[i].turn < turn
    BY <1>1 DEF TextIsAhead
  <2>6. told' <= turn /\ (writing => told' < turn)
    BY <1>3, <1>4, <2>2, <2>5
  <2>7. /\ \A i \in DOMAIN wire' : wire'[i].type = "message" => wire'[i].turn <= turn
        /\ writing => \A i \in DOMAIN wire' : wire'[i].type = "message" => wire'[i].turn < turn
    BY <1>3, <2>5
  <2>8. batch' = batch
    BY <1>5
  <2>9. QED BY <1>7, <2>1, <2>3, <2>4, <2>6, <2>7, <2>8 DEF TextIsAhead
<1>21. QED BY <1>9, <1>10, <1>11, <1>12, <1>17, <1>18, <1>19, <1>20 DEF StreamInv

(***************************************************************************)
(* The theorem.                                                            *)
(***************************************************************************)
LEMMA StreamStarts == Init => StreamInv
<1> SUFFICES ASSUME Init
             PROVE  StreamInv
  OBVIOUS
<1>1. /\ \A S : <<>> \in Seq(S)
      /\ DOMAIN <<>> = {} /\ Len(<<>>) = 0 /\ IsInjective(<<>>) /\ ToSet(<<>>) = {}
  BY NoneOnce
<1>2. MaxRev \in Nat /\ MaxMsgs \in Nat /\ MaxDrops \in Nat /\ MaxSyncs \in Nat
  BY BoundAssumption DEF BoundAssumption
<1>3. SessionTypes
  <2>1. /\ running = FALSE /\ writing = FALSE /\ panel = "none"
        /\ transcript = <<>> /\ steers = <<>> /\ rev = 0 /\ turn = 0 /\ stamps = 0
    BY DEF Init
  <2>2. transcript \in Seq(Messages) /\ steers \in Seq(Messages)
    BY <1>1, <2>1
  <2>3. rev \in 0 .. MaxRev /\ turn \in 0 .. rev /\ stamps \in 0 .. MaxMsgs
    BY <1>2, <2>1
  <2>4. running \in BOOLEAN /\ writing \in BOOLEAN /\ (writing => running) /\ panel \in Panels
    BY <2>1 DEF Panels
  <2>5. QED BY <2>2, <2>3, <2>4 DEF SessionTypes
<1>4. LinkTypes
  BY <1>1 DEF Init, LinkTypes, NoText
<1>5. ClientTypes
  <2>1. view \in Views
    BY <1>1 DEF Init, Views, Panels
  <2>2. QED BY <1>1, <2>1 DEF Init, ClientTypes
<1>6. ReadTypes
  BY <1>1, <1>2 DEF Init, ReadTypes
<1>7. RevsAreCounted
  BY <1>1 DEF Init, RevsAreCounted, NoText
<1>8. StoredOnce
  BY <1>1 DEF Init, StoredOnce
<1>9. ShownOnce
  BY <1>1 DEF Init, ShownOnce
<1>10. UndoneIsKnown
  BY <1>1 DEF Init, UndoneIsKnown
<1>11. TextIsAhead
  BY <1>1 DEF Init, TextIsAhead, NoText
<1>12. QED BY <1>3, <1>4, <1>5, <1>6, <1>7, <1>8, <1>9, <1>10, <1>11 DEF StreamInv

LEMMA StreamKeeps == StreamInv /\ [Next]_vars => StreamInv'
<1> SUFFICES ASSUME StreamInv, [Next]_vars
             PROVE  StreamInv'
  OBVIOUS
<1>1. CASE Session
  <2>1. StartRun \/ Begin \/ Type \/ Answer \/ Add \/ Steer \/ EndRun \/ Checkpoint
        \/ Undo \/ TaskMoves
    BY <1>1 DEF Session
  <2>2. QED
    BY <2>1, StartRunKeeps, BeginKeeps, TypeKeeps, AnswerKeeps, AddKeeps, SteerKeeps,
       EndRunKeeps, CheckpointKeeps, UndoKeeps, TaskMovesKeeps
<1>2. CASE Reading
  <2>1. PICK i \in DOMAIN syncs :
          ReadSnapshot(i) \/ ReadPanels(i) \/ ReadFails(i) \/ Apply(i)
    BY <1>2 DEF Reading
  <2>2. QED BY <2>1, ReadSnapshotKeeps, ReadPanelsKeeps, ReadFailsKeeps, ApplyKeeps
<1>3. CASE Deliver
  BY <1>3, TextDelivered, EventDelivered
<1>4. CASE Flush \/ Refresh \/ Paint \/ Drop
  BY <1>4, FlushKeeps, RefreshKeeps, PaintKeeps, DropKeeps
<1>5. CASE Noticed \/ Open \/ Opened
  BY <1>5, NoticedKeeps, OpenKeeps, OpenedKeeps
<1>6. CASE ProbeReads \/ ProbeAnswers
  BY <1>6, ProbeReadsKeeps, ProbeAnswersKeeps
<1>7. CASE UNCHANGED vars
  <2>1. /\ UNCHANGED <<server, rev, link, client, syncs, probe, drops, history>>
    BY <1>7 DEF vars
  <2>2. LinkTypes'
    BY <2>1 DEF link, StreamInv, LinkTypes
  <2>3. ClientMoves
    BY <2>1, ClientFacts DEF ClientMoves, link, client, history
  <2>4. QED BY <2>2, <2>3, ClientKeeps
<1>8. QED BY <1>1, <1>2, <1>3, <1>4, <1>5, <1>6, <1>7 DEF Next

\* What is shown belongs there, whatever mixture of snapshots, events, undos and
\* text brought it, for any number of events, messages, sockets that die and
\* snapshots that cross, in any environment: no message twice (events/merge.ts),
\* none after its undo (identity.ts, filterRemoved), and no text beneath the answer
\* it is of (ws-stream.ts, send; useSessionEvents.ts, flushDeltas).
THEOREM ViewStaysSound == Spec => []ViewIsSound
<1>1. Init => StreamInv
  BY StreamStarts
<1>2. StreamInv /\ [Next]_vars => StreamInv'
  BY StreamKeeps
<1>3. StreamInv => ViewIsSound
  <2> SUFFICES ASSUME StreamInv
               PROVE  ViewIsSound
    OBVIOUS
  <2>1. TypeOK
    BY StreamTypeOK
  <2>2. ShownOnce
    BY DEF StreamInv
  <2>3. UndoneStaysGone
    BY DEF StreamInv, UndoneIsKnown, UndoneStaysGone
  <2>4. TextEndsWithItsAnswer
    BY DEF StreamInv, TextIsAhead, TextEndsWithItsAnswer
  <2>5. QED BY <2>1, <2>2, <2>3, <2>4 DEF ViewIsSound
<1>4. QED BY <1>1, <1>2, <1>3, PTL DEF Spec
===============================================================================
