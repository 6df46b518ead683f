----------------------- MODULE TranscriptRows_proofs -----------------------
(***************************************************************************)
(* Theorems about TranscriptRows for every value of its constants: the     *)
(* view, the table and the clients hold one conversation, whose checkpoints*)
(* describe what is in front of them and which loses an end or nothing;    *)
(* and that is what StoredLog promises.                                    *)
(***************************************************************************)
EXTENDS TranscriptRows, SequenceTheorems, FiniteSetTheorems,
        WellFoundedInduction, TLAPS

(***************************************************************************)
(* The invariant.  It is about the log and says how the view, the table    *)
(* and a summary that is out lie in it.                                    *)
(***************************************************************************)
\* The ids of what a checkpoint at position n of L stands for: everything back
\* to the checkpoint before it, and that one.
Since(L, n) ==
    {L[k].id : k \in {k \in 1..(n - 1) :
                        \A m \in (k + 1)..(n - 1) : L[m].role # "checkpoint"}}

Once(L) == \A i, j \in 1..Len(L) : L[i].id = L[j].id => i = j

\* A result is behind its call.
Answers(L) == \A i \in 1..Len(L) :
    L[i].role = "result" => i > 1 /\ L[i - 1].role = "calls"

\* A checkpoint stands for what is in front of it, nothing else stands for more
\* than itself.
DescribedAt(L, i) ==
    /\ L[i].role = "checkpoint" => L[i].covers = Since(L, i)
    /\ L[i].role # "checkpoint" => L[i].covers = {}

Described(L) == \A i \in 1..Len(L) : DescribedAt(L, i)

\* A view that is not the whole conversation starts with a checkpoint.
StartsAtMark(L, b) == b > 0 => b < Len(L) /\ L[b + 1].role = "checkpoint"

Sound(L, b) ==
    /\ L \in Seq(Message) /\ b \in Nat /\ b <= Len(L)
    /\ Once(L) /\ Answers(L) /\ Described(L) /\ StartsAtMark(L, b)

\* How the table and the view lie in the log.
Laid(L, r, v, b, c) ==
    /\ Len(L) = b + Len(v) /\ c <= Len(v) /\ Len(r) = b + c
    /\ \A i \in 1..Len(v) : L[b + i] = v[i]
    /\ \A i \in 1..Len(r) : r[i] = L[i]

\* What is queued is nowhere else, and stamps are given once.
QueuedApart(L, q, clk) ==
    /\ \A i \in 1..Len(L) : L[i].id < clk
    /\ \A i \in 1..Len(q) : q[i] < clk /\ \A j \in 1..Len(L) : L[j].id # q[i]
    /\ \A i, j \in 1..Len(q) : q[i] = q[j] => i = j

\* A checkpoint may be put in at C, in front of a stored message.
Fits(L, b, c, C, covers) ==
    /\ b + 1 <= C /\ C < b + c /\ b + c <= Len(L)
    /\ L[C + 1].role # "result"
    /\ \A m \in (C + 1)..Len(L) : L[m].role # "checkpoint"
    /\ covers = Since(L, C + 1)

\* The summary of an idle check: what it was computed from is there, or the
\* message that was the newest then is gone for good.
Seen(L, b, c, s) ==
    /\ Fits(L, b, c, b + s.cut, s.covers)
    /\ s.cut < s.len /\ b + s.len <= Len(L)
    /\ L[b + s.len].id = s.newest

Lost(L, q, clk, s) ==
    /\ s.newest < clk
    /\ \A i \in 1..Len(L) : L[i].id # s.newest
    /\ \A i \in 1..Len(q) : q[i] # s.newest

Stands(L, b, c, q, clk, a, s) ==
    \/ s = NoSummary
    \/ /\ s.by # "none" /\ s.len >= 1
       /\ s.by = "step" => a = "summary"
       /\ s.by # "idle" => ~ s.closed /\ Fits(L, b, c, b + s.cut, s.covers)
       /\ s.by = "idle" /\ ~ s.closed => Seen(L, b, c, s) \/ Lost(L, q, clk, s)

\* A routine's run starts inside the view, behind its checkpoint.
RoutineStands(v, b, from) ==
    from # None => from < Len(v) /\ (b > 0 => from >= 1)

\* The clients show the log; nothing undone is in it or on its way into it.
Shows(L, sh, si) ==
    /\ \A i \in 1..Len(L) : L[i].id \in sh
    /\ \A x \in sh : x \in si \/ \E i \in 1..Len(L) : L[i].id = x

Gone(L, q, clk, as, un) ==
    /\ \A t \in as : t < clk
    /\ \A t \in un : /\ t < clk
                     /\ \A i \in 1..Len(L) : L[i].id # t
                     /\ \A i \in 1..Len(q) : q[i] # t

RowsInv ==
    /\ TypeOK
    /\ Laid(Log, rows, view, base, count)
    /\ Sound(Log, base)
    /\ QueuedApart(Log, queue, clock)
    /\ Stands(Log, base, count, queue, clock, at, summary)
    /\ RoutineStands(view, base, routineAt)
    /\ Shows(Log, shown, silenced)
    /\ Gone(Log, queue, clock, asked, undone)


(***************************************************************************)
(* Sequences by their positions.                                           *)
(***************************************************************************)
\* A set of positions that is not empty has a last one.
LEMMA LastOf ==
  ASSUME NEW n \in Nat, NEW S, S \subseteq 1..n, S # {}
  PROVE  \E i \in S : \A j \in S : j <= i
<1> DEFINE T == {k \in Nat : n - k \in S}
<1>1. PICK i \in S : TRUE
  OBVIOUS
<1>2. n - i \in T
  BY <1>1
<1>3. PICK k \in T : \A j \in T : ~ <<j, k>> \in OpToRel(<, Nat)
  BY <1>2, NatLessThanWellFounded, WFMin
<1> HIDE DEF T
<1>4. k \in Nat /\ n - k \in S
  BY <1>3 DEF T
<1>5. ASSUME NEW j \in S PROVE j <= n - k
  <2>1. n - j \in T /\ n - j \in Nat /\ j \in Nat
    BY DEF T
  <2>2. ~ (n - j < k)
    BY <1>3, <1>4, <2>1 DEF OpToRel
  <2>3. QED BY <1>4, <2>1, <2>2
<1>6. QED BY <1>4, <1>5

LEMMA JoinIs ==
  ASSUME NEW s \in Seq(Message), NEW t \in Seq(Message)
  PROVE  /\ s \o t \in Seq(Message)
         /\ Len(s \o t) = Len(s) + Len(t)
         /\ Len(s) \in Nat /\ Len(t) \in Nat
         /\ \A i \in 1..Len(s) : (s \o t)[i] = s[i]
         /\ \A i \in 1..Len(t) : (s \o t)[Len(s) + i] = t[i]
<1>1. Len(s) \in Nat /\ Len(t) \in Nat
  BY LenProperties
<1>2. QED BY <1>1, ConcatProperties

\* deleteFrom and splice(index): what is in front of the index stays.
LEMMA CutIs ==
  ASSUME NEW s \in Seq(Message), NEW n \in Nat, n <= Len(s)
  PROVE  /\ Cut(s, n) \in Seq(Message) /\ Len(Cut(s, n)) = n
         /\ \A i \in 1..n : Cut(s, n)[i] = s[i]
<1>1. Len(s) \in Nat
  BY LenProperties
<1>2. \A i \in 1..n : s[i] \in Message
  BY <1>1, ElementOfSeq
<1>3. Cut(s, n) = SubSeq(s, 1, n)
  BY <1>1 DEF Cut
<1>4. /\ SubSeq(s, 1, n) \in Seq(Message)
      /\ Len(SubSeq(s, 1, n)) = IF 1 <= n THEN n - 1 + 1 ELSE 0
      /\ \A i \in 1..(n - 1 + 1) : SubSeq(s, 1, n)[i] = s[1 + i - 1]
  BY <1>2, SubSeqProperties
<1>5. QED BY <1>3, <1>4

\* The end of s behind its first n messages.
LEMMA RestIs ==
  ASSUME NEW s \in Seq(Message), NEW n \in Nat, n <= Len(s)
  PROVE  /\ SubSeq(s, n + 1, Len(s)) \in Seq(Message)
         /\ Len(SubSeq(s, n + 1, Len(s))) = Len(s) - n
         /\ \A i \in 1..(Len(s) - n) : SubSeq(s, n + 1, Len(s))[i] = s[n + i]
<1>1. Len(s) \in Nat
  BY LenProperties
<1>2. \A i \in (n + 1)..Len(s) : s[i] \in Message
  BY <1>1, ElementOfSeq
<1>3. /\ SubSeq(s, n + 1, Len(s)) \in Seq(Message)
      /\ Len(SubSeq(s, n + 1, Len(s))) =
           IF n + 1 <= Len(s) THEN Len(s) - (n + 1) + 1 ELSE 0
      /\ \A i \in 1..(Len(s) - (n + 1) + 1) :
            SubSeq(s, n + 1, Len(s))[i] = s[n + 1 + i - 1]
  BY <1>1, <1>2, SubSeqProperties
<1> DEFINE rest == SubSeq(s, n + 1, Len(s))
<1> HIDE DEF rest
<1>4. /\ rest \in Seq(Message)
      /\ Len(rest) = IF n + 1 <= Len(s) THEN Len(s) - (n + 1) + 1 ELSE 0
      /\ \A i \in 1..(Len(s) - (n + 1) + 1) : rest[i] = s[n + 1 + i - 1]
  BY <1>3 DEF rest
<1>5. Len(rest) = Len(s) - n
  BY <1>1, <1>4
<1>6. ASSUME NEW i \in 1..(Len(s) - n) PROVE rest[i] = s[n + i]
  <2>1. i \in 1..(Len(s) - (n + 1) + 1) /\ n + 1 + i - 1 = n + i
    BY <1>1
  <2>2. QED BY <1>4, <2>1
<1>7. QED BY <1>4, <1>5, <1>6 DEF rest

\* splice(index, 0, message) in front of a message that is there.
LEMMA SpliceIs ==
  ASSUME NEW s \in Seq(Message), NEW n \in Nat, n < Len(s), NEW m \in Message
  PROVE  /\ Splice(s, n, m) \in Seq(Message)
         /\ Len(Splice(s, n, m)) = Len(s) + 1
         /\ \A i \in 1..n : Splice(s, n, m)[i] = s[i]
         /\ Splice(s, n, m)[n + 1] = m
         /\ \A i \in (n + 1)..Len(s) : Splice(s, n, m)[i + 1] = s[i]
<1> DEFINE front == Cut(s, n)
           rest == SubSeq(s, n + 1, Len(s))
<1>1. Len(s) \in Nat
  BY LenProperties
<1>2. /\ front \in Seq(Message) /\ Len(front) = n
      /\ \A i \in 1..n : front[i] = s[i]
  BY CutIs
<1>3. /\ rest \in Seq(Message) /\ Len(rest) = Len(s) - n
      /\ \A i \in 1..(Len(s) - n) : rest[i] = s[n + i]
  BY RestIs
<1>4. SubSeq(s, 1, (n + 1) - 1) = front
  BY <1>1 DEF Cut
<1>5. Splice(s, n, m) = front \o <<m>> \o rest
  <2>1. Splice(s, n, m) = InsertAt(s, n + 1, m)
    BY DEF Splice
  <2>2. InsertAt(s, n + 1, m) = SubSeq(s, 1, (n + 1) - 1) \o <<m>> \o rest
    BY DEF InsertAt
  <2>3. QED BY <1>4, <2>1, <2>2
<1>6. <<m>> \in Seq(Message) /\ Len(<<m>>) = 1 /\ <<m>>[1] = m
  OBVIOUS
<1> HIDE DEF front, rest
<1>7. /\ front \o <<m>> \in Seq(Message) /\ Len(front \o <<m>>) = n + 1
      /\ \A i \in 1..n : (front \o <<m>>)[i] = s[i]
      /\ (front \o <<m>>)[n + 1] = m
  <2> DEFINE one == <<m>>
  <2>1. one \in Seq(Message) /\ Len(one) = 1 /\ one[1] = m
    BY <1>6
  <2> HIDE DEF one
  <2>2. /\ front \o one \in Seq(Message) /\ Len(front \o one) = n + 1
        /\ \A i \in 1..n : (front \o one)[i] = s[i]
        /\ (front \o one)[n + 1] = m
    <3>1. /\ front \o one \in Seq(Message)
          /\ Len(front \o one) = Len(front) + Len(one)
          /\ \A i \in 1..Len(front) : (front \o one)[i] = front[i]
          /\ \A i \in 1..Len(one) : (front \o one)[Len(front) + i] = one[i]
      BY <2>1, <1>2, JoinIs
    <3>2. QED BY <2>1, <1>2, <3>1
  <2>3. QED BY <2>2 DEF one
<1> DEFINE head == front \o <<m>>
<1> HIDE DEF head
<1>8. /\ head \in Seq(Message) /\ Len(head) = n + 1
      /\ \A i \in 1..n : head[i] = s[i]
      /\ head[n + 1] = m
  BY <1>7 DEF head
<1>9. /\ head \o rest \in Seq(Message)
      /\ Len(head \o rest) = n + 1 + (Len(s) - n)
      /\ \A i \in 1..(n + 1) : (head \o rest)[i] = head[i]
      /\ \A i \in 1..(Len(s) - n) : (head \o rest)[n + 1 + i] = rest[i]
  <2>1. /\ head \o rest \in Seq(Message)
        /\ Len(head \o rest) = Len(head) + Len(rest)
        /\ \A i \in 1..Len(head) : (head \o rest)[i] = head[i]
        /\ \A i \in 1..Len(rest) : (head \o rest)[Len(head) + i] = rest[i]
    BY <1>3, <1>8, JoinIs
  <2>2. QED BY <1>3, <1>8, <2>1
<1>10. Splice(s, n, m) = head \o rest
  BY <1>5 DEF head
<1>11. ASSUME NEW i \in (n + 1)..Len(s) PROVE (head \o rest)[i + 1] = s[i]
  <2>1. i - n \in 1..(Len(s) - n) /\ n + 1 + (i - n) = i + 1 /\ n + (i - n) = i
    BY <1>1, <1>11
  <2>2. (head \o rest)[n + 1 + (i - n)] = rest[i - n] /\ rest[i - n] = s[n + (i - n)]
    BY <1>3, <1>9, <2>1
  <2>3. QED BY <2>1, <2>2
<1>12. n + 1 + (Len(s) - n) = Len(s) + 1 /\ n + 1 \in 1..(n + 1)
       /\ \A i \in 1..n : i \in 1..(n + 1)
  BY <1>1
<1>13. QED BY <1>8, <1>9, <1>10, <1>11, <1>12

\* contextStart: the newest checkpoint, or the first message.
LEMMA ContextStartIs ==
  ASSUME NEW s \in Seq(Message)
  PROVE  /\ ContextStart(s) \in Nat \ {0}
         /\ ContextStart(s) <= Len(s) + 1
         /\ s # << >> => ContextStart(s) <= Len(s)
         /\ \A i \in 1..Len(s) : s[i].role = "checkpoint" => i <= ContextStart(s)
         /\ ContextStart(s) > 1 => s[ContextStart(s)].role = "checkpoint"
<1> DEFINE marks == {i \in DOMAIN s : s[i].role = "checkpoint"}
<1>1. Len(s) \in Nat /\ DOMAIN s = 1..Len(s) /\ (s # << >> => Len(s) # 0)
  BY LenProperties, EmptySeq
<1>2. CASE marks = {}
  <2>1. ContextStart(s) = 1
    BY <1>2 DEF ContextStart
  <2>2. QED BY <1>1, <1>2, <2>1
<1>3. CASE marks # {}
  <2>1. marks \subseteq 1..Len(s)
    BY <1>1
  <2>2. \E i \in marks : \A j \in marks : j <= i
    BY <1>1, <1>3, <2>1, LastOf
  <2>3. ContextStart(s) = CHOOSE i \in marks : \A j \in marks : j <= i
    BY <1>3 DEF ContextStart
  <2>4. ContextStart(s) \in marks /\ \A j \in marks : j <= ContextStart(s)
    BY <2>2, <2>3
  <2>5. QED BY <1>1, <2>4
<1>4. QED BY <1>2, <1>3

\* listModelView: from the newest checkpoint on.
LEMMA ModelViewIs ==
  ASSUME NEW s \in Seq(Message)
  PROVE  /\ ModelView(s) \in Seq(Message)
         /\ Len(s) - Len(ModelView(s)) = ContextStart(s) - 1
         /\ Len(ModelView(s)) = Len(s) + 1 - ContextStart(s)
         /\ \A i \in 1..Len(ModelView(s)) :
               ModelView(s)[i] = s[ContextStart(s) - 1 + i]
<1> DEFINE n == ContextStart(s) - 1
<1>1. Len(s) \in Nat /\ n \in Nat /\ n <= Len(s) /\ n + 1 = ContextStart(s)
  BY LenProperties, ContextStartIs
<1> HIDE DEF n
<1>2. ModelView(s) = SubSeq(s, n + 1, Len(s))
  BY <1>1 DEF ModelView
<1>3. /\ SubSeq(s, n + 1, Len(s)) \in Seq(Message)
      /\ Len(SubSeq(s, n + 1, Len(s))) = Len(s) - n
      /\ \A i \in 1..(Len(s) - n) : SubSeq(s, n + 1, Len(s))[i] = s[n + i]
  BY <1>1, RestIs
<1>4. QED BY <1>1, <1>2, <1>3 DEF n

\* The ids of the model's view are what a checkpoint behind it would stand for.
LEMMA ModelViewIds ==
  ASSUME NEW s \in Seq(Message)
  PROVE  Ids(ModelView(s)) = Since(s, Len(s) + 1)
<1> DEFINE v == ModelView(s)
           from == ContextStart(s)
           open == {k \in 1..Len(s) :
                      \A m \in (k + 1)..Len(s) : s[m].role # "checkpoint"}
<1>1. Len(s) \in Nat /\ (Len(s) + 1) - 1 = Len(s)
  BY LenProperties
<1>2. /\ from \in Nat \ {0} /\ from <= Len(s) + 1
      /\ \A i \in 1..Len(s) : s[i].role = "checkpoint" => i <= from
      /\ from > 1 => s[from].role = "checkpoint"
      /\ Len(s) > 0 => from <= Len(s)
  <2>1. Len(s) > 0 => s # << >>
    BY <1>1
  <2>2. QED BY <2>1, ContextStartIs
<1>3. /\ v \in Seq(Message) /\ Len(v) = Len(s) + 1 - from
      /\ \A i \in 1..Len(v) : v[i] = s[from - 1 + i]
  BY ModelViewIs
<1>4. DOMAIN v = 1..Len(v)
  BY <1>3, LenProperties
<1> HIDE DEF v, from
<1>5. open = from..Len(s)
  <2>1. ASSUME NEW k \in from..Len(s) PROVE k \in open
    BY <1>1, <1>2, <2>1
  <2>2. ASSUME NEW k \in open PROVE k >= from
    <3>1. CASE k < from
      <4>1. from > 1 /\ from \in (k + 1)..Len(s)
        BY <1>1, <1>2, <3>1
      <4>2. QED BY <1>2, <4>1
    <3>2. QED BY <1>2, <3>1
  <2>3. QED BY <1>1, <1>2, <2>1, <2>2
<1>6. Since(s, Len(s) + 1) = {s[k].id : k \in open}
  BY <1>1 DEF Since
<1> HIDE DEF open
<1>7. Ids(v) = {v[i].id : i \in 1..Len(v)}
  BY <1>4 DEF Ids
<1>8. ASSUME NEW i \in 1..Len(v)
      PROVE  \E k \in from..Len(s) : s[k].id = v[i].id
  <2>1. from - 1 + i \in from..Len(s)
    BY <1>1, <1>2, <1>3
  <2>2. QED BY <1>3, <2>1
<1>9. ASSUME NEW k \in from..Len(s)
      PROVE  \E i \in 1..Len(v) : v[i].id = s[k].id
  <2>1. k - from + 1 \in 1..Len(v) /\ from - 1 + (k - from + 1) = k
    BY <1>1, <1>2, <1>3
  <2>2. QED BY <1>3, <2>1
<1>10. Ids(v) = {s[k].id : k \in from..Len(s)}
  <2>1. ASSUME NEW i \in 1..Len(v)
        PROVE  v[i].id \in {s[k].id : k \in from..Len(s)}
    BY <1>8
  <2>2. ASSUME NEW k \in from..Len(s)
        PROVE  s[k].id \in {v[i].id : i \in 1..Len(v)}
    BY <1>9
  <2>3. QED BY <1>7, <2>1, <2>2
<1>11. Since(s, Len(s) + 1) = {s[k].id : k \in from..Len(s)}
  BY <1>5, <1>6
<1>12. QED BY <1>10, <1>11 DEF v

(***************************************************************************)
(* The table and the view in the log.                                      *)
(***************************************************************************)
\* A log that rows and view lie in is theirs.
LEMMA LogIs ==
  ASSUME NEW L \in Seq(Message), NEW r \in Seq(Message), NEW v \in Seq(Message),
         NEW b \in Nat, NEW c \in Nat, Laid(L, r, v, b, c)
  PROVE  Cut(r, b) \o v = L
<1> DEFINE front == Cut(r, b)
<1>1. Len(L) \in Nat /\ Len(r) \in Nat /\ Len(v) \in Nat
  BY LenProperties
<1>0. /\ Len(L) = b + Len(v) /\ c <= Len(v) /\ Len(r) = b + c
      /\ \A i \in 1..Len(v) : L[b + i] = v[i]
      /\ \A i \in 1..Len(r) : r[i] = L[i]
  BY DEF Laid
<1>2. /\ front \in Seq(Message) /\ Len(front) = b
      /\ \A i \in 1..b : front[i] = r[i]
  <2>1. b <= Len(r)
    BY <1>0
  <2>2. QED BY <2>1, CutIs
<1> HIDE DEF front
<1>3. /\ front \o v \in Seq(Message)
      /\ Len(front \o v) = Len(front) + Len(v)
      /\ \A i \in 1..Len(front) : (front \o v)[i] = front[i]
      /\ \A i \in 1..Len(v) : (front \o v)[Len(front) + i] = v[i]
  BY <1>2, JoinIs
<1>4. ASSUME NEW i \in 1..Len(L) PROVE (front \o v)[i] = L[i]
  <2>1. CASE i <= b
    BY <1>0, <1>1, <1>2, <1>3, <1>4, <2>1
  <2>2. CASE i > b
    <3>1. i - b \in 1..Len(v) /\ b + (i - b) = i
      BY <1>0, <1>1, <1>4, <2>2
    <3>2. (front \o v)[b + (i - b)] = v[i - b] /\ L[b + (i - b)] = v[i - b]
      BY <1>0, <1>2, <1>3, <3>1
    <3>3. QED BY <3>1, <3>2
  <2>3. i <= b \/ i > b
    BY <1>1, <1>4
  <2>4. QED BY <2>1, <2>2, <2>3
<1>5. Len(front \o v) = Len(L)
  BY <1>2, <1>3 DEF Laid
<1>6. QED BY <1>3, <1>4, <1>5, SeqEqual DEF front

\* What is said enters the view; it has no row yet.
LEMMA GrownLog ==
  ASSUME NEW L \in Seq(Message), NEW r \in Seq(Message), NEW v \in Seq(Message),
         NEW b \in Nat, NEW c \in Nat, NEW T \in Seq(Message), Laid(L, r, v, b, c)
  PROVE  Laid(L \o T, r, v \o T, b, c)
<1>1. Len(L) \in Nat /\ Len(r) \in Nat /\ Len(v) \in Nat /\ Len(T) \in Nat
  BY LenProperties
<1>2. /\ Len(L \o T) = Len(L) + Len(T)
      /\ \A i \in 1..Len(L) : (L \o T)[i] = L[i]
      /\ \A i \in 1..Len(T) : (L \o T)[Len(L) + i] = T[i]
  BY JoinIs
<1>3. /\ Len(v \o T) = Len(v) + Len(T)
      /\ \A i \in 1..Len(v) : (v \o T)[i] = v[i]
      /\ \A i \in 1..Len(T) : (v \o T)[Len(v) + i] = T[i]
  BY JoinIs
<1> DEFINE M == L \o T
           w == v \o T
<1> HIDE DEF M, w
<1>4. ASSUME NEW i \in 1..Len(w) PROVE M[b + i] = w[i]
  <2>1. CASE i <= Len(v)
    <3>1. i \in 1..Len(v) /\ b + i \in 1..Len(L)
      BY <1>1, <1>3, <1>4, <2>1 DEF Laid, w
    <3>2. QED BY <1>2, <1>3, <3>1 DEF Laid, M, w
  <2>2. CASE i > Len(v)
    <3>1. /\ i - Len(v) \in 1..Len(T) /\ Len(v) + (i - Len(v)) = i
          /\ Len(L) + (i - Len(v)) = b + i
      BY <1>1, <1>3, <1>4, <2>2 DEF Laid, w
    <3>2. QED BY <1>2, <1>3, <3>1 DEF M, w
  <2>3. QED BY <1>1, <1>3, <2>1, <2>2 DEF w
<1>5. ASSUME NEW i \in 1..Len(r) PROVE r[i] = M[i]
  <2>1. i \in 1..Len(L)
    BY <1>1 DEF Laid
  <2>2. QED BY <1>2, <2>1 DEF Laid, M
<1>6. Len(M) = b + Len(w) /\ c <= Len(w)
  BY <1>1, <1>2, <1>3 DEF Laid, M, w
<1>7. QED BY <1>4, <1>5, <1>6 DEF Laid, M, w

\* persist: the rest of the view gets its rows.
LEMMA PersistedLog ==
  ASSUME NEW L \in Seq(Message), NEW r \in Seq(Message), NEW v \in Seq(Message),
         NEW b \in Nat, NEW c \in Nat, Laid(L, r, v, b, c),
         NEW w, w = r \o SubSeq(v, c + 1, Len(v))
  PROVE  w \in Seq(Message) /\ Laid(L, w, v, b, Len(v))
<1> DEFINE rest == SubSeq(v, c + 1, Len(v))
<1>1. Len(L) \in Nat /\ Len(r) \in Nat /\ Len(v) \in Nat
  BY LenProperties
<1>2. /\ rest \in Seq(Message) /\ Len(rest) = Len(v) - c
      /\ \A i \in 1..(Len(v) - c) : rest[i] = v[c + i]
  BY RestIs DEF Laid
<1> HIDE DEF rest
<1>0. /\ Len(L) = b + Len(v) /\ c <= Len(v) /\ Len(r) = b + c
      /\ \A i \in 1..Len(v) : L[b + i] = v[i]
      /\ \A i \in 1..Len(r) : r[i] = L[i]
  BY DEF Laid
<1>3. /\ r \o rest \in Seq(Message)
      /\ Len(r \o rest) = Len(r) + Len(rest)
      /\ \A i \in 1..Len(r) : (r \o rest)[i] = r[i]
      /\ \A i \in 1..Len(rest) : (r \o rest)[Len(r) + i] = rest[i]
  BY <1>2, JoinIs
<1>4. /\ w \in Seq(Message) /\ Len(w) = b + Len(v)
      /\ \A i \in 1..(b + c) : w[i] = r[i]
      /\ \A i \in 1..(Len(v) - c) : w[(b + c) + i] = rest[i]
  <2>1. w = r \o rest
    BY DEF rest
  <2>2. w \in Seq(Message) /\ Len(w) = Len(r) + Len(rest)
    BY <1>3, <2>1
  <2>3. /\ \A i \in 1..Len(r) : w[i] = r[i]
        /\ \A i \in 1..Len(rest) : w[Len(r) + i] = rest[i]
    BY <1>3, <2>1
  <2>4. Len(r) = b + c /\ Len(rest) = Len(v) - c
    BY <1>0, <1>2
  <2>5. (b + c) + (Len(v) - c) = b + Len(v)
    BY <1>1
  <2>6. QED BY <2>2, <2>3, <2>4, <2>5
<1>5. ASSUME NEW i \in 1..Len(w) PROVE w[i] = L[i]
  <2>1. CASE i <= b + c
    BY <1>0, <1>1, <1>4, <1>5, <2>1
  <2>2. CASE i > b + c
    <3> DEFINE k == i - (b + c)
    <3>1. /\ k \in 1..(Len(v) - c) /\ (b + c) + k = i
          /\ c + k \in 1..Len(v) /\ b + (c + k) = i
      BY <1>0, <1>1, <1>4, <1>5, <2>2
    <3> HIDE DEF k
    <3>2. w[(b + c) + k] = rest[k] /\ rest[k] = v[c + k]
      BY <1>2, <1>4, <3>1
    <3>3. L[b + (c + k)] = v[c + k]
      BY <1>0, <3>1
    <3>4. QED BY <3>1, <3>2, <3>3
  <2>3. QED BY <1>0, <1>1, <1>4, <1>5, <2>1, <2>2
<1>6. Len(v) <= Len(v)
  BY <1>1
<1>7. QED BY <1>0, <1>4, <1>5, <1>6 DEF Laid

\* deleteFrom and splice at the same message.
LEMMA CutLog ==
  ASSUME NEW L \in Seq(Message), NEW r \in Seq(Message), NEW v \in Seq(Message),
         NEW b \in Nat, NEW c \in Nat, NEW n \in Nat, Laid(L, r, v, b, c),
         n <= c
  PROVE  /\ Cut(r, b + n) \in Seq(Message) /\ Cut(v, n) \in Seq(Message)
         /\ Cut(L, b + n) \in Seq(Message) /\ Len(Cut(v, n)) = n
         /\ Laid(Cut(L, b + n), Cut(r, b + n), Cut(v, n), b, n)
<1>1. Len(L) \in Nat /\ Len(r) \in Nat /\ Len(v) \in Nat
  BY LenProperties
<1>2. /\ Len(L) = b + Len(v) /\ c <= Len(v) /\ Len(r) = b + c
      /\ \A i \in 1..Len(v) : L[b + i] = v[i]
      /\ \A i \in 1..Len(r) : r[i] = L[i]
  BY DEF Laid
<1>3. b + n \in Nat /\ b + n <= Len(L) /\ b + n <= Len(r) /\ n <= Len(v)
  BY <1>1, <1>2
<1> DEFINE M == Cut(L, b + n)
           s == Cut(r, b + n)
           w == Cut(v, n)
<1>4. /\ M \in Seq(Message) /\ Len(M) = b + n
      /\ \A i \in 1..(b + n) : M[i] = L[i]
  BY <1>3, CutIs
<1>5. /\ s \in Seq(Message) /\ Len(s) = b + n
      /\ \A i \in 1..(b + n) : s[i] = r[i]
  BY <1>3, CutIs
<1>6. /\ w \in Seq(Message) /\ Len(w) = n
      /\ \A i \in 1..n : w[i] = v[i]
  BY <1>3, CutIs
<1> HIDE DEF M, s, w
<1>7. \A i \in 1..Len(w) : M[b + i] = w[i]
  <2> TAKE i \in 1..Len(w)
  <2>1. b + i \in 1..(b + n) /\ i \in 1..n /\ i \in 1..Len(v)
    BY <1>1, <1>3, <1>6
  <2>2. M[b + i] = L[b + i] /\ w[i] = v[i] /\ L[b + i] = v[i]
    BY <1>2, <1>4, <1>6, <2>1
  <2>3. QED BY <2>2
<1>8. \A i \in 1..Len(s) : s[i] = M[i]
  <2> TAKE i \in 1..Len(s)
  <2>1. i \in 1..(b + n) /\ i \in 1..Len(r)
    BY <1>1, <1>3, <1>5
  <2>2. QED BY <1>2, <1>4, <1>5, <2>1
<1>9. Laid(M, s, w, b, n)
  BY <1>4, <1>5, <1>6, <1>7, <1>8 DEF Laid
<1>10. QED BY <1>4, <1>5, <1>6, <1>9 DEF M, s, w

\* insertAt: the checkpoint gets its row and its place in the view.
LEMMA InsertLog ==
  ASSUME NEW L \in Seq(Message), NEW r \in Seq(Message), NEW v \in Seq(Message),
         NEW b \in Nat, NEW c \in Nat, NEW n \in Nat, NEW m \in Message,
         Laid(L, r, v, b, c), n < c
  PROVE  /\ Splice(r, b + n, m) \in Seq(Message)
         /\ Splice(v, n, m) \in Seq(Message)
         /\ Splice(L, b + n, m) \in Seq(Message)
         /\ Laid(Splice(L, b + n, m), Splice(r, b + n, m), Splice(v, n, m),
                 b, c + 1)
<1>1. Len(L) \in Nat /\ Len(r) \in Nat /\ Len(v) \in Nat
  BY LenProperties
<1>2. /\ Len(L) = b + Len(v) /\ c <= Len(v) /\ Len(r) = b + c
      /\ \A i \in 1..Len(v) : L[b + i] = v[i]
      /\ \A i \in 1..Len(r) : r[i] = L[i]
  BY DEF Laid
<1>3. b + n \in Nat /\ b + n < Len(L) /\ b + n < Len(r) /\ n < Len(v)
  BY <1>1, <1>2
<1> DEFINE k == b + n
<1>a. k \in Nat /\ k < Len(L)
  BY <1>3
<1>b. k \in Nat /\ k < Len(r)
  BY <1>3
<1>c. n < Len(v)
  BY <1>3
<1> HIDE DEF k
<1> DEFINE M == Splice(L, k, m)
           s == Splice(r, k, m)
           w == Splice(v, n, m)
<1>4. /\ M \in Seq(Message) /\ Len(M) = Len(L) + 1
      /\ \A i \in 1..k : M[i] = L[i]
      /\ M[k + 1] = m
      /\ \A i \in (k + 1)..Len(L) : M[i + 1] = L[i]
  BY <1>a, SpliceIs
<1>5. /\ s \in Seq(Message) /\ Len(s) = Len(r) + 1
      /\ \A i \in 1..k : s[i] = r[i]
      /\ s[k + 1] = m
      /\ \A i \in (k + 1)..Len(r) : s[i + 1] = r[i]
  BY <1>b, SpliceIs
<1>6. /\ w \in Seq(Message) /\ Len(w) = Len(v) + 1
      /\ \A i \in 1..n : w[i] = v[i]
      /\ w[n + 1] = m
      /\ \A i \in (n + 1)..Len(v) : w[i + 1] = v[i]
  BY <1>c, SpliceIs
<1> HIDE DEF M, s, w
<1>7. \A i \in 1..Len(w) : M[b + i] = w[i]
  <2> TAKE i \in 1..Len(w)
  <2>1. CASE i <= n
    <3>1. b + i \in 1..k /\ i \in 1..n /\ i \in 1..Len(v)
      BY <1>1, <1>3, <2>1 DEF k
    <3>2. M[b + i] = L[b + i] /\ w[i] = v[i] /\ L[b + i] = v[i]
      BY <1>2, <1>4, <1>6, <3>1
    <3>3. QED BY <3>2
  <2>2. CASE i = n + 1
    <3>1. b + i = k + 1
      BY <2>2 DEF k
    <3>2. QED BY <1>4, <1>6, <2>2, <3>1
  <2>3. CASE i > n + 1
    <3> DEFINE j == i - 1
    <3>1. /\ j \in (n + 1)..Len(v) /\ j \in 1..Len(v) /\ j + 1 = i
          /\ b + j \in (k + 1)..Len(L) /\ (b + j) + 1 = b + i
      BY <1>1, <1>2, <1>6, <2>3 DEF k
    <3> HIDE DEF j
    <3>2. M[(b + j) + 1] = L[b + j] /\ w[j + 1] = v[j] /\ L[b + j] = v[j]
      BY <1>2, <1>4, <1>6, <3>1
    <3>3. QED BY <3>1, <3>2
  <2>4. i <= n \/ i = n + 1 \/ i > n + 1
    BY <1>1, <1>6
  <2>5. QED BY <2>1, <2>2, <2>3, <2>4
<1>8. \A i \in 1..Len(s) : s[i] = M[i]
  <2> TAKE i \in 1..Len(s)
  <2>1. CASE i <= k
    <3>1. i \in 1..k /\ i \in 1..Len(r)
      BY <1>1, <1>3, <2>1 DEF k
    <3>2. QED BY <1>2, <1>4, <1>5, <3>1
  <2>2. CASE i = k + 1
    BY <1>4, <1>5, <2>2
  <2>3. CASE i > k + 1
    <3> DEFINE j == i - 1
    <3>1. /\ j \in (k + 1)..Len(r) /\ j \in 1..Len(r) /\ j + 1 = i
          /\ j \in (k + 1)..Len(L)
      BY <1>1, <1>2, <1>5, <2>3 DEF k
    <3> HIDE DEF j
    <3>2. M[j + 1] = L[j] /\ s[j + 1] = r[j] /\ r[j] = L[j]
      BY <1>2, <1>4, <1>5, <3>1
    <3>3. QED BY <3>1, <3>2
  <2>4. i <= k \/ i = k + 1 \/ i > k + 1
    BY <1>1, <1>5 DEF k
  <2>5. QED BY <2>1, <2>2, <2>3, <2>4
<1>9. Len(M) = b + Len(w) /\ c + 1 <= Len(w) /\ Len(s) = b + (c + 1)
  BY <1>1, <1>2, <1>4, <1>5, <1>6
<1>10. Laid(M, s, w, b, c + 1)
  BY <1>7, <1>8, <1>9 DEF Laid
<1>11. QED BY <1>4, <1>5, <1>6, <1>10 DEF M, s, w, k

\* A conversation read again is what its rows hold, from the newest checkpoint
\* on; all of it has rows.
LEMMA ReadLog ==
  ASSUME NEW r \in Seq(Message), NEW v, v = ModelView(r),
         NEW b, b = Len(r) - Len(v)
  PROVE  /\ v \in Seq(Message) /\ b \in Nat /\ b <= Len(r) /\ Len(v) \in Nat
         /\ Laid(r, r, v, b, Len(v)) /\ StartsAtMark(r, b)
<1>1. Len(r) \in Nat /\ (Len(r) > 0 => r # << >>)
  <2>1. Len(r) \in Nat
    BY LenProperties
  <2>2. r = << >> => Len(r) = 0
    OBVIOUS
  <2>3. QED BY <2>1, <2>2
<1> DEFINE from == ContextStart(r)
<1>2. /\ from \in Nat \ {0} /\ from <= Len(r) + 1
      /\ r # << >> => from <= Len(r)
      /\ from > 1 => r[from].role = "checkpoint"
  BY ContextStartIs
<1>3. /\ v \in Seq(Message) /\ Len(r) - Len(v) = from - 1
      /\ Len(v) = Len(r) + 1 - from
      /\ \A i \in 1..Len(v) : v[i] = r[from - 1 + i]
  BY ModelViewIs
<1> HIDE DEF from
<1>4. /\ b = from - 1 /\ b \in Nat /\ b <= Len(r) /\ Len(v) \in Nat
      /\ Len(r) = b + Len(v) /\ Len(v) <= Len(v) /\ b + 1 = from
  BY <1>1, <1>2, <1>3
<1>5. \A i \in 1..Len(v) : r[b + i] = v[i]
  BY <1>3, <1>4
<1>6. Laid(r, r, v, b, Len(v))
  BY <1>4, <1>5 DEF Laid
<1>7. StartsAtMark(r, b)
  <2>1. ASSUME b > 0 PROVE b < Len(r) /\ r[b + 1].role = "checkpoint"
    <3>1. from > 1 /\ Len(r) > 0
      BY <1>1, <1>2, <1>4, <2>1
    <3>2. QED BY <1>1, <1>2, <1>4, <3>1
  <2>2. QED BY <2>1 DEF StartsAtMark
<1>8. QED BY <1>3, <1>4, <1>6, <1>7

(***************************************************************************)
(* What happens to a log: it grows, is cut, gets a checkpoint.             *)
(***************************************************************************)
\* A is a beginning of B.
Begins(A, B) == Len(A) <= Len(B) /\ \A i \in 1..Len(A) : B[i] = A[i]

\* What is said: stamped from clk on, no checkpoint, results behind their calls.
Said(T, clk) == \A i \in 1..Len(T) :
    /\ T[i].id = clk + (i - 1) /\ T[i].role # "checkpoint" /\ T[i].covers = {}
    /\ T[i].role = "result" => i > 1 /\ T[i - 1].role = "calls"

\* What is new came from the queue or was stamped now; it is no checkpoint.
Grown(L, q, clk, M, p) ==
    /\ Begins(L, M)
    /\ \A i \in (Len(L) + 1)..Len(M) :
          /\ M[i].role # "checkpoint"
          /\ M[i].id >= clk \/ \E j \in 1..Len(q) : q[j] = M[i].id
    /\ \A i \in 1..Len(p) : p[i] >= clk \/ \E j \in 1..Len(q) : q[j] = p[i]

LEMMA SinceSame ==
  ASSUME NEW L, NEW M, NEW n \in Nat, \A i \in 1..(n - 1) : M[i] = L[i]
  PROVE  Since(M, n) = Since(L, n)
<1> DEFINE open(s) == {k \in 1..(n - 1) :
                         \A m \in (k + 1)..(n - 1) : s[m].role # "checkpoint"}
<1>1. open(M) = open(L)
  <2>1. \A k \in 1..(n - 1) : \A m \in (k + 1)..(n - 1) : m \in 1..(n - 1)
    OBVIOUS
  <2>2. QED BY <2>1
<1>2. \A k \in open(L) : M[k].id = L[k].id
  OBVIOUS
<1>3. Since(M, n) = {M[k].id : k \in open(M)}
  BY DEF Since
<1>4. Since(L, n) = {L[k].id : k \in open(L)}
  BY DEF Since
<1> HIDE DEF open
<1>5. QED BY <1>1, <1>2, <1>3, <1>4

\* Each checkpoint of a beginning describes what it described.
LEMMA FrontDescribed ==
  ASSUME NEW L \in Seq(Message), NEW M \in Seq(Message), NEW n \in Nat,
         n <= Len(L), n <= Len(M), \A i \in 1..n : M[i] = L[i], Described(L)
  PROVE  \A i \in 1..n : DescribedAt(M, i)
<1>1. Len(L) \in Nat
  BY LenProperties
<1> TAKE i \in 1..n
<1>2. Since(M, i) = Since(L, i)
  <2>1. \A k \in 1..(i - 1) : M[k] = L[k]
    OBVIOUS
  <2>2. QED BY <2>1, SinceSame
<1>3. i \in 1..Len(L)
  BY <1>1
<1>4. QED BY <1>2, <1>3 DEF Described, DescribedAt

LEMMA SayKeepsSound ==
  ASSUME NEW L, NEW b, NEW q \in Seq(Stamps), NEW clk \in Nat,
         NEW T \in Seq(Message),
         Sound(L, b), QueuedApart(L, q, clk), Said(T, clk)
  PROVE  /\ Sound(L \o T, b) /\ Grown(L, q, clk, L \o T, q)
         /\ QueuedApart(L \o T, q, clk + Len(T))
<1>1. /\ L \in Seq(Message) /\ Len(L) \in Nat /\ Len(T) \in Nat /\ b \in Nat
      /\ b <= Len(L) /\ Once(L) /\ Answers(L) /\ Described(L) /\ StartsAtMark(L, b)
  BY LenProperties DEF Sound
<1> DEFINE M == L \o T
<1>2. /\ M \in Seq(Message) /\ Len(M) = Len(L) + Len(T)
      /\ \A i \in 1..Len(L) : M[i] = L[i]
      /\ \A i \in 1..Len(T) : M[Len(L) + i] = T[i]
  BY <1>1, JoinIs
<1> HIDE DEF M
<1>3. ASSUME NEW i \in (Len(L) + 1)..Len(M)
      PROVE  /\ i - Len(L) \in 1..Len(T) /\ M[i] = T[i - Len(L)]
             /\ M[i].id = clk + (i - Len(L) - 1) /\ M[i].role # "checkpoint"
             /\ M[i].covers = {}
  <2> DEFINE k == i - Len(L)
  <2>1. k \in 1..Len(T) /\ Len(L) + k = i
    BY <1>1, <1>2
  <2> HIDE DEF k
  <2>2. /\ M[i] = T[k] /\ T[k].id = clk + (k - 1) /\ T[k].role # "checkpoint"
        /\ T[k].covers = {}
    BY <1>2, <2>1 DEF Said
  <2>3. QED BY <2>1, <2>2 DEF k
<1>4. \A i \in 1..Len(L) : L[i].id \in Nat /\ L[i].id < clk
  <2> TAKE i \in 1..Len(L)
  <2>1. L[i] \in Message
    BY <1>1, ElementOfSeq
  <2>2. L[i].id \in Nat
    BY <2>1, BoundsAssumption DEF Message, Stamps
  <2>3. QED BY <2>2 DEF QueuedApart
<1>5. \A i \in 1..Len(M) : i \in 1..Len(L) \/ i \in (Len(L) + 1)..Len(M)
  BY <1>1, <1>2
<1>6. Begins(L, M)
  BY <1>1, <1>2 DEF Begins
<1>7. Once(M)
  <2> SUFFICES ASSUME NEW i \in 1..Len(M), NEW j \in 1..Len(M), M[i].id = M[j].id
               PROVE  i = j
    BY DEF Once
  <2>1. CASE i \in 1..Len(L) /\ j \in 1..Len(L)
    BY <1>1, <1>2, <2>1 DEF Once
  <2>2. CASE i \in 1..Len(L) /\ j \in (Len(L) + 1)..Len(M)
    <3>1. M[i].id < clk /\ M[i].id \in Nat
      BY <1>2, <1>4, <2>2
    <3>2. M[j].id >= clk
      BY <1>1, <1>2, <1>3, <2>2
    <3>3. QED BY <3>1, <3>2
  <2>3. CASE j \in 1..Len(L) /\ i \in (Len(L) + 1)..Len(M)
    <3>1. M[j].id < clk /\ M[j].id \in Nat
      BY <1>2, <1>4, <2>3
    <3>2. M[i].id >= clk
      BY <1>1, <1>2, <1>3, <2>3
    <3>3. QED BY <3>1, <3>2
  <2>4. CASE i \in (Len(L) + 1)..Len(M) /\ j \in (Len(L) + 1)..Len(M)
    <3>1. clk + (i - Len(L) - 1) = clk + (j - Len(L) - 1)
      BY <1>3, <2>4
    <3>2. QED BY <1>1, <1>2, <3>1
  <2>5. QED BY <1>5, <2>1, <2>2, <2>3, <2>4
<1>8. Answers(M)
  <2> SUFFICES ASSUME NEW i \in 1..Len(M), M[i].role = "result"
               PROVE  i > 1 /\ M[i - 1].role = "calls"
    BY DEF Answers
  <2>1. CASE i \in 1..Len(L)
    <3>1. i > 1 /\ L[i - 1].role = "calls" /\ i - 1 \in 1..Len(L)
      BY <1>1, <1>2, <2>1 DEF Answers
    <3>2. QED BY <1>2, <3>1
  <2>2. CASE i \in (Len(L) + 1)..Len(M)
    <3> DEFINE k == i - Len(L)
    <3>1. k \in 1..Len(T) /\ M[i] = T[k]
      BY <1>3, <2>2
    <3> HIDE DEF k
    <3>2. k > 1 /\ T[k - 1].role = "calls"
      BY <3>1 DEF Said
    <3>3. k - 1 \in 1..Len(T) /\ Len(L) + (k - 1) = i - 1 /\ i > 1
      BY <1>1, <1>2, <3>1, <3>2 DEF k
    <3>4. M[Len(L) + (k - 1)] = T[k - 1]
      BY <1>2, <3>3
    <3>5. QED BY <3>2, <3>3, <3>4
  <2>3. QED BY <1>5, <2>1, <2>2
<1>9. Described(M)
  <2>1. \A i \in 1..Len(L) : DescribedAt(M, i)
    <3>1. Len(L) <= Len(L) /\ Len(L) <= Len(M)
      BY <1>1, <1>2
    <3>2. QED BY <1>1, <1>2, <3>1, FrontDescribed
  <2>2. \A i \in (Len(L) + 1)..Len(M) : DescribedAt(M, i)
    BY <1>3 DEF DescribedAt
  <2>3. QED BY <1>5, <2>1, <2>2 DEF Described
<1>10. StartsAtMark(M, b) /\ b <= Len(M)
  <2>1. b <= Len(M) /\ (b < Len(L) => b + 1 \in 1..Len(L) /\ b < Len(M))
    BY <1>1, <1>2
  <2>2. QED BY <1>1, <1>2, <2>1 DEF StartsAtMark
<1>11. Sound(M, b)
  BY <1>1, <1>2, <1>7, <1>8, <1>9, <1>10 DEF Sound
<1>12. \A i \in (Len(L) + 1)..Len(M) : M[i].id >= clk
  <2> TAKE i \in (Len(L) + 1)..Len(M)
  <2>1. M[i].id = clk + (i - Len(L) - 1) /\ i - Len(L) - 1 \in Nat
    BY <1>1, <1>2, <1>3
  <2>2. QED BY <2>1
<1>13. Grown(L, q, clk, M, q)
  BY <1>3, <1>6, <1>12 DEF Grown
<1>14. ASSUME NEW i \in 1..Len(q)
       PROVE  q[i] < clk + Len(T) /\ \A j \in 1..Len(M) : M[j].id # q[i]
  <2>1. q[i] < clk /\ \A j \in 1..Len(L) : L[j].id # q[i]
    BY DEF QueuedApart
  <2>2. q[i] \in Nat
    <3>1. q[i] \in Stamps
      BY ElementOfSeq
    <3>2. QED BY <3>1, BoundsAssumption DEF Stamps
  <2>3. q[i] < clk + Len(T)
    BY <1>1, <2>1, <2>2
  <2>4. \A j \in (Len(L) + 1)..Len(M) : M[j].id # q[i]
    <3> TAKE j \in (Len(L) + 1)..Len(M)
    <3>1. M[j].id >= clk /\ M[j].id = clk + (j - Len(L) - 1)
      BY <1>3, <1>12
    <3>2. M[j].id \in Nat
      BY <1>1, <1>2, <3>1
    <3>3. QED BY <2>1, <2>2, <3>1, <3>2
  <2>5. \A j \in 1..Len(L) : M[j].id # q[i]
    BY <1>2, <2>1
  <2>6. QED BY <1>5, <2>3, <2>4, <2>5
<1>15. \A j \in 1..Len(M) : M[j].id < clk + Len(T)
  <2> TAKE j \in 1..Len(M)
  <2>1. CASE j \in 1..Len(L)
    <3>1. M[j].id \in Nat /\ M[j].id < clk
      BY <1>2, <1>4, <2>1
    <3>2. QED BY <1>1, <3>1
  <2>2. CASE j \in (Len(L) + 1)..Len(M)
    BY <1>1, <1>2, <1>3, <2>2
  <2>3. QED BY <1>5, <2>1, <2>2
<1>16. QueuedApart(M, q, clk + Len(T))
  BY <1>14, <1>15 DEF QueuedApart
<1>17. QED BY <1>11, <1>13, <1>16 DEF M

\* A queued message enters the log.
LEMMA DrainKeepsSound ==
  ASSUME NEW L, NEW b, NEW q \in Seq(Stamps), NEW clk \in Nat, q # << >>,
         Sound(L, b), QueuedApart(L, q, clk),
         NEW M, M = Append(L, Plain(Head(q), "user"))
  PROVE  /\ M \in Seq(Message) /\ Sound(M, b) /\ Grown(L, q, clk, M, Tail(q))
         /\ Tail(q) \in Seq(Stamps) /\ QueuedApart(M, Tail(q), clk)
<1> DEFINE m == Plain(Head(q), "user")
           p == Tail(q)
<1>1. /\ L \in Seq(Message) /\ Len(L) \in Nat /\ b \in Nat
      /\ b <= Len(L) /\ Once(L) /\ Answers(L) /\ Described(L) /\ StartsAtMark(L, b)
  BY LenProperties DEF Sound
<1>2. /\ Len(q) \in Nat /\ Len(q) > 0 /\ Head(q) = q[1] /\ Head(q) \in Stamps
      /\ p \in Seq(Stamps) /\ Len(p) = Len(q) - 1
      /\ \A i \in 1..Len(p) : p[i] = q[i + 1]
  <2>1. Len(q) \in Nat /\ Len(q) # 0
    BY LenProperties, EmptySeq
  <2>2. QED BY <2>1, HeadTailProperties
<1>3. m \in Message /\ m.id = q[1] /\ m.role = "user" /\ m.covers = {}
  BY <1>2 DEF Plain, Message, Roles
<1> HIDE DEF m, p
<1>4. /\ M \in Seq(Message) /\ Len(M) = Len(L) + 1 /\ M[Len(L) + 1] = m
      /\ \A i \in 1..Len(L) : M[i] = L[i]
  <2>1. M = Append(L, m)
    BY DEF m
  <2>2. QED BY <1>1, <1>3, <2>1, AppendProperties
<1>5. \A i \in 1..Len(L) : L[i].id # q[1] /\ L[i].id < clk
  <2>1. 1 \in 1..Len(q)
    BY <1>2
  <2>2. QED BY <2>1 DEF QueuedApart
<1>6. \A i \in 1..Len(M) : i \in 1..Len(L) \/ i = Len(L) + 1
  BY <1>1, <1>4
<1>7. Begins(L, M)
  BY <1>1, <1>4 DEF Begins
<1>8. Once(M)
  <2> SUFFICES ASSUME NEW i \in 1..Len(M), NEW j \in 1..Len(M), M[i].id = M[j].id
               PROVE  i = j
    BY DEF Once
  <2>1. CASE i \in 1..Len(L) /\ j \in 1..Len(L)
    BY <1>1, <1>4, <2>1 DEF Once
  <2>2. CASE i = Len(L) + 1 /\ j \in 1..Len(L)
    BY <1>3, <1>4, <1>5, <2>2
  <2>3. CASE j = Len(L) + 1 /\ i \in 1..Len(L)
    BY <1>3, <1>4, <1>5, <2>3
  <2>4. QED BY <1>6, <2>1, <2>2, <2>3
<1>9. Answers(M)
  <2> SUFFICES ASSUME NEW i \in 1..Len(M), M[i].role = "result"
               PROVE  i > 1 /\ M[i - 1].role = "calls"
    BY DEF Answers
  <2>1. i \in 1..Len(L) /\ M[i] = L[i]
    BY <1>3, <1>4, <1>6
  <2>2. i > 1 /\ L[i - 1].role = "calls"
    BY <1>1, <2>1 DEF Answers
  <2>3. i - 1 \in 1..Len(L)
    BY <1>1, <2>1, <2>2
  <2>4. QED BY <1>4, <2>2, <2>3
<1>10. Described(M)
  <2>1. \A i \in 1..Len(L) : DescribedAt(M, i)
    <3>1. Len(L) <= Len(L) /\ Len(L) <= Len(M)
      BY <1>1, <1>4
    <3>2. QED BY <1>1, <1>4, <3>1, FrontDescribed
  <2>2. DescribedAt(M, Len(L) + 1)
    BY <1>3, <1>4 DEF DescribedAt
  <2>3. QED BY <1>6, <2>1, <2>2 DEF Described
<1>11. StartsAtMark(M, b) /\ b <= Len(M)
  <2>1. b <= Len(M) /\ (b < Len(L) => b + 1 \in 1..Len(L) /\ b < Len(M))
    BY <1>1, <1>4
  <2>2. QED BY <1>1, <1>4, <2>1 DEF StartsAtMark
<1>12. Sound(M, b)
  BY <1>1, <1>4, <1>8, <1>9, <1>10, <1>11 DEF Sound
<1>13. \A i \in 1..Len(p) : i + 1 \in 1..Len(q) /\ p[i] = q[i + 1]
  BY <1>2
<1>14. Grown(L, q, clk, M, p)
  <2>1. \A i \in (Len(L) + 1)..Len(M) : i = Len(L) + 1
    BY <1>1, <1>4
  <2>2. 1 \in 1..Len(q)
    BY <1>2
  <2>3. QED BY <1>3, <1>4, <1>7, <1>13, <2>1, <2>2 DEF Grown
<1>15. QueuedApart(M, p, clk)
  <2>1. ASSUME NEW i \in 1..Len(M) PROVE M[i].id < clk
    <3>1. 1 \in 1..Len(q)
      BY <1>2
    <3>2. q[1] < clk
      BY <3>1 DEF QueuedApart
    <3>3. QED BY <1>3, <1>4, <1>5, <1>6, <3>2
  <2>2. ASSUME NEW i \in 1..Len(p)
        PROVE  p[i] < clk /\ \A j \in 1..Len(M) : M[j].id # p[i]
    <3>1. p[i] < clk /\ \A j \in 1..Len(L) : L[j].id # p[i]
      BY <1>13 DEF QueuedApart
    <3>2. q[1] # p[i]
      <4>1. i + 1 \in 1..Len(q) /\ 1 \in 1..Len(q) /\ i + 1 # 1
        BY <1>2, <1>13
      <4>2. QED BY <1>13, <4>1 DEF QueuedApart
    <3>3. QED BY <1>3, <1>4, <1>6, <3>1, <3>2
  <2>3. ASSUME NEW i \in 1..Len(p), NEW j \in 1..Len(p), p[i] = p[j] PROVE i = j
    <3>1. i + 1 = j + 1
      BY <1>13, <2>3 DEF QueuedApart
    <3>2. QED BY <3>1
  <2>4. QED BY <2>1, <2>2, <2>3 DEF QueuedApart
<1>16. QED BY <1>2, <1>4, <1>12, <1>14, <1>15 DEF p

\* What is steered is queued under the stamp of now.
LEMMA SteerKeepsQueue ==
  ASSUME NEW L \in Seq(Message), NEW q \in Seq(Stamps), NEW clk \in Stamps,
         QueuedApart(L, q, clk)
  PROVE  /\ Append(q, clk) \in Seq(Stamps)
         /\ QueuedApart(L, Append(q, clk), clk + 1)
         /\ \A i \in 1..Len(Append(q, clk)) :
               Append(q, clk)[i] = clk \/ \E j \in 1..Len(q) : q[j] = Append(q, clk)[i]
<1> DEFINE p == Append(q, clk)
<1>1. Len(q) \in Nat /\ Len(L) \in Nat /\ clk \in Nat
  BY LenProperties, BoundsAssumption DEF Stamps
<1>2. /\ p \in Seq(Stamps) /\ Len(p) = Len(q) + 1 /\ p[Len(q) + 1] = clk
      /\ \A i \in 1..Len(q) : p[i] = q[i]
  BY <1>1, AppendProperties
<1> HIDE DEF p
<1>3. \A i \in 1..Len(p) : i \in 1..Len(q) \/ i = Len(q) + 1
  BY <1>1, <1>2
<1>4. \A i \in 1..Len(q) : q[i] \in Nat /\ q[i] < clk
  <2> TAKE i \in 1..Len(q)
  <2>1. q[i] \in Stamps
    BY ElementOfSeq
  <2>2. QED BY <2>1, BoundsAssumption DEF Stamps, QueuedApart
<1>5. \A i \in 1..Len(L) : L[i].id \in Nat /\ L[i].id < clk
  <2> TAKE i \in 1..Len(L)
  <2>1. L[i] \in Message
    BY ElementOfSeq
  <2>2. L[i].id \in Nat
    BY <2>1, BoundsAssumption DEF Message, Stamps
  <2>3. QED BY <2>2 DEF QueuedApart
<1>6. \A i \in 1..Len(L) : L[i].id < clk + 1
  BY <1>1, <1>5
<1>7. ASSUME NEW i \in 1..Len(p)
      PROVE  p[i] < clk + 1 /\ \A j \in 1..Len(L) : L[j].id # p[i]
  <2>1. CASE i \in 1..Len(q)
    <3>1. p[i] = q[i] /\ p[i] < clk + 1
      BY <1>1, <1>2, <1>4, <2>1
    <3>2. QED BY <2>1, <3>1 DEF QueuedApart
  <2>2. CASE i = Len(q) + 1
    BY <1>1, <1>2, <1>5, <2>2
  <2>3. QED BY <1>3, <2>1, <2>2
<1>8. ASSUME NEW i \in 1..Len(p), NEW j \in 1..Len(p), p[i] = p[j] PROVE i = j
  <2>1. CASE i \in 1..Len(q) /\ j \in 1..Len(q)
    BY <1>2, <1>8, <2>1 DEF QueuedApart
  <2>2. CASE i = Len(q) + 1 /\ j \in 1..Len(q)
    BY <1>1, <1>2, <1>4, <1>8, <2>2
  <2>3. CASE j = Len(q) + 1 /\ i \in 1..Len(q)
    BY <1>1, <1>2, <1>4, <1>8, <2>3
  <2>4. QED BY <1>3, <2>1, <2>2, <2>3
<1>9. QueuedApart(L, p, clk + 1)
  BY <1>6, <1>7, <1>8 DEF QueuedApart
<1>10. QED BY <1>2, <1>3, <1>9 DEF p

\* A beginning of the log is a log, wherever its view starts now.
LEMMA CutKeepsSound ==
  ASSUME NEW L, NEW b, NEW M \in Seq(Message), NEW d \in Nat,
         Sound(L, b), Begins(M, L), d <= Len(M), StartsAtMark(M, d)
  PROVE  Sound(M, d)
<1>1. /\ L \in Seq(Message) /\ Len(L) \in Nat /\ Len(M) \in Nat
      /\ Once(L) /\ Answers(L) /\ Described(L)
  BY LenProperties DEF Sound
<1>2. Len(M) <= Len(L) /\ \A i \in 1..Len(M) : M[i] = L[i]
  BY DEF Begins
<1>3. \A i \in 1..Len(M) : i \in 1..Len(L)
  BY <1>1, <1>2
<1>4. Once(M)
  BY <1>1, <1>2, <1>3 DEF Once
<1>5. Answers(M)
  <2> SUFFICES ASSUME NEW i \in 1..Len(M), M[i].role = "result"
               PROVE  i > 1 /\ M[i - 1].role = "calls"
    BY DEF Answers
  <2>1. i > 1 /\ L[i - 1].role = "calls"
    BY <1>1, <1>2, <1>3 DEF Answers
  <2>2. i - 1 \in 1..Len(M)
    BY <1>1, <2>1
  <2>3. QED BY <1>2, <2>1, <2>2
<1>6. Described(M)
  <2>1. Len(M) <= Len(M)
    BY <1>1
  <2>2. \A i \in 1..Len(M) : DescribedAt(M, i)
    BY <1>1, <1>2, <2>1, FrontDescribed
  <2>3. QED BY <2>2 DEF Described
<1>7. QED BY <1>4, <1>5, <1>6 DEF Sound

LEMMA CutKeepsQueue ==
  ASSUME NEW L \in Seq(Message), NEW M \in Seq(Message), NEW q, NEW clk,
         QueuedApart(L, q, clk), Begins(M, L)
  PROVE  QueuedApart(M, q, clk) /\ QueuedApart(M, << >>, clk)
<1>1. Len(L) \in Nat /\ Len(M) \in Nat /\ Len(M) <= Len(L)
  BY LenProperties DEF Begins
<1>2. \A i \in 1..Len(M) : i \in 1..Len(L) /\ M[i] = L[i]
  BY <1>1 DEF Begins
<1>3. Len(<< >>) = 0
  OBVIOUS
<1>4. \A i \in 1..Len(<< >>) : FALSE
  BY <1>3
<1>5. QED BY <1>2, <1>4 DEF QueuedApart

\* The checkpoint is put in.
LEMMA InsertKeepsSound ==
  ASSUME NEW L, NEW b, NEW c \in Nat, NEW q \in Seq(Stamps), NEW clk \in Stamps,
         NEW C \in Nat, NEW m \in Message,
         Sound(L, b), QueuedApart(L, q, clk), Fits(L, b, c, C, m.covers),
         m.id = clk, m.role = "checkpoint",
         NEW M, M = Splice(L, C, m)
  PROVE  M \in Seq(Message) /\ Sound(M, b) /\ QueuedApart(M, q, clk + 1)
<1>1. /\ L \in Seq(Message) /\ Len(L) \in Nat /\ b \in Nat /\ Len(q) \in Nat
      /\ b <= Len(L) /\ Once(L) /\ Answers(L) /\ Described(L) /\ StartsAtMark(L, b)
  BY LenProperties DEF Sound
<1>2. /\ b + 1 <= C /\ C < Len(L) /\ C + 1 \in 1..Len(L)
      /\ L[C + 1].role # "result"
      /\ \A k \in (C + 1)..Len(L) : L[k].role # "checkpoint"
      /\ m.covers = Since(L, C + 1)
  BY <1>1 DEF Fits
<1>3. clk \in Nat
  BY BoundsAssumption DEF Stamps
<1>4. /\ M \in Seq(Message) /\ Len(M) = Len(L) + 1
      /\ \A i \in 1..C : M[i] = L[i]
      /\ M[C + 1] = m
      /\ \A i \in (C + 1)..Len(L) : M[i + 1] = L[i]
  <2>1. L \in Seq(Message) /\ C < Len(L)
    BY <1>1, <1>2
  <2>2. QED BY <2>1, SpliceIs
<1>5. ASSUME NEW i \in (C + 2)..Len(M)
      PROVE  /\ i - 1 \in (C + 1)..Len(L) /\ i - 1 \in 1..Len(L)
             /\ M[i] = L[i - 1]
  <2>1. i - 1 \in (C + 1)..Len(L) /\ i - 1 \in 1..Len(L) /\ (i - 1) + 1 = i
    BY <1>1, <1>4
  <2>2. QED BY <1>4, <2>1
<1>6. \A i \in 1..Len(M) : i \in 1..C \/ i = C + 1 \/ i \in (C + 2)..Len(M)
  BY <1>1, <1>4
<1>7. \A i \in 1..C : i \in 1..Len(L)
  BY <1>1, <1>2
<1>8. \A i \in 1..Len(L) : L[i].id \in Nat /\ L[i].id < clk
  <2> TAKE i \in 1..Len(L)
  <2>1. L[i] \in Message
    BY <1>1, ElementOfSeq
  <2>2. L[i].id \in Nat
    BY <2>1, BoundsAssumption DEF Message, Stamps
  <2>3. QED BY <2>2 DEF QueuedApart
<1>9. Once(M)
  <2> SUFFICES ASSUME NEW i \in 1..Len(M), NEW j \in 1..Len(M), M[i].id = M[j].id
               PROVE  i = j
    BY DEF Once
  <2> DEFINE old(k) == IF k \in 1..C THEN k ELSE k - 1
  <2>1. ASSUME NEW k \in 1..Len(M), k # C + 1
        PROVE  old(k) \in 1..Len(L) /\ M[k] = L[old(k)]
    BY <1>4, <1>5, <1>6, <1>7, <2>1
  <2>2. CASE i = C + 1 /\ j # C + 1
    <3>1. M[j].id < clk /\ M[j].id \in Nat
      BY <1>8, <2>1, <2>2
    <3>2. QED BY <1>3, <1>4, <2>2, <3>1
  <2>3. CASE j = C + 1 /\ i # C + 1
    <3>1. M[i].id < clk /\ M[i].id \in Nat
      BY <1>8, <2>1, <2>3
    <3>2. QED BY <1>3, <1>4, <2>3, <3>1
  <2>4. CASE i # C + 1 /\ j # C + 1
    <3>1. old(i) = old(j)
      <4>1. /\ old(i) \in 1..Len(L) /\ old(j) \in 1..Len(L)
            /\ L[old(i)].id = L[old(j)].id
        BY <2>1, <2>4
      <4> HIDE DEF old
      <4>2. QED BY <1>1, <4>1 DEF Once
    <3>2. QED BY <1>1, <1>4, <1>6, <2>4, <3>1
  <2>5. QED BY <2>2, <2>3, <2>4
<1>10. Answers(M)
  <2> SUFFICES ASSUME NEW i \in 1..Len(M), M[i].role = "result"
               PROVE  i > 1 /\ M[i - 1].role = "calls"
    BY DEF Answers
  <2>1. CASE i \in 1..C
    <3>1. i > 1 /\ L[i - 1].role = "calls"
      BY <1>1, <1>4, <1>7, <2>1 DEF Answers
    <3>2. i - 1 \in 1..C
      BY <2>1, <3>1
    <3>3. QED BY <1>4, <3>1, <3>2
  <2>2. CASE i \in (C + 2)..Len(M)
    <3>1. i - 1 \in 1..Len(L) /\ L[i - 1].role = "result"
      BY <1>5, <2>2
    <3>2. i - 1 > 1 /\ L[i - 1 - 1].role = "calls"
      BY <1>1, <3>1 DEF Answers
    <3>3. i # C + 2
      <4>1. i = C + 2 => i - 1 = C + 1
        OBVIOUS
      <4>2. QED BY <1>2, <3>1, <4>1
    <3>4. i - 1 \in (C + 2)..Len(M)
      BY <1>1, <1>4, <2>2, <3>3
    <3>5. M[i - 1] = L[i - 1 - 1] /\ i > 1
      BY <1>5, <2>2, <3>4
    <3>6. QED BY <3>2, <3>5
  <2>3. QED BY <1>4, <1>6, <2>1, <2>2
<1>11. Described(M)
  <2>1. C <= Len(L) /\ C <= Len(M)
    BY <1>1, <1>2, <1>4
  <2>2. \A i \in 1..C : DescribedAt(M, i)
    BY <1>1, <1>4, <2>1, FrontDescribed
  <2>3. M[C + 1].covers = Since(M, C + 1)
    <3>1. C + 1 \in Nat /\ \A k \in 1..((C + 1) - 1) : M[k] = L[k]
      BY <1>4
    <3>2. Since(M, C + 1) = Since(L, C + 1)
      BY <3>1, SinceSame
    <3>3. QED BY <1>2, <1>4, <3>2
  <2>4. DescribedAt(M, C + 1)
    BY <1>4, <2>3 DEF DescribedAt
  <2>5. \A i \in (C + 2)..Len(M) : DescribedAt(M, i)
    <3> TAKE i \in (C + 2)..Len(M)
    <3>1. M[i] = L[i - 1] /\ L[i - 1].role # "checkpoint" /\ i - 1 \in 1..Len(L)
      BY <1>2, <1>5
    <3>2. L[i - 1].covers = {}
      BY <1>1, <3>1 DEF Described, DescribedAt
    <3>3. QED BY <3>1, <3>2 DEF DescribedAt
  <2>6. QED BY <1>6, <2>2, <2>4, <2>5 DEF Described
<1>12. StartsAtMark(M, b) /\ b <= Len(M)
  <2>1. b + 1 \in 1..C /\ b < Len(M) /\ b <= Len(M)
    BY <1>1, <1>2, <1>4
  <2>2. M[b + 1] = L[b + 1]
    BY <1>4, <2>1
  <2>3. QED BY <1>1, <2>1, <2>2 DEF StartsAtMark
<1>13. Sound(M, b)
  BY <1>1, <1>4, <1>9, <1>10, <1>11, <1>12 DEF Sound
<1>14. ASSUME NEW i \in 1..Len(M) PROVE M[i].id = clk \/ \E j \in 1..Len(L) : M[i].id = L[j].id
  BY <1>4, <1>5, <1>6, <1>7
<1>15. \A i \in 1..Len(M) : M[i].id < clk + 1
  BY <1>3, <1>8, <1>14
<1>16. \A i \in 1..Len(q) : q[i] \in Nat /\ q[i] < clk
  <2> TAKE i \in 1..Len(q)
  <2>1. q[i] \in Stamps
    BY ElementOfSeq
  <2>2. QED BY <2>1, BoundsAssumption DEF Stamps, QueuedApart
<1>17. \A i \in 1..Len(q) : q[i] < clk + 1 /\ \A j \in 1..Len(M) : M[j].id # q[i]
  <2> TAKE i \in 1..Len(q)
  <2>1. q[i] \in Nat /\ q[i] < clk /\ \A j \in 1..Len(L) : L[j].id # q[i]
    BY <1>16 DEF QueuedApart
  <2>2. QED BY <1>3, <1>14, <2>1
<1>18. QueuedApart(M, q, clk + 1)
  BY <1>15, <1>17 DEF QueuedApart
<1>19. QED BY <1>4, <1>13, <1>18

(***************************************************************************)
(* A summary that is out, and what was undone.                             *)
(***************************************************************************)
SummarySet == [by : {"none", "step", "idle", "manual"}, cut : Nat,
               covers : SUBSET Stamps, context : BOOLEAN, len : Nat,
               newest : Stamps \cup {0}, closed : BOOLEAN]

LEMMA FitsGrows ==
  ASSUME NEW L \in Seq(Message), NEW M \in Seq(Message), NEW b \in Nat,
         NEW c \in Nat, NEW d \in Nat, NEW C \in Nat, NEW covers,
         Fits(L, b, c, C, covers), Begins(L, M), c <= d, b + d <= Len(M),
         \A i \in (Len(L) + 1)..Len(M) : M[i].role # "checkpoint"
  PROVE  Fits(M, b, d, C, covers)
<1>1. Len(L) \in Nat /\ Len(M) \in Nat
  BY LenProperties
<1>2. /\ b + 1 <= C /\ C < b + c /\ b + c <= Len(L)
      /\ L[C + 1].role # "result"
      /\ \A m \in (C + 1)..Len(L) : L[m].role # "checkpoint"
      /\ covers = Since(L, C + 1)
  BY DEF Fits
<1>3. Len(L) <= Len(M) /\ \A i \in 1..Len(L) : M[i] = L[i]
  BY DEF Begins
<1>4. C + 1 \in 1..Len(L) /\ C < b + d
  BY <1>1, <1>2
<1>5. M[C + 1].role # "result"
  BY <1>2, <1>3, <1>4
<1>6. \A m \in (C + 1)..Len(M) : M[m].role # "checkpoint"
  <2> TAKE m \in (C + 1)..Len(M)
  <2>1. CASE m \in 1..Len(L)
    <3>1. m \in (C + 1)..Len(L)
      BY <1>1, <2>1
    <3>2. QED BY <1>2, <1>3, <2>1, <3>1
  <2>2. m \in 1..Len(L) \/ m \in (Len(L) + 1)..Len(M)
    BY <1>1
  <2>3. QED BY <2>1, <2>2
<1>7. covers = Since(M, C + 1)
  <2>1. C + 1 \in Nat /\ \A k \in 1..((C + 1) - 1) : M[k] = L[k]
    BY <1>1, <1>3, <1>4
  <2>2. Since(M, C + 1) = Since(L, C + 1)
    BY <2>1, SinceSame
  <2>3. QED BY <1>2, <2>2
<1>8. QED BY <1>2, <1>4, <1>5, <1>6, <1>7 DEF Fits

LEMMA FitsCut ==
  ASSUME NEW L \in Seq(Message), NEW M \in Seq(Message), NEW b \in Nat,
         NEW c \in Nat, NEW d \in Nat, NEW C \in Nat, NEW covers,
         Fits(L, b, c, C, covers), Begins(M, L), Len(M) = b + d, C < b + d
  PROVE  Fits(M, b, d, C, covers)
<1>1. Len(L) \in Nat /\ Len(M) \in Nat
  BY LenProperties
<1>2. /\ b + 1 <= C /\ b + c <= Len(L)
      /\ L[C + 1].role # "result"
      /\ \A m \in (C + 1)..Len(L) : L[m].role # "checkpoint"
      /\ covers = Since(L, C + 1)
  BY DEF Fits
<1>3. Len(M) <= Len(L) /\ \A i \in 1..Len(M) : L[i] = M[i]
  BY DEF Begins
<1>4. C + 1 \in 1..Len(M) /\ b + d <= Len(M)
  BY <1>1, <1>2
<1>5. M[C + 1].role # "result"
  BY <1>2, <1>3, <1>4
<1>6. \A m \in (C + 1)..Len(M) : M[m].role # "checkpoint"
  <2> TAKE m \in (C + 1)..Len(M)
  <2>1. m \in (C + 1)..Len(L) /\ m \in 1..Len(M)
    BY <1>1, <1>3
  <2>2. QED BY <1>2, <1>3, <2>1
<1>7. covers = Since(M, C + 1)
  <2>1. C + 1 \in Nat /\ \A k \in 1..((C + 1) - 1) : M[k] = L[k]
    BY <1>1, <1>3, <1>4
  <2>2. Since(M, C + 1) = Since(L, C + 1)
    BY <2>1, SinceSame
  <2>3. QED BY <1>2, <2>2
<1>8. QED BY <1>2, <1>4, <1>5, <1>6, <1>7 DEF Fits

\* A message that is gone for good stays so: new ones have new stamps.
LEMMA LostStays ==
  ASSUME NEW L, NEW M, NEW q, NEW p, NEW clk \in Nat, NEW clk2 \in Nat,
         NEW s \in SummarySet, clk <= clk2,
         Lost(L, q, clk, s), Grown(L, q, clk, M, p),
         Len(L) \in Nat, Len(M) \in Nat
  PROVE  Lost(M, p, clk2, s)
<1>1. s.newest \in Nat /\ s.newest < clk
  BY BoundsAssumption DEF SummarySet, Stamps, Lost
<1>2. \A i \in 1..Len(M) : M[i].id # s.newest
  <2> TAKE i \in 1..Len(M)
  <2>1. CASE i \in 1..Len(L)
    BY <2>1 DEF Lost, Grown, Begins
  <2>2. CASE i \in (Len(L) + 1)..Len(M)
    BY <1>1, <2>2 DEF Lost, Grown
  <2>3. i \in 1..Len(L) \/ i \in (Len(L) + 1)..Len(M)
    OBVIOUS
  <2>4. QED BY <2>1, <2>2, <2>3
<1>3. \A i \in 1..Len(p) : p[i] # s.newest
  BY <1>1 DEF Lost, Grown
<1>4. QED BY <1>1, <1>2, <1>3 DEF Lost

LEMMA StandsGrows ==
  ASSUME NEW L \in Seq(Message), NEW M \in Seq(Message), NEW b \in Nat,
         NEW c \in Nat, NEW d \in Nat, NEW q, NEW p, NEW clk \in Nat,
         NEW clk2 \in Nat, NEW a, NEW s \in SummarySet,
         Stands(L, b, c, q, clk, a, s), Grown(L, q, clk, M, p), clk <= clk2,
         c <= d, b + d <= Len(M)
  PROVE  Stands(M, b, d, p, clk2, a, s)
<1>1. Len(L) \in Nat /\ Len(M) \in Nat /\ s.cut \in Nat /\ s.len \in Nat
  BY LenProperties DEF SummarySet
<1>2. Begins(L, M) /\ \A i \in (Len(L) + 1)..Len(M) : M[i].role # "checkpoint"
  BY DEF Grown
<1>3. b + s.cut \in Nat
  BY <1>1
<1>4. Fits(L, b, c, b + s.cut, s.covers) => Fits(M, b, d, b + s.cut, s.covers)
  BY <1>2, <1>3, FitsGrows
<1>5. Seen(L, b, c, s) => Seen(M, b, d, s)
  <2> SUFFICES ASSUME Seen(L, b, c, s) PROVE Seen(M, b, d, s)
    OBVIOUS
  <2>1. s.cut < s.len /\ b + s.len <= Len(L) /\ L[b + s.len].id = s.newest
    BY DEF Seen
  <2>2. b + s.len \in 1..Len(L) /\ b + s.len <= Len(M)
    BY <1>1, <1>2, <2>1 DEF Begins
  <2>3. M[b + s.len] = L[b + s.len]
    BY <1>2, <2>2 DEF Begins
  <2>4. QED BY <1>4, <2>1, <2>2, <2>3 DEF Seen
<1>6. Lost(L, q, clk, s) => Lost(M, p, clk2, s)
  BY <1>1, LostStays
<1>7. QED BY <1>4, <1>5, <1>6 DEF Stands

\* A cut leaves the summary what it describes; the idle check's may lose it,
\* and with it the message it looks for.
LEMMA StandsCut ==
  ASSUME NEW L, NEW M \in Seq(Message), NEW b, NEW e \in Nat,
         NEW c \in Nat, NEW d \in Nat, NEW q, NEW p, NEW clk \in Nat,
         NEW clk2 \in Nat, NEW a, NEW s \in SummarySet,
         Sound(L, b), QueuedApart(L, q, clk), Stands(L, b, c, q, clk, a, s),
         Begins(M, L), clk <= clk2,
         Len(M) = e + d, e = b \/ Len(M) <= b,
         s.by \in {"step", "manual"} => e = b /\ d > s.cut,
         \A i \in 1..Len(p) : \E j \in 1..Len(q) : q[j] = p[i]
  PROVE  Stands(M, e, d, p, clk2, a, s)
<1>1. /\ L \in Seq(Message) /\ b \in Nat /\ Once(L)
      /\ Len(L) \in Nat /\ Len(M) \in Nat /\ s.cut \in Nat /\ s.len \in Nat
      /\ s.newest \in Nat /\ b + s.cut \in Nat
  BY LenProperties, BoundsAssumption DEF SummarySet, Sound, Stamps
<1>2. Len(M) <= Len(L) /\ \A i \in 1..Len(M) : L[i] = M[i] /\ i \in 1..Len(L)
  BY <1>1 DEF Begins
<1>3. ASSUME s.by \in {"step", "manual"}, Fits(L, b, c, b + s.cut, s.covers)
      PROVE  Fits(M, e, d, e + s.cut, s.covers)
  <2>1. e = b /\ b + s.cut < b + d /\ Len(M) = b + d
    BY <1>1, <1>3
  <2>2. QED BY <1>1, <1>3, <2>1, FitsCut
<1>4. Lost(L, q, clk, s) => Lost(M, p, clk2, s)
  <2> SUFFICES ASSUME Lost(L, q, clk, s) PROVE Lost(M, p, clk2, s)
    OBVIOUS
  <2>1. /\ s.newest < clk /\ \A i \in 1..Len(L) : L[i].id # s.newest
        /\ \A i \in 1..Len(q) : q[i] # s.newest
    BY DEF Lost
  <2>2. s.newest < clk2
    BY <1>1, <2>1
  <2>3. \A i \in 1..Len(M) : M[i].id # s.newest
    BY <1>2, <2>1
  <2>4. \A i \in 1..Len(p) : p[i] # s.newest
    BY <2>1
  <2>5. QED BY <2>2, <2>3, <2>4 DEF Lost
<1>5. ASSUME Seen(L, b, c, s) PROVE Seen(M, e, d, s) \/ Lost(M, p, clk2, s)
  <2>1. /\ Fits(L, b, c, b + s.cut, s.covers)
        /\ s.cut < s.len /\ b + s.len <= Len(L) /\ L[b + s.len].id = s.newest
        /\ b + s.len \in 1..Len(L)
    BY <1>1, <1>5 DEF Seen
  <2>2. CASE b + s.len <= Len(M)
    <3>0. b + s.len > b
      BY <1>1, <2>1
    <3>1. e = b /\ b + s.len \in 1..Len(M) /\ Len(M) = b + d /\ b + s.cut < b + d
      <4>1. e = b /\ Len(M) = b + d
        BY <1>1, <2>2, <3>0
      <4>2. s.len <= d
        BY <1>1, <2>2, <4>1
      <4>3. QED BY <1>1, <2>1, <2>2, <3>0, <4>1, <4>2
    <3>2. Fits(M, b, d, b + s.cut, s.covers)
      BY <1>1, <2>1, <3>1, FitsCut
    <3>3. M[b + s.len].id = s.newest
      BY <1>2, <2>1, <3>1
    <3>4. QED BY <2>1, <3>1, <3>2, <3>3 DEF Seen
  <2>3. CASE b + s.len > Len(M)
    <3>1. \A i \in 1..Len(M) : M[i].id # s.newest
      <4> TAKE i \in 1..Len(M)
      <4>1. i \in 1..Len(L) /\ i # b + s.len /\ M[i] = L[i]
        BY <1>1, <1>2, <2>1, <2>3
      <4>2. QED BY <1>1, <2>1, <4>1 DEF Once
    <3>2. s.newest < clk
      BY <2>1 DEF QueuedApart
    <3>3. \A i \in 1..Len(p) : p[i] # s.newest
      <4> TAKE i \in 1..Len(p)
      <4>1. PICK j \in 1..Len(q) : q[j] = p[i]
        OBVIOUS
      <4>2. L[b + s.len].id # q[j]
        BY <2>1, <4>1 DEF QueuedApart
      <4>3. QED BY <2>1, <4>1, <4>2
    <3>4. QED BY <1>1, <3>1, <3>2, <3>3 DEF Lost
  <2>4. QED BY <1>1, <2>2, <2>3
<1>6. s.by \in {"none", "step", "manual", "idle"}
  BY DEF SummarySet
<1>7. CASE s = NoSummary
  BY <1>7 DEF Stands
<1>8. CASE s # NoSummary
  <2>1. /\ s.by # "none" /\ s.len >= 1
        /\ s.by = "step" => a = "summary"
        /\ s.by # "idle" => ~ s.closed /\ Fits(L, b, c, b + s.cut, s.covers)
        /\ s.by = "idle" /\ ~ s.closed => Seen(L, b, c, s) \/ Lost(L, q, clk, s)
    BY <1>8 DEF Stands
  <2>2. s.by # "idle" => Fits(M, e, d, e + s.cut, s.covers)
    BY <1>3, <1>6, <2>1
  <2>3. s.by = "idle" /\ ~ s.closed => Seen(M, e, d, s) \/ Lost(M, p, clk2, s)
    BY <1>4, <1>5, <2>1
  <2>4. QED BY <2>1, <2>2, <2>3 DEF Stands
<1>9. QED BY <1>7, <1>8

\* A summary that its run no longer waits for.
LEMMA DetachStands ==
  ASSUME NEW L, NEW b, NEW c, NEW q, NEW clk, NEW a, NEW a2, NEW s \in SummarySet,
         Stands(L, b, c, q, clk, a, s)
  PROVE  /\ Detached(s) \in SummarySet
         /\ Stands(L, b, c, q, clk, a2, Detached(s))
<1>1. CASE s.by # "step"
  <2>1. Detached(s) = s
    BY <1>1 DEF Detached
  <2>2. QED BY <1>1, <2>1 DEF Stands
<1>2. CASE s.by = "step"
  <2> DEFINE t == [s EXCEPT !.by = "manual"]
  <2>1. Detached(s) = t
    BY <1>2 DEF Detached
  <2>2. /\ t \in SummarySet /\ t.by = "manual" /\ t.len = s.len
        /\ t.closed = s.closed /\ t.cut = s.cut /\ t.covers = s.covers
    BY DEF SummarySet
  <2> HIDE DEF t
  <2>3. s # NoSummary
    BY <1>2 DEF NoSummary
  <2>4. /\ s.len >= 1
        /\ ~ s.closed /\ Fits(L, b, c, b + s.cut, s.covers)
    BY <1>2, <2>3 DEF Stands
  <2>5. Stands(L, b, c, q, clk, a2, t)
    BY <2>2, <2>4 DEF Stands
  <2>6. QED BY <2>1, <2>2, <2>5
<1>3. QED BY <1>1, <1>2

LEMMA GoneGrows ==
  ASSUME NEW L, NEW M, NEW q, NEW p, NEW clk \in Nat, NEW clk2 \in Nat,
         NEW as, NEW as2, NEW un, un \subseteq Nat, clk <= clk2,
         Gone(L, q, clk, as, un), Grown(L, q, clk, M, p),
         Len(L) \in Nat, Len(M) \in Nat, \A t \in as2 : t < clk2
  PROVE  Gone(M, p, clk2, as2, un)
<1>1. ASSUME NEW t \in un
      PROVE  /\ t < clk2
             /\ \A i \in 1..Len(M) : M[i].id # t
             /\ \A i \in 1..Len(p) : p[i] # t
  <2>1. /\ t \in Nat /\ t < clk /\ \A i \in 1..Len(L) : L[i].id # t
        /\ \A i \in 1..Len(q) : q[i] # t
    BY DEF Gone
  <2>2. t < clk2
    BY <2>1
  <2>3. ASSUME NEW i \in 1..Len(M) PROVE M[i].id # t
    <3>1. CASE i \in 1..Len(L)
      BY <2>1, <3>1 DEF Grown, Begins
    <3>2. CASE i \in (Len(L) + 1)..Len(M)
      BY <2>1, <3>2 DEF Grown
    <3>3. i \in 1..Len(L) \/ i \in (Len(L) + 1)..Len(M)
      OBVIOUS
    <3>4. QED BY <3>1, <3>2, <3>3
  <2>4. \A i \in 1..Len(p) : p[i] # t
    BY <2>1 DEF Grown
  <2>5. QED BY <2>2, <2>3, <2>4
<1>2. QED BY <1>1 DEF Gone

LEMMA GoneCut ==
  ASSUME NEW L, NEW M, NEW q, NEW p, NEW clk \in Nat, NEW clk2 \in Nat,
         NEW as, NEW un, NEW un2, un \subseteq Nat, as \subseteq Nat, clk <= clk2,
         Gone(L, q, clk, as, un), Begins(M, L), Len(L) \in Nat, Len(M) \in Nat,
         \A i \in 1..Len(p) : \E j \in 1..Len(q) : q[j] = p[i],
         \A t \in un2 \ un : /\ t \in as /\ \A i \in 1..Len(M) : M[i].id # t
                             /\ \A i \in 1..Len(p) : p[i] # t
  PROVE  Gone(M, p, clk2, as, un2)
<1>1. ASSUME NEW t \in as PROVE t < clk2
  <2>1. t \in Nat /\ t < clk
    BY DEF Gone
  <2>2. QED BY <2>1
<1>2. ASSUME NEW t \in un2
      PROVE  /\ t < clk2
             /\ \A i \in 1..Len(M) : M[i].id # t
             /\ \A i \in 1..Len(p) : p[i] # t
  <2>1. CASE t \in un
    <3>1. /\ t \in Nat /\ t < clk /\ \A i \in 1..Len(L) : L[i].id # t
          /\ \A i \in 1..Len(q) : q[i] # t
      BY <2>1 DEF Gone
    <3>2. ASSUME NEW i \in 1..Len(M) PROVE M[i].id # t
      <4>1. i \in 1..Len(L) /\ L[i] = M[i]
        BY DEF Begins
      <4>2. QED BY <3>1, <4>1
    <3>3. ASSUME NEW i \in 1..Len(p) PROVE p[i] # t
      BY <3>1
    <3>4. t < clk2
      BY <3>1
    <3>5. QED BY <3>2, <3>3, <3>4
  <2>2. CASE t \notin un
    BY <1>1, <2>2
  <2>3. QED BY <2>1, <2>2
<1>3. QED BY <1>1, <1>2 DEF Gone

(***************************************************************************)
(* What is said.                                                           *)
(***************************************************************************)
LEMMA IdsOf ==
  ASSUME NEW s \in Seq(Message)
  PROVE  Ids(s) = {s[i].id : i \in 1..Len(s)} /\ Ids(s) \subseteq Stamps
<1>1. DOMAIN s = 1..Len(s)
  BY LenProperties
<1>2. \A i \in 1..Len(s) : s[i].id \in Stamps
  <2> TAKE i \in 1..Len(s)
  <2>1. s[i] \in Message
    BY ElementOfSeq
  <2>2. QED BY <2>1 DEF Message
<1>3. QED BY <1>1, <1>2 DEF Ids

LEMMA LogType ==
  ASSUME RowsInv
  PROVE  /\ Log \in Seq(Message) /\ rows \in Seq(Message) /\ view \in Seq(Message)
         /\ base \in Nat /\ count \in Nat /\ clock \in Nat /\ Len(Log) \in Nat
         /\ Len(rows) \in Nat /\ Len(view) \in Nat /\ queue \in Seq(Stamps)
         /\ Len(queue) \in Nat /\ summary \in SummarySet
         /\ asked \subseteq Nat /\ undone \subseteq Nat
<1>1. TypeOK /\ Sound(Log, base)
  BY DEF RowsInv
<1>2. Stamps \subseteq Nat
  BY BoundsAssumption DEF Stamps
<1>3. 6..(7 + MaxNew) \subseteq Nat
  BY BoundsAssumption
<1>4. QED BY <1>1, <1>2, <1>3, LenProperties DEF TypeOK, Sound, SummarySet

\* The new messages get rows, with all that had none.
LEMMA StoredSaid ==
  ASSUME RowsInv, NEW T \in Seq(Message)
  PROVE  /\ Log \o T \in Seq(Message) /\ view \o T \in Seq(Message)
         /\ Len(view \o T) = Len(view) + Len(T)
         /\ WithRows(view \o T) \in Seq(Message)
         /\ Laid(Log \o T, rows, view \o T, base, count)
         /\ Laid(Log \o T, WithRows(view \o T), view \o T, base, Len(view \o T))
<1> DEFINE M == Log \o T
           w == view \o T
<1>1. /\ Log \in Seq(Message) /\ rows \in Seq(Message) /\ view \in Seq(Message)
      /\ base \in Nat /\ count \in Nat /\ Len(view) \in Nat
      /\ Laid(Log, rows, view, base, count)
  BY LogType DEF RowsInv
<1>2. M \in Seq(Message)
  BY <1>1, JoinIs
<1>3. w \in Seq(Message) /\ Len(w) = Len(view) + Len(T) /\ Len(T) \in Nat
  BY <1>1, JoinIs
<1>4. Laid(M, rows, w, base, count)
  BY <1>1, GrownLog
<1>5. count <= Len(view)
  BY <1>1 DEF Laid
<1>6. 1 + (IF Len(w) < count THEN Len(w) ELSE count) = count + 1
  BY <1>1, <1>3, <1>5
<1> HIDE DEF w, M
<1>7. WithRows(w) = rows \o SubSeq(w, count + 1, Len(w))
  BY <1>6 DEF WithRows
<1>8. WithRows(w) \in Seq(Message) /\ Laid(M, WithRows(w), w, base, Len(w))
  BY <1>1, <1>2, <1>3, <1>4, <1>7, PersistedLog
<1>9. QED BY <1>2, <1>3, <1>4, <1>8 DEF M, w

\* The new messages enter the view, and all of it gets rows or none of it.
LEMMA SayEffect ==
  ASSUME RowsInv, NEW T \in Seq(Message), Said(T, clock),
         view' = view \o T, base' = base,
         \/ rows' = rows /\ count' = count
         \/ rows' = WithRows(view \o T) /\ count' = Len(view \o T)
  PROVE  /\ Log' = Log \o T /\ Log' \in Seq(Message) /\ rows' \in Seq(Message)
         /\ view' \in Seq(Message) /\ count' \in Nat
         /\ Laid(Log', rows', view', base', count') /\ Sound(Log', base')
         /\ Grown(Log, queue, clock, Log', queue)
         /\ QueuedApart(Log', queue, clock + Len(T))
         /\ count <= count' /\ base + count' <= Len(Log')
<1>1. /\ Log \in Seq(Message) /\ rows \in Seq(Message) /\ view \in Seq(Message)
      /\ base \in Nat /\ count \in Nat /\ clock \in Nat /\ Len(Log) \in Nat
      /\ Len(rows) \in Nat /\ Len(view) \in Nat /\ queue \in Seq(Stamps)
  BY LogType
<1>2. /\ Laid(Log, rows, view, base, count) /\ Sound(Log, base)
      /\ QueuedApart(Log, queue, clock)
  BY DEF RowsInv
<1> DEFINE M == Log \o T
           w == view \o T
<1>3. M \in Seq(Message) /\ Len(M) \in Nat
  BY StoredSaid, LenProperties
<1>4. w \in Seq(Message) /\ Len(w) = Len(view) + Len(T) /\ Len(T) \in Nat
  BY StoredSaid, LenProperties
<1>5. /\ Laid(M, rows, w, base, count) /\ Laid(M, WithRows(w), w, base, Len(w))
      /\ WithRows(w) \in Seq(Message)
  BY StoredSaid
<1>6. /\ Sound(M, base) /\ Grown(Log, queue, clock, M, queue)
      /\ QueuedApart(M, queue, clock + Len(T))
  BY <1>1, <1>2, SayKeepsSound
<1>7. count <= Len(view)
  BY <1>2 DEF Laid
<1>8. /\ rows' \in Seq(Message) /\ count' \in Nat /\ count <= count'
      /\ Laid(M, rows', w, base, count') /\ count' <= Len(w)
  <2>1. CASE rows' = rows /\ count' = count
    BY <1>1, <1>4, <1>5, <1>7, <2>1
  <2>2. CASE rows' = WithRows(w) /\ count' = Len(w)
    <3>1. count <= Len(w) /\ Len(w) \in Nat
      BY <1>1, <1>4, <1>7
    <3> HIDE DEF w, M
    <3>2. QED BY <1>5, <2>2, <3>1
  <2>3. QED BY <2>1, <2>2
<1> HIDE DEF M, w
<1>9. Cut(rows', base) \o w = M
  BY <1>1, <1>3, <1>4, <1>8, LogIs
<1>10. Log' = M /\ view' = w
  BY <1>9 DEF Log, w
<1>11. base + count' <= Len(M)
  BY <1>1, <1>4, <1>8 DEF Laid
<1>12. QED BY <1>3, <1>4, <1>6, <1>8, <1>10, <1>11 DEF M

LEMMA PlainIs ==
  ASSUME NEW id \in Stamps, NEW role \in Roles
  PROVE  /\ Plain(id, role) \in Message
         /\ Plain(id, role).id = id /\ Plain(id, role).role = role
         /\ Plain(id, role).covers = {}
BY DEF Plain, Message

LEMMA StampsAre ==
  ASSUME clock \in Nat, clock >= 6, NEW k \in Nat, NEW n \in Nat, k < n, Room(n)
  PROVE  clock + k \in Stamps /\ clock + n \in 6..(7 + MaxNew)
<1>1. clock + n <= 7 + MaxNew
  BY DEF Room
<1>2. clock + k <= 6 + MaxNew /\ clock + k >= 1
  BY <1>1, BoundsAssumption
<1>3. QED BY <1>1, <1>2, BoundsAssumption DEF Stamps

LEMMA PreambleIs ==
  ASSUME NEW n \in {0, 1}, clock \in Nat, n = 1 => clock \in Stamps
  PROVE  /\ Preamble(n) \in Seq(Message) /\ Len(Preamble(n)) = n
         /\ \A i \in 1..n : Preamble(n)[i] = Plain(clock + (i - 1), "context")
         /\ Said(Preamble(n), clock)
<1> DEFINE m == Plain(clock, "context")
<1>1. CASE n = 0
  <2>1. Preamble(n) = << >>
    BY <1>1 DEF Preamble
  <2>2. << >> \in Seq(Message) /\ Len(<< >>) = 0
    OBVIOUS
  <2>3. \A i \in 1..0 : FALSE
    OBVIOUS
  <2>4. Said(<< >>, clock)
    BY <2>2, <2>3 DEF Said
  <2>5. \A i \in 1..n : Preamble(n)[i] = Plain(clock + (i - 1), "context")
    BY <1>1, <2>3
  <2>6. QED BY <1>1, <2>1, <2>2, <2>4, <2>5
<1>2. CASE n = 1
  <2>1. Preamble(n) = <<m>>
    BY <1>2 DEF Preamble
  <2>2. m \in Message /\ m.id = clock /\ m.role = "context" /\ m.covers = {}
    BY <1>2, PlainIs DEF Roles
  <2> HIDE DEF m
  <2>3. <<m>> \in Seq(Message) /\ Len(<<m>>) = 1 /\ <<m>>[1] = m
    BY <2>2
  <2>4. \A i \in 1..1 : i = 1 /\ clock + (i - 1) = clock
    OBVIOUS
  <2>5. \A i \in 1..1 : <<m>>[i] = Plain(clock + (i - 1), "context")
    BY <2>3, <2>4 DEF m
  <2>6. Said(<<m>>, clock)
    BY <2>2, <2>3, <2>4 DEF Said
  <2>7. QED BY <1>2, <2>1, <2>3, <2>5, <2>6
<1>3. QED BY <1>1, <1>2

\* A summary and what was undone are not touched by what is said.
LEMMA SayKeepsRest ==
  ASSUME RowsInv, NEW M \in Seq(Message), NEW d \in Nat, NEW p, NEW a,
         NEW clk \in Nat, NEW as, clock <= clk,
         Grown(Log, queue, clock, M, p), count <= d, base + d <= Len(M),
         \A t \in as : t < clk,
         a = at \/ summary.by # "step"
  PROVE  /\ Stands(M, base, d, p, clk, a, summary)
         /\ Gone(M, p, clk, as, undone)
<1>1. /\ Log \in Seq(Message) /\ base \in Nat /\ count \in Nat /\ clock \in Nat
      /\ Len(Log) \in Nat /\ summary \in SummarySet /\ undone \subseteq Nat
      /\ Len(M) \in Nat
  BY LogType, LenProperties
<1>2. /\ Stands(Log, base, count, queue, clock, at, summary)
      /\ Gone(Log, queue, clock, asked, undone)
  BY DEF RowsInv
<1>3. Stands(M, base, d, p, clk, at, summary)
  BY <1>1, <1>2, StandsGrows
<1>4. Stands(M, base, d, p, clk, a, summary)
  BY <1>3 DEF Stands
<1>5. QED BY <1>1, <1>2, <1>4, GoneGrows

LEMMA ShowsGrows ==
  ASSUME NEW L \in Seq(Message), NEW T \in Seq(Message), NEW sh, NEW si,
         Shows(L, sh, si)
  PROVE  Shows(L \o T, sh \cup Ids(T), si)
<1> DEFINE M == L \o T
<1>1. /\ Len(M) = Len(L) + Len(T) /\ Len(L) \in Nat /\ Len(T) \in Nat
      /\ \A i \in 1..Len(L) : M[i] = L[i]
      /\ \A i \in 1..Len(T) : M[Len(L) + i] = T[i]
  BY JoinIs
<1>2. Ids(T) = {T[i].id : i \in 1..Len(T)}
  BY IdsOf
<1> HIDE DEF M
<1>3. ASSUME NEW i \in 1..Len(M) PROVE M[i].id \in sh \cup Ids(T)
  <2>1. CASE i <= Len(L)
    <3>1. i \in 1..Len(L)
      BY <1>1, <2>1
    <3>2. QED BY <1>1, <3>1 DEF Shows
  <2>2. CASE i > Len(L)
    <3>1. i - Len(L) \in 1..Len(T) /\ Len(L) + (i - Len(L)) = i
      BY <1>1, <2>2
    <3>2. M[i] = T[i - Len(L)]
      BY <1>1, <3>1
    <3>3. QED BY <1>2, <3>1, <3>2
  <2>3. QED BY <1>1, <2>1, <2>2
<1>4. ASSUME NEW x \in sh \cup Ids(T)
      PROVE  x \in si \/ \E i \in 1..Len(M) : M[i].id = x
  <2>1. CASE x \in sh
    <3>1. CASE \E i \in 1..Len(L) : L[i].id = x
      <4>1. PICK i \in 1..Len(L) : L[i].id = x
        BY <3>1
      <4>2. i \in 1..Len(M) /\ M[i].id = x
        BY <1>1, <4>1
      <4>3. QED BY <4>2
    <3>2. QED BY <2>1, <3>1 DEF Shows
  <2>2. CASE x \in Ids(T)
    <3>1. PICK i \in 1..Len(T) : T[i].id = x
      BY <1>2, <2>2
    <3>2. Len(L) + i \in 1..Len(M) /\ M[Len(L) + i].id = x
      BY <1>1, <3>1
    <3>3. QED BY <3>2
  <2>3. QED BY <2>1, <2>2
<1>5. Shows(M, sh \cup Ids(T), si)
  BY <1>3, <1>4 DEF Shows
<1>6. QED BY <1>5 DEF M

LEMMA ContextsAre ==
  ASSUME NEW n \in ContextChoice
  PROVE  n \in {0, 1}
BY DEF ContextChoice

\* runPrompt.
LEMMA PromptKeeps ==
  ASSUME RowsInv, NEW n \in ContextChoice, NEW routine \in BOOLEAN,
         Prompt(n, routine)
  PROVE  RowsInv' /\ Begins(Log, Log') /\ base' = base /\ count' = count
<1> DEFINE m == Plain(clock + n, "user")
           T == Preamble(n) \o <<m>>
<1>1. /\ Log \in Seq(Message) /\ view \in Seq(Message) /\ rows \in Seq(Message)
      /\ base \in Nat /\ count \in Nat /\ clock \in Nat /\ Len(Log) \in Nat
      /\ Len(view) \in Nat /\ queue \in Seq(Stamps)
  BY LogType
<1>2. TypeOK /\ Shows(Log, shown, silenced) /\ RoutineStands(view, base, routineAt)
      /\ Gone(Log, queue, clock, asked, undone)
      /\ Stands(Log, base, count, queue, clock, at, summary)
  BY DEF RowsInv
<1>3. /\ at = "idle" /\ Room(n + 1)
      /\ view' = view \o Preamble(n) \o <<m>>
      /\ at' = "top"
      /\ routineAt' = IF routine THEN Len(view) + n ELSE None
      /\ clock' = clock + n + 1
      /\ shown' = shown \cup Ids(Preamble(n)) \cup {clock + n}
      /\ asked' = asked \cup {clock + n}
      /\ UNCHANGED <<rows, base, count, queue, summary, history>>
  BY DEF Prompt, Plain
<1>4. n \in {0, 1} /\ clock >= 6 /\ n \in Nat /\ clock' \in Nat
  <2>1. n \in {0, 1}
    BY ContextsAre
  <2>2. clock \in 6..(7 + MaxNew)
    BY <1>2 DEF TypeOK
  <2>3. QED BY <1>1, <1>3, <2>1, <2>2, BoundsAssumption
<1>5. clock + n \in Stamps /\ clock \in Stamps /\ clock' \in 6..(7 + MaxNew)
  <2>0. /\ clock \in Nat /\ clock >= 6 /\ n \in Nat /\ 0 \in Nat /\ n + 1 \in Nat
        /\ n < n + 1 /\ 0 < n + 1 /\ Room(n + 1)
    BY <1>1, <1>3, <1>4
  <2>1. clock + n \in Stamps /\ clock + (n + 1) \in 6..(7 + MaxNew)
    BY <2>0, StampsAre
  <2>2. clock + 0 \in Stamps
    BY <2>0, StampsAre
  <2>3. QED BY <1>1, <1>3, <1>4, <2>1, <2>2
<1>6. m \in Message /\ m.id = clock + n /\ m.role = "user" /\ m.covers = {}
  BY <1>5, PlainIs DEF Roles
<1>7. /\ Preamble(n) \in Seq(Message) /\ Len(Preamble(n)) = n
      /\ Said(Preamble(n), clock)
  BY <1>1, <1>4, <1>5, PreambleIs
<1> HIDE DEF m
<1>8. <<m>> \in Seq(Message) /\ Len(<<m>>) = 1 /\ <<m>>[1] = m
  BY <1>6
<1> DEFINE P == Preamble(n)
           one == <<m>>
<1> HIDE DEF P, one
<1>9. /\ P \o one \in Seq(Message) /\ Len(P \o one) = n + 1
      /\ \A i \in 1..n : (P \o one)[i] = P[i]
      /\ (P \o one)[n + 1] = m
  <2>1. /\ P \in Seq(Message) /\ one \in Seq(Message)
        /\ Len(P) = n /\ Len(one) = 1 /\ one[1] = m
    BY <1>7, <1>8 DEF P, one
  <2>2. /\ P \o one \in Seq(Message) /\ Len(P \o one) = Len(P) + Len(one)
        /\ \A i \in 1..Len(P) : (P \o one)[i] = P[i]
        /\ \A i \in 1..Len(one) : (P \o one)[Len(P) + i] = one[i]
    BY <2>1, JoinIs
  <2>3. QED BY <2>1, <2>2
<1>10. T = P \o one
  BY DEF P, one
<1> HIDE DEF T
<1>11. T \in Seq(Message) /\ Len(T) = n + 1 /\ Said(T, clock)
  <2>1. \A i \in 1..Len(T) : i \in 1..n \/ i = n + 1
    BY <1>4, <1>9, <1>10
  <2>2. \A i \in 1..n : T[i] = P[i] /\ i \in 1..Len(P)
    BY <1>7, <1>9, <1>10 DEF P
  <2>3. T[n + 1] = m /\ clock + n = clock + ((n + 1) - 1)
    BY <1>1, <1>4, <1>9, <1>10
  <2>4. \A i \in 1..n : i > 1 /\ T[i - 1].role = "calls" <=> i > 1 /\ P[i - 1].role = "calls"
    <3>1. \A i \in 1..n : i > 1 => i - 1 \in 1..n
      BY <1>4
    <3>2. QED BY <2>2, <3>1
  <2>5. Said(P, clock)
    BY <1>7 DEF P
  <2>6. QED BY <1>6, <1>9, <1>10, <2>1, <2>2, <2>3, <2>4, <2>5 DEF Said
<1>12. view' = view \o T
  <2>1. one \in Seq(Message) /\ P \in Seq(Message)
    BY <1>7, <1>8 DEF P, one
  <2>2. view' = (view \o P) \o one
    BY <1>3 DEF P, one
  <2>3. (view \o P) \o one = view \o (P \o one)
    <3>1. view \in Seq(Message)
      BY <1>1
    <3>2. QED BY <2>1, <3>1, ConcatAssociative
  <2>4. QED BY <1>10, <2>2, <2>3
<1>13. /\ Log' = Log \o T /\ Log' \in Seq(Message) /\ rows' \in Seq(Message)
       /\ view' \in Seq(Message) /\ count' \in Nat
       /\ Laid(Log', rows', view', base', count') /\ Sound(Log', base')
       /\ Grown(Log, queue, clock, Log', queue)
       /\ QueuedApart(Log', queue, clock + Len(T))
       /\ count <= count' /\ base + count' <= Len(Log')
  BY <1>3, <1>11, <1>12, SayEffect
<1>14. clock + Len(T) = clock' /\ clock <= clock'
  BY <1>1, <1>3, <1>4, <1>11
<1>15. \A t \in asked' : t < clock'
  <2>1. \A t \in asked : t \in Nat /\ t < clock
    BY <1>2, LogType DEF Gone
  <2>2. \A t \in asked' : t \in asked \/ t = clock + n
    BY <1>3
  <2>3. QED BY <1>1, <1>3, <1>4, <2>1, <2>2
<1>16. summary.by # "step"
  <2>1. NoSummary.by # "step"
    BY DEF NoSummary
  <2>2. QED BY <1>2, <1>3, <2>1 DEF Stands
<1>17. /\ Stands(Log', base, count', queue, clock', at', summary)
       /\ Gone(Log', queue, clock', asked', undone)
  <2>1. count' = count /\ Begins(Log, Log')
    BY <1>3, <1>13 DEF Grown
  <2>2. QED BY <1>4, <1>13, <1>14, <1>15, <1>16, SayKeepsRest
<1>18. RoutineStands(view', base', routineAt')
  <2>1. Len(view') = Len(view) + (n + 1)
    <3>1. view \in Seq(Message) /\ T \in Seq(Message)
      BY <1>1, <1>11
    <3>2. Len(view \o T) = Len(view) + Len(T)
      BY <3>1, JoinIs
    <3>3. QED BY <1>11, <1>12, <3>2
  <2>2. base > 0 => Len(view) >= 1
    <3>1. base > 0 => base < Len(Log)
      BY DEF RowsInv, Sound, StartsAtMark
    <3>2. Len(Log) = base + Len(view)
      BY DEF RowsInv, Laid
    <3>3. QED BY <1>1, <3>1, <3>2
  <2>3. CASE routine
    BY <1>1, <1>3, <1>4, <2>1, <2>2, <2>3 DEF RoutineStands
  <2>4. CASE ~ routine
    BY <1>3, <2>4 DEF RoutineStands
  <2>5. QED BY <2>3, <2>4
<1>19. Ids(T) = Ids(P) \cup {clock + n} /\ Ids(T) \subseteq Stamps
  <2>1. /\ Ids(T) = {T[i].id : i \in 1..(n + 1)} /\ Ids(T) \subseteq Stamps
        /\ Ids(P) = {P[i].id : i \in 1..n}
    BY <1>7, <1>11, IdsOf DEF P
  <2>2. 1..(n + 1) = (1..n) \cup {n + 1}
    BY <1>4
  <2>3. \A i \in 1..n : T[i].id = P[i].id
    BY <1>9, <1>10
  <2>4. T[n + 1].id = clock + n
    BY <1>6, <1>9, <1>10
  <2>5. QED BY <2>1, <2>2, <2>3, <2>4
<1>20. shown' = shown \cup Ids(T)
  BY <1>3, <1>19 DEF P
<1>21. Shows(Log', shown', silenced)
  BY <1>1, <1>2, <1>11, <1>13, <1>20, ShowsGrows
<1>22. TypeOK'
  <2>1. routineAt' \in Nat
    BY <1>1, <1>3, <1>4, BoundsAssumption DEF None
  <2>2. shown' \subseteq Stamps /\ asked' \subseteq Stamps
    BY <1>2, <1>3, <1>5, <1>19, <1>20 DEF TypeOK
  <2>3. QED BY <1>2, <1>3, <1>5, <1>13, <2>1, <2>2 DEF TypeOK, history
<1>23. RowsInv'
  BY <1>3, <1>13, <1>14, <1>17, <1>18, <1>21, <1>22 DEF RowsInv, history
<1>24. Begins(Log, Log')
  BY <1>13 DEF Grown
<1>25. QED BY <1>3, <1>23, <1>24

\* promptWhileRunning.
LEMMA SteerKeeps ==
  ASSUME RowsInv, NEW n \in ContextChoice, Steer(n)
  PROVE  RowsInv' /\ Begins(Log, Log') /\ base' = base /\ count' = count
<1> DEFINE T == Preamble(n)
           p == Append(queue, clock + n)
<1>1. /\ Log \in Seq(Message) /\ view \in Seq(Message) /\ rows \in Seq(Message)
      /\ base \in Nat /\ count \in Nat /\ clock \in Nat /\ Len(Log) \in Nat
      /\ Len(view) \in Nat /\ queue \in Seq(Stamps)
  BY LogType
<1>2. TypeOK /\ Shows(Log, shown, silenced) /\ RoutineStands(view, base, routineAt)
      /\ Gone(Log, queue, clock, asked, undone)
  BY DEF RowsInv
<1>3. /\ Room(n + 1) /\ view' = view \o T /\ queue' = p
      /\ clock' = clock + n + 1
      /\ shown' = shown \cup Ids(T) /\ asked' = asked \cup {clock + n}
      /\ UNCHANGED <<rows, base, count, at, summary, routineAt, history>>
  BY DEF Steer
<1>4. n \in {0, 1} /\ clock >= 6 /\ n \in Nat /\ clock' \in Nat
  <2>1. n \in {0, 1}
    BY ContextsAre
  <2>2. clock \in 6..(7 + MaxNew)
    BY <1>2 DEF TypeOK
  <2>3. QED BY <1>1, <1>3, <2>1, <2>2, BoundsAssumption
<1>5. clock + n \in Stamps /\ clock \in Stamps /\ clock' \in 6..(7 + MaxNew)
  <2>0. /\ clock \in Nat /\ clock >= 6 /\ n \in Nat /\ 0 \in Nat /\ n + 1 \in Nat
        /\ n < n + 1 /\ 0 < n + 1 /\ Room(n + 1)
    BY <1>1, <1>3, <1>4
  <2>1. clock + n \in Stamps /\ clock + (n + 1) \in 6..(7 + MaxNew)
    BY <2>0, StampsAre
  <2>2. clock + 0 \in Stamps
    BY <2>0, StampsAre
  <2>3. QED BY <1>1, <1>3, <1>4, <2>1, <2>2
<1>6. T \in Seq(Message) /\ Len(T) = n /\ Said(T, clock)
  BY <1>1, <1>4, <1>5, PreambleIs
<1> HIDE DEF T, p
<1>7. /\ Log' = Log \o T /\ Log' \in Seq(Message) /\ rows' \in Seq(Message)
      /\ view' \in Seq(Message) /\ count' \in Nat
      /\ Laid(Log', rows', view', base', count') /\ Sound(Log', base')
      /\ Grown(Log, queue, clock, Log', queue)
      /\ QueuedApart(Log', queue, clock + n)
      /\ count <= count' /\ base + count' <= Len(Log')
  BY <1>3, <1>6, SayEffect
<1>8. /\ p \in Seq(Stamps) /\ QueuedApart(Log', p, clock')
      /\ \A i \in 1..Len(p) : p[i] = clock + n \/ \E j \in 1..Len(queue) : queue[j] = p[i]
  <2> DEFINE c == clock + n
  <2>1. c \in Stamps /\ QueuedApart(Log', queue, c) /\ p = Append(queue, c)
    BY <1>5, <1>7 DEF p
  <2>2. clock' = c + 1
    BY <1>3
  <2> HIDE DEF c
  <2>3. /\ p \in Seq(Stamps) /\ QueuedApart(Log', p, c + 1)
        /\ \A i \in 1..Len(p) : p[i] = c \/ \E j \in 1..Len(queue) : queue[j] = p[i]
    BY <1>1, <1>7, <2>1, SteerKeepsQueue
  <2>4. QED BY <2>2, <2>3 DEF c
<1>9. Grown(Log, queue, clock, Log', p)
  <2>1. clock + n >= clock
    BY <1>1, <1>4
  <2>2. QED BY <1>7, <1>8, <2>1 DEF Grown
<1>10. \A t \in asked' : t < clock'
  <2>1. \A t \in asked : t \in Nat /\ t < clock
    BY <1>2, LogType DEF Gone
  <2>2. \A t \in asked' : t \in asked \/ t = clock + n
    BY <1>3
  <2>3. QED BY <1>1, <1>3, <1>4, <2>1, <2>2
<1>11. /\ Stands(Log', base, count', p, clock', at, summary)
       /\ Gone(Log', p, clock', asked', undone)
  <2>1. clock <= clock'
    BY <1>1, <1>3, <1>4
  <2>2. count' = count /\ base' = base
    BY <1>3
  <2>3. QED BY <1>4, <1>7, <1>9, <1>10, <2>1, <2>2, SayKeepsRest
<1>12. RoutineStands(view', base', routineAt')
  <2>1. Len(view') = Len(view) + n
    <3>1. Len(view \o T) = Len(view) + Len(T)
      BY <1>1, <1>6, JoinIs
    <3>2. QED BY <1>3, <1>6, <3>1
  <2>2. routineAt \in Nat
    BY <1>2 DEF TypeOK
  <2>3. QED BY <1>1, <1>2, <1>3, <1>4, <2>1, <2>2 DEF RoutineStands
<1>13. Shows(Log', shown', silenced)
  BY <1>1, <1>2, <1>3, <1>6, <1>7, ShowsGrows
<1>14. TypeOK'
  <2>1. shown' \subseteq Stamps /\ asked' \subseteq Stamps
    BY <1>2, <1>3, <1>5, <1>6, IdsOf DEF TypeOK
  <2>2. QED BY <1>2, <1>3, <1>5, <1>7, <1>8, <2>1 DEF TypeOK, history
<1>15. RowsInv'
  BY <1>3, <1>7, <1>8, <1>11, <1>12, <1>13, <1>14 DEF RowsInv, history
<1>16. QED BY <1>3, <1>7, <1>15 DEF Grown

\* The exchange loop takes a queued message into the view.
LEMMA DrainKeeps ==
  ASSUME RowsInv, Drain
  PROVE  RowsInv' /\ Begins(Log, Log') /\ base' = base /\ count' = count
<1> DEFINE m == Plain(Head(queue), "user")
           M == Append(Log, m)
           w == Append(view, m)
           one == <<m>>
<1>1. /\ Log \in Seq(Message) /\ view \in Seq(Message) /\ rows \in Seq(Message)
      /\ base \in Nat /\ count \in Nat /\ clock \in Nat /\ Len(Log) \in Nat
      /\ Len(view) \in Nat /\ queue \in Seq(Stamps)
  BY LogType
<1>2. /\ TypeOK /\ Shows(Log, shown, silenced)
      /\ RoutineStands(view, base, routineAt)
      /\ Laid(Log, rows, view, base, count) /\ Sound(Log, base)
      /\ QueuedApart(Log, queue, clock)
      /\ Gone(Log, queue, clock, asked, undone)
  BY DEF RowsInv
<1>3. /\ queue # << >> /\ view' = w /\ queue' = Tail(queue)
      /\ shown' = shown \cup {Head(queue)}
      /\ UNCHANGED <<rows, base, count, at, summary, routineAt, clock, asked,
                     history>>
  BY DEF Drain
<1>4. Head(queue) \in Stamps
  BY <1>1, <1>3, HeadTailProperties
<1>5. m \in Message /\ m.id = Head(queue)
  BY <1>4, PlainIs DEF Roles
<1>6. /\ M \in Seq(Message) /\ Sound(M, base)
      /\ Grown(Log, queue, clock, M, Tail(queue))
      /\ Tail(queue) \in Seq(Stamps) /\ QueuedApart(M, Tail(queue), clock)
  BY <1>1, <1>2, <1>3, DrainKeepsSound
<1> HIDE DEF m
<1>7. /\ one \in Seq(Message) /\ Len(one) = 1 /\ one[1] = m
      /\ M = Log \o one /\ w = view \o one
  BY <1>1, <1>5, AppendIsConcat
<1> HIDE DEF one, M, w
<1>8. Laid(M, rows, w, base, count) /\ w \in Seq(Message) /\ Len(w) = Len(view) + 1
  <2>1. view \o one \in Seq(Message) /\ Len(view \o one) = Len(view) + Len(one)
    BY <1>1, <1>7, JoinIs
  <2>2. Laid(Log \o one, rows, view \o one, base, count)
    BY <1>1, <1>2, <1>7, GrownLog
  <2>3. QED BY <1>7, <2>1, <2>2
<1>9. Log' = M
  <2>1. Cut(rows, base) \o w = M
    BY <1>1, <1>6, <1>8, LogIs
  <2>2. QED BY <1>3, <2>1 DEF Log
<1>10. base + count <= Len(M) /\ Len(M) \in Nat
  <2>1. Len(M) = base + Len(w) /\ count <= Len(w)
    BY <1>8 DEF Laid
  <2>2. QED BY <1>1, <1>8, <2>1
<1>11. /\ Stands(M, base, count, Tail(queue), clock, at, summary)
       /\ Gone(M, Tail(queue), clock, asked, undone)
  <2>1. \A t \in asked : t < clock
    BY <1>2 DEF Gone
  <2>2. clock <= clock /\ count <= count
    BY <1>1
  <2>3. QED BY <1>1, <1>6, <1>10, <2>1, <2>2, SayKeepsRest
<1>12. RoutineStands(w, base, routineAt)
  <2>1. routineAt \in Nat
    BY <1>2 DEF TypeOK
  <2>2. QED BY <1>1, <1>2, <1>8, <2>1 DEF RoutineStands
<1>13. Shows(M, shown', silenced)
  <2>1. Ids(one) = {one[i].id : i \in 1..1}
    BY <1>7, IdsOf
  <2>2. Ids(one) = {Head(queue)}
    BY <1>5, <1>7, <2>1
  <2>3. shown' = shown \cup Ids(one)
    BY <1>3, <2>2
  <2>4. QED BY <1>1, <1>2, <1>7, <2>3, ShowsGrows
<1>14. TypeOK'
  BY <1>2, <1>3, <1>4, <1>6, <1>8 DEF TypeOK, history
<1>15. RowsInv'
  BY <1>3, <1>6, <1>8, <1>9, <1>11, <1>12, <1>13, <1>14 DEF RowsInv, history
<1>16. QED BY <1>3, <1>6, <1>9, <1>15 DEF Grown

(***************************************************************************)
(* Where the log stays as it is.                                           *)
(***************************************************************************)
LEMMA GoOnKeeps ==
  ASSUME RowsInv, GoOn
  PROVE  RowsInv' /\ Log' = Log /\ base' = base /\ count' = count
<1>1. /\ UNCHANGED <<rows, view, base, count, queue, summary, routineAt, clock,
                     shown, asked, history>>
      /\ at' = "turn"
      /\ at = "top" \/ summary.by # "step"
  BY DEF GoOn
<1>2. Log' = Log
  BY <1>1 DEF Log
<1>3. RowsInv
  OBVIOUS
<1>4. TypeOK'
  BY <1>1, <1>3 DEF RowsInv, TypeOK, history
<1>5. Stands(Log, base, count, queue, clock, at', summary)
  BY <1>1, <1>3 DEF RowsInv, Stands
<1>6. RowsInv'
  BY <1>1, <1>2, <1>3, <1>4, <1>5 DEF RowsInv, history
<1>7. QED BY <1>1, <1>2, <1>6

LEMMA SummaryFailsKeeps ==
  ASSUME RowsInv, SummaryFails
  PROVE  RowsInv' /\ Log' = Log /\ base' = base /\ count' = count
<1>1. /\ UNCHANGED <<rows, view, base, count, at, queue, routineAt, clock,
                     shown, asked, history>>
      /\ summary' = NoSummary
  BY DEF SummaryFails
<1>2. Log' = Log
  BY <1>1 DEF Log
<1>3. RowsInv
  OBVIOUS
<1>4. TypeOK'
  BY <1>1, <1>3 DEF RowsInv, TypeOK, history, NoSummary
<1>5. Stands(Log, base, count, queue, clock, at, NoSummary)
  BY DEF Stands
<1>6. RowsInv'
  BY <1>1, <1>2, <1>3, <1>4, <1>5 DEF RowsInv, history
<1>7. QED BY <1>1, <1>2, <1>6

\* pool.rebuild, with everything stored and no summary out that would commit.
LEMMA RebuildKeeps ==
  ASSUME RowsInv, Rebuild, "rebuildUnstored" \notin Env,
         "rebuildInSummary" \notin Env
  PROVE  RowsInv' /\ Log' = Log /\ base' = base /\ count' = count
<1>1. /\ UNCHANGED <<rows, view, base, at, queue, routineAt, clock, shown, asked,
                     history>>
      /\ count' = count /\ at = "idle" /\ summary.by # "manual"
      /\ summary' = IF summary = NoSummary THEN summary
                                           ELSE [summary EXCEPT !.closed = TRUE]
  BY DEF Rebuild
<1>2. Log' = Log
  BY <1>1 DEF Log
<1>3. RowsInv
  OBVIOUS
<1>4. summary \in SummarySet
  BY LogType
<1>5. CASE summary = NoSummary
  <2>1. UNCHANGED vars
    BY <1>1, <1>5 DEF vars, history
  <2>2. TypeOK'
    BY <1>3, <2>1 DEF RowsInv, TypeOK, vars
  <2>3. RowsInv'
    BY <1>2, <1>3, <2>1, <2>2 DEF RowsInv, vars
  <2>4. QED BY <1>1, <1>2, <2>3
<1>6. CASE summary # NoSummary
  <2> DEFINE t == [summary EXCEPT !.closed = TRUE]
  <2>1. t \in SummarySet /\ t.by = summary.by /\ t.len = summary.len /\ t.closed
    BY <1>4 DEF SummarySet
  <2>2. summary.by = "idle" /\ summary.len >= 1
    BY <1>1, <1>3, <1>4, <1>6 DEF RowsInv, Stands, SummarySet
  <2>3. summary' = t
    BY <1>1, <1>6
  <2> HIDE DEF t
  <2>4. Stands(Log, base, count, queue, clock, at, t)
    BY <2>1, <2>2 DEF Stands
  <2>5. TypeOK'
    BY <1>1, <1>3, <2>1, <2>3 DEF RowsInv, TypeOK, history, SummarySet
  <2>6. RowsInv'
    BY <1>1, <1>2, <1>3, <2>3, <2>4, <2>5 DEF RowsInv, history
  <2>7. QED BY <1>1, <1>2, <2>6
<1>7. QED BY <1>5, <1>6

\* selectCompactionSpan: the cut is behind a checkpoint and in front of what is
\* no result, and the head it takes is what the checkpoint will stand for.
LEMMA CutPointFits ==
  ASSUME RowsInv, NEW p \in CutPoints(view), p <= count
  PROVE  /\ p \in 2..Len(view)
         /\ Fits(Log, base, count, base + (p - 1),
                 Ids(SubSeq(view, ContextStart(view), p - 1)))
<1> DEFINE from == ContextStart(view)
           C == base + (p - 1)
           head == SubSeq(view, from, p - 1)
<1>1. /\ Log \in Seq(Message) /\ view \in Seq(Message) /\ rows \in Seq(Message)
      /\ base \in Nat /\ count \in Nat /\ Len(Log) \in Nat /\ Len(view) \in Nat
  BY LogType
<1>2. /\ Len(Log) = base + Len(view) /\ count <= Len(view)
      /\ \A i \in 1..Len(view) : Log[base + i] = view[i]
      /\ Answers(Log) /\ StartsAtMark(Log, base)
  BY DEF RowsInv, Laid, Sound
<1>3. /\ from \in Nat \ {0}
      /\ \A i \in 1..Len(view) : view[i].role = "checkpoint" => i <= from
      /\ from > 1 => view[from].role = "checkpoint"
  BY <1>1, ContextStartIs
<1> HIDE DEF from
<1>4. p \in (from + 1)..Len(view) /\ StartsUnit(view, from, p)
  BY DEF CutPoints, from
<1>5. p \in 2..Len(view) /\ p \in 1..Len(view) /\ p \in Nat /\ C + 1 = base + p
      /\ C \in Nat /\ base + 1 <= C /\ C < base + count /\ base + count <= Len(Log)
  BY <1>1, <1>2, <1>3, <1>4
<1>6. \A i \in (base + 1)..Len(Log) : i - base \in 1..Len(view) /\ Log[i] = view[i - base]
  <2> TAKE i \in (base + 1)..Len(Log)
  <2>1. i - base \in 1..Len(view) /\ base + (i - base) = i
    BY <1>1, <1>2
  <2>2. QED BY <1>2, <2>1
<1>7. Log[C + 1].role # "result"
  <2> SUFFICES ASSUME Log[C + 1].role = "result" PROVE FALSE
    OBVIOUS
  <2>1. C + 1 \in 1..Len(Log) /\ Log[C + 1] = view[p] /\ (C + 1) - 1 = base + (p - 1)
    BY <1>1, <1>2, <1>5
  <2>2. Log[(C + 1) - 1].role = "calls"
    BY <1>2, <2>1 DEF Answers
  <2>3. p - 1 \in 1..Len(view) /\ p - 1 \in from..(p - 1)
    BY <1>1, <1>3, <1>4, <1>5
  <2>4. view[p - 1].role = "calls"
    BY <1>2, <2>1, <2>2, <2>3
  <2>5. \A r \in ((p - 1) + 1)..p : view[r].role = "result"
    <3>1. \A r \in ((p - 1) + 1)..p : r = p
      BY <1>5
    <3>2. QED BY <2>1, <3>1
  <2>6. QED BY <1>4, <2>3, <2>4, <2>5 DEF StartsUnit, Assistant
<1>8. \A m \in (C + 1)..Len(Log) : Log[m].role # "checkpoint"
  <2> TAKE m \in (C + 1)..Len(Log)
  <2>1. m \in (base + 1)..Len(Log) /\ m - base > from
    BY <1>1, <1>3, <1>4, <1>5
  <2>2. m - base \in 1..Len(view) /\ Log[m] = view[m - base]
    BY <1>6, <2>1
  <2>3. QED BY <1>1, <1>3, <2>1, <2>2
<1> DEFINE open == {k \in 1..C : \A m \in (k + 1)..C : Log[m].role # "checkpoint"}
<1>9. open = (base + from)..C
  <2>1. ASSUME NEW k \in (base + from)..C PROVE k \in open
    <3>1. k \in 1..C
      BY <1>1, <1>3, <2>1
    <3>2. \A m \in (k + 1)..C : Log[m].role # "checkpoint"
      <4> TAKE m \in (k + 1)..C
      <4>1. m \in (base + 1)..Len(Log) /\ m - base > from
        BY <1>1, <1>3, <1>5, <2>1
      <4>2. m - base \in 1..Len(view) /\ Log[m] = view[m - base]
        BY <1>6, <4>1
      <4>3. QED BY <1>1, <1>3, <4>1, <4>2
    <3>3. QED BY <3>1, <3>2
  <2>2. ASSUME NEW k \in open PROVE k >= base + from
    <3>1. CASE from > 1
      <4>1. from \in 1..Len(view) /\ base + from <= C /\ base + from \in Nat
        BY <1>1, <1>3, <1>4, <1>5
      <4>2. Log[base + from].role = "checkpoint"
        BY <1>2, <1>3, <3>1, <4>1
      <4>3. QED BY <1>1, <4>1, <4>2
    <3>2. CASE from = 1 /\ base > 0
      <4>1. Log[base + 1].role = "checkpoint"
        BY <1>2, <3>2 DEF StartsAtMark
      <4>2. base + 1 <= C /\ base + 1 \in Nat
        BY <1>1, <1>5
      <4>3. QED BY <1>1, <3>2, <4>1, <4>2
    <3>3. CASE from = 1 /\ base = 0
      BY <3>3
    <3>4. QED BY <1>1, <1>3, <3>1, <3>2, <3>3
  <2>3. ASSUME NEW k \in open PROVE k \in (base + from)..C
    <3>1. k \in 1..C /\ k >= base + from
      BY <2>2
    <3>2. base + from \in Nat
      BY <1>1, <1>3
    <3>3. QED BY <1>5, <3>1, <3>2
  <2> HIDE DEF open
  <2>4. QED BY <2>1, <2>3
<1>10. Since(Log, C + 1) = {Log[k].id : k \in (base + from)..C}
  <2>1. (C + 1) - 1 = C
    BY <1>5
  <2>2. Since(Log, C + 1) = {Log[k].id : k \in open}
    BY <2>1 DEF Since
  <2>3. QED BY <1>9, <2>2
<1> HIDE DEF open
<1>11. /\ head \in Seq(Message) /\ Len(head) = p - from
       /\ \A i \in 1..(p - from) : head[i] = view[from + i - 1]
  <2>1. from \in Int /\ p - 1 \in Int /\ from <= p - 1 /\ (p - 1) - from + 1 = p - from
    BY <1>3, <1>4, <1>5
  <2>2. \A i \in from..(p - 1) : view[i] \in Message
    <3> TAKE i \in from..(p - 1)
    <3>1. i \in 1..Len(view)
      BY <1>1, <1>3, <1>4
    <3>2. QED BY <1>1, <3>1, ElementOfSeq
  <2>3. /\ head \in Seq(Message)
        /\ Len(head) = IF from <= p - 1 THEN (p - 1) - from + 1 ELSE 0
        /\ \A i \in 1..((p - 1) - from + 1) : head[i] = view[from + i - 1]
    BY <2>1, <2>2, SubSeqProperties
  <2> HIDE DEF head
  <2>4. QED BY <2>1, <2>3
<1> HIDE DEF head
<1>12. Ids(head) = {head[i].id : i \in 1..(p - from)}
  BY <1>11, IdsOf
<1>13. Ids(head) = {Log[k].id : k \in (base + from)..C}
  <2>1. ASSUME NEW i \in 1..(p - from)
        PROVE  \E k \in (base + from)..C : Log[k].id = head[i].id
    <3>1. from + i - 1 \in 1..Len(view)
      BY <1>1, <1>3, <1>4, <1>5
    <3>2. base + (from + i - 1) \in (base + from)..C
      BY <1>1, <1>3, <1>4, <1>5
    <3>3. Log[base + (from + i - 1)] = head[i]
      BY <1>2, <1>11, <3>1
    <3>4. QED BY <3>2, <3>3
  <2>2. ASSUME NEW k \in (base + from)..C
        PROVE  \E i \in 1..(p - from) : head[i].id = Log[k].id
    <3> DEFINE i == k - base - from + 1
    <3>1. i \in 1..(p - from) /\ from + i - 1 = k - base /\ k \in (base + 1)..Len(Log)
      BY <1>1, <1>3, <1>4, <1>5
    <3> HIDE DEF i
    <3>2. head[i] = view[k - base] /\ Log[k] = view[k - base]
      BY <1>6, <1>11, <3>1
    <3>3. QED BY <3>1, <3>2
  <2>3. QED BY <1>12, <2>1, <2>2
<1>14. Fits(Log, base, count, C, Ids(head))
  BY <1>5, <1>7, <1>8, <1>10, <1>13 DEF Fits
<1>15. QED BY <1>5, <1>14 DEF head, from

\* runOnce up to the summarizer's call.
LEMMA BeginSummaryKeeps ==
  ASSUME RowsInv, NEW by \in {"step", "idle", "manual"}, NEW p \in DOMAIN view,
         BeginSummary(by, p), "tailCut" \notin Env
  PROVE  RowsInv' /\ Log' = Log /\ base' = base /\ count' = count
<1> DEFINE head == SubSeq(view, ContextStart(view), p - 1)
           covers == Ids(head)
           context == \E i \in DOMAIN head : head[i].role = "context"
           s == [by |-> by, cut |-> p - 1, covers |-> covers, context |-> context,
                 len |-> Len(view), newest |-> view[Len(view)].id, closed |-> FALSE]
<1>1. /\ p \in CutPoints(view) /\ p <= count
      /\ at' = IF by = "step" THEN "summary" ELSE at
      /\ summary' = s
      /\ UNCHANGED <<rows, view, base, count, queue, routineAt, clock, shown,
                     asked, history>>
  BY DEF BeginSummary
<1>2. p \in 2..Len(view) /\ Fits(Log, base, count, base + (p - 1), covers)
  BY <1>1, CutPointFits
<1>3. /\ Len(view) \in Nat /\ view \in Seq(Message) /\ base \in Nat
      /\ Len(Log) = base + Len(view) /\ Len(Log) \in Nat
      /\ \A i \in 1..Len(view) : Log[base + i] = view[i]
      /\ Log \in Seq(Message)
  BY LogType DEF RowsInv, Laid
<1>4. view[Len(view)].id \in Stamps
  <2>1. Len(view) \in 1..Len(view)
    BY <1>2, <1>3
  <2>2. view[Len(view)] \in Message
    BY <1>3, <2>1, ElementOfSeq
  <2>3. QED BY <2>2 DEF Message
<1>5. covers \in SUBSET Stamps
  <2>1. \A k \in 1..Len(Log) : Log[k].id \in Stamps
    <3> TAKE k \in 1..Len(Log)
    <3>1. Log[k] \in Message
      BY <1>3, ElementOfSeq
    <3>2. QED BY <3>1 DEF Message
  <2> DEFINE n == base + (p - 1) + 1
  <2>2. covers = Since(Log, n) /\ n - 1 <= Len(Log) /\ n \in Nat
    BY <1>2, <1>3 DEF Fits
  <2> HIDE DEF n, covers
  <2>3. \A k \in 1..(n - 1) : k \in 1..Len(Log)
    BY <1>3, <2>2
  <2>4. QED BY <2>1, <2>2, <2>3 DEF Since
<1>6. context \in BOOLEAN
  OBVIOUS
<1> HIDE DEF covers, context
<1>7. s \in SummarySet /\ s.by = by /\ s.cut = p - 1 /\ s.covers = covers
      /\ s.len = Len(view) /\ s.newest = view[Len(view)].id /\ s.closed = FALSE
  BY <1>2, <1>3, <1>4, <1>5, <1>6 DEF SummarySet
<1> HIDE DEF s
<1>8. Seen(Log, base, count, s)
  <2>1. s.cut < s.len /\ base + s.len <= Len(Log)
    BY <1>2, <1>3, <1>7
  <2>2. Log[base + s.len].id = s.newest
    <3>1. Len(view) \in 1..Len(view)
      BY <1>2, <1>3
    <3>2. Log[base + Len(view)] = view[Len(view)]
      BY <1>3, <3>1
    <3>3. QED BY <1>7, <3>2
  <2>3. QED BY <1>2, <1>7, <2>1, <2>2 DEF Seen
<1>9. Stands(Log, base, count, queue, clock, at', s)
  <2>1. s.by # "none" /\ s.len >= 1 /\ (s.by = "step" => at' = "summary")
    BY <1>1, <1>2, <1>3, <1>7
  <2>2. Fits(Log, base, count, base + s.cut, s.covers)
    BY <1>2, <1>7
  <2>3. QED BY <1>7, <1>8, <2>1, <2>2 DEF Stands
<1>10. Log' = Log
  BY <1>1 DEF Log
<1>11. RowsInv
  OBVIOUS
<1>12. TypeOK'
  <2>1. at' \in {"idle", "top", "summary", "turn"}
    BY <1>1, <1>11 DEF RowsInv, TypeOK
  <2>2. QED BY <1>1, <1>7, <1>11, <2>1 DEF RowsInv, TypeOK, history, SummarySet
<1>13. RowsInv'
  BY <1>1, <1>9, <1>10, <1>11, <1>12 DEF RowsInv, history
<1>14. QED BY <1>1, <1>10, <1>13

(***************************************************************************)
(* Where the log loses its end.                                            *)
(***************************************************************************)
\* A beginning of the log that starts where it started.
LEMMA CutRest ==
  ASSUME RowsInv, NEW M \in Seq(Message), NEW n \in Nat, NEW clk \in Nat, NEW a,
         Len(M) = base + n, Begins(M, Log), base > 0 => n >= 1, clock <= clk,
         summary.by \in {"none", "idle"} \/ n > summary.cut
  PROVE  /\ Sound(M, base) /\ QueuedApart(M, << >>, clk)
         /\ Detached(summary) \in SummarySet
         /\ Stands(M, base, n, << >>, clk, a, Detached(summary))
<1>1. /\ Log \in Seq(Message) /\ base \in Nat /\ count \in Nat /\ clock \in Nat
      /\ Len(Log) \in Nat /\ summary \in SummarySet
  BY LogType
<1>2. /\ Sound(Log, base) /\ QueuedApart(Log, queue, clock)
      /\ Stands(Log, base, count, queue, clock, at, summary)
  BY DEF RowsInv
<1>3. StartsAtMark(M, base) /\ base <= Len(M)
  <2>1. base > 0 => base < Len(M) /\ base + 1 \in 1..Len(M)
    BY <1>1
  <2>2. base > 0 => Log[base + 1].role = "checkpoint"
    BY <1>2 DEF Sound, StartsAtMark
  <2>3. QED BY <1>1, <2>1, <2>2 DEF StartsAtMark, Begins
<1>4. Sound(M, base)
  BY <1>1, <1>2, <1>3, CutKeepsSound
<1>5. QueuedApart(M, << >>, clock)
  BY <1>1, <1>2, CutKeepsQueue
<1>6. QueuedApart(M, << >>, clk)
  <2>1. \A i \in 1..Len(M) : M[i].id < clk
    <3> TAKE i \in 1..Len(M)
    <3>1. M[i] \in Message /\ M[i].id < clock
      BY <1>5, ElementOfSeq DEF QueuedApart
    <3>2. M[i].id \in Nat
      BY <3>1 DEF Message, Stamps
    <3>3. QED BY <1>1, <3>1, <3>2
  <2>2. Len(<< >>) = 0
    OBVIOUS
  <2>3. QED BY <2>1, <2>2 DEF QueuedApart
<1>7. Stands(M, base, n, << >>, clk, at, summary)
  <2>1. \A i \in 1..Len(<< >>) : \E j \in 1..Len(queue) : queue[j] = << >>[i]
    OBVIOUS
  <2>2. summary.by \in {"step", "manual"} => base = base /\ n > summary.cut
    OBVIOUS
  <2>3. QED BY <1>1, <1>2, <2>1, <2>2, StandsCut
<1>8. QED BY <1>1, <1>4, <1>6, <1>7, DetachStands

\* The messages behind position n of s, and where they are in L if s is the end
\* of it from b on.
Removed(s, n) == Ids(SubSeq(s, n + 1, Len(s)))

LEMMA RemovedIs ==
  ASSUME NEW L \in Seq(Message), NEW s \in Seq(Message), NEW b \in Nat,
         NEW n \in Nat, n <= Len(s), Len(L) = b + Len(s),
         \A i \in 1..Len(s) : L[b + i] = s[i]
  PROVE  /\ Removed(s, n) \subseteq Stamps
         /\ \A x : x \in Removed(s, n)
                  <=> \E i \in (b + n + 1)..Len(L) : L[i].id = x
<1> DEFINE rest == SubSeq(s, n + 1, Len(s))
<1>1. Len(s) \in Nat /\ Len(L) \in Nat
  BY LenProperties
<1>2. /\ rest \in Seq(Message) /\ Len(rest) = Len(s) - n
      /\ \A i \in 1..(Len(s) - n) : rest[i] = s[n + i]
  BY RestIs
<1> HIDE DEF rest
<1>3. Ids(rest) = {rest[i].id : i \in 1..(Len(s) - n)} /\ Ids(rest) \subseteq Stamps
  BY <1>2, IdsOf
<1>4. ASSUME NEW i \in 1..(Len(s) - n)
      PROVE  \E k \in (b + n + 1)..Len(L) : L[k].id = rest[i].id
  <2>1. n + i \in 1..Len(s) /\ b + (n + i) \in (b + n + 1)..Len(L)
    BY <1>1
  <2>2. L[b + (n + i)] = rest[i]
    BY <1>2, <2>1
  <2>3. QED BY <2>1, <2>2
<1>5. ASSUME NEW k \in (b + n + 1)..Len(L)
      PROVE  \E i \in 1..(Len(s) - n) : rest[i].id = L[k].id
  <2> DEFINE i == k - b - n
  <2>1. i \in 1..(Len(s) - n) /\ n + i \in 1..Len(s) /\ b + (n + i) = k
    BY <1>1
  <2> HIDE DEF i
  <2>2. rest[i] = L[k]
    BY <1>2, <2>1
  <2>3. QED BY <2>1, <2>2
<1>6. \A x : x \in Ids(rest) <=> \E k \in (b + n + 1)..Len(L) : L[k].id = x
  <2>1. \A x : x \in Ids(rest) <=> \E i \in 1..(Len(s) - n) : rest[i].id = x
    BY <1>3
  <2>2. ASSUME NEW x \in Ids(rest)
        PROVE  \E k \in (b + n + 1)..Len(L) : L[k].id = x
    <3>1. PICK i \in 1..(Len(s) - n) : rest[i].id = x
      BY <2>1, <2>2
    <3>2. QED BY <1>4, <3>1
  <2>3. ASSUME NEW k \in (b + n + 1)..Len(L)
        PROVE  L[k].id \in Ids(rest)
    <3>1. PICK i \in 1..(Len(s) - n) : rest[i].id = L[k].id
      BY <1>5
    <3>2. QED BY <2>1, <3>1
  <2>4. QED BY <2>2, <2>3
<1>7. Removed(s, n) = Ids(rest)
  BY DEF Removed, rest
<1>8. QED BY <1>3, <1>6, <1>7

\* The clients are told what went, or it was a silent run's.
LEMMA ShowsCut ==
  ASSUME NEW L \in Seq(Message), NEW M \in Seq(Message), NEW sh, NEW si, NEW gone,
         Shows(L, sh, si), Begins(M, L), Once(L),
         \A x : x \in gone <=> \E i \in (Len(M) + 1)..Len(L) : L[i].id = x
  PROVE  Shows(M, sh \ gone, si) /\ Shows(M, sh, si \cup gone)
<1>1. Len(L) \in Nat /\ Len(M) \in Nat /\ Len(M) <= Len(L)
  BY LenProperties DEF Begins
<1>2. \A i \in 1..Len(M) : i \in 1..Len(L) /\ M[i] = L[i]
  BY <1>1 DEF Begins
<1>3. \A i \in 1..Len(M) : M[i].id \in sh
  BY <1>2 DEF Shows
<1>4. \A i \in 1..Len(M) : M[i].id \notin gone
  <2> SUFFICES ASSUME NEW i \in 1..Len(M), NEW k \in (Len(M) + 1)..Len(L),
                      M[i].id = L[k].id
               PROVE  FALSE
    OBVIOUS
  <2>1. k \in 1..Len(L) /\ i # k
    BY <1>1
  <2>2. QED BY <1>2, <2>1 DEF Once
<1>5. ASSUME NEW x \in sh, x \notin gone
      PROVE  x \in si \/ \E i \in 1..Len(M) : M[i].id = x
  <2>1. CASE \E i \in 1..Len(L) : L[i].id = x
    <3>1. PICK i \in 1..Len(L) : L[i].id = x
      BY <2>1
    <3>2. i \in 1..Len(M)
      <4>1. i \notin (Len(M) + 1)..Len(L)
        BY <1>5, <3>1
      <4>2. QED BY <1>1, <4>1
    <3>3. QED BY <1>2, <3>1, <3>2
  <2>2. QED BY <2>1 DEF Shows
<1>6. QED BY <1>3, <1>4, <1>5 DEF Shows

\* The end of the view that was behind position n is gone from the log.
LEMMA ShowsLess ==
  ASSUME NEW L \in Seq(Message), NEW r, NEW v \in Seq(Message), NEW b \in Nat,
         NEW c, NEW M \in Seq(Message), NEW n \in Nat, NEW sh, NEW si,
         Laid(L, r, v, b, c), Begins(M, L), Len(M) = b + n, n <= Len(v),
         Once(L), Shows(L, sh, si)
  PROVE  /\ Removed(v, n) \subseteq Stamps
         /\ Shows(M, sh \ Removed(v, n), si)
         /\ Shows(M, sh, si \cup Removed(v, n))
<1>1. Len(L) = b + Len(v) /\ \A i \in 1..Len(v) : L[b + i] = v[i]
  BY DEF Laid
<1>2. /\ Removed(v, n) \subseteq Stamps
      /\ \A x : x \in Removed(v, n)
               <=> \E i \in (b + n + 1)..Len(L) : L[i].id = x
  BY <1>1, RemovedIs
<1>3. \A x : x \in Removed(v, n)
             <=> \E i \in (Len(M) + 1)..Len(L) : L[i].id = x
  BY <1>2
<1>4. QED BY <1>2, <1>3, ShowsCut

\* A cut of a beginning of the log.
LEMMA CutBegins ==
  ASSUME NEW L \in Seq(Message), NEW M \in Seq(Message), NEW n \in Nat,
         n <= Len(L), Begins(L, M)
  PROVE  /\ Cut(M, n) \in Seq(Message) /\ Len(Cut(M, n)) = n
         /\ Begins(Cut(M, n), L) /\ Begins(Cut(M, n), M)
<1>1. Len(L) \in Nat /\ Len(M) \in Nat /\ n <= Len(M)
  BY LenProperties DEF Begins
<1>2. /\ Cut(M, n) \in Seq(Message) /\ Len(Cut(M, n)) = n
      /\ \A i \in 1..n : Cut(M, n)[i] = M[i]
  BY <1>1, CutIs
<1>3. \A i \in 1..n : i \in 1..Len(L) /\ L[i] = M[i]
  BY <1>1 DEF Begins
<1>4. QED BY <1>1, <1>2, <1>3 DEF Begins

LEMMA BeginsItself ==
  ASSUME NEW L \in Seq(Message)
  PROVE  Begins(L, L)
BY LenProperties DEF Begins


\* dropRunFrom: the run, from the prompt on, leaves the log L1, in whose view it
\* has its rows up to its prompt; nothing is queued then.
LEMMA DropEffect ==
  ASSUME RowsInv, NEW L1 \in Seq(Message), NEW r1 \in Seq(Message),
         NEW v1 \in Seq(Message), NEW c1 \in Nat, NEW sh, NEW clk \in Nat, NEW a,
         Laid(L1, r1, v1, base, c1), Begins(Log, L1), Once(L1),
         Shows(L1, sh, silenced), clock <= clk,
         routineAt # None, routineAt <= c1, base' = base,
         DropRunFrom(r1, v1, routineAt), "lateSummary" \notin Env
  PROVE  /\ Log' \in Seq(Message) /\ rows' \in Seq(Message)
         /\ view' \in Seq(Message) /\ count' \in Nat
         /\ Laid(Log', rows', view', base', count')
         /\ Begins(Log', Log) /\ base' + count' = Len(Log')
         /\ Sound(Log', base') /\ QueuedApart(Log', << >>, clk)
         /\ Detached(summary) \in SummarySet
         /\ Stands(Log', base', count', << >>, clk, a, Detached(summary))
         /\ Shows(Log', sh, silenced') /\ silenced' \subseteq Stamps
         /\ Gone(Log', << >>, clk, asked, undone)
<1> DEFINE n == routineAt
           M == Cut(L1, base + n)
           gone == Removed(v1, n)
<1>1. /\ Log \in Seq(Message) /\ base \in Nat /\ Len(Log) \in Nat
      /\ Len(view) \in Nat /\ clock \in Nat
      /\ asked \subseteq Nat /\ undone \subseteq Nat
  BY LogType
<1>2. /\ TypeOK /\ Len(Log) = base + Len(view)
      /\ Gone(Log, queue, clock, asked, undone)
      /\ RoutineStands(view, base, routineAt)
  BY DEF RowsInv, Laid
<1>3. n \in Nat /\ n < Len(view) /\ (base > 0 => n >= 1) /\ n <= c1
  BY <1>2 DEF TypeOK, RoutineStands
<1>4. /\ view' = Cut(v1, n) /\ count' = Len(Cut(v1, n))
      /\ rows' = Cut(r1, base + n)
      /\ silenced' = silenced \cup gone
      /\ summary.by \in {"none", "idle"} \/ n > summary.cut
  BY DEF DropRunFrom, SummarySurvives, Removed
<1> HIDE DEF n
<1>5. base + n \in Nat /\ base + n <= Len(Log)
  BY <1>1, <1>2, <1>3
<1>6. /\ M \in Seq(Message) /\ Len(M) = base + n
      /\ Begins(M, Log) /\ Begins(M, L1)
  BY <1>1, <1>5, CutBegins
<1>7. /\ rows' \in Seq(Message) /\ view' \in Seq(Message) /\ count' = n
      /\ Laid(M, rows', view', base, n)
  <2>1. /\ Cut(r1, base + n) \in Seq(Message) /\ Cut(v1, n) \in Seq(Message)
        /\ Len(Cut(v1, n)) = n
        /\ Laid(Cut(L1, base + n), Cut(r1, base + n), Cut(v1, n), base, n)
    BY <1>1, <1>3, CutLog
  <2>2. QED BY <1>4, <2>1
<1> HIDE DEF M
<1>8. Log' = M
  <2>1. Cut(rows', base) \o view' = M
    BY <1>1, <1>3, <1>6, <1>7, LogIs
  <2>2. QED BY <2>1 DEF Log
<1>9. /\ Sound(M, base) /\ QueuedApart(M, << >>, clk)
      /\ Detached(summary) \in SummarySet
      /\ Stands(M, base, n, << >>, clk, a, Detached(summary))
  BY <1>3, <1>4, <1>6, CutRest
<1> HIDE DEF gone
<1>10. gone \subseteq Stamps /\ Shows(M, sh, silenced \cup gone)
  <2>1. n <= Len(v1) /\ base \in Nat /\ n \in Nat
    <3>1. c1 <= Len(v1) /\ Len(v1) \in Nat
      BY LenProperties DEF Laid
    <3>2. QED BY <1>1, <1>3, <3>1
  <2>2. Removed(v1, n) \subseteq Stamps /\ Shows(M, sh, silenced \cup Removed(v1, n))
    BY <1>6, <2>1, ShowsLess
  <2>3. QED BY <2>2 DEF gone
<1>11. silenced' = silenced \cup gone
  BY <1>4
<1>14. silenced' \subseteq Stamps
  BY <1>2, <1>10, <1>11 DEF TypeOK
<1>15. Gone(M, << >>, clk, asked, undone)
  <2>1. Len(M) \in Nat /\ Len(<< >>) = 0 /\ clock \in Nat
    BY <1>1, <1>5, <1>6
  <2>2. \A i \in 1..Len(<< >>) : \E j \in 1..Len(queue) : queue[j] = << >>[i]
    BY <2>1
  <2>3. undone \ undone = {}
    OBVIOUS
  <2>4. QED BY <1>1, <1>2, <1>6, <2>1, <2>2, <2>3, GoneCut
<1>16. QED BY <1>3, <1>6, <1>7, <1>8, <1>9, <1>10, <1>11, <1>14, <1>15

\* What a turn brings.
LEMMA LandedIs ==
  ASSUME clock \in Nat, clock >= 6, NEW kind \in {"calls", "said", "quiet"},
         Room(Len(Landed(kind)))
  PROVE  /\ Landed(kind) \in Seq(Message) /\ Len(Landed(kind)) \in {1, 2}
         /\ Said(Landed(kind), clock)
         /\ clock + Len(Landed(kind)) \in 6..(7 + MaxNew)
<1>1. CASE kind = "calls"
  <2> DEFINE m == Plain(clock, "calls")
             r == Plain(clock + 1, "result")
             T == <<m, r>>
  <2>1. Landed(kind) = T
    BY <1>1 DEF Landed
  <2>2. Len(T) = 2 /\ T[1] = m /\ T[2] = r
    OBVIOUS
  <2>3. /\ clock \in Nat /\ clock >= 6 /\ 0 \in Nat /\ 1 \in Nat /\ 2 \in Nat
        /\ 0 < 2 /\ 1 < 2 /\ Room(2)
    BY <2>1, <2>2
  <2>4. clock + 1 \in Stamps /\ clock + 2 \in 6..(7 + MaxNew) /\ clock + 0 \in Stamps
    BY <2>3, StampsAre
  <2>5. clock \in Stamps
    BY <2>4
  <2>6. /\ m \in Message /\ m.id = clock /\ m.role = "calls"
        /\ r \in Message /\ r.id = clock + 1 /\ r.role = "result"
        /\ m.covers = {} /\ r.covers = {}
    BY <2>4, <2>5, PlainIs DEF Roles
  <2> HIDE DEF m, r
  <2>7. T \in Seq(Message)
    BY <2>6
  <2> HIDE DEF T
  <2>8. \A i \in 1..2 : i = 1 \/ i = 2
    OBVIOUS
  <2>9. Said(T, clock)
    <3>1. \A i \in 1..Len(T) : i = 1 \/ i = 2
      BY <2>2, <2>8
    <3>2. T[1].id = clock + (1 - 1) /\ T[2].id = clock + (2 - 1) /\ T[2 - 1] = m
      BY <2>2, <2>6
    <3>3. QED BY <2>2, <2>6, <3>1, <3>2 DEF Said
  <2>10. QED BY <2>1, <2>2, <2>4, <2>7, <2>9
<1>2. CASE kind # "calls"
  <2> DEFINE m == Plain(clock, kind)
             T == <<m>>
  <2>1. Landed(kind) = T
    BY <1>2 DEF Landed
  <2>2. Len(T) = 1 /\ T[1] = m
    OBVIOUS
  <2>3. /\ clock \in Nat /\ clock >= 6 /\ 0 \in Nat /\ 1 \in Nat
        /\ 0 < 1 /\ Room(1)
    BY <2>1, <2>2
  <2>4. clock + 1 \in 6..(7 + MaxNew) /\ clock + 0 \in Stamps
    BY <2>3, StampsAre
  <2>5. clock \in Stamps
    BY <2>4
  <2>6. m \in Message /\ m.id = clock /\ m.role = kind /\ m.covers = {}
    BY <2>5, PlainIs DEF Roles
  <2> HIDE DEF m
  <2>7. T \in Seq(Message)
    BY <2>6
  <2> HIDE DEF T
  <2>8. \A i \in 1..1 : i = 1 /\ clock + (i - 1) = clock
    OBVIOUS
  <2>9. Said(T, clock)
    BY <1>2, <2>2, <2>6, <2>8 DEF Said
  <2>10. QED BY <2>1, <2>2, <2>4, <2>7, <2>9
<1>3. QED BY <1>1, <1>2


\* What a step does to the log: it grows or is cut, and is stored as far.
Says == /\ Begins(Log, Log') /\ base' + count' \in Nat
        /\ base + count <= base' + count' /\ base' + count' <= Len(Log')

Cuts == Begins(Log', Log) /\ base' + count' = Len(Log')

\* step() returned with the run still live.
LEMMA TurnLandsKeeps ==
  ASSUME RowsInv, NEW kind \in {"calls", "said", "quiet"}, TurnLands(kind),
         "lateSummary" \notin Env
  PROVE  RowsInv' /\ (Says \/ Cuts)
<1> DEFINE T == Landed(kind)
           v == view \o T
           ends == kind # "calls" /\ queue = << >>
           drops == ends /\ routineAt # None /\ RunWasSilent(v, routineAt)
<1>1. /\ Log \in Seq(Message) /\ view \in Seq(Message) /\ rows \in Seq(Message)
      /\ base \in Nat /\ count \in Nat /\ clock \in Nat /\ Len(Log) \in Nat
      /\ Len(view) \in Nat /\ queue \in Seq(Stamps) /\ summary \in SummarySet
  BY LogType
<1>2. /\ TypeOK /\ Shows(Log, shown, silenced)
      /\ RoutineStands(view, base, routineAt)
      /\ Laid(Log, rows, view, base, count) /\ Sound(Log, base)
      /\ QueuedApart(Log, queue, clock)
      /\ Gone(Log, queue, clock, asked, undone)
      /\ Stands(Log, base, count, queue, clock, at, summary)
  BY DEF RowsInv
<1>3. /\ at = "turn" /\ Room(Len(T)) /\ clock' = clock + Len(T)
      /\ at' \in {"idle", "top"}
      /\ routineAt' = IF ends THEN None ELSE routineAt
      /\ shown' = shown \cup Ids(T)
      /\ IF drops THEN DropRunFrom(WithRows(v), v, routineAt)
                  ELSE /\ view' = v /\ rows' = WithRows(v) /\ count' = Len(v)
                       /\ UNCHANGED silenced
      /\ UNCHANGED <<base, queue, summary, asked, undone>>
  BY DEF TurnLands
<1>4. /\ T \in Seq(Message) /\ Len(T) \in {1, 2} /\ Said(T, clock)
      /\ clock + Len(T) \in 6..(7 + MaxNew)
  <2>1. clock >= 6
    BY <1>2, BoundsAssumption DEF TypeOK
  <2>2. QED BY <1>1, <1>3, <2>1, LandedIs
<1>5. clock' \in Nat /\ clock <= clock' /\ Len(T) \in Nat
  BY <1>1, <1>3, <1>4
<1>6. summary.by # "step"
  <2>1. NoSummary.by # "step"
    BY DEF NoSummary
  <2>2. QED BY <1>2, <1>3, <2>1 DEF Stands
<1>7. Ids(T) \subseteq Stamps
  BY <1>4, IdsOf
<1>8. /\ Log \o T \in Seq(Message) /\ v \in Seq(Message)
      /\ Len(v) = Len(view) + Len(T) /\ WithRows(v) \in Seq(Message)
      /\ Laid(Log \o T, WithRows(v), v, base, Len(v))
  BY <1>4, StoredSaid
<1>9. Shows(Log \o T, shown', silenced)
  BY <1>1, <1>2, <1>3, <1>4, ShowsGrows
<1>10. shown' \subseteq Stamps /\ None \in Nat
  BY <1>2, <1>3, <1>7, BoundsAssumption DEF TypeOK, None
<1> HIDE DEF T
<1>11. ASSUME drops PROVE RowsInv' /\ Cuts
  <2>1. Sound(Log \o T, base) /\ Grown(Log, queue, clock, Log \o T, queue)
    BY <1>1, <1>2, <1>4, SayKeepsSound
  <2>2. Begins(Log, Log \o T) /\ Once(Log \o T)
    BY <2>1 DEF Grown, Sound
  <2>3. queue = << >> /\ routineAt # None /\ DropRunFrom(WithRows(v), v, routineAt)
        /\ routineAt' = None /\ base' = base
    BY <1>3, <1>11
  <2>4. routineAt <= Len(v) /\ Len(v) \in Nat
    <3>1. routineAt < Len(view) /\ routineAt \in Nat
      BY <1>2, <2>3 DEF RoutineStands, TypeOK
    <3>2. Len(v) = Len(view) + Len(T)
      BY <1>8
    <3> HIDE DEF v
    <3>3. QED BY <1>1, <1>5, <3>1, <3>2
  <2> DEFINE L1 == Log \o T
             r1 == WithRows(v)
  <2>5. /\ L1 \in Seq(Message) /\ r1 \in Seq(Message) /\ v \in Seq(Message)
        /\ Len(v) \in Nat /\ Laid(L1, r1, v, base, Len(v)) /\ Begins(Log, L1)
        /\ Once(L1) /\ Shows(L1, shown', silenced)
        /\ DropRunFrom(r1, v, routineAt)
    BY <1>8, <1>9, <2>2, <2>3, <2>4
  <2> HIDE DEF L1, r1, v
  <2>6. /\ Log' \in Seq(Message) /\ rows' \in Seq(Message)
        /\ view' \in Seq(Message) /\ count' \in Nat
        /\ Laid(Log', rows', view', base', count')
        /\ Begins(Log', Log) /\ base' + count' = Len(Log')
        /\ Sound(Log', base') /\ QueuedApart(Log', << >>, clock')
        /\ Detached(summary) \in SummarySet
        /\ Stands(Log', base', count', << >>, clock', at', Detached(summary))
        /\ Shows(Log', shown', silenced') /\ silenced' \subseteq Stamps
        /\ Gone(Log', << >>, clock', asked, undone)
    BY <1>5, <2>3, <2>4, <2>5, DropEffect
  <2>7. Detached(summary) = summary
    BY <1>6 DEF Detached
  <2>8. RoutineStands(view', base', routineAt')
    BY <2>3 DEF RoutineStands
  <2>9. TypeOK'
    BY <1>2, <1>3, <1>4, <1>10, <2>3, <2>6 DEF TypeOK
  <2>10. RowsInv'
    BY <1>3, <2>3, <2>6, <2>7, <2>8, <2>9 DEF RowsInv
  <2>11. QED BY <2>6, <2>10 DEF Cuts
<1>12. ASSUME ~ drops PROVE RowsInv' /\ Says
  <2>1. /\ view' = v /\ rows' = WithRows(v) /\ count' = Len(v) /\ silenced' = silenced
        /\ base' = base /\ queue' = queue /\ summary' = summary /\ asked' = asked
        /\ undone' = undone
    BY <1>3, <1>12
  <2>2. /\ Log' = Log \o T /\ Log' \in Seq(Message) /\ rows' \in Seq(Message)
        /\ view' \in Seq(Message) /\ count' \in Nat
        /\ Laid(Log', rows', view', base', count') /\ Sound(Log', base')
        /\ Grown(Log, queue, clock, Log', queue)
        /\ QueuedApart(Log', queue, clock + Len(T))
        /\ count <= count' /\ base + count' <= Len(Log')
    BY <1>4, <2>1, SayEffect
  <2>3. \A t \in asked : t < clock'
    <3>1. \A t \in asked : t \in Nat /\ t < clock
      BY <1>2, LogType DEF Gone
    <3>2. QED BY <1>1, <1>5, <3>1
  <2>4. /\ Stands(Log', base, count', queue, clock', at', summary)
        /\ Gone(Log', queue, clock', asked, undone)
    BY <1>5, <1>6, <2>2, <2>3, SayKeepsRest
  <2>5. RoutineStands(view', base', routineAt')
    <3>1. Len(view') = Len(view) + Len(T) /\ routineAt \in Nat
      BY <1>2, <1>8, <2>1 DEF TypeOK
    <3> HIDE DEF v
    <3>2. routineAt' = None \/ routineAt' = routineAt
      BY <1>3
    <3>3. CASE routineAt' = None
      BY <3>3 DEF RoutineStands
    <3>4. CASE routineAt' = routineAt
      BY <1>1, <1>2, <1>5, <2>1, <3>1, <3>4 DEF RoutineStands
    <3>5. QED BY <3>2, <3>3, <3>4
  <2>6. routineAt' \in Nat
    BY <1>2, <1>3, <1>10 DEF TypeOK
  <2>7. TypeOK'
    BY <1>2, <1>3, <1>4, <1>10, <2>1, <2>2, <2>6 DEF TypeOK
  <2>8. RowsInv'
    BY <1>3, <1>9, <2>1, <2>2, <2>4, <2>5, <2>7 DEF RowsInv
  <2>9. Begins(Log, Log') /\ base + count <= base' + count' /\ base' + count' \in Nat
    BY <1>1, <2>1, <2>2 DEF Grown
  <2>10. QED BY <2>1, <2>2, <2>8, <2>9 DEF Says
<1>13. QED BY <1>11, <1>12

\* The stop button.
LEMMA StopKeeps ==
  ASSUME RowsInv, Stop, "lateSummary" \notin Env, "undoUnstored" \notin Env
  PROVE  RowsInv' /\ (Says \/ Cuts)
<1> DEFINE drops == routineAt # None /\ RunWasSilent(view, routineAt)
<1>1. /\ Log \in Seq(Message) /\ view \in Seq(Message) /\ rows \in Seq(Message)
      /\ base \in Nat /\ count \in Nat /\ clock \in Nat /\ Len(Log) \in Nat
      /\ Len(view) \in Nat /\ summary \in SummarySet
      /\ asked \subseteq Nat /\ undone \subseteq Nat
  BY LogType
<1>2. /\ TypeOK /\ Shows(Log, shown, silenced)
      /\ Laid(Log, rows, view, base, count) /\ Sound(Log, base)
      /\ QueuedApart(Log, queue, clock)
      /\ Gone(Log, queue, clock, asked, undone)
      /\ Stands(Log, base, count, queue, clock, at, summary)
  BY DEF RowsInv
<1>3. /\ at' = "idle" /\ queue' = << >> /\ routineAt' = None
      /\ summary' = Detached(summary)
      /\ IF drops THEN routineAt <= count /\ DropRunFrom(rows, view, routineAt)
                  ELSE UNCHANGED <<rows, view, count, silenced>>
      /\ UNCHANGED <<base, clock, shown, asked, undone>>
  BY DEF Stop
<1>4. clock <= clock /\ None \in Nat /\ RoutineStands(view', base', routineAt')
  BY <1>1, <1>3, BoundsAssumption DEF None, RoutineStands
<1>5. /\ Detached(summary) \in SummarySet
      /\ Stands(Log, base, count, queue, clock, at', Detached(summary))
  BY <1>1, <1>2, DetachStands
<1>6. Begins(Log, Log) /\ Once(Log)
  BY <1>1, <1>2, BeginsItself DEF Sound
<1>7. ASSUME drops PROVE RowsInv' /\ Cuts
  <2>1. /\ routineAt # None /\ routineAt <= count
        /\ DropRunFrom(rows, view, routineAt) /\ base' = base
    BY <1>3, <1>7
  <2>2. /\ Log' \in Seq(Message) /\ rows' \in Seq(Message)
        /\ view' \in Seq(Message) /\ count' \in Nat
        /\ Laid(Log', rows', view', base', count')
        /\ Begins(Log', Log) /\ base' + count' = Len(Log')
        /\ Sound(Log', base') /\ QueuedApart(Log', << >>, clock)
        /\ Stands(Log', base', count', << >>, clock, at', Detached(summary))
        /\ Shows(Log', shown, silenced') /\ silenced' \subseteq Stamps
        /\ Gone(Log', << >>, clock, asked, undone)
    BY <1>1, <1>2, <1>4, <1>6, <2>1, DropEffect
  <2>3. TypeOK'
    <3>1. summary' \in SummarySet /\ queue' \in Seq(Stamps) /\ routineAt' \in Nat
      BY <1>3, <1>4, <1>5
    <3>2. rows' \in Seq(Message) /\ view' \in Seq(Message) /\ count' \in Nat
          /\ silenced' \subseteq Stamps
      BY <2>2
    <3>3. QED BY <1>2, <1>3, <3>1, <3>2 DEF TypeOK, SummarySet
  <2>4. RowsInv'
    BY <1>3, <1>4, <2>2, <2>3 DEF RowsInv
  <2>5. QED BY <2>2, <2>4 DEF Cuts
<1>8. ASSUME ~ drops PROVE RowsInv' /\ Says
  <2>1. UNCHANGED <<rows, view, count, silenced, base, clock, shown, asked, undone>>
    BY <1>3, <1>8
  <2>2. Log' = Log
    BY <2>1 DEF Log
  <2>3. QueuedApart(Log, << >>, clock)
    BY <1>1, <1>2, <1>6, CutKeepsQueue
  <2>4. /\ Len(<< >>) = 0
        /\ \A i \in 1..Len(<< >>) : \E j \in 1..Len(queue) : queue[j] = << >>[i]
    OBVIOUS
  <2>5. Gone(Log, << >>, clock, asked, undone)
    BY <1>2, <2>4 DEF Gone
  <2>6. Stands(Log, base, count, << >>, clock, at', Detached(summary))
    BY <1>5, <2>4 DEF Stands, Lost
  <2>7. TypeOK'
    BY <1>2, <1>3, <1>4, <1>5, <2>1 DEF TypeOK, SummarySet
  <2>8. RowsInv'
    BY <1>2, <1>3, <1>4, <2>1, <2>2, <2>3, <2>5, <2>6, <2>7 DEF RowsInv
  <2>9. base + count <= Len(Log) /\ base + count \in Nat
    BY <1>1, <1>2 DEF Laid
  <2>10. QED BY <1>1, <1>6, <2>1, <2>2, <2>8, <2>9 DEF Says
<1>9. QED BY <1>7, <1>8


(***************************************************************************)
(* Where a checkpoint is put in.                                           *)
(***************************************************************************)
LEMMA InsertShows ==
  ASSUME NEW L \in Seq(Message), NEW C \in Nat, C < Len(L), NEW m \in Message,
         NEW M, M = Splice(L, C, m), NEW sh, NEW si, NEW q, NEW as, NEW un,
         NEW clk \in Nat, m.id = clk, un \subseteq Nat, as \subseteq Nat,
         Shows(L, sh, si), Gone(L, q, clk, as, un)
  PROVE  Shows(M, sh \cup {clk}, si) /\ Gone(M, q, clk + 1, as, un)
<1>1. Len(L) \in Nat
  BY LenProperties
<1>2. /\ Len(M) = Len(L) + 1
      /\ \A i \in 1..C : M[i] = L[i]
      /\ M[C + 1] = m
      /\ \A i \in (C + 1)..Len(L) : M[i + 1] = L[i]
  BY SpliceIs
<1>3. \A i \in 1..Len(M) : M[i] = m \/ \E j \in 1..Len(L) : M[i] = L[j]
  <2> TAKE i \in 1..Len(M)
  <2>1. CASE i <= C
    <3>1. i \in 1..C /\ i \in 1..Len(L)
      BY <1>1, <2>1
    <3>2. QED BY <1>2, <3>1
  <2>2. CASE i = C + 1
    BY <1>2, <2>2
  <2>3. CASE i > C + 1
    <3>1. i - 1 \in (C + 1)..Len(L) /\ i - 1 \in 1..Len(L) /\ (i - 1) + 1 = i
      BY <1>1, <1>2, <2>3
    <3>2. M[(i - 1) + 1] = L[i - 1]
      BY <1>2, <3>1
    <3>3. QED BY <3>1, <3>2
  <2>4. i <= C \/ i = C + 1 \/ i > C + 1
    BY <1>1, <1>2
  <2>5. QED BY <2>1, <2>2, <2>3, <2>4
<1>4. \A j \in 1..Len(L) : \E i \in 1..Len(M) : M[i] = L[j]
  <2> TAKE j \in 1..Len(L)
  <2>1. CASE j <= C
    <3>1. j \in 1..C /\ j \in 1..Len(M)
      BY <1>1, <1>2, <2>1
    <3>2. QED BY <1>2, <3>1
  <2>2. CASE j > C
    <3>1. j \in (C + 1)..Len(L) /\ j + 1 \in 1..Len(M)
      BY <1>1, <1>2, <2>2
    <3>2. QED BY <1>2, <3>1
  <2>3. QED BY <1>1, <2>1, <2>2
<1>5. \E i \in 1..Len(M) : M[i] = m
  <2>1. C + 1 \in 1..Len(M)
    BY <1>1, <1>2
  <2>2. QED BY <1>2, <2>1
<1>6. Shows(M, sh \cup {clk}, si)
  <2>1. \A i \in 1..Len(M) : M[i].id \in sh \cup {clk}
    BY <1>3 DEF Shows
  <2>2. ASSUME NEW x \in sh PROVE x \in si \/ \E i \in 1..Len(M) : M[i].id = x
    <3>1. x \in si \/ \E j \in 1..Len(L) : L[j].id = x
      BY DEF Shows
    <3>2. QED BY <1>4, <3>1
  <2>3. \E i \in 1..Len(M) : M[i].id = clk
    BY <1>5
  <2>4. QED BY <2>1, <2>2, <2>3 DEF Shows
<1>7. Gone(M, q, clk + 1, as, un)
  <2>1. ASSUME NEW t \in as PROVE t < clk + 1
    <3>1. t \in Nat /\ t < clk
      BY DEF Gone
    <3>2. QED BY <3>1
  <2>2. ASSUME NEW t \in un
        PROVE  t < clk + 1 /\ (\A i \in 1..Len(M) : M[i].id # t)
               /\ \A i \in 1..Len(q) : q[i] # t
    <3>1. t \in Nat /\ t < clk /\ (\A i \in 1..Len(L) : L[i].id # t)
          /\ \A i \in 1..Len(q) : q[i] # t
      BY DEF Gone
    <3>2. t # clk
      BY <3>1
    <3>3. QED BY <1>3, <3>1, <3>2
  <2>3. QED BY <2>1, <2>2 DEF Gone
<1>8. QED BY <1>6, <1>7

\* What a provider publishes again.
LEMMA RepublishedIs ==
  ASSUME NEW v, clock \in Nat, clock >= 6, Room(1 + Len(Republished(v)))
  PROVE  /\ clock \in Stamps /\ Republished(v) \in Seq(Message)
         /\ Said(Republished(v), clock + 1)
         /\ Len(Republished(v)) \in Nat
         /\ clock + 1 + Len(Republished(v)) \in 6..(7 + MaxNew)
<1> DEFINE m == Plain(clock + 1, "context")
           again == Republished(v)
<1>1. again = << >> \/ again = <<m>>
  BY DEF Republished
<1> HIDE DEF again
<1>2. CASE again = << >>
  <2>1. Len(again) = 0 /\ again \in Seq(Message) /\ 1 + 0 = 1
    BY <1>2
  <2>2. \A i \in 1..0 : FALSE
    OBVIOUS
  <2>3. Said(again, clock + 1)
    BY <2>1, <2>2 DEF Said
  <2>4. Room(1) /\ 0 \in Nat /\ 1 \in Nat /\ 0 < 1
    BY <2>1 DEF again
  <2>5. clock + 0 \in Stamps /\ clock + 1 \in 6..(7 + MaxNew)
    BY <2>4, StampsAre
  <2>6. QED BY <2>1, <2>3, <2>5 DEF again
<1>3. CASE again = <<m>>
  <2>1. Len(<<m>>) = 1 /\ <<m>>[1] = m /\ 1 + 1 = 2
    OBVIOUS
  <2>2. Room(2) /\ 0 \in Nat /\ 1 \in Nat /\ 2 \in Nat /\ 0 < 2 /\ 1 < 2
    BY <1>3, <2>1 DEF again
  <2>3. clock + 0 \in Stamps /\ clock + 1 \in Stamps /\ clock + 2 \in 6..(7 + MaxNew)
    BY <2>2, StampsAre
  <2>4. m \in Message /\ m.id = clock + 1 /\ m.role = "context" /\ m.covers = {}
    BY <2>3, PlainIs DEF Roles
  <2> HIDE DEF m
  <2>5. again \in Seq(Message) /\ Len(again) = 1 /\ again[1] = m
    BY <1>3, <2>1, <2>4
  <2>6. \A i \in 1..1 : i = 1 /\ clock + 1 + (i - 1) = clock + 1
    OBVIOUS
  <2>7. Said(again, clock + 1)
    BY <2>4, <2>5, <2>6 DEF Said
  <2>8. clock \in Stamps /\ clock + 1 + Len(again) \in 6..(7 + MaxNew)
    BY <2>3, <2>5
  <2>9. QED BY <2>5, <2>7, <2>8 DEF again
<1>4. QED BY <1>1, <1>2, <1>3

\* The checkpoint and what is published again: a message more is stored, and
\* nothing that was said moves but for making room.
Condenses ==
    /\ base' + count' = base + count + 1 /\ Len(Log') > Len(Log)
    /\ \E p \in 1..(base + count) : /\ p <= Len(Log)
                                    /\ Begins(Splice(Log, p - 1, Log'[p]), Log')

\* The summary comes back.
LEMMA SummaryReturnsKeeps ==
  ASSUME RowsInv, SummaryReturns
  PROVE  RowsInv' /\ Condenses
<1> DEFINE cut == summary.cut
           cp == [id |-> clock, role |-> "checkpoint", covers |-> summary.covers]
           v == Splice(view, cut, cp)
           again == Republished(v)
           M == Splice(Log, base + cut, cp)
<1>1. /\ Log \in Seq(Message) /\ view \in Seq(Message) /\ rows \in Seq(Message)
      /\ base \in Nat /\ count \in Nat /\ clock \in Nat /\ Len(Log) \in Nat
      /\ Len(view) \in Nat /\ queue \in Seq(Stamps) /\ summary \in SummarySet
      /\ asked \subseteq Nat /\ undone \subseteq Nat
  BY LogType
<1>2. /\ TypeOK /\ Shows(Log, shown, silenced)
      /\ RoutineStands(view, base, routineAt)
      /\ Laid(Log, rows, view, base, count) /\ Sound(Log, base)
      /\ QueuedApart(Log, queue, clock)
      /\ Gone(Log, queue, clock, asked, undone)
      /\ Stands(Log, base, count, queue, clock, at, summary)
  BY DEF RowsInv
<1>3. /\ summary # NoSummary
      /\ summary.by = "idle" => CanCommit
      /\ Room(1 + Len(again))
      /\ clock' = clock + 1 + Len(again)
      /\ rows' = Splice(rows, base + cut, cp)
      /\ count' = IF summary.closed THEN count ELSE CountAfterInsert(cut)
      /\ view' = v \o again
      /\ shown' = IF cut < Len(view) THEN shown \cup {clock} \cup Ids(again) ELSE shown
      /\ summary' = NoSummary
      /\ UNCHANGED <<base, at, queue, routineAt, asked, history>>
  BY DEF SummaryReturns
<1>4. ~ summary.closed /\ Fits(Log, base, count, base + cut, summary.covers)
  <2>1. CASE summary.by # "idle"
    BY <1>2, <1>3, <2>1 DEF Stands
  <2>2. CASE summary.by = "idle"
    <3>1. /\ ~ summary.closed /\ Len(view) = summary.len
          /\ Len(view) > 0 => view[Len(view)].id = summary.newest
      BY <1>3, <2>2 DEF CanCommit
    <3>2. summary.len >= 1 /\ (Seen(Log, base, count, summary)
                                 \/ Lost(Log, queue, clock, summary))
      BY <1>2, <1>3, <2>2, <3>1 DEF Stands
    <3>3. ~ Lost(Log, queue, clock, summary)
      <4>1. Len(view) \in 1..Len(view) /\ Len(Log) = base + Len(view)
            /\ base + Len(view) \in 1..Len(Log)
        BY <1>1, <1>2, <3>1, <3>2 DEF Laid
      <4>2. Log[base + Len(view)] = view[Len(view)]
        BY <1>2, <4>1 DEF Laid
      <4>3. view[Len(view)].id = summary.newest
        BY <3>1, <4>1
      <4>4. QED BY <4>1, <4>2, <4>3 DEF Lost
    <3>4. QED BY <3>1, <3>2, <3>3 DEF Seen
  <2>3. QED BY <2>1, <2>2
<1>5. cut \in Nat /\ summary.covers \in SUBSET Stamps
  BY <1>1 DEF SummarySet
<1> HIDE DEF again
<1>6. /\ clock \in Stamps /\ again \in Seq(Message) /\ Said(again, clock + 1)
      /\ Len(again) \in Nat /\ clock' \in 6..(7 + MaxNew)
  <2>1. clock >= 6
    BY <1>2, BoundsAssumption DEF TypeOK
  <2>2. QED BY <1>1, <1>3, <2>1, RepublishedIs DEF again
<1>7. cp \in Message /\ cp.id = clock /\ cp.role = "checkpoint"
      /\ cp.covers = summary.covers
  BY <1>5, <1>6 DEF Message, Roles
<1> HIDE DEF cp, cut
<1>8. cut < count /\ count <= Len(view) /\ cut < Len(view)
      /\ Len(Log) = base + Len(view) /\ base + cut < Len(Log) /\ base + cut \in Nat
  BY <1>1, <1>2, <1>4, <1>5 DEF Fits, Laid
<1>9. count' = count + 1
  BY <1>1, <1>3, <1>4, <1>5, <1>8 DEF CountAfterInsert
<1> HIDE DEF v, M
<1>10. /\ rows' \in Seq(Message) /\ v \in Seq(Message)
       /\ Laid(M, rows', v, base, count + 1)
  <2>1. /\ Splice(rows, base + cut, cp) \in Seq(Message)
        /\ Splice(view, cut, cp) \in Seq(Message)
        /\ Laid(Splice(Log, base + cut, cp), Splice(rows, base + cut, cp),
                Splice(view, cut, cp), base, count + 1)
    BY <1>1, <1>2, <1>5, <1>7, <1>8, InsertLog
  <2>2. QED BY <1>3, <2>1 DEF v, M
<1>11. M \in Seq(Message) /\ Sound(M, base) /\ QueuedApart(M, queue, clock + 1)
  <2>1. Fits(Log, base, count, base + cut, cp.covers)
    BY <1>4, <1>7 DEF cut
  <2>2. M = Splice(Log, base + cut, cp)
    BY DEF M
  <2>3. QED BY <1>1, <1>2, <1>6, <1>7, <1>8, <2>1, <2>2, InsertKeepsSound
<1>12. /\ Shows(M, shown \cup {clock}, silenced)
       /\ Gone(M, queue, clock + 1, asked, undone)
  <2>1. M = Splice(Log, base + cut, cp)
    BY DEF M
  <2>2. QED BY <1>1, <1>2, <1>7, <1>8, <2>1, InsertShows
<1>13. clock + 1 \in Nat /\ clock' \in Nat /\ clock + 1 <= clock'
  BY <1>1, <1>3, <1>6
<1> DEFINE N == M \o again
<1>14. /\ Sound(N, base) /\ Grown(M, queue, clock + 1, N, queue)
       /\ QueuedApart(N, queue, clock')
  BY <1>1, <1>3, <1>6, <1>11, <1>13, SayKeepsSound
<1>15. /\ Laid(N, rows', view', base, count') /\ N \in Seq(Message)
       /\ view' \in Seq(Message) /\ count' \in Nat
       /\ Len(view') = Len(v) + Len(again) /\ Len(N) = Len(M) + Len(again)
       /\ Len(v) \in Nat /\ Len(M) \in Nat
  <2>1. Laid(M \o again, rows', v \o again, base, count + 1)
    <3>1. /\ M \in Seq(Message) /\ rows' \in Seq(Message) /\ v \in Seq(Message)
          /\ base \in Nat /\ count + 1 \in Nat /\ again \in Seq(Message)
          /\ Laid(M, rows', v, base, count + 1)
      BY <1>1, <1>6, <1>10, <1>11
    <3>2. QED BY <3>1, GrownLog
  <2>2. M \o again \in Seq(Message) /\ Len(M \o again) = Len(M) + Len(again)
        /\ Len(M) \in Nat
    BY <1>6, <1>11, JoinIs
  <2>3. v \o again \in Seq(Message) /\ Len(v \o again) = Len(v) + Len(again)
        /\ Len(v) \in Nat
    BY <1>6, <1>10, JoinIs
  <2>4. QED BY <1>1, <1>3, <1>9, <2>1, <2>2, <2>3
<1> HIDE DEF N
<1>16. Log' = N
  <2>1. /\ N \in Seq(Message) /\ rows' \in Seq(Message) /\ view' \in Seq(Message)
        /\ base \in Nat /\ count' \in Nat /\ Laid(N, rows', view', base, count')
    BY <1>1, <1>10, <1>15
  <2>2. Cut(rows', base) \o view' = N
    BY <2>1, LogIs
  <2>3. QED BY <1>3, <2>2 DEF Log
<1>17. Len(M) = Len(Log) + 1 /\ Len(v) = Len(view) + 1 /\ M[(base + cut) + 1] = cp
  <2>1. Len(M) = Len(Log) + 1 /\ M[(base + cut) + 1] = cp
    <3> DEFINE C == base + cut
    <3>1. Log \in Seq(Message) /\ C \in Nat /\ C < Len(Log) /\ cp \in Message
      BY <1>1, <1>7, <1>8
    <3> HIDE DEF C
    <3>2. Len(Splice(Log, C, cp)) = Len(Log) + 1 /\ Splice(Log, C, cp)[C + 1] = cp
      BY <3>1, SpliceIs
    <3>3. QED BY <3>2 DEF C, M
  <2>2. Len(v) = Len(view) + 1
    BY <1>1, <1>5, <1>7, <1>8, SpliceIs DEF v
  <2>3. QED BY <2>1, <2>2
<1>18. RoutineStands(view', base', routineAt')
  <2>1. routineAt \in Nat /\ Len(view') > Len(view) /\ Len(view') \in Nat
    BY <1>1, <1>2, <1>6, <1>15, <1>17 DEF TypeOK
  <2>2. QED BY <1>1, <1>2, <1>3, <2>1 DEF RoutineStands
<1>19. Shows(N, shown', silenced) /\ shown' \subseteq Stamps
  <2>1. shown' = (shown \cup {clock}) \cup Ids(again)
    BY <1>3, <1>8 DEF cut
  <2>2. Ids(again) \subseteq Stamps
    BY <1>6, IdsOf
  <2>3. Shows(M \o again, (shown \cup {clock}) \cup Ids(again), silenced)
    BY <1>6, <1>11, <1>12, ShowsGrows
  <2>4. QED BY <1>2, <1>6, <2>1, <2>2, <2>3 DEF N, TypeOK
<1>20. Gone(N, queue, clock', asked, undone)
  <2>1. \A t \in asked : t < clock'
    <3>1. \A t \in asked : t \in Nat /\ t < clock + 1
      BY <1>1, <1>12 DEF Gone
    <3>2. QED BY <1>13, <3>1
  <2>2. Len(N) \in Nat
    BY <1>6, <1>15
  <2>3. QED BY <1>1, <1>12, <1>13, <1>14, <1>15, <2>1, <2>2, GoneGrows
<1>21. Stands(N, base, count', queue, clock', at, NoSummary)
  BY DEF Stands
<1>22. TypeOK'
  <2>1. NoSummary \in SummarySet
    BY DEF NoSummary, SummarySet
  <2>2. QED BY <1>2, <1>3, <1>6, <1>10, <1>15, <1>19, <2>1 DEF TypeOK, SummarySet, history
<1>23. RowsInv'
  BY <1>3, <1>14, <1>15, <1>16, <1>18, <1>19, <1>20, <1>21, <1>22 DEF RowsInv, history
<1>24. Condenses
  <2> DEFINE p == (base + cut) + 1
  <2>1. p \in 1..(base + count) /\ p <= Len(Log) /\ p - 1 = base + cut /\ p <= Len(M)
        /\ p \in 1..Len(M)
    BY <1>1, <1>5, <1>8, <1>17
  <2>2. Begins(M, N)
    BY <1>14 DEF Grown
  <2>3. N[p] = cp
    BY <1>17, <2>1, <2>2 DEF Begins
  <2>4. Begins(Splice(Log, p - 1, Log'[p]), Log')
    BY <1>16, <2>1, <2>2, <2>3 DEF M
  <2>5. Len(N) > Len(Log)
    BY <1>1, <1>6, <1>15, <1>17
  <2>6. base' + count' = base + count + 1
    <3>1. base' = base
      BY <1>3
    <3>2. QED BY <1>1, <1>9, <3>1
  <2> HIDE DEF p
  <2>7. QED BY <1>16, <2>1, <2>4, <2>5, <2>6 DEF Condenses
<1>25. QED BY <1>23, <1>24


(***************************************************************************)
(* The rewinder.                                                           *)
(***************************************************************************)
\* What came before the prompt t stays.
Keeps(L, M, t) == \A i \in 1..Len(L) :
    (L[i].id < t /\ \A j \in 1..i : L[j].id # t)
        => \E k \in 1..Len(M) : M[k].id = L[i].id

Without(M, t) == \A i \in 1..Len(M) : M[i].id # t

\* What an undo does beside the log: the run is over, the queue is gone, the
\* summary is nobody's.
UndoFrame(t) ==
    /\ at' = "idle" /\ queue' = << >> /\ routineAt' = None
    /\ summary' = Detached(summary)
    /\ undone' = undone \cup {t}
    /\ UNCHANGED <<clock, asked, silenced>>

LEMMA UndoRest ==
  ASSUME RowsInv, NEW t \in asked, UndoFrame(t),
         Log' \in Seq(Message), rows' \in Seq(Message), view' \in Seq(Message),
         base' \in Nat, count' \in Nat, Laid(Log', rows', view', base', count'),
         Begins(Log', Log), Sound(Log', base'), Without(Log', t),
         Stands(Log', base', count', << >>, clock, "idle", Detached(summary)),
         Shows(Log', shown', silenced), shown' \subseteq Stamps
  PROVE  RowsInv'
<1>1. /\ Log \in Seq(Message) /\ clock \in Nat /\ Len(Log) \in Nat
      /\ summary \in SummarySet /\ asked \subseteq Nat /\ undone \subseteq Nat
  BY LogType
<1>2. /\ TypeOK /\ QueuedApart(Log, queue, clock)
      /\ Gone(Log, queue, clock, asked, undone)
      /\ Stands(Log, base, count, queue, clock, at, summary)
  BY DEF RowsInv
<1>3. /\ at' = "idle" /\ queue' = << >> /\ routineAt' = None
      /\ summary' = Detached(summary)
      /\ undone' = undone \cup {t}
      /\ clock' = clock /\ asked' = asked /\ silenced' = silenced
  BY DEF UndoFrame
<1>4. QueuedApart(Log', << >>, clock)
  BY <1>1, <1>2, CutKeepsQueue
<1>5. Gone(Log', << >>, clock, asked, undone')
  <2>1. Len(Log') \in Nat /\ Len(<< >>) = 0 /\ clock <= clock
    BY <1>1, LenProperties
  <2>2. \A i \in 1..Len(<< >>) : \E j \in 1..Len(queue) : queue[j] = << >>[i]
    BY <2>1
  <2>3. \A x \in undone' \ undone : /\ x \in asked
                                    /\ \A i \in 1..Len(Log') : Log'[i].id # x
                                    /\ \A i \in 1..Len(<< >>) : << >>[i] # x
    BY <1>3, <2>1 DEF Without
  <2>4. QED BY <1>1, <1>2, <2>1, <2>2, <2>3, GoneCut
<1>6. None \in Nat /\ RoutineStands(view', base', routineAt')
  BY <1>3, BoundsAssumption DEF None, RoutineStands
<1>7. Detached(summary) \in SummarySet
  BY <1>1, <1>2, DetachStands
<1>8. TypeOK'
  <2>1. undone' \subseteq Stamps
    BY <1>2, <1>3 DEF TypeOK
  <2>2. summary' \in SummarySet /\ queue' \in Seq(Stamps) /\ routineAt' \in Nat
    BY <1>3, <1>6, <1>7
  <2>3. QED BY <1>2, <1>3, <2>1, <2>2 DEF TypeOK, SummarySet
<1>9. QED BY <1>3, <1>4, <1>5, <1>6, <1>8 DEF RowsInv

\* The log is cut inside the view, at a message that has a row or right behind
\* the last that has one.
LEMMA CutViewKeeps ==
  ASSUME RowsInv, NEW t \in asked, UndoFrame(t), NEW n \in Nat, CutView(n),
         n <= count, base > 0 => n >= 1,
         summary.by \in {"none", "idle"} \/ n > summary.cut,
         \A k \in 1..(base + n) : Log[k].id # t
  PROVE  /\ RowsInv' /\ Cuts /\ Len(Log') = base + n /\ Without(Log', t)
<1> DEFINE M == Cut(Log, base + n)
<1>1. /\ Log \in Seq(Message) /\ rows \in Seq(Message) /\ view \in Seq(Message)
      /\ base \in Nat /\ count \in Nat /\ clock \in Nat /\ Len(Log) \in Nat
      /\ Len(view) \in Nat
  BY LogType
<1>2. /\ TypeOK /\ Laid(Log, rows, view, base, count) /\ Sound(Log, base)
      /\ Shows(Log, shown, silenced)
  BY DEF RowsInv
<1>3. /\ view' = Cut(view, n) /\ count' = Len(Cut(view, n))
      /\ rows' = Cut(rows, base + n) /\ shown' = shown \ Removed(view, n)
      /\ base' = base
  BY DEF CutView, Removed
<1>4. n <= Len(view) /\ base + n \in Nat /\ base + n <= Len(Log)
  BY <1>1, <1>2 DEF Laid
<1>5. /\ M \in Seq(Message) /\ Len(M) = base + n /\ Begins(M, Log)
  BY <1>1, <1>4, BeginsItself, CutBegins
<1>6. /\ rows' \in Seq(Message) /\ view' \in Seq(Message) /\ count' = n
      /\ Laid(M, rows', view', base, n)
  <2>1. /\ Cut(rows, base + n) \in Seq(Message) /\ Cut(view, n) \in Seq(Message)
        /\ Len(Cut(view, n)) = n
        /\ Laid(Cut(Log, base + n), Cut(rows, base + n), Cut(view, n), base, n)
    BY <1>1, <1>2, CutLog
  <2>2. QED BY <1>3, <2>1
<1> HIDE DEF M
<1>7. Log' = M
  <2>1. Cut(rows', base) \o view' = M
    BY <1>1, <1>5, <1>6, LogIs
  <2>2. QED BY <1>3, <2>1 DEF Log
<1>8. /\ Sound(M, base)
      /\ Stands(M, base, n, << >>, clock, "idle", Detached(summary))
  <2>1. clock <= clock
    BY <1>1
  <2>2. QED BY <1>1, <1>5, <2>1, CutRest
<1>9. Shows(M, shown', silenced) /\ shown' \subseteq Stamps
  <2>1. Once(Log)
    BY <1>2 DEF Sound
  <2>2. Shows(M, shown \ Removed(view, n), silenced)
    BY <1>1, <1>2, <1>4, <1>5, <2>1, ShowsLess
  <2>3. QED BY <1>2, <1>3, <2>2 DEF TypeOK
<1>10. Without(M, t)
  <2>1. \A k \in 1..Len(M) : M[k].id # t
    BY <1>5 DEF Begins
  <2>2. QED BY <2>1 DEF Without
<1>11. RowsInv'
  BY <1>1, <1>3, <1>5, <1>6, <1>7, <1>8, <1>9, <1>10, UndoRest
<1>12. QED BY <1>3, <1>5, <1>6, <1>7, <1>10, <1>11 DEF Cuts

\* What is in front of t, or of a message stamped after it, stays.
LEMMA CutKeepsFront ==
  ASSUME NEW L \in Seq(Message), NEW M \in Seq(Message), NEW t, Begins(M, L),
         \A i \in (Len(M) + 1)..Len(L) :
             ~ (L[i].id < t /\ \A j \in 1..i : L[j].id # t)
  PROVE  Keeps(L, M, t)
<1>1. Len(L) \in Nat /\ Len(M) \in Nat /\ Len(M) <= Len(L)
  BY LenProperties DEF Begins
<1>2. SUFFICES ASSUME NEW i \in 1..Len(L), L[i].id < t, \A j \in 1..i : L[j].id # t
               PROVE  \E k \in 1..Len(M) : M[k].id = L[i].id
  BY DEF Keeps
<1>3. i \in 1..Len(M)
  BY <1>1, <1>2
<1>4. M[i] = L[i]
  BY <1>3 DEF Begins
<1>5. QED BY <1>3, <1>4


\* A set of positions that is not empty has a first one.
LEMMA FirstOf ==
  ASSUME NEW n \in Nat, NEW S, S \subseteq 1..n, S # {}
  PROVE  \E i \in S : \A j \in S : i <= j
<1>1. S \subseteq Nat
  OBVIOUS
<1>2. PICK i \in S : TRUE
  OBVIOUS
<1>3. PICK k \in S : \A j \in S : ~ <<j, k>> \in OpToRel(<, Nat)
  BY <1>1, <1>2, NatLessThanWellFounded, WFMin
<1>4. \A j \in S : k <= j
  <2> TAKE j \in S
  <2>1. j \in Nat /\ k \in Nat
    BY <1>1
  <2>2. ~ (j < k)
    BY <1>3, <2>1 DEF OpToRel
  <2>3. QED BY <2>1, <2>2
<1>5. QED BY <1>4

LEMMA ViewStartsAtMark ==
  ASSUME RowsInv, base > 0
  PROVE  1 \in 1..Len(view) /\ view[1].role = "checkpoint" /\ Log[base + 1] = view[1]
<1>1. base \in Nat /\ Len(view) \in Nat /\ Len(Log) = base + Len(view)
      /\ \A i \in 1..Len(view) : Log[base + i] = view[i]
  BY LogType DEF RowsInv, Laid
<1>2. base < Len(Log) /\ Log[base + 1].role = "checkpoint"
  BY DEF RowsInv, Sound, StartsAtMark
<1>3. QED BY <1>1, <1>2

\* The prompt is in the view.
LEMMA UndoInViewKeeps ==
  ASSUME RowsInv, NEW t \in asked, UndoFrame(t), UndoInView(t),
         "lateSummary" \notin Env, "undoUnstored" \notin Env
  PROVE  RowsInv' /\ Cuts /\ Without(Log', t) /\ Keeps(Log, Log', t)
<1>1. /\ Log \in Seq(Message) /\ view \in Seq(Message)
      /\ base \in Nat /\ count \in Nat /\ Len(Log) \in Nat /\ Len(view) \in Nat
  BY LogType
<1>2. /\ Len(Log) = base + Len(view) /\ Once(Log)
      /\ \A i \in 1..Len(view) : Log[base + i] = view[i]
  BY DEF RowsInv, Laid, Sound
<1>3. PICK i \in 1..Len(view) :
         /\ view[i].id = t /\ view[i].role = "user"
         /\ SummarySurvives(i - 1) /\ i - 1 <= count /\ CutView(i - 1)
  <2>1. DOMAIN view = 1..Len(view)
    BY <1>1, LenProperties
  <2>2. QED BY <2>1 DEF UndoInView
<1> DEFINE n == i - 1
<1>4. /\ n \in Nat /\ n <= count /\ CutView(n) /\ n + 1 = i
      /\ summary.by \in {"none", "idle"} \/ n > summary.cut
  BY <1>1, <1>3 DEF SummarySurvives
<1>5. base > 0 => n >= 1
  <2> SUFFICES ASSUME base > 0 PROVE i # 1
    BY <1>1
  <2>1. view[1].role = "checkpoint"
    BY ViewStartsAtMark
  <2>2. QED BY <1>3, <2>1
<1>6. base + i \in 1..Len(Log) /\ Log[base + i].id = t
  BY <1>1, <1>2, <1>3
<1>7. \A k \in 1..(base + n) : Log[k].id # t
  <2> SUFFICES ASSUME NEW k \in 1..(base + n), Log[k].id = t PROVE FALSE
    OBVIOUS
  <2>1. k \in 1..Len(Log) /\ k # base + i
    BY <1>1, <1>2, <1>3, <1>4
  <2>2. QED BY <1>2, <1>6, <2>1 DEF Once
<1> HIDE DEF n
<1>8. RowsInv' /\ Cuts /\ Len(Log') = base + n /\ Without(Log', t)
  BY <1>4, <1>5, <1>7, CutViewKeeps
<1>9. Log' \in Seq(Message) /\ Begins(Log', Log)
  <2>1. Begins(Log', Log)
    BY <1>8 DEF Cuts
  <2>2. Sound(Log', base')
    BY <1>8 DEF RowsInv
  <2>3. QED BY <2>1, <2>2 DEF Sound
<1>10. \A k \in (Len(Log') + 1)..Len(Log) :
           ~ (Log[k].id < t /\ \A j \in 1..k : Log[j].id # t)
  <2> TAKE k \in (Len(Log') + 1)..Len(Log)
  <2>1. base + i \in 1..k
    BY <1>1, <1>4, <1>6, <1>8
  <2>2. QED BY <1>6, <2>1
<1>11. Keeps(Log, Log', t)
  BY <1>1, <1>9, <1>10, CutKeepsFront
<1>12. QED BY <1>8, <1>11

\* The prompt was queued, or is gone since the process died.
LEMMA UndoQueuedKeeps ==
  ASSUME RowsInv, NEW t \in asked, UndoFrame(t), UndoQueued(t),
         "lateSummary" \notin Env, "undoUnstored" \notin Env,
         "undoQueued" \notin Env
  PROVE  RowsInv' /\ (Says \/ Cuts) /\ Keeps(Log, Log', t)
<1> DEFINE newer == {i \in DOMAIN view : view[i].id > t}
<1>1. /\ Log \in Seq(Message) /\ view \in Seq(Message) /\ rows \in Seq(Message)
      /\ base \in Nat /\ count \in Nat /\ Len(Log) \in Nat /\ Len(view) \in Nat
      /\ Len(rows) \in Nat /\ clock \in Nat /\ asked \subseteq Nat
  BY LogType
<1>2. /\ Len(Log) = base + Len(view) /\ Len(rows) = base + count
      /\ \A i \in 1..Len(view) : Log[base + i] = view[i]
      /\ \A i \in 1..Len(rows) : rows[i] = Log[i]
      /\ TypeOK /\ Laid(Log, rows, view, base, count) /\ Sound(Log, base)
      /\ Shows(Log, shown, silenced)
      /\ Stands(Log, base, count, queue, clock, at, summary)
  BY DEF RowsInv, Laid
<1>3. DOMAIN view = 1..Len(view) /\ DOMAIN rows = 1..Len(rows)
  BY <1>1, LenProperties
<1>4. /\ \A i \in 1..Len(view) : view[i].id # t
      /\ \A j \in 1..Len(rows) : rows[j].id # t
      /\ Orderly(t)
  BY <1>3 DEF UndoQueued
<1>5. \A k \in 1..Len(Log) : Log[k].id # t
  <2> TAKE k \in 1..Len(Log)
  <2>1. CASE k <= base
    BY <1>1, <1>2, <1>4, <2>1
  <2>2. CASE k > base
    <3>1. k - base \in 1..Len(view) /\ base + (k - base) = k
      BY <1>1, <1>2, <2>2
    <3>2. Log[base + (k - base)] = view[k - base]
      BY <1>2, <3>1
    <3>3. QED BY <1>4, <3>1, <3>2
  <2>3. QED BY <1>1, <2>1, <2>2
<1>6. CASE newer = {}
  <2>1. UNCHANGED <<rows, view, base, count, shown>>
    BY <1>6 DEF UndoQueued
  <2>2. Log' = Log
    BY <2>1 DEF Log
  <2>3. Begins(Log, Log) /\ Without(Log, t)
    BY <1>1, <1>5, BeginsItself DEF Without
  <2>4. Stands(Log, base, count, << >>, clock, "idle", Detached(summary))
    <3>1. Stands(Log, base, count, queue, clock, "idle", Detached(summary))
      BY <1>2, LogType, DetachStands
    <3>2. Len(<< >>) = 0
      OBVIOUS
    <3>3. QED BY <3>1, <3>2 DEF Stands, Lost
  <2>5. RowsInv'
    <3>1. shown \subseteq Stamps
      BY <1>2 DEF TypeOK
    <3>2. QED BY <1>1, <1>2, <2>1, <2>2, <2>3, <2>4, <3>1, UndoRest
  <2>6. Says
    <3>1. base + count <= Len(Log) /\ base + count \in Nat
      BY <1>1, <1>2 DEF Laid
    <3>2. QED BY <1>1, <2>1, <2>2, <2>3, <3>1 DEF Says
  <2>7. Keeps(Log, Log', t)
    BY <2>2 DEF Keeps
  <2>8. QED BY <2>5, <2>6, <2>7
<1>7. CASE newer # {}
  <2> DEFINE m == Min(newer)
             n == m - 1
  <2>1. newer \subseteq 1..Len(view) /\ newer \subseteq Int
    BY <1>3
  <2>2. m \in newer /\ \A i \in newer : m <= i
    <3>1. \E i \in newer : \A j \in newer : i <= j
      BY <1>1, <1>7, <2>1, FirstOf
    <3>2. m = CHOOSE i \in newer : \A j \in newer : i <= j
      BY DEF Min
    <3> HIDE DEF m, newer
    <3>3. QED BY <3>1, <3>2
  <2> HIDE DEF m
  <2>3. m \in 1..Len(view) /\ view[m].id > t
    BY <1>3, <2>2
  <2>4. /\ SummarySurvives(n) /\ n <= count /\ CutView(n)
    BY <1>7 DEF UndoQueued, m
  <2>5. n \in Nat /\ n + 1 = m /\ (summary.by \in {"none", "idle"} \/ n > summary.cut)
    BY <1>1, <2>3, <2>4 DEF SummarySurvives
  <2>6. \A j \in m..Len(view) : view[j].id > t /\ view[j].role # "checkpoint"
    <3>1. \A j \in m..Len(view) : j \in 1..Len(view) /\ m <= j
      BY <1>1, <2>3
    <3>2. QED BY <1>3, <1>4, <2>3, <3>1 DEF Orderly
  <2>7. base > 0 => n >= 1
    <3> SUFFICES ASSUME base > 0 PROVE m # 1
      BY <1>1, <2>3
    <3>1. 1 \in 1..Len(view) /\ view[1].role = "checkpoint"
      BY ViewStartsAtMark
    <3>2. m = 1 => 1 \in m..Len(view)
      BY <1>1, <3>1
    <3>3. QED BY <2>6, <3>1, <3>2
  <2>8. \A k \in 1..(base + n) : Log[k].id # t
    <3>1. base + n <= Len(Log)
      BY <1>1, <1>2, <2>3, <2>5
    <3>2. \A k \in 1..(base + n) : k \in 1..Len(Log)
      BY <1>1, <2>5, <3>1
    <3>3. QED BY <1>5, <3>2
  <2> HIDE DEF n
  <2>9. RowsInv' /\ Cuts /\ Len(Log') = base + n
    BY <2>4, <2>5, <2>7, <2>8, CutViewKeeps
  <2>10. Log' \in Seq(Message) /\ Begins(Log', Log)
    <3>1. Begins(Log', Log)
      BY <2>9 DEF Cuts
    <3>2. Sound(Log', base')
      BY <2>9 DEF RowsInv
    <3>3. QED BY <3>1, <3>2 DEF Sound
  <2>11. \A k \in (Len(Log') + 1)..Len(Log) :
           ~ (Log[k].id < t /\ \A j \in 1..k : Log[j].id # t)
    <3> TAKE k \in (Len(Log') + 1)..Len(Log)
    <3>1. k - base \in m..Len(view) /\ base + (k - base) = k /\ k - base \in 1..Len(view)
      BY <1>1, <1>2, <2>3, <2>5, <2>9
    <3>2. Log[base + (k - base)] = view[k - base]
      BY <1>2, <3>1
    <3>3. Log[k].id > t
      BY <2>6, <3>1, <3>2
    <3>4. Log[k].id \in Nat /\ t \in Nat
      <4>1. k \in 1..Len(Log)
        BY <1>1, <2>5, <2>9
      <4>2. Log[k] \in Message
        BY <1>1, <4>1, ElementOfSeq
      <4>3. QED BY <1>1, <4>2 DEF Message, Stamps
    <3>5. QED BY <3>3, <3>4
  <2>12. Keeps(Log, Log', t)
    BY <1>1, <2>10, <2>11, CutKeepsFront
  <2>13. QED BY <2>9, <2>12
<1>8. QED BY <1>6, <1>7


\* The prompt is behind the view: the view is read again.
LEMMA UndoBehindViewKeeps ==
  ASSUME RowsInv, NEW t \in asked, UndoFrame(t), UndoBehindView(t),
         "lateSummary" \notin Env, "undoUnstored" \notin Env
  PROVE  RowsInv' /\ Cuts /\ Keeps(Log, Log', t)
<1>1. /\ Log \in Seq(Message) /\ view \in Seq(Message) /\ rows \in Seq(Message)
      /\ base \in Nat /\ count \in Nat /\ Len(Log) \in Nat /\ Len(view) \in Nat
      /\ Len(rows) \in Nat /\ clock \in Nat /\ summary \in SummarySet
  BY LogType
<1>2. /\ Len(Log) = base + Len(view) /\ Len(rows) = base + count
      /\ \A i \in 1..Len(view) : Log[base + i] = view[i]
      /\ \A i \in 1..Len(rows) : rows[i] = Log[i]
      /\ TypeOK /\ Sound(Log, base) /\ Once(Log)
      /\ QueuedApart(Log, queue, clock) /\ Shows(Log, shown, silenced)
      /\ Stands(Log, base, count, queue, clock, at, summary)
  BY DEF RowsInv, Laid, Sound
<1>3. DOMAIN view = 1..Len(view) /\ DOMAIN rows = 1..Len(rows)
  BY <1>1, LenProperties
<1>4. /\ \A i \in 1..Len(view) : view[i].id # t
      /\ summary.by \in {"none", "idle"} /\ count = Len(view)
  <2>1. ~ (0 > summary.cut)
    BY <1>1 DEF SummarySet
  <2>2. QED BY <1>3, <2>1 DEF UndoBehindView, SummarySurvives
<1>5. rows = Log
  BY <1>1, <1>2, <1>4, SeqEqual
<1>6. PICK j \in 1..Len(Log) :
         /\ Log[j].id = t
         /\ rows' = Cut(Log, j - 1) /\ view' = ModelView(rows')
         /\ base' = Len(rows') - Len(view') /\ count' = Len(view')
         /\ shown' = shown \ Ids(SubSeq(Log, j, Len(Log)))
  BY <1>3, <1>5 DEF UndoBehindView
<1> DEFINE n == j - 1
           M == Cut(Log, n)
<1>7. n \in Nat /\ n < Len(Log) /\ n + 1 = j /\ 0 + n = n
  BY <1>1
<1>8. n <= base
  <2> SUFFICES ASSUME ~ (n <= base) PROVE FALSE
    OBVIOUS
  <2>1. j - base \in 1..Len(view) /\ base + (j - base) = j
    BY <1>1, <1>2, <1>7
  <2>2. Log[base + (j - base)] = view[j - base]
    BY <1>2, <2>1
  <2>3. QED BY <1>4, <1>6, <2>1, <2>2
<1>9. /\ rows' = M /\ shown' = shown \ Removed(Log, n)
  BY <1>6, <1>7 DEF Removed
<1> HIDE DEF n
<1>10. M \in Seq(Message) /\ Len(M) = n /\ Begins(M, Log)
  BY <1>1, <1>7, BeginsItself, CutBegins
<1> HIDE DEF M
<1>11. /\ view' \in Seq(Message) /\ base' \in Nat /\ base' <= Len(M)
       /\ count' \in Nat /\ Laid(M, M, view', base', count')
       /\ StartsAtMark(M, base')
  BY <1>6, <1>9, <1>10, ReadLog
<1>12. Log' = M
  <2>1. Cut(M, base') \o view' = M
    BY <1>10, <1>11, LogIs
  <2>2. QED BY <1>9, <2>1 DEF Log
<1>13. Sound(M, base')
  BY <1>2, <1>10, <1>11, CutKeepsSound
<1>14. Len(M) = base' + count'
  BY <1>11 DEF Laid
<1>15. Stands(M, base', count', << >>, clock, "idle", Detached(summary))
  <2>1. /\ \A i \in 1..Len(<< >>) : \E k \in 1..Len(queue) : queue[k] = << >>[i]
        /\ summary.by \in {"step", "manual"} => base' = base /\ count' > summary.cut
        /\ clock <= clock /\ (base' = base \/ Len(M) <= base)
    BY <1>1, <1>4, <1>8, <1>10
  <2>2. Stands(M, base', count', << >>, clock, at, summary)
    BY <1>1, <1>2, <1>10, <1>11, <1>14, <2>1, StandsCut
  <2>3. QED BY <1>1, <2>2, DetachStands
<1>16. Shows(M, shown', silenced) /\ shown' \subseteq Stamps
  <2>1. Laid(Log, Log, Log, 0, Len(Log))
    BY <1>1 DEF Laid
  <2>2. 0 \in Nat /\ Len(M) = 0 + n /\ n <= Len(Log)
    BY <1>1, <1>7, <1>10
  <2>3. Shows(M, shown \ Removed(Log, n), silenced)
    BY <1>1, <1>2, <1>7, <1>10, <2>1, <2>2, ShowsLess
  <2>4. QED BY <1>2, <1>9, <2>3 DEF TypeOK
<1>17. Without(M, t)
  <2> SUFFICES ASSUME NEW k \in 1..Len(M), M[k].id = t PROVE FALSE
    BY DEF Without
  <2>1. k \in 1..Len(Log) /\ k # j
    BY <1>1, <1>7, <1>10
  <2>2. Log[k] = M[k]
    BY <1>10 DEF Begins
  <2>3. QED BY <1>2, <1>6, <2>1, <2>2 DEF Once
<1>18. RowsInv'
  BY <1>9, <1>10, <1>11, <1>12, <1>13, <1>15, <1>16, <1>17, UndoRest
<1>19. Cuts
  BY <1>10, <1>12, <1>14 DEF Cuts
<1>20. Keeps(Log, M, t)
  <2>1. \A k \in (Len(M) + 1)..Len(Log) :
           ~ (Log[k].id < t /\ \A i \in 1..k : Log[i].id # t)
    <3> TAKE k \in (Len(M) + 1)..Len(Log)
    <3>1. j \in 1..k
      BY <1>1, <1>7, <1>10
    <3>2. QED BY <1>6, <3>1
  <2>2. QED BY <1>1, <1>10, <2>1, CutKeepsFront
<1>21. QED BY <1>12, <1>18, <1>19, <1>20

\* Rewinder.run.
LEMMA UndoKeeps ==
  ASSUME RowsInv, NEW t \in asked, Undo(t),
         "lateSummary" \notin Env, "undoUnstored" \notin Env,
         "undoQueued" \notin Env
  PROVE  RowsInv' /\ (Says \/ Cuts) /\ Keeps(Log, Log', t)
<1>1. UndoFrame(t)
  BY DEF Undo, UndoFrame
<1>2. CASE UndoInView(t)
  BY <1>1, <1>2, UndoInViewKeeps
<1>3. CASE UndoBehindView(t)
  BY <1>1, <1>3, UndoBehindViewKeeps
<1>4. CASE UndoQueued(t)
  BY <1>1, <1>4, UndoQueuedKeeps
<1>5. QED BY <1>2, <1>3, <1>4 DEF Undo

\* The process dies and the conversation is read again.
LEMMA CrashKeeps ==
  ASSUME RowsInv, Crash
  PROVE  RowsInv' /\ Cuts
<1>1. /\ Log \in Seq(Message) /\ rows \in Seq(Message)
      /\ base \in Nat /\ count \in Nat /\ Len(Log) \in Nat
      /\ Len(rows) \in Nat /\ clock \in Nat
      /\ asked \subseteq Nat /\ undone \subseteq Nat
  BY LogType
<1>2. /\ Len(rows) = base + count /\ base + count <= Len(Log)
      /\ \A i \in 1..Len(rows) : rows[i] = Log[i]
      /\ TypeOK /\ Sound(Log, base) /\ QueuedApart(Log, queue, clock)
      /\ Gone(Log, queue, clock, asked, undone)
  <2>1. Len(Log) = base + Len(view) /\ count <= Len(view) /\ Len(view) \in Nat
    BY LogType DEF RowsInv, Laid
  <2>2. base + count <= Len(Log)
    BY <1>1, <2>1
  <2>3. QED BY <2>2 DEF RowsInv, Laid
<1>3. /\ view' = ModelView(rows) /\ base' = Len(rows) - Len(view')
      /\ count' = Len(view') /\ rows' = rows
      /\ at' = "idle" /\ queue' = << >> /\ routineAt' = None
      /\ summary' = NoSummary /\ shown' = Ids(rows)
      /\ asked' = asked \cap Ids(rows)
      /\ clock' = clock /\ undone' = undone /\ silenced' = silenced
  BY DEF Crash, history
<1>4. Begins(rows, Log)
  BY <1>1, <1>2 DEF Begins
<1>5. /\ view' \in Seq(Message) /\ base' \in Nat /\ base' <= Len(rows)
      /\ count' \in Nat /\ Laid(rows, rows, view', base', count')
      /\ StartsAtMark(rows, base')
  BY <1>1, <1>3, ReadLog
<1>6. Log' = rows
  <2>1. Cut(rows, base') \o view' = rows
    BY <1>1, <1>5, LogIs
  <2>2. QED BY <1>3, <2>1 DEF Log
<1>7. Sound(rows, base')
  BY <1>1, <1>2, <1>4, <1>5, CutKeepsSound
<1>8. QueuedApart(rows, << >>, clock)
  BY <1>1, <1>2, <1>4, CutKeepsQueue
<1>9. Gone(rows, << >>, clock, asked', undone)
  <2>1. /\ Len(<< >>) = 0 /\ clock <= clock /\ undone \ undone = {}
        /\ \A i \in 1..Len(<< >>) : \E j \in 1..Len(queue) : queue[j] = << >>[i]
    BY <1>1
  <2>2. Gone(rows, << >>, clock, asked, undone)
    BY <1>1, <1>2, <1>4, <2>1, GoneCut
  <2>3. QED BY <1>3, <2>2 DEF Gone
<1>10. Ids(rows) = {rows[i].id : i \in 1..Len(rows)} /\ Ids(rows) \subseteq Stamps
  BY <1>1, IdsOf
<1>11. Shows(rows, shown', silenced)
  BY <1>3, <1>10 DEF Shows
<1>12. Stands(rows, base', count', << >>, clock, "idle", NoSummary)
  BY DEF Stands
<1>13. None \in Nat /\ RoutineStands(view', base', None)
  BY BoundsAssumption DEF None, RoutineStands
<1>14. TypeOK'
  <2>1. NoSummary \in SummarySet
    BY DEF NoSummary, SummarySet
  <2>2. asked' \subseteq Stamps /\ shown' \subseteq Stamps
    BY <1>2, <1>3, <1>10 DEF TypeOK
  <2>3. summary' \in SummarySet /\ queue' \in Seq(Stamps) /\ routineAt' \in Nat
    BY <1>3, <1>13, <2>1
  <2>4. QED BY <1>2, <1>3, <1>5, <2>2, <2>3 DEF TypeOK, SummarySet
<1>15. RowsInv'
  BY <1>3, <1>5, <1>6, <1>7, <1>8, <1>9, <1>11, <1>12, <1>13, <1>14 DEF RowsInv
<1>16. Cuts
  <2>1. Len(rows) = base' + count'
    BY <1>5 DEF Laid
  <2>2. QED BY <1>4, <1>6, <2>1 DEF Cuts
<1>17. QED BY <1>15, <1>16


(***************************************************************************)
(* The steps together.                                                     *)
(***************************************************************************)
\* What a conversation is opened with.
LEMMA CondensedIs ==
  /\ Condensed \in Seq(Message) /\ Len(Condensed) = 5
  /\ Once(Condensed) /\ Answers(Condensed) /\ Described(Condensed)
  /\ \A i \in 1..Len(Condensed) : Condensed[i].id < 6
<1> DEFINE m1 == Plain(1, "user")
           m2 == Plain(2, "said")
           m3 == [id |-> 5, role |-> "checkpoint", covers |-> {1, 2}]
           m4 == Plain(3, "user")
           m5 == Plain(4, "said")
           L == << m1, m2, m3, m4, m5 >>
<1>1. 1 \in Stamps /\ 2 \in Stamps /\ 3 \in Stamps /\ 4 \in Stamps /\ 5 \in Stamps
  BY BoundsAssumption DEF Stamps
<1>2. /\ m1 \in Message /\ m1.id = 1 /\ m1.role = "user"
      /\ m2 \in Message /\ m2.id = 2 /\ m2.role = "said"
      /\ m4 \in Message /\ m4.id = 3 /\ m4.role = "user"
      /\ m5 \in Message /\ m5.id = 4 /\ m5.role = "said"
      /\ m1.covers = {} /\ m2.covers = {} /\ m4.covers = {} /\ m5.covers = {}
  BY <1>1, PlainIs DEF Roles
<1>3. /\ m3 \in Message /\ m3.id = 5 /\ m3.role = "checkpoint" /\ m3.covers = {1, 2}
  BY <1>1 DEF Message, Roles
<1>4. Condensed = L
  BY DEF Condensed
<1> HIDE DEF m1, m2, m3, m4, m5
<1>5. /\ L \in Seq(Message) /\ Len(L) = 5
      /\ L[1] = m1 /\ L[2] = m2 /\ L[3] = m3 /\ L[4] = m4 /\ L[5] = m5
  BY <1>2, <1>3
<1> HIDE DEF L
<1>6. \A i \in 1..Len(L) : i = 1 \/ i = 2 \/ i = 3 \/ i = 4 \/ i = 5
  BY <1>5
<1>7. /\ L[1].id = 1 /\ L[2].id = 2 /\ L[3].id = 5 /\ L[4].id = 3 /\ L[5].id = 4
      /\ L[1].role = "user" /\ L[2].role = "said" /\ L[3].role = "checkpoint"
      /\ L[4].role = "user" /\ L[5].role = "said" /\ L[3].covers = {1, 2}
      /\ L[1].covers = {} /\ L[2].covers = {} /\ L[4].covers = {} /\ L[5].covers = {}
  BY <1>2, <1>3, <1>5
<1>8. Once(L)
  BY <1>6, <1>7 DEF Once
<1>9. Answers(L) /\ \A i \in 1..Len(L) : L[i].id < 6
  BY <1>6, <1>7 DEF Answers
<1>10. Since(L, 3) = {1, 2}
  <2> DEFINE open == {k \in 1..(3 - 1) :
                        \A m \in (k + 1)..(3 - 1) : L[m].role # "checkpoint"}
  <2>1. \A k \in 1..(3 - 1) : k = 1 \/ k = 2
    OBVIOUS
  <2>2. \A k \in 1..(3 - 1) : \A m \in (k + 1)..(3 - 1) : m = 2
    OBVIOUS
  <2>3. 1 \in 1..(3 - 1) /\ 2 \in 1..(3 - 1)
    OBVIOUS
  <2>4. open = {1, 2}
    BY <1>7, <2>1, <2>2, <2>3
  <2>5. Since(L, 3) = {L[k].id : k \in open}
    BY DEF Since
  <2> HIDE DEF open
  <2>6. QED BY <1>7, <2>4, <2>5
<1>11. Described(L)
  BY <1>6, <1>7, <1>10 DEF Described, DescribedAt
<1>12. QED BY <1>4, <1>5, <1>8, <1>9, <1>11

LEMMA RowsInit == Init => RowsInv
<1> SUFFICES ASSUME Init PROVE RowsInv
  OBVIOUS
<1>1. /\ rows \in {<< >>, Condensed} /\ view = ModelView(rows)
      /\ base = Len(rows) - Len(view) /\ count = Len(view)
      /\ at = "idle" /\ queue = << >> /\ routineAt = None
      /\ summary = NoSummary /\ clock = 6 /\ shown = Ids(rows)
      /\ asked \subseteq Ids(rows)
      /\ undone = {} /\ silenced = {}
  BY DEF Init
<1>2. /\ rows \in Seq(Message) /\ Once(rows) /\ Answers(rows) /\ Described(rows)
      /\ \A i \in 1..Len(rows) : rows[i].id < 6
  <2>1. CASE rows = << >>
    <3>1. << >> \in Seq(Message) /\ \A i \in 1..Len(<< >>) : FALSE
      OBVIOUS
    <3>2. QED BY <2>1, <3>1 DEF Once, Answers, Described
  <2>2. QED BY <1>1, <2>1, CondensedIs
<1>3. /\ view \in Seq(Message) /\ base \in Nat /\ base <= Len(rows)
      /\ count \in Nat /\ Laid(rows, rows, view, base, count)
      /\ StartsAtMark(rows, base)
  BY <1>1, <1>2, ReadLog
<1>4. Log = rows
  <2>1. Cut(rows, base) \o view = rows
    BY <1>2, <1>3, LogIs
  <2>2. QED BY <2>1 DEF Log
<1>5. Sound(rows, base)
  BY <1>2, <1>3 DEF Sound
<1>6. QueuedApart(rows, << >>, 6)
  BY <1>2 DEF QueuedApart
<1>7. Ids(rows) = {rows[i].id : i \in 1..Len(rows)} /\ Ids(rows) \subseteq Stamps
  BY <1>2, IdsOf
<1>8. Shows(rows, shown, {})
  BY <1>1, <1>7 DEF Shows
<1>9. Gone(rows, << >>, 6, asked, {})
  BY <1>1, <1>2, <1>7 DEF Gone
<1>10. Stands(rows, base, count, << >>, 6, "idle", NoSummary)
  BY DEF Stands
<1>11. None \in Nat /\ RoutineStands(view, base, None)
  BY BoundsAssumption DEF None, RoutineStands
<1>12. TypeOK
  <2>1. NoSummary \in SummarySet
    BY DEF NoSummary, SummarySet
  <2>2. 6 \in 6..(7 + MaxNew)
    BY BoundsAssumption
  <2>3. QED BY <1>1, <1>2, <1>3, <1>7, <1>11, <2>1, <2>2 DEF TypeOK, SummarySet
<1>13. QED BY <1>1, <1>3, <1>4, <1>5, <1>6, <1>8, <1>9, <1>10, <1>11, <1>12 DEF RowsInv

\* What no step does, whatever happens.
Tame == {"tailCut", "undoUnstored", "undoQueued", "rebuildUnstored",
         "rebuildInSummary", "lateSummary"} \cap Env = {}

\* What was not undone before this step and is after it.
UndoesOnly(un, un2, L, M) == \A t \in un2 \ un : Keeps(L, M, t)

\* A step does one thing to the log, and keeps the invariant.
Good == /\ RowsInv' /\ (Says \/ Cuts \/ Condenses)
        /\ UndoesOnly(undone, undone', Log, Log')

LEMMA RowsStep ==
  ASSUME RowsInv, [Next]_vars, Tame
  PROVE  Good
<1>0. /\ "tailCut" \notin Env /\ "undoUnstored" \notin Env
      /\ "undoQueued" \notin Env /\ "rebuildUnstored" \notin Env
      /\ "rebuildInSummary" \notin Env /\ "lateSummary" \notin Env
  BY DEF Tame
<1>1. /\ Log \in Seq(Message) /\ base \in Nat /\ count \in Nat /\ Len(Log) \in Nat
      /\ base + count <= Len(Log) /\ base + count \in Nat /\ Begins(Log, Log)
  <2>1. /\ Log \in Seq(Message) /\ base \in Nat /\ count \in Nat
        /\ Len(Log) \in Nat /\ Len(view) \in Nat
    BY LogType
  <2>2. Len(Log) = base + Len(view) /\ count <= Len(view)
    BY DEF RowsInv, Laid
  <2>3. QED BY <2>1, <2>2, BeginsItself
<1>2. ASSUME RowsInv', Log' = Log, base' = base, count' = count, undone' = undone
      PROVE  Good
  <2>1. Says
    BY <1>1, <1>2 DEF Says
  <2>2. QED BY <1>2, <2>1 DEF UndoesOnly, Good
<1>3. ASSUME RowsInv', Begins(Log, Log'), base' = base, count' = count,
             undone' = undone
      PROVE  Good
  <2>1. Len(Log) <= Len(Log')
    BY <1>3 DEF Begins
  <2>2. Len(Log') \in Nat
    <3>1. Sound(Log', base')
      BY <1>3 DEF RowsInv
    <3>2. Log' \in Seq(Message)
      BY <3>1 DEF Sound
    <3>3. QED BY <3>2, LenProperties
  <2>3. base' + count' <= Len(Log')
    BY <1>1, <1>3, <2>1, <2>2
  <2>4. Says
    BY <1>1, <1>3, <2>3 DEF Says
  <2>5. QED BY <1>3, <2>4 DEF UndoesOnly, Good
<1>4. ASSUME NEW n \in ContextChoice, NEW routine \in BOOLEAN, Prompt(n, routine)
      PROVE  Good
  <2>1. undone' = undone
    BY <1>4 DEF Prompt, history
  <2>2. RowsInv' /\ Begins(Log, Log') /\ base' = base /\ count' = count
    BY <1>4, PromptKeeps
  <2>3. QED BY <1>3, <2>1, <2>2
<1>5. ASSUME NEW n \in ContextChoice, Steer(n) PROVE Good
  <2>1. undone' = undone
    BY <1>5 DEF Steer, history
  <2>2. RowsInv' /\ Begins(Log, Log') /\ base' = base /\ count' = count
    BY <1>5, SteerKeeps
  <2>3. QED BY <1>3, <2>1, <2>2
<1>6. CASE Drain
  <2>1. undone' = undone
    BY <1>6 DEF Drain, history
  <2>2. RowsInv' /\ Begins(Log, Log') /\ base' = base /\ count' = count
    BY <1>6, DrainKeeps
  <2>3. QED BY <1>3, <2>1, <2>2
<1>7. CASE GoOn
  <2>1. undone' = undone
    BY <1>7 DEF GoOn, history
  <2>2. QED BY <1>2, <1>7, <2>1, GoOnKeeps
<1>8. ASSUME NEW kind \in {"calls", "said", "quiet"}, TurnLands(kind) PROVE Good
  <2>1. undone' = undone
    BY <1>8 DEF TurnLands
  <2>2. RowsInv' /\ (Says \/ Cuts)
    BY <1>0, <1>8, TurnLandsKeeps
  <2>3. QED BY <2>1, <2>2 DEF UndoesOnly, Good
<1>9. CASE Stop
  <2>1. undone' = undone
    BY <1>9 DEF Stop
  <2>2. QED BY <1>0, <1>9, <2>1, StopKeeps DEF UndoesOnly, Good
<1>10. ASSUME NEW by \in {"step", "idle", "manual"}, NEW p \in DOMAIN view,
              BeginSummary(by, p)
       PROVE  Good
  <2>1. undone' = undone
    BY <1>10 DEF BeginSummary, history
  <2>2. RowsInv' /\ Log' = Log /\ base' = base /\ count' = count
    BY <1>0, <1>10, BeginSummaryKeeps
  <2>3. QED BY <1>2, <2>1, <2>2
<1>11. CASE SummaryReturns
  <2>1. undone' = undone
    BY <1>11 DEF SummaryReturns, history
  <2>2. QED BY <1>11, <2>1, SummaryReturnsKeeps DEF UndoesOnly, Good
<1>12. CASE SummaryFails
  <2>1. undone' = undone
    BY <1>12 DEF SummaryFails, history
  <2>2. QED BY <1>2, <1>12, <2>1, SummaryFailsKeeps
<1>13. ASSUME NEW t \in asked, Undo(t) PROVE Good
  <2>1. undone' = undone \cup {t}
    BY <1>13 DEF Undo
  <2>2. RowsInv' /\ (Says \/ Cuts) /\ Keeps(Log, Log', t)
    BY <1>0, <1>13, UndoKeeps
  <2>3. \A x \in undone' \ undone : x = t
    BY <2>1
  <2>4. QED BY <2>2, <2>3 DEF UndoesOnly, Good
<1>14. CASE Crash
  <2>1. undone' = undone
    BY <1>14 DEF Crash, history
  <2>2. QED BY <1>14, <2>1, CrashKeeps DEF UndoesOnly, Good
<1>15. CASE Rebuild
  <2>1. undone' = undone
    BY <1>15 DEF Rebuild, history
  <2>2. QED BY <1>0, <1>2, <1>15, <2>1, RebuildKeeps
<1>16. CASE UNCHANGED vars
  <2>1. /\ UNCHANGED <<rows, view, base, count, at, queue, summary, routineAt,
                       clock, shown, asked>>
        /\ undone' = undone /\ silenced' = silenced
    BY <1>16 DEF vars
  <2>2. Log' = Log
    BY <2>1 DEF Log
  <2>3. TypeOK'
    BY <2>1 DEF RowsInv, TypeOK
  <2>4. RowsInv'
    BY <2>1, <2>2, <2>3 DEF RowsInv
  <2>5. QED BY <1>2, <2>1, <2>2, <2>4
<1>17. ASSUME Next PROVE Good
  <2>1. CASE \E n \in ContextChoice, routine \in BOOLEAN : Prompt(n, routine)
    BY <1>4, <2>1
  <2>2. CASE \E n \in ContextChoice : Steer(n)
    BY <1>5, <2>2
  <2>3. CASE \E kind \in {"calls", "said", "quiet"} : TurnLands(kind)
    BY <1>8, <2>3
  <2>4. CASE \E by \in {"step", "idle", "manual"}, p \in DOMAIN view :
                BeginSummary(by, p)
    BY <1>10, <2>4
  <2>5. CASE \E t \in asked : Undo(t)
    BY <1>13, <2>5
  <2>6. QED
    BY <1>6, <1>7, <1>9, <1>11, <1>12, <1>14, <1>15, <1>17,
       <2>1, <2>2, <2>3, <2>4, <2>5 DEF Next
<1>18. QED BY <1>16, <1>17


(***************************************************************************)
(* What the invariant says.                                                *)
(***************************************************************************)
LEMMA InvariantAgrees == RowsInv => ViewAndRowsAgree
<1> SUFFICES ASSUME RowsInv PROVE ViewAndRowsAgree
  OBVIOUS
<1>1. /\ Log \in Seq(Message) /\ rows \in Seq(Message) /\ view \in Seq(Message)
      /\ base \in Nat /\ count \in Nat /\ Len(Log) \in Nat /\ Len(view) \in Nat
      /\ Len(rows) \in Nat
  BY LogType
<1>2. /\ Len(Log) = base + Len(view) /\ count <= Len(view) /\ Len(rows) = base + count
      /\ \A i \in 1..Len(view) : Log[base + i] = view[i]
      /\ \A i \in 1..Len(rows) : rows[i] = Log[i]
      /\ TypeOK /\ Once(Log)
  BY DEF RowsInv, Laid, Sound
<1> DEFINE stored == SubSeq(rows, base + 1, Len(rows))
           seen == SubSeq(view, 1, count)
<1>3. /\ stored \in Seq(Message) /\ Len(stored) = Len(rows) - base
      /\ \A i \in 1..(Len(rows) - base) : stored[i] = rows[base + i]
  <2>1. base <= Len(rows)
    BY <1>1, <1>2
  <2>2. QED BY <1>1, <2>1, RestIs
<1>4. /\ seen \in Seq(Message) /\ Len(seen) = count
      /\ \A i \in 1..count : seen[i] = view[i]
  <2>1. Cut(view, count) = seen
    <3>1. (IF count < Len(view) THEN count ELSE Len(view)) = count
      BY <1>1, <1>2
    <3>2. QED BY <3>1 DEF Cut
  <2>2. QED BY <1>1, <1>2, <2>1, CutIs
<1> HIDE DEF stored, seen
<1>5. \A i \in 1..Len(stored) : stored[i] = seen[i]
  <2> TAKE i \in 1..Len(stored)
  <2>1. i \in 1..count /\ base + i \in 1..Len(rows) /\ i \in 1..Len(view)
        /\ i \in 1..(Len(rows) - base)
    BY <1>1, <1>2, <1>3
  <2>2. stored[i] = rows[base + i] /\ rows[base + i] = Log[base + i]
    BY <1>2, <1>3, <2>1
  <2>3. QED BY <1>2, <1>4, <2>1, <2>2
<1>6. stored = seen
  <2>1. Len(stored) = Len(seen)
    BY <1>1, <1>2, <1>3, <1>4
  <2>2. QED BY <1>3, <1>4, <1>5, <2>1, SeqEqual
<1>7. RowsAreTheView
  BY <1>2, <1>6 DEF RowsAreTheView, stored, seen
<1>8. NoMessageTwice
  <2>1. DOMAIN Log = 1..Len(Log)
    BY <1>1, LenProperties
  <2>2. QED BY <1>2, <2>1 DEF NoMessageTwice, Once
<1>9. QED BY <1>2, <1>7, <1>8 DEF ViewAndRowsAgree

\* A view of the model begins no answer in the middle.
LEMMA ModelViewAnswers ==
  ASSUME NEW r \in Seq(Message), Answers(r)
  PROVE  \A i \in DOMAIN ModelView(r) : ModelView(r)[i].role = "result" =>
            \E j \in 1..(i - 1) :
               /\ ModelView(r)[j].role = "calls"
               /\ \A k \in (j + 1)..i : ModelView(r)[k].role = "result"
<1> DEFINE s == ModelView(r)
           from == ContextStart(r)
<1>1. /\ s \in Seq(Message) /\ Len(s) = Len(r) + 1 - from
      /\ \A i \in 1..Len(s) : s[i] = r[from - 1 + i]
  BY ModelViewIs
<1>2. /\ from \in Nat \ {0} /\ from <= Len(r) + 1
      /\ from > 1 => r[from].role = "checkpoint"
  BY ContextStartIs
<1>3. Len(r) \in Nat /\ Len(s) \in Nat /\ DOMAIN s = 1..Len(s)
  BY <1>1, LenProperties
<1> HIDE DEF s, from
<1> SUFFICES ASSUME NEW i \in 1..Len(s), s[i].role = "result"
             PROVE  \E j \in 1..(i - 1) : /\ s[j].role = "calls"
                                          /\ \A k \in (j + 1)..i : s[k].role = "result"
  BY <1>3 DEF s
<1>4. from - 1 + i \in 1..Len(r) /\ r[from - 1 + i].role = "result"
  BY <1>1, <1>2, <1>3
<1>5. from - 1 + i > 1 /\ r[(from - 1 + i) - 1].role = "calls"
  BY <1>4 DEF Answers
<1>6. i # 1
  <2> SUFFICES ASSUME i = 1 PROVE FALSE
    OBVIOUS
  <2>1. from - 1 + i = from /\ from > 1
    BY <1>2, <1>5
  <2>2. QED BY <1>2, <1>4, <2>1
<1>7. i - 1 \in 1..(i - 1) /\ i - 1 \in 1..Len(s) /\ from - 1 + (i - 1) = (from - 1 + i) - 1
  BY <1>2, <1>3, <1>6
<1>8. s[i - 1].role = "calls"
  BY <1>1, <1>5, <1>7
<1>9. \A k \in ((i - 1) + 1)..i : k = i
  OBVIOUS
<1>10. QED BY <1>7, <1>8, <1>9

LEMMA InvariantAnswers == RowsInv => CallsStayTogether
<1> SUFFICES ASSUME RowsInv PROVE CallsStayTogether
  OBVIOUS
<1>1. /\ Log \in Seq(Message) /\ rows \in Seq(Message) /\ view \in Seq(Message)
      /\ base \in Nat /\ count \in Nat /\ Len(Log) \in Nat /\ Len(view) \in Nat
      /\ Len(rows) \in Nat
  BY LogType
<1>2. /\ Len(Log) = base + Len(view) /\ count <= Len(view) /\ Len(rows) = base + count
      /\ \A i \in 1..Len(view) : Log[base + i] = view[i]
      /\ \A i \in 1..Len(rows) : rows[i] = Log[i]
      /\ Answers(Log)
  BY DEF RowsInv, Laid, Sound
<1>3. Answers(rows)
  <2> SUFFICES ASSUME NEW i \in 1..Len(rows), rows[i].role = "result"
               PROVE  i > 1 /\ rows[i - 1].role = "calls"
    BY DEF Answers
  <2>1. i \in 1..Len(Log) /\ Log[i].role = "result"
    BY <1>1, <1>2
  <2>2. i > 1 /\ Log[i - 1].role = "calls"
    BY <1>2, <2>1 DEF Answers
  <2>3. i - 1 \in 1..Len(rows)
    BY <1>1, <2>2
  <2>4. QED BY <1>2, <2>2, <2>3
<1>4. Answers(view)
  <2> SUFFICES ASSUME NEW i \in 1..Len(view), view[i].role = "result"
               PROVE  i > 1 /\ view[i - 1].role = "calls"
    BY DEF Answers
  <2>1. base + i \in 1..Len(Log) /\ Log[base + i].role = "result"
    BY <1>1, <1>2
  <2>2. base + i > 1 /\ Log[(base + i) - 1].role = "calls"
    BY <1>2, <2>1 DEF Answers
  <2>3. i # 1
    <3>1. CASE base > 0
      <4>1. view[1].role = "checkpoint"
        BY <3>1, ViewStartsAtMark
      <4>2. QED BY <4>1
    <3>2. CASE ~ (base > 0)
      BY <1>1, <2>2, <3>2
    <3>3. QED BY <3>1, <3>2
  <2>4. i - 1 \in 1..Len(view) /\ base + (i - 1) = (base + i) - 1
    BY <1>1, <2>3
  <2>5. QED BY <1>2, <2>2, <2>3, <2>4
<1>5. ASSUME NEW s \in {ModelView(view), ModelView(rows)}
      PROVE  \A i \in DOMAIN s : s[i].role = "result" =>
                \E j \in 1..(i - 1) : /\ s[j].role = "calls"
                                      /\ \A k \in (j + 1)..i : s[k].role = "result"
  <2>1. CASE s = ModelView(view)
    BY <1>1, <1>4, <2>1, ModelViewAnswers
  <2>2. CASE s = ModelView(rows)
    BY <1>1, <1>3, <2>2, ModelViewAnswers
  <2>3. QED BY <2>1, <2>2
<1>6. QED BY <1>5 DEF CallsStayTogether

LEMMA InvariantDescribes == RowsInv => CheckpointsDescribeTheirPast
<1> SUFFICES ASSUME RowsInv PROVE CheckpointsDescribeTheirPast
  OBVIOUS
<1>1. Log \in Seq(Message) /\ Len(Log) \in Nat /\ DOMAIN Log = 1..Len(Log)
  BY LogType, LenProperties
<1>2. Described(Log)
  BY DEF RowsInv, Sound
<1> DEFINE L == Log
<1> HIDE DEF L
<1>3. L \in Seq(Message) /\ Len(L) \in Nat /\ DOMAIN L = 1..Len(L) /\ Described(L)
  BY <1>1, <1>2 DEF L
<1>4. ASSUME NEW i \in 1..Len(L), L[i].role = "checkpoint"
      PROVE  L[i].covers = Ids(ModelView(SubSeq(L, 1, i - 1)))
  <2> DEFINE n == i - 1
             before == Cut(L, n)
  <2>1. n \in Nat /\ n <= Len(L) /\ n + 1 = i /\ i \in Nat
    BY <1>3
  <2>2. SubSeq(L, 1, i - 1) = before
    <3>1. (IF n < Len(L) THEN n ELSE Len(L)) = n
      BY <1>3, <2>1
    <3>2. QED BY <3>1 DEF Cut
  <2> HIDE DEF n
  <2>3. /\ before \in Seq(Message) /\ Len(before) = n
        /\ \A k \in 1..n : before[k] = L[k]
    BY <1>3, <2>1, CutIs
  <2> HIDE DEF before
  <2>4. Ids(ModelView(before)) = Since(before, i)
    <3>1. Ids(ModelView(before)) = Since(before, Len(before) + 1)
      BY <2>3, ModelViewIds
    <3>2. QED BY <2>1, <2>3, <3>1
  <2>5. Since(before, i) = Since(L, i)
    <3>1. \A k \in 1..(i - 1) : before[k] = L[k]
      BY <2>1, <2>3
    <3>2. QED BY <2>1, <3>1, SinceSame
  <2>6. L[i].covers = Since(L, i)
    BY <1>3, <1>4 DEF Described, DescribedAt
  <2>7. QED BY <2>2, <2>4, <2>5, <2>6
<1>5. QED BY <1>3, <1>4 DEF CheckpointsDescribeTheirPast, L

LEMMA InvariantForgets == RowsInv => UndoneStaysGone
<1> SUFFICES ASSUME RowsInv PROVE UndoneStaysGone
  OBVIOUS
<1>1. /\ Log \in Seq(Message) /\ Len(Log) \in Nat /\ DOMAIN Log = 1..Len(Log)
      /\ queue \in Seq(Stamps) /\ DOMAIN queue = 1..Len(queue)
  BY LogType, LenProperties
<1>2. Described(Log)
  BY DEF RowsInv, Sound
<1>3. ASSUME NEW t \in undone
      PROVE  /\ \A i \in 1..Len(Log) : Log[i].id # t
             /\ \A i \in 1..Len(queue) : queue[i] # t
  BY DEF RowsInv, Gone
<1>4. Ids(Log) = {Log[i].id : i \in 1..Len(Log)}
  BY <1>1 DEF Ids
<1>5. Range(queue) = {queue[i] : i \in 1..Len(queue)}
  BY <1>1 DEF Range
<1>6. undone \cap (Ids(Log) \cup Range(queue)) = {}
  BY <1>3, <1>4, <1>5
<1>7. ASSUME NEW i \in 1..Len(Log), NEW t \in undone
      PROVE  t \notin Log[i].covers
  <2>1. CASE Log[i].role = "checkpoint"
    <3>1. Log[i].covers = Since(Log, i)
      BY <1>2, <2>1 DEF Described, DescribedAt
    <3>2. \A k \in 1..(i - 1) : k \in 1..Len(Log)
      BY <1>1
    <3>3. \A x \in Since(Log, i) : \E k \in 1..Len(Log) : Log[k].id = x
      BY <3>2 DEF Since
    <3>4. QED BY <1>3, <3>1, <3>3
  <2>2. CASE Log[i].role # "checkpoint"
    BY <1>2, <2>2 DEF Described, DescribedAt
  <2>3. QED BY <2>1, <2>2
<1>8. \A i \in DOMAIN Log : Log[i].covers \cap undone = {}
  BY <1>1, <1>7
<1>9. QED BY <1>6, <1>8 DEF UndoneStaysGone

LEMMA InvariantShows == RowsInv => ClientsShowTheLog
<1> SUFFICES ASSUME RowsInv PROVE ClientsShowTheLog
  OBVIOUS
<1>1. Log \in Seq(Message) /\ DOMAIN Log = 1..Len(Log)
  BY LogType, LenProperties
<1>2. Ids(Log) = {Log[i].id : i \in 1..Len(Log)}
  BY <1>1 DEF Ids
<1>3. Shows(Log, shown, silenced)
  BY DEF RowsInv
<1>4. QED BY <1>2, <1>3 DEF ClientsShowTheLog, Shows


(***************************************************************************)
(* The log is what StoredLog says it is.                                   *)
(***************************************************************************)
LEMMA PrefixIs ==
  ASSUME NEW A \in Seq(Message), NEW B \in Seq(Message), Begins(A, B)
  PROVE  Len(A) <= Len(B) /\ SubSeq(A, 1, Len(A)) = SubSeq(B, 1, Len(A))
<1>1. Len(A) \in Nat /\ Len(B) \in Nat /\ Len(A) <= Len(B) /\ Len(A) <= Len(A)
  BY LenProperties DEF Begins
<1>2. \A i \in 1..Len(A) : B[i] = A[i]
  BY DEF Begins
<1> DEFINE n == Len(A)
           a == Cut(A, n)
           c == Cut(B, n)
<1>3. SubSeq(A, 1, Len(A)) = a
  BY <1>1 DEF Cut
<1>4. SubSeq(B, 1, Len(A)) = c
  <2>1. (IF n < Len(B) THEN n ELSE Len(B)) = n
    BY <1>1
  <2>2. QED BY <2>1 DEF Cut
<1>5. a \in Seq(Message) /\ Len(a) = n /\ \A i \in 1..n : a[i] = A[i]
  BY <1>1, CutIs
<1>6. c \in Seq(Message) /\ Len(c) = n /\ \A i \in 1..n : c[i] = B[i]
  BY <1>1, CutIs
<1> HIDE DEF a, c
<1>7. a = c
  BY <1>2, <1>5, <1>6, SeqEqual
<1>8. QED BY <1>1, <1>3, <1>4, <1>7

LEMMA SaysIsSay ==
  ASSUME Log \in Seq(Message), Log' \in Seq(Message), base + count \in Nat, Says
  PROVE  Stored!Say
<1>1. /\ Begins(Log, Log') /\ base' + count' \in Nat
      /\ base + count <= base' + count' /\ base' + count' <= Len(Log')
  BY DEF Says
<1>2. Len(Log) <= Len(Log') /\ SubSeq(Log, 1, Len(Log)) = SubSeq(Log', 1, Len(Log))
  BY <1>1, PrefixIs
<1>3. Len(Log') \in Nat
  BY LenProperties
<1>4. (base + count)' \in (base + count)..Len(Log')
  BY <1>1, <1>3
<1>5. QED BY <1>2, <1>4 DEF Stored!Say, Stored!IsPrefix

LEMMA CutsIsUndo ==
  ASSUME Log \in Seq(Message), Log' \in Seq(Message), Cuts
  PROVE  Stored!Undo
<1>1. Begins(Log', Log) /\ base' + count' = Len(Log')
  BY DEF Cuts
<1>2. Len(Log') <= Len(Log) /\ SubSeq(Log', 1, Len(Log')) = SubSeq(Log, 1, Len(Log'))
  BY <1>1, PrefixIs
<1>3. (base + count)' = Len(Log')
  BY <1>1
<1>4. QED BY <1>2, <1>3 DEF Stored!Undo, Stored!IsPrefix

LEMMA CondensesIsCondense ==
  ASSUME Log \in Seq(Message), Log' \in Seq(Message), base \in Nat, count \in Nat,
         Condenses
  PROVE  Stored!Condense
<1>1. base' + count' = base + count + 1 /\ Len(Log') > Len(Log)
  BY DEF Condenses
<1>2. PICK p \in 1..(base + count) :
         p <= Len(Log) /\ Begins(Splice(Log, p - 1, Log'[p]), Log')
  BY DEF Condenses
<1>3. Len(Log) \in Nat /\ Len(Log') \in Nat
  BY LenProperties
<1>4. p - 1 \in Nat /\ p - 1 < Len(Log) /\ (p - 1) + 1 = p /\ p \in 1..Len(Log')
  BY <1>1, <1>2, <1>3
<1>5. Log'[p] \in Message
  BY <1>4, ElementOfSeq
<1> DEFINE N == Splice(Log, p - 1, Log'[p])
<1>6. N \in Seq(Message)
  BY <1>4, <1>5, SpliceIs
<1>7. Len(N) <= Len(Log') /\ SubSeq(N, 1, Len(N)) = SubSeq(Log', 1, Len(N))
  BY <1>2, <1>6, PrefixIs
<1>8. N = Stored!InsertAt(Log, p, Log'[p])
  <2>1. N = InsertAt(Log, (p - 1) + 1, Log'[p])
    BY <1>4 DEF Splice
  <2>2. N = InsertAt(Log, p, Log'[p])
    BY <1>4, <2>1
  <2>3. QED BY <2>2 DEF InsertAt, Stored!InsertAt
<1> HIDE DEF N
<1>9. Stored!IsPrefix(Stored!InsertAt(Log, p, Log'[p]), Log')
  BY <1>7, <1>8 DEF Stored!IsPrefix
<1>10. (base + count)' = (base + count) + 1
  BY <1>1
<1>11. QED BY <1>1, <1>9, <1>10 DEF Stored!Condense

(***************************************************************************)
(* The theorems.                                                           *)
(***************************************************************************)
\* The inductive invariant holds throughout (transcript.ts, rewinder.ts and the
\* paths of session-agent.ts that write history).
THEOREM RowsHold == ASSUME Tame PROVE Spec => []RowsInv
<1>1. ASSUME RowsInv, [Next]_vars PROVE RowsInv'
  BY <1>1, RowsStep DEF Good
<1>2. QED BY <1>1, RowsInit, PTL DEF Spec

\* The view, its count and the table are always one conversation, each message
\* of it in one place (transcript.ts: persist, forgetFrom, insertAt).
THEOREM ViewAndRowsAlwaysAgree == ASSUME Tame PROVE Spec => []ViewAndRowsAgree
<1>1. QED BY InvariantAgrees, RowsHold, PTL

\* What the model is sent, and what a restart would send it, never starts in the
\* middle of a turn (compaction-span.ts: a cut keeps a call and its results).
THEOREM TurnsStayWhole == ASSUME Tame PROVE Spec => []CallsStayTogether
<1>1. QED BY InvariantAnswers, RowsHold, PTL

\* Each checkpoint always stands for exactly what is between it and the one in
\* front of it, however the view moved on while the summary was written
\* (context-compaction.ts: runOnce and the check before the idle commit).
THEOREM CheckpointsAreTrue ==
  ASSUME Tame PROVE Spec => []CheckpointsDescribeTheirPast
<1>1. QED BY InvariantDescribes, RowsHold, PTL

\* An undo takes the prompt and what came after it, from the memory, the table
\* and the clients alike, leaves what came before and is never taken back
\* (rewinder.ts: run, truncateFrom).
THEOREM UndosAreAlwaysExact == ASSUME Tame PROVE Spec => UndosAreExact
<1>1. RowsInv => UndoneStaysGone /\ ClientsShowTheLog
  BY InvariantForgets, InvariantShows
<1> DEFINE Kept == \A t \in undone' \ undone :
              \A i \in DOMAIN Log :
                 (Log[i].id < t /\ \A j \in 1..i : Log[j].id # t)
                   => Log[i].id \in Ids(Log')
<1>2. ASSUME RowsInv, [Next]_vars PROVE Kept
  <2>1. Log \in Seq(Message) /\ DOMAIN Log = 1..Len(Log)
    BY <1>2, LogType, LenProperties
  <2>2. UndoesOnly(undone, undone', Log, Log') /\ RowsInv'
    BY <1>2, RowsStep DEF Good
  <2>3. Log' \in Seq(Message) /\ DOMAIN (Log') = 1..Len(Log')
    BY <2>2, LenProperties DEF RowsInv, Sound
  <2>4. ASSUME NEW k \in 1..Len(Log') PROVE Log'[k].id \in Ids(Log')
    BY <2>3 DEF Ids
  <2>5. ASSUME NEW t \in undone' \ undone, NEW i \in 1..Len(Log), Log[i].id < t,
               \A j \in 1..i : Log[j].id # t
        PROVE  Log[i].id \in Ids(Log')
    <3>1. \E k \in 1..Len(Log') : Log'[k].id = Log[i].id
      BY <2>2, <2>5 DEF UndoesOnly, Keeps
    <3>2. QED BY <2>4, <3>1
  <2>6. QED BY <2>1, <2>5
<1>3. ASSUME RowsInv, [Next]_vars PROVE [Kept]_vars
  BY <1>2, <1>3
<1> HIDE DEF Kept
<1>4. Spec => [][Kept]_vars
  BY <1>3, RowsHold, PTL DEF Spec
<1>5. Spec => [](UndoneStaysGone /\ ClientsShowTheLog)
  BY <1>1, RowsHold, PTL
<1>6. QED BY <1>4, <1>5 DEF UndosAreExact, UndoKeepsWhatCameBefore, Kept

\* The detailed transcript implements StoredLog: the conversation is one log
\* whose beginning is stored, which grows at its end, is condensed inside what
\* is stored, and loses an end or nothing.
THEOREM TheLogIsStored == ASSUME Tame PROVE Spec => ImplementsStoredLog
<1>1. Init => Stored!Init
  <2> SUFFICES ASSUME Init PROVE base + count = Len(Log)
    BY DEF Stored!Init
  <2>1. RowsInv /\ count = Len(view)
    BY RowsInit DEF Init
  <2>2. QED BY <2>1 DEF RowsInv, Laid
<1>2. ASSUME RowsInv, [Next]_vars PROVE [Stored!Next]_(Stored!vars)
  <2>1. /\ Log \in Seq(Message) /\ base \in Nat /\ count \in Nat
        /\ base + count \in Nat
    BY <1>2, LogType
  <2>2. RowsInv' /\ (Says \/ Cuts \/ Condenses)
    BY <1>2, RowsStep DEF Good
  <2>3. Log' \in Seq(Message)
    BY <2>2 DEF RowsInv, Sound
  <2>4. Says => Stored!Say
    BY <2>1, <2>3, SaysIsSay
  <2>5. Cuts => Stored!Undo
    BY <2>1, <2>3, CutsIsUndo
  <2>6. Condenses => Stored!Condense
    BY <2>1, <2>3, CondensesIsCondense
  <2>7. QED BY <2>2, <2>4, <2>5, <2>6 DEF Stored!Next
<1>3. QED BY <1>1, <1>2, RowsHold, PTL DEF Spec, ImplementsStoredLog, Stored!Spec

===============================================================================
