----------------------------- MODULE TtyGateProofs -----------------------------
(***************************************************************************)
(* Proofs about the ttyg gateway, for every number of links and clients and *)
(* every width of the counters of the pool: each link is free or in use,    *)
(* once; it holds a connection of its own exactly while it is in use; and,  *)
(* if the meters answer in time, an answer goes to the client that asked.   *)
(***************************************************************************)
EXTENDS TtyGate, FiniteSetTheorems, SequenceTheorems, TLAPS

-----------------------------------------------------------------------------
\* The invariant.

\* The counters are unsigned and run over.  The slots of the ring go on where they were
\* only if its size divides the width of the counters; 3 does not divide 2^32, so in the
\* program they do until the counter of what is put in runs over, after 2^32 - 3
\* releases of a link.
RunsOn == Word % Size = 0 \/ idPool.end # 0

Round(n) == n % Word
Slot(q, k) == Round(q.begin + k - 1) % Size
At(q, k) == q.buf[Slot(q, k)]

Ring(q) ==
    /\ q.end = Round(q.begin + q.sz)
    /\ Word % Size # 0 => q.end = q.begin + q.sz
Counters == Ring(idPool) /\ idPool.sz + Len(linkIds) = Size

InPool(id) == \E k \in 1 .. idPool.sz : At(idPool, k) = id

\* EachLinkOnce, without counting.
FreeOrUsed ==
    /\ \A j, k \in 1 .. Len(linkIds) : linkIds[j] = linkIds[k] => j = k
    /\ \A j, k \in 1 .. idPool.sz : At(idPool, j) = At(idPool, k) => j = k
    /\ \A id \in LinkId : InUse(id) <=> ~InPool(id)

\* A client is nowhere, or once in the backlog, or at one link.
ClientsApart ==
    /\ \A j, k \in 1 .. Len(backlog) : backlog[j] = backlog[k] => j = k
    /\ \A c \in Client : Waits(c) => peer[c] # "off" /\ \A id \in LinkId : handle[id] # c
    /\ \A id \in LinkId : handle[id] # NoClient => peer[handle[id]] # "off"

\* The walk waits for the port at a link, not at the end of the list.
CollectsAtLink == phase = "collect" => it <= Len(linkIds)

IInv == TypeOK /\ Counters /\ FreeOrUsed /\ HandleWhileInUse /\ ClientsApart /\ CollectsAtLink

\* One request is on the bus, and only while its answer is waited for.
OneExchange ==
    /\ phase \in {"accept", "walk"} => asked = <<>> /\ serialIn = <<>>
    /\ phase = "collect" => \/ asked = <<CurrentClient>> /\ serialIn = <<>>
                            \/ /\ asked = <<>>
                               /\ \E n \in 0 .. (BufSize + 1) :
                                      serialIn = Answer(CurrentClient, n)

-----------------------------------------------------------------------------
\* The ring of the pool.

\* A counter that has run over at most once.
LEMMA RoundOnce ==
    ASSUME NEW n \in Nat, n < 2 * Word
    PROVE  Round(n) = (IF n < Word THEN n ELSE n - Word) /\ Round(n) \in 0 .. (Word - 1)
  BY PoolAssumption DEF Round

\* A remainder and its quotient.
LEMMA Remainder ==
    ASSUME NEW n \in Nat
    PROVE  /\ n % Size \in LinkId
           /\ n \div Size \in Nat
           /\ n = Size * (n \div Size) + (n % Size)
  BY PoolAssumption DEF LinkId

LEMMA Distinct ==
    ASSUME NEW a \in Nat, NEW b \in Nat, a < b, b < a + Size
    PROVE  a % Size # b % Size
<1> SUFFICES ASSUME a % Size = b % Size PROVE FALSE
  OBVIOUS
<1> DEFINE d == (b \div Size) - (a \div Size)
<1>1. d \in Int /\ b - a = Size * d
  BY Remainder, PoolAssumption
<1>2. d >= 1 \/ d <= 0
  BY <1>1
<1> HIDE DEF d
<1>3. CASE d >= 1
  BY <1>1, <1>3, PoolAssumption
<1>4. CASE d <= 0
  BY <1>1, <1>4, PoolAssumption
<1> QED BY <1>2, <1>3, <1>4

LEMMA RunOver ==
    ASSUME NEW n \in Nat, n >= Word, Word % Size = 0
    PROVE  (n - Word) % Size = n % Size
<1> DEFINE m == n - Word
           d == (m \div Size) + (Word \div Size) - (n \div Size)
<1>1. m \in Nat /\ Word \in Nat /\ Size \in Nat \ {0}
  BY PoolAssumption
<1>2. d \in Int /\ (n % Size) - (m % Size) = Size * d
  <2>1. /\ n = Size * (n \div Size) + (n % Size) /\ n \div Size \in Nat
        /\ m = Size * (m \div Size) + (m % Size) /\ m \div Size \in Nat
        /\ Word = Size * (Word \div Size) /\ Word \div Size \in Nat
        /\ n % Size \in Nat /\ m % Size \in Nat
    BY <1>1, Remainder DEF LinkId
  <2> QED BY <1>1, <2>1
<1>3. n % Size \in LinkId /\ m % Size \in LinkId
  BY <1>1, Remainder
<1>4. d >= 1 \/ d = 0 \/ d <= -1
  BY <1>2
<1> HIDE DEF d, m
<1>5. d = 0
  BY <1>1, <1>2, <1>3, <1>4 DEF LinkId
<1>6. n % Size = m % Size
  BY <1>1, <1>2, <1>3, <1>5 DEF LinkId
<1> QED BY <1>6 DEF m

\* The slots from begin on differ, as many as there are, if no counter runs over or the
\* size divides its width.
LEMMA SlotsApart ==
    ASSUME NEW b \in 0 .. (Word - 1), NEW j \in Nat, NEW k \in Nat, j < k, k < Size,
           Word % Size = 0 \/ b + k < Word
    PROVE  Round(b + j) % Size # Round(b + k) % Size
<1>1. /\ b + j \in Nat /\ b + k \in Nat /\ b + k < 2 * Word /\ b + j < 2 * Word
      /\ b + j < b + k /\ b + k < (b + j) + Size
  BY PoolAssumption
<1>2. (b + j) % Size # (b + k) % Size
  BY <1>1, Distinct
<1>3. ASSUME NEW n \in Nat, n < 2 * Word, Word % Size = 0 \/ n < Word
      PROVE  Round(n) % Size = n % Size
  <2>1. CASE n < Word
    <3>1. Round(n) = n
      BY <2>1, RoundOnce, <1>3
    <3> QED BY <3>1
  <2>2. CASE ~(n < Word)
    <3>1. Round(n) = n - Word /\ n >= Word /\ Word % Size = 0
      BY <1>3, <2>2, RoundOnce, PoolAssumption
    <3> QED BY <3>1, RunOver
  <2> QED BY <2>1, <2>2
<1>4. (Word % Size = 0 \/ b + j < Word) /\ (Word % Size = 0 \/ b + k < Word)
  BY <1>1, PoolAssumption
<1>5. Round(b + j) % Size = (b + j) % Size /\ Round(b + k) % Size = (b + k) % Size
  BY <1>1, <1>3, <1>4
<1> QED BY <1>2, <1>5

LEMMA QueueFields ==
    ASSUME NEW q \in Queue
    PROVE  /\ q.begin \in 0 .. (Word - 1) /\ q.end \in 0 .. (Word - 1)
           /\ q.sz \in 0 .. Size /\ q.buf \in [LinkId -> LinkId]
           /\ \A k \in 1 .. Size : Slot(q, k) \in LinkId /\ At(q, k) \in LinkId
<1>1. /\ q.begin \in 0 .. (Word - 1) /\ q.end \in 0 .. (Word - 1)
      /\ q.sz \in 0 .. Size /\ q.buf \in [LinkId -> LinkId]
  BY DEF Queue
<1>2. ASSUME NEW k \in 1 .. Size
      PROVE  Slot(q, k) \in LinkId
  <2>1. q.begin + k - 1 \in Nat /\ q.begin + k - 1 < 2 * Word
    BY <1>1, PoolAssumption
  <2>2. Round(q.begin + k - 1) \in Nat
    BY <2>1, RoundOnce
  <2> QED BY <2>2, Remainder DEF Slot
<1> QED BY <1>1, <1>2 DEF At

\* A queue is its four fields, and each can be replaced.
LEMMA QueueExcept ==
    /\ \A q \in Queue : q = [begin |-> q.begin, end |-> q.end, sz |-> q.sz, buf |-> q.buf]
    /\ \A a, e, n, f, x :
          LET q == [begin |-> a, end |-> e, sz |-> n, buf |-> f]
          IN  /\ [q EXCEPT !.begin = x] = [begin |-> x, end |-> e, sz |-> n, buf |-> f]
              /\ [q EXCEPT !.end = x] = [begin |-> a, end |-> x, sz |-> n, buf |-> f]
              /\ [q EXCEPT !.sz = x] = [begin |-> a, end |-> e, sz |-> x, buf |-> f]
              /\ [q EXCEPT !.buf = x] = [begin |-> a, end |-> e, sz |-> n, buf |-> x]
  BY DEF Queue

\* pop takes the number in front, and moves the others up.
LEMMA PopRing ==
    ASSUME NEW q \in Queue, Ring(q), ~Empty(q)
    PROVE  /\ Pop(q) \in Queue /\ Ring(Pop(q))
           /\ Pop(q).sz = q.sz - 1 /\ Pop(q).end = q.end
           /\ Front(q) = At(q, 1)
           /\ \A k \in 1 .. (q.sz - 1) : At(Pop(q), k) = At(q, k + 1)
<1> DEFINE b == q.begin
<1>1. /\ b \in 0 .. (Word - 1) /\ q.end \in 0 .. (Word - 1) /\ q.sz \in 1 .. Size
      /\ q.buf \in [LinkId -> LinkId]
      /\ Size \in Nat \ {0} /\ Word \in Nat /\ Size < Word
  BY QueueFields, PoolAssumption DEF Empty
<1>2. Pop(q) = [begin |-> Round(b + 1), end |-> q.end, sz |-> q.sz - 1, buf |-> q.buf]
  <2>1. Pop(q) = [[q EXCEPT !.begin = Round(b + 1)] EXCEPT !.sz = q.sz - 1]
    BY Zenon DEF Pop, Round
  <2> QED BY <2>1, QueueExcept, Zenon
<1>3. /\ Round(b) = b
      /\ Round(b + 1) = IF b + 1 = Word THEN 0 ELSE b + 1
      /\ Round(b + 1) \in 0 .. (Word - 1)
  <2>1. b \in Nat /\ b + 1 \in Nat /\ b < 2 * Word /\ b + 1 < 2 * Word
    BY <1>1
  <2> QED BY <1>1, <2>1, RoundOnce
<1> HIDE DEF b
<1>4. ASSUME NEW k \in 0 .. (q.sz - 1)
      PROVE  Round(Round(b + 1) + k) = Round(b + 1 + k)
  <2>1. /\ b + 1 + k \in Nat /\ b + 1 + k < 2 * Word
        /\ Round(b + 1) + k \in Nat /\ Round(b + 1) + k < 2 * Word
    BY <1>1, <1>3
  <2>2. /\ Round(b + 1 + k) = (IF b + 1 + k < Word THEN b + 1 + k ELSE b + 1 + k - Word)
        /\ Round(Round(b + 1) + k) = (IF Round(b + 1) + k < Word THEN Round(b + 1) + k
                                      ELSE Round(b + 1) + k - Word)
    BY <1>1, <1>3, <2>1, RoundOnce
  <2>3. CASE b + 1 = Word
    BY <1>1, <1>3, <2>2, <2>3
  <2>4. CASE b + 1 # Word
    BY <1>1, <1>3, <2>2, <2>4
  <2> QED BY <2>3, <2>4
<1>5. Pop(q) \in Queue /\ Pop(q).sz = q.sz - 1 /\ Pop(q).end = q.end
  BY <1>1, <1>2, <1>3 DEF Queue
<1>6. Ring(Pop(q))
  <2>1. q.end = Round(b + q.sz) /\ (Word % Size # 0 => q.end = b + q.sz)
    BY DEF Ring, b
  <2>2. Round(Round(b + 1) + (q.sz - 1)) = Round(b + q.sz)
    <3>1. b + 1 + (q.sz - 1) = b + q.sz /\ q.sz - 1 \in 0 .. (q.sz - 1)
      BY <1>1
    <3> QED BY <1>4, <3>1
  <2>3. Word % Size # 0 => q.end = Round(b + 1) + (q.sz - 1)
    BY <1>1, <1>3, <2>1
  <2> QED BY <1>2, <2>1, <2>2, <2>3 DEF Ring
<1>7. Front(q) = At(q, 1)
  <2>1. q.begin + 1 - 1 = q.begin
    BY <1>1 DEF b
  <2> QED BY <1>3, <2>1 DEF Front, At, Slot, b
<1>8. ASSUME NEW k \in 1 .. (q.sz - 1)
      PROVE  At(Pop(q), k) = At(q, k + 1)
  <2>1. /\ Round(b + 1) + k - 1 = Round(b + 1) + (k - 1)
        /\ b + (k + 1) - 1 = b + 1 + (k - 1)
        /\ k - 1 \in 0 .. (q.sz - 1)
    BY <1>1, <1>3
  <2>2. Slot(Pop(q), k) = Slot(q, k + 1)
    BY <1>2, <1>4, <2>1 DEF Slot, b
  <2> QED BY <1>2, <2>2 DEF At
<1> QED BY <1>5, <1>6, <1>7, <1>8

\* push puts a number behind the others, and overwrites none of them.
LEMMA PushRing ==
    ASSUME NEW q \in Queue, Ring(q), ~Full(q), NEW id \in LinkId,
           Word % Size = 0 \/ Push(q, id).end # 0
    PROVE  /\ Push(q, id) \in Queue /\ Ring(Push(q, id))
           /\ Push(q, id).sz = q.sz + 1
           /\ At(Push(q, id), q.sz + 1) = id
           /\ \A k \in 1 .. q.sz : At(Push(q, id), k) = At(q, k)
<1> DEFINE b == q.begin
           new == [q.buf EXCEPT ![q.end % Size] = id]
<1>1. /\ b \in 0 .. (Word - 1) /\ q.end \in 0 .. (Word - 1) /\ q.sz \in 0 .. (Size - 1)
      /\ q.buf \in [LinkId -> LinkId]
      /\ Size \in Nat \ {0} /\ Word \in Nat /\ Size < Word
  BY QueueFields, PoolAssumption DEF Full
<1>2. Push(q, id) = [begin |-> b, end |-> Round(q.end + 1), sz |-> q.sz + 1, buf |-> new]
  <2>1. Push(q, id) =
           [[[q EXCEPT !.buf = new] EXCEPT !.end = Round(q.end + 1)] EXCEPT !.sz = q.sz + 1]
    BY Zenon DEF Push, Round
  <2> QED BY <2>1, QueueExcept, Zenon
<1>3. /\ Round(q.end + 1) = IF q.end + 1 = Word THEN 0 ELSE q.end + 1
      /\ Round(q.end + 1) \in 0 .. (Word - 1)
  <2>1. q.end + 1 \in Nat /\ q.end + 1 < 2 * Word
    BY <1>1
  <2> QED BY <1>1, <2>1, RoundOnce
<1>4. q.end = Round(b + q.sz) /\ (Word % Size # 0 => q.end = b + q.sz)
  BY DEF Ring
<1>5. q.end % Size \in LinkId /\ new \in [LinkId -> LinkId]
  <2>1. q.end \in Nat
    BY <1>1
  <2>2. q.end % Size \in LinkId
    BY <2>1, Remainder
  <2> QED BY <1>1, <2>2
<1>6. /\ Push(q, id) \in Queue /\ Push(q, id).begin = b /\ Push(q, id).buf = new
      /\ Push(q, id).end = Round(q.end + 1) /\ Push(q, id).sz = q.sz + 1
  BY <1>1, <1>2, <1>3, <1>5 DEF Queue
<1>7. new[q.end % Size] = id /\ \A i \in LinkId : i # q.end % Size => new[i] = q.buf[i]
  BY <1>1, <1>5
<1> HIDE DEF b, new
<1>8. Ring(Push(q, id))
  <2>1. Round(b + q.sz) = (IF b + q.sz < Word THEN b + q.sz ELSE b + q.sz - Word)
    <3>1. b + q.sz \in Nat /\ b + q.sz < 2 * Word
      BY <1>1
    <3> QED BY <1>1, <3>1, RoundOnce
  <2>2. Round(b + (q.sz + 1)) = (IF b + (q.sz + 1) < Word THEN b + (q.sz + 1)
                                 ELSE b + (q.sz + 1) - Word)
    <3>1. b + (q.sz + 1) \in Nat /\ b + (q.sz + 1) < 2 * Word
      BY <1>1
    <3> QED BY <1>1, <3>1, RoundOnce
  <2>3. Round(q.end + 1) = Round(b + (q.sz + 1))
    BY <1>1, <1>3, <1>4, <2>1, <2>2
  <2>4. Word % Size # 0 => Round(q.end + 1) = b + (q.sz + 1)
    BY <1>1, <1>3, <1>4, <1>6
  <2> QED BY <1>6, <2>3, <2>4 DEF Ring
<1>9. ASSUME NEW k \in 1 .. q.sz
      PROVE  Slot(q, k) # q.end % Size
  <2>1. /\ k - 1 \in Nat /\ q.sz \in Nat /\ k - 1 < q.sz /\ q.sz < Size
        /\ b + k - 1 = b + (k - 1)
    BY <1>1
  <2>2. Word % Size = 0 \/ b + q.sz < Word
    BY <1>1, <1>4
  <2>3. Round(b + (k - 1)) % Size # Round(b + q.sz) % Size
    BY <1>1, <2>1, <2>2, SlotsApart
  <2> QED BY <1>4, <2>1, <2>3 DEF Slot, b
<1>10. ASSUME NEW k \in 1 .. q.sz
       PROVE  At(Push(q, id), k) = At(q, k)
  <2>1. Slot(Push(q, id), k) = Slot(q, k)
    BY <1>6 DEF Slot, b
  <2>2. Slot(q, k) \in LinkId
    BY <1>1, QueueFields
  <2> QED BY <1>6, <1>7, <1>9, <2>1, <2>2 DEF At
<1>11. At(Push(q, id), q.sz + 1) = id
  <2>1. b + (q.sz + 1) - 1 = b + q.sz
    BY <1>1
  <2>2. Slot(Push(q, id), q.sz + 1) = q.end % Size
    BY <1>4, <1>6, <2>1 DEF Slot
  <2> QED BY <1>6, <1>7, <2>2 DEF At
<1> QED BY <1>6, <1>8, <1>10, <1>11

-----------------------------------------------------------------------------
\* The list and the pool together.

\* erase: the others keep their order.
LEMMA WithoutFacts ==
    ASSUME NEW S, NEW list \in Seq(S), NEW p \in 1 .. Len(list)
    PROVE  /\ Without(list, p) \in Seq(S)
           /\ Len(Without(list, p)) = Len(list) - 1
           /\ \A k \in 1 .. (Len(list) - 1) :
                 Without(list, p)[k] = IF k < p THEN list[k] ELSE list[k + 1]
<1> DEFINE a == SubSeq(list, 1, p - 1)
           b == SubSeq(list, p + 1, Len(list))
<1>1. Len(list) \in Nat /\ p \in Nat
  OBVIOUS
<1>2. a \in Seq(S) /\ Len(a) = p - 1 /\ \A k \in 1 .. (p - 1) : a[k] = list[k]
  BY <1>1
<1>3. /\ b \in Seq(S) /\ Len(b) = Len(list) - p
      /\ \A k \in 1 .. (Len(list) - p) : b[k] = list[p + k]
  BY <1>1
<1> HIDE DEF a, b
<1>4. /\ a \o b \in Seq(S) /\ Len(a \o b) = Len(a) + Len(b)
      /\ \A k \in 1 .. (Len(a) + Len(b)) : (a \o b)[k] = IF k <= Len(a) THEN a[k] ELSE b[k - Len(a)]
  BY <1>2, <1>3, ConcatProperties, Zenon
<1>5. ASSUME NEW k \in 1 .. (Len(list) - 1)
      PROVE  (a \o b)[k] = IF k < p THEN list[k] ELSE list[k + 1]
  <2>1. CASE k < p
    <3>1. k \in 1 .. (p - 1) /\ k \in 1 .. (Len(a) + Len(b)) /\ k <= Len(a)
      BY <1>1, <1>2, <1>3, <2>1
    <3> QED BY <1>2, <1>4, <2>1, <3>1
  <2>2. CASE k >= p
    <3>1. k - (p - 1) \in 1 .. (Len(list) - p) /\ p + (k - (p - 1)) = k + 1
      BY <1>1, <2>2
    <3>2. (a \o b)[k] = b[k - (p - 1)]
      <4>1. k \in 1 .. (Len(a) + Len(b)) /\ ~(k <= Len(a)) /\ Len(a) = p - 1
        BY <1>1, <1>2, <1>3, <2>2
      <4> QED BY <1>4, <4>1
    <3> QED BY <1>3, <2>2, <3>1, <3>2
  <2>3. k < p \/ k >= p
    BY <1>1
  <2> QED BY <2>1, <2>2, <2>3, Zenon
<1>6. Len(a \o b) = Len(list) - 1
  BY <1>1, <1>2, <1>3, <1>4
<1>7. Without(list, p) = a \o b
  BY DEF Without, a, b
<1> QED BY <1>4, <1>5, <1>6, <1>7

\* A free link is put into use.
LEMMA TakeLink ==
    ASSUME IInv, ~Empty(idPool), idPool' = Pop(idPool),
           linkIds' = Append(linkIds, Front(idPool))
    PROVE  /\ idPool' \in Queue /\ linkIds' \in Seq(LinkId) /\ Len(linkIds') = Len(linkIds) + 1
           /\ Front(idPool) \in LinkId /\ ~InUse(Front(idPool))
           /\ Counters' /\ FreeOrUsed'
           /\ \A id \in LinkId : InUse(id)' <=> InUse(id) \/ id = Front(idPool)
<1> DEFINE f == Front(idPool)
           n == Len(linkIds)
<1>1. idPool \in Queue /\ linkIds \in Seq(LinkId) /\ Ring(idPool) /\ idPool.sz + n = Size
  BY DEF IInv, TypeOK, Counters
<1>2. /\ idPool' \in Queue /\ Ring(idPool') /\ idPool'.sz = idPool.sz - 1
      /\ f = At(idPool, 1)
      /\ \A k \in 1 .. (idPool.sz - 1) : At(idPool', k) = At(idPool, k + 1)
  BY <1>1, PopRing
<1>3. n \in Nat /\ idPool.sz \in 1 .. Size /\ Size \in Nat
  BY <1>1, QueueFields, PoolAssumption DEF Empty
<1>4. f \in LinkId /\ InPool(f) /\ ~InUse(f)
  <2>1. f \in LinkId /\ 1 \in 1 .. idPool.sz
    BY <1>1, <1>2, <1>3, QueueFields
  <2> QED BY <1>2, <2>1 DEF InPool, IInv, FreeOrUsed
<1> HIDE DEF f
<1>5. /\ linkIds' \in Seq(LinkId) /\ Len(linkIds') = n + 1 /\ linkIds'[n + 1] = f
      /\ \A k \in 1 .. n : linkIds'[k] = linkIds[k]
  <2>1. linkIds' = Append(linkIds, f)
    BY DEF f
  <2> QED BY <1>1, <1>3, <1>4, <2>1
<1> HIDE DEF n
<1>6. \A k \in 1 .. (n + 1) : k \in 1 .. n \/ k = n + 1
  BY <1>3
<1>7. ASSUME NEW id \in LinkId
      PROVE  (\E k \in 1 .. Len(linkIds') : linkIds'[k] = id) <=> InUse(id) \/ id = f
  <2>1. InUse(id) <=> \E k \in 1 .. n : linkIds[k] = id
    BY DEF InUse, n
  <2>2. 1 .. n \subseteq 1 .. (n + 1) /\ n + 1 \in 1 .. (n + 1)
    BY <1>3
  <2> QED BY <1>5, <1>6, <2>1, <2>2
<1>8. ASSUME NEW id \in LinkId
      PROVE  (\E k \in 1 .. idPool'.sz : At(idPool', k) = id) <=> InPool(id) /\ id # f
  <2>1. \A j, k \in 1 .. idPool.sz : At(idPool, j) = At(idPool, k) => j = k
    BY DEF IInv, FreeOrUsed
  <2>2. ASSUME NEW k \in 1 .. idPool'.sz, At(idPool', k) = id
        PROVE  InPool(id) /\ id # f
    <3>1. k + 1 \in 1 .. idPool.sz /\ k + 1 # 1 /\ 1 \in 1 .. idPool.sz /\ k \in 1 .. (idPool.sz - 1)
      BY <1>2, <1>3, <2>2
    <3> QED BY <1>2, <2>1, <2>2, <3>1 DEF InPool
  <2>3. ASSUME NEW k \in 1 .. idPool.sz, At(idPool, k) = id, id # f
        PROVE  \E j \in 1 .. idPool'.sz : At(idPool', j) = id
    <3>1. k # 1
      BY <1>2, <2>3
    <3>2. k - 1 \in 1 .. idPool'.sz /\ k - 1 \in 1 .. (idPool.sz - 1) /\ (k - 1) + 1 = k
      BY <1>2, <1>3, <3>1
    <3> QED BY <1>2, <2>3, <3>2
  <2> QED BY <2>2, <2>3 DEF InPool
<1>9. FreeOrUsed'
  <2>1. \A j, k \in 1 .. Len(linkIds') : linkIds'[j] = linkIds'[k] => j = k
    <3>1. \A j, k \in 1 .. n : linkIds[j] = linkIds[k] => j = k
      BY DEF IInv, FreeOrUsed, n
    <3>2. \A k \in 1 .. n : linkIds[k] # f
      BY <1>4 DEF InUse, n
    <3> QED BY <1>5, <1>6, <3>1, <3>2
  <2>2. \A j, k \in 1 .. idPool'.sz : At(idPool', j) = At(idPool', k) => j = k
    <3> SUFFICES ASSUME NEW j \in 1 .. idPool'.sz, NEW k \in 1 .. idPool'.sz,
                        At(idPool', j) = At(idPool', k)
                 PROVE  j = k
      OBVIOUS
    <3>1. j + 1 \in 1 .. idPool.sz /\ k + 1 \in 1 .. idPool.sz
          /\ j \in 1 .. (idPool.sz - 1) /\ k \in 1 .. (idPool.sz - 1)
      BY <1>2, <1>3
    <3>2. j + 1 = k + 1
      BY <1>2, <3>1 DEF IInv, FreeOrUsed
    <3> QED BY <3>1, <3>2
  <2>3. \A id \in LinkId : (\E k \in 1 .. Len(linkIds') : linkIds'[k] = id)
                           <=> ~(\E k \in 1 .. idPool'.sz : At(idPool', k) = id)
    BY <1>4, <1>7, <1>8 DEF IInv, FreeOrUsed
  <2> QED BY <2>1, <2>2, <2>3 DEF FreeOrUsed, InUse, InPool, At, Slot, Round
<1>10. Counters'
  <2>1. idPool'.sz + Len(linkIds') = Size
    <3>1. \A x, y \in Nat : (x - 1) + (y + 1) = x + y
      OBVIOUS
    <3>2. idPool.sz \in Nat /\ n \in Nat
      BY <1>3
    <3> QED BY <1>1, <1>2, <1>5, <3>1, <3>2, Zenon
  <2> QED BY <1>2, <2>1 DEF Counters, Ring, Round
<1>11. \A id \in LinkId : InUse(id)' <=> InUse(id) \/ id = f
  BY <1>7 DEF InUse
<1> QED BY <1>2, <1>4, <1>5, <1>9, <1>10, <1>11 DEF f, n

\* A link in use is freed: it leaves the list at the iterator, and the pool has room
\* for it.
LEMMA FreeLink ==
    ASSUME IInv, RunsOn', it <= Len(linkIds), linkIds' = Without(linkIds, it),
           idPool' = Free(idPool, Current)
    PROVE  /\ idPool' \in Queue /\ linkIds' \in Seq(LinkId) /\ Len(linkIds') = Len(linkIds) - 1
           /\ Current \in LinkId /\ InUse(Current)
           /\ Counters' /\ FreeOrUsed'
           /\ \A id \in LinkId : InUse(id)' <=> InUse(id) /\ id # Current
<1> DEFINE c == Current
           n == Len(linkIds)
<1>1. idPool \in Queue /\ linkIds \in Seq(LinkId) /\ Ring(idPool) /\ idPool.sz + n = Size
  BY DEF IInv, TypeOK, Counters
<1>2. n \in Nat /\ it \in 1 .. n /\ idPool.sz \in 0 .. Size /\ Size \in Nat
  BY <1>1, QueueFields, PoolAssumption DEF IInv, TypeOK
<1>3. c \in LinkId /\ InUse(c) /\ linkIds[it] = c
  BY <1>1, <1>2 DEF Current, InUse
<1>4. ~Full(idPool)
  BY <1>1, <1>2 DEF Full
<1>5. idPool' = Push(idPool, c)
  BY <1>4 DEF Free
<1> HIDE DEF c
<1>6. /\ idPool' \in Queue /\ Ring(idPool') /\ idPool'.sz = idPool.sz + 1
      /\ At(idPool', idPool.sz + 1) = c
      /\ \A k \in 1 .. idPool.sz : At(idPool', k) = At(idPool, k)
  BY <1>1, <1>3, <1>4, <1>5, PushRing DEF RunsOn
<1>7. /\ linkIds' \in Seq(LinkId) /\ Len(linkIds') = n - 1
      /\ \A k \in 1 .. (n - 1) : linkIds'[k] = IF k < it THEN linkIds[k] ELSE linkIds[k + 1]
  BY <1>1, <1>2, WithoutFacts
<1> HIDE DEF n
<1>8. \A j, k \in 1 .. n : linkIds[j] = linkIds[k] => j = k
  BY DEF IInv, FreeOrUsed, n
<1>9. ASSUME NEW id \in LinkId
      PROVE  (\E k \in 1 .. Len(linkIds') : linkIds'[k] = id) <=> InUse(id) /\ id # c
  <2>1. InUse(id) <=> \E k \in 1 .. n : linkIds[k] = id
    BY DEF InUse, n
  <2>2. ASSUME NEW k \in 1 .. (n - 1), linkIds'[k] = id
        PROVE  InUse(id) /\ id # c
    <3> DEFINE j == IF k < it THEN k ELSE k + 1
    <3>1. j \in 1 .. n /\ j # it /\ linkIds[j] = id
      BY <1>2, <1>7, <2>2
    <3> QED BY <1>2, <1>3, <1>8, <2>1, <3>1
  <2>3. ASSUME NEW k \in 1 .. n, linkIds[k] = id, id # c
        PROVE  \E j \in 1 .. (n - 1) : linkIds'[j] = id
    <3>1. k # it
      BY <1>3, <2>3
    <3>2. CASE k < it
      <4>1. k \in 1 .. (n - 1)
        BY <1>2, <3>2
      <4> QED BY <1>7, <2>3, <3>2, <4>1
    <3>3. CASE k > it
      <4>1. k - 1 \in 1 .. (n - 1) /\ ~(k - 1 < it) /\ (k - 1) + 1 = k
        BY <1>2, <3>3
      <4> QED BY <1>7, <2>3, <4>1
    <3> QED BY <1>2, <3>1, <3>2, <3>3
  <2> QED BY <1>7, <2>1, <2>2, <2>3
<1>10. /\ 1 .. idPool'.sz = 1 .. idPool.sz \cup {idPool.sz + 1}
       /\ idPool.sz + 1 \notin 1 .. idPool.sz
  BY <1>2, <1>6
<1>11. ASSUME NEW id \in LinkId
       PROVE  (\E k \in 1 .. idPool'.sz : At(idPool', k) = id) <=> InPool(id) \/ id = c
  BY <1>6, <1>10 DEF InPool
<1>12. FreeOrUsed'
  <2>1. \A j, k \in 1 .. Len(linkIds') : linkIds'[j] = linkIds'[k] => j = k
    <3> SUFFICES ASSUME NEW j \in 1 .. (n - 1), NEW k \in 1 .. (n - 1), linkIds'[j] = linkIds'[k]
                 PROVE  j = k
      BY <1>7
    <3> DEFINE jj == IF j < it THEN j ELSE j + 1
               kk == IF k < it THEN k ELSE k + 1
    <3>1. jj \in 1 .. n /\ kk \in 1 .. n /\ linkIds[jj] = linkIds[kk]
      BY <1>2, <1>7
    <3>2. jj = kk
      BY <1>8, <3>1
    <3> QED BY <1>2, <3>2
  <2>2. \A j, k \in 1 .. idPool'.sz : At(idPool', j) = At(idPool', k) => j = k
    <3>1. \A j, k \in 1 .. idPool.sz : At(idPool, j) = At(idPool, k) => j = k
      BY DEF IInv, FreeOrUsed
    <3>2. \A k \in 1 .. idPool.sz : At(idPool, k) # c
      BY <1>3 DEF IInv, FreeOrUsed, InPool
    <3> QED BY <1>6, <1>10, <3>1, <3>2
  <2>3. \A id \in LinkId : (\E k \in 1 .. Len(linkIds') : linkIds'[k] = id)
                           <=> ~(\E k \in 1 .. idPool'.sz : At(idPool', k) = id)
    BY <1>9, <1>11 DEF IInv, FreeOrUsed
  <2> QED BY <2>1, <2>2, <2>3 DEF FreeOrUsed, InUse, InPool, At, Slot, Round
<1>13. Counters'
  BY <1>1, <1>2, <1>6, <1>7 DEF Counters, Ring, Round
<1>14. \A id \in LinkId : InUse(id)' <=> InUse(id) /\ id # c
  BY <1>9 DEF InUse
<1> QED BY <1>3, <1>6, <1>7, <1>12, <1>13, <1>14 DEF c, n

-----------------------------------------------------------------------------
\* The steps.

LEMMA InvariantInit ==
    ASSUME Init, RunsOn
    PROVE  IInv
<1>1. idPool = FullPool /\ linkIds = <<>> /\ Size \in Nat \ {0} /\ Word \in Nat /\ Size < Word
  BY PoolAssumption DEF Init
<1>2. Size < 2 * Word /\ Round(Size) = Size
  BY <1>1, RoundOnce
<1>3. /\ FullPool = [begin |-> 0, end |-> Size, sz |-> Size, buf |-> [id \in LinkId |-> id]]
      /\ FullPool \in Queue
  BY <1>1, <1>2 DEF FullPool, Queue, Round
<1>4. ASSUME NEW k \in 1 .. Size
      PROVE  At(FullPool, k) = k - 1 /\ k - 1 \in LinkId
  <2>1. k - 1 \in Nat /\ 0 + k - 1 = k - 1 /\ k - 1 < 2 * Word /\ k - 1 < Word /\ k - 1 < Size
    BY <1>1
  <2>2. Round(k - 1) = k - 1
    BY <2>1, RoundOnce
  <2>3. (k - 1) % Size = k - 1 /\ k - 1 \in LinkId
    BY <1>1, <2>1 DEF LinkId
  <2>4. Slot(FullPool, k) = k - 1
    BY <1>3, <2>1, <2>2, <2>3 DEF Slot
  <2> QED BY <1>3, <2>3, <2>4 DEF At
<1>5. Counters
  BY <1>1, <1>2, <1>3 DEF Counters, Ring
<1>6. FreeOrUsed
  <2>1. \A id \in LinkId : InPool(id)
    <3> SUFFICES ASSUME NEW id \in LinkId PROVE InPool(id)
      OBVIOUS
    <3>1. id + 1 \in 1 .. Size /\ (id + 1) - 1 = id
      BY <1>1 DEF LinkId
    <3> QED BY <1>1, <1>3, <1>4, <3>1 DEF InPool
  <2>2. \A j, k \in 1 .. Size : At(FullPool, j) = At(FullPool, k) => j = k
    BY <1>1, <1>4
  <2>3. idPool.sz = Size /\ 1 .. Len(linkIds) = {}
    BY <1>1, <1>3
  <2> QED BY <1>1, <2>1, <2>2, <2>3, Zenon DEF FreeOrUsed, InUse
<1>7. TypeOK
  BY <1>1, <1>3, TtyAssumption DEF Init, TypeOK
<1>8. HandleWhileInUse
  BY <1>1 DEF Init, HandleWhileInUse, InUse
<1>9. ClientsApart /\ CollectsAtLink
  BY TtyAssumption DEF Init, ClientsApart, Waits, CollectsAtLink
<1> QED BY <1>5, <1>6, <1>7, <1>8, <1>9 DEF IInv

\* The iterator stays between the first link and the end.
LEMMA AfterFacts ==
    ASSUME NEW n \in Nat, NEW list, Len(list) = n, NEW p \in 1 .. (n + 1)
    PROVE  After(p, list) \in 1 .. (n + 1)
  BY DEF After

LEMMA CurrentFacts ==
    ASSUME IInv, it <= Len(linkIds)
    PROVE  /\ Current \in LinkId /\ CurrentClient \in Client /\ CurrentClient = handle[Current]
           /\ it \in 1 .. Len(linkIds)
<1>1. it \in 1 .. Len(linkIds) /\ linkIds \in Seq(LinkId) /\ handle \in [LinkId -> Client \cup {NoClient}]
  BY DEF IInv, TypeOK
<1>2. Current \in LinkId /\ InUse(Current)
  BY <1>1 DEF Current, InUse
<1>3. handle[Current] # NoClient
  BY <1>2 DEF IInv, HandleWhileInUse
<1> QED BY <1>1, <1>2, <1>3 DEF CurrentClient

\* A client is accepted on a free link.
LEMMA AcceptKeeps ==
    ASSUME IInv, Accept, ~(Empty(idPool) \/ backlog = <<>>)
    PROVE  IInv'
<1> DEFINE f == Front(idPool)
           h == Head(backlog)
<1>1. /\ phase' = "walk" /\ it' = 1 /\ idPool' = Pop(idPool)
      /\ handle' = [handle EXCEPT ![f] = h]
      /\ linkIds' = Append(linkIds, f) /\ backlog' = Tail(backlog)
      /\ UNCHANGED <<peer, sent, asked, lengths, serialIn>>
  BY DEF Accept
<1>2. /\ idPool' \in Queue /\ linkIds' \in Seq(LinkId) /\ Len(linkIds') = Len(linkIds) + 1
      /\ f \in LinkId /\ ~InUse(f) /\ Counters' /\ FreeOrUsed'
      /\ \A id \in LinkId : InUse(id)' <=> InUse(id) \/ id = f
  BY <1>1, TakeLink
<1>3. /\ backlog \in Seq(Client) /\ backlog # <<>> /\ Len(backlog) \in Nat \ {0}
      /\ h \in Client /\ h = backlog[1]
      /\ backlog' \in Seq(Client) /\ Len(backlog') = Len(backlog) - 1
      /\ \A k \in 1 .. Len(backlog') : backlog'[k] = backlog[k + 1]
  BY <1>1 DEF IInv, TypeOK
<1> HIDE DEF f, h
<1>4. TypeOK /\ HandleWhileInUse /\ ClientsApart
  BY DEF IInv
<1>5. Waits(h) /\ peer[h] # "off" /\ \A id \in LinkId : handle[id] # h
  BY <1>3, <1>4 DEF Waits, ClientsApart
<1>6. /\ handle'[f] = h /\ \A id \in LinkId \ {f} : handle'[id] = handle[id]
      /\ handle' \in [LinkId -> Client \cup {NoClient}]
  BY <1>1, <1>2, <1>3, <1>4 DEF TypeOK
<1>7. \A k \in 1 .. Len(backlog') : k + 1 \in 1 .. Len(backlog) /\ k + 1 # 1 /\ k \in Nat
  BY <1>3
<1>8. TypeOK'
  <2>1. Len(linkIds) \in Nat
    BY <1>4 DEF TypeOK
  <2>2. it' \in 1 .. (Len(linkIds') + 1)
    BY <1>1, <1>2, <2>1
  <2> QED BY <1>1, <1>2, <1>3, <1>4, <1>6, <2>2 DEF TypeOK
<1>9. HandleWhileInUse'
  <2>1. \A id \in LinkId : handle'[id] # NoClient <=> InUse(id)'
    BY <1>2, <1>3, <1>4, <1>6, TtyAssumption DEF HandleWhileInUse
  <2>2. \A id, jd \in LinkId : handle'[id] = handle'[jd] /\ handle'[id] # NoClient => id = jd
    BY <1>4, <1>5, <1>6 DEF HandleWhileInUse
  <2> QED BY <2>1, <2>2 DEF HandleWhileInUse
<1>10. ClientsApart'
  <2>1. \A j, k \in 1 .. Len(backlog') : backlog'[j] = backlog'[k] => j = k
    <3> SUFFICES ASSUME NEW j \in 1 .. Len(backlog'), NEW k \in 1 .. Len(backlog'),
                        backlog'[j] = backlog'[k]
                 PROVE  j = k
      OBVIOUS
    <3>1. j + 1 = k + 1
      BY <1>3, <1>4, <1>7 DEF ClientsApart
    <3> QED BY <1>7, <3>1
  <2>2. ASSUME NEW c \in Client, NEW k \in 1 .. Len(backlog'), backlog'[k] = c
        PROVE  peer'[c] # "off" /\ \A id \in LinkId : handle'[id] # c
    <3>1. backlog[k + 1] = c /\ k + 1 \in 1 .. Len(backlog) /\ k + 1 # 1 /\ 1 \in 1 .. Len(backlog)
      BY <1>3, <1>7, <2>2
    <3>2. Waits(c) /\ c # h
      BY <1>3, <1>4, <3>1 DEF Waits, ClientsApart
    <3> QED BY <1>1, <1>4, <1>6, <3>2 DEF ClientsApart
  <2>3. \A id \in LinkId : handle'[id] # NoClient => peer'[handle'[id]] # "off"
    BY <1>1, <1>4, <1>5, <1>6 DEF ClientsApart
  <2> QED BY <2>1, <2>2, <2>3 DEF ClientsApart, Waits
<1>11. CollectsAtLink'
  BY <1>1 DEF CollectsAtLink
<1> QED BY <1>2, <1>8, <1>9, <1>10, <1>11 DEF IInv

\* A client that has gone leaves its link.
LEMMA DropKeeps ==
    ASSUME IInv, RunsOn', it <= Len(linkIds), DropLink, Closed(CurrentClient),
           phase' \in {"accept", "walk", "exit"}, asked' = asked, UNCHANGED backlog,
           serialIn' \in Seq(Client), UNCHANGED lengths
    PROVE  IInv'
<1> DEFINE i == Current
           c == CurrentClient
<1>1. /\ linkIds' = Without(linkIds, it) /\ handle' = [handle EXCEPT ![i] = NoClient]
      /\ idPool' = Free(idPool, i) /\ it' = After(it, linkIds')
      /\ peer' = [peer EXCEPT ![c] = "off"] /\ sent' = [sent EXCEPT ![c] = FALSE]
  BY DEF DropLink, Closed
<1>2. /\ idPool' \in Queue /\ linkIds' \in Seq(LinkId) /\ Len(linkIds') = Len(linkIds) - 1
      /\ i \in LinkId /\ Counters' /\ FreeOrUsed'
      /\ \A id \in LinkId : InUse(id)' <=> InUse(id) /\ id # i
  BY <1>1, FreeLink
<1>3. c \in Client /\ c = handle[i] /\ it \in 1 .. Len(linkIds)
  BY CurrentFacts
<1> HIDE DEF i, c
<1>4. TypeOK /\ HandleWhileInUse /\ ClientsApart
  BY DEF IInv
<1>5. /\ handle'[i] = NoClient /\ \A id \in LinkId \ {i} : handle'[id] = handle[id]
      /\ handle' \in [LinkId -> Client \cup {NoClient}]
      /\ \A d \in Client \ {c} : peer'[d] = peer[d]
  BY <1>1, <1>2, <1>4 DEF TypeOK
<1>6. \A id \in LinkId \ {i} : handle[id] # c
  BY <1>2, <1>3, <1>4, TtyAssumption DEF HandleWhileInUse
<1>7. TypeOK'
  <2>1. Len(linkIds) \in Nat
    BY <1>4 DEF TypeOK
  <2>2. it' \in 1 .. (Len(linkIds') + 1)
    <3>1. Len(linkIds') \in Nat /\ it \in 1 .. (Len(linkIds') + 1)
      BY <1>2, <1>3, <2>1
    <3> QED BY <1>1, <3>1, AfterFacts
  <2>3. peer' \in [Client -> {"off", "up", "gone"}] /\ sent' \in [Client -> BOOLEAN]
    BY <1>1, <1>4 DEF TypeOK
  <2> QED BY <1>2, <1>4, <1>5, <2>2, <2>3 DEF TypeOK
<1>8. HandleWhileInUse'
  <2>1. \A id \in LinkId : handle'[id] # NoClient <=> InUse(id)'
    BY <1>2, <1>4, <1>5 DEF HandleWhileInUse
  <2>2. \A id, jd \in LinkId : handle'[id] = handle'[jd] /\ handle'[id] # NoClient => id = jd
    BY <1>4, <1>5 DEF HandleWhileInUse
  <2> QED BY <2>1, <2>2 DEF HandleWhileInUse
<1>9. ClientsApart'
  <2>1. \A d \in Client : Waits(d) => d # c
    BY <1>2, <1>3, <1>4 DEF ClientsApart
  <2>2. \A d \in Client : Waits(d) => peer'[d] # "off" /\ \A id \in LinkId : handle'[id] # d
    BY <1>4, <1>5, <2>1, TtyAssumption DEF ClientsApart
  <2>3. ASSUME NEW id \in LinkId, handle'[id] # NoClient
        PROVE  peer'[handle'[id]] # "off"
    <3>1. id # i /\ handle'[id] = handle[id] /\ handle[id] \in Client \ {c}
      BY <1>4, <1>5, <1>6, <2>3 DEF TypeOK
    <3> QED BY <1>4, <1>5, <2>3, <3>1 DEF ClientsApart
  <2> QED BY <1>4, <2>2, <2>3 DEF ClientsApart, Waits
<1>10. CollectsAtLink'
  BY DEF CollectsAtLink
<1> QED BY <1>2, <1>7, <1>8, <1>9, <1>10 DEF IInv

\* What leaves links, pool and backlog alone and sends no client away.
LEMMA OthersKeep ==
    ASSUME IInv, TypeOK', CollectsAtLink', UNCHANGED <<linkIds, idPool, handle, backlog>>,
           \A c \in Client : peer'[c] = "off" => peer[c] = "off"
    PROVE  IInv'
<1>1. Counters'
  BY DEF IInv, Counters
<1>2. FreeOrUsed' /\ HandleWhileInUse'
  BY DEF IInv, FreeOrUsed, HandleWhileInUse, InUse, InPool
<1>3. ClientsApart'
  <2>1. \A id \in LinkId : handle[id] # NoClient => handle[id] \in Client
    BY DEF IInv, TypeOK
  <2> QED BY <2>1 DEF IInv, ClientsApart, Waits
<1> QED BY <1>1, <1>2, <1>3 DEF IInv

LEMMA NextLinkKeeps ==
    ASSUME IInv, it <= Len(linkIds), NextLink, phase' = "walk",
           UNCHANGED <<backlog, peer, lengths>>,
           sent' \in [Client -> BOOLEAN], asked' \in Seq(Client), serialIn' \in Seq(Client)
    PROVE  IInv'
<1>1. it' = After(it, linkIds) /\ UNCHANGED <<linkIds, idPool, handle>>
  BY DEF NextLink
<1>2. Len(linkIds) \in Nat /\ it \in 1 .. (Len(linkIds) + 1)
  BY DEF IInv, TypeOK
<1>3. it' \in 1 .. (Len(linkIds') + 1)
  BY <1>1, <1>2, AfterFacts
<1>4. TypeOK' /\ CollectsAtLink'
  BY <1>1, <1>3 DEF IInv, TypeOK, CollectsAtLink
<1> QED BY <1>1, <1>4, OthersKeep

\* What a call of serial->read leaves in the port; what a meter adds to it.
LEMMA LeftFacts ==
    ASSUME serialIn \in Seq(Client)
    PROVE  LeftInPort \in Seq(Client)
<1>1. BufSize + 2 \in Nat /\ BufSize + 2 >= 1 /\ Len(serialIn) \in Nat
  BY TtyAssumption
<1>2. \A i \in (BufSize + 2) .. Len(serialIn) : serialIn[i] \in Client
  BY <1>1
<1> QED BY <1>1, <1>2, SubSeqProperties DEF LeftInPort

LEMMA AnswerOf ==
    ASSUME NEW c, NEW n \in Nat
    PROVE  /\ Answer(c, n) \in Seq({c})
           /\ <<>> \o Answer(c, n) = Answer(c, n)
           /\ Len(Answer(c, n)) = n
           /\ \A k \in DOMAIN Answer(c, n) : Answer(c, n)[k] = c
           /\ n <= BufSize + 1 => SubSeq(Answer(c, n), BufSize + 2, n) = <<>>
<1>1. Answer(c, n) \in Seq({c})
  BY SeqDef DEF Answer
<1>2. Len(Answer(c, n)) = n /\ DOMAIN Answer(c, n) = 1 .. n
  BY DEF Answer
<1>3. \A k \in 1 .. n : Answer(c, n)[k] = c
  BY DEF Answer
<1>4. <<>> \o Answer(c, n) = Answer(c, n)
  BY <1>1, ConcatEmptySeq
<1>5. n <= BufSize + 1 => SubSeq(Answer(c, n), BufSize + 2, n) = <<>>
  BY <1>1, <1>2, TtyAssumption
<1> QED BY <1>1, <1>2, <1>3, <1>4, <1>5

LEMMA AnswerFacts ==
    ASSUME MeterAnswers, asked \in Seq(Client), serialIn \in Seq(Client), lengths \in Bus
    PROVE  /\ asked' \in Seq(Client) /\ serialIn' \in Seq(Client)
           /\ \E n \in {0} \cup lengths : serialIn' = serialIn \o Answer(Head(asked), n)
<1>1. PICK n \in {0} \cup lengths : serialIn' = serialIn \o Answer(Head(asked), n)
  BY DEF MeterAnswers
<1>2. n \in Nat
  BY TtyAssumption
<1>3. asked' \in Seq(Client) /\ Head(asked) \in Client
  BY DEF MeterAnswers
<1>4. Answer(Head(asked), n) \in Seq(Client)
  <2>1. PICK c \in Client : c = Head(asked)
    BY <1>3
  <2>2. Answer(c, n) \in Seq({c}) /\ {c} \subseteq Client
    BY <1>2, AnswerOf
  <2>3. Answer(c, n) \in Seq(Client)
    BY <2>2, SeqMonotonic
  <2> QED BY <2>1, <2>3
<1>5. serialIn \o Answer(Head(asked), n) \in Seq(Client)
  BY <1>4
<1> QED BY <1>1, <1>3, <1>5, Zenon

LEMMA ServerKeeps ==
    ASSUME IInv, RunsOn', Server
    PROVE  IInv'
<1>1. CASE Accept
  <2>1. CASE Empty(idPool) \/ backlog = <<>>
    <3>1. /\ phase' = "walk" /\ it' = 1
          /\ UNCHANGED <<linkIds, idPool, handle, backlog, peer, sent, asked, lengths,
                         serialIn>>
      BY <1>1, <2>1 DEF Accept
    <3>2. Len(linkIds) \in Nat
      BY DEF IInv, TypeOK
    <3>3. TypeOK' /\ CollectsAtLink'
      BY <3>1, <3>2 DEF IInv, TypeOK, CollectsAtLink
    <3> QED BY <3>1, <3>3, OthersKeep
  <2> QED BY <1>1, <2>1, AcceptKeeps
<1>2. CASE EndOfWalk
  <2>1. TypeOK' /\ CollectsAtLink'
    BY <1>2 DEF EndOfWalk, IInv, TypeOK, CollectsAtLink
  <2> QED BY <1>2, <2>1, OthersKeep DEF EndOfWalk
<1>3. CASE Visit
  <2> DEFINE c == CurrentClient
  <2>1. /\ it <= Len(linkIds) /\ c \in Client /\ phase = "walk"
        /\ UNCHANGED <<backlog, lengths, serialIn>>
    BY <1>3, CurrentFacts DEF Visit
  <2>2. /\ sent \in [Client -> BOOLEAN] /\ asked \in Seq(Client) /\ serialIn \in Seq(Client)
        /\ peer \in [Client -> {"off", "up", "gone"}]
    BY DEF IInv, TypeOK
  <2>3. \/ DropLink /\ Closed(c) /\ UNCHANGED <<phase, asked>>
        \/ NextLink /\ UNCHANGED <<phase, peer, sent, asked>>
        \/ /\ sent' = [sent EXCEPT ![c] = FALSE]
           /\ asked' = Append(asked, c) /\ phase' = "collect"
           /\ UNCHANGED <<it, linkIds, idPool, handle, peer>>
        \/ /\ sent' = [sent EXCEPT ![c] = FALSE]
           /\ NextLink /\ UNCHANGED <<phase, asked, peer>>
    BY <1>3 DEF Visit
  <2> HIDE DEF c
  <2>4. Append(asked, c) \in Seq(Client) /\ [sent EXCEPT ![c] = FALSE] \in [Client -> BOOLEAN]
    BY <2>1, <2>2
  <2>5. CASE DropLink /\ Closed(c) /\ UNCHANGED <<phase, asked>>
    BY <2>1, <2>2, <2>5, DropKeeps DEF c
  <2>6. CASE NextLink /\ UNCHANGED <<phase, peer, asked>> /\ sent' \in [Client -> BOOLEAN]
    BY <2>1, <2>2, <2>6, NextLinkKeeps
  <2>7. CASE /\ sent' = [sent EXCEPT ![c] = FALSE]
             /\ asked' = Append(asked, c) /\ phase' = "collect"
             /\ UNCHANGED <<it, linkIds, idPool, handle, peer>>
    <3>1. TypeOK' /\ CollectsAtLink'
      BY <2>1, <2>2, <2>4, <2>7 DEF IInv, TypeOK, CollectsAtLink
    <3> QED BY <2>1, <2>7, <3>1, OthersKeep
  <2> QED BY <2>2, <2>3, <2>4, <2>5, <2>6, <2>7
<1>4. CASE Collect
  <2> DEFINE c == CurrentClient
  <2>1. /\ it <= Len(linkIds) /\ c \in Client /\ UNCHANGED <<backlog, asked, lengths>>
        /\ phase = "collect"
    BY <1>4, CurrentFacts DEF Collect, IInv, CollectsAtLink
  <2>2. /\ sent \in [Client -> BOOLEAN] /\ asked \in Seq(Client) /\ serialIn \in Seq(Client)
        /\ LeftInPort \in Seq(Client)
    BY LeftFacts DEF IInv, TypeOK
  <2>3. \/ phase' = "exit" /\ UNCHANGED <<it, linkIds, idPool, handle, peer, sent, serialIn>>
        \/ /\ NextLink /\ phase' = "walk" /\ UNCHANGED <<peer, sent>>
           /\ (serialIn' = serialIn \/ serialIn' = LeftInPort)
        \/ DropLink /\ Closed(c) /\ phase' = "walk" /\ serialIn' = LeftInPort
    BY <1>4 DEF Collect
  <2> HIDE DEF c
  <2>4. CASE phase' = "exit" /\ UNCHANGED <<it, linkIds, idPool, handle, peer, sent, serialIn>>
    <3>1. TypeOK' /\ CollectsAtLink'
      BY <2>1, <2>2, <2>4 DEF IInv, TypeOK, CollectsAtLink
    <3> QED BY <2>1, <2>4, <3>1, OthersKeep
  <2>5. CASE /\ NextLink /\ phase' = "walk" /\ UNCHANGED <<peer, sent>>
             /\ (serialIn' = serialIn \/ serialIn' = LeftInPort)
    BY <2>1, <2>2, <2>5, NextLinkKeeps
  <2>6. CASE DropLink /\ Closed(c) /\ phase' = "walk" /\ serialIn' = LeftInPort
    BY <2>1, <2>2, <2>6, DropKeeps DEF c
  <2> QED BY <2>3, <2>4, <2>5, <2>6
<1> QED BY <1>1, <1>2, <1>3, <1>4 DEF Server

\* A client that is nowhere dials.
LEMMA ConnectKeeps ==
    ASSUME IInv, NEW c \in Client, Connect(c)
    PROVE  IInv'
<1>1. /\ peer[c] = "off" /\ peer' = [peer EXCEPT ![c] = "up"] /\ backlog' = Append(backlog, c)
      /\ UNCHANGED <<phase, it, linkIds, idPool, handle, sent, asked, lengths, serialIn>>
  BY DEF Connect, serverVars
<1>2. TypeOK /\ HandleWhileInUse /\ ClientsApart
  BY DEF IInv
<1>3. backlog \in Seq(Client) /\ peer \in [Client -> {"off", "up", "gone"}]
  BY <1>2 DEF TypeOK
<1> DEFINE n == Len(backlog)
<1>4. /\ backlog' \in Seq(Client) /\ Len(backlog') = n + 1 /\ n \in Nat /\ backlog'[n + 1] = c
      /\ \A k \in 1 .. n : backlog'[k] = backlog[k]
  BY <1>1, <1>3
<1>5. \A k \in 1 .. (n + 1) : k \in 1 .. n \/ k = n + 1
  BY <1>4
<1>6. TypeOK'
  BY <1>1, <1>2, <1>4 DEF TypeOK
<1>7. Counters' /\ FreeOrUsed' /\ HandleWhileInUse' /\ CollectsAtLink'
  <2>1. Counters' /\ CollectsAtLink'
    BY <1>1 DEF IInv, Counters, CollectsAtLink
  <2>2. FreeOrUsed' /\ HandleWhileInUse'
    BY <1>1 DEF IInv, FreeOrUsed, HandleWhileInUse, InUse, InPool
  <2> QED BY <2>1, <2>2
<1>8. ~Waits(c) /\ \A id \in LinkId : handle[id] # c
  <2>1. \A id \in LinkId : handle[id] = c => peer[handle[id]] # "off"
    BY <1>2, TtyAssumption DEF ClientsApart
  <2> QED BY <1>1, <1>2, <2>1 DEF ClientsApart
<1> HIDE DEF n
<1>9. ClientsApart'
  <2>1. \A k \in 1 .. n : backlog[k] # c
    BY <1>8 DEF Waits, n
  <2>2. \A j, k \in 1 .. Len(backlog') : backlog'[j] = backlog'[k] => j = k
    <3>1. \A j, k \in 1 .. n : backlog[j] = backlog[k] => j = k
      BY <1>2 DEF ClientsApart, n
    <3> QED BY <1>4, <1>5, <2>1, <3>1
  <2>3. \A d \in Client : (\E k \in 1 .. Len(backlog') : backlog'[k] = d) => Waits(d) \/ d = c
    BY <1>4, <1>5 DEF Waits, n
  <2>4. \A d \in Client : peer'[d] = "off" => peer[d] = "off" /\ d # c
    BY <1>1, <1>3
  <2>5. \A d \in Client : Waits(d) \/ d = c =>
            peer'[d] # "off" /\ \A id \in LinkId : handle'[id] # d
    BY <1>1, <1>2, <1>8, <2>4 DEF ClientsApart
  <2>6. \A id \in LinkId : handle'[id] # NoClient => peer'[handle'[id]] # "off"
    BY <1>1, <1>2, <2>4 DEF ClientsApart, TypeOK
  <2> QED BY <2>2, <2>3, <2>5, <2>6 DEF ClientsApart, Waits
<1> QED BY <1>6, <1>7, <1>9 DEF IInv

LEMMA InvariantNext ==
    ASSUME IInv, RunsOn', [Next]_vars
    PROVE  IInv'
<1>1. CASE Server
  BY <1>1, ServerKeeps
<1>2. ASSUME NEW c \in Client, Connect(c) PROVE IInv'
  BY <1>2, ConnectKeeps
<1>3. ASSUME NEW c \in Client, Send(c) \/ HangUp(c) PROVE IInv'
  <2>1. /\ UNCHANGED <<phase, it, linkIds, idPool, handle, backlog, asked, lengths, serialIn>>
        /\ peer' \in [Client -> {"off", "up", "gone"}] /\ sent' \in [Client -> BOOLEAN]
        /\ \A d \in Client : peer'[d] = "off" => peer[d] = "off"
    BY <1>3 DEF Send, HangUp, serverVars, IInv, TypeOK
  <2>2. TypeOK' /\ CollectsAtLink'
    BY <2>1 DEF IInv, TypeOK, CollectsAtLink
  <2> QED BY <2>1, <2>2, OthersKeep
<1>4. CASE MeterAnswers
  <2>1. asked \in Seq(Client) /\ serialIn \in Seq(Client) /\ lengths \in Bus
    BY DEF IInv, TypeOK
  <2>2. UNCHANGED <<phase, it, linkIds, idPool, handle, backlog, peer, sent, lengths>>
    BY <1>4 DEF MeterAnswers, serverVars
  <2>3. TypeOK' /\ CollectsAtLink'
    BY <1>4, <2>1, <2>2, AnswerFacts DEF IInv, TypeOK, CollectsAtLink
  <2> QED BY <2>2, <2>3, OthersKeep
<1>5. CASE UNCHANGED vars
  <2>1. TypeOK' /\ CollectsAtLink' /\ UNCHANGED <<linkIds, idPool, handle, backlog, peer>>
    BY <1>5 DEF vars, IInv, TypeOK, CollectsAtLink
  <2> QED BY <2>1, OthersKeep
<1> QED BY <1>1, <1>2, <1>3, <1>4, <1>5 DEF Next

\* As long as the counter of the pool runs on, the parts of the invariant hold together.
THEOREM Invariance == Safety /\ []RunsOn => []IInv
<1>1. Init /\ RunsOn => IInv
  BY InvariantInit
<1>2. IInv /\ RunsOn' /\ [Next]_vars => IInv'
  BY InvariantNext
<1> QED BY <1>1, <1>2, PTL DEF Safety

\* Every variable keeps its type; the iterator never leaves the list, though links are
\* erased under it.
THEOREM TypeCorrect == Safety /\ []RunsOn => []TypeOK
<1>1. IInv => TypeOK
  BY DEF IInv
<1> QED BY <1>1, Invariance, PTL

\* Every link is free or in use, once: whatever clients come and go in whatever order,
\* none is lost and none is given out twice, until the counter of the pool runs over in
\* a ring whose size does not divide its width.
THEOREM LinksOnce == Safety /\ []RunsOn => []EachLinkOnce
<1>1. IInv => EachLinkOnce
  <2> SUFFICES ASSUME IInv, NEW id \in LinkId
               PROVE  Cardinality({k \in 1 .. Len(linkIds) : linkIds[k] = id})
                      + Cardinality({k \in DOMAIN Pending(idPool) : Pending(idPool)[k] = id}) = 1
    BY DEF EachLinkOnce
  <2> DEFINE used == {k \in 1 .. Len(linkIds) : linkIds[k] = id}
             free == {k \in 1 .. idPool.sz : At(idPool, k) = id}
  <2>1. {k \in DOMAIN Pending(idPool) : Pending(idPool)[k] = id} = free
    BY DEF Pending, At, Slot, Round
  <2>2. InUse(id) <=> used # {}
    BY DEF InUse
  <2>3. InPool(id) <=> free # {}
    BY DEF InPool
  <2>4. \A j, k \in used : j = k
    BY DEF IInv, FreeOrUsed
  <2>5. \A j, k \in free : j = k
    BY DEF IInv, FreeOrUsed
  <2>6. (used # {}) <=> (free = {})
    BY <2>2, <2>3 DEF IInv, FreeOrUsed
  <2> HIDE DEF used, free
  <2>7. Cardinality(used) + Cardinality(free) = 1
    <3>1. Cardinality({}) = 0 /\ \A k : Cardinality({k}) = 1
      BY FS_EmptySet, FS_Singleton
    <3>2. CASE used = {}
      <4>1. PICK k : free = {k}
        BY <2>5, <2>6, <3>2
      <4>2. Cardinality(used) = 0 /\ Cardinality(free) = 1
        BY <3>1, <3>2, <4>1, Zenon
      <4> QED BY <4>2
    <3>3. CASE used # {}
      <4>1. PICK k : used = {k}
        BY <2>4, <3>3
      <4>2. free = {}
        BY <2>6, <3>3
      <4>3. Cardinality(used) = 1 /\ Cardinality(free) = 0
        BY <3>1, <4>1, <4>2, Zenon
      <4> QED BY <4>3
    <3> QED BY <3>2, <3>3
  <2> QED BY <2>1, <2>7, Zenon DEF used
<1> QED BY <1>1, Invariance, PTL

\* A link holds a connection exactly while it is in use, and no two links hold the same:
\* setHandl never overwrites a descriptor that is still open.
THEOREM HandlesInUse == Safety /\ []RunsOn => []HandleWhileInUse
<1>1. IInv => HandleWhileInUse
  BY DEF IInv
<1> QED BY <1>1, Invariance, PTL

-----------------------------------------------------------------------------
\* The serial bus.

LEMMA ExchangeNext ==
    ASSUME Punctual, lengths \in Bus, AnswersFit, OneExchange, [Next]_vars
    PROVE  OneExchange'
<1> USE DEF serverVars
<1>1. ASSUME UNCHANGED <<phase, it, linkIds, handle>>
      PROVE  CurrentClient' = CurrentClient
  BY <1>1 DEF CurrentClient, Current
<1>2. CASE Accept \/ EndOfWalk
  BY <1>2 DEF Accept, EndOfWalk, OneExchange
<1>3. CASE Visit
  <2>1. asked = <<>> /\ serialIn = <<>> /\ serialIn' = <<>> /\ phase = "walk"
    BY <1>3 DEF Visit, OneExchange
  <2>2. CASE phase' = phase /\ asked' = asked
    BY <2>1, <2>2 DEF OneExchange
  <2>3. CASE /\ asked' = Append(asked, CurrentClient) /\ phase' = "collect"
             /\ UNCHANGED <<it, linkIds, handle>>
    <3>1. asked' = <<CurrentClient>> /\ CurrentClient' = CurrentClient
      BY <2>1, <2>3 DEF CurrentClient, Current
    <3> QED BY <2>1, <2>3, <3>1 DEF OneExchange
  <2> QED BY <1>3, <2>2, <2>3 DEF Visit
<1>4. CASE Collect
  <2>1. asked = <<>> /\ asked' = <<>> /\ phase = "collect"
    BY <1>4 DEF Collect
  <2>2. PICK n \in 0 .. (BufSize + 1) : serialIn = Answer(CurrentClient, n)
    BY <2>1 DEF OneExchange
  <2>3. n \in Nat /\ n <= BufSize + 1
    BY TtyAssumption
  <2>4. LeftInPort = <<>>
    BY <2>2, <2>3, AnswerOf DEF LeftInPort
  <2>5. phase' = "exit" \/ (phase' = "walk" /\ serialIn' = <<>>)
    BY <1>4, <2>4 DEF Collect
  <2> QED BY <2>1, <2>5 DEF OneExchange
<1>5. ASSUME NEW c \in Client, Connect(c) \/ Send(c) \/ HangUp(c)
      PROVE  OneExchange'
  <2>1. UNCHANGED <<phase, it, linkIds, handle, asked, serialIn>>
    BY <1>5 DEF Connect, Send, HangUp
  <2> QED BY <1>1, <2>1 DEF OneExchange
<1>6. CASE MeterAnswers
  <2>1. UNCHANGED <<phase, it, linkIds, handle>> /\ asked # <<>> /\ asked' = Tail(asked)
    BY <1>6 DEF MeterAnswers
  <2>2. CurrentClient' = CurrentClient
    BY <1>1, <2>1
  <2>3. CASE phase = "collect"
    <3>1. asked = <<CurrentClient>> /\ serialIn = <<>>
      BY <2>1, <2>3 DEF OneExchange
    <3>2. PICK n \in {0} \cup lengths : serialIn' = <<>> \o Answer(CurrentClient, n)
      BY <1>6, <3>1 DEF MeterAnswers
    <3>3. n \in 0 .. (BufSize + 1) /\ n \in Nat
      BY TtyAssumption DEF AnswersFit
    <3>4. asked' = <<>> /\ serialIn' = Answer(CurrentClient, n)
      BY <2>1, <3>1, <3>2, <3>3, AnswerOf
    <3> QED BY <2>1, <2>2, <2>3, <3>3, <3>4 DEF OneExchange
  <2>4. CASE phase # "collect"
    BY <2>1, <2>4 DEF OneExchange
  <2> QED BY <2>3, <2>4
<1>7. CASE UNCHANGED vars
  <2>1. UNCHANGED <<phase, it, linkIds, handle, asked, serialIn>>
    BY <1>7 DEF vars
  <2> QED BY <1>1, <2>1 DEF OneExchange
<1> QED BY <1>2, <1>3, <1>4, <1>5, <1>6, <1>7 DEF Next, Server

\* If the meters answer before the port is given up and no answer is longer than what
\* one call of serial->read takes out of the port, what goes back to a client is of the
\* answer to what it has just sent, whatever the other clients and the pool do.
THEOREM OwnAnswers == ASSUME Punctual PROVE Safety => []OwnAnswerOnly
<1> DEFINE EInv == lengths \in Bus /\ (AnswersFit => OneExchange)
<1>1. Init => EInv
  BY DEF Init, OneExchange
<1>2. EInv /\ [Next]_vars => EInv'
  <2> SUFFICES ASSUME EInv, [Next]_vars PROVE EInv'
    OBVIOUS
  <2>1. lengths' = lengths
    BY DEF Next, Server, Accept, EndOfWalk, Visit, Collect, Connect, Send, HangUp,
           MeterAnswers, vars
  <2>2. AnswersFit' <=> AnswersFit
    BY <2>1 DEF AnswersFit
  <2> QED BY <2>1, <2>2, ExchangeNext
<1>3. EInv => OwnAnswerOnly
  <2> SUFFICES ASSUME EInv, AnswersFit PROVE OwnAnswerOnly
    BY DEF OwnAnswerOnly
  <2>1. CASE phase = "collect"
    <3>1. serialIn = <<>> \/ \E n \in Nat : serialIn = Answer(CurrentClient, n)
      BY <2>1, TtyAssumption DEF OneExchange
    <3>2. \A c : \A n \in Nat : \A k \in DOMAIN Answer(c, n) : Answer(c, n)[k] = c
      BY AnswerOf
    <3>3. \A k \in DOMAIN serialIn : serialIn[k] = CurrentClient
      BY <3>1, <3>2
    <3> QED BY <2>1, <3>3 DEF OwnAnswerOnly
  <2>2. CASE phase # "collect"
    BY <2>2 DEF OneExchange, OwnAnswerOnly
  <2> QED BY <2>1, <2>2
<1> QED BY <1>1, <1>2, <1>3, PTL DEF Safety

===============================================================================
