------------------------------- MODULE LinkPool -------------------------------
(***************************************************************************)
(* The pool of link objects of ttyg: Queue.hpp, a ring whose two counters   *)
(* are unsigned and run over, and LinkPool.cpp, which keeps in it the       *)
(* numbers of the free links.  Operators on the value of a queue.           *)
(***************************************************************************)
EXTENDS Naturals

CONSTANTS Size,   \* maxNumLinks, 3 in the program
          Word    \* the counters run modulo Word, 2^32 in the program

ASSUME PoolAssumption == /\ Size \in Nat \ {0}
                         /\ Word \in Nat
                         /\ Word > Size

LinkId == 0 .. (Size - 1)

Queue == [begin : 0 .. (Word - 1), end : 0 .. (Word - 1), sz : 0 .. Size,
          buf : [LinkId -> LinkId]]

Empty(q) == q.sz = 0
Full(q) == q.sz = Size

\* Operators named Bad... are faulty variants of the definition that follows
\* them; PROJECT.json (mutants) says which property notices each.

\* The slot is taken after the counter has moved.
BadPush(q, id) ==
    [q EXCEPT !.buf = [@ EXCEPT ![((q.end + 1) % Word) % Size] = id],
              !.end = (@ + 1) % Word,
              !.sz = @ + 1]

Push(q, id) ==
    [q EXCEPT !.buf = [@ EXCEPT ![q.end % Size] = id],
              !.end = (@ + 1) % Word,
              !.sz = @ + 1]

Front(q) == q.buf[q.begin % Size]

Pop(q) == [q EXCEPT !.begin = (@ + 1) % Word, !.sz = @ - 1]

\* LinkPool::LinkPool pushes every number.
FullPool == [begin |-> 0, end |-> Size % Word, sz |-> Size, buf |-> [id \in LinkId |-> id]]

\* LinkPool::free
Free(q, id) == IF Full(q) THEN q ELSE Push(q, id)

\* The numbers the queue will give out, in order.
Pending(q) == [k \in 1 .. q.sz |-> q.buf[((q.begin + k - 1) % Word) % Size]]
===============================================================================
