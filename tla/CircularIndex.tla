---------------------------- MODULE CircularIndex ----------------------------
(***************************************************************************)
(* Arithmetic of an index that runs around a vector of n slots, as the     *)
(* readIndex and writeIndex of both capture buffers do.                    *)
(***************************************************************************)
EXTENDS Integers

\* An index short of the end is itself, one past it starts over.
LEMMA ModSmall ==
    ASSUME NEW n \in Nat \ {0}, NEW a \in 0 .. n - 1
    PROVE  a % n = a
OBVIOUS

LEMMA ModWrap ==
    ASSUME NEW n \in Nat \ {0}, NEW a \in n .. 2 * n - 1
    PROVE  a % n = a - n
OBVIOUS

\* The step (index + 1) % size() of both buffers.
LEMMA AdvanceStep ==
    ASSUME NEW n \in Nat \ {0}, NEW a \in 0 .. n - 1
    PROVE  (a + 1) % n = IF a + 1 = n THEN 0 ELSE a + 1
OBVIOUS

\* The slot k places after index a.
LEMMA Offset ==
    ASSUME NEW n \in Nat \ {0}, NEW a \in 0 .. n - 1, NEW k \in 0 .. n
    PROVE  /\ (a + k) % n = IF a + k < n THEN a + k ELSE a + k - n
           /\ (a + k) % n \in 0 .. n - 1
<1>1. CASE a + k < n
  BY <1>1, ModSmall, a + k \in 0 .. n - 1
<1>2. CASE ~(a + k < n)
  BY <1>2, ModWrap, a + k \in n .. 2 * n - 1
<1> QED BY <1>1, <1>2
=============================================================================
