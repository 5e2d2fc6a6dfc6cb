----------------------------- MODULE PoolDeque ------------------------------
(***************************************************************************)
(* The deque of free indices of a pool: a sequence without repetition that *)
(* holds a set of indices.  TCPNetWork keeps the free sessions in one and  *)
(* UserManager the free users: front and pop_front allocate an index,      *)
(* push_back releases one.                                                 *)
(***************************************************************************)
EXTENDS Sequences, SequenceTheorems, TLAPS

\* deque holds the members of S, each of them once.
Holds(deque, S, U) ==
    /\ \A a, b \in 1 .. Len(deque) : deque[a] = deque[b] => a = b
    /\ \A i \in U : i \in S <=> \E a \in 1 .. Len(deque) : deque[a] = i

\* front and pop_front take one member out of the set.
LEMMA TailHolds ==
    ASSUME NEW U, NEW deque \in Seq(U), NEW S, Holds(deque, S, U), deque # << >>
    PROVE  /\ Head(deque) \in U \cap S
           /\ Tail(deque) \in Seq(U)
           /\ Holds(Tail(deque), S \ {Head(deque)}, U)
<1>1. /\ Head(deque) = deque[1] /\ Head(deque) \in U
      /\ Len(deque) \in Nat \ {0}
      /\ Tail(deque) \in Seq(U) /\ Len(Tail(deque)) = Len(deque) - 1
      /\ \A a \in 1 .. Len(Tail(deque)) : Tail(deque)[a] = deque[a + 1]
  BY HeadTailProperties, EmptySeq
<1>2. Head(deque) \in S
  BY <1>1 DEF Holds
<1>3. \A a, b \in 1 .. Len(Tail(deque)) : Tail(deque)[a] = Tail(deque)[b] => a = b
  BY <1>1 DEF Holds
<1>4. ASSUME NEW i \in U
      PROVE  i \in S \ {Head(deque)} <=> \E a \in 1 .. Len(Tail(deque)) : Tail(deque)[a] = i
  <2>1. ASSUME i \in S, i # Head(deque)
        PROVE  \E a \in 1 .. Len(Tail(deque)) : Tail(deque)[a] = i
    <3>1. PICK a \in 1 .. Len(deque) : deque[a] = i
      BY <2>1 DEF Holds
    <3>2. a - 1 \in 1 .. Len(Tail(deque)) /\ Tail(deque)[a - 1] = i
      BY <1>1, <2>1, <3>1
    <3> QED BY <3>2
  <2>2. ASSUME NEW a \in 1 .. Len(Tail(deque)), Tail(deque)[a] = i
        PROVE  i \in S /\ i # Head(deque)
    <3>1. a + 1 \in 1 .. Len(deque) /\ deque[a + 1] = i /\ 1 \in 1 .. Len(deque)
      BY <1>1, <2>2
    <3>2. i \in S
      BY <3>1 DEF Holds
    <3>3. i # deque[1]
      BY <3>1 DEF Holds
    <3> QED BY <1>1, <3>2, <3>3
  <2> QED BY <2>1, <2>2
<1> QED BY <1>1, <1>2, <1>3, <1>4 DEF Holds

\* push_back of an index that is not there puts it into the set.
LEMMA AppendHolds ==
    ASSUME NEW U, NEW deque \in Seq(U), NEW S, Holds(deque, S, U), NEW i \in U, i \notin S
    PROVE  /\ Append(deque, i) \in Seq(U)
           /\ Holds(Append(deque, i), S \cup {i}, U)
<1> DEFINE longer == Append(deque, i)
<1>1. /\ longer \in Seq(U) /\ Len(longer) = Len(deque) + 1 /\ Len(deque) \in Nat
      /\ \A a \in 1 .. Len(deque) : longer[a] = deque[a]
      /\ longer[Len(deque) + 1] = i
  BY AppendProperties, LenProperties
<1> HIDE DEF longer
<1>2. \A a \in 1 .. Len(deque) : deque[a] # i
  BY DEF Holds
<1>3. \A a \in 1 .. Len(longer) : a \in 1 .. Len(deque) \/ a = Len(deque) + 1
  BY <1>1
<1>4. \A a, b \in 1 .. Len(longer) : longer[a] = longer[b] => a = b
  BY <1>1, <1>2, <1>3 DEF Holds
<1>5. ASSUME NEW j \in U
      PROVE  j \in S \cup {i} <=> \E a \in 1 .. Len(longer) : longer[a] = j
  <2>1. CASE j = i
    BY <1>1, <2>1
  <2>2. CASE j # i
    <3>1. (\E a \in 1 .. Len(longer) : longer[a] = j) <=> \E a \in 1 .. Len(deque) : deque[a] = j
      BY <1>1, <1>3, <2>2
    <3> QED BY <2>2, <3>1 DEF Holds
  <2> QED BY <2>1, <2>2
<1> QED BY <1>1, <1>4, <1>5 DEF Holds, longer
=============================================================================
