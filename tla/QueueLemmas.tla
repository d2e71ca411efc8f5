----------------------------- MODULE QueueLemmas -----------------------------
(***************************************************************************)
(* Facts about sequences used as FIFO queues without duplicates, cited by  *)
(* the proofs about the kernels' run queues and wait lists.                *)
(***************************************************************************)
EXTENDS Integers, Sequences, Functions, TLAPS

\* Pushing at the back adds exactly the pushed element (list_push_back()).
LEMMA AppendElems ==
  ASSUME NEW S, NEW q \in Seq(S), NEW x \in S
  PROVE  /\ Append(q, x) \in Seq(S)
         /\ Append(q, x) # << >>
         /\ Range(Append(q, x)) = Range(q) \cup {x}
<1>1. Append(q, x) \in Seq(S) /\ Append(q, x) # << >>
  <2>1. Append(q, x) \in Seq(S) /\ Len(Append(q, x)) = Len(q) + 1 /\ Len(q) \in Nat
    OBVIOUS
  <2>2. Len(<< >>) = 0
    OBVIOUS
  <2> QED BY <2>1, <2>2
<1>2. Range(Append(q, x)) \subseteq Range(q) \cup {x}
  BY DEF Range
<1>3. x \in Range(Append(q, x))
  <2>1. Len(q) + 1 \in DOMAIN Append(q, x) /\ Append(q, x)[Len(q) + 1] = x
    OBVIOUS
  <2> QED BY <2>1 DEF Range
<1>4. ASSUME NEW i \in DOMAIN q PROVE q[i] \in Range(Append(q, x))
  <2>1. i \in DOMAIN Append(q, x) /\ Append(q, x)[i] = q[i]
    OBVIOUS
  <2> QED BY <2>1 DEF Range
<1>5. Range(q) \subseteq Range(Append(q, x))
  BY <1>4 DEF Range
<1> QED BY <1>1, <1>2, <1>3, <1>5

\* Popping at the front (list_pop_front()) keeps all but the head.
LEMMA TailElems ==
  ASSUME NEW S, NEW q \in Seq(S), q # << >>
  PROVE  /\ Head(q) \in S
         /\ Head(q) \in Range(q)
         /\ Tail(q) \in Seq(S)
         /\ Range(q) = Range(Tail(q)) \cup {Head(q)}
<1>1. Head(q) \in S /\ Tail(q) \in Seq(S) /\ 1 \in DOMAIN q /\ Head(q) = q[1]
  OBVIOUS
<1>2. Head(q) \in Range(q)
  BY <1>1 DEF Range
<1>3. ASSUME NEW i \in DOMAIN Tail(q) PROVE Tail(q)[i] \in Range(q)
  <2>1. i + 1 \in DOMAIN q /\ Tail(q)[i] = q[i + 1]
    OBVIOUS
  <2> QED BY <2>1 DEF Range
<1>4. ASSUME NEW i \in DOMAIN q, i # 1 PROVE q[i] \in Range(Tail(q))
  <2>1. i - 1 \in DOMAIN Tail(q) /\ Tail(q)[i - 1] = q[i]
    BY <1>4
  <2> QED BY <2>1 DEF Range
<1>5. Range(Tail(q)) \subseteq Range(q)
  BY <1>3 DEF Range
<1>6. Range(q) \subseteq Range(Tail(q)) \cup {Head(q)}
  BY <1>1, <1>4 DEF Range
<1> QED BY <1>1, <1>2, <1>5, <1>6

\* Pushing an element that is not on the queue keeps the queue free of
\* duplicates.
LEMMA PushInjective ==
  ASSUME NEW S, NEW q \in Seq(S), NEW x \in S, IsInjective(q), x \notin Range(q)
  PROVE  IsInjective(Append(q, x))
<1>1. DOMAIN Append(q, x) = 1 .. Len(q) + 1 /\ DOMAIN q = 1 .. Len(q) /\ Len(q) \in Nat
  OBVIOUS
<1>2. \A k \in 1 .. Len(q) : Append(q, x)[k] = q[k] /\ q[k] # x
  BY <1>1 DEF Range
<1>3. Append(q, x)[Len(q) + 1] = x
  OBVIOUS
<1>4. ASSUME NEW i \in 1 .. Len(q) + 1, NEW j \in 1 .. Len(q) + 1,
             Append(q, x)[i] = Append(q, x)[j]
      PROVE  i = j
  BY <1>1, <1>2, <1>3, <1>4 DEF IsInjective
<1> QED BY <1>1, <1>4 DEF IsInjective

\* Popping keeps the queue free of duplicates, and the popped element is gone.
LEMMA PopInjective ==
  ASSUME NEW S, NEW q \in Seq(S), q # << >>, IsInjective(q)
  PROVE  IsInjective(Tail(q)) /\ Head(q) \notin Range(Tail(q))
BY DEF Range, IsInjective

\* The empty queue.
LEMMA EmptyQueue ==
  ASSUME NEW S
  PROVE  /\ << >> \in Seq(S)
         /\ Range(<< >>) = {}
         /\ IsInjective(<< >>)
         /\ \A q \in Seq(S) : Range(q) = {} <=> q = << >>
<1>1. << >> \in Seq(S) /\ DOMAIN << >> = {}
  OBVIOUS
<1>2. Range(<< >>) = {}
  BY <1>1 DEF Range
<1>3. IsInjective(<< >>)
  BY <1>1 DEF IsInjective
<1>4. ASSUME NEW q \in Seq(S), q # << >> PROVE Range(q) # {}
  BY <1>4, TailElems
<1> QED BY <1>1, <1>2, <1>3, <1>4
=============================================================================
