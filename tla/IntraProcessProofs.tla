------------------------ MODULE IntraProcessProofs -------------------------
(***************************************************************************)
(* For any number of publishers, subscriptions and messages, and any       *)
(* depths: the safety properties of IntraProcess, and that it implements   *)
(* KeepLastTopic.                                                          *)
(***************************************************************************)
EXTENDS IntraProcess, SequenceTheorems, FiniteSetTheorems, WellFoundedInduction, TLAPS

-----------------------------------------------------------------------------
(* Induction over the naturals, on a set instead of a predicate *)

\* A set of naturals that is not empty has a least element.
LEMMA LeastElement ==
    ASSUME NEW T, T \subseteq Nat, T # {}
    PROVE  \E x \in T : \A y \in T : x <= y
<1> DEFINE R == {p \in Nat \X Nat : p[1] < p[2]}
<1>1. OpToRel(<, Nat) = R
  BY Zenon DEF OpToRel
<1>2. IsWellFoundedOn(R, Nat)
  BY <1>1, NatLessThanWellFounded, Zenon
<1>3. \A x, y \in Nat : <<y, x>> \in R <=> y < x
  OBVIOUS
<1> HIDE DEF R
<1>4. PICK x \in T : \A y \in T : ~ (<<y, x>> \in R)
  BY <1>2, WFMin
<1>5. ASSUME NEW y \in T PROVE x <= y
  <2>1. x \in Nat /\ y \in Nat /\ ~(<<y, x>> \in R)
    BY <1>4
  <2> QED
    BY <1>3, <2>1
<1> QED
  BY <1>4, <1>5

\* A set with 0 that is closed under successor holds every natural.
LEMMA SetInduction ==
    ASSUME NEW S, 0 \in S, \A n \in Nat : n \in S => n + 1 \in S
    PROVE  \A n \in Nat : n \in S
<1> SUFFICES ASSUME Nat \ S # {} PROVE FALSE
  OBVIOUS
<1>1. PICK x \in Nat \ S : \A y \in Nat \ S : x <= y
  BY LeastElement
<1>2. x # 0 /\ x - 1 \in Nat /\ x - 1 \in S
  BY <1>1
<1> QED
  BY <1>2

-----------------------------------------------------------------------------
(* The inductive invariant *)

\* The slot j places after the read index.
Idx(c, r, j) == IF r + j < c THEN r + j ELSE r + j - c

\* A ring buffer of capacity c: the write index is n - 1 places after the read
\* index, the n slots from the read index on are filled, the others are empty.
RingOK(b, c) ==
    /\ b \in [capacity : {c}, slot : [0..(c - 1) -> Objects \union {None}],
              w : 0..(c - 1), r : 0..(c - 1), n : 0..c]
    /\ Idx(c, b.w, 1) = Idx(c, b.r, b.n)
    /\ \A j \in 0..(c - 1) :
           b.slot[Idx(c, b.r, j)] \in IF j < b.n THEN Objects ELSE {None}

\* Every buffer has its depth, and nothing is in it before its subscription joins.
RingsOK ==
    /\ DOMAIN ring = Buffered
    /\ \A x \in Buffered : RingOK(ring[x], Depth[x])
    /\ \A s \in Subs : status[s] = "new" => ring[s].n = 0

\* No element of q is repeated.
Distinct(q) == \A i, j \in 1..Len(q) : q[i] = q[j] => i = j

\* The elements of q.
Elems(q) == {q[i] : i \in 1..Len(q)}

\* The manager's lists hold exactly the matching subscriptions, each once.
ListsOK ==
    /\ status \in [Pubs \union Subs -> {"new", "live", "gone"}]
    /\ targets \in [Pubs -> [shared : Seq(Subs \ Owning), owned : Seq(Owning)]]
    /\ \A p \in Pubs : Distinct(targets[p].shared) /\ Distinct(targets[p].owned)
    /\ \A p \in LivePubs :
           Elems(targets[p].shared) \union Elems(targets[p].owned) =
               {s \in LiveSubs : can_communicate(p, s)}

\* The publishing threads.
PubsOK ==
    /\ sent \in [Pubs -> Nat] /\ \A p \in Pubs : sent[p] <= MaxMsgs[p]
    /\ pub \in [Pubs -> [pc : {"idle", "deliver", "signal", "store"},
                         todo : Seq(Subs \X Objects), msg : Objects \union {None}]]
    /\ \A p \in Pubs :
           /\ Delivering(p) <=> pub[p].todo # <<>>
           /\ \A i \in 1..Len(pub[p].todo) :
                  /\ pub[p].todo[i][2][1] = <<p, sent[p]>>
                  /\ status[pub[p].todo[i][1]] = "live"
           /\ \A i, j \in 1..Len(pub[p].todo) : pub[p].todo[i][1] = pub[p].todo[j][1] => i = j
           /\ pub[p].pc # "idle" => sent[p] # 0
           /\ IF p \in Transient /\ pub[p].pc # "idle"
              THEN pub[p].msg \in {<<p, sent[p]>>} \X {"orig", "copy"}
              ELSE pub[p].msg = None
           /\ pub[p].pc = "store" => p \in Transient

\* What a transient-local publisher keeps: its own messages, the last one as
\* soon as it is idle.
KeptOK ==
    \A p \in Pubs \cap Transient :
        /\ \A i \in 1..ring[p].n : \E k \in 1..sent[p] :
               /\ Content(ring[p])[i][1] = <<p, k>>
               /\ Content(ring[p])[i][2] \in {"orig", "copy"}
               /\ pub[p].pc # "idle" => k # sent[p]
        /\ pub[p].pc = "idle" /\ sent[p] # 0 =>
               ring[p].n # 0 /\ Content(ring[p])[ring[p].n][1] = <<p, sent[p]>>

\* The consumers' side: wait sets, takes, events and counters.
ConsumersOK ==
    /\ gc \in [Subs -> BOOLEAN]
    /\ cons \in [Subs -> {"collect", "wait", "ready", "taken"}]
    /\ held \in [Subs -> Objects \union {None}]
    /\ attached \in [Subs -> BOOLEAN]
    /\ unread \in [Subs -> Nat] /\ events \in [Subs -> Nat] /\ dropped \in [Subs -> Nat]

\* A message in somebody's hands has been published.
Published(x) == x[1][1] \in Pubs /\ x[1][2] \in 1..sent[x[1][1]]

\* Copies made for a subscription stay with it, and an owner never gets the
\* copy that is shared.
TagsOK ==
    /\ \A s \in Subs : \A x \in Reach(s) :
           Published(x) /\ x[2] \in {s, "orig"} \union (IF s \in Owning THEN {} ELSE {"copy"})
    /\ \A p \in Pubs : \A x \in KeptBy(p) : Published(x) /\ x[2] \in {"orig", "copy"}

-----------------------------------------------------------------------------
(* Sequences *)

\* An interval from 1 determines its end.
LEMMA SameInterval ==
    ASSUME NEW m \in Nat, NEW n \in Nat, 1..m = 1..n
    PROVE  m = n
<1>1. ~(m < n)
  <2> SUFFICES ASSUME m < n PROVE FALSE
    OBVIOUS
  <2>1. n \in 1..n /\ ~(n \in 1..m)
    OBVIOUS
  <2> QED
    BY <2>1
<1>2. ~(n < m)
  <2> SUFFICES ASSUME n < m PROVE FALSE
    OBVIOUS
  <2>1. m \in 1..m /\ ~(m \in 1..n)
    OBVIOUS
  <2> QED
    BY <2>1
<1> QED
  BY <1>1, <1>2

\* A function on 1..n is a sequence of length n.
LEMMA FunctionIsSeq ==
    ASSUME NEW S, NEW n \in Nat, NEW q \in [1..n -> S]
    PROVE  q \in Seq(S) /\ Len(q) = n
<1>1. q \in Seq(S)
  BY SeqDef, Zenon
<1>2. Len(q) \in Nat /\ 1..Len(q) = 1..n
  BY <1>1, LenProperties, Zenon
<1> QED
  BY <1>1, <1>2, SameInterval

-----------------------------------------------------------------------------
(* The ring buffer *)

\* An update elsewhere leaves a value alone.
LEMMA ExceptOther ==
    ASSUME NEW S, NEW T, NEW g \in [S -> T], NEW e, NEW x, NEW i \in S, i # e
    PROVE  [g EXCEPT ![e] = x][i] = g[i]
  OBVIOUS

\* The index arithmetic of the ring buffer, without the modulus.
LEMMA ModIsIdx ==
    ASSUME NEW c \in Nat \ {0}, NEW r \in 0..(c - 1), NEW j \in 0..c
    PROVE  (r + j) % c = Idx(c, r, j) /\ Idx(c, r, j) \in 0..(c - 1)
<1>1. CASE r + j < c
  BY <1>1 DEF Idx
<1>2. CASE ~(r + j < c)
  <2>1. r + j - c \in 0..(c - 1)
    BY <1>2
  <2>2. (r + j) % c = r + j - c
    BY <1>2, <2>1
  <2> QED
    BY <1>2, <2>1, <2>2 DEF Idx
<1> QED
  BY <1>1, <1>2

\* Arithmetic of the indices.
LEMMA IdxFacts ==
    ASSUME NEW c \in Nat \ {0}, NEW r \in 0..(c - 1)
    PROVE  /\ \A j \in 0..c : Idx(c, r, j) \in 0..(c - 1)
           /\ \A j, k \in 0..(c - 1) : j # k => Idx(c, r, j) # Idx(c, r, k)
           /\ Idx(c, r, 0) = r /\ Idx(c, r, c) = r
  BY DEF Idx

\* No other place has the slot of the read index.
LEMMA IdxFresh ==
    ASSUME NEW c \in Nat \ {0}, NEW r \in 0..(c - 1), NEW j \in 0..(c - 1), j # 0
    PROVE  Idx(c, r, j) \in 0..(c - 1) /\ Idx(c, r, j) # r
  BY DEF Idx

\* Going round the ring once ends where it began.
LEMMA IdxZero ==
    ASSUME NEW c \in Nat \ {0}, NEW r \in 0..(c - 1)
    PROVE  Idx(c, r, 0) = r /\ Idx(c, r, c) = r /\ Idx(c, Idx(c, r, 1), c - 1) = r
  BY DEF Idx

\* One place more is the next slot.
LEMMA IdxShift ==
    ASSUME NEW c \in Nat \ {0}, NEW r \in 0..(c - 1), NEW j \in 0..(c - 1)
    PROVE  /\ Idx(c, Idx(c, r, 1), j) = Idx(c, r, j + 1)
           /\ Idx(c, Idx(c, r, j), 1) = Idx(c, r, j + 1)
<1>1. CASE r + 1 < c
  BY <1>1 DEF Idx
<1>2. CASE r + 1 = c
  BY <1>2 DEF Idx
<1> QED
  BY <1>1, <1>2

\* next_ goes one slot further.
LEMMA AdvanceIsIdx ==
    ASSUME NEW c \in Nat \ {0}, NEW b, b.capacity = c, NEW i \in 0..(c - 1)
    PROVE  Advance(b, i) = Idx(c, i, 1) /\ Idx(c, i, 1) \in 0..(c - 1)
  BY ModIsIdx DEF Advance

\* get_all_data returns the occupied slots.
LEMMA ContentFacts ==
    ASSUME NEW c \in Nat \ {0}, NEW b, RingOK(b, c)
    PROVE  /\ Content(b) \in Seq(Objects) /\ Len(Content(b)) = b.n
           /\ \A i \in 1..b.n : Content(b)[i] = b.slot[Idx(c, b.r, i - 1)]
<1>1. b.n \in 0..c /\ b.r \in 0..(c - 1) /\ b.capacity = c
  BY DEF RingOK
<1>2. ASSUME NEW i \in 1..b.n
      PROVE  /\ Content(b)[i] = b.slot[Idx(c, b.r, i - 1)]
             /\ Content(b)[i] \in Objects
  <2>1. i - 1 \in 0..(c - 1) /\ i - 1 < b.n /\ b.r + i - 1 = b.r + (i - 1) /\ i - 1 \in 0..c
    BY <1>1
  <2>2. Content(b)[i] = b.slot[(b.r + (i - 1)) % c]
    BY <1>1, <2>1 DEF Content
  <2>3. Content(b)[i] = b.slot[Idx(c, b.r, i - 1)]
    BY <1>1, <2>1, <2>2, ModIsIdx
  <2>4. b.slot[Idx(c, b.r, i - 1)] \in Objects
    BY <2>1 DEF RingOK
  <2> QED
    BY <2>3, <2>4
<1>3. Content(b) = [i \in 1..b.n |-> Content(b)[i]]
  BY Zenon DEF Content
<1>4. Content(b) \in Seq(Objects) /\ Len(Content(b)) = b.n
  <2> DEFINE q == Content(b)
  <2> HIDE DEF q
  <2>1. q = [i \in 1..b.n |-> q[i]] /\ \A i \in 1..b.n : q[i] \in Objects
    BY <1>2, <1>3 DEF q
  <2>2. q \in [1..b.n -> Objects]
    BY <2>1, Zenon
  <2>20. b.n \in Nat
    BY <1>1
  <2>3. q \in Seq(Objects) /\ Len(q) = b.n
    BY <2>2, <2>20, FunctionIsSeq, Zenon
  <2> QED
    BY <2>3 DEF q
<1> QED
  BY <1>2, <1>4

\* A new ring buffer is sound and empty.
LEMMA EmptyRingOK ==
    ASSUME NEW c \in Nat \ {0}
    PROVE  RingOK(EmptyRing(c), c) /\ EmptyRing(c).n = 0
<1>1. \A j \in 0..(c - 1) : Idx(c, 0, j) = j
  BY DEF Idx
<1>2. Idx(c, c - 1, 1) = 0 /\ Idx(c, 0, 0) = 0
  BY DEF Idx
<1> QED
  BY <1>1, <1>2 DEF RingOK, EmptyRing

Rings(c) ==
    [capacity : {c}, slot : [0..(c - 1) -> Objects \union {None}],
     w : 0..(c - 1), r : 0..(c - 1), n : 0..c]

\* What enqueue does, without the modulus.
LEMMA EnqueueFields ==
    ASSUME NEW c \in Nat \ {0}, NEW b, RingOK(b, c), NEW x \in Objects,
           NEW e, e = Idx(c, b.r, b.n), NEW f, f = Enqueue(b, x)
    PROVE  /\ e \in 0..(c - 1) /\ f.w = e
           /\ f.slot = [b.slot EXCEPT ![e] = x]
           /\ f.r = IF b.n = c THEN Idx(c, b.r, 1) ELSE b.r
           /\ f.n = IF b.n = c THEN c ELSE b.n + 1
           /\ f \in Rings(c)
<1>1. b \in Rings(c) /\ Idx(c, b.w, 1) = e
  BY DEF RingOK, Rings
<1>2. /\ b.capacity = c /\ b.slot \in [0..(c - 1) -> Objects \union {None}]
      /\ b.w \in 0..(c - 1) /\ b.r \in 0..(c - 1) /\ b.n \in 0..c
  BY <1>1 DEF Rings
<1>3. /\ Advance(b, b.w) = e /\ e \in 0..(c - 1)
      /\ Advance(b, b.r) = Idx(c, b.r, 1) /\ Idx(c, b.r, 1) \in 0..(c - 1)
  BY <1>1, <1>2, AdvanceIsIdx, ZenonT(40)
<1>4. IsFull(b) <=> b.n = c
  BY <1>2 DEF IsFull
<1>5. f = [b EXCEPT !.slot = [b.slot EXCEPT ![e] = x], !.w = e,
                    !.r = IF b.n = c THEN Idx(c, b.r, 1) ELSE b.r,
                    !.n = IF b.n = c THEN b.n ELSE b.n + 1]
  BY <1>1, <1>3, <1>4 DEF Enqueue, Rings
<1>6. /\ f.w = e /\ f.capacity = c
      /\ f.slot = [b.slot EXCEPT ![e] = x]
      /\ f.r = IF b.n = c THEN Idx(c, b.r, 1) ELSE b.r
      /\ f.n = IF b.n = c THEN c ELSE b.n + 1
  BY <1>1, <1>5 DEF Rings
<1>7. f.slot \in [0..(c - 1) -> Objects \union {None}]
  BY <1>2, <1>6
<1>8. f.r \in 0..(c - 1) /\ f.n \in 0..c
  BY <1>2, <1>3, <1>6, SMTT(30)
<1>9. f = [capacity |-> f.capacity, slot |-> f.slot, w |-> f.w, r |-> f.r, n |-> f.n]
  BY <1>1, <1>5 DEF Rings
<1> QED
  BY <1>3, <1>6, <1>7, <1>8, <1>9, Zenon DEF Rings

\* f is b with x at the end, without b's oldest element if b was full.
Enqueued(f, b, x, c) ==
    /\ RingOK(f, c)
    /\ b.n < c => f.n = b.n + 1 /\ \A i \in 1..b.n : Content(f)[i] = Content(b)[i]
    /\ b.n = c => f.n = c /\ \A i \in 1..(c - 1) : Content(f)[i] = Content(b)[i + 1]
    /\ Content(f)[f.n] = x

\* enqueue appends, and a full buffer loses its oldest element.
LEMMA EnqueueContent ==
    ASSUME NEW c \in Nat \ {0}, NEW b, RingOK(b, c), NEW x \in Objects
    PROVE  Enqueued(Enqueue(b, x), b, x, c)
<1> USE DEF Enqueued
<1> DEFINE e == Idx(c, b.r, b.n)
           f == Enqueue(b, x)
<1>1. /\ e \in 0..(c - 1) /\ f.w = e
      /\ f.slot = [b.slot EXCEPT ![e] = x]
      /\ f.r = IF b.n = c THEN Idx(c, b.r, 1) ELSE b.r
      /\ f.n = IF b.n = c THEN c ELSE b.n + 1
      /\ f \in Rings(c)
  BY EnqueueFields
<1>2. /\ b.slot \in [0..(c - 1) -> Objects \union {None}]
      /\ b.r \in 0..(c - 1) /\ b.n \in 0..c
      /\ \A j \in 0..(c - 1) :
             b.slot[Idx(c, b.r, j)] \in IF j < b.n THEN Objects ELSE {None}
  BY DEF RingOK
<1>r. b.r \in 0..(c - 1)
  BY <1>2
<1>3. /\ \A j \in 0..c : Idx(c, b.r, j) \in 0..(c - 1)
      /\ \A j, k \in 0..(c - 1) : j # k => Idx(c, b.r, j) # Idx(c, b.r, k)
      /\ Idx(c, b.r, 0) = b.r /\ Idx(c, b.r, c) = b.r
  BY <1>r, IdxFacts
<1>4. CASE b.n < c
  <2>1. f.r = b.r /\ f.n = b.n + 1
    BY <1>1, <1>2, <1>4
  <2>0. b.n \in 0..(c - 1)
    BY <1>2, <1>4
  <2>2. ASSUME NEW j \in 0..(c - 1), j # b.n
        PROVE  f.slot[Idx(c, b.r, j)] = b.slot[Idx(c, b.r, j)]
    <3>1. Idx(c, b.r, j) # e
      BY <1>3, <2>0, <2>2
    <3>2. Idx(c, b.r, j) \in 0..(c - 1)
      BY <1>3
    <3>3. b.slot \in [0..(c - 1) -> Objects \union {None}] /\ f.slot = [b.slot EXCEPT ![e] = x]
      BY <1>1, <1>2, Zenon
    <3> HIDE DEF e, f
    <3> QED
      BY <3>1, <3>2, <3>3, ExceptOther
  <2>3. f.slot[Idx(c, b.r, b.n)] = x
    BY <1>1, <1>2
  <2>4. Idx(c, f.w, 1) = Idx(c, f.r, f.n)
    BY <1>1, <1>r, <2>0, <2>1, IdxShift
  <2>5. ASSUME NEW j \in 0..(c - 1)
        PROVE  f.slot[Idx(c, f.r, j)] \in IF j < f.n THEN Objects ELSE {None}
    <3>1. CASE j = b.n
      BY <2>0, <2>1, <2>3, <3>1
    <3>2. CASE j # b.n
      <4>1. j < f.n <=> j < b.n
        BY <2>0, <2>1, <3>2
      <4> QED
        BY <1>2, <2>1, <2>2, <3>2, <4>1
    <3> QED
      BY <3>1, <3>2
  <2>6. RingOK(f, c)
    BY <1>1, <2>4, <2>5, Zenon DEF RingOK, Rings
  <2> HIDE DEF f
  <2>7. \A i \in 1..b.n : Content(f)[i] = Content(b)[i]
    <3> SUFFICES ASSUME NEW i \in 1..b.n PROVE Content(f)[i] = Content(b)[i]
      OBVIOUS
    <3>1. i \in 1..f.n /\ i - 1 \in 0..(c - 1) /\ i - 1 # b.n
      BY <2>0, <2>1
    <3>2. Content(f)[i] = f.slot[Idx(c, f.r, i - 1)]
      BY <2>6, <3>1, ContentFacts
    <3>3. Content(b)[i] = b.slot[Idx(c, b.r, i - 1)]
      BY ContentFacts
    <3> QED
      BY <2>1, <2>2, <3>1, <3>2, <3>3
  <2>8. Content(f)[f.n] = x
    <3>1. f.n \in 1..f.n /\ f.n - 1 = b.n
      BY <2>0, <2>1
    <3> QED
      BY <2>1, <2>3, <2>6, <3>1, ContentFacts
  <2> QED
    BY <1>2, <1>4, <2>1, <2>6, <2>7, <2>8 DEF f
<1>5. CASE b.n = c
  <2>1. f.r = Idx(c, b.r, 1) /\ f.n = c /\ e = b.r /\ f.r \in 0..(c - 1)
    BY <1>1, <1>3, <1>5
  <2>2. \A j \in 0..(c - 2) : /\ Idx(c, f.r, j) = Idx(c, b.r, j + 1)
                              /\ Idx(c, f.r, j) # e /\ Idx(c, f.r, j) \in 0..(c - 1)
    <3> SUFFICES ASSUME NEW j \in 0..(c - 2)
                 PROVE  /\ Idx(c, f.r, j) = Idx(c, b.r, j + 1)
                        /\ Idx(c, f.r, j) # e /\ Idx(c, f.r, j) \in 0..(c - 1)
      OBVIOUS
    <3>1. j \in 0..(c - 1) /\ j + 1 \in 0..(c - 1) /\ j + 1 # 0 /\ 0 \in 0..(c - 1) /\ j + 1 \in 0..c
      OBVIOUS
    <3>2. Idx(c, f.r, j) = Idx(c, b.r, j + 1)
      BY <1>r, <2>1, <3>1, IdxShift
    <3> QED
      BY <1>r, <2>1, <3>1, <3>2, IdxFresh
  <2>3. Idx(c, f.r, c - 1) = e
    BY <1>r, <2>1, IdxZero
  <2>4. Idx(c, f.w, 1) = Idx(c, f.r, f.n)
    BY <1>1, <2>1, IdxZero
  <2>5. \A j \in 0..(c - 2) : f.slot[Idx(c, f.r, j)] = b.slot[Idx(c, b.r, j + 1)]
    BY <1>1, <1>2, <2>2
  <2>6. f.slot[Idx(c, f.r, c - 1)] = x
    BY <1>1, <1>2, <2>3
  <2>7. ASSUME NEW j \in 0..(c - 1)
        PROVE  f.slot[Idx(c, f.r, j)] \in IF j < f.n THEN Objects ELSE {None}
    <3>1. CASE j = c - 1
      BY <2>1, <2>6, <3>1
    <3>2. CASE j # c - 1
      <4>1. j \in 0..(c - 2) /\ j + 1 \in 0..(c - 1) /\ j + 1 < b.n /\ j < f.n
        BY <1>5, <2>1, <3>2
      <4> QED
        BY <1>2, <2>5, <4>1
    <3> QED
      BY <3>1, <3>2
  <2>8. RingOK(f, c)
    BY <1>1, <2>4, <2>7, Zenon DEF RingOK, Rings
  <2> HIDE DEF f, e
  <2>9. ASSUME NEW i \in 1..(c - 1) PROVE Content(f)[i] = Content(b)[i + 1]
    <3>1. i \in 1..f.n /\ i + 1 \in 1..b.n /\ i - 1 \in 0..(c - 2) /\ i - 1 + 1 = i + 1 - 1
      BY <1>5, <2>1
    <3> QED
      BY <2>5, <2>8, <3>1, ContentFacts
  <2>10. Content(f)[f.n] = x
    BY <2>1, <2>6, <2>8, ContentFacts
  <2> QED
    BY <1>5, <2>1, <2>8, <2>9, <2>10 DEF f
<1> QED
  BY <1>2, <1>4, <1>5

\* f is b without its oldest element.
Dequeued(f, b, c) ==
    /\ RingOK(f, c)
    /\ f.n = b.n - 1
    /\ b.slot[b.r] = Content(b)[1] /\ b.slot[b.r] \in Objects
    /\ \A i \in 1..(b.n - 1) : Content(f)[i] = Content(b)[i + 1]

\* dequeue takes the oldest element.
LEMMA DequeueContent ==
    ASSUME NEW c \in Nat \ {0}, NEW b, RingOK(b, c), b.n # 0
    PROVE  Dequeued(Dequeue(b), b, c)
<1> USE DEF Dequeued
<1> DEFINE f == Dequeue(b)
<1>1. b \in Rings(c) /\ Idx(c, b.w, 1) = Idx(c, b.r, b.n)
  BY DEF RingOK, Rings
<1>2. /\ b.capacity = c /\ b.slot \in [0..(c - 1) -> Objects \union {None}]
      /\ b.w \in 0..(c - 1) /\ b.r \in 0..(c - 1) /\ b.n \in 1..c
      /\ \A j \in 0..(c - 1) :
             b.slot[Idx(c, b.r, j)] \in IF j < b.n THEN Objects ELSE {None}
  BY <1>1 DEF RingOK, Rings
<1>3. Advance(b, b.r) = Idx(c, b.r, 1) /\ Idx(c, b.r, 1) \in 0..(c - 1)
  BY <1>2, AdvanceIsIdx
<1>4. f = [b EXCEPT !.slot = [b.slot EXCEPT ![b.r] = None], !.r = Idx(c, b.r, 1), !.n = b.n - 1]
  BY <1>1, <1>3 DEF Dequeue, Rings
<1> HIDE DEF f
<1>5. /\ f.w = b.w /\ f.capacity = c /\ f.slot = [b.slot EXCEPT ![b.r] = None]
      /\ f.r = Idx(c, b.r, 1) /\ f.n = b.n - 1
  BY <1>1, <1>4 DEF Rings
<1>6. f = [capacity |-> f.capacity, slot |-> f.slot, w |-> f.w, r |-> f.r, n |-> f.n]
  BY <1>1, <1>4 DEF Rings
<1>7. f.slot \in [0..(c - 1) -> Objects \union {None}] /\ f.n \in 0..c
  BY <1>2, <1>5
<1>8. f \in Rings(c)
  BY <1>2, <1>3, <1>5, <1>6, <1>7, Zenon DEF Rings
<1>9. Idx(c, f.w, 1) = Idx(c, f.r, f.n)
  <2>1. b.r \in 0..(c - 1) /\ b.n - 1 \in 0..(c - 1) /\ b.n - 1 + 1 = b.n
    BY <1>2
  <2>2. Idx(c, Idx(c, b.r, 1), b.n - 1) = Idx(c, b.r, b.n - 1 + 1)
    BY <2>1, IdxShift
  <2> QED
    BY <1>1, <1>5, <2>1, <2>2
<1>10. \A j \in 0..(c - 2) : /\ Idx(c, f.r, j) = Idx(c, b.r, j + 1)
                             /\ Idx(c, f.r, j) # b.r /\ Idx(c, f.r, j) \in 0..(c - 1)
  <2> SUFFICES ASSUME NEW j \in 0..(c - 2)
               PROVE  /\ Idx(c, f.r, j) = Idx(c, b.r, j + 1)
                      /\ Idx(c, f.r, j) # b.r /\ Idx(c, f.r, j) \in 0..(c - 1)
    OBVIOUS
  <2>1. j \in 0..(c - 1) /\ j + 1 \in 0..(c - 1) /\ j + 1 # 0 /\ 0 \in 0..(c - 1) /\ j + 1 \in 0..c
    OBVIOUS
  <2>2. b.r \in 0..(c - 1)
    BY <1>2
  <2>3. Idx(c, f.r, j) = Idx(c, b.r, j + 1)
    BY <1>5, <2>1, <2>2, IdxShift
  <2>4. Idx(c, b.r, j + 1) # b.r /\ Idx(c, b.r, j + 1) \in 0..(c - 1)
    BY <2>1, <2>2, IdxFresh
  <2> QED
    BY <2>3, <2>4
<1>11. Idx(c, f.r, c - 1) = b.r /\ Idx(c, b.r, 0) = b.r
  <2>1. b.r \in 0..(c - 1)
    BY <1>2
  <2> QED
    BY <1>5, <2>1, IdxZero
<1>12. \A j \in 0..(c - 2) : f.slot[Idx(c, f.r, j)] = b.slot[Idx(c, b.r, j + 1)]
  <2>1. b.slot \in [0..(c - 1) -> Objects \union {None}] /\ f.slot = [b.slot EXCEPT ![b.r] = None]
    BY <1>2, <1>5, Zenon
  <2> QED
    BY <1>10, <2>1, ExceptOther
<1>13. f.slot[Idx(c, f.r, c - 1)] = None
  BY <1>2, <1>5, <1>11
<1>14. ASSUME NEW j \in 0..(c - 1)
       PROVE  f.slot[Idx(c, f.r, j)] \in IF j < f.n THEN Objects ELSE {None}
  <2>1. CASE j = c - 1
    BY <1>2, <1>5, <1>13, <2>1
  <2>2. CASE j # c - 1
    <3>0. b.n \in 1..c /\ f.n = b.n - 1
      BY <1>2, <1>5
    <3>1. j \in 0..(c - 2) /\ j + 1 \in 0..(c - 1) /\ (j + 1 < b.n <=> j < f.n)
      BY <2>2, <3>0
    <3> QED
      BY <1>2, <1>12, <3>1
  <2> QED
    BY <2>1, <2>2
<1>15. RingOK(f, c)
  BY <1>8, <1>9, <1>14, Zenon DEF RingOK, Rings
<1>16. ASSUME NEW i \in 1..(b.n - 1) PROVE Content(f)[i] = Content(b)[i + 1]
  <2>1. i \in 1..f.n /\ i + 1 \in 1..b.n /\ i - 1 \in 0..(c - 2) /\ i - 1 + 1 = i + 1 - 1
    BY <1>2, <1>5
  <2>2. Content(f)[i] = f.slot[Idx(c, f.r, i - 1)]
    BY <1>15, <2>1, ContentFacts
  <2>3. Content(b)[i + 1] = b.slot[Idx(c, b.r, i + 1 - 1)]
    BY <2>1, ContentFacts
  <2> QED
    BY <1>12, <2>1, <2>2, <2>3
<1>17. b.slot[b.r] = Content(b)[1] /\ b.slot[b.r] \in Objects
  <2>1. 1 \in 1..b.n /\ 1 - 1 = 0 /\ 0 \in 0..(c - 1) /\ 0 < b.n
    BY <1>2
  <2>2. Content(b)[1] = b.slot[Idx(c, b.r, 0)]
    BY <2>1, ContentFacts
  <2> QED
    BY <1>2, <1>11, <2>1, <2>2
<1> QED
  BY <1>5, <1>15, <1>16, <1>17 DEF f

-----------------------------------------------------------------------------
(* Recursive functions on an interval *)

\* Induction up to a bound.
LEMMA UpToInduction ==
    ASSUME NEW n \in Nat, NEW S, 0 \in S, \A i \in 1..n : i - 1 \in S => i \in S
    PROVE  \A i \in 0..n : i \in S
<1> DEFINE T == {k \in Nat : k <= n => k \in S}
<1>1. 0 \in T
  OBVIOUS
<1>2. ASSUME NEW k \in Nat, k \in T PROVE k + 1 \in T
  <2> SUFFICES ASSUME k + 1 <= n PROVE k + 1 \in S
    OBVIOUS
  <2>1. k <= n /\ k + 1 \in 1..n /\ k + 1 - 1 = k
    OBVIOUS
  <2>2. k \in S
    BY <1>2, <2>1
  <2> QED
    BY <2>1, <2>2
<1> HIDE DEF T
<1>3. \A k \in Nat : k \in T
  BY <1>1, <1>2, SetInduction
<1> SUFFICES ASSUME NEW i \in 0..n PROVE i \in S
  OBVIOUS
<1>4. i \in Nat /\ i <= n /\ i \in T
  BY <1>3
<1> QED
  BY <1>4 DEF T

\* F gives the next value from the index and the value before.
StepFunctions(n, X) == [(1..n) \X X -> X]

Recursive(g, a, F, n) == g = [i \in 0..n |-> IF i = 0 THEN a ELSE F[<<i, g[i - 1]>>]]

Iterates(g, a, F, n) == g[0] = a /\ \A i \in 1..n : g[i] = F[<<i, g[i - 1]>>]

\* A step function has a function of its iterates.
LEMMA RecursionExists ==
    ASSUME NEW X, NEW a \in X, NEW n \in Nat, NEW F \in StepFunctions(n, X)
    PROVE  \E g \in [0..n -> X] : Iterates(g, a, F, n)
<1> USE DEF StepFunctions, Iterates
<1> DEFINE G(g, k) == g[0] = a /\ \A i \in 1..k : g[i] = F[<<i, g[i - 1]>>]
           S == {k \in Nat : \E g \in [0..k -> X] : G(g, k)}
<1>1. 0 \in S
  <2>1. [i \in 0..0 |-> a] \in [0..0 -> X] /\ G([i \in 0..0 |-> a], 0)
    OBVIOUS
  <2> QED
    BY <2>1
<1>2. ASSUME NEW i \in 1..n, i - 1 \in S PROVE i \in S
  <2>1. PICK g \in [0..(i - 1) -> X] : G(g, i - 1)
    BY <1>2
  <2> DEFINE h == [k \in 0..i |-> IF k = i THEN F[<<i, g[i - 1]>>] ELSE g[k]]
  <2>2. i - 1 \in 0..(i - 1) /\ g[i - 1] \in X
    BY <2>1
  <2>3. <<i, g[i - 1]>> \in (1..n) \X X
    BY <2>2
  <2>4. F[<<i, g[i - 1]>>] \in X
    BY <2>3
  <2>5. \A k \in 0..i : k = i \/ k \in 0..(i - 1)
    OBVIOUS
  <2>6. h \in [0..i -> X]
    BY <2>4, <2>5
  <2>7. h[i] = F[<<i, g[i - 1]>>] /\ \A k \in 0..(i - 1) : h[k] = g[k]
    OBVIOUS
  <2> HIDE DEF h
  <2>8. h[0] = a
    BY <2>1, <2>7
  <2>9. ASSUME NEW k \in 1..i PROVE h[k] = F[<<k, h[k - 1]>>]
    <3>1. k - 1 \in 0..(i - 1) /\ h[k - 1] = g[k - 1]
      BY <2>7
    <3>2. CASE k = i
      BY <2>7, <3>1, <3>2
    <3>3. CASE k # i
      <4>1. k \in 1..(i - 1) /\ k \in 0..(i - 1)
        BY <3>3
      <4> QED
        BY <2>1, <2>7, <3>1, <4>1
    <3> QED
      BY <3>2, <3>3
  <2>10. G(h, i)
    BY <2>8, <2>9
  <2>11. i \in Nat
    OBVIOUS
  <2> QED
    BY <2>6, <2>10, <2>11
<1> HIDE DEF S
<1>3. \A i \in 0..n : i \in S
  BY <1>1, <1>2, UpToInduction
<1>4. n \in 0..n
  OBVIOUS
<1>5. n \in S
  BY <1>3, <1>4
<1> QED
  BY <1>5 DEF S

\* Such a function is the one the recursive definition gives.
LEMMA RecursionIsFunction ==
    ASSUME NEW X, NEW a, NEW n \in Nat, NEW g \in [0..n -> X], NEW F,
           Iterates(g, a, F, n)
    PROVE  Recursive(g, a, F, n)
<1> USE DEF Iterates, Recursive
<1>1. ASSUME NEW i \in 0..n PROVE g[i] = IF i = 0 THEN a ELSE F[<<i, g[i - 1]>>]
  <2>1. i = 0 \/ i \in 1..n
    OBVIOUS
  <2> QED
    BY <2>1
<1>2. g = [i \in 0..n |-> g[i]]
  OBVIOUS
<1> QED
  BY <1>1, <1>2, Zenon

-----------------------------------------------------------------------------
(* Removing an id from a list *)

WithoutSteps(g, q, s) ==
    /\ Without(q, s) = g[Len(q)]
    /\ g[0] = <<>>
    /\ \A i \in 1..Len(q) :
           g[i] = IF q[i] = s THEN g[i - 1] ELSE Append(g[i - 1], q[i])

\* The recursion that removes an id from a list is well defined.
LEMMA WithoutExists ==
    ASSUME NEW S, NEW q \in Seq(S), NEW s
    PROVE  \E g \in [0..Len(q) -> Seq(S)] : WithoutSteps(g, q, s)
<1> DEFINE n == Len(q)
           X == Seq(S)
           W(i, u) == IF q[i] = s THEN u ELSE Append(u, q[i])
           F == [p \in (1..n) \X X |-> W(p[1], p[2])]
           R(g) == g = [i \in 0..n |-> IF i = 0 THEN <<>> ELSE W(i, g[i - 1])]
<1>1. n \in Nat /\ <<>> \in X /\ \A i \in 1..n : q[i] \in S
  BY ElementOfSeq
<1>2. \A i \in 1..n, u \in X : W(i, u) \in X
  BY <1>1, AppendProperties
<1> HIDE DEF n, X, W
<1>3. \A i \in 1..n, u \in X : F[<<i, u>>] = W(i, u)
  OBVIOUS
<1>30. F \in StepFunctions(n, X)
  BY <1>2 DEF StepFunctions
<1> HIDE DEF F
<1>31. n \in Nat /\ <<>> \in X
  BY <1>1
<1>4. PICK g \in [0..n -> X] : Iterates(g, <<>>, F, n)
  BY <1>30, <1>31, RecursionExists, Zenon
<1>5. \A i \in 1..n : g[i - 1] \in X
  <2>1. \A i \in 1..n : i - 1 \in 0..n
    BY <1>31
  <2> QED
    BY <2>1, Zenon
<1>6. R(g)
  <2>1. Recursive(g, <<>>, F, n)
    BY <1>31, <1>4, RecursionIsFunction, Zenon
  <2>2. ASSUME NEW i \in 0..n, i # 0 PROVE F[<<i, g[i - 1]>>] = W(i, g[i - 1])
    <3>1. i \in 1..n
      BY <1>1, <2>2
    <3> QED
      BY <1>3, <1>5, <3>1
  <2> QED
    BY <2>1, <2>2, Zenon DEF Recursive
<1> DEFINE f == CHOOSE h : R(h)
<1>7. R(f)
  BY <1>6
<1>8. Without(q, s) = f[n]
  BY DEF Without, R, W, n
<1> HIDE DEF f
<1>9. f[0] = <<>> /\ \A i \in 1..n : f[i] = W(i, f[i - 1])
  <2>1. 0 \in 0..n /\ \A i \in 1..n : i \in 0..n /\ i # 0
    BY <1>1
  <2> QED
    BY <1>7, <2>1
<1>10. f \in [0..n -> X]
  <2> DEFINE T == {i \in 0..n : f[i] \in X}
  <2>1. 0 \in T
    BY <1>1, <1>9
  <2>2. ASSUME NEW i \in 1..n, i - 1 \in T PROVE i \in T
    <3>1. f[i] = W(i, f[i - 1]) /\ f[i - 1] \in X /\ i \in 0..n
      BY <1>1, <1>9, <2>2
    <3> QED
      BY <1>2, <3>1
  <2> HIDE DEF T
  <2>3. \A i \in 0..n : i \in T
    BY <1>1, <2>1, <2>2, UpToInduction
  <2>4. \A i \in 0..n : f[i] \in X
    BY <2>3 DEF T
  <2>5. f = [i \in 0..n |-> f[i]]
    BY <1>7
  <2> QED
    BY <2>4, <2>5, Zenon
<1> QED
  BY <1>8, <1>9, <1>10 DEF n, X, W, WithoutSteps

\* What is left is the rest of the list, in its order and without repetition.
LEMMA WithoutFacts ==
    ASSUME NEW S, NEW q \in Seq(S), NEW s
    PROVE  /\ Without(q, s) \in Seq(S)
           /\ Elems(Without(q, s)) = Elems(q) \ {s}
           /\ Distinct(q) => Distinct(Without(q, s))
<1> DEFINE n == Len(q)
<1>1. n \in Nat
  BY LenProperties
<1>20. PICK g \in [0..n -> Seq(S)] : WithoutSteps(g, q, s)
  BY WithoutExists, Zenon
<1>2. /\ Without(q, s) = g[n]
      /\ g[0] = <<>>
      /\ \A i \in 1..n : g[i] = IF q[i] = s THEN g[i - 1] ELSE Append(g[i - 1], q[i])
  BY <1>20 DEF WithoutSteps
<1>3. \A i \in 1..n : q[i] \in S
  BY ElementOfSeq
<1> HIDE DEF n
<1> DEFINE Upto(i) == {q[j] : j \in 1..i}
           T == {i \in 0..n : Elems(g[i]) = Upto(i) \ {s} /\ (Distinct(q) => Distinct(g[i]))}
<1>4. 0 \in T
  <2>1. Len(<<>>) = 0 /\ 0 \in 0..n
    BY <1>1
  <2> QED
    BY <1>2, <2>1 DEF Elems, Distinct
<1>5. ASSUME NEW i \in 1..n, i - 1 \in T PROVE i \in T
  <2>1. i - 1 \in 0..n /\ i \in 0..n
    BY <1>1
  <2> DEFINE u == g[i - 1]
  <2>2. u \in Seq(S) /\ Elems(u) = Upto(i - 1) \ {s} /\ (Distinct(q) => Distinct(u))
    BY <1>5, <2>1
  <2>3. Upto(i) = Upto(i - 1) \union {q[i]}
    <3>1. \A j \in 1..i : j \in 1..(i - 1) \/ j = i
      OBVIOUS
    <3>2. \A j \in 1..(i - 1) : j \in 1..i
      OBVIOUS
    <3>3. i \in 1..i
      OBVIOUS
    <3> QED
      BY <3>1, <3>2, <3>3
  <2>4. CASE q[i] = s
    BY <1>2, <2>1, <2>2, <2>3, <2>4
  <2>5. CASE q[i] # s
    <3> DEFINE v == Append(u, q[i])
    <3>1. v = g[i]
      BY <1>2, <2>5
    <3>2. /\ Len(u) \in Nat /\ Len(v) = Len(u) + 1 /\ v[Len(u) + 1] = q[i]
          /\ \A k \in 1..Len(u) : v[k] = u[k]
      BY <1>3, <2>2, AppendProperties
    <3> HIDE DEF u, v
    <3>3. Elems(v) = Elems(u) \union {q[i]}
      <4>1. \A k \in 1..Len(v) : k \in 1..Len(u) \/ k = Len(u) + 1
        BY <3>2
      <4>2. \A k \in 1..Len(u) : k \in 1..Len(v)
        BY <3>2
      <4>3. Len(u) + 1 \in 1..Len(v)
        BY <3>2
      <4> QED
        BY <3>2, <4>1, <4>2, <4>3 DEF Elems
    <3>4. ASSUME Distinct(q) PROVE Distinct(v)
      <4>1. ~(q[i] \in Upto(i - 1))
        <5> SUFFICES ASSUME NEW j \in 1..(i - 1), q[j] = q[i] PROVE FALSE
          OBVIOUS
        <5>1. j \in 1..Len(q) /\ i \in 1..Len(q) /\ j # i
          BY <1>1 DEF n
        <5> QED
          BY <3>4, <5>1 DEF Distinct
      <4>2. \A k \in 1..Len(u) : u[k] # q[i]
        BY <2>2, <4>1 DEF Elems
      <4>3. Distinct(u)
        BY <2>2, <3>4
      <4> SUFFICES ASSUME NEW k \in 1..Len(v), NEW l \in 1..Len(v), v[k] = v[l] PROVE k = l
        BY DEF Distinct
      <4>4. (k \in 1..Len(u) \/ k = Len(u) + 1) /\ (l \in 1..Len(u) \/ l = Len(u) + 1)
        BY <3>2
      <4> QED
        BY <3>2, <4>2, <4>3, <4>4 DEF Distinct
    <3> HIDE DEF Upto
    <3>5. Elems(v) = Upto(i) \ {s}
      BY <2>2, <2>3, <2>5, <3>3
    <3> QED
      BY <2>1, <3>1, <3>4, <3>5
  <2> QED
    BY <2>4, <2>5
<1> HIDE DEF T
<1>6. n \in 0..n /\ \A i \in 0..n : i \in T
  <2>1. \A i \in 0..n : i \in T
    BY <1>1, <1>4, <1>5, UpToInduction
  <2> QED
    BY <1>1, <2>1
<1>7. n \in T /\ g[n] \in Seq(S)
  BY <1>6
<1>8. Upto(n) = Elems(q)
  BY DEF Elems, n
<1> QED
  BY <1>2, <1>7, <1>8 DEF T

RingsOf(c) == {d \in Rings(c) : RingOK(d, c)}

\* The set of sound ring buffers of a capacity.
LEMMA RingsOfFacts ==
    ASSUME NEW c, NEW d
    PROVE  d \in RingsOf(c) <=> RingOK(d, c)
  BY DEF RingsOf, RingOK, Rings

\* EnqueueAll goes from ring to ring.
EnqueueAllSteps(g, b, xs) ==
    /\ EnqueueAll(b, xs) = g[Len(xs)]
    /\ g[0] = b
    /\ \A i \in 1..Len(xs) : g[i] = Enqueue(g[i - 1], xs[i])

\* The recursion that enqueues a sequence is well defined.
LEMMA EnqueueAllExists ==
    ASSUME NEW c \in Nat \ {0}, NEW b, RingOK(b, c), NEW xs \in Seq(Objects)
    PROVE  \E g \in [0..Len(xs) -> RingsOf(c)] : EnqueueAllSteps(g, b, xs)
<1> DEFINE n == Len(xs)
           X == RingsOf(c)
           W(i, u) == Enqueue(u, xs[i])
           F == [p \in (1..n) \X X |-> W(p[1], p[2])]
           R(g) == g = [i \in 0..n |-> IF i = 0 THEN b ELSE W(i, g[i - 1])]
<1>1. n \in Nat /\ b \in X /\ \A i \in 1..n : xs[i] \in Objects
  BY ElementOfSeq DEF RingsOf, RingOK, Rings
<1>2. \A i \in 1..n, u \in X : W(i, u) \in X
  BY <1>1, RingsOfFacts, EnqueueContent DEF Enqueued
<1> HIDE DEF n, X, W
<1>3. \A i \in 1..n, u \in X : F[<<i, u>>] = W(i, u)
  OBVIOUS
<1>30. F \in StepFunctions(n, X)
  BY <1>2 DEF StepFunctions
<1> HIDE DEF F
<1>31. n \in Nat /\ b \in X
  BY <1>1
<1>4. PICK g \in [0..n -> X] : Iterates(g, b, F, n)
  BY <1>30, <1>31, RecursionExists, Zenon
<1>5. \A i \in 1..n : g[i - 1] \in X
  <2>1. \A i \in 1..n : i - 1 \in 0..n
    BY <1>31
  <2> QED
    BY <2>1, Zenon
<1>6. R(g)
  <2>1. Recursive(g, b, F, n)
    BY <1>31, <1>4, RecursionIsFunction, Zenon
  <2>2. ASSUME NEW i \in 0..n, i # 0 PROVE F[<<i, g[i - 1]>>] = W(i, g[i - 1])
    <3>1. i \in 1..n
      BY <1>1, <2>2
    <3> QED
      BY <1>3, <1>5, <3>1
  <2> QED
    BY <2>1, <2>2, Zenon DEF Recursive
<1> DEFINE f == CHOOSE h : R(h)
<1>7. R(f)
  BY <1>6
<1>8. EnqueueAll(b, xs) = f[n]
  BY DEF EnqueueAll, R, W, n
<1> HIDE DEF f
<1>9. f[0] = b /\ \A i \in 1..n : f[i] = W(i, f[i - 1])
  <2>1. 0 \in 0..n /\ \A i \in 1..n : i \in 0..n /\ i # 0
    BY <1>1
  <2> QED
    BY <1>7, <2>1
<1>10. f \in [0..n -> X]
  <2> DEFINE T == {i \in 0..n : f[i] \in X}
  <2>1. 0 \in T
    BY <1>1, <1>9
  <2>2. ASSUME NEW i \in 1..n, i - 1 \in T PROVE i \in T
    <3>1. f[i] = W(i, f[i - 1]) /\ f[i - 1] \in X /\ i \in 0..n
      BY <1>1, <1>9, <2>2
    <3> QED
      BY <1>2, <3>1
  <2> HIDE DEF T
  <2>3. \A i \in 0..n : i \in T
    BY <1>1, <2>1, <2>2, UpToInduction
  <2>4. \A i \in 0..n : f[i] \in X
    BY <2>3 DEF T
  <2>5. f = [i \in 0..n |-> f[i]]
    BY <1>7
  <2> QED
    BY <2>4, <2>5, Zenon
<1> QED
  BY <1>8, <1>9, <1>10 DEF n, X, W, EnqueueAllSteps

\* An empty buffer that is given a sequence holds the end of it.
LEMMA EnqueueAllContent ==
    ASSUME NEW c \in Nat \ {0}, NEW b, RingOK(b, c), b.n = 0, NEW xs \in Seq(Objects),
           NEW d, d = EnqueueAll(b, xs)
    PROVE  /\ RingOK(d, c)
           /\ d.n = IF Len(xs) <= c THEN Len(xs) ELSE c
           /\ \A k \in 1..d.n : Content(d)[k] = xs[Len(xs) - d.n + k]
<1> DEFINE n == Len(xs)
<1>1. n \in Nat
  BY LenProperties
<1>2. PICK g \in [0..n -> RingsOf(c)] : EnqueueAllSteps(g, b, xs)
  BY EnqueueAllExists, Zenon
<1>3. /\ d = g[n] /\ g[0] = b
      /\ \A i \in 1..n : g[i] = Enqueue(g[i - 1], xs[i])
  BY <1>2 DEF EnqueueAllSteps
<1>4. \A i \in 1..n : xs[i] \in Objects
  BY ElementOfSeq
<1> HIDE DEF n
<1> DEFINE P(i, e) == /\ RingOK(e, c)
                      /\ e.n = IF i <= c THEN i ELSE c
                      /\ \A k \in 1..e.n : Content(e)[k] = xs[i - e.n + k]
           T == {i \in 0..n : P(i, g[i])}
<1>5. 0 \in T
  BY <1>1, <1>3
<1>6. ASSUME NEW i \in 1..n, i - 1 \in T PROVE i \in T
  <2>1. i - 1 \in 0..n /\ i \in 0..n /\ i \in Nat \ {0}
    BY <1>1
  <2> DEFINE e == g[i - 1]
             f == Enqueue(e, xs[i])
  <2>2. RingOK(e, c) /\ e.n = IF i - 1 <= c THEN i - 1 ELSE c
    BY <1>6
  <2>3. \A k \in 1..e.n : Content(e)[k] = xs[i - 1 - e.n + k]
    BY <1>6
  <2>4. g[i] = f /\ xs[i] \in Objects
    BY <1>3, <1>4
  <2> HIDE DEF e
  <2>5. /\ RingOK(f, c)
        /\ e.n < c => f.n = e.n + 1 /\ \A k \in 1..e.n : Content(f)[k] = Content(e)[k]
        /\ e.n = c => f.n = c /\ \A k \in 1..(c - 1) : Content(f)[k] = Content(e)[k + 1]
        /\ Content(f)[f.n] = xs[i]
    <3>1. Enqueued(f, e, xs[i], c)
      BY <2>2, <2>4, EnqueueContent
    <3> QED
      BY <3>1 DEF Enqueued
  <2> HIDE DEF f
  <2>6. CASE i - 1 < c
    <3>0. e.n = i - 1 /\ e.n < c /\ e.n + 1 = i
      BY <2>1, <2>2, <2>6
    <3>1. e.n = i - 1 /\ f.n = i /\ \A k \in 1..(i - 1) : Content(f)[k] = Content(e)[k]
      BY <2>5, <3>0
    <3>2. ASSUME NEW k \in 1..f.n PROVE Content(f)[k] = xs[i - f.n + k]
      <4>1. i - f.n + k = k
        BY <2>1, <3>1
      <4>2. CASE k = i
        BY <2>5, <3>1, <4>1, <4>2
      <4>3. CASE k # i
        <5>1. k \in 1..(i - 1) /\ i - 1 - e.n + k = k /\ k \in 1..e.n
          BY <2>1, <3>1, <4>3
        <5> QED
          BY <2>3, <3>1, <4>1, <5>1
      <4> QED
        BY <4>2, <4>3
    <3>3. f.n = IF i <= c THEN i ELSE c
      BY <2>1, <2>6, <3>1
    <3> QED
      BY <2>1, <2>4, <2>5, <3>2, <3>3
  <2>7. CASE ~(i - 1 < c)
    <3>1. e.n = c /\ f.n = c /\ \A k \in 1..(c - 1) : Content(f)[k] = Content(e)[k + 1]
      BY <2>1, <2>2, <2>5, <2>7
    <3>2. ASSUME NEW k \in 1..f.n PROVE Content(f)[k] = xs[i - f.n + k]
      <4>2. CASE k = c
        <5>1. i - f.n + k = i
          BY <2>1, <3>1, <4>2
        <5> QED
          BY <2>5, <3>1, <4>2, <5>1
      <4>3. CASE k # c
        <5>1. k \in 1..(c - 1) /\ i - 1 - e.n + (k + 1) = i - f.n + k /\ k + 1 \in 1..e.n
          BY <2>1, <3>1, <4>3
        <5> QED
          BY <2>3, <3>1, <5>1
      <4> QED
        BY <4>2, <4>3
    <3>3. f.n = IF i <= c THEN i ELSE c
      BY <2>1, <2>7, <3>1
    <3> QED
      BY <2>1, <2>4, <2>5, <3>2, <3>3
  <2> QED
    BY <2>6, <2>7
<1> HIDE DEF T
<1>7. \A i \in 0..n : i \in T
  BY <1>1, <1>5, <1>6, UpToInduction
<1>8. n \in T
  BY <1>1, <1>7
<1> QED
  BY <1>3, <1>8 DEF T, n

\* Only what was given is in the buffer.
LEMMA EnqueueAllElements ==
    ASSUME NEW c \in Nat \ {0}, NEW b, RingOK(b, c), b.n = 0, NEW xs \in Seq(Objects)
    PROVE  /\ RingOK(EnqueueAll(b, xs), c)
           /\ EnqueueAll(b, xs).n <= Len(xs)
           /\ \A k \in 1..EnqueueAll(b, xs).n : \E i \in 1..Len(xs) :
                  Content(EnqueueAll(b, xs))[k] = xs[i]
<1> DEFINE d == EnqueueAll(b, xs)
<1>1. /\ RingOK(d, c)
      /\ d.n = IF Len(xs) <= c THEN Len(xs) ELSE c
      /\ \A k \in 1..d.n : Content(d)[k] = xs[Len(xs) - d.n + k]
  BY EnqueueAllContent
<1>2. Len(xs) \in Nat
  BY LenProperties
<1> HIDE DEF d
<1>3. d.n \in Nat /\ d.n <= Len(xs)
  BY <1>1, <1>2
<1>4. ASSUME NEW k \in 1..d.n PROVE \E i \in 1..Len(xs) : Content(d)[k] = xs[i]
  <2>1. Len(xs) - d.n + k \in 1..Len(xs)
    BY <1>2, <1>3
  <2> QED
    BY <1>1, <2>1
<1> QED
  BY <1>1, <1>3, <1>4 DEF d

-----------------------------------------------------------------------------
(* The constants, and what a thread's list of recipients looks like *)

\* What the assumptions on the constants give.
LEMMA Constants ==
    /\ \A x \in Buffered : x \in Pubs \union Subs /\ Depth[x] \in Nat \ {0}
    /\ \A s \in Subs : s \in Buffered /\ ~(s \in Pubs) /\ s # "orig" /\ s # "copy"
    /\ \A p \in Pubs : (p \in Buffered <=> p \in Transient) /\ MaxMsgs[p] \in Nat
    /\ Owning \subseteq Subs /\ WaitSubs \subseteq Subs /\ EventSubs \subseteq Subs
    /\ IsFiniteSet(Pubs) /\ IsFiniteSet(Subs)
  BY DepthAssumption, SetsAssumption DEF Buffered, WaitSubs

\* An order of a finite set lists it, every element once.
LEMMA OrdersFacts ==
    ASSUME NEW S, IsFiniteSet(S), NEW f \in Orders(S)
    PROVE  f \in Seq(S) /\ Len(f) = Cardinality(S) /\ Distinct(f) /\ Elems(f) = S
<1> DEFINE n == Cardinality(S)
<1>1. n \in Nat
  BY FS_CardinalityType
<1>2. f \in [1..n -> S] /\ \A i, j \in 1..n : f[i] = f[j] => i = j
  BY DEF Orders
<1> HIDE DEF n
<1>3. f \in Seq(S) /\ Len(f) = n
  BY <1>1, <1>2, FunctionIsSeq
<1>4. f \in Injection(1..n, S)
  BY <1>2 DEF Injection, IsInjective
<1>5. Cardinality(1..n) = n
  BY <1>1, FS_Interval
<1>6. f \in Surjection(1..n, S)
  BY <1>4, <1>5, FS_Injection DEF n
<1>7. \A x \in S : \E i \in 1..n : f[i] = x
  BY <1>6 DEF Surjection
<1>8. Elems(f) = S
  BY <1>2, <1>3, <1>7 DEF Elems
<1>9. Distinct(f)
  BY <1>2, <1>3 DEF Distinct
<1> QED
  BY <1>3, <1>8, <1>9 DEF n

\* Sets of publishers, or of subscriptions, are finite.
LEMMA SubsFinite ==
    ASSUME NEW S, S \subseteq Subs \/ S \subseteq Pubs
    PROVE  IsFiniteSet(S)
  BY SetsAssumption, FS_Subset

\* A thread that serves a recipient has one.
LEMMA HeadFacts ==
    ASSUME PubsOK, NEW p \in Pubs, Delivering(p)
    PROVE  LET q == pub[p].todo IN
           /\ q \in Seq(Subs \X Objects) /\ q # <<>>
           /\ Len(q) \in Nat \ {0} /\ 1 \in 1..Len(q) /\ Head(q) = q[1]
           /\ q[1][1] \in Subs /\ q[1][2] \in Objects
           /\ q[1][2][1] = <<p, sent[p]>> /\ status[q[1][1]] = "live"
           /\ Tail(q) \in Seq(Subs \X Objects) /\ Len(Tail(q)) = Len(q) - 1
           /\ \A i \in 1..Len(Tail(q)) : Tail(q)[i] = q[i + 1] /\ i + 1 \in 1..Len(q)
<1> DEFINE q == pub[p].todo
<1>1. q \in Seq(Subs \X Objects) /\ q # <<>>
  BY DEF PubsOK
<1>2. \A i \in 1..Len(q) : q[i][2][1] = <<p, sent[p]>> /\ status[q[i][1]] = "live"
  BY DEF PubsOK
<1> HIDE DEF q
<1>3. Len(q) \in Nat \ {0}
  BY <1>1, EmptySeq
<1>4. 1 \in 1..Len(q)
  BY <1>3
<1>5. q[1] \in Subs \X Objects
  BY <1>1, <1>4, ElementOfSeq
<1>6. Head(q) = q[1]
  BY <1>1
<1>7. Tail(q) \in Seq(Subs \X Objects) /\ Len(Tail(q)) = Len(q) - 1
      /\ \A i \in 1..Len(Tail(q)) : Tail(q)[i] = q[i + 1]
  BY <1>1, HeadTailProperties
<1>8. \A i \in 1..Len(Tail(q)) : i + 1 \in 1..Len(q)
  BY <1>3, <1>7
<1> QED
  BY <1>1, <1>2, <1>3, <1>4, <1>5, <1>6, <1>7, <1>8 DEF q

-----------------------------------------------------------------------------
(* Every step keeps the buffers sound *)

\* A step that changes one ring buffer, of an element that is not new.
LEMMA RingsUpdate ==
    ASSUME RingsOK, NEW x \in Buffered, NEW e, RingOK(e, Depth[x]),
           ring' = [ring EXCEPT ![x] = e],
           \A t \in Subs : status'[t] = "new" => status[t] = "new" /\ t # x
    PROVE  /\ RingsOK'
           /\ ring'[x] = e /\ \A y \in Buffered : y # x => ring'[y] = ring[y]
<1>1. DOMAIN ring' = Buffered /\ ring'[x] = e
  BY DEF RingsOK
<1>2. \A y \in Buffered : y # x => ring'[y] = ring[y]
  BY DEF RingsOK
<1>3. ASSUME NEW y \in Buffered PROVE RingOK(ring'[y], Depth[y])
  BY <1>1, <1>2 DEF RingsOK
<1>4. ASSUME NEW t \in Subs, status'[t] = "new" PROVE ring'[t].n = 0
  BY <1>2, <1>4, Constants, SMTT(30) DEF RingsOK
<1> QED
  BY <1>1, <1>2, <1>3, <1>4 DEF RingsOK

\* provide_intra_process_data puts the object at the end of the buffer.
LEMMA DeliverRing ==
    ASSUME RingsOK, PubsOK, NEW p \in Pubs, Deliver(p),
           NEW d, d = pub[p].todo[1]
    PROVE  /\ RingsOK'
           /\ d[1] \in Subs /\ d[2] \in Objects
           /\ Enqueued(ring'[d[1]], ring[d[1]], d[2], Depth[d[1]])
           /\ \A y \in Buffered : y # d[1] => ring'[y] = ring[y]
<1>1. Delivering(p)
  BY DEF Deliver, Delivering
<1>2. d[1] \in Subs /\ d[2] \in Objects /\ Head(pub[p].todo) = d /\ status[d[1]] = "live"
  BY <1>1, HeadFacts
<1>3. d[1] \in Buffered /\ Depth[d[1]] \in Nat \ {0} /\ RingOK(ring[d[1]], Depth[d[1]])
  BY <1>2, Constants DEF RingsOK
<1> DEFINE e == Enqueue(ring[d[1]], d[2])
<1>4. ring' = [ring EXCEPT ![d[1]] = e] /\ status' = status
  BY <1>2, SMTT(30) DEF Deliver, mgrVars
<1>5. Enqueued(e, ring[d[1]], d[2], Depth[d[1]])
  BY <1>2, <1>3, EnqueueContent, SMTT(30)
<1> HIDE DEF e
<1>6. RingOK(e, Depth[d[1]])
  BY <1>5 DEF Enqueued
<1>7. \A t \in Subs : status'[t] = "new" => status[t] = "new" /\ t # d[1]
  BY <1>2, <1>4, SMTT(30)
<1>8. RingsOK' /\ ring'[d[1]] = e /\ \A y \in Buffered : y # d[1] => ring'[y] = ring[y]
  BY <1>3, <1>4, <1>6, <1>7, RingsUpdate, ZenonT(40)
<1> QED
  BY <1>2, <1>5, <1>8

\* A transient-local publisher keeps the message it has delivered.
LEMMA StoreRing ==
    ASSUME RingsOK, PubsOK, NEW p \in Pubs, Store(p)
    PROVE  /\ RingsOK'
           /\ p \in Transient /\ pub[p].msg \in Objects
           /\ Enqueued(ring'[p], ring[p], pub[p].msg, Depth[p])
           /\ \A y \in Buffered : y # p => ring'[y] = ring[y]
<1>1. p \in Transient /\ pub[p].pc = "store"
  BY DEF Store, PubsOK
<1>2. pub[p].msg \in {<<p, sent[p]>>} \X {"orig", "copy"} /\ pub[p].msg \in Objects \union {None}
  BY <1>1 DEF PubsOK
<1>3. pub[p].msg \in Objects
  <2>1. sent[p] \in 1..MaxMsgs[p]
    BY <1>1, Constants DEF PubsOK
  <2>2. <<p, sent[p]>> \in Messages
    BY <2>1 DEF Messages
  <2> QED
    BY <1>2, <2>2 DEF Objects
<1>4. p \in Buffered /\ Depth[p] \in Nat \ {0} /\ RingOK(ring[p], Depth[p])
  BY <1>1, Constants DEF RingsOK
<1> DEFINE e == Enqueue(ring[p], pub[p].msg)
<1>5. ring' = [ring EXCEPT ![p] = e] /\ status' = status
  BY DEF Store, mgrVars
<1>6. Enqueued(e, ring[p], pub[p].msg, Depth[p])
  BY <1>3, <1>4, EnqueueContent
<1> HIDE DEF e
<1>7. RingOK(e, Depth[p])
  BY <1>6 DEF Enqueued
<1>8. \A t \in Subs : status'[t] = "new" => status[t] = "new" /\ t # p
  BY <1>5, Constants
<1>9. RingsOK' /\ ring'[p] = e /\ \A y \in Buffered : y # p => ring'[y] = ring[y]
  BY <1>4, <1>5, <1>7, <1>8, RingsUpdate
<1> QED
  BY <1>1, <1>3, <1>6, <1>9

\* consume hands out the oldest element of the buffer.
LEMMA TakeRing ==
    ASSUME RingsOK, NEW s \in Subs, status[s] = "live", HasData(s), Take(s), status' = status
    PROVE  /\ RingsOK'
           /\ Dequeued(ring'[s], ring[s], Depth[s])
           /\ \A y \in Buffered : y # s => ring'[y] = ring[y]
<1>1. s \in Buffered /\ Depth[s] \in Nat \ {0} /\ RingOK(ring[s], Depth[s]) /\ ring[s].n # 0
  BY Constants DEF RingsOK, HasData
<1> DEFINE e == Dequeue(ring[s])
<1>2. ring' = [ring EXCEPT ![s] = e]
  BY DEF Take
<1>3. Dequeued(e, ring[s], Depth[s])
  BY <1>1, DequeueContent
<1> HIDE DEF e
<1>4. RingOK(e, Depth[s])
  BY <1>3 DEF Dequeued
<1>5. \A t \in Subs : status'[t] = "new" => status[t] = "new" /\ t # s
  OBVIOUS
<1>6. RingsOK' /\ ring'[s] = e /\ \A y \in Buffered : y # s => ring'[y] = ring[y]
  BY <1>1, <1>2, <1>4, <1>5, RingsUpdate
<1> QED
  BY <1>3, <1>6

-----------------------------------------------------------------------------
(* What a new transient-local subscription is given *)

\* What one publisher gives to a new subscription.
LEMMA ReplayFacts ==
    ASSUME RingsOK, NEW s \in Subs, NEW p \in Pubs \cap Transient
    PROVE  /\ Replay(s, p) \in Seq(Objects) /\ Len(Replay(s, p)) = ring[p].n
           /\ ring[p].n \in Nat
           /\ Content(ring[p]) \in Seq(Objects) /\ Len(Content(ring[p])) = ring[p].n
           /\ \A i \in 1..ring[p].n :
                  Replay(s, p)[i] = IF s \in Owning THEN <<Content(ring[p])[i][1], s>>
                                                   ELSE Content(ring[p])[i]
<1> DEFINE n == ring[p].n
           C == Content(ring[p])
           R == Replay(s, p)
<1>1. RingOK(ring[p], Depth[p]) /\ Depth[p] \in Nat \ {0}
  BY Constants DEF RingsOK
<1>2. n \in Nat
  BY <1>1 DEF RingOK
<1>3. C \in Seq(Objects) /\ Len(C) = n
  BY <1>1, ContentFacts
<1>4. \A i \in 1..n : R[i] = IF s \in Owning THEN <<C[i][1], s>> ELSE C[i]
  BY DEF Replay
<1>5. R = [i \in 1..n |-> R[i]]
  BY Zenon DEF Replay
<1> HIDE DEF n, C, R
<1>6. ASSUME NEW i \in 1..n PROVE R[i] \in Objects
  <2>1. C[i] \in Objects
    BY <1>3, ElementOfSeq
  <2>2. <<C[i][1], s>> \in Objects
    BY <2>1 DEF Objects
  <2> QED
    BY <1>4, <2>1, <2>2
<1>7. R \in [1..n -> Objects]
  BY <1>5, <1>6, Zenon
<1>8. R \in Seq(Objects) /\ Len(R) = n
  BY <1>2, <1>7, FunctionIsSeq
<1> QED
  BY <1>2, <1>3, <1>4, <1>8 DEF n, C, R

\* ReplayAll goes through the publishers one after the other.
ReplayAllSteps(g, s, order) ==
    /\ ReplayAll(s, order) = g[Len(order)]
    /\ g[0] = <<>>
    /\ \A i \in 1..Len(order) : g[i] = g[i - 1] \o Replay(s, order[i])

\* The recursion over the publishers is well defined.
LEMMA ReplayAllExists ==
    ASSUME RingsOK, NEW s \in Subs, NEW P \in SUBSET (Pubs \cap Transient), NEW order \in Seq(P)
    PROVE  \E g \in [0..Len(order) -> Seq(Objects)] : ReplayAllSteps(g, s, order)
<1> DEFINE n == Len(order)
           X == Seq(Objects)
           W(i, u) == u \o Replay(s, order[i])
           F == [p \in (1..n) \X X |-> W(p[1], p[2])]
           R(g) == g = [i \in 0..n |-> IF i = 0 THEN <<>> ELSE W(i, g[i - 1])]
<1>1. n \in Nat /\ <<>> \in X /\ \A i \in 1..n : order[i] \in P
  BY ElementOfSeq, EmptySeq, LenProperties
<1>2. \A i \in 1..n, u \in X : W(i, u) \in X
  BY <1>1, ReplayFacts, ConcatProperties
<1> HIDE DEF n, X, W
<1>3. \A i \in 1..n, u \in X : F[<<i, u>>] = W(i, u)
  OBVIOUS
<1>30. F \in StepFunctions(n, X)
  BY <1>2 DEF StepFunctions
<1> HIDE DEF F
<1>31. n \in Nat /\ <<>> \in X
  BY <1>1
<1>4. PICK g \in [0..n -> X] : Iterates(g, <<>>, F, n)
  BY <1>30, <1>31, RecursionExists, Zenon
<1>5. \A i \in 1..n : g[i - 1] \in X
  <2>1. \A i \in 1..n : i - 1 \in 0..n
    BY <1>31
  <2> QED
    BY <2>1, Zenon
<1>6. R(g)
  <2>1. Recursive(g, <<>>, F, n)
    BY <1>31, <1>4, RecursionIsFunction, Zenon
  <2>2. ASSUME NEW i \in 0..n, i # 0 PROVE F[<<i, g[i - 1]>>] = W(i, g[i - 1])
    <3>1. i \in 1..n
      BY <1>1, <2>2
    <3> QED
      BY <1>3, <1>5, <3>1
  <2> QED
    BY <2>1, <2>2, Zenon DEF Recursive
<1> DEFINE f == CHOOSE h : R(h)
<1>7. R(f)
  BY <1>6
<1>8. ReplayAll(s, order) = f[n]
  BY DEF ReplayAll, R, W, n
<1> HIDE DEF f
<1>9. f[0] = <<>> /\ \A i \in 1..n : f[i] = W(i, f[i - 1])
  <2>1. 0 \in 0..n /\ \A i \in 1..n : i \in 0..n /\ i # 0
    BY <1>1
  <2> QED
    BY <1>7, <2>1
<1>10. f \in [0..n -> X]
  <2> DEFINE T == {i \in 0..n : f[i] \in X}
  <2>1. 0 \in T
    BY <1>1, <1>9
  <2>2. ASSUME NEW i \in 1..n, i - 1 \in T PROVE i \in T
    <3>1. f[i] = W(i, f[i - 1]) /\ f[i - 1] \in X /\ i \in 0..n
      BY <1>1, <1>9, <2>2
    <3> QED
      BY <1>2, <3>1
  <2> HIDE DEF T
  <2>3. \A i \in 0..n : i \in T
    BY <1>1, <2>1, <2>2, UpToInduction
  <2>4. \A i \in 0..n : f[i] \in X
    BY <2>3 DEF T
  <2>5. f = [i \in 0..n |-> f[i]]
    BY <1>7
  <2> QED
    BY <2>4, <2>5, Zenon
<1> QED
  BY <1>8, <1>9, <1>10 DEF n, X, W, ReplayAllSteps

\* Every object comes from what a publisher keeps.
LEMMA ReplayAllFacts ==
    ASSUME RingsOK, NEW s \in Subs, NEW P \in SUBSET (Pubs \cap Transient), NEW order \in Seq(P)
    PROVE  /\ ReplayAll(s, order) \in Seq(Objects)
           /\ \A k \in 1..Len(ReplayAll(s, order)) : \E p \in P : \E i \in 1..ring[p].n :
                  ReplayAll(s, order)[k] = Replay(s, p)[i]
<1> DEFINE n == Len(order)
           From(x) == \E p \in P : \E i \in 1..ring[p].n : x = Replay(s, p)[i]
<1>1. n \in Nat
  BY LenProperties
<1>2. PICK g \in [0..n -> Seq(Objects)] : ReplayAllSteps(g, s, order)
  BY ReplayAllExists, Zenon
<1>3. /\ ReplayAll(s, order) = g[n] /\ g[0] = <<>>
      /\ \A i \in 1..n : g[i] = g[i - 1] \o Replay(s, order[i])
  BY <1>2 DEF ReplayAllSteps
<1>4. \A i \in 1..n : order[i] \in P
  BY ElementOfSeq
<1> HIDE DEF n
<1> DEFINE T == {i \in 0..n : \A k \in 1..Len(g[i]) : From(g[i][k])}
<1>5. 0 \in T
  <2>1. Len(<<>>) = 0 /\ 0 \in 0..n
    BY <1>1
  <2> QED
    BY <1>3, <2>1
<1>6. ASSUME NEW i \in 1..n, i - 1 \in T PROVE i \in T
  <2>1. i - 1 \in 0..n /\ i \in 0..n
    BY <1>1
  <2> DEFINE u == g[i - 1]
             v == Replay(s, order[i])
             w == u \o v
  <2>2. u \in Seq(Objects) /\ \A k \in 1..Len(u) : From(u[k])
    BY <1>6, <2>1
  <2>3. v \in Seq(Objects) /\ Len(v) = ring[order[i]].n /\ order[i] \in P
    BY <1>4, ReplayFacts
  <2>4. \A k \in 1..Len(v) : From(v[k])
    BY <2>3
  <2> HIDE DEF From, u, v
  <2>5. /\ Len(u) \in Nat /\ Len(v) \in Nat /\ Len(w) = Len(u) + Len(v)
        /\ \A k \in 1..(Len(u) + Len(v)) : w[k] = IF k <= Len(u) THEN u[k] ELSE v[k - Len(u)]
    BY <2>2, <2>3, LenProperties, ConcatProperties
  <2>6. w = g[i]
    BY <1>3 DEF u, v
  <2> HIDE DEF w
  <2>7. ASSUME NEW k \in 1..Len(w) PROVE From(w[k])
    <3>1. CASE k <= Len(u)
      BY <2>2, <2>5, <3>1
    <3>2. CASE ~(k <= Len(u))
      <4>1. k - Len(u) \in 1..Len(v) /\ k \in 1..(Len(u) + Len(v))
        BY <2>5, <3>2
      <4> QED
        BY <2>4, <2>5, <3>2, <4>1
    <3> QED
      BY <3>1, <3>2
  <2> QED
    BY <2>1, <2>6, <2>7
<1> HIDE DEF T
<1>7. \A i \in 0..n : i \in T
  BY <1>1, <1>5, <1>6, UpToInduction
<1>8. n \in T /\ g[n] \in Seq(Objects)
  BY <1>1, <1>7
<1> QED
  BY <1>3, <1>8 DEF T

\* A new subscription starts with what the publishers keep, or with nothing.
LEMMA AddSubscriptionRing ==
    ASSUME RingsOK, NEW s \in Subs, AddSubscription(s), s \in DOMAIN status
    PROVE  /\ RingsOK'
           /\ \A y \in Buffered : y # s => ring'[y] = ring[y]
           /\ \A k \in 1..ring'[s].n : \E p \in Pubs \cap Transient : \E i \in 1..ring[p].n :
                  Content(ring'[s])[k] = Replay(s, p)[i]
           /\ \E m \in Nat : /\ ring'[s].n <= m
                             /\ unread' = [unread EXCEPT ![s] = IF s \in EventSubs THEN @ + m ELSE @]
           /\ \E f \in BOOLEAN : /\ gc' = [gc EXCEPT ![s] = @ \/ f]
                                 /\ s \in WaitSubs /\ ring'[s].n # 0 => f
<1>1. /\ s \in Buffered /\ Depth[s] \in Nat \ {0} /\ RingOK(ring[s], Depth[s]) /\ ring[s].n = 0
      /\ status[s] = "new"
  BY Constants DEF RingsOK, AddSubscription
<1> DEFINE P == IF s \in Transient THEN LivePubs \cap Transient ELSE {}
<1>2. PICK order \in Orders(P) :
          LET xs == ReplayAll(s, order) IN
          /\ ring' = [ring EXCEPT ![s] = EnqueueAll(@, xs)]
          /\ gc' = [gc EXCEPT ![s] = @ \/ (s \in WaitSubs /\ xs # <<>>)]
          /\ unread' = [unread EXCEPT ![s] = IF s \in EventSubs THEN @ + Len(xs) ELSE @]
  BY DEF AddSubscription
<1>3. P \in SUBSET (Pubs \cap Transient) /\ IsFiniteSet(P)
  BY SubsFinite DEF LivePubs
<1> HIDE DEF P
<1>4. order \in Seq(P)
  BY <1>3, OrdersFacts
<1> DEFINE xs == ReplayAll(s, order)
           e == EnqueueAll(ring[s], xs)
<1>5. /\ xs \in Seq(Objects)
      /\ \A k \in 1..Len(xs) : \E p \in P : \E i \in 1..ring[p].n : xs[k] = Replay(s, p)[i]
  BY <1>3, <1>4, ReplayAllFacts
<1>6. /\ ring' = [ring EXCEPT ![s] = e]
      /\ gc' = [gc EXCEPT ![s] = @ \/ (s \in WaitSubs /\ xs # <<>>)]
      /\ unread' = [unread EXCEPT ![s] = IF s \in EventSubs THEN @ + Len(xs) ELSE @]
  BY <1>2
<1> HIDE DEF xs
<1>7. /\ RingOK(e, Depth[s]) /\ e.n <= Len(xs)
      /\ \A k \in 1..e.n : \E i \in 1..Len(xs) : Content(e)[k] = xs[i]
  BY <1>1, <1>5, EnqueueAllElements
<1> HIDE DEF e
<1>8. \A t \in Subs : status'[t] = "new" => status[t] = "new" /\ t # s
  BY DEF AddSubscription
<1>9. RingsOK' /\ ring'[s] = e /\ \A y \in Buffered : y # s => ring'[y] = ring[y]
  BY <1>1, <1>6, <1>7, <1>8, RingsUpdate, ZenonT(40)
<1>10. ASSUME NEW k \in 1..e.n
       PROVE  \E p \in Pubs \cap Transient : \E i \in 1..ring[p].n : Content(e)[k] = Replay(s, p)[i]
  <2>1. PICK j \in 1..Len(xs) : Content(e)[k] = xs[j]
    BY <1>7
  <2>2. PICK p \in P : \E i \in 1..ring[p].n : xs[j] = Replay(s, p)[i]
    BY <1>5
  <2> QED
    BY <1>3, <2>1, <2>2
<1>11. Len(xs) \in Nat
  BY <1>5, LenProperties
<1>12. \E f \in BOOLEAN : gc' = [gc EXCEPT ![s] = @ \/ f] /\ (s \in WaitSubs /\ e.n # 0 => f)
  <2> DEFINE f == s \in WaitSubs /\ xs # <<>>
  <2>1. f \in BOOLEAN /\ gc' = [gc EXCEPT ![s] = @ \/ f]
    BY <1>6
  <2>2. e.n # 0 => xs # <<>>
    <3>1. e.n \in Nat /\ Len(<<>>) = 0
      BY <1>7 DEF RingOK
    <3> QED
      BY <1>7, <3>1
  <2> QED
    BY <2>1, <2>2
<1>13. \E m \in Nat : /\ e.n <= m
                      /\ unread' = [unread EXCEPT ![s] = IF s \in EventSubs THEN @ + m ELSE @]
  BY <1>6, <1>7, <1>11
<1> QED
  BY <1>9, <1>10, <1>12, <1>13, ZenonT(40)

\* The steps that leave every buffer alone and make no subscription new.
LEMMA RingsUnchanged ==
    ASSUME RingsOK, UNCHANGED ring, \A t \in Subs : status'[t] = "new" => status[t] = "new"
    PROVE  RingsOK'
  BY DEF RingsOK

\* Every step keeps the ring buffers sound.
LEMMA RingsStep ==
    ASSUME RingsOK, PubsOK, DOMAIN status = Pubs \union Subs, [Next]_vars
    PROVE  RingsOK'
<1>1. ASSUME NEW p \in Pubs, AddPublisher(p) \/ RemovePublisher(p) PROVE RingsOK'
  BY <1>1, RingsUnchanged, Constants DEF AddPublisher, RemovePublisher
<1>2. ASSUME NEW s \in Subs, AddSubscription(s) PROVE RingsOK'
  BY <1>2, AddSubscriptionRing
<1>3. ASSUME NEW s \in Subs, RemoveSubscription(s) PROVE RingsOK'
  BY <1>3, RingsUnchanged DEF RemoveSubscription
<1>4. ASSUME NEW p \in Pubs, Publish(p) \/ Signal(p) PROVE RingsOK'
  BY <1>4, RingsUnchanged DEF Publish, Signal, mgrVars
<1>5. ASSUME NEW p \in Pubs, Deliver(p) PROVE RingsOK'
  BY <1>5, DeliverRing
<1>6. ASSUME NEW p \in Pubs, Store(p) PROVE RingsOK'
  BY <1>6, StoreRing
<1>7. ASSUME NEW s \in Subs, AddToWaitSet(s) \/ Wake(s) \/ Execute(s) PROVE RingsOK'
  BY <1>7, RingsUnchanged DEF AddToWaitSet, Wake, Execute, mgrVars
<1>8. ASSUME NEW s \in Subs, SetOnReadyCallback(s) \/ ClearOnReadyCallback(s) \/ DropEvent(s)
      PROVE  RingsOK'
  BY <1>8, RingsUnchanged DEF SetOnReadyCallback, ClearOnReadyCallback, DropEvent, mgrVars
<1>9. ASSUME NEW s \in Subs, status[s] = "live", TakeData(s) PROVE RingsOK'
  BY <1>9, TakeRing DEF TakeData, mgrVars
<1>10. ASSUME NEW s \in Subs, status[s] = "live", HandleEvent(s) PROVE RingsOK'
  <2>1. CASE HasData(s)
    BY <1>10, <2>1, TakeRing DEF HandleEvent, mgrVars
  <2>2. CASE ~HasData(s)
    BY <1>10, <2>2, RingsUnchanged DEF HandleEvent, mgrVars
  <2> QED
    BY <2>1, <2>2
<1>11. CASE UNCHANGED vars
  BY <1>11, RingsUnchanged DEF vars
<1> QED
  BY <1>1, <1>2, <1>3, <1>4, <1>5, <1>6, <1>7, <1>8, <1>9, <1>10, <1>11, Constants
     DEF Next, Register, Producer, WaitStep, EventStep

-----------------------------------------------------------------------------
(* Every step keeps the lists of ids *)

\* insert_sub_id_for_pub adds one id to one list.
LEMMA InsertFacts ==
    ASSUME NEW t \in [shared : Seq(Subs \ Owning), owned : Seq(Owning)], NEW s \in Subs,
           Distinct(t.shared), Distinct(t.owned),
           ~(s \in Elems(t.shared) \union Elems(t.owned)),
           NEW u, u = insert_sub_id_for_pub(t, s)
    PROVE  /\ u \in [shared : Seq(Subs \ Owning), owned : Seq(Owning)]
           /\ Distinct(u.shared) /\ Distinct(u.owned)
           /\ Elems(u.shared) \union Elems(u.owned)
                  = Elems(t.shared) \union Elems(t.owned) \union {s}
<1>1. ASSUME NEW S, NEW q \in Seq(S), NEW x \in S, Distinct(q), ~(x \in Elems(q))
      PROVE  Append(q, x) \in Seq(S) /\ Distinct(Append(q, x)) /\ Elems(Append(q, x)) = Elems(q) \union {x}
  <2> DEFINE v == Append(q, x)
  <2>1. /\ v \in Seq(S) /\ Len(q) \in Nat /\ Len(v) = Len(q) + 1 /\ v[Len(q) + 1] = x
        /\ \A k \in 1..Len(q) : v[k] = q[k]
    BY AppendProperties
  <2> HIDE DEF v
  <2>2. \A k \in 1..Len(v) : k \in 1..Len(q) \/ k = Len(q) + 1
    BY <2>1
  <2>3. Len(q) + 1 \in 1..Len(v) /\ \A k \in 1..Len(q) : k \in 1..Len(v)
    BY <2>1
  <2>4. Elems(v) = Elems(q) \union {x}
    BY <2>1, <2>2, <2>3, ZenonT(40) DEF Elems
  <2>5. \A k \in 1..Len(q) : q[k] # x
    BY <1>1 DEF Elems
  <2>6. Distinct(v)
    BY <1>1, <2>1, <2>2, <2>5, SMTT(30) DEF Distinct
  <2> QED
    BY <2>1, <2>4, <2>6 DEF v
<1>2. CASE s \in Owning
  <2>1. u.shared = t.shared /\ u.owned = Append(t.owned, s) /\ u = [shared |-> u.shared, owned |-> u.owned]
    BY <1>2 DEF insert_sub_id_for_pub
  <2>2. /\ u.owned \in Seq(Owning) /\ Distinct(u.owned) /\ Elems(u.owned) = Elems(t.owned) \union {s}
    BY <1>1, <1>2, <2>1
  <2> QED
    BY <2>1, <2>2
<1>3. CASE ~(s \in Owning)
  <2>1. u.owned = t.owned /\ u.shared = Append(t.shared, s) /\ u = [shared |-> u.shared, owned |-> u.owned]
    BY <1>3 DEF insert_sub_id_for_pub
  <2>2. /\ u.shared \in Seq(Subs \ Owning) /\ Distinct(u.shared)
        /\ Elems(u.shared) = Elems(t.shared) \union {s}
    BY <1>1, <1>3, <2>1
  <2> QED
    BY <2>1, <2>2
<1> QED
  BY <1>2, <1>3

\* One publisher's lists.
ListOK(t, live, match) ==
    /\ t \in [shared : Seq(Subs \ Owning), owned : Seq(Owning)]
    /\ Distinct(t.shared) /\ Distinct(t.owned)
    /\ live => Elems(t.shared) \union Elems(t.owned) = match

Matched(p) == {s \in LiveSubs : can_communicate(p, s)}

\* The invariant of the lists, one publisher at a time.
LEMMA ListsParts ==
    ListsOK <=> /\ status \in [Pubs \union Subs -> {"new", "live", "gone"}]
                /\ targets = [q \in Pubs |-> targets[q]]
                /\ \A q \in Pubs : ListOK(targets[q], q \in LivePubs, Matched(q))
<1>1. targets \in [Pubs -> [shared : Seq(Subs \ Owning), owned : Seq(Owning)]]
          <=> /\ targets = [q \in Pubs |-> targets[q]]
              /\ \A p \in Pubs : targets[p] \in [shared : Seq(Subs \ Owning), owned : Seq(Owning)]
  BY Zenon
<1>2. \A p \in LivePubs : p \in Pubs
  BY DEF LivePubs
<1> QED
  BY <1>1, <1>2, Zenon DEF ListsOK, ListOK, Matched

\* add_publisher lists the matching subscriptions.
LEMMA AddPublisherLists ==
    ASSUME ListsOK, NEW p \in Pubs, AddPublisher(p)
    PROVE  ListsOK'
<1>1. /\ status \in [Pubs \union Subs -> {"new", "live", "gone"}]
      /\ targets = [q \in Pubs |-> targets[q]]
      /\ \A q \in Pubs : ListOK(targets[q], q \in LivePubs, Matched(q))
  BY ListsParts
<1>2. status' = [status EXCEPT ![p] = "live"]
  BY DEF AddPublisher
<1>3. /\ status' \in [Pubs \union Subs -> {"new", "live", "gone"}]
      /\ LiveSubs' = LiveSubs /\ \A q \in Pubs : q # p => (q \in LivePubs' <=> q \in LivePubs)
  BY <1>1, <1>2, Constants DEF LiveSubs, LivePubs
<1>4. \A q \in Pubs : Matched(q)' = Matched(q)
  BY <1>3 DEF Matched, can_communicate
<1> DEFINE M == Matched(p)
<1>5. PICK sh \in Orders(M \ Owning), ow \in Orders(M \cap Owning) :
          targets' = [targets EXCEPT ![p] = [shared |-> sh, owned |-> ow]]
  BY DEF AddPublisher, Matched
<1>6. M \subseteq Subs
  BY DEF Matched, LiveSubs
<1> HIDE DEF M
<1>7. IsFiniteSet(M \ Owning) /\ IsFiniteSet(M \cap Owning)
  BY <1>6, SubsFinite
<1>8. sh \in Seq(M \ Owning) /\ Distinct(sh) /\ Elems(sh) = M \ Owning
  BY <1>7, OrdersFacts
<1>9. ow \in Seq(M \cap Owning) /\ Distinct(ow) /\ Elems(ow) = M \cap Owning
  BY <1>7, OrdersFacts
<1>10. sh \in Seq(Subs \ Owning) /\ ow \in Seq(Owning)
  <2>1. M \ Owning \subseteq Subs \ Owning /\ M \cap Owning \subseteq Owning
    BY <1>6
  <2> QED
    BY <1>8, <1>9, <2>1, SeqMonotonic, Zenon
<1> DEFINE t == [shared |-> sh, owned |-> ow]
<1>11. ListOK(t, p \in LivePubs', M)
  <2>1. t.shared = sh /\ t.owned = ow /\ t \in [shared : Seq(Subs \ Owning), owned : Seq(Owning)]
    BY <1>10
  <2>2. Elems(sh) \union Elems(ow) = M
    BY <1>8, <1>9
  <2> HIDE DEF t
  <2> QED
    BY <1>8, <1>9, <2>1, <2>2, Zenon DEF ListOK
<1>12. targets' = [q \in Pubs |-> IF q = p THEN t ELSE targets[q]]
  BY <1>1, <1>5
<1> HIDE DEF t
<1>13. targets' = [q \in Pubs |-> targets'[q]]
  BY <1>12
<1>14. ASSUME NEW q \in Pubs PROVE ListOK(targets'[q], q \in LivePubs', Matched(q)')
  <2>1. CASE q = p
    BY <1>4, <1>11, <1>12, <2>1 DEF M
  <2>2. CASE q # p
    <3>1. targets'[q] = targets[q] /\ Matched(q)' = Matched(q) /\ (q \in LivePubs' <=> q \in LivePubs)
      BY <1>3, <1>4, <1>12, <2>2
    <3> QED
      BY <1>1, <3>1 DEF ListOK
  <2> QED
    BY <2>1, <2>2
<1>15. ListsOK' <=> (/\ status \in [Pubs \union Subs -> {"new", "live", "gone"}]
                     /\ targets = [q \in Pubs |-> targets[q]]
                     /\ \A q \in Pubs : ListOK(targets[q], q \in LivePubs, Matched(q)))'
  BY ListsParts, PTL
<1> QED
  BY <1>3, <1>13, <1>14, <1>15

\* add_subscription appends to the lists of the matching publishers.
LEMMA AddSubscriptionLists ==
    ASSUME ListsOK, NEW s \in Subs, AddSubscription(s)
    PROVE  ListsOK'
<1>1. /\ status \in [Pubs \union Subs -> {"new", "live", "gone"}]
      /\ targets = [q \in Pubs |-> targets[q]]
      /\ \A q \in Pubs : ListOK(targets[q], q \in LivePubs, Matched(q))
  BY ListsParts
<1>2. status' = [status EXCEPT ![s] = "live"] /\ status[s] = "new"
  BY DEF AddSubscription
<1>3. /\ status' \in [Pubs \union Subs -> {"new", "live", "gone"}]
      /\ LiveSubs' = LiveSubs \union {s} /\ LivePubs' = LivePubs /\ ~(s \in LiveSubs)
  BY <1>1, <1>2, Constants DEF LiveSubs, LivePubs
<1>4. targets' = [q \in Pubs |-> IF q \in LivePubs /\ can_communicate(q, s)
                                 THEN insert_sub_id_for_pub(targets[q], s) ELSE targets[q]]
  BY DEF AddSubscription
<1>5. targets' = [q \in Pubs |-> targets'[q]]
  BY <1>4
<1>6. ASSUME NEW q \in Pubs PROVE ListOK(targets'[q], q \in LivePubs', Matched(q)')
  <2>1. ListOK(targets[q], q \in LivePubs, Matched(q))
    BY <1>1
  <2>2. Matched(q)' = IF can_communicate(q, s) THEN Matched(q) \union {s} ELSE Matched(q)
    BY <1>3 DEF Matched, can_communicate
  <2>3. CASE q \in LivePubs /\ can_communicate(q, s)
    <3> DEFINE t == targets[q]
               u == insert_sub_id_for_pub(t, s)
    <3>1. targets'[q] = u
      BY <1>4, <2>3
    <3>2. /\ t \in [shared : Seq(Subs \ Owning), owned : Seq(Owning)]
          /\ Distinct(t.shared) /\ Distinct(t.owned)
          /\ Elems(t.shared) \union Elems(t.owned) = Matched(q)
      BY <2>1, <2>3 DEF ListOK
    <3>3. ~(s \in Matched(q))
      BY <1>3 DEF Matched
    <3> HIDE DEF t
    <3>4. /\ u \in [shared : Seq(Subs \ Owning), owned : Seq(Owning)]
          /\ Distinct(u.shared) /\ Distinct(u.owned)
          /\ Elems(u.shared) \union Elems(u.owned)
                 = Elems(t.shared) \union Elems(t.owned) \union {s}
      BY <3>2, <3>3, InsertFacts
    <3> HIDE DEF u
    <3>5. Elems(u.shared) \union Elems(u.owned) = Matched(q)'
      BY <2>2, <2>3, <3>2, <3>4
    <3> QED
      BY <3>1, <3>4, <3>5 DEF ListOK
  <2>4. CASE ~(q \in LivePubs /\ can_communicate(q, s))
    <3>1. targets'[q] = targets[q]
      BY <1>4, <2>4
    <3>2. q \in LivePubs' => q \in LivePubs /\ Matched(q)' = Matched(q)
      BY <1>3, <2>2, <2>4
    <3> QED
      BY <2>1, <3>1, <3>2 DEF ListOK
  <2> QED
    BY <2>3, <2>4
<1>7. ListsOK' <=> (/\ status \in [Pubs \union Subs -> {"new", "live", "gone"}]
                    /\ targets = [q \in Pubs |-> targets[q]]
                    /\ \A q \in Pubs : ListOK(targets[q], q \in LivePubs, Matched(q)))'
  BY ListsParts, PTL
<1> QED
  BY <1>3, <1>5, <1>6, <1>7

\* remove_subscription takes the id off every list.
LEMMA RemoveSubscriptionLists ==
    ASSUME ListsOK, NEW s \in Subs, RemoveSubscription(s)
    PROVE  ListsOK'
<1>1. /\ status \in [Pubs \union Subs -> {"new", "live", "gone"}]
      /\ targets = [q \in Pubs |-> targets[q]]
      /\ \A q \in Pubs : ListOK(targets[q], q \in LivePubs, Matched(q))
  BY ListsParts
<1>2. status' = [status EXCEPT ![s] = "gone"]
  BY DEF RemoveSubscription
<1>3. /\ status' \in [Pubs \union Subs -> {"new", "live", "gone"}]
      /\ LiveSubs' = LiveSubs \ {s} /\ LivePubs' = LivePubs
  BY <1>1, <1>2, Constants DEF LiveSubs, LivePubs
<1>4. targets' = [q \in Pubs |-> [shared |-> Without(targets[q].shared, s),
                                  owned |-> Without(targets[q].owned, s)]]
  BY DEF RemoveSubscription
<1>5. targets' = [q \in Pubs |-> targets'[q]]
  BY <1>4
<1>6. ASSUME NEW q \in Pubs PROVE ListOK(targets'[q], q \in LivePubs', Matched(q)')
  <2> DEFINE sh == targets[q].shared
             ow == targets[q].owned
             wsh == Without(sh, s)
             wow == Without(ow, s)
  <2>1. /\ sh \in Seq(Subs \ Owning) /\ ow \in Seq(Owning) /\ Distinct(sh) /\ Distinct(ow)
        /\ q \in LivePubs => Elems(sh) \union Elems(ow) = Matched(q)
    BY <1>1 DEF ListOK
  <2>2. Matched(q)' = Matched(q) \ {s}
    BY <1>3 DEF Matched, can_communicate
  <2>3. targets'[q] = [shared |-> wsh, owned |-> wow]
    BY <1>4
  <2> HIDE DEF sh, ow
  <2>4. wsh \in Seq(Subs \ Owning) /\ Distinct(wsh) /\ Elems(wsh) = Elems(sh) \ {s}
    BY <2>1, WithoutFacts
  <2>5. wow \in Seq(Owning) /\ Distinct(wow) /\ Elems(wow) = Elems(ow) \ {s}
    BY <2>1, WithoutFacts
  <2> HIDE DEF wsh, wow
  <2>6. q \in LivePubs' => Elems(wsh) \union Elems(wow) = Matched(q)'
    BY <1>3, <2>1, <2>2, <2>4, <2>5
  <2>7. targets'[q].shared = wsh /\ targets'[q].owned = wow
    BY <2>3
  <2> QED
    BY <2>3, <2>4, <2>5, <2>6, <2>7 DEF ListOK
<1>7. ListsOK' <=> (/\ status \in [Pubs \union Subs -> {"new", "live", "gone"}]
                    /\ targets = [q \in Pubs |-> targets[q]]
                    /\ \A q \in Pubs : ListOK(targets[q], q \in LivePubs, Matched(q)))'
  BY ListsParts, PTL
<1> QED
  BY <1>3, <1>5, <1>6, <1>7

\* remove_publisher drops its lists.
LEMMA RemovePublisherLists ==
    ASSUME ListsOK, NEW p \in Pubs, RemovePublisher(p)
    PROVE  ListsOK'
<1>1. /\ status \in [Pubs \union Subs -> {"new", "live", "gone"}]
      /\ targets = [q \in Pubs |-> targets[q]]
      /\ \A q \in Pubs : ListOK(targets[q], q \in LivePubs, Matched(q))
  BY ListsParts
<1>2. status' = [status EXCEPT ![p] = "gone"]
  BY DEF RemovePublisher
<1>3. /\ status' \in [Pubs \union Subs -> {"new", "live", "gone"}]
      /\ LiveSubs' = LiveSubs /\ LivePubs' = LivePubs \ {p}
  BY <1>1, <1>2, Constants DEF LiveSubs, LivePubs
<1> DEFINE none == [shared |-> <<>>, owned |-> <<>>]
<1>4. targets' = [q \in Pubs |-> IF q = p THEN none ELSE targets[q]]
  BY <1>1 DEF RemovePublisher
<1>5. ASSUME NEW m PROVE ListOK(none, FALSE, m)
  <2>1. <<>> \in Seq(Subs \ Owning) /\ <<>> \in Seq(Owning) /\ Distinct(<<>>)
    BY DEF Distinct
  <2> QED
    BY <2>1 DEF ListOK
<1> HIDE DEF none
<1>6. targets' = [q \in Pubs |-> targets'[q]]
  BY <1>4
<1>7. ASSUME NEW q \in Pubs PROVE ListOK(targets'[q], q \in LivePubs', Matched(q)')
  <2>1. CASE q = p
    <3>1. targets'[q] = none /\ ~(q \in LivePubs') /\ ListOK(none, FALSE, Matched(q)')
      BY <1>3, <1>4, <1>5, <2>1
    <3> QED
      BY <3>1 DEF ListOK
  <2>2. CASE q # p
    <3>1. targets'[q] = targets[q] /\ Matched(q)' = Matched(q) /\ (q \in LivePubs' <=> q \in LivePubs)
      BY <1>3, <1>4, <2>2 DEF Matched, can_communicate
    <3> QED
      BY <1>1, <3>1 DEF ListOK
  <2> QED
    BY <2>1, <2>2
<1>8. ListsOK' <=> (/\ status \in [Pubs \union Subs -> {"new", "live", "gone"}]
                    /\ targets = [q \in Pubs |-> targets[q]]
                    /\ \A q \in Pubs : ListOK(targets[q], q \in LivePubs, Matched(q)))'
  BY ListsParts, PTL
<1> QED
  BY <1>3, <1>6, <1>7, <1>8

\* Every step keeps the lists of recipients exact.
LEMMA ListsStep ==
    ASSUME ListsOK, [Next]_vars
    PROVE  ListsOK'
<1>1. ASSUME UNCHANGED <<status, targets>> PROVE ListsOK'
  BY <1>1 DEF ListsOK, LivePubs, LiveSubs, can_communicate
<1>2. ASSUME NEW p \in Pubs, Publish(p) \/ Producer(p) PROVE ListsOK'
  BY <1>1, <1>2 DEF Publish, Producer, Deliver, Signal, Store, mgrVars
<1>3. ASSUME NEW s \in Subs, WaitStep(s) PROVE ListsOK'
  BY <1>1, <1>3 DEF WaitStep, AddToWaitSet, Wake, TakeData, Execute, mgrVars
<1>4. ASSUME NEW s \in Subs, SetOnReadyCallback(s) \/ ClearOnReadyCallback(s) \/ EventStep(s)
      PROVE  ListsOK'
  BY <1>1, <1>4 DEF SetOnReadyCallback, ClearOnReadyCallback, EventStep, HandleEvent, DropEvent,
                    Execute, mgrVars
<1>5. CASE UNCHANGED vars
  BY <1>1, <1>5 DEF vars
<1> QED
  BY <1>2, <1>3, <1>4, <1>5, AddPublisherLists, RemovePublisherLists, AddSubscriptionLists,
     RemoveSubscriptionLists, Constants DEF Next, Register

-----------------------------------------------------------------------------
(* Who gets which object *)

\* v is q, a list of elements of A, then r, a list of elements of B.
Joined(v, q, r, A, B) ==
    /\ v \in Seq(A \union B) /\ Len(v) = Len(q) + Len(r)
    /\ \A i \in 1..Len(q) : v[i] = q[i] /\ q[i] \in A
    /\ \A i \in (Len(q) + 1)..(Len(q) + Len(r)) : v[i] = r[i - Len(q)] /\ r[i - Len(q)] \in B
    /\ Distinct(v)
    /\ Elems(v) = Elems(q) \union Elems(r)

\* Two lists without a common element.
LEMMA ConcatLists ==
    ASSUME NEW A, NEW B, A \cap B = {}, NEW q \in Seq(A), NEW r \in Seq(B), Distinct(q), Distinct(r)
    PROVE  Joined(q \o r, q, r, A, B)
<1> USE DEF Joined
<1> DEFINE v == q \o r
           m == Len(q)
           n == Len(r)
<1>1. q \in Seq(A \union B) /\ r \in Seq(A \union B) /\ m \in Nat /\ n \in Nat
  BY SeqMonotonic, LenProperties
<1>2. /\ v \in Seq(A \union B) /\ Len(v) = m + n
      /\ \A i \in 1..(m + n) : v[i] = IF i <= m THEN q[i] ELSE r[i - m]
  BY <1>1, ConcatProperties
<1>3. (\A i \in 1..m : q[i] \in A) /\ (\A i \in 1..n : r[i] \in B)
  BY ElementOfSeq
<1>4. /\ \A i, j \in 1..m : q[i] = q[j] => i = j
      /\ \A i, j \in 1..n : r[i] = r[j] => i = j
  BY DEF Distinct
<1>0. Elems(q) = {q[i] : i \in 1..m} /\ Elems(r) = {r[i] : i \in 1..n}
  BY DEF Elems
<1> HIDE DEF v, m, n
<1>5. ASSUME NEW i \in 1..m PROVE v[i] = q[i] /\ q[i] \in A /\ i \in 1..(m + n)
  BY <1>1, <1>2, <1>3
<1>6. ASSUME NEW i \in (m + 1)..(m + n)
      PROVE  v[i] = r[i - m] /\ r[i - m] \in B /\ i - m \in 1..n /\ i \in 1..(m + n)
  <2>1. i \in 1..(m + n) /\ ~(i <= m) /\ i - m \in 1..n
    BY <1>1
  <2> QED
    BY <1>2, <1>3, <2>1
<1>7. \A i \in 1..(m + n) : i \in 1..m \/ i \in (m + 1)..(m + n)
  BY <1>1
<1>8. ASSUME NEW i \in 1..(m + n), NEW j \in 1..(m + n), v[i] = v[j] PROVE i = j
  <2>1. CASE i \in 1..m /\ j \in 1..m
    BY <1>4, <1>5, <1>8, <2>1
  <2>2. CASE i \in 1..m /\ j \in (m + 1)..(m + n)
    BY <1>5, <1>6, <1>8, <2>2
  <2>3. CASE i \in (m + 1)..(m + n) /\ j \in 1..m
    BY <1>5, <1>6, <1>8, <2>3
  <2>4. CASE i \in (m + 1)..(m + n) /\ j \in (m + 1)..(m + n)
    <3>1. i - m = j - m
      BY <1>4, <1>6, <1>8, <2>4
    <3> QED
      BY <1>1, <3>1
  <2> QED
    BY <1>7, <2>1, <2>2, <2>3, <2>4
<1>9. Distinct(v)
  BY <1>2, <1>8 DEF Distinct
<1>10. Elems(v) = Elems(q) \union Elems(r)
  <2>1. \A i \in 1..(m + n) : v[i] \in Elems(q) \union Elems(r)
    BY <1>0, <1>5, <1>6, <1>7
  <2>2. \A i \in 1..m : \E j \in 1..(m + n) : q[i] = v[j]
    BY <1>5
  <2>3. ASSUME NEW i \in 1..n PROVE \E j \in 1..(m + n) : r[i] = v[j]
    <3> DEFINE k == i + m
    <3>1. k \in (m + 1)..(m + n) /\ k - m = i
      BY <1>1
    <3> HIDE DEF k
    <3>2. v[k] = r[k - m] /\ k \in 1..(m + n)
      BY <1>6, <3>1
    <3> QED
      BY <3>1, <3>2
  <2>4. Elems(v) = {v[i] : i \in 1..(m + n)}
    BY <1>2 DEF Elems
  <2> QED
    BY <1>0, <2>1, <2>2, <2>3, <2>4, ZenonT(40)
<1> QED
  BY <1>2, <1>5, <1>6, <1>9, <1>10 DEF v, m, n

\* The tag of the object that recipient i of ids gets, ns of them shared.
TagOf(i, ids, ns, no, wantsShared) ==
    IF no = 0 THEN "orig"
    ELSE IF i <= ns /\ (wantsShared \/ ns > 1) THEN "copy"
    ELSE IF i = ns + no THEN "orig" ELSE ids[i]

\* add_shared_msg_to_buffers, element by element.
LEMMA SharedToFacts ==
    ASSUME NEW x, NEW ids \in Seq(Subs)
    PROVE  /\ Len(SharedTo(x, ids)) = Len(ids)
           /\ \A i \in 1..Len(ids) : SharedTo(x, ids)[i] = <<ids[i], x>>
           /\ SharedTo(x, ids) \in Seq(Subs \X {x})
<1> DEFINE n == Len(ids)
           q == SharedTo(x, ids)
<1>1. n \in Nat /\ \A i \in 1..n : ids[i] \in Subs
  BY LenProperties, ElementOfSeq
<1>2. q = [i \in 1..n |-> <<ids[i], x>>]
  BY DEF SharedTo
<1> HIDE DEF n, q
<1>3. q \in [1..n -> Subs \X {x}]
  BY <1>1, <1>2
<1>4. q \in Seq(Subs \X {x}) /\ Len(q) = n
  BY <1>1, <1>3, FunctionIsSeq
<1> QED
  BY <1>2, <1>4 DEF n, q

OwnerTag(ids, i) == IF i = Len(ids) THEN "orig" ELSE ids[i]

Owners(m) == Subs \X ({m} \X (Subs \union {"orig"}))

\* add_owned_msg_to_buffers, element by element.
LEMMA OwnedToFacts ==
    ASSUME NEW m, NEW ids \in Seq(Subs)
    PROVE  /\ Len(OwnedTo(m, ids)) = Len(ids)
           /\ \A i \in 1..Len(ids) : OwnedTo(m, ids)[i] = <<ids[i], <<m, OwnerTag(ids, i)>>>>
           /\ OwnedTo(m, ids) \in Seq(Owners(m))
<1> DEFINE n == Len(ids)
           q == OwnedTo(m, ids)
           V(i) == <<ids[i], <<m, OwnerTag(ids, i)>>>>
           W == Owners(m)
<1>1. n \in Nat /\ \A i \in 1..n : ids[i] \in Subs
  BY LenProperties, ElementOfSeq
<1>2. q = [i \in 1..n |-> V(i)]
  BY DEF OwnedTo, OwnerTag
<1>3. \A i \in 1..n : V(i) \in W
  BY <1>1 DEF Owners, OwnerTag
<1> HIDE DEF n, q
<1> HIDE DEF V, W
<1>4. q \in [1..n -> W] /\ \A i \in 1..n : q[i] = V(i)
  BY <1>2, <1>3
<1>5. q \in Seq(W) /\ Len(q) = n
  BY <1>1, <1>4, FunctionIsSeq
<1> QED
  BY <1>4, <1>5 DEF n, q, V, W

Assigned(todo, ids, m, ns, no, ws) ==
    /\ Len(todo) = Len(ids) /\ todo = [i \in 1..Len(ids) |-> todo[i]]
    /\ \A i \in 1..Len(ids) : todo[i] = <<ids[i], <<m, TagOf(i, ids, ns, no, ws)>>>>

\* The three ways a message is handed out, in one form.
LEMMA RecipientsForm ==
    ASSUME NEW m, NEW t \in [shared : Seq(Subs \ Owning), owned : Seq(Owning)],
           NEW ws \in BOOLEAN, Distinct(t.shared), Distinct(t.owned),
           NEW ids, ids = t.shared \o t.owned, NEW todo, todo = Recipients(m, t, ws)
    PROVE  Assigned(todo, ids, m, Len(t.shared), Len(t.owned), ws)
<1> USE DEF Assigned
<1> DEFINE sh == t.shared
           ow == t.owned
           ns == Len(sh)
           no == Len(ow)
<1>1. sh \in Seq(Subs \ Owning) /\ ow \in Seq(Owning)
  OBVIOUS
<1>2. sh \in Seq(Subs) /\ ow \in Seq(Subs) /\ ns \in Nat /\ no \in Nat
  <2>1. Subs \ Owning \subseteq Subs /\ Owning \subseteq Subs
    BY Constants
  <2> QED
    BY <1>1, <2>1, SeqMonotonic, LenProperties
<1>3. /\ ids \in Seq((Subs \ Owning) \union Owning) /\ Len(ids) = ns + no
      /\ \A i \in 1..ns : ids[i] = sh[i]
      /\ \A i \in (ns + 1)..(ns + no) : ids[i] = ow[i - ns]
  <2>1. (Subs \ Owning) \cap Owning = {}
    OBVIOUS
  <2> QED
    BY <1>1, <2>1, ConcatLists DEF Joined
<1>4. ids \in Seq(Subs)
  <2>1. (Subs \ Owning) \union Owning = Subs
    BY Constants
  <2> QED
    BY <1>3, <2>1
<1>5. ow = <<>> <=> no = 0
  BY <1>1, EmptySeq
<1>6. todo = IF ow = <<>> THEN SharedTo(<<m, "orig">>, sh)
             ELSE IF ~ws /\ ns <= 1 THEN OwnedTo(m, ids)
             ELSE SharedTo(<<m, "copy">>, sh) \o OwnedTo(m, ow)
  BY DEF Recipients
<1> HIDE DEF sh, ow, ns, no
<1>7. CASE ow = <<>>
  <2>1. todo = SharedTo(<<m, "orig">>, sh) /\ no = 0 /\ Len(ids) = ns
    BY <1>2, <1>3, <1>5, <1>6, <1>7
  <2>2. Len(todo) = ns /\ \A i \in 1..ns : todo[i] = <<sh[i], <<m, "orig">>>>
    BY <1>2, <2>1, SharedToFacts, ZenonT(40) DEF ns
  <2>3. todo = [i \in 1..ns |-> todo[i]]
    BY <2>1 DEF SharedTo, ns
  <2> QED
    BY <1>3, <2>1, <2>2, <2>3 DEF TagOf, ns, no, sh, ow
<1>8. CASE ow # <<>> /\ ~ws /\ ns <= 1
  <2>1. todo = OwnedTo(m, ids)
    BY <1>6, <1>8
  <2>2. /\ Len(todo) = Len(ids)
        /\ \A i \in 1..Len(ids) : todo[i] = <<ids[i], <<m, OwnerTag(ids, i)>>>>
    BY <1>4, <2>1, OwnedToFacts, ZenonT(40)
  <2>3. todo = [i \in 1..Len(ids) |-> todo[i]]
    BY <2>1 DEF OwnedTo
  <2>4. \A i \in 1..Len(ids) : TagOf(i, ids, ns, no, ws) = OwnerTag(ids, i)
    BY <1>2, <1>3, <1>5, <1>8 DEF TagOf, OwnerTag
  <2> QED
    BY <2>2, <2>3, <2>4 DEF ns, no, sh, ow
<1>9. CASE ow # <<>> /\ ~(~ws /\ ns <= 1)
  <2> DEFINE u == SharedTo(<<m, "copy">>, sh)
             v == OwnedTo(m, ow)
             A == Subs \X {<<m, "copy">>}
             W == A \union Owners(m)
  <2>1. todo = u \o v
    BY <1>6, <1>9
  <2>2. /\ Len(u) = ns /\ \A i \in 1..ns : u[i] = <<sh[i], <<m, "copy">>>>
        /\ u \in Seq(A)
    BY <1>2, SharedToFacts DEF ns
  <2>3. /\ Len(v) = no
        /\ \A i \in 1..no : v[i] = <<ow[i], <<m, OwnerTag(ow, i)>>>>
        /\ v \in Seq(Owners(m))
    BY <1>2, OwnedToFacts DEF no
  <2> HIDE DEF u, v, A
  <2>4. u \in Seq(W) /\ v \in Seq(W)
    <3>1. A \subseteq W /\ Owners(m) \subseteq W
      OBVIOUS
    <3> HIDE DEF W
    <3>2. u \in Seq(A) /\ v \in Seq(Owners(m))
      BY <2>2, <2>3
    <3> QED
      BY <3>1, <3>2, SeqMonotonic, Zenon
  <2> HIDE DEF W
  <2>5. /\ todo \in Seq(W) /\ Len(todo) = ns + no
        /\ \A i \in 1..(ns + no) : todo[i] = IF i <= ns THEN u[i] ELSE v[i - ns]
    <3>1. /\ todo \in Seq(W) /\ Len(todo) = Len(u) + Len(v)
          /\ \A i \in 1..(Len(u) + Len(v)) : todo[i] = IF i <= Len(u) THEN u[i] ELSE v[i - Len(u)]
      BY <2>1, <2>4, ConcatProperties
    <3>2. Len(u) = ns /\ Len(v) = no
      BY <2>2, <2>3
    <3> QED
      BY <3>1, <3>2
  <2>6. todo = [i \in 1..Len(ids) |-> todo[i]]
    BY <1>3, <2>5, LenProperties
  <2>7. ASSUME NEW i \in 1..(ns + no)
        PROVE  todo[i] = <<ids[i], <<m, TagOf(i, ids, ns, no, ws)>>>>
    <3>1. CASE i <= ns
      <4>1. i \in 1..ns /\ no # 0 /\ (ws \/ ns > 1)
        BY <1>2, <1>5, <1>9, <3>1
      <4>2. TagOf(i, ids, ns, no, ws) = "copy"
        BY <3>1, <4>1 DEF TagOf
      <4> QED
        BY <1>3, <2>2, <2>5, <3>1, <4>1, <4>2, SMTT(30)
    <3>2. CASE ~(i <= ns)
      <4>1. i \in (ns + 1)..(ns + no) /\ i - ns \in 1..no /\ no # 0 /\ (i - ns = no <=> i = ns + no)
        BY <1>2, <3>2
      <4>2. TagOf(i, ids, ns, no, ws) = IF i = ns + no THEN "orig" ELSE ids[i]
        BY <3>2, <4>1 DEF TagOf
      <4>3. ids[i] = ow[i - ns] /\ todo[i] = v[i - ns]
        BY <1>3, <2>5, <3>2, <4>1
      <4>4. OwnerTag(ow, i - ns) = IF i = ns + no THEN "orig" ELSE ids[i]
        BY <4>1, <4>3 DEF OwnerTag, no
      <4> QED
        BY <2>3, <4>1, <4>2, <4>3, <4>4
    <3> QED
      BY <3>1, <3>2
  <2> QED
    BY <1>3, <2>5, <2>6, <2>7 DEF ns, no, sh, ow
<1> QED
  BY <1>7, <1>8, <1>9

\* The list of recipients of a message: every id once, each with an object of
\* that message; an owner's object is nobody else's, and not the kept one.
RecipientsOK(todo, m, t, ws) ==
    LET n == Len(todo) IN
    /\ todo \in Seq(Subs \X Objects)
    /\ \A i, j \in 1..n : todo[i][1] = todo[j][1] => i = j
    /\ {todo[i][1] : i \in 1..n} = Elems(t.shared) \union Elems(t.owned)
    /\ \A i \in 1..n :
           /\ todo[i][2][1] = m
           /\ todo[i][2][2] \in {todo[i][1], "orig"}
                  \union (IF todo[i][1] \in Owning THEN {} ELSE {"copy"})
    /\ \A i, j \in 1..n : i # j /\ todo[i][1] \in Owning => todo[i][2] # todo[j][2]
    /\ \A i \in 1..n : ws /\ todo[i][1] \in Owning =>
           todo[i][2] # <<m, IF t.owned = <<>> THEN "orig" ELSE "copy">>

\* Every recipient once, the right message, and no owner shares its object.
LEMMA RecipientsFacts ==
    ASSUME NEW m \in Messages, NEW t \in [shared : Seq(Subs \ Owning), owned : Seq(Owning)],
           NEW ws \in BOOLEAN, Distinct(t.shared), Distinct(t.owned)
    PROVE  RecipientsOK(Recipients(m, t, ws), m, t, ws)
<1> DEFINE sh == t.shared
           ow == t.owned
           ns == Len(sh)
           no == Len(ow)
           ids == sh \o ow
           n == Len(ids)
           todo == Recipients(m, t, ws)
           tag(i) == TagOf(i, ids, ns, no, ws)
<1>1. sh \in Seq(Subs \ Owning) /\ ow \in Seq(Owning) /\ ns \in Nat /\ no \in Nat
  BY LenProperties
<1>2. /\ n = ns + no
      /\ \A i \in 1..ns : ids[i] = sh[i] /\ sh[i] \in Subs \ Owning
      /\ \A i \in (ns + 1)..(ns + no) : ids[i] = ow[i - ns] /\ ow[i - ns] \in Owning
      /\ Distinct(ids) /\ Elems(ids) = Elems(sh) \union Elems(ow)
  <2>1. (Subs \ Owning) \cap Owning = {}
    OBVIOUS
  <2>2. Distinct(sh) /\ Distinct(ow)
    OBVIOUS
  <2> HIDE DEF sh, ow
  <2> QED
    <3>1. Joined(sh \o ow, sh, ow, Subs \ Owning, Owning)
      BY <1>1, <2>1, <2>2, ConcatLists
    <3> QED
      BY <3>1 DEF Joined
<1>3. /\ Len(todo) = n /\ todo = [i \in 1..n |-> todo[i]]
      /\ \A i \in 1..n : todo[i] = <<ids[i], <<m, tag(i)>>>>
  <2>1. ids = t.shared \o t.owned /\ todo = Recipients(m, t, ws)
    OBVIOUS
  <2> HIDE DEF ids, todo
  <2> QED
    <3>1. Assigned(todo, ids, m, ns, no, ws)
      BY <2>1, RecipientsForm
    <3> QED
      BY <3>1 DEF Assigned
<1>4. ow = <<>> <=> no = 0
  BY <1>1, EmptySeq
<1>5. \A i \in 1..n, j \in 1..n : ids[i] = ids[j] => i = j
  BY <1>2 DEF Distinct
<1>6. Elems(ids) = {ids[i] : i \in 1..n}
  BY DEF Elems
<1> HIDE DEF sh, ow, ns, no, ids, n, todo
<1>7. \A i \in 1..n : /\ i \in 1..ns \/ i \in (ns + 1)..(ns + no)
                      /\ ids[i] \in Owning <=> i > ns
                      /\ ids[i] \in Subs
  <2> SUFFICES ASSUME NEW i \in 1..n
               PROVE  /\ i \in 1..ns \/ i \in (ns + 1)..(ns + no)
                      /\ ids[i] \in Owning <=> i > ns
                      /\ ids[i] \in Subs
    OBVIOUS
  <2>1. CASE i <= ns
    <3>1. i \in 1..ns /\ ~(i > ns)
      BY <1>1, <2>1
    <3> QED
      BY <1>2, <3>1
  <2>2. CASE i > ns
    <3>1. i \in (ns + 1)..(ns + no)
      BY <1>1, <1>2, <2>2
    <3> QED
      BY <1>2, <2>2, <3>1, Constants
  <2> QED
    BY <1>1, <2>1, <2>2
<1>8. ASSUME NEW i \in 1..n
      PROVE  tag(i) \in {ids[i], "orig"} \union (IF ids[i] \in Owning THEN {} ELSE {"copy"})
  <2>1. ids[i] \in Owning <=> i > ns
    BY <1>7
  <2>2. i > ns <=> ~(i <= ns)
    BY <1>1
  <2> QED
    BY <2>1, <2>2 DEF TagOf
<1>9. ASSUME NEW i \in 1..n PROVE tag(i) \in Subs \union {"orig", "copy"}
  BY <1>7, <1>8
<1>10. ASSUME NEW i \in 1..n, NEW j \in 1..n, i # j, ids[i] \in Owning PROVE tag(i) # tag(j)
  <2>1. i > ns /\ ~(i <= ns) /\ no # 0
    BY <1>1, <1>2, <1>7, <1>10
  <2>2. tag(i) = IF i = ns + no THEN "orig" ELSE ids[i]
    BY <2>1 DEF TagOf
  <2>3. tag(j) = "copy" \/ tag(j) = IF j = ns + no THEN "orig" ELSE ids[j]
    BY <2>1 DEF TagOf
  <2>4. /\ ids[i] # ids[j] /\ ids[i] # "orig" /\ ids[i] # "copy" /\ ids[j] # "orig" /\ ids[j] # "copy"
        /\ ~(i = ns + no /\ j = ns + no)
    BY <1>5, <1>7, <1>10, Constants
  <2> HIDE DEF tag
  <2> QED
    BY <2>2, <2>3, <2>4
<1>11. ASSUME NEW i \in 1..n, ids[i] \in Owning
       PROVE  tag(i) # IF ow = <<>> THEN "orig" ELSE "copy"
  <2>1. i > ns /\ ~(i <= ns) /\ no # 0
    BY <1>1, <1>2, <1>7, <1>11
  <2>2. tag(i) = IF i = ns + no THEN "orig" ELSE ids[i]
    BY <2>1 DEF TagOf
  <2>3. ids[i] # "copy"
    BY <1>7, Constants
  <2> HIDE DEF tag
  <2> QED
    BY <1>4, <2>1, <2>2, <2>3
<1> HIDE DEF tag
<1>12. ASSUME NEW i \in 1..n
       PROVE  /\ todo[i] \in Subs \X Objects
              /\ todo[i][1] = ids[i] /\ todo[i][2] = <<m, tag(i)>>
              /\ todo[i][2][1] = m /\ todo[i][2][2] = tag(i)
  <2>1. <<m, tag(i)>> \in Objects
    BY <1>9 DEF Objects
  <2>2. todo[i] = <<ids[i], <<m, tag(i)>>>> /\ ids[i] \in Subs
    BY <1>3, <1>7
  <2>3. todo[i] \in Subs \X Objects
    <3> DEFINE o == <<m, tag(i)>>
    <3>1. todo[i] = <<ids[i], o>> /\ o \in Objects
      BY <2>1, <2>2
    <3> HIDE DEF o
    <3> QED
      BY <2>2, <3>1, SMTT(30)
  <2>4. todo[i][1] = ids[i] /\ todo[i][2] = <<m, tag(i)>>
    BY <2>2
  <2>5. todo[i][2][1] = m /\ todo[i][2][2] = tag(i)
    BY <2>4
  <2> QED
    BY <2>3, <2>4, <2>5
<1>13. n \in Nat
  BY <1>1, <1>2
<1>14. todo \in Seq(Subs \X Objects)
  <2>1. todo \in [1..n -> Subs \X Objects]
    BY <1>3, <1>12, Zenon
  <2> QED
    BY <1>13, <2>1, FunctionIsSeq
<1>15. \A i, j \in 1..n : todo[i][1] = todo[j][1] => i = j
  BY <1>5, <1>12
<1>16. {todo[i][1] : i \in 1..n} = Elems(sh) \union Elems(ow)
  BY <1>2, <1>6, <1>12, SMTT(30)
<1>17. \A i \in 1..n :
           /\ todo[i][2][1] = m
           /\ todo[i][2][2] \in {todo[i][1], "orig"}
                  \union (IF todo[i][1] \in Owning THEN {} ELSE {"copy"})
  BY <1>8, <1>12
<1>18. \A i, j \in 1..n : i # j /\ todo[i][1] \in Owning => todo[i][2] # todo[j][2]
  BY <1>10, <1>12
<1>19. \A i \in 1..n : ws /\ todo[i][1] \in Owning =>
           todo[i][2] # <<m, IF ow = <<>> THEN "orig" ELSE "copy">>
  BY <1>11, <1>12, SMTT(30)
<1>20. Len(todo) = n
  BY <1>3
<1> QED
  BY <1>14, <1>15, <1>16, <1>17, <1>18, <1>19, <1>20, Zenon DEF RecipientsOK, sh, ow, todo

-----------------------------------------------------------------------------
(* Every step keeps the publishing threads sound *)

Threads == [pc : {"idle", "deliver", "signal", "store"},
            todo : Seq(Subs \X Objects), msg : Objects \union {None}]

\* The thread t of publisher p, which has sent k messages.
ThreadOK(p, t, k, st) ==
    /\ k \in Nat /\ k <= MaxMsgs[p]
    /\ t \in Threads
    /\ t.pc \in {"deliver", "signal"} <=> t.todo # <<>>
    /\ \A i \in 1..Len(t.todo) : t.todo[i][2][1] = <<p, k>> /\ st[t.todo[i][1]] = "live"
    /\ \A i, j \in 1..Len(t.todo) : t.todo[i][1] = t.todo[j][1] => i = j
    /\ t.pc # "idle" => k # 0
    /\ IF p \in Transient /\ t.pc # "idle"
       THEN t.msg \in {<<p, k>>} \X {"orig", "copy"} ELSE t.msg = None
    /\ t.pc = "store" => p \in Transient

\* The invariant of the threads, one publisher at a time.
LEMMA PubsParts ==
    PubsOK <=> /\ sent = [q \in Pubs |-> sent[q]]
               /\ pub = [q \in Pubs |-> pub[q]]
               /\ \A q \in Pubs : ThreadOK(q, pub[q], sent[q], status)
<1>1. sent \in [Pubs -> Nat] <=> sent = [q \in Pubs |-> sent[q]] /\ \A q \in Pubs : sent[q] \in Nat
  BY Zenon
<1>2. pub \in [Pubs -> Threads] <=> pub = [q \in Pubs |-> pub[q]] /\ \A q \in Pubs : pub[q] \in Threads
  BY Zenon
<1>3. PubsOK =>
        /\ sent \in [Pubs -> Nat] /\ pub \in [Pubs -> Threads]
        /\ \A q \in Pubs : pub[q] \in Threads => ThreadOK(q, pub[q], sent[q], status)
  BY Zenon DEF PubsOK, ThreadOK, Threads, Delivering
<1>4. sent \in [Pubs -> Nat] /\ pub \in [Pubs -> Threads]
        /\ (\A q \in Pubs : ThreadOK(q, pub[q], sent[q], status)) => PubsOK
  BY Zenon DEF PubsOK, ThreadOK, Threads, Delivering
<1>5. \A q \in Pubs : ThreadOK(q, pub[q], sent[q], status) => sent[q] \in Nat /\ pub[q] \in Threads
  BY DEF ThreadOK
<1> QED
  BY <1>1, <1>2, <1>3, <1>4, <1>5, Zenon

\* A step of one publishing thread.
LEMMA PubUpdate ==
    ASSUME PubsOK, NEW p \in Pubs, NEW t, NEW k, pub' = [pub EXCEPT ![p] = t],
           sent' = [sent EXCEPT ![p] = k], status' = status, ThreadOK(p, t, k, status)
    PROVE  PubsOK'
<1>1. /\ sent = [q \in Pubs |-> sent[q]] /\ pub = [q \in Pubs |-> pub[q]]
      /\ \A q \in Pubs : ThreadOK(q, pub[q], sent[q], status)
  BY PubsParts
<1>2. /\ sent' = [q \in Pubs |-> IF q = p THEN k ELSE sent[q]]
      /\ pub' = [q \in Pubs |-> IF q = p THEN t ELSE pub[q]]
  BY <1>1
<1>3. sent' = [q \in Pubs |-> sent'[q]] /\ pub' = [q \in Pubs |-> pub'[q]]
  BY <1>2
<1>4. ASSUME NEW q \in Pubs PROVE ThreadOK(q, pub'[q], sent'[q], status')
  <2>1. CASE q = p
    BY <1>2, <2>1
  <2>2. CASE q # p
    BY <1>1, <1>2, <2>2
  <2> QED
    BY <2>1, <2>2
<1>5. PubsOK' <=> (/\ sent = [q \in Pubs |-> sent[q]]
                   /\ pub = [q \in Pubs |-> pub[q]]
                   /\ \A q \in Pubs : ThreadOK(q, pub[q], sent[q], status))'
  BY PubsParts, PTL
<1> QED
  BY <1>3, <1>4, <1>5

\* A step that leaves the threads and the live subscriptions alone.
LEMMA PubsFrame ==
    ASSUME PubsOK, UNCHANGED <<pub, sent>>,
           \A q \in Pubs : \A i \in 1..Len(pub[q].todo) : status'[pub[q].todo[i][1]] = "live"
    PROVE  PubsOK'
<1>1. /\ sent = [q \in Pubs |-> sent[q]] /\ pub = [q \in Pubs |-> pub[q]]
      /\ \A q \in Pubs : ThreadOK(q, pub[q], sent[q], status)
  BY PubsParts
<1>2. ASSUME NEW q \in Pubs PROVE ThreadOK(q, pub[q], sent[q], status')
  <2>1. ThreadOK(q, pub[q], sent[q], status)
    BY <1>1
  <2>2. \A i \in 1..Len(pub[q].todo) : status'[pub[q].todo[i][1]] = "live"
    OBVIOUS
  <2> QED
    BY <2>1, <2>2, Zenon DEF ThreadOK
<1>3. PubsOK' <=> (/\ sent = [q \in Pubs |-> sent[q]]
                   /\ pub = [q \in Pubs |-> pub[q]]
                   /\ \A q \in Pubs : ThreadOK(q, pub[q], sent[q], status))'
  BY PubsParts, PTL
<1> QED
  BY <1>1, <1>2, <1>3

\* Registration excludes the threads that deliver, so it finds no list.
LEMMA LockedOut ==
    ASSUME PubsOK, ExclusiveLock, NEW q \in Pubs
    PROVE  pub[q].todo = <<>> /\ ~Delivering(q)
  BY DEF PubsOK, ExclusiveLock

\* Under the exclusive lock no thread has recipients left.
LEMMA RegisterPubs ==
    ASSUME PubsOK, ExclusiveLock, UNCHANGED <<pub, sent>>
    PROVE  PubsOK'
<1>1. \A q \in Pubs : 1..Len(pub[q].todo) = {}
  BY LockedOut
<1> QED
  BY <1>1, PubsFrame

\* Publishing makes a thread with the recipients of a fresh message.
LEMMA PublishThread ==
    ASSUME ListsOK, PubsOK, NEW p \in Pubs, Publish(p)
    PROVE  \E ws \in BOOLEAN :
             LET m == <<p, sent[p] + 1>>
                 todo == pub'[p].todo IN
             /\ m \in Messages /\ (p \in Transient => ws)
             /\ RecipientsOK(todo, m, targets[p], ws)
             /\ pub' = [pub EXCEPT ![p] =
                   [pc |-> NextStop(p, todo), todo |-> todo,
                    msg |-> IF p \in Transient
                            THEN <<m, IF targets[p].owned = <<>> THEN "orig" ELSE "copy">>
                            ELSE None]]
<1> DEFINE m == <<p, sent[p] + 1>>
           t == targets[p]
           Msg == IF p \in Transient THEN <<m, IF t.owned = <<>> THEN "orig" ELSE "copy">> ELSE None
           Todo(ws) == Recipients(m, t, ws)
<1>1. PICK ipn \in BOOLEAN :
          pub' = [pub EXCEPT ![p] = [pc |-> NextStop(p, Todo(ipn \/ p \in Transient)),
                                     todo |-> Todo(ipn \/ p \in Transient), msg |-> Msg]]
  BY DEF Publish
<1> DEFINE ws == ipn \/ p \in Transient
<1>2. ws \in BOOLEAN /\ (p \in Transient => ws)
  OBVIOUS
<1>3. sent[p] + 1 \in 1..MaxMsgs[p]
  <2>1. sent[p] \in Nat /\ sent[p] < MaxMsgs[p] /\ MaxMsgs[p] \in Nat
    BY Constants DEF Publish, PubsOK
  <2> QED
    BY <2>1
<1>4. m \in Messages
  BY <1>3 DEF Messages
<1>5. t \in [shared : Seq(Subs \ Owning), owned : Seq(Owning)] /\ Distinct(t.shared) /\ Distinct(t.owned)
  BY DEF ListsOK
<1> HIDE DEF ws, m, t
<1>6. RecipientsOK(Todo(ws), m, t, ws)
  BY <1>2, <1>4, <1>5, RecipientsFacts
<1>7. pub' = [pub EXCEPT ![p] = [pc |-> NextStop(p, Todo(ws)), todo |-> Todo(ws), msg |-> Msg]]
  BY <1>1 DEF ws
<1> HIDE DEF Todo, Msg
<1>8. pub'[p].todo = Todo(ws)
  BY <1>7 DEF PubsOK
<1>9. RecipientsOK(pub'[p].todo, m, t, ws)
  BY <1>6, <1>8
<1>10. pub' = [pub EXCEPT ![p] = [pc |-> NextStop(p, pub'[p].todo), todo |-> pub'[p].todo, msg |-> Msg]]
  BY <1>7, <1>8
<1> QED
  BY <1>2, <1>4, <1>9, <1>10, Zenon DEF m, t, Msg

\* publish starts a sound thread.
LEMMA PublishPubs ==
    ASSUME ListsOK, PubsOK, NEW p \in Pubs, Publish(p)
    PROVE  PubsOK'
<1> DEFINE m == <<p, sent[p] + 1>>
           todo == pub'[p].todo
           tag == IF targets[p].owned = <<>> THEN "orig" ELSE "copy"
           t == [pc |-> NextStop(p, todo), todo |-> todo,
                 msg |-> IF p \in Transient THEN <<m, tag>> ELSE None]
<1>1. PICK ws \in BOOLEAN :
          /\ m \in Messages /\ RecipientsOK(todo, m, targets[p], ws) /\ pub' = [pub EXCEPT ![p] = t]
  BY PublishThread
<1>2. /\ sent' = [sent EXCEPT ![p] = sent[p] + 1] /\ status' = status /\ status[p] = "live"
      /\ sent[p] < MaxMsgs[p] /\ sent[p] \in Nat /\ MaxMsgs[p] \in Nat
  BY Constants DEF Publish, mgrVars, PubsOK
<1> HIDE DEF todo
<1>3. /\ todo \in Seq(Subs \X Objects)
      /\ \A i, j \in 1..Len(todo) : todo[i][1] = todo[j][1] => i = j
      /\ {todo[i][1] : i \in 1..Len(todo)} = Elems(targets[p].shared) \union Elems(targets[p].owned)
      /\ \A i \in 1..Len(todo) : todo[i][2][1] = m
  BY <1>1, Zenon DEF RecipientsOK
<1>4. \A i \in 1..Len(todo) : status[todo[i][1]] = "live"
  <2>1. Elems(targets[p].shared) \union Elems(targets[p].owned) \subseteq LiveSubs
    BY <1>2 DEF ListsOK, LivePubs
  <2> QED
    BY <1>3, <2>1 DEF LiveSubs
<1>5. <<m, tag>> \in Objects /\ <<m, tag>> \in {m} \X {"orig", "copy"}
  BY <1>1 DEF Objects
<1>6. /\ t.pc = NextStop(p, todo) /\ t.todo = todo
      /\ t.msg = IF p \in Transient THEN <<m, tag>> ELSE None
  OBVIOUS
<1> HIDE DEF tag
<1>7. t \in Threads
  BY <1>3, <1>5 DEF Threads, NextStop
<1> HIDE DEF t
<1>8. t.pc \in {"deliver", "signal"} <=> t.todo # <<>>
  BY <1>6 DEF NextStop
<1>9. t.pc = "store" => p \in Transient
  BY <1>6 DEF NextStop
<1>10. IF p \in Transient /\ t.pc # "idle" THEN t.msg \in {m} \X {"orig", "copy"} ELSE t.msg = None
  <2>1. p \in Transient => t.pc # "idle"
    BY <1>6 DEF NextStop
  <2> QED
    BY <1>5, <1>6, <2>1
<1>11. sent[p] + 1 \in Nat /\ sent[p] + 1 <= MaxMsgs[p] /\ sent[p] + 1 # 0
  BY <1>2
<1>12. ThreadOK(p, t, sent[p] + 1, status)
  BY <1>3, <1>4, <1>6, <1>7, <1>8, <1>9, <1>10, <1>11, Zenon DEF ThreadOK
<1> QED
  BY <1>1, <1>2, <1>12, PubUpdate

\* A delivery leaves the recipient at the head of the list.
LEMMA DeliverPubs ==
    ASSUME PubsOK, NEW p \in Pubs, Deliver(p)
    PROVE  PubsOK'
<1> DEFINE t == [pub[p] EXCEPT !.pc = "signal"]
<1>1. ThreadOK(p, pub[p], sent[p], status) /\ pub[p].pc = "deliver"
  BY PubsParts DEF Deliver
<1>2. pub[p] \in Threads
  BY <1>1 DEF ThreadOK
<1>3. t \in Threads /\ t.pc = "signal" /\ t.todo = pub[p].todo /\ t.msg = pub[p].msg
  BY <1>2 DEF Threads
<1>4. /\ pub' = [pub EXCEPT ![p] = t] /\ status' = status
      /\ sent' = [sent EXCEPT ![p] = sent[p]]
  BY DEF Deliver, mgrVars, PubsOK
<1> HIDE DEF t
<1>5. ThreadOK(p, t, sent[p], status)
  BY <1>1, <1>3 DEF ThreadOK
<1> QED
  BY <1>4, <1>5, PubUpdate

\* After the notification the recipient leaves the list.
LEMMA SignalPubs ==
    ASSUME PubsOK, NEW p \in Pubs, Signal(p)
    PROVE  PubsOK'
<1> DEFINE q == pub[p].todo
           r == Tail(q)
           t == [pub[p] EXCEPT !.todo = r, !.pc = NextStop(p, r)]
<1>1. ThreadOK(p, pub[p], sent[p], status) /\ pub[p].pc = "signal" /\ Delivering(p)
  BY PubsParts DEF Signal, Delivering
<1>2. pub[p] \in Threads
  BY <1>1 DEF ThreadOK
<1>3. r \in Seq(Subs \X Objects) /\ \A i \in 1..Len(r) : r[i] = q[i + 1] /\ i + 1 \in 1..Len(q)
  BY <1>1, HeadFacts
<1>4. /\ pub' = [pub EXCEPT ![p] = t] /\ status' = status
      /\ sent' = [sent EXCEPT ![p] = sent[p]]
  BY DEF Signal, mgrVars, PubsOK
<1>5. /\ \A i \in 1..Len(q) : q[i][2][1] = <<p, sent[p]>> /\ status[q[i][1]] = "live"
      /\ \A i, j \in 1..Len(q) : q[i][1] = q[j][1] => i = j
  BY <1>1 DEF ThreadOK
<1> HIDE DEF q, r
<1>6. t \in Threads /\ t.pc = NextStop(p, r) /\ t.todo = r /\ t.msg = pub[p].msg
  BY <1>2, <1>3 DEF Threads, NextStop
<1> HIDE DEF t
<1>7. /\ \A i \in 1..Len(r) : r[i][2][1] = <<p, sent[p]>> /\ status[r[i][1]] = "live"
  BY <1>3, <1>5
<1>8. ASSUME NEW i \in 1..Len(r), NEW j \in 1..Len(r), r[i][1] = r[j][1] PROVE i = j
  <2>0. q[i + 1][1] = q[j + 1][1] /\ i + 1 \in 1..Len(q) /\ j + 1 \in 1..Len(q)
    BY <1>3, <1>8
  <2>1. i + 1 = j + 1
    BY <1>5, <2>0, Zenon
  <2> QED
    BY <2>1
<1>9. /\ t.pc \in {"deliver", "signal"} <=> r # <<>>
      /\ t.pc = "store" => p \in Transient
      /\ p \in Transient => t.pc # "idle"
  BY <1>6 DEF NextStop
<1>10. /\ sent[p] \in Nat /\ sent[p] <= MaxMsgs[p] /\ sent[p] # 0
       /\ IF p \in Transient THEN pub[p].msg \in {<<p, sent[p]>>} \X {"orig", "copy"}
                             ELSE pub[p].msg = None
  BY <1>1 DEF ThreadOK
<1>11. IF p \in Transient /\ t.pc # "idle" THEN t.msg \in {<<p, sent[p]>>} \X {"orig", "copy"}
                                           ELSE t.msg = None
  BY <1>6, <1>9, <1>10
<1>12. ThreadOK(p, t, sent[p], status)
  BY <1>6, <1>7, <1>8, <1>9, <1>10, <1>11, Zenon DEF ThreadOK
<1> QED
  BY <1>4, <1>12, PubUpdate

\* A thread that has stored its message is idle.
LEMMA StorePubs ==
    ASSUME PubsOK, NEW p \in Pubs, Store(p)
    PROVE  PubsOK'
<1> DEFINE t == [pub[p] EXCEPT !.pc = "idle", !.msg = None]
<1>1. ThreadOK(p, pub[p], sent[p], status) /\ pub[p].pc = "store"
  BY PubsParts DEF Store
<1>2. pub[p] \in Threads
  BY <1>1 DEF ThreadOK
<1>3. t \in Threads /\ t.pc = "idle" /\ t.todo = pub[p].todo /\ t.msg = None
  BY <1>2 DEF Threads
<1>4. /\ pub' = [pub EXCEPT ![p] = t] /\ status' = status
      /\ sent' = [sent EXCEPT ![p] = sent[p]]
  BY DEF Store, mgrVars, PubsOK
<1> HIDE DEF t
<1>5. ThreadOK(p, t, sent[p], status)
  BY <1>1, <1>3 DEF ThreadOK
<1> QED
  BY <1>4, <1>5, PubUpdate

\* Every step keeps the publishing threads sound.
LEMMA PubsStep ==
    ASSUME ListsOK, PubsOK, [Next]_vars
    PROVE  PubsOK'
<1>1. ASSUME UNCHANGED <<status, pub, sent>> PROVE PubsOK'
  BY <1>1, ZenonT(40) DEF PubsOK, Delivering
<1>2. ASSUME NEW p \in Pubs, AddPublisher(p) \/ RemovePublisher(p) PROVE PubsOK'
  BY <1>2, RegisterPubs DEF AddPublisher, RemovePublisher
<1>3. ASSUME NEW s \in Subs, AddSubscription(s) \/ RemoveSubscription(s) PROVE PubsOK'
  BY <1>3, RegisterPubs DEF AddSubscription, RemoveSubscription
<1>4. ASSUME NEW s \in Subs, WaitStep(s) PROVE PubsOK'
  BY <1>1, <1>4 DEF WaitStep, AddToWaitSet, Wake, TakeData, Execute, mgrVars
<1>5. ASSUME NEW s \in Subs, SetOnReadyCallback(s) \/ ClearOnReadyCallback(s) \/ EventStep(s)
      PROVE  PubsOK'
  BY <1>1, <1>5 DEF SetOnReadyCallback, ClearOnReadyCallback, EventStep, HandleEvent, DropEvent,
                    Execute, mgrVars
<1>6. CASE UNCHANGED vars
  BY <1>1, <1>6 DEF vars
<1> QED
  BY <1>2, <1>3, <1>4, <1>5, <1>6, PublishPubs, DeliverPubs, SignalPubs, StorePubs, Constants, SMTT(30)
     DEF Next, Register, Producer

-----------------------------------------------------------------------------
(* Every step keeps what the consumers hold of the right type *)

\* Every step keeps the consumers typed.
LEMMA ConsumersStep ==
    ASSUME RingsOK, ConsumersOK, DOMAIN status = Pubs \union Subs, PubsOK, [Next]_vars
    PROVE  ConsumersOK'
<1> DEFINE C == /\ gc \in [Subs -> BOOLEAN]
                /\ cons \in [Subs -> {"collect", "wait", "ready", "taken"}]
                /\ held \in [Subs -> Objects \union {None}]
           E == /\ attached \in [Subs -> BOOLEAN]
                /\ unread \in [Subs -> Nat] /\ events \in [Subs -> Nat] /\ dropped \in [Subs -> Nat]
<1>0. (ConsumersOK <=> C /\ E) /\ (ConsumersOK' <=> C' /\ E')
  BY DEF ConsumersOK
<1>a. ASSUME UNCHANGED waitVars PROVE C'
  BY <1>0, <1>a DEF waitVars
<1>b. ASSUME UNCHANGED eventVars PROVE E'
  BY <1>0, <1>b DEF eventVars
<1>c. ASSUME NEW s \in Subs, status[s] = "live", HasData(s), Take(s), status' = status
      PROVE  held' \in [Subs -> Objects \union {None}]
  <2>1. Dequeued(ring'[s], ring[s], Depth[s])
    BY <1>c, TakeRing
  <2>2. ring[s].slot[ring[s].r] \in Objects
    BY <2>1 DEF Dequeued
  <2> QED
    BY <1>0, <1>c, <2>2 DEF Take
<1>1. ASSUME NEW p \in Pubs, AddPublisher(p) \/ RemovePublisher(p) PROVE C' /\ E'
  BY <1>a, <1>b, <1>1 DEF AddPublisher, RemovePublisher
<1>2. ASSUME NEW s \in Subs, RemoveSubscription(s) PROVE C' /\ E'
  BY <1>a, <1>b, <1>2 DEF RemoveSubscription
<1>3. ASSUME NEW s \in Subs, AddSubscription(s) PROVE C' /\ E'
  <2>1. PICK m \in Nat : unread' = [unread EXCEPT ![s] = IF s \in EventSubs THEN @ + m ELSE @]
    BY <1>3, AddSubscriptionRing
  <2>2. PICK f \in BOOLEAN : gc' = [gc EXCEPT ![s] = @ \/ f]
    BY <1>3, AddSubscriptionRing
  <2>3. UNCHANGED <<cons, held, attached, events, dropped>>
    BY <1>3 DEF AddSubscription
  <2>4. gc' \in [Subs -> BOOLEAN]
    BY <1>0, <2>2
  <2>5. unread' \in [Subs -> Nat]
    BY <1>0, <2>1
  <2> QED
    BY <1>0, <2>3, <2>4, <2>5
<1>4. ASSUME NEW p \in Pubs, Publish(p) \/ Deliver(p) \/ Store(p) PROVE C' /\ E'
  BY <1>a, <1>b, <1>4 DEF Publish, Deliver, Store
<1>5. ASSUME NEW p \in Pubs, Signal(p) PROVE C' /\ E'
  <2> DEFINE s == Head(pub[p].todo)[1]
  <2>0. s \in Subs
    BY <1>5, HeadFacts DEF Signal, Delivering
  <2>1. CASE s \in EventSubs
    <3>1. /\ events' = [events EXCEPT ![s] = IF attached[s] THEN @ + 1 ELSE @]
          /\ unread' = [unread EXCEPT ![s] = IF attached[s] THEN @ ELSE @ + 1]
          /\ UNCHANGED <<gc, cons, held, attached, dropped>>
      BY <1>5, <2>1 DEF Signal, invoke_on_new_message
    <3> HIDE DEF s
    <3>2. attached[s] \in BOOLEAN /\ events[s] \in Nat /\ unread[s] \in Nat
      BY <1>0, <2>0
    <3>3. events \in [Subs -> Nat] /\ unread \in [Subs -> Nat]
      BY <1>0
    <3> DEFINE e == IF attached[s] THEN events[s] + 1 ELSE events[s]
               u == IF attached[s] THEN unread[s] ELSE unread[s] + 1
    <3>4. e \in Nat /\ u \in Nat
      BY <3>2
    <3>5. events' = [events EXCEPT ![s] = e] /\ unread' = [unread EXCEPT ![s] = u]
      BY <3>1, Zenon
    <3> HIDE DEF e, u
    <3>6. events' \in [Subs -> Nat] /\ unread' \in [Subs -> Nat]
      BY <3>3, <3>4, <3>5
    <3> QED
      BY <1>0, <3>1, <3>6, SMTT(30)
  <2>2. CASE ~(s \in EventSubs)
    <3>1. /\ gc' = [gc EXCEPT ![s] = s \in WaitSubs]
          /\ UNCHANGED <<unread, events, cons, held, attached, dropped>>
      BY <1>5, <2>2 DEF Signal
    <3> HIDE DEF s
    <3>2. gc' \in [Subs -> BOOLEAN]
      <4> DEFINE f == s \in WaitSubs
      <4>1. f \in BOOLEAN /\ gc' = [gc EXCEPT ![s] = f] /\ gc \in [Subs -> BOOLEAN]
        BY <1>0, <3>1
      <4> HIDE DEF f
      <4> QED
        BY <4>1
    <3> QED
      BY <1>0, <3>1, <3>2
  <2> QED
    BY <2>1, <2>2, SMTT(30)
<1>6. ASSUME NEW s \in Subs, AddToWaitSet(s) PROVE C' /\ E'
  <2>1. E'
    BY <1>b, <1>6 DEF AddToWaitSet
  <2>2. HasData(s) \in BOOLEAN
    BY DEF HasData
  <2> QED
    BY <1>0, <1>6, <2>1, <2>2 DEF AddToWaitSet
<1>7. ASSUME NEW s \in Subs, Wake(s) PROVE C' /\ E'
  <2>1. E'
    BY <1>b, <1>7 DEF Wake
  <2> QED
    BY <1>0, <1>7, <2>1 DEF Wake
<1>8. ASSUME NEW s \in Subs, Execute(s) PROVE C' /\ E'
  <2>1. E'
    BY <1>b, <1>8 DEF Execute
  <2>2. (s \in WaitSubs /\ HasData(s)) \in BOOLEAN
    BY DEF HasData
  <2> QED
    BY <1>0, <1>8, <2>1, <2>2 DEF Execute
<1>9. ASSUME NEW s \in Subs, status[s] = "live", TakeData(s) PROVE C' /\ E'
  <2>1. E'
    BY <1>b, <1>9 DEF TakeData
  <2>2. held' \in [Subs -> Objects \union {None}]
    BY <1>c, <1>9 DEF TakeData, mgrVars
  <2> QED
    BY <1>0, <1>9, <2>1, <2>2 DEF TakeData
<1>10. ASSUME NEW s \in Subs, status[s] = "live", HandleEvent(s) PROVE C' /\ E'
  <2>1. events' \in [Subs -> Nat] /\ UNCHANGED <<gc, attached, unread, dropped>>
    BY <1>0, <1>10 DEF HandleEvent
  <2>2. CASE HasData(s)
    <3>1. held' \in [Subs -> Objects \union {None}]
      BY <1>c, <1>10, <2>2 DEF HandleEvent, mgrVars
    <3>2. cons' = [cons EXCEPT ![s] = "taken"]
      BY <1>10, <2>2 DEF HandleEvent
    <3> QED
      BY <1>0, <2>1, <3>1, <3>2
  <2>3. CASE ~HasData(s)
    <3>1. UNCHANGED <<held, cons>>
      BY <1>10, <2>3 DEF HandleEvent
    <3> QED
      BY <1>0, <2>1, <3>1
  <2> QED
    BY <2>2, <2>3
<1>11. ASSUME NEW s \in Subs, SetOnReadyCallback(s) PROVE C' /\ E'
  <2>1. C'
    BY <1>a, <1>11 DEF SetOnReadyCallback
  <2>2. Depth[s] \in Nat /\ unread[s] \in Nat /\ events[s] \in Nat
    BY <1>0, Constants
  <2>3. /\ attached' = [attached EXCEPT ![s] = TRUE] /\ unread' = [unread EXCEPT ![s] = 0]
        /\ dropped' = dropped
        /\ events' = [events EXCEPT ![s] = @ + (IF unread[s] < Depth[s] THEN unread[s] ELSE Depth[s])]
    BY <1>11 DEF SetOnReadyCallback
  <2>4. events' \in [Subs -> Nat]
    BY <1>0, <2>2, <2>3
  <2> QED
    BY <1>0, <2>1, <2>3, <2>4
<1>12. ASSUME NEW s \in Subs, ClearOnReadyCallback(s) PROVE C' /\ E'
  <2>1. C'
    BY <1>a, <1>12 DEF ClearOnReadyCallback
  <2> QED
    BY <1>0, <1>12, <2>1 DEF ClearOnReadyCallback
<1>13. ASSUME NEW s \in Subs, DropEvent(s) PROVE C' /\ E'
  <2>1. C'
    BY <1>a, <1>13 DEF DropEvent
  <2> QED
    <3>1. /\ events' = [events EXCEPT ![s] = events[s] - 1] /\ dropped' = [dropped EXCEPT ![s] = dropped[s] + 1]
          /\ events[s] > 0 /\ UNCHANGED <<attached, unread>>
      BY <1>13 DEF DropEvent
    <3>2. events[s] - 1 \in Nat /\ dropped[s] + 1 \in Nat
      BY <1>0, <3>1
    <3> QED
      BY <1>0, <2>1, <3>1, <3>2
<1>14. CASE UNCHANGED vars
  BY <1>0, <1>14 DEF vars
<1> HIDE DEF C, E
<1> QED
  BY <1>0, <1>1, <1>2, <1>3, <1>4, <1>5, <1>6, <1>7, <1>8, <1>9, <1>10, <1>11, <1>12, <1>13, <1>14,
     Constants DEF Next, Register, Producer, WaitStep, EventStep

-----------------------------------------------------------------------------
(* Every step keeps what the transient-local publishers keep *)

\* The buffer b of publisher p, which has sent k messages.
KeptPart(p, b, k, pc) ==
    /\ \A i \in 1..b.n : \E l \in 1..k :
           /\ Content(b)[i][1] = <<p, l>>
           /\ Content(b)[i][2] \in {"orig", "copy"}
           /\ pc # "idle" => l # k
    /\ pc = "idle" /\ k # 0 => b.n # 0 /\ Content(b)[b.n][1] = <<p, k>>

\* The invariant of what is kept, one publisher at a time.
LEMMA KeptParts ==
    KeptOK <=> \A q \in Pubs \cap Transient : KeptPart(q, ring[q], sent[q], pub[q].pc)
  BY Zenon DEF KeptOK, KeptPart

\* An object that enters a buffer, or was there before.
LEMMA EnqueuedFrom ==
    ASSUME NEW c \in Nat \ {0}, NEW b, RingOK(b, c), NEW f, NEW x, Enqueued(f, b, x, c)
    PROVE  /\ f.n \in Nat /\ f.n # 0 /\ Content(f)[f.n] = x /\ f.n <= b.n + 1
           /\ \A i \in 1..f.n : Content(f)[i] = x \/ \E j \in 1..b.n : Content(f)[i] = Content(b)[j]
<1>1. b.n \in 0..c
  BY DEF RingOK
<1>2. /\ b.n < c => f.n = b.n + 1 /\ \A i \in 1..b.n : Content(f)[i] = Content(b)[i]
      /\ b.n = c => f.n = c /\ \A i \in 1..(c - 1) : Content(f)[i] = Content(b)[i + 1]
      /\ Content(f)[f.n] = x
  BY DEF Enqueued
<1>3. CASE b.n < c
  <2>1. f.n = b.n + 1 /\ f.n \in Nat /\ f.n # 0 /\ f.n <= b.n + 1
    BY <1>1, <1>2, <1>3
  <2>2. ASSUME NEW i \in 1..f.n
        PROVE  Content(f)[i] = x \/ \E j \in 1..b.n : Content(f)[i] = Content(b)[j]
    <3>1. i = f.n \/ i \in 1..b.n
      BY <1>1, <2>1
    <3> QED
      BY <1>2, <1>3, <3>1
  <2> QED
    BY <1>2, <2>1, <2>2
<1>4. CASE b.n = c
  <2>1. f.n = c /\ f.n \in Nat /\ f.n # 0 /\ f.n <= b.n + 1
    BY <1>2, <1>4
  <2>2. ASSUME NEW i \in 1..f.n
        PROVE  Content(f)[i] = x \/ \E j \in 1..b.n : Content(f)[i] = Content(b)[j]
    <3>1. i = f.n \/ (i \in 1..(c - 1) /\ i + 1 \in 1..b.n)
      BY <1>4, <2>1
    <3>2. i \in 1..(c - 1) => Content(f)[i] = Content(b)[i + 1]
      BY <1>2, <1>4
    <3> QED
      BY <1>2, <3>1, <3>2
  <2> QED
    BY <1>2, <2>1, <2>2
<1> QED
  BY <1>1, <1>3, <1>4

\* It depends on the thread only through being idle.
LEMMA KeptPc ==
    ASSUME NEW q, NEW b, NEW k, NEW pc, NEW pd, pc = "idle" <=> pd = "idle", KeptPart(q, b, k, pc)
    PROVE  KeptPart(q, b, k, pd)
<1>1. CASE pc = "idle"
  BY <1>1
<1>2. CASE pc # "idle"
  <2>1. \A i \in 1..b.n : \E l \in 1..k :
            Content(b)[i][1] = <<q, l>> /\ Content(b)[i][2] \in {"orig", "copy"} /\ l # k
    BY <1>2 DEF KeptPart
  <2> QED
    BY <1>2, <2>1, Zenon DEF KeptPart
<1> QED
  BY <1>1, <1>2

\* A step that leaves the publishers and their buffers alone.
LEMMA KeptFrame ==
    ASSUME KeptOK,
           \A q \in Pubs \cap Transient :
               /\ ring'[q] = ring[q] /\ sent'[q] = sent[q]
               /\ pub'[q].pc = "idle" <=> pub[q].pc = "idle"
    PROVE  KeptOK'
<1>1. ASSUME NEW q \in Pubs \cap Transient PROVE KeptPart(q, ring'[q], sent'[q], pub'[q].pc)
  <2>1. KeptPart(q, ring[q], sent[q], pub[q].pc)
    BY KeptParts
  <2>2. ring'[q] = ring[q] /\ sent'[q] = sent[q] /\ (pub'[q].pc = "idle" <=> pub[q].pc = "idle")
    OBVIOUS
  <2> QED
    BY <2>1, <2>2, KeptPc
<1>2. KeptOK' <=> (\A q \in Pubs \cap Transient : KeptPart(q, ring[q], sent[q], pub[q].pc))'
  BY KeptParts, PTL
<1> QED
  BY <1>1, <1>2

\* A new message is not kept before it is stored.
LEMMA PublishKept ==
    ASSUME ListsOK, PubsOK, KeptOK, NEW p \in Pubs, Publish(p)
    PROVE  KeptOK'
<1>1. /\ sent' = [sent EXCEPT ![p] = sent[p] + 1] /\ ring' = ring /\ pub[p].pc = "idle"
      /\ sent \in [Pubs -> Nat]
  BY DEF Publish, PubsOK
<1>2. PICK todo, msg : pub' = [pub EXCEPT ![p] = [pc |-> NextStop(p, todo), todo |-> todo, msg |-> msg]]
  BY PublishThread
<1>3. pub'[p].pc = NextStop(p, todo) /\ \A q \in Pubs : q # p => pub'[q] = pub[q]
  BY <1>2 DEF PubsOK
<1>4. ASSUME NEW q \in Pubs \cap Transient PROVE KeptPart(q, ring'[q], sent'[q], pub'[q].pc)
  <2>1. KeptPart(q, ring[q], sent[q], pub[q].pc)
    BY KeptParts
  <2>2. CASE q # p
    <3>1. ring'[q] = ring[q] /\ sent'[q] = sent[q] /\ pub'[q].pc = pub[q].pc
      BY <1>1, <1>3, <2>2
    <3> QED
      BY <2>1, <3>1
  <2>3. CASE q = p
    <3>1. /\ ring'[p] = ring[p] /\ sent'[p] = sent[p] + 1 /\ sent[p] \in Nat /\ pub'[p].pc # "idle"
      BY <1>1, <1>3, <2>3 DEF NextStop
    <3>2. ASSUME NEW i \in 1..ring[p].n
          PROVE  \E l \in 1..(sent[p] + 1) : /\ Content(ring[p])[i][1] = <<p, l>>
                                             /\ Content(ring[p])[i][2] \in {"orig", "copy"}
                                             /\ l # sent[p] + 1
      <4>1. PICK l \in 1..sent[p] : /\ Content(ring[p])[i][1] = <<p, l>>
                                    /\ Content(ring[p])[i][2] \in {"orig", "copy"}
        BY <2>1, <2>3 DEF KeptPart
      <4>2. l \in 1..(sent[p] + 1) /\ l # sent[p] + 1
        BY <3>1
      <4> QED
        BY <4>1, <4>2
    <3> QED
      BY <2>3, <3>1, <3>2 DEF KeptPart
  <2> QED
    BY <2>2, <2>3
<1>5. KeptOK' <=> (\A q \in Pubs \cap Transient : KeptPart(q, ring[q], sent[q], pub[q].pc))'
  BY KeptParts, PTL
<1> QED
  BY <1>4, <1>5

\* The stored message is the last one kept.
LEMMA StoreKept ==
    ASSUME RingsOK, PubsOK, KeptOK, NEW p \in Pubs, Store(p)
    PROVE  KeptOK'
<1>1. /\ sent' = sent /\ pub[p].pc = "store" /\ sent \in [Pubs -> Nat]
      /\ pub' = [pub EXCEPT ![p].pc = "idle", ![p].msg = None]
  BY DEF Store, PubsOK
<1>2. /\ p \in Transient
      /\ Enqueued(ring'[p], ring[p], pub[p].msg, Depth[p])
      /\ \A y \in Buffered : y # p => ring'[y] = ring[y]
  BY StoreRing
<1>3. pub'[p].pc = "idle" /\ \A q \in Pubs : q # p => pub'[q] = pub[q]
  BY <1>1 DEF PubsOK
<1>4. sent[p] # 0 /\ pub[p].msg \in {<<p, sent[p]>>} \X {"orig", "copy"}
  BY <1>1, <1>2 DEF PubsOK
<1>5. p \in Buffered /\ RingOK(ring[p], Depth[p]) /\ Depth[p] \in Nat \ {0}
  BY <1>2, Constants DEF RingsOK
<1>6. ASSUME NEW q \in Pubs \cap Transient PROVE KeptPart(q, ring'[q], sent'[q], pub'[q].pc)
  <2>1. KeptPart(q, ring[q], sent[q], pub[q].pc) /\ q \in Buffered
    BY KeptParts, Constants
  <2>2. CASE q # p
    <3>1. ring'[q] = ring[q] /\ sent'[q] = sent[q] /\ pub'[q].pc = pub[q].pc
      BY <1>1, <1>2, <1>3, <2>1, <2>2
    <3> QED
      BY <2>1, <3>1
  <2>3. CASE q = p
    <3> DEFINE b == ring[p]
               f == ring'[p]
               x == pub[p].msg
               k == sent[p]
    <3>1. /\ f.n \in Nat /\ f.n # 0 /\ Content(f)[f.n] = x
          /\ \A i \in 1..f.n : Content(f)[i] = x \/ \E j \in 1..b.n : Content(f)[i] = Content(b)[j]
      BY <1>2, <1>5, EnqueuedFrom
    <3>2. x[1] = <<p, k>> /\ x[2] \in {"orig", "copy"} /\ k \in 1..k
      BY <1>1, <1>4
    <3>3. \A j \in 1..b.n : \E l \in 1..k : /\ Content(b)[j][1] = <<p, l>>
                                            /\ Content(b)[j][2] \in {"orig", "copy"}
      BY <2>1, <2>3 DEF KeptPart
    <3> HIDE DEF b, f, x, k
    <3>4. \A i \in 1..f.n : \E l \in 1..k : /\ Content(f)[i][1] = <<p, l>>
                                            /\ Content(f)[i][2] \in {"orig", "copy"}
      BY <3>1, <3>2, <3>3
    <3>5. KeptPart(p, f, k, "idle")
      BY <3>1, <3>2, <3>4 DEF KeptPart
    <3> QED
      BY <1>1, <1>3, <2>3, <3>5 DEF f, k
  <2> QED
    BY <2>2, <2>3
<1>7. KeptOK' <=> (\A q \in Pubs \cap Transient : KeptPart(q, ring[q], sent[q], pub[q].pc))'
  BY KeptParts, PTL
<1> QED
  BY <1>6, <1>7

\* Every step keeps what transient-local publishers keep right.
LEMMA KeptStep ==
    ASSUME RingsOK, ListsOK, PubsOK, KeptOK, [Next]_vars
    PROVE  KeptOK'
<1>0. \A q \in Pubs \cap Transient : q \in Buffered /\ \A s \in Subs : q # s
  BY Constants
<1>a. ASSUME UNCHANGED <<ring, sent, pub>> PROVE KeptOK'
  BY <1>a, KeptFrame
<1>b. ASSUME NEW s \in Subs, UNCHANGED <<sent, pub>>, \A y \in Buffered : y # s => ring'[y] = ring[y]
      PROVE  KeptOK'
  BY <1>0, <1>b, KeptFrame
<1>1. ASSUME NEW p \in Pubs, AddPublisher(p) \/ RemovePublisher(p) PROVE KeptOK'
  BY <1>a, <1>1 DEF AddPublisher, RemovePublisher
<1>2. ASSUME NEW s \in Subs, RemoveSubscription(s) PROVE KeptOK'
  BY <1>a, <1>2 DEF RemoveSubscription
<1>3. ASSUME NEW s \in Subs, AddSubscription(s) PROVE KeptOK'
  <2>1. s \in DOMAIN status
    BY DEF ListsOK
  <2>2. \A y \in Buffered : y # s => ring'[y] = ring[y]
    BY <1>3, <2>1, AddSubscriptionRing
  <2> QED
    BY <1>b, <1>3, <2>2 DEF AddSubscription
<1>4. ASSUME NEW p \in Pubs, Deliver(p) PROVE KeptOK'
  <2> DEFINE d == pub[p].todo[1]
  <2>1. d[1] \in Subs /\ \A y \in Buffered : y # d[1] => ring'[y] = ring[y]
    BY <1>4, DeliverRing
  <2> HIDE DEF d
  <2>2. /\ sent' = sent /\ pub[p].pc = "deliver" /\ pub'[p].pc = "signal"
        /\ \A q \in Pubs : q # p => pub'[q] = pub[q]
    BY <1>4 DEF Deliver, PubsOK
  <2>3. \A q \in Pubs \cap Transient : ring'[q] = ring[q]
    BY <1>0, <2>1
  <2>4. \A q \in Pubs \cap Transient : pub'[q].pc = "idle" <=> pub[q].pc = "idle"
    BY <2>2
  <2> QED
    BY <2>2, <2>3, <2>4, KeptFrame
<1>5. ASSUME NEW p \in Pubs, Signal(p) PROVE KeptOK'
  <2>1. /\ UNCHANGED <<ring, sent>> /\ pub[p].pc = "signal"
        /\ p \in Transient => pub'[p].pc # "idle"
        /\ \A q \in Pubs : q # p => pub'[q] = pub[q]
    BY <1>5 DEF Signal, PubsOK, NextStop
  <2> QED
    BY <2>1, KeptFrame, SMTT(30)
<1>6. ASSUME NEW s \in Subs, AddToWaitSet(s) \/ Wake(s) \/ Execute(s) PROVE KeptOK'
  BY <1>a, <1>6 DEF AddToWaitSet, Wake, Execute
<1>7. ASSUME NEW s \in Subs, SetOnReadyCallback(s) \/ ClearOnReadyCallback(s) \/ DropEvent(s)
      PROVE  KeptOK'
  BY <1>a, <1>7 DEF SetOnReadyCallback, ClearOnReadyCallback, DropEvent
<1>8. ASSUME NEW s \in Subs, Take(s), UNCHANGED <<sent, pub>> PROVE KeptOK'
  <2>1. \A y \in Buffered : y # s => ring'[y] = ring[y]
    BY <1>8 DEF Take, RingsOK
  <2> QED
    BY <1>b, <1>8, <2>1
<1>9. ASSUME NEW s \in Subs, TakeData(s) PROVE KeptOK'
  BY <1>8, <1>9 DEF TakeData
<1>10. ASSUME NEW s \in Subs, HandleEvent(s) PROVE KeptOK'
  BY <1>8, <1>10, <1>a DEF HandleEvent
<1>11. CASE UNCHANGED vars
  BY <1>a, <1>11 DEF vars
<1> QED
  BY <1>1, <1>2, <1>3, <1>4, <1>5, <1>6, <1>7, <1>9, <1>10, <1>11, PublishKept, StoreKept,
     Constants DEF Next, Register, Producer, WaitStep, EventStep

-----------------------------------------------------------------------------
(* Ownership *)

InRing(x, s) == \E i \in 1..ring[s].n : x = Content(ring[s])[i]

InHand(x, s) == x = held[s] /\ x # None

OnTheWay(x, s, p) ==
    \E i \in 1..Len(pub[p].todo) :
        /\ pub[p].todo[i][1] = s /\ ~(i = 1 /\ pub[p].pc = "signal")
        /\ x = pub[p].todo[i][2]

\* The three ways a subscription reaches an object.
LEMMA ReachParts ==
    \A s \in Subs : \A x :
        x \in Reach(s) <=> InRing(x, s) \/ InHand(x, s) \/ \E p \in Pubs : OnTheWay(x, s, p)
<1> SUFFICES ASSUME NEW s \in Subs, NEW x
             PROVE  x \in Reach(s) <=> InRing(x, s) \/ InHand(x, s) \/ \E p \in Pubs : OnTheWay(x, s, p)
  OBVIOUS
<1> DEFINE A == {Content(ring[s])[i] : i \in 1..ring[s].n}
           B == {held[s]} \ {None}
           J(p) == {j \in 1..Len(pub[p].todo) : pub[p].todo[j][1] = s /\ ~(j = 1 /\ pub[p].pc = "signal")}
           D(p) == {pub[p].todo[i][2] : i \in J(p)}
           U == UNION {D(p) : p \in Pubs}
<1>1. Reach(s) = A \union B \union U
  BY Zenon DEF Reach
<1>2. x \in A <=> InRing(x, s)
  BY Zenon DEF InRing
<1>3. x \in B <=> InHand(x, s)
  BY Zenon DEF InHand
<1>4. \A p : x \in D(p) <=> OnTheWay(x, s, p)
  BY Zenon DEF OnTheWay
<1> HIDE DEF D
<1>5. x \in U <=> \E p \in Pubs : x \in D(p)
  BY Zenon
<1> HIDE DEF A, B, U
<1> QED
  BY <1>1, <1>2, <1>3, <1>4, <1>5, Zenon

\* The two ways a publisher keeps an object.
LEMMA KeptByParts ==
    \A p \in Pubs : \A x :
        x \in KeptBy(p) <=> (x = pub[p].msg /\ x # None) \/ (p \in Transient /\ InRing(x, p))
  BY Zenon DEF KeptBy, InRing

\* ReachParts, in the next state.
LEMMA ReachPartsNext ==
    (\A s \in Subs : \A x :
        x \in Reach(s) <=> InRing(x, s) \/ InHand(x, s) \/ \E p \in Pubs : OnTheWay(x, s, p))'
  BY ReachParts, PTL

\* KeptByParts, in the next state.
LEMMA KeptByPartsNext ==
    (\A p \in Pubs : \A x :
        x \in KeptBy(p) <=> (x = pub[p].msg /\ x # None) \/ (p \in Transient /\ InRing(x, p)))'
  BY KeptByParts, PTL

Tags(s) == {s, "orig"} \union (IF s \in Owning THEN {} ELSE {"copy"})

Ownership == TagsOK /\ ExclusiveOwnership

\* The invariant, object by object.
LEMMA OwnershipParts ==
    Ownership <=>
        /\ \A s \in Subs : \A x \in Reach(s) : Published(x) /\ x[2] \in Tags(s)
        /\ \A p \in Pubs : \A x \in KeptBy(p) : Published(x) /\ x[2] \in {"orig", "copy"}
        /\ \A s \in Owning : \A t \in Subs : \A x : s # t => ~(x \in Reach(s) /\ x \in Reach(t))
        /\ \A s \in Owning : \A p \in Pubs : \A x : ~(x \in Reach(s) /\ x \in KeptBy(p))
<1>1. ExclusiveOwnership <=>
          /\ \A s \in Owning : \A t \in Subs : \A x : s # t => ~(x \in Reach(s) /\ x \in Reach(t))
          /\ \A s \in Owning : \A p \in Pubs : \A x : ~(x \in Reach(s) /\ x \in KeptBy(p))
  BY DEF ExclusiveOwnership
<1>2. TagsOK <=>
          /\ \A s \in Subs : \A x \in Reach(s) : Published(x) /\ x[2] \in Tags(s)
          /\ \A p \in Pubs : \A x \in KeptBy(p) : Published(x) /\ x[2] \in {"orig", "copy"}
  BY Zenon DEF TagsOK, Tags
<1> QED
  BY <1>1, <1>2, Zenon DEF Ownership

\* A step after which nobody can reach more than before.
LEMMA OwnershipShrinks ==
    ASSUME Ownership, sent' = sent,
           \A s \in Subs : \A x : x \in Reach(s)' => x \in Reach(s),
           \A p \in Pubs : \A x : x \in KeptBy(p)' => x \in KeptBy(p)
    PROVE  Ownership'
<1>1. /\ \A s \in Subs : \A x \in Reach(s) : Published(x) /\ x[2] \in Tags(s)
      /\ \A p \in Pubs : \A x \in KeptBy(p) : Published(x) /\ x[2] \in {"orig", "copy"}
      /\ \A s \in Owning : \A t \in Subs : \A x : s # t => ~(x \in Reach(s) /\ x \in Reach(t))
      /\ \A s \in Owning : \A p \in Pubs : \A x : ~(x \in Reach(s) /\ x \in KeptBy(p))
  BY OwnershipParts
<1>2. \A x : Published(x)' <=> Published(x)
  BY DEF Published
<1>3. \A s \in Subs : \A x \in Reach(s)' : Published(x)' /\ x[2] \in Tags(s)
  BY <1>1, <1>2, Zenon
<1>4. \A p \in Pubs : \A x \in KeptBy(p)' : Published(x)' /\ x[2] \in {"orig", "copy"}
  BY <1>1, <1>2, Zenon
<1>5. \A s \in Owning : \A t \in Subs : \A x : s # t => ~(x \in Reach(s)' /\ x \in Reach(t)')
  BY <1>1, Constants, Zenon
<1>6. \A s \in Owning : \A p \in Pubs : \A x : ~(x \in Reach(s)' /\ x \in KeptBy(p)')
  BY <1>1, Constants, Zenon
<1>7. Ownership' <=>
        (/\ \A s \in Subs : \A x \in Reach(s) : Published(x) /\ x[2] \in Tags(s)
         /\ \A p \in Pubs : \A x \in KeptBy(p) : Published(x) /\ x[2] \in {"orig", "copy"}
         /\ \A s \in Owning : \A t \in Subs : \A x : s # t => ~(x \in Reach(s) /\ x \in Reach(t))
         /\ \A s \in Owning : \A p \in Pubs : \A x : ~(x \in Reach(s) /\ x \in KeptBy(p)))'
  BY OwnershipParts, PTL
<1> QED
  BY <1>3, <1>4, <1>5, <1>6, <1>7

\* The same, on the parts.
LEMMA PartsShrink ==
    ASSUME Ownership, sent' = sent,
           \A s \in Subs : \A x : InRing(x, s)' => x \in Reach(s),
           \A s \in Subs : \A x : InHand(x, s)' => x \in Reach(s),
           \A s \in Subs : \A p \in Pubs : \A x : OnTheWay(x, s, p)' => x \in Reach(s),
           \A p \in Pubs : \A x : x = pub'[p].msg /\ x # None => x \in KeptBy(p),
           \A p \in Pubs \cap Transient : \A x : InRing(x, p)' => x \in KeptBy(p)
    PROVE  Ownership'
<1>1. (\A s \in Subs : \A x :
          x \in Reach(s) <=> InRing(x, s) \/ InHand(x, s) \/ \E p \in Pubs : OnTheWay(x, s, p))'
  BY ReachPartsNext
<1>2. (\A p \in Pubs : \A x :
          x \in KeptBy(p) <=> (x = pub[p].msg /\ x # None) \/ (p \in Transient /\ InRing(x, p)))'
  BY KeptByPartsNext
<1>3. \A s \in Subs : \A x : x \in Reach(s)' => x \in Reach(s)
  BY <1>1, Zenon
<1>4. \A p \in Pubs : \A x : x \in KeptBy(p)' => x \in KeptBy(p)
  BY <1>2, Zenon
<1> QED
  BY <1>3, <1>4, OwnershipShrinks

\* A step that moves no object.
LEMMA OwnershipFrame ==
    ASSUME Ownership, UNCHANGED <<sent, ring, held, pub>>
    PROVE  Ownership'
<1>1. \A s \in Subs : \A x : x \in Reach(s)' => x \in Reach(s)
  BY DEF Reach
<1>2. \A p \in Pubs : \A x : x \in KeptBy(p)' => x \in KeptBy(p)
  BY DEF KeptBy
<1> QED
  BY <1>1, <1>2, OwnershipShrinks

\* What is enqueued was within reach, or is the new object.
LEMMA RingGrows ==
    ASSUME NEW y, NEW x, InRing(x, y)', NEW c \in Nat \ {0}, RingOK(ring[y], c), NEW z,
           Enqueued(ring'[y], ring[y], z, c)
    PROVE  x = z \/ InRing(x, y)
<1>1. \A i \in 1..ring'[y].n :
          Content(ring'[y])[i] = z \/ \E j \in 1..ring[y].n : Content(ring'[y])[i] = Content(ring[y])[j]
  BY EnqueuedFrom
<1> QED
  BY <1>1 DEF InRing

\* A ring buffer that does not change gains nothing.
LEMMA SameRing ==
    ASSUME NEW y, NEW x, InRing(x, y)', ring'[y] = ring[y]
    PROVE  InRing(x, y)
  BY DEF InRing

\* A delivery moves an object that was on its way.
LEMMA DeliverOwnership ==
    ASSUME RingsOK, PubsOK, Ownership, NEW p \in Pubs, Deliver(p)
    PROVE  Ownership'
<1> DEFINE d == pub[p].todo[1]
<1>1. /\ d[1] \in Subs /\ d[2] \in Objects
      /\ Enqueued(ring'[d[1]], ring[d[1]], d[2], Depth[d[1]])
      /\ \A y \in Buffered : y # d[1] => ring'[y] = ring[y]
  BY DeliverRing
<1>2. /\ UNCHANGED <<sent, held>> /\ pub[p].pc = "deliver" /\ Delivering(p)
      /\ pub' = [pub EXCEPT ![p].pc = "signal"]
  BY DEF Deliver, waitVars, Delivering
<1>3. OnTheWay(d[2], d[1], p)
  <2>1. 1 \in 1..Len(pub[p].todo)
    BY <1>2, HeadFacts
  <2> QED
    BY <1>2, <2>1 DEF OnTheWay
<1>4. /\ pub'[p].todo = pub[p].todo /\ pub'[p].msg = pub[p].msg
      /\ \A q \in Pubs : q # p => pub'[q] = pub[q]
  BY <1>2 DEF PubsOK
<1> HIDE DEF d
<1>5. d[2] \in Reach(d[1])
  BY <1>1, <1>3, ReachParts, Zenon
<1>6. ASSUME NEW y \in Buffered, NEW x, InRing(x, y)' PROVE InRing(x, y) \/ (y = d[1] /\ x = d[2])
  <2>1. CASE y = d[1]
    <3>1. RingOK(ring[y], Depth[y]) /\ Depth[y] \in Nat \ {0}
      BY Constants DEF RingsOK
    <3> QED
      BY <1>1, <1>6, <2>1, <3>1, RingGrows
  <2>2. CASE y # d[1]
    BY <1>1, <1>6, <2>2, SameRing
  <2> QED
    BY <2>1, <2>2
<1>7. \A s \in Subs : \A x : InRing(x, s)' => x \in Reach(s)
  BY <1>5, <1>6, ReachParts, Constants, Zenon
<1>8. \A s \in Subs : \A x : InHand(x, s)' => x \in Reach(s)
  <2>1. \A s \in Subs : \A x : InHand(x, s)' => InHand(x, s)
    BY <1>2 DEF InHand
  <2> QED
    BY <2>1, ReachParts, Zenon
<1>9. \A s \in Subs : \A q \in Pubs : \A x : OnTheWay(x, s, q)' => x \in Reach(s)
  <2>1. ASSUME NEW s \in Subs, NEW q \in Pubs, NEW x, OnTheWay(x, s, q)' PROVE OnTheWay(x, s, q)
    <3>1. CASE q = p
      BY <1>2, <1>4, <2>1, <3>1 DEF OnTheWay
    <3>2. CASE q # p
      BY <1>4, <2>1, <3>2 DEF OnTheWay
    <3> QED
      BY <3>1, <3>2
  <2> QED
    BY <2>1, ReachParts, Zenon
<1>10. \A q \in Pubs : pub'[q].msg = pub[q].msg
  BY <1>4
<1>11. \A q \in Pubs : \A x : x = pub'[q].msg /\ x # None => x \in KeptBy(q)
  BY <1>10, KeptByParts, Zenon
<1>12. \A q \in Pubs \cap Transient : \A x : InRing(x, q)' => x \in KeptBy(q)
  <2>1. \A q \in Pubs \cap Transient : q \in Buffered /\ q # d[1]
    BY <1>1, Constants
  <2> QED
    BY <1>6, <2>1, KeptByParts, Zenon
<1> QED
  BY <1>2, <1>7, <1>8, <1>9, <1>11, <1>12, PartsShrink

\* A notification moves no object.
LEMMA SignalOwnership ==
    ASSUME PubsOK, Ownership, NEW p \in Pubs, Signal(p)
    PROVE  Ownership'
<1> DEFINE q == pub[p].todo
           r == Tail(q)
<1>1. /\ UNCHANGED <<sent, held, ring>> /\ pub[p].pc = "signal" /\ Delivering(p)
      /\ pub' = [pub EXCEPT ![p].todo = r, ![p].pc = NextStop(p, r)]
  BY DEF Signal, Delivering
<1>2. r \in Seq(Subs \X Objects) /\ \A i \in 1..Len(r) : r[i] = q[i + 1] /\ i + 1 \in 1..Len(q)
  BY <1>1, HeadFacts
<1> HIDE DEF r
<1>3. /\ pub'[p].todo = r /\ pub'[p].msg = pub[p].msg
      /\ \A u \in Pubs : u # p => pub'[u] = pub[u]
  BY <1>1 DEF PubsOK
<1>4. ASSUME NEW s \in Subs, NEW u \in Pubs, NEW x, OnTheWay(x, s, u)' PROVE OnTheWay(x, s, u)
  <2>1. CASE u = p
    <3>1. PICK i \in 1..Len(r) : r[i][1] = s /\ x = r[i][2]
      BY <1>3, <1>4, <2>1 DEF OnTheWay
    <3>2. q[i + 1][1] = s /\ x = q[i + 1][2] /\ i + 1 \in 1..Len(q) /\ i + 1 # 1
      BY <1>2, <3>1
    <3> QED
      BY <2>1, <3>2 DEF OnTheWay
  <2>2. CASE u # p
    BY <1>3, <1>4, <2>2 DEF OnTheWay
  <2> QED
    BY <2>1, <2>2
<1>5. \A s \in Subs : \A u \in Pubs : \A x : OnTheWay(x, s, u)' => x \in Reach(s)
  BY <1>4, ReachParts, Zenon
<1>6. \A s \in Subs : \A x : (InRing(x, s)' => InRing(x, s)) /\ (InHand(x, s)' => InHand(x, s))
  BY <1>1 DEF InRing, InHand
<1>7. \A u \in Pubs : \A x : InRing(x, u)' => InRing(x, u)
  BY <1>1 DEF InRing
<1>8. \A u \in Pubs : pub'[u].msg = pub[u].msg
  BY <1>3
<1>9. /\ \A s \in Subs : \A x : InRing(x, s)' => x \in Reach(s)
      /\ \A s \in Subs : \A x : InHand(x, s)' => x \in Reach(s)
  BY <1>6, ReachParts, Zenon
<1>10. /\ \A u \in Pubs : \A x : x = pub'[u].msg /\ x # None => x \in KeptBy(u)
       /\ \A u \in Pubs \cap Transient : \A x : InRing(x, u)' => x \in KeptBy(u)
  BY <1>7, <1>8, KeptByParts, Zenon
<1> QED
  BY <1>1, <1>5, <1>9, <1>10, PartsShrink

\* Storing moves an object the publisher held.
LEMMA StoreOwnership ==
    ASSUME RingsOK, PubsOK, Ownership, NEW p \in Pubs, Store(p)
    PROVE  Ownership'
<1>1. /\ p \in Transient /\ pub[p].msg \in Objects
      /\ Enqueued(ring'[p], ring[p], pub[p].msg, Depth[p])
      /\ \A y \in Buffered : y # p => ring'[y] = ring[y]
  BY StoreRing
<1>2. /\ UNCHANGED <<sent, held>> /\ pub[p].pc = "store"
      /\ pub' = [pub EXCEPT ![p].pc = "idle", ![p].msg = None]
  BY DEF Store, waitVars
<1>3. /\ pub'[p].todo = pub[p].todo /\ pub'[p].msg = None
      /\ \A q \in Pubs : q # p => pub'[q] = pub[q]
  BY <1>2 DEF PubsOK
<1>4. pub[p].msg # None /\ pub[p].msg \in KeptBy(p)
  BY <1>1, PointerAssumption, KeptByParts
<1>5. \A s \in Subs : \A x : (InRing(x, s)' => InRing(x, s)) /\ (InHand(x, s)' => InHand(x, s))
  <2>1. \A s \in Subs : ring'[s] = ring[s]
    BY <1>1, Constants
  <2> QED
    BY <1>2, <2>1 DEF InRing, InHand
<1>6. ASSUME NEW s \in Subs, NEW q \in Pubs, NEW x, OnTheWay(x, s, q)' PROVE OnTheWay(x, s, q)
  <2>1. CASE q = p
    BY <1>2, <1>3, <1>6, <2>1 DEF OnTheWay
  <2>2. CASE q # p
    BY <1>3, <1>6, <2>2 DEF OnTheWay
  <2> QED
    BY <2>1, <2>2
<1>7. /\ \A s \in Subs : \A x : InRing(x, s)' => x \in Reach(s)
      /\ \A s \in Subs : \A x : InHand(x, s)' => x \in Reach(s)
      /\ \A s \in Subs : \A q \in Pubs : \A x : OnTheWay(x, s, q)' => x \in Reach(s)
  BY <1>5, <1>6, ReachParts, Zenon
<1>8. ASSUME NEW q \in Pubs, NEW x, x = pub'[q].msg /\ x # None PROVE x \in KeptBy(q)
  <2>1. q # p /\ x = pub[q].msg
    BY <1>3, <1>8
  <2> QED
    BY <1>8, <2>1, KeptByParts, Zenon
<1>9. ASSUME NEW q \in Pubs \cap Transient, NEW x, InRing(x, q)' PROVE x \in KeptBy(q)
  <2>0. q \in Buffered
    BY Constants
  <2>1. CASE q = p
    <3>1. RingOK(ring[q], Depth[q]) /\ Depth[q] \in Nat \ {0}
      BY <2>0, Constants DEF RingsOK
    <3>2. x = pub[p].msg \/ InRing(x, q)
      BY <1>1, <1>9, <2>1, <3>1, RingGrows
    <3> QED
      BY <1>1, <1>4, <2>1, <3>2, KeptByParts, Zenon
  <2>2. CASE q # p
    <3>1. InRing(x, q)
      BY <1>1, <1>9, <2>0, <2>2, SameRing
    <3> QED
      BY <3>1, KeptByParts, Zenon
  <2> QED
    BY <2>1, <2>2
<1> QED
  BY <1>2, <1>7, <1>8, <1>9, PartsShrink

\* The object taken leaves the buffer and goes to the callback.
LEMMA TakeOwnership ==
    ASSUME RingsOK, Ownership, NEW s \in Subs, status[s] = "live", HasData(s), Take(s),
           held \in [Subs -> Objects \union {None}], UNCHANGED <<status, sent, pub>>
    PROVE  Ownership'
<1> DEFINE b == ring[s]
           f == ring'[s]
<1>1. Dequeued(f, b, Depth[s]) /\ \A y \in Buffered : y # s => ring'[y] = ring[y]
  BY TakeRing
<1>2. RingOK(b, Depth[s]) /\ b.n # 0
  BY Constants DEF RingsOK, HasData
<1>3. b.n \in Nat
  BY <1>2 DEF RingOK
<1>4. /\ f.n = b.n - 1 /\ b.slot[b.r] = Content(b)[1]
      /\ \A i \in 1..(b.n - 1) : Content(f)[i] = Content(b)[i + 1]
  BY <1>1 DEF Dequeued
<1>5. held' = [held EXCEPT ![s] = b.slot[b.r]]
  BY DEF Take
<1>6. InRing(b.slot[b.r], s)
  <2>1. 1 \in 1..b.n
    BY <1>2, <1>3
  <2> QED
    BY <1>4, <2>1 DEF InRing
<1>7. ASSUME NEW x, InRing(x, s)' PROVE InRing(x, s)
  <2>1. PICK i \in 1..f.n : x = Content(f)[i]
    BY <1>7 DEF InRing
  <2>2. i \in 1..(b.n - 1) /\ i + 1 \in 1..b.n
    BY <1>3, <1>4
  <2> QED
    BY <1>4, <2>1, <2>2 DEF InRing
<1> HIDE DEF b, f
<1>8. ASSUME NEW y \in Buffered, NEW x, InRing(x, y)' PROVE InRing(x, y)
  BY <1>1, <1>7, <1>8, SameRing
<1>9. \A t \in Subs : \A x : InHand(x, t)' => InHand(x, t) \/ InRing(x, t)
  BY <1>5, <1>6 DEF InHand
<1>10. \A t \in Subs : \A p \in Pubs : \A x : OnTheWay(x, t, p)' => OnTheWay(x, t, p)
  BY DEF OnTheWay
<1>11. /\ \A t \in Subs : \A x : InRing(x, t)' => x \in Reach(t)
       /\ \A t \in Subs : \A x : InHand(x, t)' => x \in Reach(t)
       /\ \A t \in Subs : \A q \in Pubs : \A x : OnTheWay(x, t, q)' => x \in Reach(t)
  BY <1>8, <1>9, <1>10, ReachParts, Constants, Zenon
<1>12. \A q \in Pubs \cap Transient : q \in Buffered
  BY Constants
<1>13. /\ \A q \in Pubs : \A x : x = pub'[q].msg /\ x # None => x \in KeptBy(q)
       /\ \A q \in Pubs \cap Transient : \A x : InRing(x, q)' => x \in KeptBy(q)
  BY <1>8, <1>12, KeptByParts, Zenon
<1> QED
  BY <1>11, <1>13, PartsShrink

\* When the callback returns, its object is gone.
LEMMA ExecuteOwnership ==
    ASSUME Ownership, NEW s \in Subs, Execute(s), held \in [Subs -> Objects \union {None}]
    PROVE  Ownership'
<1>1. UNCHANGED <<sent, ring, pub>> /\ held' = [held EXCEPT ![s] = None]
  BY DEF Execute
<1>2. \A t \in Subs : \A x : (InRing(x, t)' => InRing(x, t)) /\ (InHand(x, t)' => InHand(x, t))
  BY <1>1 DEF InRing, InHand
<1>3. \A t \in Subs : \A p \in Pubs : \A x : OnTheWay(x, t, p)' => OnTheWay(x, t, p)
  BY <1>1 DEF OnTheWay
<1>4. \A q \in Pubs : \A x : InRing(x, q)' => InRing(x, q)
  BY <1>1 DEF InRing
<1>5. /\ \A t \in Subs : \A x : InRing(x, t)' => x \in Reach(t)
      /\ \A t \in Subs : \A x : InHand(x, t)' => x \in Reach(t)
      /\ \A t \in Subs : \A q \in Pubs : \A x : OnTheWay(x, t, q)' => x \in Reach(t)
  BY <1>2, <1>3, ReachParts, Zenon
<1>6. /\ \A q \in Pubs : \A x : x = pub'[q].msg /\ x # None => x \in KeptBy(q)
      /\ \A q \in Pubs \cap Transient : \A x : InRing(x, q)' => x \in KeptBy(q)
  BY <1>1, <1>4, KeptByParts, Zenon
<1> QED
  BY <1>1, <1>5, <1>6, PartsShrink

\* The parts of the invariant for a step that gives somebody more.
LEMMA OwnershipFromParts ==
    ASSUME \A s \in Subs : \A x \in Reach(s)' : Published(x)' /\ x[2] \in Tags(s),
           \A p \in Pubs : \A x \in KeptBy(p)' : Published(x)' /\ x[2] \in {"orig", "copy"},
           \A s \in Owning : \A t \in Subs : \A x : s # t => ~(x \in Reach(s)' /\ x \in Reach(t)'),
           \A s \in Owning : \A p \in Pubs : \A x : ~(x \in Reach(s)' /\ x \in KeptBy(p)')
    PROVE  Ownership'
<1>1. Ownership' <=>
        (/\ \A s \in Subs : \A x \in Reach(s) : Published(x) /\ x[2] \in Tags(s)
         /\ \A p \in Pubs : \A x \in KeptBy(p) : Published(x) /\ x[2] \in {"orig", "copy"}
         /\ \A s \in Owning : \A t \in Subs : \A x : s # t => ~(x \in Reach(s) /\ x \in Reach(t))
         /\ \A s \in Owning : \A p \in Pubs : \A x : ~(x \in Reach(s) /\ x \in KeptBy(p)))'
  BY OwnershipParts, PTL
<1> QED
  BY <1>1

\* An object a new subscription is given: a copy of its own, or a kept one.
Given(x, s) ==
    \E p \in Pubs : \E y \in KeptBy(p) : x = IF s \in Owning THEN <<y[1], s>> ELSE y

\* What a new subscription is given is a copy of its own, or shared by nobody who owns.
LEMMA AddSubscriptionOwnership ==
    ASSUME RingsOK, Ownership, NEW s \in Subs, AddSubscription(s), s \in DOMAIN status
    PROVE  Ownership'
<1>1. /\ \A y \in Buffered : y # s => ring'[y] = ring[y]
      /\ \A k \in 1..ring'[s].n : \E p \in Pubs \cap Transient : \E i \in 1..ring[p].n :
             Content(ring'[s])[k] = Replay(s, p)[i]
  BY AddSubscriptionRing
<1>2. UNCHANGED <<sent, pub, held>>
  BY DEF AddSubscription
<1>3. ASSUME NEW x, InRing(x, s)' PROVE Given(x, s)
  <2>1. PICK k \in 1..ring'[s].n : x = Content(ring'[s])[k]
    BY <1>3 DEF InRing
  <2>2. PICK p \in Pubs \cap Transient : \E i \in 1..ring[p].n : x = Replay(s, p)[i]
    BY <1>1, <2>1
  <2>3. PICK i \in 1..ring[p].n : x = Replay(s, p)[i]
    BY <2>2
  <2> DEFINE y == Content(ring[p])[i]
  <2>4. x = IF s \in Owning THEN <<y[1], s>> ELSE y
    BY <2>3, ReplayFacts
  <2>5. InRing(y, p)
    BY DEF InRing
  <2> HIDE DEF y
  <2>6. y \in KeptBy(p)
    BY <2>5, KeptByParts, Zenon
  <2> QED
    BY <2>4, <2>6 DEF Given
<1>4. /\ \A t \in Subs : \A x \in Reach(t) : Published(x) /\ x[2] \in Tags(t)
      /\ \A p \in Pubs : \A x \in KeptBy(p) : Published(x) /\ x[2] \in {"orig", "copy"}
      /\ \A u \in Owning : \A t \in Subs : \A x : u # t => ~(x \in Reach(u) /\ x \in Reach(t))
      /\ \A u \in Owning : \A p \in Pubs : \A x : ~(x \in Reach(u) /\ x \in KeptBy(p))
  BY OwnershipParts
<1>5. (\A t \in Subs : \A x :
          x \in Reach(t) <=> InRing(x, t) \/ InHand(x, t) \/ \E p \in Pubs : OnTheWay(x, t, p))'
  BY ReachPartsNext
<1>6. (\A p \in Pubs : \A x :
          x \in KeptBy(p) <=> (x = pub[p].msg /\ x # None) \/ (p \in Transient /\ InRing(x, p)))'
  BY KeptByPartsNext
<1>7. \A y \in Buffered : \A x : y # s => (InRing(x, y)' => InRing(x, y))
  BY <1>1, SameRing
<1>8. /\ \A t \in Subs : \A x : InHand(x, t)' => InHand(x, t)
      /\ \A t \in Subs : \A p \in Pubs : \A x : OnTheWay(x, t, p)' => OnTheWay(x, t, p)
  BY <1>2 DEF InHand, OnTheWay
<1>9. \A t \in Subs : \A x : x \in Reach(t)' => x \in Reach(t) \/ (t = s /\ Given(x, s))
  BY <1>3, <1>5, <1>7, <1>8, ReachParts, Constants, Zenon
<1>10. \A p \in Pubs : \A x : x \in KeptBy(p)' => x \in KeptBy(p)
  <2>1. \A p \in Pubs \cap Transient : p \in Buffered /\ p # s
    BY Constants
  <2> QED
    BY <1>2, <1>6, <1>7, <2>1, KeptByParts, Zenon
<1>11. \A x : Published(x)' <=> Published(x)
  BY <1>2 DEF Published
<1>12. ASSUME NEW x, Given(x, s)
       PROVE  /\ Published(x) /\ x[2] \in Tags(s)
              /\ s \in Owning => x[2] = s
              /\ ~(s \in Owning) => \E p \in Pubs : x \in KeptBy(p)
  <2>0. PICK p \in Pubs : \E y \in KeptBy(p) : x = IF s \in Owning THEN <<y[1], s>> ELSE y
    BY <1>12 DEF Given
  <2>1. PICK y \in KeptBy(p) : x = IF s \in Owning THEN <<y[1], s>> ELSE y
    BY <2>0
  <2>2. Published(y) /\ y[2] \in {"orig", "copy"}
    BY <1>4
  <2>3. CASE s \in Owning
    <3>1. x[1] = y[1] /\ x[2] = s
      BY <2>1, <2>3
    <3> QED
      BY <2>2, <2>3, <3>1 DEF Published, Tags
  <2>4. CASE ~(s \in Owning)
    BY <2>1, <2>2, <2>4 DEF Tags
  <2> QED
    BY <2>3, <2>4
<1>13. \A t \in Subs : s # t => ~(s \in Tags(t))
  BY Constants DEF Tags
<1>14. \A t \in Subs : \A x \in Reach(t)' : Published(x)' /\ x[2] \in Tags(t)
  BY <1>4, <1>9, <1>11, <1>12, Zenon
<1>15. \A p \in Pubs : \A x \in KeptBy(p)' : Published(x)' /\ x[2] \in {"orig", "copy"}
  BY <1>4, <1>10, <1>11, Zenon
<1>16. ASSUME NEW u \in Owning, NEW t \in Subs, NEW x, u # t, x \in Reach(u)', x \in Reach(t)'
       PROVE  FALSE
  <2>1. u \in Subs
    BY Constants
  <2>2. CASE x \in Reach(u) /\ x \in Reach(t)
    BY <1>4, <1>16, <2>2, Zenon
  <2>3. CASE u = s /\ Given(x, s) /\ x \in Reach(t)
    <3>1. x[2] = s /\ x[2] \in Tags(t)
      BY <1>4, <1>12, <2>3
    <3> QED
      BY <1>13, <1>16, <2>3, <3>1
  <2>4. CASE t = s /\ Given(x, s) /\ x \in Reach(u)
    <3>1. x[2] \in Tags(u)
      BY <1>4, <2>1, <2>4
    <3>2. CASE s \in Owning
      BY <1>12, <1>13, <1>16, <2>1, <2>4, <3>1, <3>2
    <3>3. CASE ~(s \in Owning)
      BY <1>4, <1>12, <2>4, <3>3, Zenon
    <3> QED
      BY <3>2, <3>3
  <2> QED
    BY <1>9, <1>16, <2>1, <2>2, <2>3, <2>4, Zenon
<1>17. ASSUME NEW u \in Owning, NEW p \in Pubs, NEW x, x \in Reach(u)', x \in KeptBy(p)' PROVE FALSE
  <2>1. u \in Subs /\ x \in KeptBy(p)
    BY <1>10, <1>17, Constants
  <2>2. CASE x \in Reach(u)
    BY <1>4, <2>1, <2>2, Zenon
  <2>3. CASE u = s /\ Given(x, s)
    <3>1. x[2] = s /\ x[2] \in {"orig", "copy"}
      BY <1>4, <1>12, <2>1, <2>3
    <3> QED
      BY <3>1, Constants
  <2> QED
    BY <1>9, <1>17, <2>1, <2>2, <2>3, Zenon
<1> QED
  BY <1>14, <1>15, <1>16, <1>17, OwnershipFromParts

\* A published message is fresh, and do_intra_process_publish hands it out
\* so that no two get an object one of them owns.
LEMMA PublishOwnership ==
    ASSUME ListsOK, PubsOK, Ownership, NEW p \in Pubs, Publish(p)
    PROVE  Ownership'
<1> DEFINE m == <<p, sent[p] + 1>>
           todo == pub'[p].todo
           kept == <<m, IF targets[p].owned = <<>> THEN "orig" ELSE "copy">>
           n == Len(todo)
           New(x, t) == \E i \in 1..n : todo[i][1] = t /\ x = todo[i][2]
<1>1. PICK ws \in BOOLEAN :
          /\ m \in Messages /\ (p \in Transient => ws)
          /\ RecipientsOK(todo, m, targets[p], ws)
          /\ pub' = [pub EXCEPT ![p] = [pc |-> NextStop(p, todo), todo |-> todo,
                                        msg |-> IF p \in Transient THEN kept ELSE None]]
  BY PublishThread
<1>2. /\ sent' = [sent EXCEPT ![p] = sent[p] + 1] /\ UNCHANGED <<ring, held>> /\ pub[p].pc = "idle"
      /\ sent \in [Pubs -> Nat]
  BY DEF Publish, waitVars, PubsOK
<1>3. /\ pub'[p].msg = (IF p \in Transient THEN kept ELSE None)
      /\ \A q \in Pubs : q # p => pub'[q] = pub[q]
  BY <1>1 DEF PubsOK
<1> HIDE DEF todo
<1>4. /\ \A i \in 1..n : todo[i][2][1] = m /\ todo[i][2][2] \in Tags(todo[i][1])
      /\ \A i, j \in 1..n : i # j /\ todo[i][1] \in Owning => todo[i][2] # todo[j][2]
      /\ \A i \in 1..n : ws /\ todo[i][1] \in Owning => todo[i][2] # kept
  BY <1>1, Zenon DEF RecipientsOK, Tags
<1>5. kept[1] = m /\ kept[2] \in {"orig", "copy"}
  OBVIOUS
<1>6. /\ \A t \in Subs : \A x \in Reach(t) : Published(x) /\ x[2] \in Tags(t)
      /\ \A q \in Pubs : \A x \in KeptBy(q) : Published(x) /\ x[2] \in {"orig", "copy"}
      /\ \A u \in Owning : \A t \in Subs : \A x : u # t => ~(x \in Reach(u) /\ x \in Reach(t))
      /\ \A u \in Owning : \A q \in Pubs : \A x : ~(x \in Reach(u) /\ x \in KeptBy(q))
  BY OwnershipParts
<1>7. (\A t \in Subs : \A x :
          x \in Reach(t) <=> InRing(x, t) \/ InHand(x, t) \/ \E q \in Pubs : OnTheWay(x, t, q))'
  BY ReachPartsNext
<1>8. (\A q \in Pubs : \A x :
          x \in KeptBy(q) <=> (x = pub[q].msg /\ x # None) \/ (q \in Transient /\ InRing(x, q)))'
  BY KeptByPartsNext
<1>9. ASSUME NEW x, Published(x) PROVE x[1] # m /\ Published(x)'
  <2>1. CASE x[1][1] = p
    <3>1. x[1][2] \in 1..sent[p] /\ sent[p] \in Nat /\ sent'[p] = sent[p] + 1
      BY <1>2, <1>9, <2>1 DEF Published
    <3>2. x[1][2] \in 1..sent'[p] /\ x[1][2] # sent[p] + 1
      BY <3>1
    <3>3. x[1] # m
      BY <3>2
    <3> QED
      BY <2>1, <3>2, <3>3 DEF Published
  <2>2. CASE x[1][1] # p
    BY <1>2, <1>9, <2>2 DEF Published
  <2> QED
    BY <2>1, <2>2
<1>10. ASSUME NEW x, x[1] = m PROVE Published(x)'
  <2>1. sent'[p] = sent[p] + 1 /\ sent[p] \in Nat
    BY <1>2
  <2>2. x[1][1] = p /\ x[1][2] \in 1..sent'[p]
    BY <1>10, <2>1
  <2> QED
    BY <2>2 DEF Published
<1> HIDE DEF kept, m
<1>11. ASSUME NEW t \in Subs, NEW x, x \in Reach(t)' PROVE x \in Reach(t) \/ New(x, t)
  <2>1. CASE InRing(x, t)' \/ InHand(x, t)'
    <3>1. InRing(x, t) \/ InHand(x, t)
      BY <1>2, <2>1 DEF InRing, InHand
    <3> QED
      BY <3>1, ReachParts, Zenon
  <2>2. ASSUME NEW q \in Pubs, OnTheWay(x, t, q)' PROVE x \in Reach(t) \/ New(x, t)
    <3>1. CASE q = p
      BY <2>2, <3>1 DEF OnTheWay, todo
    <3>2. CASE q # p
      <4>1. OnTheWay(x, t, q)
        BY <1>3, <2>2, <3>2 DEF OnTheWay
      <4> QED
        BY <4>1, ReachParts, Zenon
    <3> QED
      BY <3>1, <3>2
  <2> QED
    BY <1>7, <1>11, <2>1, <2>2, Zenon
<1>12. ASSUME NEW q \in Pubs, NEW x, x \in KeptBy(q)'
       PROVE  x \in KeptBy(q) \/ (q = p /\ p \in Transient /\ x = kept)
  <2>1. CASE q \in Transient /\ InRing(x, q)'
    <3>1. InRing(x, q)
      BY <1>2, <2>1 DEF InRing
    <3> QED
      BY <2>1, <3>1, KeptByParts, Zenon
  <2>2. CASE x = pub'[q].msg /\ x # None
    <3>1. CASE q = p
      BY <1>3, <2>2, <3>1
    <3>2. CASE q # p
      <4>1. x = pub[q].msg
        BY <1>3, <2>2, <3>2
      <4> QED
        BY <2>2, <4>1, KeptByParts, Zenon
    <3> QED
      BY <3>1, <3>2
  <2> QED
    BY <1>8, <1>12, <2>1, <2>2, Zenon
<1>13. ASSUME NEW t, NEW x, New(x, t) PROVE x[1] = m /\ x[2] \in Tags(t)
  BY <1>4, <1>13
<1>14. ASSUME NEW t \in Subs, NEW x \in Reach(t)' PROVE Published(x)' /\ x[2] \in Tags(t)
  <2>1. CASE x \in Reach(t)
    BY <1>6, <1>9, <2>1
  <2>2. CASE New(x, t)
    BY <1>10, <1>13, <2>2
  <2> HIDE DEF New
  <2> QED
    BY <1>11, <2>1, <2>2
<1>15. \A q \in Pubs : \A x \in KeptBy(q)' : Published(x)' /\ x[2] \in {"orig", "copy"}
  BY <1>5, <1>6, <1>9, <1>10, <1>12, Zenon
<1>16. ASSUME NEW u \in Owning, NEW t \in Subs, NEW x, u # t, x \in Reach(u)', x \in Reach(t)'
       PROVE  FALSE
  <2>1. u \in Subs
    BY Constants
  <2>2. CASE x \in Reach(u) /\ x \in Reach(t)
    BY <1>6, <1>16, <2>2, Zenon
  <2>3. CASE (x \in Reach(u) \/ x \in Reach(t)) /\ (New(x, u) \/ New(x, t))
    <3>1. x[1] = m
      BY <1>13, <2>3
    <3>2. x[1] # m
      BY <1>6, <1>9, <2>1, <2>3, Zenon
    <3> QED
      BY <3>1, <3>2
  <2>4. CASE New(x, u) /\ New(x, t)
    <3>1. PICK i \in 1..n : todo[i][1] = u /\ x = todo[i][2]
      BY <2>4
    <3>2. PICK j \in 1..n : todo[j][1] = t /\ x = todo[j][2]
      BY <2>4
    <3>3. i # j
      BY <1>16, <3>1, <3>2
    <3> QED
      BY <1>4, <3>1, <3>2, <3>3
  <2> HIDE DEF New
  <2> QED
    BY <1>11, <1>16, <2>1, <2>2, <2>3, <2>4, Zenon
<1>17. ASSUME NEW u \in Owning, NEW q \in Pubs, NEW x, x \in Reach(u)', x \in KeptBy(q)' PROVE FALSE
  <2>1. u \in Subs
    BY Constants
  <2>2. CASE x \in Reach(u) /\ x \in KeptBy(q)
    BY <1>6, <2>2, Zenon
  <2>3. CASE x \in Reach(u) /\ x = kept
    <3>1. x[1] = m /\ x[1] # m
      BY <1>5, <1>6, <1>9, <2>1, <2>3
    <3> QED
      BY <3>1
  <2>4. CASE New(x, u) /\ x \in KeptBy(q)
    <3>1. x[1] = m /\ x[1] # m
      BY <1>6, <1>9, <1>13, <2>4
    <3> QED
      BY <3>1
  <2>5. CASE New(x, u) /\ p \in Transient /\ x = kept
    BY <1>1, <1>4, <2>5
  <2>6. x \in Reach(u) \/ New(x, u)
    BY <1>11, <1>17, <2>1
  <2>7. x \in KeptBy(q) \/ (p \in Transient /\ x = kept)
    BY <1>12, <1>17
  <2> HIDE DEF New
  <2> QED
    BY <2>2, <2>3, <2>4, <2>5, <2>6, <2>7
<1> QED
  BY <1>14, <1>15, <1>16, <1>17, OwnershipFromParts

\* Every step keeps ownership exclusive.
LEMMA OwnershipStep ==
    ASSUME RingsOK, ListsOK, PubsOK, ConsumersOK, Ownership, [Next]_vars
    PROVE  Ownership'
<1>0. held \in [Subs -> Objects \union {None}] /\ DOMAIN status = Pubs \union Subs
  BY DEF ConsumersOK, ListsOK
<1>1. ASSUME NEW p \in Pubs, AddPublisher(p) \/ RemovePublisher(p) PROVE Ownership'
  BY <1>1, OwnershipFrame DEF AddPublisher, RemovePublisher, waitVars
<1>2. ASSUME NEW s \in Subs, AddSubscription(s) PROVE Ownership'
  BY <1>0, <1>2, AddSubscriptionOwnership
<1>3. ASSUME NEW s \in Subs, RemoveSubscription(s) PROVE Ownership'
  BY <1>3, OwnershipFrame DEF RemoveSubscription, waitVars
<1>4. ASSUME NEW s \in Subs, AddToWaitSet(s) \/ Wake(s) PROVE Ownership'
  BY <1>4, OwnershipFrame DEF AddToWaitSet, Wake
<1>5. ASSUME NEW s \in Subs, SetOnReadyCallback(s) \/ ClearOnReadyCallback(s) \/ DropEvent(s)
      PROVE  Ownership'
  BY <1>5, OwnershipFrame DEF SetOnReadyCallback, ClearOnReadyCallback, DropEvent, waitVars
<1>6. ASSUME NEW s \in Subs, status[s] = "live", TakeData(s) PROVE Ownership'
  <2>1. HasData(s) /\ Take(s) /\ UNCHANGED <<status, sent, pub>>
    BY <1>6 DEF TakeData, mgrVars
  <2> QED
    BY <1>0, <1>6, <2>1, TakeOwnership
<1>7. ASSUME NEW s \in Subs, status[s] = "live", HandleEvent(s) PROVE Ownership'
  <2>1. UNCHANGED <<status, sent, pub>>
    BY <1>7 DEF HandleEvent, mgrVars
  <2>2. CASE HasData(s)
    <3>1. Take(s)
      BY <1>7, <2>2 DEF HandleEvent
    <3> QED
      BY <1>0, <1>7, <2>1, <2>2, <3>1, TakeOwnership
  <2>3. CASE ~HasData(s)
    <3>1. UNCHANGED <<ring, held>>
      BY <1>7, <2>3 DEF HandleEvent
    <3> QED
      BY <2>1, <3>1, OwnershipFrame
  <2> QED
    BY <2>2, <2>3
<1>8. ASSUME NEW s \in Subs, Execute(s) PROVE Ownership'
  BY <1>0, <1>8, ExecuteOwnership
<1>9. CASE UNCHANGED vars
  BY <1>9, OwnershipFrame DEF vars
<1> QED
  BY <1>1, <1>2, <1>3, <1>4, <1>5, <1>6, <1>7, <1>8, <1>9, PublishOwnership, DeliverOwnership,
     SignalOwnership, StoreOwnership, Constants DEF Next, Register, Producer, WaitStep, EventStep

-----------------------------------------------------------------------------
(* The invariant holds at the start *)

\* What every proof below builds on.
Sound == RingsOK /\ ListsOK /\ PubsOK /\ KeptOK /\ ConsumersOK

\* All ring buffers start empty.
LEMMA InitRings ==
    ASSUME Init
    PROVE  RingsOK /\ \A x \in Buffered : ring[x].n = 0
<1>1. ring = [x \in Buffered |-> EmptyRing(Depth[x])]
  BY DEF Init
<1>2. ASSUME NEW x \in Buffered PROVE RingOK(ring[x], Depth[x]) /\ ring[x].n = 0
  BY <1>1, Constants, EmptyRingOK
<1>3. DOMAIN ring = Buffered /\ Subs \subseteq Buffered
  BY <1>1, Constants
<1> QED
  BY <1>2, <1>3 DEF RingsOK

\* The invariant holds at the start.
LEMMA InitSound ==
    ASSUME Init
    PROVE  Sound
<1>1. RingsOK /\ \A x \in Buffered : ring[x].n = 0
  BY InitRings
<1>2. ListsOK
  <2>1. <<>> \in Seq(Subs \ Owning) /\ <<>> \in Seq(Owning) /\ Distinct(<<>>)
    BY DEF Distinct
  <2>2. LivePubs = {}
    BY DEF Init, LivePubs
  <2>3. targets = [p \in Pubs |-> [shared |-> <<>>, owned |-> <<>>]]
        /\ status = [x \in Pubs \union Subs |-> "new"]
    BY DEF Init
  <2> QED
    BY <2>1, <2>2, <2>3 DEF ListsOK
<1>3. PubsOK
  <2>1. /\ sent = [p \in Pubs |-> 0] /\ pub = [p \in Pubs |-> [pc |-> "idle", todo |-> <<>>, msg |-> None]]
    BY DEF Init
  <2>2. <<>> \in Seq(Subs \X Objects) /\ Len(<<>>) = 0
    OBVIOUS
  <2>3. \A p \in Pubs : ~Delivering(p) /\ pub[p].todo = <<>> /\ pub[p].pc = "idle" /\ pub[p].msg = None
    BY <2>1 DEF Delivering
  <2>4. sent \in [Pubs -> Nat] /\ \A p \in Pubs : sent[p] <= MaxMsgs[p]
    BY <2>1, Constants
  <2>5. pub \in [Pubs -> [pc : {"idle", "deliver", "signal", "store"},
                          todo : Seq(Subs \X Objects), msg : Objects \union {None}]]
    BY <2>1, <2>2
  <2> QED
    BY <2>2, <2>3, <2>4, <2>5 DEF PubsOK
<1>4. KeptOK
  <2>1. \A p \in Pubs \cap Transient : ring[p].n = 0 /\ sent[p] = 0
    BY <1>1, Constants DEF Init
  <2> QED
    BY <2>1 DEF KeptOK
<1>5. ConsumersOK
  BY DEF Init, ConsumersOK
<1> QED
  BY <1>1, <1>2, <1>3, <1>4, <1>5 DEF Sound

\* Nobody holds an object at the start.
LEMMA InitOwnership ==
    ASSUME Init
    PROVE  Ownership
<1>1. \A x \in Buffered : ring[x].n = 0
  BY InitRings
<1>2. \A y \in Buffered : \A x : ~InRing(x, y)
  BY <1>1 DEF InRing
<1>3. \A s \in Subs : \A x : ~InHand(x, s)
  BY DEF Init, InHand
<1>4. /\ \A s \in Subs : \A p \in Pubs : \A x : ~OnTheWay(x, s, p)
      /\ \A p \in Pubs : pub[p].msg = None
  <2>1. \A p \in Pubs : pub[p].todo = <<>> /\ pub[p].msg = None
    BY DEF Init
  <2>2. Len(<<>>) = 0
    OBVIOUS
  <2> QED
    BY <2>1, <2>2 DEF OnTheWay
<1>5. \A s \in Subs : \A x : ~(x \in Reach(s))
  BY <1>2, <1>3, <1>4, ReachParts, Constants, Zenon
<1>6. \A p \in Pubs : \A x : ~(x \in KeptBy(p))
  BY <1>2, <1>4, KeptByParts, Constants, Zenon
<1> QED
  BY <1>5, <1>6, OwnershipParts, Constants, Zenon

\* Every step keeps the invariant.
LEMMA SoundStep ==
    ASSUME Sound, [Next]_vars
    PROVE  Sound'
<1>1. RingsOK /\ ListsOK /\ PubsOK /\ KeptOK /\ ConsumersOK /\ DOMAIN status = Pubs \union Subs
  BY DEF Sound, ListsOK
<1> QED
  BY <1>1, RingsStep, ListsStep, PubsStep, KeptStep, ConsumersStep DEF Sound

\* The five parts are an inductive invariant of the specification.
THEOREM SoundAlways == Spec => []Sound
<1>1. Init => Sound
  BY InitSound
<1>2. Sound /\ [Next]_vars => Sound'
  BY SoundStep
<1> QED
  BY <1>1, <1>2, PTL DEF Spec

-----------------------------------------------------------------------------
(* The type invariant *)

\* Every slot is some number of places after the read index.
LEMMA SlotReached ==
    ASSUME NEW c \in Nat \ {0}, NEW r \in 0..(c - 1), NEW i \in 0..(c - 1)
    PROVE  \E k \in 0..(c - 1) : i = Idx(c, r, k)
<1>1. CASE i >= r
  <2>1. i - r \in 0..(c - 1) /\ i = Idx(c, r, i - r)
    BY <1>1 DEF Idx
  <2> QED
    BY <2>1
<1>2. CASE ~(i >= r)
  <2>1. i - r + c \in 0..(c - 1) /\ i = Idx(c, r, i - r + c)
    BY <1>2 DEF Idx
  <2> QED
    BY <2>1
<1> QED
  BY <1>1, <1>2

\* A slot is full exactly when the indices say so.
LEMMA SlotsTyped ==
    ASSUME NEW c \in Nat \ {0}, NEW b, RingOK(b, c), NEW i \in 0..(c - 1)
    PROVE  IF \E j \in 0..(b.n - 1) : i = (b.r + j) % c THEN b.slot[i] \in Objects
                                                        ELSE b.slot[i] = None
<1>1. /\ b.r \in 0..(c - 1) /\ b.n \in 0..c
      /\ \A j \in 0..(c - 1) : b.slot[Idx(c, b.r, j)] \in IF j < b.n THEN Objects ELSE {None}
  BY DEF RingOK
<1>r. b.r \in 0..(c - 1)
  BY <1>1
<1>2. \A j \in 0..(c - 1) : (b.r + j) % c = Idx(c, b.r, j)
  <2> SUFFICES ASSUME NEW j \in 0..(c - 1) PROVE (b.r + j) % c = Idx(c, b.r, j)
    OBVIOUS
  <2>1. j \in 0..c
    OBVIOUS
  <2> QED
    BY <1>r, <2>1, ModIsIdx
<1>3. \A j \in 0..(b.n - 1) : j \in 0..(c - 1) /\ j < b.n
  BY <1>1
<1>4. CASE \E j \in 0..(b.n - 1) : i = (b.r + j) % c
  <2>1. PICK j \in 0..(b.n - 1) : i = (b.r + j) % c
    BY <1>4
  <2>2. j \in 0..(c - 1) /\ j < b.n /\ i = Idx(c, b.r, j)
    BY <1>2, <1>3, <2>1
  <2> QED
    BY <1>1, <1>4, <2>2
<1>5. CASE ~(\E j \in 0..(b.n - 1) : i = (b.r + j) % c)
  <2>1. PICK k \in 0..(c - 1) : i = Idx(c, b.r, k)
    BY <1>r, SlotReached
  <2>2. ~(k < b.n)
    <3> SUFFICES ASSUME k < b.n PROVE FALSE
      OBVIOUS
    <3>1. k \in 0..(b.n - 1)
      BY <1>1
    <3> QED
      BY <1>2, <1>5, <2>1, <3>1
  <2> QED
    BY <1>1, <1>5, <2>1, <2>2
<1> QED
  BY <1>4, <1>5

\* The invariant gives the type invariant.
LEMMA SoundIsTyped ==
    ASSUME Sound
    PROVE  TypeOK
<1>1. /\ status \in [Pubs \union Subs -> {"new", "live", "gone"}]
      /\ \A p \in Pubs : targets[p].shared \in Seq(Subs \ Owning) /\ targets[p].owned \in Seq(Owning)
  BY DEF Sound, ListsOK
<1>2. ASSUME NEW x \in Buffered
      PROVE  /\ ring[x].w \in 0..(Depth[x] - 1) /\ ring[x].r \in 0..(Depth[x] - 1)
             /\ ring[x].n \in 0..Depth[x]
             /\ \A i \in 0..(Depth[x] - 1) :
                    IF \E j \in 0..(ring[x].n - 1) : i = (ring[x].r + j) % Depth[x]
                    THEN ring[x].slot[i] \in Objects ELSE ring[x].slot[i] = None
  <2>1. Depth[x] \in Nat \ {0} /\ RingOK(ring[x], Depth[x])
    BY Constants DEF Sound, RingsOK
  <2>2. /\ ring[x].w \in 0..(Depth[x] - 1) /\ ring[x].r \in 0..(Depth[x] - 1)
        /\ ring[x].n \in 0..Depth[x]
    BY <2>1 DEF RingOK
  <2> QED
    BY <2>1, <2>2, SlotsTyped
<1>3. \A p \in Pubs : sent[p] \in 0..MaxMsgs[p]
  BY Constants DEF Sound, PubsOK
<1>4. \A p \in Pubs :
          /\ pub[p].pc \in {"idle", "deliver", "signal", "store"}
          /\ pub[p].todo \in Seq(Subs \X Objects)
          /\ pub[p].msg \in Objects \union {None}
  BY DEF Sound, PubsOK
<1>5. /\ gc \in [Subs -> BOOLEAN]
      /\ cons \in [Subs -> {"collect", "wait", "ready", "taken"}]
      /\ held \in [Subs -> Objects \union {None}]
      /\ attached \in [Subs -> BOOLEAN]
      /\ unread \in [Subs -> Nat] /\ events \in [Subs -> Nat] /\ dropped \in [Subs -> Nat]
  BY DEF Sound, ConsumersOK
<1> QED
  BY <1>1, <1>2, <1>3, <1>4, <1>5, Zenon DEF TypeOK

\* The state of the manager, the buffers and the threads is always of its
\* type, and a slot of a ring buffer holds a message exactly when the read
\* index and the size say so: consume never finds an empty pointer in a
\* buffer that has data (ring_buffer_implementation.hpp).
THEOREM TypeCorrect == Spec => []TypeOK
<1>1. Sound => TypeOK
  BY SoundIsTyped
<1> QED
  BY <1>1, SoundAlways, PTL

\* An object handed to a subscription that asked for ownership is reachable
\* for nobody else, whatever publishers, other subscriptions and keepers of
\* messages do at the same time (do_intra_process_publish and its variant
\* that returns a shared pointer, do_transient_local_publish).
THEOREM OwnershipIsExclusive == Spec => []ExclusiveOwnership
<1>1. Init => Sound /\ Ownership
  BY InitSound, InitOwnership
<1>2. Sound /\ Ownership /\ [Next]_vars => (Sound /\ Ownership)'
  <2> SUFFICES ASSUME Sound, Ownership, [Next]_vars PROVE (Sound /\ Ownership)'
    OBVIOUS
  <2>1. RingsOK /\ ListsOK /\ PubsOK /\ ConsumersOK
    BY DEF Sound
  <2> QED
    BY <2>1, SoundStep, OwnershipStep
<1>3. Ownership => ExclusiveOwnership
  BY DEF Ownership
<1> QED
  BY <1>1, <1>2, <1>3, PTL DEF Spec

-----------------------------------------------------------------------------
(* Announcements *)

\* The publishers that have stored a message for s and not announced it yet.
Announcing(s) == {p \in Pubs : pub[p].pc = "signal" /\ Head(pub[p].todo)[1] = s}

Told(s) == cons[s] = "wait" /\ ring[s].n # 0 => gc[s] \/ Announcing(s) # {}

Counted(s) == ring[s].n <= events[s] + unread[s] + dropped[s] + Cardinality(Announcing(s))

\* The property, one subscription at a time.
LEMMA AnnouncedParts ==
    DataIsAnnounced <=> (\A s \in WaitSubs : Told(s)) /\ (\A s \in EventSubs : Counted(s))
  BY Zenon DEF DataIsAnnounced, Told, Counted, Announcing, HasData

\* AnnouncedParts, in the next state.
LEMMA AnnouncedPartsNext ==
    DataIsAnnounced' <=> ((\A s \in WaitSubs : Told(s)) /\ (\A s \in EventSubs : Counted(s)))'
  BY AnnouncedParts, PTL

\* There are finitely many publishers to wait for.
LEMMA AnnouncingFinite ==
    ASSUME NEW s
    PROVE  IsFiniteSet(Announcing(s)) /\ Cardinality(Announcing(s)) \in Nat
<1>1. Announcing(s) \subseteq Pubs
  BY DEF Announcing
<1> QED
  BY <1>1, SubsFinite, FS_CardinalityType

\* A step that does not concern s.
SameFor(s) ==
    /\ ring'[s].n = ring[s].n /\ cons'[s] = cons[s] /\ gc'[s] = gc[s]
    /\ events'[s] = events[s] /\ unread'[s] = unread[s] /\ dropped'[s] = dropped[s]
    /\ Announcing(s)' = Announcing(s)

\* A step that does not concern s keeps its data announced.
LEMMA SameIsAnnounced ==
    ASSUME NEW s, SameFor(s)
    PROVE  (Told(s) => Told(s)') /\ (Counted(s) => Counted(s)')
  BY DEF SameFor, Told, Counted

\* A step that concerns at most s.
LEMMA AnnouncedUpdate ==
    ASSUME DataIsAnnounced, NEW s \in Subs, \A t \in Subs : t # s => SameFor(t),
           s \in WaitSubs => Told(s)', s \in EventSubs => Counted(s)'
    PROVE  DataIsAnnounced'
<1>1. (\A t \in WaitSubs : Told(t)) /\ (\A t \in EventSubs : Counted(t))
  BY AnnouncedParts
<1>2. (\A t \in WaitSubs : Told(t)') /\ (\A t \in EventSubs : Counted(t)')
  BY <1>1, SameIsAnnounced, Constants, Zenon
<1> QED
  BY <1>2, AnnouncedPartsNext

\* A step that concerns no subscription.
LEMMA AnnouncedFrame ==
    ASSUME DataIsAnnounced, \A t \in Subs : SameFor(t)
    PROVE  DataIsAnnounced'
<1>1. (\A t \in WaitSubs : Told(t)) /\ (\A t \in EventSubs : Counted(t))
  BY AnnouncedParts
<1>2. (\A t \in WaitSubs : Told(t)') /\ (\A t \in EventSubs : Counted(t)')
  BY <1>1, SameIsAnnounced, Constants, Zenon
<1> QED
  BY <1>2, AnnouncedPartsNext

\* What the parts of the state are for a subscription.
LEMMA CountTypes ==
    ASSUME RingsOK, ConsumersOK, NEW s \in Subs
    PROVE  /\ ring[s].n \in Nat /\ ring[s].n <= Depth[s] /\ Depth[s] \in Nat \ {0}
           /\ events[s] \in Nat /\ unread[s] \in Nat /\ dropped[s] \in Nat
           /\ Cardinality(Announcing(s)) \in Nat
<1>1. RingOK(ring[s], Depth[s]) /\ Depth[s] \in Nat \ {0}
  BY Constants DEF RingsOK
<1>2. ring[s].n \in 0..Depth[s]
  BY <1>1 DEF RingOK
<1> QED
  BY <1>1, <1>2, AnnouncingFinite DEF ConsumersOK

\* What a new subscription is given is announced at once.
LEMMA AddSubscriptionAnnounced ==
    ASSUME Sound, DataIsAnnounced, NEW s \in Subs, AddSubscription(s)
    PROVE  DataIsAnnounced'
<1>1. /\ RingsOK /\ ConsumersOK /\ s \in DOMAIN status /\ status[s] = "new"
      /\ gc \in [Subs -> BOOLEAN] /\ unread \in [Subs -> Nat]
  BY DEF Sound, ListsOK, ConsumersOK, AddSubscription
<1>2. /\ RingsOK' /\ \A y \in Buffered : y # s => ring'[y] = ring[y]
      /\ \E m \in Nat : /\ ring'[s].n <= m
                        /\ unread' = [unread EXCEPT ![s] = IF s \in EventSubs THEN @ + m ELSE @]
      /\ \E f \in BOOLEAN : /\ gc' = [gc EXCEPT ![s] = @ \/ f]
                            /\ s \in WaitSubs /\ ring'[s].n # 0 => f
  BY <1>1, AddSubscriptionRing
<1>3. PICK m \in Nat : /\ ring'[s].n <= m
                       /\ unread' = [unread EXCEPT ![s] = IF s \in EventSubs THEN @ + m ELSE @]
  BY <1>2
<1>4. PICK f \in BOOLEAN : /\ gc' = [gc EXCEPT ![s] = @ \/ f]
                           /\ s \in WaitSubs /\ ring'[s].n # 0 => f
  BY <1>2
<1>5. UNCHANGED <<pub, cons, events, dropped>>
  BY DEF AddSubscription
<1>6. \A t : Announcing(t)' = Announcing(t)
  BY <1>5 DEF Announcing
<1>7. ASSUME NEW t \in Subs, t # s PROVE SameFor(t)
  <2>1. ring'[t] = ring[t]
    BY <1>2, <1>7, Constants
  <2>2. unread'[t] = unread[t] /\ gc'[t] = gc[t]
    BY <1>1, <1>3, <1>4, <1>7
  <2> QED
    BY <1>5, <1>6, <2>1, <2>2 DEF SameFor
<1>8. ASSUME s \in WaitSubs PROVE Told(s)'
  <2>1. ring'[s].n # 0 => gc'[s]
    BY <1>1, <1>4, <1>8
  <2> QED
    BY <2>1 DEF Told
<1>9. ASSUME s \in EventSubs PROVE Counted(s)'
  <2>1. unread'[s] = unread[s] + m
    BY <1>1, <1>3, <1>9
  <2>2. /\ unread[s] \in Nat /\ events[s] \in Nat /\ dropped[s] \in Nat
        /\ Cardinality(Announcing(s)) \in Nat
    BY <1>1, CountTypes
  <2>3. ring'[s].n \in Nat
    <3>1. RingOK(ring'[s], Depth[s])
      BY <1>2, Constants DEF RingsOK
    <3>2. Depth[s] \in Nat \ {0} /\ ring'[s].n \in 0..Depth[s]
      BY <3>1, Constants DEF RingOK
    <3> QED
      BY <3>2
  <2>4. ring'[s].n <= events[s] + (unread[s] + m) + dropped[s] + Cardinality(Announcing(s))
    BY <1>3, <2>2, <2>3
  <2> QED
    BY <1>5, <1>6, <2>1, <2>4 DEF Counted
<1> QED
  BY <1>7, <1>8, <1>9, AnnouncedUpdate

\* A step of a thread that neither was nor is about to announce anything.
LEMMA QuietThread ==
    ASSUME PubsOK, NEW p \in Pubs, pub[p].pc # "signal", pub'[p].pc # "signal",
           \A q \in Pubs : q # p => pub'[q] = pub[q], NEW t
    PROVE  Announcing(t)' = Announcing(t)
  BY DEF Announcing

\* publish stores nothing in a subscription yet.
LEMMA PublishAnnounced ==
    ASSUME Sound, DataIsAnnounced, NEW p \in Pubs, Publish(p)
    PROVE  DataIsAnnounced'
<1>0. PubsOK /\ ListsOK
  BY DEF Sound
<1> DEFINE todo == pub'[p].todo
<1>1. PICK ws \in BOOLEAN :
          pub' = [pub EXCEPT ![p] = [pc |-> NextStop(p, todo), todo |-> todo,
                     msg |-> IF p \in Transient
                             THEN <<<<p, sent[p] + 1>>, IF targets[p].owned = <<>> THEN "orig" ELSE "copy">>
                             ELSE None]]
  BY <1>0, PublishThread
<1>2. pub[p].pc = "idle" /\ UNCHANGED <<ring, cons, gc, unread, events, dropped>>
  BY DEF Publish, waitVars, eventVars
<1> HIDE DEF todo
<1>3. pub'[p].pc = NextStop(p, todo) /\ \A q \in Pubs : q # p => pub'[q] = pub[q]
  BY <1>0, <1>1 DEF PubsOK
<1>4. NextStop(p, todo) # "signal"
  BY DEF NextStop
<1>5. \A t : Announcing(t)' = Announcing(t)
  BY <1>0, <1>2, <1>3, <1>4, QuietThread
<1> QED
  BY <1>2, <1>5, AnnouncedFrame DEF SameFor

\* A message that is stored has a publisher about to announce it.
LEMMA DeliverAnnounced ==
    ASSUME Sound, DataIsAnnounced, NEW p \in Pubs, Deliver(p)
    PROVE  DataIsAnnounced'
<1>0. PubsOK /\ RingsOK /\ ConsumersOK
  BY DEF Sound
<1>a. PICK s \in Subs : s = pub[p].todo[1][1]
  BY <1>0, DeliverRing
<1>b. PICK x : x = pub[p].todo[1][2]
  OBVIOUS
<1>1. /\ Enqueued(ring'[s], ring[s], x, Depth[s])
      /\ \A y \in Buffered : y # s => ring'[y] = ring[y]
  BY <1>0, <1>a, <1>b, DeliverRing
<1>2. /\ pub[p].pc = "deliver" /\ Delivering(p)
      /\ pub' = [pub EXCEPT ![p].pc = "signal"] /\ UNCHANGED <<cons, gc, unread, events, dropped>>
  BY DEF Deliver, waitVars, eventVars, Delivering
<1>3. /\ pub'[p].pc = "signal" /\ pub'[p].todo = pub[p].todo
      /\ \A q \in Pubs : q # p => pub'[q] = pub[q]
  BY <1>0, <1>2, SMTT(30) DEF PubsOK
<1>4. Head(pub[p].todo)[1] = s
  BY <1>0, <1>2, <1>a, HeadFacts
<1>5. Announcing(s)' = Announcing(s) \union {p} /\ ~(p \in Announcing(s))
  BY <1>2, <1>3, <1>4 DEF Announcing
<1>50. \A t : t # s => Announcing(t)' = Announcing(t)
  BY <1>2, <1>3, <1>4 DEF Announcing
<1>6. ASSUME NEW t \in Subs, t # s PROVE SameFor(t)
  <2>1. ring'[t] = ring[t] /\ Announcing(t)' = Announcing(t)
    BY <1>1, <1>50, <1>6, Constants
  <2> QED
    BY <1>2, <2>1 DEF SameFor
<1>7. Told(s)'
  BY <1>5 DEF Told
<1>8. ASSUME s \in EventSubs PROVE Counted(s)'
  <2>1. Counted(s)
    BY <1>8, AnnouncedParts
  <2>2. /\ ring[s].n \in Nat /\ ring[s].n <= Depth[s] /\ Depth[s] \in Nat
        /\ events[s] \in Nat /\ unread[s] \in Nat /\ dropped[s] \in Nat
        /\ Cardinality(Announcing(s)) \in Nat
    BY <1>0, <1>1, CountTypes
  <2>3. Cardinality(Announcing(s)') = Cardinality(Announcing(s)) + 1
    BY <1>5, AnnouncingFinite, FS_AddElement
  <2>4. ring'[s].n = ring[s].n + 1 \/ ring'[s].n = ring[s].n
    BY <1>1, <2>2 DEF Enqueued
  <2>5. ring'[s].n <= events[s] + unread[s] + dropped[s] + (Cardinality(Announcing(s)) + 1)
    BY <2>1, <2>2, <2>4 DEF Counted
  <2> QED
    BY <1>2, <2>3, <2>5 DEF Counted
<1> QED
  BY <1>1, <1>6, <1>7, <1>8, AnnouncedUpdate

\* The notification replaces the publisher that was about to make it.
LEMMA SignalAnnounced ==
    ASSUME Sound, DataIsAnnounced, NEW p \in Pubs, Signal(p)
    PROVE  DataIsAnnounced'
<1>0. PubsOK /\ RingsOK /\ ConsumersOK
  BY DEF Sound
<1> DEFINE rest == Tail(pub[p].todo)
<1>1. /\ pub[p].pc = "signal" /\ Delivering(p)
      /\ pub' = [pub EXCEPT ![p].todo = rest, ![p].pc = NextStop(p, rest)]
      /\ UNCHANGED <<ring, cons, dropped>>
  BY DEF Signal, Delivering
<1>2. PICK s \in Subs : s = Head(pub[p].todo)[1]
  BY <1>0, <1>1, HeadFacts, SMTT(30)
<1>3. /\ s \in EventSubs =>
             /\ events' = [events EXCEPT ![s] = IF attached[s] THEN @ + 1 ELSE @]
             /\ unread' = [unread EXCEPT ![s] = IF attached[s] THEN @ ELSE @ + 1]
             /\ gc' = gc
      /\ ~(s \in EventSubs) =>
             gc' = [gc EXCEPT ![s] = s \in WaitSubs] /\ UNCHANGED <<unread, events>>
  BY <1>2 DEF Signal, invoke_on_new_message
<1>4. pub'[p].pc = NextStop(p, rest) /\ \A q \in Pubs : q # p => pub'[q] = pub[q]
  BY <1>0, <1>1 DEF PubsOK
<1>5. NextStop(p, rest) # "signal"
  BY SMTT(30) DEF NextStop
<1>6. Announcing(s)' = Announcing(s) \ {p} /\ p \in Announcing(s)
  BY <1>1, <1>2, <1>4, <1>5 DEF Announcing
<1>7. \A t : t # s => Announcing(t)' = Announcing(t)
  BY <1>1, <1>2, <1>4, <1>5 DEF Announcing
<1> HIDE DEF rest
<1>8. events \in [Subs -> Nat] /\ unread \in [Subs -> Nat] /\ gc \in [Subs -> BOOLEAN]
  BY <1>0 DEF ConsumersOK
<1>9. ASSUME NEW t \in Subs, t # s PROVE SameFor(t)
  <2>1. events'[t] = events[t] /\ unread'[t] = unread[t] /\ gc'[t] = gc[t]
    BY <1>3, <1>8, <1>9
  <2> QED
    BY <1>1, <1>7, <1>9, <2>1 DEF SameFor
<1>10. ASSUME s \in WaitSubs PROVE Told(s)'
  <2>1. ~(s \in EventSubs)
    BY <1>10, SMTT(30) DEF WaitSubs
  <2>2. gc'[s]
    BY <1>2, <1>3, <1>8, <1>10, <2>1
  <2> QED
    BY <2>2 DEF Told
<1>11. ASSUME s \in EventSubs PROVE Counted(s)'
  <2>1. Counted(s)
    BY <1>11, AnnouncedParts
  <2>2. /\ ring[s].n \in Nat /\ events[s] \in Nat /\ unread[s] \in Nat /\ dropped[s] \in Nat
        /\ Cardinality(Announcing(s)) \in Nat
    BY <1>0, <1>2, CountTypes
  <2>3. Cardinality(Announcing(s)') = Cardinality(Announcing(s)) - 1
    BY <1>6, AnnouncingFinite, FS_RemoveElement, ZenonT(40)
  <2>4. events'[s] + unread'[s] = events[s] + unread[s] + 1 /\ events'[s] \in Nat /\ unread'[s] \in Nat
    BY <1>2, <1>3, <1>8, <1>11
  <2>5. ring[s].n <= events'[s] + unread'[s] + dropped[s] + (Cardinality(Announcing(s)) - 1)
    BY <2>1, <2>2, <2>4 DEF Counted
  <2> QED
    BY <1>1, <2>3, <2>5 DEF Counted
<1> QED
  BY <1>2, <1>9, <1>10, <1>11, AnnouncedUpdate

\* What a publisher keeps is announced to nobody.
LEMMA StoreAnnounced ==
    ASSUME Sound, DataIsAnnounced, NEW p \in Pubs, Store(p)
    PROVE  DataIsAnnounced'
<1>0. PubsOK /\ RingsOK
  BY DEF Sound
<1>1. \A y \in Buffered : y # p => ring'[y] = ring[y]
  BY <1>0, StoreRing
<1>2. /\ pub[p].pc = "store" /\ pub' = [pub EXCEPT ![p].pc = "idle", ![p].msg = None]
      /\ UNCHANGED <<cons, gc, unread, events, dropped>>
  BY DEF Store, waitVars, eventVars
<1>3. pub'[p].pc = "idle" /\ \A q \in Pubs : q # p => pub'[q] = pub[q]
  BY <1>0, <1>2 DEF PubsOK
<1>4. \A t : Announcing(t)' = Announcing(t)
  BY <1>0, <1>2, <1>3, QuietThread
<1>5. \A t \in Subs : ring'[t] = ring[t]
  BY <1>1, Constants
<1> QED
  BY <1>2, <1>4, <1>5, AnnouncedFrame DEF SameFor

\* The steps of a consumer of a wait set: a wait begins with the guard
\* condition triggered when there are data, and only the end of a wait
\* clears it.
LEMMA WaitStepAnnounced ==
    ASSUME Sound, DataIsAnnounced, NEW s \in Subs, status[s] = "live", s \in WaitSubs, WaitStep(s)
    PROVE  DataIsAnnounced'
<1>0. /\ RingsOK /\ gc \in [Subs -> BOOLEAN]
      /\ cons \in [Subs -> {"collect", "wait", "ready", "taken"}] /\ ~(s \in EventSubs)
  BY DEF Sound, ConsumersOK, WaitSubs
<1>1. UNCHANGED <<pub, unread, events, dropped>>
  BY DEF WaitStep, AddToWaitSet, Wake, TakeData, Execute, eventVars
<1>2. \A t : Announcing(t)' = Announcing(t)
  BY <1>1 DEF Announcing
<1>3. \A t \in Subs : t # s => gc'[t] = gc[t] /\ cons'[t] = cons[t]
  BY <1>0 DEF WaitStep, AddToWaitSet, Wake, TakeData, Execute
<1>4. \A t \in Subs : t # s => ring'[t] = ring[t]
  <2>1. CASE TakeData(s)
    <3>1. HasData(s) /\ Take(s) /\ status' = status
      BY <2>1 DEF TakeData, mgrVars
    <3> QED
      BY <1>0, <3>1, TakeRing, Constants
  <2>2. CASE ~TakeData(s)
    BY <2>2 DEF WaitStep, AddToWaitSet, Wake, Execute
  <2> QED
    BY <2>1, <2>2
<1>5. Told(s)'
  <2>1. CASE AddToWaitSet(s)
    <3>1. gc'[s] = (gc[s] \/ ring[s].n # 0) /\ ring' = ring
      BY <1>0, <2>1 DEF AddToWaitSet, HasData
    <3> QED
      BY <3>1 DEF Told
  <2>2. CASE Wake(s) \/ TakeData(s) \/ Execute(s)
    <3>1. cons'[s] # "wait"
      BY <1>0, <2>2 DEF Wake, TakeData, Execute
    <3> QED
      BY <3>1 DEF Told
  <2> QED
    BY <2>1, <2>2 DEF WaitStep
<1>6. \A t \in Subs : t # s => SameFor(t)
  BY <1>1, <1>2, <1>3, <1>4 DEF SameFor
<1> QED
  BY <1>0, <1>5, <1>6, AnnouncedUpdate

\* The steps of a subscription of an events executor.
EventSubStep(s) ==
    SetOnReadyCallback(s) \/ ClearOnReadyCallback(s) \/ EventStep(s)

\* An event that is handled takes a message, one that is discarded is counted.
LEMMA EventStepAnnounced ==
    ASSUME Sound, DataIsAnnounced, NEW s \in Subs, status[s] = "live", s \in EventSubs,
           EventSubStep(s)
    PROVE  DataIsAnnounced'
<1>0. /\ RingsOK /\ ConsumersOK /\ gc \in [Subs -> BOOLEAN]
      /\ cons \in [Subs -> {"collect", "wait", "ready", "taken"}]
      /\ unread \in [Subs -> Nat] /\ events \in [Subs -> Nat] /\ dropped \in [Subs -> Nat]
      /\ ~(s \in WaitSubs)
  BY DEF Sound, ConsumersOK, WaitSubs
<1> USE DEF EventSubStep
<1>1. UNCHANGED pub
  BY DEF SetOnReadyCallback, ClearOnReadyCallback, EventStep, HandleEvent, DropEvent, Execute
<1>2. \A t : Announcing(t)' = Announcing(t)
  BY <1>1 DEF Announcing
<1>c. Counted(s)
  BY AnnouncedParts
<1>t. /\ ring[s].n \in Nat /\ ring[s].n <= Depth[s] /\ Depth[s] \in Nat
      /\ events[s] \in Nat /\ unread[s] \in Nat /\ dropped[s] \in Nat
      /\ Cardinality(Announcing(s)) \in Nat
  BY <1>0, CountTypes
<1>3. CASE SetOnReadyCallback(s)
  <2>1. /\ UNCHANGED <<ring, cons, gc, dropped>>
        /\ events' = [events EXCEPT ![s] = @ + (IF unread[s] < Depth[s] THEN unread[s] ELSE Depth[s])]
        /\ unread' = [unread EXCEPT ![s] = 0]
    BY <1>3 DEF SetOnReadyCallback, waitVars
  <2>2. \A t \in Subs : t # s => SameFor(t)
    BY <1>0, <1>2, <2>1 DEF SameFor
  <2>3. /\ unread'[s] = 0
        /\ events'[s] = events[s] + (IF unread[s] < Depth[s] THEN unread[s] ELSE Depth[s])
    BY <1>0, <2>1
  <2>4. ring[s].n <= events'[s] + 0 + dropped[s] + Cardinality(Announcing(s))
    BY <1>c, <1>t, <2>3 DEF Counted
  <2>5. Counted(s)'
    BY <1>2, <2>1, <2>3, <2>4 DEF Counted
  <2> QED
    BY <1>0, <2>2, <2>5, AnnouncedUpdate
<1>4. CASE ClearOnReadyCallback(s)
  <2>1. UNCHANGED <<ring, cons, gc, events, unread, dropped>>
    BY <1>4 DEF ClearOnReadyCallback, waitVars
  <2> QED
    BY <1>2, <2>1, AnnouncedFrame DEF SameFor
<1>5. CASE HandleEvent(s)
  <2>1. /\ UNCHANGED <<gc, unread, dropped>> /\ events[s] > 0
        /\ events' = [events EXCEPT ![s] = @ - 1]
    BY <1>5 DEF HandleEvent
  <2>2. \A t \in Subs : t # s => events'[t] = events[t] /\ cons'[t] = cons[t]
    BY <1>0, <1>5, <2>1 DEF HandleEvent
  <2>3. events'[s] = events[s] - 1
    BY <1>0, <2>1
  <2>4. /\ \A t \in Subs : t # s => ring'[t] = ring[t]
        /\ ring'[s].n = IF ring[s].n = 0 THEN 0 ELSE ring[s].n - 1
    <3>1. CASE HasData(s)
      <4>1. Take(s) /\ status' = status
        BY <1>5, <3>1 DEF HandleEvent, mgrVars
      <4>2. /\ Dequeued(ring'[s], ring[s], Depth[s])
            /\ \A y \in Buffered : y # s => ring'[y] = ring[y]
        BY <1>0, <3>1, <4>1, TakeRing
      <4> QED
        BY <3>1, <4>2, Constants DEF Dequeued, HasData
    <3>2. CASE ~HasData(s)
      BY <1>5, <3>2 DEF HandleEvent, HasData
    <3> QED
      BY <3>1, <3>2
  <2>5. ring'[s].n <= events'[s] + unread[s] + dropped[s] + Cardinality(Announcing(s))
    BY <1>c, <1>t, <2>1, <2>3, <2>4 DEF Counted
  <2>6. Counted(s)'
    BY <1>2, <2>1, <2>5 DEF Counted
  <2>7. \A t \in Subs : t # s => SameFor(t)
    BY <1>2, <2>1, <2>2, <2>4 DEF SameFor
  <2> QED
    BY <1>0, <2>6, <2>7, AnnouncedUpdate
<1>6. CASE DropEvent(s)
  <2>1. /\ UNCHANGED <<ring, cons, gc, unread>> /\ events[s] > 0
        /\ events' = [events EXCEPT ![s] = @ - 1] /\ dropped' = [dropped EXCEPT ![s] = @ + 1]
    BY <1>6 DEF DropEvent, waitVars
  <2>2. \A t \in Subs : t # s => SameFor(t)
    BY <1>0, <1>2, <2>1 DEF SameFor
  <2>3. events'[s] = events[s] - 1 /\ dropped'[s] = dropped[s] + 1
    BY <1>0, <2>1
  <2>4. ring[s].n <= events'[s] + unread[s] + dropped'[s] + Cardinality(Announcing(s))
    BY <1>c, <1>t, <2>1, <2>3 DEF Counted
  <2>5. Counted(s)'
    BY <1>2, <2>1, <2>4 DEF Counted
  <2> QED
    BY <1>0, <2>2, <2>5, AnnouncedUpdate
<1>7. CASE Execute(s)
  <2>1. UNCHANGED <<ring, unread, events, dropped>>
    BY <1>7 DEF Execute, eventVars
  <2>2. \A t \in Subs : t # s => gc'[t] = gc[t] /\ cons'[t] = cons[t]
    BY <1>0, <1>7 DEF Execute
  <2>3. \A t \in Subs : t # s => SameFor(t)
    BY <1>2, <2>1, <2>2 DEF SameFor
  <2>4. Counted(s)'
    BY <1>c, <1>2, <2>1 DEF Counted
  <2> QED
    BY <1>0, <2>3, <2>4, AnnouncedUpdate
<1> QED
  BY <1>3, <1>4, <1>5, <1>6, <1>7 DEF EventStep

\* Every step keeps the data announced.
LEMMA AnnouncedStep ==
    ASSUME Sound, DataIsAnnounced, [Next]_vars
    PROVE  DataIsAnnounced'
<1>1. ASSUME UNCHANGED <<ring, pub, gc, cons, unread, events, dropped>> PROVE DataIsAnnounced'
  <2>1. \A t : Announcing(t)' = Announcing(t)
    BY <1>1 DEF Announcing
  <2> QED
    BY <1>1, <2>1, AnnouncedFrame DEF SameFor
<1>2. ASSUME NEW p \in Pubs, AddPublisher(p) \/ RemovePublisher(p) PROVE DataIsAnnounced'
  BY <1>1, <1>2 DEF AddPublisher, RemovePublisher, waitVars, eventVars
<1>3. ASSUME NEW s \in Subs, RemoveSubscription(s) PROVE DataIsAnnounced'
  BY <1>1, <1>3 DEF RemoveSubscription, waitVars, eventVars
<1>4. CASE UNCHANGED vars
  BY <1>1, <1>4 DEF vars
<1> QED
  BY <1>2, <1>3, <1>4, AddSubscriptionAnnounced, PublishAnnounced, DeliverAnnounced,
     SignalAnnounced, StoreAnnounced, WaitStepAnnounced, EventStepAnnounced, Constants
     DEF Next, Register, Producer, EventSubStep

\* There are no data at the start.
LEMMA InitAnnounced ==
    ASSUME Init
    PROVE  DataIsAnnounced
<1>1. \A s \in Subs : ring[s].n = 0
  BY InitRings, Constants
<1>2. \A s \in Subs : Told(s)
  BY <1>1 DEF Told
<1>3. ASSUME NEW s \in Subs PROVE Counted(s)
  <2>1. events[s] = 0 /\ unread[s] = 0 /\ dropped[s] = 0
    BY DEF Init
  <2>2. Cardinality(Announcing(s)) \in Nat
    BY AnnouncingFinite
  <2> QED
    BY <1>1, <2>1, <2>2 DEF Counted
<1> QED
  BY <1>2, <1>3, AnnouncedParts, Constants

\* Data in a buffer are announced: to a wait set that waits, by the guard
\* condition, and to an events executor by one event for each message; the
\* count of what arrived before the callback was set (unread_count_) and
\* the bound set_on_ready_callback puts on it lose none, and a notification
\* can be late only by the publisher that is about to make it.
THEOREM DataAnnounced == Spec => []DataIsAnnounced
<1>1. Init => Sound /\ DataIsAnnounced
  BY InitSound, InitAnnounced
<1>2. Sound /\ DataIsAnnounced /\ [Next]_vars => (Sound /\ DataIsAnnounced)'
  BY SoundStep, AnnouncedStep
<1> QED
  BY <1>1, <1>2, PTL DEF Spec

-----------------------------------------------------------------------------
(* The abstract topic: what is in a buffer, as messages *)

\* The messages of a ring buffer, oldest first.
LEMMA MessagesOfFacts ==
    ASSUME NEW c \in Nat \ {0}, NEW b, RingOK(b, c)
    PROVE  /\ MessagesOf(b) \in Seq(Messages) /\ Len(MessagesOf(b)) = b.n /\ b.n \in 0..c
           /\ \A i \in 1..b.n : MessagesOf(b)[i] = Content(b)[i][1]
<1> DEFINE q == MessagesOf(b)
<1>1. b.n \in 0..c
  BY DEF RingOK
<1>2. \A i \in 1..b.n : q[i] = Content(b)[i][1]
  BY DEF MessagesOf
<1>3. q = [i \in 1..b.n |-> q[i]]
  BY Zenon DEF MessagesOf
<1> HIDE DEF q
<1>4. ASSUME NEW i \in 1..b.n PROVE q[i] \in Messages
  <2>1. Content(b)[i] \in Objects
    BY ContentFacts, ElementOfSeq
  <2> QED
    BY <1>2, <2>1 DEF Objects
<1>5. q \in [1..b.n -> Messages]
  BY <1>3, <1>4, Zenon
<1>6. b.n \in Nat
  BY <1>1
<1>7. q \in Seq(Messages) /\ Len(q) = b.n
  BY <1>5, <1>6, FunctionIsSeq
<1> QED
  BY <1>1, <1>2, <1>7 DEF q

\* The last elements of a sequence, at most the depth of x.
LEMMA LastOfFacts ==
    ASSUME NEW x \in Buffered, NEW q \in Seq(Messages)
    PROVE  LET n == IF Len(q) <= Depth[x] THEN Len(q) ELSE Depth[x] IN
           /\ Topic!LastOf(x, q) \in Seq(Messages) /\ Len(Topic!LastOf(x, q)) = n
           /\ \A i \in 1..n : Topic!LastOf(x, q)[i] = q[Len(q) - n + i]
<1> DEFINE c == Depth[x]
           m == Len(q)
           u == Topic!LastOf(x, q)
<1>1. c \in Nat \ {0} /\ m \in Nat
  BY Constants, LenProperties
<1>2. u = IF m <= c THEN q ELSE SubSeq(q, m - c + 1, m)
  BY Zenon DEF Topic!LastOf
<1>3. \A i \in 1..m : q[i] \in Messages
  BY ElementOfSeq
<1>0. q \in Seq(Messages) /\ m = Len(q)
  OBVIOUS
<1> HIDE DEF c, m, u
<1>4. CASE m <= c
  <2>1. \A i \in 1..m : m - m + i = i
    BY <1>1
  <2> QED
    BY <1>0, <1>2, <1>4, <2>1 DEF u, c, m
<1>5. CASE ~(m <= c)
  <2>1. m - c + 1 \in Int /\ m \in Int /\ m - c + 1 <= m /\ m - (m - c + 1) + 1 = c
    BY <1>1, <1>5
  <2>2. \A i \in (m - c + 1)..m : q[i] \in Messages
    BY <1>1, <1>3, <1>5
  <2>3. /\ SubSeq(q, m - c + 1, m) \in Seq(Messages)
        /\ Len(SubSeq(q, m - c + 1, m)) = m - (m - c + 1) + 1
        /\ \A i \in 1..(m - (m - c + 1) + 1) : SubSeq(q, m - c + 1, m)[i] = q[m - c + 1 + i - 1]
    BY <2>1, <2>2, SubSeqProperties
  <2>4. \A i \in 1..c : m - c + 1 + i - 1 = m - c + i
    BY <1>1
  <2>5. u = SubSeq(q, m - c + 1, m)
    BY <1>2, <1>5
  <2>6. u \in Seq(Messages) /\ Len(u) = c /\ \A i \in 1..c : u[i] = q[m - c + i]
    BY <2>1, <2>3, <2>4, <2>5
  <2> QED
    BY <1>5, <2>6 DEF u, c, m
<1> QED
  BY <1>4, <1>5

\* A ring buffer that holds the end of q.
LEMMA MessagesOfLast ==
    ASSUME NEW x \in Buffered, NEW f, RingOK(f, Depth[x]), NEW q \in Seq(Messages),
           f.n = IF Len(q) <= Depth[x] THEN Len(q) ELSE Depth[x],
           \A i \in 1..f.n : Content(f)[i][1] = q[Len(q) - f.n + i]
    PROVE  MessagesOf(f) = Topic!LastOf(x, q)
<1> DEFINE u == Topic!LastOf(x, q)
           v == MessagesOf(f)
<1>1. Depth[x] \in Nat \ {0}
  BY Constants
<1>2. v \in Seq(Messages) /\ Len(v) = f.n /\ \A i \in 1..f.n : v[i] = Content(f)[i][1]
  BY <1>1, MessagesOfFacts
<1>3. u \in Seq(Messages) /\ Len(u) = f.n /\ \A i \in 1..f.n : u[i] = q[Len(q) - f.n + i]
  BY LastOfFacts
<1> HIDE DEF u, v
<1>4. \A i \in 1..Len(v) : v[i] = u[i]
  BY <1>2, <1>3
<1>5. v = u
  BY <1>2, <1>3, <1>4, SeqEqual
<1> QED
  BY <1>5 DEF u, v

\* enqueue, in terms of messages.
LEMMA EnqueueIsLast ==
    ASSUME NEW x \in Buffered, NEW b, RingOK(b, Depth[x]), NEW y \in Objects,
           NEW f, Enqueued(f, b, y, Depth[x])
    PROVE  MessagesOf(f) = Topic!LastOf(x, Append(MessagesOf(b), y[1]))
<1> DEFINE c == Depth[x]
           v == MessagesOf(b)
           q == Append(v, y[1])
<1>1. c \in Nat \ {0}
  BY Constants
<1>2. /\ v \in Seq(Messages) /\ Len(v) = b.n /\ b.n \in 0..c
      /\ \A i \in 1..b.n : v[i] = Content(b)[i][1]
  BY <1>1, MessagesOfFacts
<1>3. y[1] \in Messages
  BY DEF Objects
<1>4. /\ RingOK(f, c) /\ Content(f)[f.n] = y
      /\ b.n < c => f.n = b.n + 1 /\ \A i \in 1..b.n : Content(f)[i] = Content(b)[i]
      /\ b.n = c => f.n = c /\ \A i \in 1..(c - 1) : Content(f)[i] = Content(b)[i + 1]
  BY DEF Enqueued
<1> HIDE DEF v
<1>5. /\ q \in Seq(Messages) /\ Len(q) = b.n + 1 /\ q[b.n + 1] = y[1]
      /\ \A i \in 1..b.n : q[i] = Content(b)[i][1]
  <2>1. /\ q \in Seq(Messages) /\ Len(q) = Len(v) + 1 /\ q[Len(v) + 1] = y[1]
        /\ \A i \in 1..Len(v) : q[i] = v[i]
    BY <1>2, <1>3, AppendProperties
  <2> QED
    BY <1>2, <2>1
<1> HIDE DEF q, c
<1>6. f.n = IF Len(q) <= c THEN Len(q) ELSE c
  BY <1>1, <1>2, <1>4, <1>5
<1>7. ASSUME NEW i \in 1..f.n PROVE Content(f)[i][1] = q[Len(q) - f.n + i]
  <2>1. CASE i = f.n
    <3>1. Len(q) - f.n + i = b.n + 1
      BY <1>1, <1>2, <1>4, <1>5, <2>1
    <3> QED
      BY <1>4, <1>5, <2>1, <3>1
  <2>2. CASE i # f.n /\ b.n < c
    <3>1. f.n = b.n + 1
      BY <1>4, <2>2
    <3>2. i \in 1..b.n /\ Len(q) - f.n + i = i
      BY <1>2, <1>5, <2>2, <3>1
    <3>3. Content(f)[i] = Content(b)[i]
      BY <1>4, <2>2, <3>2
    <3> QED
      BY <1>5, <3>2, <3>3
  <2>3. CASE i # f.n /\ b.n = c
    <3>1. f.n = c
      BY <1>4, <2>3
    <3>2. i \in 1..(c - 1) /\ i + 1 \in 1..b.n /\ Len(q) - f.n + i = i + 1
      BY <1>1, <1>2, <1>5, <2>3, <3>1
    <3>3. Content(f)[i] = Content(b)[i + 1]
      BY <1>4, <2>3, <3>2
    <3> QED
      BY <1>5, <3>2, <3>3
  <2> QED
    BY <1>1, <1>2, <2>1, <2>2, <2>3
<1>8. MessagesOf(f) = Topic!LastOf(x, q)
  BY <1>4, <1>5, <1>6, <1>7, MessagesOfLast DEF c
<1> QED
  BY <1>8 DEF q, v

\* dequeue, in terms of messages.
LEMMA DequeueIsTail ==
    ASSUME NEW c \in Nat \ {0}, NEW b, RingOK(b, c), b.n # 0, NEW f, Dequeued(f, b, c)
    PROVE  MessagesOf(b) # <<>> /\ MessagesOf(f) = Tail(MessagesOf(b))
<1> DEFINE v == MessagesOf(b)
           u == MessagesOf(f)
<1>1. /\ RingOK(f, c) /\ f.n = b.n - 1
      /\ \A i \in 1..(b.n - 1) : Content(f)[i] = Content(b)[i + 1]
  BY DEF Dequeued
<1>2. /\ v \in Seq(Messages) /\ Len(v) = b.n /\ b.n \in 0..c
      /\ \A i \in 1..b.n : v[i] = Content(b)[i][1]
  BY MessagesOfFacts
<1>3. u \in Seq(Messages) /\ Len(u) = f.n /\ \A i \in 1..f.n : u[i] = Content(f)[i][1]
  BY <1>1, MessagesOfFacts
<1> HIDE DEF v, u
<1>4. v # <<>>
  BY <1>2, EmptySeq
<1>5. /\ Tail(v) \in Seq(Messages) /\ Len(Tail(v)) = Len(v) - 1
      /\ \A i \in 1..Len(Tail(v)) : Tail(v)[i] = v[i + 1]
  BY <1>2, <1>4, HeadTailProperties
<1>6. Len(u) = Len(Tail(v))
  BY <1>1, <1>2, <1>3, <1>5
<1>7. ASSUME NEW i \in 1..Len(u) PROVE u[i] = Tail(v)[i]
  <2>1. i \in 1..f.n /\ i \in 1..(b.n - 1) /\ i + 1 \in 1..b.n /\ i \in 1..Len(Tail(v))
    BY <1>1, <1>2, <1>3, <1>6
  <2> QED
    BY <1>1, <1>2, <1>3, <1>5, <2>1, ZenonT(40)
<1>8. u = Tail(v)
  BY <1>3, <1>5, <1>6, <1>7, SeqEqual
<1> QED
  BY <1>4, <1>8 DEF u, v

-----------------------------------------------------------------------------
(* The abstract topic: its variables, and the steps that implement its steps *)

Member == LivePubs \union LiveSubs

DueTo(p) ==
    {pub[p].todo[i][1] : i \in {j \in 1..Len(pub[p].todo) : ~(j = 1 /\ pub[p].pc = "signal")}}

Due == [p \in Pubs |-> DueTo(p)]

Kept == [p \in Transient \cap Pubs |-> MessagesOf(ring[p])]

Inbox == [s \in Subs |-> MessagesOf(ring[s])]

\* The steps of the abstract topic, on the variables the concrete state stands for.
LEMMA TopicInit ==
    ASSUME Member = {}, sent = [p \in Pubs |-> 0], Due = [p \in Pubs |-> {}],
           Kept = [p \in Transient \cap Pubs |-> <<>>], Inbox = [s \in Subs |-> <<>>]
    PROVE  Topic!Init
  BY DEF Topic!Init, Member, Due, DueTo, Kept, Inbox

\* A stutter of the abstract topic.
LEMMA TopicStutter ==
    ASSUME UNCHANGED <<Member, sent, Due, Kept, Inbox>>
    PROVE  UNCHANGED Topic!vars
  BY DEF Topic!vars, Member, Due, DueTo, Kept, Inbox

\* Joining with nothing to start with.
LEMMA TopicJoinQuietly ==
    ASSUME NEW x, ~(x \in Subs /\ x \in Transient), x \notin Member, \A p \in Pubs : Due[p] = {},
           Member' = Member \union {x}, UNCHANGED <<sent, Due, Kept, Inbox>>
    PROVE  Topic!Join(x)
  BY DEF Topic!Join, Member, Due, DueTo, Kept, Inbox

\* Leaving.
LEMMA TopicLeave ==
    ASSUME NEW x, x \in Member, \A p \in Pubs : Due[p] = {},
           Member' = Member \ {x}, UNCHANGED <<sent, Due, Kept, Inbox>>
    PROVE  Topic!Leave(x)
  BY DEF Topic!Leave, Member, Due, DueTo, Kept, Inbox

\* The last message of a publisher is among those it keeps.
LEMMA TopicLastIsKept ==
    ASSUME NEW p
    PROVE  Topic!LastIsKept(p) <=>
               (sent[p] > 0 => Kept[p] # <<>> /\ Kept[p][Len(Kept[p])] = <<p, sent[p]>>)
  BY DEF Topic!LastIsKept, Kept

\* Publishing.
LEMMA TopicPublish ==
    ASSUME NEW p, p \in Member, Due[p] = {}, p \in Transient => Topic!LastIsKept(p),
           sent' = [sent EXCEPT ![p] = @ + 1],
           Due' = [Due EXCEPT ![p] = {s \in Member \cap Subs : can_communicate(p, s)}],
           UNCHANGED <<Member, Kept, Inbox>>
    PROVE  Topic!Publish(p)
  BY DEF Topic!Publish, Topic!Match, Member, Due, DueTo, Kept, Inbox, can_communicate

\* Delivering to one subscription.
LEMMA TopicDeliver ==
    ASSUME NEW p, NEW s, s \in Due[p], Due' = [Due EXCEPT ![p] = @ \ {s}],
           Inbox' = [Inbox EXCEPT ![s] = Topic!LastOf(s, Append(@, <<p, sent[p]>>))],
           UNCHANGED <<Member, sent, Kept>>
    PROVE  Topic!Deliver(p, s)
  BY DEF Topic!Deliver, Member, Due, DueTo, Kept, Inbox

\* Keeping the message that was published last.
LEMMA TopicKeep ==
    ASSUME NEW p, Due[p] = {}, ~Topic!LastIsKept(p),
           Kept' = [Kept EXCEPT ![p] = Topic!LastOf(p, Append(@, <<p, sent[p]>>))],
           UNCHANGED <<Member, sent, Due, Inbox>>
    PROVE  Topic!Keep(p)
  BY DEF Topic!Keep, Member, Due, DueTo, Kept, Inbox

\* Taking the oldest message.
LEMMA TopicTake ==
    ASSUME NEW s, Inbox[s] # <<>>, Inbox' = [Inbox EXCEPT ![s] = Tail(@)],
           UNCHANGED <<Member, sent, Due, Kept>>
    PROVE  Topic!Take(s)
  BY DEF Topic!Take, Member, Due, DueTo, Kept, Inbox

\* Joining with what the publishers keep.
LEMMA TopicJoinReplay ==
    ASSUME NEW x \in Subs \cap Transient, x \notin Member, \A p \in Pubs : Due[p] = {},
           Member' = Member \union {x}, NEW q \in Topic!Replays(Member \cap Pubs \cap Transient),
           Inbox' = [Inbox EXCEPT ![x] = Topic!LastOf(x, q)], UNCHANGED <<sent, Due, Kept>>
    PROVE  Topic!Join(x)
  BY DEF Topic!Join, Member, Due, DueTo, Kept, Inbox

\* The abstract specification's cardinality is the same operator.
LEMMA TopicCardinality == \A S : Topic!Cardinality(S) = Cardinality(S)
  BY Zenon DEF Topic!Cardinality, Cardinality

\* One replay of the abstract topic, by its recursion.
LEMMA TopicReplays ==
    ASSUME NEW P, NEW f \in Orders(P), NEW q,
           q = (CHOOSE h : h = [i \in 0..Len(f) |-> IF i = 0 THEN <<>> ELSE h[i - 1] \o Kept[f[i]]])[Len(f)]
    PROVE  q \in Topic!Replays(P)
<1> DEFINE O == {h \in [1..Topic!Cardinality(P) -> P] : \A i, j \in DOMAIN h : h[i] = h[j] => i = j}
           V(u) == (CHOOSE h : h = [i \in 0..Len(u) |-> IF i = 0 THEN <<>> ELSE h[i - 1] \o Kept[u[i]]])[Len(u)]
<1>1. Topic!Replays(P) = {V(u) : u \in O}
  BY Zenon DEF Topic!Replays, Kept
<1>2. f \in O
  BY TopicCardinality DEF Orders
<1>3. q = V(f)
  BY Zenon
<1> HIDE DEF O, V
<1> QED
  BY <1>1, <1>2, <1>3

Msgs(q) == [i \in 1..Len(q) |-> q[i][1]]

\* The messages a sequence of objects carries.
LEMMA MsgsFacts ==
    ASSUME NEW q \in Seq(Objects)
    PROVE  /\ Msgs(q) \in Seq(Messages) /\ Len(Msgs(q)) = Len(q)
           /\ \A i \in 1..Len(q) : Msgs(q)[i] = q[i][1]
<1> DEFINE v == Msgs(q)
           n == Len(q)
<1>1. n \in Nat /\ \A i \in 1..n : q[i] \in Objects
  BY LenProperties, ElementOfSeq
<1>2. \A i \in 1..n : v[i] = q[i][1]
  BY DEF Msgs
<1>3. v = [i \in 1..n |-> v[i]]
  BY Zenon DEF Msgs
<1> HIDE DEF v, n
<1>4. \A i \in 1..n : v[i] \in Messages
  BY <1>1, <1>2 DEF Objects
<1>5. v \in [1..n -> Messages]
  BY <1>3, <1>4, Zenon
<1>6. v \in Seq(Messages) /\ Len(v) = n
  BY <1>1, <1>5, FunctionIsSeq
<1> QED
  BY <1>2, <1>6 DEF v, n

\* No objects carry no messages.
LEMMA MsgsEmpty == Msgs(<<>>) = <<>>
<1>1. <<>> \in Seq(Objects) /\ Len(<<>>) = 0
  BY EmptySeq
<1>2. Msgs(<<>>) \in Seq(Messages) /\ Len(Msgs(<<>>)) = 0
  BY <1>1, MsgsFacts
<1> QED
  BY <1>2, EmptySeq

\* Messages of a concatenation.
LEMMA MsgsConcat ==
    ASSUME NEW u \in Seq(Objects), NEW v \in Seq(Objects)
    PROVE  Msgs(u \o v) = Msgs(u) \o Msgs(v)
<1> DEFINE w == u \o v
           a == Msgs(u)
           b == Msgs(v)
           d == Msgs(w)
           m == Len(u)
           n == Len(v)
<1>1. /\ w \in Seq(Objects) /\ Len(w) = m + n /\ m \in Nat /\ n \in Nat
      /\ \A i \in 1..(m + n) : w[i] = IF i <= m THEN u[i] ELSE v[i - m]
  BY ConcatProperties, LenProperties
<1>2. /\ a \in Seq(Messages) /\ Len(a) = m /\ \A i \in 1..m : a[i] = u[i][1]
      /\ b \in Seq(Messages) /\ Len(b) = n /\ \A i \in 1..n : b[i] = v[i][1]
  BY MsgsFacts
<1> HIDE DEF w, a, b, m, n
<1>3. d \in Seq(Messages) /\ Len(d) = m + n /\ \A i \in 1..(m + n) : d[i] = w[i][1]
  BY <1>1, MsgsFacts
<1>4. /\ a \o b \in Seq(Messages) /\ Len(a \o b) = m + n
      /\ \A i \in 1..(m + n) : (a \o b)[i] = IF i <= m THEN a[i] ELSE b[i - m]
  BY <1>2, ConcatProperties
<1> HIDE DEF d
<1>5. ASSUME NEW i \in 1..(m + n) PROVE d[i] = (a \o b)[i]
  <2>1. CASE i <= m
    <3>1. i \in 1..m
      BY <1>1, <2>1
    <3>2. d[i] = w[i][1] /\ w[i] = u[i] /\ a[i] = u[i][1]
      BY <1>1, <1>2, <1>3, <2>1, <3>1
    <3>3. (a \o b)[i] = a[i]
      BY <1>4, <2>1
    <3> QED
      BY <3>2, <3>3
  <2>2. CASE ~(i <= m)
    <3>1. i - m \in 1..n
      BY <1>1, <2>2
    <3>2. d[i] = w[i][1] /\ w[i] = v[i - m] /\ b[i - m] = v[i - m][1]
      BY <1>1, <1>2, <1>3, <2>2, <3>1
    <3>3. (a \o b)[i] = b[i - m]
      BY <1>4, <2>2
    <3> QED
      BY <3>2, <3>3
  <2> QED
    BY <2>1, <2>2
<1>6. d = a \o b
  BY <1>3, <1>4, <1>5, SeqEqual
<1> QED
  BY <1>6 DEF d, a, b, w

\* A copy carries the message it is a copy of.
LEMMA MsgsReplay ==
    ASSUME RingsOK, NEW s \in Subs, NEW p \in Pubs \cap Transient
    PROVE  Msgs(Replay(s, p)) = Kept[p]
<1> DEFINE R == Replay(s, p)
           b == ring[p]
           u == Msgs(R)
           v == MessagesOf(b)
<1>1. /\ R \in Seq(Objects) /\ Len(R) = b.n
      /\ \A i \in 1..b.n : R[i] = IF s \in Owning THEN <<Content(b)[i][1], s>> ELSE Content(b)[i]
  BY ReplayFacts
<1>2. RingOK(b, Depth[p]) /\ Depth[p] \in Nat \ {0}
  BY Constants DEF RingsOK
<1> HIDE DEF R, b
<1>3. v \in Seq(Messages) /\ Len(v) = b.n /\ \A i \in 1..b.n : v[i] = Content(b)[i][1]
  BY <1>2, MessagesOfFacts
<1>4. u \in Seq(Messages) /\ Len(u) = b.n /\ \A i \in 1..b.n : u[i] = R[i][1]
  BY <1>1, MsgsFacts
<1> HIDE DEF u, v
<1>5. ASSUME NEW i \in 1..b.n PROVE R[i][1] = Content(b)[i][1]
  <2>1. CASE s \in Owning
    <3>1. R[i] = <<Content(b)[i][1], s>>
      BY <1>1, <2>1
    <3> QED
      BY <3>1
  <2>2. CASE ~(s \in Owning)
    BY <1>1, <2>2
  <2> QED
    BY <2>1, <2>2
<1>6. u = v
  <2>1. \A i \in 1..Len(u) : u[i] = v[i]
    BY <1>3, <1>4, <1>5
  <2> QED
    BY <1>3, <1>4, <2>1, SeqEqual
<1>7. Kept[p] = v
  BY DEF Kept, v, b
<1> QED
  BY <1>6, <1>7 DEF u, R

\* What a new subscription is given is, in terms of messages, a replay of
\* the abstract topic.
LEMMA ReplayIsAbstract ==
    ASSUME RingsOK, NEW s \in Subs, NEW P \in SUBSET (Pubs \cap Transient), IsFiniteSet(P),
           NEW order \in Orders(P)
    PROVE  Msgs(ReplayAll(s, order)) \in Topic!Replays(P)
<1> DEFINE n == Len(order)
           W(i, u) == u \o Kept[order[i]]
           R(h) == h = [i \in 0..n |-> IF i = 0 THEN <<>> ELSE W(i, h[i - 1])]
           f == CHOOSE h : R(h)
<1>1. order \in Seq(P)
  BY OrdersFacts
<1>2. n \in Nat /\ \A i \in 1..n : order[i] \in P
  BY <1>1, ElementOfSeq, LenProperties
<1>3. PICK g \in [0..n -> Seq(Objects)] : ReplayAllSteps(g, s, order)
  BY <1>1, ReplayAllExists, Zenon
<1>4. /\ ReplayAll(s, order) = g[n] /\ g[0] = <<>>
      /\ \A i \in 1..n : g[i] = g[i - 1] \o Replay(s, order[i])
  BY <1>3 DEF ReplayAllSteps
<1> HIDE DEF n
<1> DEFINE e == [i \in 0..n |-> Msgs(g[i])]
<1>5. ASSUME NEW i \in 1..n PROVE Msgs(g[i]) = W(i, Msgs(g[i - 1]))
  <2>1. i - 1 \in 0..n
    BY <1>2
  <2>2. g[i - 1] \in Seq(Objects) /\ order[i] \in Pubs \cap Transient
    BY <1>2, <2>1
  <2>3. Replay(s, order[i]) \in Seq(Objects) /\ Msgs(Replay(s, order[i])) = Kept[order[i]]
    BY <2>2, ReplayFacts, MsgsReplay
  <2> QED
    BY <1>4, <2>2, <2>3, MsgsConcat
<1>6. Msgs(g[0]) = <<>>
  BY <1>4, MsgsEmpty
<1> HIDE DEF W
<1>7. R(e)
  <2>1. ASSUME NEW i \in 0..n PROVE e[i] = IF i = 0 THEN <<>> ELSE W(i, e[i - 1])
    <3>1. CASE i = 0
      BY <1>6, <3>1
    <3>2. CASE i # 0
      <4>1. i \in 1..n /\ i - 1 \in 0..n
        BY <1>2, <3>2
      <4> QED
        BY <1>5, <3>2, <4>1
    <3> QED
      BY <3>1, <3>2
  <2>2. e = [i \in 0..n |-> e[i]]
    OBVIOUS
  <2> HIDE DEF e
  <2> QED
    BY <2>1, <2>2, Zenon
<1>8. R(f)
  BY <1>7
<1> HIDE DEF f
<1>9. f[0] = <<>> /\ \A i \in 1..n : f[i] = W(i, f[i - 1])
  <2>1. 0 \in 0..n /\ \A i \in 1..n : i \in 0..n /\ i # 0
    BY <1>2
  <2> QED
    BY <1>8, <2>1
<1> DEFINE T == {i \in 0..n : f[i] = Msgs(g[i])}
<1>10. 0 \in T
  BY <1>2, <1>6, <1>9
<1>11. ASSUME NEW i \in 1..n, i - 1 \in T PROVE i \in T
  <2>1. i \in 0..n /\ f[i - 1] = Msgs(g[i - 1])
    BY <1>2, <1>11
  <2> QED
    BY <1>5, <1>9, <2>1
<1> HIDE DEF T
<1>12. \A i \in 0..n : i \in T
  BY <1>2, <1>10, <1>11, UpToInduction
<1>13. f[n] = Msgs(ReplayAll(s, order))
  <2>1. n \in T
    BY <1>2, <1>12
  <2> QED
    BY <1>4, <2>1 DEF T
<1>14. f[n] \in Topic!Replays(P)
  <2>1. f[n] = (CHOOSE h : h = [i \in 0..Len(order) |-> IF i = 0 THEN <<>> ELSE h[i - 1] \o Kept[order[i]]])[Len(order)]
    BY Zenon DEF f, R, W, n
  <2> HIDE DEF R
  <2> QED
    BY <2>1, TopicReplays
<1> QED
  BY <1>13, <1>14

-----------------------------------------------------------------------------
(* Every step implements a step of the abstract topic, or a stutter *)

\* The subscriptions a publisher still owes its message.
LEMMA DueFacts ==
    ASSUME NEW p \in Pubs, NEW s
    PROVE  s \in Due[p] <=>
               \E i \in 1..Len(pub[p].todo) :
                   ~(i = 1 /\ pub[p].pc = "signal") /\ s = pub[p].todo[i][1]
<1>1. Due[p] = DueTo(p)
  BY DEF Due
<1>2. s \in DueTo(p) <=>
               \E i \in 1..Len(pub[p].todo) :
                   ~(i = 1 /\ pub[p].pc = "signal") /\ s = pub[p].todo[i][1]
  BY Zenon DEF DueTo
<1> QED
  BY <1>1, <1>2

\* A thread that serves nobody owes nothing.
LEMMA NothingDue ==
    ASSUME PubsOK, NEW p \in Pubs, ~Delivering(p)
    PROVE  Due[p] = {}
<1>1. pub[p].todo = <<>> /\ Len(<<>>) = 0
  BY DEF PubsOK
<1>2. \A s : ~(s \in Due[p])
  BY <1>1, DueFacts
<1> QED
  BY <1>2

\* Under the exclusive lock nobody owes anything.
LEMMA NothingDueUnderLock ==
    ASSUME PubsOK, ExclusiveLock
    PROVE  \A p \in Pubs : Due[p] = {}
  BY NothingDue DEF ExclusiveLock

\* The buffers determine the kept and the given messages.
LEMMA SameBuffers ==
    ASSUME UNCHANGED ring
    PROVE  UNCHANGED <<Kept, Inbox>>
<1>1. \A x : MessagesOf(ring[x])' = MessagesOf(ring[x])
  OBVIOUS
<1> QED
  BY <1>1 DEF Kept, Inbox

\* The threads determine what is due.
LEMMA SameDue ==
    ASSUME UNCHANGED pub
    PROVE  UNCHANGED Due
  BY DEF Due, DueTo

\* The status determines who is registered.
LEMMA SameMember ==
    ASSUME UNCHANGED status
    PROVE  UNCHANGED Member
  BY DEF Member, LivePubs, LiveSubs

\* Registering and unregistering, as a change of the set of members.
LEMMA MemberFacts ==
    ASSUME ListsOK, NEW x \in Pubs \union Subs, NEW v, status' = [status EXCEPT ![x] = v]
    PROVE  /\ x \in Member <=> status[x] = "live"
           /\ v = "live" => Member' = Member \union {x}
           /\ v = "gone" => Member' = Member \ {x}
           /\ Member \cap Pubs \cap Transient = LivePubs \cap Transient
<1>1. /\ Member = {y \in Pubs \union Subs : status[y] = "live"}
      /\ Member' = {y \in Pubs \union Subs : status'[y] = "live"}
  BY DEF Member, LivePubs, LiveSubs
<1>2. \A y \in Pubs \union Subs : status'[y] = IF y = x THEN v ELSE status[y]
  BY DEF ListsOK
<1>3. Member \cap Pubs \cap Transient = LivePubs \cap Transient
  BY Constants DEF Member, LivePubs, LiveSubs
<1>4. x \in Member <=> status[x] = "live"
  BY <1>1
<1>5. v = "live" => Member' = Member \union {x}
  BY <1>1, <1>2
<1>6. v = "gone" => Member' = Member \ {x}
  BY <1>1, <1>2
<1> QED
  BY <1>3, <1>4, <1>5, <1>6

\* add_publisher is a publisher that joins.
LEMMA AddPublisherRefines ==
    ASSUME Sound, NEW p \in Pubs, AddPublisher(p)
    PROVE  Topic!Join(p)
<1>1. /\ status[p] = "new" /\ ExclusiveLock /\ status' = [status EXCEPT ![p] = "live"]
      /\ UNCHANGED <<ring, sent, pub>> /\ ListsOK /\ PubsOK
  BY DEF AddPublisher, Sound
<1>2. p \notin Member /\ Member' = Member \union {p}
  BY <1>1, MemberFacts
<1>3. ~(p \in Subs /\ p \in Transient)
  BY Constants
<1> QED
  BY <1>1, <1>2, <1>3, NothingDueUnderLock, SameBuffers, SameDue, TopicJoinQuietly

\* remove_publisher and remove_subscription are leaving.
LEMMA RemoveRefines ==
    ASSUME Sound, NEW x \in Pubs \union Subs, status[x] = "live", ExclusiveLock,
           status' = [status EXCEPT ![x] = "gone"], UNCHANGED <<ring, sent, pub>>
    PROVE  Topic!Leave(x)
<1>1. ListsOK /\ PubsOK
  BY DEF Sound
<1>2. x \in Member /\ Member' = Member \ {x}
  BY <1>1, MemberFacts
<1> QED
  BY <1>1, <1>2, NothingDueUnderLock, SameBuffers, SameDue, TopicLeave

\* The buffers of a step that changes only the one of x.
LEMMA OneInbox ==
    ASSUME NEW x \in Subs, NEW m, MessagesOf(ring'[x]) = m,
           \A y \in Buffered : y # x => ring'[y] = ring[y]
    PROVE  Inbox' = [Inbox EXCEPT ![x] = m] /\ UNCHANGED Kept
<1>1. /\ Inbox' = [s \in Subs |-> MessagesOf(ring'[s])]
      /\ Kept' = [p \in Transient \cap Pubs |-> MessagesOf(ring'[p])]
  BY DEF Inbox, Kept, MessagesOf, Content
<1>2. ASSUME NEW s \in Subs PROVE MessagesOf(ring'[s]) = IF s = x THEN m ELSE Inbox[s]
  <2>1. CASE s = x
    BY <2>1
  <2>2. CASE s # x
    BY <2>2, Constants DEF Inbox
  <2> QED
    BY <2>1, <2>2
<1>3. ASSUME NEW p \in Transient \cap Pubs PROVE ring'[p] = ring[p]
  BY Constants
<1>4. Inbox' = [Inbox EXCEPT ![x] = m]
  <2>1. DOMAIN Inbox = Subs
    BY DEF Inbox
  <2>2. Inbox' = [s \in Subs |-> IF s = x THEN m ELSE Inbox[s]]
    BY <1>1, <1>2, Zenon
  <2> QED
    BY <2>1, <2>2
<1>5. Kept' = Kept
  BY <1>1, <1>3 DEF Kept
<1> QED
  BY <1>4, <1>5

\* The same, for the buffer of a publisher.
LEMMA OneKept ==
    ASSUME NEW x \in Transient \cap Pubs, NEW m, MessagesOf(ring'[x]) = m,
           \A y \in Buffered : y # x => ring'[y] = ring[y]
    PROVE  Kept' = [Kept EXCEPT ![x] = m] /\ UNCHANGED Inbox
<1>1. /\ Inbox' = [s \in Subs |-> MessagesOf(ring'[s])]
      /\ Kept' = [p \in Transient \cap Pubs |-> MessagesOf(ring'[p])]
  BY DEF Inbox, Kept, MessagesOf, Content
<1>2. ASSUME NEW p \in Transient \cap Pubs PROVE MessagesOf(ring'[p]) = IF p = x THEN m ELSE Kept[p]
  <2>1. CASE p = x
    BY <2>1
  <2>2. CASE p # x
    BY <2>2, Constants DEF Kept
  <2> QED
    BY <2>1, <2>2
<1>3. ASSUME NEW s \in Subs PROVE ring'[s] = ring[s]
  BY Constants
<1>4. Kept' = [Kept EXCEPT ![x] = m]
  <2>1. DOMAIN Kept = Transient \cap Pubs
    BY DEF Kept
  <2>2. Kept' = [p \in Transient \cap Pubs |-> IF p = x THEN m ELSE Kept[p]]
    BY <1>1, <1>2, Zenon
  <2> QED
    BY <2>1, <2>2
<1>5. Inbox' = Inbox
  BY <1>1, <1>3 DEF Inbox
<1> QED
  BY <1>4, <1>5

\* A new subscription joins the topic; a transient-local one starts with the
\* last of what the publishers keep.
LEMMA AddSubscriptionRefines ==
    ASSUME Sound, NEW s \in Subs, AddSubscription(s)
    PROVE  Topic!Join(s)
<1>1. /\ status[s] = "new" /\ ExclusiveLock /\ status' = [status EXCEPT ![s] = "live"]
      /\ UNCHANGED <<sent, pub>> /\ RingsOK /\ ListsOK /\ PubsOK /\ s \in DOMAIN status
  BY DEF AddSubscription, Sound, ListsOK
<1>2. /\ s \notin Member /\ Member' = Member \union {s}
      /\ Member \cap Pubs \cap Transient = LivePubs \cap Transient
  BY <1>1, MemberFacts
<1>3. \A p \in Pubs : Due[p] = {}
  BY <1>1, NothingDueUnderLock
<1>4. UNCHANGED Due
  BY <1>1, SameDue
<1>5. /\ s \in Buffered /\ Depth[s] \in Nat \ {0} /\ RingOK(ring[s], Depth[s]) /\ ring[s].n = 0
      /\ DOMAIN ring = Buffered
  BY <1>1, Constants DEF RingsOK
<1> DEFINE P == IF s \in Transient THEN LivePubs \cap Transient ELSE {}
<1>6. PICK order \in Orders(P) :
          ring' = [ring EXCEPT ![s] = EnqueueAll(@, ReplayAll(s, order))]
  BY DEF AddSubscription
<1>7. P \in SUBSET (Pubs \cap Transient) /\ IsFiniteSet(P)
  BY SubsFinite DEF LivePubs
<1>p. P = IF s \in Transient THEN LivePubs \cap Transient ELSE {}
  OBVIOUS
<1> HIDE DEF P
<1>8. order \in Seq(P) /\ Len(order) = Cardinality(P)
  BY <1>7, OrdersFacts
<1> DEFINE xs == ReplayAll(s, order)
           e == EnqueueAll(ring[s], xs)
           q == Msgs(xs)
<1>9. /\ xs \in Seq(Objects)
      /\ \A k \in 1..Len(xs) : \E p \in P : \E i \in 1..ring[p].n : xs[k] = Replay(s, p)[i]
  BY <1>1, <1>7, <1>8, ReplayAllFacts
<1>10. q \in Topic!Replays(P)
  BY <1>1, <1>7, ReplayIsAbstract
<1>11. ring' = [ring EXCEPT ![s] = e]
  BY <1>6
<1>e. e = EnqueueAll(ring[s], xs)
  OBVIOUS
<1> HIDE DEF xs, e
<1>12. /\ RingOK(e, Depth[s])
       /\ e.n = IF Len(xs) <= Depth[s] THEN Len(xs) ELSE Depth[s]
       /\ \A k \in 1..e.n : Content(e)[k] = xs[Len(xs) - e.n + k]
  BY <1>5, <1>9, <1>e, EnqueueAllContent, SMTT(30)
<1>13. q \in Seq(Messages) /\ Len(q) = Len(xs) /\ \A i \in 1..Len(xs) : q[i] = xs[i][1]
  BY <1>9, MsgsFacts
<1> HIDE DEF q
<1>14. Len(xs) \in Nat
  BY <1>9, LenProperties
<1>15. ASSUME NEW i \in 1..e.n PROVE Content(e)[i][1] = q[Len(q) - e.n + i]
  <2>1. Len(xs) - e.n + i \in 1..Len(xs)
    BY <1>5, <1>12, <1>14
  <2> QED
    BY <1>12, <1>13, <2>1
<1>16. MessagesOf(e) = Topic!LastOf(s, q)
  BY <1>5, <1>12, <1>13, <1>15, MessagesOfLast, SMTT(30)
<1>17. ring'[s] = e /\ \A y \in Buffered : y # s => ring'[y] = ring[y]
  BY <1>5, <1>11
<1>18. CASE s \in Transient
  <2>1. q \in Topic!Replays(Member \cap Pubs \cap Transient)
    <3>1. Member \cap Pubs \cap Transient = P
      BY <1>2, <1>18, <1>p
    <3> QED
      BY <1>10, <3>1
  <2>2. MessagesOf(ring'[s]) = Topic!LastOf(s, q)
    BY <1>16, <1>17
  <2>3. PICK m : m = Topic!LastOf(s, q)
    OBVIOUS
  <2>4. Inbox' = [Inbox EXCEPT ![s] = m] /\ UNCHANGED Kept
    BY <1>17, <2>2, <2>3, OneInbox
  <2> QED
    BY <1>1, <1>2, <1>3, <1>4, <1>18, <2>1, <2>3, <2>4, TopicJoinReplay
<1>19. CASE ~(s \in Transient)
  <2>1. xs = <<>>
    <3>1. P = {}
      BY <1>19, <1>p
    <3>2. ~(\E k \in 1..Len(xs) : TRUE)
      BY <1>9, <3>1
    <3>3. Len(xs) = 0
      BY <1>14, <3>2
    <3> QED
      BY <1>9, <3>3, EmptySeq
  <2>2. e.n = 0
    <3>1. Len(<<>>) = 0
      OBVIOUS
    <3> QED
      BY <1>5, <1>12, <2>1, <3>1
  <2>3. MessagesOf(e) = <<>> /\ MessagesOf(ring[s]) = <<>>
    BY <1>5, <1>12, <2>2, MessagesOfFacts, EmptySeq
  <2>4. Inbox[s] = <<>> /\ Inbox = [t \in Subs |-> Inbox[t]]
    BY <2>3 DEF Inbox
  <2>5. Inbox' = [Inbox EXCEPT ![s] = <<>>] /\ UNCHANGED Kept
    <3>1. MessagesOf(ring'[s]) = <<>>
      BY <1>17, <2>3
    <3> QED
      BY <1>17, <3>1, OneInbox
  <2>6. Inbox' = Inbox
    BY <2>4, <2>5
  <2>7. ~(s \in Subs /\ s \in Transient)
    BY <1>19
  <2> QED
    BY <1>1, <1>2, <1>3, <1>4, <2>5, <2>6, <2>7, TopicJoinQuietly
<1> QED
  BY <1>18, <1>19

\* The abstract due sets of a step that changes only the thread of p.
LEMMA OneDue ==
    ASSUME NEW p \in Pubs, NEW D, \A s : s \in Due'[p] <=> s \in D,
           \A q \in Pubs : q # p => pub'[q] = pub[q]
    PROVE  Due' = [Due EXCEPT ![p] = D]
<1>1. Due' = [q \in Pubs |-> DueTo(q)'] /\ Due = [q \in Pubs |-> DueTo(q)]
  BY DEF Due
<1>2. ASSUME NEW q \in Pubs, q # p PROVE DueTo(q)' = DueTo(q)
  BY <1>2 DEF DueTo
<1>3. Due'[p] = D
  OBVIOUS
<1> QED
  BY <1>1, <1>2, <1>3

\* DueFacts, in the next state.
LEMMA DueFactsNext ==
    ASSUME NEW p \in Pubs, NEW s
    PROVE  s \in Due'[p] <=>
               \E i \in 1..Len(pub'[p].todo) :
                   ~(i = 1 /\ pub'[p].pc = "signal") /\ s = pub'[p].todo[i][1]
<1>1. Due'[p] = DueTo(p)'
  BY DEF Due
<1>2. s \in DueTo(p)' <=>
               \E i \in 1..Len(pub'[p].todo) :
                   ~(i = 1 /\ pub'[p].pc = "signal") /\ s = pub'[p].todo[i][1]
  BY Zenon DEF DueTo
<1> QED
  BY <1>1, <1>2

\* A message goes to exactly the matched subscriptions that are registered.
LEMMA PublishRefines ==
    ASSUME Sound, NEW p \in Pubs, Publish(p)
    PROVE  Topic!Publish(p)
<1>0. RingsOK /\ ListsOK /\ PubsOK /\ KeptOK
  BY DEF Sound
<1>1. /\ status[p] = "live" /\ pub[p].pc = "idle" /\ sent' = [sent EXCEPT ![p] = @ + 1]
      /\ UNCHANGED <<status, targets, ring>>
  BY DEF Publish, mgrVars
<1>2. p \in Member
  BY <1>1 DEF Member, LivePubs
<1>3. Due[p] = {}
  BY <1>0, <1>1, NothingDue DEF Delivering
<1>4. UNCHANGED <<Member, Kept, Inbox>>
  BY <1>1, SameMember, SameBuffers
<1>5. ASSUME p \in Transient PROVE Topic!LastIsKept(p)
  <2>1. sent[p] # 0 => ring[p].n # 0 /\ Content(ring[p])[ring[p].n][1] = <<p, sent[p]>>
    BY <1>0, <1>1, <1>5 DEF KeptOK
  <2>2. RingOK(ring[p], Depth[p]) /\ Depth[p] \in Nat \ {0}
    BY <1>0, <1>5, Constants DEF RingsOK
  <2>3. Kept[p] = MessagesOf(ring[p])
    BY <1>5 DEF Kept
  <2>4. /\ Kept[p] \in Seq(Messages) /\ Len(Kept[p]) = ring[p].n /\ ring[p].n \in 0..Depth[p]
        /\ \A i \in 1..ring[p].n : Kept[p][i] = Content(ring[p])[i][1]
    BY <2>2, <2>3, MessagesOfFacts
  <2>5. sent[p] > 0 => Kept[p] # <<>> /\ Kept[p][Len(Kept[p])] = <<p, sent[p]>>
    <3> SUFFICES ASSUME sent[p] > 0 PROVE Kept[p] # <<>> /\ Kept[p][Len(Kept[p])] = <<p, sent[p]>>
      OBVIOUS
    <3>0. sent[p] \in Nat
      BY <1>0 DEF PubsOK
    <3>1. ring[p].n # 0 /\ Content(ring[p])[ring[p].n][1] = <<p, sent[p]>>
      BY <2>1, <3>0
    <3>2. ring[p].n \in 1..ring[p].n
      BY <2>2, <2>4, <3>1
    <3>3. Kept[p] # <<>>
      BY <2>4, <3>1, EmptySeq
    <3> QED
      BY <2>4, <3>1, <3>2, <3>3
  <2> QED
    BY <2>5, TopicLastIsKept
<1>6. PICK ws \in BOOLEAN :
          /\ RecipientsOK(pub'[p].todo, <<p, sent[p] + 1>>, targets[p], ws)
          /\ pub' = [pub EXCEPT ![p] =
                [pc |-> NextStop(p, pub'[p].todo), todo |-> pub'[p].todo,
                 msg |-> IF p \in Transient
                         THEN <<<<p, sent[p] + 1>>, IF targets[p].owned = <<>> THEN "orig" ELSE "copy">>
                         ELSE None]]
  BY <1>0, PublishThread
<1>7. pub'[p].pc # "signal" /\ \A q \in Pubs : q # p => pub'[q] = pub[q]
  <2>1. pub'[p].pc = NextStop(p, pub'[p].todo) /\ \A q \in Pubs : q # p => pub'[q] = pub[q]
    BY <1>0, <1>6 DEF PubsOK
  <2>2. NextStop(p, pub'[p].todo) # "signal"
    BY DEF NextStop
  <2> QED
    BY <2>1, <2>2
<1>8. {pub'[p].todo[i][1] : i \in 1..Len(pub'[p].todo)} = {s \in LiveSubs : can_communicate(p, s)}
  <2>1. {pub'[p].todo[i][1] : i \in 1..Len(pub'[p].todo)}
            = Elems(targets[p].shared) \union Elems(targets[p].owned)
    BY <1>6, Zenon DEF RecipientsOK
  <2>2. p \in LivePubs
    BY <1>1 DEF LivePubs
  <2> QED
    BY <1>0, <2>1, <2>2 DEF ListsOK
<1>9. PICK D : D = {s \in Member \cap Subs : can_communicate(p, s)}
  OBVIOUS
<1>10. D = {s \in LiveSubs : can_communicate(p, s)}
  BY <1>9, Constants DEF Member, LivePubs, LiveSubs
<1>11. \A s : s \in Due'[p] <=> s \in D
  <2>1. ASSUME NEW s PROVE s \in Due'[p] <=> \E i \in 1..Len(pub'[p].todo) : s = pub'[p].todo[i][1]
    <3>1. s \in Due'[p] <=> \E i \in 1..Len(pub'[p].todo) :
                                ~(i = 1 /\ pub'[p].pc = "signal") /\ s = pub'[p].todo[i][1]
      BY DueFactsNext
    <3> QED
      BY <1>7, <3>1
  <2> QED
    BY <1>8, <1>10, <2>1
<1>12. Due' = [Due EXCEPT ![p] = D]
  BY <1>7, <1>11, OneDue
<1> QED
  BY <1>1, <1>2, <1>3, <1>4, <1>5, <1>9, <1>12, TopicPublish

\* Storing a message in a buffer is the delivery.
LEMMA DeliverRefines ==
    ASSUME Sound, NEW p \in Pubs, Deliver(p)
    PROVE  \E s \in Subs : Topic!Deliver(p, s)
<1>0. RingsOK /\ PubsOK
  BY DEF Sound
<1>1. /\ pub[p].pc = "deliver" /\ Delivering(p) /\ pub' = [pub EXCEPT ![p].pc = "signal"]
      /\ UNCHANGED <<status, sent>>
  BY DEF Deliver, mgrVars, Delivering
<1>a. PICK s \in Subs : s = pub[p].todo[1][1]
  BY <1>0, DeliverRing
<1>b. PICK x \in Objects : x = pub[p].todo[1][2]
  BY <1>0, DeliverRing
<1>2. /\ Enqueued(ring'[s], ring[s], x, Depth[s])
      /\ \A y \in Buffered : y # s => ring'[y] = ring[y]
  BY <1>0, <1>a, <1>b, DeliverRing
<1>3. x[1] = <<p, sent[p]>> /\ 1 \in 1..Len(pub[p].todo)
  BY <1>0, <1>1, <1>b, HeadFacts
<1>4. s \in Buffered /\ RingOK(ring[s], Depth[s])
  BY <1>0, Constants DEF RingsOK
<1>5. /\ pub'[p].pc = "signal" /\ pub'[p].todo = pub[p].todo
      /\ \A q \in Pubs : q # p => pub'[q] = pub[q]
  BY <1>0, <1>1 DEF PubsOK
<1>6. s \in Due[p]
  <2>1. ~(1 = 1 /\ pub[p].pc = "signal")
    BY <1>1
  <2> QED
    BY <1>3, <1>a, <2>1, DueFacts
<1>7. Due' = [Due EXCEPT ![p] = @ \ {s}]
  <2>1. \A i, j \in 1..Len(pub[p].todo) : pub[p].todo[i][1] = pub[p].todo[j][1] => i = j
    BY <1>0 DEF PubsOK
  <2>2. PICK D : D = Due[p] \ {s}
    OBVIOUS
  <2>3. ASSUME NEW t PROVE t \in Due'[p] <=> t \in D
    <3>1. t \in Due'[p] <=> \E i \in 1..Len(pub[p].todo) : i # 1 /\ t = pub[p].todo[i][1]
      BY <1>5, DueFactsNext, SMTT(30)
    <3>2. t \in Due[p] <=> \E i \in 1..Len(pub[p].todo) : t = pub[p].todo[i][1]
      BY <1>1, DueFacts
    <3> QED
      BY <1>3, <1>a, <2>1, <2>2, <3>1, <3>2
  <2>4. Due' = [Due EXCEPT ![p] = D]
    BY <1>5, <2>3, OneDue
  <2> QED
    BY <2>2, <2>4
<1>8. MessagesOf(ring'[s]) = Topic!LastOf(s, Append(MessagesOf(ring[s]), <<p, sent[p]>>))
  BY <1>2, <1>3, <1>4, EnqueueIsLast
<1>9. PICK m : m = Topic!LastOf(s, Append(Inbox[s], <<p, sent[p]>>))
  OBVIOUS
<1>10. Inbox[s] = MessagesOf(ring[s])
  BY DEF Inbox
<1>11. MessagesOf(ring'[s]) = m
  BY <1>8, <1>9, <1>10
<1>12. Inbox' = [Inbox EXCEPT ![s] = m] /\ UNCHANGED Kept
  BY <1>2, <1>11, OneInbox
<1>13. Inbox' = [Inbox EXCEPT ![s] = Topic!LastOf(s, Append(@, <<p, sent[p]>>))]
  BY <1>9, <1>12
<1> QED
  BY <1>1, <1>6, <1>7, <1>12, <1>13, SameMember, TopicDeliver

\* The second notification is invisible: the message was given before.
LEMMA SignalRefines ==
    ASSUME Sound, NEW p \in Pubs, Signal(p)
    PROVE  UNCHANGED Topic!vars
<1>0. PubsOK
  BY DEF Sound
<1> DEFINE q == pub[p].todo
           r == Tail(q)
<1>1. /\ pub[p].pc = "signal" /\ Delivering(p) /\ UNCHANGED <<status, sent, ring>>
      /\ pub' = [pub EXCEPT ![p].todo = r, ![p].pc = NextStop(p, r)]
  BY DEF Signal, mgrVars, Delivering
<1>2. /\ Len(q) \in Nat \ {0} /\ Len(r) = Len(q) - 1
      /\ \A i \in 1..Len(r) : r[i] = q[i + 1] /\ i + 1 \in 1..Len(q)
  BY <1>0, <1>1, HeadFacts
<1>3. /\ pub'[p].todo = r /\ pub'[p].pc = NextStop(p, r)
      /\ \A u \in Pubs : u # p => pub'[u] = pub[u]
  BY <1>0, <1>1 DEF PubsOK
<1>4. NextStop(p, r) # "signal"
  BY DEF NextStop
<1> HIDE DEF r
<1>5. ASSUME NEW t PROVE t \in Due'[p] <=> t \in Due[p]
  <2>1. t \in Due'[p] <=> \E i \in 1..Len(r) : t = r[i][1]
    BY <1>3, <1>4, DueFactsNext
  <2>2. t \in Due[p] <=> \E i \in 1..Len(q) : i # 1 /\ t = q[i][1]
    BY <1>1, DueFacts
  <2>3. ASSUME NEW i \in 1..Len(r), t = r[i][1] PROVE \E j \in 1..Len(q) : j # 1 /\ t = q[j][1]
    <3>1. i + 1 \in 1..Len(q) /\ i + 1 # 1 /\ t = q[i + 1][1]
      BY <1>2, <2>3
    <3> QED
      BY <3>1
  <2>4. ASSUME NEW j \in 1..Len(q), j # 1, t = q[j][1] PROVE \E i \in 1..Len(r) : t = r[i][1]
    <3>1. j - 1 \in 1..Len(r) /\ (j - 1) + 1 = j
      BY <1>2, <2>4
    <3>2. r[j - 1] = q[j]
      BY <1>2, <3>1
    <3> QED
      BY <2>4, <3>1, <3>2
  <2> QED
    BY <2>1, <2>2, <2>3, <2>4
<1>6. PICK D : D = Due[p]
  OBVIOUS
<1>7. Due' = [Due EXCEPT ![p] = D]
  BY <1>3, <1>5, <1>6, OneDue
<1>8. Due' = Due
  BY <1>6, <1>7 DEF Due
<1> QED
  BY <1>1, <1>8, SameMember, SameBuffers, TopicStutter

\* Storing it with the publisher is the keeping.
LEMMA StoreRefines ==
    ASSUME Sound, NEW p \in Pubs, Store(p)
    PROVE  p \in Transient /\ Topic!Keep(p)
<1>0. RingsOK /\ PubsOK /\ KeptOK
  BY DEF Sound
<1>1. /\ pub[p].pc = "store" /\ pub' = [pub EXCEPT ![p].pc = "idle", ![p].msg = None]
      /\ UNCHANGED <<status, sent>> /\ ~Delivering(p)
  BY DEF Store, mgrVars, Delivering
<1>2. /\ p \in Transient /\ pub[p].msg \in Objects
      /\ Enqueued(ring'[p], ring[p], pub[p].msg, Depth[p])
      /\ \A y \in Buffered : y # p => ring'[y] = ring[y]
  BY <1>0, StoreRing
<1>3. PICK x \in Objects : x = pub[p].msg
  BY <1>2
<1>4. x[1] = <<p, sent[p]>> /\ sent[p] # 0 /\ sent[p] \in Nat
  BY <1>0, <1>1, <1>2, <1>3 DEF PubsOK
<1>5. p \in Buffered /\ Depth[p] \in Nat \ {0} /\ RingOK(ring[p], Depth[p])
  BY <1>0, <1>2, Constants DEF RingsOK
<1>6. Kept[p] = MessagesOf(ring[p])
  BY <1>2 DEF Kept
<1>7. /\ Kept[p] \in Seq(Messages) /\ Len(Kept[p]) = ring[p].n /\ ring[p].n \in 0..Depth[p]
      /\ \A i \in 1..ring[p].n : Kept[p][i] = Content(ring[p])[i][1]
  BY <1>5, <1>6, MessagesOfFacts
<1>8. ~Topic!LastIsKept(p)
  <2> SUFFICES ASSUME Kept[p] # <<>>, Kept[p][Len(Kept[p])] = <<p, sent[p]>> PROVE FALSE
    BY <1>4, TopicLastIsKept
  <2>1. Len(Kept[p]) \in Nat \ {0}
    BY <1>7, EmptySeq
  <2>2. ring[p].n \in 1..ring[p].n
    BY <1>7, <2>1
  <2>3. PICK k \in 1..sent[p] : Content(ring[p])[ring[p].n][1] = <<p, k>> /\ k # sent[p]
    BY <1>0, <1>1, <1>2, <2>2 DEF KeptOK
  <2>4. Kept[p][Len(Kept[p])] = <<p, k>>
    BY <1>7, <2>2, <2>3
  <2> QED
    BY <2>3, <2>4
<1>9. MessagesOf(ring'[p]) = Topic!LastOf(p, Append(Kept[p], <<p, sent[p]>>))
  BY <1>2, <1>3, <1>4, <1>5, <1>6, EnqueueIsLast
<1>10. PICK m : m = Topic!LastOf(p, Append(Kept[p], <<p, sent[p]>>))
  OBVIOUS
<1>11. Kept' = [Kept EXCEPT ![p] = m] /\ UNCHANGED Inbox
  BY <1>2, <1>9, <1>10, OneKept
<1>12. Kept' = [Kept EXCEPT ![p] = Topic!LastOf(p, Append(@, <<p, sent[p]>>))]
  BY <1>10, <1>11
<1>13. Due[p] = {}
  BY <1>0, <1>1, NothingDue
<1>14. UNCHANGED Due
  <2>1. /\ pub'[p].todo = pub[p].todo /\ pub'[p].pc = "idle"
        /\ \A q \in Pubs : q # p => pub'[q] = pub[q]
    BY <1>0, <1>1 DEF PubsOK
  <2>2. ASSUME NEW t PROVE t \in Due'[p] <=> t \in Due[p]
    <3>1. t \in Due'[p] <=> \E i \in 1..Len(pub[p].todo) : t = pub[p].todo[i][1]
      BY <2>1, DueFactsNext
    <3>2. t \in Due[p] <=> \E i \in 1..Len(pub[p].todo) : t = pub[p].todo[i][1]
      BY <1>1, DueFacts
    <3> QED
      BY <3>1, <3>2
  <2>3. PICK D : D = Due[p]
    OBVIOUS
  <2>4. Due' = [Due EXCEPT ![p] = D]
    BY <2>1, <2>2, <2>3, OneDue
  <2> QED
    BY <2>3, <2>4 DEF Due
<1> QED
  BY <1>1, <1>2, <1>8, <1>11, <1>12, <1>13, <1>14, SameMember, TopicKeep

\* consume is the taking of the oldest message.
LEMMA TakeRefines ==
    ASSUME Sound, NEW s \in Subs, status[s] = "live", HasData(s), Take(s),
           UNCHANGED <<status, sent, pub>>
    PROVE  Topic!Take(s)
<1>0. RingsOK
  BY DEF Sound
<1>1. /\ Dequeued(ring'[s], ring[s], Depth[s])
      /\ \A y \in Buffered : y # s => ring'[y] = ring[y]
  BY <1>0, TakeRing
<1>2. RingOK(ring[s], Depth[s]) /\ Depth[s] \in Nat \ {0} /\ ring[s].n # 0
  BY <1>0, Constants DEF RingsOK, HasData
<1>3. MessagesOf(ring[s]) # <<>> /\ MessagesOf(ring'[s]) = Tail(MessagesOf(ring[s]))
  BY <1>1, <1>2, DequeueIsTail
<1>4. Inbox[s] = MessagesOf(ring[s])
  BY DEF Inbox
<1>5. PICK m : m = Tail(Inbox[s])
  OBVIOUS
<1>6. Inbox' = [Inbox EXCEPT ![s] = m] /\ UNCHANGED Kept
  BY <1>1, <1>3, <1>4, <1>5, OneInbox
<1>7. Inbox' = [Inbox EXCEPT ![s] = Tail(@)]
  BY <1>5, <1>6
<1>8. UNCHANGED <<Member, Due>>
  BY SameMember, SameDue
<1> QED
  BY <1>3, <1>4, <1>6, <1>7, <1>8, TopicTake

TopicNext == Topic!Next \/ UNCHANGED Topic!vars

\* Every step is one of the abstract topic, or a stutter.
LEMMA TopicStep ==
    ASSUME Sound, [Next]_vars
    PROVE  TopicNext
<1>a. ASSUME NEW x \in Pubs \union Subs, Topic!Join(x) \/ Topic!Leave(x) PROVE TopicNext
  BY <1>a DEF Topic!Next, TopicNext
<1>b. ASSUME NEW p \in Pubs, Topic!Publish(p) \/ (\E s \in Subs : Topic!Deliver(p, s)) PROVE TopicNext
  BY <1>b DEF Topic!Next, TopicNext
<1>c. ASSUME NEW p \in Pubs, p \in Transient /\ Topic!Keep(p) PROVE TopicNext
  BY <1>c DEF Topic!Next, TopicNext
<1>d. ASSUME NEW s \in Subs, Topic!Take(s) PROVE TopicNext
  BY <1>d DEF Topic!Next, TopicNext
<1>e. ASSUME UNCHANGED <<status, sent, ring, pub>> PROVE TopicNext
  BY <1>e, SameMember, SameBuffers, SameDue, TopicStutter DEF TopicNext
<1>1. ASSUME NEW p \in Pubs, AddPublisher(p) PROVE TopicNext
  BY <1>a, <1>1, AddPublisherRefines
<1>2. ASSUME NEW p \in Pubs, RemovePublisher(p) PROVE TopicNext
  <2>1. /\ status[p] = "live" /\ ExclusiveLock /\ status' = [status EXCEPT ![p] = "gone"]
        /\ UNCHANGED <<ring, sent, pub>>
    BY <1>2 DEF RemovePublisher
  <2> QED
    BY <1>a, <2>1, RemoveRefines
<1>3. ASSUME NEW s \in Subs, AddSubscription(s) PROVE TopicNext
  BY <1>a, <1>3, AddSubscriptionRefines
<1>4. ASSUME NEW s \in Subs, RemoveSubscription(s) PROVE TopicNext
  <2>1. /\ status[s] = "live" /\ ExclusiveLock /\ status' = [status EXCEPT ![s] = "gone"]
        /\ UNCHANGED <<ring, sent, pub>>
    BY <1>4 DEF RemoveSubscription
  <2> QED
    BY <1>a, <2>1, RemoveRefines
<1>5. ASSUME NEW p \in Pubs, Publish(p) PROVE TopicNext
  BY <1>b, <1>5, PublishRefines
<1>6. ASSUME NEW p \in Pubs, Deliver(p) PROVE TopicNext
  BY <1>b, <1>6, DeliverRefines
<1>7. ASSUME NEW p \in Pubs, Signal(p) PROVE TopicNext
  BY <1>7, SignalRefines DEF TopicNext
<1>8. ASSUME NEW p \in Pubs, Store(p) PROVE TopicNext
  BY <1>c, <1>8, StoreRefines
<1>9. ASSUME NEW s \in Subs, AddToWaitSet(s) \/ Wake(s) \/ Execute(s) PROVE TopicNext
  BY <1>e, <1>9 DEF AddToWaitSet, Wake, Execute, mgrVars
<1>10. ASSUME NEW s \in Subs, SetOnReadyCallback(s) \/ ClearOnReadyCallback(s) \/ DropEvent(s) PROVE TopicNext
  BY <1>e, <1>10 DEF SetOnReadyCallback, ClearOnReadyCallback, DropEvent, mgrVars
<1>11. ASSUME NEW s \in Subs, status[s] = "live", TakeData(s) PROVE TopicNext
  <2>1. HasData(s) /\ Take(s) /\ UNCHANGED <<status, sent, pub>>
    BY <1>11 DEF TakeData, mgrVars
  <2> QED
    BY <1>d, <1>11, <2>1, TakeRefines
<1>12. ASSUME NEW s \in Subs, status[s] = "live", HandleEvent(s) PROVE TopicNext
  <2>1. UNCHANGED <<status, sent, pub>>
    BY <1>12 DEF HandleEvent, mgrVars
  <2>2. CASE HasData(s)
    <3>1. Take(s)
      BY <1>12, <2>2 DEF HandleEvent
    <3> QED
      BY <1>d, <1>12, <2>1, <2>2, <3>1, TakeRefines
  <2>3. CASE ~HasData(s)
    <3>1. UNCHANGED ring
      BY <1>12, <2>3 DEF HandleEvent
    <3> QED
      BY <1>e, <2>1, <3>1
  <2> QED
    BY <2>2, <2>3
<1>13. CASE UNCHANGED vars
  BY <1>e, <1>13 DEF vars
<1> QED
  BY <1>1, <1>2, <1>3, <1>4, <1>5, <1>6, <1>7, <1>8, <1>9, <1>10, <1>11, <1>12, <1>13, Constants
     DEF Next, Register, Producer, WaitStep, EventStep

\* The initial states are initial states of the abstract topic.
LEMMA InitRefines ==
    ASSUME Init
    PROVE  Topic!Init
<1>1. RingsOK /\ \A x \in Buffered : ring[x].n = 0
  BY InitRings
<1>2. \A x \in Buffered : MessagesOf(ring[x]) = <<>>
  <2> SUFFICES ASSUME NEW x \in Buffered PROVE MessagesOf(ring[x]) = <<>>
    OBVIOUS
  <2>1. RingOK(ring[x], Depth[x]) /\ Depth[x] \in Nat \ {0} /\ ring[x].n = 0
    BY <1>1, Constants DEF RingsOK
  <2>2. MessagesOf(ring[x]) \in Seq(Messages) /\ Len(MessagesOf(ring[x])) = 0
    BY <2>1, MessagesOfFacts
  <2> QED
    BY <2>2, EmptySeq
<1>3. Inbox = [s \in Subs |-> <<>>] /\ Kept = [p \in Transient \cap Pubs |-> <<>>]
  BY <1>2, Constants DEF Inbox, Kept
<1>4. Member = {} /\ sent = [p \in Pubs |-> 0]
  BY DEF Init, Member, LivePubs, LiveSubs
<1>5. Due = [p \in Pubs |-> {}]
  <2>1. PubsOK
    BY InitSound DEF Sound
  <2>2. \A p \in Pubs : ~Delivering(p)
    BY DEF Init, Delivering
  <2>3. \A p \in Pubs : Due[p] = {}
    BY <2>1, <2>2, NothingDue
  <2> QED
    BY <2>3 DEF Due
<1> QED
  BY <1>3, <1>4, <1>5, TopicInit

\* The manager, its lists of ids and its ring buffers implement the topic of
\* KeepLastTopic, for any number of publishers, subscriptions and messages
\* and for any depths: a message goes once to exactly the matched
\* subscriptions registered when it is published
\* (do_intra_process_publish), a buffer is a first-in first-out queue that
\* loses only its oldest message (ring_buffer_implementation.hpp), and a
\* transient-local subscription starts with the last of what the publishers
\* keep (do_transient_local_publish).
THEOREM TopicIsImplemented == Spec => ImplementsTopic
<1>1. Init => Topic!Init
  BY InitRefines
<1>2. Sound /\ [Next]_vars => [Topic!Next]_(Topic!vars)
  BY TopicStep DEF TopicNext
<1> QED
  BY <1>1, <1>2, SoundAlways, PTL DEF Spec, ImplementsTopic, Topic!Spec

=============================================================================
