-------------------------- MODULE BagWriterProofs --------------------------
(***************************************************************************)
(* Proofs about BagWriter, for any limit of the cache, any sizes of        *)
(* messages and any numbers of messages, files and snapshots.              *)
(***************************************************************************)
EXTENDS BagWriter, SequenceTheorems, WellFoundedInduction, TLAPS

-----------------------------------------------------------------------------
(* Induction over the naturals, on a set instead of a predicate *)

\* A set of naturals that is not empty has a least element.
LEMMA LeastElement ==
    ASSUME NEW T, T \subseteq Nat, T # {}
    PROVE  \E x \in T : \A y \in T : x <= y
<1> DEFINE R == {p \in Nat \X Nat : p[1] < p[2]}
<1>1. OpToRel(<, Nat) = R
  BY Zenon DEF OpToRel
<1>2. IsWellFoundedOn(R, Nat)
  BY <1>1, NatLessThanWellFounded, Zenon
<1>3. \A x, y \in Nat : <<y, x>> \in R <=> y < x
  OBVIOUS
<1> HIDE DEF R
<1>4. PICK x \in T : \A y \in T : ~ (<<y, x>> \in R)
  BY <1>2, WFMin
<1>5. ASSUME NEW y \in T PROVE x <= y
  <2>1. x \in Nat /\ y \in Nat /\ ~(<<y, x>> \in R)
    BY <1>4
  <2> QED
    BY <1>3, <2>1
<1> QED
  BY <1>4, <1>5

\* A set with 0 that is closed under successor holds every natural.
LEMMA SetInduction ==
    ASSUME NEW S, 0 \in S, \A n \in Nat : n \in S => n + 1 \in S
    PROVE  \A n \in Nat : n \in S
<1> SUFFICES ASSUME Nat \ S # {} PROVE FALSE
  OBVIOUS
<1>1. PICK x \in Nat \ S : \A y \in Nat \ S : x <= y
  BY LeastElement
<1>2. x # 0 /\ x - 1 \in Nat /\ x - 1 \in S
  BY <1>1
<1> QED
  BY <1>2

-----------------------------------------------------------------------------
(* The bytes of a buffer *)

MessageSeqs == Seq([id : Nat, size : Nat])

\* f[i] is the number of bytes of the first i messages of b.
Sums(f, b, n) == f = [i \in 0..n |-> IF i = 0 THEN 0 ELSE f[i - 1] + b[i].size]

LEMMA SumsExist ==
    ASSUME NEW b \in MessageSeqs
    PROVE  \A n \in Nat : n <= Len(b) => \E f : Sums(f, b, n) /\ f \in [0..n -> Nat]
<1> DEFINE S == {n \in Nat : n <= Len(b) => \E f : Sums(f, b, n) /\ f \in [0..n -> Nat]}
<1>1. 0 \in S
  <2> DEFINE f == [i \in 0..0 |-> 0]
  <2>1. Sums(f, b, 0) /\ f \in [0..0 -> Nat]
    BY DEF Sums
  <2> QED
    BY <2>1
<1>2. ASSUME NEW n \in Nat, n \in S PROVE n + 1 \in S
  <2> SUFFICES ASSUME n + 1 <= Len(b)
               PROVE  \E f : Sums(f, b, n + 1) /\ f \in [0..(n + 1) -> Nat]
    OBVIOUS
  <2>0. /\ Len(b) \in Nat /\ n <= Len(b)
        /\ b[n + 1].size \in Nat
    <3>1. Len(b) \in Nat /\ n <= Len(b) /\ n + 1 \in 1..Len(b)
      BY LenProperties DEF MessageSeqs
    <3>2. b[n + 1] \in [id : Nat, size : Nat]
      BY <3>1, ElementOfSeq DEF MessageSeqs
    <3> QED
      BY <3>1, <3>2
  <2>1. PICK f : Sums(f, b, n) /\ f \in [0..n -> Nat]
    BY <1>2, <2>0
  <2> DEFINE g == [i \in 0..(n + 1) |-> IF i = n + 1 THEN f[n] + b[n + 1].size ELSE f[i]]
  <2>2. g \in [0..(n + 1) -> Nat]
    BY <2>0, <2>1
  <2>3. ASSUME NEW i \in 0..(n + 1)
        PROVE  g[i] = IF i = 0 THEN 0 ELSE g[i - 1] + b[i].size
    <3>1. CASE i = n + 1
      BY <2>1, <3>1 DEF Sums
    <3>2. CASE i # n + 1
      BY <2>1, <3>2 DEF Sums
    <3> QED
      BY <3>1, <3>2
  <2>4. Sums(g, b, n + 1)
    BY <2>3 DEF Sums
  <2> QED
    BY <2>2, <2>4
<1> HIDE DEF S
<1>3. \A n \in Nat : n \in S
  BY <1>1, <1>2, SetInduction
<1> QED
  BY <1>3 DEF S

Agree(b, c, n) == \A i \in 1..n : b[i] = c[i]

\* Two sequences that agree up to n have the same sums up to n.
LEMMA SumsAgree ==
    ASSUME NEW b, NEW c, NEW f, NEW g, NEW n \in Nat, NEW k \in Nat,
           n <= k, Agree(b, c, n), Sums(f, b, n), Sums(g, c, k)
    PROVE  f[n] = g[n]
<1> DEFINE S == {i \in Nat : i <= n => f[i] = g[i]}
<1>1. 0 \in S
  BY DEF Sums
<1>2. ASSUME NEW i \in Nat, i \in S PROVE i + 1 \in S
  BY <1>2 DEF Sums, Agree
<1> HIDE DEF S
<1>3. \A i \in Nat : i \in S
  BY <1>1, <1>2, SetInduction
<1> QED
  BY <1>3 DEF S

LEMMA BytesIsSum ==
    ASSUME NEW b \in MessageSeqs, NEW f, Sums(f, b, Len(b))
    PROVE  Bytes(b) = f[Len(b)]
<1> DEFINE g == CHOOSE h : Sums(h, b, Len(b))
<1>1. Bytes(b) = g[Len(b)]
  BY DEF Bytes, Sums
<1>2. Sums(g, b, Len(b))
  OBVIOUS
<1>3. Len(b) \in Nat
  BY DEF MessageSeqs
<1>4. Agree(b, b, Len(b))
  BY DEF Agree
<1> HIDE DEF g
<1> QED
  BY <1>1, <1>2, <1>3, <1>4, SumsAgree

LEMMA BytesType ==
    ASSUME NEW b \in MessageSeqs
    PROVE  Bytes(b) \in Nat
<1>1. Len(b) \in Nat
  BY DEF MessageSeqs
<1>2. PICK f : Sums(f, b, Len(b)) /\ f \in [0..Len(b) -> Nat]
  BY <1>1, SumsExist
<1> QED
  BY <1>1, <1>2, BytesIsSum

LEMMA BytesEmpty == Bytes(<<>>) = 0
<1>1. <<>> \in MessageSeqs /\ Len(<<>>) = 0
  BY DEF MessageSeqs
<1>2. PICK f : Sums(f, <<>>, 0)
  BY <1>1, SumsExist
<1> QED
  BY <1>1, <1>2, BytesIsSum, SMTT(30) DEF Sums

\* A message adds its size.
LEMMA BytesAppend ==
    ASSUME NEW b \in MessageSeqs, NEW m \in [id : Nat, size : Nat]
    PROVE  Bytes(Append(b, m)) = Bytes(b) + m.size
<1> DEFINE c == Append(b, m)
<1>1. /\ c \in MessageSeqs /\ Len(b) \in Nat /\ Len(c) = Len(b) + 1
      /\ \A i \in 1..Len(b) : b[i] = c[i]
      /\ c[Len(b) + 1] = m
  BY AppendProperties DEF MessageSeqs
<1> HIDE DEF c
<1>2. PICK f : Sums(f, b, Len(b))
  <2>1. Len(b) <= Len(b)
    BY <1>1
  <2> QED
    BY <1>1, <2>1, SumsExist, Zenon
<1>3. PICK g : Sums(g, c, Len(c))
  <2>1. Len(c) \in Nat /\ Len(c) <= Len(c)
    BY <1>1
  <2> QED
    BY <1>1, <2>1, SumsExist, Zenon
<1>4. g[Len(b)] = f[Len(b)]
  <2>1. Len(b) \in Nat /\ Len(c) \in Nat /\ Len(b) <= Len(c)
    BY <1>1
  <2>2. Agree(b, c, Len(b))
    BY <1>1 DEF Agree
  <2>3. f[Len(b)] = g[Len(b)]
    BY <1>2, <1>3, <2>1, <2>2, SumsAgree
  <2> QED
    BY <2>3
<1>5. g[Len(c)] = g[Len(b)] + m.size
  BY <1>1, <1>3 DEF Sums
<1>6. Bytes(b) = f[Len(b)] /\ Bytes(c) = g[Len(c)]
  BY <1>1, <1>2, <1>3, BytesIsSum
<1> QED
  BY <1>4, <1>5, <1>6 DEF c

\* What a push into the circular buffer leaves: a suffix of the buffer that
\* has room for the message, then the message.
LEMMA CircularPush ==
    ASSUME MaxBytes \in Nat, NEW b \in MessageSeqs, NEW m \in [id : Nat, size : Nat],
           m.size <= MaxBytes
    PROVE  \E i \in 1..(Len(b) + 1) :
               /\ PushCircular(b, m) = Append(SubSeq(b, i, Len(b)), m)
               /\ Bytes(SubSeq(b, i, Len(b))) <= MaxBytes - m.size
<1> DEFINE rest(i) == SubSeq(b, i, Len(b))
           Fits == {i \in 1..(Len(b) + 1) : Bytes(rest(i)) <= MaxBytes - m.size}
           P(i) == /\ Bytes(rest(i)) <= MaxBytes - m.size
                   /\ \A j \in 1..(i - 1) : Bytes(rest(j)) > MaxBytes - m.size
           first == CHOOSE i \in 1..(Len(b) + 1) : P(i)
<1>1. Len(b) \in Nat /\ m.size \in Nat /\ MaxBytes - m.size \in Nat
  BY LenProperties DEF MessageSeqs
<1>2. ASSUME NEW i \in 1..(Len(b) + 1) PROVE Bytes(rest(i)) \in Nat
  <2>1. ASSUME NEW j \in i..Len(b) PROVE b[j] \in [id : Nat, size : Nat]
    <3>1. j \in 1..Len(b)
      BY <1>1
    <3> QED
      BY <3>1, ElementOfSeq DEF MessageSeqs
  <2>2. rest(i) \in MessageSeqs
    BY <1>1, <2>1, SubSeqProperties DEF MessageSeqs
  <2> QED
    BY <2>2, BytesType
<1>3. Len(b) + 1 \in Fits
  <2>1. rest(Len(b) + 1) = <<>>
    BY <1>1, SubSeqEmpty
  <2>2. Bytes(rest(Len(b) + 1)) = 0
    BY <2>1, BytesEmpty
  <2> QED
    BY <1>1, <2>2
<1>4. PICK x \in Fits : \A y \in Fits : x <= y
  <2>1. Fits \subseteq Nat /\ Fits # {}
    BY <1>1, <1>3
  <2> HIDE DEF Fits
  <2> QED
    BY <2>1, LeastElement
<1>5. P(x)
  <2>1. ASSUME NEW j \in 1..(x - 1) PROVE Bytes(rest(j)) > MaxBytes - m.size
    <3>1. x \in 1..(Len(b) + 1) /\ j \in 1..(Len(b) + 1) /\ j \notin Fits
      BY <1>1, <1>4
    <3> QED
      BY <1>1, <1>2, <3>1
  <2> QED
    BY <1>4, <2>1
<1>6. first \in 1..(Len(b) + 1) /\ P(first)
  BY <1>4, <1>5
<1>7. PushCircular(b, m) = Append(rest(first), m)
  <2>1. ~(m.size > MaxBytes)
    BY <1>1
  <2> QED
    BY <2>1 DEF PushCircular
<1> HIDE DEF first
<1> QED
  BY <1>6, <1>7

-----------------------------------------------------------------------------
(* The inductive invariant *)

Stopping == {"flush", "notify_flush", "stop", "join", "switch"}

\* A message has been counted and is still to be pushed.
Writing == user.pc = "push" \/ (user.op = "write" /\ user.pc \in Stopping)

\* Who is where: the round that ends the consumer thread begins after the
\* stop was issued, and the writer goes on only when the thread is done.
ControlInv ==
    /\ Writing => user.size \in Sizes /\ sent # 0
    /\ user.pc \in Stopping /\ user.op # "close" => file # MaxFiles
    /\ user.pc = "switch" => user.op # "close"
    /\ thread.final => user.pc \in {"join", "switch", "closed"}
    /\ is_stop_issued => user.pc \in {"join", "switch", "closed"}
    /\ thread.pc = "done" => thread.final
    /\ user.pc \in {"switch", "closed"} => thread.pc = "done"

\* The consumer's buffer is in use only between the swap and the clear; in
\* normal mode the last swap leaves the producer's buffer empty.
BufferInv ==
    /\ thread.pc \notin {"consume", "clear"} => consumer_buffer = <<>>
    /\ ~snapshot_mode /\ thread.final /\ thread.pc \in {"consume", "clear", "check", "done"} =>
           producer_buffer = <<>>

\* Normal mode: accepted and written.
LedgerInv ==
    /\ \A k \in 1..MaxFiles : k > file => files[k] = <<>> /\ accepted[k] = <<>>
    /\ ~snapshot_mode =>
           /\ accepted[file] = files[file] \o Pending
           /\ \A k \in 1..MaxFiles : k # file => accepted[k] = files[k]

\* Everything in q was written before everything in r.
Precedes(q, r) == \A i \in 1..Len(q), j \in 1..Len(r) : q[i].id < r[j].id

Below(q) == \A i \in 1..Len(q) : q[i].id <= sent /\ (Writing => q[i].id # sent)

\* The files, the consumer's buffer and the producer's, in that order.
OrderInv ==
    /\ Increasing(producer_buffer) /\ Increasing(consumer_buffer)
    /\ Precedes(consumer_buffer, producer_buffer)
    /\ Below(consumer_buffer) /\ Below(producer_buffer)
    /\ \A k \in 1..MaxFiles :
           /\ Increasing(files[k]) /\ Below(files[k])
           /\ Precedes(files[k], producer_buffer)
           /\ thread.pc # "clear" => Precedes(files[k], consumer_buffer)
           /\ \A l \in 1..MaxFiles : k < l => Precedes(files[k], files[l])

WriterInv == TypeOK /\ ControlInv /\ BufferInv /\ LedgerInv /\ OrderInv

-----------------------------------------------------------------------------
(* Order *)

LEMMA PrecedesConcat ==
    ASSUME NEW p \in MessageSeqs, NEW q \in MessageSeqs, NEW r \in MessageSeqs
    PROVE  /\ Precedes(p, r) /\ Precedes(q, r) => Precedes(p \o q, r)
           /\ Precedes(p, q) /\ Precedes(p, r) => Precedes(p, q \o r)
           /\ Precedes(<<>>, p) /\ Precedes(p, <<>>)
<1>0. Len(p) \in Nat /\ Len(q) \in Nat /\ Len(r) \in Nat
  BY LenProperties DEF MessageSeqs
<1>1. /\ Len(p \o q) = Len(p) + Len(q)
      /\ \A i \in 1..(Len(p) + Len(q)) : (p \o q)[i] = IF i <= Len(p) THEN p[i] ELSE q[i - Len(p)]
  BY ConcatProperties DEF MessageSeqs
<1>2. /\ Len(q \o r) = Len(q) + Len(r)
      /\ \A i \in 1..(Len(q) + Len(r)) : (q \o r)[i] = IF i <= Len(q) THEN q[i] ELSE r[i - Len(q)]
  BY ConcatProperties DEF MessageSeqs
<1>3. Precedes(p, r) /\ Precedes(q, r) => Precedes(p \o q, r)
  BY <1>0, <1>1 DEF Precedes
<1>4. Precedes(p, q) /\ Precedes(p, r) => Precedes(p, q \o r)
  BY <1>0, <1>2 DEF Precedes
<1>5. Precedes(<<>>, p) /\ Precedes(p, <<>>)
  BY <1>0 DEF Precedes
<1> QED
  BY <1>3, <1>4, <1>5

LEMMA IncreasingConcat ==
    ASSUME NEW p \in MessageSeqs, NEW q \in MessageSeqs,
           Increasing(p), Increasing(q), Precedes(p, q)
    PROVE  Increasing(p \o q)
<1>0. Len(p) \in Nat /\ Len(q) \in Nat
  BY LenProperties DEF MessageSeqs
<1>1. /\ Len(p \o q) = Len(p) + Len(q)
      /\ \A i \in 1..(Len(p) + Len(q)) : (p \o q)[i] = IF i <= Len(p) THEN p[i] ELSE q[i - Len(p)]
  BY ConcatProperties DEF MessageSeqs
<1> SUFFICES ASSUME NEW i \in 1..(Len(p) + Len(q)), NEW j \in 1..(Len(p) + Len(q)), i < j
             PROVE  (p \o q)[i].id < (p \o q)[j].id
  BY <1>1 DEF Increasing
<1>2. CASE j <= Len(p)
  BY <1>0, <1>1, <1>2 DEF Increasing
<1>3. CASE i <= Len(p) /\ ~(j <= Len(p))
  BY <1>0, <1>1, <1>3 DEF Precedes
<1>4. CASE ~(i <= Len(p))
  <2>1. i - Len(p) \in 1..Len(q) /\ j - Len(p) \in 1..Len(q) /\ i - Len(p) < j - Len(p)
    BY <1>0, <1>4
  <2> QED
    BY <1>0, <1>1, <1>4, <2>1 DEF Increasing
<1> QED
  BY <1>0, <1>2, <1>3, <1>4

LEMMA BelowConcat ==
    ASSUME NEW p \in MessageSeqs, NEW q \in MessageSeqs, Below(p), Below(q)
    PROVE  Below(p \o q)
<1>0. Len(p) \in Nat /\ Len(q) \in Nat
  BY LenProperties DEF MessageSeqs
<1>1. /\ Len(p \o q) = Len(p) + Len(q)
      /\ \A i \in 1..(Len(p) + Len(q)) : (p \o q)[i] = IF i <= Len(p) THEN p[i] ELSE q[i - Len(p)]
  BY ConcatProperties DEF MessageSeqs
<1> QED
  BY <1>0, <1>1 DEF Below

Older(b, m) == \A i \in 1..Len(b) : b[i].id < m.id

\* A buffer and a message newer than all of it.
LEMMA AppendNewer ==
    ASSUME NEW b \in MessageSeqs, NEW m \in [id : Nat, size : Nat],
           NEW k \in 1..(Len(b) + 1), Increasing(b), Older(b, m)
    PROVE  LET q == Append(SubSeq(b, k, Len(b)), m)
           IN  /\ q \in MessageSeqs
               /\ Increasing(q)
               /\ \A i \in 1..Len(q) : q[i] = m \/ \E j \in 1..Len(b) : q[i] = b[j]
<1> DEFINE r == SubSeq(b, k, Len(b))
           q == Append(r, m)
<1>0. Len(b) \in Nat
  BY LenProperties DEF MessageSeqs
<1>1. /\ r \in MessageSeqs /\ Len(r) = Len(b) - k + 1
      /\ \A i \in 1..(Len(b) - k + 1) : r[i] = b[k + i - 1]
  <2>1. ASSUME NEW j \in k..Len(b) PROVE b[j] \in [id : Nat, size : Nat]
    <3>1. j \in 1..Len(b)
      BY <1>0
    <3> QED
      BY <3>1, ElementOfSeq DEF MessageSeqs
  <2> QED
    BY <1>0, <2>1, SubSeqProperties DEF MessageSeqs
<1> HIDE DEF r
<1>2. /\ q \in MessageSeqs /\ Len(q) = Len(r) + 1
      /\ \A i \in 1..Len(r) : q[i] = r[i]
      /\ q[Len(r) + 1] = m
  BY <1>1, AppendProperties DEF MessageSeqs
<1> HIDE DEF q
<1>3. \A i \in 1..Len(r) : k + i - 1 \in 1..Len(b) /\ q[i] = b[k + i - 1]
  BY <1>0, <1>1, <1>2
<1>4. Len(r) \in Nat
  BY <1>0, <1>1
<1>5. Increasing(q)
  <2> SUFFICES ASSUME NEW i \in 1..Len(q), NEW j \in 1..Len(q), i < j
               PROVE  q[i].id < q[j].id
    BY DEF Increasing
  <2>1. i \in 1..Len(r) /\ (j \in 1..Len(r) \/ j = Len(r) + 1)
    <3>1. Len(q) = Len(r) + 1
      BY <1>2
    <3> QED
      BY <1>4, <3>1
  <2>2. CASE j \in 1..Len(r)
    <3>1. k + i - 1 < k + j - 1
      BY <1>0, <2>1, <2>2
    <3> QED
      BY <1>3, <2>1, <2>2, <3>1 DEF Increasing
  <2>3. CASE j = Len(r) + 1
    BY <1>2, <1>3, <2>1, <2>3 DEF Older
  <2> QED
    BY <2>1, <2>2, <2>3
<1>6. ASSUME NEW i \in 1..Len(q) PROVE q[i] = m \/ \E j \in 1..Len(b) : q[i] = b[j]
  <2>1. i \in 1..Len(r) \/ i = Len(r) + 1
    BY <1>2, <1>4
  <2> QED
    BY <1>2, <1>3, <2>1
<1> QED
  BY <1>2, <1>5, <1>6 DEF q, r

-----------------------------------------------------------------------------
(* Types and control *)

LEMMA ConstantTypes ==
    /\ MaxBytes \in Nat /\ MaxMsgs \in Nat /\ MaxFiles \in Nat /\ 1 \in 1..MaxFiles
    /\ MaxSnapshots \in Nat
    /\ \A size \in Sizes : size \in Nat /\ size # 0
<1>1. MaxBytes \in Nat /\ MaxMsgs \in Nat /\ MaxFiles \in Nat \ {0} /\ MaxSnapshots \in Nat
  BY CacheAssumption
<1>2. Sizes \subseteq Nat \ {0}
  BY CacheAssumption, Zenon
<1> QED
  BY <1>1, <1>2

LEMMA MessagesAreMessages == Seq(Messages) \subseteq MessageSeqs
<1>1. Messages \subseteq [id : Nat, size : Nat]
  BY ConstantTypes DEF Messages
<1> QED
  BY <1>1, SeqMonotonic DEF MessageSeqs

LEMMA ControlInit == Init => TypeOK /\ ControlInv /\ BufferInv
<1> SUFFICES ASSUME Init PROVE TypeOK /\ ControlInv /\ BufferInv
  OBVIOUS
<1>1. TypeOK
  <2>1. files \in [1..MaxFiles -> Seq(Messages)] /\ accepted \in [1..MaxFiles -> Seq(Messages)]
    BY EmptySeq DEF Init
  <2>2. producer_buffer \in Seq(Messages) /\ consumer_buffer \in Seq(Messages)
    BY EmptySeq DEF Init
  <2>3. file \in 1..MaxFiles /\ sent \in 0..MaxMsgs /\ snapshots \in 0..MaxSnapshots
    BY ConstantTypes DEF Init
  <2> QED
    BY <2>1, <2>2, <2>3 DEF Init, TypeOK
<1>2. ControlInv /\ BufferInv
  BY DEF Init, ControlInv, BufferInv, Writing, Stopping
<1> QED
  BY <1>1, <1>2

\* A message that is pushed has a type.
LEMMA PushedMessage ==
    TypeOK /\ ControlInv /\ user.pc = "push" =>
        /\ [id |-> sent, size |-> user.size] \in Messages
        /\ sent \in Nat \ {0} /\ user.size \in Nat \ {0}
  BY ConstantTypes DEF TypeOK, ControlInv, Writing, Messages

LEMMA PushType ==
    ASSUME TypeOK, ControlInv, Push
    PROVE  producer_buffer' \in Seq(Messages) /\ accepted' \in [1..MaxFiles -> Seq(Messages)]
<1> DEFINE m == [id |-> sent, size |-> user.size]
<1>1. m \in Messages /\ m.size \in Nat /\ m \in [id : Nat, size : Nat]
  BY PushedMessage, ConstantTypes DEF Push, Messages
<1>2. producer_buffer \in Seq(Messages) /\ producer_buffer \in MessageSeqs
  BY MessagesAreMessages DEF TypeOK
<1>3. Append(producer_buffer, m) \in Seq(Messages)
  BY <1>1, <1>2, AppendProperties
<1>4. PushCircular(producer_buffer, m) \in Seq(Messages)
  <2>1. CASE m.size > MaxBytes
    BY <1>2, <2>1 DEF PushCircular
  <2>2. CASE ~(m.size > MaxBytes)
    <3>1. MaxBytes \in Nat /\ m.size <= MaxBytes
      BY <1>1, <2>2, ConstantTypes
    <3> HIDE DEF m
    <3>2. PICK i \in 1..(Len(producer_buffer) + 1) :
              PushCircular(producer_buffer, m) =
                  Append(SubSeq(producer_buffer, i, Len(producer_buffer)), m)
      BY <1>1, <1>2, <3>1, CircularPush
    <3>3. \A j \in i..Len(producer_buffer) : producer_buffer[j] \in Messages
      <4> SUFFICES ASSUME NEW j \in i..Len(producer_buffer)
                   PROVE  producer_buffer[j] \in Messages
        OBVIOUS
      <4>1. j \in 1..Len(producer_buffer)
        BY <1>2, LenProperties
      <4> QED
        BY <1>2, <4>1, ElementOfSeq
    <3>4. SubSeq(producer_buffer, i, Len(producer_buffer)) \in Seq(Messages)
      BY <1>2, <3>3, LenProperties, SubSeqProperties
    <3> QED
      BY <1>1, <3>2, <3>4, AppendProperties
  <2> QED
    BY <2>1, <2>2
<1>5. producer_buffer' \in Seq(Messages)
  BY <1>2, <1>3, <1>4 DEF Push
<1>6. accepted' \in [1..MaxFiles -> Seq(Messages)]
  <2>1. Append(accepted[file], m) \in Seq(Messages)
    BY <1>1, AppendProperties DEF TypeOK
  <2> QED
    BY <2>1 DEF Push, TypeOK
<1> QED
  BY <1>5, <1>6

ThreadType ==
    [pc : {"wait", "asleep", "woken", "swap", "consume", "clear", "check", "done"}, final : BOOLEAN]

UserType ==
    [pc : {"idle", "push", "ready", "notify", "flush", "notify_flush", "stop", "join", "switch",
           "closed"},
     op : {"write", "split", "close"}, size : Sizes \union {0}]

\* The types, by the parts a step changes.
Flags == {data_ready, flushing, is_stop_issued, snapshot_mode} \subseteq BOOLEAN

Buffers == producer_buffer \in Seq(Messages) /\ consumer_buffer \in Seq(Messages)

Counts == sent \in 0..MaxMsgs /\ snapshots \in 0..MaxSnapshots /\ service \in {"idle", "notify"}

Files ==
    /\ file \in 1..MaxFiles
    /\ files \in [1..MaxFiles -> Seq(Messages)] /\ accepted \in [1..MaxFiles -> Seq(Messages)]

LEMMA TypeParts ==
    TypeOK <=> Flags /\ Buffers /\ thread \in ThreadType /\ user \in UserType /\ Counts /\ Files
  BY Zenon DEF TypeOK, Flags, Buffers, ThreadType, UserType, Counts, Files

LEMMA ThreadTypeStep ==
    ASSUME thread \in ThreadType, is_stop_issued \in BOOLEAN, [Next]_vars
    PROVE  thread' \in ThreadType
<1>1. \/ UNCHANGED thread \/ NotifyOne \/ SwitchToNextStorage \/ WaitForData \/ SwapBuffers
      \/ Consume \/ Clear \/ Check \/ SpuriousWakeup
  BY DEF Next, UserStep, ThreadStep, Write, SplitBagfile, Close, Push, Ready, Notify,
         BeginFlushing, NotifyFlushing, IssueStop, Join, TakeSnapshot, NotifySnapshot, vars
<1>2. ASSUME NEW p \in {"wait", "asleep", "woken", "swap", "consume", "clear", "check", "done"}
      PROVE  [thread EXCEPT !.pc = p] \in ThreadType
  BY DEF ThreadType
<1>3. CASE NotifyOne
  <2>1. thread.pc \in {"wait", "asleep", "woken", "swap", "consume", "clear", "check", "done"}
    BY DEF ThreadType
  <2> QED
    BY <1>2, <1>3, <2>1, Zenon DEF NotifyOne
<1>4. CASE SwitchToNextStorage
  BY <1>4 DEF SwitchToNextStorage, ThreadType
<1>5. CASE WaitForData
  BY <1>2, <1>5, Zenon DEF WaitForData
<1>6. CASE SwapBuffers
  BY <1>2, <1>6, Zenon DEF SwapBuffers
<1>7. CASE Consume
  BY <1>2, <1>7, Zenon DEF Consume
<1>8. CASE Clear
  BY <1>2, <1>8, Zenon DEF Clear
<1>9. CASE Check
  <2>1. (thread.final \/ is_stop_issued) \in BOOLEAN
    OBVIOUS
  <2>2. (IF thread.final THEN "done" ELSE "wait") \in
            {"wait", "asleep", "woken", "swap", "consume", "clear", "check", "done"}
    BY Zenon
  <2> QED
    BY <1>9, <2>1, <2>2, Zenon DEF Check, ThreadType
<1>10. CASE SpuriousWakeup
  BY <1>2, <1>10, Zenon DEF SpuriousWakeup
<1>11. CASE UNCHANGED thread
  BY <1>11
<1> QED
  BY <1>1, <1>3, <1>4, <1>5, <1>6, <1>7, <1>8, <1>9, <1>10, <1>11

LEMMA UserTypeStep ==
    ASSUME user \in UserType, [Next]_vars
    PROVE  user' \in UserType
<1>1. \/ UNCHANGED user \/ Write \/ SplitBagfile \/ Close \/ Push \/ Ready \/ Notify
      \/ BeginFlushing \/ NotifyFlushing \/ IssueStop \/ Join \/ SwitchToNextStorage
  BY DEF Next, UserStep, ThreadStep, TakeSnapshot, NotifySnapshot, WaitForData, SwapBuffers,
         Consume, Clear, Check, SpuriousWakeup, vars
<1>2. ASSUME NEW p \in {"idle", "push", "ready", "notify", "flush", "notify_flush", "stop",
                        "join", "switch", "closed"}
      PROVE  [user EXCEPT !.pc = p] \in UserType
  BY DEF UserType
<1>3. CASE Write
  BY <1>3 DEF Write, UserType
<1>4. CASE SplitBagfile
  BY <1>4 DEF SplitBagfile, UserType
<1>5. CASE Close
  BY <1>5 DEF Close, UserType
<1>6. CASE Push
  BY <1>2, <1>6, Zenon DEF Push
<1>7. CASE Ready \/ Notify
  BY <1>2, <1>7, Zenon DEF Ready, Notify
<1>8. CASE BeginFlushing \/ NotifyFlushing \/ IssueStop
  BY <1>2, <1>8, Zenon DEF BeginFlushing, NotifyFlushing, IssueStop
<1>9. CASE Join
  BY <1>2, <1>9, Zenon DEF Join
<1>10. CASE SwitchToNextStorage
  BY <1>2, <1>10, Zenon DEF SwitchToNextStorage
<1>11. CASE UNCHANGED user
  BY <1>11
<1> QED
  BY <1>1, <1>3, <1>4, <1>5, <1>6, <1>7, <1>8, <1>9, <1>10, <1>11

LEMMA FlagsStep == Flags /\ [Next]_vars => Flags'
  BY Zenon
     DEF Next, UserStep, ThreadStep, Write, SplitBagfile, Close, Push, Ready, Notify,
         BeginFlushing, NotifyFlushing, IssueStop, Join, SwitchToNextStorage, TakeSnapshot,
         NotifySnapshot, WaitForData, SwapBuffers, Consume, Clear, Check, SpuriousWakeup, Flags,
         cacheVars, flagVars, countVars, fileVars, vars

LEMMA CountsStep == 
    ASSUME Counts, [Next]_vars
    PROVE  Counts'
<1>1. \/ UNCHANGED <<sent, snapshots, service>> \/ Write \/ TakeSnapshot \/ NotifySnapshot
  BY DEF Next, UserStep, ThreadStep, SplitBagfile, Close, Push, Ready, Notify, BeginFlushing,
         NotifyFlushing, IssueStop, Join, SwitchToNextStorage, WaitForData, SwapBuffers,
         Consume, Clear, Check, SpuriousWakeup, countVars, vars
<1>2. CASE Write
  BY <1>2, ConstantTypes DEF Write, Counts
<1>3. CASE TakeSnapshot
  BY <1>3, ConstantTypes DEF TakeSnapshot, Counts
<1>4. CASE NotifySnapshot
  BY <1>4 DEF NotifySnapshot, Counts, countVars
<1>5. CASE UNCHANGED <<sent, snapshots, service>>
  BY <1>5 DEF Counts
<1> QED
  BY <1>1, <1>2, <1>3, <1>4, <1>5

LEMMA BuffersStep ==
    ASSUME TypeOK, ControlInv, [Next]_vars
    PROVE  Buffers'
<1>1. \/ UNCHANGED cacheVars \/ Push \/ SwapBuffers \/ Clear
  BY DEF Next, UserStep, ThreadStep, Write, SplitBagfile, Close, Ready, Notify, BeginFlushing,
         NotifyFlushing, IssueStop, Join, SwitchToNextStorage, TakeSnapshot, NotifySnapshot,
         WaitForData, Consume, Check, SpuriousWakeup, cacheVars, vars
<1>2. Buffers /\ <<>> \in Seq(Messages)
  BY TypeParts, EmptySeq
<1>3. CASE Push
  BY <1>2, <1>3, PushType DEF Push, Buffers
<1>4. CASE SwapBuffers
  BY <1>2, <1>4, Zenon DEF SwapBuffers, Buffers
<1>5. CASE Clear
  BY <1>2, <1>5, Zenon DEF Clear, Buffers
<1>6. CASE UNCHANGED cacheVars
  BY <1>2, <1>6 DEF Buffers, cacheVars
<1> QED
  BY <1>1, <1>3, <1>4, <1>5, <1>6

LEMMA FilesStep ==
    ASSUME TypeOK, ControlInv, [Next]_vars
    PROVE  Files'
<1>1. \/ UNCHANGED fileVars \/ Push \/ SwitchToNextStorage \/ Consume
  BY DEF Next, UserStep, ThreadStep, Write, SplitBagfile, Close, Ready, Notify, BeginFlushing,
         NotifyFlushing, IssueStop, Join, TakeSnapshot, NotifySnapshot, WaitForData, SwapBuffers,
         Clear, Check, SpuriousWakeup, fileVars, vars
<1>2. Files /\ Buffers
  BY TypeParts
<1>3. CASE Push
  BY <1>2, <1>3, PushType, Zenon DEF Push, Files
<1>4. CASE SwitchToNextStorage
  <2>1. file # MaxFiles
    BY <1>4 DEF SwitchToNextStorage, ControlInv, Stopping
  <2>2. file + 1 \in 1..MaxFiles
    BY <1>2, <2>1, ConstantTypes DEF Files
  <2> QED
    BY <1>2, <1>4, <2>2, Zenon DEF SwitchToNextStorage, Files
<1>5. CASE Consume
  <2>1. files[file] \o consumer_buffer \in Seq(Messages)
    BY <1>2, ConcatProperties DEF Files, Buffers
  <2> QED
    BY <1>2, <1>5, <2>1 DEF Consume, Files
<1>6. CASE UNCHANGED fileVars
  BY <1>2, <1>6 DEF Files, fileVars
<1> QED
  BY <1>1, <1>3, <1>4, <1>5, <1>6

LEMMA TypeStep ==
    ASSUME TypeOK, ControlInv, [Next]_vars
    PROVE  TypeOK'
<1>1. Flags /\ thread \in ThreadType /\ user \in UserType /\ Counts /\ is_stop_issued \in BOOLEAN
  BY TypeParts, Zenon DEF TypeOK
<1>2. Flags' /\ Counts'
  BY <1>1, FlagsStep, CountsStep
<1>3. thread' \in ThreadType /\ user' \in UserType
  BY <1>1, ThreadTypeStep, UserTypeStep
<1>4. TypeOK' <=> (Flags /\ Buffers /\ thread \in ThreadType /\ user \in UserType /\ Counts /\ Files)'
  BY TypeParts, PTL
<1> QED
  BY <1>2, <1>3, <1>4, BuffersStep, FilesStep

LEMMA ControlStep ==
    ASSUME TypeOK, ControlInv, BufferInv, [Next]_vars
    PROVE  ControlInv' /\ BufferInv'
<1> USE DEF ControlInv, BufferInv, Writing, Stopping
<1>1. CASE Write
  <2>1. PICK size \in Sizes, split \in {FALSE, file < MaxFiles} :
            user' = [pc |-> IF split THEN "flush" ELSE "push", op |-> "write", size |-> size]
    BY <1>1 DEF Write
  <2>2. split => file # MaxFiles
    <3>1. split => file < MaxFiles
      BY Zenon
    <3>2. file < MaxFiles => file # MaxFiles
      BY ConstantTypes DEF TypeOK
    <3> QED
      BY <3>1, <3>2, Zenon
  <2>3. \/ user' = [pc |-> "push", op |-> "write", size |-> size]
        \/ user' = [pc |-> "flush", op |-> "write", size |-> size] /\ file # MaxFiles
    BY <2>1, <2>2
  <2>4. user.pc = "idle" /\ sent' # 0
    BY <1>1, ConstantTypes DEF Write, TypeOK
  <2> QED
    BY <1>1, <2>3, <2>4 DEF TypeOK, Write, cacheVars, flagVars, fileVars
<1>2. CASE SplitBagfile
  BY <1>2 DEF TypeOK, SplitBagfile, cacheVars, flagVars, countVars, fileVars
<1>3. CASE Close
  BY <1>3 DEF TypeOK, Close, cacheVars, flagVars, countVars, fileVars
<1>4. CASE Push
  BY <1>4 DEF TypeOK, Push, flagVars, countVars
<1>5. CASE Ready
  BY <1>5 DEF TypeOK, Ready, cacheVars, countVars, fileVars
<1>6. CASE Notify
  BY <1>6 DEF TypeOK, Notify, NotifyOne, cacheVars, flagVars, countVars, fileVars
<1>7. CASE BeginFlushing
  BY <1>7 DEF TypeOK, BeginFlushing, cacheVars, countVars, fileVars
<1>8. CASE NotifyFlushing
  BY <1>8 DEF TypeOK, NotifyFlushing, NotifyOne, cacheVars, flagVars, countVars, fileVars
<1>9. CASE IssueStop
  BY <1>9 DEF TypeOK, IssueStop, cacheVars, countVars, fileVars
<1>10. CASE Join
  BY <1>10 DEF TypeOK, Join, cacheVars, countVars, fileVars
<1>11. CASE SwitchToNextStorage
  BY <1>11 DEF TypeOK, SwitchToNextStorage, cacheVars, countVars
<1>12. CASE TakeSnapshot
  BY <1>12 DEF TypeOK, TakeSnapshot, cacheVars, fileVars
<1>13. CASE NotifySnapshot
  BY <1>13 DEF TypeOK, NotifySnapshot, NotifyOne, cacheVars, flagVars, countVars, fileVars
<1>14. CASE WaitForData
  BY <1>14, ZenonT(40) DEF TypeOK, WaitForData, cacheVars, countVars, fileVars
<1>15. CASE SwapBuffers
  BY <1>15 DEF TypeOK, SwapBuffers, countVars, fileVars
<1>16. CASE Consume
  BY <1>16 DEF TypeOK, Consume, cacheVars, flagVars, countVars
<1>17. CASE Clear
  BY <1>17 DEF TypeOK, Clear, flagVars, countVars, fileVars
<1>18. CASE Check
  BY <1>18 DEF TypeOK, Check, cacheVars, flagVars, countVars, fileVars
<1>19. CASE SpuriousWakeup
  BY <1>19 DEF TypeOK, SpuriousWakeup, cacheVars, flagVars, countVars, fileVars
<1>20. CASE UNCHANGED vars
  BY <1>20 DEF vars, cacheVars, flagVars, countVars, fileVars
<1> QED
  BY <1>1, <1>2, <1>3, <1>4, <1>5, <1>6, <1>7, <1>8, <1>9, <1>10, <1>11, <1>12, <1>13,
     <1>14, <1>15, <1>16, <1>17, <1>18, <1>19, <1>20 DEF Next, UserStep, ThreadStep

-----------------------------------------------------------------------------
(* What the files, the buffers and the ledger hold *)

LEMMA DataTypes ==
    ASSUME TypeOK
    PROVE  /\ producer_buffer \in MessageSeqs /\ consumer_buffer \in MessageSeqs
           /\ \A k \in 1..MaxFiles : files[k] \in MessageSeqs /\ accepted[k] \in MessageSeqs
           /\ Pending \in MessageSeqs
<1>1. /\ producer_buffer \in MessageSeqs /\ consumer_buffer \in MessageSeqs
      /\ \A k \in 1..MaxFiles : files[k] \in MessageSeqs /\ accepted[k] \in MessageSeqs
  BY MessagesAreMessages DEF TypeOK
<1>2. <<>> \in MessageSeqs
  BY EmptySeq DEF MessageSeqs
<1>3. \A p, q \in MessageSeqs : p \o q \in MessageSeqs
  BY ConcatProperties DEF MessageSeqs
<1> QED
  BY <1>1, <1>2, <1>3 DEF Pending

LEMMA MessagesAssociate ==
    \A p, q, r \in MessageSeqs : (p \o q) \o r = p \o (q \o r)
<1> DEFINE Assoc(S) == \A p, q, r \in Seq(S) : (p \o q) \o r = p \o (q \o r)
<1>1. \A S : Assoc(S)
  BY ConcatAssociative, Zenon
<1> HIDE DEF Assoc
<1>2. Assoc([id : Nat, size : Nat])
  BY <1>1, Zenon
<1> QED
  BY <1>2, Zenon DEF Assoc, MessageSeqs

LEMMA SeqFacts ==
    /\ <<>> \in MessageSeqs
    /\ \A p \in MessageSeqs : p \o <<>> = p /\ <<>> \o p = p
    /\ \A p, q \in MessageSeqs : p \o q \in MessageSeqs
<1>1. <<>> \in MessageSeqs
  BY EmptySeq, Zenon DEF MessageSeqs
<1>2. ASSUME NEW p \in MessageSeqs PROVE p \o <<>> = p /\ <<>> \o p = p
  BY ConcatEmptySeq, Zenon DEF MessageSeqs
<1>3. ASSUME NEW p \in MessageSeqs, NEW q \in MessageSeqs PROVE p \o q \in MessageSeqs
  BY ConcatProperties, Zenon DEF MessageSeqs
<1> QED
  BY <1>1, <1>2, <1>3, Zenon

\* The order is kept by a step that moves no message and counts none.
LEMMA QuietOrder ==
    ASSUME TypeOK, OrderInv,
           UNCHANGED <<cacheVars, files, sent>>,
           thread.pc = "clear" <=> thread'.pc = "clear",
           Writing' => Writing
    PROVE  OrderInv'
<1>1. \A q : Below(q) => Below(q)'
  BY DEF Below
<1> QED
  BY <1>1 DEF OrderInv, cacheVars

LEMMA QuietStep ==
    ASSUME TypeOK, LedgerInv, OrderInv,
           UNCHANGED <<cacheVars, fileVars, sent, snapshot_mode>>,
           thread.pc = "clear" <=> thread'.pc = "clear",
           Writing' => Writing
    PROVE  LedgerInv' /\ OrderInv'
<1>1. Pending' = Pending
  BY DEF Pending, cacheVars
<1>2. LedgerInv'
  BY <1>1 DEF LedgerInv, cacheVars, fileVars
<1> QED
  BY <1>2, QuietOrder DEF fileVars

LEMMA WriteData ==
    ASSUME TypeOK, LedgerInv, OrderInv, Write
    PROVE  LedgerInv' /\ OrderInv'
<1>1. Pending' = Pending
  BY DEF Write, Pending, cacheVars
<1>2. LedgerInv'
  BY <1>1 DEF Write, LedgerInv, cacheVars, fileVars
<1>3. ASSUME NEW q \in MessageSeqs, Below(q) PROVE Below(q)'
  <2>1. sent \in Nat /\ sent' = sent + 1
    BY ConstantTypes DEF TypeOK, Write
  <2>2. ASSUME NEW i \in 1..Len(q) PROVE q[i].id \in Nat /\ q[i].id <= sent
    <3>1. q[i] \in [id : Nat, size : Nat]
      BY ElementOfSeq DEF MessageSeqs
    <3> QED
      BY <1>3, <3>1 DEF Below
  <2>3. ASSUME NEW i \in 1..Len(q) PROVE q[i].id <= sent' /\ q[i].id # sent'
    BY <2>1, <2>2
  <2> QED
    BY <2>3 DEF Below
<1>4. OrderInv'
  BY <1>3, DataTypes DEF OrderInv, Write, cacheVars, fileVars
<1> QED
  BY <1>2, <1>4

LEMMA AppendConcat ==
    ASSUME NEW p \in MessageSeqs, NEW q \in MessageSeqs, NEW m \in [id : Nat, size : Nat]
    PROVE  Append(p \o q, m) = p \o Append(q, m)
<1>1. <<m>> \in MessageSeqs
  BY DEF MessageSeqs
<1>2. p \o q \in MessageSeqs
  BY SeqFacts, Zenon
<1>0. (p \o q) \o <<m>> = p \o (q \o <<m>>)
  BY <1>1, MessagesAssociate, Zenon
<1>3. Append(p \o q, m) = (p \o q) \o <<m>> /\ Append(q, m) = q \o <<m>>
  BY <1>2, AppendIsConcat DEF MessageSeqs
<1> QED
  BY <1>0, <1>3, Zenon

LEMMA PushData ==
    ASSUME TypeOK, ControlInv, BufferInv, LedgerInv, OrderInv, Push
    PROVE  LedgerInv' /\ OrderInv'
<1> DEFINE m == [id |-> sent, size |-> user.size]
           b == producer_buffer
<1>0. m \in [id : Nat, size : Nat] /\ m.id = sent /\ m.size = user.size
  BY PushedMessage DEF Push
<1>1. b \in MessageSeqs /\ Len(b) \in Nat
  BY DataTypes, LenProperties DEF MessageSeqs
<1>2. b' = b \/ \E k \in 1..(Len(b) + 1) : b' = Append(SubSeq(b, k, Len(b)), m)
  <2>1. CASE snapshot_mode
    <3>1. b' = PushCircular(b, m)
      BY <2>1 DEF Push
    <3>2. CASE m.size > MaxBytes
      BY <3>1, <3>2 DEF PushCircular
    <3>3. CASE ~(m.size > MaxBytes)
      <4>1. MaxBytes \in Nat /\ m.size <= MaxBytes
        BY <1>0, <3>3, ConstantTypes
      <4> HIDE DEF m
      <4> QED
        BY <1>0, <1>1, <3>1, <4>1, CircularPush
    <3> QED
      BY <3>2, <3>3
  <2>2. CASE ~snapshot_mode
    <3>1. b' = b \/ b' = Append(b, m)
      BY <2>2 DEF Push
    <3>2. SubSeq(b, 1, Len(b)) = b /\ 1 \in 1..(Len(b) + 1)
      BY <1>1, SubSeqFull DEF MessageSeqs
    <3> QED
      BY <3>1, <3>2
  <2> QED
    BY <2>1, <2>2
<1>3. Writing /\ ~Writing' /\ sent' = sent
  BY DEF Push, Writing, Stopping, TypeOK, countVars
<1>4. \A q : Below(q) => Below(q)'
  BY <1>3 DEF Below
<1>5. \A q \in MessageSeqs : Below(q) => Older(q, m)
  <2> SUFFICES ASSUME NEW q \in MessageSeqs, Below(q), NEW i \in 1..Len(q)
               PROVE  q[i].id < m.id
    BY DEF Older
  <2>1. q[i] \in [id : Nat, size : Nat]
    BY ElementOfSeq DEF MessageSeqs
  <2> QED
    BY <1>0, <1>3, <2>1 DEF Below
<1>6. OrderInv'
  <2>1. CASE b' = b
    BY <1>4, <2>1 DEF OrderInv, Push
  <2>2. CASE b' # b
    <3>1. PICK k \in 1..(Len(b) + 1) : b' = Append(SubSeq(b, k, Len(b)), m)
      BY <1>2, <2>2
    <3> HIDE DEF m
    <3>2. Increasing(b) /\ Older(b, m)
      BY <1>1, <1>5 DEF OrderInv
    <3>3. /\ b' \in MessageSeqs /\ Increasing(b')
          /\ \A i \in 1..Len(b') : b'[i] = m \/ \E j \in 1..Len(b) : b'[i] = b[j]
      BY <1>0, <1>1, <3>1, <3>2, AppendNewer
    <3>4. ASSUME NEW q \in MessageSeqs, Below(q), Precedes(q, b) PROVE Precedes(q, b')
      <4>1. Older(q, m)
        BY <1>5, <3>4
      <4> QED
        BY <3>3, <3>4, <4>1 DEF Precedes, Older
    <3>5. Below(b)'
      <4> SUFFICES ASSUME NEW i \in 1..Len(b') PROVE b'[i].id <= sent
        BY <1>3 DEF Below
      <4>1. CASE b'[i] = m
        BY <1>0, <4>1
      <4>2. CASE \E j \in 1..Len(b) : b'[i] = b[j]
        BY <4>2 DEF OrderInv, Below
      <4> QED
        BY <3>3, <4>1, <4>2
    <3>6. UNCHANGED <<consumer_buffer, files, thread>>
      BY DEF Push
    <3>7. Precedes(consumer_buffer, b') /\ Below(consumer_buffer)'
      BY <1>4, <3>4, <3>6, DataTypes DEF OrderInv
    <3>8. \A n \in 1..MaxFiles : Precedes(files[n], b') /\ Below(files[n])'
      BY <1>4, <3>4, <3>6, DataTypes DEF OrderInv
    <3> QED
      BY <3>3, <3>5, <3>6, <3>7, <3>8 DEF OrderInv
  <2> QED
    BY <2>1, <2>2
<1>7. LedgerInv'
  <2> DEFINE c == IF thread.pc = "clear" THEN <<>> ELSE consumer_buffer
  <2>0. UNCHANGED <<snapshot_mode, file, files, thread, consumer_buffer>> /\ file \in 1..MaxFiles
    BY DEF Push, countVars, TypeOK
  <2>1. CASE snapshot_mode
    <3>1. accepted' = accepted
      BY <2>1 DEF Push, TypeOK
    <3> QED
      BY <2>0, <2>1, <3>1 DEF LedgerInv
  <2>2. CASE ~snapshot_mode /\ ~HasRoom(b)
    <3>1. accepted' = accepted /\ b' = b
      BY <2>2 DEF Push, TypeOK
    <3>2. Pending' = Pending
      BY <2>0, <3>1 DEF Pending
    <3> QED
      BY <2>0, <3>1, <3>2 DEF LedgerInv
  <2>3. CASE ~snapshot_mode /\ HasRoom(b)
    <3>1. b' = Append(b, m) /\ accepted' = [accepted EXCEPT ![file] = Append(@, m)]
      BY <2>3 DEF Push
    <3>2. Pending = c \o b /\ Pending' = c \o b' /\ c \in MessageSeqs
      BY <2>0, DataTypes, SeqFacts DEF Pending
    <3> HIDE DEF c, m
    <3>3. Append(c \o b, m) = c \o Append(b, m) /\ c \o b \in MessageSeqs
      BY <1>0, <1>1, <3>2, AppendConcat, SeqFacts
    <3>4. files[file] \in MessageSeqs
      BY <2>0, DataTypes
    <3>5. Append(files[file] \o (c \o b), m) = files[file] \o Append(c \o b, m)
      BY <1>0, <3>3, <3>4, AppendConcat
    <3>6. accepted[file] = files[file] \o (c \o b)
      BY <2>3, <3>2 DEF LedgerInv
    <3>7. accepted'[file] = files[file] \o Pending'
      BY <2>0, <3>1, <3>2, <3>3, <3>5, <3>6 DEF TypeOK
    <3>8. \A k \in 1..MaxFiles : k # file => accepted'[k] = accepted[k]
      BY <2>0, <3>1 DEF TypeOK
    <3>9. \A k \in 1..MaxFiles : k > file => k # file
      BY <2>0
    <3> QED
      BY <2>0, <3>7, <3>8, <3>9 DEF LedgerInv
  <2> QED
    BY <2>1, <2>2, <2>3
<1> QED
  BY <1>6, <1>7

LEMMA SwitchData ==
    ASSUME TypeOK, ControlInv, BufferInv, LedgerInv, OrderInv, SwitchToNextStorage
    PROVE  LedgerInv' /\ OrderInv'
<1>1. /\ thread.pc = "done" /\ thread.final /\ file # MaxFiles
      /\ thread'.pc = "wait" /\ file' = file + 1
      /\ UNCHANGED <<cacheVars, files, sent, snapshot_mode, accepted>>
  BY DEF SwitchToNextStorage, ControlInv, Stopping, countVars
<1>2. Writing' => Writing
  BY DEF Writing, SwitchToNextStorage, Stopping, TypeOK
<1>3. OrderInv'
  BY <1>1, <1>2, QuietOrder
<1>4. file \in Nat /\ file' \in 1..MaxFiles /\ file' > file /\ file \in 1..MaxFiles
  BY <1>1, ConstantTypes DEF TypeOK
<1>5. \A k \in 1..MaxFiles : k > file' => k > file
  BY <1>1, <1>4
<1>6. CASE ~snapshot_mode
  <2>1. producer_buffer = <<>> /\ consumer_buffer = <<>>
    BY <1>1, <1>6 DEF BufferInv
  <2>2. Pending = <<>> /\ Pending' = <<>>
    BY <1>1, <2>1, SeqFacts DEF Pending, cacheVars
  <2>3. \A k \in 1..MaxFiles : accepted[k] = files[k]
    BY <1>4, <1>6, <2>2, DataTypes, SeqFacts DEF LedgerInv
  <2> QED
    BY <1>1, <1>3, <1>4, <1>5, <2>2, <2>3, DataTypes, SeqFacts DEF LedgerInv
<1>7. CASE snapshot_mode
  BY <1>1, <1>3, <1>5, <1>7 DEF LedgerInv
<1> QED
  BY <1>6, <1>7

LEMMA SwapData ==
    ASSUME TypeOK, BufferInv, LedgerInv, OrderInv, SwapBuffers
    PROVE  LedgerInv' /\ OrderInv'
<1>1. /\ thread.pc = "swap" /\ thread'.pc = "consume" /\ consumer_buffer = <<>>
      /\ UNCHANGED <<user, sent, snapshot_mode, file, files, accepted>>
  BY DEF SwapBuffers, BufferInv, TypeOK, countVars, fileVars
<1>2. \/ UNCHANGED cacheVars
      \/ producer_buffer' = <<>> /\ consumer_buffer' = producer_buffer
  BY <1>1 DEF SwapBuffers, cacheVars
<1>3. CASE UNCHANGED cacheVars
  BY <1>1, <1>3, QuietStep DEF Writing, fileVars
<1>4. CASE producer_buffer' = <<>> /\ consumer_buffer' = producer_buffer
  <2>1. Pending = producer_buffer /\ Pending' = producer_buffer
    BY <1>1, <1>4, DataTypes, SeqFacts DEF Pending
  <2>2. LedgerInv'
    BY <1>1, <2>1 DEF LedgerInv
  <2>3. \A q : Below(q) => Below(q)'
    BY <1>1 DEF Below, Writing
  <2>4. Increasing(<<>>) /\ Below(<<>>)'
    BY DEF Increasing, Below
  <2>5. \A q \in MessageSeqs : Precedes(q, <<>>)
    BY PrecedesConcat
  <2>6. OrderInv'
    BY <1>1, <1>4, <2>3, <2>4, <2>5, DataTypes DEF OrderInv
  <2> QED
    BY <2>2, <2>6
<1> QED
  BY <1>2, <1>3, <1>4

LEMMA ConsumeData ==
    ASSUME TypeOK, BufferInv, LedgerInv, OrderInv, Consume
    PROVE  LedgerInv' /\ OrderInv'
<1> DEFINE written == files[file] \o consumer_buffer
<1>1. /\ thread.pc = "consume" /\ thread'.pc = "clear" /\ file \in 1..MaxFiles
      /\ UNCHANGED <<cacheVars, user, sent, snapshot_mode, file, accepted>>
      /\ \A k \in 1..MaxFiles : files'[k] = IF k = file THEN written ELSE files[k]
  BY DEF Consume, TypeOK, countVars
<1>2. /\ files[file] \in MessageSeqs /\ consumer_buffer \in MessageSeqs
      /\ producer_buffer \in MessageSeqs /\ written \in MessageSeqs
  BY <1>1, DataTypes, SeqFacts
<1>3. LedgerInv'
  <2>1. \A k \in 1..MaxFiles : k > file => k # file
    BY <1>1
  <2>2. CASE snapshot_mode
    BY <1>1, <2>1, <2>2 DEF LedgerInv
  <2>3. CASE ~snapshot_mode
    <3>1. Pending = consumer_buffer \o producer_buffer /\ Pending' = producer_buffer
      BY <1>1, <1>2, SeqFacts DEF Pending, cacheVars
    <3>2. accepted[file] = files[file] \o (consumer_buffer \o producer_buffer)
      BY <2>3, <3>1, Zenon DEF LedgerInv
    <3>3. accepted[file] = written \o producer_buffer
      <4>1. (files[file] \o consumer_buffer) \o producer_buffer =
                files[file] \o (consumer_buffer \o producer_buffer)
        BY <1>2, MessagesAssociate, ZenonT(40)
      <4> QED
        BY <3>2, <4>1, Zenon
    <3> HIDE DEF written
    <3> QED
      BY <1>1, <2>1, <2>3, <3>1, <3>3 DEF LedgerInv
  <2> QED
    BY <2>2, <2>3
<1>4. OrderInv'
  <2>1. \A q : Below(q) => Below(q)'
    BY <1>1 DEF Below, Writing
  <2>2. Increasing(written)
    BY <1>1, <1>2, IncreasingConcat DEF OrderInv
  <2>3. Below(written)
    BY <1>1, <1>2, BelowConcat DEF OrderInv
  <2>4. Precedes(written, producer_buffer)
    BY <1>1, <1>2, PrecedesConcat DEF OrderInv
  <2>5. ASSUME NEW k \in 1..MaxFiles, k < file PROVE Precedes(files[k], written)
    <3>1. files[k] \in MessageSeqs /\ Precedes(files[k], files[file]) /\ Precedes(files[k], consumer_buffer)
      BY <1>1, <2>5, DataTypes DEF OrderInv
    <3> QED
      BY <1>2, <3>1, PrecedesConcat
  <2>6. ASSUME NEW k \in 1..MaxFiles, k > file PROVE Precedes(written, files[k])
    <3>1. files[k] = <<>>
      BY <2>6 DEF LedgerInv
    <3> QED
      BY <1>2, <3>1, PrecedesConcat
  <2> HIDE DEF written
  <2>7. ASSUME NEW k \in 1..MaxFiles, NEW l \in 1..MaxFiles, k < l
        PROVE  Precedes(files'[k], files'[l])
    <3>1. k < file => Precedes(files[k], written)
      BY <2>5
    <3>2. l > file => Precedes(written, files[l])
      BY <2>6
    <3>3. Precedes(files[k], files[l])
      BY <2>7 DEF OrderInv
    <3>4. /\ files'[k] = IF k = file THEN written ELSE files[k]
          /\ files'[l] = IF l = file THEN written ELSE files[l]
      BY <1>1
    <3> QED
      BY <1>1, <2>7, <3>1, <3>2, <3>3, <3>4
  <2>8. ASSUME NEW k \in 1..MaxFiles
        PROVE  /\ Increasing(files'[k]) /\ Below(files[k])' /\ Precedes(files'[k], producer_buffer)
    <3>1. CASE k = file
      <4>1. files'[k] = written
        BY <1>1, <3>1
      <4>2. Below(files[k])'
        BY <1>1, <2>3, <4>1 DEF Below, Writing
      <4> QED
        BY <2>2, <2>4, <4>1, <4>2
    <3>2. CASE k # file
      <4>1. files'[k] = files[k]
        BY <1>1, <3>2
      <4>2. Below(files[k])
        BY DEF OrderInv
      <4>3. Below(files[k])'
        BY <1>1, <4>1, <4>2 DEF Below, Writing
      <4> QED
        BY <4>1, <4>3 DEF OrderInv
    <3> QED
      BY <3>1, <3>2
  <2>9. UNCHANGED cacheVars /\ thread'.pc = "clear"
    BY <1>1
  <2> QED
    BY <2>1, <2>7, <2>8, <2>9 DEF OrderInv, cacheVars
<1> QED
  BY <1>3, <1>4

LEMMA ClearData ==
    ASSUME TypeOK, BufferInv, LedgerInv, OrderInv, Clear
    PROVE  LedgerInv' /\ OrderInv'
<1>1. /\ thread.pc = "clear" /\ thread'.pc = "check" /\ consumer_buffer' = <<>>
      /\ UNCHANGED <<producer_buffer, user, sent, snapshot_mode, file, files, accepted>>
  BY DEF Clear, TypeOK, countVars, fileVars
<1>2. Pending' = Pending
  BY <1>1 DEF Pending
<1>3. LedgerInv'
  BY <1>1, <1>2 DEF LedgerInv
<1>4. \A q : Below(q) => Below(q)'
  BY <1>1 DEF Below, Writing
<1>5. Increasing(<<>>) /\ Below(<<>>)'
  BY DEF Increasing, Below
<1>6. \A q \in MessageSeqs : Precedes(q, <<>>) /\ Precedes(<<>>, q)
  BY PrecedesConcat
<1>7. OrderInv'
  BY <1>1, <1>4, <1>5, <1>6, DataTypes DEF OrderInv
<1> QED
  BY <1>3, <1>7

LEMMA DataStep ==
    ASSUME TypeOK, ControlInv, BufferInv, LedgerInv, OrderInv, [Next]_vars
    PROVE  LedgerInv' /\ OrderInv'
<1> USE DEF Writing, Stopping
<1>1. CASE Write
  BY <1>1, WriteData
<1>2. CASE SplitBagfile
  BY <1>2, QuietStep DEF TypeOK, SplitBagfile, countVars
<1>3. CASE Close
  BY <1>3, QuietStep DEF TypeOK, Close, countVars
<1>4. CASE Push
  BY <1>4, PushData
<1>5. CASE Ready
  BY <1>5, QuietStep DEF TypeOK, Ready, countVars
<1>6. CASE Notify
  BY <1>6, QuietStep DEF TypeOK, Notify, NotifyOne, countVars
<1>7. CASE BeginFlushing
  BY <1>7, QuietStep DEF TypeOK, BeginFlushing, countVars
<1>8. CASE NotifyFlushing
  BY <1>8, QuietStep DEF TypeOK, NotifyFlushing, NotifyOne, countVars
<1>9. CASE IssueStop
  BY <1>9, QuietStep DEF TypeOK, IssueStop, countVars
<1>10. CASE Join
  BY <1>10, QuietStep DEF TypeOK, Join, countVars
<1>11. CASE SwitchToNextStorage
  BY <1>11, SwitchData
<1>12. CASE TakeSnapshot
  BY <1>12, QuietStep DEF TypeOK, TakeSnapshot
<1>13. CASE NotifySnapshot
  BY <1>13, QuietStep DEF TypeOK, NotifySnapshot, NotifyOne, countVars
<1>14. CASE WaitForData
  BY <1>14, QuietStep DEF TypeOK, WaitForData, countVars
<1>15. CASE SwapBuffers
  BY <1>15, SwapData
<1>16. CASE Consume
  BY <1>16, ConsumeData
<1>17. CASE Clear
  BY <1>17, ClearData
<1>18. CASE Check
  BY <1>18, QuietStep DEF TypeOK, Check, countVars
<1>19. CASE SpuriousWakeup
  BY <1>19, QuietStep DEF TypeOK, SpuriousWakeup, countVars
<1>20. CASE UNCHANGED vars
  BY <1>20, QuietStep DEF vars, countVars
<1> QED
  BY <1>1, <1>2, <1>3, <1>4, <1>5, <1>6, <1>7, <1>8, <1>9, <1>10, <1>11, <1>12, <1>13,
     <1>14, <1>15, <1>16, <1>17, <1>18, <1>19, <1>20 DEF Next, UserStep, ThreadStep

-----------------------------------------------------------------------------
(* The limit of the buffers *)

Bounded(b) ==
    IF snapshot_mode \/ b = <<>> THEN Bytes(b) <= MaxBytes
    ELSE Bytes(SubSeq(b, 1, Len(b) - 1)) < MaxBytes

LEMMA BoundedParts == BufferBound <=> Bounded(producer_buffer) /\ Bounded(consumer_buffer)
  BY DEF BufferBound, Bounded

LEMMA BoundedEmpty == Bounded(<<>>)
  BY BytesEmpty, ConstantTypes DEF Bounded

LEMMA PushBounded ==
    ASSUME TypeOK, ControlInv, Bounded(producer_buffer), Push
    PROVE  Bounded(producer_buffer)'
<1> DEFINE m == [id |-> sent, size |-> user.size]
           b == producer_buffer
<1>0. m \in [id : Nat, size : Nat] /\ snapshot_mode' = snapshot_mode
  BY PushedMessage DEF Push, countVars
<1>1. b \in MessageSeqs /\ Len(b) \in Nat
  BY DataTypes, LenProperties DEF MessageSeqs
<1>2. CASE b' = b
  BY <1>0, <1>2 DEF Bounded
<1>3. CASE snapshot_mode /\ b' # b
  <2>1. b' = PushCircular(b, m) /\ m.size <= MaxBytes
    <3>1. b' = PushCircular(b, m)
      BY <1>3, Zenon DEF Push
    <3>2. ~(m.size > MaxBytes)
      BY <1>3, <3>1, Zenon DEF PushCircular
    <3>3. m.size \in Nat /\ MaxBytes \in Nat
      BY <1>0, ConstantTypes
    <3> HIDE DEF m
    <3> QED
      BY <3>1, <3>2, <3>3
  <2> HIDE DEF m
  <2>2. PICK i \in 1..(Len(b) + 1) :
            /\ PushCircular(b, m) = Append(SubSeq(b, i, Len(b)), m)
            /\ Bytes(SubSeq(b, i, Len(b))) <= MaxBytes - m.size
    BY <1>0, <1>1, <2>1, CircularPush, ConstantTypes
  <2> DEFINE r == SubSeq(b, i, Len(b))
  <2>3. r \in MessageSeqs
    <3>1. ASSUME NEW j \in i..Len(b) PROVE b[j] \in [id : Nat, size : Nat]
      <4>1. j \in 1..Len(b)
        BY <1>1
      <4> QED
        BY <1>1, <4>1, ElementOfSeq DEF MessageSeqs
    <3> QED
      BY <1>1, <3>1, SubSeqProperties DEF MessageSeqs
  <2>4. b' = Append(r, m) /\ Bytes(r) <= MaxBytes - m.size
    BY <2>1, <2>2
  <2> HIDE DEF r
  <2>5. Bytes(Append(r, m)) = Bytes(r) + m.size /\ Bytes(r) \in Nat
    BY <1>0, <2>3, BytesAppend, BytesType
  <2>6. Bytes(b') <= MaxBytes
    <3>1. m.size \in Nat /\ MaxBytes \in Nat
      BY <1>0, ConstantTypes
    <3>2. Bytes(b') = Bytes(r) + m.size
      <4>1. b' = Append(r, m)
        BY <2>4
      <4> QED
        BY <2>5, <4>1, Zenon
    <3>3. Bytes(r) <= MaxBytes - m.size /\ Bytes(r) \in Nat
      BY <2>4, <2>5, ZenonT(40)
    <3> QED
      BY <3>1, <3>2, <3>3
  <2> QED
    BY <1>0, <1>3, <2>6 DEF Bounded
<1>4. CASE ~snapshot_mode /\ b' # b
  <2>1. b' = Append(b, m) /\ Bytes(b) < MaxBytes
    BY <1>4 DEF Push, HasRoom
  <2> HIDE DEF m
  <2>2. b' # <<>> /\ Len(b') = Len(b) + 1
    BY <1>0, <1>1, <2>1, AppendProperties DEF MessageSeqs
  <2>3. SubSeq(b', 1, Len(b)) = b
    <3>1. \A i \in 1..Len(b) : b'[i] = b[i]
      BY <1>0, <1>1, <2>1, AppendProperties DEF MessageSeqs
    <3> DEFINE r == SubSeq(b', 1, Len(b))
    <3>2. \A i \in 1..Len(b) : b'[i] \in [id : Nat, size : Nat]
      BY <1>1, <3>1, ElementOfSeq DEF MessageSeqs
    <3>3. r \in MessageSeqs /\ Len(r) = Len(b) /\ \A i \in 1..Len(b) : r[i] = b'[i]
      BY <1>1, <3>2, SubSeqProperties DEF MessageSeqs
    <3> HIDE DEF r
    <3>4. \A i \in 1..Len(r) : r[i] = b[i]
      BY <3>1, <3>3
    <3>5. r = b
      BY <1>1, <3>3, <3>4, SeqEqual DEF MessageSeqs
    <3> QED
      BY <3>5 DEF r
  <2>4. Len(b') - 1 = Len(b)
    BY <1>1, <2>2
  <2> QED
    BY <1>0, <1>4, <2>1, <2>2, <2>3, <2>4 DEF Bounded
<1> QED
  BY <1>2, <1>3, <1>4

LEMMA BoundStep ==
    ASSUME TypeOK, ControlInv, BufferBound, [Next]_vars
    PROVE  BufferBound'
<1>1. Bounded(producer_buffer) /\ Bounded(consumer_buffer)
  BY BoundedParts
<1>2. snapshot_mode' = snapshot_mode
  BY DEF Next, UserStep, ThreadStep, Write, SplitBagfile, Close, Push, Ready, Notify,
         BeginFlushing, NotifyFlushing, IssueStop, Join, SwitchToNextStorage, TakeSnapshot,
         NotifySnapshot, WaitForData, SwapBuffers, Consume, Clear, Check, SpuriousWakeup,
         vars, countVars
<1>3. \A q : Bounded(q) => Bounded(q)'
  BY <1>2 DEF Bounded
<1>4. CASE Push
  <2>1. Bounded(producer_buffer)'
    BY <1>1, <1>4, PushBounded
  <2>2. Bounded(consumer_buffer)'
    BY <1>1, <1>2, <1>4 DEF Bounded, Push
  <2>3. BufferBound' <=> Bounded(producer_buffer)' /\ Bounded(consumer_buffer)'
    BY DEF BufferBound, Bounded
  <2> QED
    BY <2>1, <2>2, <2>3
<1>5. CASE SwapBuffers \/ Clear
  <2>1. /\ producer_buffer' \in {producer_buffer, consumer_buffer, <<>>}
        /\ consumer_buffer' \in {producer_buffer, consumer_buffer, <<>>}
    BY <1>5 DEF SwapBuffers, Clear
  <2> QED
    BY <1>1, <1>2, <2>1, BoundedEmpty DEF BufferBound, Bounded
<1>6. CASE UNCHANGED cacheVars
  BY <1>1, <1>2, <1>6 DEF BufferBound, Bounded, cacheVars
<1>7. Push \/ SwapBuffers \/ Clear \/ UNCHANGED cacheVars
  BY DEF Next, UserStep, ThreadStep, Write, SplitBagfile, Close, Ready, Notify,
         BeginFlushing, NotifyFlushing, IssueStop, Join, SwitchToNextStorage, TakeSnapshot,
         NotifySnapshot, WaitForData, Consume, Check, SpuriousWakeup, vars
<1> QED
  BY <1>4, <1>5, <1>6, <1>7

-----------------------------------------------------------------------------
(* Theorems *)

LEMMA WriterInit == Init => WriterInv /\ BufferBound
<1> SUFFICES ASSUME Init PROVE WriterInv /\ BufferBound
  OBVIOUS
<1>1. TypeOK /\ ControlInv /\ BufferInv
  BY ControlInit
<1>2. \A k \in 1..MaxFiles : files[k] = <<>> /\ accepted[k] = <<>>
  BY DEF Init
<1>3. producer_buffer = <<>> /\ consumer_buffer = <<>> /\ file \in 1..MaxFiles /\ thread.pc = "wait"
  BY ConstantTypes DEF Init
<1>4. LedgerInv
  BY <1>2, <1>3, SeqFacts DEF LedgerInv, Pending
<1>5. OrderInv
  BY <1>2, <1>3 DEF OrderInv, Increasing, Precedes, Below
<1>6. BufferBound
  BY <1>3, BoundedEmpty, BoundedParts
<1> QED
  BY <1>1, <1>4, <1>5, <1>6 DEF WriterInv

LEMMA WriterStep == WriterInv /\ BufferBound /\ [Next]_vars => WriterInv' /\ BufferBound'
  BY TypeStep, ControlStep, DataStep, BoundStep DEF WriterInv

LEMMA WriterHolds == Spec => [](WriterInv /\ BufferBound)
  BY WriterInit, WriterStep, PTL DEF Spec

\* The records and sequences of the writer, its cache and its consumer
\* thread keep their types.
THEOREM TypeCorrect == Spec => []TypeOK
<1>1. WriterInv => TypeOK
  BY DEF WriterInv
<1> QED
  BY <1>1, WriterHolds, PTL

\* However the writer, the recorder's snapshot service and the consumer
\* thread interleave, in normal mode every file holds exactly what the cache
\* accepted for it, the open one up to what the two buffers still hold, and
\* in snapshot mode nothing is written twice or out of order
\* (SequentialWriter, CacheConsumer::stop, exec_consuming).
THEOREM RecordingIsComplete == Spec => []NothingLost
<1>1. WriterInv => NothingLost
  <2> SUFFICES ASSUME WriterInv PROVE NothingLost
    OBVIOUS
  <2> USE DEF WriterInv
  <2>0. file \in 1..MaxFiles /\ MaxFiles \in Nat
    BY ConstantTypes DEF TypeOK
  <2>1. CASE ~snapshot_mode
    BY <2>0, <2>1 DEF LedgerInv, NothingLost
  <2>2. CASE snapshot_mode
    <3> SUFFICES ASSUME NEW k \in 1..MaxFiles
                 PROVE  /\ \A l \in (k + 1)..MaxFiles : Increasing(files[k] \o files[l])
                        /\ Increasing(files[k] \o Pending)
      BY <2>2 DEF NothingLost
    <3>1. ASSUME NEW l \in (k + 1)..MaxFiles PROVE Increasing(files[k] \o files[l])
      <4>1. l \in 1..MaxFiles /\ k < l
        BY <2>0
      <4>2. Increasing(files[k]) /\ Increasing(files[l]) /\ Precedes(files[k], files[l])
        BY <4>1 DEF OrderInv
      <4>3. files[k] \in MessageSeqs /\ files[l] \in MessageSeqs
        BY <4>1, DataTypes
      <4> QED
        BY <4>2, <4>3, IncreasingConcat
    <3>2. /\ files[k] \in MessageSeqs /\ Increasing(files[k])
          /\ Pending \in MessageSeqs
      BY DataTypes DEF OrderInv
    <3>3. Increasing(Pending) /\ Precedes(files[k], Pending)
      <4>1. producer_buffer \in MessageSeqs /\ consumer_buffer \in MessageSeqs
        BY DataTypes
      <4>2. CASE thread.pc = "clear"
        <5>1. Pending = producer_buffer
          BY <4>1, <4>2, SeqFacts DEF Pending
        <5> QED
          BY <5>1 DEF OrderInv
      <4>3. CASE thread.pc # "clear"
        <5>1. Pending = consumer_buffer \o producer_buffer
          BY <4>3 DEF Pending
        <5>2. Increasing(Pending)
          BY <4>1, <5>1, IncreasingConcat DEF OrderInv
        <5>3. Precedes(files[k], consumer_buffer) /\ Precedes(files[k], producer_buffer)
          BY <4>3 DEF OrderInv
        <5>4. Precedes(files[k], Pending)
          BY <3>2, <4>1, <5>1, <5>3, PrecedesConcat
        <5> QED
          BY <5>2, <5>4
      <4> QED
        BY <4>2, <4>3
    <3>4. Increasing(files[k] \o Pending)
      BY <3>2, <3>3, IncreasingConcat
    <3> QED
      BY <3>1, <3>4
  <2> QED
    BY <2>1, <2>2
<1> QED
  BY <1>1, WriterHolds, PTL

\* A buffer of the message cache is over max_cache_size by at most its last
\* message, and the circular one never is (MessageCacheBuffer::push,
\* MessageCacheCircularBuffer::push).
THEOREM CacheIsBounded == Spec => []BufferBound
  BY WriterHolds, PTL
=============================================================================
