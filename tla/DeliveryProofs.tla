--------------------------- MODULE DeliveryProofs ----------------------------
(***************************************************************************)
(* For any number of phones, sockets, tasks, messages and restarts and any  *)
(* size of the buffer, and whatever the messages say: an open socket loses  *)
(* nothing that the page's feed does not leave out for a reason it names,   *)
(* and every step of Delivery is a step of Mailbox or none.                 *)
(***************************************************************************)
EXTENDS Delivery, SequenceTheorems, WellFoundedInduction, TLAPS

USE DeliveryAssumption
USE DEF pageVars

-----------------------------------------------------------------------------
(* Sequences *)

LEMMA ContainsAppend ==
  ASSUME NEW S, NEW s \in Seq(S), NEW x \in S, NEW e
  PROVE  Contains(Append(s, x), e) <=> Contains(s, e) \/ e = x
<1>1. /\ Len(s) \in Nat /\ Len(Append(s, x)) = Len(s) + 1
      /\ Append(s, x)[Len(s) + 1] = x /\ \A i \in 1..Len(s) : Append(s, x)[i] = s[i]
  BY AppendProperties, LenProperties
<1> QED BY <1>1 DEF Contains

LEMMA ContainsTail ==
  ASSUME NEW S, NEW s \in Seq(S), s # <<>>, NEW e
  PROVE  Contains(s, e) <=> e = Head(s) \/ Contains(Tail(s), e)
<1>1. /\ Len(s) \in Nat /\ Len(s) > 0 /\ Len(Tail(s)) = Len(s) - 1
      /\ Head(s) = s[1] /\ \A i \in 1..Len(Tail(s)) : Tail(s)[i] = s[i + 1]
  BY HeadTailProperties, LenProperties, EmptySeq
<1>2. ASSUME Contains(s, e), e # Head(s) PROVE Contains(Tail(s), e)
  <2>1. PICK i \in 1..Len(s) : s[i] = e
    BY <1>2 DEF Contains
  <2>2. i - 1 \in 1..Len(Tail(s)) /\ Tail(s)[i - 1] = e
    BY <1>1, <1>2, <2>1
  <2> QED BY <2>2 DEF Contains
<1>3. ASSUME Contains(Tail(s), e) PROVE Contains(s, e)
  <2>1. PICK i \in 1..Len(Tail(s)) : Tail(s)[i] = e
    BY <1>3 DEF Contains
  <2>2. i + 1 \in 1..Len(s) /\ s[i + 1] = e
    BY <1>1, <2>1
  <2> QED BY <2>2 DEF Contains
<1>4. ASSUME e = Head(s) PROVE Contains(s, e)
  BY <1>1, <1>4 DEF Contains
<1> QED BY <1>2, <1>3, <1>4

LEMMA ContainsEmpty == ASSUME NEW e PROVE ~Contains(<<>>, e)
BY DEF Contains

\* Taking the first occurrence out of a list without repetitions.
LEMMA RemoveAtProperties ==
  ASSUME NEW S, NEW s \in Seq(S), NEW k \in 1..Len(s)
  PROVE  /\ RemoveAt(s, k) \in Seq(S)
         /\ Len(RemoveAt(s, k)) = Len(s) - 1
         /\ \A i \in 1..(Len(s) - 1) : RemoveAt(s, k)[i] = IF i < k THEN s[i] ELSE s[i + 1]
<1> DEFINE a == SubSeq(s, 1, k - 1)
           b == SubSeq(s, k + 1, Len(s))
<1>1. Len(s) \in Nat /\ k \in Nat /\ 1 <= k /\ k <= Len(s)
  BY LenProperties
<1>2. a \in Seq(S) /\ Len(a) = k - 1 /\ \A i \in 1..(k - 1) : a[i] = s[i]
  BY <1>1, SubSeqProperties
<1>3. b \in Seq(S) /\ Len(b) = Len(s) - k /\ \A i \in 1..(Len(s) - k) : b[i] = s[k + i]
  BY <1>1, SubSeqProperties
<1> HIDE DEF a, b
<1>4. /\ a \o b \in Seq(S) /\ Len(a \o b) = Len(a) + Len(b)
      /\ \A i \in 1..(Len(a) + Len(b)) : (a \o b)[i] = IF i <= Len(a) THEN a[i] ELSE b[i - Len(a)]
  BY <1>2, <1>3, ConcatProperties
<1>5. ASSUME NEW i \in 1..(Len(s) - 1) PROVE (a \o b)[i] = IF i < k THEN s[i] ELSE s[i + 1]
  <2>1. CASE i < k
    BY <2>1, <1>1, <1>2, <1>3, <1>4
  <2>2. CASE ~(i < k)
    <3>1. i - (k - 1) \in 1..(Len(s) - k) /\ k + (i - (k - 1)) = i + 1
      BY <2>2, <1>1
    <3>2. (a \o b)[i] = b[i - (k - 1)]
      BY <2>2, <1>1, <1>2, <1>3, <1>4
    <3> QED BY <3>1, <3>2, <2>2, <1>3
  <2> QED BY <2>1, <2>2
<1>6. Len(a \o b) = Len(s) - 1
  BY <1>1, <1>2, <1>3, <1>4
<1>7. RemoveAt(s, k) = a \o b
  BY DEF RemoveAt, a, b
<1> QED BY ONLY <1>4, <1>5, <1>6, <1>7

LEMMA RemoveFirstKeeps ==
  ASSUME NEW S, NEW s \in Seq(S), IsInjective(s), NEW c
  PROVE  /\ RemoveFirst(s, c) \in Seq(S) /\ IsInjective(RemoveFirst(s, c))
         /\ \A d : Contains(s, d) /\ d # c => Contains(RemoveFirst(s, c), d)
<1>1. CASE ~\E i \in 1..Len(s) : s[i] = c
  BY <1>1 DEF RemoveFirst
<1>2. CASE \E i \in 1..Len(s) : s[i] = c
  <2>1. PICK k \in 1..Len(s) : s[k] = c
    BY <1>2
  <2>0. Len(s) \in Nat /\ DOMAIN s = 1..Len(s)
    BY LenProperties
  <2>2. \A i \in 1..Len(s) : s[i] = c => i = k
    BY <2>0, <2>1 DEF IsInjective
  <2>3. SelectInSeq(s, LAMBDA v : v = c) = k
    <3>1. {i \in 1..Len(s) : s[i] = c} = {k}
      BY <2>1, <2>2
    <3>2. Min({k}) = k
      BY <2>0 DEF Min
    <3> QED BY <3>1, <3>2 DEF SelectInSeq
  <2> DEFINE r == RemoveAt(s, k)
  <2>4. RemoveFirst(s, c) = r
    BY <1>2, <2>3 DEF RemoveFirst
  <2>5. /\ r \in Seq(S) /\ Len(r) = Len(s) - 1
        /\ \A i \in 1..(Len(s) - 1) : r[i] = IF i < k THEN s[i] ELSE s[i + 1]
    BY RemoveAtProperties
  <2> HIDE DEF r
  <2>6. IsInjective(r)
    <3> SUFFICES ASSUME NEW i \in 1..(Len(s) - 1), NEW j \in 1..(Len(s) - 1), r[i] = r[j] PROVE i = j
      BY <2>5, LenProperties DEF IsInjective
    <3> DEFINE f(x) == IF x < k THEN x ELSE x + 1
    <3>1. f(i) \in 1..Len(s) /\ f(j) \in 1..Len(s)
      BY <2>0
    <3>2. s[f(i)] = s[f(j)]
      BY <2>5
    <3>3. f(i) = f(j)
      BY <3>1, <3>2, <2>0 DEF IsInjective
    <3> QED BY <3>3, <2>0
  <2>7. ASSUME NEW d, Contains(s, d), d # c PROVE Contains(r, d)
    <3>1. PICK i \in 1..Len(s) : s[i] = d
      BY <2>7 DEF Contains
    <3>2. i # k
      BY <3>1, <2>1, <2>7
    <3>3. CASE i < k
      BY <3>1, <3>3, <2>0, <2>5 DEF Contains
    <3>4. CASE i > k
      <4>1. i - 1 \in 1..Len(r) /\ r[i - 1] = d
        BY <3>1, <3>4, <2>0, <2>5
      <4> QED BY <4>1 DEF Contains
    <3> QED BY <3>2, <3>3, <3>4, <2>0
  <2> QED BY <2>4, <2>5, <2>6, <2>7
<1> QED BY <1>1, <1>2

\* The largest of a finite, nonempty set of numbers is one of them.
LEMMA MaxIsMember ==
  ASSUME NEW n \in Nat, NEW S, S \subseteq 0..n, S # {}
  PROVE  Max(S) \in S
<1> DEFINE T == {i \in 0..n : n - i \in S}
<1>1. T # {} /\ T \subseteq Nat
  <2>1. PICK x \in S : TRUE
    OBVIOUS
  <2>2. n - x \in 0..n /\ n - (n - x) = x
    OBVIOUS
  <2> QED BY <2>1, <2>2
<1>2. PICK m \in T : \A y \in T : ~(<<y, m>> \in OpToRel(<, Nat))
  BY <1>1, WFMin, NatLessThanWellFounded
<1>3. \A y \in T : ~(y < m)
  BY <1>1, <1>2 DEF OpToRel
<1>4. n - m \in S /\ \A y \in S : n - m >= y
  <2>1. ASSUME NEW y \in S PROVE n - m >= y
    <3>1. n - y \in T
      <4>1. n - y \in 0..n /\ n - (n - y) = y
        OBVIOUS
      <4> QED BY <4>1
    <3> QED BY <3>1, <1>3
  <2> QED BY <2>1
<1> QED BY <1>4 DEF Max

LEMMA AppendFresh ==
  ASSUME NEW S, NEW s \in Seq(S), IsInjective(s), NEW x, x \notin S
  PROVE  IsInjective(Append(s, x))
<1>1. s \in Seq(S \cup {x})
  BY SeqMonotonic
<1>2. /\ Len(s) \in Nat /\ Len(Append(s, x)) = Len(s) + 1 /\ DOMAIN Append(s, x) = 1..(Len(s) + 1)
      /\ Append(s, x)[Len(s) + 1] = x /\ \A i \in 1..Len(s) : Append(s, x)[i] = s[i]
      /\ DOMAIN s = 1..Len(s) /\ \A i \in 1..Len(s) : s[i] \in S
  BY <1>1, AppendProperties, LenProperties
<1>3. \A k \in 1..(Len(s) + 1) : k = Len(s) + 1 \/ k \in 1..Len(s)
  BY <1>2
<1>4. \A k, l \in 1..Len(s) : s[k] = s[l] => k = l
  BY <1>2 DEF IsInjective
<1> QED BY <1>2, <1>3, <1>4 DEF IsInjective

LEMMA ToSetMembers ==
  ASSUME NEW S, NEW s \in Seq(S)
  PROVE  /\ ToSet(s) \subseteq S
         /\ \A e : e \in ToSet(s) <=> Contains(s, e)
         /\ s # <<>> => Last(s) \in ToSet(s)
<1>1. Len(s) \in Nat /\ DOMAIN s = 1..Len(s) /\ \A i \in 1..Len(s) : s[i] \in S
  BY LenProperties
<1>2. s # <<>> => Len(s) \in 1..Len(s)
  BY <1>1, EmptySeq
<1> QED BY <1>1, <1>2 DEF ToSet, Contains, Last

LEMMA ToSetAppend ==
  ASSUME NEW S, NEW s \in Seq(S), NEW x \in S
  PROVE  ToSet(Append(s, x)) = ToSet(s) \cup {x}
<1>1. Append(s, x) \in Seq(S)
  BY AppendProperties
<1>2. \A e : e \in ToSet(s) <=> Contains(s, e)
  BY ToSetMembers
<1>3. \A e : e \in ToSet(Append(s, x)) <=> Contains(Append(s, x), e)
  BY <1>1, ToSetMembers
<1>4. \A e : Contains(Append(s, x), e) <=> Contains(s, e) \/ e = x
  BY ContainsAppend
<1> QED BY <1>2, <1>3, <1>4

-----------------------------------------------------------------------------
(* Type correctness *)

Packet(n) == [seq : 1..n, enc : BOOLEAN] \cup {KeyReply}

(* Sharper than TypeOK: a number in use was given out, a socket in use was  *)
(* opened and belongs to one phone, and a request comes from an open socket.*)
Typed ==
  /\ nextSeq \in 1..(MaxSeq + 1)
  /\ used \subseteq Conn /\ secrets \subseteq used
  /\ room \in Seq(used) /\ IsInjective(room)
  /\ job \in [Task -> [seq : 0..(nextSeq - 1), peers : Seq(Conn)]]
  /\ replay \in [Conn -> Seq(1..(nextSeq - 1))]
  /\ net \in [Conn -> Seq(Packet(nextSeq - 1))]
  /\ request \in [Conn -> 0..MaxSeq \cup {Key, None}]
  /\ conn \in [Phone -> used \cup {None}]
  /\ link \in [Phone -> {"open", "deriving", "ready"}]
  /\ lastSeqId \in [Phone -> 0..MaxSeq]
  /\ restarts \in 0..MaxRestarts
  /\ owed \in [Conn -> SUBSET (1..MaxSeq)]

(* The page deals only with messages that were numbered. *)
Paged ==
  /\ queue \in [Phone -> Seq(Issued)]
  /\ feed \in [Phone -> Seq(Issued \cup {Other})]
  /\ repeated \in [Phone -> SUBSET Issued]

Owned ==
  /\ \A t \in Task : job[t] = Idle \/ (job[t].seq # 0 /\ job[t].peers # <<>>)
  /\ \A p, q \in Phone : conn[p] # None /\ conn[p] = conn[q] => p = q
  /\ \A c \in Conn : request[c] # None => Alive(c)

LEMMA TypedImpliesTypeOK == Typed /\ Paged => TypeOK
<1> SUFFICES ASSUME Typed, Paged PROVE TypeOK
  OBVIOUS
<1>1. nextSeq - 1 \in 0..MaxSeq /\ 1..(nextSeq - 1) \subseteq 1..MaxSeq /\ 0..(nextSeq - 1) \subseteq 0..MaxSeq
  BY DEF Typed
<1>2. Packet(nextSeq - 1) \subseteq [seq : 1..MaxSeq, enc : BOOLEAN] \cup {KeyReply}
  BY <1>1 DEF Packet
<1>3. /\ \A c \in Conn : replay[c] \in Seq(1..MaxSeq)
      /\ \A c \in Conn : net[c] \in Seq([seq : 1..MaxSeq, enc : BOOLEAN] \cup {KeyReply})
      /\ room \in Seq(Conn)
  BY <1>1, <1>2, SeqMonotonic DEF Typed
<1>4. job \in [Task -> [seq : 0..MaxSeq, peers : Seq(Conn)]] /\ conn \in [Phone -> Conn \cup {None}]
  BY <1>1 DEF Typed
<1> QED BY <1>3, <1>4 DEF Typed, Paged, TypeOK

LEMMA TypedInit == Init => Typed /\ Owned /\ Paged
<1> SUFFICES ASSUME Init PROVE Typed /\ Owned /\ Paged
  OBVIOUS
<1>1. \A S : <<>> \in Seq(S)
  BY EmptySeq
<1>2. IsInjective(room)
  BY DEF Init, IsInjective
<1> QED BY <1>1, <1>2 DEF Init, Typed, Owned, Paged, Idle, Alive

(* What a send to one socket does. *)
LEMMA DeliverType ==
  ASSUME Typed, NEW c \in Conn, NEW s \in 1..(nextSeq - 1), Deliver(c, s)
  PROVE  /\ room' \in Seq(used) /\ IsInjective(room') /\ secrets' \subseteq secrets
         /\ net' \in [Conn -> Seq(Packet(nextSeq - 1))]
<1>1. CASE Alive(c)
  <2>1. Sealed(c, s) \in Packet(nextSeq - 1)
    BY DEF Sealed, Packet
  <2>2. Append(net[c], Sealed(c, s)) \in Seq(Packet(nextSeq - 1))
    BY <2>1, AppendProperties DEF Typed
  <2>3. net' = [net EXCEPT ![c] = Append(net[c], Sealed(c, s))] /\ UNCHANGED <<room, secrets>>
    BY <1>1 DEF Deliver
  <2>4. net' \in [Conn -> Seq(Packet(nextSeq - 1))]
    BY <2>2, <2>3 DEF Typed
  <2> QED BY <2>3, <2>4 DEF Typed
<1>2. CASE ~Alive(c)
  <2>1. RemoveFirst(room, c) \in Seq(used) /\ IsInjective(RemoveFirst(room, c))
    BY RemoveFirstKeeps DEF Typed
  <2>2. /\ net' = net
        /\ \/ room' = room /\ secrets' = secrets
           \/ room' = RemoveFirst(room, c) /\ secrets' = secrets \ {c}
    BY <1>2 DEF Deliver, Unregister
  <2> QED BY <2>1, <2>2 DEF Typed
<1> QED BY <1>1, <1>2

(* A broadcast goes on to the next socket, if one is left. *)
LEMMA RemainingJob ==
  ASSUME NEW n \in Nat, NEW s \in 1..n, NEW peers \in Seq(Conn)
  PROVE  /\ Remaining(s, peers) \in [seq : 0..n, peers : Seq(Conn)]
         /\ Remaining(s, peers) = Idle \/ (Remaining(s, peers).seq # 0 /\ Remaining(s, peers).peers # <<>>)
         /\ \A e : Contains(peers, e) => Remaining(s, peers).seq = s /\ Contains(Remaining(s, peers).peers, e)
<1>1. <<>> \in Seq(Conn)
  BY EmptySeq
<1>2. CASE peers = <<>>
  BY <1>1, <1>2, ContainsEmpty DEF Remaining, Idle
<1>3. CASE peers # <<>>
  <2>1. Remaining(s, peers) = [seq |-> s, peers |-> peers]
    BY <1>3 DEF Remaining
  <2> QED BY <1>3, <2>1
<1> QED BY <1>2, <1>3

LEMMA BroadcastJob ==
  ASSUME Typed, Owned, NEW t \in Task, BroadcastStep(t)
  PROVE  /\ job[t].peers # <<>> /\ job[t].peers \in Seq(Conn) /\ job[t].seq \in 1..(nextSeq - 1)
         /\ job' \in [Task -> [seq : 0..(nextSeq - 1), peers : Seq(Conn)]]
         /\ job'[t] = Idle \/ (job'[t].seq # 0 /\ job'[t].peers # <<>>)
         /\ \A e : Contains(Tail(job[t].peers), e) => job'[t].seq = job[t].seq /\ Contains(job'[t].peers, e)
         /\ \A u \in Task : u # t => job'[u] = job[u]
         /\ Head(job[t].peers) \in Conn /\ Deliver(Head(job[t].peers), job[t].seq)
<1> DEFINE tail == Tail(job[t].peers)
           j == Remaining(job[t].seq, tail)
<1>1. job[t] \in [seq : 0..(nextSeq - 1), peers : Seq(Conn)] /\ job[t].seq # 0 /\ job[t].peers # <<>>
  BY DEF Typed, Owned, BroadcastStep
<1>2. tail \in Seq(Conn) /\ Head(job[t].peers) \in Conn
  BY <1>1, HeadTailProperties
<1>3. job' = [job EXCEPT ![t] = j] /\ Deliver(Head(job[t].peers), job[t].seq)
  BY DEF BroadcastStep
<1> HIDE DEF tail
<1>4. job[t].seq \in 1..(nextSeq - 1) /\ nextSeq - 1 \in Nat
  BY <1>1 DEF Typed
<1>5. /\ j \in [seq : 0..(nextSeq - 1), peers : Seq(Conn)]
      /\ j = Idle \/ (j.seq # 0 /\ j.peers # <<>>)
      /\ \A e : Contains(tail, e) => j.seq = job[t].seq /\ Contains(j.peers, e)
  BY <1>2, <1>4, RemainingJob
<1> HIDE DEF j
<1>6. job' \in [Task -> [seq : 0..(nextSeq - 1), peers : Seq(Conn)]]
  BY <1>3, <1>5 DEF Typed
<1>7. job'[t] = j /\ \A u \in Task : u # t => job'[u] = job[u]
  BY <1>3 DEF Typed
<1> QED BY <1>1, <1>2, <1>3, <1>4, <1>5, <1>6, <1>7 DEF tail

LEMMA GetSinceType ==
  ASSUME Typed, NEW cursor \in Nat
  PROVE  GetSince(cursor) \in Seq(1..(nextSeq - 1))
<1> DEFINE first == IF cursor < Oldest THEN Oldest ELSE cursor + 1
           n == IF first < nextSeq THEN nextSeq - first ELSE 0
<1>1. Oldest \in Nat /\ Oldest >= 1 /\ nextSeq \in Nat
  BY DEF Oldest, Typed
<1>2. first \in Nat /\ first >= 1
  BY <1>1
<1>3. n \in Nat /\ 1..n = 1..(nextSeq - first)
  BY <1>1, <1>2
<1>4. \A i \in 1..n : first + i - 1 \in 1..(nextSeq - 1)
  BY <1>1, <1>2
<1>5. GetSince(cursor) = [i \in 1..n |-> first + i - 1]
  BY <1>3 DEF GetSince
<1> HIDE DEF first, n
<1>6. [i \in 1..n |-> first + i - 1] \in [1..n -> 1..(nextSeq - 1)]
  BY <1>4
<1> QED BY <1>3, <1>5, <1>6, SeqDef

LEMMA CursorMoves ==
  ASSUME Typed, Paged, NEW p \in Phone, queue[p] # <<>>
  PROVE  /\ Head(queue[p]) \in Issued /\ Tail(queue[p]) \in Seq(Issued)
         /\ Max({lastSeqId[p], Head(queue[p]).seq}) \in {lastSeqId[p], Head(queue[p]).seq}
         /\ Max({lastSeqId[p], Head(queue[p]).seq}) \in 0..MaxSeq
<1>1. Head(queue[p]) \in Issued /\ Tail(queue[p]) \in Seq(Issued)
  BY HeadTailProperties DEF Paged
<1>2. Head(queue[p]).seq \in 1..MaxSeq /\ lastSeqId[p] \in 0..MaxSeq
  BY <1>1 DEF Issued, Typed
<1>3. {lastSeqId[p], Head(queue[p]).seq} \subseteq 0..MaxSeq
  BY <1>2
<1>4. Max({lastSeqId[p], Head(queue[p]).seq}) \in {lastSeqId[p], Head(queue[p]).seq}
  BY <1>3, MaxIsMember
<1> QED BY <1>1, <1>3, <1>4

LEMMA TypedStep == Typed /\ Owned /\ Paged /\ [Next]_vars => Typed'
<1> SUFFICES ASSUME Typed, Owned, Paged, [Next]_vars PROVE Typed'
  OBVIOUS
<1>1. ASSUME NEW p \in Phone, NEW c \in Conn, Connect(p, c) PROVE Typed'
  <2>1. room' \in Seq(used') /\ IsInjective(room')
    <3>1. room \in Seq(used \cup {c})
      BY SeqMonotonic DEF Typed
    <3>2. Append(room, c) \in Seq(used \cup {c})
      BY <3>1, AppendProperties
    <3> QED BY <1>1, <3>2, AppendFresh DEF Connect, Typed
  <2> QED BY <1>1, <2>1 DEF Connect, Typed
<1>2. ASSUME NEW p \in Phone, SendResume(p) PROVE Typed'
  BY <1>2 DEF SendResume, Typed
<1>3. ASSUME NEW p \in Phone, Receive(p) PROVE Typed'
  <2> DEFINE c == conn[p]
             m == Head(net[c])
  <2>1. c \in Conn
    BY <1>3 DEF Receive, Typed
  <2>2. m \in Packet(nextSeq - 1) /\ Tail(net[c]) \in Seq(Packet(nextSeq - 1))
    BY <1>3, <2>1, HeadTailProperties DEF Receive, Typed
  <2> HIDE DEF m
  <2>4. /\ net' = [net EXCEPT ![c] = Tail(net[c])]
        /\ link' = IF m = KeyReply THEN [link EXCEPT ![p] = "deriving"] ELSE link
        /\ UNCHANGED <<nextSeq, room, job, replay, request, secrets, conn, used, lastSeqId, restarts, owed>>
    BY <1>3 DEF Receive, m
  <2>5. net' \in [Conn -> Seq(Packet(nextSeq' - 1))]
    BY <2>1, <2>2, <2>4 DEF Typed
  <2>7. link' \in [Phone -> {"open", "deriving", "ready"}]
    BY <2>4 DEF Typed
  <2> QED BY <2>4, <2>5, <2>7 DEF Typed
<1>4. ASSUME NEW p \in Phone, Render(p) PROVE Typed'
  <2>1. lastSeqId' = [lastSeqId EXCEPT ![p] = Max({lastSeqId[p], Head(queue[p]).seq})] /\ queue[p] # <<>>
    BY <1>4 DEF Render
  <2>2. lastSeqId' \in [Phone -> 0..MaxSeq]
    BY <2>1, CursorMoves DEF Typed
  <2> QED BY <1>4, <2>2 DEF Render, Typed
<1>4a. ASSUME NEW p \in Phone, OtherEntry(p) PROVE Typed'
  BY <1>4a DEF OtherEntry, Typed
<1>5. ASSUME NEW p \in Phone, Drop(p) PROVE Typed'
  <2>1. <<>> \in Seq(Packet(nextSeq - 1))
    BY EmptySeq
  <2> QED BY <1>5, <2>1 DEF Drop, Typed
<1>6. ASSUME NEW t \in Task, Publish(t) PROVE Typed'
  <2>1. nextSeq \in 1..MaxSeq /\ 1..(nextSeq - 1) \subseteq 1..nextSeq
    BY <1>6 DEF Publish, Typed
  <2>2. Packet(nextSeq - 1) \subseteq Packet(nextSeq) /\ nextSeq' - 1 = nextSeq
    BY <1>6, <2>1 DEF Packet, Publish
  <2>3. \A c \in Conn : replay[c] \in Seq(1..nextSeq) /\ net[c] \in Seq(Packet(nextSeq))
    BY <2>1, <2>2, SeqMonotonic DEF Typed
  <2>4. room \in Seq(Conn)
    BY SeqMonotonic DEF Typed
  <2>5. job' \in [Task -> [seq : 0..nextSeq, peers : Seq(Conn)]]
    <3>1. Remaining(nextSeq, room) \in [seq : 0..nextSeq, peers : Seq(Conn)]
      BY <2>1, <2>4, RemainingJob
    <3>2. job' = [job EXCEPT ![t] = Remaining(nextSeq, room)] /\ job \in [Task -> [seq : 0..nextSeq, peers : Seq(Conn)]]
      BY <1>6, <2>1 DEF Publish, Typed
    <3> QED BY <3>1, <3>2
  <2>6. owed' \in [Conn -> SUBSET (1..MaxSeq)]
    BY <1>6, <2>1 DEF Publish, Typed
  <2>7. /\ replay' \in [Conn -> Seq(1..nextSeq)] /\ net' \in [Conn -> Seq(Packet(nextSeq))]
    BY <1>6, <2>3 DEF Publish, Typed
  <2> QED BY <1>6, <2>1, <2>2, <2>5, <2>6, <2>7 DEF Publish, Typed, phoneVars
<1>7. ASSUME NEW t \in Task, BroadcastStep(t) PROVE Typed'
  <2>1. /\ Head(job[t].peers) \in Conn /\ job[t].seq \in 1..(nextSeq - 1)
        /\ Deliver(Head(job[t].peers), job[t].seq)
        /\ job' \in [Task -> [seq : 0..(nextSeq - 1), peers : Seq(Conn)]]
    BY <1>7, BroadcastJob
  <2>2. /\ room' \in Seq(used) /\ IsInjective(room') /\ secrets' \subseteq secrets
        /\ net' \in [Conn -> Seq(Packet(nextSeq - 1))]
    BY <2>1, DeliverType
  <2> QED BY <1>7, <2>1, <2>2 DEF BroadcastStep, Typed, phoneVars
<1>8. ASSUME NEW c \in Conn, HandleKeyExchange(c) PROVE Typed'
  <2>1. Append(net[c], KeyReply) \in Seq(Packet(nextSeq - 1))
    BY AppendProperties DEF Typed, Packet
  <2>2. c \in used
    BY <1>8, DeliveryAssumption DEF HandleKeyExchange, Owned, Alive, Typed
  <2> QED BY <1>8, <2>1, <2>2 DEF HandleKeyExchange, Typed, phoneVars
<1>9. ASSUME NEW c \in Conn, HandleResume(c) PROVE Typed'
  <2>1. request[c] \in Nat
    BY <1>9 DEF HandleResume
  <2>2. GetSince(request[c]) \in Seq(1..(nextSeq - 1))
    BY <2>1, GetSinceType
  <2>3. ToSet(GetSince(request[c])) \subseteq 1..MaxSeq
    BY <2>2, LenProperties DEF ToSet, Typed
  <2> QED BY <1>9, <2>2, <2>3 DEF HandleResume, Typed, phoneVars
<1>10. ASSUME NEW c \in Conn, ReplayStep(c) PROVE Typed'
  <2>1. Head(replay[c]) \in 1..(nextSeq - 1) /\ Tail(replay[c]) \in Seq(1..(nextSeq - 1))
    BY <1>10, HeadTailProperties DEF ReplayStep, Typed
  <2>2. Sealed(c, Head(replay[c])) \in Packet(nextSeq - 1)
    BY <2>1 DEF Sealed, Packet
  <2>3. Append(net[c], Sealed(c, Head(replay[c]))) \in Seq(Packet(nextSeq - 1))
    BY <2>2, AppendProperties DEF Typed
  <2> QED BY <1>10, <2>1, <2>3 DEF ReplayStep, Typed, phoneVars
<1>11. ASSUME NEW c \in Conn, Disconnect(c) PROVE Typed'
  <2>1. <<>> \in Seq(1..(nextSeq - 1))
    BY EmptySeq
  <2> QED BY <1>11, <2>1, RemoveFirstKeeps DEF Disconnect, Unregister, Typed, phoneVars
<1>12. CASE Restart
  <2>1. \A S : <<>> \in Seq(S)
    BY EmptySeq
  <2>3. IsInjective(room')
    BY <1>12 DEF Restart, IsInjective
  <2>4. job' \in [Task -> [seq : 0..(nextSeq' - 1), peers : Seq(Conn)]]
    BY <1>12, <2>1 DEF Restart, Idle
  <2>5. /\ replay' \in [Conn -> Seq(1..(nextSeq' - 1))]
        /\ net' \in [Conn -> Seq(Packet(nextSeq' - 1))]
        /\ room' \in Seq(used')
    BY <1>12, <2>1 DEF Restart
  <2> QED BY <1>12, <2>3, <2>4, <2>5 DEF Restart, Typed
<1>13. CASE UNCHANGED vars
  BY <1>13 DEF vars, Typed
<1> QED BY <1>1, <1>2, <1>3, <1>4, <1>4a, <1>5, <1>6, <1>7, <1>8, <1>9, <1>10, <1>11, <1>12, <1>13 DEF Next

(* Numbers are given out, never taken back. *)
LEMMA IssuedGrows == Typed /\ [Next]_vars => Issued \subseteq Issued'
<1> SUFFICES ASSUME Typed, [Next]_vars PROVE Issued \subseteq Issued'
  OBVIOUS
<1>1. CASE Restart
  BY <1>1 DEF Restart, Issued, Typed
<1>2. ASSUME NEW t \in Task, Publish(t) PROVE Issued \subseteq Issued'
  BY <1>2 DEF Publish, Issued, Typed, phoneVars
<1>3. CASE UNCHANGED <<nextSeq, restarts>>
  BY <1>3 DEF Issued
<1>4. Restart \/ (\E t \in Task : Publish(t)) \/ UNCHANGED <<nextSeq, restarts>>
  BY DEF Next, vars, phoneVars, Connect, SendResume, Receive, Render, OtherEntry, Drop, BroadcastStep,
         HandleKeyExchange, HandleResume, ReplayStep, Disconnect
<1> QED BY <1>1, <1>2, <1>3, <1>4

(* What a run of an updater does. *)
LEMMA RenderEffect ==
  ASSUME Typed, Paged, NEW p \in Phone, Render(p)
  PROVE  LET m == Head(queue[p]) IN
         /\ m \in Issued /\ m # Other /\ queue[p] # <<>>
         /\ queue' = [queue EXCEPT ![p] = Tail(queue[p])] /\ Tail(queue[p]) \in Seq(Issued)
         /\ \A q \in Phone : q # p => UNCHANGED <<queue[q], feed[q], repeated[q]>>
         /\ feed' \in [Phone -> Seq(Issued \cup {Other})] /\ repeated' \in [Phone -> SUBSET Issued]
         /\ \/ /\ \E e \in ToSet(feed[p]) : e.seq = m.seq
               /\ UNCHANGED <<feed, repeated>>
            \/ /\ \E e \in ToSet(feed[p]) \ {Other} : Says[e] = Says[m]
               /\ repeated'[p] = repeated[p] \cup {m} /\ UNCHANGED feed
            \/ /\ \A e \in ToSet(feed[p]) : e.seq # m.seq
               /\ ToSet(feed'[p]) = ToSet(feed[p]) \cup {m} /\ UNCHANGED repeated
<1> DEFINE m == Head(queue[p])
           f == feed[p]
<1>1. /\ queue[p] # <<>> /\ queue' = [queue EXCEPT ![p] = Tail(queue[p])]
      /\ feed' = [feed EXCEPT ![p] = AppendIncoming(f, m)]
      /\ repeated' = IF ~Holds(f, m.seq) /\ Repeats(f, m) THEN [repeated EXCEPT ![p] = repeated[p] \cup {m}]
                     ELSE repeated
  BY DEF Render
<1>2. m \in Issued /\ Tail(queue[p]) \in Seq(Issued)
  BY <1>1, CursorMoves
<1>3. m # Other
  BY <1>2 DEF Issued, Other
<1>4. f \in Seq(Issued \cup {Other}) /\ feed \in [Phone -> Seq(Issued \cup {Other})]
      /\ repeated \in [Phone -> SUBSET Issued] /\ queue \in [Phone -> Seq(Issued)]
  BY DEF Paged
<1> HIDE DEF m, f
<1>5. CASE Holds(f, m.seq)
  <2>1. feed' = feed /\ repeated' = repeated
    BY <1>1, <1>4, <1>5 DEF AppendIncoming, f
  <2> QED BY <1>1, <1>2, <1>3, <1>4, <1>5, <2>1 DEF Holds, m, f
<1>6. CASE ~Holds(f, m.seq) /\ Repeats(f, m)
  <2>1. feed' = feed /\ repeated' = [repeated EXCEPT ![p] = repeated[p] \cup {m}]
    BY <1>1, <1>4, <1>6 DEF AppendIncoming, f
  <2>2. Last(f) \in ToSet(f) \ {Other} /\ Says[Last(f)] = Says[m]
    BY <1>4, <1>6, ToSetMembers DEF Repeats
  <2>3. repeated' \in [Phone -> SUBSET Issued] /\ repeated'[p] = repeated[p] \cup {m}
    BY <1>2, <1>4, <2>1
  <2> QED BY <1>1, <1>2, <1>3, <1>4, <2>1, <2>2, <2>3 DEF m, f
<1>7. CASE ~Holds(f, m.seq) /\ ~Repeats(f, m)
  <2>1. feed' = [feed EXCEPT ![p] = Append(f, m)] /\ repeated' = repeated
    BY <1>1, <1>7 DEF AppendIncoming
  <2>2. Append(f, m) \in Seq(Issued \cup {Other}) /\ ToSet(Append(f, m)) = ToSet(f) \cup {m}
    BY <1>2, <1>4, AppendProperties, ToSetAppend
  <2>3. feed' \in [Phone -> Seq(Issued \cup {Other})] /\ feed'[p] = Append(f, m)
    BY <1>4, <2>1, <2>2
  <2>4. \A e \in ToSet(f) : e.seq # m.seq
    BY <1>7 DEF Holds
  <2> QED BY <1>1, <1>2, <1>3, <1>4, <2>1, <2>2, <2>3, <2>4 DEF m, f
<1> QED BY <1>5, <1>6, <1>7

LEMMA OtherEntryEffect ==
  ASSUME Paged, NEW p \in Phone, OtherEntry(p)
  PROVE  /\ feed' \in [Phone -> Seq(Issued \cup {Other})]
         /\ \A q \in Phone : q # p => feed'[q] = feed[q]
         /\ ToSet(feed'[p]) = ToSet(feed[p]) \cup {Other}
<1>1. feed' = [feed EXCEPT ![p] = Append(feed[p], Other)] /\ feed[p] \in Seq(Issued \cup {Other})
  BY DEF OtherEntry, Paged
<1>2. /\ Append(feed[p], Other) \in Seq(Issued \cup {Other})
      /\ ToSet(Append(feed[p], Other)) = ToSet(feed[p]) \cup {Other}
  BY <1>1, AppendProperties, ToSetAppend
<1> QED BY <1>1, <1>2 DEF Paged

(* Whatever a step does to the page, it keeps its types. *)
LEMMA PagedStep == Typed /\ Paged /\ [Next]_vars => Paged'
<1> SUFFICES ASSUME Typed, Paged, [Next]_vars PROVE Paged'
  OBVIOUS
<1> DEFINE Fine == /\ queue' \in [Phone -> Seq(Issued)]
                   /\ feed' \in [Phone -> Seq(Issued \cup {Other})]
                   /\ repeated' \in [Phone -> SUBSET Issued]
<1>1. ASSUME UNCHANGED <<queue, feed, repeated>> PROVE Fine
  BY <1>1 DEF Paged
<1>2. ASSUME NEW p \in Phone, Receive(p) PROVE Fine
  <2> DEFINE m == Head(net[conn[p]])
  <2>1. conn[p] \in Conn /\ net[conn[p]] # <<>>
    BY <1>2 DEF Receive, Typed
  <2>2. m \in Packet(nextSeq - 1)
    BY <2>1, HeadTailProperties DEF Typed
  <2>3. /\ UNCHANGED <<feed, repeated>>
        /\ queue' = queue \/ (m # KeyReply /\ queue' = [queue EXCEPT ![p] = Append(queue[p], Message(m.seq))])
    BY <1>2 DEF Receive
  <2> HIDE DEF m
  <2>4. m # KeyReply => Message(m.seq) \in Issued
    BY <2>2 DEF Packet, Message, Issued, Typed
  <2>5. m # KeyReply => Append(queue[p], Message(m.seq)) \in Seq(Issued)
    BY <2>4, AppendProperties DEF Paged
  <2> QED BY <2>3, <2>5 DEF Paged
<1>3. ASSUME NEW p \in Phone, Render(p) PROVE Fine
  BY <1>3, RenderEffect DEF Paged
<1>4. ASSUME NEW p \in Phone, OtherEntry(p) PROVE Fine
  BY <1>4, OtherEntryEffect DEF OtherEntry, Paged
<1>5. Fine
  BY <1>1, <1>2, <1>3, <1>4 DEF Next, vars, phoneVars, Connect, SendResume, Drop, Publish, BroadcastStep,
         HandleKeyExchange, HandleResume, ReplayStep, Disconnect, Restart, Paged
<1>6. Issued \subseteq Issued' /\ Other' = Other
  BY IssuedGrows DEF Other
<1>7. Seq(Issued) \subseteq Seq(Issued') /\ Seq(Issued \cup {Other}) \subseteq Seq(Issued' \cup {Other})
  BY <1>6, SeqMonotonic
<1> HIDE DEF Fine
<1>8. /\ queue' \in [Phone -> Seq(Issued')]
      /\ feed' \in [Phone -> Seq(Issued' \cup {Other})]
      /\ repeated' \in [Phone -> SUBSET Issued']
  BY <1>5, <1>6, <1>7 DEF Fine
<1> QED BY <1>6, <1>8 DEF Paged
-----------------------------------------------------------------------------
(* Sockets and the key exchange *)

LEMMA OwnedStep == Typed /\ Owned /\ [Next]_vars => Owned'
<1> SUFFICES ASSUME Typed, Owned, [Next]_vars PROVE Owned'
  OBVIOUS
<1>1. ASSUME NEW p \in Phone, NEW c \in Conn, Connect(p, c) PROVE Owned'
  <2>1. \A q \in Phone : q # p => conn'[q] = conn[q] /\ conn'[q] # c
    BY <1>1, DeliveryAssumption DEF Connect, Typed
  <2>2. conn'[p] = c /\ conn[p] = None
    BY <1>1 DEF Connect, Typed
  <2>3. \A d \in Conn : request'[d] # None => d = c \/ request[d] # None
    BY <1>1 DEF Connect, Typed
  <2>4. \A d \in Conn : Alive(d) => Alive(d)'
    BY <2>1, <2>2, DeliveryAssumption DEF Alive
  <2>5. Alive(c)'
    BY <2>2 DEF Alive
  <2> QED BY <1>1, <2>1, <2>2, <2>3, <2>4, <2>5 DEF Connect, Owned
<1>2. ASSUME NEW p \in Phone, SendResume(p) PROVE Owned'
  <2>1. UNCHANGED <<job, conn>> /\ \A d \in Conn : request'[d] # None => d = conn[p] \/ request[d] # None
    BY <1>2 DEF SendResume, Typed
  <2> QED BY <2>1 DEF Owned, Alive
<1>3. ASSUME NEW p \in Phone, Receive(p) PROVE Owned'
  BY <1>3 DEF Receive, Owned, Alive
<1>4. ASSUME NEW p \in Phone, Render(p) PROVE Owned'
  BY <1>4 DEF Render, Owned, Alive
<1>4a. ASSUME NEW p \in Phone, OtherEntry(p) PROVE Owned'
  BY <1>4a DEF OtherEntry, Owned, Alive
<1>5. ASSUME NEW p \in Phone, Drop(p) PROVE Owned'
  <2>1. /\ conn'[p] = None /\ \A q \in Phone : q # p => conn'[q] = conn[q]
        /\ request'[conn[p]] = None /\ conn[p] \in Conn
        /\ \A d \in Conn : d # conn[p] => request'[d] = request[d]
    BY <1>5 DEF Drop, Typed
  <2>2. ASSUME NEW d \in Conn, request'[d] # None PROVE Alive(d)'
    <3>1. d # conn[p] /\ Alive(d)
      BY <2>1, <2>2 DEF Owned
    <3> QED BY <2>1, <3>1 DEF Alive
  <2> QED BY <1>5, <2>1, <2>2 DEF Drop, Owned
<1>6. ASSUME NEW t \in Task, Publish(t) PROVE Owned'
  <2>1. job'[t] = Remaining(nextSeq, room) /\ \A u \in Task : u # t => job'[u] = job[u]
    BY <1>6 DEF Publish, Typed
  <2>2. Remaining(nextSeq, room) = Idle \/ (Remaining(nextSeq, room).seq # 0 /\ Remaining(nextSeq, room).peers # <<>>)
    <3>1. nextSeq \in 1..nextSeq /\ nextSeq \in Nat /\ room \in Seq(Conn)
      BY SeqMonotonic DEF Typed
    <3> QED BY <3>1, RemainingJob
  <2>3. \A u \in Task : job'[u] = Idle \/ (job'[u].seq # 0 /\ job'[u].peers # <<>>)
    BY <2>1, <2>2 DEF Owned
  <2> QED BY <1>6, <2>3 DEF Publish, Owned, Alive, phoneVars
<1>7. ASSUME NEW t \in Task, BroadcastStep(t) PROVE Owned'
  <2>1. \A u \in Task : job'[u] = Idle \/ (job'[u].seq # 0 /\ job'[u].peers # <<>>)
    BY <1>7, BroadcastJob DEF Owned
  <2> QED BY <1>7, <2>1 DEF BroadcastStep, Owned, Alive, phoneVars
<1>8. ASSUME NEW c \in Conn, HandleKeyExchange(c) PROVE Owned'
  BY <1>8 DEF HandleKeyExchange, Owned, Alive, Typed, phoneVars
<1>9. ASSUME NEW c \in Conn, HandleResume(c) PROVE Owned'
  BY <1>9 DEF HandleResume, Owned, Alive, Typed, phoneVars
<1>10. ASSUME NEW c \in Conn, ReplayStep(c) PROVE Owned'
  BY <1>10 DEF ReplayStep, Owned, Alive, phoneVars
<1>11. ASSUME NEW c \in Conn, Disconnect(c) PROVE Owned'
  BY <1>11 DEF Disconnect, Owned, Alive, phoneVars
<1>12. CASE Restart
  BY <1>12 DEF Restart, Owned, Idle
<1>13. CASE UNCHANGED vars
  BY <1>13 DEF vars, Owned, Alive
<1> QED BY <1>1, <1>2, <1>3, <1>4, <1>4a, <1>5, <1>6, <1>7, <1>8, <1>9, <1>10, <1>11, <1>12, <1>13 DEF Next

(* At most one key reply is on its way to a socket. *)
One(s) == \A i, j \in 1..Len(s) : s[i] = KeyReply /\ s[j] = KeyReply => i = j

(* The phone of an open socket is registered; before its resume it is owed  *)
(* nothing; the key comes before the resume and only once.                  *)
Shaken(p, c) ==
  /\ Registered(c)
  /\ request[c] = Key => link[p] = "open" /\ c \notin secrets /\ ~Contains(net[c], KeyReply)
  /\ Contains(net[c], KeyReply) => link[p] = "open" /\ c \in secrets /\ request[c] = None
  /\ One(net[c])
  /\ request[c] \in Nat => link[p] = "ready"
  /\ request[c] # None \/ link[p] # "ready" => replay[c] = <<>>
  /\ link[p] # "ready" => owed[c] = {}
  /\ c \in used

Handshake == \A p \in Phone, c \in Conn : conn[p] = c => Shaken(p, c)

(* Nothing is on its way on a socket that is not open. *)
Quiet == \A c \in Conn :
  ~Alive(c) => owed[c] = {} /\ net[c] = <<>> /\ (c \notin used => replay[c] = <<>>)

LEMMA OneAppend ==
  ASSUME NEW S, NEW s \in Seq(S), NEW x \in S, One(s), x # KeyReply \/ ~Contains(s, KeyReply)
  PROVE  One(Append(s, x))
<1>1. /\ Len(s) \in Nat /\ Len(Append(s, x)) = Len(s) + 1
      /\ Append(s, x)[Len(s) + 1] = x /\ \A i \in 1..Len(s) : Append(s, x)[i] = s[i]
  BY AppendProperties, LenProperties
<1>2. \A k \in 1..(Len(s) + 1) : k = Len(s) + 1 \/ k \in 1..Len(s)
  BY <1>1
<1>3. x # KeyReply \/ \A i \in 1..Len(s) : s[i] # KeyReply
  BY DEF Contains
<1> QED BY <1>1, <1>2, <1>3 DEF One

LEMMA OneTail ==
  ASSUME NEW S, NEW s \in Seq(S), s # <<>>, One(s)
  PROVE  One(Tail(s)) /\ (Head(s) = KeyReply => ~Contains(Tail(s), KeyReply))
<1>1. /\ Len(s) \in Nat /\ Len(s) > 0 /\ Len(Tail(s)) = Len(s) - 1
      /\ Head(s) = s[1] /\ \A i \in 1..Len(Tail(s)) : Tail(s)[i] = s[i + 1]
  BY HeadTailProperties, LenProperties, EmptySeq
<1>2. \A i \in 1..Len(Tail(s)) : i + 1 \in 1..Len(s) /\ i + 1 # 1 /\ 1 \in 1..Len(s)
  BY <1>1
<1>3. \A i, j \in 1..Len(Tail(s)) : i + 1 = j + 1 => i = j
  BY <1>1
<1>4. One(Tail(s))
  BY <1>1, <1>2, <1>3 DEF One
<1>5. Head(s) = KeyReply => ~Contains(Tail(s), KeyReply)
  BY <1>1, <1>2 DEF One, Contains
<1> QED BY <1>4, <1>5

(* A numbered message added to a socket leaves its key replies as they are. *)
LEMMA AppendSealed ==
  ASSUME Typed, NEW c \in Conn, NEW s \in 1..(nextSeq - 1)
  PROVE  /\ Contains(Append(net[c], Sealed(c, s)), KeyReply) <=> Contains(net[c], KeyReply)
         /\ One(net[c]) => One(Append(net[c], Sealed(c, s)))
         /\ Contains(Append(net[c], Sealed(c, s)), Sealed(c, s))
         /\ \A m : Contains(net[c], m) => Contains(Append(net[c], Sealed(c, s)), m)
<1>1. Sealed(c, s) \in Packet(nextSeq - 1) /\ net[c] \in Seq(Packet(nextSeq - 1))
  BY DEF Sealed, Packet, Typed
<1>2. Sealed(c, s).seq = s /\ KeyReply.seq = 0 /\ s # 0
  BY DEF Sealed, KeyReply, Typed
<1>3. Sealed(c, s) # KeyReply
  BY <1>2
<1> QED BY <1>1, <1>3, ContainsAppend, OneAppend

(* A send touches only the socket it goes to, and an open socket stays      *)
(* registered and keeps its secret.                                         *)
LEMMA DeliverEffect ==
  ASSUME Typed, NEW c \in Conn, NEW s \in 1..(nextSeq - 1), Deliver(c, s)
  PROVE  /\ \A d \in Conn : Alive(d) /\ Registered(d) => Registered(d)'
         /\ \A d \in Conn : Alive(d) => (d \in secrets' <=> d \in secrets)
         /\ \A d \in Conn : d # c \/ ~Alive(c) => net'[d] = net[d]
         /\ Alive(c) => net'[c] = Append(net[c], Sealed(c, s))
<1>1. CASE Alive(c)
  BY <1>1 DEF Deliver, Registered, Typed
<1>2. CASE ~Alive(c)
  <2>1. /\ net' = net
        /\ \/ UNCHANGED <<room, secrets>>
           \/ room' = RemoveFirst(room, c) /\ secrets' = secrets \ {c}
    BY <1>2 DEF Deliver, Unregister
  <2>2. \A d : Contains(room, d) /\ d # c => Contains(RemoveFirst(room, c), d)
    BY RemoveFirstKeeps DEF Typed
  <2> QED BY <1>2, <2>1, <2>2 DEF Registered
<1> QED BY <1>1, <1>2

(* A phone whose own socket a step does not touch. *)
LEMMA ShakenFrame ==
  ASSUME NEW q \in Phone, NEW d \in Conn, Shaken(q, d), Registered(d)',
         UNCHANGED <<request[d], net[d], link[q], replay[d], owed[d]>>,
         d \in secrets' <=> d \in secrets, used \subseteq used'
  PROVE  Shaken(q, d)'
BY DEF Shaken

LEMMA HandshakeStep ==
  Typed /\ Typed' /\ Owned /\ Handshake /\ Quiet /\ [Next]_vars => Handshake'
<1> SUFFICES ASSUME Typed, Typed', Owned, Handshake, Quiet, [Next]_vars,
                    NEW q \in Phone, NEW d \in Conn, conn'[q] = d
             PROVE  Shaken(q, d)'
  BY DEF Handshake
<1> USE DEF Registered
<1>0. conn[q] = d => Shaken(q, d) /\ Alive(d) /\ Contains(room, d)
  BY DEF Handshake, Alive, Shaken
<1>1. ASSUME NEW p \in Phone, NEW c \in Conn, Connect(p, c) PROVE Shaken(q, d)'
  <2>1. \A e : Contains(room', e) <=> Contains(room, e) \/ e = c
    <3>1. room \in Seq(used \cup {c})
      BY SeqMonotonic DEF Typed
    <3> QED BY <1>1, <3>1, ContainsAppend DEF Connect
  <2>2. CASE q = p
    <3>1. d = c /\ c \notin used /\ link'[p] = "open" /\ request'[c] \in {request[c], Key}
      BY <1>1, <2>2 DEF Connect, Typed
    <3>2. ~Alive(c)
      BY <3>1, DeliveryAssumption DEF Alive, Typed
    <3>3. owed[c] = {} /\ net[c] = <<>> /\ replay[c] = <<>> /\ request[c] = None
      BY <3>1, <3>2 DEF Quiet, Owned
    <3>4. UNCHANGED <<owed, net, replay, secrets>> /\ c \notin secrets /\ c \in used'
      BY <1>1, <3>1 DEF Connect, Typed
    <3>5. One(net'[c]) /\ ~Contains(net'[c], KeyReply)
      <4>1. Len(<<>>) = 0 /\ net'[c] = <<>>
        BY <3>3, <3>4
      <4> QED BY <4>1, ContainsEmpty DEF One
    <3>6. request'[c] \notin Nat /\ (request'[c] = Key \/ request'[c] = None)
      BY <3>1, <3>3, DeliveryAssumption
    <3> QED BY <2>1, <2>2, <3>1, <3>3, <3>4, <3>5, <3>6 DEF Shaken
  <2>3. CASE q # p
    <3>1. conn[q] = d /\ d \in used /\ d # c
      BY <1>1, <2>3, DeliveryAssumption DEF Connect, Typed
    <3>2. UNCHANGED <<request[d], net[d], link[q], replay[d], owed[d]>> /\ UNCHANGED secrets /\ used \subseteq used'
      BY <1>1, <2>3, <3>1 DEF Connect, Typed
    <3> QED BY <1>0, <2>1, <3>1, <3>2, ShakenFrame
  <2> QED BY <2>2, <2>3
<1>2. ASSUME NEW p \in Phone, SendResume(p) PROVE Shaken(q, d)'
  <2>0. conn[q] = d
    BY <1>2 DEF SendResume
  <2>1. CASE q = p
    <3>1. /\ UNCHANGED <<room, secrets, net, replay, owed, used>>
          /\ link'[q] = "ready" /\ request'[d] = lastSeqId[q] /\ lastSeqId[q] \in Nat
          /\ link[q] = "deriving" \/ (link[q] = "open" /\ d \notin secrets /\ request[d] = None)
      BY <1>2, <2>0, <2>1 DEF SendResume, Typed
    <3>2. ~Contains(net[d], KeyReply) /\ replay[d] = <<>> /\ request'[d] # Key /\ request'[d] # None
      BY <1>0, <2>0, <3>1, DeliveryAssumption DEF Shaken
    <3> QED BY <1>0, <2>0, <3>1, <3>2 DEF Shaken
  <2>2. CASE q # p
    <3>1. d # conn[p]
      BY <1>2, <2>0, <2>2 DEF Owned, SendResume
    <3>2. UNCHANGED <<request[d], net[d], link[q], replay[d], owed[d]>> /\ UNCHANGED <<secrets, used, room>>
      BY <1>2, <2>2, <3>1 DEF SendResume, Typed
    <3> QED BY <1>0, <2>0, <3>2, ShakenFrame
  <2> QED BY <2>1, <2>2
<1>3. ASSUME NEW p \in Phone, Receive(p) PROVE Shaken(q, d)'
  <2>0. conn[q] = d /\ conn[p] \in Conn /\ UNCHANGED <<room, secrets, used, request, replay, owed>>
    BY <1>3 DEF Receive, Typed
  <2>1. CASE q = p
    <3> DEFINE m == Head(net[d])
    <3>1. /\ net[d] # <<>> /\ net'[d] = Tail(net[d])
          /\ m = KeyReply => link'[q] = "deriving"
          /\ m # KeyReply => link'[q] = link[q]
      BY <1>3, <2>0, <2>1 DEF Receive, Typed
    <3>2. /\ One(Tail(net[d]))
          /\ m = KeyReply => ~Contains(Tail(net[d]), KeyReply)
          /\ Contains(Tail(net[d]), KeyReply) => Contains(net[d], KeyReply)
          /\ m = KeyReply => Contains(net[d], KeyReply)
      <4>1. net[d] \in Seq(Packet(nextSeq - 1)) /\ One(net[d])
        BY <1>0, <2>0 DEF Shaken, Typed
      <4>2. One(Tail(net[d])) /\ (m = KeyReply => ~Contains(Tail(net[d]), KeyReply))
        BY <3>1, <4>1, OneTail
      <4>3. Contains(net[d], KeyReply) <=> KeyReply = m \/ Contains(Tail(net[d]), KeyReply)
        BY <3>1, <4>1, ContainsTail
      <4> QED BY <4>2, <4>3
    <3> HIDE DEF m
    <3>3. CASE m = KeyReply
      BY <1>0, <2>0, <3>1, <3>2, <3>3, DeliveryAssumption DEF Shaken
    <3>4. CASE m # KeyReply
      BY <1>0, <2>0, <3>1, <3>2, <3>4 DEF Shaken
    <3> QED BY <3>3, <3>4
  <2>2. CASE q # p
    <3>1. d # conn[p]
      BY <2>0, <2>2 DEF Owned
    <3>2. UNCHANGED <<net[d], link[q]>>
      BY <1>3, <2>2, <3>1 DEF Receive, Typed
    <3> QED BY <1>0, <2>0, <3>2, ShakenFrame
  <2> QED BY <2>1, <2>2
<1>4. ASSUME NEW p \in Phone, Render(p) PROVE Shaken(q, d)'
  BY <1>0, <1>4 DEF Render, Shaken
<1>4a. ASSUME NEW p \in Phone, OtherEntry(p) PROVE Shaken(q, d)'
  BY <1>0, <1>4a DEF OtherEntry, Shaken
<1>5. ASSUME NEW p \in Phone, Drop(p) PROVE Shaken(q, d)'
  <2>1. q # p /\ conn[q] = d
    BY <1>5, DeliveryAssumption DEF Drop, Typed
  <2>2. d # conn[p]
    BY <2>1 DEF Owned
  <2>3. UNCHANGED <<request[d], net[d], link[q], replay[d], owed[d]>> /\ UNCHANGED <<secrets, used, room>>
    BY <1>5, <2>1, <2>2 DEF Drop, Typed
  <2> QED BY <1>0, <2>1, <2>3, ShakenFrame
<1>6. ASSUME NEW t \in Task, Publish(t) PROVE Shaken(q, d)'
  <2>1. /\ conn[q] = d /\ UNCHANGED <<room, replay, net, request, secrets, link, used>>
        /\ owed'[d] = owed[d] \/ Ready(d)
    BY <1>6 DEF Publish, Typed, phoneVars
  <2>2. Ready(d) => link[q] = "ready"
    BY <2>1 DEF Ready, Owned
  <2> QED BY <1>0, <2>1, <2>2 DEF Shaken
<1>7. ASSUME NEW t \in Task, BroadcastStep(t) PROVE Shaken(q, d)'
  <2>1. conn[q] = d /\ UNCHANGED <<replay, request, link, used, owed>>
    BY <1>7 DEF BroadcastStep, phoneVars
  <2> DEFINE c == Head(job[t].peers)
             s == job[t].seq
  <2>2. c \in Conn /\ s \in 1..(nextSeq - 1) /\ Deliver(c, s)
    BY <1>7, BroadcastJob
  <2> HIDE DEF c, s
  <2>3. /\ Registered(d)' /\ (d \in secrets' <=> d \in secrets)
        /\ net'[d] = net[d] \/ net'[d] = Append(net[d], Sealed(d, s))
    BY <1>0, <2>1, <2>2, DeliverEffect
  <2>4. /\ Contains(net'[d], KeyReply) <=> Contains(net[d], KeyReply)
        /\ One(net[d]) => One(net'[d])
    BY <2>2, <2>3, AppendSealed
  <2> QED BY <1>0, <2>1, <2>3, <2>4 DEF Shaken
<1>8. ASSUME NEW c \in Conn, HandleKeyExchange(c) PROVE Shaken(q, d)'
  <2>1. conn[q] = d /\ UNCHANGED <<room, replay, link, used, owed>>
    BY <1>8 DEF HandleKeyExchange, phoneVars
  <2>2. CASE d = c
    <3>1. /\ request[c] = Key /\ request'[c] = None /\ c \in secrets'
          /\ net'[c] = Append(net[c], KeyReply)
      BY <1>8 DEF HandleKeyExchange, Typed
    <3>2. KeyReply \in Packet(nextSeq - 1) /\ net[c] \in Seq(Packet(nextSeq - 1))
      BY DEF Packet, Typed
    <3>3. ~Contains(net[c], KeyReply) /\ One(net[c]) /\ link[q] = "open"
      BY <1>0, <2>1, <2>2, <3>1 DEF Shaken
    <3>4. One(net'[c])
      BY <3>1, <3>2, <3>3, OneAppend
    <3> QED BY <1>0, <2>1, <2>2, <3>1, <3>3, <3>4, DeliveryAssumption DEF Shaken
  <2>3. CASE d # c
    <3>1. UNCHANGED <<request[d], net[d]>> /\ (d \in secrets' <=> d \in secrets)
      BY <1>8, <2>3 DEF HandleKeyExchange, Typed
    <3> QED BY <1>0, <2>1, <3>1, ShakenFrame
  <2> QED BY <2>2, <2>3
<1>9. ASSUME NEW c \in Conn, HandleResume(c) PROVE Shaken(q, d)'
  <2>1. conn[q] = d /\ UNCHANGED <<room, net, secrets, link, used>>
    BY <1>9 DEF HandleResume, phoneVars
  <2>2. CASE d = c
    <3>1. request[c] \in Nat /\ request'[c] = None
      BY <1>9 DEF HandleResume, Typed
    <3>2. link[q] = "ready"
      BY <1>0, <2>1, <2>2, <3>1 DEF Shaken
    <3> QED BY <1>0, <2>1, <2>2, <3>1, <3>2, DeliveryAssumption DEF Shaken
  <2>3. CASE d # c
    <3>1. UNCHANGED <<request[d], replay[d], owed[d]>>
      BY <1>9, <2>3 DEF HandleResume, Typed
    <3> QED BY <1>0, <2>1, <3>1, ShakenFrame
  <2> QED BY <2>2, <2>3
<1>10. ASSUME NEW c \in Conn, ReplayStep(c) PROVE Shaken(q, d)'
  <2>1. conn[q] = d /\ UNCHANGED <<room, request, secrets, link, used, owed>>
    BY <1>10 DEF ReplayStep, phoneVars
  <2>2. CASE d = c
    <3> DEFINE s == Head(replay[c])
    <3>1. s \in 1..(nextSeq - 1)
      BY <1>10, HeadTailProperties DEF ReplayStep, Typed
    <3>2. replay[c] # <<>> /\ net'[c] = Append(net[c], Sealed(c, s))
      BY <1>10 DEF ReplayStep, Typed
    <3> HIDE DEF s
    <3>3. /\ Contains(net'[d], KeyReply) <=> Contains(net[d], KeyReply)
          /\ One(net[d]) => One(net'[d])
      BY <2>2, <3>1, <3>2, AppendSealed
    <3> QED BY <1>0, <2>1, <2>2, <3>2, <3>3 DEF Shaken
  <2>3. CASE d # c
    <3>1. UNCHANGED <<net[d], replay[d]>>
      BY <1>10, <2>3 DEF ReplayStep, Typed
    <3> QED BY <1>0, <2>1, <3>1, ShakenFrame
  <2> QED BY <2>2, <2>3
<1>11. ASSUME NEW c \in Conn, Disconnect(c) PROVE Shaken(q, d)'
  <2>1. conn[q] = d /\ UNCHANGED <<net, request, link, used, owed>>
    BY <1>11 DEF Disconnect, phoneVars
  <2>2. d # c
    BY <1>11, <2>1 DEF Disconnect, Alive
  <2>3. Contains(RemoveFirst(room, c), d)
    BY <1>0, <2>1, <2>2, RemoveFirstKeeps DEF Typed
  <2>4. Contains(room', d) /\ UNCHANGED replay[d] /\ (d \in secrets' <=> d \in secrets)
    BY <1>11, <2>2, <2>3 DEF Disconnect, Unregister, Typed
  <2> QED BY <1>0, <2>1, <2>4, ShakenFrame
<1>12. CASE Restart
  BY <1>12, DeliveryAssumption DEF Restart
<1>13. CASE UNCHANGED vars
  BY <1>0, <1>13 DEF vars, Shaken
<1> QED BY <1>1, <1>2, <1>3, <1>4, <1>4a, <1>5, <1>6, <1>7, <1>8, <1>9, <1>10, <1>11, <1>12, <1>13 DEF Next

LEMMA QuietStep == Typed /\ Owned /\ Quiet /\ [Next]_vars => Quiet'
<1> SUFFICES ASSUME Typed, Owned, Quiet, [Next]_vars, NEW d \in Conn, ~Alive(d)'
             PROVE  owed'[d] = {} /\ net'[d] = <<>> /\ (d \notin used' => replay'[d] = <<>>)
  BY DEF Quiet
<1> DEFINE Goal == owed'[d] = {} /\ net'[d] = <<>> /\ (d \notin used' => replay'[d] = <<>>)
<1>0. ~Alive(d) => owed[d] = {} /\ net[d] = <<>> /\ (d \notin used => replay[d] = <<>>)
  BY DEF Quiet
<1>a. UNCHANGED conn => ~Alive(d)
  BY DEF Alive
<1>1. ASSUME NEW p \in Phone, NEW c \in Conn, Connect(p, c) PROVE Goal
  <2>1. ~Alive(d)
    BY <1>1, DeliveryAssumption DEF Connect, Alive, Typed
  <2> QED BY <1>0, <1>1, <2>1 DEF Connect
<1>2. ASSUME NEW p \in Phone, SendResume(p) PROVE Goal
  BY <1>0, <1>a, <1>2 DEF SendResume
<1>3. ASSUME NEW p \in Phone, Receive(p) PROVE Goal
  <2>1. ~Alive(d) /\ d # conn[p] /\ UNCHANGED <<owed, used, replay>>
    BY <1>a, <1>3 DEF Receive, Alive
  <2>2. net'[d] = net[d]
    BY <1>3, <2>1 DEF Receive, Typed
  <2> QED BY <1>0, <2>1, <2>2
<1>4. ASSUME NEW p \in Phone, Render(p) PROVE Goal
  BY <1>0, <1>a, <1>4 DEF Render
<1>4a. ASSUME NEW p \in Phone, OtherEntry(p) PROVE Goal
  BY <1>0, <1>a, <1>4a DEF OtherEntry
<1>5. ASSUME NEW p \in Phone, Drop(p) PROVE Goal
  <2>1. CASE d = conn[p]
    BY <1>5, <2>1 DEF Drop, Typed
  <2>2. CASE d # conn[p]
    <3>1. ~Alive(d)
      BY <1>5, <2>2 DEF Drop, Alive, Typed
    <3> QED BY <1>0, <1>5, <2>2, <3>1 DEF Drop, Typed
  <2> QED BY <2>1, <2>2
<1>6. ASSUME NEW t \in Task, Publish(t) PROVE Goal
  <2>1. ~Alive(d) /\ ~Ready(d) /\ UNCHANGED <<net, used, replay>>
    BY <1>a, <1>6 DEF Publish, phoneVars, Ready, Alive
  <2> QED BY <1>0, <1>6, <2>1 DEF Publish, Typed
<1>7. ASSUME NEW t \in Task, BroadcastStep(t) PROVE Goal
  <2>1. ~Alive(d) /\ UNCHANGED <<owed, used, replay>>
    BY <1>a, <1>7 DEF BroadcastStep, phoneVars
  <2>2. /\ Head(job[t].peers) \in Conn /\ job[t].seq \in 1..(nextSeq - 1)
        /\ Deliver(Head(job[t].peers), job[t].seq)
    BY <1>7, BroadcastJob
  <2>3. net'[d] = net[d]
    BY <2>1, <2>2, DeliverEffect
  <2> QED BY <1>0, <2>1, <2>3
<1>8. ASSUME NEW c \in Conn, HandleKeyExchange(c) PROVE Goal
  <2>1. ~Alive(d) /\ d # c /\ UNCHANGED <<owed, used, replay>>
    BY <1>a, <1>8, DeliveryAssumption DEF HandleKeyExchange, phoneVars, Owned
  <2> QED BY <1>0, <1>8, <2>1 DEF HandleKeyExchange, Typed
<1>9. ASSUME NEW c \in Conn, HandleResume(c) PROVE Goal
  <2>1. ~Alive(d) /\ d # c /\ UNCHANGED <<net, used>>
    BY <1>a, <1>9, DeliveryAssumption DEF HandleResume, phoneVars, Owned
  <2> QED BY <1>0, <1>9, <2>1 DEF HandleResume, Typed
<1>10. ASSUME NEW c \in Conn, ReplayStep(c) PROVE Goal
  <2>1. ~Alive(d) /\ d # c /\ UNCHANGED <<owed, used>>
    BY <1>a, <1>10 DEF ReplayStep, phoneVars
  <2> QED BY <1>0, <1>10, <2>1 DEF ReplayStep, Typed
<1>11. ASSUME NEW c \in Conn, Disconnect(c) PROVE Goal
  <2>1. ~Alive(d) /\ UNCHANGED <<net, owed, used>> /\ c \in used
    BY <1>a, <1>11 DEF Disconnect, phoneVars
  <2>2. d \notin used => replay'[d] = replay[d]
    BY <1>11, <2>1 DEF Disconnect, Typed
  <2> QED BY <1>0, <2>1, <2>2
<1>12. CASE Restart
  BY <1>12 DEF Restart
<1>13. CASE UNCHANGED vars
  BY <1>0, <1>a, <1>13 DEF vars
<1> QED BY <1>1, <1>2, <1>3, <1>4, <1>4a, <1>5, <1>6, <1>7, <1>8, <1>9, <1>10, <1>11, <1>12, <1>13 DEF Next
-----------------------------------------------------------------------------
(* An open socket loses nothing *)

(* Message s has come to phone q: it waits for its updater or is settled. *)
Given(q, s) == Contains(queue[q], Message(s)) \/ Settled(q, Message(s))

Lossless == \A q \in Phone, d \in Conn :
  conn[q] = d => \A s \in owed[d] : Given(q, s) \/ Pending(d, s)

LEMMA LosslessMeans == Typed => (Lossless <=> OpenSocketLosesNothing)
BY DeliveryAssumption DEF Typed, Lossless, OpenSocketLosesNothing, Given

(* A page forgets nothing. *)
LEMMA PageGrows ==
  ASSUME Typed, Paged, [Next]_vars, NEW q \in Phone
  PROVE  ToSet(feed[q]) \subseteq ToSet(feed'[q]) /\ repeated[q] \subseteq repeated'[q]
<1>1. CASE UNCHANGED <<feed, repeated>>
  BY <1>1
<1>2. ASSUME NEW p \in Phone, Render(p) PROVE ToSet(feed[q]) \subseteq ToSet(feed'[q]) /\ repeated[q] \subseteq repeated'[q]
  BY <1>2, RenderEffect
<1>3. ASSUME NEW p \in Phone, OtherEntry(p) PROVE ToSet(feed[q]) \subseteq ToSet(feed'[q]) /\ repeated[q] \subseteq repeated'[q]
  BY <1>3, OtherEntryEffect DEF OtherEntry
<1> QED BY <1>1, <1>2, <1>3 DEF Next, vars, phoneVars, Connect, SendResume, Receive, Drop, Publish,
              BroadcastStep, HandleKeyExchange, HandleResume, ReplayStep, Disconnect, Restart

(* When the updater of a message of this life has run, the page is done with it. *)
LEMMA RenderSettles ==
  ASSUME Typed, Paged, NEW p \in Phone, Render(p), NEW m, m = Head(queue[p]), m.life = restarts
  PROVE  Settled(p, m)'
<1>1. /\ m \in Issued
      /\ \/ (\E e \in ToSet(feed[p]) : e.seq = m.seq) /\ UNCHANGED feed
         \/ m \in ToSet(feed'[p]) \cup repeated'[p]
  BY RenderEffect
<1>2. ToSet(feed[p]) \subseteq Issued \cup {Other}
  <2>1. feed[p] \in Seq(Issued \cup {Other})
    BY DEF Paged
  <2> QED BY <2>1, ToSetMembers
<1>3. ASSUME NEW e \in ToSet(feed[p]), e.seq = m.seq PROVE e = m \/ e.life < m.life
  <2>1. e \in Issued
    BY <1>1, <1>2, <1>3 DEF Other, Issued
  <2>2. /\ e = [life |-> e.life, seq |-> e.seq] /\ m = [life |-> m.life, seq |-> m.seq]
        /\ e.life \in 0..restarts /\ restarts \in Nat
    BY <1>1, <2>1 DEF Issued, Typed
  <2>3. e.life = m.life => e = m
    BY <1>3, <2>2
  <2> QED BY <2>2, <2>3
<1>4. \/ m \in ToSet(feed'[p]) \cup repeated'[p]
      \/ \E e \in ToSet(feed'[p]) : e.seq = m.seq /\ e.life < m.life
  BY <1>1, <1>3
<1> QED BY <1>4 DEF Settled

LEMMA GivenFrame ==
  ASSUME NEW q, NEW s, Given(q, s), UNCHANGED <<queue[q], feed[q], repeated[q], restarts>>
  PROVE  Given(q, s)'
BY DEF Given, Settled, Message

LEMMA GivenRender ==
  ASSUME Typed, Paged, NEW p \in Phone, Render(p), NEW q \in Phone, NEW s \in Nat, Given(q, s)
  PROVE  Given(q, s)'
<1>1. CASE q # p
  <2>1. UNCHANGED <<queue[q], feed[q], repeated[q], restarts>>
    BY <1>1, RenderEffect DEF Render
  <2> QED BY <2>1, GivenFrame
<1>2. CASE q = p
  <2>1. Message(s)' = Message(s)
    BY DEF Render, Message
  <2>2. [Next]_vars
    BY DEF Next
  <2>3. /\ queue[p] # <<>> /\ queue[p] \in Seq(Issued) /\ queue'[p] = Tail(queue[p])
        /\ ToSet(feed[p]) \subseteq ToSet(feed'[p]) /\ repeated[p] \subseteq repeated'[p]
    BY <2>2, RenderEffect, PageGrows DEF Paged
  <2>4. CASE Settled(p, Message(s))
    BY <1>2, <2>1, <2>3, <2>4 DEF Settled, Given
  <2>5. CASE Contains(Tail(queue[p]), Message(s))
    BY <1>2, <2>1, <2>3, <2>5 DEF Given
  <2>6. CASE Head(queue[p]) = Message(s)
    <3>1. PICK m : m = Message(s)
      OBVIOUS
    <3>2. m.life = restarts
      BY <3>1 DEF Message
    <3>3. Settled(p, m)'
      BY <2>6, <3>1, <3>2, RenderSettles
    <3> QED BY <1>2, <2>1, <3>1, <3>3 DEF Settled, Given
  <2>7. Contains(queue[p], Message(s)) => Head(queue[p]) = Message(s) \/ Contains(Tail(queue[p]), Message(s))
    BY <2>3, ContainsTail
  <2> QED BY <1>2, <2>4, <2>5, <2>6, <2>7 DEF Given
<1> QED BY <1>1, <1>2

LEMMA GivenOther ==
  ASSUME Paged, NEW p \in Phone, OtherEntry(p), NEW q \in Phone, NEW s \in Nat, Given(q, s)
  PROVE  Given(q, s)'
<1>1. UNCHANGED <<queue, repeated, restarts>> /\ ToSet(feed[q]) \subseteq ToSet(feed'[q])
  BY OtherEntryEffect DEF OtherEntry
<1>2. Message(s)' = Message(s)
  BY <1>1 DEF Message
<1> QED BY <1>1, <1>2 DEF Given, Settled

(* What comes to the page of a phone is given to it. *)
LEMMA GivenReceive ==
  ASSUME Typed, Paged, NEW p \in Phone, Receive(p), NEW q \in Phone, NEW s \in Nat
  PROVE  /\ Given(q, s) => Given(q, s)'
         /\ LET m == Head(net[conn[p]])
            IN m # KeyReply /\ link[p] = "ready" /\ m.seq = s => Given(p, s)'
<1> DEFINE m == Head(net[conn[p]])
<1>1. /\ UNCHANGED <<feed, repeated, restarts>>
      /\ queue' = queue \/ (m # KeyReply /\ queue' = [queue EXCEPT ![p] = Append(queue[p], Message(m.seq))])
      /\ m # KeyReply /\ link[p] = "ready" => queue' = [queue EXCEPT ![p] = Append(queue[p], Message(m.seq))]
  BY DEF Receive
<1>2. /\ queue[p] \in Seq(Issued \cup {Message(m.seq)}) /\ queue \in [Phone -> Seq(Issued)]
      /\ \A e : Contains(Append(queue[p], Message(m.seq)), e) <=> Contains(queue[p], e) \/ e = Message(m.seq)
  <2>1. queue \in [Phone -> Seq(Issued)]
    BY DEF Paged
  <2>2. Seq(Issued) \subseteq Seq(Issued \cup {Message(m.seq)})
    BY SeqMonotonic
  <2>3. queue[p] \in Seq(Issued \cup {Message(m.seq)})
    BY <2>1, <2>2
  <2> HIDE DEF m
  <2>4. \A e : Contains(Append(queue[p], Message(m.seq)), e) <=> Contains(queue[p], e) \/ e = Message(m.seq)
    BY <2>3, ContainsAppend
  <2> QED BY <2>1, <2>3, <2>4
<1> HIDE DEF m
<1>3. Message(s)' = Message(s)
  BY <1>1 DEF Message
<1>4. \A e : Contains(queue[q], e) => Contains(queue'[q], e)
  BY <1>1, <1>2
<1>5. m # KeyReply /\ link[p] = "ready" /\ m.seq = s => Contains(queue'[p], Message(s))
  BY <1>1, <1>2
<1> QED BY <1>1, <1>3, <1>4, <1>5 DEF Given, Settled, m

(* What is on its way to a socket stays so if a step only adds. *)
LEMMA PendingKept ==
  ASSUME NEW d, NEW s, Pending(d, s),
         \A t \in Task : job[t].seq = s /\ Contains(job[t].peers, d)
                           => job'[t].seq = s /\ Contains(job'[t].peers, d),
         Contains(replay[d], s) => Contains(replay'[d], s),
         \A m : Contains(net[d], m) => Contains(net'[d], m),
         d \in secrets' <=> d \in secrets
  PROVE  Pending(d, s)'
<1>1. Sealed(d, s)' = Sealed(d, s)
  BY DEF Sealed
<1> QED BY <1>1 DEF Pending

LEMMA PendingFrame ==
  ASSUME NEW d, NEW s, Pending(d, s), UNCHANGED <<job, replay[d], net[d]>>,
         d \in secrets' <=> d \in secrets
  PROVE  Pending(d, s)'
BY PendingKept

LEMMA LosslessStep ==
  Typed /\ Typed' /\ Paged /\ Owned /\ Handshake /\ Quiet /\ Lossless /\ [Next]_vars => Lossless'
<1> SUFFICES ASSUME Typed, Typed', Paged, Owned, Handshake, Quiet, Lossless, [Next]_vars,
                    NEW q \in Phone, NEW d \in Conn, conn'[q] = d, NEW s \in owed'[d]
             PROVE  Given(q, s)' \/ Pending(d, s)'
  BY DEF Lossless
<1> DEFINE Goal == Given(q, s)' \/ Pending(d, s)'
<1>0. conn[q] = d => /\ Shaken(q, d) /\ Alive(d)
                     /\ s \in owed[d] => Given(q, s) \/ Pending(d, s)
  BY DEF Handshake, Lossless, Alive
<1>b. s \in Nat
  BY DEF Typed
<1>c. UNCHANGED <<queue, feed, repeated, restarts>> => (Given(q, s) => Given(q, s)')
  BY GivenFrame
<1>1. ASSUME NEW p \in Phone, NEW c \in Conn, Connect(p, c) PROVE Goal
  <2>1. UNCHANGED <<job, replay, net, secrets, queue, feed, repeated, restarts, owed>>
    BY <1>1 DEF Connect
  <2>2. q # p
    <3>1. q = p => d = c /\ ~Alive(c)
      BY <1>1, DeliveryAssumption DEF Connect, Alive, Typed
    <3> QED BY <2>1, <3>1 DEF Quiet
  <2>3. conn[q] = d
    BY <1>1, <2>2 DEF Connect, Typed
  <2> QED BY <1>0, <1>c, <2>1, <2>3, PendingFrame
<1>2. ASSUME NEW p \in Phone, SendResume(p) PROVE Goal
  BY <1>0, <1>c, <1>2, PendingFrame DEF SendResume
<1>3. ASSUME NEW p \in Phone, Receive(p) PROVE Goal
  <2>1. conn[q] = d /\ s \in owed[d] /\ conn[p] \in Conn /\ UNCHANGED <<job, replay, secrets>>
    BY <1>3 DEF Receive, Typed
  <2>2. CASE q = p
    <3> DEFINE m == Head(net[d])
    <3>1. link[q] = "ready"
      BY <1>0, <1>c, <2>1 DEF Shaken
    <3>2. net[d] # <<>> /\ net'[d] = Tail(net[d]) /\ net[d] \in Seq(Packet(nextSeq - 1))
      BY <1>3, <2>1, <2>2 DEF Receive, Typed
    <3>3. \A e : Contains(net[d], e) <=> e = m \/ Contains(net'[d], e)
      BY <3>2, ContainsTail
    <3>4. m # KeyReply
      BY <1>0, <1>c, <2>1, <3>1, <3>3 DEF Shaken
    <3>5. (Given(q, s) => Given(q, s)') /\ (m.seq = s => Given(q, s)')
      BY <1>b, <1>3, <2>1, <2>2, <3>1, <3>4, GivenReceive
    <3>6. Sealed(d, s) = m => m.seq = s
      BY DEF Sealed
    <3>7. Sealed(d, s)' = Sealed(d, s)
      BY <2>1 DEF Sealed
    <3> HIDE DEF m
    <3>8. Pending(d, s) => m.seq = s \/ Pending(d, s)'
      BY <2>1, <3>3, <3>6, <3>7 DEF Pending
    <3> QED BY <1>0, <1>c, <2>1, <3>5, <3>8
  <2>3. CASE q # p
    <3>1. d # conn[p]
      BY <2>1, <2>3 DEF Owned
    <3>2. net'[d] = net[d] /\ (Given(q, s) => Given(q, s)')
      BY <1>b, <1>3, <2>3, <3>1, GivenReceive DEF Receive, Typed
    <3> QED BY <1>0, <1>c, <2>1, <3>2, PendingFrame
  <2> QED BY <2>2, <2>3
<1>4. ASSUME NEW p \in Phone, Render(p) PROVE Goal
  BY <1>0, <1>b, <1>4, PendingFrame, GivenRender DEF Render
<1>4a. ASSUME NEW p \in Phone, OtherEntry(p) PROVE Goal
  BY <1>0, <1>b, <1>4a, PendingFrame, GivenOther DEF OtherEntry
<1>5. ASSUME NEW p \in Phone, Drop(p) PROVE Goal
  <2>1. q # p /\ conn[q] = d
    BY <1>5, DeliveryAssumption DEF Drop, Typed
  <2>2. d # conn[p]
    BY <2>1 DEF Owned
  <2>3. UNCHANGED <<job, replay, secrets, queue, feed, repeated, restarts, net[d], owed[d]>>
    BY <1>5, <2>2 DEF Drop, Typed
  <2> QED BY <1>0, <1>c, <2>1, <2>3, PendingFrame
<1>6. ASSUME NEW t \in Task, Publish(t) PROVE Goal
  <2>1. conn[q] = d /\ UNCHANGED <<room, replay, net, secrets, queue, feed, repeated, restarts>>
    BY <1>6 DEF Publish, phoneVars
  <2>2. /\ job[t].peers = <<>> /\ \A u \in Task : u # t => job'[u] = job[u]
        /\ job'[t] = Remaining(nextSeq, room)
    BY <1>6 DEF Publish, Typed, Idle
  <2>3. CASE s \in owed[d]
    <3>1. \A u \in Task : job[u].seq = s /\ Contains(job[u].peers, d)
                            => job'[u].seq = s /\ Contains(job'[u].peers, d)
      BY <2>2, ContainsEmpty
    <3> QED BY <1>0, <1>c, <2>1, <2>3, <3>1, PendingKept
  <2>4. CASE s \notin owed[d]
    <3>1. s = nextSeq
      BY <1>6, <2>4 DEF Publish, Typed
    <3>2. Contains(room, d)
      BY <1>0, <1>c, <2>1 DEF Shaken, Registered
    <3>3. room # <<>>
      BY <3>2, ContainsEmpty
    <3>4. job'[t].seq = s /\ job'[t].peers = room
      BY <2>2, <3>1, <3>3 DEF Remaining
    <3> QED BY <3>2, <3>4 DEF Pending
  <2> QED BY <2>3, <2>4
<1>7. ASSUME NEW t \in Task, BroadcastStep(t) PROVE Goal
  <2>1. conn[q] = d /\ UNCHANGED <<replay, queue, feed, repeated, restarts, owed>> /\ Alive(d)
    BY <1>0, <1>c, <1>7 DEF BroadcastStep, phoneVars
  <2> DEFINE c == Head(job[t].peers)
             n == job[t].seq
  <2>2. /\ job[t].peers # <<>> /\ job[t].peers \in Seq(Conn) /\ n \in 1..(nextSeq - 1)
        /\ c \in Conn /\ Deliver(c, n)
        /\ \A e : Contains(Tail(job[t].peers), e) => job'[t].seq = n /\ Contains(job'[t].peers, e)
        /\ \A u \in Task : u # t => job'[u] = job[u]
    BY <1>7, BroadcastJob
  <2>3. Contains(job[t].peers, d) => d = c \/ Contains(Tail(job[t].peers), d)
    BY <2>2, ContainsTail
  <2> HIDE DEF c, n
  <2>4. /\ d \in secrets' <=> d \in secrets
        /\ d # c => net'[d] = net[d]
        /\ d = c => net'[d] = Append(net[d], Sealed(d, n))
    BY <2>1, <2>2, DeliverEffect
  <2>5. \A m : Contains(net[d], m) => Contains(net'[d], m)
    BY <2>2, <2>4, AppendSealed
  <2>6. d = c => Contains(net'[d], Sealed(d, n))
    BY <2>2, <2>4, AppendSealed
  <2>7. Sealed(d, s)' = Sealed(d, s)
    BY <2>4 DEF Sealed
  <2>8. CASE s = n /\ d = c
    BY <2>6, <2>7, <2>8 DEF Pending
  <2>9. CASE ~(s = n /\ d = c)
    <3>1. \A u \in Task : job[u].seq = s /\ Contains(job[u].peers, d)
                            => job'[u].seq = s /\ Contains(job'[u].peers, d)
      BY <2>2, <2>3, <2>9 DEF n
    <3> QED BY <1>0, <1>c, <2>1, <2>4, <2>5, <3>1, PendingKept
  <2> QED BY <2>8, <2>9
<1>8. ASSUME NEW c \in Conn, HandleKeyExchange(c) PROVE Goal
  <2>1. conn[q] = d /\ UNCHANGED <<job, replay, queue, feed, repeated, restarts, owed>>
    BY <1>8 DEF HandleKeyExchange, phoneVars
  <2>2. d # c
    BY <1>0, <1>c, <1>8, <2>1 DEF HandleKeyExchange, Shaken
  <2>3. net'[d] = net[d] /\ (d \in secrets' <=> d \in secrets)
    BY <1>8, <2>2 DEF HandleKeyExchange, Typed
  <2> QED BY <1>0, <1>c, <2>1, <2>3, PendingFrame
<1>9. ASSUME NEW c \in Conn, HandleResume(c) PROVE Goal
  <2>1. conn[q] = d /\ UNCHANGED <<job, net, secrets, queue, feed, repeated, restarts>>
    BY <1>9 DEF HandleResume, phoneVars
  <2>2. CASE d = c
    <3>1. replay[d] = <<>> /\ request[d] \in Nat
      BY <1>0, <1>c, <1>9, <2>1, <2>2, DeliveryAssumption DEF HandleResume, Shaken
    <3>2. replay'[d] = GetSince(request[d]) /\ owed'[d] = owed[d] \cup ToSet(GetSince(request[d]))
      BY <1>9, <2>2 DEF HandleResume, Typed
    <3>3. s \in ToSet(replay'[d]) => Contains(replay'[d], s)
      <4>1. GetSince(request[d]) \in Seq(1..(nextSeq - 1))
        BY <3>1, GetSinceType
      <4> QED BY <3>2, <4>1, LenProperties DEF ToSet, Contains
    <3>4. CASE s \in owed[d]
      BY <1>0, <1>c, <2>1, <3>1, <3>4, ContainsEmpty, PendingKept
    <3>5. CASE s \notin owed[d]
      BY <3>2, <3>3, <3>5 DEF Pending
    <3> QED BY <3>4, <3>5
  <2>3. CASE d # c
    <3>1. UNCHANGED <<replay[d], owed[d]>>
      BY <1>9, <2>3 DEF HandleResume, Typed
    <3> QED BY <1>0, <1>c, <2>1, <3>1, PendingFrame
  <2> QED BY <2>2, <2>3
<1>10. ASSUME NEW c \in Conn, ReplayStep(c) PROVE Goal
  <2>1. conn[q] = d /\ UNCHANGED <<job, secrets, queue, feed, repeated, restarts, owed>>
    BY <1>10 DEF ReplayStep, phoneVars
  <2>2. CASE d = c
    <3> DEFINE n == Head(replay[d])
    <3>1. n \in 1..(nextSeq - 1) /\ replay[d] # <<>> /\ replay[d] \in Seq(1..(nextSeq - 1))
      BY <1>10, <2>2, HeadTailProperties DEF ReplayStep, Typed
    <3>2. replay'[d] = Tail(replay[d]) /\ net'[d] = Append(net[d], Sealed(d, n))
      BY <1>10, <2>2 DEF ReplayStep, Typed
    <3>3. Contains(replay[d], s) => s = n \/ Contains(replay'[d], s)
      BY <3>1, <3>2, ContainsTail
    <3> HIDE DEF n
    <3>4. Contains(net'[d], Sealed(d, n)) /\ \A m : Contains(net[d], m) => Contains(net'[d], m)
      BY <3>1, <3>2, AppendSealed
    <3>5. Sealed(d, s)' = Sealed(d, s)
      BY <2>1 DEF Sealed
    <3>6. CASE s = n
      BY <3>4, <3>5, <3>6 DEF Pending
    <3>7. CASE s # n
      BY <1>0, <1>c, <2>1, <3>3, <3>4, <3>7, PendingKept
    <3> QED BY <3>6, <3>7
  <2>3. CASE d # c
    <3>1. UNCHANGED <<net[d], replay[d]>>
      BY <1>10, <2>3 DEF ReplayStep, Typed
    <3> QED BY <1>0, <1>c, <2>1, <3>1, PendingFrame
  <2> QED BY <2>2, <2>3
<1>11. ASSUME NEW c \in Conn, Disconnect(c) PROVE Goal
  <2>1. conn[q] = d /\ d # c /\ UNCHANGED <<job, net, queue, feed, repeated, restarts, owed>>
    BY <1>11 DEF Disconnect, phoneVars, Alive
  <2>2. replay'[d] = replay[d] /\ (d \in secrets' <=> d \in secrets)
    BY <1>11, <2>1 DEF Disconnect, Unregister, Typed
  <2> QED BY <1>0, <1>c, <2>1, <2>2, PendingFrame
<1>12. CASE Restart
  BY <1>12, DeliveryAssumption DEF Restart
<1>13. CASE UNCHANGED vars
  BY <1>0, <1>c, <1>13, PendingFrame DEF vars
<1> QED BY <1>1, <1>2, <1>3, <1>4, <1>4a, <1>5, <1>6, <1>7, <1>8, <1>9, <1>10, <1>11, <1>12, <1>13 DEF Next
-----------------------------------------------------------------------------
(* The cursor *)

(* Until a restart, the cursor and the number a resume carries are those of *)
(* messages the page is done with.                                          *)
Known(p, n) == n = 0 \/ Settled(p, Message(n))

Reading == restarts = 0 =>
  \A p \in Phone :
    /\ Known(p, lastSeqId[p])
    /\ \A c \in Conn : conn[p] = c /\ request[c] \in Nat => Known(p, request[c])

LEMMA KnownStays ==
  ASSUME Typed, Paged, [Next]_vars, UNCHANGED restarts, NEW p \in Phone, NEW n, Known(p, n)
  PROVE  Known(p, n)'
<1>1. ToSet(feed[p]) \subseteq ToSet(feed'[p]) /\ repeated[p] \subseteq repeated'[p]
  BY PageGrows
<1>2. Message(n)' = Message(n)
  BY DEF Message
<1> QED BY <1>1, <1>2 DEF Known, Settled

LEMMA ReadingStep == Typed /\ Typed' /\ Paged /\ Owned /\ Reading /\ [Next]_vars => Reading'
<1> SUFFICES ASSUME Typed, Typed', Paged, Owned, Reading, [Next]_vars, restarts' = 0, NEW p \in Phone
             PROVE  /\ Known(p, lastSeqId[p])'
                    /\ \A c \in Conn : conn'[p] = c /\ request'[c] \in Nat => Known(p, request[c])'
  BY DEF Reading
<1>1. ~Restart /\ restarts = 0
  <2>1. ~Restart
    BY DEF Restart, Typed
  <2>2. Restart \/ UNCHANGED restarts
    BY DEF Next, vars, phoneVars, Connect, SendResume, Receive, Render, OtherEntry, Drop,
           Publish, BroadcastStep, HandleKeyExchange, HandleResume, ReplayStep, Disconnect
  <2> QED BY <2>1, <2>2
<1>2. \A n : Known(p, n) => Known(p, n)'
  BY <1>1, KnownStays
<1>3. /\ Known(p, lastSeqId[p])
      /\ \A c \in Conn : conn[p] = c /\ request[c] \in Nat => Known(p, request[c])
  BY <1>1 DEF Reading
<1>4. \A n : n = lastSeqId'[p] /\ Known(p, n)' => Known(p, lastSeqId[p])'
  BY DEF Known, Settled, Message
<1>5. \A n : \A c \in Conn : n = request'[c] /\ Known(p, n)' => Known(p, request[c])'
  BY DEF Known, Settled, Message
<1>6. Known(p, lastSeqId[p])'
  <2>1. CASE lastSeqId'[p] = lastSeqId[p]
    BY <1>2, <1>3, <1>4, <2>1
  <2>2. CASE Render(p)
    <3>1. /\ lastSeqId'[p] \in {lastSeqId[p], Head(queue[p]).seq}
          /\ Head(queue[p]) \in Issued
      BY <2>2, CursorMoves DEF Render, Typed
    <3>2. PICK m \in Issued : m = Head(queue[p])
      BY <3>1
    <3>3. m.life = restarts /\ m = Message(m.seq)
      BY <1>1 DEF Issued, Message
    <3>4. Settled(p, m)'
      BY <2>2, <3>2, <3>3, RenderSettles
    <3>5. Message(m.seq)' = m
      BY <1>1, <3>3 DEF Message
    <3>6. Known(p, m.seq)'
      BY <3>4, <3>5 DEF Known, Settled
    <3> QED BY <1>2, <1>3, <1>4, <3>1, <3>2, <3>6
  <2>3. Render(p) \/ lastSeqId'[p] = lastSeqId[p]
    BY DEF Next, vars, phoneVars, Connect, SendResume, Receive, Render, OtherEntry, Drop, Typed, Restart,
         Publish, BroadcastStep, HandleKeyExchange, HandleResume, ReplayStep, Disconnect
  <2> QED BY <2>1, <2>2, <2>3
<1>7. ASSUME NEW c \in Conn, conn'[p] = c, request'[c] \in Nat PROVE Known(p, request[c])'
  <2>1. CASE conn[p] = c /\ request'[c] = request[c]
    BY <1>2, <1>3, <1>5, <1>7, <2>1
  <2>2. CASE request'[c] = lastSeqId[p]
    BY <1>2, <1>3, <1>5, <2>2
  <2>3. ASSUME NEW q \in Phone, NEW d \in Conn, Connect(q, d) PROVE conn[p] = c /\ request'[c] = request[c]
    <3>1. ~Alive(d)
      BY <2>3, DeliveryAssumption DEF Connect, Alive, Typed
    <3>2. request[d] = None /\ request' \in {request, [request EXCEPT ![d] = Key]}
      BY <2>3, <3>1 DEF Connect, Owned
    <3>3. request'[d] \notin Nat
      BY <3>2, DeliveryAssumption DEF Typed
    <3> QED BY <1>7, <2>3, <3>2, <3>3 DEF Connect, Typed
  <2>4. ASSUME NEW q \in Phone, SendResume(q)
        PROVE  (conn[p] = c /\ request'[c] = request[c]) \/ request'[c] = lastSeqId[p]
    BY <1>7, <2>4 DEF SendResume, Typed, Owned
  <2>5. ASSUME NEW q \in Phone, Drop(q) PROVE conn[p] = c /\ request'[c] = request[c]
    BY <1>7, <2>5, DeliveryAssumption DEF Drop, Typed
  <2>6. ASSUME NEW d \in Conn, HandleKeyExchange(d) \/ HandleResume(d) PROVE conn[p] = c /\ request'[c] = request[c]
    BY <1>7, <2>6, DeliveryAssumption DEF HandleKeyExchange, HandleResume, phoneVars, Typed
  <2>7. CASE UNCHANGED <<conn, request>>
    BY <1>7, <2>1, <2>7
  <2> QED BY <1>1, <2>1, <2>2, <2>3, <2>4, <2>5, <2>6, <2>7 DEF Next, vars, phoneVars, Receive, Render,
         OtherEntry, Publish, BroadcastStep, ReplayStep, Disconnect
<1> QED BY <1>6, <1>7

-----------------------------------------------------------------------------
(* The invariant *)

Inv == Typed /\ Paged /\ Owned /\ Handshake /\ Quiet /\ Lossless /\ Reading

LEMMA InvInit == Init => Inv
<1> SUFFICES ASSUME Init PROVE Inv
  OBVIOUS
<1>1. Typed /\ Owned /\ Paged
  BY TypedInit
<1>2. Quiet /\ Reading
  BY DeliveryAssumption DEF Init, Quiet, Reading, Known
<1>3. Handshake /\ Lossless
  BY DeliveryAssumption DEF Init, Handshake, Lossless
<1> QED BY <1>1, <1>2, <1>3 DEF Inv

LEMMA InvStep == Inv /\ [Next]_vars => Inv'
BY TypedStep, PagedStep, OwnedStep, HandshakeStep, QuietStep, LosslessStep, ReadingStep DEF Inv

LEMMA Invariance == Spec => []Inv
BY InvInit, InvStep, PTL DEF Spec

(* Each variable stays in its type: numbers were given out, no socket is    *)
(* registered twice, the backend encrypts only to sockets that were opened, *)
(* a page holds only messages that were numbered.                           *)
THEOREM DeliveryTypeCorrect == Spec => []TypeOK
<1>1. Inv => TypeOK
  BY TypedImpliesTypeOK DEF Inv
<1> QED BY <1>1, Invariance, PTL

(* Whatever the interleaving of broadcasts, replays, key exchanges and the   *)
(* page's updaters, and after any number of restarts, each message an open  *)
(* socket is owed is under way, queued, or settled in the feed of its page. *)
THEOREM LosesNothing == Spec => []OpenSocketLosesNothing
<1>1. Inv => OpenSocketLosesNothing
  BY LosslessMeans DEF Inv
<1> QED BY <1>1, Invariance, PTL

-----------------------------------------------------------------------------
(* Delivery implements Mailbox *)

(* The phones that listen and what they are promised, in terms of Delivery. *)
Listening == {p \in Phone : conn[p] # None /\ link[p] = "ready"}
Promised == [p \in Phone |-> IF conn[p] = None THEN {} ELSE owed[conn[p]]]
Page == [p \in Phone |-> ToSet(feed[p]) \ {Other}]

LEMMA GetSinceRange ==
  ASSUME Typed, NEW cursor \in Nat
  PROVE  ToSet(GetSince(cursor)) = {s \in 1..(nextSeq - 1) : s > nextSeq - 1 - Size /\ s > cursor}
<1> DEFINE first == IF cursor < Oldest THEN Oldest ELSE cursor + 1
           wanted == {s \in 1..(nextSeq - 1) : s > nextSeq - 1 - Size /\ s > cursor}
<1>1. Oldest \in Nat /\ Oldest >= 1 /\ nextSeq \in Nat /\ first \in Nat /\ first >= 1
  BY DEF Oldest, Typed
<1>2. \A s \in Nat : s \in wanted <=> s >= first /\ s < nextSeq
  BY <1>1 DEF Oldest
<1>3. GetSince(cursor) = [i \in 1..(nextSeq - first) |-> first + i - 1]
  BY DEF GetSince
<1>4. wanted \subseteq Nat
  BY <1>1
<1> HIDE DEF first, wanted
<1>5. ToSet(GetSince(cursor)) = {first + i - 1 : i \in 1..(nextSeq - first)}
  BY <1>3 DEF ToSet
<1>6. ASSUME NEW i \in 1..(nextSeq - first) PROVE first + i - 1 \in wanted
  BY <1>1, <1>2
<1>7. ASSUME NEW s \in wanted PROVE \E i \in 1..(nextSeq - first) : s = first + i - 1
  <2>1. s \in Nat /\ s >= first /\ s < nextSeq
    BY <1>2, <1>4
  <2>2. s - first + 1 \in 1..(nextSeq - first) /\ s = first + (s - first + 1) - 1
    BY <1>1, <2>1
  <2> QED BY <2>2
<1>8. ToSet(GetSince(cursor)) = wanted
  BY <1>5, <1>6, <1>7
<1> QED BY <1>8 DEF wanted

LEMMA PromisedFrame ==
  ASSUME UNCHANGED conn, \A p \in Phone : conn[p] # None => owed'[conn[p]] = owed[conn[p]]
  PROVE  Promised' = Promised
BY DEF Promised

LEMMA StepRefines == Inv /\ [Next]_vars => [Box!Next]_(Box!boxVars)
<1> SUFFICES ASSUME Inv, [Next]_vars PROVE [Box!Next]_(Box!boxVars)
  OBVIOUS
<1> DEFINE Same == UNCHANGED <<nextSeq, restarts, Listening, Promised, Page, repeated>>
<1> USE DEF Inv
<1>0. Same => [Box!Next]_(Box!boxVars)
  BY DEF Box!boxVars, Listening, Promised, Page
<1>p. UNCHANGED feed => UNCHANGED Page
  BY DEF Page
<1>1. ASSUME NEW p \in Phone, NEW c \in Conn, Connect(p, c) PROVE Same
  <2>1. /\ c \notin used /\ conn[p] = None /\ conn'[p] = c /\ link'[p] = "open"
        /\ \A q \in Phone : q # p => conn'[q] = conn[q] /\ link'[q] = link[q]
        /\ UNCHANGED <<nextSeq, restarts, feed, repeated, owed>>
    BY <1>1 DEF Connect, Typed
  <2>2. owed[c] = {}
    <3>1. ~Alive(c)
      BY <2>1, DeliveryAssumption DEF Alive, Typed
    <3> QED BY <3>1 DEF Quiet
  <2>3. \A q \in Phone : conn'[q] # None /\ link'[q] = "ready" <=> conn[q] # None /\ link[q] = "ready"
    BY <2>1
  <2>4. \A q \in Phone : (IF conn'[q] = None THEN {} ELSE owed'[conn'[q]])
                           = IF conn[q] = None THEN {} ELSE owed[conn[q]]
    BY <2>1, <2>2, DeliveryAssumption
  <2>5. Listening' = Listening
    BY <2>3 DEF Listening
  <2>6. Promised' = Promised
    BY <2>4 DEF Promised
  <2> QED BY <1>p, <2>1, <2>5, <2>6
<1>2. ASSUME NEW p \in Phone, SendResume(p) PROVE Box!Listen(p)
  <2>1. /\ conn[p] # None /\ link[p] # "ready" /\ link'[p] = "ready"
        /\ \A q \in Phone : q # p => link'[q] = link[q]
        /\ UNCHANGED <<nextSeq, restarts, feed, repeated, owed, conn>>
    BY <1>2 DEF SendResume, Typed
  <2>2. p \notin Listening /\ Listening' = Listening \cup {p}
    BY <2>1 DEF Listening
  <2>3. Promised' = Promised
    BY <2>1, PromisedFrame
  <2> QED BY <2>1, <2>2, <2>3 DEF Box!Listen, Listening, Promised, Page
<1>3. ASSUME NEW p \in Phone, Receive(p) PROVE Same
  <2> DEFINE c == conn[p]
             m == Head(net[c])
  <2>1. c \in Conn /\ net[c] # <<>> /\ net[c] \in Seq(Packet(nextSeq - 1))
    BY <1>3 DEF Receive, Typed
  <2>2. m = KeyReply => Contains(net[c], KeyReply)
    BY <2>1, ContainsTail
  <2>3. m = KeyReply => link[p] = "open"
    BY <2>1, <2>2 DEF Handshake, Shaken
  <2>4. /\ link' = IF m = KeyReply THEN [link EXCEPT ![p] = "deriving"] ELSE link
        /\ UNCHANGED <<nextSeq, conn, restarts, owed, feed, repeated>>
    BY <1>3 DEF Receive
  <2> HIDE DEF c, m
  <2>5. Listening' = Listening
    BY <2>3, <2>4 DEF Listening, Typed
  <2>6. Promised' = Promised
    BY <2>4, PromisedFrame
  <2> QED BY <1>p, <2>4, <2>5, <2>6
<1>4. ASSUME NEW p \in Phone, Render(p) PROVE Same \/ \E m \in Box!Issued : Box!Give(p, m)
  <2> DEFINE m == Head(queue[p])
  <2>1. UNCHANGED <<nextSeq, restarts, conn, link, owed>>
    BY <1>4 DEF Render
  <2>2. Listening' = Listening /\ Promised' = Promised
    BY <2>1 DEF Listening, Promised
  <2>3. /\ m \in Issued /\ m # Other
        /\ \A q \in Phone : q # p => UNCHANGED <<feed[q], repeated[q]>>
        /\ repeated \in [Phone -> SUBSET Issued] /\ repeated' \in [Phone -> SUBSET Issued]
        /\ \/ UNCHANGED <<feed, repeated>>
           \/ /\ \E e \in ToSet(feed[p]) \ {Other} : Says[e] = Says[m]
              /\ repeated'[p] = repeated[p] \cup {m} /\ UNCHANGED feed
           \/ /\ \A e \in ToSet(feed[p]) : e.seq # m.seq
              /\ ToSet(feed'[p]) = ToSet(feed[p]) \cup {m} /\ UNCHANGED repeated
    BY <1>4, RenderEffect DEF Paged
  <2> HIDE DEF m
  <2>4. m \in Box!Issued
    BY <2>3 DEF Issued, Box!Issued, Box!Numbered, Typed
  <2>5. CASE UNCHANGED <<feed, repeated>>
    BY <1>p, <2>1, <2>2, <2>5
  <2>6. CASE /\ \E e \in ToSet(feed[p]) \ {Other} : Says[e] = Says[m]
             /\ repeated'[p] = repeated[p] \cup {m} /\ UNCHANGED feed
    <3>1. repeated' = [repeated EXCEPT ![p] = repeated[p] \cup {m}]
      BY <2>3, <2>6
    <3>2. Page' = Page /\ \E e \in Page[p] : Says[e] = Says[m]
      BY <2>6 DEF Page
    <3>3. Box!Give(p, m)
      BY <2>1, <2>2, <3>1, <3>2 DEF Box!Give, Listening, Promised, Page
    <3> QED BY <2>4, <3>3
  <2>7. CASE /\ \A e \in ToSet(feed[p]) : e.seq # m.seq
             /\ ToSet(feed'[p]) = ToSet(feed[p]) \cup {m} /\ UNCHANGED repeated
    <3>1. Page' = [Page EXCEPT ![p] = Page[p] \cup {m}]
      <4>1. \A q \in Phone : q # p => Page'[q] = Page[q]
        BY <2>3 DEF Page
      <4>2. Page'[p] = Page[p] \cup {m}
        BY <2>3, <2>7 DEF Page, Other
      <4>3. Page' = [q \in Phone |-> Page'[q]] /\ DOMAIN Page = Phone
        BY DEF Page
      <4> QED BY <4>1, <4>2, <4>3
    <3>2. \A e \in Page[p] : e.seq # m.seq
      BY <2>7 DEF Page
    <3>3. Box!Give(p, m)
      BY <2>1, <2>2, <2>7, <3>1, <3>2 DEF Box!Give, Listening, Promised, Page
    <3> QED BY <2>4, <3>3
  <2> QED BY <2>3, <2>5, <2>6, <2>7
<1>4a. ASSUME NEW p \in Phone, OtherEntry(p) PROVE Same
  <2>1. UNCHANGED <<nextSeq, restarts, conn, link, owed, repeated>>
    BY <1>4a DEF OtherEntry
  <2>2. Page' = Page
    BY <1>4a, OtherEntryEffect DEF Page, Other
  <2> QED BY <2>1, <2>2 DEF Listening, Promised
<1>5. ASSUME NEW p \in Phone, Drop(p) PROVE Same \/ Box!Leave(p)
  <2> DEFINE c == conn[p]
  <2>1. /\ c \in Conn /\ conn'[p] = None
        /\ \A q \in Phone : q # p => conn'[q] = conn[q] /\ link'[q] = link[q]
        /\ \A d \in Conn : d # c => owed'[d] = owed[d]
        /\ UNCHANGED <<nextSeq, restarts, feed, repeated>>
    BY <1>5 DEF Drop, Typed
  <2>2. \A q \in Phone : q # p => conn[q] # c
    BY <2>1, DeliveryAssumption DEF Owned
  <2>3. Listening' = Listening \ {p}
    BY <2>1 DEF Listening
  <2>4. \A q \in Phone : q # p /\ conn[q] # None => owed'[conn[q]] = owed[conn[q]]
    BY <2>1, <2>2 DEF Typed
  <2>5. Promised' = [Promised EXCEPT ![p] = {}]
    <3>1. \A q \in Phone : q # p => (IF conn'[q] = None THEN {} ELSE owed'[conn'[q]])
                                      = IF conn[q] = None THEN {} ELSE owed[conn[q]]
      BY <2>1, <2>4
    <3> HIDE DEF c
    <3> QED BY <2>1, <3>1 DEF Promised
  <2>6. CASE link[p] = "ready"
    <3>1. p \in Listening
      BY <2>1, <2>6, DeliveryAssumption DEF Listening
    <3> QED BY <2>1, <2>3, <2>5, <3>1 DEF Box!Leave, Listening, Promised, Page
  <2>7. CASE link[p] # "ready"
    <3>1. owed[c] = {}
      BY <2>1, <2>7 DEF Handshake, Shaken
    <3>2. p \notin Listening /\ Promised[p] = {}
      BY <2>7, <3>1 DEF Listening, Promised
    <3>3. Promised' = Promised
      BY <2>5, <3>2 DEF Promised
    <3>4. Listening' = Listening
      BY <2>3, <3>2
    <3> QED BY <1>p, <2>1, <3>3, <3>4
  <2> QED BY <2>6, <2>7
<1>6. ASSUME NEW t \in Task, Publish(t) PROVE Box!Publish
  <2>1. /\ nextSeq \in 1..MaxSeq /\ nextSeq' = nextSeq + 1
        /\ owed' = [c \in Conn |-> IF Ready(c) THEN owed[c] \cup {nextSeq} ELSE owed[c]]
        /\ UNCHANGED <<conn, link, restarts, feed, repeated>>
    BY <1>6 DEF Publish, phoneVars, Typed
  <2>2. \A p \in Phone : conn[p] # None => conn[p] \in Conn /\ (Ready(conn[p]) <=> p \in Listening)
    BY DEF Owned, Typed, Ready, Listening
  <2>3. Promised' = [p \in Phone |-> IF p \in Listening THEN Promised[p] \cup {nextSeq} ELSE Promised[p]]
    BY <2>1, <2>2 DEF Promised, Listening
  <2>4. Listening' = Listening
    BY <2>1 DEF Listening
  <2>5. nextSeq - 1 < MaxSeq /\ nextSeq' - 1 = nextSeq - 1 + 1 /\ nextSeq' - 1 = nextSeq
    BY <2>1
  <2> QED BY <2>1, <2>3, <2>4, <2>5 DEF Box!Publish, Listening, Promised, Page
<1>7. ASSUME NEW t \in Task, BroadcastStep(t) PROVE Same
  BY <1>7 DEF BroadcastStep, phoneVars, Listening, Promised, Page
<1>8. ASSUME NEW c \in Conn, HandleKeyExchange(c) PROVE Same
  BY <1>8 DEF HandleKeyExchange, phoneVars, Listening, Promised, Page
<1>9. ASSUME NEW c \in Conn, HandleResume(c)
      PROVE  \E p \in Phone, from \in 0..MaxSeq : Box!Resume(p, from)
  <2>0. request[c] \in Nat /\ request[c] \in 0..MaxSeq
    BY <1>9, DeliveryAssumption DEF HandleResume, Typed
  <2>1. PICK from \in 0..MaxSeq : from = request[c] /\ request[c] \in Nat
    BY <2>0
  <2>2. PICK p \in Phone : conn[p] = c
    BY <2>1, DeliveryAssumption DEF Owned, Alive
  <2>3. p \in Listening
    BY <2>1, <2>2, DeliveryAssumption DEF Handshake, Shaken, Listening
  <2>4. restarts = 0 => from = 0 \/ Box!Settled(p, Box!Message(from))
    <3>1. restarts = 0 => Known(p, from)
      BY <2>1, <2>2 DEF Reading
    <3>2. from # 0 => Message(from) # Other /\ Message(from) = Box!Message(from)
      BY DEF Message, Other, Box!Message
    <3>3. \A e \in ToSet(feed[p]) : from # 0 /\ e.seq = from => e \in Page[p]
      BY DEF Page, Other
    <3> QED BY <3>1, <3>2, <3>3 DEF Known, Settled, Box!Settled, Page, Message
  <2> DEFINE news == {s \in 1..(nextSeq - 1) : s > nextSeq - 1 - Size /\ s > from}
  <2>5. /\ owed' = [owed EXCEPT ![c] = @ \cup news]
        /\ UNCHANGED <<nextSeq, restarts, feed, repeated, conn, link>>
    BY <1>9, <2>1, GetSinceRange DEF HandleResume, phoneVars
  <2> HIDE DEF news
  <2>6. Promised' = [Promised EXCEPT ![p] = @ \cup news]
    <3>1. \A q \in Phone : q # p => conn[q] # c
      BY <2>2, DeliveryAssumption DEF Owned
    <3>2. \A q \in Phone : conn[q] # None => conn[q] \in Conn
      BY DEF Typed
    <3> QED BY <2>2, <2>5, <3>1, <3>2, DeliveryAssumption DEF Promised, Typed
  <2>7. news = {s \in Box!Kept : s > from}
    BY DEF news, Box!Kept, Box!Numbered
  <2>8. Listening' = Listening
    BY <2>5 DEF Listening
  <2>9. Box!Resume(p, from)
    BY <2>3, <2>4, <2>5, <2>6, <2>7, <2>8 DEF Box!Resume, Listening, Promised, Page
  <2> QED BY <2>9
<1>10. ASSUME NEW c \in Conn, ReplayStep(c) PROVE Same
  BY <1>10 DEF ReplayStep, phoneVars, Listening, Promised, Page
<1>11. ASSUME NEW c \in Conn, Disconnect(c) PROVE Same
  BY <1>11 DEF Disconnect, phoneVars, Listening, Promised, Page
<1>12. ASSUME Restart PROVE Box!Next
  <2>1. Listening' = {} /\ Promised' = [p \in Phone |-> {}]
    BY <1>12 DEF Restart, Listening, Promised
  <2>2. nextSeq' - 1 = 0 /\ restarts' = restarts + 1 /\ UNCHANGED <<Page, repeated>>
    BY <1>12 DEF Restart, Page
  <2>3. Box!Restart
    BY <2>1, <2>2 DEF Box!Restart, Listening, Promised, Page
  <2> QED BY <2>3 DEF Box!Next
<1>13. ASSUME UNCHANGED vars PROVE Same
  BY <1>13 DEF vars, Listening, Promised, Page
<1>14. ASSUME NEW p \in Phone, Box!Listen(p) \/ Box!Leave(p) PROVE Box!Next
  BY <1>14 DEF Box!Next
<1>15. ASSUME NEW p \in Phone, NEW m \in Box!Issued, Box!Give(p, m) PROVE Box!Next
  BY <1>15 DEF Box!Next
<1>16. Box!Publish \/ (\E p \in Phone, from \in 0..MaxSeq : Box!Resume(p, from)) => Box!Next
  BY DEF Box!Next
<1> HIDE DEF Same
<1>17. [Next]_vars => Same \/ Box!Next
  BY <1>1, <1>2, <1>3, <1>4, <1>4a, <1>5, <1>6, <1>7, <1>8, <1>9, <1>10, <1>11, <1>12, <1>13,
     <1>14, <1>15, <1>16 DEF Next
<1> QED BY <1>0, <1>17

LEMMA InitRefines == Init => Box!Init
<1> SUFFICES ASSUME Init PROVE Box!Init
  OBVIOUS
<1>1. ToSet(<<>>) = {}
  BY DEF ToSet
<1>2. [p \in Phone |-> ToSet(feed[p]) \ {Other}] = [p \in Phone |-> {}]
  BY <1>1 DEF Init
<1> QED BY <1>2, DeliveryAssumption DEF Init, Box!Init

(* Every behaviour of Delivery is one of Mailbox: a phone that listens is    *)
(* promised what Mailbox promises, and nothing else moves. The liveness of  *)
(* Mailbox is checked on the small instance only.                           *)
THEOREM Refines == Spec => Box!Init /\ [][Box!Next]_(Box!boxVars)
BY InitRefines, StepRefines, Invariance, PTL DEF Spec
=============================================================================
