------------------------ MODULE ProjectRoutingProofs ------------------------
(***************************************************************************)
(* For any hosts, windows, phones, projects and lists of folders: of        *)
(* RoomSelection, that the order of the candidates has a first, that what a *)
(* read of the active project returns is announced, and that a usable       *)
(* selection is not taken away; of ProjectRouting, that a command runs      *)
(* where it was meant to and that the registry holds what the windows have  *)
(* open.                                                                    *)
(***************************************************************************)
EXTENDS ProjectRouting, RoomSync, SequenceTheorems, FiniteSetTheorems, WellFoundedInduction,
        TLAPS

USE SelectionAssumption

-----------------------------------------------------------------------------
(* Numbers and lists *)

\* A set of numbers has a least one.
LEMMA LeastOf ==
  ASSUME NEW T, T # {}, T \subseteq Nat
  PROVE  \E m \in T : \A y \in T : m <= y
<1>1. PICK m \in T : \A y \in T : ~(<<y, m>> \in OpToRel(<, Nat))
  BY WFMin, NatLessThanWellFounded
<1>2. \A y \in T : ~(y < m)
  BY <1>1 DEF OpToRel
<1> QED BY <1>2

\* Two lists without repetitions and without a common element, in a row.
LEMMA JoinedLists ==
  ASSUME NEW S, NEW s \in Seq(S), NEW t \in Seq(S), IsInjective(s), IsInjective(t),
         \A d : ~(Contains(s, d) /\ Contains(t, d))
  PROVE  /\ s \o t \in Seq(S) /\ IsInjective(s \o t)
         /\ \A d : Contains(s \o t, d) <=> Contains(s, d) \/ Contains(t, d)
<1>1. /\ Len(s) \in Nat /\ Len(t) \in Nat
      /\ DOMAIN s = 1..Len(s) /\ DOMAIN t = 1..Len(t)
  BY LenProperties
<1>2. /\ s \o t \in Seq(S) /\ Len(s \o t) = Len(s) + Len(t)
      /\ \A i \in 1..(Len(s) + Len(t)) : (s \o t)[i] = IF i <= Len(s) THEN s[i] ELSE t[i - Len(s)]
  BY ConcatProperties
<1>3. DOMAIN (s \o t) = 1..(Len(s) + Len(t))
  BY <1>2, LenProperties
<1>4. ASSUME NEW d PROVE Contains(s \o t, d) <=> Contains(s, d) \/ Contains(t, d)
  <2>1. ASSUME Contains(s \o t, d) PROVE Contains(s, d) \/ Contains(t, d)
    <3>1. PICK i \in 1..(Len(s) + Len(t)) : (s \o t)[i] = d
      BY <1>2, <2>1 DEF Contains
    <3>2. CASE i <= Len(s)
      BY <1>1, <1>2, <3>1, <3>2 DEF Contains
    <3>3. CASE ~(i <= Len(s))
      <4>1. i - Len(s) \in 1..Len(t) /\ t[i - Len(s)] = d
        BY <1>1, <1>2, <3>1, <3>3
      <4> QED BY <4>1 DEF Contains
    <3> QED BY <3>2, <3>3
  <2>2. ASSUME Contains(s, d) PROVE Contains(s \o t, d)
    <3>1. PICK i \in 1..Len(s) : s[i] = d
      BY <2>2 DEF Contains
    <3>2. i \in 1..Len(s \o t) /\ (s \o t)[i] = d
      BY <1>1, <1>2, <3>1
    <3> QED BY <3>2 DEF Contains
  <2>3. ASSUME Contains(t, d) PROVE Contains(s \o t, d)
    <3>1. PICK i \in 1..Len(t) : t[i] = d
      BY <2>3 DEF Contains
    <3>2. Len(s) + i \in 1..(Len(s) + Len(t)) /\ ~(Len(s) + i <= Len(s)) /\ Len(s) + i - Len(s) = i
      BY <1>1
    <3>3. Len(s) + i \in 1..Len(s \o t) /\ (s \o t)[Len(s) + i] = d
      BY <1>2, <3>1, <3>2
    <3> QED BY <3>3 DEF Contains
  <2> QED BY <2>1, <2>2, <2>3
<1>5. IsInjective(s \o t)
  <2> SUFFICES ASSUME NEW i \in 1..(Len(s) + Len(t)), NEW j \in 1..(Len(s) + Len(t)),
                      (s \o t)[i] = (s \o t)[j]
               PROVE  i = j
    BY <1>3 DEF IsInjective
  <2>1. CASE i <= Len(s) /\ j <= Len(s)
    BY <1>1, <1>2, <2>1 DEF IsInjective
  <2>2. CASE i > Len(s) /\ j > Len(s)
    <3>1. i - Len(s) \in 1..Len(t) /\ j - Len(s) \in 1..Len(t) /\ t[i - Len(s)] = t[j - Len(s)]
      BY <1>1, <1>2, <2>2
    <3>2. i - Len(s) = j - Len(s)
      BY <1>1, <3>1 DEF IsInjective
    <3> QED BY <1>1, <3>2
  <2>3. ASSUME NEW k \in 1..Len(s), NEW l \in 1..(Len(s) + Len(t)), l > Len(s), (s \o t)[k] = (s \o t)[l]
        PROVE  FALSE
    <3>1. l - Len(s) \in 1..Len(t) /\ t[l - Len(s)] = s[k]
      BY <1>1, <1>2, <2>3
    <3> QED BY <3>1 DEF Contains
  <2> QED BY <1>1, <2>1, <2>2, <2>3
<1> QED BY <1>2, <1>4, <1>5

\* Lists of one element.
LEMMA Singleton ==
  ASSUME NEW S, NEW x \in S
  PROVE  /\ <<x>> \in Seq(S) /\ IsInjective(<<x>>) /\ <<x>> # <<>>
         /\ \A d : Contains(<<x>>, d) <=> d = x
BY DEF IsInjective, Contains

\* Taking out the element at a place,
LEMMA RemoveAtIs ==
  ASSUME NEW S, NEW s \in Seq(S), NEW k \in 1..Len(s)
  PROVE  /\ RemoveAt(s, k) \in Seq(S)
         /\ Len(RemoveAt(s, k)) = Len(s) - 1
         /\ \A i \in 1..(Len(s) - 1) : RemoveAt(s, k)[i] = IF i < k THEN s[i] ELSE s[i + 1]
<1> DEFINE a == SubSeq(s, 1, k - 1)
           b == SubSeq(s, k + 1, Len(s))
<1>1. Len(s) \in Nat /\ k \in Nat /\ 1 <= k /\ k <= Len(s)
  BY LenProperties
<1>2. a \in Seq(S) /\ Len(a) = k - 1 /\ \A i \in 1..(k - 1) : a[i] = s[i]
  BY <1>1, SubSeqProperties
<1>3. b \in Seq(S) /\ Len(b) = Len(s) - k /\ \A i \in 1..(Len(s) - k) : b[i] = s[k + i]
  BY <1>1, SubSeqProperties
<1> HIDE DEF a, b
<1>0. a \in Seq(S) /\ b \in Seq(S)
  BY <1>2, <1>3
<1>4. /\ a \o b \in Seq(S) /\ Len(a \o b) = Len(a) + Len(b)
      /\ \A i \in 1..(Len(a) + Len(b)) : (a \o b)[i] = IF i <= Len(a) THEN a[i] ELSE b[i - Len(a)]
  BY ONLY <1>0, ConcatProperties
<1>5. ASSUME NEW i \in 1..(Len(s) - 1) PROVE (a \o b)[i] = IF i < k THEN s[i] ELSE s[i + 1]
  <2>1. CASE i < k
    BY <2>1, <1>1, <1>2, <1>3, <1>4
  <2>2. CASE ~(i < k)
    <3>1. i - (k - 1) \in 1..(Len(s) - k) /\ k + (i - (k - 1)) = i + 1
      BY <2>2, <1>1
    <3>2. (a \o b)[i] = b[i - (k - 1)]
      BY <2>2, <1>1, <1>2, <1>3, <1>4
    <3> QED BY <3>1, <3>2, <2>2, <1>3
  <2> QED BY <2>1, <2>2
<1>6. Len(a \o b) = Len(s) - 1
  BY <1>1, <1>2, <1>3, <1>4
<1>7. RemoveAt(s, k) = a \o b
  BY DEF RemoveAt, a, b
<1> QED BY ONLY <1>4, <1>5, <1>6, <1>7

\* and an element of a list without repetitions.
LEMMA RemoveFirstIs ==
  ASSUME NEW S, NEW s \in Seq(S), IsInjective(s), NEW c
  PROVE  /\ RemoveFirst(s, c) \in Seq(S) /\ IsInjective(RemoveFirst(s, c))
         /\ \A d : Contains(RemoveFirst(s, c), d) <=> Contains(s, d) /\ d # c
<1>1. CASE ~\E i \in 1..Len(s) : s[i] = c
  BY <1>1 DEF RemoveFirst, Contains
<1>2. CASE \E i \in 1..Len(s) : s[i] = c
  <2>1. PICK k \in 1..Len(s) : s[k] = c
    BY <1>2
  <2>2. Len(s) \in Nat /\ DOMAIN s = 1..Len(s)
    BY LenProperties
  <2>3. \A i \in 1..Len(s) : s[i] = c <=> i = k
    BY <2>1, <2>2 DEF IsInjective
  <2>4. SelectInSeq(s, LAMBDA v : v = c) = k
    <3>1. {i \in 1..Len(s) : s[i] = c} = {k}
      BY <2>1, <2>3
    <3>2. Min({k}) = k
      BY <2>2 DEF Min
    <3> QED BY <3>1, <3>2 DEF SelectInSeq
  <2> DEFINE r == RemoveAt(s, k)
             From(x) == IF x < k THEN x ELSE x + 1
  <2>5. RemoveFirst(s, c) = r
    BY <1>2, <2>4 DEF RemoveFirst
  <2>6. /\ r \in Seq(S) /\ Len(r) = Len(s) - 1
        /\ \A i \in 1..(Len(s) - 1) : r[i] = s[From(i)]
    BY RemoveAtIs
  <2>7. DOMAIN r = 1..(Len(s) - 1)
    BY <2>6, LenProperties
  <2> HIDE DEF r
  <2>8. \A i \in 1..(Len(s) - 1) : From(i) \in 1..Len(s) \ {k}
    BY <2>2
  <2>9. IsInjective(r)
    <3> SUFFICES ASSUME NEW i \in 1..(Len(s) - 1), NEW j \in 1..(Len(s) - 1), r[i] = r[j]
                 PROVE  i = j
      BY <2>7 DEF IsInjective
    <3>1. From(i) = From(j)
      BY <2>2, <2>6, <2>8 DEF IsInjective
    <3> QED BY <2>2, <3>1
  <2>10. ASSUME NEW d PROVE Contains(r, d) <=> Contains(s, d) /\ d # c
    <3>1. ASSUME Contains(r, d) PROVE Contains(s, d) /\ d # c
      <4>1. PICK i \in 1..(Len(s) - 1) : s[From(i)] = d
        BY <2>6, <3>1 DEF Contains
      <4>2. From(i) \in 1..Len(s) /\ From(i) # k
        BY <2>8
      <4> HIDE DEF From
      <4> QED BY <2>3, <4>1, <4>2 DEF Contains
    <3>2. ASSUME Contains(s, d), d # c PROVE Contains(r, d)
      <4>1. PICK i \in 1..Len(s) : s[i] = d
        BY <3>2 DEF Contains
      <4>2. i # k
        BY <2>1, <3>2, <4>1
      <4>3. PICK j \in 1..(Len(s) - 1) : From(j) = i
        <5>1. CASE i < k
          BY <2>2, <5>1
        <5>2. CASE i > k
          <6>1. i - 1 \in 1..(Len(s) - 1) /\ From(i - 1) = i
            BY <2>2, <5>2
          <6> QED BY <6>1
        <5> QED BY <2>2, <4>2, <5>1, <5>2
      <4> QED BY <2>6, <4>1, <4>3 DEF Contains
    <3> QED BY <3>1, <3>2
  <2> QED BY <2>5, <2>6, <2>9, <2>10
<1> QED BY <1>1, <1>2

-----------------------------------------------------------------------------
(* RoomSelection: the candidates *)

\* What Entries and Age rest on: a host that announces has its place among
\* the announcements.
Registered(r, pr, rec) ==
  /\ pr \in [Host -> Lists(Project)] /\ rec \in Seq(Host)
  /\ \A h \in r \cap Host : pr[h] # <<>> => Contains(rec, h)

LEMMA EntryIs ==
  ASSUME NEW r, NEW pr, NEW rec, Registered(r, pr, rec)
  PROVE  /\ \A e \in Entries(r, pr) :
              /\ e.host \in r \cap Host /\ e.place \in Nat /\ e.id \in Project
              /\ e.id = pr[e.host][e.place] /\ e.place \in 1..Len(pr[e.host])
              /\ pr[e.host] # <<>>
         /\ \A x, y \in Entries(r, pr) : x.host = y.host /\ x.place = y.place => x = y
         /\ \A h \in r \cap Host : \A i \in 1..Len(pr[h]) : \E e \in Entries(r, pr) : e.host = h /\ e.id = pr[h][i]
<1>1. \A h \in Host : pr[h] \in Seq(Project) /\ DOMAIN pr[h] = 1..Len(pr[h]) /\ Len(pr[h]) \in Nat
  <2> TAKE h \in Host
  <2>1. pr[h] \in Seq(Project)
    BY DEF Registered, Lists
  <2> QED BY <2>1, LenProperties
<1>2. \A e \in Entries(r, pr) : \E h \in r \cap Host : \E i \in 1..Len(pr[h]) :
        e = [host |-> h, place |-> i, id |-> pr[h][i]]
  BY <1>1 DEF Entries
<1>3. \A h \in r \cap Host : \A i \in 1..Len(pr[h]) : [host |-> h, place |-> i, id |-> pr[h][i]] \in Entries(r, pr)
  BY <1>1 DEF Entries
<1>4. ASSUME NEW e \in Entries(r, pr)
      PROVE  /\ e.host \in r \cap Host /\ e.place \in Nat /\ e.id \in Project
             /\ e.id = pr[e.host][e.place] /\ e.place \in 1..Len(pr[e.host])
             /\ pr[e.host] # <<>> /\ e = [host |-> e.host, place |-> e.place, id |-> pr[e.host][e.place]]
  <2>0. PICK h \in r \cap Host : \E i \in 1..Len(pr[h]) : e = [host |-> h, place |-> i, id |-> pr[h][i]]
    BY <1>2
  <2>1. PICK i \in 1..Len(pr[h]) : e = [host |-> h, place |-> i, id |-> pr[h][i]]
    BY <2>0
  <2>2. pr[h] \in Seq(Project) /\ i \in Nat /\ pr[h][i] \in Project
    BY <1>1, ElementOfSeq
  <2>3. pr[h] # <<>>
    BY <1>1, EmptySeq
  <2> QED BY <2>1, <2>2, <2>3
<1>5. \A x, y \in Entries(r, pr) : x.host = y.host /\ x.place = y.place => x = y
  BY <1>4
<1>6. ASSUME NEW h \in r \cap Host, NEW i \in 1..Len(pr[h])
      PROVE  \E e \in Entries(r, pr) : e.host = h /\ e.id = pr[h][i]
  <2>1. [host |-> h, place |-> i, id |-> pr[h][i]] \in Entries(r, pr)
    BY <1>3
  <2> QED BY <2>1
<1> QED BY <1>4, <1>5, <1>6

LEMMA AgeIs ==
  ASSUME NEW rec \in Seq(Host)
  PROVE  /\ \A h : Contains(rec, h) => Age(h, rec) \in 1..Len(rec) /\ Age(h, rec) \in Nat /\ rec[Age(h, rec)] = h
         /\ \A g, h : Contains(rec, g) /\ Contains(rec, h) /\ Age(g, rec) = Age(h, rec) => g = h
<1>1. DOMAIN rec = 1..Len(rec) /\ Len(rec) \in Nat
  BY LenProperties
<1>2. \A h : Contains(rec, h) => Age(h, rec) \in 1..Len(rec) /\ rec[Age(h, rec)] = h
  BY <1>1 DEF Age, Contains
<1>3. \A h : Contains(rec, h) => Age(h, rec) \in Nat
  BY <1>1, <1>2
<1> QED BY <1>2, <1>3

\* One candidate comes before all others,
LEMMA BestIs ==
  ASSUME NEW r, NEW pr, NEW rec, NEW rdy, Registered(r, pr, rec), Entries(r, pr) # {}
  PROVE  /\ Best(Entries(r, pr), rdy, rec) \in Entries(r, pr)
         /\ \A y \in Entries(r, pr) \ {Best(Entries(r, pr), rdy, rec)} :
              Precedes(Best(Entries(r, pr), rdy, rec), y, rdy, rec)
<1> DEFINE es == Entries(r, pr)
<1>1. \A e \in es : Contains(rec, e.host) /\ Age(e.host, rec) \in Nat /\ e.place \in Nat
  BY EntryIs, AgeIs DEF Registered
<1>2. \A x, y \in es : Age(x.host, rec) = Age(y.host, rec) => x.host = y.host
  BY <1>1, AgeIs DEF Registered
<1>3. \A x, y \in es : x.host = y.host /\ x.place = y.place => x = y
  BY EntryIs
<1>4. es # {}
  OBVIOUS
<1> HIDE DEF es
<1>5. PICK e1 \in SUBSET es : /\ e1 # {} /\ \A x \in e1, y \in es \ e1 : x.id \in Folder /\ y.id \notin Folder
                              /\ \A x, y \in e1 : x.id \in Folder <=> y.id \in Folder
  <2> DEFINE f == {e \in es : e.id \in Folder}
  <2>1. CASE f = {}
    <3>1. es \in SUBSET es /\ \A x, y \in es : x.id \in Folder <=> y.id \in Folder
      BY <2>1
    <3> QED BY <1>4, <3>1
  <2>2. CASE f # {}
    <3>1. /\ f \in SUBSET es /\ \A x \in f, y \in es \ f : x.id \in Folder /\ y.id \notin Folder
          /\ \A x, y \in f : x.id \in Folder <=> y.id \in Folder
      OBVIOUS
    <3> QED BY <2>2, <3>1
  <2> QED BY <2>1, <2>2
<1>6. PICK e2 \in SUBSET e1 : /\ e2 # {} /\ \A x \in e2, y \in e1 \ e2 : x.host \in rdy /\ y.host \notin rdy
                              /\ \A x, y \in e2 : x.host \in rdy <=> y.host \in rdy
  <2> DEFINE f == {e \in e1 : e.host \in rdy}
  <2>1. CASE f = {}
    <3>1. e1 \in SUBSET e1 /\ \A x, y \in e1 : x.host \in rdy <=> y.host \in rdy
      BY <2>1
    <3> QED BY <1>5, <3>1
  <2>2. CASE f # {}
    <3>1. /\ f \in SUBSET e1 /\ \A x \in f, y \in e1 \ f : x.host \in rdy /\ y.host \notin rdy
          /\ \A x, y \in f : x.host \in rdy <=> y.host \in rdy
      OBVIOUS
    <3> QED BY <2>2, <3>1
  <2> QED BY <2>1, <2>2
<1>7. PICK z \in e2 : \A y \in e2 : Age(z.host, rec) <= Age(y.host, rec)
  <2> DEFINE ages == {Age(y.host, rec) : y \in e2}
  <2>1. ages # {} /\ ages \subseteq Nat
    BY <1>1, <1>5, <1>6
  <2>2. PICK m \in ages : \A n \in ages : m <= n
    BY <2>1, LeastOf
  <2> QED BY <2>2
<1>8. PICK x \in e2 : x.host = z.host /\ \A y \in e2 : y.host = z.host => x.place <= y.place
  <2> DEFINE places == {y.place : y \in {u \in e2 : u.host = z.host}}
  <2>1. places # {} /\ places \subseteq Nat
    BY <1>1, <1>5, <1>6
  <2>2. PICK m \in places : \A n \in places : m <= n
    BY <2>1, LeastOf
  <2> QED BY <2>2
<1>9. ASSUME NEW y \in es \ {x} PROVE Precedes(x, y, rdy, rec)
  <2>0. x \in e2 /\ x \in e1 /\ x \in es /\ y \in es
    BY <1>5, <1>6, <1>8
  <2>1. CASE y \notin e1
    BY <1>5, <2>0, <2>1 DEF Precedes
  <2>2. CASE y \in e1 /\ y \notin e2
    BY <1>5, <1>6, <2>0, <2>2 DEF Precedes
  <2>3. CASE y \in e2 /\ y.host = x.host
    <3>1. x.place <= y.place /\ x.place # y.place
      BY <1>3, <1>8, <2>0, <2>3
    <3>2. x.place < y.place
      BY <1>1, <2>0, <3>1
    <3> QED BY <1>5, <2>0, <2>3, <1>6, <3>2 DEF Precedes
  <2>4. CASE y \in e2 /\ y.host # x.host
    <3>1. Age(x.host, rec) <= Age(y.host, rec) /\ Age(x.host, rec) # Age(y.host, rec)
      BY <1>2, <1>7, <1>8, <2>0, <2>4
    <3>2. Age(x.host, rec) < Age(y.host, rec)
      BY <1>1, <2>0, <3>1
    <3> QED BY <1>5, <1>6, <2>0, <2>4, <3>2 DEF Precedes
  <2> QED BY <2>1, <2>2, <2>3, <2>4
<1>10. \E b \in es : \A y \in es \ {b} : Precedes(b, y, rdy, rec)
  BY <1>5, <1>6, <1>8, <1>9
<1>11. /\ Best(es, rdy, rec) \in es
       /\ \A y \in es \ {Best(es, rdy, rec)} : Precedes(Best(es, rdy, rec), y, rdy, rec)
  BY <1>10 DEF Best
<1> QED BY <1>11 DEF es

\* and only one.
LEMMA BestIsOne ==
  ASSUME NEW r, NEW pr, NEW rec, NEW rdy, Registered(r, pr, rec),
         NEW x \in Entries(r, pr), \A y \in Entries(r, pr) \ {x} : Precedes(x, y, rdy, rec)
  PROVE  x = Best(Entries(r, pr), rdy, rec)
<1> DEFINE b == Best(Entries(r, pr), rdy, rec)
<1>1. b \in Entries(r, pr) /\ \A y \in Entries(r, pr) \ {b} : Precedes(b, y, rdy, rec)
  BY BestIs
<1> HIDE DEF b
<1> SUFFICES ASSUME x # b PROVE FALSE
  BY DEF b
<1>2. Precedes(x, b, rdy, rec) /\ Precedes(b, x, rdy, rec)
  BY <1>1
<1>3. /\ Age(x.host, rec) \in Nat /\ Age(b.host, rec) \in Nat /\ x.place \in Nat /\ b.place \in Nat
  BY <1>1, EntryIs, AgeIs DEF Registered
<1> QED BY <1>2, <1>3 DEF Precedes

-----------------------------------------------------------------------------
(* RoomSelection: its state *)

\* The best candidate is an announced project, and a workspace if there is one.
LEMMA CandidateIs ==
  ASSUME NEW r, NEW pr, NEW rec, NEW rdy, Registered(r, pr, rec), Entries(r, pr) # {}
  PROVE  /\ Candidate(Entries(r, pr), rdy, rec) \in Project
         /\ Live(Candidate(Entries(r, pr), rdy, rec), Entries(r, pr))
         /\ \A e \in Entries(r, pr) : e.id \in Folder => Candidate(Entries(r, pr), rdy, rec) \in Folder
<1>1. PICK b \in Entries(r, pr) : /\ b = Best(Entries(r, pr), rdy, rec)
                                  /\ \A y \in Entries(r, pr) \ {b} : Precedes(b, y, rdy, rec)
  BY BestIs
<1>2. b.id \in Project /\ Candidate(Entries(r, pr), rdy, rec) = b.id
  BY <1>1, EntryIs DEF Candidate
<1>3. \A e \in Entries(r, pr) : e.id \in Folder => b.id \in Folder
  BY <1>1 DEF Precedes
<1> QED BY <1>2, <1>3 DEF Live

\* What a read of the active project returns, and what it leaves selected.
LEMMA ReadIs ==
  ASSUME NEW r, NEW pr, NEW rec, NEW rdy, Registered(r, pr, rec),
         NEW sel \in Project \cup {None}, NEW want \in Project \cup {None}
  PROVE  /\ Active(want, sel, Entries(r, pr), rdy, rec) \in Project \cup {None}
         /\ SelectionAfter(want, sel, Entries(r, pr), rdy, rec) \in Project \cup {None}
<1>1. Entries(r, pr) # {} => Candidate(Entries(r, pr), rdy, rec) \in Project
  BY CandidateIs
<1> QED BY <1>1 DEF Active, SelectionAfter

LEMMA TypeIsRegistered ==
  ASSUME TypeOK PROVE Registered(room, projects, recent)
BY DEF TypeOK, Registered

LEMMA NotRoomTyped ==
  ASSUME TypeOK, UNCHANGED <<room, projects, ready, recent>>,
         selection' \in Project \cup {None}, confirming' \in [Phone -> Project \cup {None}]
  PROVE  TypeOK'
BY DEF TypeOK, Conn

LEMMA ReadTyped ==
  ASSUME TypeOK, NEW want \in Project \cup {None}, ReadActive(want),
         UNCHANGED <<room, projects, ready, recent, confirming>>
  PROVE  TypeOK'
<1>1. selection' \in Project \cup {None}
  <2>1. selection \in Project \cup {None}
    BY DEF TypeOK
  <2> QED BY <2>1, TypeIsRegistered, ReadIs DEF ReadActive, Here
<1> QED BY <1>1, NotRoomTyped DEF TypeOK

LEMMA ConnectTyped ==
  ASSUME TypeOK, NEW c \in Conn, Connect(c)
  PROVE  TypeOK'
BY DEF TypeOK, Connect, Conn

LEMMA AnnounceTyped ==
  ASSUME TypeOK, NEW h \in Host, NEW list \in Lists(Project) \ {<<>>}, NEW isReady, Announce(h, list, isReady)
  PROVE  TypeOK'
<1>1. projects' \in [Host -> Lists(Project)] /\ \A g \in Host : projects'[g] = IF g = h THEN list ELSE projects[g]
  BY DEF TypeOK, Announce
<1>2. /\ RemoveFirst(recent, h) \in Seq(Host) /\ IsInjective(RemoveFirst(recent, h))
      /\ \A d : Contains(RemoveFirst(recent, h), d) <=> Contains(recent, d) /\ d # h
  BY RemoveFirstIs DEF TypeOK
<1>3. /\ recent' \in Seq(Host) /\ IsInjective(recent')
      /\ \A d : Contains(recent', d) <=> Contains(recent, d) \/ d = h
  <2>1. \A d : ~(Contains(<<h>>, d) /\ Contains(RemoveFirst(recent, h), d))
    BY <1>2, Singleton
  <2>2. /\ <<h>> \o RemoveFirst(recent, h) \in Seq(Host) /\ IsInjective(<<h>> \o RemoveFirst(recent, h))
        /\ \A d : Contains(<<h>> \o RemoveFirst(recent, h), d) <=> Contains(<<h>>, d) \/ Contains(RemoveFirst(recent, h), d)
    <3>1. <<h>> \in Seq(Host) /\ IsInjective(<<h>>)
      BY Singleton
    <3> QED BY <1>2, <2>1, <3>1, JoinedLists
  <2>3. \A d : Contains(<<h>>, d) <=> d = h
    BY Singleton
  <2>4. recent' = <<h>> \o RemoveFirst(recent, h)
    BY DEF Announce
  <2>5. \A d : Contains(recent', d) <=> Contains(recent, d) \/ d = h
    BY ONLY <1>2, <2>2, <2>3, <2>4
  <2> QED BY <2>2, <2>4, <2>5
<1>4. \A g \in Host : projects'[g] # <<>> <=> Contains(recent', g)
  BY <1>1, <1>3 DEF TypeOK
<1>5. \A g \in Host : projects'[g] # <<>> => g \in room'
  BY <1>1 DEF TypeOK, Announce
<1>6. selection' \in Project \cup {None}
  <2>1. Registered(room, projects', recent')
    BY <1>1, <1>3, <1>4 DEF Registered
  <2>2. list[1] \in Project
    <3>1. list \in Seq(Project) /\ list # <<>>
      BY DEF Lists
    <3> QED BY <3>1, LenProperties, EmptySeq, ElementOfSeq
  <2>3. PICK sel \in {list[1], selection} :
          selection' = SelectionAfter(None, sel, Entries(room, projects'), ready', recent')
    BY DEF Announce
  <2>4. sel \in Project \cup {None}
    BY <2>2 DEF TypeOK
  <2> QED BY <2>1, <2>3, <2>4, ReadIs
<1>7. room' \subseteq Conn /\ ready' \subseteq Host /\ confirming' \in [Phone -> Project \cup {None}]
  BY DEF TypeOK, Announce
<1> QED BY <1>1, <1>3, <1>4, <1>5, <1>6, <1>7 DEF TypeOK, Conn

LEMMA DisconnectTyped ==
  ASSUME TypeOK, NEW c \in Conn, Disconnect(c)
  PROVE  TypeOK'
<1>1. projects' \in [Host -> Lists(Project)] /\ \A g \in Host : projects'[g] = IF g = c THEN <<>> ELSE projects[g]
  <2>1. <<>> \in Lists(Project)
    BY EmptySeq DEF Lists, IsInjective
  <2> QED BY <2>1 DEF TypeOK, Disconnect
<1>2. /\ recent' \in Seq(Host) /\ IsInjective(recent')
      /\ \A d : Contains(recent', d) <=> Contains(recent, d) /\ d # c
  BY RemoveFirstIs DEF TypeOK, Disconnect
<1>3. \A g \in Host : projects'[g] # <<>> <=> Contains(recent', g)
  BY <1>1, <1>2 DEF TypeOK
<1>4. \A g \in Host : projects'[g] # <<>> => g \in room'
  BY <1>1 DEF TypeOK, Disconnect
<1>5. selection' \in Project \cup {None}
  <2>1. Registered(room', projects', recent')
    BY <1>1, <1>2, <1>3 DEF Registered
  <2>2. selection \in Project \cup {None}
    BY DEF TypeOK
  <2>3. Active(None, selection, Entries(room', projects'), ready', recent') \in Project \cup {None}
    BY <2>1, <2>2, ReadIs
  <2> QED BY <2>2, <2>3 DEF Disconnect
<1>6. room' \subseteq Conn /\ ready' \subseteq Host /\ confirming' \in [Phone -> Project \cup {None}]
  BY DEF TypeOK, Disconnect
<1> QED BY <1>1, <1>2, <1>3, <1>4, <1>5, <1>6 DEF TypeOK, Conn

-----------------------------------------------------------------------------
(* RoomSelection: its theorems *)

LEMMA NextTyped ==
  ASSUME TypeOK, [Next]_vars
  PROVE  TypeOK'
<1>1. CASE UNCHANGED vars
  BY <1>1 DEF TypeOK, vars, Conn
<1>2. ASSUME NEW c \in Conn, Connect(c) \/ Disconnect(c)
      PROVE  TypeOK'
  BY <1>2, ConnectTyped, DisconnectTyped
<1>3. ASSUME NEW h \in Host, NEW list \in Announcements, NEW isReady \in BOOLEAN, Announce(h, list, isReady)
      PROVE  TypeOK'
  <2>1. list \in Lists(Project) \ {<<>>}
    <3>1. PICK n \in 1..MaxListed : list \in [1..n -> Project] /\ IsInjective(list)
      BY DEF Announcements
    <3>2. n \in Nat /\ n # 0
      BY DEF SelectionAssumption
    <3>3. list \in Seq(Project) /\ Len(list) = n
      BY <3>1, <3>2, SeqDef, LenProperties
    <3> QED BY <3>1, <3>2, <3>3, EmptySeq DEF Lists
  <2> QED BY <2>1, <1>3, AnnounceTyped
<1>4. CASE Snapshot
  BY <1>4, ReadTyped DEF Snapshot
<1>5. ASSUME NEW p \in Phone, ConfirmSelection(p)
      PROVE  TypeOK'
  <2>1. /\ confirming[p] \in Project \cup {None}
        /\ confirming' \in [Phone -> Project \cup {None}]
        /\ selection \in Project \cup {None}
    BY <1>5 DEF TypeOK, ConfirmSelection
  <2>2. selection' \in Project \cup {None}
    BY <1>5, <2>1, TypeIsRegistered, ReadIs DEF ConfirmSelection, ReadActive, Here
  <2> QED BY <1>5, <2>1, <2>2, NotRoomTyped DEF ConfirmSelection
<1>6. ASSUME NEW p \in Phone, NEW id \in Project, SelectProject(p, id)
      PROVE  TypeOK'
  <2>1. confirming' \in [Phone -> Project \cup {None}]
    BY <1>6 DEF TypeOK, SelectProject
  <2>2. selection' \in Project \cup {None}
    BY <1>6, TypeIsRegistered, ReadIs DEF SelectProject, Here
  <2> QED BY <1>6, <2>1, <2>2, NotRoomTyped DEF SelectProject
<1>7. ASSUME NEW want \in Project \cup {None}, Route(want)
      PROVE  TypeOK'
  BY <1>7, ReadTyped DEF Route
<1> QED BY <1>1, <1>2, <1>3, <1>4, <1>5, <1>6, <1>7 DEF Next

(* A room with its background tasks (RoomSync) does what RoomSelection says, *)
(* so that every theorem about Spec holds of it.                            *)
LEMMA SyncIsSelection == SyncSpec => Spec
<1>1. SyncInit => Init
  BY DEF SyncInit
<1>2. ASSUME [SyncNext]_syncVars PROVE [Next]_vars
  BY <1>2 DEF SyncNext, syncVars, Join, Leave, Evict, Command, BroadcastEnds, PeriodicSync,
              Others, Next
<1> QED BY <1>1, <1>2, PTL DEF SyncSpec, Spec

(* The registry of the backend is well formed: a host that announced        *)
(* projects is in the room and has exactly one place among the              *)
(* announcements, and the selection is a project or none.                   *)
THEOREM SelectionTypeCorrect == Spec => []TypeOK
<1>1. Init => TypeOK
  <2>1. <<>> \in Lists(Project) /\ <<>> \in Seq(Host) /\ IsInjective(<<>>) /\ \A d : ~Contains(<<>>, d)
    BY EmptySeq DEF Lists, IsInjective, Contains
  <2> QED BY <2>1 DEF Init, TypeOK
<1> QED BY <1>1, NextTyped, PTL DEF Spec

(* The parts of a snapshot name the same active project, and it is the      *)
(* selection that the registry marks when the snapshot has been built.      *)
THEOREM SnapshotsAgree == Spec => []SnapshotAgrees
<1>1. SnapshotAgrees
  BY DEF SnapshotAgrees, Active, SelectionAfter
<1> QED BY <1>1, PTL

\* A read of the active project, whichever project is asked for, names one
\* that a host in the room announces, and one with a workspace if any has.
ActiveIsAnnounced ==
  \A want \in Project \cup {None} :
    LET id == Active(want, selection, Here, ready, recent) IN
    Here # {} => /\ Live(id, Here)
                 /\ (\E e \in Here : e.id \in Folder) => id \in Folder

(* Every reader of the active project gets one that is announced: a         *)
(* selection or a request for a project that is gone never survives the     *)
(* read (get_active_host_project).                                          *)
THEOREM ReadsAreAnnounced == Spec => []ActiveIsAnnounced
<1>1. TypeOK => ActiveIsAnnounced
  <2> SUFFICES ASSUME TypeOK, Here # {}, NEW want \in Project \cup {None}
               PROVE  LET id == Active(want, selection, Here, ready, recent) IN
                      Live(id, Here) /\ ((\E e \in Here : e.id \in Folder) => id \in Folder)
    BY DEF ActiveIsAnnounced
  <2>1. /\ Live(Candidate(Here, ready, recent), Here)
        /\ \A e \in Here : e.id \in Folder => Candidate(Here, ready, recent) \in Folder
    BY TypeIsRegistered, CandidateIs DEF Here
  <2> QED BY <2>1 DEF Active, Usable
<1> QED BY <1>1, SelectionTypeCorrect, PTL

\* While the selected project stays usable no host, and no snapshot, moves the
\* selection, and a command moves it only when its own project is not usable.
LEMMA OthersKeep ==
  ASSUME Usable(selection, Here), Usable(selection, Here'), selection' # selection
  PROVE  /\ \A c \in Conn : ~Connect(c) /\ ~Disconnect(c)
         /\ \A h \in Host : \A list, isReady : ~Announce(h, list, isReady)
         /\ ~Snapshot
         /\ \A want : Route(want) => want # None /\ ~Usable(want, Here)
<1>0. selection # None /\ Here # {} /\ Here' # {} /\ Here' = Entries(room', projects')
  BY DEF Usable, Live, Here, SelectionAssumption
<1>1. ~\E c \in Conn : Connect(c)
  BY DEF Connect
<1>2. ASSUME NEW c \in Conn, Disconnect(c) PROVE FALSE
  <2>1. room' # {}
    BY <1>0 DEF Entries
  <2>2. Active(None, selection, Entries(room', projects'), ready', recent') = selection
    BY <1>0 DEF Active
  <2> QED BY <1>2, <2>1, <2>2 DEF Disconnect
<1>3. ASSUME NEW h \in Host, NEW list, NEW isReady, Announce(h, list, isReady) PROVE FALSE
  <2>1. room' = room
    BY <1>3 DEF Announce
  <2>2. ~Replaces(selection, Here', list[1])
    BY <1>0 DEF Replaces, Usable
  <2>3. SelectionAfter(None, selection, Here', ready', recent') = selection
    BY DEF SelectionAfter
  <2> QED BY <1>0, <1>3, <2>1, <2>2, <2>3 DEF Announce
<1>4. ~Snapshot
  BY DEF Snapshot, ReadActive, SelectionAfter
<1>5. ASSUME NEW want, Route(want) PROVE want # None /\ ~Usable(want, Here)
  BY <1>5 DEF Route, ReadActive, SelectionAfter
<1> QED BY <1>1, <1>2, <1>3, <1>4, <1>5

(* While the selected project stays usable, only a phone's selection, or a  *)
(* read for a project that is not usable, moves the selection; no host that *)
(* comes, goes or announces something else does.                            *)
THEOREM SelectionIsKept == Spec => SelectionNotStolen
<1> DEFINE Kept(id) ==
      id = selection /\ Usable(id, Here) /\ Usable(id, Here') /\ selection' # id =>
         \/ \E p \in Phone, pr \in Project : SelectProject(p, pr)
         \/ \E p \in Phone : ConfirmSelection(p) /\ ~Usable(confirming[p], Here)
         \/ \E pr \in Project : Route(pr) /\ ~Usable(pr, Here)
<1>1. ASSUME Next PROVE \A id \in Project : Kept(id)
  <2> SUFFICES ASSUME Usable(selection, Here), Usable(selection, Here'), selection' # selection
               PROVE  \/ \E p \in Phone, pr \in Project : SelectProject(p, pr)
                      \/ \E p \in Phone : ConfirmSelection(p) /\ ~Usable(confirming[p], Here)
                      \/ \E pr \in Project : Route(pr) /\ ~Usable(pr, Here)
    OBVIOUS
  <2>1. ASSUME NEW p \in Phone, ConfirmSelection(p)
        PROVE  ~Usable(confirming[p], Here)
    BY <2>1 DEF ConfirmSelection, ReadActive, SelectionAfter
  <2> HIDE DEF Kept
  <2> QED BY <1>1, <2>1, OthersKeep DEF Next
<1>2. ASSUME UNCHANGED vars PROVE \A id \in Project : Kept(id)
  BY <1>2 DEF vars
<1>3. [Next]_vars => [\A id \in Project : Kept(id)]_vars
  BY <1>1, <1>2
<1> QED BY <1>3, PTL DEF Spec, SelectionNotStolen, Kept

-----------------------------------------------------------------------------
(* ProjectRouting: the invariant                                            *)
(*                                                                         *)
(* What the registry holds of a window is current only when nothing is on   *)
(* its way; while reports are on their way, it is the last of them that is   *)
(* current.                                                                *)

Reports == Lists(Project) \ {<<>>}

LinksRight ==
  \A w \in Window : link[w] # None => link[w] \in Host /\ link[w] \in room /\ WindowOf[link[w]] = w

LastIsCurrent ==
  \A w \in Window :
    LET h == link[w] IN
    h # None => IF wire[h] = <<>> THEN projects[h] # <<>> => projects[h] = Projects(folders[w])
                ELSE wire[h][Len(wire[h])] = Projects(folders[w])

WindowsOK ==
  /\ folders \in [Window -> Lists(Folder)] /\ picker \subseteq Window
  /\ DOMAIN link = Window /\ wire \in [Host -> Seq(Reports)]
  /\ LinksRight
  /\ \A h \in Host : wire[h] # <<>> => link[WindowOf[h]] = h
  /\ LastIsCurrent

JoinedOK == joined \in Seq(Host) /\ ToSet(joined) = room \cap Host /\ IsInjective(joined)

\* A command that names a project that was there carries its path.
QueueOK ==
  /\ queue \in Seq(Commands)
  /\ \A i \in DOMAIN queue : queue[i].known => queue[i].root = queue[i].want

RInv ==
  /\ TypeOK /\ JoinedOK /\ WindowsOK /\ QueueOK
  /\ seen \in [Phone -> View] /\ changes \in 0..MaxChanges

LEMMA InvTyped == RInv => RoutingTypeOK
BY DEF RInv, JoinedOK, WindowsOK, QueueOK, LinksRight, RoutingTypeOK

LEMMA ToSetIs ==
  ASSUME NEW S, NEW s \in Seq(S)
  PROVE  \A d : d \in ToSet(s) <=> Contains(s, d)
<1>1. DOMAIN s = 1..Len(s)
  BY LenProperties
<1> QED BY <1>1 DEF ToSet, Contains

LEMMA ProjectsIs ==
  ASSUME NEW fs \in Lists(Folder)
  PROVE  Projects(fs) \in Reports
<1>1. <<Blank>> \in Reports
  BY Singleton, RoutingAssumption DEF Reports, Lists
<1>2. fs # <<>> => fs \in Reports
  BY RoutingAssumption DEF Reports, Lists
<1> QED BY <1>1, <1>2 DEF Projects

\* The windows do not see what the backend does with the selection.
LEMMA WindowsFrame ==
  ASSUME WindowsOK, UNCHANGED <<room, projects, windowVars>>
  PROVE  WindowsOK'
BY DEF WindowsOK, LinksRight, LastIsCurrent, windowVars

\* A window that reports what it has open now.
LEMMA ReportedKeeps ==
  ASSUME WindowsOK, NEW w \in Window, UNCHANGED <<room, projects, link>>, picker' \subseteq Window,
         folders' \in [Window -> Lists(Folder)], \A v \in Window \ {w} : folders'[v] = folders[v],
         wire' = Reported(w, folders'[w])
  PROVE  WindowsOK'
<1>1. CASE link[w] = None
  BY <1>1 DEF WindowsOK, LinksRight, LastIsCurrent, Reported
<1>2. CASE link[w] # None
  <2> DEFINE g == link[w]
             p == Projects(folders'[w])
  <2>1. g \in Host /\ WindowOf[g] = w /\ p \in Reports
    BY <1>2, ProjectsIs DEF WindowsOK, LinksRight
  <2>2. wire' = [wire EXCEPT ![g] = Append(@, p)]
    BY <1>2 DEF Reported
  <2> HIDE DEF g, p
  <2>3. wire[g] \in Seq(Reports)
    BY <2>1 DEF WindowsOK
  <2>4. /\ Append(wire[g], p) \in Seq(Reports) /\ Append(wire[g], p) # <<>>
        /\ Append(wire[g], p)[Len(Append(wire[g], p))] = p
    BY <2>1, <2>3, AppendProperties
  <2>5. /\ wire' \in [Host -> Seq(Reports)] /\ wire'[g] = Append(wire[g], p)
        /\ \A h \in Host \ {g} : wire'[h] = wire[h]
    BY <2>1, <2>2, <2>4 DEF WindowsOK
  <2>6. \A h \in Host : wire'[h] # <<>> => link[WindowOf[h]] = h
    BY <2>1, <2>5 DEF WindowsOK, g
  <2>7. ASSUME NEW v \in Window, link[v] # None
        PROVE  IF wire'[link[v]] = <<>> THEN projects[link[v]] # <<>> => projects[link[v]] = Projects(folders'[v])
               ELSE wire'[link[v]][Len(wire'[link[v]])] = Projects(folders'[v])
    <3>1. CASE v = w
      BY <3>1, <2>4, <2>5 DEF g, p
    <3>2. CASE v # w
      <4>1. link[v] \in Host /\ link[v] # g
        BY <3>2, <2>1, <2>7 DEF WindowsOK, LinksRight
      <4> QED BY <3>2, <4>1, <2>5, <2>7 DEF WindowsOK, LastIsCurrent
    <3> QED BY <3>1, <3>2
  <2> QED BY <2>5, <2>6, <2>7 DEF WindowsOK, LinksRight, LastIsCurrent
<1> QED BY <1>1, <1>2

-----------------------------------------------------------------------------
(* ProjectRouting: the steps of the windows *)

LEMMA OpenKeeps ==
  ASSUME RInv, NEW w \in Window, NEW h \in Host, Open(w, h)
  PROVE  RInv'
<1>0. TypeOK /\ JoinedOK /\ WindowsOK /\ h \in Conn
  BY DEF RInv, Conn
<1>1. TypeOK'
  BY <1>0, ConnectTyped DEF Open
<1>2. JoinedOK'
  <2>1. joined \in Seq(Host) /\ IsInjective(joined) /\ \A d : d \in room \cap Host <=> Contains(joined, d)
    BY <1>0, ToSetIs DEF JoinedOK
  <2>2. ~Contains(joined, h)
    BY <2>1 DEF Open, Connect
  <2>3. <<h>> \in Seq(Host) /\ IsInjective(<<h>>) /\ \A d : Contains(<<h>>, d) <=> d = h
    BY Singleton
  <2>4. /\ joined \o <<h>> \in Seq(Host) /\ IsInjective(joined \o <<h>>)
        /\ \A d : Contains(joined \o <<h>>, d) <=> Contains(joined, d) \/ d = h
    <3>1. \A d : ~(Contains(joined, d) /\ Contains(<<h>>, d))
      BY <2>2, <2>3
    <3>2. /\ joined \o <<h>> \in Seq(Host) /\ IsInjective(joined \o <<h>>)
          /\ \A d : Contains(joined \o <<h>>, d) <=> Contains(joined, d) \/ Contains(<<h>>, d)
      BY <2>1, <2>3, <3>1, JoinedLists
    <3> QED BY <2>3, <3>2
  <2>5. joined' = joined \o <<h>>
    BY <2>1, AppendIsConcat DEF Open
  <2>6. \A d : d \in ToSet(joined') <=> d \in room' \cap Host
    <3>1. \A d : d \in ToSet(joined \o <<h>>) <=> Contains(joined \o <<h>>, d)
      BY <2>4, ToSetIs
    <3> QED BY <3>1, <2>1, <2>4, <2>5 DEF Open, Connect
  <2> QED BY <2>4, <2>5, <2>6 DEF JoinedOK
<1>3. WindowsOK'
  <2>1. /\ link[w] = None /\ WindowOf[h] = w /\ h \notin room /\ h # None
        /\ room' = room \cup {h} /\ link' = [link EXCEPT ![w] = h]
        /\ UNCHANGED <<folders, picker, wire, projects>>
    BY SelectionAssumption DEF Open, Connect
  <2>2. wire[h] = <<>> /\ projects[h] = <<>>
    BY <1>0, <2>1 DEF WindowsOK, TypeOK
  <2>3. \A g \in Host : wire[g] # <<>> => link'[WindowOf[g]] = g
    BY <1>0, <2>1, <2>2, RoutingAssumption DEF WindowsOK
  <2> QED BY <1>0, <2>1, <2>2, <2>3 DEF WindowsOK, LinksRight, LastIsCurrent
<1> QED BY <1>1, <1>2, <1>3 DEF RInv, QueueOK, Open

LEMMA BreakKeeps ==
  ASSUME RInv, NEW w \in Window, Break(w)
  PROVE  RInv'
<1>0. WindowsOK /\ changes \in 0..MaxChanges
  BY DEF RInv
<1>1. TypeOK' /\ JoinedOK' /\ QueueOK' /\ seen' \in [Phone -> View]
  BY DEF RInv, TypeOK, JoinedOK, QueueOK, Break, roomVars, vars, Conn
<1>2. changes' \in 0..MaxChanges
  BY <1>0, RoutingAssumption DEF Break
<1>3. WindowsOK'
  <2> DEFINE g == link[w]
  <2>1. /\ g \in Host /\ WindowOf[g] = w /\ link[w] = g
        /\ link' = [link EXCEPT ![w] = None] /\ wire' = [wire EXCEPT ![g] = <<>>]
        /\ UNCHANGED <<folders, picker, room, projects>>
    BY <1>0 DEF WindowsOK, LinksRight, Break, roomVars, vars
  <2> HIDE DEF g
  <2>2. wire' \in [Host -> Seq(Reports)]
    BY <1>0, <2>1, EmptySeq DEF WindowsOK
  <2>3. \A h \in Host : wire'[h] # <<>> => link'[WindowOf[h]] = h
    BY <1>0, <2>1, RoutingAssumption DEF WindowsOK
  <2>4. \A v \in Window : link'[v] # None => v # w /\ link'[v] = link[v] /\ link[v] \in Host /\ link[v] # g
    BY <1>0, <2>1 DEF WindowsOK, LinksRight
  <2>5. LinksRight' /\ LastIsCurrent'
    BY <1>0, <2>1, <2>4 DEF WindowsOK, LinksRight, LastIsCurrent
  <2> QED BY <1>0, <2>1, <2>2, <2>3, <2>5 DEF WindowsOK
<1> QED BY <1>1, <1>2, <1>3 DEF RInv

LEMMA ReportKeeps ==
  ASSUME RInv, NEW w \in Window, Report(w)
  PROVE  RInv'
<1>1. TypeOK' /\ JoinedOK' /\ QueueOK' /\ seen' \in [Phone -> View] /\ changes' \in 0..MaxChanges
  BY DEF RInv, TypeOK, JoinedOK, QueueOK, Report, roomVars, vars, Conn
<1>2. WindowsOK'
  <2>1. WindowsOK /\ folders' = folders /\ folders \in [Window -> Lists(Folder)]
    BY DEF RInv, WindowsOK, Report
  <2>2. wire' = Reported(w, folders'[w])
    BY <2>1 DEF Report
  <2> QED BY <2>1, <2>2, ReportedKeeps DEF WindowsOK, Report, roomVars, vars
<1> QED BY <1>1, <1>2 DEF RInv

LEMMA ChangeKeeps ==
  ASSUME RInv, NEW w \in Window, NEW list \in Layouts[w], ChangeFolders(w, list)
  PROVE  RInv'
<1>1. TypeOK' /\ JoinedOK' /\ QueueOK' /\ seen' \in [Phone -> View]
  BY DEF RInv, TypeOK, JoinedOK, QueueOK, ChangeFolders, roomVars, vars, Conn
<1>2. changes' \in 0..MaxChanges
  BY RoutingAssumption DEF RInv, ChangeFolders
<1>3. WindowsOK'
  <2>0. list \in Lists(Folder)
    BY RoutingAssumption
  <2>1. /\ folders' \in [Window -> Lists(Folder)] /\ folders'[w] = list
        /\ \A v \in Window \ {w} : folders'[v] = folders[v]
    BY <2>0 DEF RInv, WindowsOK, ChangeFolders
  <2>2. wire' = Reported(w, folders'[w])
    BY <2>1 DEF ChangeFolders
  <2> QED BY <2>1, <2>2, ReportedKeeps DEF RInv, WindowsOK, ChangeFolders, roomVars, vars
<1> QED BY <1>1, <1>2, <1>3 DEF RInv

LEMMA PickerKeeps ==
  ASSUME RInv, NEW w \in Window, NEW chosen \in SUBSET UNION {ToSet(l) : l \in Layouts[w]}, ClosePicker(w, chosen)
  PROVE  RInv'
<1> DEFINE new == NewFolders(w, chosen)
<1>0. WindowsOK /\ folders \in [Window -> Lists(Folder)] /\ picker' \subseteq Window
  BY DEF RInv, WindowsOK, ClosePicker
<1>a. UNCHANGED <<room, projects, link>>
  BY DEF ClosePicker, roomVars, vars
<1>b. \/ UNCHANGED <<folders, wire>>
      \/ wire' = Reported(w, folders[w]) /\ UNCHANGED folders
      \/ /\ \E order \in SetToSeqs(new) : folders' = [folders EXCEPT ![w] = @ \o order]
         /\ wire' = Reported(w, folders'[w])
  BY DEF ClosePicker
<1> HIDE DEF new
<1>1. TypeOK' /\ JoinedOK' /\ QueueOK' /\ seen' \in [Phone -> View]
  BY DEF RInv, TypeOK, JoinedOK, QueueOK, ClosePicker, roomVars, vars, Conn
<1>2. changes' \in 0..MaxChanges
  BY RoutingAssumption DEF RInv, ClosePicker
<1>3. ASSUME UNCHANGED <<folders, wire>> PROVE WindowsOK'
  BY <1>0, <1>a, <1>3 DEF WindowsOK, LinksRight, LastIsCurrent
<1>4. ASSUME wire' = Reported(w, folders[w]), UNCHANGED folders PROVE WindowsOK'
  <2>1. wire' = Reported(w, folders'[w]) /\ folders' \in [Window -> Lists(Folder)]
    BY <1>0, <1>4
  <2> QED BY <1>0, <1>a, <1>4, <2>1, ReportedKeeps
<1>5. ASSUME NEW order \in SetToSeqs(new), folders' = [folders EXCEPT ![w] = @ \o order],
             wire' = Reported(w, folders'[w])
      PROVE  WindowsOK'
  <2>1. new \subseteq Folder /\ IsFiniteSet(new) /\ Cardinality(new) \in Nat
    <3>1. \A l \in Layouts[w] : l \in Seq(Folder) /\ ToSet(l) \subseteq Folder
      <4> TAKE l \in Layouts[w]
      <4>1. l \in Seq(Folder)
        BY RoutingAssumption DEF Lists
      <4>2. DOMAIN l = 1..Len(l) /\ \A i \in 1..Len(l) : l[i] \in Folder
        BY <4>1, LenProperties, ElementOfSeq
      <4> QED BY <4>1, <4>2 DEF ToSet
    <3>2. new \in SUBSET chosen /\ IsFiniteSet(chosen)
      BY DEF new, NewFolders, ClosePicker
    <3>3. new \subseteq Folder /\ IsFiniteSet(new)
      BY <3>1, <3>2, FS_Subset
    <3> QED BY <3>3, FS_CardinalityType
  <2>2. /\ order \in [1..Cardinality(new) -> new]
        /\ \A i, j \in 1..Cardinality(new) : i # j => order[i] # order[j]
    BY <1>5 DEF SetToSeqs
  <2>3. order \in Seq(Folder) /\ Len(order) = Cardinality(new)
    <3>1. order \in [1..Cardinality(new) -> Folder]
      BY <2>1, <2>2
    <3> QED BY <2>1, <3>1, SeqDef, LenProperties
  <2>4. IsInjective(order) /\ \A d : Contains(order, d) => d \in new
    BY <2>2, <2>3 DEF IsInjective, Contains
  <2>5. folders[w] \in Seq(Folder) /\ IsInjective(folders[w])
    BY <1>0 DEF Lists
  <2>6. \A d : ~(Contains(folders[w], d) /\ Contains(order, d))
    BY <2>4, <2>5, ToSetIs DEF new, NewFolders
  <2>7. folders[w] \o order \in Lists(Folder)
    BY <2>3, <2>4, <2>5, <2>6, JoinedLists DEF Lists
  <2>8. folders' \in [Window -> Lists(Folder)] /\ \A v \in Window \ {w} : folders'[v] = folders[v]
    BY <1>0, <1>5, <2>7
  <2> QED BY <1>0, <1>a, <1>5, <2>8, ReportedKeeps
<1>6. WindowsOK'
  BY <1>b, <1>3, <1>4, <1>5
<1> QED BY <1>1, <1>2, <1>6 DEF RInv

-----------------------------------------------------------------------------
(* ProjectRouting: the steps of the backend and of the phones *)

LEMMA HearKeeps ==
  ASSUME RInv, NEW h \in Host, Hear(h)
  PROVE  RInv'
<1> DEFINE l == Head(wire[h])
           w == WindowOf[h]
<1>0. WindowsOK /\ TypeOK /\ w \in Window
  BY RoutingAssumption DEF RInv
<1>1. /\ wire[h] \in Seq(Reports) /\ wire[h] # <<>> /\ Len(wire[h]) \in Nat
      /\ l \in Reports /\ l = wire[h][1] /\ link[w] = h /\ h # None
  <2>1. wire[h] \in Seq(Reports) /\ wire[h] # <<>> /\ link[w] = h
    BY <1>0 DEF WindowsOK, Hear
  <2>2. l \in Reports /\ l = wire[h][1]
    BY <2>1, HeadTailProperties
  <2> QED BY <2>1, <2>2, LenProperties, SelectionAssumption
<1>2. /\ wire' = [wire EXCEPT ![h] = Tail(@)] /\ Announce(h, l, TRUE)
      /\ UNCHANGED <<joined, folders, picker, link, seen, queue, changes>>
  BY DEF Hear
<1> HIDE DEF l, w
<1>3. TypeOK'
  BY <1>0, <1>1, <1>2, AnnounceTyped DEF Reports
<1>4. JoinedOK' /\ QueueOK' /\ seen' \in [Phone -> View] /\ changes' \in 0..MaxChanges
  BY <1>2 DEF RInv, JoinedOK, QueueOK, Announce
<1>5. WindowsOK'
  <2>1. /\ Tail(wire[h]) \in Seq(Reports) /\ Len(Tail(wire[h])) = Len(wire[h]) - 1
        /\ \A i \in 1..Len(Tail(wire[h])) : Tail(wire[h])[i] = wire[h][i + 1]
    BY <1>1, HeadTailProperties
  <2>2. /\ wire' \in [Host -> Seq(Reports)] /\ wire'[h] = Tail(wire[h])
        /\ \A g \in Host \ {h} : wire'[g] = wire[g] /\ projects'[g] = projects[g]
        /\ projects'[h] = l /\ room' = room
    BY <1>0, <1>2, <2>1 DEF WindowsOK, TypeOK, Announce
  <2>3. \A g \in Host : wire'[g] # <<>> => link'[WindowOf[g]] = g
    BY <1>0, <1>1, <1>2, <2>2 DEF WindowsOK, w
  <2>4. LinksRight'
    BY <1>0, <1>2, <2>2 DEF WindowsOK, LinksRight
  <2>5. wire[h][Len(wire[h])] = Projects(folders[w])
    BY <1>0, <1>1 DEF WindowsOK, LastIsCurrent
  <2>6. IF wire'[h] = <<>> THEN projects'[h] = Projects(folders[w])
        ELSE wire'[h][Len(wire'[h])] = Projects(folders[w])
    <3>1. CASE Tail(wire[h]) = <<>>
      <4>0. Len(Tail(wire[h])) = 0
        BY <3>1, EmptySeq, Zenon
      <4> DEFINE n == Len(Tail(wire[h]))
      <4> HIDE DEF n
      <4>1. n = Len(wire[h]) - 1 /\ n = 0
        BY <2>1, <4>0 DEF n
      <4>2. Len(wire[h]) = 1
        BY <1>1, <4>1
      <4> QED BY <1>1, <2>2, <2>5, <3>1, <4>2
    <3>2. CASE Tail(wire[h]) # <<>>
      <4>1. Len(Tail(wire[h])) \in 1..Len(Tail(wire[h])) /\ Len(Tail(wire[h])) + 1 = Len(wire[h])
        BY <1>1, <2>1, <3>2, EmptySeq, LenProperties
      <4> QED BY <2>1, <2>2, <2>5, <3>2, <4>1
    <3> QED BY <3>1, <3>2
  <2>7. ASSUME NEW v \in Window, link'[v] # None
        PROVE  IF wire'[link'[v]] = <<>>
               THEN projects'[link'[v]] # <<>> => projects'[link'[v]] = Projects(folders'[v])
               ELSE wire'[link'[v]][Len(wire'[link'[v]])] = Projects(folders'[v])
    <3>1. CASE link[v] = h
      <4>1. v = w
        BY <1>0, <1>1, <1>2, <2>7, <3>1 DEF WindowsOK, LinksRight, w
      <4> QED BY <1>2, <2>6, <3>1, <4>1
    <3>2. CASE link[v] # h
      <4>1. link[v] \in Host \ {h}
        BY <1>0, <1>2, <2>7, <3>2 DEF WindowsOK, LinksRight
      <4> QED BY <1>0, <1>2, <2>2, <2>7, <4>1 DEF WindowsOK, LastIsCurrent
    <3> QED BY <3>1, <3>2
  <2> QED BY <1>0, <1>2, <2>2, <2>3, <2>4, <2>7 DEF WindowsOK, LastIsCurrent
<1> QED BY <1>3, <1>4, <1>5 DEF RInv

LEMMA UnregisterKeeps ==
  ASSUME RInv, NEW h \in Host, Unregister(h)
  PROVE  RInv'
<1>0. TypeOK /\ JoinedOK /\ WindowsOK /\ h \in Conn
  BY DEF RInv, Conn
<1>1. TypeOK'
  BY <1>0, DisconnectTyped DEF Unregister
<1>2. JoinedOK'
  <2>1. joined \in Seq(Host) /\ IsInjective(joined) /\ \A d : d \in room \cap Host <=> Contains(joined, d)
    BY <1>0, ToSetIs DEF JoinedOK
  <2>2. /\ joined' \in Seq(Host) /\ IsInjective(joined')
        /\ \A d : Contains(joined', d) <=> Contains(joined, d) /\ d # h
    BY <2>1, RemoveFirstIs DEF Unregister
  <2>3. \A d : d \in ToSet(joined') <=> Contains(joined', d)
    BY <2>2, ToSetIs
  <2>4. room' = room \ {h}
    BY DEF Unregister, Disconnect
  <2>5. \A d : d \in ToSet(joined') <=> d \in room' \cap Host
    BY <2>1, <2>2, <2>3, <2>4
  <2> QED BY <2>2, <2>5 DEF JoinedOK
<1>3. WindowsOK'
  <2>1. /\ link[WindowOf[h]] # h /\ room' = room \ {h} /\ UNCHANGED <<folders, picker, link, wire>>
        /\ \A g \in Host \ {h} : projects'[g] = projects[g]
    BY <1>0 DEF Unregister, Disconnect, windowVars, TypeOK
  <2>2. \A v \in Window : link[v] # None => link[v] \in Host \ {h}
    BY <1>0, <2>1 DEF WindowsOK, LinksRight
  <2> QED BY <1>0, <2>1, <2>2 DEF WindowsOK, LinksRight, LastIsCurrent
<1> QED BY <1>1, <1>2, <1>3 DEF RInv, QueueOK, Unregister

\* A step of the backend that at most moves the selection.
LEMMA SelectionFrame ==
  ASSUME RInv, UNCHANGED <<room, projects, ready, recent, confirming, joined, windowVars, changes>>,
         selection' \in Project \cup {None}
  PROVE  TypeOK' /\ JoinedOK' /\ WindowsOK' /\ changes' \in 0..MaxChanges
<1>1. TypeOK'
  BY NotRoomTyped DEF RInv, TypeOK
<1>2. JoinedOK' /\ changes' \in 0..MaxChanges
  BY DEF RInv, JoinedOK
<1>3. WindowsOK'
  BY WindowsFrame DEF RInv
<1> QED BY <1>1, <1>2, <1>3

\* Reads of the active project, and what they leave selected.
LEMMA HereRead ==
  ASSUME TypeOK, NEW sel \in Project \cup {None}, NEW want \in Project \cup {None}
  PROVE  /\ Active(want, sel, Here, ready, recent) \in Project \cup {None}
         /\ SelectionAfter(want, sel, Here, ready, recent) \in Project \cup {None}
BY TypeIsRegistered, ReadIs DEF Here

LEMMA SnapshotKeeps ==
  ASSUME RInv, Snapshot, UNCHANGED <<joined, windowVars, queue, changes>>
  PROVE  /\ TypeOK' /\ JoinedOK' /\ WindowsOK' /\ QueueOK' /\ changes' \in 0..MaxChanges
         /\ Active(None, selection, Here, ready, recent) \in Project \cup {None}
<1>1. selection \in Project \cup {None} /\ TypeOK
  BY DEF RInv, TypeOK
<1>2. /\ Active(None, selection, Here, ready, recent) \in Project \cup {None}
      /\ selection' \in Project \cup {None}
  BY <1>1, HereRead DEF Snapshot, ReadActive
<1> QED BY <1>2, SelectionFrame DEF Snapshot, RInv, QueueOK

LEMMA SyncKeeps ==
  ASSUME RInv, Sync
  PROVE  RInv'
BY SnapshotKeeps DEF RInv, Sync

LEMMA LookKeeps ==
  ASSUME RInv, NEW p \in Phone, Look(p)
  PROVE  RInv'
<1>1. /\ TypeOK' /\ JoinedOK' /\ WindowsOK' /\ QueueOK' /\ changes' \in 0..MaxChanges
      /\ Active(None, selection, Here, ready, recent) \in Project \cup {None}
  BY SnapshotKeeps DEF Look
<1>2. Ids(projects) \subseteq Project
  <2> SUFFICES ASSUME NEW h \in Host PROVE ToSet(projects[h]) \subseteq Project
    BY DEF Ids
  <2>1. projects[h] \in Seq(Project)
    BY DEF RInv, TypeOK, Lists
  <2>2. DOMAIN projects[h] = 1..Len(projects[h]) /\ \A i \in 1..Len(projects[h]) : projects[h][i] \in Project
    BY <2>1, LenProperties, ElementOfSeq
  <2> QED BY <2>2 DEF ToSet
<1>3. seen' \in [Phone -> View]
  BY <1>1, <1>2 DEF RInv, Look, View
<1> QED BY <1>1, <1>3 DEF RInv

LEMMA SelectKeeps ==
  ASSUME RInv, NEW p \in Phone, NEW id \in Project, Select(p, id)
  PROVE  RInv'
<1>1. TypeOK
  BY DEF RInv
<1>2. selection' \in Project \cup {None}
  BY <1>1, HereRead DEF Select
<1> QED BY <1>2, SelectionFrame DEF Select, RInv, QueueOK

\* What a command is resolved to.
LEMMA TargetIs ==
  ASSUME TypeOK, JoinedOK, NEW want \in Project \cup {None}
  PROVE  /\ Target(want).conn \in Host \cup {None} /\ Target(want).root \in Folder \cup {None}
         /\ want # None /\ Usable(want, Here) => Target(want).root = want
<1> DEFINE id == IF want # None THEN want ELSE selection
           Has(h) == Contains(projects[h], id)
           at == SelectInSeq(joined, Has)
<1>1. CASE Here = {}
  BY <1>1 DEF Target, Usable, Live
<1>2. CASE Here # {} /\ Usable(id, Here)
  <2>1. PICK e \in Here : e.id = id
    BY <1>2 DEF Usable, Live
  <2>2. /\ e.host \in room \cap Host /\ e.place \in 1..Len(projects[e.host])
        /\ projects[e.host][e.place] = id
    BY <2>1, TypeIsRegistered, EntryIs DEF Here
  <2>3. Contains(joined, e.host) /\ Len(joined) \in Nat /\ joined \in Seq(Host)
    BY <2>2, ToSetIs, LenProperties DEF JoinedOK
  <2>4. PICK k \in 1..Len(joined) : joined[k] = e.host
    BY <2>3 DEF Contains
  <2>5. Has(joined[k])
    BY <2>2, <2>4 DEF Contains
  <2>6. at \in 1..Len(joined)
    <3> DEFINE I == {i \in 1..Len(joined) : Has(joined[i])}
    <3>1. I # {} /\ I \subseteq Nat /\ I \subseteq 1..Len(joined)
      BY <2>3, <2>5
    <3>2. at = Min(I)
      BY <3>1 DEF SelectInSeq
    <3> HIDE DEF I, at
    <3>3. \E m \in I : \A y \in I : m <= y
      BY <3>1, LeastOf
    <3>4. Min(I) \in I
      BY <3>3 DEF Min
    <3> QED BY <3>1, <3>2, <3>4
  <2>7. joined[at] \in Host
    BY <2>3, <2>6, ElementOfSeq
  <2>8. Target(want) = [conn |-> joined[at], root |-> id]
    BY <1>2 DEF Target
  <2> HIDE DEF at
  <2> QED BY <1>2, <2>7, <2>8 DEF Usable
<1>3. CASE Here # {} /\ ~Usable(id, Here)
  <2> DEFINE best == Best(Here, ready, recent)
  <2>1. best.host \in Host
    BY <1>3, TypeIsRegistered, BestIs, EntryIs DEF Here
  <2>2. Target(want) = [conn |-> best.host, root |-> IF best.id \in Folder THEN best.id ELSE None]
    BY <1>3 DEF Target
  <2> HIDE DEF best
  <2> QED BY <1>3, <2>1, <2>2
<1> QED BY <1>1, <1>2, <1>3

LEMMA RoutedKeeps ==
  ASSUME RInv, NEW kind \in {"run", "add"}, NEW want \in Project \cup {None}, Routed(kind, want)
  PROVE  RInv'
<1>0. TypeOK /\ JoinedOK /\ selection \in Project \cup {None}
  BY DEF RInv, TypeOK
<1>1. selection' \in Project \cup {None}
  BY <1>0, HereRead DEF Routed, Route, ReadActive
<1>2. TypeOK' /\ JoinedOK' /\ WindowsOK' /\ changes' \in 0..MaxChanges /\ seen' \in [Phone -> View]
  <2>1. UNCHANGED <<room, projects, ready, recent, confirming, joined, windowVars, changes>>
    BY DEF Routed, Route
  <2> QED BY <1>1, <2>1, SelectionFrame DEF Routed, RInv
<1> DEFINE t == Target(want)
           known == want # None /\ Usable(want, Here)
           c == [kind |-> kind, want |-> want, known |-> known, conn |-> t.conn, root |-> t.root]
<1>3. c \in Commands /\ (c.known => c.root = c.want)
  <2>1. /\ t.conn \in Host \cup {None} /\ t.root \in Folder \cup {None}
        /\ known => t.root = want
    BY <1>0, TargetIs
  <2>2. known \in BOOLEAN
    OBVIOUS
  <2> HIDE DEF t, known
  <2> QED BY <2>1, <2>2 DEF Commands
<1>4. queue' = Append(queue, c) /\ queue = <<>>
  BY DEF Routed
<1> HIDE DEF c
<1>5. QueueOK'
  BY <1>3, <1>4 DEF QueueOK
<1> QED BY <1>2, <1>5 DEF RInv

LEMMA DeliverKeeps ==
  ASSUME RInv, Deliver
  PROVE  RInv'
<1>1. TypeOK' /\ JoinedOK' /\ seen' \in [Phone -> View] /\ changes' \in 0..MaxChanges
  BY DEF RInv, TypeOK, JoinedOK, Deliver, roomVars, vars, Conn
<1>2. WindowsOK'
  <2>1. picker' \subseteq Window /\ UNCHANGED <<room, projects, folders, link, wire>>
    BY DEF RInv, WindowsOK, Deliver, Takers, roomVars, vars
  <2> QED BY <2>1 DEF RInv, WindowsOK, LinksRight, LastIsCurrent
<1>3. QueueOK'
  <2>1. queue \in Seq(Commands) /\ queue # <<>> /\ queue' = Tail(queue)
    BY DEF RInv, QueueOK, Deliver
  <2>2. /\ Tail(queue) \in Seq(Commands) /\ Len(Tail(queue)) = Len(queue) - 1
        /\ \A i \in 1..Len(Tail(queue)) : Tail(queue)[i] = queue[i + 1]
    BY <2>1, HeadTailProperties
  <2>3. Len(queue) \in Nat /\ DOMAIN queue = 1..Len(queue) /\ DOMAIN Tail(queue) = 1..Len(Tail(queue))
    BY <2>1, <2>2, LenProperties
  <2>4. \A i \in 1..Len(Tail(queue)) : i + 1 \in 1..Len(queue)
    BY <2>2, <2>3
  <2> QED BY <2>1, <2>2, <2>3, <2>4 DEF RInv, QueueOK
<1> QED BY <1>1, <1>2, <1>3 DEF RInv

-----------------------------------------------------------------------------
(* ProjectRouting: its theorems *)

LEMMA RInvInit ==
  ASSUME RoutingInit PROVE RInv
<1>0. First \in Host /\ WindowOf \in [Host -> Window] /\ First # None
  BY RoutingAssumption, SelectionAssumption
<1>1. folders \in [Window -> Lists(Folder)]
  BY RoutingAssumption DEF RoutingInit
<1> DEFINE fs == folders[WindowOf[First]]
           p == Projects(fs)
<1>2. p \in Reports /\ p[1] \in Project
  <2>1. p \in Reports
    BY <1>0, <1>1, ProjectsIs
  <2> HIDE DEF p
  <2>2. p \in Seq(Project) /\ p # <<>>
    BY <2>1 DEF Reports, Lists
  <2> QED BY <2>1, <2>2, LenProperties, EmptySeq, ElementOfSeq
<1> HIDE DEF p
<1>3. /\ <<First>> \in Seq(Host) /\ IsInjective(<<First>>) /\ <<First>> # <<>>
      /\ \A d : Contains(<<First>>, d) <=> d = First
  BY <1>0, Singleton
<1>4. projects \in [Host -> Lists(Project)] /\ projects[First] = p /\ \A h \in Host \ {First} : projects[h] = <<>>
  <2>1. <<>> \in Lists(Project)
    BY EmptySeq DEF Lists, IsInjective
  <2> QED BY <1>0, <1>2, <2>1 DEF RoutingInit, Reports, p, fs
<1>5. TypeOK
  <2>1. room \subseteq Conn /\ ready \subseteq Host /\ confirming \in [Phone -> Project \cup {None}] /\ First \in room
    BY <1>0 DEF RoutingInit, Conn
  <2>2. recent = <<First>> /\ selection \in Project
    BY <1>2, <1>4 DEF RoutingInit
  <2>3. \A h \in Host : (projects[h] # <<>> <=> h = First)
    BY <1>2, <1>4 DEF Reports
  <2> QED BY <1>3, <1>4, <2>1, <2>2, <2>3 DEF TypeOK
<1>6. JoinedOK
  <2>1. joined = <<First>> /\ room \cap Host = {First}
    BY <1>0, SelectionAssumption DEF RoutingInit
  <2>2. \A d : d \in ToSet(<<First>>) <=> d = First
    BY <1>3, ToSetIs
  <2> QED BY <1>3, <2>1, <2>2 DEF JoinedOK
<1>7. WindowsOK
  <2>1. /\ picker = {} /\ link = [w \in Window |-> IF w = WindowOf[First] THEN First ELSE None]
        /\ wire = [h \in Host |-> <<>>] /\ First \in room
    BY DEF RoutingInit
  <2>2. wire \in [Host -> Seq(Reports)] /\ \A h \in Host : wire[h] = <<>>
    BY <2>1, EmptySeq
  <2>3. LinksRight
    BY <1>0, <2>1 DEF LinksRight
  <2>4. LastIsCurrent
    BY <1>0, <1>4, <2>1, <2>2 DEF LastIsCurrent, p, fs
  <2> QED BY <1>1, <2>1, <2>2, <2>3, <2>4 DEF WindowsOK
<1>8. QueueOK
  <2>1. queue = <<>> /\ queue \in Seq(Commands) /\ DOMAIN queue = {}
    BY EmptySeq DEF RoutingInit
  <2> QED BY <2>1 DEF QueueOK
<1>9. seen \in [Phone -> View] /\ changes \in 0..MaxChanges
  BY RoutingAssumption DEF RoutingInit, View
<1> QED BY <1>5, <1>6, <1>7, <1>8, <1>9 DEF RInv

LEMMA RInvNext ==
  ASSUME RInv, [RoutingNext]_routingVars PROVE RInv'
<1>1. CASE UNCHANGED routingVars
  BY <1>1 DEF RInv, TypeOK, JoinedOK, WindowsOK, QueueOK, LinksRight, LastIsCurrent, routingVars,
              roomVars, windowVars, vars, Conn
<1>2. ASSUME NEW w \in Window, Report(w) \/ Break(w) PROVE RInv'
  BY <1>2, ReportKeeps, BreakKeeps
<1>3. ASSUME NEW w \in Window, NEW h \in Host, Open(w, h) PROVE RInv'
  BY <1>3, OpenKeeps
<1>4. ASSUME NEW w \in Window, NEW list \in Layouts[w], ChangeFolders(w, list) PROVE RInv'
  BY <1>4, ChangeKeeps
<1>5. ASSUME NEW w \in Window, NEW chosen \in SUBSET UNION {ToSet(l) : l \in Layouts[w]}, ClosePicker(w, chosen)
      PROVE  RInv'
  BY <1>5, PickerKeeps
<1>6. ASSUME NEW h \in Host, Hear(h) \/ Unregister(h) PROVE RInv'
  BY <1>6, HearKeeps, UnregisterKeeps
<1>7. ASSUME Sync \/ Deliver PROVE RInv'
  BY <1>7, SyncKeeps, DeliverKeeps
<1>8. ASSUME NEW p \in Phone, RunCommand(p) PROVE RInv'
  <2>1. ActiveProject(p) \in Project \cup {None}
    BY DEF RInv, View, ActiveProject
  <2> QED BY <1>8, <2>1, RoutedKeeps DEF RunCommand
<1>9. ASSUME NEW p \in Phone, AddFolder(p) PROVE RInv'
  BY <1>9, RoutedKeeps DEF AddFolder
<1>10. ASSUME NEW p \in Phone, Look(p) PROVE RInv'
  BY <1>10, LookKeeps
<1>11. ASSUME NEW p \in Phone, NEW id \in Project, Select(p, id) PROVE RInv'
  BY <1>11, SelectKeeps
<1> QED BY <1>1, <1>2, <1>3, <1>4, <1>5, <1>6, <1>7, <1>8, <1>9, <1>10, <1>11 DEF RoutingNext

LEMMA RInvHolds == RoutingSpec => []RInv
BY RInvInit, RInvNext, PTL DEF RoutingSpec

(* The registry, the windows and the connections fit together: the hosts in *)
(* the room are those that joined, each once; a window uses a connection of *)
(* its own that is registered, and what a host announces is on its way only *)
(* while its window uses the connection.                                    *)
THEOREM RoutingTypeCorrect == RoutingSpec => []RoutingTypeOK
BY RInvHolds, InvTyped, PTL

(* When nothing of a window is on its way, the registry holds what the      *)
(* window has open: every change is reported by the code that makes it.     *)
THEOREM RegistryCurrent == RoutingSpec => []RegistryIsCurrent
<1>1. RInv => RegistryIsCurrent
  BY DEF RInv, WindowsOK, LastIsCurrent, RegistryIsCurrent
<1> QED BY <1>1, RInvHolds, PTL

(* A command with an address is run by one window at most, and, if its      *)
(* project was there when it was routed and still is in the window it was   *)
(* sent to, in that project's folder.                                       *)
THEOREM CommandsRunWhereAsked == RoutingSpec => []RunsWhereAsked
<1>1. ASSUME RInv PROVE RunsWhereAsked
  <2> SUFFICES ASSUME NEW i \in DOMAIN queue, queue[i].conn # None
               PROVE  /\ Cardinality(Takers(queue[i])) <= 1
                      /\ queue[i].known /\ Contains(folders[WindowOf[queue[i].conn]], queue[i].want) =>
                           \A w \in Takers(queue[i]) : WorkspaceRoot(w, queue[i].root) = queue[i].want
    BY DEF RunsWhereAsked
  <2> DEFINE c == queue[i]
             v == WindowOf[c.conn]
  <2>1. c.known => c.root = c.want
    BY <1>1 DEF RInv, QueueOK
  <2>2. Takers(c) \subseteq {v}
    BY <1>1 DEF RInv, WindowsOK, LinksRight, Takers, Reached
  <2>3. Cardinality(Takers(c)) <= 1
    <3>1. IsFiniteSet({v}) /\ Cardinality({v}) = 1
      BY FS_Singleton
    <3> HIDE DEF c, v
    <3> QED BY <2>2, <3>1, FS_Subset
  <2>4. ASSUME c.known, Contains(folders[v], c.want), NEW w \in Takers(c)
        PROVE  WorkspaceRoot(w, c.root) = c.want
    BY <2>1, <2>2, <2>4 DEF WorkspaceRoot
  <2> QED BY <2>3, <2>4
<1> QED BY <1>1, RInvHolds, PTL


(* With the windows and the phones around it too: while the selected project *)
(* stays usable, only a tap on a card, or a command for a project that was   *)
(* shown and is not usable any more, moves the room to another.  Reports,    *)
(* lost and new connections, snapshots and the folder picker do not.         *)
THEOREM OnlyPhonesMoveTheRoom ==
  RoutingSpec =>
    [][\A id \in Project :
         id = selection /\ Usable(id, Here) /\ Usable(id, Here') /\ selection' # id =>
           \E p \in Phone :
             \/ \E pr \in Project : Select(p, pr)
             \/ RunCommand(p) /\ ActiveProject(p) # None /\ ~Usable(ActiveProject(p), Here)]_routingVars
<1> DEFINE Moved ==
      \E p \in Phone :
        \/ \E pr \in Project : Select(p, pr)
        \/ RunCommand(p) /\ ActiveProject(p) # None /\ ~Usable(ActiveProject(p), Here)
<1> DEFINE Kept(id) == id = selection /\ Usable(id, Here) /\ Usable(id, Here') /\ selection' # id => Moved
<1>1. ASSUME RoutingNext, Usable(selection, Here), Usable(selection, Here'), selection' # selection
      PROVE  Moved
  <2>1. \A w \in Window : ~Report(w) /\ ~Break(w)
    BY <1>1 DEF Report, Break, roomVars, vars
  <2>2. \A w \in Window, h \in Host : ~Open(w, h)
    BY <1>1, OthersKeep DEF Open, Conn
  <2>3. \A w \in Window : \A list : ~ChangeFolders(w, list)
    BY <1>1 DEF ChangeFolders, roomVars, vars
  <2>4. \A w \in Window : \A chosen : ~ClosePicker(w, chosen)
    BY <1>1 DEF ClosePicker, roomVars, vars
  <2>5. \A h \in Host : ~Hear(h) /\ ~Unregister(h)
    BY <1>1, OthersKeep DEF Hear, Unregister, Conn
  <2>6. ~Sync /\ ~Deliver /\ \A p \in Phone : ~Look(p)
    BY <1>1, OthersKeep DEF Sync, Deliver, Look, roomVars, vars
  <2>7. ASSUME NEW p \in Phone, RunCommand(p) \/ AddFolder(p)
        PROVE  RunCommand(p) /\ ActiveProject(p) # None /\ ~Usable(ActiveProject(p), Here)
    BY <1>1, <2>7, OthersKeep DEF RunCommand, AddFolder, Routed
  <2> HIDE DEF Moved
  <2>8. CASE \E p \in Phone, id \in Project : Select(p, id)
    BY <2>8 DEF Moved
  <2>9. CASE \E p \in Phone : RunCommand(p) \/ AddFolder(p)
    BY <2>7, <2>9 DEF Moved
  <2> QED BY <1>1, <2>1, <2>2, <2>3, <2>4, <2>5, <2>6, <2>8, <2>9 DEF RoutingNext
<1>2. ASSUME UNCHANGED routingVars PROVE \A id \in Project : Kept(id)
  BY <1>2 DEF routingVars, roomVars, vars
<1>3. [RoutingNext]_routingVars => [\A id \in Project : Kept(id)]_routingVars
  <2> HIDE DEF Moved
  <2> QED BY <1>1, <1>2
<1> QED BY <1>3, PTL DEF RoutingSpec, Kept, Moved

=============================================================================
