--------------------------- MODULE RelayCoreProofs ---------------------------
(***************************************************************************)
(* Proofs about RelayCore, for every number of hosts, devices, codes and   *)
(* retained messages.                                                      *)
(***************************************************************************)
EXTENDS RelayCore, SequenceTheorems, FiniteSetTheorems, TLAPS

LEMMA CapType == Cap \in Nat \ {0}
<1>1. MaxMessages \in Int \cup {Unlimited} /\ Unlimited \notin Int
  BY RelayAssumption
<1>2. CASE MaxMessages = Unlimited
  BY <1>2 DEF Cap
<1>3. CASE MaxMessages \in Int
  BY <1>1, <1>3 DEF Cap
<1> QED BY <1>1, <1>2, <1>3

(* What _trim_messages returns after an append: the newest Cap messages. *)
LEMMA TrimWindow ==
  ASSUME NEW messages \in Seq(Message), NEW m \in Message
  PROVE  LET new == Append(messages, m)
             t == Trim(new)
         IN  /\ t \in Seq(Message)
             /\ t # <<>> /\ t[Len(t)] = m
             /\ Len(t) = IF MaxMessages = Unlimited \/ Len(messages) + 1 <= Cap
                         THEN Len(messages) + 1 ELSE Cap
             /\ \A i \in 1..Len(t) : t[i] = new[Len(new) - Len(t) + i]
<1> DEFINE new == Append(messages, m)
<1>1. new \in Seq(Message) /\ Len(new) = Len(messages) + 1 /\ new[Len(new)] = m
  OBVIOUS
<1>2. CASE MaxMessages = Unlimited \/ Len(new) <= Cap
  BY <1>1, <1>2 DEF Trim
<1>3. CASE ~(MaxMessages = Unlimited \/ Len(new) <= Cap)
  <2>1. Cap \in Nat \ {0} /\ Cap < Len(new)
    BY <1>1, <1>3, CapType
  <2>2. Trim(new) = SubSeq(new, Len(new) - Cap + 1, Len(new))
    BY <1>3 DEF Trim
  <2>3. /\ Len(Trim(new)) = Cap
        /\ Trim(new) \in Seq(Message)
        /\ \A i \in 1..Cap : Trim(new)[i] = new[Len(new) - Cap + i]
    <3> DEFINE a == Len(new) - Cap + 1
                n == Len(new)
    <3>1. a \in Int /\ n \in Int /\ a >= 1 /\ a <= n /\ n - a + 1 = Cap
      BY <1>1, <2>1
    <3>2. \A i \in a..n : new[i] \in Message
      BY <1>1, <3>1
    <3>3. /\ SubSeq(new, a, n) \in Seq(Message)
          /\ Len(SubSeq(new, a, n)) = IF a <= n THEN n - a + 1 ELSE 0
          /\ \A i \in 1..(n - a + 1) : SubSeq(new, a, n)[i] = new[a + i - 1]
      <4> HIDE DEF new, a, n
      <4> QED BY <3>1, <3>2, SubSeqProperties
    <3>4. ASSUME NEW i \in 1..Cap
          PROVE  Trim(new)[i] = new[Len(new) - Cap + i]
      <4>1. a + i - 1 = Len(new) - Cap + i /\ i \in 1..(n - a + 1)
        BY <1>1, <2>1, <3>1
      <4>2. SubSeq(new, a, n)[i] = new[a + i - 1]
        BY <3>3, <4>1
      <4> QED BY <2>2, <4>1, <4>2
    <3>5. Len(Trim(new)) = Cap /\ Trim(new) \in Seq(Message)
      BY <2>2, <3>1, <3>3
    <3> QED BY <3>4, <3>5
  <2> QED BY <1>1, <1>3, <2>1, <2>3
<1> QED BY <1>2, <1>3

(* With strictly increasing numbers, what replay_since selects is a suffix, *)
(* and its last element is the last message of the list.                    *)
LEMMA ReplayIsSuffix ==
  ASSUME TypeOK, RetainedWindow, NEW s \in SessionId, NEW cursor \in Nat,
         Replayed(s, cursor) # {}
  PROVE  /\ Len(log[s]) \in Replayed(s, cursor)
         /\ NextCursor(s, cursor) = nextSeq[s] - 1
         /\ NextCursor(s, cursor) \in ReplayedSeqs(s, cursor)
<1>1. /\ log[s] \in Seq(Message) /\ Len(log[s]) \in Nat /\ nextSeq[s] \in Nat
      /\ DOMAIN log[s] = 1..Len(log[s])
  BY DEF TypeOK
<1>2. \A i \in 1..Len(log[s]) : log[s][i].seq = nextSeq[s] - Len(log[s]) + i - 1
  BY <1>1 DEF RetainedWindow
<1>3. PICK k \in 1..Len(log[s]) : log[s][k].seq > cursor
  BY <1>1 DEF Replayed
<1> DEFINE n == Len(log[s])
           q == nextSeq[s]
           f == [i \in 1..n |-> log[s][i].seq]
<1>31. /\ n \in Nat /\ q \in Nat /\ k \in 1..n /\ f[k] > cursor
       /\ \A i \in 1..n : f[i] = q - n + i - 1
  BY <1>1, <1>2, <1>3
<1>32. n \in 1..n /\ f[n] = q - 1 /\ f[n] > cursor
  <2> HIDE DEF n, q, f
  <2> QED BY <1>31
<1>4. Len(log[s]) \in 1..Len(log[s]) /\ log[s][Len(log[s])].seq = nextSeq[s] - 1
  BY <1>32
<1>5. Len(log[s]) \in Replayed(s, cursor)
  BY <1>1, <1>32 DEF Replayed
<1>6. Replayed(s, cursor) \subseteq 1..Len(log[s])
  BY <1>1 DEF Replayed
<1>7. LastOf(Replayed(s, cursor)) = Len(log[s])
  <2>1. \A j \in Replayed(s, cursor) : j <= Len(log[s])
    BY <1>1, <1>6
  <2>2. /\ LastOf(Replayed(s, cursor)) \in Replayed(s, cursor)
        /\ \A j \in Replayed(s, cursor) : j <= LastOf(Replayed(s, cursor))
    BY <1>5, <2>1 DEF LastOf
  <2> QED BY <1>1, <1>5, <1>6, <2>1, <2>2
<1>8. NextCursor(s, cursor) = log[s][Len(log[s])].seq
  BY <1>5, <1>7 DEF NextCursor
<1> QED BY <1>4, <1>5, <1>8 DEF ReplayedSeqs

-----------------------------------------------------------------------------
(* Type correctness. *)

LEMMA TypeInit == Init => TypeOK
  BY RelayAssumption DEF Init, EmptyServer, TypeOK

LEMMA TypeNext == TypeOK /\ RetainedWindow /\ [Next]_vars => TypeOK'
<1> SUFFICES ASSUME TypeOK, RetainedWindow, [Next]_vars PROVE TypeOK'
  OBVIOUS
<1> USE RelayAssumption
<1>0. \A d \in DeviceId : Known(d) => devices[d] \in Device
  BY DEF TypeOK, Known
<1>01. Cleaned \in [Code -> Challenge \cup {NoChallenge}]
  BY DEF Cleaned, TypeOK
<1>1. CASE Tick
  BY <1>1 DEF Tick, TypeOK, serverVars, clientVars
<1>2. ASSUME NEW h \in Host, NEW s \in SessionId, NEW d \in DeviceId, RegisterHost(h, s, d)
      PROVE TypeOK'
  BY <1>2 DEF RegisterHost, TypeOK, clientVars, Device
<1>3. ASSUME NEW h \in Host, NEW c \in Code, NEW ttl \in Ttls, OpenPairingCode(h, c, ttl)
      PROVE TypeOK'
  <2>1. CASE hostSession[h] = NoSession
    BY <1>3, <1>01, <2>1 DEF OpenPairingCode, TypeOK, clientVars
  <2>2. CASE hostSession[h] # NoSession
    <3>1. hostSession[h] \in SessionId /\ now \in Nat
      BY <2>2 DEF TypeOK
    <3>2. now + (IF ttl < 1 THEN 1 ELSE ttl) \in Nat
      BY <3>1
    <3> DEFINE new == [session |-> hostSession[h],
                       expires |-> now + (IF ttl < 1 THEN 1 ELSE ttl), consumed |-> FALSE]
    <3>3. new \in Challenge
      BY <3>1, <3>2 DEF Challenge
    <3>4. /\ challenges' = [Cleaned EXCEPT ![c] = new]
          /\ opened' = [opened EXCEPT ![hostSession[h]] = @ + 1]
          /\ UNCHANGED <<now, hostSession, devices, log, nextSeq, issued, clientVars>>
      BY <1>3, <2>2 DEF OpenPairingCode
    <3>5. challenges' \in [Code -> Challenge \cup {NoChallenge}]
      <4> HIDE DEF new
      <4> QED BY <1>01, <3>3, <3>4
    <3>6. opened' \in [SessionId -> Nat]
      BY <3>1, <3>4 DEF TypeOK
    <3> QED BY <3>4, <3>5, <3>6 DEF TypeOK, clientVars
  <2> QED BY <2>1, <2>2
<1>4. ASSUME NEW c \in Code, NEW d \in DeviceId, PairMobileDevice(c, d)
      PROVE TypeOK'
  <2>1. challenges[c] \in Challenge
    BY <1>4 DEF PairMobileDevice, Pairable, TypeOK
  <2>2. challenges' \in [Code -> Challenge \cup {NoChallenge}]
    BY <1>4, <2>1 DEF PairMobileDevice, TypeOK, Challenge
  <2>3. devices' \in [DeviceId -> Device \cup {NoDevice}]
    BY <1>4, <2>1 DEF PairMobileDevice, TypeOK, Challenge, Device
  <2> QED BY <1>4, <2>2, <2>3 DEF PairMobileDevice, TypeOK, clientVars
<1>5. CASE CleanupPairingChallenges
  BY <1>01, <1>5 DEF CleanupPairingChallenges, TypeOK, clientVars
<1>6. ASSUME NEW d \in DeviceId, RevokeDevice(d)
      PROVE TypeOK'
  <2>1. devices[d] \in Device /\ devices \in [DeviceId -> Device \cup {NoDevice}]
    BY <1>0, <1>6 DEF RevokeDevice, TypeOK
  <2>2. [devices[d] EXCEPT !.revoked = TRUE, !.online = FALSE] \in Device
    BY <2>1 DEF Device
  <2>3. devices' \in [DeviceId -> Device \cup {NoDevice}]
    BY <1>6, <2>1, <2>2 DEF RevokeDevice
  <2> QED BY <1>6, <2>3 DEF RevokeDevice, TypeOK, clientVars
<1>7. ASSUME NEW d \in DeviceId, NEW online \in BOOLEAN, SetDeviceOnline(d, online)
      PROVE TypeOK'
  <2>1. devices[d] \in Device /\ devices \in [DeviceId -> Device \cup {NoDevice}]
    BY <1>0, <1>7 DEF SetDeviceOnline, Active, TypeOK
  <2>2. [devices[d] EXCEPT !.online = online] \in Device
    BY <2>1 DEF Device
  <2>3. devices' \in [DeviceId -> Device \cup {NoDevice}]
    BY <1>7, <2>1, <2>2 DEF SetDeviceOnline
  <2> QED BY <1>7, <2>3 DEF SetDeviceOnline, TypeOK, clientVars
<1>8. ASSUME NEW d \in DeviceId, AppendEncryptedEnvelope(d)
      PROVE TypeOK'
  <2> DEFINE s == devices[d].session
             m == [seq |-> nextSeq[s], sender |-> d]
  <2>1. s \in SessionId /\ nextSeq[s] \in Nat \ {0} /\ log[s] \in Seq(Message)
    BY <1>0, <1>8 DEF AppendEncryptedEnvelope, Active, Device, TypeOK
  <2>2. m \in Message
    BY <2>1 DEF Message
  <2>3. Trim(Append(log[s], m)) \in Seq(Message)
    BY <2>1, <2>2, TrimWindow
  <2>4. log' \in [SessionId -> Seq(Message)]
    BY <1>8, <2>3 DEF AppendEncryptedEnvelope, TypeOK
  <2>5. nextSeq' \in [SessionId -> Nat \ {0}]
    BY <1>8, <2>1 DEF AppendEncryptedEnvelope, TypeOK
  <2> QED BY <1>8, <2>4, <2>5 DEF AppendEncryptedEnvelope, TypeOK, clientVars
<1>9. ASSUME NEW d \in DeviceId, ReplaySince(d)
      PROVE TypeOK'
  <2> DEFINE s == devices[d].session
             cursor == clientCursor[d]
  <2>1. s \in SessionId /\ cursor \in Nat /\ log[s] \in Seq(Message)
    BY <1>0, <1>9 DEF ReplaySince, Active, Device, TypeOK
  <2>2. \A i \in DOMAIN log[s] : log[s][i].seq \in Nat
    <3>1. \A i \in DOMAIN log[s] : log[s][i] \in Message
      BY <2>1
    <3> QED BY <3>1 DEF Message
  <2>3. ReplayedSeqs(s, cursor) \in SUBSET Nat
    BY <2>2 DEF ReplayedSeqs, Replayed
  <2>4. NextCursor(s, cursor) \in Nat
    <3>1. CASE Replayed(s, cursor) = {}
      BY <2>1, <3>1 DEF NextCursor
    <3>2. CASE Replayed(s, cursor) # {}
      <4>1. NextCursor(s, cursor) \in ReplayedSeqs(s, cursor)
        BY <2>1, <3>2, ReplayIsSuffix
      <4> QED BY <2>3, <4>1
    <3> QED BY <3>1, <3>2
  <2> QED BY <1>9, <2>3, <2>4 DEF ReplaySince, TypeOK, serverVars
<1>10. ASSUME NEW d \in DeviceId, ClientForgets(d)
       PROVE TypeOK'
  BY <1>10 DEF ClientForgets, TypeOK, serverVars
<1>11. CASE Restart
  BY <1>11 DEF Restart, TypeOK, clientVars
<1>12. CASE UNCHANGED vars
  BY <1>12 DEF vars, TypeOK, serverVars, clientVars
<1> QED
  BY <1>1, <1>2, <1>3, <1>4, <1>5, <1>6, <1>7, <1>8, <1>9, <1>10, <1>11, <1>12 DEF Next

-----------------------------------------------------------------------------
(* The inductive invariant.  ReplayLeavesNoGap alone is not inductive: a    *)
(* new device must not carry a cursor (FreshIds), appending must give a     *)
(* number above every cursor (CursorBehindSession), and replaying must      *)
(* cover everything up to the last number (RetainedWindow).                 *)

FreshIds ==
  /\ \A d \in DeviceId : Known(d) => d \in issued
  /\ \A d \in DeviceId \ issued : clientCursor[d] = 0 /\ clientSeen[d] = {}

IInv == TypeOK /\ FreshIds /\ RetainedWindow /\ ReplayLeavesNoGap /\ CursorBehindSession

LEMMA InitIInv == Init => IInv
<1> SUFFICES ASSUME Init PROVE IInv
  OBVIOUS
<1> USE RelayAssumption DEF Init, EmptyServer
<1>1. TypeOK
  BY TypeInit
<1>2. \A d \in DeviceId : ~Known(d)
  BY DEF Known
<1>3. FreshIds
  BY <1>2 DEF FreshIds
<1>4. RetainedWindow
  BY DEF RetainedWindow, Cap
<1>5. ReplayLeavesNoGap /\ CursorBehindSession
  BY <1>2 DEF ReplayLeavesNoGap, CursorBehindSession
<1> QED BY <1>1, <1>3, <1>4, <1>5 DEF IInv

(* A list that is a window ending at q - 1 becomes, by an append and a trim, *)
(* a window ending at q: IsWindow is RetainedWindow for one session.         *)
SeqOf(m) == m.seq
IsWindow(t, q) ==
  /\ \A i \in DOMAIN t : SeqOf(t[i]) = q - Len(t) + i - 1
  /\ IF MaxMessages = Unlimited
     THEN Len(t) = q - 1
     ELSE Len(t) = IF q - 1 < Cap THEN q - 1 ELSE Cap

LEMMA TrimKeepsWindow ==
  ASSUME NEW old \in Seq(Message), NEW q \in Nat \ {0}, NEW m \in Message, SeqOf(m) = q,
         IsWindow(old, q)
  PROVE  LET t == Trim(Append(old, m)) IN
         /\ t \in Seq(Message) /\ t # <<>> /\ t[Len(t)] = m
         /\ \A i \in DOMAIN t : t[i] = m \/ \E j \in DOMAIN old : t[i] = old[j]
         /\ IsWindow(t, q + 1)
<1>2. PICK cap \in Nat \ {0} : cap = Cap
  BY CapType
<1>3. PICK n \in Nat : n = Len(old)
  OBVIOUS
<1>4. PICK new : new = Append(old, m)
  OBVIOUS
<1>5. PICK t : t = Trim(new)
  OBVIOUS
<1>6. /\ t \in Seq(Message) /\ t # <<>> /\ t[Len(t)] = m
      /\ Len(t) = IF MaxMessages = Unlimited \/ n + 1 <= cap THEN n + 1 ELSE cap
      /\ \A i \in 1..Len(t) : t[i] = new[Len(new) - Len(t) + i]
  <2>1. LET new1 == Append(old, m)
            u == Trim(new1)
        IN  /\ u \in Seq(Message)
            /\ u # <<>> /\ u[Len(u)] = m
            /\ Len(u) = IF MaxMessages = Unlimited \/ Len(old) + 1 <= Cap
                        THEN Len(old) + 1 ELSE Cap
            /\ \A i \in 1..Len(u) : u[i] = new1[Len(new1) - Len(u) + i]
    BY TrimWindow, Zenon
  <2> QED BY <1>2, <1>3, <1>4, <1>5, <2>1
<1>7. /\ Len(new) = n + 1 /\ new[n + 1] = m
      /\ \A j \in 1..n : new[j] = old[j]
  BY <1>3, <1>4
<1>8. /\ DOMAIN old = 1..n
      /\ \A j \in 1..n : SeqOf(old[j]) = q - n + j - 1
      /\ IF MaxMessages = Unlimited THEN n = q - 1
         ELSE n = IF q - 1 < cap THEN q - 1 ELSE cap
  BY <1>2, <1>3 DEF IsWindow
<1>9. PICK k \in Nat : k = Len(t) /\ DOMAIN t = 1..k
  BY <1>6
<1>10. k <= n + 1
  BY <1>6, <1>9
<1>11. IF MaxMessages = Unlimited THEN k = q ELSE k = IF q < cap THEN q ELSE cap
  BY <1>6, <1>8, <1>9
<1>12. ASSUME NEW i \in 1..k
       PROVE  /\ SeqOf(t[i]) = (q + 1) - k + i - 1
              /\ t[i] = m \/ \E j \in 1..n : t[i] = old[j]
  <2>1. PICK j \in 1..(n + 1) : j = n + 1 - k + i
    BY <1>10
  <2>2. t[i] = new[j]
    <3>1. n + 1 - k + i = j /\ t[i] = new[n + 1 - k + i]
      BY <1>6, <1>7, <1>9, <2>1
    <3> QED BY <3>1
  <2>3. CASE j = n + 1
    BY <1>7, <2>1, <2>2, <2>3
  <2>4. CASE j # n + 1
    <3>1. j \in 1..n /\ t[i] = old[j] /\ q - n + j - 1 = (q + 1) - k + i - 1
      BY <1>7, <2>1, <2>2, <2>4
    <3>2. SeqOf(old[j]) = q - n + j - 1
      BY <1>8, <3>1
    <3> QED BY <3>1, <3>2
  <2> QED BY <2>3, <2>4
<1>13. IsWindow(t, q + 1)
  BY <1>2, <1>9, <1>11, <1>12 DEF IsWindow
<1>14. /\ t \in Seq(Message) /\ t # <<>> /\ t[Len(t)] = m
       /\ \A i \in DOMAIN t : t[i] = m \/ \E j \in DOMAIN old : t[i] = old[j]
  BY <1>6, <1>8, <1>9, <1>12
<1> QED BY <1>4, <1>5, <1>13, <1>14

(* What an append does to the session's list, in terms of the invariants. *)
LEMMA AppendEffect ==
  ASSUME TypeOK, RetainedWindow, NEW d \in DeviceId, AppendEncryptedEnvelope(d)
  PROVE  LET s == devices[d].session IN
         /\ s \in SessionId
         /\ \A r \in SessionId : r # s => log'[r] = log[r] /\ nextSeq'[r] = nextSeq[r]
         /\ nextSeq'[s] = nextSeq[s] + 1
         /\ log'[s] # <<>> /\ log'[s][Len(log'[s])] = [seq |-> nextSeq[s], sender |-> d]
         /\ \A i \in DOMAIN log'[s] :
              \/ log'[s][i] = [seq |-> nextSeq[s], sender |-> d]
              \/ \E j \in DOMAIN log[s] : log'[s][i] = log[s][j]
         /\ IsWindow(log'[s], nextSeq'[s])
<1>1. PICK s \in SessionId : s = devices[d].session
  <2>1. devices[d] \in Device
    BY DEF AppendEncryptedEnvelope, Active, Known, TypeOK
  <2> QED BY <2>1 DEF Device
<1>2. nextSeq[s] \in Nat \ {0} /\ log[s] \in Seq(Message)
  BY DEF TypeOK
<1>3. PICK m \in Message : m = [seq |-> nextSeq[s], sender |-> d]
  BY <1>2 DEF Message
<1>4. /\ log' = [log EXCEPT ![s] = Trim(Append(log[s], m))]
      /\ nextSeq' = [nextSeq EXCEPT ![s] = nextSeq[s] + 1]
  BY <1>1, <1>3 DEF AppendEncryptedEnvelope
<1>5. /\ log'[s] = Trim(Append(log[s], m)) /\ nextSeq'[s] = nextSeq[s] + 1
      /\ \A r \in SessionId : r # s => log'[r] = log[r] /\ nextSeq'[r] = nextSeq[r]
  BY <1>4 DEF TypeOK
<1>6. IsWindow(log[s], nextSeq[s])
  BY DEF RetainedWindow, IsWindow, SeqOf
<1>7. SeqOf(m) = nextSeq[s]
  BY <1>3 DEF SeqOf
<1> QED BY <1>1, <1>2, <1>3, <1>5, <1>6, <1>7, TrimKeepsWindow

-----------------------------------------------------------------------------
(* The three invariants, one step case per action. *)

LEMMA WindowNext == TypeOK /\ RetainedWindow /\ [Next]_vars => RetainedWindow'
<1> SUFFICES ASSUME TypeOK, RetainedWindow, [Next]_vars PROVE RetainedWindow'
  OBVIOUS
<1>1. CASE \E d \in DeviceId : AppendEncryptedEnvelope(d)
  <2>1. PICK d \in DeviceId : AppendEncryptedEnvelope(d)
    BY <1>1
  <2>2. PICK a \in SessionId :
          /\ \A r \in SessionId : r # a => log'[r] = log[r] /\ nextSeq'[r] = nextSeq[r]
          /\ IsWindow(log'[a], nextSeq'[a])
    BY <2>1, AppendEffect
  <2>3. \A s \in SessionId : IsWindow(log[s], nextSeq[s])
    BY DEF RetainedWindow, IsWindow, SeqOf
  <2>4. \A s \in SessionId : IsWindow(log'[s], nextSeq'[s])
    BY <2>2, <2>3
  <2> QED BY <2>4 DEF RetainedWindow, IsWindow, SeqOf
<1>2. CASE Restart
  <2>1. \A s \in SessionId : log'[s] = <<>> /\ nextSeq'[s] = 1
    BY <1>2 DEF Restart
  <2> QED BY <2>1, CapType DEF RetainedWindow
<1>3. CASE ~(\E d \in DeviceId : AppendEncryptedEnvelope(d)) /\ ~Restart
  <2>1. UNCHANGED <<log, nextSeq>>
    BY <1>3 DEF Next, Tick, RegisterHost, OpenPairingCode, PairMobileDevice,
       CleanupPairingChallenges, RevokeDevice, SetDeviceOnline, ReplaySince, ClientForgets,
       vars, serverVars
  <2> QED BY <2>1 DEF RetainedWindow
<1> QED BY <1>1, <1>2, <1>3

LEMMA FreshNext == TypeOK /\ FreshIds /\ [Next]_vars => FreshIds'
<1> SUFFICES ASSUME TypeOK, FreshIds, [Next]_vars PROVE FreshIds'
  OBVIOUS
<1> USE DEF FreshIds, Known
<1>1. ASSUME NEW h \in Host, NEW s \in SessionId, NEW d \in DeviceId, RegisterHost(h, s, d)
      PROVE FreshIds'
  BY <1>1 DEF RegisterHost, TypeOK, clientVars
<1>2. ASSUME NEW c \in Code, NEW d \in DeviceId, PairMobileDevice(c, d)
      PROVE FreshIds'
  BY <1>2 DEF PairMobileDevice, TypeOK, clientVars
<1>3. ASSUME NEW d \in DeviceId, RevokeDevice(d)
      PROVE FreshIds'
  BY <1>3 DEF RevokeDevice, TypeOK, clientVars
<1>4. ASSUME NEW d \in DeviceId, NEW online \in BOOLEAN, SetDeviceOnline(d, online)
      PROVE FreshIds'
  BY <1>4 DEF SetDeviceOnline, Active, TypeOK, clientVars
<1>5. ASSUME NEW d \in DeviceId, ReplaySince(d)
      PROVE FreshIds'
  <2>1. d \in issued
    BY <1>5 DEF ReplaySince, Active
  <2>2. \A e \in DeviceId : e # d => clientCursor'[e] = clientCursor[e] /\ clientSeen'[e] = clientSeen[e]
    BY <1>5 DEF ReplaySince, TypeOK
  <2> QED BY <1>5, <2>1, <2>2 DEF ReplaySince, serverVars
<1>6. ASSUME NEW d \in DeviceId, ClientForgets(d)
      PROVE FreshIds'
  BY <1>6 DEF ClientForgets, TypeOK, serverVars
<1>7. CASE Restart
  BY <1>7 DEF Restart, clientVars
<1>8. CASE \/ Tick \/ CleanupPairingChallenges \/ UNCHANGED vars
           \/ \E d \in DeviceId : AppendEncryptedEnvelope(d)
           \/ \E h \in Host, c \in Code, ttl \in Ttls : OpenPairingCode(h, c, ttl)
  <2>1. UNCHANGED <<devices, issued, clientCursor, clientSeen>>
    BY <1>8 DEF Tick, CleanupPairingChallenges, AppendEncryptedEnvelope, OpenPairingCode,
       vars, serverVars, clientVars
  <2> QED BY <2>1
<1> QED
  BY <1>1, <1>2, <1>3, <1>4, <1>5, <1>6, <1>7, <1>8 DEF Next

ReplaySafe == ReplayLeavesNoGap /\ CursorBehindSession

(* A device that has never replayed: every number is above its cursor. *)
LEMMA NewDeviceIsSafe ==
  ASSUME TypeOK, FreshIds, ReplaySafe, NEW d \in DeviceId \ issued, NEW rec \in Device,
         devices' = [devices EXCEPT ![d] = rec],
         UNCHANGED <<log, nextSeq, clientCursor, clientSeen>>
  PROVE  ReplaySafe'
<1>1. clientCursor[d] = 0 /\ ~Known(d) /\ rec.session \in SessionId /\ devices'[d] = rec
  BY DEF FreshIds, Device, TypeOK
<1>2. \A e \in DeviceId : e # d => devices'[e] = devices[e]
  BY DEF TypeOK
<1>3. \A s \in SessionId : \A i \in DOMAIN log[s] : log[s][i].seq \in Nat \ {0}
  <2>1. \A s \in SessionId : \A i \in DOMAIN log[s] : log[s][i] \in Message
    BY DEF TypeOK
  <2> QED BY <2>1 DEF Message
<1>4. nextSeq[rec.session] \in Nat \ {0}
  BY <1>1 DEF TypeOK
<1>5. ReplayLeavesNoGap'
  <2>1. ASSUME NEW e \in DeviceId, Known(e)', NEW i \in DOMAIN log[devices'[e].session],
               log[devices'[e].session][i].seq <= clientCursor[e]
        PROVE  log[devices'[e].session][i].seq \in clientSeen[e]
    <3>1. CASE e = d
      BY <1>1, <1>3, <2>1, <3>1
    <3>2. CASE e # d
      BY <1>2, <2>1, <3>2 DEF ReplaySafe, ReplayLeavesNoGap, Known
    <3> QED BY <3>1, <3>2
  <2> QED BY <2>1 DEF ReplayLeavesNoGap
<1>6. CursorBehindSession'
  BY <1>1, <1>2, <1>4 DEF ReplaySafe, CursorBehindSession, Known
<1> QED BY <1>5, <1>6 DEF ReplaySafe

(* Changing a known device's flags changes no reading position. *)
LEMMA FlagsAreSafe ==
  ASSUME TypeOK, ReplaySafe, NEW d \in DeviceId, Known(d), NEW rec \in Device,
         rec.session = devices[d].session, devices' = [devices EXCEPT ![d] = rec],
         UNCHANGED <<log, nextSeq, clientCursor, clientSeen>>
  PROVE  ReplaySafe'
<1>1. \A e \in DeviceId : Known(e)' => Known(e) /\ devices'[e].session = devices[e].session
  BY DEF Known, TypeOK
<1>2. ReplayLeavesNoGap'
  BY <1>1 DEF ReplaySafe, ReplayLeavesNoGap
<1>3. CursorBehindSession'
  BY <1>1 DEF ReplaySafe, CursorBehindSession
<1> QED BY <1>2, <1>3 DEF ReplaySafe

LEMMA AppendIsSafe ==
  ASSUME TypeOK, RetainedWindow, ReplaySafe,
         NEW d \in DeviceId, AppendEncryptedEnvelope(d)
  PROVE  ReplaySafe'
<1>1. PICK a \in SessionId :
        /\ \A r \in SessionId : r # a => log'[r] = log[r] /\ nextSeq'[r] = nextSeq[r]
        /\ nextSeq'[a] = nextSeq[a] + 1
        /\ \A i \in DOMAIN log'[a] :
             \/ log'[a][i] = [seq |-> nextSeq[a], sender |-> d]
             \/ \E j \in DOMAIN log[a] : log'[a][i] = log[a][j]
  BY AppendEffect
<1>2. UNCHANGED <<devices, clientCursor, clientSeen>>
  BY DEF AppendEncryptedEnvelope, clientVars
<1>3. \A e \in DeviceId : Known(e) => devices[e].session \in SessionId
  BY DEF TypeOK, Known, Device
<1>4. nextSeq \in [SessionId -> Nat \ {0}] /\ clientCursor \in [DeviceId -> Nat]
  BY DEF TypeOK
<1>5. ReplayLeavesNoGap'
  <2>1. ASSUME NEW e \in DeviceId, Known(e), NEW i \in DOMAIN log'[devices[e].session],
               log'[devices[e].session][i].seq <= clientCursor[e]
        PROVE  log'[devices[e].session][i].seq \in clientSeen[e]
    <3>1. CASE devices[e].session # a
      BY <1>1, <1>3, <2>1, <3>1 DEF ReplaySafe, ReplayLeavesNoGap
    <3>2. CASE devices[e].session = a
      <4>1. CASE log'[a][i] = [seq |-> nextSeq[a], sender |-> d]
        <5>1. log'[a][i].seq = nextSeq[a]
          BY <4>1
        <5>2. clientCursor[e] < nextSeq[a]
          BY <2>1, <3>2 DEF ReplaySafe, CursorBehindSession
        <5> QED BY <1>4, <2>1, <3>2, <5>1, <5>2
      <4>2. CASE \E j \in DOMAIN log[a] : log'[a][i] = log[a][j]
        BY <2>1, <3>2, <4>2 DEF ReplaySafe, ReplayLeavesNoGap
      <4> QED BY <1>1, <2>1, <3>2, <4>1, <4>2
    <3> QED BY <3>1, <3>2
  <2> QED BY <1>2, <2>1 DEF ReplayLeavesNoGap, Known
<1>6. CursorBehindSession'
  <2>1. \A e \in DeviceId : Known(e) => clientCursor[e] < nextSeq'[devices[e].session]
    BY <1>1, <1>3, <1>4 DEF ReplaySafe, CursorBehindSession
  <2> QED BY <1>2, <2>1 DEF ReplaySafe, CursorBehindSession, Known
<1> QED BY <1>5, <1>6 DEF ReplaySafe

LEMMA ReplayIsSafe ==
  ASSUME TypeOK, RetainedWindow, ReplaySafe, NEW d \in DeviceId, ReplaySince(d)
  PROVE  ReplaySafe'
<1>1. PICK s \in SessionId : s = devices[d].session
  BY DEF ReplaySince, Active, Known, TypeOK, Device
<1>2. PICK c \in Nat : c = clientCursor[d]
  BY DEF TypeOK
<1>3. Known(d) /\ UNCHANGED <<devices, log, nextSeq>>
  BY DEF ReplaySince, Active, serverVars
<1>4. /\ clientSeen'[d] = clientSeen[d] \cup ReplayedSeqs(s, c)
      /\ clientCursor'[d] = NextCursor(s, c)
      /\ \A e \in DeviceId : e # d => clientCursor'[e] = clientCursor[e] /\ clientSeen'[e] = clientSeen[e]
  BY <1>1, <1>2 DEF ReplaySince, TypeOK
<1>5. \A i \in DOMAIN log[s] : log[s][i].seq \in clientSeen'[d]
  <2>1. \A i \in DOMAIN log[s] : log[s][i].seq \in Nat
    <3>1. \A i \in DOMAIN log[s] : log[s][i] \in Message
      BY DEF TypeOK
    <3> QED BY <3>1 DEF Message
  <2>2. ASSUME NEW i \in DOMAIN log[s] PROVE log[s][i].seq \in clientSeen'[d]
    <3>1. CASE log[s][i].seq > c
      BY <1>4, <3>1 DEF ReplayedSeqs, Replayed
    <3>2. CASE log[s][i].seq <= c
      BY <1>1, <1>2, <1>3, <1>4, <3>2 DEF ReplaySafe, ReplayLeavesNoGap
    <3> QED BY <1>2, <2>1, <3>1, <3>2
  <2> QED BY <2>2
<1>6. NextCursor(s, c) < nextSeq[s] /\ (NextCursor(s, c) # 0 => NextCursor(s, c) \in clientSeen'[d])
  <2>1. CASE Replayed(s, c) = {}
    BY <1>1, <1>2, <1>3, <1>4, <2>1 DEF NextCursor, ReplaySafe, CursorBehindSession
  <2>2. CASE Replayed(s, c) # {}
    <3>1. NextCursor(s, c) = nextSeq[s] - 1 /\ NextCursor(s, c) \in ReplayedSeqs(s, c)
      BY <2>2, ReplayIsSuffix
    <3>2. nextSeq[s] \in Nat
      BY DEF TypeOK
    <3> QED BY <1>4, <3>1, <3>2
  <2> QED BY <2>1, <2>2
<1>7. ReplayLeavesNoGap'
  BY <1>1, <1>3, <1>4, <1>5 DEF ReplaySafe, ReplayLeavesNoGap, Known
<1>8. CursorBehindSession'
  BY <1>1, <1>3, <1>4, <1>6 DEF ReplaySafe, CursorBehindSession, Known
<1> QED BY <1>7, <1>8 DEF ReplaySafe

LEMMA ReplaySafeNext == IInv /\ [Next]_vars => ReplaySafe'
<1> SUFFICES ASSUME TypeOK, FreshIds, RetainedWindow, ReplaySafe, [Next]_vars PROVE ReplaySafe'
  BY DEF IInv, ReplaySafe
<1>1. ASSUME NEW h \in Host, NEW s \in SessionId, NEW d \in DeviceId, RegisterHost(h, s, d)
      PROVE ReplaySafe'
  <2>1. PICK rec \in Device :
          rec = [session |-> s, role |-> "host", online |-> TRUE, revoked |-> FALSE]
    BY DEF Device
  <2> QED BY <1>1, <2>1, NewDeviceIsSafe DEF RegisterHost, clientVars
<1>2. ASSUME NEW c \in Code, NEW d \in DeviceId, PairMobileDevice(c, d)
      PROVE ReplaySafe'
  <2>1. challenges[c].session \in SessionId
    BY <1>2 DEF PairMobileDevice, Pairable, TypeOK, Challenge
  <2>2. PICK rec \in Device :
          rec = [session |-> challenges[c].session, role |-> "mobile",
                 online |-> FALSE, revoked |-> FALSE]
    BY <2>1 DEF Device
  <2> QED BY <1>2, <2>2, NewDeviceIsSafe DEF PairMobileDevice, clientVars
<1>3. ASSUME NEW d \in DeviceId, RevokeDevice(d)
      PROVE ReplaySafe'
  <2>1. devices[d] \in Device /\ Known(d)
    BY <1>3 DEF RevokeDevice, Known, TypeOK
  <2>2. PICK rec : rec = [devices[d] EXCEPT !.revoked = TRUE, !.online = FALSE]
    OBVIOUS
  <2>3. rec \in Device /\ rec.session = devices[d].session
    BY <2>1, <2>2 DEF Device
  <2>4. devices' = [devices EXCEPT ![d] = rec] /\ UNCHANGED <<log, nextSeq, clientCursor, clientSeen>>
    BY <1>3, <2>2 DEF RevokeDevice, clientVars
  <2> QED BY <2>1, <2>3, <2>4, FlagsAreSafe
<1>4. ASSUME NEW d \in DeviceId, NEW online \in BOOLEAN, SetDeviceOnline(d, online)
      PROVE ReplaySafe'
  <2>1. devices[d] \in Device /\ Known(d)
    BY <1>4 DEF SetDeviceOnline, Active, Known, TypeOK
  <2>2. PICK rec : rec = [devices[d] EXCEPT !.online = online]
    OBVIOUS
  <2>3. rec \in Device /\ rec.session = devices[d].session
    BY <2>1, <2>2 DEF Device
  <2>4. devices' = [devices EXCEPT ![d] = rec] /\ UNCHANGED <<log, nextSeq, clientCursor, clientSeen>>
    BY <1>4, <2>2 DEF SetDeviceOnline, clientVars
  <2> QED BY <2>1, <2>3, <2>4, FlagsAreSafe
<1>5. ASSUME NEW d \in DeviceId, ClientForgets(d)
      PROVE ReplaySafe'
  <2>1. /\ clientCursor'[d] = 0 /\ UNCHANGED <<devices, log, nextSeq>>
        /\ \A e \in DeviceId : e # d => clientCursor'[e] = clientCursor[e] /\ clientSeen'[e] = clientSeen[e]
    BY <1>5 DEF ClientForgets, TypeOK, serverVars
  <2>2. \A s \in SessionId : \A i \in DOMAIN log[s] : log[s][i].seq \in Nat \ {0}
    <3>1. \A s \in SessionId : \A i \in DOMAIN log[s] : log[s][i] \in Message
      BY DEF TypeOK
    <3> QED BY <3>1 DEF Message
  <2>3. \A e \in DeviceId : Known(e) => devices[e].session \in SessionId
    BY DEF TypeOK, Known, Device
  <2>4. \A s \in SessionId : nextSeq[s] \in Nat \ {0}
    BY DEF TypeOK
  <2>5. ReplayLeavesNoGap'
    BY <2>1, <2>2, <2>3 DEF ReplaySafe, ReplayLeavesNoGap, Known
  <2>6. CursorBehindSession'
    BY <2>1, <2>3, <2>4 DEF ReplaySafe, CursorBehindSession, Known
  <2> QED BY <2>5, <2>6 DEF ReplaySafe
<1>6. CASE Restart
  <2>1. \A d \in DeviceId : ~Known(d)'
    BY <1>6 DEF Restart, Known
  <2> QED BY <2>1 DEF ReplaySafe, ReplayLeavesNoGap, CursorBehindSession
<1>7. CASE \/ Tick \/ CleanupPairingChallenges \/ UNCHANGED vars
           \/ \E h \in Host, c \in Code, ttl \in Ttls : OpenPairingCode(h, c, ttl)
  <2>1. UNCHANGED <<devices, log, nextSeq, clientCursor, clientSeen>>
    BY <1>7 DEF Tick, CleanupPairingChallenges, OpenPairingCode, vars, serverVars, clientVars
  <2> QED BY <2>1 DEF ReplaySafe, ReplayLeavesNoGap, CursorBehindSession, Known
<1> QED
  BY <1>1, <1>2, <1>3, <1>4, <1>5, <1>6, <1>7, AppendIsSafe, ReplayIsSafe DEF Next

LEMMA NextIInv == IInv /\ [Next]_vars => IInv'
  BY TypeNext, FreshNext, WindowNext, ReplaySafeNext DEF IInv, ReplaySafe

THEOREM InductiveInvariant == Spec => []IInv
  BY InitIInv, NextIInv, PTL DEF Spec

(* Every reachable state is well typed, whatever the constants. *)
THEOREM TypeCorrect == Spec => []TypeOK
<1>1. IInv => TypeOK
  BY DEF IInv
<1> QED BY <1>1, InductiveInvariant, PTL

(* The retained list is always the newest window of the session's numbers. *)
THEOREM WindowTheorem == Spec => []RetainedWindow
<1>1. IInv => RetainedWindow
  BY DEF IInv
<1> QED BY <1>1, InductiveInvariant, PTL

(* A caller that follows next_cursor misses nothing the relay still holds,  *)
(* for every number of devices, any cap, and across restarts.               *)
THEOREM ReplayTheorem == Spec => []ReplayLeavesNoGap
<1>1. IInv => ReplayLeavesNoGap
  BY DEF IInv
<1> QED BY <1>1, InductiveInvariant, PTL

(* No cursor runs ahead of the session it reads. *)
THEOREM CursorTheorem == Spec => []CursorBehindSession
<1>1. IInv => CursorBehindSession
  BY DEF IInv
<1> QED BY <1>1, InductiveInvariant, PTL

-----------------------------------------------------------------------------
(* Revocation.  That a revoked device stays offline needs one more invariant. *)

RevokedOffline == \A d \in DeviceId : Known(d) /\ devices[d].revoked => ~devices[d].online

LEMMA OfflineNext == TypeOK /\ RevokedOffline /\ [Next]_vars => RevokedOffline'
<1> SUFFICES ASSUME TypeOK, RevokedOffline, [Next]_vars PROVE RevokedOffline'
  OBVIOUS
<1>1. ASSUME NEW h \in Host, NEW s \in SessionId, NEW d \in DeviceId, RegisterHost(h, s, d)
      PROVE RevokedOffline'
  BY <1>1 DEF RegisterHost, TypeOK, RevokedOffline, Known
<1>2. ASSUME NEW c \in Code, NEW d \in DeviceId, PairMobileDevice(c, d)
      PROVE RevokedOffline'
  BY <1>2 DEF PairMobileDevice, TypeOK, RevokedOffline, Known
<1>3. ASSUME NEW d \in DeviceId, RevokeDevice(d)
      PROVE RevokedOffline'
  <2>1. devices[d] \in Device
    BY <1>3 DEF RevokeDevice, Known, TypeOK
  <2>2. /\ ~devices'[d].online
        /\ \A e \in DeviceId : e # d => devices'[e] = devices[e]
    BY <1>3, <2>1 DEF RevokeDevice, TypeOK, Device
  <2> QED BY <2>2 DEF RevokedOffline, Known
<1>4. ASSUME NEW d \in DeviceId, NEW online \in BOOLEAN, SetDeviceOnline(d, online)
      PROVE RevokedOffline'
  <2>1. devices[d] \in Device /\ ~devices[d].revoked
    BY <1>4 DEF SetDeviceOnline, Active, Known, TypeOK
  <2>2. /\ ~devices'[d].revoked
        /\ \A e \in DeviceId : e # d => devices'[e] = devices[e]
    BY <1>4, <2>1 DEF SetDeviceOnline, TypeOK, Device
  <2> QED BY <2>2 DEF RevokedOffline, Known
<1>5. CASE Restart
  BY <1>5 DEF Restart, RevokedOffline, Known
<1>6. CASE UNCHANGED devices
  BY <1>6 DEF RevokedOffline, Known
<1>7. \/ UNCHANGED devices \/ Restart
      \/ \E h \in Host, s \in SessionId, d \in DeviceId : RegisterHost(h, s, d)
      \/ \E c \in Code, d \in DeviceId : PairMobileDevice(c, d)
      \/ \E d \in DeviceId : RevokeDevice(d)
      \/ \E d \in DeviceId, online \in BOOLEAN : SetDeviceOnline(d, online)
  BY DEF Next, Tick, OpenPairingCode, CleanupPairingChallenges, AppendEncryptedEnvelope,
     ReplaySince, ClientForgets, vars, serverVars
<1> QED BY <1>1, <1>2, <1>3, <1>4, <1>5, <1>6, <1>7

(* One step leaves an issued, inactive device without any effect. *)
FinalStep ==
  \A d \in DeviceId : d \in issued /\ ~Active(d) =>
    /\ ~Active(d)'
    /\ Known(d)' => ~devices'[d].online
    /\ clientSeen'[d] \subseteq clientSeen[d]
    /\ \A s \in SessionId :
         nextSeq'[s] > nextSeq[s] => log'[s][Len(log'[s])].sender # d

LEMMA FinalNext == IInv /\ RevokedOffline /\ [Next]_vars => FinalStep
<1> SUFFICES ASSUME TypeOK, FreshIds, RetainedWindow, RevokedOffline, RevokedOffline', [Next]_vars,
                    NEW d \in DeviceId, d \in issued, ~Active(d)
             PROVE  /\ ~Active(d)'
                    /\ Known(d)' => ~devices'[d].online
                    /\ clientSeen'[d] \subseteq clientSeen[d]
                    /\ \A s \in SessionId :
                         nextSeq'[s] > nextSeq[s] => log'[s][Len(log'[s])].sender # d
  BY OfflineNext DEF IInv, FinalStep
<1>1. ~Active(d)'
  <2>1. ASSUME NEW e \in DeviceId, RevokeDevice(e) PROVE ~Active(d)'
    <3>1. CASE e # d
      BY <2>1, <3>1 DEF RevokeDevice, Active, Known, TypeOK
    <3>2. CASE e = d
      <4>1. devices[d] \in Device
        BY <2>1, <3>2 DEF RevokeDevice, Known, TypeOK
      <4>2. devices'[d].revoked
        BY <2>1, <3>2, <4>1 DEF RevokeDevice, TypeOK, Device
      <4> QED BY <4>2 DEF Active
    <3> QED BY <3>1, <3>2
  <2>2. ASSUME NEW e \in DeviceId, NEW online \in BOOLEAN, SetDeviceOnline(e, online)
        PROVE ~Active(d)'
    <3>1. e # d
      BY <2>2 DEF SetDeviceOnline
    <3> QED BY <2>2, <3>1 DEF SetDeviceOnline, Active, Known, TypeOK
  <2>3. ASSUME NEW h \in Host, NEW s \in SessionId, NEW e \in DeviceId, RegisterHost(h, s, e)
        PROVE ~Active(d)'
    BY <2>3 DEF RegisterHost, Active, Known, TypeOK
  <2>4. ASSUME NEW c \in Code, NEW e \in DeviceId, PairMobileDevice(c, e)
        PROVE ~Active(d)'
    BY <2>4 DEF PairMobileDevice, Active, Known, TypeOK
  <2>5. CASE Restart
    BY <2>5 DEF Restart, Active, Known
  <2>6. CASE UNCHANGED devices
    BY <2>6 DEF Active, Known
  <2>7. \/ UNCHANGED devices \/ Restart
        \/ \E h \in Host, s \in SessionId, e \in DeviceId : RegisterHost(h, s, e)
        \/ \E c \in Code, e \in DeviceId : PairMobileDevice(c, e)
        \/ \E e \in DeviceId : RevokeDevice(e)
        \/ \E e \in DeviceId, online \in BOOLEAN : SetDeviceOnline(e, online)
    BY DEF Next, Tick, OpenPairingCode, CleanupPairingChallenges, AppendEncryptedEnvelope,
       ReplaySince, ClientForgets, vars, serverVars
  <2> QED BY <2>1, <2>2, <2>3, <2>4, <2>5, <2>6, <2>7
<1>2. Known(d)' => ~devices'[d].online
  BY <1>1 DEF RevokedOffline, Active
<1>3. clientSeen'[d] \subseteq clientSeen[d]
  <2>1. ASSUME NEW e \in DeviceId, ReplaySince(e) PROVE clientSeen'[d] = clientSeen[d]
    BY <2>1 DEF ReplaySince, TypeOK
  <2>2. ASSUME NEW e \in DeviceId, ClientForgets(e) PROVE clientSeen'[d] \subseteq clientSeen[d]
    BY <2>2 DEF ClientForgets, TypeOK
  <2>3. CASE UNCHANGED clientSeen
    BY <2>3
  <2>4. \/ UNCHANGED clientSeen
        \/ \E e \in DeviceId : ReplaySince(e)
        \/ \E e \in DeviceId : ClientForgets(e)
    BY DEF Next, Tick, RegisterHost, OpenPairingCode, PairMobileDevice, CleanupPairingChallenges,
       RevokeDevice, SetDeviceOnline, AppendEncryptedEnvelope, Restart, vars, clientVars
  <2> QED BY <2>1, <2>2, <2>3, <2>4
<1>4. ASSUME NEW s \in SessionId, nextSeq'[s] > nextSeq[s]
      PROVE  log'[s][Len(log'[s])].sender # d
  <2>1. nextSeq[s] \in Nat \ {0}
    BY DEF TypeOK
  <2>2. CASE UNCHANGED nextSeq
    BY <1>4, <2>1, <2>2
  <2>3. CASE Restart
    BY <1>4, <2>1, <2>3 DEF Restart
  <2>4. ASSUME NEW e \in DeviceId, AppendEncryptedEnvelope(e)
        PROVE  log'[s][Len(log'[s])].sender # d
    <3>1. PICK a \in SessionId :
            /\ \A r \in SessionId : r # a => log'[r] = log[r] /\ nextSeq'[r] = nextSeq[r]
            /\ log'[a][Len(log'[a])] = [seq |-> nextSeq[a], sender |-> e]
      BY <2>4, AppendEffect
    <3>2. s = a
      BY <1>4, <2>1, <3>1
    <3>3. e # d
      BY <2>4 DEF AppendEncryptedEnvelope
    <3>4. log'[s][Len(log'[s])].sender = e
      BY <3>1, <3>2
    <3> QED BY <3>3, <3>4
  <2>5. UNCHANGED nextSeq \/ Restart \/ \E e \in DeviceId : AppendEncryptedEnvelope(e)
    BY DEF Next, Tick, RegisterHost, OpenPairingCode, PairMobileDevice, CleanupPairingChallenges,
       RevokeDevice, SetDeviceOnline, ReplaySince, ClientForgets, vars, serverVars
  <2> QED BY <2>2, <2>3, <2>4, <2>5
<1> QED BY <1>1, <1>2, <1>3, <1>4

(* A revoked or forgotten device has no further effect in any behaviour. *)
THEOREM RevocationTheorem == Spec => RevocationIsFinal
<1>1. Init => RevokedOffline
  BY DEF Init, EmptyServer, RevokedOffline, Known
<1>2. Spec => []RevokedOffline
  <2>1. IInv /\ RevokedOffline /\ [Next]_vars => RevokedOffline'
    BY OfflineNext DEF IInv
  <2> QED BY <1>1, <2>1, InductiveInvariant, PTL DEF Spec
<1>3. IInv /\ RevokedOffline /\ [Next]_vars => [FinalStep]_vars
  BY FinalNext
<1>4. [][FinalStep]_vars <=> RevocationIsFinal
  BY DEF FinalStep, RevocationIsFinal
<1> QED BY <1>2, <1>3, <1>4, InductiveInvariant, PTL DEF Spec

-----------------------------------------------------------------------------
(* One phone per code. *)

(* The counts of a session, with what makes them counts. *)
Fits(phones, codes, n) ==
  /\ IsFiniteSet(phones) /\ IsFiniteSet(codes)
  /\ Cardinality(phones) + Cardinality(codes) <= n

CodesFit == \A s \in SessionId : Fits(Mobiles(s), Outstanding(s), opened[s])

LEMMA FitsShrinks ==
  ASSUME NEW phones, NEW codes, NEW n \in Nat, Fits(phones, codes, n),
         NEW p \in SUBSET phones, NEW c \in SUBSET codes
  PROVE  Fits(p, c, n)
<1>1. /\ IsFiniteSet(p) /\ Cardinality(p) <= Cardinality(phones)
      /\ IsFiniteSet(c) /\ Cardinality(c) <= Cardinality(codes)
  BY FS_Subset DEF Fits
<1>2. /\ Cardinality(p) \in Nat /\ Cardinality(phones) \in Nat
      /\ Cardinality(c) \in Nat /\ Cardinality(codes) \in Nat
  BY <1>1, FS_CardinalityType DEF Fits
<1> QED BY <1>1, <1>2 DEF Fits

LEMMA FitsOneCodeMore ==
  ASSUME NEW phones, NEW codes, NEW n \in Nat, Fits(phones, codes, n), NEW c, NEW m, m = n + 1
  PROVE  Fits(phones, codes \cup {c}, m)
<1>1. /\ IsFiniteSet(codes \cup {c})
      /\ Cardinality(codes \cup {c}) \in {Cardinality(codes), Cardinality(codes) + 1}
  BY FS_AddElement DEF Fits
<1>2. Cardinality(phones) \in Nat /\ Cardinality(codes) \in Nat
  BY FS_CardinalityType DEF Fits
<1> QED BY <1>1, <1>2 DEF Fits

(* A phone in exchange for a code. *)
LEMMA FitsExchange ==
  ASSUME NEW phones, NEW codes, NEW n \in Nat, Fits(phones, codes, n), NEW d, NEW c \in codes
  PROVE  Fits(phones \cup {d}, codes \ {c}, n)
<1>1. /\ IsFiniteSet(phones \cup {d}) /\ IsFiniteSet(codes \ {c})
      /\ Cardinality(phones \cup {d}) \in {Cardinality(phones), Cardinality(phones) + 1}
      /\ Cardinality(codes \ {c}) = Cardinality(codes) - 1
  BY FS_AddElement, FS_RemoveElement DEF Fits
<1>2. Cardinality(phones) \in Nat /\ Cardinality(codes) \in Nat
  BY FS_CardinalityType DEF Fits
<1> QED BY <1>1, <1>2 DEF Fits

LEMMA CodesFitNext == TypeOK /\ FreshIds /\ CodesFit /\ [Next]_vars => CodesFit'
<1> SUFFICES ASSUME TypeOK, FreshIds, CodesFit, [Next]_vars, NEW s \in SessionId
             PROVE  Fits(Mobiles(s), Outstanding(s), opened[s])'
  BY DEF CodesFit
<1> USE RelayAssumption
<1> DEFINE Goal == Fits(Mobiles(s)', Outstanding(s)', opened'[s])
           Shrunk == /\ Mobiles(s)' \subseteq Mobiles(s) /\ Outstanding(s)' \subseteq Outstanding(s)
                     /\ opened'[s] = opened[s]
<1>0. Fits(Mobiles(s), Outstanding(s), opened[s]) /\ opened[s] \in Nat
  BY DEF CodesFit, TypeOK
<1>a. Shrunk => Goal
  BY <1>0, FitsShrinks
<1>b. UNCHANGED devices => Mobiles(s)' = Mobiles(s)
  BY DEF Mobiles, Known
<1>c. UNCHANGED challenges => Outstanding(s)' = Outstanding(s)
  BY DEF Outstanding
<1>d. challenges' = Cleaned => Outstanding(s)' \subseteq Outstanding(s)
  BY DEF Outstanding, Cleaned
<1>1. ASSUME NEW h \in Host, NEW r \in SessionId, NEW d \in DeviceId, RegisterHost(h, r, d)
      PROVE  Shrunk
  <2>1. Mobiles(s)' \subseteq Mobiles(s)
    BY <1>1 DEF RegisterHost, Mobiles, Known, TypeOK
  <2> QED BY <1>1, <1>c, <2>1 DEF RegisterHost
<1>2. ASSUME NEW h \in Host, NEW c \in Code, NEW ttl \in Ttls, OpenPairingCode(h, c, ttl)
      PROVE  Goal
  <2>1. CASE hostSession[h] = NoSession
    <3>1. challenges' = Cleaned /\ UNCHANGED <<devices, opened>>
      BY <1>2, <2>1 DEF OpenPairingCode
    <3> QED BY <1>a, <1>b, <1>d, <3>1
  <2>2. CASE hostSession[h] # NoSession
    <3> DEFINE r == hostSession[h]
               new == [session |-> r, expires |-> now + (IF ttl < 1 THEN 1 ELSE ttl), consumed |-> FALSE]
    <3>1. /\ challenges' = [Cleaned EXCEPT ![c] = new] /\ UNCHANGED devices
          /\ opened' = [opened EXCEPT ![r] = @ + 1] /\ r \in SessionId
      BY <1>2, <2>2 DEF OpenPairingCode, TypeOK
    <3>2. Outstanding(s)' \subseteq IF s = r THEN Outstanding(s) \cup {c} ELSE Outstanding(s)
      <4>1. \A k \in Code : k # c => challenges'[k] = challenges[k] \/ challenges'[k] = NoChallenge
        BY <3>1 DEF Cleaned
      <4>2. challenges'[c].session = r
        BY <3>1 DEF Cleaned
      <4> QED BY <4>1, <4>2 DEF Outstanding
    <3> HIDE DEF r, new
    <3>3. CASE s = r
      <4>1. opened'[s] = opened[s] + 1 /\ opened'[s] \in Nat
        BY <1>0, <3>1, <3>3 DEF TypeOK
      <4>2. PICK m \in Nat : m = opened[s] + 1
        BY <1>0
      <4>5. Fits(Mobiles(s), Outstanding(s) \cup {c}, m)
        BY <1>0, <4>2, FitsOneCodeMore
      <4>3. Mobiles(s)' \in SUBSET Mobiles(s) /\ Outstanding(s)' \in SUBSET (Outstanding(s) \cup {c})
        BY <1>b, <3>1, <3>2, <3>3
      <4>4. Fits(Mobiles(s)', Outstanding(s)', m)
        BY <4>3, <4>5, FitsShrinks
      <4> QED BY <4>1, <4>2, <4>4
    <3>4. CASE s # r
      <4>1. opened'[s] = opened[s]
        BY <3>1, <3>4 DEF TypeOK
      <4> QED BY <1>a, <1>b, <3>1, <3>2, <3>4, <4>1
    <3> QED BY <3>3, <3>4
  <2> QED BY <2>1, <2>2
<1>3. ASSUME NEW c \in Code, NEW d \in DeviceId, PairMobileDevice(c, d) PROVE Goal
  <2> DEFINE r == challenges[c].session
  <2>1. /\ challenges[c] \in Challenge /\ ~challenges[c].consumed /\ d \notin issued
        /\ devices' = [devices EXCEPT ![d] =
             [session |-> r, role |-> "mobile", online |-> FALSE, revoked |-> FALSE]]
        /\ challenges' = [challenges EXCEPT ![c].consumed = TRUE]
        /\ opened' = opened
    BY <1>3 DEF PairMobileDevice, Pairable, TypeOK
  <2>2. /\ challenges'[c].consumed = TRUE
        /\ \A k \in Code : k # c => challenges'[k] = challenges[k]
    BY <2>1 DEF TypeOK, Challenge
  <2>3. Outstanding(s)' \subseteq Outstanding(s) \ {c}
    BY <2>2 DEF Outstanding
  <2>4. Mobiles(s)' \subseteq IF s = r THEN Mobiles(s) \cup {d} ELSE Mobiles(s)
    BY <2>1 DEF Mobiles, Known, TypeOK
  <2>5. CASE s = r
    <3>1. c \in Outstanding(s)
      BY <2>1, <2>5 DEF Outstanding, Challenge
    <3>2. Fits(Mobiles(s) \cup {d}, Outstanding(s) \ {c}, opened[s])
      BY <1>0, <3>1, FitsExchange
    <3> QED BY <1>0, <2>1, <2>3, <2>4, <2>5, <3>2, FitsShrinks
  <2>6. CASE s # r
    BY <1>a, <2>1, <2>3, <2>4, <2>6
  <2> QED BY <2>5, <2>6
<1>4. CASE CleanupPairingChallenges
  BY <1>4, <1>a, <1>b, <1>d DEF CleanupPairingChallenges
<1>5. ASSUME NEW d \in DeviceId, NEW online \in BOOLEAN, RevokeDevice(d) \/ SetDeviceOnline(d, online)
      PROVE  Shrunk
  <2>1. UNCHANGED <<challenges, opened>> /\ devices[d] \in Device /\ Known(d)
    BY <1>5 DEF RevokeDevice, SetDeviceOnline, Active, Known, TypeOK
  <2>2. PICK rec \in Device : /\ rec.session = devices[d].session /\ rec.role = devices[d].role
                              /\ devices' = [devices EXCEPT ![d] = rec]
    <3>1. CASE RevokeDevice(d)
      <4> DEFINE rec == [devices[d] EXCEPT !.revoked = TRUE, !.online = FALSE]
      <4>1. rec \in Device /\ rec.session = devices[d].session /\ rec.role = devices[d].role
        BY <2>1 DEF Device
      <4>2. devices' = [devices EXCEPT ![d] = rec]
        BY <3>1 DEF RevokeDevice
      <4> QED BY <4>1, <4>2
    <3>2. CASE SetDeviceOnline(d, online)
      <4> DEFINE rec == [devices[d] EXCEPT !.online = online]
      <4>1. rec \in Device /\ rec.session = devices[d].session /\ rec.role = devices[d].role
        BY <2>1 DEF Device
      <4>2. devices' = [devices EXCEPT ![d] = rec]
        BY <3>2 DEF SetDeviceOnline
      <4> QED BY <4>1, <4>2
    <3> QED BY <1>5, <3>1, <3>2
  <2>3. \A e \in DeviceId : e # d => devices'[e] = devices[e]
    BY <2>2
  <2>4. devices'[d] = rec
    BY <2>2 DEF TypeOK
  <2>5. Mobiles(s)' \subseteq Mobiles(s)
    BY <2>1, <2>2, <2>3, <2>4 DEF Mobiles, Known
  <2> QED BY <1>c, <2>1, <2>5
<1>6. CASE Restart
  <2>1. Mobiles(s)' = {} /\ Outstanding(s)' = {}
    BY <1>6 DEF Restart, Mobiles, Outstanding, Known
  <2> QED BY <1>6, <1>a, <2>1 DEF Restart
<1>7. CASE UNCHANGED <<devices, challenges, opened>>
  BY <1>7, <1>a, <1>b, <1>c
<1>8. \/ UNCHANGED <<devices, challenges, opened>> \/ CleanupPairingChallenges \/ Restart
      \/ \E h \in Host, r \in SessionId, d \in DeviceId : RegisterHost(h, r, d)
      \/ \E h \in Host, c \in Code, ttl \in Ttls : OpenPairingCode(h, c, ttl)
      \/ \E c \in Code, d \in DeviceId : PairMobileDevice(c, d)
      \/ \E d \in DeviceId, online \in BOOLEAN : RevokeDevice(d) \/ SetDeviceOnline(d, online)
  BY DEF Next, Tick, AppendEncryptedEnvelope, ReplaySince, ClientForgets, vars, serverVars
<1> QED BY <1>1, <1>2, <1>3, <1>4, <1>5, <1>6, <1>7, <1>8, <1>a

(* Counting the codes that can still be used, a session never has more      *)
(* phones than its host opened codes.                                       *)
THEOREM CodeTheorem == Spec => []OnePhonePerCode
<1>1. Init => CodesFit
  <2> SUFFICES ASSUME Init, NEW s \in SessionId PROVE Fits(Mobiles(s), Outstanding(s), opened[s])
    BY DEF CodesFit
  <2>1. Mobiles(s) = {} /\ Outstanding(s) = {} /\ opened[s] = 0
    BY RelayAssumption DEF Init, EmptyServer, Mobiles, Outstanding, Known
  <2> QED BY <2>1, FS_EmptySet DEF Fits
<1>2. IInv /\ CodesFit /\ [Next]_vars => CodesFit'
  BY CodesFitNext DEF IInv
<1>3. CodesFit => OnePhonePerCode
  BY DEF CodesFit, Fits, OnePhonePerCode
<1> QED BY <1>1, <1>2, <1>3, InductiveInvariant, PTL DEF Spec

=============================================================================
