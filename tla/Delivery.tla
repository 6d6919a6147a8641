------------------------------ MODULE Delivery -------------------------------
(***************************************************************************)
(* Numbered delivery of room messages to phones: the message buffer        *)
(* (src/core/message_buffer.py), the broadcast and replay of the           *)
(* connection manager (backend/connection_manager.py), the cursor the      *)
(* phone keeps (frontend/src/hooks/useOpenVibeWS.js) and the feed its page *)
(* shows (frontend/src/utils/messageFeed.js).  The page outlives sockets   *)
(* and backends: cursor and feed are never emptied.                        *)
(*                                                                         *)
(* The backend is one asyncio loop.  A send to a socket may suspend, so a  *)
(* broadcast is one step to number the message and list the peers, then    *)
(* one step per peer; a resume is one step to list the buffered messages,  *)
(* then one step per message.  Everything else runs without suspending.    *)
(*                                                                         *)
(* A message is its seq_id and the life of the backend that numbered it,   *)
(* and on the wire also whether it is encrypted; Says is what the feed     *)
(* compares.  Left out: packets for the desktop only, a sender's           *)
(* exclude_ws, the log lines the rate limiter drops before they are        *)
(* numbered, and the merging of a diff into the one before it.  Packets    *)
(* without a number (snapshots, notices) are seen only as entries that     *)
(* come between two messages of the feed.                                  *)
(***************************************************************************)
EXTENDS Integers, Sequences, FiniteSets, SequencesExt, FiniteSetsExt

CONSTANTS
  Phone,      \* the phones
  Conn,       \* websockets; a reconnect takes a fresh one
  Task,       \* tasks of the loop that broadcast: the driver's, a peer's own
  Size,       \* size of the ring buffer
  MaxSeq,     \* bound: messages published between two restarts
  MaxRestarts,\* bound: restarts of the backend
  Says,       \* what each message says: the fields isConsecutiveDuplicate compares
  Key,        \* a key_exchange message
  None

ASSUME DeliveryAssumption ==
  /\ None \notin Conn /\ {Key, None} \cap Nat = {} /\ Key # None
  /\ Size \in Nat \ {0} /\ MaxSeq \in Nat /\ MaxRestarts \in Nat

VARIABLES
  nextSeq,    \* MessageBuffer.next_seq_id; the buffer is its newest Size numbers
  room,       \* rooms[token]: the sockets registered, in order of arrival
  job,        \* per task: the message it broadcasts and the sockets still to send to
  replay,     \* per socket: what its resume still has to send
  net,        \* per socket: sent, not yet received
  request,    \* per socket, on its way to the backend: the last_seq_id of a resume,
              \* Key for a key_exchange, or None
  secrets,    \* sockets the backend encrypts to
  conn,       \* per phone: its socket, or None
  used,       \* sockets that have been opened
  link,       \* per phone, on the present socket: open; deriving (it has the
              \* backend's key, not yet the secret); ready (it has sent its resume)
  lastSeqId,  \* per phone: the cursor, lastSeqId.current
  queue,      \* per phone: messages given to addMsg whose state updater has not run
  feed,       \* per phone: the messages of its page, and entries of other kinds
  repeated,   \* history, per phone: messages the feed left out as repetitions
  restarts,   \* history: restarts so far
  owed        \* history, per socket: messages published while it was registered,
              \* and messages a resume on it asked for

vars == <<nextSeq, room, job, replay, net, request, secrets, conn, used, link,
          lastSeqId, queue, feed, repeated, restarts, owed>>
pageVars == <<lastSeqId, queue, feed, repeated>>
phoneVars == <<conn, used, link, pageVars, restarts>>

Idle == [seq |-> 0, peers |-> <<>>]
Remaining(s, peers) == IF peers = <<>> THEN Idle ELSE [seq |-> s, peers |-> peers]

KeyReply == [seq |-> 0, enc |-> FALSE]
Sealed(c, s) == [seq |-> s, enc |-> c \in secrets]

Registered(c) == Contains(room, c)

(* Message s of this life; Issued are the messages numbered so far. *)
Message(s) == [life |-> restarts, seq |-> s]
Issued == {m \in [life : 0..restarts, seq : 1..MaxSeq] : m.life = restarts => m.seq < nextSeq}

(* An entry of the feed that is no numbered message. *)
Other == [life |-> 0, seq |-> 0]

(* The ring buffer holds the newest Size messages; get_since lists those     *)
(* after the cursor.                                                         *)
Oldest == IF nextSeq > Size THEN nextSeq - Size ELSE 1
GetSince(cursor) ==
  LET first == IF cursor < Oldest THEN Oldest ELSE cursor + 1
  IN [i \in 1..(nextSeq - first) |-> first + i - 1]

TypeOK ==
  /\ nextSeq \in 1..(MaxSeq + 1)
  /\ room \in Seq(Conn) /\ IsInjective(room)
  /\ job \in [Task -> [seq : 0..MaxSeq, peers : Seq(Conn)]]
  /\ replay \in [Conn -> Seq(1..MaxSeq)]
  /\ net \in [Conn -> Seq([seq : 1..MaxSeq, enc : BOOLEAN] \cup {KeyReply})]
  /\ request \in [Conn -> 0..MaxSeq \cup {Key, None}]
  /\ secrets \subseteq used
  /\ conn \in [Phone -> Conn \cup {None}]
  /\ used \subseteq Conn
  /\ link \in [Phone -> {"open", "deriving", "ready"}]
  /\ lastSeqId \in [Phone -> 0..MaxSeq]
  /\ queue \in [Phone -> Seq(Issued)]
  /\ feed \in [Phone -> Seq(Issued \cup {Other})]
  /\ repeated \in [Phone -> SUBSET Issued]
  /\ restarts \in 0..MaxRestarts
  /\ owed \in [Conn -> SUBSET (1..MaxSeq)]

Init ==
  /\ nextSeq = 1
  /\ room = <<>>
  /\ job = [t \in Task |-> Idle]
  /\ replay = [c \in Conn |-> <<>>]
  /\ net = [c \in Conn |-> <<>>]
  /\ request = [c \in Conn |-> None]
  /\ secrets = {}
  /\ conn = [p \in Phone |-> None]
  /\ used = {}
  /\ link = [p \in Phone |-> "open"]
  /\ lastSeqId = [p \in Phone |-> 0]
  /\ queue = [p \in Phone |-> <<>>]
  /\ feed = [p \in Phone |-> <<>>]
  /\ repeated = [p \in Phone |-> {}]
  /\ restarts = 0
  /\ owed = [c \in Conn |-> {}]

-----------------------------------------------------------------------------
(* The phone *)

(* Variants of the operations, for the mutants of PROJECT.json. *)
ConnectRegistersTwice(p, c) ==
  /\ conn[p] = None /\ c \notin used
  /\ conn' = [conn EXCEPT ![p] = c]
  /\ used' = used \cup {c}
  /\ link' = [link EXCEPT ![p] = "open"]
  /\ room' = room \o <<c, c>>
  /\ UNCHANGED <<nextSeq, job, replay, net, request, secrets, pageVars, restarts, owed>>

(* An updater that takes every number up to the cursor for seen. *)
RenderOnlyNewer(p) ==
  LET m == Head(queue[p]) IN
  /\ queue[p] # <<>>
  /\ queue' = [queue EXCEPT ![p] = Tail(@)]
  /\ lastSeqId' = [lastSeqId EXCEPT ![p] = Max({@, m.seq})]
  /\ feed' = IF m.seq <= lastSeqId[p] THEN feed ELSE [feed EXCEPT ![p] = Append(@, m)]
  /\ UNCHANGED <<nextSeq, room, job, replay, net, request, secrets, conn, used, link,
                 repeated, restarts, owed>>

(* A socket opens: connect() accepts it and appends it to the room, so it  *)
(* gets broadcasts from here on, before any resume.  In a secure context   *)
(* the phone asks for the key exchange, else it goes on in clear text.     *)
Connect(p, c) ==
  /\ conn[p] = None /\ c \notin used
  /\ conn' = [conn EXCEPT ![p] = c]
  /\ used' = used \cup {c}
  /\ link' = [link EXCEPT ![p] = "open"]
  /\ request' \in {request, [request EXCEPT ![c] = Key]}
  /\ room' = Append(room, c)
  /\ UNCHANGED <<nextSeq, job, replay, net, secrets, pageVars, restarts, owed>>

(* bootstrapSession, in clear text at once or when the secret is derived:  *)
(* the cursor is read when the resume is sent, not when the connection was *)
(* lost.                                                                   *)
SendResume(p) ==
  /\ conn[p] # None
  /\ \/ link[p] = "deriving"
     \/ link[p] = "open" /\ conn[p] \notin secrets /\ request[conn[p]] = None
  /\ link' = [link EXCEPT ![p] = "ready"]
  /\ request' = [request EXCEPT ![conn[p]] = lastSeqId[p]]
  /\ UNCHANGED <<nextSeq, room, job, replay, net, secrets, conn, used, pageVars,
                 restarts, owed>>

(* onmessage: the backend's key starts the derivation of the secret; an    *)
(* encrypted message that comes before the secret has no seq_id the feed   *)
(* can read; any other is given to addMsg, which queues a state updater.   *)
Receive(p) ==
  LET c == conn[p]
      m == Head(net[c]) IN
  /\ c # None /\ net[c] # <<>>
  /\ net' = [net EXCEPT ![c] = Tail(@)]
  /\ link' = IF m = KeyReply THEN [link EXCEPT ![p] = "deriving"] ELSE link
  /\ queue' = IF m = KeyReply \/ (m.enc /\ link[p] # "ready") THEN queue
              ELSE [queue EXCEPT ![p] = Append(@, Message(m.seq))]
  /\ UNCHANGED <<nextSeq, room, job, replay, request, secrets, conn, used, lastSeqId,
                 feed, repeated, restarts, owed>>

(* appendIncomingMessage: a number the feed holds, and a message that says  *)
(* what the last one says, are left out.                                    *)
Holds(f, s) == \E e \in ToSet(f) : e.seq = s
Repeats(f, m) == f # <<>> /\ Last(f) # Other /\ Says[Last(f)] = Says[m]
AppendIncoming(f, m) == IF Holds(f, m.seq) \/ Repeats(f, m) THEN f ELSE Append(f, m)

(* React runs the queued updaters in order, the first perhaps at once and   *)
(* the others when it renders: one step each.  Only then does the cursor    *)
(* move, to the largest number so far, whatever the feed makes of it.       *)
Render(p) ==
  LET m == Head(queue[p])
      f == feed[p] IN
  /\ queue[p] # <<>>
  /\ queue' = [queue EXCEPT ![p] = Tail(@)]
  /\ lastSeqId' = [lastSeqId EXCEPT ![p] = Max({@, m.seq})]
  /\ feed' = [feed EXCEPT ![p] = AppendIncoming(f, m)]
  /\ repeated' = IF ~Holds(f, m.seq) /\ Repeats(f, m) THEN [repeated EXCEPT ![p] = @ \cup {m}]
                 ELSE repeated
  /\ UNCHANGED <<nextSeq, room, job, replay, net, request, secrets, conn, used, link,
                 restarts, owed>>

(* A packet without a number, or a message of the user's own, comes next in *)
(* the feed.  It matters only where it separates two messages that say the  *)
(* same, so it comes only there.                                            *)
OtherEntry(p) ==
  /\ queue[p] # <<>> /\ Repeats(feed[p], Head(queue[p]))
  /\ feed' = [feed EXCEPT ![p] = Append(@, Other)]
  /\ UNCHANGED <<nextSeq, room, job, replay, net, request, secrets, conn, used, link,
                 lastSeqId, queue, repeated, restarts, owed>>

(* The connection breaks; what was under way in either direction is lost.  *)
(* The backend does not know yet.                                          *)
Drop(p) ==
  LET c == conn[p] IN
  /\ c # None
  /\ conn' = [conn EXCEPT ![p] = None]
  /\ net' = [net EXCEPT ![c] = <<>>]
  /\ request' = [request EXCEPT ![c] = None]
  /\ link' = [link EXCEPT ![p] = "open"]
  /\ owed' = [owed EXCEPT ![c] = {}]
  /\ UNCHANGED <<nextSeq, room, job, replay, secrets, used, pageVars, restarts>>

-----------------------------------------------------------------------------
(* The backend *)

Alive(c) == \E p \in Phone : conn[p] = c

Ready(c) == \E p \in Phone : conn[p] = c /\ link[p] = "ready"

(* disconnect: the socket leaves the room and its secret is forgotten. *)
Unregister(c) ==
  /\ room' = RemoveFirst(room, c)
  /\ secrets' = secrets \ {c}

(* send_text to a broken socket is either swallowed by the transport or    *)
(* raises, and then the sender disconnects the peer.                       *)
Deliver(c, s) ==
  IF Alive(c) THEN net' = [net EXCEPT ![c] = Append(@, Sealed(c, s))] /\ UNCHANGED <<room, secrets>>
  ELSE UNCHANGED net /\ (UNCHANGED <<room, secrets>> \/ Unregister(c))

(* Variants of the operations, for the mutants of PROJECT.json. *)
ReplayStepStops(c) ==
  /\ replay[c] # <<>> /\ Alive(c)
  /\ net' = [net EXCEPT ![c] = Append(@, Sealed(c, Head(replay[c])))]
  /\ replay' = [replay EXCEPT ![c] = <<>>]
  /\ UNCHANGED <<nextSeq, room, job, request, secrets, phoneVars, owed>>

(* send_to_room: push_and_get numbers and buffers the message, and the     *)
(* peers are listed, before the first send can suspend.                    *)
Publish(t) ==
  /\ job[t] = Idle /\ nextSeq <= MaxSeq
  /\ nextSeq' = nextSeq + 1
  /\ job' = [job EXCEPT ![t] = Remaining(nextSeq, room)]
  /\ owed' = [c \in Conn |-> IF Ready(c) THEN owed[c] \cup {nextSeq} ELSE owed[c]]
  /\ UNCHANGED <<room, replay, net, request, secrets, phoneVars>>

BroadcastStep(t) ==
  /\ job[t] # Idle
  /\ Deliver(Head(job[t].peers), job[t].seq)
  /\ job' = [job EXCEPT ![t] = Remaining(job[t].seq, Tail(job[t].peers))]
  /\ UNCHANGED <<nextSeq, replay, request, phoneVars, owed>>

(* _handle_handshake: from here on the backend encrypts to this socket. *)
HandleKeyExchange(c) ==
  /\ request[c] = Key
  /\ request' = [request EXCEPT ![c] = None]
  /\ secrets' = secrets \cup {c}
  /\ net' = [net EXCEPT ![c] = Append(@, KeyReply)]
  /\ UNCHANGED <<nextSeq, room, job, replay, phoneVars, owed>>

(* _handle_resume reads the whole list once, then sends it message by message. *)
HandleResume(c) ==
  /\ request[c] \in Nat
  /\ replay' = [replay EXCEPT ![c] = GetSince(request[c])]
  /\ request' = [request EXCEPT ![c] = None]
  /\ owed' = [owed EXCEPT ![c] = @ \cup ToSet(GetSince(request[c]))]
  /\ UNCHANGED <<nextSeq, room, job, net, secrets, phoneVars>>

ReplayStep(c) ==
  /\ replay[c] # <<>> /\ Alive(c)
  /\ net' = [net EXCEPT ![c] = Append(@, Sealed(c, Head(replay[c])))]
  /\ replay' = [replay EXCEPT ![c] = Tail(@)]
  /\ UNCHANGED <<nextSeq, room, job, request, secrets, phoneVars, owed>>

(* The socket's own loop sees the break: its replay ends and it is unregistered. *)
Disconnect(c) ==
  /\ c \in used /\ ~Alive(c)
  /\ Registered(c) \/ replay[c] # <<>>
  /\ Unregister(c)
  /\ replay' = [replay EXCEPT ![c] = <<>>]
  /\ UNCHANGED <<nextSeq, job, net, request, phoneVars, owed>>

(* The buffer and its numbering live in memory: a restarted backend numbers *)
(* from 1 again, while the pages keep their cursors, their feeds and what   *)
(* was given to addMsg.                                                     *)
Restart ==
  /\ restarts < MaxRestarts /\ nextSeq > 1
  /\ restarts' = restarts + 1
  /\ nextSeq' = 1
  /\ room' = <<>>
  /\ job' = [t \in Task |-> Idle]
  /\ replay' = [c \in Conn |-> <<>>]
  /\ net' = [c \in Conn |-> <<>>]
  /\ request' = [c \in Conn |-> None]
  /\ conn' = [p \in Phone |-> None]
  /\ owed' = [c \in Conn |-> {}]
  /\ secrets' = {}
  /\ link' = [p \in Phone |-> "open"]
  /\ UNCHANGED <<used, pageVars>>

Next ==
  \/ \E p \in Phone, c \in Conn : Connect(p, c)
  \/ \E p \in Phone : SendResume(p) \/ Receive(p) \/ Render(p) \/ OtherEntry(p) \/ Drop(p)
  \/ \E t \in Task : Publish(t) \/ BroadcastStep(t)
  \/ \E c \in Conn : HandleKeyExchange(c) \/ HandleResume(c) \/ ReplayStep(c) \/ Disconnect(c)
  \/ Restart

(* The steps that are ready as soon as something was sent, received or      *)
(* scheduled.                                                               *)
Progress ==
  \/ \E p \in Phone : SendResume(p) \/ Receive(p) \/ Render(p)
  \/ \E t \in Task : BroadcastStep(t)
  \/ \E c \in Conn : HandleKeyExchange(c) \/ HandleResume(c) \/ ReplayStep(c) \/ Disconnect(c)

(* The event loop and the open connections do not stop while one of those   *)
(* steps is ready; connections may break or stay, and nothing has to be     *)
(* published or connected.                                                  *)
Fairness == WF_vars(Progress)

Spec == Init /\ [][Next]_vars
FairSpec == Spec /\ Fairness

-----------------------------------------------------------------------------
(* Properties *)

(* Message s is on its way to socket c. *)
Pending(c, s) ==
  \/ \E t \in Task : job[t].seq = s /\ Contains(job[t].peers, c)
  \/ Contains(replay[c], s)
  \/ Contains(net[c], Sealed(c, s))

(* The page is done with message m: its feed holds it, left it out because   *)
(* it said what the message above it said, or leaves it out because it holds *)
(* a message of an earlier life that had its number.                         *)
Settled(p, m) ==
  \/ m \in ToSet(feed[p]) \cup repeated[p]
  \/ \E e \in ToSet(feed[p]) : e.seq = m.seq /\ e.life < m.life

(* Once a phone has sent its resume and while its socket stays open, no     *)
(* message published from then on, and none its resume asked for, is lost   *)
(* on the way to its page, however broadcasts, the replay, the key exchange *)
(* and the page's own updaters interleave: each is under way, queued, or    *)
(* settled in the feed.  What a restart costs is in Settled: the feed shows *)
(* no message whose number it holds from before.                            *)
OpenSocketLosesNothing ==
  \A p \in Phone : conn[p] # None =>
    \A s \in owed[conn[p]] :
      Pending(conn[p], s) \/ Contains(queue[p], Message(s)) \/ Settled(p, Message(s))

(* Delivery keeps the promises of Mailbox: what a phone that listens is      *)
(* promised, and that its page is given it, is all that sockets, broadcasts, *)
(* replays, the key exchange, drops, restarts and the page's updaters amount *)
(* to.                                                                       *)
Box == INSTANCE Mailbox WITH
  Limit <- MaxSeq,
  published <- nextSeq - 1,
  lives <- restarts,
  listening <- {p \in Phone : conn[p] # None /\ link[p] = "ready"},
  promised <- [p \in Phone |-> IF conn[p] = None THEN {} ELSE owed[conn[p]]],
  page <- [p \in Phone |-> ToSet(feed[p]) \ {Other}]

KeepsItsPromises == Box!Spec

=============================================================================
