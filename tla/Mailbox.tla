------------------------------ MODULE Mailbox --------------------------------
(***************************************************************************)
(* What the delivery of room messages promises, without sockets, buffers,   *)
(* replays, encryption or the order of a feed: every message published      *)
(* while a phone listens, and every kept message its resume asked for,      *)
(* comes to the phone's page, unless it stops listening.  The page outlives *)
(* the backend: it leaves out a message that repeats one it has, and after  *)
(* a restart one whose number it has already.  Messages published while a   *)
(* phone does not listen, and older than what the buffer keeps, are         *)
(* promised to nobody.  Module Delivery implements this.                    *)
(***************************************************************************)
EXTENDS Integers

CONSTANTS
  Phone,  \* the phones
  Size,   \* how many messages are kept for a resume
  Says,   \* what each message says
  Limit   \* bound: messages of one life of the backend

VARIABLES
  published,  \* messages numbered in this life of the backend
  lives,      \* restarts so far
  listening,  \* the phones that listen
  promised,   \* per phone: the messages it will get if it goes on listening
  page,       \* per phone: the messages its page has, of every life
  repeated    \* per phone: the messages its page left out as repetitions

boxVars == <<published, lives, listening, promised, page, repeated>>

Numbered == 1..published
Kept == {s \in Numbered : s > published - Size}

Message(s) == [life |-> lives, seq |-> s]
Issued == {m \in [life : 0..lives, seq : 1..Limit] : m.life = lives => m.seq \in Numbered}

Settled(p, m) ==
  \/ m \in page[p] \cup repeated[p]
  \/ \E e \in page[p] : e.seq = m.seq /\ e.life < m.life

Init ==
  /\ published = 0 /\ lives = 0
  /\ listening = {}
  /\ promised = [p \in Phone |-> {}]
  /\ page = [p \in Phone |-> {}]
  /\ repeated = [p \in Phone |-> {}]

Publish ==
  /\ published < Limit
  /\ published' = published + 1
  /\ promised' = [p \in Phone |-> IF p \in listening THEN promised[p] \cup {published'}
                                  ELSE promised[p]]
  /\ UNCHANGED <<lives, listening, page, repeated>>

Listen(p) ==
  /\ p \notin listening
  /\ listening' = listening \cup {p}
  /\ UNCHANGED <<published, lives, promised, page, repeated>>

(* The resume of a phone that listens names a message its page is done with;*)
(* after a restart the number may be one of an earlier life.  It asks only  *)
(* for what follows that number, whatever the page lacks before it.         *)
Resume(p, from) ==
  /\ p \in listening
  /\ lives = 0 => from = 0 \/ Settled(p, Message(from))
  /\ promised' = [promised EXCEPT ![p] = @ \cup {s \in Kept : s > from}]
  /\ UNCHANGED <<published, lives, listening, page, repeated>>

(* A message comes to the page, promised or not, perhaps one of an earlier  *)
(* life.  No number is shown twice, and only a repetition is passed over.   *)
Give(p, m) ==
  /\ \/ /\ \A e \in page[p] : e.seq # m.seq
        /\ page' = [page EXCEPT ![p] = @ \cup {m}]
        /\ UNCHANGED repeated
     \/ /\ \E e \in page[p] : Says[e] = Says[m]
        /\ repeated' = [repeated EXCEPT ![p] = @ \cup {m}]
        /\ UNCHANGED page
  /\ UNCHANGED <<published, lives, listening, promised>>

Leave(p) ==
  /\ p \in listening
  /\ listening' = listening \ {p}
  /\ promised' = [promised EXCEPT ![p] = {}]
  /\ UNCHANGED <<published, lives, page, repeated>>

Restart ==
  /\ lives' = lives + 1 /\ published' = 0
  /\ listening' = {}
  /\ promised' = [p \in Phone |-> {}]
  /\ UNCHANGED <<page, repeated>>

Next ==
  \/ Publish \/ Restart
  \/ \E p \in Phone : Listen(p) \/ Leave(p)
  \/ \E p \in Phone, from \in 0..Limit : Resume(p, from)
  \/ \E p \in Phone, m \in Issued : Give(p, m)

(* A promised message the page is not done with is given to it. *)
Keep(p, s) == s \in promised[p] /\ ~Settled(p, Message(s)) /\ Give(p, Message(s))

Spec ==
  /\ Init /\ [][Next]_boxVars
  /\ \A p \in Phone, s \in 1..Limit : WF_boxVars(Keep(p, s))
=============================================================================
