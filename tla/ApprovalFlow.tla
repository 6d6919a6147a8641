---------------------------- MODULE ApprovalFlow -----------------------------
(***************************************************************************)
(* An approval, from the question a runtime asks at its terminal to the     *)
(* y or n that is typed there.                                              *)
(*                                                                          *)
(* A runtime waits at a question; a desktop host publishes it as an         *)
(* approval.request, which the backend numbers and buffers like any other   *)
(* room event.  Each page of the phone app (a reload is a new page, so is   *)
(* another phone) keeps a feed of messages; an effect that runs after a     *)
(* render puts the request at the feed's end in the page's only approval    *)
(* slot.  A tap answers the shown request; the answer travels to the        *)
(* backend, through the driver to the bridge, and is typed into the         *)
(* terminal of the runtime that is active there, which need not be the one  *)
(* that asked.  Desktop users may answer at the keyboard instead.  A page   *)
(* that has been left is one that takes no more steps.                      *)
(*                                                                          *)
(* A page receives the numbered messages in any order and any number of     *)
(* times: Delivery models what broadcasts and replays really bring.         *)
(***************************************************************************)
EXTENDS Naturals, Sequences

CONSTANTS
  Page,        \* page loads of the phone app
  Runtime,     \* runtimes with a terminal of their own
  Text,        \* what a request says, as far as the feed compares it
  MaxAsked,    \* bound: requests asked
  MaxLog,      \* bound: messages numbered between two backend starts
  MaxRestarts  \* bound: backend restarts

ASSUME BoundsAssumption == MaxAsked \in Nat /\ MaxLog \in Nat /\ MaxRestarts \in Nat

VARIABLES
  asked,      \* the requests so far, in order: who asks what
  question,   \* the request each runtime waits at, 0 when it waits at none
  desk,       \* the requests settled at the desktop's keyboard
  log,        \* what the backend numbered since it started: a request, or 0
  restarts,   \* backend restarts so far
  online,     \* the pages whose socket is open
  numbers,    \* the seq_ids in a page's feed
  last,       \* the request at the end of a page's feed, or 0
  fresh,      \* whether the feed changed since the last render
  slot,       \* pendingApproval once the queued state updates are applied
  shown,      \* pendingApproval as rendered, which is what a tap answers
  answered,   \* the requests answered on a page
  sent,       \* answers on their way to the backend
  forwarded,  \* answers in the driver's queue or on their way to the bridge
  typed       \* answers typed into a terminal, with what it waited at

desktop == <<asked, question, desk>>
server  == <<log, restarts>>
feed    == <<numbers, last, fresh>>
choice  == <<slot, shown, answered>>
answers == <<sent, forwarded, typed>>
vars    == <<desktop, server, online, feed, choice, answers>>

Request == 1..Len(asked)
None    == 0

Init ==
  /\ asked = <<>> /\ question = [k \in Runtime |-> None] /\ desk = {}
  /\ log = <<>> /\ restarts = 0
  /\ online = {}
  /\ numbers = [p \in Page |-> {}] /\ last = [p \in Page |-> None]
  /\ fresh = [p \in Page |-> FALSE]
  /\ slot = [p \in Page |-> None] /\ shown = [p \in Page |-> None]
  /\ answered = [p \in Page |-> {}]
  /\ sent = {} /\ forwarded = {} /\ typed = {}

------------------------------------------------------------------------------
(* Desktop and backend *)

(* The room's log takes messages that are no requests.  They are alike to   *)
(* a page's feed, so that several in a row count as one, and those beyond   *)
(* the bound are left out.                                                  *)
Record ==
  \/ UNCHANGED server
  \/ Len(log) < MaxLog /\ log' = Append(log, None) /\ UNCHANGED restarts

(* A runtime starts to wait; its host's packet reaches the backend or is    *)
(* dropped by a socket that is not open.                                    *)
Ask(k, text) ==
  /\ question[k] = None
  /\ Len(asked) < MaxAsked
  /\ asked' = Append(asked, [by |-> k, text |-> text])
  /\ question' = [question EXCEPT ![k] = Len(asked) + 1]
  /\ \/ UNCHANGED log
     \/ Len(log) < MaxLog /\ log' = Append(log, Len(asked) + 1)
  /\ UNCHANGED <<desk, restarts, online, feed, choice, answers>>

(* Someone answers at the desktop; nothing tells the room.                  *)
SettleAtDesk(k) ==
  /\ question[k] # None
  /\ desk' = desk \cup {question[k]}
  /\ question' = [question EXCEPT ![k] = None]
  /\ UNCHANGED <<asked, server, online, feed, choice, answers>>

(* Any other room event.                                                    *)
Notice ==
  /\ Record
  /\ UNCHANGED <<desktop, online, feed, choice, answers>>

(* The numbering starts again, every socket breaks, and the answers the     *)
(* bridge has not received are gone.                                        *)
BackendRestart ==
  /\ restarts < MaxRestarts
  /\ restarts' = restarts + 1
  /\ log' = <<>>
  /\ online' = {}
  /\ sent' = {}
  /\ forwarded' \in SUBSET forwarded
  /\ UNCHANGED <<desktop, feed, choice, typed>>

(* The backend announces success and audits it before the bridge acts; with *)
(* no host in the room it answers that the bridge is offline.               *)
RouteApprovalResponse(a) ==
  /\ a \in sent
  /\ sent' = sent \ {a}
  /\ forwarded' \in {forwarded, forwarded \cup {a}}
  /\ Record
  /\ UNCHANGED <<desktop, online, feed, choice, typed>>

(* A socket broke, or the driver was not running.                           *)
LoseAnswer(a) ==
  /\ a \in sent \cup forwarded
  /\ sent' = sent \ {a}
  /\ forwarded' = forwarded \ {a}
  /\ UNCHANGED <<desktop, server, online, feed, choice, typed>>

(* The decision goes into the terminal as a line of input.                  *)
TypedInto(a, k) ==
  [page |-> a.page, request |-> a.request, into |-> k, at |-> question[k]]

(* Mutant: the bridge keeps the answer and types it again later.            *)
HandleApprovalResponseRetried(a, k) ==
  /\ a \in forwarded
  /\ forwarded' = forwarded
  /\ typed' = typed \cup {TypedInto(a, k)}
  /\ question' = [question EXCEPT ![k] = None]
  /\ Record
  /\ UNCHANGED <<asked, desk, online, feed, choice, sent>>

(* The bridge types the decision into the active runtime's terminal,        *)
(* whatever that waits at.                                                  *)
HandleApprovalResponse(a, k) ==
  /\ a \in forwarded
  /\ forwarded' = forwarded \ {a}
  /\ typed' = typed \cup {TypedInto(a, k)}
  /\ question' = [question EXCEPT ![k] = None]
  /\ Record
  /\ UNCHANGED <<asked, desk, online, feed, choice, sent>>

(* No runtime is available, it does not support approvals, or its terminal  *)
(* cannot be started.                                                       *)
RefuseApprovalResponse(a) ==
  /\ a \in forwarded
  /\ forwarded' = forwarded \ {a}
  /\ Record
  /\ UNCHANGED <<desktop, online, feed, choice, sent, typed>>

------------------------------------------------------------------------------
(* A page of the phone app *)

Connect(p) ==
  /\ p \notin online
  /\ online' = online \cup {p}
  /\ UNCHANGED <<desktop, server, feed, choice, answers>>

Disconnect(p) ==
  /\ p \in online
  /\ online' = online \ {p}
  /\ UNCHANGED <<desktop, server, feed, choice, answers>>

(* Two messages in a row that compare equal: requests with one text, and    *)
(* possibly any two other messages.                                         *)
IsConsecutiveDuplicate(p, r) ==
  /\ last[p] # None /\ r # None
  /\ asked[last[p]].text = asked[r].text

AppendToFeed(p, n) ==
  /\ numbers' = [numbers EXCEPT ![p] = @ \cup {n}]
  /\ last' = [last EXCEPT ![p] = log[n]]
  /\ fresh' = [fresh EXCEPT ![p] = TRUE]

(* Mutant: the feed does not look at seq_id.                                *)
ReceiveEverything(p, n) ==
  /\ p \in online
  /\ ~IsConsecutiveDuplicate(p, log[n])
  /\ AppendToFeed(p, n)
  /\ UNCHANGED <<desktop, server, online, choice, answers>>

(* addMsg and appendIncomingMessage on message n of the log.                *)
Receive(p, n) ==
  LET r == log[n] IN
  /\ p \in online
  /\ \/ /\ n \in numbers[p] \/ IsConsecutiveDuplicate(p, r) \/ r = last[p]
        /\ UNCHANGED <<numbers, last, fresh>>
     \/ /\ n \notin numbers[p] /\ ~IsConsecutiveDuplicate(p, r)
        /\ AppendToFeed(p, n)
  /\ UNCHANGED <<desktop, server, online, choice, answers>>

(* The user's own prompt goes to the end of the feed at once.               *)
WritePrompt(p) ==
  /\ last' = [last EXCEPT ![p] = None]
  /\ fresh' = [fresh EXCEPT ![p] = TRUE]
  /\ UNCHANGED <<desktop, server, online, numbers, choice, answers>>

(* React renders all queued updates at once; the effect then looks at the   *)
(* end of the feed only, and its enqueue overwrites the slot, to be shown   *)
(* by the next render.                                                      *)
Render(p) ==
  /\ fresh[p] \/ shown[p] # slot[p]
  /\ fresh' = [fresh EXCEPT ![p] = FALSE]
  /\ shown' = [shown EXCEPT ![p] = slot[p]]
  /\ slot' = [slot EXCEPT ![p] = IF fresh[p] /\ last[p] # None THEN last[p] ELSE @]
  /\ UNCHANGED <<desktop, server, online, numbers, last, answered, answers>>

(* send does nothing while the socket is not open.                          *)
Sent(p) == IF p \in online THEN {[page |-> p, request |-> shown[p]]} ELSE {}

(* handleApproval answers the shown request and empties the slot.           *)
Tap(p) ==
  /\ shown[p] # None
  /\ answered' = [answered EXCEPT ![p] = @ \cup {shown[p]}]
  /\ sent' = sent \cup Sent(p)
  /\ slot' = [slot EXCEPT ![p] = None]
  /\ shown' = [shown EXCEPT ![p] = None]
  /\ UNCHANGED <<desktop, server, online, feed, forwarded, typed>>

Next ==
  \/ \E k \in Runtime : SettleAtDesk(k) \/ \E t \in Text : Ask(k, t)
  \/ Notice \/ BackendRestart
  \/ \E a \in sent \cup forwarded : RouteApprovalResponse(a) \/ LoseAnswer(a) \/ RefuseApprovalResponse(a)
  \/ \E a \in forwarded, k \in Runtime : HandleApprovalResponse(a, k)
  \/ \E p \in Page : \/ Connect(p) \/ Disconnect(p)
                     \/ WritePrompt(p) \/ Render(p) \/ Tap(p)
                     \/ \E n \in DOMAIN log : Receive(p, n)

Spec == Init /\ [][Next]_vars

------------------------------------------------------------------------------
(* Properties *)

Answer == [page : Page, request : Request]

(* Every variable has its type: a log of requests and other messages, a     *)
(* slot that holds an asked request or nothing, answers to asked requests.  *)
TypeOK ==
  /\ asked \in Seq([by : Runtime, text : Text])
  /\ question \in [Runtime -> {None} \cup Request]
  /\ desk \subseteq Request
  /\ log \in Seq({None} \cup Request)
  /\ restarts \in Nat
  /\ online \subseteq Page
  /\ numbers \in [Page -> SUBSET Nat]
  /\ last \in [Page -> {None} \cup Request]
  /\ fresh \in [Page -> BOOLEAN]
  /\ slot \in [Page -> {None} \cup Request]
  /\ shown \in [Page -> {None} \cup Request]
  /\ answered \in [Page -> SUBSET Request]
  /\ sent \subseteq Answer
  /\ forwarded \subseteq Answer
  /\ typed \subseteq [page : Page, request : Request, into : Runtime, at : {None} \cup Request]

(* A page never offers a request again that was answered on it, whatever    *)
(* broadcasts, replays, renders and backend restarts bring after the tap:   *)
(* the feed's seq_id test in appendIncomingMessage keeps a repeated request *)
(* away from the effect that fills the slot.                                *)
AnsweredStaysAnswered ==
  \A p \in Page : {shown[p], slot[p]} \cap answered[p] = {}

(* The question at which r waited was settled without page p's answer: at   *)
(* the desk, by another page's answer, or by an answer meant for another    *)
(* request.                                                                 *)
SettledOtherwise(p, r) ==
  \/ r \in desk
  \/ \E u \in typed : u.at = r /\ (u.page # p \/ u.request # r)

(* An answer typed into the terminal of the runtime that asked finds that   *)
(* runtime still waiting at the very question the user saw, unless someone  *)
(* else settled it: nothing on the way (handleApproval, the router, the     *)
(* driver, handleApprovalResponse) lets one tap answer twice, the second    *)
(* time another question.                                                   *)
AnswersMeetTheirQuestion ==
  \A t \in typed : t.into = asked[t.request].by =>
                     t.at = t.request \/ SettledOtherwise(t.page, t.request)

(* A request whose runtime still waits is answered or shown on a page that  *)
(* has received and rendered everything: the hook's comment calls it a      *)
(* queue of pending confirmations.  It is not, see the README.              *)
UpToDate(p) == DOMAIN log \subseteq numbers[p] /\ ~fresh[p] /\ shown[p] = slot[p]

EveryRequestIsOffered ==
  \A p \in Page : UpToDate(p) =>
    \A n \in DOMAIN log : log[n] \in {question[k] : k \in Runtime} => log[n] \in answered[p] \cup {shown[p], None}
=============================================================================
