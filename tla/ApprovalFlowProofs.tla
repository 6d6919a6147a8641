-------------------------- MODULE ApprovalFlowProofs ---------------------------
(***************************************************************************)
(* For any number of pages, runtimes and requests: what was answered on a   *)
(* page is not offered there again, and an answer typed into the terminal   *)
(* that asked meets its question unless somebody else settled it.           *)
(***************************************************************************)
EXTENDS ApprovalFlow, SequenceTheorems, TLAPS

\* The requests a page remembers in some place.
Known(p) == (answered[p] \cup {shown[p], slot[p], last[p]}) \ {None}

\* A request is numbered once, and a page that knows it knows its number.
FeedInv ==
  /\ \A m, n \in DOMAIN log : log[m] = log[n] /\ log[m] # None => m = n
  /\ \A p \in Page : \A n \in DOMAIN log : log[n] \in Known(p) => n \in numbers[p]

\* What waits for the effect was neither answered nor shown.
OfferInv ==
  /\ AnsweredStaysAnswered
  /\ \A p \in Page : fresh[p] /\ last[p] # None => last[p] \notin answered[p] \cup {shown[p]}

\* An answer is sent once, and is in one place at a time.
OnceInv ==
  /\ sent \cap forwarded = {}
  /\ \A a \in sent \cup forwarded : a.request \in answered[a.page]
  /\ \A t \in typed : t.request \in answered[t.page]
  /\ \A a \in sent \cup forwarded, t \in typed : a.page # t.page \/ a.request # t.request
  /\ \A t, u \in typed : t.page = u.page /\ t.request = u.request => t = u

\* The runtime that asked waits until its question is settled.
WaitInv ==
  /\ \A k \in Runtime : question[k] # None => asked[question[k]].by = k
  /\ \A r \in Request : \/ question[asked[r].by] = r
                        \/ r \in desk
                        \/ \E u \in typed : u.at = r

IInv == TypeOK /\ FeedInv /\ OfferInv /\ OnceInv /\ WaitInv /\ AnswersMeetTheirQuestion

LEMMA InitIInv == Init => IInv
<1> SUFFICES ASSUME Init PROVE IInv
  OBVIOUS
<1>1. asked = <<>> /\ log = <<>> /\ Len(asked) = 0 /\ Request = {}
  BY DEF Init, Request
<1>2. TypeOK
  BY <1>1 DEF Init, TypeOK, None, Answer
<1>3. FeedInv /\ OfferInv /\ OnceInv
  BY <1>1 DEF Init, FeedInv, OfferInv, OnceInv, AnsweredStaysAnswered, Known
<1>4. WaitInv /\ AnswersMeetTheirQuestion
  BY <1>1 DEF Init, WaitInv, AnswersMeetTheirQuestion, None
<1> QED BY <1>2, <1>3, <1>4 DEF IInv

\* Recording a message that is no request keeps the log a log.
LEMMA RecordKeeps ==
  ASSUME log \in Seq({None} \cup Request), FeedInv, Record,
         UNCHANGED <<asked, answered, shown, slot, last, numbers>>
  PROVE  log' \in Seq({None} \cup Request) /\ restarts' = restarts /\ FeedInv'
<1>1. CASE UNCHANGED server
  BY <1>1 DEF server, FeedInv, Known
<1>2. CASE log' = Append(log, None) /\ UNCHANGED restarts
  <2>1. log' \in Seq({None} \cup Request)
    BY <1>2, AppendProperties
  <2>2. Len(log) \in Nat /\ DOMAIN log = 1..Len(log) /\ DOMAIN log' = 1..(Len(log) + 1)
        /\ log'[Len(log) + 1] = None /\ \A i \in 1..Len(log) : log'[i] = log[i]
    BY <1>2, AppendProperties, LenProperties
  <2>3. \A n \in DOMAIN log' : log'[n] # None => n \in DOMAIN log /\ log'[n] = log[n]
    BY <2>2
  <2>4. \A p \in Page : Known(p)' = Known(p) /\ None \notin Known(p)
    BY DEF Known
  <2> QED BY <1>2, <2>1, <2>3, <2>4 DEF FeedInv
<1> QED BY <1>1, <1>2 DEF Record

\* A request that is asked gets a number of its own.
LEMMA AskKeeps ==
  ASSUME IInv, NEW k \in Runtime, NEW text \in Text, Ask(k, text)
  PROVE  IInv'
<1> DEFINE r == Len(asked) + 1
<1>0. /\ asked \in Seq([by : Runtime, text : Text]) /\ log \in Seq({None} \cup Request)
      /\ question \in [Runtime -> {None} \cup Request] /\ question[k] = None
      /\ asked' = Append(asked, [by |-> k, text |-> text])
      /\ question' = [question EXCEPT ![k] = r]
  BY DEF Ask, IInv, TypeOK
<1>1. /\ Len(asked) \in Nat /\ r \in Nat /\ Request' = 1..r /\ Request \subseteq Request'
      /\ r \in Request' /\ r \notin Request /\ r # None
  BY <1>0, AppendProperties, LenProperties DEF Request, None
<1>2. asked' \in Seq([by : Runtime, text : Text]) /\ asked'[r].by = k
      /\ \A q \in Request : asked'[q] = asked[q]
  BY <1>0, AppendProperties DEF Request
<1>3. log' \in Seq({None} \cup Request')
  <2>1. log \in Seq({None} \cup Request')
    BY <1>0, <1>1, SeqMonotonic
  <2>2. r \in {None} \cup Request'
    BY <1>1
  <2>3. Append(log, r) \in Seq({None} \cup Request')
    BY <2>1, <2>2, AppendProperties
  <2> QED BY <2>1, <2>3 DEF Ask
<1>4. TypeOK'
  <2>1. Request' = Request \cup {r}
    BY <1>1 DEF Request
  <2>2. question' \in [Runtime -> {None} \cup Request']
    BY <1>0, <2>1
  <2>3. Answer' = [page : Page, request : Request'] /\ sent' \subseteq Answer' /\ forwarded' \subseteq Answer'
    BY <1>1 DEF Ask, answers, IInv, TypeOK, Answer
  <2>4. last' \in [Page -> {None} \cup Request'] /\ slot' \in [Page -> {None} \cup Request']
        /\ shown' \in [Page -> {None} \cup Request'] /\ answered' \in [Page -> SUBSET Request']
    BY <2>1 DEF Ask, feed, choice, IInv, TypeOK
  <2>5. typed' \subseteq [page : Page, request : Request', into : Runtime, at : {None} \cup Request']
    BY <1>1 DEF Ask, answers, IInv, TypeOK
  <2> QED BY <1>1, <1>2, <1>3, <2>2, <2>3, <2>4, <2>5 DEF Ask, feed, IInv, TypeOK
<1>5. FeedInv'
  <2>1. \A p \in Page : Known(p)' = Known(p) /\ Known(p) \subseteq Request /\ None \notin Known(p)
    BY DEF Ask, feed, choice, IInv, TypeOK, Known
  <2>2. CASE UNCHANGED log
    BY <2>1, <2>2 DEF Ask, feed, IInv, FeedInv
  <2>3. CASE log' = Append(log, r)
    <3>1. Len(log) \in Nat /\ DOMAIN log = 1..Len(log) /\ DOMAIN log' = 1..(Len(log) + 1)
          /\ log'[Len(log) + 1] = r /\ \A i \in 1..Len(log) : log'[i] = log[i] /\ log[i] # r
      BY <1>0, <1>1, <2>3, AppendProperties, LenProperties, ElementOfSeq
    <3>2. \A m, n \in DOMAIN log' : log'[m] = log'[n] /\ log'[m] # None => m = n
      BY <3>1 DEF IInv, FeedInv
    <3>3. \A p \in Page : \A n \in DOMAIN log' : log'[n] \in Known(p)' => n \in numbers[p]
      BY <1>1, <2>1, <3>1 DEF IInv, FeedInv
    <3> QED BY <3>2, <3>3 DEF FeedInv, Ask, feed
  <2> QED BY <2>2, <2>3 DEF Ask
<1>6. OfferInv' /\ OnceInv'
  BY DEF Ask, feed, choice, answers, IInv, OfferInv, OnceInv, AnsweredStaysAnswered
<1>7. WaitInv'
  <2>1. \A q \in Request : asked[q].by \in Runtime
    <3> SUFFICES ASSUME NEW q \in Request PROVE asked[q].by \in Runtime
      OBVIOUS
    <3>1. asked[q] \in [by : Runtime, text : Text]
      BY <1>0, ElementOfSeq DEF Request
    <3> QED BY <3>1
  <2>2. ASSUME NEW j \in Runtime, question'[j] # None PROVE asked'[question'[j]].by = j
    BY <2>2, <1>0, <1>1, <1>2 DEF IInv, WaitInv
  <2>3. ASSUME NEW q \in Request'
        PROVE  question'[asked'[q].by] = q \/ q \in desk \/ \E u \in typed : u.at = q
    <3>1. CASE q = r
      BY <3>1, <1>0, <1>2
    <3>2. CASE q \in Request
      BY <3>2, <2>1, <1>0, <1>1, <1>2 DEF IInv, WaitInv, None, Request
    <3> QED BY <3>1, <3>2, <1>1 DEF Request
  <2> QED BY <2>2, <2>3 DEF WaitInv, Ask, answers
<1>8. AnswersMeetTheirQuestion'
  BY <1>2 DEF Ask, answers, IInv, TypeOK, AnswersMeetTheirQuestion, SettledOtherwise
<1> QED BY <1>4, <1>5, <1>6, <1>7, <1>8 DEF IInv

\* The other steps of the desktop and of the answers ask nothing.
LEMMA ServerKeeps ==
  ASSUME IInv,
         \/ Notice \/ BackendRestart \/ \E k \in Runtime : SettleAtDesk(k)
         \/ \E a \in sent \cup forwarded : RouteApprovalResponse(a) \/ LoseAnswer(a) \/ RefuseApprovalResponse(a)
  PROVE  IInv'
<1>0. /\ log \in Seq({None} \cup Request) /\ restarts \in Nat /\ question \in [Runtime -> {None} \cup Request]
      /\ asked' = asked /\ Request' = Request /\ Answer' = Answer
      /\ UNCHANGED <<feed, choice, typed>>
  BY DEF Notice, BackendRestart, SettleAtDesk, RouteApprovalResponse, LoseAnswer, RefuseApprovalResponse,
         desktop, server, answers, Request, Answer, IInv, TypeOK
<1>1. /\ log' \in Seq({None} \cup Request) /\ restarts' \in Nat /\ FeedInv'
  <2>1. CASE Record
    BY <2>1, <1>0, RecordKeeps DEF feed, choice, IInv
  <2>2. CASE UNCHANGED server
    BY <2>2, <1>0 DEF server, feed, choice, IInv, FeedInv, Known
  <2>3. CASE BackendRestart
    <3>1. log' = <<>> /\ restarts' = restarts + 1
      BY <2>3 DEF BackendRestart
    <3> QED BY <3>1, <1>0 DEF FeedInv
  <2> QED BY <2>1, <2>2, <2>3 DEF Notice, SettleAtDesk, RouteApprovalResponse, LoseAnswer, RefuseApprovalResponse
<1>2. OfferInv'
  BY <1>0 DEF feed, choice, IInv, OfferInv, AnsweredStaysAnswered
<1>3. /\ sent' \subseteq sent \cup forwarded /\ forwarded' \subseteq sent \cup forwarded
      /\ sent' \cap forwarded' = {}
  BY DEF Notice, BackendRestart, SettleAtDesk, RouteApprovalResponse, LoseAnswer, RefuseApprovalResponse,
         answers, IInv, OnceInv
<1>4. OnceInv'
  BY <1>0, <1>3 DEF choice, IInv, OnceInv
<1>5. /\ desk \subseteq desk' /\ desk' \subseteq Request
      /\ question' \in [Runtime -> {None} \cup Request]
      /\ \A k \in Runtime : question'[k] # None => question'[k] = question[k]
      /\ \A k \in Runtime : question'[k] = question[k] \/ question[k] \in desk'
  BY <1>0 DEF Notice, BackendRestart, SettleAtDesk, RouteApprovalResponse, LoseAnswer, RefuseApprovalResponse,
         desktop, IInv, TypeOK
<1>6. \A r \in Request : asked[r].by \in Runtime
  <2> SUFFICES ASSUME NEW r \in Request PROVE asked[r].by \in Runtime
    OBVIOUS
  <2>1. asked[r] \in [by : Runtime, text : Text]
    BY ElementOfSeq DEF IInv, TypeOK, Request
  <2> QED BY <2>1
<1>7. WaitInv'
  BY <1>0, <1>5, <1>6 DEF IInv, WaitInv
<1>8. AnswersMeetTheirQuestion'
  BY <1>0, <1>5 DEF IInv, AnswersMeetTheirQuestion, SettledOtherwise
<1>9. online' \subseteq Page
  BY DEF Notice, BackendRestart, SettleAtDesk, RouteApprovalResponse, LoseAnswer, RefuseApprovalResponse,
         IInv, TypeOK
<1>10. TypeOK'
  BY <1>0, <1>1, <1>3, <1>5, <1>9 DEF feed, choice, IInv, TypeOK
<1> QED BY <1>1, <1>2, <1>4, <1>7, <1>8, <1>10 DEF IInv

\* A decision is typed: into the terminal that asked, its question is met or
\* was settled by another.
LEMMA TypingKeeps ==
  ASSUME IInv, NEW a \in forwarded, NEW k \in Runtime, HandleApprovalResponse(a, k)
  PROVE  IInv'
<1> DEFINE t == [page |-> a.page, request |-> a.request, into |-> k, at |-> question[k]]
<1>0. /\ log \in Seq({None} \cup Request) /\ restarts \in Nat /\ question \in [Runtime -> {None} \cup Request]
      /\ UNCHANGED <<asked, desk, online, feed, choice, sent>> /\ Request' = Request /\ Answer' = Answer
      /\ forwarded' = forwarded \ {a} /\ typed' = typed \cup {t}
      /\ question' = [question EXCEPT ![k] = None]
  BY DEF HandleApprovalResponse, TypedInto, IInv, TypeOK, Request, Answer
<1>1. a.page \in Page /\ a.request \in Request
  BY DEF IInv, TypeOK, Answer
<1>2. log' \in Seq({None} \cup Request) /\ restarts' \in Nat /\ FeedInv'
  BY <1>0, RecordKeeps DEF HandleApprovalResponse, feed, choice, IInv
<1>3. OfferInv'
  BY <1>0 DEF feed, choice, IInv, OfferInv, AnsweredStaysAnswered
<1>4. \A u \in typed : u.page # t.page \/ u.request # t.request
  BY DEF IInv, OnceInv
<1>5. OnceInv'
  <2>1. sent \subseteq Answer /\ forwarded \subseteq Answer
    BY DEF IInv, TypeOK
  <2>2. \A b \in sent \cup forwarded' : b.page # t.page \/ b.request # t.request
    BY <1>0, <2>1 DEF IInv, OnceInv, Answer
  <2> QED BY <1>0, <1>4, <2>2 DEF choice, IInv, OnceInv
<1>6. \A r \in Request : asked[r].by \in Runtime
  <2> SUFFICES ASSUME NEW r \in Request PROVE asked[r].by \in Runtime
    OBVIOUS
  <2>1. asked[r] \in [by : Runtime, text : Text]
    BY ElementOfSeq DEF IInv, TypeOK, Request
  <2> QED BY <2>1
<1>7. WaitInv'
  <2>1. ASSUME NEW j \in Runtime, question'[j] # None PROVE asked'[question'[j]].by = j
    BY <2>1, <1>0 DEF IInv, WaitInv
  <2>2. ASSUME NEW r \in Request
        PROVE  question'[asked[r].by] = r \/ r \in desk \/ \E u \in typed' : u.at = r
    <3>1. CASE question[asked[r].by] = r /\ asked[r].by = k
      <4>1. t \in typed' /\ t.at = r
        BY <3>1, <1>0
      <4> QED BY <4>1
    <3>2. CASE question[asked[r].by] = r /\ asked[r].by # k
      BY <3>2, <1>0, <1>6
    <3> QED BY <3>1, <3>2, <1>0 DEF IInv, WaitInv
  <2> QED BY <2>1, <2>2, <1>0 DEF WaitInv
<1>8. AnswersMeetTheirQuestion'
  <2>1. t.into = asked[t.request].by => t.at = t.request \/ SettledOtherwise(t.page, t.request)
    BY <1>1, <1>4 DEF IInv, WaitInv, SettledOtherwise
  <2>2. \A p, r : SettledOtherwise(p, r) => SettledOtherwise(p, r)'
    BY <1>0 DEF SettledOtherwise
  <2> QED BY <1>0, <2>1, <2>2 DEF IInv, AnswersMeetTheirQuestion
<1>9. TypeOK'
  BY <1>0, <1>1, <1>2 DEF feed, choice, IInv, TypeOK
<1> QED BY <1>2, <1>3, <1>5, <1>7, <1>8, <1>9 DEF IInv

\* What happens on a page leaves the desktop and the backend alone.
LEMMA PageKeeps ==
  ASSUME IInv, NEW p \in Page,
         \/ Connect(p) \/ Disconnect(p) \/ WritePrompt(p) \/ Render(p) \/ Tap(p)
         \/ \E n \in DOMAIN log : Receive(p, n)
  PROVE  IInv'
<1>0. /\ UNCHANGED <<desktop, server, forwarded, typed>> /\ Request' = Request /\ Answer' = Answer
      /\ log \in Seq({None} \cup Request)
  BY DEF Connect, Disconnect, WritePrompt, Render, Tap, Receive, desktop, server, answers, Request, Answer,
         IInv, TypeOK
<1>1. /\ numbers \in [Page -> SUBSET Nat] /\ last \in [Page -> {None} \cup Request]
      /\ fresh \in [Page -> BOOLEAN] /\ slot \in [Page -> {None} \cup Request]
      /\ shown \in [Page -> {None} \cup Request] /\ answered \in [Page -> SUBSET Request]
      /\ None \notin Request /\ online \subseteq Page
  BY DEF IInv, TypeOK, Request, None
<1>2. WaitInv' /\ AnswersMeetTheirQuestion'
  BY <1>0 DEF desktop, IInv, WaitInv, AnswersMeetTheirQuestion, SettledOtherwise
<1>3. CASE Connect(p) \/ Disconnect(p)
  <2>1. online' \subseteq Page /\ UNCHANGED <<feed, choice, answers>>
    BY <1>1, <1>3 DEF Connect, Disconnect
  <2> QED BY <2>1, <1>0, <1>2 DEF desktop, server, feed, choice, answers, IInv, TypeOK, FeedInv, Known,
                OfferInv, AnsweredStaysAnswered, OnceInv
<1>4. CASE WritePrompt(p)
  <2>1. /\ UNCHANGED <<online, numbers, choice, answers>>
        /\ last' = [last EXCEPT ![p] = None] /\ fresh' = [fresh EXCEPT ![p] = TRUE]
    BY <1>4 DEF WritePrompt
  <2>2. TypeOK'
    BY <2>1, <1>0, <1>1 DEF desktop, server, choice, answers, IInv, TypeOK
  <2>3. FeedInv'
    BY <2>1, <1>0, <1>1 DEF server, choice, IInv, FeedInv, Known
  <2>4. OfferInv' /\ OnceInv'
    BY <2>1, <1>0, <1>1 DEF choice, answers, IInv, OfferInv, OnceInv, AnsweredStaysAnswered
  <2> QED BY <2>2, <2>3, <2>4, <1>2 DEF IInv
<1>5. CASE Render(p)
  <2>1. /\ UNCHANGED <<online, numbers, last, answered, answers>>
        /\ fresh' = [fresh EXCEPT ![p] = FALSE]
        /\ shown' = [shown EXCEPT ![p] = slot[p]]
        /\ slot' = [slot EXCEPT ![p] = IF fresh[p] /\ last[p] # None THEN last[p] ELSE @]
    BY <1>5 DEF Render
  <2>2. TypeOK'
    BY <2>1, <1>0, <1>1 DEF desktop, server, answers, IInv, TypeOK
  <2>3. \A q \in Page : Known(q)' \subseteq Known(q)
    BY <2>1, <1>1 DEF Known
  <2>4. FeedInv'
    BY <2>1, <2>3, <1>0 DEF server, IInv, FeedInv
  <2>5. OfferInv' /\ OnceInv'
    BY <2>1, <1>0, <1>1 DEF answers, IInv, OfferInv, OnceInv, AnsweredStaysAnswered
  <2> QED BY <2>2, <2>4, <2>5, <1>2 DEF IInv
<1>6. CASE Tap(p)
  <2> DEFINE r == shown[p]
             a == [page |-> p, request |-> r]
  <2>1. /\ UNCHANGED <<online, feed>> /\ r # None
        /\ answered' = [answered EXCEPT ![p] = @ \cup {r}]
        /\ sent' = sent \cup {a} \/ sent' = sent
        /\ slot' = [slot EXCEPT ![p] = None] /\ shown' = [shown EXCEPT ![p] = None]
    BY <1>6 DEF Tap, Sent
  <2>2. r \in Request /\ r \notin answered[p] /\ a \in Answer
    BY <2>1, <1>1 DEF IInv, OfferInv, AnsweredStaysAnswered, Answer
  <2>3. TypeOK'
    BY <2>1, <2>2, <1>0, <1>1 DEF desktop, server, feed, IInv, TypeOK
  <2>4. \A q \in Page : Known(q)' \subseteq Known(q)
    BY <2>1, <1>1 DEF feed, Known
  <2>5. FeedInv'
    BY <2>1, <2>4, <1>0 DEF server, feed, IInv, FeedInv
  <2>6. OfferInv'
    BY <2>1, <2>2, <1>1 DEF feed, IInv, OfferInv, AnsweredStaysAnswered
  <2>7. OnceInv'
    <3>1. \A b \in sent \cup forwarded \cup typed : b.page # p \/ b.request # r
      BY <2>2 DEF IInv, OnceInv
    <3>2. a.page = p /\ a.request = r
      OBVIOUS
    <3>3. \A b \in sent \cup forwarded \cup typed : b.page \in Page
      BY DEF IInv, TypeOK, Answer
    <3>4. \A q \in Page : answered[q] \subseteq answered'[q]
      BY <2>1, <1>1
    <3>5. r \in answered'[p]
      BY <2>1, <1>1
    <3> QED BY <2>1, <3>1, <3>2, <3>3, <3>4, <3>5, <1>0 DEF IInv, OnceInv
  <2> QED BY <2>3, <2>5, <2>6, <2>7, <1>2 DEF IInv
<1>7. ASSUME NEW n \in DOMAIN log, Receive(p, n) PROVE IInv'
  <2>1. UNCHANGED <<online, choice, answers>>
    BY <1>7 DEF Receive
  <2>2. CASE UNCHANGED <<numbers, last, fresh>>
    BY <2>1, <2>2, <1>0, <1>2 DEF desktop, server, choice, answers, IInv, TypeOK, FeedInv, Known,
         OfferInv, AnsweredStaysAnswered, OnceInv
  <2>3. CASE n \notin numbers[p] /\ AppendToFeed(p, n)
    <3>1. /\ numbers' = [numbers EXCEPT ![p] = @ \cup {n}] /\ last' = [last EXCEPT ![p] = log[n]]
          /\ fresh' = [fresh EXCEPT ![p] = TRUE]
      BY <2>3 DEF AppendToFeed
    <3>2. n \in Nat /\ log[n] \in {None} \cup Request
      BY <1>0, ElementOfSeq, LenProperties
    <3>3. log[n] \notin Known(p)
      BY <2>3 DEF IInv, FeedInv
    <3>4. TypeOK'
      BY <3>1, <3>2, <2>1, <1>0, <1>1 DEF desktop, server, choice, answers, IInv, TypeOK
    <3>5. \A q \in Page : Known(q)' \subseteq Known(q) \cup {log[n]} /\ (q # p => Known(q)' = Known(q))
      BY <3>1, <2>1, <1>1 DEF choice, Known
    <3>6. FeedInv'
      BY <3>1, <3>5, <1>0, <1>1 DEF server, IInv, FeedInv, Known
    <3>7. OfferInv'
      BY <3>1, <3>3, <2>1, <1>1 DEF choice, IInv, OfferInv, AnsweredStaysAnswered, Known
    <3>8. OnceInv'
      BY <2>1, <1>0 DEF choice, answers, IInv, OnceInv
    <3> QED BY <3>4, <3>6, <3>7, <3>8, <1>2 DEF IInv
  <2> QED BY <1>7, <2>2, <2>3 DEF Receive
<1> QED BY <1>3, <1>4, <1>5, <1>6, <1>7

LEMMA NextIInv == IInv /\ [Next]_vars => IInv'
<1> SUFFICES ASSUME IInv, [Next]_vars PROVE IInv'
  OBVIOUS
<1>1. ASSUME NEW k \in Runtime, NEW t \in Text, Ask(k, t) PROVE IInv'
  BY <1>1, AskKeeps
<1>2. ASSUME NEW a \in forwarded, NEW k \in Runtime, HandleApprovalResponse(a, k) PROVE IInv'
  BY <1>2, TypingKeeps
<1>3. CASE \/ Notice \/ BackendRestart \/ \E k \in Runtime : SettleAtDesk(k)
           \/ \E a \in sent \cup forwarded :
                RouteApprovalResponse(a) \/ LoseAnswer(a) \/ RefuseApprovalResponse(a)
  BY <1>3, ServerKeeps
<1>4. ASSUME NEW p \in Page, \/ Connect(p) \/ Disconnect(p) \/ WritePrompt(p) \/ Render(p) \/ Tap(p)
                              \/ \E n \in DOMAIN log : Receive(p, n)
      PROVE  IInv'
  BY <1>4, PageKeeps
<1>5. CASE UNCHANGED vars
  BY <1>5 DEF vars, desktop, server, feed, choice, answers, IInv, TypeOK, Request, Answer, FeedInv, Known,
         OfferInv, AnsweredStaysAnswered, OnceInv, WaitInv, AnswersMeetTheirQuestion, SettledOtherwise
<1> QED BY <1>1, <1>2, <1>3, <1>4, <1>5 DEF Next

\* Slots, feeds and answers hold requests that were asked.
THEOREM ApprovalTypeCorrect == Spec => []TypeOK
<1>1. IInv => TypeOK
  BY DEF IInv
<1> QED BY <1>1, InitIInv, NextIInv, PTL DEF Spec

\* No page offers a request again that was answered on it.
THEOREM NothingOfferedTwice == Spec => []AnsweredStaysAnswered
<1>1. IInv => AnsweredStaysAnswered
  BY DEF IInv, OfferInv
<1> QED BY <1>1, InitIInv, NextIInv, PTL DEF Spec

\* No tap answers a second question of the runtime that asked.
THEOREM OneTapOneAnswer == Spec => []AnswersMeetTheirQuestion
<1>1. IInv => AnswersMeetTheirQuestion
  BY DEF IInv
<1> QED BY <1>1, InitIInv, NextIInv, PTL DEF Spec
=============================================================================
