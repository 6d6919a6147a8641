--------------------------- MODULE BridgeConnection ---------------------------
(***************************************************************************)
(* The VS Code bridge's one connection to the backend                      *)
(* (vscode-bridge/src/backendConnection.ts): user commands and timers open *)
(* sockets, each new one replaces the one before, a lost one is retried    *)
(* with growing delays until the user disconnects.  A connect call         *)
(* suspends while it asks for the address and the token, and other calls,  *)
(* socket events and timers run meanwhile.                                 *)
(*                                                                         *)
(* Of an address only whether `new WebSocket` accepts it is kept; tokens,  *)
(* and what the messages say, are left out.  The numbers of sockets are    *)
(* reused once a socket is gone.                                           *)
(*                                                                         *)
(* The specification's names are its own, so that one module can extend    *)
(* this one beside the other parts of the bridge.                          *)
(***************************************************************************)
EXTENDS Integers

CONSTANTS
  Call,       \* connect commands that may be in progress at once
  Sock,       \* sockets that may exist at once
  MaxAttempt, \* the attempt from which the delay is the longest (30 s)
  NoSocket

ASSUME BridgeAssumption == MaxAttempt \in Nat /\ NoSocket \notin Sock

VARIABLES
  socket,     \* state.socket
  phase,      \* per WebSocket, where it is
  wired,      \* sockets that still have their listeners
  timer,      \* state.reconnectTimer # null
  attempt,    \* state.reconnectAttempt, up to the longest delay
  manual,     \* state.manualDisconnect
  config,     \* the address in state.lastConnectionConfig: "none" (null),
              \* "valid", or "invalid" when new WebSocket throws at it
  asking,     \* connect commands that wait for an address or a token
  reporting,  \* sockets whose open event waits for the preferred runtime
  greeted,    \* sockets on which the hello message was sent
  status,     \* the status bar
  up          \* whether the backend can be reached

connectionVars == <<socket, phase, wired, timer, attempt, manual, config, asking,
                    reporting, greeted, status, up>>

ConnectionTypeOK ==
  /\ socket \in {s \in Sock : phase[s] # "unused"} \cup {NoSocket}
  /\ phase \in [Sock -> {"unused", "connecting", "open", "closing"}]
  /\ wired \subseteq {s \in Sock : phase[s] # "unused"}
  /\ timer \in BOOLEAN /\ manual \in BOOLEAN /\ up \in BOOLEAN
  /\ config \in {"none", "valid", "invalid"}
  /\ attempt \in 0..MaxAttempt
  /\ asking \subseteq Call
  /\ reporting \subseteq Sock /\ greeted \subseteq Sock
  /\ status \in {"configure", "connecting", "connected", "disconnected", "error"}

ConnectionInit ==
  /\ socket = NoSocket
  /\ phase = [s \in Sock |-> "unused"]
  /\ wired = {}
  /\ timer = FALSE /\ attempt = 0 /\ manual = FALSE /\ config = "none"
  /\ asking = {} /\ reporting = {} /\ greeted = {}
  /\ status = "configure"
  /\ up \in BOOLEAN

Connected == socket # NoSocket /\ phase[socket] = "open"

-----------------------------------------------------------------------------
\* Mutants of Unwired, TimerAfterDisconnect, Schedule and OpenStarts.
ListenersStay(s) == wired

TimerStays == timer

ScheduleForCurrent(s) ==
  IF socket' = s THEN timer' = TRUE /\ status' = "connecting" /\ UNCHANGED attempt
  ELSE status' = "disconnected" /\ UNCHANGED <<timer, attempt>>

OpenReportsNothing(s) == UNCHANGED reporting

\* removeAllListeners on the socket that is being replaced.
Unwired(s) == wired \ {s}

\* clearReconnectTimer in disconnectFromBackend.
TimerAfterDisconnect == FALSE

\* The bar shows, soon after, whether there is a token.
BarAfterDisconnect == {"disconnected", "configure"}

\* The phases after closeSocket on the current socket.
ClosedCurrent == [s \in Sock |-> IF s = socket THEN "closing" ELSE phase[s]]

\* new WebSocket(url) and the listeners: a new socket takes the place of the
\* current one, which is closed.
NewSocket ==
  \E s \in Sock :
    /\ phase[s] = "unused"
    /\ phase' = [ClosedCurrent EXCEPT ![s] = "connecting"]
    /\ wired' = Unwired(socket) \cup {s}
    /\ socket' = s
    /\ greeted' = greeted \ {s}

\* new WebSocket(url) throws: the current socket is closed all the same, and
\* the bar stays at "connecting".
NoNewSocket ==
  /\ phase' = ClosedCurrent
  /\ wired' = Unwired(socket)
  /\ socket' = NoSocket
  /\ UNCHANGED greeted

\* The rest of connectToBackend, once it has an address and a token.  Nobody
\* checked the address, and nobody catches what the constructor throws.
OpenSocket(address, isReconnect) ==
  /\ config' = address /\ manual' = FALSE /\ timer' = FALSE
  /\ attempt' = IF isReconnect THEN attempt ELSE 0
  /\ status' = "connecting"
  /\ IF address = "valid" THEN NewSocket ELSE NoNewSocket
  /\ UNCHANGED <<reporting, up>>

\* pocket-vibe.connect, and the activation of the extension.
ConnectCommand(c) ==
  /\ c \notin asking
  /\ asking' = asking \cup {c}
  /\ UNCHANGED <<socket, phase, wired, timer, attempt, manual, config, reporting, greeted, status, up>>

\* The address comes from the settings, the environment, a profile or the user.
Answered(c) ==
  /\ c \in asking
  /\ asking' = asking \ {c}
  /\ \E address \in {"valid", "invalid"} : OpenSocket(address, FALSE)

\* The user gave no token: whatever else is connected, nothing else changes.
NotAnswered(c) ==
  /\ c \in asking
  /\ asking' = asking \ {c}
  /\ status' = "configure"
  /\ UNCHANGED <<socket, phase, wired, timer, attempt, manual, config, reporting, greeted, up>>

\* The timer's callback: the address and the token are known, so the call does
\* not suspend.
TimerFires ==
  /\ timer
  /\ OpenSocket(config, TRUE)
  /\ UNCHANGED asking

\* disconnectFromBackend.
Disconnect ==
  /\ manual' = TRUE
  /\ attempt' = 0
  /\ timer' = TimerAfterDisconnect
  /\ phase' = ClosedCurrent
  /\ wired' = Unwired(socket)
  /\ socket' = NoSocket
  /\ status' \in BarAfterDisconnect
  /\ UNCHANGED <<config, asking, reporting, greeted, up>>

-----------------------------------------------------------------------------
\* The open event goes on when the preferred runtime is ready.
OpenStarts(s) == reporting' = reporting \cup {s}

\* The "open" listener.
SocketOpens(s) ==
  /\ phase[s] = "connecting" /\ up
  /\ phase' = [phase EXCEPT ![s] = "open"]
  /\ IF s \in wired /\ socket = s
       THEN /\ attempt' = 0 /\ timer' = FALSE /\ status' = "connected"
            /\ OpenStarts(s)
       ELSE UNCHANGED <<attempt, timer, status, reporting>>
  /\ UNCHANGED <<socket, wired, manual, config, asking, greeted, up>>

\* reportCapabilities(true) at the end of the open event, on the socket that is
\* current by then.
Report(s) ==
  /\ s \in reporting
  /\ reporting' = reporting \ {s}
  /\ IF Connected
       THEN greeted' = greeted \cup {socket} /\ status' = "connected"
       ELSE UNCHANGED <<greeted, status>>
  /\ UNCHANGED <<socket, phase, wired, timer, attempt, manual, config, asking, up>>

\* The reports that terminal and workspace events ask for, with or without hello.
ReportAgain(hello) ==
  /\ Connected
  /\ greeted' = IF hello THEN greeted \cup {socket} ELSE greeted
  /\ status' = "connected"
  /\ UNCHANGED <<socket, phase, wired, timer, attempt, manual, config, asking, reporting, up>>

\* The "error" listener: the handshake fails, and "close" follows.
SocketFails(s) ==
  /\ phase[s] = "connecting" /\ ~up
  /\ phase' = [phase EXCEPT ![s] = "closing"]
  /\ status' = IF s \in wired /\ socket = s THEN "error" ELSE status
  /\ UNCHANGED <<socket, wired, timer, attempt, manual, config, asking, reporting, greeted, up>>

\* The peer closes, or its loss is noticed, which may be long after.
SocketDrops(s) ==
  /\ phase[s] = "open"
  /\ phase' = [phase EXCEPT ![s] = "closing"]
  /\ UNCHANGED <<socket, wired, timer, attempt, manual, config, asking, reporting, greeted, status, up>>

\* The "close" listener forgets the socket when it is the current one.
SocketAfterClose(s) == IF socket = s THEN NoSocket ELSE socket

\* scheduleReconnect after a close event.
Schedule(s) ==
  IF ~manual /\ ~timer /\ config # "none"
    THEN /\ timer' = TRUE
         /\ attempt' = IF attempt < MaxAttempt THEN attempt + 1 ELSE attempt
         /\ status' = "connecting"
    ELSE UNCHANGED <<timer, attempt>> /\ status' = "disconnected"

\* The "close" listener, if the socket still has it.
SocketCloses(s) ==
  /\ phase[s] = "closing"
  /\ phase' = [phase EXCEPT ![s] = "unused"]
  /\ wired' = wired \ {s}
  /\ IF s \in wired
       THEN socket' = SocketAfterClose(s) /\ Schedule(s)
       ELSE UNCHANGED <<socket, timer, attempt, status>>
  /\ UNCHANGED <<manual, config, asking, reporting, greeted, up>>

\* The backend or the network goes or comes back.
Backend ==
  /\ up' = ~up
  /\ UNCHANGED <<socket, phase, wired, timer, attempt, manual, config, asking, reporting, greeted, status>>

SocketEvent(s) == SocketOpens(s) \/ SocketFails(s) \/ SocketDrops(s) \/ SocketCloses(s) \/ Report(s)

ConnectionNext ==
  \/ \E c \in Call : ConnectCommand(c) \/ Answered(c) \/ NotAnswered(c)
  \/ TimerFires \/ Disconnect \/ Backend
  \/ \E hello \in BOOLEAN : ReportAgain(hello)
  \/ \E s \in Sock : SocketEvent(s)

\* Node runs its timers, and a connection attempt or a close comes to an end.
\* Users, and the backend, need not do anything.
Fairness ==
  /\ WF_connectionVars(TimerFires)
  /\ \A s \in Sock :
       /\ WF_connectionVars(SocketOpens(s) \/ SocketFails(s))
       /\ WF_connectionVars(SocketCloses(s))
       /\ WF_connectionVars(Report(s))

ConnectionSpec == ConnectionInit /\ [][ConnectionNext]_connectionVars
FairConnectionSpec == ConnectionSpec /\ Fairness

-----------------------------------------------------------------------------
\* The bridge is never stranded: once it had a connection to try, and until the
\* user disconnects, either a retry is scheduled or there is a socket whose
\* events it still hears, whichever calls, events and timers crossed.  The only
\* exception is a last attempt at an address that new WebSocket refuses: it has
\* taken the timer and the socket of the one before, and the bridge then waits
\* for the user, until a connect call brings a valid address.
NeverStranded ==
  config = "valid" /\ ~manual => timer \/ socket \in wired

\* No retry is pending beside a socket: a second socket would replace the first
\* while it works (scheduleReconnect, clearReconnectTimer).
RetryMeansDown == timer => socket = NoSocket

\* After the user disconnects, nothing comes back by itself.
DisconnectedStays == manual => socket = NoSocket /\ ~timer

\* Only the current socket is heard: messages, closes and errors of replaced
\* sockets change nothing.
OnlyCurrentIsHeard == wired \subseteq {socket}

\* While the backend stays reachable, no open socket is lost any more and the user
\* does nothing, a bridge that was not disconnected, and whose last address is
\* one it can try, has its connection back, and has said hello on it.
ComesBack ==
  /\ <>[](up /\ asking = {} /\ config = "valid" /\ ~manual)
  /\ <>[][\A s \in Sock : ~SocketDrops(s)]_connectionVars
  => <>[](Connected /\ socket \in greeted)
=============================================================================
