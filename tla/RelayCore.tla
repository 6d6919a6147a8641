------------------------------ MODULE RelayCore ------------------------------
(***************************************************************************)
(* The in-memory relay of backend/relay_core.py: a host registers and gets *)
(* a session, opens short pairing codes, phones pair with a code, and the  *)
(* devices of a session append opaque envelopes to its capped message list *)
(* and replay it from a cursor.  Every public method is one atomic action  *)
(* here: the calls of the HTTP thread pool that overlap are not modelled.   *)
(*                                                                         *)
(* A call that returns FAILED changes nothing and is a stuttering step,    *)
(* except open_pairing_code, which cleans up before it fails.              *)
(*                                                                         *)
(* The relay keeps no reading position: the caller of replay_since sends   *)
(* one and gets the next one back.  clientCursor and clientSeen are that   *)
(* caller's side.  opened and issued are history variables.                *)
(***************************************************************************)
EXTENDS Integers, Sequences, FiniteSets

CONSTANTS
  Host,          \* host_id values
  SessionId,     \* ids _id_factory("session") can return
  DeviceId,      \* ids _id_factory("host") and _id_factory("mobile") can return
  Code,          \* values _code_factory can return
  NoSession,     \* dict miss in _host_sessions
  NoDevice,      \* dict miss in session.devices
  NoChallenge,   \* dict miss in _pairing_challenges
  Unlimited,     \* max_messages_per_session = None
  MaxMessages,   \* max_messages_per_session
  Ttls,          \* ttl_seconds values callers ask for
  MaxNow,        \* bound: the clock stops here
  MaxSeq,        \* bound: appends per session
  MaxOpened      \* bound: codes opened per session

ASSUME RelayAssumption ==
  /\ NoSession \notin SessionId
  /\ NoDevice \notin [session : SessionId, role : {"host", "mobile"},
                      online : BOOLEAN, revoked : BOOLEAN]
  /\ NoChallenge \notin [session : SessionId, expires : Nat, consumed : BOOLEAN]
  /\ SessionId \cap DeviceId = {}
  /\ MaxMessages \in Int \cup {Unlimited}
  /\ Unlimited \notin Int
  /\ Ttls \subseteq Int
  /\ MaxNow \in Nat /\ MaxSeq \in Nat /\ MaxOpened \in Nat

VARIABLES
  now,           \* the clock, in seconds
  hostSession,   \* _host_sessions
  devices,       \* session.devices, over every session (device ids are unique)
  log,           \* session.messages
  nextSeq,       \* session.next_seq
  challenges,    \* _pairing_challenges
  issued,        \* ids handed out so far, over every run of the process
  opened,        \* codes opened so far for each session
  clientCursor,  \* the cursor each device would replay from
  clientSeen     \* the sequence numbers each device has received

serverVars == <<hostSession, devices, log, nextSeq, challenges>>
clientVars == <<clientCursor, clientSeen>>
vars == <<now, serverVars, issued, opened, clientVars>>

Device == [session : SessionId, role : {"host", "mobile"},
           online : BOOLEAN, revoked : BOOLEAN]
Challenge == [session : SessionId, expires : Nat, consumed : BOOLEAN]
Message == [seq : Nat \ {0}, sender : DeviceId]

TypeOK ==
  /\ now \in Nat
  /\ hostSession \in [Host -> SessionId \cup {NoSession}]
  /\ devices \in [DeviceId -> Device \cup {NoDevice}]
  /\ log \in [SessionId -> Seq(Message)]
  /\ nextSeq \in [SessionId -> Nat \ {0}]
  /\ challenges \in [Code -> Challenge \cup {NoChallenge}]
  /\ issued \subseteq SessionId \cup DeviceId
  /\ opened \in [SessionId -> Nat]
  /\ clientCursor \in [DeviceId -> Nat]
  /\ clientSeen \in [DeviceId -> SUBSET Nat]

-----------------------------------------------------------------------------

Known(d) == devices[d] # NoDevice

(* _get_active_device: the device is known and not revoked. *)
Active(d) == Known(d) /\ ~devices[d].revoked

(* The session ids of _sessions: register_host adds to _sessions and to    *)
(* _host_sessions together and nothing removes from either.                *)
Live(s) == \E h \in Host : hostSession[h] = s

Pairable(c) == /\ challenges[c] # NoChallenge
               /\ ~challenges[c].consumed
               /\ ~(now > challenges[c].expires)

(* cleanup_pairing_challenges drops what pair_mobile_device would refuse.  *)
Cleaned == [c \in Code |-> IF Pairable(c) THEN challenges[c] ELSE NoChallenge]

Cap == IF MaxMessages = Unlimited \/ MaxMessages < 1 THEN 1 ELSE MaxMessages

TrimNewest(messages) ==  \* variant: deletes from the wrong end
  IF MaxMessages = Unlimited \/ Len(messages) <= Cap THEN messages ELSE SubSeq(messages, 1, Cap)

(* _trim_messages: drop the oldest messages above the cap. *)
Trim(messages) ==
  IF MaxMessages = Unlimited \/ Len(messages) <= Cap
  THEN messages
  ELSE SubSeq(messages, Len(messages) - Cap + 1, Len(messages))

(* The messages replay_since selects, as positions in session.messages,    *)
(* and the next_cursor it reports: the last one's seq, or the given cursor. *)
Replayed(s, cursor) == {i \in DOMAIN log[s] : log[s][i].seq > cursor}
ReplayedSeqs(s, cursor) == {log[s][i].seq : i \in Replayed(s, cursor)}
LastOf(positions) == CHOOSE i \in positions : \A j \in positions : j <= i
NextCursorAhead(s, cursor) ==  \* variant: reports next_seq
  IF Replayed(s, cursor) = {} THEN cursor ELSE nextSeq[s]
NextCursorCounted(s, cursor) ==  \* variant: adds the number of messages replayed
  cursor + Cardinality(Replayed(s, cursor))
NextCursor(s, cursor) ==
  IF Replayed(s, cursor) = {} THEN cursor ELSE log[s][LastOf(Replayed(s, cursor))].seq

-----------------------------------------------------------------------------

EmptyServer ==
  /\ hostSession = [h \in Host |-> NoSession]
  /\ devices = [d \in DeviceId |-> NoDevice]
  /\ log = [s \in SessionId |-> <<>>]
  /\ nextSeq = [s \in SessionId |-> 1]
  /\ challenges = [c \in Code |-> NoChallenge]

Init ==
  /\ now = 0
  /\ EmptyServer
  /\ issued = {}
  /\ opened = [s \in SessionId |-> 0]
  /\ clientCursor = [d \in DeviceId |-> 0]
  /\ clientSeen = [d \in DeviceId |-> {}]

Tick == /\ now < MaxNow
        /\ now' = now + 1
        /\ UNCHANGED <<serverVars, issued, opened, clientVars>>

(* A host that is already registered gets its session back: no change. *)
RegisterHost(h, s, d) ==
  /\ hostSession[h] = NoSession
  /\ s \notin issued /\ d \notin issued
  /\ hostSession' = [hostSession EXCEPT ![h] = s]
  /\ devices' = [devices EXCEPT ![d] =
       [session |-> s, role |-> "host", online |-> TRUE, revoked |-> FALSE]]
  /\ issued' = issued \cup {s, d}
  /\ UNCHANGED <<now, log, nextSeq, challenges, opened, clientVars>>

(* The code factory draws any code, one that is still outstanding included. *)
OpenPairingCode(h, c, ttl) ==
  IF hostSession[h] = NoSession
  THEN /\ challenges' = Cleaned
       /\ UNCHANGED <<now, hostSession, devices, log, nextSeq, issued, opened, clientVars>>
  ELSE LET s == hostSession[h] IN
       /\ opened[s] < MaxOpened
       /\ challenges' = [Cleaned EXCEPT ![c] =
            [session |-> s, expires |-> now + (IF ttl < 1 THEN 1 ELSE ttl), consumed |-> FALSE]]
       /\ opened' = [opened EXCEPT ![s] = @ + 1]
       /\ UNCHANGED <<now, hostSession, devices, log, nextSeq, issued, clientVars>>

PairMobileDeviceReusable(c, d) ==  \* variant: the code is not consumed
  /\ Pairable(c)
  /\ d \notin issued
  /\ devices' = [devices EXCEPT ![d] =
       [session |-> challenges[c].session, role |-> "mobile", online |-> FALSE, revoked |-> FALSE]]
  /\ issued' = issued \cup {d}
  /\ UNCHANGED <<now, hostSession, log, nextSeq, challenges, opened, clientVars>>

PairMobileDevice(c, d) ==
  /\ Pairable(c)
  /\ d \notin issued
  /\ devices' = [devices EXCEPT ![d] =
       [session |-> challenges[c].session, role |-> "mobile", online |-> FALSE, revoked |-> FALSE]]
  /\ challenges' = [challenges EXCEPT ![c].consumed = TRUE]
  /\ issued' = issued \cup {d}
  /\ UNCHANGED <<now, hostSession, log, nextSeq, opened, clientVars>>

CleanupPairingChallenges ==
  /\ challenges' = Cleaned
  /\ UNCHANGED <<now, hostSession, devices, log, nextSeq, issued, opened, clientVars>>

(* Revoking again is allowed and changes nothing the model keeps. *)
RevokeDevice(d) ==
  /\ Known(d)
  /\ devices' = [devices EXCEPT ![d] = [@ EXCEPT !.revoked = TRUE, !.online = FALSE]]
  /\ UNCHANGED <<now, hostSession, log, nextSeq, challenges, issued, opened, clientVars>>

SetDeviceOnlineRevoked(d, online) ==  \* variant: any known device, revoked or not
  /\ Known(d)
  /\ devices' = [devices EXCEPT ![d].online = online]
  /\ UNCHANGED <<now, hostSession, log, nextSeq, challenges, issued, opened, clientVars>>

SetDeviceOnline(d, online) ==
  /\ Active(d)
  /\ devices' = [devices EXCEPT ![d].online = online]
  /\ UNCHANGED <<now, hostSession, log, nextSeq, challenges, issued, opened, clientVars>>

(* An envelope without ciphertext and nonce is refused: no change. *)
AppendEncryptedEnvelope(d) ==
  LET s == devices[d].session IN
  /\ Active(d)
  /\ nextSeq[s] <= MaxSeq
  /\ nextSeq' = [nextSeq EXCEPT ![s] = @ + 1]
  /\ log' = [log EXCEPT ![s] = Trim(Append(@, [seq |-> nextSeq[s], sender |-> d]))]
  /\ UNCHANGED <<now, hostSession, devices, challenges, issued, opened, clientVars>>

(* The caller replays from its cursor, keeps the messages, and adopts the  *)
(* cursor that came back.  A reply lost on the way is a stuttering step.   *)
ReplaySince(d) ==
  LET s == devices[d].session IN
  /\ Active(d)
  /\ clientSeen' = [clientSeen EXCEPT ![d] = @ \cup ReplayedSeqs(s, clientCursor[d])]
  /\ clientCursor' = [clientCursor EXCEPT ![d] = NextCursor(s, @)]
  /\ UNCHANGED <<now, serverVars, issued, opened>>

(* A caller that lost its own state starts again from cursor 0, the default. *)
ClientForgets(d) ==
  /\ d \in issued
  /\ clientCursor' = [clientCursor EXCEPT ![d] = 0]
  /\ clientSeen' = [clientSeen EXCEPT ![d] = {}]
  /\ UNCHANGED <<now, serverVars, issued, opened>>

(* The process restarts: everything the relay knew was in memory, and the  *)
(* random ids it handed out before are not drawn again.                    *)
Restart ==
  /\ hostSession' = [h \in Host |-> NoSession]
  /\ devices' = [d \in DeviceId |-> NoDevice]
  /\ log' = [s \in SessionId |-> <<>>]
  /\ nextSeq' = [s \in SessionId |-> 1]
  /\ challenges' = [c \in Code |-> NoChallenge]
  /\ UNCHANGED <<now, issued, opened, clientVars>>

Next ==
  \/ Tick
  \/ \E h \in Host, s \in SessionId, d \in DeviceId : RegisterHost(h, s, d)
  \/ \E h \in Host, c \in Code, ttl \in Ttls : OpenPairingCode(h, c, ttl)
  \/ \E c \in Code, d \in DeviceId : PairMobileDevice(c, d)
  \/ CleanupPairingChallenges
  \/ \E d \in DeviceId : RevokeDevice(d)
  \/ \E d \in DeviceId, online \in BOOLEAN : SetDeviceOnline(d, online)
  \/ \E d \in DeviceId : AppendEncryptedEnvelope(d)
  \/ \E d \in DeviceId : ReplaySince(d)
  \/ \E d \in DeviceId : ClientForgets(d)
  \/ Restart

Spec == Init /\ [][Next]_vars

-----------------------------------------------------------------------------
(* Properties *)

(* The retained messages of a session are the newest ones, numbered without *)
(* a hole up to the last number given out, and never more than the cap:     *)
(* what append_encrypted_envelope and _trim_messages keep together.         *)
RetainedWindow ==
  \A s \in SessionId :
    /\ \A i \in DOMAIN log[s] : log[s][i].seq = nextSeq[s] - Len(log[s]) + i - 1
    /\ IF MaxMessages = Unlimited
       THEN Len(log[s]) = nextSeq[s] - 1
       ELSE Len(log[s]) = IF nextSeq[s] - 1 < Cap THEN nextSeq[s] - 1 ELSE Cap

(* A caller that feeds every next_cursor back to replay_since has received  *)
(* every message at or below its cursor that the relay still holds: what it *)
(* misses was trimmed before it asked.  Restarts are included: a cursor of  *)
(* an earlier process is never applied to a session of the present one.     *)
ReplayLeavesNoGap ==
  \A d \in DeviceId : Known(d) =>
    \A i \in DOMAIN log[devices[d].session] :
      LET n == log[devices[d].session][i].seq IN
      n <= clientCursor[d] => n \in clientSeen[d]

(* A cursor never runs ahead of the session it reads, so no later message   *)
(* is skipped; it names a message the device has received.                  *)
CursorBehindSession ==
  \A d \in DeviceId : Known(d) =>
    /\ clientCursor[d] < nextSeq[devices[d].session]
    /\ clientCursor[d] # 0 => clientCursor[d] \in clientSeen[d]

Mobiles(s) == {d \in DeviceId : Known(d) /\ devices[d].session = s /\ devices[d].role = "mobile"}
Outstanding(s) ==
  {c \in Code : challenges[c] # NoChallenge /\ challenges[c].session = s /\ ~challenges[c].consumed}

(* A session never has more phones than its host has opened codes, counting *)
(* the codes that can still be used: a code pairs one phone, also when the  *)
(* factory draws it again or the cleanup runs in between.                   *)
OnePhonePerCode ==
  \A s \in SessionId : Cardinality(Mobiles(s)) + Cardinality(Outstanding(s)) <= opened[s]

(* A device that was revoked, or that a restart forgot, never acts again:   *)
(* it does not become active or online, receives nothing and no message of  *)
(* its making appears (docs/SECURITY_AND_TRUST.md: revocation takes effect  *)
(* on the next action).                                                     *)
RevocationIsFinal ==
  [][\A d \in DeviceId : d \in issued /\ ~Active(d) =>
       /\ ~Active(d)'
       /\ Known(d)' => ~devices'[d].online
       /\ clientSeen'[d] \subseteq clientSeen[d]
       /\ \A s \in SessionId :
            nextSeq'[s] > nextSeq[s] => log'[s][Len(log'[s])].sender # d]_vars

=============================================================================
