------------------------------- MODULE Recaptcha -------------------------------
(***************************************************************************)
(* The verification of new click-to-call accounts: for each one the thread  *)
(* of a click-to-call transport runs MPRecaptchaTransport::validate, which   *)
(* opens a connection to the verification service, and the thread of the     *)
(* reCAPTCHA transport runs the callbacks of that connection                 *)
(* (MPNetTransportCb_Stream in mp_net_transport.cc and                       *)
(* MPRecaptchaTransportCallback in mp_recaptcha.cc).  The two share the      *)
(* peer table and the table of requests, both keyed by file descriptor and   *)
(* each guarded by a mutex of its own.                                       *)
(*                                                                         *)
(* The sockets and the service are external.  A descriptor is free for the   *)
(* next connection as soon as its socket is closed, even if the event that   *)
(* reports the close has not been handled yet.                               *)
(***************************************************************************)
EXTENDS Naturals, Sequences, SequencesExt

CONSTANTS
    Request,          \* the accounts to verify, one validate() each
    NoRequest,        \* no request
    Genuine,          \* the requests whose response token the service accepts
    Fd,               \* the file descriptors
    NoFd,             \* TNET_INVALID_FD
    ConnectionsFail,  \* whether a connection may be refused or cut
    Framing           \* the forms a reply may take: a subset of ReplyForm

\* "whole": no Content-Length header, all in one piece.  "cut": the same, but the
\* content comes in several pieces.  "headers": the headers come alone, ahead of
\* the content.  "length": there is a Content-Length header.
ReplyForm == {"whole", "cut", "headers", "length"}

ASSUME GenuineAssumption == Genuine \subseteq Request
ASSUME NothingAssumption == NoRequest \notin Request /\ NoFd \notin Fd
ASSUME FramingAssumption == Framing \subseteq ReplyForm
ASSUME SwitchAssumption == ConnectionsFail \in BOOLEAN

VARIABLES
    step,      \* [Request -> Step]: how far its validate() is
    fd,        \* [Request -> Fd \cup {NoFd}]: the descriptor connectTo returned
    link,      \* [Request -> Link]: its connection (external)
    heard,     \* [Request -> Seq(Request)]: whose tokens arrived on it (external)
    events,    \* events the transport's thread has not handled (external)
    m_Peers,   \* SUBSET Fd: the connected peers of the transport
    m_Recaptchas, \* [Fd -> Request \cup {NoRequest}]
    callback,  \* the callback the transport's thread is in the middle of
    outcome,   \* [Request -> Seq(BOOLEAN)]: its calls of onValidationEvent
    unread,    \* requests whose reply was dropped as if it had no content (history)
    reopened   \* a connection was opened on a descriptor that was still Remembered (history)

callers == <<step, fd>>
network == <<link, heard>>
tables  == <<m_Peers, m_Recaptchas>>
results == <<outcome, unread>>
vars    == <<callers, network, events, tables, callback, results, reopened>>

Step  == {"new", "opened", "inserted", "sending", "writing", "returned"}
Link  == {"none", "connecting", "up", "answered", "closed"}
InUse == {"connecting", "up", "answered"}
Event == [type : {"connected", "closed"}, fd : Fd]
         \cup [type : {"data"}, fd : Fd, success : BOOLEAN, form : ReplyForm]
Callback == [phase : {"none", "connected", "closed"}, fd : Fd \cup {NoFd}]
Idle == [phase |-> "none", fd |-> NoFd]

TypeOK ==
    /\ step \in [Request -> Step]
    /\ fd \in [Request -> Fd \cup {NoFd}]
    /\ link \in [Request -> Link]
    /\ heard \in [Request -> Seq(Request)]
    /\ events \in Seq(Event)
    /\ m_Peers \subseteq Fd
    /\ m_Recaptchas \in [Fd -> Request \cup {NoRequest}]
    /\ callback \in Callback
    /\ outcome \in [Request -> Seq(BOOLEAN)]
    /\ unread \subseteq Request
    /\ reopened \in BOOLEAN

Init ==
    /\ step = [r \in Request |-> "new"]
    /\ fd = [r \in Request |-> NoFd]
    /\ link = [r \in Request |-> "none"]
    /\ heard = [r \in Request |-> <<>>]
    /\ events = <<>>
    /\ m_Peers = {}
    /\ m_Recaptchas = [f \in Fd |-> NoRequest]
    /\ callback = Idle
    /\ outcome = [r \in Request |-> <<>>]
    /\ unread = {}
    /\ reopened = FALSE

-----------------------------------------------------------------------------
(* The sockets and the verification service (external).                      *)

Report(type, f) == events' = Append(events, [type |-> type, fd |-> f])

Establish(r) ==
    /\ link[r] = "connecting"
    /\ link' = [link EXCEPT ![r] = "up"]
    /\ Report("connected", fd[r])
    /\ UNCHANGED <<callers, heard, tables, callback, results, reopened>>

\* The service answers the first request of a connection (HTTP/1.0) ...
Reply(r) ==
    /\ link[r] = "up"
    /\ heard[r] # <<>>
    /\ link' = [link EXCEPT ![r] = "answered"]
    /\ \E form \in Framing :
          events' = Append(events, [type |-> "data", fd |-> fd[r],
                                    success |-> Head(heard[r]) \in Genuine, form |-> form])
    /\ UNCHANGED <<callers, heard, tables, callback, results, reopened>>

\* ... and closes it; a connection that fails is closed before that.
Close(r) ==
    /\ \/ link[r] = "answered"
       \/ ConnectionsFail /\ link[r] \in {"connecting", "up"}
    /\ link' = [link EXCEPT ![r] = "closed"]
    /\ Report("closed", fd[r])
    /\ UNCHANGED <<callers, heard, tables, callback, results, reopened>>

\* tnet_transport_send: request q's token goes to the connection that owns
\* descriptor f now; without one the call fails.
Write(f, q) ==
    heard' = [r \in Request |->
                 IF fd[r] = f /\ link[r] \in {"up", "answered"}
                 THEN Append(heard[r], q) ELSE heard[r]]

-----------------------------------------------------------------------------
(* MPRecaptchaTransport::validate.                                           *)

\* The gateway still refers to f: to the table's entry for it, in a validate that is under
\* way, or in an event of a connection that had it.
Remembered(f) ==
    \/ m_Recaptchas[f] # NoRequest
    \/ \E q \in Request : fd[q] = f /\ step[q] # "returned"
    \/ \E i \in DOMAIN events : events[i].fd = f

\* connectTo returns a descriptor that no open socket has, or none.
connectTo(r) ==
    /\ step[r] = "new"
    /\ \/ \E f \in Fd :
             /\ \A q \in Request : link[q] \in InUse => fd[q] # f
             /\ fd' = [fd EXCEPT ![r] = f]
             /\ link' = [link EXCEPT ![r] = "connecting"]
             /\ step' = [step EXCEPT ![r] = "opened"]
             /\ reopened' = (reopened \/ Remembered(f))
       \/ /\ ConnectionsFail
          /\ step' = [step EXCEPT ![r] = "returned"]
          /\ UNCHANGED <<fd, link, reopened>>
    /\ UNCHANGED <<heard, events, tables, callback, results>>

\* std::map::insert keeps the entry a descriptor already has.
insertRecaptcha(r) ==
    /\ step[r] = "opened"
    /\ m_Recaptchas' = [m_Recaptchas EXCEPT ![fd[r]] = IF @ = NoRequest THEN r ELSE @]
    /\ step' = [step EXCEPT ![r] = "inserted"]
    /\ UNCHANGED <<fd, network, events, m_Peers, callback, results, reopened>>

\* Mutant: leaves the sending to the callback in every case.
neverConnected(r) ==
    /\ step[r] = "inserted"
    /\ step' = [step EXCEPT ![r] = "returned"]
    /\ UNCHANGED <<fd, network, events, tables, callback, results, reopened>>

isConnected(r) ==
    /\ step[r] = "inserted"
    /\ step' = [step EXCEPT ![r] = IF fd[r] \in m_Peers THEN "sending" ELSE "returned"]
    /\ UNCHANGED <<fd, network, events, tables, callback, results, reopened>>

\* sendRecaptcha, called by validate, looks the peer up once more ...
sendRecaptcha(r) ==
    /\ step[r] = "sending"
    /\ step' = [step EXCEPT ![r] = IF fd[r] \in m_Peers THEN "writing" ELSE "returned"]
    /\ UNCHANGED <<fd, network, events, tables, callback, results, reopened>>

\* ... and writes the request on its descriptor.
sendData(r) ==
    /\ step[r] = "writing"
    /\ Write(fd[r], r)
    /\ step' = [step EXCEPT ![r] = "returned"]
    /\ UNCHANGED <<fd, link, events, tables, callback, results, reopened>>

validate(r) ==
    connectTo(r) \/ insertRecaptcha(r) \/ isConnected(r) \/ sendRecaptcha(r) \/ sendData(r)

-----------------------------------------------------------------------------
(* The thread of the transport: MPNetTransportCb_Stream and the callbacks.   *)

Delivers(type) ==
    /\ callback = Idle
    /\ events # <<>>
    /\ Head(events).type = type
    /\ events' = Tail(events)

\* The peer is known to be connected; its callback has yet to run.
OnConnected ==
    /\ Delivers("connected")
    /\ m_Peers' = m_Peers \cup {Head(events).fd}
    /\ callback' = [phase |-> "connected", fd |-> Head(events).fd]
    /\ UNCHANGED <<callers, network, m_Recaptchas, results, reopened>>

\* Mutant: the request is forgotten once it is sent.
SendAndForget ==
    /\ callback.phase = "connected"
    /\ LET q == m_Recaptchas[callback.fd]
       IN  IF q = NoRequest THEN UNCHANGED heard ELSE Write(callback.fd, q)
    /\ m_Recaptchas' = [m_Recaptchas EXCEPT ![callback.fd] = NoRequest]
    /\ callback' = Idle
    /\ UNCHANGED <<callers, link, events, m_Peers, results, reopened>>

\* onConnectionStateChanged of a connected peer: sends the request, if there
\* is one for that descriptor.
SendWhenConnected ==
    /\ callback.phase = "connected"
    /\ LET q == m_Recaptchas[callback.fd]
       IN  IF q = NoRequest THEN UNCHANGED heard ELSE Write(callback.fd, q)
    /\ callback' = Idle
    /\ UNCHANGED <<callers, link, events, tables, results, reopened>>

\* Closed, removed or in error: the callback runs only if there was a peer.
OnClosed ==
    /\ Delivers("closed")
    /\ LET f == Head(events).fd
       IN  IF f \in m_Peers
           THEN callback' = [phase |-> "closed", fd |-> f] /\ m_Peers' = m_Peers \ {f}
           ELSE UNCHANGED <<callback, m_Peers>>
    /\ UNCHANGED <<callers, network, m_Recaptchas, results, reopened>>

\* Mutant: the entry is reset to what the caller of validate holds.
resetToFd ==
    /\ callback.phase = "closed"
    /\ m_Recaptchas' = [m_Recaptchas EXCEPT ![callback.fd] = NoFd]
    /\ callback' = Idle
    /\ UNCHANGED <<callers, network, events, m_Peers, results, reopened>>

\* onConnectionStateChanged of a peer that is gone.
removeRecaptcha ==
    /\ callback.phase = "closed"
    /\ m_Recaptchas' = [m_Recaptchas EXCEPT ![callback.fd] = NoRequest]
    /\ callback' = Idle
    /\ UNCHANGED <<callers, network, events, m_Peers, results, reopened>>

\* Mutant: a reply that cannot be parsed counts as a success.
VerdictUnlessRefused(reply) == reply.form = "cut" \/ reply.success

\* "success" of the JSON content; the first piece of a content does not parse.
Verdict(reply) == reply.form = "whole" /\ reply.success

\* onData finds no content in a reply that has a Content-Length header, whose
\* value is never assigned, nor in headers that come alone: it drops them, and
\* finds no headers in what is left or comes later.
NoContent(reply) == reply.form \in {"length", "headers"}

\* onData: the verdict goes to the request the table has for that descriptor.
OnData ==
    /\ Delivers("data")
    /\ LET reply == Head(events)
           q == m_Recaptchas[reply.fd]
       IN  \/ /\ reply.fd \notin m_Peers \/ q = NoRequest
              /\ UNCHANGED results
           \/ /\ reply.fd \in m_Peers /\ q # NoRequest
              /\ NoContent(reply)
              /\ unread' = unread \cup {q}
              /\ UNCHANGED outcome
           \/ /\ reply.fd \in m_Peers /\ q # NoRequest
              /\ ~NoContent(reply)
              /\ outcome' = [outcome EXCEPT ![q] = Append(@, Verdict(reply))]
              /\ UNCHANGED unread
    /\ UNCHANGED <<callers, network, tables, callback, reopened>>

Transport == OnConnected \/ SendWhenConnected \/ OnClosed \/ removeRecaptcha \/ OnData

Next ==
    \/ Transport
    \/ \E r \in Request : validate(r) \/ Establish(r) \/ Reply(r) \/ Close(r)

Spec == Init /\ [][Next]_vars

\* Both threads keep running, a connection is established or fails, and the
\* service answers what it has received.
FairSpec ==
    /\ Spec
    /\ WF_vars(Transport)
    /\ \A r \in Request :
          /\ WF_vars(insertRecaptcha(r)) /\ WF_vars(isConnected(r)) /\ WF_vars(sendRecaptcha(r))
          /\ WF_vars(sendData(r))
          /\ WF_vars(Establish(r)) /\ WF_vars(Reply(r))

-----------------------------------------------------------------------------
(* Properties.                                                               *)

\* An account is added only after its own verification has succeeded
\* (MPClick2CallTransport delays it until onValidationEvent): a request is
\* never credited with the reply to another one.
OnlyGenuineAccepted == \A r \in Request : (\E i \in DOMAIN outcome[r] : outcome[r][i]) => r \in Genuine

\* Descriptors are reused as soon as they are closed.  A request is credited with the reply
\* to another one only when a connection was opened on a descriptor that the gateway had
\* not finished with: neither what fails, nor how a reply is cut, nor a late reuse misleads it.
MisledOnlyByEarlyReuse == reopened \/ OnlyGenuineAccepted

\* A request is not lost between the two threads: once its connection is up, it
\* is sent on it, by validate or by the callback of the connection, whichever
\* comes last, unless the connection is closed first or a descriptor is reopened too early.
RequestIsSent ==
    \A r \in Request : link[r] = "up" ~> (r \in ToSet(heard[r]) \/ link[r] = "closed" \/ reopened)

\* The reply to a request finds the request still in the table, and decides it,
\* even if the connection is closed right behind the reply: onData gives its
\* verdict, or drops it for having no content; unless a descriptor is reopened too early.
ReplyIsUsed ==
    \A r \in Request : link[r] = "answered" ~> (outcome[r] # <<>> \/ r \in unread \/ reopened)

=============================================================================
