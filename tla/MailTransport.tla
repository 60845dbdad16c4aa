----------------------------- MODULE MailTransport -----------------------------
(***************************************************************************)
(* The SMTP client that sends the activation mails.  MPMailTransport::sendMail *)
(* is called by the threads of the click-to-call and reCAPTCHA transports;   *)
(* the connection to the SMTP server is opened on demand, mails are saved    *)
(* until it is up, and the callback of the connection, on the thread of the  *)
(* mail transport, sends the saved ones.  No lock guards the transport's     *)
(* fields: every step below is one access a thread makes to them, and the    *)
(* steps of different threads interleave.                                    *)
(*                                                                         *)
(* The sockets and the server are external.  A call of sendMail opens one    *)
(* connection at most, which bears the name of the mail; descriptors are not *)
(* reused.                                                                   *)
(***************************************************************************)
EXTENDS Sequences, SequencesExt

CONSTANTS
    Mail,         \* the calls of sendMail, one mail each
    NoMail,       \* no mail, no connection
    ConnectFails, \* whether an attempt to connect may fail
    ServerCloses  \* whether the server may close a connection that is up

ASSUME NoMailAssumption == NoMail \notin Mail
ASSUME SwitchesAssumption == ConnectFails \in BOOLEAN /\ ServerCloses \in BOOLEAN

VARIABLES
    step,       \* [Mail -> Step]: how far its sendMail is
    conn,       \* [Mail -> Conn]: the connections (external)
    wire,       \* [Mail -> Seq(Text)]: what the server received on each (external)
    events,     \* events the transport's thread has not handled (external)
    m_Peers,    \* the connections in the transport's peer table
    m_nConnectedFd,
    m_bConnectToPending,
    m_bNeedToAuthenticate,
    m_oPendingMails,
    m_pTempBuffPtr, \* the text under composition, shared by the threads
    callback,   \* the callback the transport's thread is in the middle of
    sendFailed  \* a mail could not be written on its connection (history)

flags   == <<m_bConnectToPending, m_bNeedToAuthenticate>>
network == <<conn, wire, events>>
vars    == <<step, network, m_Peers, m_nConnectedFd, flags, m_oPendingMails,
             m_pTempBuffPtr, callback, sendFailed>>

Step     == {"new", "save", "saved", "connect", "compose", "write", "returned"}
Conn     == {"none", "connecting", "up", "closed", "failed"}
Text     == [mail : Mail \cup {NoMail}, auth : BOOLEAN]
Event    == [type : {"connected", "closed"}, fd : Mail]
Callback == [phase : {"none", "connected", "closed", "drain", "write"}, fd : Mail \cup {NoMail}]
Idle     == [phase |-> "none", fd |-> NoMail]

TypeOK ==
    /\ step \in [Mail -> Step]
    /\ conn \in [Mail -> Conn]
    /\ wire \in [Mail -> Seq(Text)]
    /\ events \in Seq(Event)
    /\ m_Peers \subseteq Mail
    /\ m_nConnectedFd \in Mail \cup {NoMail}
    /\ m_bConnectToPending \in BOOLEAN
    /\ m_bNeedToAuthenticate \in BOOLEAN
    /\ m_oPendingMails \in Seq(Mail)
    /\ m_pTempBuffPtr \in Text
    /\ callback \in Callback
    /\ sendFailed \in BOOLEAN

Init ==
    /\ step = [m \in Mail |-> "new"]
    /\ conn = [m \in Mail |-> "none"]
    /\ wire = [m \in Mail |-> <<>>]
    /\ events = <<>>
    /\ m_Peers = {}
    /\ m_nConnectedFd = NoMail
    /\ m_bConnectToPending = FALSE
    /\ m_bNeedToAuthenticate = TRUE
    /\ m_oPendingMails = <<>>
    /\ m_pTempBuffPtr = [mail |-> NoMail, auth |-> FALSE]
    /\ callback = Idle
    /\ sendFailed = FALSE

-----------------------------------------------------------------------------
(* The sockets and the server (external).                                    *)

client == <<step, m_Peers, m_nConnectedFd, flags, m_oPendingMails,
            m_pTempBuffPtr, callback, sendFailed>>

Establish(f) ==
    /\ conn[f] = "connecting"
    /\ conn' = [conn EXCEPT ![f] = "up"]
    /\ events' = Append(events, [type |-> "connected", fd |-> f])
    /\ UNCHANGED <<wire, client>>

\* The attempt is refused or times out, or the server ends the connection.
Close(f) ==
    /\ \/ ConnectFails /\ conn[f] = "connecting" /\ conn' = [conn EXCEPT ![f] = "failed"]
       \/ ServerCloses /\ conn[f] = "up" /\ conn' = [conn EXCEPT ![f] = "closed"]
    /\ events' = Append(events, [type |-> "closed", fd |-> f])
    /\ UNCHANGED <<wire, client>>

-----------------------------------------------------------------------------
(* What both threads do to a mail.                                           *)

isConnected == m_nConnectedFd \in m_Peers

Compose(m) == m_pTempBuffPtr' = [mail |-> m, auth |-> m_bNeedToAuthenticate]

\* sendData: the text in the buffer goes to the connection of m_nConnectedFd.
CanSend  == m_nConnectedFd # NoMail /\ conn[m_nConnectedFd] = "up"
SendData ==
    IF CanSend
    THEN /\ wire' = [wire EXCEPT ![m_nConnectedFd] = Append(@, m_pTempBuffPtr)]
         /\ UNCHANGED sendFailed
    ELSE sendFailed' = TRUE /\ UNCHANGED wire

-----------------------------------------------------------------------------
(* MPMailTransport::sendMail, on the thread of its caller.                   *)

\* A mail is sent at once if the transport is connected, and saved if not.
LookAtConnection(m) ==
    /\ step[m] = "new"
    /\ step' = [step EXCEPT ![m] = IF isConnected THEN "compose" ELSE "save"]
    /\ UNCHANGED <<network, m_Peers, m_nConnectedFd, flags, m_oPendingMails,
                   m_pTempBuffPtr, callback, sendFailed>>

\* Mutant: what is saved is no mail.
SaveNoMail(m) ==
    /\ step[m] = "save"
    /\ m_oPendingMails' = Append(m_oPendingMails, NoMail)
    /\ step' = [step EXCEPT ![m] = "saved"]
    /\ UNCHANGED <<network, m_Peers, m_nConnectedFd, flags, m_pTempBuffPtr, callback, sendFailed>>

SaveMail(m) ==
    /\ step[m] = "save"
    /\ m_oPendingMails' = Append(m_oPendingMails, m)
    /\ step' = [step EXCEPT ![m] = "saved"]
    /\ UNCHANGED <<network, m_Peers, m_nConnectedFd, flags, m_pTempBuffPtr, callback, sendFailed>>

LookAtConnectToPending(m) ==
    /\ step[m] = "saved"
    /\ step' = [step EXCEPT ![m] = IF m_bConnectToPending THEN "returned" ELSE "connect"]
    /\ UNCHANGED <<network, m_Peers, m_nConnectedFd, flags, m_oPendingMails,
                   m_pTempBuffPtr, callback, sendFailed>>

\* connectTo: the attempt starts, or fails at once.
ConnectTo(m) ==
    /\ step[m] = "connect"
    /\ m_bConnectToPending' = TRUE
    /\ \/ conn' = [conn EXCEPT ![m] = "connecting"]
       \/ ConnectFails /\ conn' = [conn EXCEPT ![m] = "failed"]
    /\ step' = [step EXCEPT ![m] = "returned"]
    /\ UNCHANGED <<wire, events, m_Peers, m_nConnectedFd, m_bNeedToAuthenticate,
                   m_oPendingMails, m_pTempBuffPtr, callback, sendFailed>>

\* sendMail(oMail) looks at the connection again; the mail is lost if it is gone.
ComposeMail(m) ==
    /\ step[m] = "compose"
    /\ \/ /\ isConnected
          /\ Compose(m)
          /\ step' = [step EXCEPT ![m] = "write"]
          /\ UNCHANGED sendFailed
       \/ /\ ~isConnected
          /\ step' = [step EXCEPT ![m] = "returned"]
          /\ sendFailed' = TRUE
          /\ UNCHANGED m_pTempBuffPtr
    /\ UNCHANGED <<network, m_Peers, m_nConnectedFd, flags, m_oPendingMails, callback>>

WriteMail(m) ==
    /\ step[m] = "write"
    /\ SendData
    /\ step' = [step EXCEPT ![m] = "returned"]
    /\ UNCHANGED <<conn, events, m_Peers, m_nConnectedFd, flags, m_oPendingMails,
                   m_pTempBuffPtr, callback>>

sendMail(m) ==
    \/ LookAtConnection(m) \/ SaveMail(m) \/ LookAtConnectToPending(m)
    \/ ConnectTo(m) \/ ComposeMail(m) \/ WriteMail(m)

-----------------------------------------------------------------------------
(* The thread of the transport.                                              *)

Delivers(type) ==
    /\ callback = Idle
    /\ events # <<>>
    /\ Head(events).type = type
    /\ events' = Tail(events)

OnConnected ==
    /\ Delivers("connected")
    /\ m_Peers' = m_Peers \cup {Head(events).fd}
    /\ callback' = [phase |-> "connected", fd |-> Head(events).fd]
    /\ UNCHANGED <<step, conn, wire, m_nConnectedFd, flags, m_oPendingMails,
                   m_pTempBuffPtr, sendFailed>>

\* Closed, removed or in error: the callback runs only if there was a peer.
OnClosed ==
    /\ Delivers("closed")
    /\ LET f == Head(events).fd
       IN  \/ /\ f \in m_Peers
              /\ m_Peers' = m_Peers \ {f}
              /\ callback' = [phase |-> "closed", fd |-> f]
           \/ /\ f \notin m_Peers
              /\ UNCHANGED <<m_Peers, callback>>
    /\ UNCHANGED <<step, conn, wire, m_nConnectedFd, flags, m_oPendingMails,
                   m_pTempBuffPtr, sendFailed>>

\* Mutant: the attempt is still taken to be under way once it has succeeded.
ConnectedKeepsPending ==
    /\ callback.phase = "connected"
    /\ m_nConnectedFd' = callback.fd
    /\ callback' = [callback EXCEPT !.phase = "drain"]
    /\ UNCHANGED <<step, network, m_Peers, flags, m_oPendingMails, m_pTempBuffPtr, sendFailed>>

\* Mutant: leaves the saved mails to the next call of sendMail.
ConnectedDrainsNothing ==
    /\ callback.phase = "connected"
    /\ m_bConnectToPending' = FALSE
    /\ m_nConnectedFd' = callback.fd
    /\ callback' = Idle
    /\ UNCHANGED <<step, network, m_Peers, m_bNeedToAuthenticate, m_oPendingMails,
                   m_pTempBuffPtr, sendFailed>>

\* onConnectionStateChanged of a connected peer ...
StateConnected ==
    /\ callback.phase = "connected"
    /\ m_bConnectToPending' = FALSE
    /\ m_nConnectedFd' = callback.fd
    /\ callback' = [callback EXCEPT !.phase = "drain"]
    /\ UNCHANGED <<step, network, m_Peers, m_bNeedToAuthenticate, m_oPendingMails,
                   m_pTempBuffPtr, sendFailed>>

\* ... and of one that is gone, whichever connection m_nConnectedFd is.
StateClosed ==
    /\ callback.phase = "closed"
    /\ m_bConnectToPending' = FALSE
    /\ m_nConnectedFd' = NoMail
    /\ m_bNeedToAuthenticate' = TRUE
    /\ callback' = Idle
    /\ UNCHANGED <<step, network, m_Peers, m_oPendingMails, m_pTempBuffPtr, sendFailed>>

\* sendPendingMails takes the next saved mail off the list, then writes it; it
\* returns when there is none left or one could not be written.
DrainNext ==
    /\ callback.phase = "drain"
    /\ \/ /\ m_oPendingMails # <<>>
          /\ m_oPendingMails' = Tail(m_oPendingMails)
          /\ Compose(Head(m_oPendingMails))
          /\ callback' = [callback EXCEPT !.phase = "write"]
       \/ /\ m_oPendingMails = <<>>
          /\ callback' = Idle
          /\ UNCHANGED <<m_oPendingMails, m_pTempBuffPtr>>
    /\ UNCHANGED <<step, network, m_Peers, m_nConnectedFd, flags, sendFailed>>

DrainWrite ==
    /\ callback.phase = "write"
    /\ SendData
    /\ IF CanSend
       THEN /\ m_bNeedToAuthenticate' = FALSE
            /\ callback' = [callback EXCEPT !.phase = "drain"]
       ELSE /\ callback' = Idle
            /\ UNCHANGED m_bNeedToAuthenticate
    /\ UNCHANGED <<step, conn, events, m_Peers, m_nConnectedFd, m_bConnectToPending,
                   m_oPendingMails, m_pTempBuffPtr>>

Transport == OnConnected \/ OnClosed \/ StateConnected \/ StateClosed \/ DrainNext \/ DrainWrite

Next ==
    \/ Transport
    \/ \E m \in Mail : sendMail(m) \/ Establish(m) \/ Close(m)

Spec == Init /\ [][Next]_vars

\* The threads keep running, and an attempt to connect comes to an end.
FairSpec ==
    /\ Spec
    /\ WF_vars(Transport)
    /\ \A m \in Mail : WF_vars(sendMail(m)) /\ WF_vars(Establish(m))

-----------------------------------------------------------------------------
(* Properties.                                                               *)

\* m_bConnectToPending never says that a connection is on its way when none is:
\* as long as it says so, sendMail saves every mail and opens no connection.
PendingMeansConnecting ==
    m_bConnectToPending =>
        \/ \E f \in Mail : conn[f] = "connecting"
        \/ \E i \in DOMAIN events : events[i].type = "connected"
        \/ callback.phase = "connected"

AttemptFailed == \E f \in Mail : conn[f] = "failed"

\* Nothing but a failed attempt makes m_bConnectToPending lie: not the end of a
\* connection, and no race of callers that connect at the same time.
StuckOnlyAfterFailure == PendingMeansConnecting \/ AttemptFailed

\* "Subsequent messages should not be authenticated unless new connection is
\* used" (sendPendingMails): the first mail of a connection, and only the first,
\* carries the credentials.
AuthenticatesOnce ==
    \A f \in Mail : \A i \in DOMAIN wire[f] : wire[f][i].auth <=> i = 1

\* A mail saved "until we get connected" does not stay behind: neither in the
\* race of the caller with the callback that sends the saved ones, nor when the
\* connection ends, unless an attempt to connect has failed or a mail could not
\* be written.
SavedMailIsSent ==
    \A m \in Mail :
        m \in ToSet(m_oPendingMails) ~>
            (m \notin ToSet(m_oPendingMails) \/ sendFailed \/ AttemptFailed)

=============================================================================
