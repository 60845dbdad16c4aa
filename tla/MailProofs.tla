------------------------------- MODULE MailProofs -------------------------------
(***************************************************************************)
(* What MailTransport's runs check of its flags holds for any number of      *)
(* mails: nothing but a failed attempt to connect makes m_bConnectToPending   *)
(* lie.  The inductive invariant adds that a call of sendMail has opened no     *)
(* connection before it comes to do so; without it, a connection that failed    *)
(* could be opened again and its failure be forgotten.                         *)
(***************************************************************************)
EXTENDS MailTransport, TLAPS

\* A sendMail that has not come to connectTo has no connection.
NotOpenedYet ==
    \A m \in Mail : step[m] \in {"new", "save", "saved", "connect"} => conn[m] = "none"

IInv == TypeOK /\ NotOpenedYet /\ StuckOnlyAfterFailure

\* An event is queued behind the others, of which none is lost or changed.
LEMMA AppendEvent ==
    ASSUME NEW s \in Seq(Event), NEW e \in Event
    PROVE  /\ Append(s, e) \in Seq(Event)
           /\ \A i \in DOMAIN s : i \in DOMAIN Append(s, e) /\ Append(s, e)[i] = s[i]
           /\ Len(s) + 1 \in DOMAIN Append(s, e) /\ Append(s, e)[Len(s) + 1] = e
  OBVIOUS

\* Of the queued events, all but the first are still there when it is delivered.
LEMMA TailEvents ==
    ASSUME NEW s \in Seq(Event), s # <<>>
    PROVE  /\ Tail(s) \in Seq(Event) /\ Head(s) \in Event
           /\ \A i \in DOMAIN s : s[i] = Head(s) \/ \E j \in DOMAIN Tail(s) : Tail(s)[j] = s[i]
<1>1. Tail(s) \in Seq(Event) /\ Head(s) \in Event /\ Head(s) = s[1]
  OBVIOUS
<1>2. ASSUME NEW i \in DOMAIN s, i # 1
      PROVE  i - 1 \in DOMAIN Tail(s) /\ Tail(s)[i - 1] = s[i]
  BY <1>2
<1> QED BY <1>1, <1>2

\* Nothing is pending at the start, and nothing is open.
LEMMA InitIInv == Init => IInv
<1> SUFFICES ASSUME Init PROVE IInv
  OBVIOUS
<1>1. step \in [Mail -> Step] /\ conn \in [Mail -> Conn] /\ wire \in [Mail -> Seq(Text)]
  BY DEF Init, Step, Conn
<1>2. m_pTempBuffPtr \in Text /\ callback \in Callback
  BY DEF Init, Text, Callback, Idle
<1>3. /\ m_bConnectToPending \in BOOLEAN /\ m_bNeedToAuthenticate \in BOOLEAN
      /\ sendFailed \in BOOLEAN
  BY Zenon DEF Init
<1>4. TypeOK
  BY <1>1, <1>2, <1>3 DEF Init, TypeOK
<1>5. NotOpenedYet /\ StuckOnlyAfterFailure
  BY DEF Init, NotOpenedYet, StuckOnlyAfterFailure, PendingMeansConnecting
<1> QED BY <1>4, <1>5 DEF IInv

\* The text that is written was composed, and ends up on a connection or nowhere.
LEMMA SendDataType ==
    ASSUME TypeOK, SendData
    PROVE  wire' \in [Mail -> Seq(Text)] /\ sendFailed' \in BOOLEAN
<1>1. CASE CanSend
  <2>1. /\ m_nConnectedFd \in Mail
        /\ Append(wire[m_nConnectedFd], m_pTempBuffPtr) \in Seq(Text)
    BY <1>1 DEF CanSend, TypeOK
  <2> QED BY <1>1, <2>1 DEF SendData, TypeOK
<1>2. CASE ~CanSend
  BY <1>2 DEF SendData, TypeOK
<1> QED BY <1>1, <1>2

\* What is composed is a text.
LEMMA ComposeType ==
    ASSUME TypeOK, NEW m \in Mail, Compose(m)
    PROVE  m_pTempBuffPtr' \in Text
<1>1. m_bNeedToAuthenticate \in BOOLEAN
  BY DEF TypeOK
<1>2. [mail |-> m, auth |-> m_bNeedToAuthenticate] \in Text
  BY <1>1 DEF Text
<1> QED BY <1>2 DEF Compose

\* An attempt that comes to an end leaves an event, or has failed.
LEMMA NetworkIInv ==
    ASSUME IInv, NEW f \in Mail, Establish(f) \/ Close(f)
    PROVE  IInv'
<1> USE DEF IInv, client, flags
<1>1. TypeOK /\ conn[f] # "none"
  BY DEF Establish, Close
<1>2. PICK c \in {"up", "failed", "closed"}, e \in Event :
         /\ conn' = [conn EXCEPT ![f] = c] /\ events' = Append(events, e)
         /\ c = "up" => e.type = "connected"
         /\ c = "closed" => conn[f] = "up"
  <2>1. [type |-> "connected", fd |-> f] \in Event /\ [type |-> "closed", fd |-> f] \in Event
    BY DEF Event
  <2> QED BY <2>1 DEF Establish, Close
<1>3. UNCHANGED <<wire, client>>
  BY DEF Establish, Close
<1>4. events \in Seq(Event)
  BY <1>1 DEF TypeOK
<1>5. TypeOK'
  BY <1>1, <1>2, <1>3, <1>4, AppendEvent DEF TypeOK, Conn
<1>6. NotOpenedYet'
  BY <1>1, <1>2, <1>3 DEF NotOpenedYet, TypeOK
<1>7. StuckOnlyAfterFailure'
  <2>1. SUFFICES ASSUME m_bConnectToPending, ~AttemptFailed'
                 PROVE  PendingMeansConnecting'
    BY <1>3 DEF StuckOnlyAfterFailure, PendingMeansConnecting
  <2>2. c # "failed" /\ ~AttemptFailed
    BY <1>1, <1>2, <2>1 DEF AttemptFailed, TypeOK, Establish, Close
  <2>3. CASE \E g \in Mail : conn[g] = "connecting"
    <3>1. PICK g \in Mail : conn[g] = "connecting"
      BY <2>3
    <3>2. CASE g = f
      BY <1>2, <1>4, <2>2, <3>1, <3>2, AppendEvent DEF PendingMeansConnecting
    <3>3. CASE g # f
      BY <1>1, <1>2, <3>1, <3>3 DEF PendingMeansConnecting, TypeOK
    <3> QED BY <3>2, <3>3
  <2>4. CASE \E i \in DOMAIN events : events[i].type = "connected"
    BY <1>2, <1>4, <2>4, AppendEvent DEF PendingMeansConnecting
  <2>5. CASE callback.phase = "connected"
    BY <1>3, <2>5 DEF PendingMeansConnecting
  <2> QED BY <2>1, <2>2, <2>3, <2>4, <2>5 DEF StuckOnlyAfterFailure, PendingMeansConnecting
<1> QED BY <1>5, <1>6, <1>7

\* A step that leaves the connections, the events, the flag and the callback of a new
\* connection alone keeps the invariant.
LEMMA ElsewhereIInv ==
    ASSUME IInv, TypeOK', UNCHANGED <<conn, events>>,
           m_bConnectToPending' => m_bConnectToPending,
           ~m_bConnectToPending' \/ callback'.phase = callback.phase
              \/ callback.phase # "connected",
           \A m \in Mail : step'[m] \in {"new", "save", "saved", "connect"} =>
                              step[m] \in {"new", "save", "saved", "connect"}
    PROVE  IInv'
  BY DEF IInv, NotOpenedYet, StuckOnlyAfterFailure, PendingMeansConnecting, AttemptFailed

\* sendMail raises the flag only with an attempt to connect.
LEMMA SendMailIInv ==
    ASSUME IInv, NEW m \in Mail, sendMail(m)
    PROVE  IInv'
<1> USE DEF network, flags
<1>1. TypeOK /\ NotOpenedYet
  BY DEF IInv
<1>2. CASE LookAtConnection(m) \/ LookAtConnectToPending(m)
  <2>1. TypeOK'
    BY <1>1, <1>2 DEF LookAtConnection, LookAtConnectToPending, TypeOK, Step
  <2> QED BY <1>1, <1>2, <2>1, ElsewhereIInv
    DEF LookAtConnection, LookAtConnectToPending, TypeOK
<1>3. CASE SaveMail(m)
  <2>1. Append(m_oPendingMails, m) \in Seq(Mail)
    BY <1>1 DEF TypeOK
  <2>2. TypeOK'
    BY <1>1, <1>3, <2>1 DEF SaveMail, TypeOK, Step
  <2> QED BY <1>1, <1>3, <2>2, ElsewhereIInv DEF SaveMail, TypeOK
<1>4. CASE ConnectTo(m)
  <2>1. PICK c \in {"connecting", "failed"} : conn' = [conn EXCEPT ![m] = c]
    BY <1>4 DEF ConnectTo
  <2>2. TypeOK'
    <3>1. conn' \in [Mail -> Conn] /\ step' \in [Mail -> Step]
      BY <1>1, <1>4, <2>1 DEF ConnectTo, TypeOK, Conn, Step
    <3> QED BY <1>1, <1>4, <3>1 DEF ConnectTo, TypeOK
  <2>3. NotOpenedYet'
    BY <1>1, <1>4, <2>1 DEF ConnectTo, NotOpenedYet, TypeOK
  <2>4. conn'[m] \in {"connecting", "failed"}
    BY <1>1, <2>1 DEF TypeOK
  <2>5. StuckOnlyAfterFailure'
    BY <2>4 DEF StuckOnlyAfterFailure, PendingMeansConnecting, AttemptFailed
  <2> QED BY <2>2, <2>3, <2>5 DEF IInv
<1>5. CASE ComposeMail(m)
  <2>1. m_pTempBuffPtr' \in Text /\ sendFailed' \in BOOLEAN /\ step' \in [Mail -> Step]
    BY <1>1, <1>5, ComposeType DEF ComposeMail, TypeOK, Step
  <2>2. TypeOK'
    BY <1>1, <1>5, <2>1 DEF ComposeMail, TypeOK
  <2> QED BY <1>1, <1>5, <2>2, ElsewhereIInv DEF ComposeMail, TypeOK
<1>6. CASE WriteMail(m)
  <2>1. wire' \in [Mail -> Seq(Text)] /\ sendFailed' \in BOOLEAN
    BY <1>1, <1>6, SendDataType DEF WriteMail
  <2>2. TypeOK'
    BY <1>1, <1>6, <2>1 DEF WriteMail, TypeOK, Step
  <2> QED BY <1>1, <1>6, <2>2, ElsewhereIInv DEF WriteMail, TypeOK
<1> QED BY <1>2, <1>3, <1>4, <1>5, <1>6 DEF sendMail

\* The transport's thread takes the flag down when a connection is up or gone, and until
\* then keeps the event or the callback that will.
LEMMA TransportIInv ==
    ASSUME IInv, Transport
    PROVE  IInv'
<1> USE DEF network, flags
<1>1. TypeOK /\ NotOpenedYet /\ events \in Seq(Event)
  BY DEF IInv, TypeOK
<1>0. /\ Idle \in Callback
      /\ \A p \in {"drain", "write"} : [callback EXCEPT !.phase = p] \in Callback
  <2>1. callback \in Callback
    BY <1>1 DEF TypeOK
  <2> QED BY <2>1 DEF Callback, Idle
<1>2. CASE OnConnected \/ OnClosed
  <2>1. /\ events # <<>> /\ events' = Tail(events) /\ callback = Idle
        /\ OnConnected => Head(events).type = "connected"
        /\ OnClosed => Head(events).type = "closed"
    BY <1>2 DEF OnConnected, OnClosed, Delivers
  <2>2. Tail(events) \in Seq(Event) /\ Head(events).fd \in Mail
    BY <1>1, <2>1, TailEvents DEF Event
  <2>3. callback' \in Callback /\ m_Peers' \subseteq Mail
    BY <1>1, <1>2, <2>2 DEF OnConnected, OnClosed, TypeOK, Callback
  <2>4. TypeOK'
    BY <1>1, <1>2, <2>1, <2>2, <2>3 DEF OnConnected, OnClosed, TypeOK
  <2>5. NotOpenedYet'
    BY <1>1, <1>2 DEF OnConnected, OnClosed, NotOpenedYet
  <2>6. StuckOnlyAfterFailure'
    <3>1. UNCHANGED <<conn, m_bConnectToPending>>
      BY <1>2 DEF OnConnected, OnClosed
    <3>2. CASE OnConnected
      BY <3>2 DEF OnConnected, StuckOnlyAfterFailure, PendingMeansConnecting
    <3>3. CASE OnClosed
      <4>1. \A i \in DOMAIN events : events[i].type = "connected" =>
               \E j \in DOMAIN Tail(events) : Tail(events)[j].type = "connected"
        BY <1>1, <2>1, <3>3, TailEvents
      <4> QED BY <2>1, <3>1, <4>1
        DEF IInv, StuckOnlyAfterFailure, PendingMeansConnecting, AttemptFailed, Idle
    <3> QED BY <1>2, <3>2, <3>3
  <2> QED BY <2>4, <2>5, <2>6 DEF IInv
<1>3. CASE StateConnected \/ StateClosed
  <2>1. callback' \in Callback /\ m_nConnectedFd' \in Mail \cup {NoMail}
    BY <1>1, <1>3 DEF StateConnected, StateClosed, TypeOK, Callback, Idle
  <2>2. m_bConnectToPending' = FALSE /\ UNCHANGED <<conn, events, step>>
    BY <1>3 DEF StateConnected, StateClosed
  <2>3. m_bNeedToAuthenticate' \in BOOLEAN
    <3>1. m_bNeedToAuthenticate' = m_bNeedToAuthenticate \/ m_bNeedToAuthenticate' = TRUE
      BY <1>3 DEF StateConnected, StateClosed
    <3> QED BY <1>1, <3>1 DEF TypeOK
  <2>4. TypeOK'
    BY <1>1, <1>3, <2>1, <2>2, <2>3 DEF StateConnected, StateClosed, TypeOK
  <2> QED BY <2>2, <2>4, ElsewhereIInv
<1>4. CASE DrainNext
  <2>1. callback' \in Callback
    BY <1>0, <1>4 DEF DrainNext
  <2>2. m_oPendingMails' \in Seq(Mail) /\ m_pTempBuffPtr' \in Text
    <3>1. CASE m_oPendingMails = <<>>
      BY <1>1, <1>4, <3>1 DEF DrainNext, TypeOK
    <3>2. CASE m_oPendingMails # <<>>
      <4>1. Tail(m_oPendingMails) \in Seq(Mail) /\ Head(m_oPendingMails) \in Mail
        BY <1>1, <3>2 DEF TypeOK
      <4>2. m_oPendingMails' = Tail(m_oPendingMails) /\ Compose(Head(m_oPendingMails))
        BY <1>4, <3>2 DEF DrainNext
      <4> QED BY <1>1, <4>1, <4>2, ComposeType
    <3> QED BY <3>1, <3>2
  <2>3. TypeOK'
    BY <1>1, <1>4, <2>1, <2>2 DEF DrainNext, TypeOK
  <2> QED BY <1>4, <2>3, ElsewhereIInv DEF DrainNext
<1>5. CASE DrainWrite
  <2>1. wire' \in [Mail -> Seq(Text)] /\ sendFailed' \in BOOLEAN
    BY <1>1, <1>5, SendDataType DEF DrainWrite
  <2>2. callback' \in Callback
    BY <1>0, <1>5 DEF DrainWrite
  <2>3. m_bNeedToAuthenticate' \in BOOLEAN
    BY <1>1, <1>5 DEF DrainWrite, TypeOK
  <2>4. TypeOK'
    BY <1>1, <1>5, <2>1, <2>2, <2>3 DEF DrainWrite, TypeOK
  <2> QED BY <1>5, <2>4, ElsewhereIInv DEF DrainWrite
<1> QED BY <1>2, <1>3, <1>4, <1>5 DEF Transport

\* Every step keeps the invariant.
LEMMA NextIInv == IInv /\ [Next]_vars => IInv'
<1> SUFFICES ASSUME IInv, [Next]_vars PROVE IInv'
  OBVIOUS
<1>1. CASE UNCHANGED vars
  BY <1>1 DEF vars, network, flags, IInv, TypeOK, NotOpenedYet, StuckOnlyAfterFailure,
              PendingMeansConnecting, AttemptFailed
<1> QED BY <1>1, TransportIInv, SendMailIInv, NetworkIInv DEF Next

\* The inductive invariant holds in every state of every run.
THEOREM MailInvariance == Spec => []IInv
<1> QED BY InitIInv, NextIInv, PTL DEF Spec

\* The transport's fields keep their types, whoever writes them when.
THEOREM MailTypes == Spec => []TypeOK
<1>1. IInv => TypeOK
  BY DEF IInv
<1> QED BY <1>1, MailInvariance, PTL

\* As long as no attempt to connect fails, m_bConnectToPending says that a connection is
\* on its way only when one is: neither callers that connect at the same time nor the
\* end of a connection leave it up.
THEOREM PendingIsTrue == Spec => []StuckOnlyAfterFailure
<1>1. IInv => StuckOnlyAfterFailure
  BY DEF IInv
<1> QED BY <1>1, MailInvariance, PTL

=============================================================================
