---------------------------- MODULE RecaptchaProofs ----------------------------
(***************************************************************************)
(* A verdict is given to the wrong request only after a connection was opened  *)
(* on a descriptor that the gateway still referred to, for any number of        *)
(* requests and descriptors, however their connections fail, their replies are   *)
(* cut and their descriptors are reused.  (The run recaptcha_reuse shows the      *)
(* exception.)                                                                 *)
(*                                                                         *)
(* The argument follows the descriptor.  Requests that had it one after the       *)
(* other are done but for one (OwnFd); the table has that request for it           *)
(* (TableInv), its connection carries that request alone (HeardInv), and so a       *)
(* reply that comes back on it is about it (ReplyInv).                              *)
(***************************************************************************)
EXTENDS Recaptcha, TLAPS

\* A request that is under way has a descriptor, and so has the callback.
HasFd ==
    /\ \A r \in Request : step[r] = "new" => fd[r] = NoFd
    /\ \A r \in Request :
          step[r] \notin {"new", "returned"} \/ link[r] # "none" => fd[r] \in Fd
    /\ callback.phase \in {"connected", "closed"} => callback.fd \in Fd

\* Nothing of the request is left: neither validate, nor connection, nor entry.
Done(q) == /\ step[q] = "returned" /\ link[q] \in {"none", "closed"}
           /\ m_Recaptchas[fd[q]] # q

\* Of two requests that had the same descriptor one is done.
OwnFd == \A q, r \in Request : fd[q] = fd[r] /\ fd[q] \in Fd /\ q # r => Done(q) \/ Done(r)

\* The table has a request under its own descriptor only.
TableInv == \A f \in Fd : m_Recaptchas[f] # NoRequest => fd[m_Recaptchas[f]] = f

\* A connection carries the request it was opened for.
HeardInv == \A r \in Request : \A i \in DOMAIN heard[r] : heard[r][i] = r

\* f was opened for r, and what else had it is done.
LastHad(r, f) == fd[r] = f /\ \A q \in Request : q # r /\ fd[q] = f => Done(q)

\* A success is reported on a descriptor that a genuine request had last.
ReplyInv ==
    \A i \in DOMAIN events : events[i].type = "data" /\ events[i].success =>
        \E r \in Genuine : LastHad(r, events[i].fd)

TypeInv == TypeOK /\ HasFd

Own == OwnFd /\ TableInv /\ HeardInv /\ ReplyInv /\ OnlyGenuineAccepted

IInv == TypeInv /\ (reopened \/ Own)

\* An event that is queued is one more; the others stay.
LEMMA AppendEvent ==
    ASSUME NEW s \in Seq(Event), NEW e \in Event
    PROVE  /\ Append(s, e) \in Seq(Event)
           /\ \A i \in DOMAIN Append(s, e) :
                 Append(s, e)[i] = e \/ (i \in DOMAIN s /\ Append(s, e)[i] = s[i])
  OBVIOUS

\* The events behind the first were queued before.
LEMMA TailEvents ==
    ASSUME NEW s \in Seq(Event), s # <<>>
    PROVE  /\ Tail(s) \in Seq(Event) /\ Head(s) \in Event
           /\ 1 \in DOMAIN s /\ Head(s) = s[1]
           /\ \A i \in DOMAIN Tail(s) : i + 1 \in DOMAIN s /\ Tail(s)[i] = s[i + 1]
  OBVIOUS

\* Nothing is open, known or queued at the start.
LEMMA InitIInv == Init => IInv
<1> SUFFICES ASSUME Init PROVE IInv
  OBVIOUS
<1>1. step \in [Request -> Step] /\ link \in [Request -> Link] /\ callback \in Callback
  BY DEF Init, Step, Link, Callback, Idle
<1>2. /\ heard \in [Request -> Seq(Request)] /\ outcome \in [Request -> Seq(BOOLEAN)]
      /\ events \in Seq(Event) /\ fd \in [Request -> Fd \cup {NoFd}]
      /\ m_Recaptchas \in [Fd -> Request \cup {NoRequest}]
  BY DEF Init
<1>3. TypeOK
  BY <1>1, <1>2 DEF Init, TypeOK
<1>4. HasFd
  BY DEF Init, HasFd, Idle
<1>5. OwnFd
  BY NothingAssumption DEF Init, OwnFd
<1>6. TableInv /\ HeardInv /\ ReplyInv /\ OnlyGenuineAccepted
  BY DEF Init, TableInv, HeardInv, ReplyInv, OnlyGenuineAccepted
<1> QED BY <1>3, <1>4, <1>5, <1>6 DEF IInv, TypeInv, Own

-----------------------------------------------------------------------------
(* The types.                                                                *)

\* What is written is the token of a request.
LEMMA WriteTypes ==
    ASSUME heard \in [Request -> Seq(Request)], NEW q \in Request, NEW f, Write(f, q)
    PROVE  heard' \in [Request -> Seq(Request)]
<1>1. ASSUME NEW r \in Request PROVE Append(heard[r], q) \in Seq(Request) /\ heard[r] \in Seq(Request)
  OBVIOUS
<1> QED BY <1>1 DEF Write

\* What happens to a connection, and what is reported of it.
LEMMA NetworkFacts ==
    ASSUME TypeInv, NEW r \in Request, Establish(r) \/ Reply(r) \/ Close(r)
    PROVE  /\ fd[r] \in Fd /\ link[r] \in InUse
           /\ \E l \in Link \ {"none"}, e \in Event :
                 /\ link' = [link EXCEPT ![r] = l] /\ events' = Append(events, e) /\ e.fd = fd[r]
                 /\ e.type = "data" /\ e.success =>
                       heard[r] # <<>> /\ Head(heard[r]) \in Genuine
           /\ UNCHANGED <<step, fd, heard, m_Peers, m_Recaptchas, callback, outcome, unread, reopened>>
<1> USE DEF callers, tables, results
<1>1. fd[r] \in Fd /\ link[r] \in InUse
  BY DEF TypeInv, HasFd, Establish, Reply, Close, InUse
<1>2. CASE Establish(r)
  <2>1. [type |-> "connected", fd |-> fd[r]] \in Event
    BY <1>1 DEF Event
  <2> QED BY <1>1, <1>2, <2>1 DEF Establish, Report, Link
<1>3. CASE Close(r)
  <2>1. [type |-> "closed", fd |-> fd[r]] \in Event
    BY <1>1 DEF Event
  <2> QED BY <1>1, <1>3, <2>1 DEF Close, Report, Link
<1>4. CASE Reply(r)
  <2>1. PICK form \in Framing :
           events' = Append(events, [type |-> "data", fd |-> fd[r],
                                     success |-> Head(heard[r]) \in Genuine, form |-> form])
    BY <1>4 DEF Reply
  <2> DEFINE e == [type |-> "data", fd |-> fd[r],
                   success |-> Head(heard[r]) \in Genuine, form |-> form]
  <2>2. form \in ReplyForm /\ (Head(heard[r]) \in Genuine) \in BOOLEAN
    BY FramingAssumption
  <2>3. e \in Event
    BY <1>1, <2>2 DEF Event
  <2>4. e.fd = fd[r] /\ (e.success => Head(heard[r]) \in Genuine)
    OBVIOUS
  <2>5. /\ link' = [link EXCEPT ![r] = "answered"] /\ "answered" \in Link \ {"none"}
        /\ heard[r] # <<>>
        /\ UNCHANGED <<step, fd, heard, m_Peers, m_Recaptchas, callback, outcome, unread, reopened>>
    BY <1>4 DEF Reply, Link
  <2> HIDE DEF e
  <2>6. events' = Append(events, e)
    BY <2>1 DEF e
  <2> QED BY <1>1, <2>3, <2>4, <2>5, <2>6
<1> QED BY <1>2, <1>3, <1>4

LEMMA NetworkTypes ==
    ASSUME TypeInv, NEW r \in Request, Establish(r) \/ Reply(r) \/ Close(r)
    PROVE  TypeInv'
<1>1. PICK l \in Link \ {"none"}, e \in Event :
         link' = [link EXCEPT ![r] = l] /\ events' = Append(events, e)
  BY NetworkFacts
<1>2. /\ fd[r] \in Fd
      /\ UNCHANGED <<step, fd, heard, m_Peers, m_Recaptchas, callback, outcome, unread, reopened>>
  BY NetworkFacts
<1>3. events \in Seq(Event) /\ link \in [Request -> Link]
  BY DEF TypeInv, TypeOK
<1>4. events' \in Seq(Event) /\ link' \in [Request -> Link]
  BY <1>1, <1>3, AppendEvent
<1>5. TypeOK'
  BY <1>2, <1>4 DEF TypeInv, TypeOK
<1>6. HasFd'
  BY <1>1, <1>2, <1>3 DEF TypeInv, HasFd
<1> QED BY <1>5, <1>6 DEF TypeInv

LEMMA ValidateTypes ==
    ASSUME TypeInv, NEW r \in Request, validate(r)
    PROVE  TypeInv'
<1> USE DEF network, tables, results
<1>1. TypeOK /\ HasFd
  BY DEF TypeInv
<1>2. CASE connectTo(r)
  <2>1. UNCHANGED <<heard, events, m_Peers, m_Recaptchas, callback, outcome, unread>>
    BY <1>2 DEF connectTo
  <2>2. CASE /\ fd' = fd /\ link' = link /\ reopened' = reopened
             /\ step' = [step EXCEPT ![r] = "returned"]
    <3>1. step' \in [Request -> Step]
      BY <1>1, <2>2 DEF TypeOK, Step
    <3>2. TypeOK'
      BY <1>1, <2>1, <2>2, <3>1 DEF TypeOK
    <3>3. HasFd'
      BY <1>1, <2>1, <2>2 DEF HasFd, TypeOK
    <3> QED BY <3>2, <3>3 DEF TypeInv
  <2>3. ASSUME NEW f \in Fd, fd' = [fd EXCEPT ![r] = f], link' = [link EXCEPT ![r] = "connecting"],
               step' = [step EXCEPT ![r] = "opened"], reopened' = (reopened \/ Remembered(f))
        PROVE  TypeInv'
    <3>1. /\ fd' \in [Request -> Fd \cup {NoFd}] /\ link' \in [Request -> Link]
          /\ step' \in [Request -> Step]
      BY <1>1, <2>3 DEF TypeOK, Link, Step
    <3>2. reopened' \in BOOLEAN
      BY <2>3
    <3>3. TypeOK'
      BY <1>1, <2>1, <3>1, <3>2 DEF TypeOK
    <3>4. HasFd'
      BY <1>1, <2>1, <2>3 DEF HasFd, TypeOK
    <3> QED BY <3>3, <3>4 DEF TypeInv
  <2>4. \/ /\ fd' = fd /\ link' = link /\ reopened' = reopened
           /\ step' = [step EXCEPT ![r] = "returned"]
        \/ \E f \in Fd : /\ fd' = [fd EXCEPT ![r] = f] /\ link' = [link EXCEPT ![r] = "connecting"]
                         /\ step' = [step EXCEPT ![r] = "opened"]
                         /\ reopened' = (reopened \/ Remembered(f))
    BY <1>2, Zenon DEF connectTo
  <2> QED BY <2>2, <2>3, <2>4
<1>3. CASE insertRecaptcha(r)
  <2>1. /\ fd[r] \in Fd /\ step' = [step EXCEPT ![r] = "inserted"]
        /\ m_Recaptchas' = [m_Recaptchas EXCEPT ![fd[r]] = IF @ = NoRequest THEN r ELSE @]
        /\ UNCHANGED <<fd, link, heard, events, m_Peers, callback, outcome, unread, reopened>>
    BY <1>1, <1>3 DEF insertRecaptcha, HasFd
  <2>2. /\ step' \in [Request -> Step] /\ m_Recaptchas' \in [Fd -> Request \cup {NoRequest}]
    BY <1>1, <2>1 DEF TypeOK, Step
  <2>3. TypeOK'
    BY <1>1, <2>1, <2>2 DEF TypeOK
  <2>4. HasFd'
    BY <1>1, <2>1 DEF HasFd, TypeOK
  <2> QED BY <2>3, <2>4 DEF TypeInv
<1>4. CASE isConnected(r) \/ sendRecaptcha(r) \/ sendData(r)
  <2>1. /\ fd[r] \in Fd /\ \E s \in Step \ {"new"} : step' = [step EXCEPT ![r] = s]
        /\ UNCHANGED <<fd, link, events, m_Peers, m_Recaptchas, callback, outcome, unread, reopened>>
    BY <1>1, <1>4 DEF isConnected, sendRecaptcha, sendData, HasFd, Step
  <2>2. heard' \in [Request -> Seq(Request)]
    BY <1>1, <1>4, WriteTypes DEF isConnected, sendRecaptcha, sendData, TypeOK
  <2>3. step' \in [Request -> Step]
    BY <1>1, <2>1 DEF TypeOK
  <2>4. TypeOK'
    BY <1>1, <2>1, <2>2, <2>3 DEF TypeOK
  <2>5. HasFd'
    BY <1>1, <2>1 DEF HasFd, TypeOK
  <2> QED BY <2>4, <2>5 DEF TypeInv
<1> QED BY <1>2, <1>3, <1>4 DEF validate

\* The event that the transport's thread takes.
LEMMA DeliversFacts ==
    ASSUME TypeInv, NEW type, Delivers(type)
    PROVE  /\ events' \in Seq(Event) /\ events \in Seq(Event) /\ events # <<>> /\ events' = Tail(events)
           /\ Head(events) \in Event /\ Head(events).fd \in Fd /\ Head(events).type = type
<1>1. /\ events \in Seq(Event) /\ events # <<>> /\ events' = Tail(events)
      /\ Head(events).type = type
  BY DEF TypeInv, TypeOK, Delivers
<1> QED BY <1>1, TailEvents DEF Event

LEMMA TransportTypes ==
    ASSUME TypeInv, Transport
    PROVE  TypeInv'
<1> USE DEF callers, network, tables, results
<1>1. TypeOK /\ HasFd
  BY DEF TypeInv
<1>2. CASE OnConnected \/ OnClosed
  <2>1. /\ UNCHANGED <<step, fd, link, heard, m_Recaptchas, outcome, unread, reopened>>
        /\ Delivers("connected") \/ Delivers("closed")
    BY <1>2 DEF OnConnected, OnClosed
  <2>2. events' \in Seq(Event) /\ Head(events).fd \in Fd
    BY <2>1, DeliversFacts
  <2>3. /\ callback' \in Callback /\ m_Peers' \subseteq Fd
        /\ callback'.phase \in {"connected", "closed"} => callback'.fd \in Fd
    BY <1>1, <1>2, <2>2 DEF OnConnected, OnClosed, TypeOK, HasFd, Callback
  <2> QED BY <1>1, <2>1, <2>2, <2>3 DEF TypeInv, TypeOK, HasFd
<1>3. CASE SendWhenConnected
  <2>1. /\ UNCHANGED <<step, fd, link, events, m_Peers, m_Recaptchas, outcome, unread, reopened>>
        /\ callback' = Idle /\ callback.fd \in Fd
    BY <1>1, <1>3 DEF SendWhenConnected, HasFd
  <2>2. heard' \in [Request -> Seq(Request)]
    <3>1. CASE m_Recaptchas[callback.fd] = NoRequest
      BY <1>1, <1>3, <3>1 DEF SendWhenConnected, TypeOK
    <3>2. CASE m_Recaptchas[callback.fd] # NoRequest
      <4>1. /\ m_Recaptchas[callback.fd] \in Request
            /\ Write(callback.fd, m_Recaptchas[callback.fd])
        BY <1>1, <1>3, <2>1, <3>2 DEF SendWhenConnected, TypeOK
      <4> QED BY <1>1, <4>1, WriteTypes DEF TypeOK
    <3> QED BY <3>1, <3>2
  <2>3. callback' \in Callback /\ callback'.phase = "none"
    BY <2>1 DEF Callback, Idle
  <2> QED BY <1>1, <2>1, <2>2, <2>3 DEF TypeInv, TypeOK, HasFd
<1>4. CASE removeRecaptcha
  <2>1. /\ UNCHANGED <<step, fd, link, heard, events, m_Peers, outcome, unread, reopened>>
        /\ callback' = Idle
        /\ m_Recaptchas' = [m_Recaptchas EXCEPT ![callback.fd] = NoRequest]
    BY <1>4 DEF removeRecaptcha
  <2>2. m_Recaptchas' \in [Fd -> Request \cup {NoRequest}]
    BY <1>1, <2>1 DEF TypeOK
  <2>3. callback' \in Callback /\ callback'.phase = "none"
    BY <2>1 DEF Callback, Idle
  <2> QED BY <1>1, <2>1, <2>2, <2>3 DEF TypeInv, TypeOK, HasFd
<1>5. CASE OnData
  <2> DEFINE reply == Head(events)
             q     == m_Recaptchas[reply.fd]
  <2>1. /\ UNCHANGED <<step, fd, link, heard, m_Peers, m_Recaptchas, callback, reopened>>
        /\ Delivers("data")
    BY <1>5 DEF OnData
  <2>2. events' \in Seq(Event) /\ reply \in Event /\ reply.fd \in Fd /\ reply.type = "data"
    BY <2>1, DeliversFacts
  <2>3. outcome' \in [Request -> Seq(BOOLEAN)] /\ unread' \subseteq Request
    <3>1. CASE outcome' = outcome /\ (unread' = unread \/ (q # NoRequest /\ unread' = unread \cup {q}))
      BY <1>1, <2>2, <3>1 DEF TypeOK
    <3>2. CASE /\ q # NoRequest /\ unread' = unread
               /\ outcome' = [outcome EXCEPT ![q] = Append(@, Verdict(reply))]
      <4>1. q \in Request /\ outcome[q] \in Seq(BOOLEAN)
        BY <1>1, <2>2, <3>2 DEF TypeOK
      <4>2. Verdict(reply) \in BOOLEAN
        BY <2>2, Zenon DEF Verdict
      <4> DEFINE v == Verdict(reply)
                 s == outcome[q]
      <4> HIDE DEF v, s
      <4>3. Append(s, v) \in Seq(BOOLEAN)
        BY <4>1, <4>2 DEF v, s
      <4>4. outcome' = [outcome EXCEPT ![q] = Append(s, v)]
        BY <3>2 DEF v, s
      <4> QED BY <1>1, <3>2, <4>1, <4>3, <4>4 DEF TypeOK
    <3> QED BY <1>5, <3>1, <3>2 DEF OnData
  <2> QED BY <1>1, <2>1, <2>2, <2>3 DEF TypeInv, TypeOK, HasFd
<1> QED BY <1>2, <1>3, <1>4, <1>5 DEF Transport

LEMMA NextTypes == TypeInv /\ [Next]_vars => TypeInv'
<1> SUFFICES ASSUME TypeInv, [Next]_vars PROVE TypeInv'
  OBVIOUS
<1>1. CASE UNCHANGED vars
  BY <1>1 DEF vars, callers, network, tables, results, TypeInv, TypeOK, HasFd
<1> QED BY <1>1, TransportTypes, ValidateTypes, NetworkTypes DEF Next

-----------------------------------------------------------------------------
(* Whose descriptor it is.                                                    *)

\* What is written on a descriptor for a request that is not done is heard by the connection
\* of that request alone.
LEMMA WriteStep ==
    ASSUME TypeInv, OwnFd, HeardInv, NEW q \in Request, NEW f \in Fd, fd[q] = f, ~Done(q), Write(f, q)
    PROVE  \A r \in Request : \A i \in DOMAIN heard'[r] : heard'[r][i] = r
<1> SUFFICES ASSUME NEW r \in Request PROVE \A i \in DOMAIN heard'[r] : heard'[r][i] = r
  OBVIOUS
<1>1. heard[r] \in Seq(Request) /\ \A i \in DOMAIN heard[r] : heard[r][i] = r
  BY DEF HeardInv, TypeInv, TypeOK
<1>2. CASE heard'[r] = heard[r]
  BY <1>1, <1>2
<1>3. CASE heard'[r] # heard[r]
  <2>1. fd[r] = f /\ link[r] \in {"up", "answered"} /\ heard'[r] = Append(heard[r], q)
    BY <1>3 DEF Write
  <2>2. ~Done(r)
    BY <2>1 DEF Done
  <2>3. r = q
    BY <2>1, <2>2 DEF OwnFd
  <2>4. \A i \in DOMAIN Append(heard[r], q) :
           Append(heard[r], q)[i] = q \/ (i \in DOMAIN heard[r] /\ Append(heard[r], q)[i] = heard[r][i])
    BY <1>1
  <2> QED BY <1>1, <2>1, <2>3, <2>4
<1> QED BY <1>2, <1>3

\* The entry of the table is not done.
LEMMA EntryNotDone ==
    ASSUME TypeInv, TableInv, NEW f \in Fd, NEW q, q = m_Recaptchas[f], q # NoRequest
    PROVE  q \in Request /\ fd[q] = f /\ ~Done(q)
BY DEF TypeInv, TypeOK, TableInv, Done

\* The descriptor of an open connection was opened for it last.
LEMMA NetworkOwn ==
    ASSUME TypeInv, Own, NEW r \in Request, Establish(r) \/ Reply(r) \/ Close(r)
    PROVE  Own'
<1>1. PICK l \in Link \ {"none"}, e \in Event :
         /\ link' = [link EXCEPT ![r] = l] /\ events' = Append(events, e) /\ e.fd = fd[r]
         /\ e.type = "data" /\ e.success => heard[r] # <<>> /\ Head(heard[r]) \in Genuine
  BY NetworkFacts
<1>2. /\ fd[r] \in Fd /\ link[r] \in InUse
      /\ UNCHANGED <<step, fd, heard, m_Peers, m_Recaptchas, callback, outcome, unread, reopened>>
  BY NetworkFacts
<1>3. OwnFd /\ TableInv /\ HeardInv /\ ReplyInv /\ OnlyGenuineAccepted
  BY DEF Own
<1>4. events \in Seq(Event) /\ link \in [Request -> Link] /\ heard[r] \in Seq(Request)
  BY DEF TypeInv, TypeOK
<1>5. ~Done(r)
  BY <1>2 DEF Done, InUse
<1>6. ASSUME NEW q \in Request, Done(q) PROVE Done(q)'
  BY <1>1, <1>2, <1>4, <1>5, <1>6 DEF Done
<1>7. OwnFd'
  BY <1>2, <1>3, <1>6 DEF OwnFd
<1>8. LastHad(r, fd[r])
  BY <1>2, <1>3, <1>5 DEF OwnFd, LastHad
<1>9. ASSUME NEW q, NEW f, LastHad(q, f) PROVE LastHad(q, f)'
  BY <1>2, <1>6, <1>9 DEF LastHad
<1>10. e.type = "data" /\ e.success => r \in Genuine
  <2>1. heard[r] # <<>> => 1 \in DOMAIN heard[r] /\ Head(heard[r]) = heard[r][1]
    BY <1>4
  <2> QED BY <1>1, <1>3, <2>1 DEF HeardInv
<1>11. ReplyInv'
  <2> SUFFICES ASSUME NEW i \in DOMAIN events', events'[i].type = "data", events'[i].success,
                      NEW f, f = events'[i].fd
               PROVE  \E q \in Genuine : LastHad(q, f)'
    BY DEF ReplyInv, LastHad
  <2>1. CASE events'[i] = e
    <3>1. f = fd[r] /\ r \in Genuine
      BY <1>1, <1>10, <2>1
    <3> QED BY <1>8, <1>9, <3>1
  <2>2. CASE i \in DOMAIN events /\ events'[i] = events[i]
    <3>1. PICK q \in Genuine : LastHad(q, f)
      BY <1>3, <2>2 DEF ReplyInv
    <3> QED BY <1>9, <2>2, <3>1
  <2> QED BY <1>1, <1>4, <2>1, <2>2, AppendEvent
<1>12. TableInv' /\ HeardInv' /\ OnlyGenuineAccepted'
  BY <1>2, <1>3 DEF TableInv, HeardInv, OnlyGenuineAccepted
<1> QED BY <1>7, <1>11, <1>12 DEF Own

\* validate takes a descriptor that nothing refers to any more, and uses its own.
LEMMA ValidateOwn ==
    ASSUME TypeInv, Own, ~reopened', NEW r \in Request, validate(r)
    PROVE  Own'
<1> USE DEF network, tables, results
<1>1. /\ TypeOK /\ HasFd /\ OwnFd /\ TableInv /\ HeardInv /\ ReplyInv /\ OnlyGenuineAccepted
  BY DEF Own, TypeInv
<1>2. CASE connectTo(r)
  <2>1. /\ UNCHANGED <<heard, events, m_Peers, m_Recaptchas, callback, outcome, unread>>
        /\ step[r] = "new" /\ fd[r] = NoFd /\ fd[r] \notin Fd
    BY <1>1, <1>2, NothingAssumption DEF connectTo, HasFd
  <2>2. CASE fd' = fd /\ link' = link /\ step' = [step EXCEPT ![r] = "returned"]
    <3>1. ASSUME NEW q \in Request, Done(q) PROVE Done(q)'
      BY <1>1, <2>1, <2>2, <3>1 DEF Done, TypeOK
    <3>2. OwnFd'
      BY <1>1, <2>2, <3>1 DEF OwnFd
    <3>3. ReplyInv'
      BY <1>1, <2>1, <2>2, <3>1 DEF ReplyInv, LastHad
    <3> QED BY <1>1, <2>1, <2>2, <3>2, <3>3 DEF Own, TableInv, HeardInv, OnlyGenuineAccepted
  <2>3. ASSUME NEW f \in Fd, \A q \in Request : link[q] \in InUse => fd[q] # f,
               fd' = [fd EXCEPT ![r] = f], link' = [link EXCEPT ![r] = "connecting"],
               step' = [step EXCEPT ![r] = "opened"], ~Remembered(f)
        PROVE  Own'
    <3>1. \A q \in Request : /\ fd'[q] = IF q = r THEN f ELSE fd[q]
                             /\ step'[q] = IF q = r THEN "opened" ELSE step[q]
                             /\ link'[q] = IF q = r THEN "connecting" ELSE link[q]
      BY <1>1, <2>3 DEF TypeOK
    <3>2. ASSUME NEW q \in Request, q # r, Done(q) PROVE Done(q)'
      BY <2>1, <3>1, <3>2 DEF Done
    <3>3. ASSUME NEW q \in Request, q # r, fd[q] = f PROVE Done(q)
      <4>1. step[q] = "returned" /\ m_Recaptchas[f] = NoRequest
        BY <2>3, <3>3 DEF Remembered
      <4>2. link[q] \in {"none", "closed"}
        BY <1>1, <2>3, <3>3 DEF TypeOK, Link, InUse
      <4> QED BY <3>3, <4>1, <4>2, NothingAssumption DEF Done
    <3>4. OwnFd'
      <4> SUFFICES ASSUME NEW q \in Request, NEW x \in Request, fd'[q] = fd'[x], fd'[q] \in Fd, q # x
                   PROVE  Done(q)' \/ Done(x)'
        BY DEF OwnFd
      <4>1. CASE q = r
        BY <3>1, <3>2, <3>3, <4>1
      <4>2. CASE x = r
        BY <3>1, <3>2, <3>3, <4>2
      <4>3. CASE q # r /\ x # r
        BY <1>1, <3>1, <3>2, <4>3 DEF OwnFd
      <4> QED BY <4>1, <4>2, <4>3
    <3>5. TableInv'
      BY <1>1, <2>1, <3>1 DEF TableInv, TypeOK
    <3>6. ReplyInv'
      <4> SUFFICES ASSUME NEW i \in DOMAIN events, events[i].type = "data", events[i].success,
                          NEW g, g = events[i].fd
                   PROVE  \E q \in Genuine : LastHad(q, g)'
        BY <2>1 DEF ReplyInv, LastHad
      <4>1. PICK q \in Genuine : LastHad(q, g)
        BY <1>1 DEF ReplyInv
      <4>2. g # f /\ g \in Fd
        BY <1>1, <2>3 DEF Remembered, TypeOK, Event
      <4>3. q \in Request /\ q # r
        BY <2>1, <4>1, <4>2, GenuineAssumption DEF LastHad
      <4>4. LastHad(q, g)'
        BY <2>1, <3>1, <3>2, <4>1, <4>2, <4>3 DEF LastHad
      <4> QED BY <4>4
    <3> QED BY <1>1, <2>1, <3>4, <3>5, <3>6 DEF Own, HeardInv, OnlyGenuineAccepted
  <2> QED BY <1>2, <2>2, <2>3 DEF connectTo
<1>3. CASE insertRecaptcha(r)
  <2>1. /\ fd[r] \in Fd /\ step[r] = "opened" /\ step' = [step EXCEPT ![r] = "inserted"]
        /\ m_Recaptchas' = [m_Recaptchas EXCEPT ![fd[r]] = IF @ = NoRequest THEN r ELSE @]
        /\ UNCHANGED <<fd, link, heard, events, m_Peers, callback, outcome, unread>>
    BY <1>1, <1>3 DEF insertRecaptcha, HasFd
  <2>2. ASSUME NEW q \in Request, Done(q) PROVE Done(q)'
    <3>1. q # r /\ step'[q] = step[q]
      BY <1>1, <2>1, <2>2 DEF Done, TypeOK
    <3>2. m_Recaptchas'[fd[q]] \in {m_Recaptchas[fd[q]], r}
      BY <1>1, <2>1 DEF TypeOK
    <3> QED BY <2>1, <2>2, <3>1, <3>2 DEF Done
  <2>3. OwnFd'
    BY <1>1, <2>1, <2>2 DEF OwnFd
  <2>4. TableInv'
    BY <1>1, <2>1 DEF TableInv, TypeOK
  <2>5. ReplyInv'
    BY <1>1, <2>1, <2>2 DEF ReplyInv, LastHad
  <2> QED BY <1>1, <2>1, <2>3, <2>4, <2>5 DEF Own, HeardInv, OnlyGenuineAccepted
<1>4. CASE isConnected(r) \/ sendRecaptcha(r) \/ sendData(r)
  <2>1. /\ fd[r] \in Fd /\ step[r] # "returned" /\ \E s \in Step : step' = [step EXCEPT ![r] = s]
        /\ UNCHANGED <<fd, link, events, m_Peers, m_Recaptchas, callback, outcome, unread>>
    BY <1>1, <1>4 DEF isConnected, sendRecaptcha, sendData, HasFd, Step
  <2>2. ASSUME NEW q \in Request, Done(q) PROVE Done(q)'
    BY <1>1, <2>1, <2>2 DEF Done, TypeOK
  <2>3. HeardInv'
    <3>1. CASE heard' = heard
      BY <1>1, <3>1 DEF HeardInv
    <3>2. CASE Write(fd[r], r)
      <4>1. ~Done(r)
        BY <2>1 DEF Done
      <4> QED BY <1>1, <2>1, <3>2, <4>1, WriteStep DEF HeardInv
    <3> QED BY <1>4, <3>1, <3>2 DEF isConnected, sendRecaptcha, sendData
  <2>4. OwnFd'
    BY <1>1, <2>1, <2>2 DEF OwnFd
  <2>5. ReplyInv'
    BY <1>1, <2>1, <2>2 DEF ReplyInv, LastHad
  <2> QED BY <1>1, <2>1, <2>3, <2>4, <2>5 DEF Own, TableInv, OnlyGenuineAccepted
<1> QED BY <1>2, <1>3, <1>4 DEF validate

\* The transport's thread gives a verdict to the request whose descriptor it is about.
LEMMA TransportOwn ==
    ASSUME TypeInv, Own, Transport
    PROVE  Own'
<1> USE DEF callers, network, tables, results
<1>1. /\ TypeOK /\ HasFd /\ OwnFd /\ TableInv /\ HeardInv /\ ReplyInv /\ OnlyGenuineAccepted
  BY DEF Own, TypeInv
<1>2. ASSUME UNCHANGED <<step, fd, link>>, \A f \in Fd : m_Recaptchas'[f] \in {m_Recaptchas[f], NoRequest},
             events' = events \/ \E type : Delivers(type)
      PROVE  OwnFd' /\ ReplyInv' /\ TableInv'
  <2>1. ASSUME NEW q \in Request, fd[q] \in Fd, Done(q) PROVE Done(q)'
    BY <1>2, <2>1, NothingAssumption DEF Done
  <2>2. OwnFd'
    BY <1>1, <1>2, <2>1 DEF OwnFd
  <2>3. TableInv'
    BY <1>1, <1>2 DEF TableInv
  <2>4. ReplyInv'
    <3> SUFFICES ASSUME NEW i \in DOMAIN events', events'[i].type = "data", events'[i].success,
                        NEW f, f = events'[i].fd
                 PROVE  \E q \in Genuine : LastHad(q, f)'
      BY DEF ReplyInv, LastHad
    <3>1. PICK j \in DOMAIN events : events'[i] = events[j]
      <4>1. CASE events' = events
        BY <4>1
      <4>2. CASE \E type : Delivers(type)
        <5>1. PICK type : Delivers(type)
          BY <4>2
        <5>2. events \in Seq(Event) /\ events # <<>> /\ events' = Tail(events)
          BY <5>1, DeliversFacts
        <5> QED
          BY <5>2, TailEvents
      <4> QED
        BY <1>2, <4>1, <4>2
    <3>2. PICK q \in Genuine : LastHad(q, f)
      BY <1>1, <3>1 DEF ReplyInv
    <3>3. f \in Fd
      BY <1>1, <3>1 DEF TypeOK, Event
    <3>4. fd[q] = f /\ \A x \in Request : x # q /\ fd[x] = f => Done(x)
      BY <3>2 DEF LastHad
    <3>5. \A x \in Request : x # q /\ fd[x] = f => Done(x)'
      BY <2>1, <3>3, <3>4
    <3>6. fd' = fd
      BY <1>2
    <3>7. fd'[q] = f /\ \A x \in Request : x # q /\ fd'[x] = f => Done(x)'
      BY <3>4, <3>5, <3>6
    <3>8. LastHad(q, f)'
      BY <3>7 DEF LastHad
    <3> QED BY <3>8
  <2> QED BY <2>2, <2>3, <2>4
<1>3. CASE OnConnected \/ OnClosed
  <2>1. /\ UNCHANGED <<step, fd, link, heard, m_Recaptchas, outcome, unread>>
        /\ Delivers("connected") \/ Delivers("closed")
    BY <1>3 DEF OnConnected, OnClosed
  <2>2. OwnFd' /\ ReplyInv' /\ TableInv'
    BY <1>2, <2>1
  <2> QED BY <1>1, <2>1, <2>2 DEF Own, HeardInv, OnlyGenuineAccepted
<1>4. CASE SendWhenConnected
  <2>1. /\ UNCHANGED <<step, fd, link, events, m_Peers, m_Recaptchas, outcome, unread>>
        /\ callback.fd \in Fd
    BY <1>1, <1>4 DEF SendWhenConnected, HasFd
  <2>2. HeardInv'
    <3>1. CASE m_Recaptchas[callback.fd] = NoRequest
      BY <1>1, <1>4, <3>1 DEF SendWhenConnected, HeardInv
    <3>2. CASE m_Recaptchas[callback.fd] # NoRequest
      <4>1. PICK q : q = m_Recaptchas[callback.fd]
        OBVIOUS
      <4>2. q \in Request /\ fd[q] = callback.fd /\ ~Done(q) /\ Write(callback.fd, q)
        BY <1>1, <1>4, <2>1, <3>2, <4>1, EntryNotDone DEF SendWhenConnected
      <4> QED BY <1>1, <2>1, <4>2, WriteStep DEF HeardInv
    <3> QED BY <3>1, <3>2
  <2>3. OwnFd' /\ ReplyInv' /\ TableInv'
    BY <1>2, <2>1
  <2> QED BY <1>1, <2>1, <2>2, <2>3 DEF Own, OnlyGenuineAccepted
<1>5. CASE removeRecaptcha
  <2>1. /\ UNCHANGED <<step, fd, link, heard, events, m_Peers, outcome, unread>>
        /\ m_Recaptchas' = [m_Recaptchas EXCEPT ![callback.fd] = NoRequest]
    BY <1>5 DEF removeRecaptcha
  <2>2. \A f \in Fd : m_Recaptchas'[f] \in {m_Recaptchas[f], NoRequest}
    BY <1>1, <2>1 DEF TypeOK
  <2>3. OwnFd' /\ ReplyInv' /\ TableInv'
    BY <1>2, <2>1, <2>2
  <2> QED BY <1>1, <2>1, <2>3 DEF Own, HeardInv, OnlyGenuineAccepted
<1>6. CASE OnData
  <2> DEFINE reply == Head(events)
             q     == m_Recaptchas[reply.fd]
  <2>1. /\ UNCHANGED <<step, fd, link, heard, m_Peers, m_Recaptchas, callback>>
        /\ Delivers("data")
    BY <1>6 DEF OnData
  <2>2. reply \in Event /\ reply.fd \in Fd /\ reply.type = "data"
    BY <2>1, DeliversFacts
  <2>3. reply.success => \E r \in Genuine : LastHad(r, reply.fd)
    <3>1. 1 \in DOMAIN events /\ reply = events[1]
      BY <2>1, DeliversFacts, TailEvents
    <3> QED BY <1>1, <2>2, <3>1 DEF ReplyInv
  <2>4. OnlyGenuineAccepted'
    <3>1. CASE outcome' = outcome
      BY <1>1, <3>1 DEF OnlyGenuineAccepted
    <3>2. CASE q # NoRequest /\ outcome' = [outcome EXCEPT ![q] = Append(@, Verdict(reply))]
      <4>1. q \in Request /\ fd[q] = reply.fd /\ ~Done(q) /\ outcome[q] \in Seq(BOOLEAN)
        BY <1>1, <2>2, <3>2, EntryNotDone DEF TypeOK
      <4>2. Verdict(reply) => q \in Genuine
        BY <2>3, <4>1 DEF Verdict, LastHad
      <4>3. Verdict(reply) \in BOOLEAN
        BY <2>2, Zenon DEF Verdict
      <4> DEFINE v == Verdict(reply)
                 s == outcome[q]
      <4> HIDE DEF v, s
      <4>4. \A i \in DOMAIN Append(s, v) :
               Append(s, v)[i] = v \/ (i \in DOMAIN s /\ Append(s, v)[i] = s[i])
        BY <4>1, <4>3 DEF v, s
      <4>5. outcome' = [outcome EXCEPT ![q] = Append(s, v)]
        BY <3>2 DEF v, s
      <4>6. \A r \in Request : outcome'[r] = IF r = q THEN Append(s, v) ELSE outcome[r]
        BY <1>1, <4>1, <4>5 DEF TypeOK
      <4> QED BY <1>1, <4>1, <4>2, <4>4, <4>6 DEF OnlyGenuineAccepted, v, s
    <3> QED BY <1>6, <3>1, <3>2 DEF OnData
  <2>5. OwnFd' /\ ReplyInv' /\ TableInv'
    BY <1>2, <2>1
  <2> QED BY <1>1, <2>1, <2>4, <2>5 DEF Own, HeardInv
<1> QED BY <1>3, <1>4, <1>5, <1>6 DEF Transport

\* No step takes reopened back.
LEMMA ReopenedStays == Next /\ reopened => reopened'
BY DEF Next, Transport, OnConnected, SendWhenConnected, OnClosed, removeRecaptcha, OnData,
       validate, connectTo, insertRecaptcha, isConnected, sendRecaptcha, sendData,
       Establish, Reply, Close

\* Every step keeps the invariant.
LEMMA NextIInv == IInv /\ [Next]_vars => IInv'
<1> SUFFICES ASSUME IInv, [Next]_vars PROVE IInv'
  OBVIOUS
<1>1. TypeInv /\ TypeInv'
  BY NextTypes DEF IInv
<1>2. CASE UNCHANGED vars
  BY <1>1, <1>2 DEF vars, callers, network, tables, results, IInv, Own, OwnFd, Done, TableInv, HeardInv,
              ReplyInv, LastHad, OnlyGenuineAccepted
<1>3. CASE Next /\ ~reopened'
  <2>1. Own
    BY <1>3, ReopenedStays DEF IInv
  <2> QED BY <1>1, <1>3, <2>1, TransportOwn, ValidateOwn, NetworkOwn DEF Next, IInv
<1> QED BY <1>1, <1>2, <1>3 DEF IInv

\* The inductive invariant holds in every state, whatever descriptors are reused.
THEOREM OwnConnections == Spec => []IInv
<1>1. IInv /\ [Next]_vars => IInv'
  BY NextIInv
<1> QED BY <1>1, InitIInv, PTL DEF Spec

\* A request is credited with the reply to another one only when a connection was opened on a
\* descriptor that the gateway still referred to; otherwise an account is added only after its
\* own verification has succeeded, whatever fails and however the replies are cut.
THEOREM VerdictsAreOwn == Spec => []MisledOnlyByEarlyReuse
<1>1. IInv => MisledOnlyByEarlyReuse
  BY DEF IInv, Own, MisledOnlyByEarlyReuse
<1> QED BY <1>1, OwnConnections, PTL

\* The tables and the queues keep their types, whatever descriptors are reused.
THEOREM RecaptchaTypes == Spec => []TypeOK
<1>1. IInv => TypeOK
  BY DEF IInv, TypeInv
<1> QED BY <1>1, OwnConnections, PTL

=============================================================================
