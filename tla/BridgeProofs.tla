----------------------------- MODULE BridgeProofs -----------------------------
(***************************************************************************)
(* Proofs about Bridge for every set of calls and every mix of requests.    *)
(* The inductive invariant IInv ties three things together that the safety  *)
(* properties only mention in pairs: what the dialogs have done, what the   *)
(* peer table believes, and which reports are still between the two.        *)
(***************************************************************************)
EXTENDS Bridge, SequenceTheorems, FiniteSetTheorems, FunctionTheorems, TLAPS

\* The report `code` about session s is waiting in the queue q.
Queued(q, code, s) ==
    \E i \in 1..Len(q) : q[i] = [code |-> code, session |-> s]

EndReport == {"terminating", "terminated"}

\* Two events that the queue never holds in this order: a leg's connection
\* behind its end, or an INVITE behind anything else of its session.
Clash(a, b) ==
    /\ a.session = b.session
    /\ \/ a.code \in EndReport /\ b.code = "connected"
       \/ b.code = "newcall"

Ordered(q) == \A i, j \in 1..Len(q) : i < j => ~Clash(q[i], q[j])

\* What a waiting report says of the dialog and the peer it is about.
EventInv ==
    \A s \in Session :
        /\ \A code \in Code : Queued(queue, code, s) => dialog[s] # "idle"
        /\ Queued(queue, "newcall", s) => s = Left(CallOf(s)) /\ legState[s] = "None"
        /\ Queued(queue, "connected", s) =>
              s \in answered /\ legState[s] # "Terminated"
        /\ \A code \in EndReport : Queued(queue, code, s) => dialog[s] \in Over

\* A leg is believed to be connected or over only if its dialog has been.
LegInv ==
    \A s \in Session :
        /\ legState[s] = "Connected" => s \in answered
        /\ legState[s] = "Terminated" => dialog[s] \in Over
        /\ dialog[s] = "idle" => legState[s] # "Connected" /\ s \notin answered
        /\ s \in opposite => legState[s] \notin {"None", "Terminated"}

\* The two legs of a call and its entry in the table.
CallInv ==
    \A c \in Call :
        /\ legState[Left(c)] = "None" <=> legState[Right(c)] = "None"
        /\ legState[Left(c)] = "None" => dialog[Right(c)] = "idle"
        /\ dialog[Left(c)] = "idle" => legState[Left(c)] = "None"
        /\ c \in peers => legState[Left(c)] # "None"
        /\ c \notin peers => /\ legState[Left(c)] = legState[Right(c)]
                             /\ legState[Left(c)] \in {"None", "Terminated"}

\* The end of a bridged leg is either known to the peer or still waiting.
EndInv ==
    \A s \in Session :
        /\ dialog[s] = "terminated"
        /\ legState[s] # "Terminated"
        /\ CallOf(s) \in peers \/ Queued(queue, "newcall", s)
        => Queued(queue, "terminated", s)

\* An attachment that was skipped was skipped for want of a media manager.
AttachInv ==
    \A c \in peers \ attached :
        legState[Left(c)] = "Connected" /\ legState[Right(c)] = "Connected" =>
            dialog[Right(c)] = "terminated"

IInv ==
    /\ TypeOK
    /\ Ordered(queue)
    /\ EventInv
    /\ LegInv
    /\ CallInv
    /\ EndInv
    /\ AttachInv
    /\ AcceptFollowsAnswer
    /\ HangUpReachesOtherLeg
    /\ AttachNeedsBothAnswers

-----------------------------------------------------------------------------
(* Sessions, the peer table and the queue.                                   *)

\* A session is the left or the right leg of its call, and of no other call.
LEMMA SessionFacts ==
    /\ \A c \in Call :
          /\ Left(c) \in Session /\ Right(c) \in Session /\ Left(c) # Right(c)
          /\ CallOf(Left(c)) = c /\ CallOf(Right(c)) = c
          /\ Opposite(Left(c)) = Right(c) /\ Opposite(Right(c)) = Left(c)
    /\ \A s \in Session :
          /\ CallOf(s) \in Call
          /\ s = Left(CallOf(s)) \/ s = Right(CallOf(s))
          /\ Opposite(s) \in Session /\ Opposite(s) # s
          /\ CallOf(Opposite(s)) = CallOf(s)
BY DEF Session, Leg, Left, Right, CallOf, Opposite

\* The two lookups of a handler succeed exactly when the call has a peer.
LEMMA HasPeerFacts == \A s \in Session : HasPeer(s) <=> CallOf(s) \in peers
BY DEF Session, Leg, CallOf, HasPeer, getPeerBySessionId

\* A report appended to the queue is waiting, and nothing else is new.
LEMMA SignalFacts ==
    ASSUME NEW q \in Seq(Event), NEW code \in Code, NEW s \in Session, Ordered(q),
           code = "connected" => \A c \in EndReport : ~Queued(q, c, s),
           code = "newcall" => \A c \in Code : ~Queued(q, c, s)
    PROVE  /\ Signal(q, code, s) \in Seq(Event)
           /\ Ordered(Signal(q, code, s))
           /\ \A d \in Code, t \in Session :
                 Queued(Signal(q, code, s), d, t) <=>
                     Queued(q, d, t) \/ (d = code /\ t = s)
<1> DEFINE e == [code |-> code, session |-> s]
           r == Signal(q, code, s)
<1>1. e \in Event
  BY DEF Event
<1>2. /\ r \in Seq(Event)
      /\ Len(r) = Len(q) + 1
      /\ \A i \in 1..Len(q) : r[i] = q[i]
      /\ r[Len(q) + 1] = e
      /\ Len(q) \in Nat
  BY <1>1, AppendProperties, LenProperties DEF Signal
<1> HIDE DEF r
<1>3. \A i \in 1..Len(q) : q[i] \in Event
  BY ElementOfSeq
<1>4. ASSUME NEW i \in 1..Len(q) PROVE ~Clash(q[i], e)
  <2>1. q[i] = [code |-> q[i].code, session |-> q[i].session]
    BY <1>3 DEF Event
  <2>2. Queued(q, q[i].code, q[i].session) /\ q[i].code \in Code
    BY <1>3, <2>1 DEF Queued, Event
  <2> QED
    BY <2>2 DEF Clash
<1>5. Ordered(r)
  BY <1>2, <1>4 DEF Ordered
<1>6. ASSUME NEW d \in Code, NEW t \in Session
      PROVE  Queued(r, d, t) <=> Queued(q, d, t) \/ (d = code /\ t = s)
  BY <1>2 DEF Queued
<1> QED
  BY <1>2, <1>5, <1>6 DEF r

\* Delivering the head keeps what waits behind it; no report that clashes with
\* the head is behind it.
LEMMA TailFacts ==
    ASSUME NEW q \in Seq(Event), q # <<>>, Ordered(q),
           NEW code, NEW s, Head(q) = [code |-> code, session |-> s]
    PROVE  /\ code \in Code /\ s \in Session
           /\ Tail(q) \in Seq(Event)
           /\ Ordered(Tail(q))
           /\ Queued(q, code, s)
           /\ \A d \in Code, t \in Session :
                 /\ Queued(Tail(q), d, t) => Queued(q, d, t)
                 /\ Queued(q, d, t) => Queued(Tail(q), d, t) \/ (d = code /\ t = s)
           /\ code \in EndReport => ~Queued(Tail(q), "connected", s)
           /\ ~Queued(Tail(q), "newcall", s)
<1> DEFINE e == [code |-> code, session |-> s]
           r == Tail(q)
<1>1. /\ r \in Seq(Event)
      /\ Len(q) \in Nat /\ Len(q) >= 1
      /\ Len(r) = Len(q) - 1
      /\ \A i \in 1..Len(r) : r[i] = q[i + 1]
      /\ q[1] = e
      /\ e \in Event
  <2>1. Len(q) \in Nat /\ Len(q) >= 1
    BY LenProperties, EmptySeq
  <2>2. /\ r \in Seq(Event) /\ Len(r) = Len(q) - 1
        /\ \A i \in 1..Len(r) : r[i] = q[i + 1]
        /\ Head(q) \in Event
    BY HeadTailProperties
  <2>3. q[1] = Head(q)
    BY <2>1
  <2> QED
    BY <2>1, <2>2, <2>3
<1> HIDE DEF r
<1>2. code \in Code /\ s \in Session
  BY <1>1 DEF Event
<1>3. Ordered(r)
  BY <1>1 DEF Ordered
<1>4. ASSUME NEW i \in 1..Len(r) PROVE ~Clash(e, r[i])
  BY <1>1 DEF Ordered
<1>5. Queued(q, code, s)
  BY <1>1 DEF Queued
<1>6. ASSUME NEW d \in Code, NEW t \in Session
      PROVE  /\ Queued(r, d, t) => Queued(q, d, t)
             /\ Queued(q, d, t) => Queued(r, d, t) \/ (d = code /\ t = s)
  <2>1. Queued(r, d, t) => Queued(q, d, t)
    BY <1>1 DEF Queued
  <2>2. ASSUME NEW i \in 1..Len(q), q[i] = [code |-> d, session |-> t], i # 1
        PROVE  Queued(r, d, t)
    <3>1. i - 1 \in 1..Len(r) /\ r[i - 1] = q[i]
      BY <1>1, <2>2
    <3> QED
      BY <2>2, <3>1 DEF Queued
  <2> QED
    BY <1>1, <2>1, <2>2 DEF Queued
<1>7. code \in EndReport => ~Queued(r, "connected", s)
  BY <1>4 DEF Clash, Queued
<1>8. ~Queued(r, "newcall", s)
  BY <1>4 DEF Clash, Queued
<1> QED
  BY <1>1, <1>2, <1>3, <1>5, <1>6, <1>7, <1>8 DEF r

-----------------------------------------------------------------------------
(* The network and the stack preserve the invariant.                         *)

LEMMA InitIInv == Init => IInv
<1> SUFFICES ASSUME Init PROVE IInv
  OBVIOUS
<1> USE DEF Init
<1>1. TypeOK
  <2>1. queue \in Seq(Event)
    BY EmptySeq
  <2>2. 0 \in 0..MaxDigits
    BY MaxDigitsAssumption
  <2> QED
    BY <2>1, <2>2 DEF TypeOK, DialogState, PeerState
<1>2. Len(queue) = 0
  BY EmptySeq
<1>3. Ordered(queue) /\ \A code \in Code, s \in Session : ~Queued(queue, code, s)
  BY <1>2 DEF Ordered, Queued
<1>4. EventInv
  BY <1>3 DEF EventInv, Code, EndReport
<1>5. LegInv /\ EndInv
  BY <1>3 DEF LegInv, EndInv, Code
<1>6. CallInv /\ AttachInv
  BY SessionFacts DEF CallInv, AttachInv
<1>7. AcceptFollowsAnswer /\ HangUpReachesOtherLeg /\ AttachNeedsBothAnswers
  BY DEF AcceptFollowsAnswer, HangUpReachesOtherLeg, AttachNeedsBothAnswers
<1> QED
  BY <1>1, <1>3, <1>4, <1>5, <1>6, <1>7 DEF IInv

LEMMA RemoteInviteIInv ==
    ASSUME IInv, NEW c \in Call, RemoteInvite(c)
    PROVE  IInv'
<1> USE SessionFacts DEF IInv, RemoteInvite, dialogVars, peerVars, digitVars
<1>1. Left(c) \in Session /\ \A code \in Code : ~Queued(queue, code, Left(c))
  BY DEF EventInv
<1>2. /\ queue' \in Seq(Event)
      /\ Ordered(queue')
      /\ \A d \in Code, t \in Session :
            Queued(queue', d, t) <=> Queued(queue, d, t) \/ (d = "newcall" /\ t = Left(c))
  <2>1. /\ queue \in Seq(Event) /\ Ordered(queue) /\ "newcall" \in Code
        /\ queue' = Signal(queue, "newcall", Left(c))
    BY DEF TypeOK, Code
  <2> HIDE DEF IInv, RemoteInvite
  <2> QED
    BY ONLY <1>1, <2>1, SignalFacts
<1>3. TypeOK'
  BY <1>2 DEF TypeOK, DialogState, Live
<1>4. EventInv'
  BY <1>2 DEF TypeOK, EventInv, CallInv, Code, EndReport, Over
<1>5. LegInv'
  BY DEF TypeOK, LegInv, Over
<1>6. CallInv'
  BY DEF TypeOK, CallInv
<1>7. EndInv'
  BY <1>2 DEF TypeOK, EndInv, Code
<1>8. AttachInv'
  BY DEF TypeOK, AttachInv
<1>9. AcceptFollowsAnswer' /\ HangUpReachesOtherLeg' /\ AttachNeedsBothAnswers'
  BY DEF TypeOK, CallInv, AcceptFollowsAnswer, HangUpReachesOtherLeg, AttachNeedsBothAnswers
<1> QED
  BY <1>2, <1>3, <1>4, <1>5, <1>6, <1>7, <1>8, <1>9

LEMMA RemoteAnswerIInv ==
    ASSUME IInv, NEW c \in Call, RemoteAnswer(c)
    PROVE  IInv'
<1> USE SessionFacts DEF IInv, RemoteAnswer, peerVars, digitVars
<1>1. Right(c) \in Session /\ \A code \in EndReport : ~Queued(queue, code, Right(c))
  BY DEF EventInv, Over
<1>2. /\ queue' \in Seq(Event)
      /\ Ordered(queue')
      /\ \A d \in Code, t \in Session :
            Queued(queue', d, t) <=> Queued(queue, d, t) \/ (d = "connected" /\ t = Right(c))
  <2>1. /\ queue \in Seq(Event) /\ Ordered(queue) /\ "connected" \in Code
        /\ queue' = Signal(queue, "connected", Right(c))
    BY DEF TypeOK, Code
  <2> HIDE DEF IInv, RemoteAnswer
  <2> QED
    BY ONLY <1>1, <2>1, SignalFacts
<1>3. TypeOK'
  BY <1>2 DEF TypeOK, DialogState, Live
<1>4. EventInv'
  BY <1>1, <1>2 DEF TypeOK, EventInv, LegInv, Code, EndReport, Over
<1>5. LegInv'
  BY DEF TypeOK, LegInv, Over
<1>6. CallInv'
  BY DEF TypeOK, CallInv
<1>7. EndInv'
  BY <1>2 DEF TypeOK, EndInv, Code
<1>8. AttachInv'
  BY DEF TypeOK, AttachInv
<1>9. AcceptFollowsAnswer' /\ HangUpReachesOtherLeg' /\ AttachNeedsBothAnswers'
  BY DEF TypeOK, AcceptFollowsAnswer, HangUpReachesOtherLeg, AttachNeedsBothAnswers, Live
<1> QED
  BY <1>2, <1>3, <1>4, <1>5, <1>6, <1>7, <1>8, <1>9

\* A dialog that has ended, whoever ended it, with its report in the queue.
LEMMA DialogEndsIInv ==
    ASSUME IInv, NEW s \in Session, RemoteEnd(s) \/ FinishDialog(s)
    PROVE  IInv'
<1> USE SessionFacts DEF IInv, RemoteEnd, FinishDialog, peerVars, digitVars
<1>1. dialog[s] \in Live \cup {"terminating"}
  OBVIOUS
<1>2. /\ queue' \in Seq(Event)
      /\ Ordered(queue')
      /\ \A d \in Code, t \in Session :
            Queued(queue', d, t) <=> Queued(queue, d, t) \/ (d = "terminated" /\ t = s)
  <2>1. /\ queue \in Seq(Event) /\ Ordered(queue) /\ "terminated" \in Code
        /\ queue' = Signal(queue, "terminated", s)
    BY DEF TypeOK, Code
  <2> HIDE DEF IInv, RemoteEnd, FinishDialog
  <2> QED
    BY ONLY <2>1, s \in Session, SignalFacts
<1>3. TypeOK'
  <2>1. TypeOK /\ "terminated" \in DialogState
    BY DEF DialogState, Over
  <2>2. /\ dialog' = [dialog EXCEPT ![s] = "terminated"]
        /\ UNCHANGED <<answered, peers, legState, opposite, attached, digitsIn, digitsOut, crashed>>
    BY ONLY RemoteEnd(s) \/ FinishDialog(s) DEF RemoteEnd, FinishDialog, peerVars, digitVars
  <2> QED
    BY ONLY <1>2, <2>1, <2>2 DEF TypeOK
<1>4. EventInv'
  BY <1>2 DEF TypeOK, EventInv, Code, EndReport, Over
<1>5. LegInv'
  BY DEF TypeOK, LegInv, Over
<1>6. CallInv'
  BY <1>1 DEF TypeOK, CallInv, Live
<1>7. EndInv'
  BY <1>2 DEF TypeOK, EndInv, Code
<1>8. AttachInv'
  BY DEF TypeOK, AttachInv
<1>9. AcceptFollowsAnswer' /\ HangUpReachesOtherLeg' /\ AttachNeedsBothAnswers'
  BY DEF TypeOK, AcceptFollowsAnswer, HangUpReachesOtherLeg, AttachNeedsBothAnswers, Live
<1> QED
  BY <1>2, <1>3, <1>4, <1>5, <1>6, <1>7, <1>8, <1>9

LEMMA RemoteDigitIInv ==
    ASSUME IInv, NEW s \in Session, RemoteDigit(s)
    PROVE  IInv'
<1> USE SessionFacts DEF IInv, RemoteDigit, peerVars
<1>1. /\ queue' \in Seq(Event)
      /\ Ordered(queue')
      /\ \A d \in Code, t \in Session :
            Queued(queue', d, t) <=> Queued(queue, d, t) \/ (d = "info" /\ t = s)
  <2>1. /\ queue \in Seq(Event) /\ Ordered(queue) /\ "info" \in Code
        /\ queue' = Signal(queue, "info", s)
    BY DEF TypeOK, Code
  <2> HIDE DEF IInv, RemoteDigit
  <2> QED
    BY ONLY <2>1, s \in Session, SignalFacts
<1>2. TypeOK'
  BY <1>1, MaxDigitsAssumption DEF TypeOK
<1>3. EventInv' /\ EndInv'
  BY <1>1 DEF EventInv, EndInv, Code, EndReport
<1>4. LegInv' /\ CallInv' /\ AttachInv'
  BY DEF LegInv, CallInv, AttachInv
<1>5. AcceptFollowsAnswer' /\ HangUpReachesOtherLeg' /\ AttachNeedsBothAnswers'
  BY DEF AcceptFollowsAnswer, HangUpReachesOtherLeg, AttachNeedsBothAnswers
<1> QED
  BY <1>1, <1>2, <1>3, <1>4, <1>5

-----------------------------------------------------------------------------
(* What a handler may assume, and what its commands leave in the queue.      *)

\* The event that is delivered, and the queue Q it leaves.
LEMMA DeliversFacts ==
    ASSUME IInv, NEW code, NEW s, Delivers(code, s)
    PROVE  /\ code \in Code /\ s \in Session
           /\ Tail(queue) \in Seq(Event)
           /\ Ordered(Tail(queue))
           /\ Queued(queue, code, s)
           /\ \A d \in Code, t \in Session :
                 /\ Queued(Tail(queue), d, t) => Queued(queue, d, t)
                 /\ Queued(queue, d, t) =>
                       Queued(Tail(queue), d, t) \/ (d = code /\ t = s)
           /\ code \in EndReport => ~Queued(Tail(queue), "connected", s)
           /\ ~Queued(Tail(queue), "newcall", s)
<1>1. /\ queue \in Seq(Event) /\ queue # <<>> /\ Ordered(queue)
      /\ Head(queue) = [code |-> code, session |-> s]
  BY DEF IInv, TypeOK, Delivers
<1> QED
  BY ONLY <1>1, TailFacts

LEMMA HangUpFacts ==
    ASSUME NEW q \in Seq(Event), NEW s \in Session, Ordered(q), HangUp(s, q)
    PROVE  /\ queue' \in Seq(Event)
           /\ Ordered(queue')
           /\ \A d \in Code, t \in Session :
                 /\ Queued(q, d, t) => Queued(queue', d, t)
                 /\ Queued(queue', d, t) =>
                       Queued(q, d, t) \/ (d = "terminating" /\ t = s /\ dialog[s] \in Live)
<1>1. CASE queue' = q
  BY <1>1
<1>2. CASE dialog[s] \in Live /\ queue' = Signal(q, "terminating", s)
  <2>1. "terminating" \in Code /\ "terminating" # "connected" /\ "terminating" # "newcall"
    BY DEF Code
  <2>2. /\ Signal(q, "terminating", s) \in Seq(Event)
        /\ Ordered(Signal(q, "terminating", s))
        /\ \A d \in Code, t \in Session :
              Queued(Signal(q, "terminating", s), d, t) <=>
                  Queued(q, d, t) \/ (d = "terminating" /\ t = s)
    BY ONLY <2>1, q \in Seq(Event), s \in Session, Ordered(q), SignalFacts
  <2> QED
    BY <1>2, <2>2
<1> QED
  BY <1>1, <1>2 DEF HangUp

LEMMA AcceptFacts ==
    ASSUME NEW q \in Seq(Event), NEW s \in Session, Ordered(q), Accept(s, q),
           dialog[s] = "incoming" => \A c \in EndReport : ~Queued(q, c, s)
    PROVE  /\ queue' \in Seq(Event)
           /\ Ordered(queue')
           /\ \A d \in Code, t \in Session :
                 /\ Queued(q, d, t) => Queued(queue', d, t)
                 /\ Queued(queue', d, t) =>
                       Queued(q, d, t) \/ (d = "connected" /\ t = s /\ dialog[s] = "incoming")
<1>1. CASE queue' = q
  BY <1>1
<1>2. CASE dialog[s] = "incoming" /\ queue' = Signal(q, "connected", s)
  <2>1. "connected" \in Code /\ "connected" # "newcall"
    BY DEF Code
  <2>2. \A c \in EndReport : ~Queued(q, c, s)
    BY <1>2
  <2>3. /\ Signal(q, "connected", s) \in Seq(Event)
        /\ Ordered(Signal(q, "connected", s))
        /\ \A d \in Code, t \in Session :
              Queued(Signal(q, "connected", s), d, t) <=>
                  Queued(q, d, t) \/ (d = "connected" /\ t = s)
    BY ONLY <2>1, <2>2, q \in Seq(Event), s \in Session, Ordered(q), SignalFacts
  <2> QED
    BY <1>2, <2>3
<1> QED
  BY <1>1, <1>2 DEF Accept

-----------------------------------------------------------------------------
(* OnInviteEvent preserves the invariant.                                    *)

LEMMA BridgeCallIInv ==
    ASSUME IInv, NEW c \in Call, BridgeCall(c)
    PROVE  IInv'
<1> DEFINE Q == Tail(queue)
<1> USE SessionFacts DEF IInv, BridgeCall, Dial, insertPeer, digitVars
<1>1. /\ Q \in Seq(Event) /\ Ordered(Q) /\ Queued(queue, "newcall", Left(c))
      /\ ~Queued(Q, "newcall", Left(c))
      /\ \A d \in Code, t \in Session :
            /\ Queued(Q, d, t) => Queued(queue, d, t)
            /\ Queued(queue, d, t) => Queued(Q, d, t) \/ (d = "newcall" /\ t = Left(c))
  BY DeliversFacts
<1>2. queue' = Q
  OBVIOUS
<1> HIDE DEF Q
<1>3. legState[Left(c)] = "None" /\ dialog[Left(c)] # "idle"
  BY <1>1 DEF EventInv, Code
<1>4. legState[Right(c)] = "None" /\ dialog[Right(c)] = "idle" /\ c \notin peers
  BY <1>3 DEF CallInv
<1>5. /\ legState' \in [Session -> PeerState]
      /\ \A s \in Session : legState'[s] = IF CallOf(s) = c THEN "Connecting" ELSE legState[s]
  BY DEF TypeOK, PeerState
<1>6. /\ dialog' \in [Session -> DialogState]
      /\ dialog'[Right(c)] \in {"idle", "trying"}
      /\ \A s \in Session : s # Right(c) => dialog'[s] = dialog[s]
  BY <1>4 DEF TypeOK, DialogState, Live
<1>7. /\ peers' = peers \cup {c} /\ opposite' = opposite \cup {Left(c), Right(c)}
      /\ UNCHANGED <<answered, attached, digitsIn, digitsOut, crashed>>
  OBVIOUS
<1> HIDE DEF BridgeCall
<1>8. TypeOK'
  BY <1>1, <1>2, <1>5, <1>6, <1>7 DEF TypeOK
<1>9. EventInv'
  BY <1>1, <1>2, <1>4, <1>5, <1>6, <1>7 DEF EventInv, Code, EndReport, Over
<1>10. LegInv'
  BY <1>3, <1>4, <1>5, <1>6, <1>7 DEF LegInv, Over
<1>11. CallInv'
  BY <1>3, <1>4, <1>5, <1>6, <1>7 DEF CallInv
<1>12. EndInv'
  <2> SUFFICES ASSUME NEW s \in Session, dialog'[s] = "terminated", legState'[s] # "Terminated",
                      CallOf(s) \in peers' \/ Queued(queue', "newcall", s)
               PROVE  Queued(queue', "terminated", s)
    BY DEF EndInv
  <2>1. dialog[s] = "terminated" /\ legState[s] # "Terminated"
    BY <1>3, <1>4, <1>5, <1>6
  <2>2. CallOf(s) \in peers \/ Queued(queue, "newcall", s)
    BY <1>1, <1>2, <1>6, <1>7 DEF Code
  <2>3. Queued(queue, "terminated", s)
    BY <2>1, <2>2 DEF EndInv
  <2> QED
    BY <1>1, <1>2, <2>3 DEF Code
<1>13. AttachInv' /\ HangUpReachesOtherLeg'
  <2>1. \A s \in {Left(c), Right(c)} : legState'[s] = "Connecting"
    BY <1>5
  <2>2. ASSUME NEW d \in Call, d # c, NEW s \in {Left(d), Right(d)}
        PROVE  /\ legState'[s] = legState[s]
               /\ dialog'[s] = dialog[s] /\ dialog'[Opposite(s)] = dialog[Opposite(s)]
               /\ d \in peers' => d \in peers
    BY <1>5, <1>6, <1>7, <2>2
  <2>3. AttachInv'
    BY <1>7, <2>1, <2>2 DEF TypeOK, AttachInv
  <2> QED
    BY <1>7, <2>1, <2>2, <2>3 DEF TypeOK, HangUpReachesOtherLeg
<1>14. AcceptFollowsAnswer' /\ AttachNeedsBothAnswers'
  BY <1>7 DEF AcceptFollowsAnswer, AttachNeedsBothAnswers
<1> QED
  BY <1>1, <1>2, <1>8, <1>9, <1>10, <1>11, <1>12, <1>13, <1>14

LEMMA RefuseCallIInv ==
    ASSUME IInv, NEW c \in Call, RefuseCall(c)
    PROVE  IInv'
<1> DEFINE Q == Tail(queue)
<1> USE SessionFacts DEF IInv, RefuseCall, peerVars, digitVars
<1>1. /\ Q \in Seq(Event) /\ Ordered(Q) /\ Queued(queue, "newcall", Left(c))
      /\ ~Queued(Q, "newcall", Left(c))
      /\ \A d \in Code, t \in Session :
            /\ Queued(Q, d, t) => Queued(queue, d, t)
            /\ Queued(queue, d, t) => Queued(Q, d, t) \/ (d = "newcall" /\ t = Left(c))
  BY DeliversFacts
<1>2. /\ queue' \in Seq(Event) /\ Ordered(queue')
      /\ \A d \in Code, t \in Session :
            /\ Queued(Q, d, t) => Queued(queue', d, t)
            /\ Queued(queue', d, t) =>
                  Queued(Q, d, t)
                  \/ (d = "terminating" /\ t = Left(c) /\ dialog[Left(c)] \in Live)
  BY <1>1, HangUpFacts
<1> HIDE DEF Q
<1>3. legState[Left(c)] = "None" /\ dialog[Left(c)] # "idle" /\ c \notin peers
  BY <1>1 DEF EventInv, CallInv, Code
<1>4. \/ dialog' = dialog
      \/ dialog[Left(c)] \in Live /\ dialog' = [dialog EXCEPT ![Left(c)] = "terminating"]
  BY DEF HangUp
<1>5. TypeOK'
  <2>1. TypeOK /\ Left(c) \in Session /\ "terminating" \in DialogState
    BY DEF DialogState, Over
  <2>2. dialog' \in [Session -> DialogState]
    BY ONLY <1>4, <2>1 DEF TypeOK
  <2>3. UNCHANGED <<answered, peers, legState, opposite, attached, digitsIn, digitsOut, crashed>>
    BY ONLY RefuseCall(c) DEF RefuseCall, peerVars, digitVars
  <2> QED
    BY ONLY <1>2, <2>1, <2>2, <2>3 DEF TypeOK
<1>6. EventInv'
  BY <1>1, <1>2, <1>4 DEF TypeOK, EventInv, HangUp, Code, EndReport, Over
<1>7. LegInv'
  BY <1>4 DEF TypeOK, LegInv, Over
<1>8. CallInv'
  BY <1>3, <1>4 DEF TypeOK, CallInv
<1>9. EndInv'
  BY <1>1, <1>2, <1>3, <1>4 DEF TypeOK, EndInv, Code
<1>10. AttachInv'
  BY <1>3, <1>4 DEF TypeOK, AttachInv
<1>11. AcceptFollowsAnswer' /\ HangUpReachesOtherLeg' /\ AttachNeedsBothAnswers'
  BY <1>4 DEF TypeOK, AcceptFollowsAnswer, HangUpReachesOtherLeg, AttachNeedsBothAnswers, Live
<1> QED
  BY <1>2, <1>5, <1>6, <1>7, <1>8, <1>9, <1>10, <1>11

\* An event that is taken from the queue and changes no peer and no dialog.
LEMMA OnlyQueueIInv ==
    ASSUME IInv, NEW code, NEW s, Delivers(code, s), queue' = Tail(queue),
           UNCHANGED <<dialog, answered, peers, legState, opposite, attached, digitsIn>>,
           digitsOut' \in [Session -> Nat], crashed' \in BOOLEAN,
           code \in EndReport => CallOf(s) \notin peers
    PROVE  IInv'
<1> USE DEF IInv
<1>1. /\ code \in Code /\ s \in Session
      /\ queue' \in Seq(Event) /\ Ordered(queue')
      /\ ~Queued(queue', "newcall", s)
      /\ \A d \in Code, t \in Session :
            /\ Queued(queue', d, t) => Queued(queue, d, t)
            /\ Queued(queue, d, t) => Queued(queue', d, t) \/ (d = code /\ t = s)
  BY DeliversFacts
<1>2. TypeOK'
  BY <1>1 DEF TypeOK
<1>3. EventInv'
  BY <1>1 DEF EventInv, Code, EndReport
<1>4. EndInv'
  BY <1>1 DEF EndInv, Code, EndReport
<1>5. LegInv' /\ CallInv' /\ AttachInv'
  BY DEF LegInv, CallInv, AttachInv
<1>6. AcceptFollowsAnswer' /\ HangUpReachesOtherLeg' /\ AttachNeedsBothAnswers'
  BY DEF AcceptFollowsAnswer, HangUpReachesOtherLeg, AttachNeedsBothAnswers
<1> QED
  BY <1>1, <1>2, <1>3, <1>4, <1>5, <1>6

LEMMA RejectNullIInv ==
    ASSUME IInv, NEW c \in Call, RejectNull(c)
    PROVE  IInv'
<1>1. /\ Delivers("newcall", Left(c)) /\ queue' = Tail(queue)
      /\ UNCHANGED <<dialog, answered, peers, legState, opposite, attached, digitsIn>>
      /\ digitsOut' \in [Session -> Nat] /\ crashed' \in BOOLEAN
      /\ "newcall" \notin EndReport
  BY DEF RejectNull, peerVars, digitVars, IInv, TypeOK, EndReport
<1> QED
  BY <1>1, OnlyQueueIInv

LEMMA RelayDigitIInv ==
    ASSUME IInv, NEW s \in Session, RelayDigit(s)
    PROVE  IInv'
<1>1. /\ Delivers("info", s) /\ queue' = Tail(queue)
      /\ UNCHANGED <<dialog, answered, peers, legState, opposite, attached, digitsIn>>
      /\ digitsOut' \in [Session -> Nat] /\ crashed' \in BOOLEAN
      /\ "info" \notin EndReport
  <2>1. ReceiverOfDigit(s) \in Session
    BY SessionFacts DEF ReceiverOfDigit
  <2>2. digitsOut \in [Session -> Nat] /\ crashed \in BOOLEAN
    BY DEF IInv, TypeOK
  <2> QED
    BY <2>1, <2>2 DEF RelayDigit, peerVars, EndReport
<1> QED
  BY <1>1, OnlyQueueIInv

LEMMA IgnoreEventIInv ==
    ASSUME IInv, NEW s \in Session, IgnoreEvent(s)
    PROVE  IInv'
<1>1. Head(queue) \in Event
  BY HeadTailProperties DEF IgnoreEvent, IInv, TypeOK
<1>2. PICK code \in Code : Head(queue) = [code |-> code, session |-> s]
  BY <1>1 DEF IgnoreEvent, Event
<1>3. /\ Delivers(code, s) /\ queue' = Tail(queue)
      /\ UNCHANGED <<dialog, answered, peers, legState, opposite, attached, digitsIn>>
      /\ digitsOut' \in [Session -> Nat] /\ crashed' \in BOOLEAN
      /\ CallOf(s) \notin peers
  BY <1>2, HasPeerFacts DEF IgnoreEvent, Delivers, peerVars, digitVars, IInv, TypeOK
<1> QED
  BY <1>3, OnlyQueueIInv

-----------------------------------------------------------------------------
(* OnDialogEvent preserves the invariant.                                    *)

LEMMA OnTerminatedIInv ==
    ASSUME IInv, NEW s \in Session, OnTerminated(s)
    PROVE  IInv'
<1> DEFINE Q == Tail(queue)
           o == Opposite(s)
           c == CallOf(s)
<1> USE SessionFacts DEF IInv
<1>1. PICK code \in EndReport : Delivers(code, s)
  BY DEF OnTerminated, EndReport
<1>2. /\ Q \in Seq(Event) /\ Ordered(Q) /\ Queued(queue, code, s)
      /\ ~Queued(Q, "connected", s) /\ ~Queued(Q, "newcall", s)
      /\ \A d \in Code, t \in Session :
            /\ Queued(Q, d, t) => Queued(queue, d, t)
            /\ Queued(queue, d, t) => Queued(Q, d, t) \/ (d = code /\ t = s)
  BY <1>1, DeliversFacts
<1>3. c \in peers /\ c \in Call /\ o \in Session /\ o # s /\ CallOf(o) = c
  BY HasPeerFacts DEF OnTerminated
<1>4. /\ legState' \in [Session -> PeerState]
      /\ legState'[s] = "Terminated"
      /\ \A t \in Session : t # s => legState'[t] = legState[t]
      /\ opposite' = opposite \ {s}
      /\ UNCHANGED <<answered, attached, digitsIn, digitsOut, crashed>>
  BY DEF OnTerminated, SetLegState, TypeOK, PeerState, digitVars
<1>5. /\ queue' \in Seq(Event) /\ Ordered(queue')
      /\ \A d \in Code, t \in Session :
            /\ Queued(Q, d, t) => Queued(queue', d, t)
            /\ Queued(queue', d, t) =>
                  Queued(Q, d, t) \/ (d = "terminating" /\ t = o /\ dialog'[o] \in Over)
  <2>1. CASE HangUp(o, Q)
    <3>1. dialog[o] \in Live => dialog'[o] \in Over
      BY <1>3, <2>1 DEF HangUp, TypeOK, Over
    <3>2. /\ queue' \in Seq(Event) /\ Ordered(queue')
          /\ \A d \in Code, t \in Session :
                /\ Queued(Q, d, t) => Queued(queue', d, t)
                /\ Queued(queue', d, t) =>
                      Queued(Q, d, t) \/ (d = "terminating" /\ t = o /\ dialog[o] \in Live)
      <4> HIDE DEF Q, o
      <4> QED
        BY ONLY <1>2, <1>3, <2>1, HangUpFacts
    <3> QED
      BY <3>1, <3>2
  <2>2. CASE queue' = Q
    BY <1>2, <2>2
  <2> QED
    BY <2>1, <2>2 DEF OnTerminated, SurvivingLeg
<1>6. /\ dialog' \in [Session -> DialogState]
      /\ \A t \in Session : t # o => dialog'[t] = dialog[t]
      /\ dialog'[o] = dialog[o] \/ (dialog[o] \in Live /\ dialog'[o] = "terminating")
  BY <1>3 DEF OnTerminated, HangUp, SurvivingLeg, TypeOK, DialogState, Over
<1>7. \/ /\ legState[o] \in {"Connecting", "Connected"} /\ peers' = peers
         /\ dialog'[o] \notin Live
      \/ /\ legState[o] = "Terminated" /\ peers' = peers \ {c}
  <2>1. CASE Active(o)
    <3>1. peers' = peers /\ HangUp(o, Q)
      BY <2>1 DEF OnTerminated, SurvivingLeg
    <3>2. dialog'[o] \notin Live
      BY <1>3, <3>1 DEF HangUp, TypeOK, Live
    <3> QED
      BY <2>1, <3>1, <3>2 DEF Active
  <2>2. CASE ~Active(o)
    <3>1. legState[o] # "None"
      BY <1>3 DEF CallInv
    <3>2. legState[o] = "Terminated"
      BY <1>3, <2>2, <3>1 DEF Active, TypeOK, PeerState
    <3> QED
      BY <2>2, <3>2 DEF OnTerminated, SurvivingLeg, removePeer
  <2> QED
    BY <2>1, <2>2
<1>8. dialog[s] \in Over
  BY <1>2 DEF EventInv
<1> HIDE DEF Q, o, c
<1>9. TypeOK'
  BY <1>4, <1>5, <1>6, <1>7 DEF TypeOK
<1>10. EventInv'
  BY <1>2, <1>3, <1>4, <1>5, <1>6 DEF EventInv, Code, EndReport, Over, Live
<1>11. LegInv'
  BY <1>4, <1>6, <1>8 DEF LegInv, Over, Live
<1>12. CallInv'
  <2>1. ASSUME NEW d \in Call, d # c, NEW t \in {Left(d), Right(d)}
        PROVE  /\ legState'[t] = legState[t] /\ dialog'[t] = dialog[t]
               /\ d \in peers' <=> d \in peers
    BY <1>3, <1>4, <1>6, <1>7, <2>1 DEF c
  <2>2. /\ {s, o} = {Left(c), Right(c)}
        /\ legState'[s] # "None" /\ legState'[o] # "None"
        /\ dialog'[Left(c)] = "idle" => dialog[Left(c)] = "idle"
        /\ c \notin peers' => legState'[s] = legState'[o]
    BY <1>3, <1>4, <1>6, <1>7 DEF o, c, Live, CallInv
  <2>3. \A t \in {s, o} : dialog'[t] = "idle" => dialog[t] = "idle"
    BY <1>3, <1>6 DEF Live
  <2>4. dialog[Left(c)] # "idle"
    BY <1>3 DEF CallInv
  <2> QED
    BY <1>3, <1>4, <2>1, <2>2, <2>4 DEF CallInv
<1>13. EndInv'
  <2> SUFFICES ASSUME NEW t \in Session, dialog'[t] = "terminated", legState'[t] # "Terminated",
                      CallOf(t) \in peers' \/ Queued(queue', "newcall", t)
               PROVE  Queued(queue', "terminated", t)
    BY DEF EndInv
  <2>1. t # s /\ dialog[t] = "terminated" /\ legState[t] # "Terminated"
    BY <1>4, <1>6
  <2>2. CallOf(t) \in peers \/ Queued(queue, "newcall", t)
    BY <1>2, <1>5, <1>7 DEF Code
  <2>3. Queued(queue, "terminated", t)
    BY <2>1, <2>2 DEF EndInv
  <2> QED
    BY <1>2, <1>5, <2>1, <2>3 DEF Code
<1>14. AttachInv' /\ HangUpReachesOtherLeg'
  <2>1. ASSUME NEW d \in Call, d # c, NEW t \in {Left(d), Right(d)}
        PROVE  /\ legState'[t] = legState[t]
               /\ dialog'[t] = dialog[t] /\ dialog'[Opposite(t)] = dialog[Opposite(t)]
               /\ d \in peers' <=> d \in peers
    BY <1>3, <1>4, <1>6, <1>7, <2>1 DEF c
  <2>2. {s, o} = {Left(c), Right(c)} /\ Opposite(s) = o /\ Opposite(o) = s
    BY <1>3 DEF o, c
  <2>3. peers' \subseteq Call /\ attached' = attached
    BY <1>4, <1>9 DEF TypeOK
  <2>4. AttachInv'
    <3> SUFFICES ASSUME NEW d \in peers' \ attached',
                        legState'[Left(d)] = "Connected", legState'[Right(d)] = "Connected"
                 PROVE  dialog'[Right(d)] = "terminated"
      BY DEF AttachInv
    <3>1. d \in Call /\ d # c
      BY <1>4, <2>2, <2>3
    <3> QED
      BY <2>1, <2>3, <3>1 DEF AttachInv
  <2>5. HangUpReachesOtherLeg'
    <3> SUFFICES ASSUME NEW d \in peers', NEW t \in {Left(d), Right(d)},
                        legState'[t] = "Terminated"
                 PROVE  dialog'[Opposite(t)] \notin Live
      BY DEF HangUpReachesOtherLeg
    <3>1. CASE d = c
      BY <1>4, <1>3, <1>7, <2>2, <3>1
    <3>2. CASE d # c
      BY <2>1, <2>3, <3>2 DEF HangUpReachesOtherLeg
    <3> QED
      BY <3>1, <3>2
  <2> QED
    BY <2>4, <2>5
<1>15. AcceptFollowsAnswer' /\ AttachNeedsBothAnswers'
  BY <1>4 DEF AcceptFollowsAnswer, AttachNeedsBothAnswers
<1> QED
  BY <1>5, <1>9, <1>10, <1>11, <1>12, <1>13, <1>14, <1>15

LEMMA OnLeftConnectedIInv ==
    ASSUME IInv, NEW c \in Call, OnLeftConnected(c)
    PROVE  IInv'
<1> USE SessionFacts DEF IInv
<1>1. /\ queue' \in Seq(Event) /\ Ordered(queue') /\ Queued(queue, "connected", Left(c))
      /\ \A d \in Code, t \in Session :
            /\ Queued(queue', d, t) => Queued(queue, d, t)
            /\ Queued(queue, d, t) =>
                  Queued(queue', d, t) \/ (d = "connected" /\ t = Left(c))
  BY DeliversFacts DEF OnLeftConnected
<1>2. c \in peers /\ Left(c) \in answered /\ legState[Left(c)] \notin {"None", "Terminated"}
  BY <1>1, HasPeerFacts DEF OnLeftConnected, EventInv, CallInv
<1>3. /\ legState' \in [Session -> PeerState] /\ legState'[Left(c)] = "Connected"
      /\ \A t \in Session : t # Left(c) => legState'[t] = legState[t]
      /\ UNCHANGED <<dialog, answered, peers, opposite, digitsIn, digitsOut, crashed>>
  BY DEF OnLeftConnected, SetLegState, TypeOK, PeerState, digitVars
<1>4. /\ attached' \in {attached, attached \cup {c}}
      /\ c \in attached' /\ c \notin attached => legState[Right(c)] = "Connected"
      /\ legState[Right(c)] = "Connected" /\ c \notin attached' =>
            dialog[Right(c)] = "terminated"
  BY DEF OnLeftConnected, attachMediaProxyPlugins, MediaGone
<1>5. TypeOK'
  BY <1>1, <1>3, <1>4 DEF TypeOK
<1>6. EventInv'
  BY <1>1, <1>2, <1>3 DEF EventInv, Code, EndReport
<1>7. LegInv'
  BY <1>2, <1>3 DEF LegInv
<1>8. CallInv'
  BY <1>2, <1>3 DEF CallInv
<1>9. EndInv'
  BY <1>1, <1>2, <1>3 DEF EndInv, Code
<1>10. AttachInv'
  BY <1>2, <1>3, <1>4 DEF TypeOK, AttachInv
<1>11. AcceptFollowsAnswer' /\ AttachNeedsBothAnswers'
  BY <1>2, <1>3, <1>4 DEF AcceptFollowsAnswer, AttachNeedsBothAnswers, LegInv
<1>12. HangUpReachesOtherLeg'
  BY <1>2, <1>3 DEF TypeOK, HangUpReachesOtherLeg
<1> QED
  BY <1>1, <1>5, <1>6, <1>7, <1>8, <1>9, <1>10, <1>11, <1>12

LEMMA OnRightConnectedIInv ==
    ASSUME IInv, NEW c \in Call, OnRightConnected(c)
    PROVE  IInv'
<1> DEFINE Q == Tail(queue)
           l == Left(c)
           r == Right(c)
<1> USE SessionFacts DEF IInv
<1>1. /\ Q \in Seq(Event) /\ Ordered(Q) /\ Queued(queue, "connected", r)
      /\ \A d \in Code, t \in Session :
            /\ Queued(Q, d, t) => Queued(queue, d, t)
            /\ Queued(queue, d, t) => Queued(Q, d, t) \/ (d = "connected" /\ t = r)
  BY DeliversFacts DEF OnRightConnected
<1>2. c \in peers /\ r \in answered /\ legState[r] \notin {"None", "Terminated"}
  BY <1>1, HasPeerFacts DEF OnRightConnected, EventInv, CallInv
<1>3. /\ legState' \in [Session -> PeerState] /\ legState'[r] = "Connected"
      /\ \A t \in Session : t # r => legState'[t] = legState[t]
      /\ UNCHANGED <<peers, opposite, digitsIn, digitsOut, crashed>>
  BY DEF OnRightConnected, SetLegState, TypeOK, PeerState, digitVars
<1>4. /\ dialog' \in [Session -> DialogState]
      /\ \A t \in Session : t # l => dialog'[t] = dialog[t]
      /\ \/ dialog'[l] = dialog[l] /\ answered' = answered
         \/ dialog[l] = "incoming" /\ dialog'[l] = "connected" /\ answered' = answered \cup {l}
  BY DEF OnRightConnected, AcceptCaller, Accept, TypeOK, DialogState, Live
<1>5. /\ queue' \in Seq(Event) /\ Ordered(queue')
      /\ \A d \in Code, t \in Session :
            /\ Queued(Q, d, t) => Queued(queue', d, t)
            /\ Queued(queue', d, t) =>
                  \/ Queued(Q, d, t)
                  \/ d = "connected" /\ t = l /\ dialog[l] = "incoming" /\ l \in answered'
  <2>1. CASE Accept(l, Q)
    <3>1. dialog[l] = "incoming" => \A d \in EndReport : ~Queued(Q, d, l)
      BY <1>1 DEF EventInv, Over, Code, EndReport
    <3>2. dialog[l] = "incoming" => l \in answered'
      BY <2>1 DEF Accept
    <3>3. l \in Session
      OBVIOUS
    <3>4. /\ queue' \in Seq(Event) /\ Ordered(queue')
          /\ \A d \in Code, t \in Session :
                /\ Queued(Q, d, t) => Queued(queue', d, t)
                /\ Queued(queue', d, t) =>
                      Queued(Q, d, t) \/ (d = "connected" /\ t = l /\ dialog[l] = "incoming")
      <4> HIDE DEF Q, l
      <4> QED
        BY ONLY <1>1, <2>1, <3>1, <3>3, AcceptFacts
    <3> QED
      BY <3>2, <3>4
  <2>2. CASE queue' = Q
    BY <1>1, <2>2
  <2> QED
    BY <2>1, <2>2 DEF OnRightConnected, AcceptCaller
<1>6. /\ attached' \in {attached, attached \cup {c}}
      /\ c \in attached' /\ c \notin attached => legState[l] = "Connected"
      /\ legState[l] = "Connected" /\ c \notin attached' =>
            dialog'[r] = "terminated"
  BY DEF OnRightConnected, AcceptCaller, attachMediaProxyPlugins, MediaGone
<1> HIDE DEF Q
<1>7. TypeOK'
  BY <1>3, <1>4, <1>5, <1>6 DEF TypeOK
<1>8. EventInv'
  <2> SUFFICES ASSUME NEW t \in Session
               PROVE  /\ \A d \in Code : Queued(queue', d, t) => dialog'[t] # "idle"
                      /\ Queued(queue', "newcall", t) => t = Left(CallOf(t)) /\ legState'[t] = "None"
                      /\ Queued(queue', "connected", t) => t \in answered' /\ legState'[t] # "Terminated"
                      /\ \A d \in EndReport : Queued(queue', d, t) => dialog'[t] \in Over
    BY DEF EventInv
  <2>1. \A d \in Code : Queued(queue', d, t) => dialog'[t] # "idle"
    BY <1>1, <1>4, <1>5 DEF EventInv
  <2>2. Queued(queue', "newcall", t) => t = Left(CallOf(t)) /\ legState'[t] = "None"
    BY <1>1, <1>2, <1>3, <1>5 DEF EventInv, Code
  <2>3. Queued(queue', "connected", t) => t \in answered' /\ legState'[t] # "Terminated"
    BY <1>1, <1>3, <1>4, <1>5 DEF EventInv, LegInv, Code, Over
  <2>4. \A d \in EndReport : Queued(queue', d, t) => dialog'[t] \in Over
    BY <1>1, <1>4, <1>5 DEF EventInv, Code, EndReport, Over
  <2> QED
    BY <2>1, <2>2, <2>3, <2>4
<1>9. LegInv'
  BY <1>2, <1>3, <1>4 DEF LegInv, Over
<1>10. CallInv'
  BY <1>2, <1>3, <1>4 DEF CallInv
<1>11. EndInv'
  BY <1>1, <1>2, <1>3, <1>4, <1>5 DEF EndInv, Code
<1>12. AttachInv'
  <2> SUFFICES ASSUME NEW d \in peers' \ attached',
                      legState'[Left(d)] = "Connected", legState'[Right(d)] = "Connected"
               PROVE  dialog'[Right(d)] = "terminated"
    BY DEF AttachInv
  <2>1. d \in peers \ attached /\ d \in Call
    BY <1>3, <1>6 DEF TypeOK
  <2>2. CASE d = c
    <3>1. legState[l] = "Connected"
      BY <1>3, <2>2
    <3> QED
      BY ONLY <1>6, <2>2, <3>1
  <2>3. CASE d # c
    <3>1. /\ Left(d) \in Session /\ Right(d) \in Session
          /\ Left(d) # r /\ Right(d) # r /\ Right(d) # l
      BY ONLY <2>1, <2>3, SessionFacts
    <3>2. legState[Left(d)] = "Connected" /\ legState[Right(d)] = "Connected"
      BY <1>3, <3>1
    <3>3. dialog[Right(d)] = "terminated"
      BY <2>1, <3>2 DEF AttachInv
    <3> QED
      BY ONLY <1>4, <3>1, <3>3
  <2> QED
    BY <2>2, <2>3
<1>13. AcceptFollowsAnswer' /\ AttachNeedsBothAnswers'
  BY <1>2, <1>3, <1>4, <1>6 DEF AcceptFollowsAnswer, AttachNeedsBothAnswers, LegInv
<1>14. HangUpReachesOtherLeg'
  <2> SUFFICES ASSUME NEW d \in peers', NEW t \in {Left(d), Right(d)},
                      legState'[t] = "Terminated"
               PROVE  dialog'[Opposite(t)] \notin Live
    BY DEF HangUpReachesOtherLeg
  <2>1. d \in peers /\ d \in Call /\ t \in Session /\ t # r
    BY <1>3 DEF TypeOK
  <2>2. legState[t] = "Terminated" /\ Opposite(t) # l
    BY <1>3, <2>1
  <2>3. dialog[Opposite(t)] \notin Live
    BY <2>1, <2>2 DEF HangUpReachesOtherLeg
  <2> QED
    BY <1>4, <2>1, <2>2, <2>3
<1> QED
  BY <1>5, <1>7, <1>8, <1>9, <1>10, <1>11, <1>12, <1>13, <1>14

-----------------------------------------------------------------------------
(* The invariant and the properties it carries.                              *)

LEMMA StutterIInv == IInv /\ UNCHANGED vars => IInv'
BY DEF IInv, vars, dialogVars, peerVars, digitVars, TypeOK, EventInv, LegInv, CallInv,
       EndInv, AttachInv, AcceptFollowsAnswer, HangUpReachesOtherLeg, AttachNeedsBothAnswers

LEMMA NextIInv == IInv /\ [Next]_vars => IInv'
<1> SUFFICES ASSUME IInv, [Next]_vars PROVE IInv'
  OBVIOUS
<1>1. ASSUME NEW c \in Call, RemoteInvite(c) \/ RemoteAnswer(c) PROVE IInv'
  BY <1>1, RemoteInviteIInv, RemoteAnswerIInv
<1>2. ASSUME NEW s \in Session, RemoteEnd(s) \/ FinishDialog(s) \/ RemoteDigit(s) PROVE IInv'
  BY <1>2, DialogEndsIInv, RemoteDigitIInv
<1>3. ASSUME NEW c \in Call, BridgeCall(c) \/ RefuseCall(c) \/ RejectNull(c) PROVE IInv'
  BY <1>3, BridgeCallIInv, RefuseCallIInv, RejectNullIInv
<1>4. ASSUME NEW c \in Call, OnLeftConnected(c) \/ OnRightConnected(c) PROVE IInv'
  BY <1>4, OnLeftConnectedIInv, OnRightConnectedIInv
<1>5. ASSUME NEW s \in Session, OnTerminated(s) \/ RelayDigit(s) \/ IgnoreEvent(s) PROVE IInv'
  BY <1>5, OnTerminatedIInv, RelayDigitIInv, IgnoreEventIInv
<1>6. CASE UNCHANGED vars
  BY <1>6, StutterIInv
<1> QED
  BY <1>1, <1>2, <1>3, <1>4, <1>5, <1>6 DEF Next, Network, Dispatch

\* In every execution the dialogs, the peer table and the waiting reports agree.
THEOREM Agreement == Spec => []IInv
<1>1. Init => IInv
  BY InitIInv
<1>2. IInv /\ [Next]_vars => IInv'
  BY NextIInv
<1> QED
  BY <1>1, <1>2, PTL DEF Spec

\* Every variable keeps its type.
THEOREM TypeCorrect == Spec => []TypeOK
<1>1. IInv => TypeOK
  BY DEF IInv
<1> QED
  BY <1>1, Agreement, PTL

\* The caller is never answered before the callee.
THEOREM AcceptSafe == Spec => []AcceptFollowsAnswer
<1>1. IInv => AcceptFollowsAnswer
  BY DEF IInv
<1> QED
  BY <1>1, Agreement, PTL

\* A handled termination has reached the other leg.
THEOREM HangUpSafe == Spec => []HangUpReachesOtherLeg
<1>1. IInv => HangUpReachesOtherLeg
  BY DEF IInv
<1> QED
  BY <1>1, Agreement, PTL

\* Media is connected only between two endpoints that have answered.
THEOREM AttachSafe == Spec => []AttachNeedsBothAnswers
<1>1. IInv => AttachNeedsBothAnswers
  BY DEF IInv
<1> QED
  BY <1>1, Agreement, PTL

\* No dialog is left up when its peer leaves the table: both legs have then
\* been marked terminated, and LegInv says that both dialogs are over.
THEOREM OrphanFree == Spec => []NoOrphanDialog
<1>1. IInv => NoOrphanDialog
  BY SessionFacts DEF IInv, CallInv, LegInv, NoOrphanDialog, Live, Over
<1> QED
  BY <1>1, Agreement, PTL

\* A call without a peer holds no opposite reference.
THEOREM CycleFree == Spec => []NoReferenceCycle
<1>1. IInv => NoReferenceCycle
  BY SessionFacts DEF IInv, CallInv, LegInv, NoReferenceCycle
<1> QED
  BY <1>1, Agreement, PTL

\* Attaching is skipped only for a call whose end is already waiting.
THEOREM MissedAttachSafe == Spec => []MissedAttachMeansEnd
<1>1. IInv => MissedAttachMeansEnd
  <2> SUFFICES ASSUME IInv, NEW c \in peers \ attached,
                      \A s \in {Left(c), Right(c)} : legState[s] = "Connected"
               PROVE  \E i \in DOMAIN queue :
                         /\ queue[i].code = "terminated"
                         /\ queue[i].session = Right(c)
    BY DEF MissedAttachMeansEnd
  <2>1. dialog[Right(c)] = "terminated"
    BY DEF IInv, AttachInv
  <2>2. Queued(queue, "terminated", Right(c))
    BY <2>1, SessionFacts DEF IInv, TypeOK, EndInv
  <2>3. DOMAIN queue = 1..Len(queue)
    BY LenProperties DEF IInv, TypeOK
  <2> QED
    BY <2>2, <2>3 DEF Queued
<1> QED
  BY <1>1, Agreement, PTL

\* A terminated leg is never taken for a connected one again: only a
\* "connected" report or the INVITE itself could do it, and EventInv says that
\* neither is waiting.
THEOREM TerminationFinal == Spec => TerminatedIsFinal
<1> DEFINE Final == \A s \in Session :
                       legState[s] = "Terminated" => legState'[s] = "Terminated"
<1>1. IInv /\ [Next]_vars => Final
  <2> SUFFICES ASSUME IInv, [Next]_vars, NEW s \in Session, legState[s] = "Terminated"
               PROVE  legState'[s] = "Terminated"
    OBVIOUS
  <2> USE SessionFacts DEF IInv
  <2>1. ASSUME NEW c \in Call, BridgeCall(c) PROVE legState'[s] = "Terminated"
    <3>1. legState[Left(c)] = "None" /\ legState[Right(c)] = "None"
      BY <2>1, DeliversFacts DEF BridgeCall, EventInv, CallInv
    <3> QED
      BY <2>1, <3>1 DEF BridgeCall, TypeOK
  <2>2. ASSUME NEW c \in Call, OnLeftConnected(c) PROVE legState'[s] = "Terminated"
    <3>1. legState[Left(c)] # "Terminated"
      BY <2>2, DeliversFacts DEF OnLeftConnected, EventInv
    <3> QED
      BY <2>2, <3>1 DEF OnLeftConnected, SetLegState, TypeOK
  <2>3. ASSUME NEW c \in Call, OnRightConnected(c) PROVE legState'[s] = "Terminated"
    <3>1. legState[Right(c)] # "Terminated"
      BY <2>3, DeliversFacts DEF OnRightConnected, EventInv
    <3> QED
      BY <2>3, <3>1 DEF OnRightConnected, SetLegState, TypeOK
  <2>4. ASSUME NEW t \in Session, OnTerminated(t) PROVE legState'[s] = "Terminated"
    BY <2>4 DEF OnTerminated, SetLegState, TypeOK
  <2>5. CASE legState' = legState
    BY <2>5
  <2> QED
    BY <2>1, <2>2, <2>3, <2>4, <2>5 DEF Next, Network, Dispatch, RemoteInvite, RemoteAnswer,
       RemoteEnd, FinishDialog, RemoteDigit, RefuseCall, RejectNull, RelayDigit, IgnoreEvent,
       vars, peerVars
<1> QED
  BY <1>1, Agreement, PTL DEF Spec, TerminatedIsFinal

-----------------------------------------------------------------------------
(* Digits: an event pays for every one that is relayed.                      *)

\* The places of the queue q where a digit of s waits.
DigitsAt(q, s) == {i \in 1..Len(q) : q[i] = [code |-> "info", session |-> s]}

\* A queue holds a finite number of digits.
LEMMA DigitsAreFinite ==
    ASSUME NEW q \in Seq(Event), NEW s
    PROVE  IsFiniteSet(DigitsAt(q, s)) /\ Cardinality(DigitsAt(q, s)) \in Nat
<1>1. Len(q) \in Nat
  BY LenProperties
<1>2. IsFiniteSet(1..Len(q))
  BY <1>1, FS_Interval
<1>3. DigitsAt(q, s) \in SUBSET (1..Len(q))
  BY DEF DigitsAt
<1>4. IsFiniteSet(DigitsAt(q, s))
  BY <1>2, <1>3, FS_Subset
<1> QED
  BY <1>4, FS_CardinalityType

\* A report behind the queue adds a digit of s if it is one.
LEMMA DigitsSignalled ==
    ASSUME NEW q \in Seq(Event), NEW code \in Code, NEW t \in Session, NEW s \in Session
    PROVE  Cardinality(DigitsAt(Signal(q, code, t), s)) =
              Cardinality(DigitsAt(q, s)) + (IF code = "info" /\ t = s THEN 1 ELSE 0)
<1> DEFINE e == [code |-> code, session |-> t]
           r == Signal(q, code, t)
<1>1. /\ Len(q) \in Nat
      /\ Len(r) = Len(q) + 1
      /\ \A i \in 1..Len(q) : r[i] = q[i]
      /\ r[Len(q) + 1] = e
  <2>1. e \in Event
    BY DEF Event
  <2> QED
    BY <2>1, AppendProperties, LenProperties DEF Signal
<1> HIDE DEF r
<1>2. e = [code |-> "info", session |-> s] <=> code = "info" /\ t = s
  OBVIOUS
<1>3. Len(q) + 1 \notin DigitsAt(q, s)
  BY <1>1 DEF DigitsAt
<1>4. CASE code = "info" /\ t = s
  <2>1. DigitsAt(r, s) = DigitsAt(q, s) \cup {Len(q) + 1}
    BY <1>1, <1>2, <1>4 DEF DigitsAt
  <2> QED
    BY <1>3, <1>4, <2>1, DigitsAreFinite, FS_AddElement DEF r
<1>5. CASE ~(code = "info" /\ t = s)
  <2>1. DigitsAt(r, s) = DigitsAt(q, s)
    BY <1>1, <1>2, <1>5 DEF DigitsAt
  <2>2. Cardinality(DigitsAt(q, s)) \in Nat
    BY DigitsAreFinite
  <2> QED
    BY <1>5, <2>1, <2>2 DEF r
<1> QED
  BY <1>4, <1>5

\* Delivering the head takes away a digit of s if the head is one.
LEMMA DigitsDelivered ==
    ASSUME NEW q \in Seq(Event), q # <<>>, NEW s \in Session
    PROVE  Cardinality(DigitsAt(Tail(q), s)) =
              Cardinality(DigitsAt(q, s))
              - (IF Head(q) = [code |-> "info", session |-> s] THEN 1 ELSE 0)
<1> DEFINE r == Tail(q)
           behind == DigitsAt(q, s) \ {1}
           f == [i \in behind |-> i - 1]
<1>1. /\ Len(q) \in Nat /\ Len(q) >= 1
      /\ Len(r) = Len(q) - 1
      /\ \A i \in 1..Len(r) : r[i] = q[i + 1]
      /\ Head(q) = q[1]
  BY HeadTailProperties, LenProperties, EmptySeq
<1> HIDE DEF r
<1>2. /\ IsFiniteSet(behind)
      /\ Cardinality(behind) = IF 1 \in DigitsAt(q, s) THEN Cardinality(DigitsAt(q, s)) - 1
                                                       ELSE Cardinality(DigitsAt(q, s))
  BY DigitsAreFinite, FS_RemoveElement
<1>3. 1 \in DigitsAt(q, s) <=> Head(q) = [code |-> "info", session |-> s]
  BY <1>1 DEF DigitsAt
<1>4. \A i \in behind : i \in Int /\ i - 1 \in DigitsAt(r, s)
  BY <1>1 DEF DigitsAt
<1>5. \A j \in DigitsAt(r, s) : j \in Int /\ j + 1 \in behind
  BY <1>1 DEF DigitsAt
<1>6. f \in Bijection(behind, DigitsAt(r, s))
  <2> HIDE DEF behind
  <2>1. f \in [behind -> DigitsAt(r, s)]
    BY <1>4
  <2>2. \A i, j \in behind : f[i] = f[j] => i = j
    BY <1>4
  <2>3. \A j \in DigitsAt(r, s) : \E i \in behind : f[i] = j
    <3> TAKE j \in DigitsAt(r, s)
    <3>1. j + 1 \in behind /\ f[j + 1] = j
      BY <1>5
    <3> QED
      BY <3>1
  <2> QED
    BY <2>1, <2>2, <2>3, Fun_IsBij
<1>7. Cardinality(DigitsAt(r, s)) = Cardinality(behind)
  BY <1>2, <1>6, FS_Bijection DEF ExistsBijection
<1>8. Cardinality(DigitsAt(q, s)) \in Nat
  BY DigitsAreFinite
<1> QED
  BY <1>2, <1>3, <1>7, <1>8 DEF r

\* The digits of s that were relayed or wait are no more than those it sent.
Paid(s) == digitsOut[Opposite(s)] + Cardinality(DigitsAt(queue, s)) <= digitsIn[s]

\* Reports that are not digits, and deliveries, leave no more digits waiting.
LEMMA NoNewDigits ==
    ASSUME TypeOK, NEW q \in Seq(Event), NEW s \in Session,
           Cardinality(DigitsAt(q, s)) <= Cardinality(DigitsAt(queue, s)),
           queue' = q \/ \E code \in Code \ {"info"}, t \in Session : queue' = Signal(q, code, t),
           Paid(s), UNCHANGED digitVars
    PROVE  Paid(s)'
<1>1. Cardinality(DigitsAt(queue', s)) = Cardinality(DigitsAt(q, s))
  <2>1. CASE queue' = q
    BY <2>1
  <2>2. ASSUME NEW code \in Code \ {"info"}, NEW t \in Session, queue' = Signal(q, code, t)
        PROVE  Cardinality(DigitsAt(queue', s)) = Cardinality(DigitsAt(q, s))
    BY <2>2, DigitsSignalled, DigitsAreFinite
  <2> QED
    BY <2>1, <2>2
<1>2. Cardinality(DigitsAt(q, s)) \in Nat /\ Cardinality(DigitsAt(queue, s)) \in Nat
  BY DigitsAreFinite DEF TypeOK
<1>3. digitsOut[Opposite(s)] \in Nat /\ digitsIn[s] \in Nat
  BY SessionFacts, MaxDigitsAssumption DEF TypeOK
<1>4. digitsOut' = digitsOut /\ digitsIn' = digitsIn
  BY DEF digitVars
<1>5. digitsOut[Opposite(s)] + Cardinality(DigitsAt(queue', s)) <= digitsIn[s]
  BY <1>1, <1>2, <1>3 DEF Paid
<1> QED
  BY <1>4, <1>5 DEF Paid, Opposite

\* Every step keeps the account.
LEMMA NextPaid ==
    ASSUME IInv, [Next]_vars, NEW s \in Session, Paid(s)
    PROVE  Paid(s)'
<1> USE SessionFacts
<1>1. TypeOK /\ queue \in Seq(Event)
  BY DEF IInv, TypeOK
<1>count. Cardinality(DigitsAt(queue, s)) \in Nat
  BY <1>1, DigitsAreFinite
<1>2. ASSUME NEW code, NEW t, Delivers(code, t)
      PROVE  /\ Tail(queue) \in Seq(Event) /\ code \in Code /\ t \in Session
             /\ Cardinality(DigitsAt(Tail(queue), s)) =
                   Cardinality(DigitsAt(queue, s)) - (IF code = "info" /\ t = s THEN 1 ELSE 0)
             /\ Cardinality(DigitsAt(Tail(queue), s)) <= Cardinality(DigitsAt(queue, s))
  <2>1. queue # <<>> /\ Head(queue) = [code |-> code, session |-> t]
    BY <1>2 DEF Delivers
  <2>2. Tail(queue) \in Seq(Event) /\ code \in Code /\ t \in Session
    BY <1>1, <2>1, TailFacts DEF IInv
  <2>3. Head(queue) = [code |-> "info", session |-> s] <=> code = "info" /\ t = s
    BY <2>1
  <2> QED
    BY <1>1, <2>1, <2>2, <2>3, DigitsDelivered, DigitsAreFinite
<1>3. ASSUME NEW code, NEW t, Delivers(code, t), UNCHANGED digitVars,
             \/ queue' = Tail(queue)
             \/ \E d \in Code \ {"info"}, u \in Session : queue' = Signal(Tail(queue), d, u)
      PROVE  Paid(s)'
  BY <1>1, <1>2, <1>3, NoNewDigits
<1>4. ASSUME UNCHANGED digitVars,
             \/ queue' = queue
             \/ \E d \in Code \ {"info"}, u \in Session : queue' = Signal(queue, d, u)
      PROVE  Paid(s)'
  <2>1. Cardinality(DigitsAt(queue, s)) <= Cardinality(DigitsAt(queue, s))
    BY <1>1, DigitsAreFinite
  <2> QED
    BY <1>1, <1>4, <2>1, NoNewDigits
<1>5. {"newcall", "connected", "terminating", "terminated"} \subseteq Code \ {"info"}
  BY DEF Code
<1>6. ASSUME NEW c \in Call, RemoteInvite(c) \/ RemoteAnswer(c) PROVE Paid(s)'
  BY <1>4, <1>5, <1>6 DEF RemoteInvite, RemoteAnswer, digitVars
<1>7. ASSUME NEW t \in Session, RemoteEnd(t) \/ FinishDialog(t) PROVE Paid(s)'
  BY <1>4, <1>5, <1>7 DEF RemoteEnd, FinishDialog, digitVars
<1>8. ASSUME NEW t \in Session, RemoteDigit(t) PROVE Paid(s)'
  <2>1. "info" \in Code /\ queue' = Signal(queue, "info", t)
    BY <1>8 DEF RemoteDigit, Code
  <2>2. Cardinality(DigitsAt(queue', s)) =
           Cardinality(DigitsAt(queue, s)) + (IF t = s THEN 1 ELSE 0)
    BY <1>1, <2>1, DigitsSignalled
  <2>3. digitsIn'[s] = digitsIn[s] + (IF t = s THEN 1 ELSE 0) /\ digitsOut' = digitsOut
    BY <1>1, <1>8, MaxDigitsAssumption DEF RemoteDigit, TypeOK
  <2>4. digitsIn[s] \in Nat /\ digitsOut[Opposite(s)] \in Nat
    BY <1>1, MaxDigitsAssumption DEF TypeOK
  <2> USE <1>count
  <2>5. digitsOut'[Opposite(s)] + Cardinality(DigitsAt(queue', s)) <= digitsIn'[s]
    BY <2>2, <2>3, <2>4 DEF Paid
  <2> QED
    BY <2>5 DEF Paid, Opposite
<1>9. ASSUME NEW c \in Call, BridgeCall(c) \/ RejectNull(c) \/ OnLeftConnected(c) PROVE Paid(s)'
  BY <1>3, <1>9 DEF BridgeCall, RejectNull, OnLeftConnected, digitVars
<1>10. ASSUME NEW c \in Call, RefuseCall(c) PROVE Paid(s)'
  BY <1>3, <1>5, <1>10 DEF RefuseCall, HangUp
<1>11. ASSUME NEW c \in Call, OnRightConnected(c) PROVE Paid(s)'
  BY <1>3, <1>5, <1>11 DEF OnRightConnected, AcceptCaller, Accept
<1>12. ASSUME NEW t \in Session, OnTerminated(t) PROVE Paid(s)'
  BY <1>3, <1>5, <1>12 DEF OnTerminated, SurvivingLeg, HangUp
<1>13. ASSUME NEW t \in Session, RelayDigit(t) PROVE Paid(s)'
  <2>1. /\ Delivers("info", t) /\ queue' = Tail(queue) /\ digitsIn' = digitsIn
        /\ \/ digitsOut' = [digitsOut EXCEPT ![Opposite(t)] = @ + 1]
           \/ UNCHANGED digitsOut
    BY <1>13 DEF RelayDigit, ReceiverOfDigit
  <2>2. Cardinality(DigitsAt(queue', s)) =
           Cardinality(DigitsAt(queue, s)) - (IF t = s THEN 1 ELSE 0)
    BY <1>2, <2>1
  <2>3. Opposite(t) = Opposite(s) => t = s
    BY DEF Opposite
  <2>4. /\ digitsOut[Opposite(s)] \in Nat
        /\ digitsOut'[Opposite(s)] <= digitsOut[Opposite(s)] + (IF t = s THEN 1 ELSE 0)
        /\ digitsOut'[Opposite(s)] \in Nat
    <3>1. digitsOut \in [Session -> Nat] /\ Opposite(s) \in Session /\ Opposite(t) \in Session
      BY <1>1 DEF TypeOK
    <3> HIDE DEF TypeOK
    <3>2. CASE digitsOut' = [digitsOut EXCEPT ![Opposite(t)] = @ + 1]
      BY <2>3, <3>1, <3>2
    <3>3. CASE UNCHANGED digitsOut
      BY <3>1, <3>3
    <3> QED
      BY <2>1, <3>2, <3>3
  <2>5. digitsIn[s] \in Nat
    BY <1>1, MaxDigitsAssumption DEF TypeOK
  <2> USE <1>count
  <2>6. digitsOut'[Opposite(s)] + Cardinality(DigitsAt(queue', s)) <= digitsIn'[s]
    BY <2>1, <2>2, <2>4, <2>5 DEF Paid
  <2> QED
    BY <2>6 DEF Paid, Opposite
<1>14. ASSUME NEW t \in Session, IgnoreEvent(t) PROVE Paid(s)'
  <2>1. Head(queue) \in Event
    BY <1>1, <1>14, HeadTailProperties DEF IgnoreEvent
  <2>2. Head(queue) = [code |-> Head(queue).code, session |-> Head(queue).session]
    BY <2>1 DEF Event
  <2> QED
    BY <1>3, <1>14, <2>2 DEF IgnoreEvent, Delivers
<1>15. CASE UNCHANGED vars
  BY <1>4, <1>15 DEF vars, dialogVars
<1> QED
  BY <1>6, <1>7, <1>8, <1>9, <1>10, <1>11, <1>12, <1>13, <1>14, <1>15 DEF Next, Network, Dispatch

\* However many digits both endpoints send, and whatever ends in between, every digit
\* that is relayed was sent by the other endpoint and is relayed once.
THEOREM DigitsSafe == Spec => []DigitsNotDuplicated
<1> DEFINE AllPaid == \A s \in Session : Paid(s)
<1>1. Init => AllPaid
  <2> SUFFICES ASSUME Init, NEW s \in Session PROVE Paid(s)
    OBVIOUS
  <2>1. Len(queue) = 0
    BY EmptySeq DEF Init
  <2>2. DigitsAt(queue, s) = {}
    BY <2>1 DEF DigitsAt
  <2>3. Cardinality(DigitsAt(queue, s)) = 0
    BY <2>2, FS_EmptySet
  <2> QED
    BY <2>3, SessionFacts DEF Init, Paid
<1>2. IInv /\ AllPaid /\ [Next]_vars => AllPaid'
  <2> SUFFICES ASSUME IInv, AllPaid, [Next]_vars, NEW s \in Session PROVE Paid(s)'
    OBVIOUS
  <2> QED
    BY NextPaid
<1>3. IInv /\ AllPaid => DigitsNotDuplicated
  <2> SUFFICES ASSUME IInv, AllPaid, NEW s \in Session
               PROVE  digitsOut[Opposite(s)] + Cardinality(Pending(s)) <= digitsIn[s]
    BY DEF DigitsNotDuplicated
  <2>1. DOMAIN queue = 1..Len(queue)
    BY LenProperties DEF IInv, TypeOK
  <2> QED
    BY <2>1 DEF Paid, Pending, DigitsAt
<1> QED
  BY <1>1, <1>2, <1>3, Agreement, PTL DEF Spec

-----------------------------------------------------------------------------
(* Bridge implements TwoLegCall.                                             *)

\* One dialog moves from one state to another, no other changes.
Moves(s, from, to) ==
    /\ dialog[s] \in from
    /\ dialog' = [dialog EXCEPT ![s] = to]

\* What a step can do to the dialogs of call c and to who has answered.
CallMoves(c) ==
    \/ Moves(Left(c), {"idle"}, "incoming") /\ answered' = answered
    \/ /\ Moves(Right(c), {"idle"}, "trying") /\ answered' = answered
       /\ dialog[Left(c)] # "idle"
    \/ Moves(Right(c), {"trying"}, "connected") /\ answered' = answered \cup {Right(c)}
    \/ /\ Moves(Left(c), {"incoming"}, "connected") /\ answered' = answered \cup {Left(c)}
       /\ Right(c) \in answered

SessionEnds(s) ==
    /\ Moves(s, Live, "terminated") \/ Moves(s, Live, "terminating")
       \/ Moves(s, {"terminating"}, "terminated")
    /\ answered' = answered

LEMMA StepMoves ==
    ASSUME IInv, [Next]_vars
    PROVE  \/ UNCHANGED <<dialog, answered>>
           \/ \E c \in Call : CallMoves(c)
           \/ \E s \in Session : SessionEnds(s)
<1> USE SessionFacts DEF Moves, CallMoves, SessionEnds
<1>1. ASSUME NEW c \in Call, RemoteInvite(c) \/ RemoteAnswer(c) PROVE CallMoves(c)
  BY <1>1 DEF RemoteInvite, RemoteAnswer
<1>2. ASSUME NEW s \in Session, RemoteEnd(s) \/ FinishDialog(s) PROVE SessionEnds(s)
  BY <1>2 DEF RemoteEnd, FinishDialog
<1>3. ASSUME NEW c \in Call, BridgeCall(c)
      PROVE  UNCHANGED <<dialog, answered>> \/ CallMoves(c)
  <2>1. legState[Left(c)] = "None" /\ dialog[Left(c)] # "idle"
    BY <1>3, DeliversFacts DEF IInv, BridgeCall, EventInv, Code
  <2>2. dialog[Right(c)] = "idle"
    BY <2>1 DEF IInv, CallInv
  <2> QED
    BY <1>3, <2>1, <2>2 DEF BridgeCall, Dial
<1>4. ASSUME NEW c \in Call, RefuseCall(c)
      PROVE  UNCHANGED <<dialog, answered>> \/ SessionEnds(Left(c))
  BY <1>4 DEF RefuseCall, HangUp
<1>5. ASSUME NEW c \in Call, OnRightConnected(c)
      PROVE  UNCHANGED <<dialog, answered>> \/ CallMoves(c)
  <2>1. Right(c) \in answered
    BY <1>5, DeliversFacts DEF IInv, OnRightConnected, EventInv
  <2> QED
    BY <1>5, <2>1 DEF OnRightConnected, AcceptCaller, Accept
<1>6. ASSUME NEW s \in Session, OnTerminated(s)
      PROVE  UNCHANGED <<dialog, answered>> \/ SessionEnds(Opposite(s))
  BY <1>6 DEF OnTerminated, SurvivingLeg, HangUp
<1>7. CASE UNCHANGED <<dialog, answered>>
  BY <1>7
<1> QED
  BY <1>1, <1>2, <1>3, <1>4, <1>5, <1>6, <1>7 DEF Next, Network, Dispatch, RemoteDigit,
     RejectNull, RelayDigit, OnLeftConnected, IgnoreEvent, vars, dialogVars

LEMMA PhaseFacts ==
    /\ PhaseOf("idle") = "idle"
    /\ PhaseOf("incoming") = "ringing" /\ PhaseOf("trying") = "ringing"
    /\ PhaseOf("connected") = "talking"
    /\ PhaseOf("terminating") = "over" /\ PhaseOf("terminated") = "over"
BY DEF PhaseOf

\* The promise's view of the two dialogs of a call.
Caller == [c \in Call |-> PhaseOf(dialog[Left(c)])]
Callee == [c \in Call |-> PhaseOf(dialog[Right(c)])]
PickedUp == {c \in Call : Right(c) \in answered}

LEMMA CallerMoves ==
    ASSUME dialog \in [Session -> DialogState], NEW c \in Call, NEW from, NEW to,
           Moves(Left(c), from, to)
    PROVE  /\ Caller[c] = PhaseOf(dialog[Left(c)])
           /\ Caller' = [Caller EXCEPT ![c] = PhaseOf(to)]
           /\ Callee' = Callee
<1> USE SessionFacts DEF Moves
<1>1. \A e \in Call : dialog'[Left(e)] = IF e = c THEN to ELSE dialog[Left(e)]
  OBVIOUS
<1>2. \A e \in Call : dialog'[Right(e)] = dialog[Right(e)]
  OBVIOUS
<1>3. Callee' = Callee
  BY <1>2 DEF Callee
<1>4. Caller' = [e \in Call |-> IF e = c THEN PhaseOf(to) ELSE Caller[e]]
  BY <1>1 DEF Caller
<1>5. [Caller EXCEPT ![c] = PhaseOf(to)] = [e \in Call |-> IF e = c THEN PhaseOf(to) ELSE Caller[e]]
  BY DEF Caller
<1> QED
  BY <1>3, <1>4, <1>5 DEF Caller

LEMMA CalleeMoves ==
    ASSUME dialog \in [Session -> DialogState], NEW c \in Call, NEW from, NEW to,
           Moves(Right(c), from, to)
    PROVE  /\ Callee[c] = PhaseOf(dialog[Right(c)])
           /\ Callee' = [Callee EXCEPT ![c] = PhaseOf(to)]
           /\ Caller' = Caller
<1> USE SessionFacts DEF Moves
<1>1. \A e \in Call : dialog'[Right(e)] = IF e = c THEN to ELSE dialog[Right(e)]
  OBVIOUS
<1>2. \A e \in Call : dialog'[Left(e)] = dialog[Left(e)]
  OBVIOUS
<1>3. Caller' = Caller
  BY <1>2 DEF Caller
<1>4. Callee' = [e \in Call |-> IF e = c THEN PhaseOf(to) ELSE Callee[e]]
  BY <1>1 DEF Callee
<1>5. [Callee EXCEPT ![c] = PhaseOf(to)] = [e \in Call |-> IF e = c THEN PhaseOf(to) ELSE Callee[e]]
  BY DEF Callee
<1> QED
  BY <1>3, <1>4, <1>5 DEF Callee

LEMMA StepIsPromised ==
    ASSUME IInv, [Next]_vars
    PROVE  [Promise!Next]_(Promise!vars)
<1> USE SessionFacts, PhaseFacts
<1>1. dialog \in [Session -> DialogState]
  BY DEF IInv, TypeOK
<1>2. ASSUME UNCHANGED <<dialog, answered>> PROVE UNCHANGED <<Caller, Callee, PickedUp>>
  BY <1>2 DEF Caller, Callee, PickedUp
<1>3. ASSUME NEW c \in Call, Moves(Left(c), {"idle"}, "incoming"), answered' = answered
      PROVE  Promise!Ring(c)
  <2>0. dialog[Left(c)] = "idle"
    BY <1>3 DEF Moves
  <2>1. Caller[c] = "idle" /\ Caller' = [Caller EXCEPT ![c] = "ringing"] /\ Callee' = Callee
    BY <1>1, <1>3, <2>0, CallerMoves
  <2>2. PickedUp' = PickedUp
    BY <1>3 DEF PickedUp
  <2> QED
    BY <2>1, <2>2 DEF Promise!Ring, Caller, Callee, PickedUp
<1>4. ASSUME NEW c \in Call, Moves(Right(c), {"idle"}, "trying"), answered' = answered,
             dialog[Left(c)] # "idle"
      PROVE  Promise!Dial(c)
  <2>0. dialog[Right(c)] = "idle"
    BY <1>4 DEF Moves
  <2>1. Callee[c] = "idle" /\ Callee' = [Callee EXCEPT ![c] = "ringing"] /\ Caller' = Caller
    BY <1>1, <1>4, <2>0, CalleeMoves
  <2>2. Caller[c] # "idle" /\ PickedUp' = PickedUp
    BY <1>1, <1>4 DEF Caller, PickedUp, DialogState, Live, Over
  <2> QED
    BY <2>1, <2>2 DEF Promise!Dial, Caller, Callee, PickedUp
<1>5. ASSUME NEW c \in Call, Moves(Right(c), {"trying"}, "connected"),
             answered' = answered \cup {Right(c)}
      PROVE  Promise!PickUp(c)
  <2>0. dialog[Right(c)] = "trying"
    BY <1>5 DEF Moves
  <2>1. /\ Callee[c] = "ringing" /\ Callee' = [Callee EXCEPT ![c] = "talking"]
        /\ Caller' = Caller
    BY <1>1, <1>5, <2>0, CalleeMoves
  <2>2. PickedUp' = PickedUp \cup {c}
    BY <1>5 DEF PickedUp
  <2> QED
    BY <2>1, <2>2 DEF Promise!PickUp, Caller, Callee, PickedUp
<1>6. ASSUME NEW c \in Call, Moves(Left(c), {"incoming"}, "connected"),
             answered' = answered \cup {Left(c)}, Right(c) \in answered
      PROVE  Promise!Connect(c)
  <2>0. dialog[Left(c)] = "incoming"
    BY <1>6 DEF Moves
  <2>1. /\ Caller[c] = "ringing" /\ Caller' = [Caller EXCEPT ![c] = "talking"]
        /\ Callee' = Callee
    BY <1>1, <1>6, <2>0, CallerMoves
  <2>2. PickedUp' = PickedUp /\ c \in PickedUp
    BY <1>6 DEF PickedUp
  <2> QED
    BY <2>1, <2>2 DEF Promise!Connect, Caller, Callee, PickedUp
<1>7. ASSUME NEW s \in Session, SessionEnds(s)
      PROVE  \/ \E c \in Call : Promise!EndCaller(c) \/ Promise!EndCallee(c)
             \/ UNCHANGED <<Caller, Callee, PickedUp>>
  <2>1. PickedUp' = PickedUp
    BY <1>7 DEF SessionEnds, PickedUp
  <2>2. PICK from \in {Live, {"terminating"}}, to \in Over : Moves(s, from, to)
    BY <1>7 DEF SessionEnds, Over
  <2>3. PhaseOf(to) = "over" /\ (dialog[s] \in Live \/ dialog[s] = "terminating")
    BY <2>2 DEF Over, Moves
  <2>4. dialog[s] \in Live => PhaseOf(dialog[s]) \in {"ringing", "talking"}
    BY DEF Live
  <2>5. CASE s = Left(CallOf(s))
    <3>1. /\ Caller[CallOf(s)] = PhaseOf(dialog[s])
          /\ Caller' = [Caller EXCEPT ![CallOf(s)] = "over"] /\ Callee' = Callee
      BY <1>1, <2>2, <2>3, <2>5, CallerMoves
    <3>2. CASE dialog[s] \in Live
      BY <2>1, <2>4, <3>1, <3>2 DEF Promise!EndCaller, Promise!InCall, Caller, Callee, PickedUp
    <3>3. CASE dialog[s] = "terminating"
      BY <2>1, <3>1, <3>3 DEF Caller
    <3> QED
      BY <2>3, <3>2, <3>3
  <2>6. CASE s = Right(CallOf(s))
    <3>1. /\ Callee[CallOf(s)] = PhaseOf(dialog[s])
          /\ Callee' = [Callee EXCEPT ![CallOf(s)] = "over"] /\ Caller' = Caller
      BY <1>1, <2>2, <2>3, <2>6, CalleeMoves
    <3>2. CASE dialog[s] \in Live
      BY <2>1, <2>4, <3>1, <3>2 DEF Promise!EndCallee, Promise!InCall, Caller, Callee, PickedUp
    <3>3. CASE dialog[s] = "terminating"
      BY <2>1, <3>1, <3>3 DEF Callee
    <3> QED
      BY <2>3, <3>2, <3>3
  <2> QED
    BY <2>5, <2>6
<1> QED
  BY <1>2, <1>3, <1>4, <1>5, <1>6, <1>7, StepMoves
     DEF CallMoves, Promise!Next, Promise!vars, Caller, Callee, PickedUp

\* Every execution of the gateway is, to its endpoints, one the promise allows.
THEOREM Refinement == Spec => StepsArePromised
<1>1. Init => Promise!Init
  BY SessionFacts, PhaseFacts DEF Init, Promise!Init
<1>2. IInv /\ [Next]_vars => [Promise!Next]_(Promise!vars)
  BY StepIsPromised
<1> QED
  BY <1>1, <1>2, Agreement, PTL DEF Spec, StepsArePromised, Promise!Safety

=============================================================================
