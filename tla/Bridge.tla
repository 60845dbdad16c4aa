-------------------------------- MODULE Bridge --------------------------------
(***************************************************************************)
(* The heart of webrtc2sip: a back-to-back user agent.  Every INVITE the    *)
(* SIP stack delivers (the left leg) makes the gateway place a second call  *)
(* (the right leg); an MPPeer in the engine's table ties the two together.  *)
(* The module models MPSipCallback::OnInviteEvent and OnDialogEvent         *)
(* (mp_wrap.cc), the peer table (mp_engine.cc), MPPeer (mp_peer.cc, .h)    *)
(* and the states and opposite references of MPSipSessionAV.               *)
(*                                                                         *)
(* The Doubango SIP stack is external: its dialogs change under the network *)
(* and under the gateway's commands (call, accept, reject, hangup), and it  *)
(* reports every change through one FIFO queue of events.  stack_callback   *)
(* holds the stack's lock while it runs a handler, so a handler is one step.*)
(***************************************************************************)
EXTENDS Naturals, Sequences, FiniteSets

CONSTANTS
    Call,           \* the INVITEs the gateway may receive
    Requests,       \* what those INVITEs can ask: a subset of RequestKind
    CallMayFail,    \* whether CallSession::call may return false
    MediaMayBeGone, \* whether a dialog that is over may have lost its media manager
    MaxDigits       \* bound: DTMF digits each endpoint sends

\* "bridgeable": the INVITE names a destination and offers audio or video.
\* "refused": a click-to-call INVITE that one of the account checks refuses.
\* "unserviceable": no destination, no media manager, or no audio and no video.
RequestKind == {"bridgeable", "refused", "unserviceable"}

ASSUME RequestsAssumption == Requests \subseteq RequestKind
ASSUME FailureAssumption == CallMayFail \in BOOLEAN /\ MediaMayBeGone \in BOOLEAN
ASSUME MaxDigitsAssumption == MaxDigits \in Nat

VARIABLES
    dialog,     \* [Session -> DialogState]: the stack's dialogs (external)
    queue,      \* events the stack has not yet delivered (external)
    answered,   \* sessions whose dialog has ever been connected (history)
    peers,      \* MPEngine::m_Peers: the calls that have an entry
    legState,   \* [Session -> PeerState]: MPPeer's left and right leg states
    opposite,   \* sessions whose m_oSessionOpposite is set
    attached,   \* calls whose media plugins have been cross-connected
    digitsIn,   \* [Session -> Nat]: digits received from an endpoint (history)
    digitsOut,  \* [Session -> Nat]: digits relayed to an endpoint (history)
    crashed     \* the process dereferenced the NULL session and died

dialogVars == <<dialog, queue, answered>>
peerVars   == <<peers, legState, opposite, attached>>
digitVars  == <<digitsIn, digitsOut>>
vars       == <<dialogVars, peerVars, digitVars, crashed>>

-----------------------------------------------------------------------------
(* Sessions, dialogs and events.                                             *)

Leg     == {"left", "right"}
Session == Call \X Leg
Left(c)  == <<c, "left">>
Right(c) == <<c, "right">>
CallOf(s)   == s[1]
Opposite(s) == IF s = Left(CallOf(s)) THEN Right(CallOf(s)) ELSE Left(CallOf(s))

PeerState   == {"None", "Connecting", "Connected", "Terminated"}
Live        == {"incoming", "trying", "connected"}
Over        == {"terminating", "terminated"}
DialogState == {"idle"} \cup Live \cup Over

Code  == {"newcall", "connected", "terminating", "terminated", "info"}
Event == [code : Code, session : Session]

\* The queue q with the stack's report `code` about session s behind it.
Signal(q, code, s) == Append(q, [code |-> code, session |-> s])

TypeOK ==
    /\ dialog \in [Session -> DialogState]
    /\ queue \in Seq(Event)
    /\ answered \subseteq Session
    /\ peers \subseteq Call
    /\ legState \in [Session -> PeerState]
    /\ opposite \subseteq Session
    /\ attached \subseteq Call
    /\ digitsIn \in [Session -> 0..MaxDigits]
    /\ digitsOut \in [Session -> Nat]
    /\ crashed \in BOOLEAN

Init ==
    /\ dialog = [s \in Session |-> "idle"]
    /\ queue = <<>>
    /\ answered = {}
    /\ peers = {}
    /\ legState = [s \in Session |-> "None"]
    /\ opposite = {}
    /\ attached = {}
    /\ digitsIn = [s \in Session |-> 0]
    /\ digitsOut = [s \in Session |-> 0]
    /\ crashed = FALSE

-----------------------------------------------------------------------------
(* The network and the SIP stack (external).                                 *)

\* An endpoint calls the gateway.
RemoteInvite(c) ==
    /\ ~crashed
    /\ dialog[Left(c)] = "idle"
    /\ dialog' = [dialog EXCEPT ![Left(c)] = "incoming"]
    /\ queue' = Signal(queue, "newcall", Left(c))
    /\ UNCHANGED <<answered, peerVars, digitVars, crashed>>

\* The called endpoint picks up.
RemoteAnswer(c) ==
    /\ ~crashed
    /\ dialog[Right(c)] = "trying"
    /\ dialog' = [dialog EXCEPT ![Right(c)] = "connected"]
    /\ queue' = Signal(queue, "connected", Right(c))
    /\ answered' = answered \cup {Right(c)}
    /\ UNCHANGED <<peerVars, digitVars, crashed>>

\* An endpoint cancels, refuses or hangs up, or a transaction times out.
RemoteEnd(s) ==
    /\ ~crashed
    /\ dialog[s] \in Live
    /\ dialog' = [dialog EXCEPT ![s] = "terminated"]
    /\ queue' = Signal(queue, "terminated", s)
    /\ UNCHANGED <<answered, peerVars, digitVars, crashed>>

\* A dialog the gateway is hanging up or rejecting comes to its end.
FinishDialog(s) ==
    /\ ~crashed
    /\ dialog[s] = "terminating"
    /\ dialog' = [dialog EXCEPT ![s] = "terminated"]
    /\ queue' = Signal(queue, "terminated", s)
    /\ UNCHANGED <<answered, peerVars, digitVars, crashed>>

\* An endpoint sends a DTMF digit in an INFO request.
RemoteDigit(s) ==
    /\ ~crashed
    /\ dialog[s] = "connected"
    /\ digitsIn[s] < MaxDigits
    /\ digitsIn' = [digitsIn EXCEPT ![s] = @ + 1]
    /\ queue' = Signal(queue, "info", s)
    /\ UNCHANGED <<dialog, answered, peerVars, digitsOut, crashed>>

Network ==
    \/ \E c \in Call : RemoteInvite(c) \/ RemoteAnswer(c)
    \/ \E s \in Session : RemoteEnd(s) \/ FinishDialog(s) \/ RemoteDigit(s)

-----------------------------------------------------------------------------
(* The engine's peer table (mp_engine.cc).                                   *)

\* The peers whose session of that leg is s: one at most, ids being unique.
getPeerBySessionId(s, leg) == {c \in peers : <<c, leg>> = s}

\* Both handlers look a session up as a left leg, then as a right leg.
HasPeer(s) ==
    \/ getPeerBySessionId(s, "left") # {}
    \/ getPeerBySessionId(s, "right") # {}

\* Mutant: forgets that a leg that is still ringing is active.
ActiveConnectedOnly(s) == legState[s] = "Connected"

Active(s) == legState[s] \in {"Connecting", "Connected"}

\* Mutant: the peer is created but not inserted.
insertNoPeer(c) == UNCHANGED peers

\* Mutant: the table is keyed by the session id.
insertPeerBySession(c) == peers' = peers \cup {Left(c)}

insertPeer(c) == peers' = peers \cup {c}

removePeer(c) == peers' = peers \ {c}

-----------------------------------------------------------------------------
(* Commands to the stack, issued from a handler.  q is the queue once the    *)
(* handler's own event is gone.                                              *)

\* InviteSession::hangup and ::reject: without effect on a dialog that is over
\* or was never created; the stack may report "terminating" before the end.
HangUp(s, q) ==
    IF dialog[s] \in Live
    THEN /\ dialog' = [dialog EXCEPT ![s] = "terminating"]
         /\ \/ queue' = q
            \/ queue' = Signal(q, "terminating", s)
    ELSE /\ queue' = q
         /\ UNCHANGED dialog

\* Mutant: does not look at what has become of the INVITE.
AcceptAnyDialog(s, q) ==
    /\ dialog' = [dialog EXCEPT ![s] = "connected"]
    /\ queue' = Signal(q, "connected", s)
    /\ answered' = answered \cup {s}

\* InviteSession::accept: answers a ringing INVITE, fails on any other dialog.
Accept(s, q) ==
    IF dialog[s] = "incoming"
    THEN /\ dialog' = [dialog EXCEPT ![s] = "connected"]
         /\ queue' = Signal(q, "connected", s)
         /\ answered' = answered \cup {s}
    ELSE /\ queue' = q
         /\ UNCHANGED <<dialog, answered>>

\* CallSession::call: sends the INVITE of the right leg, or returns false.
Dial(s) ==
    \/ dialog' = [dialog EXCEPT ![s] = "trying"]
    \/ /\ CallMayFail
       /\ UNCHANGED dialog

\* InviteSession::getMediaMgr returns NULL: the dialog is over and the stack
\* has destroyed its media.
MediaGone(s) == MediaMayBeGone /\ dialog[s] = "terminated"

-----------------------------------------------------------------------------
(* MPSipCallback::OnInviteEvent.                                             *)

\* The event thread takes the event at the head of the queue.
Delivers(code, s) ==
    /\ ~crashed
    /\ queue # <<>>
    /\ Head(queue) = [code |-> code, session |-> s]

\* Mutant: answers the caller before calling the right leg.
BridgeCallAnswersFirst(c) ==
    /\ Delivers("newcall", Left(c))
    /\ "bridgeable" \in Requests
    /\ insertPeer(c)
    /\ legState' = [legState EXCEPT ![Left(c)] = "Connecting", ![Right(c)] = "Connecting"]
    /\ opposite' = opposite \cup {Left(c), Right(c)}
    /\ Accept(Left(c), Tail(queue))
    /\ UNCHANGED <<attached, digitVars, crashed>>

\* A new call the gateway bridges: the peer enters the table, both sessions
\* point at each other, and the right leg is dialled.  The result of call()
\* is not looked at.
BridgeCall(c) ==
    /\ Delivers("newcall", Left(c))
    /\ "bridgeable" \in Requests
    /\ insertPeer(c)
    /\ legState' = [legState EXCEPT ![Left(c)] = "Connecting", ![Right(c)] = "Connecting"]
    /\ opposite' = opposite \cup {Left(c), Right(c)}
    /\ Dial(Right(c))
    /\ queue' = Tail(queue)
    /\ UNCHANGED <<answered, attached, digitVars, crashed>>

\* A click-to-call request whose account, address or caller is not usable.
RefuseCall(c) ==
    /\ Delivers("newcall", Left(c))
    /\ "refused" \in Requests
    /\ HangUp(Left(c), Tail(queue))
    /\ UNCHANGED <<answered, peerVars, digitVars, crashed>>

\* No destination, media manager, audio or video.  The session was handed to
\* MPSipSessionAV, which cleared the pointer; the handler rejects the call
\* through that NULL pointer.
RejectNull(c) ==
    /\ Delivers("newcall", Left(c))
    /\ "unserviceable" \in Requests \/ MediaGone(Left(c))
    /\ crashed' = TRUE
    /\ queue' = Tail(queue)
    /\ UNCHANGED <<dialog, answered, peerVars, digitVars>>

\* The session that a digit received on s is relayed to.
ReceiverOfDigit(s) == Opposite(s)

\* A DTMF digit received on s goes to the other leg, unless its content is not
\* understood or the other dialog cannot send.
RelayDigit(s) ==
    /\ Delivers("info", s)
    /\ HasPeer(s)
    /\ \/ /\ dialog[ReceiverOfDigit(s)] = "connected"
          /\ digitsOut' = [digitsOut EXCEPT ![ReceiverOfDigit(s)] = @ + 1]
       \/ UNCHANGED digitsOut
    /\ queue' = Tail(queue)
    /\ UNCHANGED <<dialog, answered, peerVars, digitsIn, crashed>>

-----------------------------------------------------------------------------
(* MPSipCallback::OnDialogEvent.                                             *)

\* Mutant: a terminated session keeps its reference to the opposite one.
SetLegStateKeepsOpposite(s, st) ==
    /\ legState' = [legState EXCEPT ![s] = st]
    /\ UNCHANGED opposite

\* Mutant: the state is kept per peer, not per leg.
SetBothLegStates(s, st) ==
    /\ legState' = [t \in Session |-> IF CallOf(t) = CallOf(s) THEN st ELSE legState[t]]
    /\ opposite' = IF st = "Terminated" THEN opposite \ {s} ELSE opposite

\* MPPeer::setSession*State and MPSipSessionAV::setState: a terminated session
\* drops its reference to the opposite one.
SetLegState(s, st) ==
    /\ legState' = [legState EXCEPT ![s] = st]
    /\ opposite' = IF st = "Terminated" THEN opposite \ {s} ELSE opposite

\* Mutant: hangs up the leg that has ended.
EndedLeg(s) == s

\* The leg to hang up when s has ended.
SurvivingLeg(s) == Opposite(s)

\* A leg is ending or has ended: hang up the other one if it is still active,
\* drop the peer if it is not.
OnTerminated(s) ==
    /\ Delivers("terminating", s) \/ Delivers("terminated", s)
    /\ HasPeer(s)
    /\ SetLegState(s, "Terminated")
    /\ IF Active(SurvivingLeg(s))
       THEN /\ HangUp(SurvivingLeg(s), Tail(queue))
            /\ UNCHANGED peers
       ELSE /\ removePeer(CallOf(s))
            /\ queue' = Tail(queue)
            /\ UNCHANGED dialog
    /\ UNCHANGED <<answered, attached, digitVars, crashed>>

\* Mutant: attaches nothing.
AttachNothing(c) == UNCHANGED attached

\* Cross-connects the media plugins, or does nothing for want of a media manager.
\* The left leg's was taken, and kept, when the call came in.
attachMediaProxyPlugins(c) ==
    \/ attached' = attached \cup {c}
    \/ /\ MediaGone(Right(c))
       /\ UNCHANGED attached

OnLeftConnected(c) ==
    /\ Delivers("connected", Left(c))
    /\ HasPeer(Left(c))
    /\ SetLegState(Left(c), "Connected")
    /\ IF legState[Right(c)] = "Connected"
       THEN attachMediaProxyPlugins(c)
       ELSE UNCHANGED attached
    /\ queue' = Tail(queue)
    /\ UNCHANGED <<dialog, answered, peers, digitVars, crashed>>

\* Mutant: attaches without waiting for the caller's own event.
AcceptAndAttach(c) == Accept(Left(c), Tail(queue)) /\ attachMediaProxyPlugins(c)

\* Mutant: forgets the caller.
AcceptNobody(c) == queue' = Tail(queue) /\ UNCHANGED <<dialog, answered, attached>>

\* The called endpoint has answered: accept the caller, or connect the media if
\* the caller is connected already.
AcceptCaller(c) ==
    IF legState[Left(c)] = "Connected"
    THEN /\ attachMediaProxyPlugins(c)
         /\ queue' = Tail(queue)
         /\ UNCHANGED <<dialog, answered>>
    ELSE /\ Accept(Left(c), Tail(queue))
         /\ UNCHANGED attached

OnRightConnected(c) ==
    /\ Delivers("connected", Right(c))
    /\ HasPeer(Right(c))
    /\ SetLegState(Right(c), "Connected")
    /\ AcceptCaller(c)
    /\ UNCHANGED <<peers, digitVars, crashed>>

\* An event of a session that is destroyed or has no peer changes nothing.
IgnoreEvent(s) ==
    /\ ~crashed
    /\ queue # <<>>
    /\ Head(queue).session = s
    /\ Head(queue).code # "newcall"
    /\ ~HasPeer(s)
    /\ queue' = Tail(queue)
    /\ UNCHANGED <<dialog, answered, peerVars, digitVars, crashed>>

\* stack_callback: the event thread delivers the event at the head.
Dispatch ==
    \/ \E c \in Call :
          BridgeCall(c) \/ RefuseCall(c) \/ RejectNull(c)
       \/ OnLeftConnected(c) \/ OnRightConnected(c)
    \/ \E s \in Session : OnTerminated(s) \/ RelayDigit(s) \/ IgnoreEvent(s)

Next == Network \/ Dispatch

Spec == Init /\ [][Next]_vars

\* The event thread keeps delivering, and a dialog that is being closed ends:
\* the transaction timers of SIP bound the wait for the final response.
FairSpec ==
    /\ Spec
    /\ WF_vars(Dispatch)
    /\ \A s \in Session : WF_vars(FinishDialog(s))

-----------------------------------------------------------------------------
(* Safety.                                                                   *)

\* The caller is answered only once the callee has answered: OnDialogEvent
\* accepts the left leg from the right leg's "connected" event alone.
AcceptFollowsAnswer ==
    \A c \in Call : Left(c) \in answered => Right(c) \in answered

\* Once the termination of a leg has been handled, the other leg's dialog is
\* not left up: it is over, or on its way there, or was never created.  This
\* survives a "connected" event that was queued behind the termination.
HangUpReachesOtherLeg ==
    \A c \in peers : \A s \in {Left(c), Right(c)} :
        legState[s] = "Terminated" => dialog[Opposite(s)] \notin Live

\* A bridged call leaves the table only when neither dialog is up: after
\* removePeer nothing would ever hang the remaining leg up.
NoOrphanDialog ==
    \A c \in Call \ peers :
        legState[Left(c)] # "None" =>
            dialog[Left(c)] \in Over /\ dialog[Right(c)] \notin Live

\* Two sessions that reference each other are never freed.  When the peer is
\* dropped, both have released the other one.
NoReferenceCycle ==
    \A c \in Call \ peers : {Left(c), Right(c)} \cap opposite = {}

\* When both legs are connected and the plugins were not attached because the
\* media manager was gone, "dialog terminated will be called" (the comment in
\* attachMediaProxyPlugins): the end of the right dialog is still queued.
MissedAttachMeansEnd ==
    \A c \in peers \ attached :
        (\A s \in {Left(c), Right(c)} : legState[s] = "Connected") =>
            \E i \in DOMAIN queue :
                /\ queue[i].code = "terminated"
                /\ queue[i].session = Right(c)

\* Media flows only between two endpoints that have both answered.
AttachNeedsBothAnswers ==
    \A c \in attached : {Left(c), Right(c)} \subseteq answered

\* The INFO events of s still in the queue.
Pending(s) == {i \in DOMAIN queue : queue[i] = [code |-> "info", session |-> s]}

\* No digit is relayed twice, or back to the endpoint that sent it.
DigitsNotDuplicated ==
    \A s \in Session :
        digitsOut[Opposite(s)] + Cardinality(Pending(s)) <= digitsIn[s]

-----------------------------------------------------------------------------
(* What a step may never do.                                                 *)

\* A leg that has been marked Terminated stays so: a "connected" event of the
\* same dialog never follows, in the queue, the report of its end.
TerminatedIsFinal ==
    [][\A s \in Session :
          legState[s] = "Terminated" => legState'[s] = "Terminated"]_vars

-----------------------------------------------------------------------------
(* Liveness and refinement.                                                  *)

\* When one dialog of a bridged call is over, the other one gets over too and
\* the peer leaves the table.
CallIsCleared ==
    \A s \in Session :
        (dialog[s] \in Over /\ CallOf(s) \in peers)
            ~> (CallOf(s) \notin peers /\ dialog[Opposite(s)] \notin Live)

\* A call the gateway cannot place is reported to the caller ("final responses
\* will be forwarded", OnInviteEvent): it does not ring with no right leg.
NoCallerLeftRinging ==
    \A c \in Call :
        (dialog[Left(c)] = "incoming" /\ dialog[Right(c)] = "idle")
            ~> (dialog[Left(c)] # "incoming" \/ dialog[Right(c)] # "idle")

PhaseOf(d) ==
    CASE d = "idle"                   -> "idle"
      [] d \in {"incoming", "trying"} -> "ringing"
      [] d = "connected"              -> "talking"
      [] OTHER                        -> "over"

Promise == INSTANCE TwoLegCall WITH
    caller   <- [c \in Call |-> PhaseOf(dialog[Left(c)])],
    callee   <- [c \in Call |-> PhaseOf(dialog[Right(c)])],
    pickedUp <- {c \in Call : Right(c) \in answered}

\* Whatever fails, the gateway does to its two endpoints only what the promise
\* allows: one event seen by one of them at a time, in an order that makes sense.
StepsArePromised == Promise!Safety

\* The gateway keeps its promise to the endpoints, fairness included.
KeepsPromise == Promise!Spec

=============================================================================
