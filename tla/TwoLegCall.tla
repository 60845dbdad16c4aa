------------------------------ MODULE TwoLegCall ------------------------------
(***************************************************************************)
(* What the gateway promises the two endpoints of a call, with no peer      *)
(* table, no events and no handlers: the callee is rung for a caller that   *)
(* has called, the caller is answered only once the callee has, and when    *)
(* one side is over the other does not stay in the call.                    *)
(***************************************************************************)
CONSTANT Call

VARIABLES
    caller,    \* [Call -> Phase]: the dialog with the endpoint that called
    callee,    \* [Call -> Phase]: the dialog with the endpoint that is called
    pickedUp   \* the calls the callee has answered

vars == <<caller, callee, pickedUp>>

Phase == {"idle", "ringing", "talking", "over"}
InCall(phase) == phase \in {"ringing", "talking"}

Init ==
    /\ caller = [c \in Call |-> "idle"]
    /\ callee = [c \in Call |-> "idle"]
    /\ pickedUp = {}

Ring(c) ==
    /\ caller[c] = "idle"
    /\ caller' = [caller EXCEPT ![c] = "ringing"]
    /\ UNCHANGED <<callee, pickedUp>>

\* The callee may still be rung for a caller that has just given up.
Dial(c) ==
    /\ caller[c] # "idle"
    /\ callee[c] = "idle"
    /\ callee' = [callee EXCEPT ![c] = "ringing"]
    /\ UNCHANGED <<caller, pickedUp>>

PickUp(c) ==
    /\ callee[c] = "ringing"
    /\ callee' = [callee EXCEPT ![c] = "talking"]
    /\ pickedUp' = pickedUp \cup {c}
    /\ UNCHANGED caller

Connect(c) ==
    /\ caller[c] = "ringing"
    /\ c \in pickedUp
    /\ caller' = [caller EXCEPT ![c] = "talking"]
    /\ UNCHANGED <<callee, pickedUp>>

EndCaller(c) ==
    /\ InCall(caller[c])
    /\ caller' = [caller EXCEPT ![c] = "over"]
    /\ UNCHANGED <<callee, pickedUp>>

EndCallee(c) ==
    /\ InCall(callee[c])
    /\ callee' = [callee EXCEPT ![c] = "over"]
    /\ UNCHANGED <<caller, pickedUp>>

Next ==
    \E c \in Call :
        \/ Ring(c) \/ Dial(c) \/ PickUp(c) \/ Connect(c)
        \/ EndCaller(c) \/ EndCallee(c)

\* Every caller is put through or turned away.
Serve(c) == caller[c] = "ringing" /\ callee[c] = "idle" /\ (Dial(c) \/ EndCaller(c))

\* Neither side outlives the other.
Clear(c) ==
    \/ callee[c] = "over" /\ EndCaller(c)
    \/ caller[c] = "over" /\ EndCallee(c)

\* A callee that has picked up hears the caller, or one of them is gone.
PutThrough(c) ==
    /\ caller[c] = "ringing"
    /\ callee[c] = "talking"
    /\ Connect(c) \/ EndCaller(c) \/ EndCallee(c)

Safety == Init /\ [][Next]_vars

Spec ==
    /\ Safety
    /\ \A c \in Call :
          WF_vars(Serve(c)) /\ WF_vars(Clear(c)) /\ WF_vars(PutThrough(c))

=============================================================================
