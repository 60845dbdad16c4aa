-------------------------------- MODULE Service --------------------------------
(***************************************************************************)
(* The life of the process around the account requests: main (mp_mediaproxy.cc) *)
(* starts the engine, waits for "quit", stops the engine and ends.            *)
(* MPEngine::start opens the database and starts the transports one after    *)
(* another; each serves from then on, while main goes on with the next one.  *)
(* MPEngine::stop closes the database first.  The process may also be killed  *)
(* at any time; the next one finds what was committed.                       *)
(***************************************************************************)
EXTENDS Accounts

CONSTANTS
    MaxLaunch \* bound: how often the process is started

ASSUME LaunchAssumption == MaxLaunch \in Nat

VARIABLES
    main,     \* where main is
    launches, \* processes so far
    aborted   \* a process was ended by an assertion (history)

processV == <<main, launches, aborted>>
vars     == <<accountVars, processV>>

Main == {"down", "openDb", "startC2C", "startRecaptcha", "startMail", "startStack",
         "running", "stopC2C", "stopMail", "stopStack", "exit"}

ServiceTypeOK ==
    /\ TypeOK
    /\ main \in Main
    /\ launches \in 0..MaxLaunch
    /\ aborted \in BOOLEAN

Init ==
    /\ AccountInit
    /\ main = "down"
    /\ launches = 0
    /\ aborted = FALSE

\* The process ends, its threads and its memory with it.
Die ==
    /\ main' = "down"
    /\ db' = disk /\ inTx' = FALSE
    /\ dbOpen' = FALSE /\ serving' = {} /\ count' = 0
    /\ pc' = [t \in Thread |-> "idle"]
    /\ local' = [t \in Thread |-> NoRequest]
    /\ UNCHANGED <<disk, clock, requests, history, launches>>

Launch ==
    /\ main = "down"
    /\ launches < MaxLaunch
    /\ launches' = launches + 1
    /\ main' = "openDb"
    /\ UNCHANGED <<accountVars, aborted>>

\* A crash, or the return from main after quit or after a start that failed.
Exit ==
    /\ main # "down"
    /\ Die
    /\ UNCHANGED aborted

-----------------------------------------------------------------------------
(* MPEngine::start.  A step that fails makes main exit; the transports that   *)
(* were started serve until then.                                            *)

Continue(next) ==
    /\ main' = next
    /\ UNCHANGED <<tables, count, clock, requestV, history, launches, aborted>>

\* Mutant: does not look at the result of open().
OpenDbOrNot ==
    /\ main = "openDb"
    /\ dbOpen' \in BOOLEAN
    /\ Continue("startC2C")
    /\ UNCHANGED serving

OpenDb ==
    /\ main = "openDb"
    /\ dbOpen' = TRUE
    /\ Continue("startC2C")
    /\ UNCHANGED serving

StartC2C ==
    /\ main = "startC2C"
    /\ \E t \in C2CThread \ serving :
          /\ serving' = serving \cup {t}
          /\ Continue(IF C2CThread \subseteq serving' THEN "startRecaptcha" ELSE main)
    /\ UNCHANGED dbOpen

StartRecaptcha ==
    /\ main = "startRecaptcha"
    /\ serving' = serving \cup {Recaptcha}
    /\ Continue("startMail")
    /\ UNCHANGED dbOpen

StartMail ==
    /\ main = "startMail"
    /\ Continue("startStack")
    /\ UNCHANGED engine

StartStack ==
    /\ main = "startStack"
    /\ Continue("running")
    /\ UNCHANGED engine

-----------------------------------------------------------------------------
(* MPEngine::stop, after "quit".                                             *)

\* The database is closed while every transport still serves.  An open
\* transaction is lost with the connection.
CloseDb ==
    /\ main = "running"
    /\ dbOpen' = FALSE
    /\ Continue("stopC2C")
    /\ UNCHANGED serving

\* Stopping a transport joins its thread: the request it handles ends first.
StopC2C ==
    /\ main = "stopC2C"
    /\ \E t \in C2CThread \cap serving :
          /\ pc[t] = "idle"
          /\ serving' = serving \ {t}
          /\ Continue(IF C2CThread \cap serving' = {} THEN "stopMail" ELSE main)
    /\ UNCHANGED dbOpen

\* The reCAPTCHA transport is not stopped.
StopMail ==
    /\ main = "stopMail"
    /\ Continue("stopStack")
    /\ UNCHANGED engine

StopStack ==
    /\ main = "stopStack"
    /\ Continue("exit")
    /\ UNCHANGED engine

Engine ==
    \/ Launch \/ Exit
    \/ OpenDb \/ StartC2C \/ StartRecaptcha \/ StartMail \/ StartStack
    \/ CloseDb \/ StopC2C \/ StopMail \/ StopStack

-----------------------------------------------------------------------------
(* Requests in this process.                                                 *)

\* An operation of the database comes, which asserts that it is open: a select, a
\* BEGIN, a COMMIT, a deletion, or the selects that an answer is made from.
UsesDb(t) ==
    \/ pc[t] \in {"select", "begin", "commit"}
    \/ pc[t] = "write" /\ local[t].stmt \in Deletion
    \/ pc[t] = "answer" /\ Serializes(t)

\* The assertion fails, and the process with it.
Abort(t) ==
    /\ UsesDb(t) /\ ~dbOpen
    /\ Die
    /\ aborted' = TRUE

Next ==
    \/ Engine
    \/ \E t \in Thread : Abort(t)
    \/ (Tick \/ \E t \in Thread : Request(t)) /\ UNCHANGED processV

Spec == Init /\ [][Next]_vars

-----------------------------------------------------------------------------
(* Properties.                                                               *)

\* assert(isOpened()), in every operation of MPDbSQLite.
DbOpenWhenUsed == ~aborted

\* The assertion can fail only while the engine stops: whatever the order in which
\* the transports start, and whoever fails to, no request meets a database that is
\* not open yet.
OnlyStopMeetsClosedDb ==
    (\E t \in Thread : UsesDb(t) /\ ~dbOpen) =>
        main \in {"stopC2C", "stopMail", "stopStack", "exit"}

=============================================================================
