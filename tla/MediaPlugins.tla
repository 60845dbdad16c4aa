------------------------------ MODULE MediaPlugins ------------------------------
(***************************************************************************)
(* The media of one call: the plugins through which Doubango hands the media *)
(* of a leg to the gateway, and the reference counts that keep them.  A leg has *)
(* a consumer, for what it receives, and a producer, for what it sends.  Three *)
(* kinds of threads use them:                                                *)
(*   - the threads on which Doubango creates, starts and destroys a leg's      *)
(*     plugins (tinywrap/Proxy*.cxx, MPProxyPluginMgrCallback);                 *)
(*   - the SIP thread, which connects the consumer of a leg with the producer   *)
(*     of the other (attachMediaProxyPlugins) and ends sessions;                *)
(*   - the RTP thread of a leg, which pushes media and RTCP reports to the other. *)
(* Audio and video do the same; one of them is modelled.  A plugin's map is    *)
(* guarded by a mutex that only the first kind takes, and reference counts by  *)
(* comments ("// lock").  Two accesses that are next on two threads can         *)
(* overlap: each has then the outcomes it can have on its own, or goes wrong.  *)
(* Doubango is external: it stops a leg's RTP thread before it destroys the     *)
(* leg's plugins, not the other leg's.                                        *)
(***************************************************************************)
EXTENDS Naturals, FiniteSets, Sequences

CONSTANT Reporting  \* the legs that send RTCP reports

ASSUME ReportingAssumption == Reporting \subseteq {"left", "right"}

VARIABLES
    owner,     \* [Leg -> 1..Len(Program)]: the next step of the leg's media thread
    listed,    \* ProxyPluginMgr's list: plugins whose Proxy object is there
    plugins,   \* MPProxyPluginMgr::g_pPlugins
    alive,     \* plugins whose MPProxyPlugin object exists
    valid,     \* m_bValid
    started,   \* m_bStarted
    count,     \* [Plugin -> Count]: m_nRefCount
    opposite,  \* legs whose consumer has an m_oProducerOpposite
    mutex,     \* MPProxyPluginMgr::g_phMutex: {} or the plugin it is held for
    sip,       \* the next step of the SIP thread
    found,     \* plugins in attachMediaProxyPlugins's local variables
    rtp,       \* [Leg -> {"idle", "push", "rtcp"}]: what the RTP thread has checked
    sessions,  \* reporting legs whose session has an m_oSessionOpposite
    races,     \* the kinds of accesses that overlapped (history)
    crashed    \* an object was used that is not there

managerVars == <<listed, plugins, mutex>>
objectVars  == <<alive, valid, started, count, opposite>>
sipVars     == <<sip, found>>
vars == <<owner, managerVars, objectVars, sipVars, rtp, sessions, races, crashed>>

Leg      == {"left", "right"}
Other(l) == CHOOSE o \in Leg : o # l
Plugin   == Leg \X {"consumer", "producer"}

Consumer(l) == <<l, "consumer">>
Producer(l) == <<l, "producer">>

\* What the thread that owns the plugins of a leg does, in Doubango's order.
Program ==
    <<<<"new", "consumer">>, <<"create", "consumer">>,
      <<"new", "producer">>, <<"create", "producer">>,
      <<"start", "consumer">>, <<"start", "producer">>,
      <<"stop", "consumer">>, <<"stop", "producer">>,
      <<"copy", "consumer">>, <<"erase", "consumer">>,
      <<"release", "consumer">>, <<"remove", "consumer">>,
      <<"copy", "producer">>, <<"erase", "producer">>,
      <<"release", "producer">>, <<"remove", "producer">>,
      <<"gone", "both">>>>

\* attachMediaProxyPlugins finds four plugins, links two pairs and drops the four, the
\* local variable that was declared last first.  The untyped wrapper through which they
\* pass keeps one more reference, to the one that was found last, until all are dropped:
\* with the four found, it goes right behind that of the right producer.  It is left out.
Finds == <<Consumer("left"), Producer("left"), Consumer("right"), Producer("right")>>
Declared == <<Producer("right"), Producer("left"), Consumer("right"), Consumer("left")>>
Links == <<"left", "right">>
SipStep == {<<"idle", 0>>, <<"done", 0>>} \cup ({"find", "drop"} \X (1..4)) \cup ({"link"} \X (1..2))

Race == {"count", "map", "list", "push", "rtcp"}

TypeOK ==
    /\ owner \in [Leg -> 1..Len(Program)]
    /\ listed \subseteq Plugin /\ plugins \subseteq Plugin /\ alive \subseteq Plugin
    /\ valid \subseteq Plugin /\ started \subseteq Plugin
    /\ count \in [Plugin -> Nat]
    /\ opposite \subseteq Leg
    /\ mutex \subseteq Plugin /\ Cardinality(mutex) <= 1
    /\ sip \in SipStep
    /\ found \subseteq Plugin
    /\ rtp \in [Leg -> {"idle", "push", "rtcp"}]
    /\ sessions \subseteq Reporting
    /\ races \subseteq Race
    /\ crashed \in BOOLEAN

Init ==
    /\ owner = [l \in Leg |-> 1]
    /\ listed = {} /\ plugins = {} /\ mutex = {}
    /\ alive = {} /\ valid = {} /\ started = {} /\ opposite = {}
    /\ count = [p \in Plugin |-> 0]
    /\ sip = <<"idle", 0>> /\ found = {}
    /\ rtp = [l \in Leg |-> "idle"]
    /\ sessions = Reporting
    /\ races = {} /\ crashed = FALSE

-----------------------------------------------------------------------------
(* Reference counts.                                                         *)

Does(p, step) == Program[owner[p[1]]] = <<step, p[2]>>

\* The plugins whose count the owner of p, or the SIP thread, updates next.  A
\* consumer that is deleted releases the producer it was connected with.
WithOpposite(p) ==
    {p} \cup {Producer(Other(l)) : l \in {k \in opposite : p = Consumer(k)}}

OwnerTouches(p) ==
    IF \E step \in {"copy", "erase", "release"} : Does(p, step) THEN WithOpposite(p) ELSE {}

SipTouches ==
    CASE sip[1] = "find" -> {Finds[sip[2]]}
      [] sip[1] = "link" -> {Producer(Other(Links[sip[2]]))}
      [] sip[1] = "drop" -> WithOpposite(Declared[sip[2]])
      [] sip[1] \in {"idle", "done"} -> {}

SipIdle == sip[1] \in {"idle", "done"}

\* Whether an update of q's count by the owner of p, or by the SIP thread, may
\* overlap with one of another thread.
OwnerOverlaps(p, q) ==
    \/ q \in SipTouches
    \/ \E o \in Plugin \ {p} : q \in OwnerTouches(o)

SipOverlaps(q) == \E o \in Plugin : q \in OwnerTouches(o)

\* The counts c after one more reference to q, or one less: of two updates that
\* overlap, one may be lost.
Plus(c, q, overlaps) ==
    {[c EXCEPT ![q] = @ + 1]} \cup (IF overlaps THEN {c} ELSE {})

Minus(c, q, overlaps) ==
    {[c EXCEPT ![q] = IF @ = 0 THEN 0 ELSE @ - 1]} \cup (IF overlaps THEN {c} ELSE {})

Note(kind, overlaps) == IF overlaps THEN {kind} ELSE {}

\* Mutant: an object that is deleted does not release what it holds.
DeletedAlone(p, c) == {}

\* The producers released when p's count has gone to zero.
ReleasedWith(p, c) ==
    IF c[p] = 0 /\ p \in alive
    THEN {Producer(Other(l)) : l \in {k \in opposite : p = Consumer(k)}}
    ELSE {}

\* One reference to p is released: at zero it is deleted, and its callback and its
\* reference to the other leg's producer with it.  Updates of the counts of racy may
\* overlap with others.
Release(p, racy) ==
    \E c \in Minus(count, p, p \in racy) :
       LET others == ReleasedWith(p, c)
           noted  == ({p} \cup others) \cap racy
       IN  \E d \in IF others = {} THEN {c}
                    ELSE UNION {Minus(c, q, q \in racy) : q \in others} :
             /\ count' = d
             /\ alive' = alive \ {q \in {p} \cup others : d[q] = 0}
             /\ opposite' = IF p \in alive \ alive' THEN opposite \ {k \in Leg : p = Consumer(k)}
                                                    ELSE opposite
             /\ races' = races \cup Note("count", noted # {})
             \* Both see a count of zero, and delete the object twice.
             /\ crashed' \in IF noted # {} THEN BOOLEAN ELSE {FALSE}

-----------------------------------------------------------------------------
(* The owner of a plugin: its constructor, start, stop and destructor.       *)

At(p, step) == Does(p, step) /\ ~crashed

GoOn(p) == owner' = [owner EXCEPT ![p[1]] = @ + 1]

\* Mutant: the mutex is not taken.
LockedOrNot == TRUE

Unlocked == mutex = {}

\* new Proxy..., addPlugin, under the list's lock.
AddPlugin(p) ==
    /\ At(p, "new")
    /\ listed' = listed \cup {p}
    /\ GoOn(p)
    /\ UNCHANGED <<plugins, mutex, objectVars, sipVars, rtp, sessions, races, crashed>>

OnPluginCreated(p) ==
    /\ At(p, "create") /\ Unlocked
    /\ plugins' = plugins \cup {p}
    /\ alive' = alive \cup {p} /\ valid' = valid \cup {p}
    /\ count' = [count EXCEPT ![p] = 1]
    /\ GoOn(p)
    /\ UNCHANGED <<listed, mutex, started, opposite, sipVars, rtp, sessions, races, crashed>>

Start(p) ==
    /\ At(p, "start")
    /\ started' = started \cup {p}
    /\ GoOn(p)
    /\ UNCHANGED <<managerVars, alive, valid, count, opposite, sipVars, rtp, sessions, races, crashed>>

\* The destructor: a plugin that was started is stopped.
Stop(p) ==
    /\ At(p, "stop") /\ rtp[p[1]] = "idle"
    /\ started' = started \ {p}
    /\ GoOn(p)
    /\ UNCHANGED <<managerVars, alive, valid, count, opposite, sipVars, rtp, sessions, races, crashed>>

\* A call that ends early: nothing was started.
NeverStart(l) ==
    /\ At(Consumer(l), "start")
    /\ owner' = [owner EXCEPT ![l] = @ + 4]
    /\ UNCHANGED <<managerVars, objectVars, sipVars, rtp, sessions, races, crashed>>

\* OnPluginDestroyed, erasePlugin: a reference is taken ...
CopyPlugin(p) ==
    /\ At(p, "copy") /\ Unlocked
    /\ mutex' = mutex \cup {p}
    /\ count' \in Plus(count, p, OwnerOverlaps(p, p))
    /\ races' = races \cup Note("count", OwnerOverlaps(p, p))
    /\ GoOn(p)
    /\ UNCHANGED <<listed, plugins, alive, valid, started, opposite, sipVars, rtp, sessions, crashed>>

\* ... the map's is given back, the plugin is invalidated, and a push to it may
\* have seen that it was valid ...
ErasePlugin(p) ==
    /\ At(p, "erase")
    /\ plugins' = plugins \ {p}
    /\ valid' = valid \ {p}
    /\ count' \in Minus(count, p, OwnerOverlaps(p, p))
    /\ races' = races \cup Note("count", OwnerOverlaps(p, p))
                      \cup Note("push", p = Producer(p[1]) /\ rtp[Other(p[1])] = "push")
    /\ GoOn(p)
    /\ UNCHANGED <<listed, mutex, alive, started, opposite, sipVars, rtp, sessions, crashed>>

\* ... and the reference is released.
ReleasePlugin(p) ==
    /\ At(p, "release")
    /\ Release(p, {q \in Plugin : OwnerOverlaps(p, q)})
    /\ mutex' = mutex \ {p}
    /\ GoOn(p)
    /\ UNCHANGED <<listed, plugins, valid, started, sipVars, rtp, sessions>>

RemovePlugin(p) ==
    /\ At(p, "remove")
    /\ listed' = listed \ {p}
    /\ GoOn(p)
    /\ UNCHANGED <<plugins, mutex, objectVars, sipVars, rtp, sessions, races, crashed>>

Owner(p) ==
    \/ AddPlugin(p) \/ OnPluginCreated(p) \/ Start(p) \/ Stop(p) \/ NeverStart(p[1])
    \/ CopyPlugin(p) \/ ErasePlugin(p) \/ ReleasePlugin(p) \/ RemovePlugin(p)

-----------------------------------------------------------------------------
(* The SIP thread.                                                           *)

\* Once in a call: when the second of its legs is connected (see Bridge).
Attach ==
    /\ sip[1] = "idle" /\ ~crashed
    /\ sip' = <<"find", 1>>
    /\ UNCHANGED <<owner, managerVars, objectVars, found, rtp, sessions, races, crashed>>

\* The owner of a plugin is about to change the map, which the SIP thread reads
\* without the mutex, or to free the Proxy object, whose id it reads without a lock.
MapOverlaps ==
    \E q \in Plugin : \/ Does(q, "erase")
                      \/ Does(q, "create") /\ mutex = {}

ListOverlaps(p) == Does(p, "remove")

FindPlugin ==
    /\ sip[1] = "find" /\ ~crashed
    /\ LET p == Finds[sip[2]]
       IN  /\ races' = races \cup Note("map", p \in listed /\ MapOverlaps)
                             \cup Note("list", ListOverlaps(p))
                             \cup Note("count", p \in listed \cap plugins /\ SipOverlaps(p))
           /\ crashed' \in IF p \in listed /\ (MapOverlaps \/ ListOverlaps(p)) THEN BOOLEAN
                                                                               ELSE {FALSE}
           /\ \/ /\ p \in listed \cap plugins
                 /\ found' = found \cup {p}
                 /\ count' \in Plus(count, p, SipOverlaps(p))
              \/ /\ p \notin listed \cap plugins \/ MapOverlaps
                 /\ UNCHANGED <<found, count>>
    /\ sip' = IF sip[2] < 4 THEN <<"find", sip[2] + 1>> ELSE <<"link", 1>>
    /\ UNCHANGED <<owner, managerVars, alive, valid, started, opposite, rtp, sessions>>

\* Mutant: a pointer to the producer is kept, not a reference.
LinkWithoutRef(c, q) == {c}

\* m_oProducerOpposite = q, where there was none.
LinkCounts(c, q) == Plus(c, q, SipOverlaps(q))

\* setProducerOpposite, when both were found.
LinkPlugins ==
    /\ sip[1] = "link" /\ ~crashed
    /\ LET l == Links[sip[2]]
           q == Producer(Other(l))
       IN  /\ IF Consumer(l) \in found /\ q \in found
              THEN /\ opposite' = opposite \cup {l}
                   /\ count' \in LinkCounts(count, q)
                   /\ crashed' = ~({Consumer(l), q} \subseteq alive)
                   /\ races' = races \cup Note("count", SipOverlaps(q))
              ELSE UNCHANGED <<opposite, count, crashed, races>>
           /\ sip' = IF l = "left" THEN <<"link", 2>> ELSE <<"drop", 4>>
    /\ UNCHANGED <<owner, managerVars, alive, valid, started, found, rtp, sessions>>

\* The local variables go out of scope, the last one first.
DropPlugin ==
    /\ sip[1] = "drop" /\ ~crashed
    /\ LET p == Declared[sip[2]]
       IN  /\ found' = found \ {p}
           /\ IF p \in found
              THEN Release(p, {q \in Plugin : SipOverlaps(q)})
              ELSE UNCHANGED <<count, alive, opposite, races, crashed>>
    /\ sip' = IF sip[2] > 1 THEN <<"drop", sip[2] - 1>> ELSE <<"done", 0>>
    /\ UNCHANGED <<owner, managerVars, valid, started, rtp, sessions>>

\* setState(MPSessionState_Terminated), while an RTCP report may be on its way.
Terminate(l) ==
    /\ SipIdle /\ ~crashed
    /\ l \in sessions
    /\ sessions' = sessions \ {l}
    /\ races' = races \cup Note("rtcp", rtp[l] = "rtcp")
    /\ UNCHANGED <<owner, managerVars, objectVars, sipVars, rtp, crashed>>

-----------------------------------------------------------------------------
(* The RTP thread of leg l: it checks, and then acts.                        *)

Receives(l, step) ==
    /\ rtp[l] = step /\ ~crashed
    /\ Does(Producer(l), "start") \/ Does(Consumer(l), "stop")

\* Mutant: does not ask whether the other leg's plugin is valid.
AnyOpposite(q) == TRUE

IsValid(q) == q \in valid

\* consumeCallback: there is an opposite, and it is valid.
Consume(l) ==
    LET q == Producer(Other(l))
    IN  /\ Receives(l, "idle") /\ l \in opposite
        /\ IsValid(q) \/ q \notin alive
        /\ rtp' = [rtp EXCEPT ![l] = IF q \in alive THEN "push" ELSE @]
        /\ crashed' = (q \notin alive)
        /\ UNCHANGED <<owner, managerVars, objectVars, sipVars, sessions, races>>

\* push, sendRaw: nothing while the producer is not started.
Push(l) ==
    LET q == Producer(Other(l))
    IN  /\ Receives(l, "push")
        /\ rtp' = [rtp EXCEPT ![l] = "idle"]
        /\ crashed' = (q \notin alive \/ (q \in started /\ q \notin listed))
        /\ UNCHANGED <<owner, managerVars, objectVars, sipVars, sessions, races>>

\* onRtcpEventCallback: there is an opposite ...
TestSession(l) ==
    /\ Receives(l, "idle") /\ l \in sessions
    /\ rtp' = [rtp EXCEPT ![l] = "rtcp"]
    /\ UNCHANGED <<owner, managerVars, objectVars, sipVars, sessions, races, crashed>>

\* ... whose call session forwards the report.
SendRtcp(l) ==
    /\ Receives(l, "rtcp")
    /\ rtp' = [rtp EXCEPT ![l] = "idle"]
    /\ crashed' = (l \notin sessions)
    /\ UNCHANGED <<owner, managerVars, objectVars, sipVars, sessions, races>>

Rtp(l) == Consume(l) \/ Push(l) \/ TestSession(l) \/ SendRtcp(l)

Next ==
    \/ \E p \in Plugin : Owner(p)
    \/ Attach \/ FindPlugin \/ LinkPlugins \/ DropPlugin
    \/ \E l \in Leg : Terminate(l) \/ Rtp(l)

Spec == Init /\ [][Next]_vars

-----------------------------------------------------------------------------
(* Properties.                                                               *)

Holders(p) ==
      (IF p \in plugins THEN 1 ELSE 0)
    + (IF p \in found THEN 1 ELSE 0)
    + (IF Does(p, "erase") \/ Does(p, "release") THEN 1 ELSE 0)
    + (IF p = Producer(p[1]) /\ Other(p[1]) \in opposite THEN 1 ELSE 0)

\* As long as no two threads updated a count at once, it is the number of those
\* that hold the plugin (the map, a local variable, erasePlugin, the consumer of
\* the other leg), and the plugin is there as long as one of them does.
CountIsHolders ==
    "count" \notin races /\ ~crashed =>
        \A p \in Plugin : count[p] = Holders(p) /\ (p \in alive <=> count[p] > 0)

\* An object that is not there is only used after accesses that overlapped: every
\* sequence of calls, of the threads in any order, leaves nothing dangling.
CrashNeedsRace == crashed => races # {}

\* When a call's plugins were destroyed and nobody uses them, none is left, also
\* when they were connected while they were being destroyed.
NothingLeaks ==
    /\ \A l \in Leg : owner[l] = Len(Program)
    /\ SipIdle /\ "count" \notin races
    => alive = {} /\ opposite = {}

\* Media are sent to the other leg only if, when it was asked, it could still take them.
PushBeginsInTime ==
    [][\A l \in Leg :
          rtp[l] = "idle" /\ rtp'[l] = "push" => Producer(Other(l)) \in listed]_vars

=============================================================================
