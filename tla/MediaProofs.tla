------------------------------ MODULE MediaProofs ------------------------------
(***************************************************************************)
(* Proofs about MediaPlugins: what the reference counts and the two chains   *)
(* of checks guarantee for every interleaving of the threads that does not     *)
(* let two accesses overlap.                                                 *)
(*                                                                         *)
(* The argument: a media thread's next step says what its plugins are (Created, *)
(* Mapped); the SIP thread's next step says which plugins it may hold and        *)
(* link (SipInv); what the counts count follows from both (CountInv).            *)
(***************************************************************************)
EXTENDS MediaPlugins, FiniteSetTheorems, TLAPS

\* The plugin p exists in the map, in the list, or is started, exactly while its
\* owner is between these steps.
Placed(l) ==
    /\ Consumer(l) \in listed  <=> owner[l] \in 2..12
    /\ Producer(l) \in listed  <=> owner[l] \in 4..16
    /\ Consumer(l) \in plugins <=> owner[l] \in 3..10
    /\ Producer(l) \in plugins <=> owner[l] \in 5..14
    /\ Producer(l) \in started => owner[l] \in 7..8

OwnerInv == \A l \in Leg : Placed(l)

\* A plugin in the map is valid, and no other is.
ValidInv == valid = plugins

\* A leg's RTP thread is at work only while its plugins are started.
RtpInv == \A l \in Leg : rtp[l] # "idle" => owner[l] \in 6..7

\* Plugins that have been created, and perhaps destroyed since.
Created == {Consumer(l) : l \in {k \in Leg : owner[k] >= 3}}
           \cup {Producer(l) : l \in {k \in Leg : owner[k] >= 5}}

\* What the SIP thread holds, and has connected, at its next step.
SipInv ==
    /\ found \subseteq Created
    /\ \A l \in opposite : Consumer(l) \in Created /\ Producer(Other(l)) \in Created
    /\ sip[1] \in {"idle", "done"} => found = {}
    /\ sip[1] = "find" => found \subseteq {Finds[i] : i \in 1..(sip[2] - 1)}
    /\ sip[1] = "drop" => found \subseteq {Declared[i] : i \in 1..sip[2]}
    /\ sip[1] \in {"idle", "find"} \/ sip = <<"link", 1>> => opposite = {}
    /\ sip = <<"link", 2>> => opposite \subseteq {"left"}

\* While no two updates of a count have overlapped: a consumer that is connected is
\* there, and stays connected while media are on their way through it.
CountInv ==
    "count" \notin races /\ ~crashed =>
        /\ \A p \in Plugin : count[p] = Holders(p) /\ (p \in alive <=> count[p] > 0)
        /\ \A l \in opposite : Consumer(l) \in alive
        /\ \A l \in Leg : rtp[l] = "push" => l \in opposite

\* A report is on its way only through a session that knows the other one.
RtcpInv ==
    "rtcp" \notin races => \A l \in Leg : rtp[l] = "rtcp" => l \in sessions

\* A crash without an overlapping update of a count is not the end of a call.
EndInv ==
    crashed /\ "count" \notin races => ~SipIdle \/ \E l \in Leg : owner[l] # Len(Program)

IInv ==
    /\ TypeOK
    /\ OwnerInv /\ ValidInv /\ RtpInv /\ SipInv
    /\ CountInv /\ RtcpInv /\ EndInv
    /\ CrashNeedsRace


-----------------------------------------------------------------------------
(* Plugins, the program of a media thread, and what is held.                  *)

\* The four plugins.
LEMMA PluginFacts ==
    /\ \A l \in Leg : /\ Consumer(l) \in Plugin /\ Producer(l) \in Plugin
                      /\ Consumer(l)[1] = l /\ Producer(l)[1] = l
                      /\ Other(l) \in Leg /\ Other(l) # l /\ Other(Other(l)) = l
    /\ \A k, l \in Leg : /\ Consumer(k) # Producer(l)
                         /\ Consumer(k) = Consumer(l) => k = l
                         /\ Producer(k) = Producer(l) => k = l
                         /\ k # l => k = Other(l)
    /\ \A p \in Plugin : /\ p[1] \in Leg
                         /\ p = Consumer(p[1]) \/ p = Producer(p[1])
<1>1. Other("left") = "right" /\ Other("right") = "left"
  <2>1. \A o \in Leg : o # "left" <=> o = "right"
    BY DEF Leg
  <2>2. \A o \in Leg : o # "right" <=> o = "left"
    BY DEF Leg
  <2> QED
    BY <2>1, <2>2 DEF Other, Leg
<1>2. \A l \in Leg : l = "left" \/ l = "right"
  BY DEF Leg
<1> QED
  BY <1>1, <1>2 DEF Plugin, Consumer, Producer, Leg

\* The program, step by step.
LEMMA ProgramFacts ==
    /\ Len(Program) = 17
    /\ \A l \in Leg : \A i \in 1..17 :
          /\ Program[i] = <<"new", Consumer(l)[2]>>     <=> i = 1
          /\ Program[i] = <<"create", Consumer(l)[2]>>  <=> i = 2
          /\ Program[i] = <<"new", Producer(l)[2]>>     <=> i = 3
          /\ Program[i] = <<"create", Producer(l)[2]>>  <=> i = 4
          /\ Program[i] = <<"start", Consumer(l)[2]>>   <=> i = 5
          /\ Program[i] = <<"start", Producer(l)[2]>>   <=> i = 6
          /\ Program[i] = <<"stop", Consumer(l)[2]>>    <=> i = 7
          /\ Program[i] = <<"stop", Producer(l)[2]>>    <=> i = 8
          /\ Program[i] = <<"copy", Consumer(l)[2]>>    <=> i = 9
          /\ Program[i] = <<"erase", Consumer(l)[2]>>   <=> i = 10
          /\ Program[i] = <<"release", Consumer(l)[2]>> <=> i = 11
          /\ Program[i] = <<"remove", Consumer(l)[2]>>  <=> i = 12
          /\ Program[i] = <<"copy", Producer(l)[2]>>    <=> i = 13
          /\ Program[i] = <<"erase", Producer(l)[2]>>   <=> i = 14
          /\ Program[i] = <<"release", Producer(l)[2]>> <=> i = 15
          /\ Program[i] = <<"remove", Producer(l)[2]>>  <=> i = 16
BY DEF Program, Consumer, Producer

\* Where a media thread is says which step it takes next, and for which plugin.
LEMMA DoesFacts ==
    ASSUME owner \in [Leg -> 1..Len(Program)], NEW l \in Leg
    PROVE  /\ owner[l] \in 1..17
           /\ Does(Consumer(l), "new")     <=> owner[l] = 1
           /\ Does(Consumer(l), "create")  <=> owner[l] = 2
           /\ Does(Producer(l), "new")     <=> owner[l] = 3
           /\ Does(Producer(l), "create")  <=> owner[l] = 4
           /\ Does(Consumer(l), "start")   <=> owner[l] = 5
           /\ Does(Producer(l), "start")   <=> owner[l] = 6
           /\ Does(Consumer(l), "stop")    <=> owner[l] = 7
           /\ Does(Producer(l), "stop")    <=> owner[l] = 8
           /\ Does(Consumer(l), "copy")    <=> owner[l] = 9
           /\ Does(Consumer(l), "erase")   <=> owner[l] = 10
           /\ Does(Consumer(l), "release") <=> owner[l] = 11
           /\ Does(Consumer(l), "remove")  <=> owner[l] = 12
           /\ Does(Producer(l), "copy")    <=> owner[l] = 13
           /\ Does(Producer(l), "erase")   <=> owner[l] = 14
           /\ Does(Producer(l), "release") <=> owner[l] = 15
           /\ Does(Producer(l), "remove")  <=> owner[l] = 16
<1>1. owner[l] \in 1..17
  BY ProgramFacts
<1>2. Consumer(l)[1] = l /\ Producer(l)[1] = l
  BY PluginFacts
<1>3. PICK i \in 1..17 : i = owner[l]
  BY <1>1
<1>4. /\ Program[i] = <<"new", Consumer(l)[2]>>     <=> i = 1
      /\ Program[i] = <<"create", Consumer(l)[2]>>  <=> i = 2
      /\ Program[i] = <<"start", Consumer(l)[2]>>   <=> i = 5
      /\ Program[i] = <<"stop", Consumer(l)[2]>>    <=> i = 7
      /\ Program[i] = <<"copy", Consumer(l)[2]>>    <=> i = 9
      /\ Program[i] = <<"erase", Consumer(l)[2]>>   <=> i = 10
      /\ Program[i] = <<"release", Consumer(l)[2]>> <=> i = 11
      /\ Program[i] = <<"remove", Consumer(l)[2]>>  <=> i = 12
  BY ProgramFacts
<1>5. /\ Program[i] = <<"new", Producer(l)[2]>>     <=> i = 3
      /\ Program[i] = <<"create", Producer(l)[2]>>  <=> i = 4
      /\ Program[i] = <<"start", Producer(l)[2]>>   <=> i = 6
      /\ Program[i] = <<"stop", Producer(l)[2]>>    <=> i = 8
      /\ Program[i] = <<"copy", Producer(l)[2]>>    <=> i = 13
      /\ Program[i] = <<"erase", Producer(l)[2]>>   <=> i = 14
      /\ Program[i] = <<"release", Producer(l)[2]>> <=> i = 15
      /\ Program[i] = <<"remove", Producer(l)[2]>>  <=> i = 16
  BY ProgramFacts
<1>6. /\ Does(Consumer(l), "new")     <=> i = 1
      /\ Does(Consumer(l), "create")  <=> i = 2
      /\ Does(Consumer(l), "start")   <=> i = 5
      /\ Does(Consumer(l), "stop")    <=> i = 7
      /\ Does(Consumer(l), "copy")    <=> i = 9
      /\ Does(Consumer(l), "erase")   <=> i = 10
      /\ Does(Consumer(l), "release") <=> i = 11
      /\ Does(Consumer(l), "remove")  <=> i = 12
  BY <1>2, <1>3, <1>4, Zenon DEF Does
<1>7. /\ Does(Producer(l), "new")     <=> i = 3
      /\ Does(Producer(l), "create")  <=> i = 4
      /\ Does(Producer(l), "start")   <=> i = 6
      /\ Does(Producer(l), "stop")    <=> i = 8
      /\ Does(Producer(l), "copy")    <=> i = 13
      /\ Does(Producer(l), "erase")   <=> i = 14
      /\ Does(Producer(l), "release") <=> i = 15
      /\ Does(Producer(l), "remove")  <=> i = 16
  BY <1>2, <1>3, <1>5, Zenon DEF Does
<1> QED
  BY <1>1, <1>3, <1>6, <1>7

\* The step of the program, and its place for a consumer and for a producer.
Places == {<<"new", 1, 3>>, <<"create", 2, 4>>, <<"start", 5, 6>>, <<"stop", 7, 8>>,
           <<"copy", 9, 13>>, <<"erase", 10, 14>>, <<"release", 11, 15>>, <<"remove", 12, 16>>}

\* A plugin's step is that of its leg, and the other leg stays where it is.
LEMMA StepFacts ==
    ASSUME owner \in [Leg -> 1..Len(Program)], NEW p \in Plugin,
           NEW step, NEW a, NEW b, <<step, a, b>> \in Places,
           Does(p, step), GoOn(p)
    PROVE  /\ p[1] \in Leg /\ owner[p[1]] \in {a, b}
           /\ \A l \in Leg : /\ Consumer(l) = p <=> l = p[1] /\ owner[l] = a
                             /\ Producer(l) = p <=> l = p[1] /\ owner[l] = b
           /\ owner' \in [Leg -> 1..Len(Program)]
           /\ \A l \in Leg : /\ owner[l] \in 1..17 /\ owner'[l] \in 1..17
                             /\ owner'[l] = IF l = p[1] THEN owner[l] + 1 ELSE owner[l]
<1>1. p[1] \in Leg /\ (p = Consumer(p[1]) \/ p = Producer(p[1]))
  BY PluginFacts
<1>2. /\ p = Consumer(p[1]) => owner[p[1]] = a
      /\ p = Producer(p[1]) => owner[p[1]] = b
  BY <1>1, DoesFacts DEF Places
<1>3. a # b /\ a \in 1..16 /\ b \in 1..16
  BY DEF Places
<1>4. \A l \in Leg : /\ Consumer(l) = p <=> l = p[1] /\ owner[l] = a
                     /\ Producer(l) = p <=> l = p[1] /\ owner[l] = b
  BY <1>1, <1>2, <1>3, PluginFacts
<1>5. owner' = [owner EXCEPT ![p[1]] = @ + 1] /\ Len(Program) = 17
  BY ProgramFacts DEF GoOn
<1>6. owner[p[1]] \in {a, b}
  BY <1>1, <1>2
<1>7. owner' \in [Leg -> 1..Len(Program)]
  BY <1>1, <1>3, <1>5, <1>6
<1>8. \A l \in Leg : /\ owner[l] \in 1..17 /\ owner'[l] \in 1..17
                     /\ owner'[l] = IF l = p[1] THEN owner[l] + 1 ELSE owner[l]
  BY <1>1, <1>5, <1>7
<1> QED
  BY <1>1, <1>4, <1>6, <1>7, <1>8

\* Plugins that erasePlugin holds, and producers that a consumer is connected with.
Erasing == {p \in Plugin : Does(p, "erase") \/ Does(p, "release")}
Linked  == {Producer(Other(l)) : l \in opposite}

One(b) == IF b THEN 1 ELSE 0

\* Who holds a plugin.
LEMMA HoldersFacts ==
    ASSUME NEW p \in Plugin, opposite \subseteq Leg
    PROVE  Holders(p) = One(p \in plugins) + One(p \in found)
                      + One(p \in Erasing) + One(p \in Linked)
<1>1. p \in Erasing <=> Does(p, "erase") \/ Does(p, "release")
  BY DEF Erasing
<1>2. p \in Linked <=> p = Producer(p[1]) /\ Other(p[1]) \in opposite
  BY PluginFacts DEF Linked
<1> QED
  BY <1>1, <1>2 DEF Holders, One

\* The same after a step.
LEMMA HoldersNext ==
    ASSUME NEW p \in Plugin, opposite' \subseteq Leg
    PROVE  Holders(p)' = One(p \in plugins') + One(p \in found')
                       + One(p \in Erasing') + One(p \in Linked')
<1>1. p \in Erasing' <=> Does(p, "erase")' \/ Does(p, "release")'
  BY DEF Erasing
<1>2. p \in Linked' <=> p = Producer(p[1]) /\ Other(p[1]) \in opposite'
  <2>1. Linked' = {Producer(Other(l)) : l \in opposite'}
    BY DEF Linked, Producer, Other
  <2> QED
    BY <2>1, PluginFacts
<1>3. Holders(p)' =
            (IF p \in plugins' THEN 1 ELSE 0)
          + (IF p \in found' THEN 1 ELSE 0)
          + (IF Does(p, "erase")' \/ Does(p, "release")' THEN 1 ELSE 0)
          + (IF p = Producer(p[1]) /\ Other(p[1]) \in opposite' THEN 1 ELSE 0)
  BY DEF Holders, Producer, Other
<1> QED
  BY <1>1, <1>2, <1>3 DEF One

\* What erasePlugin holds changes with the steps of the owner only.
LEMMA ErasingFacts ==
    ASSUME owner \in [Leg -> 1..Len(Program)], owner' \in [Leg -> 1..Len(Program)]
    PROVE  /\ \A l \in Leg : /\ Consumer(l) \in Erasing <=> owner[l] \in 10..11
                             /\ Producer(l) \in Erasing <=> owner[l] \in 14..15
           /\ \A l \in Leg : /\ Consumer(l) \in Erasing' <=> owner'[l] \in 10..11
                             /\ Producer(l) \in Erasing' <=> owner'[l] \in 14..15
<1>1. ASSUME NEW l \in Leg
      PROVE  /\ Consumer(l) \in Erasing <=> owner[l] \in 10..11
             /\ Producer(l) \in Erasing <=> owner[l] \in 14..15
  <2>1. \A p \in Plugin : p \in Erasing <=> Does(p, "erase") \/ Does(p, "release")
    BY DEF Erasing
  <2>2. Consumer(l) \in Erasing <=> owner[l] \in 10..11
    BY <2>1, DoesFacts, PluginFacts
  <2>3. Producer(l) \in Erasing <=> owner[l] \in 14..15
    BY <2>1, DoesFacts, PluginFacts
  <2> QED
    BY <2>2, <2>3
<1>2. ASSUME NEW l \in Leg
      PROVE  /\ Consumer(l) \in Erasing' <=> owner'[l] \in 10..11
             /\ Producer(l) \in Erasing' <=> owner'[l] \in 14..15
  <2>1. /\ owner'[l] \in 1..17
        /\ Does(Consumer(l), "erase")' \/ Does(Consumer(l), "release")' <=> owner'[l] \in 10..11
        /\ Does(Producer(l), "erase")' \/ Does(Producer(l), "release")' <=> owner'[l] \in 14..15
    BY ProgramFacts, PluginFacts DEF Does, Consumer, Producer
  <2>2. Erasing' = {p \in Plugin : Does(p, "erase")' \/ Does(p, "release")'}
    BY DEF Erasing, Plugin, Leg
  <2> QED
    BY <2>1, <2>2, PluginFacts DEF Consumer, Producer
<1> QED
  BY <1>1, <1>2

-----------------------------------------------------------------------------
(* Counts.                                                                   *)

\* Whether or not an update is lost, counts stay counts.
LEMMA PlusMinusType ==
    ASSUME NEW c \in [Plugin -> Nat], NEW q \in Plugin, NEW b
    PROVE  /\ Plus(c, q, b) \subseteq [Plugin -> Nat]
           /\ Minus(c, q, b) \subseteq [Plugin -> Nat]
<1>1. [c EXCEPT ![q] = @ + 1] \in [Plugin -> Nat]
  OBVIOUS
<1>2. [c EXCEPT ![q] = IF @ = 0 THEN 0 ELSE @ - 1] \in [Plugin -> Nat]
  OBVIOUS
<1> QED
  BY <1>1, <1>2 DEF Plus, Minus

\* The types after a release.
LEMMA ReleaseType ==
    ASSUME count \in [Plugin -> Nat], alive \subseteq Plugin, opposite \subseteq Leg,
           races \subseteq Race, NEW p \in Plugin, NEW racy, Release(p, racy)
    PROVE  /\ count' \in [Plugin -> Nat] /\ alive' \subseteq alive /\ opposite' \subseteq opposite
           /\ races' \subseteq Race /\ races \subseteq races' /\ crashed' \in BOOLEAN
           /\ crashed' => "count" \in races'
<1>1. PICK c \in Minus(count, p, p \in racy) :
         LET others == ReleasedWith(p, c)
             noted  == ({p} \cup others) \cap racy
         IN  \E d \in IF others = {} THEN {c}
                      ELSE UNION {Minus(c, q, q \in racy) : q \in others} :
               /\ count' = d
               /\ alive' = alive \ {q \in {p} \cup others : d[q] = 0}
               /\ opposite' = IF p \in alive \ alive' THEN opposite \ {k \in Leg : p = Consumer(k)}
                                                      ELSE opposite
               /\ races' = races \cup Note("count", noted # {})
               /\ crashed' \in IF noted # {} THEN BOOLEAN ELSE {FALSE}
  BY DEF Release
<1> DEFINE others == ReleasedWith(p, c)
           noted  == ({p} \cup others) \cap racy
<1>2. c \in [Plugin -> Nat]
  BY PlusMinusType
<1>3. others \subseteq Plugin
  BY PluginFacts DEF ReleasedWith
<1>4. count' \in [Plugin -> Nat]
  <2>1. CASE others = {}
    BY <1>1, <1>2, <2>1
  <2>2. CASE others # {}
    <3>1. PICK q \in others : count' \in Minus(c, q, q \in racy)
      BY <1>1, <2>2
    <3> QED
      BY <1>2, <1>3, <3>1, PlusMinusType
  <2> QED
    BY <2>1, <2>2
<1>5. "count" \in Race /\ Note("count", noted # {}) \subseteq {"count"}
  BY DEF Race, Note
<1>6. noted # {} => "count" \in Note("count", noted # {})
  BY DEF Note
<1>7. crashed' \in BOOLEAN /\ (crashed' => "count" \in races')
  <2>1. crashed' \in BOOLEAN
    BY <1>1
  <2>2. CASE noted # {}
    BY <1>1, <1>6, <2>1, <2>2
  <2>3. CASE noted = {}
    BY <1>1, <2>3
  <2> QED
    BY <2>1, <2>2, <2>3
<1> QED
  BY <1>1, <1>4, <1>5, <1>7

\* The legs whose link is dropped when a reference to p is released.
Unlinked(p) == IF count[p] = 1 THEN {l \in opposite : p = Consumer(l)} ELSE {}

\* A release that overlaps with nothing takes one reference from p and, if it was
\* the last one to a consumer, one from the producer it was connected with.
LEMMA ReleaseFacts ==
    ASSUME count \in [Plugin -> Nat], opposite \subseteq Leg,
           \A q \in Plugin : q \in alive <=> count[q] > 0,
           NEW p \in Plugin, count[p] > 0,
           \A l \in opposite : count[Producer(Other(l))] > 0,
           NEW racy, Release(p, racy), "count" \notin races'
    PROVE  /\ races' = races /\ crashed' = FALSE
           /\ opposite' = opposite \ Unlinked(p)
           /\ \A q \in Plugin :
                 /\ count'[q] = IF q = p \/ \E l \in Unlinked(p) : q = Producer(Other(l))
                                THEN count[q] - 1 ELSE count[q]
                 /\ q \in alive' <=> count'[q] > 0
<1>1. PICK c \in Minus(count, p, p \in racy) :
         LET others == ReleasedWith(p, c)
             noted  == ({p} \cup others) \cap racy
         IN  \E d \in IF others = {} THEN {c}
                      ELSE UNION {Minus(c, q, q \in racy) : q \in others} :
               /\ count' = d
               /\ alive' = alive \ {q \in {p} \cup others : d[q] = 0}
               /\ opposite' = IF p \in alive \ alive' THEN opposite \ {k \in Leg : p = Consumer(k)}
                                                      ELSE opposite
               /\ races' = races \cup Note("count", noted # {})
               /\ crashed' \in IF noted # {} THEN BOOLEAN ELSE {FALSE}
  BY DEF Release
<1> DEFINE others == ReleasedWith(p, c)
           noted  == ({p} \cup others) \cap racy
<1>2. noted = {} /\ races' = races /\ crashed' = FALSE
  <2>1. noted = {}
    BY <1>1 DEF Note
  <2> QED
    BY <1>1, <2>1 DEF Note
<1>3. c = [count EXCEPT ![p] = count[p] - 1]
  <2>1. p \notin racy
    BY <1>2
  <2> QED
    BY <1>1, <2>1 DEF Minus
<1>4. p \in alive /\ (c[p] = 0 <=> count[p] = 1)
  BY <1>3
<1>5. others = {Producer(Other(l)) : l \in Unlinked(p)}
  BY <1>4 DEF ReleasedWith, Unlinked
<1>6. CASE Unlinked(p) = {}
  <2>1. others = {}
    BY <1>5, <1>6
  <2>2. count' = c /\ alive' = alive \ {q \in {p} : c[q] = 0}
    BY <1>1, <2>1
  <2>3. \A q \in Plugin : q \in alive' <=> count'[q] > 0
    BY <1>3, <2>2
  <2>4. opposite' = opposite
    <3>1. CASE count[p] = 1
      BY <1>1, <1>6, <3>1 DEF Unlinked
    <3>2. CASE count[p] # 1
      BY <1>1, <1>3, <1>4, <2>2, <3>2
    <3> QED
      BY <3>1, <3>2
  <2> QED
    BY <1>2, <1>3, <1>6, <2>2, <2>3, <2>4
<1>7. CASE Unlinked(p) # {}
  <2>1. PICK l \in Leg : l \in opposite /\ p = Consumer(l)
    BY <1>7 DEF Unlinked
  <2>2. count[p] = 1 /\ Unlinked(p) = {l}
    BY <1>7, <2>1, PluginFacts DEF Unlinked
  <2> DEFINE q == Producer(Other(l))
  <2>3. q \in Plugin /\ q # p /\ count[q] > 0
    BY <2>1, PluginFacts
  <2>4. others = {q}
    BY <1>5, <2>2
  <2>5. count' \in Minus(c, q, q \in racy) /\ q \notin racy
    BY <1>1, <1>2, <2>4
  <2>6. count' = [c EXCEPT ![q] = count[q] - 1]
    BY <1>3, <2>3, <2>5 DEF Minus
  <2>7. alive' = alive \ {r \in {p, q} : count'[r] = 0}
    BY <1>1, <2>4
  <2>8. \A r \in Plugin : count'[r] = IF r = p \/ r = q THEN count[r] - 1 ELSE count[r]
    BY <1>3, <2>3, <2>6
  <2>9. \A r \in Plugin : r \in alive' <=> count'[r] > 0
    BY <2>3, <2>7, <2>8
  <2>10. opposite' = opposite \ {l}
    <3>1. p \in alive \ alive'
      BY <1>4, <2>2, <2>8, <2>9
    <3>2. {k \in Leg : p = Consumer(k)} = {l}
      BY <2>1, PluginFacts
    <3> QED
      BY <1>1, <3>1, <3>2
  <2> QED
    BY <1>2, <2>2, <2>8, <2>9, <2>10
<1> QED
  BY <1>6, <1>7


-----------------------------------------------------------------------------
(* The owner of a plugin.                                                    *)

\* A thread that goes on, without a plugin being created, in the map or released
\* before or after, changes nothing that is held.
LEMMA HoldersKept ==
    ASSUME TypeOK, TypeOK', UNCHANGED <<plugins, found, opposite>>,
           \A l \in Leg : /\ owner[l] \in 10..11 <=> owner'[l] \in 10..11
                          /\ owner[l] \in 14..15 <=> owner'[l] \in 14..15
    PROVE  \A p \in Plugin : Holders(p)' = Holders(p)
<1>1. /\ owner \in [Leg -> 1..Len(Program)] /\ owner' \in [Leg -> 1..Len(Program)]
      /\ opposite \subseteq Leg /\ opposite' = opposite
  BY DEF TypeOK
<1>2. Linked' = Linked
  BY DEF Linked, Producer, Other
<1>3. ASSUME NEW p \in Plugin PROVE p \in Erasing' <=> p \in Erasing
  BY <1>1, ErasingFacts, PluginFacts
<1>4. ASSUME NEW p \in Plugin PROVE Holders(p)' = Holders(p)
  BY <1>1, <1>2, <1>3, HoldersFacts, HoldersNext
<1> QED
  BY <1>4

\* What is where after a step.
LEMMA PlacedNext ==
    ASSUME NEW l \in Leg,
           Consumer(l) \in listed'  <=> owner'[l] \in 2..12,
           Producer(l) \in listed'  <=> owner'[l] \in 4..16,
           Consumer(l) \in plugins' <=> owner'[l] \in 3..10,
           Producer(l) \in plugins' <=> owner'[l] \in 5..14,
           Producer(l) \in started' => owner'[l] \in 7..8
    PROVE  Placed(l)'
BY DEF Placed, Consumer, Producer

\* A step that leaves the plugins and their holders alone leaves the counts right.
LEMMA QuietIInv ==
    ASSUME IInv, TypeOK', OwnerInv', RtpInv', RtcpInv', EndInv', CrashNeedsRace',
           UNCHANGED <<plugins, valid, alive, count, opposite, sip, found>>,
           races \subseteq races', crashed => crashed',
           \A l \in Leg : /\ owner[l] \in 10..11 <=> owner'[l] \in 10..11
                          /\ owner[l] \in 14..15 <=> owner'[l] \in 14..15
                          /\ owner'[l] >= owner[l]
                          /\ rtp'[l] = "push" => rtp[l] = "push" \/ l \in opposite
    PROVE  IInv'
<1>1. TypeOK /\ SipInv /\ CountInv /\ ValidInv
  BY DEF IInv
<1>2. ValidInv'
  BY <1>1 DEF ValidInv
<1>3. Created \subseteq Created'
  <2>1. \A l \in Leg : owner[l] \in Nat /\ owner'[l] \in Nat
    BY <1>1, ProgramFacts DEF TypeOK
  <2> QED
    BY <2>1 DEF Created, Consumer, Producer
<1>4. SipInv'
  BY <1>1, <1>3 DEF SipInv, Consumer, Producer, Other, Finds, Declared
<1>5. CountInv'
  <2> SUFFICES ASSUME "count" \notin races', ~crashed' PROVE CountInv'
    BY DEF CountInv
  <2>1. /\ \A p \in Plugin : count[p] = Holders(p) /\ (p \in alive <=> count[p] > 0)
        /\ \A l \in opposite : Consumer(l) \in alive
        /\ \A l \in Leg : rtp[l] = "push" => l \in opposite
    BY <1>1 DEF CountInv
  <2>2. \A p \in Plugin : Holders(p)' = Holders(p)
    BY <1>1, HoldersKept
  <2> QED
    BY <2>1, <2>2 DEF CountInv, Consumer
<1> QED
  BY <1>2, <1>4, <1>5 DEF IInv

\* A Proxy object is listed.
LEMMA AddPluginIInv ==
    ASSUME IInv, NEW p \in Plugin, AddPlugin(p)
    PROVE  IInv'
<1> USE DEF managerVars, objectVars, sipVars
<1>1. TypeOK /\ OwnerInv /\ RtpInv /\ RtcpInv /\ EndInv /\ CrashNeedsRace
  BY DEF IInv
<1>2. /\ p[1] \in Leg /\ owner[p[1]] \in {1, 3}
      /\ \A l \in Leg : /\ Consumer(l) = p <=> l = p[1] /\ owner[l] = 1
                        /\ Producer(l) = p <=> l = p[1] /\ owner[l] = 3
      /\ owner' \in [Leg -> 1..Len(Program)]
      /\ \A l \in Leg : /\ owner[l] \in 1..17 /\ owner'[l] \in 1..17
                        /\ owner'[l] = IF l = p[1] THEN owner[l] + 1 ELSE owner[l]
  <2>1. /\ owner \in [Leg -> 1..Len(Program)] /\ <<"new", 1, 3>> \in Places
        /\ Does(p, "new") /\ GoOn(p)
    BY <1>1 DEF AddPlugin, At, TypeOK, Places
  <2> QED
    BY <2>1, StepFacts
<1>3. /\ listed' = listed \cup {p}
      /\ UNCHANGED <<plugins, mutex, objectVars, sipVars, rtp, sessions, races, crashed>>
      /\ ~crashed
  BY DEF AddPlugin, At
<1>4. TypeOK'
  BY <1>1, <1>2, <1>3 DEF TypeOK
<1>5. OwnerInv'
  <2>1. ASSUME NEW l \in Leg, l # p[1] PROVE Placed(l)'
    BY <1>1, <1>2, <1>3, <2>1, PlacedNext DEF OwnerInv, Placed
  <2>2. Placed(p[1])'
    <3>1. Placed(p[1])
      BY <1>1, <1>2 DEF OwnerInv
    <3>2. CASE owner[p[1]] = 1
      BY <1>2, <1>3, <3>1, <3>2, PlacedNext DEF Placed
    <3>3. CASE owner[p[1]] = 3
      BY <1>2, <1>3, <3>1, <3>3, PlacedNext DEF Placed
    <3> QED
      BY <1>2, <3>2, <3>3
  <2> QED
    BY <2>1, <2>2 DEF OwnerInv
<1>6. RtpInv' /\ RtcpInv' /\ CrashNeedsRace' /\ EndInv'
  BY <1>1, <1>2, <1>3 DEF RtpInv, RtcpInv, CrashNeedsRace, EndInv
<1> QED
  BY <1>1, <1>2, <1>3, <1>4, <1>5, <1>6, QuietIInv

\* A Proxy object is removed from the list.
LEMMA RemovePluginIInv ==
    ASSUME IInv, NEW p \in Plugin, RemovePlugin(p)
    PROVE  IInv'
<1> USE DEF managerVars, objectVars, sipVars
<1>1. TypeOK /\ OwnerInv /\ RtpInv /\ RtcpInv /\ EndInv /\ CrashNeedsRace
  BY DEF IInv
<1>2. /\ p[1] \in Leg /\ owner[p[1]] \in {12, 16}
      /\ \A l \in Leg : /\ Consumer(l) = p <=> l = p[1] /\ owner[l] = 12
                        /\ Producer(l) = p <=> l = p[1] /\ owner[l] = 16
      /\ owner' \in [Leg -> 1..Len(Program)]
      /\ \A l \in Leg : /\ owner[l] \in 1..17 /\ owner'[l] \in 1..17
                        /\ owner'[l] = IF l = p[1] THEN owner[l] + 1 ELSE owner[l]
  <2>1. /\ owner \in [Leg -> 1..Len(Program)] /\ <<"remove", 12, 16>> \in Places
        /\ Does(p, "remove") /\ GoOn(p)
    BY <1>1 DEF RemovePlugin, At, TypeOK, Places
  <2> QED
    BY <2>1, StepFacts
<1>3. /\ listed' = listed \ {p}
      /\ UNCHANGED <<plugins, mutex, objectVars, sipVars, rtp, sessions, races, crashed>>
      /\ ~crashed
  BY DEF RemovePlugin, At
<1>4. TypeOK'
  BY <1>1, <1>2, <1>3 DEF TypeOK
<1>5. OwnerInv'
  <2>1. ASSUME NEW l \in Leg, l # p[1] PROVE Placed(l)'
    BY <1>1, <1>2, <1>3, <2>1, PlacedNext DEF OwnerInv, Placed
  <2>2. Placed(p[1])'
    <3>1. Placed(p[1])
      BY <1>1, <1>2 DEF OwnerInv
    <3>2. CASE owner[p[1]] = 12
      BY <1>2, <1>3, <3>1, <3>2, PlacedNext DEF Placed
    <3>3. CASE owner[p[1]] = 16
      BY <1>2, <1>3, <3>1, <3>3, PlacedNext DEF Placed
    <3> QED
      BY <1>2, <3>2, <3>3
  <2> QED
    BY <2>1, <2>2 DEF OwnerInv
<1>6. RtpInv' /\ RtcpInv' /\ CrashNeedsRace' /\ EndInv'
  BY <1>1, <1>2, <1>3 DEF RtpInv, RtcpInv, CrashNeedsRace, EndInv
<1> QED
  BY <1>1, <1>2, <1>3, <1>4, <1>5, <1>6, QuietIInv

\* A plugin is started.
LEMMA StartIInv ==
    ASSUME IInv, NEW p \in Plugin, Start(p)
    PROVE  IInv'
<1> USE DEF managerVars, objectVars, sipVars
<1>1. TypeOK /\ OwnerInv /\ RtpInv /\ RtcpInv /\ EndInv /\ CrashNeedsRace
  BY DEF IInv
<1>2. /\ p[1] \in Leg /\ owner[p[1]] \in {5, 6}
      /\ \A l \in Leg : /\ Consumer(l) = p <=> l = p[1] /\ owner[l] = 5
                        /\ Producer(l) = p <=> l = p[1] /\ owner[l] = 6
      /\ owner' \in [Leg -> 1..Len(Program)]
      /\ \A l \in Leg : /\ owner[l] \in 1..17 /\ owner'[l] \in 1..17
                        /\ owner'[l] = IF l = p[1] THEN owner[l] + 1 ELSE owner[l]
  <2>1. /\ owner \in [Leg -> 1..Len(Program)] /\ <<"start", 5, 6>> \in Places
        /\ Does(p, "start") /\ GoOn(p)
    BY <1>1 DEF Start, At, TypeOK, Places
  <2> QED
    BY <2>1, StepFacts
<1>3. /\ started' = started \cup {p}
      /\ UNCHANGED <<managerVars, alive, valid, count, opposite, sipVars, rtp, sessions, races,
                     crashed>>
      /\ ~crashed
  BY DEF Start, At
<1>4. TypeOK'
  BY <1>1, <1>2, <1>3 DEF TypeOK
<1>5. OwnerInv'
  <2>1. ASSUME NEW l \in Leg, l # p[1] PROVE Placed(l)'
    BY <1>1, <1>2, <1>3, <2>1, PlacedNext DEF OwnerInv, Placed
  <2>2. Placed(p[1])'
    <3>1. Placed(p[1])
      BY <1>1, <1>2 DEF OwnerInv
    <3>2. CASE owner[p[1]] = 5
      BY <1>2, <1>3, <3>1, <3>2, PlacedNext DEF Placed
    <3>3. CASE owner[p[1]] = 6
      BY <1>2, <1>3, <3>1, <3>3, PlacedNext DEF Placed
    <3> QED
      BY <1>2, <3>2, <3>3
  <2> QED
    BY <2>1, <2>2 DEF OwnerInv
<1>6. RtpInv' /\ RtcpInv' /\ CrashNeedsRace' /\ EndInv'
  BY <1>1, <1>2, <1>3 DEF RtpInv, RtcpInv, CrashNeedsRace, EndInv
<1> QED
  BY <1>1, <1>2, <1>3, <1>4, <1>5, <1>6, QuietIInv

\* A plugin is stopped, once its leg's RTP thread is idle.
LEMMA StopIInv ==
    ASSUME IInv, NEW p \in Plugin, Stop(p)
    PROVE  IInv'
<1> USE DEF managerVars, objectVars, sipVars
<1>1. TypeOK /\ OwnerInv /\ RtpInv /\ RtcpInv /\ EndInv /\ CrashNeedsRace
  BY DEF IInv
<1>2. /\ p[1] \in Leg /\ owner[p[1]] \in {7, 8}
      /\ \A l \in Leg : /\ Consumer(l) = p <=> l = p[1] /\ owner[l] = 7
                        /\ Producer(l) = p <=> l = p[1] /\ owner[l] = 8
      /\ owner' \in [Leg -> 1..Len(Program)]
      /\ \A l \in Leg : /\ owner[l] \in 1..17 /\ owner'[l] \in 1..17
                        /\ owner'[l] = IF l = p[1] THEN owner[l] + 1 ELSE owner[l]
  <2>1. /\ owner \in [Leg -> 1..Len(Program)] /\ <<"stop", 7, 8>> \in Places
        /\ Does(p, "stop") /\ GoOn(p)
    BY <1>1 DEF Stop, At, TypeOK, Places
  <2> QED
    BY <2>1, StepFacts
<1>3. /\ started' = started \ {p} /\ rtp[p[1]] = "idle"
      /\ UNCHANGED <<managerVars, alive, valid, count, opposite, sipVars, rtp, sessions, races,
                     crashed>>
      /\ ~crashed
  BY DEF Stop, At
<1>4. TypeOK'
  BY <1>1, <1>2, <1>3 DEF TypeOK
<1>5. OwnerInv'
  <2>1. ASSUME NEW l \in Leg, l # p[1] PROVE Placed(l)'
    BY <1>1, <1>2, <1>3, <2>1, PlacedNext DEF OwnerInv, Placed
  <2>2. Placed(p[1])'
    <3>1. Placed(p[1])
      BY <1>1, <1>2 DEF OwnerInv
    <3>2. CASE owner[p[1]] = 7
      BY <1>2, <1>3, <3>1, <3>2, PlacedNext DEF Placed
    <3>3. CASE owner[p[1]] = 8
      BY <1>2, <1>3, <3>1, <3>3, PlacedNext DEF Placed
    <3> QED
      BY <1>2, <3>2, <3>3
  <2> QED
    BY <2>1, <2>2 DEF OwnerInv
<1>6. RtpInv' /\ RtcpInv' /\ CrashNeedsRace' /\ EndInv'
  BY <1>1, <1>2, <1>3 DEF RtpInv, RtcpInv, CrashNeedsRace, EndInv
<1> QED
  BY <1>1, <1>2, <1>3, <1>4, <1>5, <1>6, QuietIInv

\* A call ends before its plugins were started.
LEMMA NeverStartIInv ==
    ASSUME IInv, NEW l \in Leg, NeverStart(l)
    PROVE  IInv'
<1> USE DEF managerVars, objectVars, sipVars
<1>1. TypeOK /\ OwnerInv /\ RtpInv /\ RtcpInv /\ EndInv /\ CrashNeedsRace
  BY DEF IInv
<1>2. owner[l] = 5 /\ owner' = [owner EXCEPT ![l] = @ + 4]
  BY <1>1, DoesFacts DEF NeverStart, At, TypeOK
<1>3. /\ owner' \in [Leg -> 1..Len(Program)]
      /\ \A k \in Leg : /\ owner[k] \in 1..17 /\ owner'[k] \in 1..17
                        /\ owner'[k] = IF k = l THEN owner[l] + 4 ELSE owner[k]
  BY <1>1, <1>2, ProgramFacts DEF TypeOK
<1>4. /\ UNCHANGED <<managerVars, objectVars, sipVars, rtp, sessions, races, crashed>>
      /\ ~crashed
  BY DEF NeverStart, At
<1>5. TypeOK'
  BY <1>1, <1>3, <1>4 DEF TypeOK
<1>6. OwnerInv'
  <2>1. ASSUME NEW k \in Leg PROVE Placed(k)'
    BY <1>1, <1>2, <1>3, <1>4, PlacedNext DEF OwnerInv, Placed
  <2> QED
    BY <2>1 DEF OwnerInv
<1>7. RtpInv' /\ RtcpInv' /\ CrashNeedsRace' /\ EndInv'
  BY <1>1, <1>2, <1>3, <1>4 DEF RtpInv, RtcpInv, CrashNeedsRace, EndInv
<1> QED
  BY <1>2, <1>3, <1>4, <1>5, <1>6, <1>7, QuietIInv

\* A plugin is created: it enters the map, which holds the only reference to it.
LEMMA OnPluginCreatedIInv ==
    ASSUME IInv, NEW p \in Plugin, OnPluginCreated(p)
    PROVE  IInv'
<1> USE DEF sipVars
<1>1. /\ TypeOK /\ OwnerInv /\ ValidInv /\ RtpInv /\ SipInv /\ CountInv /\ RtcpInv
      /\ CrashNeedsRace
  BY DEF IInv
<1>2. /\ p[1] \in Leg /\ owner[p[1]] \in {2, 4}
      /\ \A l \in Leg : /\ Consumer(l) = p <=> l = p[1] /\ owner[l] = 2
                        /\ Producer(l) = p <=> l = p[1] /\ owner[l] = 4
      /\ owner' \in [Leg -> 1..Len(Program)]
      /\ \A l \in Leg : /\ owner[l] \in 1..17 /\ owner'[l] \in 1..17
                        /\ owner'[l] = IF l = p[1] THEN owner[l] + 1 ELSE owner[l]
  <2>1. /\ owner \in [Leg -> 1..Len(Program)] /\ <<"create", 2, 4>> \in Places
        /\ Does(p, "create") /\ GoOn(p)
    BY <1>1 DEF OnPluginCreated, At, TypeOK, Places
  <2> QED
    BY <2>1, StepFacts
<1>3. /\ plugins' = plugins \cup {p} /\ alive' = alive \cup {p} /\ valid' = valid \cup {p}
      /\ count' = [count EXCEPT ![p] = 1]
      /\ UNCHANGED <<listed, mutex, started, opposite, sip, found, rtp, sessions, races, crashed>>
      /\ ~crashed
  BY DEF OnPluginCreated, At
<1>4. TypeOK'
  BY <1>1, <1>2, <1>3 DEF TypeOK
<1>5. OwnerInv'
  <2>1. ASSUME NEW l \in Leg, l # p[1] PROVE Placed(l)'
    BY <1>1, <1>2, <1>3, <2>1, PlacedNext DEF OwnerInv, Placed
  <2>2. Placed(p[1])'
    <3>1. Placed(p[1])
      BY <1>1, <1>2 DEF OwnerInv
    <3>2. CASE owner[p[1]] = 2
      BY <1>2, <1>3, <3>1, <3>2, PlacedNext DEF Placed
    <3>3. CASE owner[p[1]] = 4
      BY <1>2, <1>3, <3>1, <3>3, PlacedNext DEF Placed
    <3> QED
      BY <1>2, <3>2, <3>3
  <2> QED
    BY <2>1, <2>2 DEF OwnerInv
<1>6. ValidInv' /\ RtpInv' /\ RtcpInv' /\ EndInv' /\ CrashNeedsRace'
  BY <1>1, <1>2, <1>3 DEF ValidInv, RtpInv, RtcpInv, EndInv, CrashNeedsRace
<1>7. Created \subseteq Created'
  BY <1>2 DEF Created, Consumer, Producer
<1>8. SipInv'
  BY <1>1, <1>3, <1>7 DEF SipInv, Consumer, Producer, Other, Finds, Declared
<1>9. p \notin plugins /\ p \notin found /\ p \notin Linked
  <2>1. p \notin Created
    BY <1>2, PluginFacts DEF Created
  <2>2. p \notin found /\ p \notin Linked
    BY <1>1, <2>1 DEF SipInv, Linked
  <2>3. p = Consumer(p[1]) \/ p = Producer(p[1])
    BY PluginFacts
  <2>4. p \notin plugins
    BY <1>1, <1>2, <2>3 DEF OwnerInv, Placed
  <2> QED
    BY <2>2, <2>4
<1>10. CountInv'
  <2> SUFFICES ASSUME "count" \notin races PROVE CountInv'
    BY <1>3 DEF CountInv
  <2>1. /\ \A q \in Plugin : count[q] = Holders(q) /\ (q \in alive <=> count[q] > 0)
        /\ \A l \in opposite : Consumer(l) \in alive
        /\ \A l \in Leg : rtp[l] = "push" => l \in opposite
    BY <1>1, <1>3 DEF CountInv
  <2>2. \A q \in Plugin : count'[q] = IF q = p THEN 1 ELSE count[q]
    BY <1>1, <1>3 DEF TypeOK
  <2>3. /\ p \notin Erasing'
        /\ \A q \in Plugin : q \in Erasing' <=> q \in Erasing
    <3>1. owner \in [Leg -> 1..Len(Program)]
      BY <1>1 DEF TypeOK
    <3>2. \A l \in Leg : /\ Consumer(l) \in Erasing' <=> Consumer(l) \in Erasing
                         /\ Producer(l) \in Erasing' <=> Producer(l) \in Erasing
                         /\ l = p[1] => Consumer(l) \notin Erasing' /\ Producer(l) \notin Erasing'
      BY <1>2, <3>1, ErasingFacts
    <3> QED
      BY <1>2, <3>2, PluginFacts
  <2>4. Linked' = Linked
    BY <1>3 DEF Linked, Producer, Other
  <2>5. opposite \subseteq Leg
    BY <1>1 DEF TypeOK
  <2>6. ASSUME NEW q \in Plugin PROVE Holders(q)' = IF q = p THEN 1 ELSE Holders(q)
    BY <1>3, <1>9, <2>3, <2>4, <2>5, HoldersFacts, HoldersNext DEF One
  <2>7. \A q \in Plugin : count'[q] = Holders(q)' /\ (q \in alive' <=> count'[q] > 0)
    BY <1>3, <2>1, <2>2, <2>6
  <2>8. /\ \A l \in opposite' : Consumer(l) \in alive'
        /\ \A l \in Leg : rtp'[l] = "push" => l \in opposite'
    BY <1>3, <2>1
  <2> QED
    BY <2>7, <2>8 DEF CountInv, Consumer
<1> QED
  BY <1>4, <1>5, <1>6, <1>8, <1>10 DEF IInv

\* A plugin is taken out of the map: its owner takes a reference.
LEMMA CopyPluginIInv ==
    ASSUME IInv, NEW p \in Plugin, CopyPlugin(p)
    PROVE  IInv'
<1> USE DEF sipVars, Unlocked
<1>1. /\ TypeOK /\ OwnerInv /\ ValidInv /\ RtpInv /\ SipInv /\ CountInv /\ RtcpInv
      /\ CrashNeedsRace
  BY DEF IInv
<1>2. /\ p[1] \in Leg /\ owner[p[1]] \in {9, 13}
      /\ \A l \in Leg : /\ Consumer(l) = p <=> l = p[1] /\ owner[l] = 9
                        /\ Producer(l) = p <=> l = p[1] /\ owner[l] = 13
      /\ owner' \in [Leg -> 1..Len(Program)]
      /\ \A l \in Leg : /\ owner[l] \in 1..17 /\ owner'[l] \in 1..17
                        /\ owner'[l] = IF l = p[1] THEN owner[l] + 1 ELSE owner[l]
  <2>1. /\ owner \in [Leg -> 1..Len(Program)] /\ <<"copy", 9, 13>> \in Places
        /\ Does(p, "copy") /\ GoOn(p)
    BY <1>1 DEF CopyPlugin, At, TypeOK, Places
  <2> QED
    BY <2>1, StepFacts
<1>3. /\ mutex = {} /\ mutex' = {p}
      /\ count' \in Plus(count, p, OwnerOverlaps(p, p))
      /\ races' = races \cup Note("count", OwnerOverlaps(p, p))
      /\ UNCHANGED <<listed, plugins, alive, valid, started, opposite, sip, found, rtp, sessions,
                     crashed>>
      /\ ~crashed
  BY DEF CopyPlugin, At
<1>4. TypeOK'
  <2>1. mutex' \subseteq Plugin /\ Cardinality(mutex') <= 1
    BY <1>3, FS_Singleton
  <2>2. count' \in [Plugin -> Nat] /\ races' \subseteq Race
    BY <1>1, <1>3, PlusMinusType DEF TypeOK, Note, Race
  <2> QED
    BY <1>1, <1>2, <1>3, <2>1, <2>2 DEF TypeOK
<1>5. OwnerInv'
  <2>1. ASSUME NEW l \in Leg, l # p[1] PROVE Placed(l)'
    BY <1>1, <1>2, <1>3, <2>1, PlacedNext DEF OwnerInv, Placed
  <2>2. Placed(p[1])'
    <3>1. Placed(p[1])
      BY <1>1, <1>2 DEF OwnerInv
    <3>2. CASE owner[p[1]] = 9
      BY <1>2, <1>3, <3>1, <3>2, PlacedNext DEF Placed
    <3>3. CASE owner[p[1]] = 13
      BY <1>2, <1>3, <3>1, <3>3, PlacedNext DEF Placed
    <3> QED
      BY <1>2, <3>2, <3>3
  <2> QED
    BY <2>1, <2>2 DEF OwnerInv
<1>6. ValidInv' /\ RtpInv' /\ RtcpInv' /\ EndInv' /\ CrashNeedsRace'
  BY <1>1, <1>2, <1>3 DEF ValidInv, RtpInv, RtcpInv, EndInv, CrashNeedsRace, Note
<1>7. Created \subseteq Created'
  BY <1>2 DEF Created, Consumer, Producer
<1>8. SipInv'
  BY <1>1, <1>3, <1>7 DEF SipInv, Consumer, Producer, Other, Finds, Declared
<1>9. p \in plugins
  <2>1. p = Consumer(p[1]) \/ p = Producer(p[1])
    BY PluginFacts
  <2> QED
    BY <1>1, <1>2, <2>1 DEF OwnerInv, Placed
<1>10. CountInv'
  <2> SUFFICES ASSUME "count" \notin races' PROVE CountInv'
    BY DEF CountInv
  <2>1. "count" \notin races /\ count' = [count EXCEPT ![p] = @ + 1]
    BY <1>3 DEF Note, Plus
  <2>2. /\ \A q \in Plugin : count[q] = Holders(q) /\ (q \in alive <=> count[q] > 0)
        /\ \A l \in opposite : Consumer(l) \in alive
        /\ \A l \in Leg : rtp[l] = "push" => l \in opposite
    BY <1>1, <1>3, <2>1 DEF CountInv
  <2>3. \A q \in Plugin : count[q] \in Nat /\ count'[q] = IF q = p THEN count[q] + 1 ELSE count[q]
    BY <1>1, <2>1 DEF TypeOK
  <2>4. /\ p \notin Erasing /\ p \in Erasing'
        /\ \A q \in Plugin \ {p} : q \in Erasing' <=> q \in Erasing
    <3>1. owner \in [Leg -> 1..Len(Program)]
      BY <1>1 DEF TypeOK
    <3>2. \A l \in Leg :
             /\ Consumer(l) # p => (Consumer(l) \in Erasing' <=> Consumer(l) \in Erasing)
             /\ Producer(l) # p => (Producer(l) \in Erasing' <=> Producer(l) \in Erasing)
             /\ Consumer(l) = p => Consumer(l) \notin Erasing /\ Consumer(l) \in Erasing'
             /\ Producer(l) = p => Producer(l) \notin Erasing /\ Producer(l) \in Erasing'
      BY <1>2, <3>1, ErasingFacts
    <3> QED
      BY <3>2, PluginFacts
  <2>5. Linked' = Linked
    BY <1>3 DEF Linked, Producer, Other
  <2>6. opposite \subseteq Leg
    BY <1>1 DEF TypeOK
  <2>7. ASSUME NEW q \in Plugin PROVE Holders(q)' = IF q = p THEN Holders(q) + 1 ELSE Holders(q)
    BY <1>3, <2>4, <2>5, <2>6, HoldersFacts, HoldersNext DEF One
  <2>8. p \in alive
    <3>1. Holders(p) > 0
      BY <1>9, <2>6, HoldersFacts DEF One
    <3> QED
      BY <2>2, <3>1
  <2>9. \A q \in Plugin : count'[q] = Holders(q)' /\ (q \in alive' <=> count'[q] > 0)
    BY <1>3, <2>2, <2>3, <2>7, <2>8
  <2>10. /\ \A l \in opposite' : Consumer(l) \in alive'
         /\ \A l \in Leg : rtp'[l] = "push" => l \in opposite'
    BY <1>3, <2>2
  <2> QED
    BY <2>9, <2>10 DEF CountInv, Consumer
<1> QED
  BY <1>4, <1>5, <1>6, <1>8, <1>10 DEF IInv

\* The map's reference is given back; the owner's keeps the plugin.
LEMMA ErasePluginIInv ==
    ASSUME IInv, NEW p \in Plugin, ErasePlugin(p)
    PROVE  IInv'
<1> USE DEF sipVars
<1>1. /\ TypeOK /\ OwnerInv /\ ValidInv /\ RtpInv /\ SipInv /\ CountInv /\ RtcpInv
      /\ CrashNeedsRace
  BY DEF IInv
<1>2. /\ p[1] \in Leg /\ owner[p[1]] \in {10, 14}
      /\ \A l \in Leg : /\ Consumer(l) = p <=> l = p[1] /\ owner[l] = 10
                        /\ Producer(l) = p <=> l = p[1] /\ owner[l] = 14
      /\ owner' \in [Leg -> 1..Len(Program)]
      /\ \A l \in Leg : /\ owner[l] \in 1..17 /\ owner'[l] \in 1..17
                        /\ owner'[l] = IF l = p[1] THEN owner[l] + 1 ELSE owner[l]
  <2>1. /\ owner \in [Leg -> 1..Len(Program)] /\ <<"erase", 10, 14>> \in Places
        /\ Does(p, "erase") /\ GoOn(p)
    BY <1>1 DEF ErasePlugin, At, TypeOK, Places
  <2> QED
    BY <2>1, StepFacts
<1>3. /\ plugins' = plugins \ {p} /\ valid' = valid \ {p}
      /\ count' \in Minus(count, p, OwnerOverlaps(p, p))
      /\ races' = races \cup Note("count", OwnerOverlaps(p, p))
                        \cup Note("push", p = Producer(p[1]) /\ rtp[Other(p[1])] = "push")
      /\ UNCHANGED <<listed, mutex, alive, started, opposite, sip, found, rtp, sessions, crashed>>
      /\ ~crashed
  BY DEF ErasePlugin, At
<1>4. TypeOK'
  <2>1. count' \in [Plugin -> Nat] /\ races' \subseteq Race
    BY <1>1, <1>3, PlusMinusType DEF TypeOK, Note, Race
  <2> QED
    BY <1>1, <1>2, <1>3, <2>1 DEF TypeOK
<1>5. OwnerInv'
  <2>1. ASSUME NEW l \in Leg, l # p[1] PROVE Placed(l)'
    BY <1>1, <1>2, <1>3, <2>1, PlacedNext DEF OwnerInv, Placed
  <2>2. Placed(p[1])'
    <3>1. Placed(p[1])
      BY <1>1, <1>2 DEF OwnerInv
    <3>2. CASE owner[p[1]] = 10
      BY <1>2, <1>3, <3>1, <3>2, PlacedNext DEF Placed
    <3>3. CASE owner[p[1]] = 14
      BY <1>2, <1>3, <3>1, <3>3, PlacedNext DEF Placed
    <3> QED
      BY <1>2, <3>2, <3>3
  <2> QED
    BY <2>1, <2>2 DEF OwnerInv
<1>6. ValidInv' /\ RtpInv' /\ RtcpInv' /\ EndInv' /\ CrashNeedsRace'
  BY <1>1, <1>2, <1>3 DEF ValidInv, RtpInv, RtcpInv, EndInv, CrashNeedsRace, Note
<1>7. Created \subseteq Created'
  BY <1>2 DEF Created, Consumer, Producer
<1>8. SipInv'
  BY <1>1, <1>3, <1>7 DEF SipInv, Consumer, Producer, Other, Finds, Declared
<1>9. p \in plugins
  <2>1. p = Consumer(p[1]) \/ p = Producer(p[1])
    BY PluginFacts
  <2> QED
    BY <1>1, <1>2, <2>1 DEF OwnerInv, Placed
<1>10. CountInv'
  <2> SUFFICES ASSUME "count" \notin races' PROVE CountInv'
    BY DEF CountInv
  <2>1. /\ "count" \notin races
        /\ count' = [count EXCEPT ![p] = IF @ = 0 THEN 0 ELSE @ - 1]
    BY <1>3 DEF Note, Minus
  <2>2. /\ \A q \in Plugin : count[q] = Holders(q) /\ (q \in alive <=> count[q] > 0)
        /\ \A l \in opposite : Consumer(l) \in alive
        /\ \A l \in Leg : rtp[l] = "push" => l \in opposite
    BY <1>1, <1>3, <2>1 DEF CountInv
  <2>3. /\ p \in Erasing /\ p \in Erasing'
        /\ \A q \in Plugin : q \in Erasing' <=> q \in Erasing
    <3>1. owner \in [Leg -> 1..Len(Program)]
      BY <1>1 DEF TypeOK
    <3>2. \A l \in Leg :
             /\ Consumer(l) # p => (Consumer(l) \in Erasing' <=> Consumer(l) \in Erasing)
             /\ Producer(l) # p => (Producer(l) \in Erasing' <=> Producer(l) \in Erasing)
             /\ Consumer(l) = p => Consumer(l) \in Erasing /\ Consumer(l) \in Erasing'
             /\ Producer(l) = p => Producer(l) \in Erasing /\ Producer(l) \in Erasing'
      BY <1>2, <3>1, ErasingFacts
    <3> QED
      BY <3>2, PluginFacts
  <2>4. Linked' = Linked
    BY <1>3 DEF Linked, Producer, Other
  <2>5. opposite \subseteq Leg
    BY <1>1 DEF TypeOK
  <2>6. ASSUME NEW q \in Plugin PROVE Holders(q)' = IF q = p THEN Holders(q) - 1 ELSE Holders(q)
    BY <1>3, <1>9, <2>3, <2>4, <2>5, HoldersFacts, HoldersNext DEF One
  <2>7. Holders(p) >= 2
    BY <1>9, <2>3, <2>5, HoldersFacts DEF One
  <2>8. \A q \in Plugin : count[q] \in Nat /\ count'[q] = IF q = p THEN count[q] - 1 ELSE count[q]
    BY <1>1, <2>1, <2>2, <2>7 DEF TypeOK
  <2>9. \A q \in Plugin : count'[q] = Holders(q)' /\ (q \in alive' <=> count'[q] > 0)
    BY <1>3, <2>2, <2>6, <2>7, <2>8
  <2>10. /\ \A l \in opposite' : Consumer(l) \in alive'
         /\ \A l \in Leg : rtp'[l] = "push" => l \in opposite'
    BY <1>3, <2>2
  <2> QED
    BY <2>9, <2>10 DEF CountInv, Consumer
<1> QED
  BY <1>4, <1>5, <1>6, <1>8, <1>10 DEF IInv


\* When one of those that hold a plugin releases it, without another thread at its
\* count, counts stay right: of the plugin, and of what it kept, and media on their
\* way keep the connection.
LEMMA ReleaseCountInv ==
    ASSUME TypeOK, opposite' \subseteq Leg, OwnerInv, RtpInv, CountInv, ~crashed,
           NEW p \in Plugin, NEW racy, Release(p, racy), UNCHANGED <<plugins, rtp>>,
           \A q \in Plugin : One(q \in found') + One(q \in Erasing')
                           = One(q \in found) + One(q \in Erasing) - One(q = p)
    PROVE  CountInv'
<1> SUFFICES ASSUME "count" \notin races' PROVE CountInv'
  BY DEF CountInv
<1>1. /\ count \in [Plugin -> Nat] /\ opposite \subseteq Leg /\ alive \subseteq Plugin
      /\ races \subseteq Race
  BY DEF TypeOK
<1>2. "count" \notin races
  BY <1>1, ReleaseType
<1>3. /\ \A q \in Plugin : count[q] = Holders(q) /\ (q \in alive <=> count[q] > 0)
      /\ \A l \in opposite : Consumer(l) \in alive
      /\ \A l \in Leg : rtp[l] = "push" => l \in opposite
  BY <1>2 DEF CountInv
<1>4. One(p \in found) + One(p \in Erasing) >= 1
  BY DEF One
<1>5. count[p] > 0
  BY <1>1, <1>3, <1>4, HoldersFacts DEF One
<1>6. \A l \in opposite : count[Producer(Other(l))] > 0
  <2> SUFFICES ASSUME NEW l \in opposite PROVE count[Producer(Other(l))] > 0
    OBVIOUS
  <2>1. Producer(Other(l)) \in Plugin /\ Producer(Other(l)) \in Linked
    BY <1>1, PluginFacts DEF Linked
  <2>2. Holders(Producer(Other(l))) > 0
    BY <1>1, <2>1, HoldersFacts DEF One
  <2> QED
    BY <1>3, <2>1, <2>2
<1>7. /\ opposite' = opposite \ Unlinked(p)
      /\ \A q \in Plugin :
            /\ count'[q] = IF q = p \/ \E l \in Unlinked(p) : q = Producer(Other(l))
                           THEN count[q] - 1 ELSE count[q]
            /\ q \in alive' <=> count'[q] > 0
  BY <1>1, <1>3, <1>5, <1>6, ReleaseFacts
<1>8. Unlinked(p) \subseteq opposite /\ \A l \in Unlinked(p) : p = Consumer(l) /\ count[p] = 1
  BY DEF Unlinked
<1>9. ASSUME NEW q \in Plugin PROVE count'[q] = Holders(q)'
  <2> DEFINE released == \E l \in Unlinked(p) : q = Producer(Other(l))
  <2>1. q \in Linked' <=> q \in Linked /\ ~released
    <3>1. Linked' = {Producer(Other(l)) : l \in opposite'}
      BY DEF Linked, Producer, Other
    <3> QED
      BY <1>1, <1>7, <1>8, <3>1, PluginFacts DEF Linked
  <2>2. released => q \in Linked /\ q # p
    BY <1>1, <1>8, PluginFacts DEF Linked
  <2>3. Holders(q)' = One(q \in plugins) + One(q \in found') + One(q \in Erasing') + One(q \in Linked')
    BY HoldersNext
  <2>4. count[q] = One(q \in plugins) + One(q \in found) + One(q \in Erasing) + One(q \in Linked)
    BY <1>1, <1>3, HoldersFacts
  <2>5. One(q \in found') + One(q \in Erasing') = One(q \in found) + One(q \in Erasing) - One(q = p)
    OBVIOUS
  <2>6. count'[q] = IF q = p \/ released THEN count[q] - 1 ELSE count[q]
    BY <1>7
  <2> HIDE DEF released
  <2> QED
    BY <2>1, <2>2, <2>3, <2>4, <2>5, <2>6 DEF One
<1>10. ASSUME NEW l \in opposite' PROVE Consumer(l) \in alive'
  <2>1. l \in opposite /\ l \notin Unlinked(p) /\ l \in Leg /\ Consumer(l) \in Plugin
    BY <1>1, <1>7, PluginFacts
  <2>2. count[Consumer(l)] > 0 /\ (Consumer(l) = p => count[p] # 1)
    BY <1>3, <2>1 DEF Unlinked
  <2>3. \A k \in Unlinked(p) : Consumer(l) # Producer(Other(k))
    BY <1>1, <1>8, <2>1, PluginFacts
  <2>4. count'[Consumer(l)] > 0
    BY <1>1, <1>7, <2>1, <2>2, <2>3
  <2> QED
    BY <1>7, <2>1, <2>4
<1>11. ASSUME NEW l \in Leg, rtp[l] = "push" PROVE l \in opposite'
  <2>1. l \in opposite /\ owner[l] \in 6..7
    BY <1>3, <1>11 DEF RtpInv
  <2>2. Consumer(l) \in plugins /\ Consumer(l) \in Plugin
    BY <2>1, PluginFacts DEF OwnerInv, Placed
  <2>3. l \notin Unlinked(p)
    <3> SUFFICES ASSUME l \in Unlinked(p) PROVE FALSE
      OBVIOUS
    <3>1. p = Consumer(l) /\ count[p] = 1
      BY <1>8
    <3>2. Holders(p) >= 2
      BY <1>1, <1>4, <2>2, <3>1, HoldersFacts DEF One
    <3> QED
      BY <1>3, <3>1, <3>2
  <2> QED
    BY <1>7, <2>1, <2>3
<1> QED
  BY <1>7, <1>9, <1>10, <1>11 DEF CountInv, Consumer

\* The owner's reference is released, and the mutex with it.
LEMMA ReleasePluginIInv ==
    ASSUME IInv, NEW p \in Plugin, ReleasePlugin(p)
    PROVE  IInv'
<1> USE DEF sipVars
<1>1. /\ TypeOK /\ OwnerInv /\ ValidInv /\ RtpInv /\ SipInv /\ CountInv /\ RtcpInv
      /\ CrashNeedsRace
  BY DEF IInv
<1>2. /\ p[1] \in Leg /\ owner[p[1]] \in {11, 15}
      /\ \A l \in Leg : /\ Consumer(l) = p <=> l = p[1] /\ owner[l] = 11
                        /\ Producer(l) = p <=> l = p[1] /\ owner[l] = 15
      /\ owner' \in [Leg -> 1..Len(Program)]
      /\ \A l \in Leg : /\ owner[l] \in 1..17 /\ owner'[l] \in 1..17
                        /\ owner'[l] = IF l = p[1] THEN owner[l] + 1 ELSE owner[l]
  <2>1. /\ owner \in [Leg -> 1..Len(Program)] /\ <<"release", 11, 15>> \in Places
        /\ Does(p, "release") /\ GoOn(p)
    BY <1>1 DEF ReleasePlugin, At, TypeOK, Places
  <2> QED
    BY <2>1, StepFacts
<1> DEFINE racy == {q \in Plugin : OwnerOverlaps(p, q)}
<1>3. /\ Release(p, racy) /\ mutex' = mutex \ {p}
      /\ UNCHANGED <<listed, plugins, valid, started, sip, found, rtp, sessions>>
      /\ ~crashed
  BY DEF ReleasePlugin, At
<1> HIDE DEF racy
<1>4. /\ count' \in [Plugin -> Nat] /\ alive' \subseteq alive /\ opposite' \subseteq opposite
      /\ races' \subseteq Race /\ races \subseteq races' /\ crashed' \in BOOLEAN
      /\ crashed' => "count" \in races'
  BY <1>1, <1>3, ReleaseType DEF TypeOK
<1>5. TypeOK'
  <2>1. mutex' \subseteq Plugin /\ Cardinality(mutex') <= 1
    <3>1. mutex' \subseteq mutex /\ mutex \subseteq Plugin /\ Cardinality(mutex) <= 1
      BY <1>1, <1>3 DEF TypeOK
    <3>2. IsFiniteSet(Plugin)
      <4>1. Plugin = {Consumer("left")} \cup {Producer("left")} \cup {Consumer("right")}
                     \cup {Producer("right")}
        BY DEF Plugin, Leg, Consumer, Producer
      <4>2. IsFiniteSet({Consumer("left")} \cup {Producer("left")})
        BY FS_Singleton, FS_AddElement
      <4>3. IsFiniteSet({Consumer("left")} \cup {Producer("left")} \cup {Consumer("right")})
        BY <4>2, FS_AddElement
      <4> QED
        BY <4>1, <4>3, FS_AddElement
    <3>3. IsFiniteSet(mutex) /\ IsFiniteSet(mutex') /\ Cardinality(mutex') <= Cardinality(mutex)
      BY <3>1, <3>2, FS_Subset
    <3>4. Cardinality(mutex) \in Nat /\ Cardinality(mutex') \in Nat
      BY <3>3, FS_CardinalityType
    <3> QED
      BY <3>1, <3>3, <3>4
  <2> QED
    BY <1>1, <1>2, <1>3, <1>4, <2>1 DEF TypeOK
<1>6. OwnerInv'
  <2>1. ASSUME NEW l \in Leg, l # p[1] PROVE Placed(l)'
    BY <1>1, <1>2, <1>3, <2>1, PlacedNext DEF OwnerInv, Placed
  <2>2. Placed(p[1])'
    <3>1. Placed(p[1])
      BY <1>1, <1>2 DEF OwnerInv
    <3>2. CASE owner[p[1]] = 11
      BY <1>2, <1>3, <3>1, <3>2, PlacedNext DEF Placed
    <3>3. CASE owner[p[1]] = 15
      BY <1>2, <1>3, <3>1, <3>3, PlacedNext DEF Placed
    <3> QED
      BY <1>2, <3>2, <3>3
  <2> QED
    BY <2>1, <2>2 DEF OwnerInv
<1>7. ValidInv' /\ RtpInv' /\ RtcpInv'
  BY <1>1, <1>2, <1>3, <1>4 DEF ValidInv, RtpInv, RtcpInv
<1>8. EndInv' /\ CrashNeedsRace'
  BY <1>4 DEF EndInv, CrashNeedsRace
<1>9. Created \subseteq Created'
  BY <1>2 DEF Created, Consumer, Producer
<1>10. SipInv'
  BY <1>1, <1>3, <1>4, <1>9 DEF SipInv, Consumer, Producer, Other, Finds, Declared
<1>11. \A q \in Plugin : One(q \in found') + One(q \in Erasing')
                       = One(q \in found) + One(q \in Erasing) - One(q = p)
  <2>1. owner \in [Leg -> 1..Len(Program)]
    BY <1>1 DEF TypeOK
  <2>2. \A l \in Leg :
           /\ Consumer(l) # p => (Consumer(l) \in Erasing' <=> Consumer(l) \in Erasing)
           /\ Producer(l) # p => (Producer(l) \in Erasing' <=> Producer(l) \in Erasing)
           /\ Consumer(l) = p => Consumer(l) \in Erasing /\ Consumer(l) \notin Erasing'
           /\ Producer(l) = p => Producer(l) \in Erasing /\ Producer(l) \notin Erasing'
    BY <1>2, <2>1, ErasingFacts
  <2>3. ASSUME NEW q \in Plugin
        PROVE  IF q = p THEN q \in Erasing /\ q \notin Erasing' ELSE q \in Erasing' <=> q \in Erasing
    BY <2>2, PluginFacts
  <2> QED
    BY <1>3, <2>3 DEF One
<1>12. CountInv'
  <2>1. opposite' \subseteq Leg
    BY <1>1, <1>4 DEF TypeOK
  <2> QED
    BY <1>1, <1>3, <1>11, <2>1, ReleaseCountInv
<1> QED
  BY <1>5, <1>6, <1>7, <1>8, <1>10, <1>12 DEF IInv

-----------------------------------------------------------------------------
(* The SIP thread.                                                           *)

\* The steps of the SIP thread.
LEMMA SipFacts ==
    ASSUME sip \in SipStep
    PROVE  /\ sip[1] = "idle" => sip = <<"idle", 0>>
           /\ sip[1] = "done" => sip = <<"done", 0>>
           /\ sip[1] = "find" => sip[2] \in 1..4 /\ sip = <<"find", sip[2]>>
           /\ sip[1] = "link" => sip[2] \in 1..2 /\ sip = <<"link", sip[2]>>
           /\ sip[1] = "drop" => sip[2] \in 1..4 /\ sip = <<"drop", sip[2]>>
BY DEF SipStep

\* The order in which plugins are looked for.
LEMMA FindsFacts ==
    /\ \A i \in 1..4 : Finds[i] \in Plugin
    /\ \A i, j \in 1..4 : Finds[i] = Finds[j] => i = j
    /\ \A p \in Plugin : \E i \in 1..4 : p = Finds[i]
<1>1. /\ Finds[1] = Consumer("left") /\ Finds[2] = Producer("left")
      /\ Finds[3] = Consumer("right") /\ Finds[4] = Producer("right")
  BY DEF Finds
<1>2. \A i \in 1..4 : i = 1 \/ i = 2 \/ i = 3 \/ i = 4
  OBVIOUS
<1>3. "left" \in Leg /\ "right" \in Leg /\ \A l \in Leg : l = "left" \/ l = "right"
  BY DEF Leg
<1>4. \A p \in Plugin : \E i \in 1..4 : p = Finds[i]
  BY <1>1, <1>3, PluginFacts
<1>5. \A i, j \in 1..4 : Finds[i] = Finds[j] => i = j
  BY <1>1, <1>2, <1>3, PluginFacts
<1> QED
  BY <1>1, <1>2, <1>3, <1>4, <1>5, PluginFacts

\* The order in which the local variables are declared.
LEMMA DeclaredFacts ==
    /\ \A i \in 1..4 : Declared[i] \in Plugin
    /\ \A i, j \in 1..4 : Declared[i] = Declared[j] => i = j
    /\ \A p \in Plugin : \E i \in 1..4 : p = Declared[i]
<1>1. /\ Declared[1] = Producer("right") /\ Declared[2] = Producer("left")
      /\ Declared[3] = Consumer("right") /\ Declared[4] = Consumer("left")
  BY DEF Declared
<1>2. \A i \in 1..4 : i = 1 \/ i = 2 \/ i = 3 \/ i = 4
  OBVIOUS
<1>3. "left" \in Leg /\ "right" \in Leg /\ \A l \in Leg : l = "left" \/ l = "right"
  BY DEF Leg
<1>4. \A p \in Plugin : \E i \in 1..4 : p = Declared[i]
  BY <1>1, <1>3, PluginFacts
<1>5. \A i, j \in 1..4 : Declared[i] = Declared[j] => i = j
  BY <1>1, <1>2, <1>3, PluginFacts
<1> QED
  BY <1>1, <1>2, <1>3, <1>4, <1>5, PluginFacts

\* A media thread that does not move keeps its plugins where they are.
LEMMA OwnerKept ==
    ASSUME OwnerInv, UNCHANGED <<owner, listed, plugins, started>>
    PROVE  OwnerInv'
BY DEF OwnerInv, Placed, Consumer, Producer

\* What was created stays created.
LEMMA CreatedKept ==
    ASSUME UNCHANGED owner
    PROVE  Created' = Created /\ Erasing' = Erasing
BY DEF Created, Erasing, Does, Consumer, Producer

\* A step at which nothing that is held changes leaves the counts right.
LEMMA CountKept ==
    ASSUME TypeOK, TypeOK', CountInv, ~crashed, races \subseteq races',
           UNCHANGED <<owner, plugins, alive, count, opposite, found, rtp>>
    PROVE  CountInv'
<1>1. \A p \in Plugin : Holders(p)' = Holders(p)
  BY HoldersKept
<1> QED
  BY <1>1 DEF CountInv, Consumer

\* The second leg is connected.
LEMMA AttachIInv ==
    ASSUME IInv, Attach
    PROVE  IInv'
<1> USE DEF managerVars, objectVars
<1>1. /\ TypeOK /\ OwnerInv /\ ValidInv /\ RtpInv /\ SipInv /\ CountInv /\ RtcpInv
  BY DEF IInv
<1>2. /\ sip[1] = "idle" /\ sip' = <<"find", 1>> /\ ~crashed
      /\ UNCHANGED <<owner, listed, plugins, mutex, alive, valid, started, count, opposite, found,
                     rtp, sessions, races, crashed>>
  BY DEF Attach
<1>3. TypeOK'
  <2>1. sip' \in SipStep
    BY <1>2 DEF SipStep
  <2> QED
    BY <1>1, <1>2, <2>1 DEF TypeOK
<1>4. SipInv'
  <2>1. found = {} /\ opposite = {}
    BY <1>1, <1>2 DEF SipInv
  <2> QED
    BY <1>2, <2>1 DEF SipInv
<1>5. ValidInv' /\ RtpInv' /\ RtcpInv' /\ EndInv' /\ CrashNeedsRace'
  BY <1>1, <1>2 DEF ValidInv, RtpInv, RtcpInv, EndInv, CrashNeedsRace
<1>6. OwnerInv' /\ CountInv'
  BY <1>1, <1>2, <1>3, OwnerKept, CountKept
<1> QED
  BY <1>3, <1>4, <1>5, <1>6 DEF IInv

\* The SIP thread looks a plugin up, and takes a reference if it finds it.
LEMMA FindPluginIInv ==
    ASSUME IInv, FindPlugin
    PROVE  IInv'
<1> USE DEF managerVars
<1>1. /\ TypeOK /\ OwnerInv /\ ValidInv /\ RtpInv /\ SipInv /\ CountInv /\ RtcpInv
  BY DEF IInv
<1> DEFINE i == sip[2]
           p == Finds[i]
<1>2. /\ sip[1] = "find" /\ ~crashed
      /\ sip' = IF i < 4 THEN <<"find", i + 1>> ELSE <<"link", 1>>
      /\ UNCHANGED <<owner, listed, plugins, mutex, alive, valid, started, opposite, rtp, sessions>>
  BY DEF FindPlugin
<1>3. /\ races' = races \cup Note("map", p \in listed /\ MapOverlaps)
                        \cup Note("list", ListOverlaps(p))
                        \cup Note("count", p \in listed \cap plugins /\ SipOverlaps(p))
      /\ crashed' \in IF p \in listed /\ (MapOverlaps \/ ListOverlaps(p)) THEN BOOLEAN ELSE {FALSE}
      /\ \/ /\ p \in listed \cap plugins
            /\ found' = found \cup {p}
            /\ count' \in Plus(count, p, SipOverlaps(p))
         \/ UNCHANGED <<found, count>>
  BY DEF FindPlugin
<1>4. sip \in SipStep /\ i \in 1..4 /\ sip' \in SipStep
  <2>1. sip \in SipStep
    BY <1>1 DEF TypeOK
  <2>2. i \in 1..4
    BY <1>2, <2>1, SipFacts
  <2>3. CASE i < 4
    <3>1. i + 1 \in 1..4 /\ sip' = <<"find", i + 1>>
      BY <1>2, <2>2, <2>3
    <3> QED
      BY <2>1, <2>2, <3>1 DEF SipStep
  <2>4. CASE ~(i < 4)
    BY <1>2, <2>1, <2>2, <2>4 DEF SipStep
  <2> QED
    BY <2>1, <2>2, <2>3, <2>4
<1>5. p \in Plugin
  BY <1>4, FindsFacts
<1> HIDE DEF i, p
<1>6. TypeOK'
  <2>1. races' \subseteq Race
    BY <1>1, <1>3 DEF TypeOK, Note, Race
  <2>2. count' \in [Plugin -> Nat] /\ found' \subseteq Plugin
    BY <1>1, <1>3, <1>5, PlusMinusType DEF TypeOK
  <2>3. crashed' \in BOOLEAN
    BY <1>3
  <2> QED
    BY <1>1, <1>2, <1>4, <2>1, <2>2, <2>3 DEF TypeOK
<1>7. /\ found \subseteq Created /\ opposite = {}
      /\ found \subseteq {Finds[j] : j \in 1..(i - 1)}
  BY <1>1, <1>2 DEF SipInv, i
<1>8. p \notin found
  BY <1>4, <1>7, FindsFacts DEF p
<1>9. p \in plugins => p \in Created
  <2> SUFFICES ASSUME p \in plugins PROVE p \in Created
    OBVIOUS
  <2>1. p[1] \in Leg /\ (p = Consumer(p[1]) \/ p = Producer(p[1])) /\ Placed(p[1])
    BY <1>1, <1>5, PluginFacts DEF OwnerInv
  <2>2. owner[p[1]] \in 1..17
    BY <1>1, <2>1, ProgramFacts DEF TypeOK
  <2>3. CASE p = Consumer(p[1])
    <3>1. owner[p[1]] >= 3
      BY <2>1, <2>2, <2>3 DEF Placed
    <3> QED
      BY <2>1, <2>3, <3>1 DEF Created
  <2>4. CASE p = Producer(p[1])
    <3>1. owner[p[1]] >= 5
      BY <2>1, <2>2, <2>4 DEF Placed
    <3> QED
      BY <2>1, <2>4, <3>1 DEF Created
  <2> QED
    BY <2>1, <2>3, <2>4
<1>10. SipInv'
  <2>1. found' \subseteq found \cup {p} /\ found' \subseteq Created' /\ opposite' = {}
    BY <1>2, <1>3, <1>7, <1>9, CreatedKept
  <2>2. found' \subseteq {Finds[j] : j \in 1..i}
    BY <1>4, <1>7, <2>1 DEF p
  <2>3. CASE i < 4
    <3>1. sip' = <<"find", i + 1>> /\ (i + 1) - 1 = i
      BY <1>2, <1>4, <2>3
    <3> QED
      BY <2>1, <2>2, <3>1 DEF SipInv, Finds, Declared, Consumer, Producer
  <2>4. CASE ~(i < 4)
    BY <1>2, <2>1, <2>4 DEF SipInv
  <2> QED
    BY <2>3, <2>4
<1>11. ValidInv' /\ RtpInv' /\ RtcpInv' /\ OwnerInv'
  BY <1>1, <1>2, <1>3, OwnerKept DEF ValidInv, RtpInv, RtcpInv
<1>12. EndInv' /\ CrashNeedsRace'
  <2>1. ~SipIdle'
    BY <1>2 DEF SipIdle
  <2>2. crashed' => races' # {}
    BY <1>3 DEF Note
  <2> QED
    BY <2>1, <2>2 DEF EndInv, CrashNeedsRace
<1>13. CountInv'
  <2> SUFFICES ASSUME "count" \notin races' PROVE CountInv'
    BY DEF CountInv
  <2>1. races \subseteq races' /\ "count" \notin races
    BY <1>3
  <2>2. CASE UNCHANGED <<found, count>>
    BY <1>1, <1>2, <1>6, <2>1, <2>2, CountKept
  <2>3. CASE /\ p \in listed \cap plugins
             /\ found' = found \cup {p}
             /\ count' \in Plus(count, p, SipOverlaps(p))
    <3>1. count' = [count EXCEPT ![p] = @ + 1]
      BY <1>3, <2>3 DEF Note, Plus
    <3>2. /\ \A q \in Plugin : count[q] = Holders(q) /\ (q \in alive <=> count[q] > 0)
          /\ \A l \in opposite : Consumer(l) \in alive
          /\ \A l \in Leg : rtp[l] = "push" => l \in opposite
      BY <1>1, <1>2, <2>1 DEF CountInv
    <3>3. \A q \in Plugin : count[q] \in Nat /\ count'[q] = IF q = p THEN count[q] + 1 ELSE count[q]
      BY <1>1, <3>1 DEF TypeOK
    <3>4. Linked' = Linked /\ Erasing' = Erasing /\ opposite' \subseteq Leg /\ opposite \subseteq Leg
      BY <1>2, <1>7, CreatedKept DEF Linked, Producer, Other
    <3>5. ASSUME NEW q \in Plugin PROVE Holders(q)' = IF q = p THEN Holders(q) + 1 ELSE Holders(q)
      BY <1>2, <1>8, <2>3, <3>4, HoldersFacts, HoldersNext DEF One
    <3>6. Holders(p) > 0
      BY <1>5, <2>3, <3>4, HoldersFacts DEF One
    <3>7. \A q \in Plugin : count'[q] = Holders(q)' /\ (q \in alive' <=> count'[q] > 0)
      BY <1>2, <1>5, <3>2, <3>3, <3>5, <3>6
    <3>8. /\ \A l \in opposite' : Consumer(l) \in alive'
          /\ \A l \in Leg : rtp'[l] = "push" => l \in opposite'
      BY <1>2, <3>2
    <3> QED
      BY <3>7, <3>8 DEF CountInv, Consumer
  <2> QED
    BY <1>3, <2>2, <2>3
<1> QED
  BY <1>6, <1>10, <1>11, <1>12, <1>13 DEF IInv

\* As long as no update of a count was lost, what the SIP thread has found is there.
LEMMA FoundIsAlive ==
    ASSUME TypeOK, CountInv, "count" \notin races, ~crashed, NEW p \in found
    PROVE  p \in alive
<1>1. p \in Plugin /\ opposite \subseteq Leg
  BY DEF TypeOK
<1>2. Holders(p) > 0
  BY <1>1, HoldersFacts DEF One
<1> QED
  BY <1>1, <1>2 DEF CountInv

\* A consumer is connected with the producer of the other leg, if both were found.
LEMMA LinkPluginsIInv ==
    ASSUME IInv, LinkPlugins
    PROVE  IInv'
<1> USE DEF managerVars
<1>1. /\ TypeOK /\ OwnerInv /\ ValidInv /\ RtpInv /\ SipInv /\ CountInv /\ RtcpInv
  BY DEF IInv
<1> DEFINE l == Links[sip[2]]
           q == Producer(Other(l))
<1>2. /\ sip[1] = "link" /\ ~crashed
      /\ sip' = IF l = "left" THEN <<"link", 2>> ELSE <<"drop", 4>>
      /\ UNCHANGED <<owner, listed, plugins, mutex, alive, valid, started, found, rtp, sessions>>
  BY DEF LinkPlugins
<1>3. \/ /\ Consumer(l) \in found /\ q \in found
         /\ opposite' = opposite \cup {l}
         /\ count' \in Plus(count, q, SipOverlaps(q))
         /\ crashed' = ~({Consumer(l), q} \subseteq alive)
         /\ races' = races \cup Note("count", SipOverlaps(q))
      \/ UNCHANGED <<opposite, count, crashed, races>>
  BY DEF LinkPlugins, LinkCounts
<1>4. /\ sip \in SipStep /\ sip' \in SipStep /\ l \in Leg
      /\ l \notin opposite
      /\ sip' = <<"link", 2>> => l = "left" /\ opposite = {}
      /\ sip' = <<"link", 2>> \/ sip' = <<"drop", 4>>
  <2>1. sip \in SipStep /\ sip[2] \in 1..2 /\ sip = <<"link", sip[2]>>
    BY <1>1, <1>2, SipFacts DEF TypeOK
  <2>2. sip' \in SipStep
    BY <1>2 DEF SipStep
  <2>3. CASE sip[2] = 1
    <3>1. l = "left" /\ sip = <<"link", 1>>
      BY <2>1, <2>3 DEF Links
    <3>2. opposite = {}
      BY <1>1, <3>1 DEF SipInv
    <3> QED
      BY <1>2, <2>1, <2>2, <3>1, <3>2 DEF Leg
  <2>4. CASE sip[2] = 2
    <3>1. l = "right" /\ sip = <<"link", 2>>
      BY <2>1, <2>4 DEF Links
    <3>2. opposite \subseteq {"left"}
      BY <1>1, <3>1 DEF SipInv
    <3>3. "right" # "left" /\ "link" # "drop"
      OBVIOUS
    <3> QED
      BY <1>2, <2>1, <2>2, <3>1, <3>2, <3>3 DEF Leg
  <2> QED
    BY <2>1, <2>3, <2>4
<1> HIDE DEF l, q
<1>5. q \in Plugin /\ Other(l) \in Leg
  BY <1>4, PluginFacts DEF q
<1>6. TypeOK'
  <2>1. races' \subseteq Race
    BY <1>1, <1>3 DEF TypeOK, Note, Race
  <2>2. count' \in [Plugin -> Nat]
    BY <1>1, <1>3, <1>5, PlusMinusType DEF TypeOK
  <2>3. crashed' \in BOOLEAN /\ opposite' \subseteq Leg
    BY <1>1, <1>3, <1>4 DEF TypeOK
  <2> QED
    BY <1>1, <1>2, <1>4, <2>1, <2>2, <2>3 DEF TypeOK
<1>7. SipInv'
  <2>1. /\ found \subseteq Created
        /\ \A k \in opposite : Consumer(k) \in Created /\ Producer(Other(k)) \in Created
    BY <1>1 DEF SipInv
  <2>2. /\ found' \subseteq Created'
        /\ \A k \in opposite' : Consumer(k) \in Created' /\ Producer(Other(k)) \in Created'
    BY <1>2, <1>3, <2>1, CreatedKept DEF q
  <2>3. found' \subseteq {Declared[i] : i \in 1..4}
    BY <1>1, <1>2, DeclaredFacts DEF TypeOK
  <2>4. CASE sip' = <<"link", 2>>
    <3>1. opposite' \subseteq {"left"}
      BY <1>3, <1>4, <2>4
    <3> QED
      BY <2>2, <2>4, <3>1 DEF SipInv, Consumer, Producer, Other
  <2>5. CASE sip' = <<"drop", 4>>
    BY <2>2, <2>3, <2>5 DEF SipInv, Consumer, Producer, Other, Finds, Declared
  <2> QED
    BY <1>4, <2>4, <2>5
<1>8. ValidInv' /\ RtpInv' /\ RtcpInv' /\ OwnerInv'
  BY <1>1, <1>2, <1>3, OwnerKept DEF ValidInv, RtpInv, RtcpInv
<1>9. EndInv' /\ CrashNeedsRace'
  <2>1. ~SipIdle'
    BY <1>4 DEF SipIdle
  <2>2. crashed' => "count" \in races
    BY <1>1, <1>2, <1>3, FoundIsAlive
  <2>3. races \subseteq races'
    BY <1>3
  <2> QED
    BY <2>1, <2>2, <2>3 DEF EndInv, CrashNeedsRace
<1>10. CountInv'
  <2> SUFFICES ASSUME "count" \notin races' PROVE CountInv'
    BY DEF CountInv
  <2>1. races \subseteq races' /\ "count" \notin races
    BY <1>3
  <2>2. CASE UNCHANGED <<opposite, count, crashed, races>>
    BY <1>1, <1>2, <1>6, <2>1, <2>2, CountKept
  <2>3. CASE /\ Consumer(l) \in found /\ q \in found
             /\ opposite' = opposite \cup {l}
             /\ count' \in Plus(count, q, SipOverlaps(q))
             /\ races' = races \cup Note("count", SipOverlaps(q))
    <3>1. count' = [count EXCEPT ![q] = @ + 1]
      BY <2>3 DEF Note, Plus
    <3>2. /\ \A p \in Plugin : count[p] = Holders(p) /\ (p \in alive <=> count[p] > 0)
          /\ \A k \in opposite : Consumer(k) \in alive
          /\ \A k \in Leg : rtp[k] = "push" => k \in opposite
      BY <1>1, <1>2, <2>1 DEF CountInv
    <3>3. \A p \in Plugin : count[p] \in Nat /\ count'[p] = IF p = q THEN count[p] + 1 ELSE count[p]
      BY <1>1, <3>1 DEF TypeOK
    <3>4. opposite' \subseteq Leg /\ opposite \subseteq Leg /\ Erasing' = Erasing
      BY <1>1, <1>2, <1>6, CreatedKept DEF TypeOK
    <3>5. q \notin Linked /\ \A p \in Plugin : p \in Linked' <=> p \in Linked \/ p = q
      <4>1. Linked' = {Producer(Other(k)) : k \in opposite'}
        BY DEF Linked, Producer, Other
      <4>2. \A k \in opposite : Producer(Other(k)) # q
        BY <1>4, <1>5, <3>4, PluginFacts DEF q
      <4> QED
        BY <2>3, <4>1, <4>2 DEF Linked, q
    <3>6. ASSUME NEW p \in Plugin PROVE Holders(p)' = IF p = q THEN Holders(p) + 1 ELSE Holders(p)
      BY <1>2, <3>4, <3>5, HoldersFacts, HoldersNext DEF One
    <3>7. q \in alive /\ Consumer(l) \in alive
      BY <1>1, <1>2, <2>1, <2>3, FoundIsAlive
    <3>8. \A p \in Plugin : count'[p] = Holders(p)' /\ (p \in alive' <=> count'[p] > 0)
      BY <1>2, <1>5, <3>2, <3>3, <3>6, <3>7
    <3>9. /\ \A k \in opposite' : Consumer(k) \in alive'
          /\ \A k \in Leg : rtp'[k] = "push" => k \in opposite'
      BY <1>2, <2>3, <3>2, <3>7
    <3> QED
      BY <3>8, <3>9 DEF CountInv, Consumer
  <2> QED
    BY <1>3, <2>2, <2>3
<1> QED
  BY <1>6, <1>7, <1>8, <1>9, <1>10 DEF IInv

\* A local variable of the SIP thread goes out of scope.
LEMMA DropPluginIInv ==
    ASSUME IInv, DropPlugin
    PROVE  IInv'
<1> USE DEF managerVars
<1>1. /\ TypeOK /\ OwnerInv /\ ValidInv /\ RtpInv /\ SipInv /\ CountInv /\ RtcpInv
      /\ CrashNeedsRace
  BY DEF IInv
<1> DEFINE i == sip[2]
           p == Declared[i]
           racy == {q \in Plugin : SipOverlaps(q)}
<1>2. /\ sip[1] = "drop" /\ ~crashed
      /\ sip' = IF i > 1 THEN <<"drop", i - 1>> ELSE <<"done", 0>>
      /\ found' = found \ {p}
      /\ UNCHANGED <<owner, listed, plugins, mutex, valid, started, rtp, sessions>>
  BY DEF DropPlugin
<1>3. IF p \in found THEN Release(p, racy) ELSE UNCHANGED <<count, alive, opposite, races, crashed>>
  BY DEF DropPlugin
<1>4. sip \in SipStep /\ i \in 1..4 /\ sip' \in SipStep
  <2>1. sip \in SipStep
    BY <1>1 DEF TypeOK
  <2>2. i \in 1..4
    BY <1>2, <2>1, SipFacts
  <2>3. CASE i > 1
    <3>1. i - 1 \in 1..4 /\ sip' = <<"drop", i - 1>>
      BY <1>2, <2>2, <2>3
    <3> QED
      BY <2>1, <2>2, <3>1 DEF SipStep
  <2>4. CASE ~(i > 1)
    BY <1>2, <2>1, <2>2, <2>4 DEF SipStep
  <2> QED
    BY <2>1, <2>2, <2>3, <2>4
<1>5. p \in Plugin
  BY <1>4, DeclaredFacts
<1>6. found \subseteq Created /\ found \subseteq {Declared[j] : j \in 1..i}
  BY <1>1, <1>2 DEF SipInv
<1> HIDE DEF i, racy
<1>7. /\ count' \in [Plugin -> Nat] /\ alive' \subseteq alive /\ opposite' \subseteq opposite
      /\ races' \subseteq Race /\ races \subseteq races' /\ crashed' \in BOOLEAN
      /\ crashed' => "count" \in races'
  <2>1. /\ count \in [Plugin -> Nat] /\ alive \subseteq Plugin /\ opposite \subseteq Leg
        /\ races \subseteq Race /\ crashed \in BOOLEAN
    BY <1>1 DEF TypeOK
  <2> QED
    BY <1>2, <1>3, <1>5, <2>1, ReleaseType
<1>8. TypeOK'
  BY <1>1, <1>2, <1>4, <1>7 DEF TypeOK
<1>9. SipInv'
  <2>1. found' \subseteq Created'
    BY <1>2, <1>6, CreatedKept
  <2>2. \A l \in opposite' : Consumer(l) \in Created' /\ Producer(Other(l)) \in Created'
    BY <1>1, <1>2, <1>7, CreatedKept DEF SipInv
  <2>3. found' \subseteq {Declared[j] : j \in 1..(i - 1)}
    BY <1>2, <1>4, <1>6
  <2>4. CASE i > 1
    <3>1. sip' = <<"drop", i - 1>>
      BY <1>2, <2>4
    <3> QED
      BY <2>1, <2>2, <2>3, <3>1 DEF SipInv, Finds, Declared, Consumer, Producer, Other
  <2>5. CASE ~(i > 1)
    <3>1. sip' = <<"done", 0>> /\ 1..(i - 1) = {}
      BY <1>2, <1>4, <2>5
    <3>2. found' = {}
      BY <2>3, <3>1
    <3> QED
      BY <2>1, <2>2, <3>1, <3>2 DEF SipInv, Consumer, Producer, Other
  <2> QED
    BY <2>4, <2>5
<1>10. ValidInv' /\ RtpInv' /\ OwnerInv'
  BY <1>1, <1>2, <1>3, OwnerKept DEF ValidInv, RtpInv
<1>11. RtcpInv' /\ EndInv' /\ CrashNeedsRace'
  BY <1>1, <1>2, <1>7 DEF RtcpInv, EndInv, CrashNeedsRace
<1>12. CountInv'
  <2>1. CASE p \in found
    <3>1. Erasing' = Erasing /\ opposite' \subseteq Leg
      BY <1>1, <1>2, <1>7, CreatedKept DEF TypeOK
    <3>2. \A q \in Plugin : One(q \in found') + One(q \in Erasing')
                          = One(q \in found) + One(q \in Erasing) - One(q = p)
      BY <1>2, <2>1, <3>1 DEF One
    <3> HIDE DEF p
    <3> QED
      BY <1>1, <1>2, <1>3, <1>5, <2>1, <3>1, <3>2, ReleaseCountInv
  <2>2. CASE p \notin found
    <3>1. UNCHANGED <<owner, plugins, alive, count, opposite, found, rtp>> /\ races \subseteq races'
      BY <1>2, <1>3, <2>2
    <3> QED
      BY <1>1, <1>2, <1>8, <3>1, CountKept
  <2> QED
    BY <2>1, <2>2
<1> QED
  BY <1>8, <1>9, <1>10, <1>11, <1>12 DEF IInv

\* A session ends, and forgets the other one.
LEMMA TerminateIInv ==
    ASSUME IInv, NEW l \in Leg, Terminate(l)
    PROVE  IInv'
<1> USE DEF managerVars, objectVars, sipVars
<1>1. /\ TypeOK /\ OwnerInv /\ ValidInv /\ RtpInv /\ SipInv /\ CountInv /\ RtcpInv
  BY DEF IInv
<1>2. /\ sessions' = sessions \ {l} /\ ~crashed
      /\ races' = races \cup Note("rtcp", rtp[l] = "rtcp")
      /\ UNCHANGED <<owner, managerVars, objectVars, sipVars, rtp, crashed>>
  BY DEF Terminate
<1>3. TypeOK'
  <2>1. races' \subseteq Race
    BY <1>1, <1>2 DEF TypeOK, Note, Race
  <2> QED
    BY <1>1, <1>2, <2>1 DEF TypeOK
<1>4. OwnerInv' /\ CountInv'
  BY <1>1, <1>2, <1>3, OwnerKept, CountKept
<1>5. SipInv'
  BY <1>1, <1>2, CreatedKept DEF SipInv, Finds, Declared, Consumer, Producer, Other
<1>6. RtcpInv'
  BY <1>1, <1>2 DEF RtcpInv, Note
<1>7. ValidInv' /\ RtpInv' /\ EndInv' /\ CrashNeedsRace'
  BY <1>1, <1>2 DEF ValidInv, RtpInv, EndInv, CrashNeedsRace
<1> QED
  BY <1>3, <1>4, <1>5, <1>6, <1>7 DEF IInv

-----------------------------------------------------------------------------
(* The RTP thread of a leg.                                                  *)

\* What a consumer is connected with is there, as long as no update of a count was lost.
LEMMA OppositeIsAlive ==
    ASSUME TypeOK, CountInv, "count" \notin races, ~crashed, NEW l \in opposite
    PROVE  Producer(Other(l)) \in alive
<1>1. opposite \subseteq Leg /\ Producer(Other(l)) \in Plugin /\ Producer(Other(l)) \in Linked
  BY PluginFacts DEF TypeOK, Linked
<1>2. Holders(Producer(Other(l))) > 0
  BY <1>1, HoldersFacts DEF One
<1> QED
  BY <1>1, <1>2 DEF CountInv

\* The RTP thread of a leg asks, or acts.
LEMMA RtpIInv ==
    ASSUME IInv, NEW l \in Leg, Rtp(l)
    PROVE  IInv'
<1> USE DEF managerVars, objectVars, sipVars
<1>1. /\ TypeOK /\ OwnerInv /\ ValidInv /\ RtpInv /\ SipInv /\ CountInv /\ RtcpInv
      /\ CrashNeedsRace
  BY DEF IInv
<1> DEFINE q == Producer(Other(l))
<1>2. /\ UNCHANGED <<owner, managerVars, objectVars, sipVars, sessions, races>>
      /\ ~crashed /\ owner[l] \in 6..7
  <2>1. Does(Producer(l), "start") \/ Does(Consumer(l), "stop")
    BY DEF Rtp, Consume, Push, TestSession, SendRtcp, Receives
  <2>2. owner[l] \in 6..7
    BY <1>1, <2>1, DoesFacts DEF TypeOK
  <2> QED
    BY <2>2 DEF Rtp, Consume, Push, TestSession, SendRtcp, Receives
<1>3. \A k \in Leg \ {l} : rtp'[k] = rtp[k]
  BY <1>1 DEF TypeOK, Rtp, Consume, Push, TestSession, SendRtcp
<1>4. OwnerInv'
  BY <1>1, <1>2, OwnerKept
<1>5. \* Whatever it does, it only uses something that is not there after accesses overlapped.
      /\ rtp' \in [Leg -> {"idle", "push", "rtcp"}] /\ crashed' \in BOOLEAN
      /\ rtp'[l] = "push" => rtp[l] = "push" \/ l \in opposite
      /\ rtp'[l] = "rtcp" => rtp[l] = "rtcp" \/ l \in sessions
      /\ crashed' => races # {}
  <2>1. CASE Consume(l)
    <3>1. /\ rtp' = [rtp EXCEPT ![l] = IF q \in alive THEN "push" ELSE @]
          /\ l \in opposite /\ crashed' = (q \notin alive)
      BY <2>1 DEF Consume
    <3>2. q \notin alive => "count" \in races
      BY <1>1, <1>2, <3>1, OppositeIsAlive
    <3> QED
      BY <1>1, <3>1, <3>2 DEF TypeOK
  <2>2. CASE Push(l)
    <3>1. /\ rtp' = [rtp EXCEPT ![l] = "idle"] /\ rtp[l] = "push"
          /\ crashed' = (q \notin alive \/ (q \in started /\ q \notin listed))
      BY <2>2 DEF Push, Receives
    <3>2. q \in started => q \in listed
      <4>1. Other(l) \in Leg
        BY PluginFacts
      <4> QED
        BY <1>1, <4>1 DEF OwnerInv, Placed
    <3>3. q \notin alive => "count" \in races
      BY <1>1, <1>2, <3>1, OppositeIsAlive DEF CountInv
    <3> QED
      BY <1>1, <3>1, <3>2, <3>3 DEF TypeOK
  <2>3. CASE TestSession(l)
    BY <1>1, <2>3, <1>2 DEF TypeOK, TestSession, Receives
  <2>4. CASE SendRtcp(l)
    <3>1. rtp' = [rtp EXCEPT ![l] = "idle"] /\ rtp[l] = "rtcp" /\ crashed' = (l \notin sessions)
      BY <2>4 DEF SendRtcp, Receives
    <3> QED
      BY <1>1, <3>1 DEF TypeOK, RtcpInv
  <2> QED
    BY <2>1, <2>2, <2>3, <2>4 DEF Rtp
<1>6. TypeOK'
  BY <1>1, <1>2, <1>5 DEF TypeOK
<1>7. RtpInv' /\ RtcpInv'
  BY <1>1, <1>2, <1>3, <1>5 DEF RtpInv, RtcpInv
<1>8. EndInv' /\ CrashNeedsRace'
  <2>1. owner'[l] # Len(Program)
    BY <1>2, ProgramFacts
  <2> QED
    BY <1>2, <1>5, <2>1 DEF EndInv, CrashNeedsRace
<1>9. \A k \in Leg : /\ owner[k] \in Nat /\ owner'[k] = owner[k]
                     /\ rtp'[k] = "push" => rtp[k] = "push" \/ k \in opposite
  BY <1>1, <1>2, <1>3, <1>5 DEF TypeOK
<1> QED
  BY <1>2, <1>4, <1>6, <1>7, <1>8, <1>9, QuietIInv

-----------------------------------------------------------------------------
(* All steps.                                                                *)

\* The invariant holds before a plugin was created.
LEMMA InitIInv == Init => IInv
<1> SUFFICES ASSUME Init PROVE IInv
  OBVIOUS
<1>1. TypeOK
  <2>1. mutex \subseteq Plugin /\ Cardinality(mutex) <= 1
    BY FS_EmptySet DEF Init
  <2>2. owner \in [Leg -> 1..Len(Program)] /\ rtp \in [Leg -> {"idle", "push", "rtcp"}]
    BY ProgramFacts DEF Init
  <2>3. count \in [Plugin -> Nat]
    BY DEF Init
  <2>4. sip \in SipStep
    BY DEF Init, SipStep
  <2> QED
    BY <2>1, <2>2, <2>3, <2>4 DEF Init, TypeOK
<1>2. \A l \in Leg : owner[l] = 1
  BY DEF Init
<1>3. OwnerInv /\ ValidInv /\ RtpInv
  BY <1>2 DEF Init, OwnerInv, Placed, ValidInv, RtpInv
<1>4. SipInv
  BY DEF Init, SipInv
<1>5. CountInv
  <2>1. \A p \in Plugin : Holders(p) = 0
    <3>1. Erasing = {}
      <4>1. owner \in [Leg -> 1..Len(Program)]
        BY <1>1 DEF TypeOK
      <4> QED
        BY <1>2, <4>1, ErasingFacts, PluginFacts, DoesFacts DEF Erasing
    <3>2. Linked = {} /\ opposite \subseteq Leg
      BY DEF Init, Linked
    <3> QED
      BY <3>1, <3>2, HoldersFacts DEF Init, One
  <2>2. \A p \in Plugin : count[p] = 0
    BY DEF Init
  <2> QED
    BY <2>1, <2>2 DEF Init, CountInv
<1>6. RtcpInv /\ EndInv /\ CrashNeedsRace
  BY DEF Init, RtcpInv, EndInv, CrashNeedsRace
<1> QED
  BY <1>1, <1>3, <1>4, <1>5, <1>6 DEF IInv

\* A step that changes nothing keeps it.
LEMMA StutterIInv ==
    ASSUME IInv, UNCHANGED vars
    PROVE  IInv'
<1> USE DEF vars, managerVars, objectVars, sipVars
<1>1. /\ TypeOK /\ OwnerInv /\ ValidInv /\ RtpInv /\ SipInv /\ CountInv /\ RtcpInv /\ EndInv
      /\ CrashNeedsRace
  BY DEF IInv
<1>2. TypeOK'
  BY <1>1 DEF TypeOK
<1>3. OwnerInv'
  BY <1>1, OwnerKept
<1>4. RtpInv' /\ RtcpInv' /\ EndInv' /\ CrashNeedsRace'
  BY <1>1 DEF RtpInv, RtcpInv, EndInv, CrashNeedsRace, SipIdle
<1>5. \A k \in Leg : owner[k] \in Nat
  BY <1>1 DEF TypeOK
<1> QED
  BY <1>2, <1>3, <1>4, <1>5, QuietIInv

\* Every step keeps the invariant.
LEMMA NextIInv ==
    ASSUME IInv, [Next]_vars
    PROVE  IInv'
<1>1. ASSUME NEW p \in Plugin, Owner(p) PROVE IInv'
  <2>1. p[1] \in Leg
    BY PluginFacts
  <2> QED
    BY <1>1, <2>1, AddPluginIInv, OnPluginCreatedIInv, StartIInv, StopIInv, NeverStartIInv,
       CopyPluginIInv, ErasePluginIInv, ReleasePluginIInv, RemovePluginIInv DEF Owner
<1>2. CASE Attach \/ FindPlugin \/ LinkPlugins \/ DropPlugin
  BY <1>2, AttachIInv, FindPluginIInv, LinkPluginsIInv, DropPluginIInv
<1>3. ASSUME NEW l \in Leg, Terminate(l) \/ Rtp(l) PROVE IInv'
  BY <1>3, TerminateIInv, RtpIInv
<1>4. CASE UNCHANGED vars
  BY <1>4, StutterIInv
<1> QED
  BY <1>1, <1>2, <1>3, <1>4 DEF Next

\* The invariant on which everything below rests: what the four kinds of threads
\* keep true of plugins, counts, connections and reports at every step.
THEOREM MediaInvariance == Spec => []IInv
<1>1. IInv /\ [Next]_vars => IInv'
  BY NextIInv
<1> QED
  BY <1>1, InitIInv, PTL DEF Spec

\* The variables keep their types.
THEOREM MediaTypes == Spec => []TypeOK
<1>1. IInv => TypeOK
  BY DEF IInv
<1> QED
  BY <1>1, MediaInvariance, PTL

\* As long as two updates of a count have not overlapped, a count is the number of
\* those that hold the plugin, and the plugin is there exactly while there is one.
THEOREM CountsAreHolders == Spec => []CountIsHolders
<1>1. IInv => CountIsHolders
  BY DEF IInv, CountInv, CountIsHolders
<1> QED
  BY <1>1, MediaInvariance, PTL

\* Nothing that is not there is used unless two accesses have overlapped.
THEOREM CrashesNeedRaces == Spec => []CrashNeedsRace
<1>1. IInv => CrashNeedsRace
  BY DEF IInv
<1> QED
  BY <1>1, MediaInvariance, PTL

\* After the plugins of both legs were destroyed, none is left, not even when they
\* were being connected meanwhile.
THEOREM MediaFreed == Spec => []NothingLeaks
<1>1. IInv => NothingLeaks
  <2> SUFFICES ASSUME IInv, \A l \in Leg : owner[l] = Len(Program), SipIdle, "count" \notin races
               PROVE  alive = {} /\ opposite = {}
    BY DEF NothingLeaks
  <2>1. TypeOK /\ OwnerInv /\ SipInv /\ CountInv /\ EndInv
    BY DEF IInv
  <2>2. ~crashed
    BY <2>1 DEF EndInv, TypeOK
  <2>3. \A l \in Leg : owner[l] = 17
    BY ProgramFacts
  <2>4. plugins = {}
    <3>1. \A l \in Leg : Consumer(l) \notin plugins /\ Producer(l) \notin plugins
      BY <2>1, <2>3 DEF OwnerInv, Placed
    <3>2. plugins \subseteq Plugin
      BY <2>1 DEF TypeOK
    <3> QED
      BY <3>1, <3>2, PluginFacts
  <2>5. found = {}
    BY <2>1 DEF SipInv, SipIdle
  <2>6. Erasing = {}
    <3>1. owner \in [Leg -> 1..Len(Program)]
      BY <2>1 DEF TypeOK
    <3> QED
      BY <2>3, <3>1, DoesFacts, PluginFacts DEF Erasing
  <2>7. opposite \subseteq Leg /\ alive \subseteq Plugin
    BY <2>1 DEF TypeOK
  <2>8. \A p \in Plugin : p \in alive => p \in Linked
    <3> SUFFICES ASSUME NEW p \in Plugin, p \in alive PROVE p \in Linked
      OBVIOUS
    <3>1. Holders(p) > 0
      BY <2>1, <2>2 DEF CountInv
    <3> QED
      BY <2>4, <2>5, <2>6, <2>7, <3>1, HoldersFacts DEF One
  <2>9. opposite = {}
    <3> SUFFICES ASSUME NEW l \in opposite PROVE FALSE
      OBVIOUS
    <3>1. Consumer(l) \in alive /\ l \in Leg
      BY <2>1, <2>2, <2>7 DEF CountInv
    <3>2. Consumer(l) \in Linked
      BY <2>8, <3>1, PluginFacts
    <3> QED
      BY <2>7, <3>1, <3>2, PluginFacts DEF Linked
  <2> QED
    BY <2>7, <2>8, <2>9 DEF Linked
<1> QED
  BY <1>1, MediaInvariance, PTL

\* A push begins only towards a plugin whose Proxy object is there when it is asked.
THEOREM PushInTime == Spec => PushBeginsInTime
<1>1. ASSUME IInv, [Next]_vars, NEW l \in Leg, rtp[l] = "idle", rtp'[l] = "push"
      PROVE  Producer(Other(l)) \in listed
  <2>1. TypeOK /\ OwnerInv /\ ValidInv /\ Other(l) \in Leg
    BY <1>1, PluginFacts DEF IInv
  <2>2. PICK k \in Leg : Rtp(k)
    BY <1>1 DEF Next, vars, Owner, AddPlugin, OnPluginCreated, Start, Stop, NeverStart, CopyPlugin,
                ErasePlugin, ReleasePlugin, RemovePlugin, Attach, FindPlugin, LinkPlugins,
                DropPlugin, Terminate
  <2>3. Consume(l)
    BY <1>1, <2>1, <2>2 DEF TypeOK, Rtp, Consume, Push, TestSession, SendRtcp
  <2>4. Producer(Other(l)) \in valid
    BY <1>1, <2>1, <2>3 DEF TypeOK, Consume, IsValid
  <2> QED
    BY <2>1, <2>4 DEF ValidInv, OwnerInv, Placed
<1>2. IInv /\ [Next]_vars =>
        [\A l \in Leg :
            rtp[l] = "idle" /\ rtp'[l] = "push" => Producer(Other(l)) \in listed]_vars
  BY <1>1
<1> QED
  BY <1>2, MediaInvariance, PTL DEF Spec, PushBeginsInTime

=============================================================================
