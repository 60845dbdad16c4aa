----------------------------- MODULE ServiceProofs -----------------------------
(***************************************************************************)
(* The properties of Service hold for any number of transports, addresses,   *)
(* rows, requests and launches.                                              *)
(*                                                                         *)
(* They follow from one inductive invariant.  Its heart is that whatever is   *)
(* true of the tables the threads see (db) and of those on the disk is kept by *)
(* every statement (Keeps), so that it does not matter when somebody commits, *)
(* or which of the two a restart finds; and that a thread that is about to     *)
(* write, to commit or to answer knows enough about the row (Intent, Effect).  *)
(***************************************************************************)
EXTENDS Service, TLAPS

(* What a table says of an account.                                          *)

Active(d, i) == d.account[i].state = "present" /\ d.account[i].activated
Used(d, i)   == d.account[i].state # "unused"
Mailed(i)    == \E m \in mailed : m.id = i

ActiveOrStale(d, i) == Active(d, i) \/ i \in stale

\* The code is still accepted, or the two days are over.
Lives(d, i, since) ==
    \/ /\ d.account[i].state = "present"
       /\ d.account[i].activated \/ since <= d.account[i].epoch
    \/ since + Lifetime < clock

\* True of the tables in memory and of those on the disk.
TableInv(d) ==
    /\ \A i \in Id :
          /\ Active(d, i) => Mailed(i)
          /\ d.sip[i].state = "present" => ActiveOrStale(d, d.sip[i].owner)
          /\ <<"activated", i>> \in acked => ActiveOrStale(d, i)
          /\ <<"sip", i>> \in acked => d.sip[i].state # "unused"
          /\ <<"caller", i>> \in acked => d.caller[i] # "unused"
    /\ \A m \in mailed :
          /\ Used(d, m.id)
          /\ Lives(d, m.id, m.since) \/ m.id \in stale

\* Without a transaction everything is on the disk; with one, what is active on
\* the disk still is.
SyncInv ==
    /\ inTx \/ disk = db
    /\ \A i \in Id : Active(disk, i) => ActiveOrStale(db, i)

-----------------------------------------------------------------------------
(* What a thread knows.                                                      *)

\* Before it writes.
Intent(r) ==
    /\ r.stmt = "insert" => r.op = "register"
    /\ r.stmt \in TokenOp => r.op = r.stmt
    /\ r.stmt = "update" =>
          /\ r.id \in Id /\ Used(db, r.id)
          /\ r.op \in {"register", "activate"}
          /\ r.wasActive \/ r.op = "activate" => r.activated
          /\ r.activated => Mailed(r.id)
    /\ r.stmt = "addSip" => r.id \in Id /\ ActiveOrStale(db, r.id)
    /\ r.stmt \in Deletion => r.arg \in Id

\* After it has written, in the tables d.
Effect(d, r) ==
    /\ r.op \in {"register", "activate", "addSip", "addCaller"} => r.id \in Id
    /\ r.op = "register" => Used(d, r.id) /\ (Lives(d, r.id, r.epoch) \/ r.id \in stale)
    /\ r.op = "activate" => ActiveOrStale(d, r.id)
    /\ r.op = "addSip" => d.sip[r.id].state # "unused"
    /\ r.op = "addCaller" => d.caller[r.id] # "unused"

ThreadInv(t) ==
    /\ pc[t] \in {"count", "increment"} => local[t].op = "register"
    /\ pc[t] = "select" =>
          /\ local[t].op = "activate" /\ local[t].arg \in Id => Mailed(local[t].arg)
          /\ local[t].op \in Deletion => local[t].arg \in Id
    /\ pc[t] \in {"begin", "write"} => Intent(local[t])
    /\ pc[t] \in {"begin", "write", "commit"} /\ local[t].stmt = "kill" => local[t].op = "register"
    /\ pc[t] = "commit" /\ local[t].stmt # "kill" /\ local[t].ok => Effect(db, local[t])
    /\ pc[t] = "answer" /\ local[t].ok => Effect(db, local[t]) /\ Effect(disk, local[t])

\* A thread has a request only while the engine has a database, or had one.
EngineInv ==
    /\ main \in {"down", "openDb"} => serving = {} /\ \A t \in Thread : pc[t] = "idle"
    /\ main \in {"startC2C", "startRecaptcha", "startMail", "startStack", "running"} => dbOpen

IInv ==
    /\ ServiceTypeOK
    /\ TableInv(db) /\ TableInv(disk)
    /\ SyncInv
    /\ \A t \in Thread : ThreadInv(t)
    /\ EngineInv

-----------------------------------------------------------------------------
(* Steps.                                                                    *)

\* A statement takes the tables from d to e and leaves what the invariant needs.
Keeps(d, e) ==
    /\ stale \subseteq stale'
    /\ \A i \in Id :
          /\ Used(d, i) => Used(e, i)
          /\ d.sip[i].state # "unused" => e.sip[i].state # "unused"
          /\ d.caller[i] # "unused" => e.caller[i] # "unused"
          /\ Active(d, i) => Active(e, i) \/ i \in stale'
          /\ Active(e, i) => Active(d, i) \/ Mailed(i)
          /\ \A s \in 0..MaxClock : Lives(d, i, s) => Lives(e, i, s) \/ i \in stale'
          /\ e.sip[i].state = "present" =>
                \/ d.sip[i].state = "present" /\ e.sip[i].owner = d.sip[i].owner
                \/ ActiveOrStale(d, e.sip[i].owner)

-----------------------------------------------------------------------------
(* Types.                                                                    *)

\* NoId is no id; an address, an idle thread's request and the empty tables exist.
LEMMA IdFacts == /\ Id \subseteq Nat \ {0}
                 /\ NoId \notin Id
                 /\ AnEmail \in Email
                 /\ NoRequest \in Local
                 /\ Empty \in Tables
<1>1. Id \subseteq Nat \ {0} /\ NoId \notin Id
  BY BoundsAssumption DEF Id, NoId
<1>2. AnEmail \in Email
  BY EmailAssumption, Zenon DEF AnEmail
<1>3. NoRequest \in Local
  BY <1>2, BoundsAssumption DEF NoRequest, Local, Op, TokenOp, Deletion, Stmt
<1>4. Empty \in Tables
  BY <1>2, BoundsAssumption DEF Empty, Tables, Account, Sip, RowState
<1> QED BY <1>1, <1>2, <1>3, <1>4

\* The variables are initially of their types.
LEMMA InitTypes == Init => ServiceTypeOK
<1> SUFFICES ASSUME Init PROVE ServiceTypeOK
  OBVIOUS
<1> USE DEF Init, AccountInit
<1>1. db \in Tables /\ disk \in Tables
  BY IdFacts
<1>2. inTx \in BOOLEAN /\ dbOpen \in BOOLEAN /\ aborted \in BOOLEAN
  OBVIOUS
<1>3. /\ count \in 0..(KillEvery - 1) /\ clock \in 0..MaxClock
      /\ requests \in 0..MaxRequests /\ launches \in 0..MaxLaunch
  BY BoundsAssumption, LaunchAssumption
<1>4. pc \in [Thread -> Step]
  BY DEF Step
<1>5. local \in [Thread -> Local]
  BY IdFacts
<1>6. /\ serving \subseteq Thread /\ main \in Main
      /\ mailed \subseteq [id : Id, since : 0..MaxClock]
      /\ acked \subseteq {"activated", "sip", "caller"} \X Id
      /\ stale \subseteq Id
  BY DEF Main
<1> QED BY <1>1, <1>2, <1>3, <1>4, <1>5, <1>6 DEF ServiceTypeOK, TypeOK

\* The end of a process, however it comes, leaves values of their types.
LEMMA DieTypes == ASSUME ServiceTypeOK, Die, aborted' \in BOOLEAN
                  PROVE  ServiceTypeOK'
<1> USE DEF Die, ServiceTypeOK, TypeOK
<1>1. count' \in 0..(KillEvery - 1)
  BY BoundsAssumption
<1>2. pc' \in [Thread -> Step]
  BY DEF Step
<1>3. local' \in [Thread -> Local]
  BY IdFacts
<1>4. inTx' \in BOOLEAN /\ dbOpen' \in BOOLEAN
  OBVIOUS
<1>5. main' \in Main /\ serving' \subseteq Thread
  BY DEF Main
<1> QED BY <1>1, <1>2, <1>3, <1>4, <1>5 DEF history

\* So does every step of main.
LEMMA EngineTypes == ASSUME ServiceTypeOK, Engine PROVE ServiceTypeOK'
<1> USE DEF ServiceTypeOK, TypeOK, accountVars, tables, history, engine, requestV, Main
<1>1. CASE Launch BY <1>1, LaunchAssumption DEF Launch
<1>2. CASE Exit
  <2>1. aborted' \in BOOLEAN BY <1>2 DEF Exit
  <2>2. Die BY <1>2 DEF Exit
  <2> HIDE DEF ServiceTypeOK
  <2> QED BY <2>1, <2>2, DieTypes
<1>3. CASE OpenDb BY <1>3 DEF OpenDb, Continue
<1>4. CASE StartC2C BY <1>4 DEF StartC2C, Continue, Thread
<1>5. CASE StartRecaptcha BY <1>5 DEF StartRecaptcha, Continue, Thread
<1>6. CASE StartMail BY <1>6 DEF StartMail, Continue
<1>7. CASE StartStack BY <1>7 DEF StartStack, Continue
<1>8. CASE CloseDb BY <1>8 DEF CloseDb, Continue
<1>9. CASE StopC2C BY <1>9 DEF StopC2C, Continue
<1>10. CASE StopMail BY <1>10 DEF StopMail, Continue
<1>11. CASE StopStack BY <1>11 DEF StopStack, Continue
<1> QED BY <1>1, <1>2, <1>3, <1>4, <1>5, <1>6, <1>7, <1>8, <1>9, <1>10, <1>11 DEF Engine

\* A request: what a thread may be told to do, and where it goes then.
LEMMA ReceiveTypes ==
    ASSUME ServiceTypeOK, NEW t \in Thread, Receive(t), UNCHANGED processV
    PROVE  ServiceTypeOK'
<1>1. PICK op \in Op, e \in Email, a \in Id \cup {NoId} :
         /\ local' = [local EXCEPT ![t].op = op, ![t].email = e, ![t].arg = a]
         /\ Goto(t, IF op = "register" THEN "count" ELSE "select")
  BY DEF Receive
<1>2. local' \in [Thread -> Local]
  <2> DEFINE r == [local[t] EXCEPT !.op = op, !.email = e, !.arg = a]
  <2>1. local[t] \in Local
    BY DEF ServiceTypeOK, TypeOK
  <2>2. r \in Local
    BY <2>1 DEF Local
  <2>3. local' = [local EXCEPT ![t] = r]
    BY <1>1 DEF ServiceTypeOK, TypeOK
  <2> QED BY <2>2, <2>3 DEF ServiceTypeOK, TypeOK
<1>3. pc' \in [Thread -> Step]
  <2>1. (IF op = "register" THEN "count" ELSE "select") \in Step
    BY DEF Step
  <2> QED BY <1>1, <2>1 DEF ServiceTypeOK, TypeOK, Goto
<1>4. requests' \in 0..MaxRequests
  BY BoundsAssumption DEF Receive, ServiceTypeOK, TypeOK
<1> QED BY <1>2, <1>3, <1>4
  DEF Receive, ServiceTypeOK, TypeOK, processV, tables, engine, history

\* A copy of a row is a copy of a row.
LEMMA PrepareTypes ==
    ASSUME ServiceTypeOK, NEW t \in Thread, NEW stmt \in Stmt,
           NEW i \in Id \cup {NoId}, NEW activated \in BOOLEAN,
           Prepare(t, stmt, i, activated), UNCHANGED processV
    PROVE  ServiceTypeOK'
<1>1. (i \in Id /\ db.account[i].activated) \in BOOLEAN
  BY DEF ServiceTypeOK, TypeOK, Tables, Account
<1>2. DEFINE r == [local[t] EXCEPT !.stmt = stmt, !.id = i, !.epoch = clock,
                       !.wasActive = (i \in Id /\ db.account[i].activated),
                       !.activated = activated]
<1>3. local[t] \in Local
  BY DEF ServiceTypeOK, TypeOK
<1>4. r \in Local
  BY <1>1, <1>3 DEF ServiceTypeOK, TypeOK, Local
<1>5. local' = [local EXCEPT ![t] = r]
  BY DEF Prepare, ServiceTypeOK, TypeOK
<1>6. local' \in [Thread -> Local]
  BY <1>4, <1>5 DEF ServiceTypeOK, TypeOK
<1>7. pc' \in [Thread -> Step]
  <2>1. (IF stmt \in Deletion THEN "write" ELSE "begin") \in Step
    BY DEF Step
  <2> QED BY <2>1 DEF Prepare, Goto, ServiceTypeOK, TypeOK
<1> QED BY <1>6, <1>7
  DEF Prepare, ServiceTypeOK, TypeOK, processV, tables, engine, history

\* A statement leaves tables, and whether it succeeded.
LEMMA ExecuteTypes ==
    ASSUME ServiceTypeOK, NEW t \in Thread, NEW d \in Tables,
           NEW i \in Id \cup {NoId}, NEW ok \in BOOLEAN,
           Execute(t, d, i, ok), stale' \subseteq Id, UNCHANGED processV
    PROVE  ServiceTypeOK'
<1>1. local' \in [Thread -> Local]
  <2> DEFINE r == [local[t] EXCEPT !.id = i, !.ok = ok]
  <2>1. local[t] \in Local
    BY DEF ServiceTypeOK, TypeOK
  <2>2. r \in Local
    BY <2>1 DEF Local
  <2>3. local' = [local EXCEPT ![t] = r]
    BY DEF Execute, ServiceTypeOK, TypeOK
  <2> QED BY <2>2, <2>3 DEF ServiceTypeOK, TypeOK
<1>2. pc' \in [Thread -> Step]
  <2>1. (IF local[t].stmt \in Deletion THEN "answer" ELSE "commit") \in Step
    BY DEF Step
  <2> QED BY <2>1 DEF Execute, Goto, ServiceTypeOK, TypeOK
<1>3. db' \in Tables /\ disk' \in Tables
  BY DEF Execute, ServiceTypeOK, TypeOK
<1> QED BY <1>1, <1>2, <1>3
  DEF Execute, ServiceTypeOK, TypeOK, processV, engine

-----------------------------------------------------------------------------
(* Statements.                                                               *)

\* What a statement about row i leaves for the answer, in the tables d.
Outcome(r, d, i) ==
    /\ r.op \in {"register", "activate", "addSip", "addCaller"} => i \in Id
    /\ r.op = "register" => Used(d, i) /\ (Lives(d, i, r.epoch) \/ i \in stale')
    /\ r.op = "activate" => Active(d, i) \/ i \in stale'
    /\ r.op = "addSip" => d.sip[i].state # "unused"
    /\ r.op = "addCaller" => d.caller[i] # "unused"

\* A statement of thread t, with the tables d it leaves.
Statement(t, d, i, ok) ==
    /\ Execute(t, d, i, ok)
    /\ stale' \subseteq Id
    /\ Keeps(db, d)
    /\ ok /\ local[t].stmt # "kill" => Outcome(local[t], d, i)

AStatement(t) ==
    \E d \in Tables, i \in Id \cup {NoId}, ok \in BOOLEAN : Statement(t, d, i, ok)

\* Killing zombies: none of them was active, and their two days are over.
LEMMA KillStep ==
    ASSUME ServiceTypeOK, NEW t \in Thread, KillZombies(t)
    PROVE  AStatement(t)
<1> DEFINE d == [db EXCEPT !.account = [i \in Id |->
                      IF Zombie(@[i]) THEN [@[i] EXCEPT !.state = "deleted"] ELSE @[i]]]
<1> USE DEF ServiceTypeOK, TypeOK
<1>1. /\ Execute(t, d, NoId, TRUE) /\ stale' = stale
      /\ local[t].stmt = "kill"
  BY DEF KillZombies, Writes
<1>2. \A i \in Id : d.account[i] = IF Zombie(db.account[i])
                                   THEN [db.account[i] EXCEPT !.state = "deleted"]
                                   ELSE db.account[i]
  <2>1. d.account = [i \in Id |-> IF Zombie(db.account[i])
                                  THEN [db.account[i] EXCEPT !.state = "deleted"]
                                  ELSE db.account[i]]
    BY DEF Tables
  <2> HIDE DEF d
  <2> QED BY <2>1
<1>3. d.sip = db.sip /\ d.caller = db.caller
  BY DEF Tables
<1>4. d \in Tables
  <2>1. \A i \in Id : /\ db.account[i] \in Account
                      /\ [db.account[i] EXCEPT !.state = "deleted"] \in Account
    BY DEF Tables, Account, RowState
  <2>2. [i \in Id |-> IF Zombie(db.account[i])
                     THEN [db.account[i] EXCEPT !.state = "deleted"]
                     ELSE db.account[i]] \in [Id -> Account]
    BY <2>1
  <2> QED BY <2>2 DEF Tables
<1>5. \A i \in Id : /\ Used(db, i) => Used(d, i)
                    /\ Active(db, i) <=> Active(d, i)
  BY <1>2 DEF Used, Active, Zombie, Tables, Account
<1>6. ASSUME NEW i \in Id, NEW s \in 0..MaxClock, Lives(db, i, s)
      PROVE  Lives(d, i, s)
  <2>1. CASE Zombie(db.account[i])
    <3>1. db.account[i].epoch \in 0..MaxClock
      BY DEF Tables, Account
    <3>2. s \in Nat /\ clock \in Nat /\ Lifetime \in Nat /\ db.account[i].epoch \in Nat
      BY <3>1, BoundsAssumption
    <3> QED BY <1>6, <2>1, <3>2 DEF Zombie, Lives
  <2>2. CASE ~Zombie(db.account[i])
    BY <1>2, <1>6, <2>2 DEF Lives
  <2> QED BY <2>1, <2>2
<1>7. Keeps(db, d)
  BY <1>1, <1>3, <1>5, <1>6 DEF Keeps
<1>8. Statement(t, d, NoId, TRUE)
  BY <1>1, <1>7 DEF Statement
<1> QED BY <1>4, <1>8 DEF AStatement

\* A statement that changes one row keeps what is needed if it does of that row.
LEMMA KeepsRow ==
    ASSUME NEW d, NEW e, e.sip = d.sip, e.caller = d.caller, stale \subseteq stale',
           NEW k \in Id, \A i \in Id \ {k} : e.account[i] = d.account[i],
           Used(e, k),
           Active(d, k) => Active(e, k) \/ k \in stale',
           Active(e, k) => Active(d, k) \/ Mailed(k),
           \A s \in 0..MaxClock : Lives(d, k, s) => Lives(e, k, s) \/ k \in stale'
    PROVE  Keeps(d, e)
<1>1. ASSUME NEW i \in Id
      PROVE  /\ Used(d, i) => Used(e, i)
             /\ Active(d, i) => Active(e, i) \/ i \in stale'
             /\ Active(e, i) => Active(d, i) \/ Mailed(i)
             /\ \A s \in 0..MaxClock : Lives(d, i, s) => Lives(e, i, s) \/ i \in stale'
  <2>1. CASE i = k
    BY <2>1
  <2>2. CASE i # k
    <3>1. e.account[i] = d.account[i]
      BY <2>2
    <3> QED BY <3>1 DEF Used, Active, Lives
  <2> QED BY <2>1, <2>2
<1> QED BY <1>1 DEF Keeps

\* Writing a copy back: when it is not out of date, the row was active before if it
\* is no more, and has become younger; when it is, the row is stale.
LEMMA UpdateStep ==
    ASSUME ServiceTypeOK, NEW t \in Thread, ThreadInv(t), UpdateAccount(t)
    PROVE  AStatement(t)
<1> DEFINE copy == local[t]
           row  == db.account[copy.id]
           new  == IF row.state = "present"
                   THEN [row EXCEPT !.activated = copy.activated, !.epoch = copy.epoch]
                   ELSE row
           d    == [db EXCEPT !.account[copy.id] = new]
<1> USE DEF ServiceTypeOK, TypeOK
<1>1. /\ Execute(t, d, copy.id, TRUE)
      /\ stale' = IF OutOfDate(copy, row) THEN stale \cup {copy.id} ELSE stale
      /\ pc[t] = "write" /\ copy.stmt = "update"
  BY DEF UpdateAccount, Writes
<1>2. /\ copy.id \in Id /\ Used(db, copy.id)
      /\ copy.op \in {"register", "activate"}
      /\ copy.wasActive \/ copy.op = "activate" => copy.activated
      /\ copy.activated => Mailed(copy.id)
  BY <1>1 DEF ThreadInv, Intent
<1>3. copy \in Local /\ copy.activated \in BOOLEAN /\ copy.epoch \in 0..MaxClock
  BY DEF Local
<1>4. row \in Account
  BY <1>2 DEF Tables
<1>5. new \in Account
  BY <1>3, <1>4 DEF Account
<1>6. d \in Tables
  BY <1>2, <1>5 DEF Tables
<1>7. /\ \A i \in Id : d.account[i] = IF i = copy.id THEN new ELSE db.account[i]
      /\ d.sip = db.sip /\ d.caller = db.caller
  BY <1>2 DEF Tables
<1>8. stale \subseteq stale' /\ stale' \subseteq Id
  BY <1>1, <1>2
<1>9. CASE OutOfDate(copy, row)
  <2>1. copy.id \in stale'
    BY <1>1, <1>9
  <2>2. new.state = row.state /\ (row.state # "present" => new = row)
    BY <1>4 DEF Account
  <2>3. new.state = "present" => new.activated = copy.activated
    BY <1>4, <2>2 DEF Account
  <2>4. Keeps(db, d)
    <3>1. /\ d.account[copy.id] = new /\ d.sip = db.sip /\ d.caller = db.caller
          /\ \A i \in Id \ {copy.id} : d.account[i] = db.account[i]
      BY <1>2, <1>7
    <3>2. Used(d, copy.id)
      BY <1>2, <2>2, <3>1 DEF Used
    <3>3. Active(d, copy.id) => Mailed(copy.id)
      BY <1>2, <2>3, <3>1 DEF Active
    <3> HIDE DEF d
    <3> QED BY <1>2, <1>8, <2>1, <3>1, <3>2, <3>3, KeepsRow
  <2>5. Outcome(copy, d, copy.id)
    BY <1>2, <1>7, <2>1, <2>2 DEF Outcome, Used
  <2>6. Statement(t, d, copy.id, TRUE)
    BY <1>1, <1>8, <2>4, <2>5 DEF Statement
  <2> QED BY <1>2, <1>6, <2>6 DEF AStatement
<1>10. CASE ~OutOfDate(copy, row)
  <2>1. /\ row.state = "present"
        /\ row.activated => copy.wasActive \/ copy.activated
        /\ ~(copy.epoch < row.epoch)
    BY <1>10 DEF OutOfDate
  <2>2. row.activated => copy.activated
    BY <1>2, <2>1
  <2>3. new.state = "present" /\ new.activated = copy.activated /\ new.epoch = copy.epoch
    BY <1>4, <2>1 DEF Account
  <2>4. ASSUME NEW s \in 0..MaxClock, Lives(db, copy.id, s)
        PROVE  Lives(d, copy.id, s)
    <3>1. /\ s \in Nat /\ row.epoch \in Nat /\ copy.epoch \in Nat
      BY <1>3, <1>4, BoundsAssumption DEF Account
    <3>2. s <= row.epoch => s <= new.epoch
      BY <2>1, <2>3, <3>1
    <3> QED BY <1>2, <1>7, <2>2, <2>3, <2>4, <3>2 DEF Lives
  <2>5. Keeps(db, d)
    <3>1. /\ d.account[copy.id] = new /\ d.sip = db.sip /\ d.caller = db.caller
          /\ \A i \in Id \ {copy.id} : d.account[i] = db.account[i]
      BY <1>2, <1>7
    <3>2. Used(d, copy.id) /\ (Active(db, copy.id) => Active(d, copy.id))
      BY <2>2, <2>3, <3>1 DEF Used, Active
    <3>3. Active(d, copy.id) => Mailed(copy.id)
      <4>1. (copy.activated => Mailed(copy.id)) /\ new.activated = copy.activated
        BY <1>2, <2>3
      <4> HIDE DEF d, new, row, copy
      <4>2. Active(d, copy.id) => new.activated
        BY <3>1 DEF Active
      <4> QED BY <4>1, <4>2
    <3>4. \A s \in 0..MaxClock : Lives(db, copy.id, s) => Lives(d, copy.id, s)
      BY <2>4
    <3>5. copy.id \in Id /\ stale \subseteq stale'
      BY <1>2, <1>8
    <3>6. d.sip = db.sip /\ d.caller = db.caller /\ \A i \in Id \ {copy.id} : d.account[i] = db.account[i]
      BY <3>1
    <3> DEFINE k == copy.id
    <3> HIDE DEF d, k, new, row
    <3>7. k \in Id /\ \A i \in Id \ {k} : d.account[i] = db.account[i]
      BY <3>5, <3>6 DEF k
    <3>8. Used(d, k) /\ (Active(db, k) => Active(d, k)) /\ (Active(d, k) => Mailed(k))
          /\ \A s \in 0..MaxClock : Lives(db, k, s) => Lives(d, k, s)
      BY <3>2, <3>3, <3>4 DEF k
    <3> QED BY <3>5, <3>6, <3>7, <3>8, KeepsRow
  <2>6. Lives(d, copy.id, copy.epoch)
    <3>1. copy.epoch \in Nat
      BY <1>3, BoundsAssumption
    <3>2. copy.epoch <= new.epoch
      BY <2>3, <3>1
    <3>3. d.account[copy.id] = new
      BY <1>2, <1>7
    <3> HIDE DEF d, new, copy
    <3> QED BY <2>3, <3>2, <3>3 DEF Lives
  <2>7. Outcome(copy, d, copy.id)
    BY <1>2, <1>7, <2>3, <2>6 DEF Outcome, Used, Active
  <2>8. Statement(t, d, copy.id, TRUE)
    BY <1>1, <1>8, <2>5, <2>7 DEF Statement
  <2> QED BY <1>2, <1>6, <2>8 DEF AStatement
<1> QED BY <1>9, <1>10

\* A new account takes a row that was never used; if the address is there already,
\* the insertion fails and nothing changes.
LEMMA InsertAccountStep ==
    ASSUME ServiceTypeOK, NEW t \in Thread, ThreadInv(t), InsertAccount(t)
    PROVE  AStatement(t)
<1> USE DEF ServiceTypeOK, TypeOK
<1>1. /\ pc[t] = "write" /\ local[t].stmt = "insert" /\ stale' = stale
      /\ local[t].op = "register"
  BY DEF InsertAccount, Writes, ThreadInv, Intent
<1>2. CASE Found(local[t].email) = {}
  <2>1. PICK i \in FreshId({j \in Id : db.account[j].state # "unused"}) :
           Execute(t, [db EXCEPT !.account[i] =
                         [state |-> "present", email |-> local[t].email,
                          activated |-> FALSE, epoch |-> local[t].epoch]], i, TRUE)
    BY <1>2 DEF InsertAccount
  <2> DEFINE new == [state |-> "present", email |-> local[t].email,
                     activated |-> FALSE, epoch |-> local[t].epoch]
             d   == [db EXCEPT !.account[i] = new]
  <2>2. i \in Id /\ db.account[i].state = "unused"
    BY <2>1 DEF FreshId
  <2>3. new \in Account /\ local[t].epoch \in Nat
    BY BoundsAssumption DEF Local, Account, RowState
  <2>4. d \in Tables
    BY <2>2, <2>3 DEF Tables
  <2>5. /\ \A j \in Id : d.account[j] = IF j = i THEN new ELSE db.account[j]
        /\ d.sip = db.sip /\ d.caller = db.caller
    BY <2>2 DEF Tables
  <2>6. Keeps(db, d)
    BY <1>1, <2>2, <2>5 DEF Keeps, Used, Active, Lives
  <2>7. Outcome(local[t], d, i)
    <3>1. d.account[i] = new
      BY <2>2, <2>5
    <3>2. local[t].epoch <= new.epoch
      BY <2>3
    <3> HIDE DEF d
    <3> QED BY <1>1, <2>2, <3>1, <3>2 DEF Outcome, Used, Lives
  <2>8. Statement(t, d, i, TRUE)
    BY <1>1, <2>1, <2>6, <2>7 DEF Statement
  <2> QED BY <2>2, <2>4, <2>8 DEF AStatement
<1>3. CASE Found(local[t].email) # {}
  <2>1. Execute(t, db, NoId, FALSE)
    BY <1>3 DEF InsertAccount, DuplicateIsInserted
  <2>2. Statement(t, db, NoId, FALSE)
    BY <1>1, <2>1 DEF Statement, Keeps
  <2> QED BY <2>2 DEF AStatement
<1> QED BY <1>2, <1>3

\* A new SIP address belongs to an account that was active when the thread looked.
LEMMA InsertSipStep ==
    ASSUME ServiceTypeOK, NEW t \in Thread, ThreadInv(t), InsertSip(t)
    PROVE  AStatement(t)
<1> USE DEF ServiceTypeOK, TypeOK
<1>1. /\ local[t].stmt = "addSip" /\ stale' = stale /\ local[t].op = "addSip"
      /\ local[t].id \in Id /\ ActiveOrStale(db, local[t].id)
  BY DEF InsertSip, Writes, ThreadInv, Intent, TokenOp
<1>2. PICK i \in FreshId({j \in Id : db.sip[j].state # "unused"}) :
         Execute(t, [db EXCEPT !.sip[i] = [state |-> "present", owner |-> local[t].id]], i, TRUE)
  BY DEF InsertSip
<1> DEFINE new == [state |-> "present", owner |-> local[t].id]
           d   == [db EXCEPT !.sip[i] = new]
<1>3. i \in Id
  BY <1>2 DEF FreshId
<1>4. new \in Sip
  BY <1>1 DEF Sip, RowState
<1>5. d \in Tables
  BY <1>3, <1>4 DEF Tables
<1>6. /\ \A j \in Id : d.sip[j] = IF j = i THEN new ELSE db.sip[j]
      /\ d.account = db.account /\ d.caller = db.caller
  BY <1>3 DEF Tables
<1>7. Keeps(db, d)
  BY <1>1, <1>3, <1>6 DEF Keeps, Used, Active, Lives
<1>8. Outcome(local[t], d, i)
  BY <1>1, <1>3, <1>6 DEF Outcome
<1>9. Statement(t, d, i, TRUE)
  BY <1>1, <1>2, <1>7, <1>8 DEF Statement
<1> QED BY <1>3, <1>5, <1>9 DEF AStatement

\* A new caller takes a row that was never used.
LEMMA InsertCallerStep ==
    ASSUME ServiceTypeOK, NEW t \in Thread, ThreadInv(t), InsertCaller(t)
    PROVE  AStatement(t)
<1> USE DEF ServiceTypeOK, TypeOK
<1>1. local[t].stmt = "addCaller" /\ stale' = stale /\ local[t].op = "addCaller"
  BY DEF InsertCaller, Writes, ThreadInv, Intent, TokenOp
<1>2. PICK i \in FreshId({j \in Id : db.caller[j] # "unused"}) :
         Execute(t, [db EXCEPT !.caller[i] = "present"], i, TRUE)
  BY DEF InsertCaller
<1> DEFINE d == [db EXCEPT !.caller[i] = "present"]
<1>3. i \in Id
  BY <1>2 DEF FreshId
<1>4. d \in Tables
  BY <1>3 DEF Tables, RowState
<1>5. /\ \A j \in Id : d.caller[j] = IF j = i THEN "present" ELSE db.caller[j]
      /\ d.account = db.account /\ d.sip = db.sip
  BY <1>3 DEF Tables
<1>6. Keeps(db, d)
  BY <1>1, <1>5 DEF Keeps, Used, Active, Lives
<1>7. Outcome(local[t], d, i)
  BY <1>1, <1>3, <1>5 DEF Outcome
<1>8. Statement(t, d, i, TRUE)
  BY <1>1, <1>2, <1>6, <1>7 DEF Statement
<1> QED BY <1>3, <1>4, <1>8 DEF AStatement

\* A deletion leaves the row used, and the accounts alone.
LEMMA DeleteSipStep ==
    ASSUME ServiceTypeOK, NEW t \in Thread, ThreadInv(t), DeleteSip(t)
    PROVE  AStatement(t)
<1> USE DEF ServiceTypeOK, TypeOK
<1> DEFINE i == local[t].arg
           d == [db EXCEPT !.sip[i].state = Deleted(@)]
<1>1. /\ local[t].stmt = "deleteSip" /\ stale' = stale
      /\ local[t].op = "deleteSip" /\ i \in Id
      /\ Execute(t, d, i, TRUE)
  BY DEF DeleteSip, Writes, ThreadInv, Intent, TokenOp, Deletion
<1>2. db.sip[i] \in Sip
  BY <1>1 DEF Tables
<1>3. [db.sip[i] EXCEPT !.state = Deleted(@)] \in Sip
  BY <1>2 DEF Sip, RowState, Deleted
<1>4. d \in Tables
  BY <1>1, <1>3 DEF Tables
<1>5. /\ \A j \in Id : d.sip[j] = IF j = i THEN [db.sip[i] EXCEPT !.state = Deleted(@)]
                                          ELSE db.sip[j]
      /\ d.account = db.account /\ d.caller = db.caller
  BY <1>1 DEF Tables
<1>6. \A j \in Id : /\ d.sip[j].owner = db.sip[j].owner
                    /\ d.sip[j].state = "present" => db.sip[j].state = "present"
                    /\ db.sip[j].state # "unused" => d.sip[j].state # "unused"
  BY <1>2, <1>5 DEF Sip, Deleted
<1>7. Keeps(db, d)
  BY <1>1, <1>5, <1>6 DEF Keeps, Used, Active, Lives
<1>8. Statement(t, d, i, TRUE)
  BY <1>1, <1>7 DEF Statement, Outcome
<1> QED BY <1>1, <1>4, <1>8 DEF AStatement

\* The same for a caller.
LEMMA DeleteCallerStep ==
    ASSUME ServiceTypeOK, NEW t \in Thread, ThreadInv(t), DeleteCaller(t)
    PROVE  AStatement(t)
<1> USE DEF ServiceTypeOK, TypeOK
<1> DEFINE i == local[t].arg
           d == [db EXCEPT !.caller[i] = Deleted(@)]
<1>1. /\ local[t].stmt = "deleteCaller" /\ stale' = stale
      /\ local[t].op = "deleteCaller" /\ i \in Id
      /\ Execute(t, d, i, TRUE)
  BY DEF DeleteCaller, Writes, ThreadInv, Intent, TokenOp, Deletion
<1>2. Deleted(db.caller[i]) \in RowState
  BY <1>1 DEF Tables, RowState, Deleted
<1>3. d \in Tables
  BY <1>1, <1>2 DEF Tables
<1>4. /\ \A j \in Id : d.caller[j] = IF j = i THEN Deleted(db.caller[i]) ELSE db.caller[j]
      /\ d.account = db.account /\ d.sip = db.sip
  BY <1>1 DEF Tables
<1>5. Keeps(db, d)
  <2>1. \A j \in Id : db.caller[j] # "unused" => d.caller[j] # "unused"
    BY <1>4 DEF Deleted
  <2>2. \A j \in Id : /\ Used(db, j) <=> Used(d, j)
                      /\ Active(db, j) <=> Active(d, j)
                      /\ \A s \in 0..MaxClock : Lives(db, j, s) <=> Lives(d, j, s)
    BY <1>4 DEF Used, Active, Lives
  <2> HIDE DEF d
  <2> QED BY <1>1, <1>4, <2>1, <2>2 DEF Keeps
<1>6. Statement(t, d, i, TRUE)
  BY <1>1, <1>5 DEF Statement, Outcome
<1> QED BY <1>1, <1>3, <1>6 DEF AStatement

\* Every statement is one.
LEMMA StatementStep ==
    ASSUME ServiceTypeOK, NEW t \in Thread, ThreadInv(t),
           \/ KillZombies(t) \/ UpdateAccount(t) \/ InsertAccount(t)
           \/ InsertSip(t) \/ InsertCaller(t) \/ DeleteSip(t) \/ DeleteCaller(t)
    PROVE  AStatement(t)
  BY KillStep, UpdateStep, InsertAccountStep, InsertSipStep, InsertCallerStep,
     DeleteSipStep, DeleteCallerStep

\* And every step of a request, in a thread that knows what ThreadInv says.
LEMMA RequestTypes ==
    ASSUME ServiceTypeOK, NEW t \in Thread, ThreadInv(t), Request(t), UNCHANGED processV
    PROVE  ServiceTypeOK'
<1>1. CASE Receive(t)
  BY <1>1, ReceiveTypes
<1>2. CASE LookAtCount(t)
  <2>1. local' \in [Thread -> Local]
    <3> DEFINE r == [local[t] EXCEPT !.stmt = "kill"]
    <3>1. r \in Local
      BY DEF ServiceTypeOK, TypeOK, Local, Stmt
    <3>2. local' = local \/ local' = [local EXCEPT ![t] = r]
      BY <1>2 DEF LookAtCount, ServiceTypeOK, TypeOK
    <3> QED BY <3>1, <3>2 DEF ServiceTypeOK, TypeOK
  <2>2. pc' \in [Thread -> Step]
    BY <1>2 DEF LookAtCount, Goto, ServiceTypeOK, TypeOK, Step
  <2> QED BY <1>2, <2>1, <2>2
    DEF LookAtCount, ServiceTypeOK, TypeOK, processV, tables, engine, history
<1>3. CASE IncrementCount(t)
  <2>1. count' \in 0..(KillEvery - 1)
    BY <1>3, BoundsAssumption DEF IncrementCount, ServiceTypeOK, TypeOK
  <2>2. pc' \in [Thread -> Step]
    BY <1>3 DEF IncrementCount, Goto, ServiceTypeOK, TypeOK, Step
  <2> QED BY <1>3, <2>1, <2>2
    DEF IncrementCount, ServiceTypeOK, TypeOK, processV, tables, engine, history
<1>4. CASE SelectToRegister(t)
  <2>1. \A i \in Id : ActivationOf(i) \in BOOLEAN
    BY DEF ActivationOf, ServiceTypeOK, TypeOK, Tables, Account
  <2>2. \/ Prepare(t, "insert", NoId, FALSE)
        \/ \E i \in Id : Prepare(t, "update", i, ActivationOf(i))
    BY <1>4 DEF SelectToRegister, Found
  <2> QED BY <2>1, <2>2, PrepareTypes DEF Stmt
<1>5. CASE SelectToActivate(t)
  <2>1. \E i \in Id : Prepare(t, "update", i, TRUE)
    BY <1>5 DEF SelectToActivate, Found
  <2> QED BY <2>1, PrepareTypes DEF Stmt
<1>6. CASE SelectForToken(t)
  <2>1. \E i \in Id : Prepare(t, local[t].op, i, TRUE)
    BY <1>6 DEF SelectForToken, Found
  <2>2. local[t].op \in Stmt
    BY <1>6 DEF SelectForToken, Selects, Stmt
  <2> QED BY <2>1, <2>2, PrepareTypes
<1>7. CASE ReplyAtOnce(t)
  <2>1. pc' \in [Thread -> Step] /\ local' \in [Thread -> Local]
    BY <1>7, IdFacts DEF ReplyAtOnce, Done, Goto, ServiceTypeOK, TypeOK, Step
  <2> QED BY <1>7, <2>1
    DEF ReplyAtOnce, ServiceTypeOK, TypeOK, processV, tables, engine, history
<1>8. CASE Begin(t)
  <2>1. pc' \in [Thread -> Step] /\ inTx' \in BOOLEAN
    BY <1>8 DEF Begin, Goto, ServiceTypeOK, TypeOK, Step
  <2> QED BY <1>8, <2>1
    DEF Begin, ServiceTypeOK, TypeOK, processV, engine, history
<1>9. CASE AStatement(t)
  BY <1>9, ExecuteTypes DEF AStatement, Statement
<1>10. CASE FailToWrite(t)
  <2>1. local' \in [Thread -> Local]
    <3> DEFINE r == [local[t] EXCEPT !.ok = FALSE]
    <3>1. r \in Local
      BY DEF ServiceTypeOK, TypeOK, Local
    <3>2. local' = [local EXCEPT ![t] = r]
      BY <1>10 DEF FailToWrite, ServiceTypeOK, TypeOK
    <3> QED BY <3>1, <3>2 DEF ServiceTypeOK, TypeOK
  <2>2. pc' \in [Thread -> Step]
    BY <1>10 DEF FailToWrite, Goto, ServiceTypeOK, TypeOK, Step
  <2> QED BY <1>10, <2>1, <2>2
    DEF FailToWrite, ServiceTypeOK, TypeOK, processV, tables, engine, history
<1>11. CASE Commit(t)
  <2>1. pc' \in [Thread -> Step]
    BY <1>11 DEF Commit, Goto, ServiceTypeOK, TypeOK, Step
  <2>2. disk' \in Tables /\ inTx' \in BOOLEAN
    BY <1>11 DEF Commit, CommitTransaction, ServiceTypeOK, TypeOK
  <2> QED BY <1>11, <2>1, <2>2
    DEF Commit, ServiceTypeOK, TypeOK, processV, engine, history
<1>12. CASE Answer(t)
  <2>1. pc' \in [Thread -> Step] /\ local' \in [Thread -> Local]
    BY <1>12, IdFacts DEF Answer, Done, Goto, ServiceTypeOK, TypeOK, Step
  <2>2. CASE local[t].ok
    <3>1. local[t].op \in {"register", "activate", "addSip", "addCaller"} => local[t].id \in Id
      BY <1>12, <2>2 DEF Answer, ThreadInv, Effect
    <3>2. acked' \subseteq {"activated", "sip", "caller"} \X Id
      BY <1>12, <2>2, <3>1 DEF Answer, Acknowledged, ServiceTypeOK, TypeOK
    <3>3. local[t].epoch \in 0..MaxClock
      BY DEF ServiceTypeOK, TypeOK, Local
    <3>4. mailed' \subseteq [id : Id, since : 0..MaxClock]
      BY <1>12, <2>2, <3>1, <3>3 DEF Answer, ServiceTypeOK, TypeOK
    <3> QED BY <1>12, <2>1, <3>2, <3>4
      DEF Answer, ServiceTypeOK, TypeOK, processV, tables, engine
  <2>3. CASE ~local[t].ok
    BY <1>12, <2>1, <2>3 DEF Answer, ServiceTypeOK, TypeOK, processV, tables, engine
  <2> QED BY <2>2, <2>3
<1> QED BY <1>1, <1>2, <1>3, <1>4, <1>5, <1>6, <1>7, <1>8, <1>9, <1>10, <1>11, <1>12,
           StatementStep DEF Request

-----------------------------------------------------------------------------
(* What a step leaves to everybody else.                                     *)

\* A step of a living process: the tables keep what they must, and the disk stays
\* as it is or gets all that is written.
Forward ==
    /\ Keeps(db, db')
    /\ disk' = disk \/ disk' = db'
    /\ inTx' \/ disk' = db'
    /\ mailed \subseteq mailed'
    /\ clock <= clock'

\* A step that acknowledges nothing keeps what is true of the tables.
LEMMA DataKept ==
    ASSUME IInv, ServiceTypeOK', Forward, UNCHANGED <<mailed, acked>>
    PROVE  TableInv(db)' /\ TableInv(disk)' /\ SyncInv'
<1>1. /\ clock \in Nat /\ clock' \in Nat /\ Lifetime \in Nat
      /\ \A s \in 0..MaxClock : s \in Nat
      /\ \A m \in mailed : m.id \in Id /\ m.since \in 0..MaxClock
      /\ \A s \in Id : db'.sip[s].owner \in Id /\ disk'.sip[s].owner \in Id
      /\ \A s \in Id : db.sip[s].owner \in Id /\ disk.sip[s].owner \in Id
  BY BoundsAssumption DEF IInv, ServiceTypeOK, TypeOK, Tables, Sip
<1>2. stale \subseteq stale' /\ clock <= clock' /\ mailed' = mailed /\ acked' = acked
  BY DEF Forward, Keeps
<1>3. ASSUME NEW s \in 0..MaxClock, s + Lifetime < clock
      PROVE  s + Lifetime < clock'
  BY <1>1, <1>2, <1>3
<1>4. TableInv(db)'
  <2>1. ASSUME NEW i \in Id
        PROVE  /\ Active(db', i) => Mailed(i)'
               /\ db'.sip[i].state = "present" =>
                     Active(db', db'.sip[i].owner) \/ db'.sip[i].owner \in stale'
               /\ <<"activated", i>> \in acked' => Active(db', i) \/ i \in stale'
               /\ <<"sip", i>> \in acked' => db'.sip[i].state # "unused"
               /\ <<"caller", i>> \in acked' => db'.caller[i] # "unused"
    BY <1>1, <1>2 DEF IInv, TableInv, Forward, Keeps, ActiveOrStale, Mailed
  <2>2. ASSUME NEW m \in mailed'
        PROVE  /\ Used(db', m.id)
               /\ \/ /\ db'.account[m.id].state = "present"
                     /\ db'.account[m.id].activated \/ m.since <= db'.account[m.id].epoch
                  \/ m.since + Lifetime < clock'
                  \/ m.id \in stale'
    <3>1. Used(db, m.id) /\ (Lives(db, m.id, m.since) \/ m.id \in stale)
      BY <1>2 DEF IInv, TableInv
    <3>2. Lives(db', m.id, m.since) \/ m.id \in stale'
      BY <1>1, <1>2, <3>1 DEF Forward, Keeps
    <3>3. Used(db', m.id)
      BY <1>1, <1>2, <3>1 DEF Forward, Keeps
    <3> QED BY <1>1, <1>2, <1>3, <3>2, <3>3 DEF Lives
  <2> QED BY <2>1, <2>2 DEF TableInv, Active, ActiveOrStale, Used, Lives
<1>5. TableInv(disk)'
  <2>1. CASE disk' = db'
    BY <1>4, <2>1 DEF TableInv, Active, ActiveOrStale, Used, Lives
  <2>2. CASE disk' = disk
    <3>1. ASSUME NEW i \in Id
          PROVE  /\ Active(disk, i) => Mailed(i)'
                 /\ disk.sip[i].state = "present" =>
                       Active(disk, disk.sip[i].owner) \/ disk.sip[i].owner \in stale'
                 /\ <<"activated", i>> \in acked' => Active(disk, i) \/ i \in stale'
                 /\ <<"sip", i>> \in acked' => disk.sip[i].state # "unused"
                 /\ <<"caller", i>> \in acked' => disk.caller[i] # "unused"
      BY <1>1, <1>2 DEF IInv, TableInv, ActiveOrStale, Mailed
    <3>2. ASSUME NEW m \in mailed'
          PROVE  /\ Used(disk, m.id)
                 /\ \/ /\ disk.account[m.id].state = "present"
                       /\ disk.account[m.id].activated \/ m.since <= disk.account[m.id].epoch
                    \/ m.since + Lifetime < clock'
                    \/ m.id \in stale'
      BY <1>1, <1>2, <1>3 DEF IInv, TableInv, Lives
    <3> QED BY <2>2, <3>1, <3>2 DEF TableInv, Active, ActiveOrStale, Used, Lives
  <2> QED BY <2>1, <2>2 DEF Forward
<1>6. SyncInv'
  <2>1. ASSUME NEW i \in Id, Active(disk', i)
        PROVE  Active(db', i) \/ i \in stale'
    BY <1>2, <2>1 DEF IInv, SyncInv, Forward, Keeps, ActiveOrStale
  <2> QED BY <2>1 DEF SyncInv, Forward, Active, ActiveOrStale
<1> QED BY <1>4, <1>5, <1>6

\* A thread that does not move still knows what it knew.
LEMMA ThreadKept ==
    ASSUME ServiceTypeOK, ServiceTypeOK', Forward,
           NEW u \in Thread, ThreadInv(u), pc'[u] = pc[u], local'[u] = local[u]
    PROVE  ThreadInv(u)'
<1>1. /\ local[u] \in Local /\ local[u].epoch \in 0..MaxClock
      /\ local[u].epoch \in Nat /\ clock \in Nat /\ clock' \in Nat /\ Lifetime \in Nat
      /\ stale \subseteq stale' /\ clock <= clock' /\ mailed \subseteq mailed'
  BY BoundsAssumption DEF ServiceTypeOK, TypeOK, Local, Forward, Keeps
<1>2. \A i : Mailed(i) => Mailed(i)'
  BY <1>1 DEF Mailed
<1>3. ASSUME Intent(local[u]) PROVE Intent(local[u])'
  BY <1>1, <1>2, <1>3 DEF Intent, Forward, Keeps, ActiveOrStale, Used, Active
<1>4. ASSUME Effect(db, local[u]) PROVE Effect(db, local[u])'
  <2>1. local[u].op = "register" => Lives(db', local[u].id, local[u].epoch) \/ local[u].id \in stale'
    BY <1>1, <1>4 DEF Effect, Forward, Keeps
  <2>2. local[u].op = "register" =>
           \/ /\ db'.account[local[u].id].state = "present"
              /\ \/ db'.account[local[u].id].activated
                 \/ local[u].epoch <= db'.account[local[u].id].epoch
           \/ local[u].epoch + Lifetime < clock'
           \/ local[u].id \in stale'
    BY <1>1, <2>1 DEF Lives
  <2>3. /\ local[u].op \in {"register", "activate", "addSip", "addCaller"} => local[u].id \in Id
        /\ local[u].op = "register" => Used(db', local[u].id)
        /\ local[u].op = "activate" => Active(db', local[u].id) \/ local[u].id \in stale'
        /\ local[u].op = "addSip" => db'.sip[local[u].id].state # "unused"
        /\ local[u].op = "addCaller" => db'.caller[local[u].id] # "unused"
    BY <1>1, <1>4 DEF Effect, Forward, Keeps, ActiveOrStale
  <2> QED BY <2>2, <2>3 DEF Effect, ActiveOrStale, Used, Active, Lives
<1>5. ASSUME Effect(db, local[u]), Effect(disk, local[u]) PROVE Effect(disk, local[u])'
  <2>1. CASE disk' = db'
    BY <1>4, <1>5, <2>1 DEF Effect, ActiveOrStale, Used, Active, Lives
  <2>2. CASE disk' = disk
    <3>1. local[u].epoch + Lifetime < clock => local[u].epoch + Lifetime < clock'
      BY <1>1
    <3> QED BY <1>1, <1>5, <2>2, <3>1 DEF Effect, ActiveOrStale, Used, Active, Lives
  <2> QED BY <2>1, <2>2 DEF Forward
<1> QED BY <1>2, <1>3, <1>4, <1>5 DEF ThreadInv

-----------------------------------------------------------------------------
(* Requests.                                                                 *)

\* A step that leaves the tables alone is one of a living process.
LEMMA QuietForward ==
    ASSUME IInv, UNCHANGED <<db, disk, stale>>, inTx' = inTx \/ inTx' = TRUE,
           mailed \subseteq mailed', clock <= clock'
    PROVE  Forward
  BY DEF Forward, Keeps, IInv, SyncInv

\* A request moves one thread: every other one stays where it is.
LEMMA RequestShape ==
    ASSUME ServiceTypeOK, NEW t \in Thread, Request(t)
    PROVE  /\ \A u \in Thread \ {t} : pc'[u] = pc[u] /\ local'[u] = local[u]
           /\ UNCHANGED engine /\ clock' = clock
           /\ pc[t] # "idle" \/ t \in serving
<1> USE DEF Goto
<1>1. CASE Receive(t) BY <1>1 DEF Receive, ServiceTypeOK, TypeOK
<1>2. CASE LookAtCount(t) BY <1>2 DEF LookAtCount, ServiceTypeOK, TypeOK
<1>3. CASE IncrementCount(t) BY <1>3 DEF IncrementCount, ServiceTypeOK, TypeOK
<1>4. CASE SelectToRegister(t) \/ SelectToActivate(t) \/ SelectForToken(t)
  <2>1. pc[t] = "select" /\ \E stmt, i, activated : Prepare(t, stmt, i, activated)
    <3>1. CASE SelectToRegister(t)
      BY <3>1 DEF SelectToRegister, Selects
    <3>2. CASE SelectToActivate(t)
      BY <3>2 DEF SelectToActivate, Selects
    <3>3. CASE SelectForToken(t)
      BY <3>3 DEF SelectForToken, Selects
    <3> QED BY <1>4, <3>1, <3>2, <3>3
  <2> QED BY <2>1 DEF Prepare, ServiceTypeOK, TypeOK
<1>5. CASE ReplyAtOnce(t) BY <1>5 DEF ReplyAtOnce, Selects, Done, ServiceTypeOK, TypeOK
<1>6. CASE Begin(t) BY <1>6 DEF Begin, ServiceTypeOK, TypeOK
<1>7. CASE KillZombies(t) \/ UpdateAccount(t) \/ InsertAccount(t) \/ InsertSip(t)
           \/ InsertCaller(t) \/ DeleteSip(t) \/ DeleteCaller(t)
  <2>1. pc[t] = "write"
    BY <1>7 DEF KillZombies, UpdateAccount, InsertAccount, InsertSip, InsertCaller,
                DeleteSip, DeleteCaller, Writes
  <2>2. \E d, i, ok : Execute(t, d, i, ok)
    BY <1>7 DEF KillZombies, UpdateAccount, InsertAccount, InsertSip, InsertCaller,
                DeleteSip, DeleteCaller
  <2> QED BY <2>1, <2>2 DEF Execute, ServiceTypeOK, TypeOK
<1>8. CASE FailToWrite(t) BY <1>8 DEF FailToWrite, ServiceTypeOK, TypeOK
<1>9. CASE Commit(t) BY <1>9 DEF Commit, ServiceTypeOK, TypeOK
<1>10. CASE Answer(t) BY <1>10 DEF Answer, Done, ServiceTypeOK, TypeOK
<1> QED BY <1>1, <1>2, <1>3, <1>4, <1>5, <1>6, <1>7, <1>8, <1>9, <1>10 DEF Request

\* Every step of a request is one of a living process.
LEMMA RequestForward ==
    ASSUME IInv, NEW t \in Thread, Request(t)
    PROVE  Forward /\ (Answer(t) \/ UNCHANGED <<mailed, acked>>)
<1>1. clock' = clock /\ clock <= clock /\ ServiceTypeOK /\ ThreadInv(t)
  BY RequestShape, BoundsAssumption DEF IInv, ServiceTypeOK, TypeOK
<1>2. CASE \/ Receive(t) \/ LookAtCount(t) \/ IncrementCount(t)
           \/ SelectToRegister(t) \/ SelectToActivate(t) \/ SelectForToken(t)
           \/ ReplyAtOnce(t) \/ Begin(t) \/ FailToWrite(t)
  <2>1. UNCHANGED <<db, disk, stale, mailed, acked>> /\ (inTx' = inTx \/ inTx' = TRUE)
    BY <1>2 DEF Receive, LookAtCount, IncrementCount, SelectToRegister, SelectToActivate,
                SelectForToken, Prepare, ReplyAtOnce, Begin, FailToWrite, tables, history
  <2> QED BY <1>1, <2>1, QuietForward
<1>3. CASE Answer(t)
  <2>1. UNCHANGED <<db, disk, inTx, stale>> /\ mailed \subseteq mailed'
    BY <1>3 DEF Answer, tables
  <2> QED BY <1>1, <1>3, <2>1, QuietForward
<1>4. CASE Commit(t)
  BY <1>1, <1>4 DEF Commit, CommitTransaction, Forward, Keeps, history
<1>5. CASE AStatement(t)
  <2>1. PICK d \in Tables, i \in Id \cup {NoId}, ok \in BOOLEAN : Statement(t, d, i, ok)
    BY <1>5 DEF AStatement
  <2>2. /\ db' = d /\ disk' = IF inTx THEN disk ELSE d
        /\ inTx' = inTx /\ mailed' = mailed /\ acked' = acked
        /\ Keeps(db, d)
    BY <2>1 DEF Statement, Execute
  <2>3. Keeps(db, db')
    BY <2>2
  <2>4. inTx' \/ disk' = db'
    BY <2>2
  <2> QED BY <1>1, <2>2, <2>3, <2>4 DEF Forward
<1> QED BY <1>1, <1>2, <1>3, <1>4, <1>5, StatementStep DEF Request

\* The copy that a thread prepares is one it may write.
LEMMA PrepareOwn ==
    ASSUME IInv, NEW t \in Thread,
           SelectToRegister(t) \/ SelectToActivate(t) \/ SelectForToken(t)
    PROVE  ThreadInv(t)'
<1>1. /\ pc[t] = "select" /\ ThreadInv(t) /\ TableInv(db)
      /\ local \in [Thread -> Local] /\ local[t] \in Local /\ pc \in [Thread -> Step]
  BY DEF SelectToRegister, SelectToActivate, SelectForToken, Selects, IInv, ServiceTypeOK, TypeOK
<1>2. ASSUME NEW stmt, NEW i, NEW activated, Prepare(t, stmt, i, activated)
      PROVE  /\ pc'[t] = IF stmt \in Deletion THEN "write" ELSE "begin"
             /\ local'[t].stmt = stmt /\ local'[t].id = i
             /\ local'[t].activated = activated
             /\ local'[t].wasActive = (i \in Id /\ db.account[i].activated)
             /\ local'[t].op = local[t].op /\ local'[t].arg = local[t].arg
             /\ UNCHANGED <<db, mailed, stale>>
  BY <1>1, <1>2 DEF Prepare, Goto, Local, tables, history
<1>3. CASE SelectToRegister(t)
  <2>1. local[t].op = "register"
    BY <1>3 DEF SelectToRegister, Selects
  <2>2. CASE Prepare(t, "insert", NoId, FALSE)
    <3>1. /\ pc'[t] = "begin" /\ local'[t].stmt = "insert" /\ local'[t].op = "register"
      BY <1>2, <2>1, <2>2 DEF Deletion
    <3> QED BY <3>1 DEF ThreadInv, Intent, TokenOp, Deletion
  <2>3. ASSUME NEW i \in Found(local[t].email), Prepare(t, "update", i, ActivationOf(i))
        PROVE  ThreadInv(t)'
    <3>1. i \in Id /\ db.account[i].state = "present"
      BY DEF Found
    <3>2. db.account[i].activated => Mailed(i)
      BY <1>1, <3>1 DEF TableInv, Active
    <3>3. /\ pc'[t] = "begin" /\ local'[t].stmt = "update" /\ local'[t].op = "register"
          /\ local'[t].id = i /\ UNCHANGED <<db, mailed>>
          /\ local'[t].activated = db.account[i].activated
          /\ local'[t].wasActive = (i \in Id /\ db.account[i].activated)
      BY <1>2, <2>1, <2>3 DEF Deletion, ActivationOf
    <3>4. Intent(local[t])'
      BY <3>1, <3>2, <3>3 DEF Intent, TokenOp, Deletion, Used, Mailed
    <3> QED BY <3>3, <3>4 DEF ThreadInv
  <2> QED BY <1>3, <2>2, <2>3 DEF SelectToRegister
<1>4. CASE SelectToActivate(t)
  <2>1. PICK i \in Found(local[t].email) : CodeMatches(t, i) /\ Prepare(t, "update", i, TRUE)
    BY <1>4 DEF SelectToActivate
  <2>2. local[t].op = "activate" /\ i \in Id /\ db.account[i].state = "present" /\ local[t].arg = i
    BY <1>4, <2>1 DEF SelectToActivate, Selects, Found, CodeMatches
  <2>3. Mailed(i)
    BY <1>1, <2>2 DEF ThreadInv
  <2>4. /\ pc'[t] = "begin" /\ local'[t].stmt = "update" /\ local'[t].op = "activate"
        /\ local'[t].id = i /\ UNCHANGED <<db, mailed>>
    BY <1>2, <2>1, <2>2 DEF Deletion
  <2>5. local'[t].activated = TRUE
    BY <1>2, <2>1, Zenon
  <2>6. Intent(local[t])'
    BY <2>2, <2>3, <2>4, <2>5 DEF Intent, TokenOp, Deletion, Used, Mailed
  <2> QED BY <2>4, <2>6 DEF ThreadInv
<1>5. CASE SelectForToken(t)
  <2>1. PICK i \in Found(local[t].email) : MayUse(i) /\ Prepare(t, local[t].op, i, TRUE)
    BY <1>5 DEF SelectForToken
  <2>2. local[t].op \in TokenOp /\ i \in Id /\ Active(db, i)
    BY <1>5, <2>1 DEF SelectForToken, Selects, Found, MayUse, Active
  <2>3. /\ pc'[t] \in {"begin", "write"} /\ UNCHANGED <<db, stale>>
        /\ local'[t].stmt = local[t].op /\ local'[t].op = local[t].op
        /\ local'[t].id = i /\ local'[t].arg = local[t].arg
    BY <1>2, <2>1
  <2>4. local[t].op \in Deletion => local[t].arg \in Id
    BY <1>1 DEF ThreadInv
  <2>5. Intent(local[t])'
    BY <2>2, <2>3, <2>4 DEF Intent, TokenOp, Deletion, ActiveOrStale, Active
  <2> QED BY <2>2, <2>3, <2>5 DEF ThreadInv, TokenOp, Deletion
<1> QED BY <1>3, <1>4, <1>5

\* A thread that has written knows what it wrote.
LEMMA StatementOwn ==
    ASSUME IInv, NEW t \in Thread, pc[t] = "write", AStatement(t)
    PROVE  ThreadInv(t)'
<1>1. PICK d \in Tables, i \in Id \cup {NoId}, ok \in BOOLEAN : Statement(t, d, i, ok)
  BY DEF AStatement
<1>2. ThreadInv(t) /\ local \in [Thread -> Local] /\ local[t] \in Local /\ pc \in [Thread -> Step]
  BY DEF IInv, ServiceTypeOK, TypeOK
<1>3. /\ pc'[t] = IF local[t].stmt \in Deletion THEN "answer" ELSE "commit"
      /\ local'[t].id = i /\ local'[t].ok = ok
      /\ local'[t].op = local[t].op /\ local'[t].stmt = local[t].stmt
      /\ local'[t].epoch = local[t].epoch
      /\ db' = d /\ clock' = clock
  BY <1>1, <1>2 DEF Statement, Execute, Goto, Local
<1>4. ok /\ local[t].stmt # "kill" => Outcome(local[t], d, i)
  BY <1>1 DEF Statement
<1>5. ok /\ local[t].stmt # "kill" => Effect(db, local[t])'
  BY <1>3, <1>4 DEF Outcome, Effect, Used, Active, ActiveOrStale, Lives
<1>6. local[t].stmt = "kill" => local[t].op = "register"
  BY <1>2 DEF ThreadInv
<1>7. local[t].stmt \in Deletion => local[t].op \in Deletion
  BY <1>2 DEF ThreadInv, Intent, TokenOp
<1>8. local[t].stmt \in Deletion => Effect(db, local[t])' /\ Effect(disk, local[t])'
  BY <1>3, <1>7 DEF Effect, Deletion
<1> QED BY <1>3, <1>5, <1>6, <1>8 DEF ThreadInv

\* Whatever a thread does, it knows what it must in its next step.
LEMMA RequestOwn ==
    ASSUME IInv, NEW t \in Thread, Request(t)
    PROVE  ThreadInv(t)'
<1>1. ThreadInv(t) /\ local \in [Thread -> Local] /\ local[t] \in Local /\ pc \in [Thread -> Step]
  BY DEF IInv, ServiceTypeOK, TypeOK
<1> USE DEF Goto
<1>2. CASE Receive(t)
  <2>1. PICK op \in Op, e \in Email, a \in Id \cup {NoId} :
           /\ op = "activate" => a = NoId \/ \E m \in mailed : m.id = a
           /\ op \in Deletion => a # NoId
           /\ local' = [local EXCEPT ![t].op = op, ![t].email = e, ![t].arg = a]
           /\ Goto(t, IF op = "register" THEN "count" ELSE "select")
    BY <1>2 DEF Receive
  <2>2. /\ local'[t].op = op /\ local'[t].arg = a /\ mailed' = mailed
        /\ pc'[t] = IF op = "register" THEN "count" ELSE "select"
    BY <1>1, <1>2, <2>1 DEF Receive, Local, history
  <2>3. CASE op = "register"
    BY <2>2, <2>3 DEF ThreadInv
  <2>4. CASE op # "register"
    <3>1. pc'[t] = "select"
      BY <2>2, <2>4
    <3>2. op = "activate" /\ a \in Id => Mailed(a)
      BY <2>1, IdFacts DEF Mailed
    <3>3. op \in Deletion => a \in Id
      BY <2>1
    <3> QED BY <2>2, <3>1, <3>2, <3>3 DEF ThreadInv, Mailed
  <2> QED BY <2>3, <2>4
<1>3. CASE LookAtCount(t)
  <2>1. /\ local'[t].op = "register"
        /\ pc'[t] = "increment" \/ (pc'[t] = "begin" /\ local'[t].stmt = "kill")
    BY <1>1, <1>3 DEF LookAtCount, ThreadInv, Local
  <2> QED BY <2>1 DEF ThreadInv, Intent, TokenOp, Deletion
<1>4. CASE IncrementCount(t)
  <2>1. pc'[t] = "select" /\ local'[t].op = "register"
    BY <1>1, <1>4 DEF IncrementCount, ThreadInv
  <2> QED BY <2>1 DEF ThreadInv, Deletion
<1>5. CASE SelectToRegister(t) \/ SelectToActivate(t) \/ SelectForToken(t)
  BY <1>5, PrepareOwn
<1>6. CASE ReplyAtOnce(t) \/ Answer(t)
  <2>1. pc'[t] = "idle"
    BY <1>1, <1>6 DEF ReplyAtOnce, Answer, Done
  <2> QED BY <2>1 DEF ThreadInv
<1>7. CASE Begin(t)
  <2>1. /\ pc[t] = "begin" /\ pc'[t] = "write" /\ local' = local
        /\ UNCHANGED <<db, mailed, stale>>
    BY <1>1, <1>7 DEF Begin, history
  <2> QED BY <1>1, <2>1 DEF ThreadInv, Intent, Mailed, Used, ActiveOrStale, Active
<1>8. CASE \/ KillZombies(t) \/ UpdateAccount(t) \/ InsertAccount(t)
           \/ InsertSip(t) \/ InsertCaller(t) \/ DeleteSip(t) \/ DeleteCaller(t)
  <2>1. pc[t] = "write"
    BY <1>8 DEF KillZombies, UpdateAccount, InsertAccount, InsertSip, InsertCaller,
                DeleteSip, DeleteCaller, Writes
  <2>2. AStatement(t)
    BY <1>1, <1>8, StatementStep DEF IInv
  <2> QED BY <2>1, <2>2, StatementOwn
<1>9. CASE FailToWrite(t)
  <2>1. /\ pc[t] = "write" /\ pc'[t] \in {"answer", "commit"} /\ local'[t].ok = FALSE
        /\ local'[t].stmt = local[t].stmt /\ local'[t].op = local[t].op
    BY <1>1, <1>9 DEF FailToWrite, Local
  <2> QED BY <1>1, <2>1 DEF ThreadInv
<1>10. CASE Commit(t)
  <2>1. /\ pc[t] = "commit" /\ local' = local
        /\ pc'[t] = IF local[t].stmt = "kill" THEN "increment" ELSE "answer"
        /\ db' = db /\ disk' = db /\ stale' = stale /\ clock' = clock
    BY <1>1, <1>10 DEF Commit, CommitTransaction, history
  <2>2. local[t].ok /\ local[t].stmt # "kill" => Effect(db, local[t])
    BY <1>1, <2>1 DEF ThreadInv
  <2>3. local[t].ok /\ local[t].stmt # "kill" => Effect(db, local[t])' /\ Effect(disk, local[t])'
    BY <2>1, <2>2 DEF Effect, Used, ActiveOrStale, Active, Lives
  <2> QED BY <1>1, <2>1, <2>3 DEF ThreadInv
<1> QED BY <1>2, <1>3, <1>4, <1>5, <1>6, <1>7, <1>8, <1>9, <1>10 DEF Request

\* What is answered is true, in memory and on the disk.
LEMMA AnswerData ==
    ASSUME IInv, NEW t \in Thread, Answer(t)
    PROVE  TableInv(db)' /\ TableInv(disk)' /\ SyncInv'
<1>1. /\ UNCHANGED <<db, disk, inTx, clock, stale>>
      /\ mailed \subseteq mailed' /\ acked \subseteq acked' /\ pc[t] = "answer"
  BY DEF Answer, tables
<1>2. TableInv(db) /\ TableInv(disk) /\ SyncInv /\ ThreadInv(t)
  BY DEF IInv
<1>3. ASSUME NEW d \in {db, disk} PROVE
         /\ \A i \in Id :
               /\ Active(d, i) => Mailed(i)'
               /\ d.sip[i].state = "present" => ActiveOrStale(d, d.sip[i].owner)
               /\ <<"activated", i>> \in acked' => ActiveOrStale(d, i)
               /\ <<"sip", i>> \in acked' => d.sip[i].state # "unused"
               /\ <<"caller", i>> \in acked' => d.caller[i] # "unused"
         /\ \A m \in mailed' : Used(d, m.id) /\ (Lives(d, m.id, m.since) \/ m.id \in stale)
  <2>1. CASE ~local[t].ok
    <3>1. mailed' = mailed /\ acked' = acked
      BY <2>1 DEF Answer
    <3> QED BY <1>2, <3>1 DEF TableInv, Mailed
  <2>2. CASE local[t].ok
    <3>1. Effect(d, local[t])
      BY <1>1, <1>2, <2>2 DEF ThreadInv
    <3>2. /\ acked' = acked \cup Acknowledged(local[t])
          /\ \A m \in mailed' : \/ m \in mailed
                                \/ /\ local[t].op = "register"
                                   /\ m.id = local[t].id /\ m.since = local[t].epoch
      BY <2>2 DEF Answer
    <3>3. \A i \in Id : /\ Active(d, i) => Mailed(i)'
                        /\ d.sip[i].state = "present" => ActiveOrStale(d, d.sip[i].owner)
      BY <1>1, <1>2 DEF TableInv, Mailed
    <3>4. ASSUME NEW i \in Id
          PROVE  /\ <<"activated", i>> \in acked' => ActiveOrStale(d, i)
                 /\ <<"sip", i>> \in acked' => d.sip[i].state # "unused"
                 /\ <<"caller", i>> \in acked' => d.caller[i] # "unused"
      <4>1. /\ <<"activated", i>> \in Acknowledged(local[t]) =>
                   local[t].op = "activate" /\ local[t].id = i
            /\ <<"sip", i>> \in Acknowledged(local[t]) =>
                   local[t].op = "addSip" /\ local[t].id = i
            /\ <<"caller", i>> \in Acknowledged(local[t]) =>
                   local[t].op = "addCaller" /\ local[t].id = i
        BY DEF Acknowledged
      <4> QED BY <1>2, <3>1, <3>2, <4>1 DEF TableInv, Effect
    <3>5. \A m \in mailed' : Used(d, m.id) /\ (Lives(d, m.id, m.since) \/ m.id \in stale)
      BY <1>2, <3>1, <3>2 DEF TableInv, Effect
    <3> QED BY <3>3, <3>4, <3>5
  <2> QED BY <2>1, <2>2
<1>4. TableInv(db)'
  BY <1>1, <1>3 DEF TableInv, Mailed, ActiveOrStale, Active, Used, Lives
<1>5. TableInv(disk)'
  BY <1>1, <1>3 DEF TableInv, Mailed, ActiveOrStale, Active, Used, Lives
<1> QED BY <1>1, <1>2, <1>4, <1>5 DEF SyncInv, ActiveOrStale, Active

\* A request of one thread keeps the invariant.
LEMMA RequestInv ==
    ASSUME IInv, NEW t \in Thread, Request(t), UNCHANGED processV
    PROVE  IInv'
<1>1. ServiceTypeOK /\ ThreadInv(t) /\ EngineInv
  BY DEF IInv
<1>2. ServiceTypeOK'
  BY <1>1, RequestTypes
<1>3. Forward /\ (Answer(t) \/ UNCHANGED <<mailed, acked>>)
  BY RequestForward
<1>4. TableInv(db)' /\ TableInv(disk)' /\ SyncInv'
  <2>1. CASE Answer(t)
    BY <2>1, AnswerData
  <2>2. CASE UNCHANGED <<mailed, acked>>
    BY <1>2, <1>3, <2>2, DataKept
  <2> QED BY <1>3, <2>1, <2>2
<1>5. /\ \A u \in Thread \ {t} : pc'[u] = pc[u] /\ local'[u] = local[u]
      /\ UNCHANGED engine
      /\ pc[t] # "idle" \/ t \in serving
  BY <1>1, RequestShape
<1>6. ASSUME NEW u \in Thread PROVE ThreadInv(u)'
  <2>1. CASE u = t
    BY <2>1, RequestOwn
  <2>2. CASE u # t
    <3>1. ThreadInv(u) /\ pc'[u] = pc[u] /\ local'[u] = local[u]
      BY <1>5, <2>2 DEF IInv
    <3> QED BY <1>1, <1>2, <1>3, <3>1, ThreadKept
  <2> QED BY <2>1, <2>2
<1>7. EngineInv'
  BY <1>1, <1>5 DEF EngineInv, engine, processV
<1> QED BY <1>2, <1>4, <1>6, <1>7 DEF IInv

-----------------------------------------------------------------------------
(* Everything else.                                                          *)

\* The next process finds on the disk what the invariant says of it.
LEMMA DieInv ==
    ASSUME IInv, Die, aborted' \in BOOLEAN
    PROVE  IInv'
<1>1. ServiceTypeOK'
  BY DieTypes DEF IInv
<1>2. /\ db' = disk /\ UNCHANGED <<disk, clock, mailed, acked, stale>>
      /\ pc' = [t \in Thread |-> "idle"] /\ main' = "down" /\ serving' = {}
  BY DEF Die, history
<1>3. TableInv(db)' /\ TableInv(disk)'
  BY <1>2 DEF IInv, TableInv, Mailed, ActiveOrStale, Active, Used, Lives
<1>4. SyncInv'
  BY <1>2 DEF SyncInv, ActiveOrStale, Active
<1>5. \A t \in Thread : ThreadInv(t)'
  BY <1>2 DEF ThreadInv
<1>6. EngineInv'
  BY <1>2 DEF EngineInv
<1> QED BY <1>1, <1>3, <1>4, <1>5, <1>6 DEF IInv

\* A step that touches neither the tables nor a thread keeps what is said of them.
LEMMA QuietInv ==
    ASSUME IInv, ServiceTypeOK', EngineInv', clock <= clock',
           UNCHANGED <<db, disk, inTx, pc, local, mailed, acked, stale>>
    PROVE  IInv'
<1>1. Forward
  BY QuietForward
<1>2. TableInv(db)' /\ TableInv(disk)' /\ SyncInv'
  BY <1>1, DataKept
<1>3. ASSUME NEW u \in Thread PROVE ThreadInv(u)'
  BY <1>1, ThreadKept DEF IInv
<1> QED BY <1>2, <1>3 DEF IInv

\* main keeps the invariant: it starts no thread before the database is open.
LEMMA EngineStep ==
    ASSUME IInv, Engine
    PROVE  IInv'
<1>1. CASE Exit
  <2>1. Die /\ aborted' \in BOOLEAN
    BY <1>1 DEF Exit, IInv, ServiceTypeOK
  <2> QED BY <2>1, DieInv
<1>2. CASE \/ Launch \/ OpenDb \/ StartC2C \/ StartRecaptcha \/ StartMail \/ StartStack
           \/ CloseDb \/ StopC2C \/ StopMail \/ StopStack
  <2>1. UNCHANGED <<db, disk, inTx, clock, pc, local, mailed, acked, stale>>
    BY <1>2 DEF Launch, OpenDb, StartC2C, StartRecaptcha, StartMail, StartStack, CloseDb,
                StopC2C, StopMail, StopStack, Continue, accountVars, tables, requestV, history
  <2>2. clock <= clock'
    BY <2>1, BoundsAssumption DEF IInv, ServiceTypeOK, TypeOK
  <2>3. ServiceTypeOK'
    BY EngineTypes DEF IInv
  <2>4. EngineInv'
    <3>1. CASE Launch
      BY <3>1 DEF Launch, IInv, EngineInv, accountVars, engine, requestV
    <3>2. CASE OpenDb \/ StartRecaptcha \/ StartMail \/ StartStack
      BY <3>2 DEF OpenDb, StartRecaptcha, StartMail, StartStack, Continue,
                  IInv, EngineInv, engine
    <3>3. CASE StartC2C
      BY <3>3 DEF StartC2C, Continue, IInv, EngineInv
    <3>4. CASE CloseDb \/ StopC2C \/ StopMail \/ StopStack
      BY <3>4 DEF CloseDb, StopC2C, StopMail, StopStack, Continue, EngineInv
    <3> QED BY <1>2, <3>1, <3>2, <3>3, <3>4
  <2> QED BY <2>1, <2>2, <2>3, <2>4, QuietInv
<1> QED BY <1>1, <1>2 DEF Engine

\* Time passes.
LEMMA TickStep ==
    ASSUME IInv, Tick, UNCHANGED processV
    PROVE  IInv'
<1>1. UNCHANGED <<db, disk, inTx, dbOpen, serving, pc, local, mailed, acked, stale>>
  BY DEF Tick, tables, engine, requestV, history
<1>2. clock <= clock' /\ clock' \in 0..MaxClock
  BY BoundsAssumption DEF Tick, IInv, ServiceTypeOK, TypeOK
<1>3. ServiceTypeOK'
  BY <1>1, <1>2 DEF Tick, IInv, ServiceTypeOK, TypeOK, requestV, processV
<1>4. EngineInv'
  BY <1>1 DEF IInv, EngineInv, processV
<1> QED BY <1>1, <1>2, <1>3, <1>4, QuietInv

\* Every step keeps the invariant.
LEMMA NextInv == IInv /\ [Next]_vars => IInv'
<1> SUFFICES ASSUME IInv, [Next]_vars PROVE IInv'
  OBVIOUS
<1>1. CASE Engine
  BY <1>1, EngineStep
<1>2. ASSUME NEW t \in Thread, Abort(t) PROVE IInv'
  <2>1. Die /\ aborted' \in BOOLEAN
    BY <1>2 DEF Abort
  <2> QED BY <2>1, DieInv
<1>3. CASE Tick /\ UNCHANGED processV
  BY <1>3, TickStep
<1>4. ASSUME NEW t \in Thread, Request(t), UNCHANGED processV PROVE IInv'
  BY <1>4, RequestInv
<1>5. CASE UNCHANGED vars
  <2>1. UNCHANGED <<db, disk, inTx, clock, pc, local, mailed, acked, stale>> /\ clock <= clock'
    BY <1>5, BoundsAssumption DEF vars, accountVars, tables, requestV, history,
       IInv, ServiceTypeOK, TypeOK
  <2>2. ServiceTypeOK'
    BY <1>5 DEF vars, accountVars, tables, engine, requestV, history, processV,
       IInv, ServiceTypeOK, TypeOK
  <2>3. EngineInv'
    BY <1>5 DEF vars, accountVars, engine, requestV, processV, IInv, EngineInv
  <2> QED BY <2>1, <2>2, <2>3, QuietInv
<1> QED BY <1>1, <1>2, <1>3, <1>4, <1>5 DEF Next

-----------------------------------------------------------------------------
(* The theorems.                                                             *)

\* The first process starts with empty tables and no request.
LEMMA InitInv == Init => IInv
<1> SUFFICES ASSUME Init PROVE IInv
  OBVIOUS
<1>1. ServiceTypeOK
  BY InitTypes
<1>2. TableInv(Empty)
  BY DEF Init, AccountInit, TableInv, Empty, Active, Used
<1>3. /\ TableInv(db) /\ TableInv(disk) /\ SyncInv
      /\ (\A t \in Thread : ThreadInv(t)) /\ EngineInv
  BY <1>2 DEF Init, AccountInit, SyncInv, ThreadInv, EngineInv, ActiveOrStale
<1> QED BY <1>1, <1>3 DEF IInv

\* The inductive invariant holds in every state of every run.
THEOREM Invariance == Spec => []IInv
<1> QED BY InitInv, NextInv, PTL DEF Spec

\* Every variable has its type: no counter leaves its range, no copy of a row is not
\* one, whatever the order of requests, commits and ends of the process.
THEOREM ServiceTypes == Spec => []ServiceTypeOK
<1>1. IInv => ServiceTypeOK
  BY DEF IInv
<1> QED BY <1>1, Invariance, PTL

\* An account is active only if its code was mailed to its address before.
THEOREM ActivationIsProved == Spec => []ActivatedWasMailed
<1>1. IInv => ActivatedWasMailed
  BY DEF IInv, TableInv, Active, Mailed, ActivatedWasMailed
<1> QED BY <1>1, Invariance, PTL

\* What a client was told is done is on the disk, although all threads share one
\* transaction and nobody looks at the result of BEGIN and COMMIT.
THEOREM Durability == Spec => []AcknowledgedIsDurable
<1>1. IInv => AcknowledgedIsDurable
  BY DEF IInv, TableInv, Active, ActiveOrStale, Used, AcknowledgedIsDurable
<1> QED BY <1>1, Invariance, PTL

\* A mailed code lives as long as the mail says, unless its account was written from
\* a copy that was out of date.
THEOREM CodeLifetime == Spec => []MailedCodeLives
<1>1. IInv => MailedCodeLives
  BY DEF IInv, TableInv, Lives, MailedCodeLives
<1> QED BY <1>1, Invariance, PTL

\* A SIP address in the table belongs to an account in the table, without cascades and
\* without foreign keys.
THEOREM SipOwnership == Spec => []SipHasOwner
<1>1. IInv => SipHasOwner
  BY DEF IInv, TableInv, Active, ActiveOrStale, SipHasOwner
<1> QED BY <1>1, Invariance, PTL

\* A request meets a closed database only while the engine stops.
THEOREM ClosedDbOnlyInStop == Spec => []OnlyStopMeetsClosedDb
<1>1. IInv => OnlyStopMeetsClosedDb
  <2> SUFFICES ASSUME IInv, NEW t \in Thread, UsesDb(t), ~dbOpen
               PROVE  main \in {"stopC2C", "stopMail", "stopStack", "exit"}
    BY DEF OnlyStopMeetsClosedDb
  <2>1. pc[t] # "idle"
    BY DEF UsesDb
  <2> QED BY <2>1 DEF IInv, EngineInv, ServiceTypeOK, Main
<1> QED BY <1>1, Invariance, PTL

\* An activation on the disk is undone only by a registration that read the account
\* before it was active: not by a crash, nor by somebody else's commit.
THEOREM ActivationLasts == Spec => OnlyStaleDeactivates
<1> DEFINE Deactivates(i) == /\ disk.account[i].state = "present" /\ disk.account[i].activated
                             /\ ~disk'.account[i].activated
<1>1. ASSUME IInv, [Next]_vars
      PROVE  [\A i \in Id : Deactivates(i) => i \in stale']_accountVars
  <2>1. ASSUME UNCHANGED disk, NEW i \in Id
        PROVE  ~Deactivates(i)
    BY <2>1
  <2>2. CASE Engine
    <3>1. UNCHANGED disk
      BY <2>2 DEF Engine, Launch, Exit, Die, OpenDb, StartC2C, StartRecaptcha, StartMail,
         StartStack, CloseDb, StopC2C, StopMail, StopStack, Continue, accountVars, tables
    <3> QED BY <2>1, <3>1
  <2>3. ASSUME NEW t \in Thread, Abort(t)
        PROVE  \A i \in Id : Deactivates(i) => i \in stale'
    BY <2>1, <2>3 DEF Abort, Die
  <2>4. CASE Tick
    BY <2>1, <2>4 DEF Tick, tables
  <2>5. ASSUME NEW t \in Thread, Request(t), NEW i \in Id, Deactivates(i)
        PROVE  i \in stale'
    <3>1. Forward
      BY <1>1, <2>5, RequestForward
    <3>2. disk' = db'
      BY <2>1, <2>5, <3>1 DEF Forward
    <3>3. Active(disk, i) /\ ~Active(db', i)
      BY <2>5, <3>2 DEF Active
    <3>4. Active(db, i) \/ i \in stale
      BY <1>1, <3>3 DEF IInv, SyncInv, ActiveOrStale
    <3> QED BY <3>1, <3>3, <3>4 DEF Forward, Keeps
  <2>6. CASE UNCHANGED vars
    BY <2>6 DEF vars
  <2> HIDE DEF Deactivates
  <2> QED BY <1>1, <2>2, <2>3, <2>4, <2>5, <2>6 DEF Next
<1>2. IInv /\ [Next]_vars => [\A i \in Id : Deactivates(i) => i \in stale']_accountVars
  BY <1>1
<1> QED BY <1>2, Invariance, PTL DEF Spec, OnlyStaleDeactivates

=============================================================================
