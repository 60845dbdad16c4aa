------------------------------- MODULE Accounts -------------------------------
(***************************************************************************)
(* The click-to-call accounts: the JSON requests of MPC2CTransport (mp_c2c.cc) *)
(* over the tables of MPDbSQLite (db/).  Every transport handles its requests *)
(* on a thread of its own, and the reCAPTCHA transport's thread registers     *)
(* accounts too.  A request reads a row, decides, and writes the whole row    *)
(* back later; nothing is locked in between.                                  *)
(*                                                                         *)
(* All threads share one SQLite connection, hence one transaction.  Their    *)
(* BEGINs and COMMITs are sent without a look at the result: a BEGIN inside   *)
(* another thread's transaction fails and the statement joins it, and a COMMIT *)
(* commits whatever all threads wrote so far.  SQLite itself is external: a   *)
(* statement is atomic, and is on the disk at once when no transaction is open. *)
(*                                                                         *)
(* A row is abstracted to what decides about it.  An account's code and its   *)
(* password are made with it and never change: the code stands for the row.   *)
(* A request with a wrong password token, or for an unknown or inactive       *)
(* account, is refused without a trace.                                      *)
(***************************************************************************)
EXTENDS Naturals

CONSTANTS
    C2CThread,   \* one thread per click-to-call transport
    Recaptcha,   \* the thread of the reCAPTCHA transport
    Email,       \* the addresses that are registered
    MaxId,       \* bound: rows ever inserted in a table
    Lifetime,    \* kZombieMaxLifeTimeExpectancy
    MaxClock,    \* bound: how far the time goes
    KillEvery,   \* kMaxNewAccountBeforeKillingZombies
    MaxRequests  \* bound: requests received

ASSUME ThreadAssumption == Recaptcha \notin C2CThread
ASSUME EmailAssumption == Email # {}
ASSUME BoundsAssumption ==
    /\ MaxId \in Nat /\ Lifetime \in Nat /\ MaxClock \in Nat
    /\ KillEvery \in Nat \ {0} /\ MaxRequests \in Nat

VARIABLES
    db,       \* the three tables, as every thread of the process sees them
    disk,     \* the tables as last committed: what a restart finds
    inTx,     \* a transaction is open on the connection
    dbOpen,   \* MPDb::isOpened
    serving,  \* threads whose transport is started
    count,    \* s_nAccountsCount, modulo KillEvery
    clock,    \* tsk_time_epoch
    pc,       \* [Thread -> Step]: where a thread is in its request
    local,    \* [Thread -> Local]: the request, and the thread's copy of the row
    requests, \* requests received
    mailed,   \* codes sent, and the time of the row they were sent for (history)
    acked,    \* writes reported to the client as done (history)
    stale     \* accounts written from a copy that was out of date (history)

tables   == <<db, disk, inTx>>
history  == <<mailed, acked, stale>>
engine   == <<dbOpen, serving>>
requestV == <<pc, local, requests>>
accountVars == <<tables, engine, count, clock, requestV, history>>

Thread == C2CThread \cup {Recaptcha}
Id     == 1..MaxId
NoId   == 0

RowState == {"unused", "present", "deleted"}  \* AUTOINCREMENT: no id is used twice
Account  == [state : RowState, email : Email, activated : BOOLEAN, epoch : 0..MaxClock]
Sip      == [state : RowState, owner : Id]
Tables   == [account : [Id -> Account], sip : [Id -> Sip], caller : [Id -> RowState]]

Deletion == {"deleteSip", "deleteCaller"}
TokenOp == {"addSip", "addCaller"} \cup Deletion
Op      == {"register", "activate"} \cup TokenOp
Stmt    == {"kill", "insert", "update"} \cup TokenOp
Step    == {"idle", "count", "increment", "select", "begin", "write", "commit", "answer"}
Local   == [op : Op, email : Email, arg : Id \cup {NoId}, stmt : Stmt,
            id : Id \cup {NoId}, wasActive : BOOLEAN, activated : BOOLEAN,
            epoch : 0..MaxClock, ok : BOOLEAN]

TypeOK ==
    /\ db \in Tables /\ disk \in Tables
    /\ inTx \in BOOLEAN /\ dbOpen \in BOOLEAN
    /\ serving \subseteq Thread
    /\ count \in 0..(KillEvery - 1)
    /\ clock \in 0..MaxClock
    /\ pc \in [Thread -> Step]
    /\ local \in [Thread -> Local]
    /\ requests \in 0..MaxRequests
    /\ mailed \subseteq [id : Id, since : 0..MaxClock]
    /\ acked \subseteq {"activated", "sip", "caller"} \X Id
    /\ stale \subseteq Id

AnEmail == CHOOSE e \in Email : TRUE

Empty ==
    [account |-> [i \in Id |->
         [state |-> "unused", email |-> AnEmail, activated |-> FALSE, epoch |-> 0]],
     sip     |-> [i \in Id |-> [state |-> "unused", owner |-> i]],
     caller  |-> [i \in Id |-> "unused"]]

\* The local variables of a thread between two requests.
NoRequest == [op |-> "register", email |-> AnEmail, arg |-> NoId, stmt |-> "kill",
              id |-> NoId, wasActive |-> FALSE, activated |-> FALSE, epoch |-> 0, ok |-> FALSE]

AccountInit ==
    /\ db = Empty /\ disk = Empty /\ inTx = FALSE
    /\ dbOpen = FALSE /\ serving = {}
    /\ count = 0 /\ clock = 0 /\ requests = 0
    /\ pc = [t \in Thread |-> "idle"]
    /\ local = [t \in Thread |-> NoRequest]
    /\ mailed = {} /\ acked = {} /\ stale = {}

Tick ==
    /\ clock < MaxClock
    /\ clock' = clock + 1
    /\ UNCHANGED <<tables, engine, count, requestV, history>>

-----------------------------------------------------------------------------
(* Requests.                                                                 *)

Goto(t, step) == pc' = [pc EXCEPT ![t] = step]

Done(t) == Goto(t, "idle") /\ local' = [local EXCEPT ![t] = NoRequest]

\* A request arrives, or a CAPTCHA that came with one has been verified.  An
\* activation carries a code that was mailed, or a wrong one; the other requests
\* name any row of the table they change.
Receive(t) ==
    /\ t \in serving /\ pc[t] = "idle"
    /\ requests < MaxRequests
    /\ requests' = requests + 1
    /\ \E op \in Op, e \in Email, a \in Id \cup {NoId} :
          /\ t = Recaptcha => op = "register"
          /\ op \in {"register", "addSip", "addCaller"} => a = NoId
          /\ op = "activate" => a = NoId \/ \E m \in mailed : m.id = a
          /\ op \in Deletion => a # NoId
          /\ local' = [local EXCEPT ![t].op = op, ![t].email = e, ![t].arg = a]
          /\ Goto(t, IF op = "register" THEN "count" ELSE "select")
    /\ UNCHANGED <<tables, engine, count, clock, history>>

\* addAccountAndSendActivationMail: every so often, zombies are killed first.
LookAtCount(t) ==
    /\ pc[t] = "count"
    /\ IF count = 0
       THEN local' = [local EXCEPT ![t].stmt = "kill"] /\ Goto(t, "begin")
       ELSE UNCHANGED local /\ Goto(t, "increment")
    /\ UNCHANGED <<tables, engine, count, clock, requests, history>>

\* The counter is static and nothing guards it: two increments may make one.
IncrementCount(t) ==
    /\ pc[t] = "increment"
    /\ \/ count' = (count + 1) % KillEvery
       \/ /\ \E u \in Thread \ {t} : pc[u] = "increment"
          /\ UNCHANGED count
    /\ Goto(t, "select")
    /\ UNCHANGED <<tables, engine, clock, local, requests, history>>

\* selectAccountByEmail.
Found(e) == {i \in Id : db.account[i].state = "present" /\ db.account[i].email = e}

\* The statement is next, with the thread's copy of the row: its account, read
\* without its epoch, which is set to the present.  Deletions are not in a transaction.
Prepare(t, stmt, i, activated) ==
    /\ local' = [local EXCEPT ![t].stmt = stmt, ![t].id = i, ![t].epoch = clock,
                              ![t].wasActive = (i \in Id /\ db.account[i].activated),
                              ![t].activated = activated]
    /\ Goto(t, IF stmt \in Deletion THEN "write" ELSE "begin")
    /\ UNCHANGED <<tables, engine, count, clock, requests, history>>

Selects(t, op) == pc[t] = "select" /\ dbOpen /\ local[t].op \in op

\* Mutant: a registration starts the activation all over again.
ActivationAnew(i) == FALSE

\* What a registration writes back: the row's own activation.
ActivationOf(i) == db.account[i].activated

\* A known address keeps its row and its code; an unknown one gets a new account.
SelectToRegister(t) ==
    /\ Selects(t, {"register"})
    /\ IF Found(local[t].email) = {}
       THEN Prepare(t, "insert", NoId, FALSE)
       ELSE \E i \in Found(local[t].email) : Prepare(t, "update", i, ActivationOf(i))

\* Mutant: any code will do.
AnyCode(t, i) == TRUE

CodeMatches(t, i) == local[t].arg = i

\* The right code, whatever its age, for an account that is not active yet.
SelectToActivate(t) ==
    /\ Selects(t, {"activate"})
    /\ \E i \in Found(local[t].email) :
          /\ CodeMatches(t, i) /\ ~db.account[i].activated
          /\ Prepare(t, "update", i, TRUE)

\* Mutant: the account need not be active.
MayUseAnyAccount(i) == TRUE

MayUse(i) == db.account[i].activated

\* A request about the SIP addresses or the callers of an active account.
SelectForToken(t) ==
    /\ Selects(t, TokenOp)
    /\ \E i \in Found(local[t].email) :
          MayUse(i) /\ Prepare(t, local[t].op, i, TRUE)

\* 404, 403, a wrong code or token, or "Account activated" for an account that
\* was active before: a reply, and nothing is written.
ReplyAtOnce(t) ==
    /\ Selects(t, {"activate"} \cup TokenOp)
    /\ \/ Found(local[t].email) = {}
       \/ local[t].op \in TokenOp
       \/ \E i \in Found(local[t].email) : ~CodeMatches(t, i) \/ db.account[i].activated
    /\ Done(t)
    /\ UNCHANGED <<tables, engine, count, clock, requests, history>>

-----------------------------------------------------------------------------
(* MPDbSQLite: BEGIN, one statement, COMMIT.                                 *)

Begin(t) ==
    /\ pc[t] = "begin" /\ dbOpen
    /\ inTx' = TRUE
    /\ Goto(t, "write")
    /\ UNCHANGED <<db, disk, engine, count, clock, local, requests, history>>

Writes(t, stmt) == pc[t] = "write" /\ dbOpen /\ local[t].stmt = stmt

\* The statement leaves the tables d; outside a transaction it commits itself.
\* i is the row it was about.
Execute(t, d, i, ok) ==
    /\ db' = d
    /\ disk' = IF inTx THEN disk ELSE d
    /\ local' = [local EXCEPT ![t].id = i, ![t].ok = ok]
    /\ Goto(t, IF local[t].stmt \in Deletion THEN "answer" ELSE "commit")
    /\ UNCHANGED <<inTx, engine, count, clock, requests, mailed, acked>>

\* Mutant: kills every inactive account.
ZombieOfAnyAge(a) == a.state = "present" /\ ~a.activated

\* Mutant: kills every old account.
ZombieActiveOrNot(a) == a.state = "present" /\ a.epoch + Lifetime < clock

Zombie(a) == a.state = "present" /\ ~a.activated /\ a.epoch + Lifetime < clock

KillZombies(t) ==
    /\ Writes(t, "kill")
    /\ Execute(t, [db EXCEPT !.account = [i \in Id |->
                      IF Zombie(@[i]) THEN [@[i] EXCEPT !.state = "deleted"] ELSE @[i]]],
               NoId, TRUE)
    /\ UNCHANGED stale

\* A copy is out of date when its row is gone, was activated since, or has been
\* written by a younger copy.
OutOfDate(copy, row) ==
    \/ row.state # "present"
    \/ row.activated /\ ~copy.wasActive /\ ~copy.activated
    \/ copy.epoch < row.epoch

\* The whole copy is written.  That its row is not there any more is no error.
UpdateAccount(t) ==
    LET copy == local[t]
        row  == db.account[copy.id]
    IN  /\ Writes(t, "update")
        /\ Execute(t, [db EXCEPT !.account[copy.id] =
                          IF row.state = "present"
                          THEN [row EXCEPT !.activated = copy.activated, !.epoch = copy.epoch]
                          ELSE row],
                   copy.id, TRUE)
        /\ stale' = IF OutOfDate(copy, row) THEN stale \cup {copy.id} ELSE stale

\* The id an insertion takes: the first that was never used.
FreshId(used) == {i \in Id \ used : 1..(i - 1) \subseteq used}

\* Mutant: the failure is not noticed.
FailureGoesUnnoticed == TRUE

\* The result of an insertion that would make an address appear twice.
DuplicateIsInserted == FALSE

\* The address is unique: of two registrations that both found none, one fails.
InsertAccount(t) ==
    /\ Writes(t, "insert")
    /\ IF Found(local[t].email) = {}
       THEN \E i \in FreshId({j \in Id : db.account[j].state # "unused"}) :
               Execute(t, [db EXCEPT !.account[i] =
                              [state |-> "present", email |-> local[t].email,
                               activated |-> FALSE, epoch |-> local[t].epoch]], i, TRUE)
       ELSE Execute(t, db, NoId, DuplicateIsInserted)
    /\ UNCHANGED stale

InsertSip(t) ==
    /\ Writes(t, "addSip")
    /\ \E i \in FreshId({j \in Id : db.sip[j].state # "unused"}) :
          Execute(t, [db EXCEPT !.sip[i] = [state |-> "present", owner |-> local[t].id]], i, TRUE)
    /\ UNCHANGED stale

InsertCaller(t) ==
    /\ Writes(t, "addCaller")
    /\ \E i \in FreshId({j \in Id : db.caller[j] # "unused"}) :
          Execute(t, [db EXCEPT !.caller[i] = "present"], i, TRUE)
    /\ UNCHANGED stale

Deleted(state) == IF state = "present" THEN "deleted" ELSE state

\* Nothing is cascaded: foreign keys are off unless a connection turns them on.
DeleteSip(t) ==
    /\ Writes(t, "deleteSip")
    /\ Execute(t, [db EXCEPT !.sip[local[t].arg].state = Deleted(@)], local[t].arg, TRUE)
    /\ UNCHANGED stale

DeleteCaller(t) ==
    /\ Writes(t, "deleteCaller")
    /\ Execute(t, [db EXCEPT !.caller[local[t].arg] = Deleted(@)], local[t].arg, TRUE)
    /\ UNCHANGED stale

\* The database was closed under the request: no statement is prepared.
FailToWrite(t) ==
    /\ pc[t] = "write" /\ ~dbOpen
    /\ local' = [local EXCEPT ![t].ok = FALSE]
    /\ Goto(t, IF local[t].stmt \in Deletion THEN "answer" ELSE "commit")
    /\ UNCHANGED <<tables, engine, count, clock, requests, history>>

\* Mutant: leaves the commit to whoever began.
CommitNothing == UNCHANGED <<disk, inTx>>

\* Commits what all threads have written, or fails for want of a transaction.
CommitTransaction == disk' = db /\ inTx' = FALSE

Commit(t) ==
    /\ pc[t] = "commit" /\ dbOpen
    /\ CommitTransaction
    /\ Goto(t, IF local[t].stmt = "kill" THEN "increment" ELSE "answer")
    /\ UNCHANGED <<db, engine, count, clock, local, requests, history>>

-----------------------------------------------------------------------------
(* The answer, and the activation mail of a registration.                    *)

Acknowledged(r) ==
    CASE r.op = "activate"  -> {<<"activated", r.id>>}
      [] r.op = "addSip"    -> {<<"sip", r.id>>}
      [] r.op = "addCaller" -> {<<"caller", r.id>>}
      [] OTHER              -> {}

\* The answer shows the account with its SIP addresses and callers.
Serializes(t) == local[t].ok /\ local[t].op \in TokenOp

Answer(t) ==
    /\ pc[t] = "answer" /\ (Serializes(t) => dbOpen)
    /\ IF local[t].ok
       THEN /\ acked' = acked \cup Acknowledged(local[t])
            /\ mailed' = IF local[t].op = "register"
                         THEN mailed \cup {[id |-> local[t].id, since |-> local[t].epoch]}
                         ELSE mailed
       ELSE UNCHANGED <<acked, mailed>>
    /\ Done(t)
    /\ UNCHANGED <<tables, engine, count, clock, requests, stale>>

Request(t) ==
    \/ Receive(t) \/ LookAtCount(t) \/ IncrementCount(t)
    \/ SelectToRegister(t) \/ SelectToActivate(t) \/ SelectForToken(t) \/ ReplyAtOnce(t)
    \/ Begin(t) \/ KillZombies(t) \/ UpdateAccount(t) \/ InsertAccount(t)
    \/ InsertSip(t) \/ InsertCaller(t) \/ DeleteSip(t) \/ DeleteCaller(t)
    \/ FailToWrite(t) \/ Commit(t) \/ Answer(t)

-----------------------------------------------------------------------------
(* Properties.                                                               *)

\* An account is active only if its own code was mailed to its address before:
\* two concurrent registrations never mail a code that is not in the table, and
\* no later write makes an account active.
ActivatedWasMailed ==
    \A i \in Id : db.account[i].state = "present" /\ db.account[i].activated =>
        \E m \in mailed : m.id = i

\* What a client was told is done survives a crash, whoever opened or closed the
\* transaction it was done in: an account whose code was mailed, an activation,
\* a SIP address or a caller that was added.  An activation may be lost to a
\* registration that writes back a copy it made before.
AcknowledgedIsDurable ==
    /\ \A m \in mailed : disk.account[m.id].state # "unused"
    /\ \A i \in Id :
          /\ <<"activated", i>> \in acked =>
                \/ i \in stale
                \/ disk.account[i].state = "present" /\ disk.account[i].activated
          /\ <<"sip", i>> \in acked => disk.sip[i].state # "unused"
          /\ <<"caller", i>> \in acked => disk.caller[i] # "unused"

\* The mail says the code is valid for two days.  It is, unless a request wrote
\* the account from a copy that was out of date.
MailedCodeLives ==
    \A m \in mailed :
        \/ db.account[m.id].state = "present"
        \/ m.since + Lifetime < clock
        \/ m.id \in stale

\* A SIP address in the table belongs to an account in the table, although nobody
\* checks the foreign key: an account that is active is never killed.
SipHasOwner ==
    \A s \in Id : db.sip[s].state = "present" =>
        \/ db.account[db.sip[s].owner].state = "present"
        \/ db.sip[s].owner \in stale

\* An activation on the disk is undone only by a registration, and one that read
\* the account before it was active.
OnlyStaleDeactivates ==
    [][\A i \in Id :
          /\ disk.account[i].state = "present" /\ disk.account[i].activated
          /\ ~disk'.account[i].activated
          => i \in stale']_accountVars

=============================================================================
