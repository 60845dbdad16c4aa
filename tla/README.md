# A model of webrtc2sip in TLA+

webrtc2sip is a gateway between WebRTC browsers and SIP networks. This directory
holds TLA+ modules that model its own logic (not the vendored sqlite and jsoncpp,
and not the Doubango libraries, which are outside the repository), TLC
configurations that check them on small instances, and proofs that TLAPS checks
for every number of calls, requests, mails and accounts.

    tlc -config MCBridge_safety.cfg MCBridge      # a model-checking run
    tlapm BridgeProofs.tla                        # proofs; likewise the other *Proofs

## 1. The system

| part | state | operations | who calls it |
|---|---|---|---|
| SIP bridge: `MPSipCallback` (mp_wrap.cc), `MPPeer`, `MPSipSessionAV`, the peer table of `MPEngine` | a table of peers, one per bridged call; for each leg a state (None, Connecting, Connected, Terminated), a session, a reference to the opposite session | OnInviteEvent (new call, INFO), OnDialogEvent (connected, terminating, terminated), attachMediaProxyPlugins | the event thread of the SIP stack, under the stack's lock (`stack_callback`, tinywrap/SipStack.cxx) |
| tinywrap | one wrapper object per dialog | call, accept, reject, hangup, sendInfo, getMediaMgr | the bridge |
| Network transport (mp_net_transport.cc) | peers by descriptor, with a mutex, and a receive buffer per peer | start, stop, connectTo, sendData; MPNetTransportCb_Stream | one thread per transport |
| reCAPTCHA (mp_recaptcha.cc) | requests by descriptor, with a mutex of its own | validate; onConnectionStateChanged, onData | click-to-call threads; its own transport's thread |
| Mail (mp_mail.cc) | pending mails, current connection, two flags, one buffer, no mutex | sendMail; onConnectionStateChanged | reCAPTCHA and click-to-call threads; its own transport's thread |
| Click-to-call (mp_c2c.cc) | count of new accounts; the database | JSON requests over HTTP, addAccountAndSendActivationMail | its own transport's threads, reCAPTCHA's thread |
| Accounts (db/mp_db.cc, db/sqlite/mp_db_sqlite.cc) | three tables | add, select, update, delete, killZombieAccounts | click-to-call; OnInviteEvent for click-to-call INVITEs |
| Engine (mp_engine.cc) | the list of transports, the stack, started or not | start, stop, setters | main |
| Media plugins (mp_proxyplugin*.cc, tinywrap Proxy*) | a global map of plugins; each consumer's opposite producer | OnPluginCreated, OnPluginDestroyed, findPlugin, consumeCallback, push | the stack's threads and the media threads |
| Reference counts (mp_object.cc) | a counter per object, no lock | takeRef, releaseRef | every thread |
| Configuration and main (mp_mediaproxy.cc) | none after the start | | |

How they interact. A SIP event reaches `MPSipCallback` from one thread; it answers
with commands to the stack (calls) that produce further events (messages through
the stack's queue). Connecting both legs ties the media plugins of the two
sessions together, which media threads then use. An HTTP request for an account
goes from click-to-call to reCAPTCHA's `validate`; the reply of the verification
service comes back on reCAPTCHA's thread, as `onValidationEvent`, which writes the
account and calls `sendMail`; mails are sent by the caller's thread or, for those
saved before the connection was up, by the mail transport's thread.

What is hard. The bridge: events of the two dialogs interleave in every order, and
the handlers issue commands to dialogs whose state may have changed since the
event was queued. reCAPTCHA: two threads and two tables with two mutexes, keyed by
a descriptor that the system reuses. Mail: two kinds of threads and no lock.
Click-to-call: select-then-update on accounts. Engine: partial failures of start.
Media: use of a plugin that another thread destroys. `PROJECT.json` lists each
hazard at its line, with the properties that cover it, or why none does.

What makes each part correct, in a line: a call is answered only when the callee
answers, and ends at both ends (bridge); every request is verified, and verified
as itself (reCAPTCHA); every saved mail is sent, once, on an authenticated
connection (mail); an account is activated only with its code and its data
survives concurrent requests and crashes (click-to-call); no request meets a
database that is not open (engine); every plugin is kept as long as somebody holds
it, and no longer (media).

## 2. Modules

| module | models | lines |
|---|---|---|
| `TwoLegCall` | what the gateway promises its two endpoints (abstract) | |
| `Bridge` | the SIP bridge, in detail; implements `TwoLegCall` | mp_wrap.cc, mp_engine.cc, mp_peer.*, mp_session*.cc, tinywrap |
| `BridgeProofs` | the theorems about `Bridge` and their proofs | |
| `MCBridge` | instances of `Bridge` | |
| `Recaptcha` | verification of accounts over the network transport | mp_recaptcha.cc, mp_net_transport.cc |
| `RecaptchaProofs` | a verdict goes to the wrong request in one way only | |
| `MailTransport` | the SMTP client over the network transport | mp_mail.cc, mp_net_transport.cc |
| `MailProofs` | what the pending flag says is true | |
| `Accounts` | the account requests over one database connection | mp_c2c.cc, db/ |
| `Service` | `Accounts` in a process that starts, stops and crashes | mp_engine.cc, mp_mediaproxy.cc |
| `ServiceProofs` | the theorems about `Service` | |
| `HttpStream` | the receive buffer of a connection and the parsing loop | mp_net_transport.cc, mp_c2c.cc |
| `HttpProofs` | what the loop does to every stream, however it is cut | |
| `MediaPlugins` | the plugins of a call, its threads and their reference counts | mp_proxyplugin*.cc, mp_wrap.cc, mp_session_av.cc, mp_object.cc, tinywrap |
| `MediaProofs` | the theorems about `MediaPlugins` and their proofs | |
| `MC...` | instances for TLC; `MCBridge`, `MCHttpStream` and `MCMediaPlugins` extend the proofs, whose invariants their runs check | |

`Service` extends `Accounts`: the requests run in the process whose life it adds.
The other modules meet at the calls they stand for: `Accounts.Receive` by the
reCAPTCHA thread is a verdict of `Recaptcha`, its `Answer` of a registration hands
a mail to `MailTransport`, `HttpStream` delivers the requests `Accounts` receives,
and `MediaPlugins.Attach` is what `Bridge` does once per call.

### Bridge

One action is one run of a handler: `stack_callback` takes the stack's lock before
the handler and releases it after, and no other thread writes the variables of the
module. `peers` is `MPEngine::m_Peers`, `legState` the two state fields of
`MPPeer`, `opposite` the sessions whose `m_oSessionOpposite` is set, `attached` the
calls whose plugins were cross-connected. `BridgeCall`, `RefuseCall`, `RejectNull`
and `RelayDigit` are the branches of OnInviteEvent; `OnTerminated`,
`OnLeftConnected` and `OnRightConnected` those of OnDialogEvent; `IgnoreEvent` is
the early return of both for an unknown session. `RejectNull` ends the process: the
branch of mp_wrap.cc:484 rejects through a reference that the session object has
taken over (mp_session.cc:31). No property is about it; all of them hold until then.

External: the stack's dialogs (`dialog`) and its FIFO queue of events (`queue`).
The network moves a dialog at any time (`RemoteInvite`, `RemoteAnswer`,
`RemoteEnd`, `RemoteDigit`) and the event that reports it is delivered later, so a
handler often acts on a dialog that has moved on. `hangup` and `reject` bring a
live dialog to "terminating", reported or not, and `FinishDialog` ends it;
`accept` works only on a dialog that is still ringing. Session ids are taken to be
unique (getId truncates them to 32 bits). Abstracted: the SDP, codecs, routes,
headers, response codes, and the two DTMF modes. Of the click-to-call checks on an
INVITE only their outcome is kept, as the kind of request.

`TwoLegCall` knows, per call, the phase of the caller, the phase of the callee and
whether the callee has picked up. The refinement maps a dialog's state to its
phase. Its safety part says what one step may do to one endpoint (for example: the
caller is answered only after the callee has picked up); its fairness part that a
caller is put through or turned away (`Serve`), that neither side outlives the
other (`Clear`), and that a callee who has picked up hears the caller, or one of
them is gone (`PutThrough`).

### Recaptcha

`validate` is split where the threads can interleave: `connectTo`,
`insertRecaptcha`, `isConnected`, `sendRecaptcha` (which looks the peer up) and
`sendData`. The transport's thread is `OnConnected` and `OnClosed` (the peer
table) each followed by the callback (`SendWhenConnected`, `removeRecaptcha`), and
`OnData`. Each of these makes one access, under its mutex, to the shared tables,
or accesses to fields of its own thread. A reply is "whole", "cut" (its first
piece ends within the content), "headers" (its first piece ends with the headers)
or "length" (has a Content-Length header): the four ways onData can take it. The last
two come to nothing (`NoContent`, `unread`): the length is read and not assigned
(mp_recaptcha.cc:256), so that the reply counts as one without content.

A socket's descriptor is free as soon as the socket is closed, and `connectTo` may
return any descriptor that no open socket has. The code has nothing against a reuse
while something of the former request is left (`Remembered`: an entry of the table, a
`validate` under way, an event not handled yet); the history variable `reopened` says
that it happened.

The requests of one transport's thread are made one after the other; concurrent
ones stand for several click-to-call transports, which share the verification.

### MailTransport

No field of the transport is guarded, so each access is a step: `LookAtConnection`,
`SaveMail`, `LookAtConnectToPending`, `ConnectTo` for a mail that is saved;
`LookAtConnection`, `ComposeMail`, `WriteMail` for one that is sent at once;
`OnConnected`, `StateConnected`, then `DrainNext` and `DrainWrite` for each saved
mail, on the transport's thread. The buffer is shared, as in the code. Accesses to
one field or container are atomic in the model: a torn `std::list` is undefined
behaviour which the model leaves out. A call of `sendMail` opens one connection at
most, so connections are named by mails.

### Accounts

The tables are two records of functions: `db`, as the process sees them, and
`disk`, as last committed. A request is a thread with a program counter (`pc`) and
the locals of its handler (`local`): the request, and the copy of the row that it
read. The steps are those at which threads can interleave: the look at the counter
of new accounts and its increment (`LookAtCount`, `IncrementCount`: a static
without a lock, so that an increment may be lost), the select (`SelectToRegister`,
`SelectToActivate`, `SelectForToken`, and `ReplyAtOnce` for the refusals), then
`Begin`, one statement (`KillZombies`, `UpdateAccount`, `InsertAccount`,
`InsertSip`, `InsertCaller`, `DeleteSip`, `DeleteCaller`), `Commit` and `Answer`.
All threads share one connection, so one transaction (`inTx`): a BEGIN inside it
fails unnoticed, a COMMIT commits for everybody. Deletions have no transaction of
their own. An account's code and password are made once, with the row, so that the
row's id stands for them; ids are never used twice (AUTOINCREMENT), which `MaxId`
bounds. The copy that a request writes back carries the epoch of the request, as in
the code, where the read of the row does not set it.

Three variables are history: `mailed`, the codes that were sent; `acked`, the writes
that a client was told are done; and `stale`, the accounts written from a copy that
was out of date (its row was gone, had been activated, or had been written by a
younger copy). `stale` names the one way in which concurrent requests lose
something: each property that is true only without it says so.

### Service

`main` walks through MPEngine::start (`OpenDb`, `StartC2C` once per transport,
`StartRecaptcha`, `StartMail`, `StartStack`), and through stop after "quit"
(`CloseDb`, `StopC2C`, which joins the thread, `StopMail`, `StopStack`). A step of
start that fails makes main return, which is `Exit`, as a crash is: `db` becomes
`disk`, the threads and their memory are gone, and `Launch` starts the next process.
`Abort` is the assertion `isOpened()` of the database's operations.

### HttpStream

The stream is a sequence of units, the pieces of a request that the loop of onData
distinguishes. `Parse` is the loop: a recursive function of the units consumed so
far, each value of which is one `Pass` of the code after the label parse_buffer, with the loop's own arithmetic (`GoesOn` subtracts from the size of the last
pass what all passes consumed, and wraps below zero), the end of a chunked request
(`Bitten`: the number of consumed bytes is set from a boolean, so that one byte is
consumed and the rest is parsed again as an unknown method), and malformed headers,
whose content stays. `Data` and `Overflow` are the two branches of the transport's
data event.

`haveAllContent` is set to false before that label (mp_c2c.cc:746), and the goto (890)
does not reset it: in a later pass it still holds for the request before
(`HaveAllContent`). A chunked request whose end has not arrived, met there, passes the
test at 853 and is analysed with the chunks that are there (`AnalysedEarly`; the
history variable `early`). Nothing of it is consumed, so it is analysed once more when
its end has come, which puts it into `handled` as well. If the comparison at 887 holds
too, the next pass begins at the same place with the same flag: onData never returns
(`endless`), and nothing arrives on this transport any more. A pass that repeats itself
is one entry of `early`.

### MediaPlugins

`Program` is the order in which Doubango creates, starts, stops and destroys the
plugins of a leg; the SIP thread's `Finds` and `Links` are attachMediaProxyPlugins.
OnPluginDestroyed takes a reference, erases the map's, and releases its own
(`CopyPlugin`, `ErasePlugin`, `ReleasePlugin`). attachMediaProxyPlugins drops what it
found in the reverse order of the declarations (`Declared`, mp_wrap.cc:61-66); the
untyped wrapper of mp_wrap.cc:61, a second reference to the plugin found last, is left
out. The media thread checks and pushes
in two steps (`Consume`, `Push`), and the RTCP callback tests the opposite session
and uses it in two (`TestSession`, `SendRtcp`). Data races are undefined behaviour:
where two accesses can overlap, the model adds their possible outcomes (an update
of a count is lost, a search misses, an object that is being freed is used), and
`races` records that it happened. The properties say what is true as long as it
has not.

## 3. Model-checking runs

| run | instance | shows |
|---|---|---|
| bridge_safety | 2 calls, all kinds of INVITE, `call()` may fail, media may be gone, 1 digit per endpoint, symmetry on calls (1.09 million states) | the state and step properties, and the inductive invariant `IInv` |
| bridge_live | 2 calls, fairness (20 thousand) | `CallIsCleared`; `KeepsPromise`: `Bridge` implements `TwoLegCall` with its fairness |
| bridge_callfails | 1 call, `call()` may fail | a caller left ringing (finding) |
| recaptcha_ok | 2 requests, 2 descriptors, reused at any time, failing connections, every framing (152 thousand) | only an early reuse credits a verdict to the wrong request; until then no request or reply is lost |
| recaptcha_reuse | 2 requests, 1 descriptor | a stale request credited with another's verdict (finding) |
| mail_ok | 3 mails, failing attempts, server closes (420 thousand) | only a failed attempt or a failed write leaves a mail behind |
| mail_auth | 2 mails, no failure | credentials sent twice, or not at all (finding) |
| service_ok | one click-to-call thread and the reCAPTCHA thread, 1 address, 4 requests, 2 launches (1.69 million) | activation, durability, lifetime and ownership over every interleaving, stop, crash and restart, and `IInv` of the proofs |
| service_stop | the same with 2 requests, 1 launch | the assertion that the database is open fails (finding) |
| http_ok | 4 requests of 4 kinds, cut in every way (10.3 thousand) | order, loss and waiting of requests, what the stale flag can do, and `IInv` of the proofs |
| http_early | 2 requests | a chunked request is analysed before its end has arrived (finding) |
| media_ok | one call, its left leg sends RTCP reports (2.3 million) | reference counts, races, leaks, and `IInv` of the proofs |

Bounds. Bridge: calls interact only through the event queue and the table, so two of
them show every interference a third could; `MaxDigits` caps the digits of an
endpoint. Recaptcha: two requests are needed for a verdict to go to the wrong one.
Mail: three mails let a second caller race the first one's connection and a third
find the result. Service: two threads with one address meet on one row, the only
place where requests interfere; four requests are a registration, an activation,
an addition and one more registration or deletion; `MaxId` 2 lets an address get a
second account after its first was killed; `Lifetime` 1 and `MaxClock` 2 let an
account expire and be killed, `KillEvery` 2 makes the kill happen at every second
registration, and lets one increment be lost; `MaxLaunch` 2 is a crash and a
restart. HttpStream: `ChunckMin` and `BufferMax` keep the proportion of the code's
constants to a request (a small request is shorter than the first, the limit is a
few requests: a post, an options and a chunked request that is not complete fit);
four requests let one of each kind, or three in a row, be followed by another. MediaPlugins: one call, since plugins of different calls share only the map
and its mutex; one of audio and video, which do the same. `Bridge` connects the two
legs of a call once, so does `Attach`. The module has no other parameter than who
sends reports. `CHECK_DEADLOCK FALSE` everywhere: once all calls (requests, mails,
launches) are done, nothing is left to do. Symmetry is used in bridge_safety, which
checks no liveness.

Switches. `CallMayFail`, `Requests` and `MediaMayBeGone` separate the findings
from the rest: bridge_safety has them all on; bridge_live has `CallMayFail` off
and no unserviceable INVITE, since a failed `call()` or a crash breaks its
properties. In recaptcha_ok, mail_ok, service_ok, http_ok and media_ok everything is
on, and the properties name their excuse.

Excuses. Where the code has nothing against a hazard, the model lets it happen, a
history variable records it, and a property says what holds until then, which is that
nothing else leads there. Each of them leaves a hazard without a guarantee:

| excuse | what then goes wrong | properties |
|---|---|---|
| `reopened` | a request is credited with the reply to another (finding 2) | `MisledOnlyByEarlyReuse`, `RequestIsSent`, `ReplyIsUsed` |
| a failed attempt to connect | the pending flag stays up and no mail is sent any more (mp_mail.cc:124) | `StuckOnlyAfterFailure` |
| a failed write of a mail | the mail is lost, and those behind it wait (mp_mail.cc:243) | `SavedMailIsSent` |
| `stale`, a row written from a copy that is out of date | the lost update of mp_c2c.cc:590: an activation or a new code is undone | `OnlyStaleDeactivates`, `MailedCodeLives`, `SipHasOwner` |
| `races`, accesses that overlapped (session, map, push, count) | a count is wrong, a plugin leaks or is used after it was freed | `CountIsHolders`, `CrashNeedsRace`, `NothingLeaks` |
| a chunked request behind another, in one event | it is analysed twice, or for ever (finding 3) | `OnceAndInOrder`, `WaitsForOneEvent` |
| a malformed request, a buffer that was emptied | requests are lost | `NothingLost`, `LeftOnlyBehindAnother` |

So the runs of the media, for one, do not show that a call survives the overlaps of
mp_session_av.cc:74, mp_proxyplugin_mgr.h:51 or mp_proxyplugin_consumer_audio.cc:85
(it does not), but that the order of calls which do not overlap is harmless, and that
plugins that are connected while a leg is being destroyed are let go in the end.

Fairness. The event thread keeps delivering (`WF(Dispatch)`, `WF(Transport)`): it
is a loop that blocks only on an empty queue. A dialog being closed ends
(`WF(FinishDialog)`): SIP's transaction timers bound the wait. The threads of
`validate` and `sendMail` run on, and a connection attempt is established or fails. Nobody is
obliged to call, answer, hang up or send a digit; the verification service answers
what it has received (`WF(Reply)`). `Service`, `HttpStream` and `MediaPlugins` state
no fairness: their properties are about safety, and the process may end at any time.

The properties, by module:

- Bridge. `AcceptFollowsAnswer`, `HangUpReachesOtherLeg`, `NoOrphanDialog`,
  `NoReferenceCycle`, `MissedAttachMeansEnd` (the handler's comment that "dialog
  terminated will be called"), `AttachNeedsBothAnswers`,
  `TerminatedIsFinal`, `StepsArePromised`, `CallIsCleared`, `KeepsPromise`.
  `DigitsNotDuplicated` is only proved.
- Recaptcha. `MisledOnlyByEarlyReuse`, `RequestIsSent`, `ReplyIsUsed`,
  `OnlyGenuineAccepted` (violated).
- MailTransport. `StuckOnlyAfterFailure`, `SavedMailIsSent`,
  `AuthenticatesOnce` (violated). `StuckOnlyAfterFailure` excuses what the code
  does: after an attempt that fails, `m_bConnectToPending` stays up
  (mp_mail.cc:126), mails are saved and no connection is opened any more.
- Accounts and Service. `ActivatedWasMailed`, `AcknowledgedIsDurable`,
  `MailedCodeLives` (the mail's "valid for 2 days"), `SipHasOwner`,
  `OnlyStaleDeactivates`, `OnlyStopMeetsClosedDb`, `DbOpenWhenUsed` (violated).
- HttpStream. `OnceAndInOrder` (of the requests that are all there, and, apart, of
  those analysed before), `EarlyBehindAnother` (where the stale flag bites, and that a
  loop without end is a case of it), `NothingLost` (its exceptions are the requests
  behind a malformed one and a buffer that was emptied), `WaitsForOneEvent` and
  `LeftOnlyBehindAnother` (what the wrapped subtraction comes to: a request may wait
  for the next data, and not longer, as long as there is a next event),
  `OnlyWholeAnalysed` (violated).
- MediaPlugins. `CountIsHolders`, `CrashNeedsRace`, `NothingLeaks`,
  `PushBeginsInTime`.

## 4. Findings

1. mp_wrap.cc:473 ignores the result of `call()`.
2. mp_recaptcha.cc:138 keeps the request of a dead connection for the next one
   with the same descriptor.
3. mp_c2c.cc:853 takes a chunked request for complete because the one before it was
   (746, 890): it is analysed with part of its content, and again later, or for ever.
4. mp_mail.cc:249 clears the authentication flag too late for a concurrent send,
   and per transport where it should be per connection.
5. mp_engine.cc:650 closes the database under the requests that use it.

Each is a run that finds a violation, with the line of the code that promises
otherwise quoted in `PROJECT.json`. Three more observations contradict no document
and have no run: the rejection through a null reference (mp_wrap.cc:484, see
Bridge), the pending flag that a failed attempt leaves up (mp_mail.cc:126), and the
content length of the verification's reply, read and not assigned
(mp_recaptcha.cc:256, see Recaptcha).

## 5. Proofs

Everything below holds for every value of the constants, with the named assumptions
of the modules, which TLC evaluates in the runs.

### BridgeProofs

`Spec => []P` for the type invariant and for `AcceptFollowsAnswer`,
`HangUpReachesOtherLeg`, `NoOrphanDialog`, `NoReferenceCycle`,
`MissedAttachMeansEnd`, `AttachNeedsBothAnswers` and `DigitsNotDuplicated`, the
action property `TerminatedIsFinal`, and `Refinement`: the safety part of `TwoLegCall`.

None of these is inductive: each depends on what is still in the queue. The
inductive invariant `IInv` adds that

- `EventInv`: a report in the queue implies how far its dialog and its leg have
  come: its dialog has left idle, a "newcall" is of a left leg with no state yet, a
  "connected" is of an answered dialog whose leg is not Terminated, and the report
  of an end is of a dialog that is over;
- `Ordered`: no "connected" waits behind the end of its session, and no "newcall"
  behind anything of its session (`Clash`);
- `LegInv`: Connected means answered, Terminated means a dialog that is over, and
  only a leg between the two holds a reference to its opposite;
- `CallInv`: the two legs of a call get their states together, before the callee
  is rung, and what a call in the table, and one that has left it, looks like;
- `EndInv`: a bridged dialog that has ended, and whose leg is not Terminated yet,
  still has its "terminated" report in the queue. This is what proves
  `MissedAttachMeansEnd`;
- `AttachInv`: two Connected legs that are not attached mean that the right dialog
  has ended;

and the properties `AcceptFollowsAnswer`, `HangUpReachesOtherLeg` and
`AttachNeedsBothAnswers`, which are preserved only together with the above.

The module has one lemma per action (`RemoteInviteIInv` ... `OnlyQueueIInv`),
`NextIInv` joins them, and `Agreement` concludes. The refinement is proved step by
step from `IInv` (`StepIsPromised`): an action moves one endpoint of one call by a
step of `TwoLegCall`, or none. bridge_safety checks `IInv` with TLC too.

Digits need an account of their own, beside `IInv`: `Paid(s)`, the digits of s that
were relayed and those that wait in the queue are together no more than those it
sent. Those that wait are counted as the finite set of their places (`DigitsAt`), so
that no induction over the queue is needed: a report adds a place at its end
(`DigitsSignalled`), a delivery takes the first and moves the others by one, a
bijection (`DigitsDelivered`). An event is delivered once, so `NextPaid` follows.

### ServiceProofs

Every property of service_ok. A crash may come between any two steps and throws
away an open transaction, and any thread may commit it, so the invariant must not
depend on which of the two tables survives. `IInv` is built accordingly:

- `TableInv(d)`, true of `db` and of `disk`: what is active was mailed, what was
  acknowledged or mailed is there, a SIP address belongs to an active account
  (`stale` apart), and a mailed code lives (`Lives`: its account is there, and active
  or at least as young as the mail, or its time is over);
- `SyncInv`: without a transaction the two are the same; with one, what is active on
  the disk is active in memory, or stale;
- `ThreadInv`: a thread that is about to write knows that its row was used before,
  that an active copy is of a mailed account, and, for a SIP address, that the
  account is active (`Intent`); one that is about to commit knows what it wrote, in
  memory, and one that is about to answer, on the disk too (`Effect`);
- `EngineInv`: no thread serves before the database was opened.

One lemma per statement shows that it keeps what the invariant needs (`Keeps`, for
the one that writes a copy back by way of its row, `KeepsRow`);
`RequestForward` makes every step of a request a `Forward` step, of which
`DataKept` and `ThreadKept` prove the tables and all other threads safe;
`RequestOwn` is about the thread that moves, `AnswerData` about what becomes
acknowledged, `DieInv` about the end of a process, `EngineStep` about main.

### RecaptchaProofs

`MisledOnlyByEarlyReuse`, of every behaviour of `Spec`, whatever descriptors are reused
and whichever connections fail (`VerdictsAreOwn`). `IInv` is the type invariant and,
until `reopened`, `Own`: of two requests that had the same descriptor one is `Done`
(returned, its connection closed, not in the table; `OwnFd`), the table has a request
under its own descriptor (`TableInv`), a connection carries the request it was opened
for (`HeardInv`), and a success is reported on a descriptor that a genuine request had
last (`ReplyInv`, `LastHad`). `connectTo` is the step that needs `~reopened`: what
`Remembered` excludes is what keeps a former holder of the descriptor `Done`.
`OwnConnections` says that `IInv` is an invariant.

### MailProofs

`StuckOnlyAfterFailure`. The invariant adds `NotOpenedYet`: a call of sendMail opens
its connection once, so that a failure is not forgotten.

### HttpProofs

Every property of http_ok, for any number of requests, any cut into events and any
size of the buffer and of kStreamChunckMinSize. `IInv` says that

- the buffer is the piece of the stream that begins at `Consumed` and ends with the
  last unit that arrived (`Cut`), but for a first unit that may be what is left of a
  chunked request (`Stub`);
- `handled` increases, and each request in it is begun (`Begun`): it starts before
  `Consumed`, or is that stub;
- `early` increases, and each request in it is chunked and starts at `Consumed` or
  before (`Reached`);
- unless the buffer was cleared once, `Consumed` is a place where the loop may stop
  (`Position`: the end of a request, the content that a malformed one leaves, a place
  in a chunked request after its first unit is gone), and every request begun was
  analysed, or is `Spoiled` by a malformed one before it.

`OnceAndInOrder` is kept even after the buffer was cleared: what arrives later begins
after all that was analysed. `Mark` is the first place where a request may begin that
is not begun; an outcome of the loop is `Good` if it only moves the place forward,
analyses requests between the two marks, in order, and leaves out none that is not
spoiled; and if it analysed a request early, that one is left in front, `Unfinished`.
One lemma shows it per branch of a pass (`Stays`, `Skips`,
`ChunkedReaches`, `PlainReaches`), `PassReaches` for a pass, and `ParseReaches` for
the loop. `WaitsForOneEvent` follows from what a pass does where a whole request
stands (`AbleIsAnalysed`), `LeftOnlyBehindAnother` from `LeftBehind`: the loop stops at
such a place only when `GoesOn` is false, which, without wrap, means that little is left.
`EarlyOnlyBehindAnother` follows from `EarlyIsUnfinished` (what an early analysis leaves)
and `EarlyIsBehind` (a pass that begins with the flag comes after an analysed request).
`WaitsForOneEvent` says nothing once the loop is endless: no event comes.

The induction over the passes, and those over the stream, cannot cite the library's
induction theorems, which take an operator as a parameter. Each is made by hand from
`Least`, a set of naturals that is not empty has a least element (from the
well-foundedness of <): the set of the distances to the end at which the claim fails
has no least element. That the recursive functions exist (`ParseExists`,
`FlattenExists`) is shown in the same way, as is the length and the place of every
request in the stream (`StreamFacts`).

### MediaProofs

Every property of media_ok, whichever legs send reports. The proof says where
things are from the places of the threads alone:

- `Placed` (`OwnerInv`): the step that a leg's media thread is at says which of its
  plugins are in the list, in the map and started; `ValidInv`: a plugin is valid
  exactly while it is in the map; `RtpInv`: the RTP thread works only between start
  and stop;
- `SipInv`: the step that the SIP thread is at says which plugins it may hold and
  which legs may be connected;
- `CountInv`: while no two updates of a count have overlapped, each count is the
  number of holders, a connected consumer is there, and stays connected while media are
  on their way through it;
- `RtcpInv` and `EndInv`: without a race a report goes only through a session that
  knows the other, and a crash without an overlap of counts is not the end of a call;

and the property `CrashNeedsRace`.

A release is the hard step, since the last reference to a consumer releases the
producer it is connected with: `ReleaseFacts` says what it does to every count,
`ReleaseCountInv` that it keeps `CountInv` whoever of the holders it is; the
actions that release (`ErasePlugin`, `ReleasePlugin`, `DropPlugin`) follow.
`PushBeginsInTime` is an action property, from `OwnerInv` and `ValidInv`.

### Only model-checked

`CallIsCleared`, the fairness part of `KeepsPromise`, `RequestIsSent`, `ReplyIsUsed`
and `SavedMailIsSent`: liveness under fairness is out of the prover's reach. Every
other property of a run that passes has a theorem.

## 6. Not modelled

- The configuration file and the setters of the engine: they run once, in sequence,
  before anything else does. The branches that a failed step of start takes inside
  MPEngine (transports left running, the mutex left locked) end in main's exit,
  which `Service` has.
- The texts of SIP, SDP, HTTP, JSON and mails: libraries and formatting. What they
  lead to is a choice in the models. The test of a connection's origin against the
  configured domain and the certificates are of this kind.
- Of the plugins: prepare and pause, which set the format of the media and flags that no
  compiled code reads; the pull interface, which the
  gateway does not use; the timer of the audio producer.
- SQLite, jsoncpp (vendored) and Doubango (not in the tree): external. So are
  statements that are never finalized (mp_db_sqlite.cc:299), whose effect is in
  SQLite's memory, and the time for which a database stays busy.
- OnRegistrationEvent, which accepts every REGISTER and keeps nothing.
