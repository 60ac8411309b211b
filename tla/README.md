# KISY Messenger: specifications

TLA+ models of the parts of KISY whose correctness depends on the order in which
goroutines, replicas, database transactions, Redis commands and browser callbacks
run. Every definition is translated from the source under `src/`; `PROJECT.json`
gives the lines behind each one. TLC checks small instances, TLAPS proves the most
important safety properties for all values of the constants.

## The system

A Go backend of several replicas (`backend/internal/*`, wired in
`backend/cmd/server`) over Postgres and Redis, a React app
(`frontend/src`) in the browser and, through Capacitor, on Android.

| Part | State | What changes it | Why it is hard |
|---|---|---|---|
| Voice calls (`calls`) | call key and busy markers in Redis, journal row, ring timers | invite, answer, reject, cancel, hangup, timeout, last socket lost | each handler is a chain of separate round trips; timers live in the process |
| Moderation (`moderation`, `groups`, `users`) | sanctions, `deleted_at`, messages | warn, mute, delete, revoke, restore, purge, hard delete, orphaned group | transactions of CEO, founder and worker; a restore window |
| Scheduled messages (`scheduled`, `messages`, `attachments`) | rows, messages, uploads | schedule, update, cancel, the worker of each replica, reaper | exactly-once sending in batches with crashes |
| Presence (`ws/hub.go`) | a counter per user with a lifetime | connect, disconnect, ping tick | several replicas, one Redis command at a time |
| Socket sessions (`ws/client.go`, `inbound.go`, `auth`, `admin`) | session rows, sockets, kicks on their way | sign-in, sign-out, password change, kick, re-checks | kicks are published once and may be lost |
| Connection caps (`ws/connlimit.go`) | sorted sets per account and address | register, evict, heartbeat, close | every replica evicts on its own view |
| Token rotation (`auth`, `shared/api/client.ts`) | session row, token held by the client | refresh, sign-out | an exchange has two ends, and either may fail |
| Socket client (`shared/ws/client.ts`) | socket, queue, timers, exchange under way | connect, ensureConnected, send, disconnect, callbacks | callbacks arrive in any order |
| MLS group of a private chat (`e2ee`, `entities/e2ee`) | key packages, epoch, handshake feed, welcomes, group state per device | start of the app, first send, a new device, joining, catching up | taking an epoch, publishing, inviting and saving are separate steps, on several devices at once |
| Messages of a private chat (`entities/e2ee/chats.ts`, `entities/message`, `app/useRealtime.ts`) | ciphertexts on the server, texts on the device, the list on the screen | send, forward, schedule, socket events, loads, expiry | a text can be decrypted once, and a sender cannot decrypt its own; handlers wait in the middle |
| Call screen (`features/call/useCall.ts`) | session, microphone, connection, ringtone, native decision | buttons, socket events, timers, WebRTC, lock screen | `startCall`, `accept` and `resumePending` wait while the others run |
| Uploads, quota, polls, boards | rows and stored objects | requests and reapers | see *Not modelled* |

The parts meet in a few places: the last socket lost (Presence) runs the disconnect
hook of Calls; a revoked session (Refresh, `auth`) kicks sockets (Sockets), and the
client that loses its socket (WsClient) renews its token (Refresh) before it dials;
sending a scheduled message goes through `messages.SendTx`, `attachments.Link` and the
gates of groups and blocks. The call screen (CallScreen) is the other end of Calls; the
private chat (Feed) reads and writes under the group that Group builds. `PROJECT.json` lists all components, modelled or not,
and the hazards found while reading, each with the properties that would notice.

## Modules

Each component has a module `X` (the specification and its properties), `MCX`
(definitions for TLC) and one or more `.cfg`. Operators named as mutants in comments
are deliberately wrong variants, used to test that a property can fail.

**Calls.** A *job* is a goroutine inside `calls.Service`. One step is one round trip to
Redis or Postgres with the events published before the next one; everything a
goroutine remembers across steps (`seen`, `mark`) is in its record, so a copy can be
stale. `onInvite … Announce` is the invite, `AnswerGet, MarkGet, MarkSet` the
answer, `TerminateGet` reject, cancel and hangup, `RingTimer/onRingTimeout` the
timer, `Disconnect…` the presence sink, and `finalize, DeleteGet, Delete` the end
they share. `Faults` turns on Redis errors, database errors, crashes and
reconnects. `Crash(ps, ts, us)` is the death of one replica: it takes any of the goroutines
and armed timers and any users' last sockets, the latter without a disconnect hook. Two
variables are history. `acts` has the frames received and the sockets lost, `slip`
what went past the checks of the code, by call: invites that *crossed*, a check that Redis left
*blind*, a call that was *unmarked* by a goroutine that meant another, a *late* answer, an end
that came *early*, an *orphan* whose process died. ICE relays and queries change nothing and are
left out.

**Moderation.** One group. A request that takes the row `FOR UPDATE` holds `lock`; the
clock a request read at its start is in its record. Issue is
`IssueBegin, IssueLock, IssueCount, IssueCommit`; Restore, Revoke, the purge worker
(`PurgeList, PurgeGroup`), the hard delete of `groups.Service`
(`DeleteGet, DeleteCheck, DeleteRows`) and the orphaning of a deleted account's group
are the others. `SlowTx` is the set of requests inside which the clock may pass a boundary. The
history `crossed` records that the worker listed the group while a restore of it was under way.

**Scheduled** with **Outbox.** Workers claim due rows `FOR UPDATE SKIP LOCKED`; what a
worker writes is in its record until `Commit`. A pass is claim, check, send per row,
commit, deliver. `Schedule` and `Update` are two-step requests, `Cancel` one.
`Outbox` is what the sender is promised: a row is pending, edited, dropped, or
settled once with the content it then had.

**Presence.** One user's counter. Each of INCR, EXPIRE, DECR, DEL, the offline sink
and the publication is a step. The history `past` records which kinds of trouble have
happened: a connect and a disconnect that *met*, a death that *tore* a sequence of commands,
a Redis *error*. `bare` is TRUE while a key has no lifetime because EXPIRE or DEL failed or was
not reached, until a ping tick makes up for it.

**Sockets.** Sessions of one account and their sockets: handshake (`Authenticate`,
`addClient`), the kick, the periodic and the inbound re-check, revocation by
sign-out, password change, account block and expiry. Ages are counted in ticks.

**ConnCaps.** Registration, eviction one member at a time, heartbeat, close, death. The
history `crossed` records that a socket registered after as many newer ones as a cap allows.

**Refresh.** One session and its client, a browser with several tabs or the native app:
`refreshSession` in the client, `GetByID, Revoke, Rotate` on the server, `Receive` back in the
client, with rate limits, database errors and lost requests and answers. A session may expire
during an exchange, which then extends it again; one that was ended stays so. The history `calm`
is TRUE while no two tabs have renewed at once and no answer was lost, `limited` once a
native exchange was turned away by a rate limit.

**WsClient.** The class with its event loop: timers (`dials`), exchanges
(`renewing`), sockets whose callbacks may be detached, the queue. Delays have no
length. A frame may be sent after `disconnect` and then waits in the queue. The history `hasty`
records that the app dialled while a reconnect was pending.

**Group.** The MLS group of one private chat on every device of both users, and the
server's epoch row, handshake feed, welcomes and key packages. A group state is the
sequence of the commits that made it, so its length is its epoch. `bootstrap`,
`topUpKeyPackages` and `uploadKeyPackages` are the start of the app; `initiateChat,
claimBoth, PublishCommit, InsertCommit, PublishWelcome, saveState` the first send,
`addDeviceToChat` the same for a new device; `joinFromWelcome, dropKeyPackage,
unlistKeyPackage, ackWelcome` joining; `catchUpHandshake, catchUpFrame, catchUpSave`
catching up. `withChatLock` is `op`: one operation per device. A page may be closed
(`die`) or a request fail (`fail`) at every step, and a commit whose sender gave up
waiting may still arrive (`lateCommit`). MLS itself is external: a commit applies to
the state it was made from and to no other. History: `line` is the newest state let
through, `cut` the devices cut off midway, `clash` those whose pool index was
overwritten.

**Feed.** One private chat on one device. The server is a list of messages that are
deleted or expire, some by a timer set after they were sent, and the events it sends. The
device keeps texts before a message has an id (`early`: `ct/`, `sched/`) and after (`plain`:
`msg/`; `stamped` those kept with a time). The MLS key of a message is
used once (`spent`); `Window` is the number of skipped keys the library retains. A send
is `handleSend, cacheOutgoingPlaintext, post, answered, adoptOutgoingPut,
adoptOutgoingDrop, onSuccess`; a forward or a scheduled send `startOther, post,
keepOther`; an event `messageCreated` or `messageDeleted` and then the hydration
`readCached, readEarly, adoptPut, decryptOnce, decryptPut`; a load `Reload,
catchUpChat, decryptNext, decryptKeep, caughtUp, fetchPage` and the same hydration. A catch-up
walks back through `MaxCatchUp` messages at most (400 in the code).
`sweepExpiredPlaintext` runs at any time. Faults are a killed app, a lost request
or answer, a gap of the socket and a reload. History: `askew` (bubbles two handlers crossed
over), `lost` and `kept` (texts lost or kept at the known gaps), `doubt`.

**CallScreen.** The hook `useCall` on one phone. A run of `startCall` or `accept` is an
*attempt*; its microphone and its connection are named after it. What JavaScript does
between two awaits is one step: `startCall, startMic, startIce, startOffer`,
`beginAccept, acceptMic, acceptIce, acceptAnswer`, `pickUp, resumePending,
applyNativeDecision, answerRest`. The server, the peer, WebRTC and the native screen
are modelled from how the hook uses them. The history `slip` names the ways
past the hook's guards that are listed under *Where the code's promises stop*, `wanted` the
calls the user asked to answer.

## Runs

| Run | Bounds | Checks |
|---|---|---|
| `calls` | 3 users, 2 calls or 3 between the same two, 2 goroutines, reconnects | two live calls share a user only where something slipped past the busy check (`OneLiveCall`) |
| `calls_live` | 2 users with push, 1 call, 2 goroutines, 2 acts, database errors, reconnects, a replica that may die | the journal never invents an act; a missed call was not answered; "over" is the last word; caller and callee hear that a call is over (`BothHear`) |
| `call_screen` | 2 incoming calls (1 pushed) and 1 outgoing, of which 2 take place, 2 attempts, 1 wake-up, 1 tap | a microphone belongs to the call on the screen; only wanted calls are answered; the server is told; no call hangs |
| `group` | 2 devices of one user, 1 of the other, 2 packages each, 1 lost request or closed page | no fork; devices catch up; nobody added is left out; packages open |
| `feed` | 1 message of every kind, 3 of the other side that come in order, 3 sent in all (1 own), 1 that goes, a catch-up of 2, 1 load, 1 fault | own and foreign texts kept; one bubble per message; the list mirrors the server; deleted texts forgotten |
| `moderation` | 4 sanctions, 2 requests, limit 2, window 1, mutes of length 0 and 1, all transactions slow | warning limit, single live mute, deletion on record, restored whole, restorable in its window |
| `scheduled` | 2 rows, 1 upload, 2 workers, 1 request, 1 fault, all gates, one closure | delivered once; an upload in one message; implements `Outbox`; what is due is handled |
| `presence` | 3 sockets, lifetime 3 pings, 2 faults | key and view true (`PresenceTrue`), sink on the last, stale keys go |
| `sockets` | 2 sessions, 1 socket, re-checks 3 and 2, 3 kicks, 2 failed checks | a socket follows its session within one interval and nothing live is ended (`FollowsSession`); frames |
| `conncaps` | 3 sockets on 2 accounts (cap 1) and 1 address (cap 2), 2 faults | caps, and the oldest goes (`CapKept`); dead drop out |
| `refresh` | 3 exchanges in 2 tabs or of the native client, 5 tokens, 3 faults | no self-logout, token kept while live |
| `wsclient` | 3 sockets, 1 pending dial of each kind, 2 frames, 2 drops | one socket, never stranded, frames kept in order, queue drains |

All pass. The bounds are the smallest in which the case a property is about
happens: two goroutines for a stale copy, a third call so that one can lose its marker to the
second, two workers for the same two rows, three
devices so that two race for an epoch while a third is invited, two calls so that the
second rings while the first is being answered, three sockets so that a connect can meet a disconnect while another is
open, one more sanction than the limit needs. For every property there is a mutant of
the code's definition under which the same run finds it violated.
Counters are bounded by `Max…` constants in the guards. Deadlock is not checked: with
those bounds every system may come to rest, and so may the real one.
Symmetry is used only in runs without temporal properties other than action
properties.

`Window` is 0 in `feed`: the library keeps no skipped key, the worst case for a reader
that goes out of order. Its constraint has the foreign messages come in one order, the third
(beyond what a catch-up of two walks through) only to the other two while nothing is deleted, an own
message deleted only while the other side has not written, and own messages beside at most one foreign
one. The constraints of `call_screen` let any two of the three calls take place and
stop, once the session was overtaken, where no property can fail any more: the others except that case,
and `AnswerWanted` needs a ringing call the user has not answered and a run of `accept` for it. In
`group` the page that may be closed is that of the peer's device, while any device may lose a
request: closing any page gives 1,365,067 states and passes as well, and the proofs cover it. The
constraint of `scheduled` limits choices of the environment only: the first row carries the upload,
the second a text, and the account and the chat do not both close (without it the run is three
times as long and passes as well).

Calls has one run for crossing invites and one for faults. `calls` lets two calls take place among any of
three users, or three between the same two, with one frame or lost connection; the proof of `OneLiveCall` has
neither bound and covers every fault. In `calls_live` the caller is `u1` (the users are alike), and the
two acts are frames, lost connections or the death of a replica. Redis errors
(`Faults` containing "redis") are in neither run: the proofs of `JournalTruth`, `OneLiveCall` and
`MissedWasNotAnswered` cover them, `LastWord` was checked with them once, on 3
users and 2 calls (3.7 million states), `BothHear` is checked without. The type invariants of all modules but
CallScreen and Feed are proved; those two document the shape of their state.

**Fairness.** A goroutine or a request that was started goes on (weak fairness of its
steps): Go schedules it, and Postgres and Redis answer. A ring timer has
strong fairness because the model lends it one of few goroutine slots while the code
starts a fresh one. The scheduled worker ticks for ever. In
WsClient the event loop runs every callback whose event is there, and a client that
dials again and again is let in at some time (strong fairness of `onopen`).
Nobody is assumed to press anything. Faults are never fair.

## Where the code's promises stop

Reading and checking turned up cases in which the code does less than a comment of
its says. The properties are stated so that they hold of the code, with the case
excepted; each can be seen again by removing the condition or widening the constants
named here.

- *Calls.* An answer that reads the call while its ring timeout is writing it off connects a
  call that is journalled as missed (slip "late"; `MissedWasNotAnswered`, `LastWord`). Invites that cross
  both pass the busy check ("crossed"), and one goes through when Redis cannot be read ("blind"). `Delete`
  clears the markers of both users without reading them, although `store.go:96` says "Only
  clear a user's busy marker if it still points at this call" (`:98` has no condition), so the end of one of
  two crossed calls frees the users of the other ("unmarked"; all three: `OneLiveCall`). A caller who
  ends a call before its invite is through, or who reconnects while the disconnect hook runs, may
  have the callee's phone ring for a call that is over ("early"; `LastWord`, `BothHear`). A ring timer lives in
  its process (`service.go:195`): when that dies nobody is told that the call was missed
  ("orphan"; `BothHear`), although `docker-compose.prod.yml:45` says "Nothing in the process is
  single-instance state" and `service.go:417` that the other party is never left ringing. A
  callee who refuses on one device and answers on another may have "answered" published after "over".
- *Moderation.* A restore that read the clock before the window closed and commits
  after the purge worker listed the group keeps the group and loses its messages:
  `purge` deletes them first, unconditionally (history `crossed`; `RestoredWhole`,
  `DeletionStaysRestorable`). `repository.go:272` says "Only a group still deleted is touched". A hard
  delete that looked before a soft deletion makes that one final
  (`StaleDelete` in `DeletionStaysRestorable`). A mute that runs out while others are being issued may leave
  two live ones (TLC finds it with three requests and eight sanctions; `MuteIsQuick` in the proof of
  `OneLiveMute`).
- *Scheduled.* A blocked recipient (`ErrBlocked`) is retried for ever with the whole
  batch. Any error of `authorize`, one of the database included, cancels the row
  (`scheduled.go:377`). A row whose upload was linked elsewhere is sent without it. An edit of one
  field writes back the others as it read them. A reaper that runs between the
  look-up and the insert in `Schedule` takes the upload.
- *Presence.* A connect between DECR and DEL loses its count; one between DEL and the
  sink has its calls ended. A key whose EXPIRE or DEL failed, or was not reached before the process
  died, stays for ever if no ping tick follows (`bare`; `StaleReaped`).
- *Sockets.* A kick of the whole account closes sockets of a session opened while it
  was on its way.
- *ConnCaps.* A socket that registers after as many newer ones as a cap allows passes itself over and evicts
  nobody in its place, so the account or address stays over its cap (`crossed` in `CapKept`).
- *Refresh.* A lost answer, or two tabs renewing at once, ends a live session as
  reuse (`calm` in `NoSelfLogout`). The native client takes every 4xx for a refusal
  (`client.ts:57`): a rate limit on `/auth/refresh` has it drop the token of a live session (`limited` in
  `DroppedWhenOver`).
- *Group.* A page closed after the server took its commit and before the state was saved, or after the
  handshake cursor was stored and before the state it leads to, leaves a device
  that cannot follow the group (`cut`; `CatchesUp`, `NobodyLeftOut`). A server failure
  between taking the epoch and inserting the commit has the same effect on everybody.
  `dropKeyPackage` writes back the index it read, and forgets packages a top-up added
  meanwhile (`clash`; `PackageOpens`).
- *Feed.* Forwarding and scheduling keep the text only after the answer, so an app killed
  in between has a message of its own it cannot read, although `chats.ts:146` explains
  why the copy must be made before the request (`OwnTextKept`, messages outside `Direct`);
  plain messages forwarded into a private chat keep no text for their sender at all. The echo
  of such a message is skipped while its text is not there, so it is missing until the
  next load. Two hydrations of one message that cross show a padlock although the text is
  stored (`decryptOnce` does not look again once it has the lock). A load writes over
  bubbles inserted since it read its page (all three: `askew` in `Mirrors`). A live message
  decrypted before older ones may drop their keys, a catch-up that stops at its ceiling
  (`chats.ts:775`) drops those of the messages it did not come to, and an app killed between `saveState` and
  `cachePlaintext` loses a text (`lost` in `TheirTextKept`). A message deleted while the device
  is away, or while a handler has it in hand, leaves its text behind (`kept` in
  `Forgotten`). `sweepOrphanOutgoing` (`chats.ts:204`) has no caller.
- *CallScreen.* The guard against a second call looks at what is set only after the
  waits: a call that rings during `startCall` is overwritten (`useCall.ts:388`, slip
  "crossed"); a second tap on accept goes ahead (`:407`, "double"), though the comment at
  `:405` says otherwise; `accept` goes on after its session ended (`:433`, "stale"), and
  may ring for a call that is over (`:422`). A pending call fetched before it was declined
  rings again (`:534`, "late"); `call.incoming` after `/calls/pending` declines the call
  it announces (`:491`, "echo"); a connection that fails before it was up ends the call
  without telling the server (`:349`, "silent"). Each property names the slips it excepts.
- *WsClient.* An app that dials while a reconnect is pending opens a second socket (`hasty` in `OneSocket`).
  The typing timer of the composer (`Composer.tsx:138`) may send after `disconnect`: its frame waits for
  the socket of whoever signs in next.

## Proofs

All proofs are in `…Proofs` modules; those of Group are laid on `GroupLine`, which has the
types and the line of commits. `HubProofs` is about Sockets and Presence, `CapsProofs` about ConnCaps,
`WsClientProofs` about WsClient and Refresh. Each has an inductive invariant, one lemma per action
under it, and a temporal step by PTL. No theorem depends on the bounds of the runs: sets of users,
devices, sockets, rows and requests are arbitrary (finite where something is counted), `Max…` and
intervals are any natural numbers.

| Theorem | States | Assumes |
|---|---|---|
| `TypeCorrect` in all but `GroupLine`, `HubProofs!SocketTypes`, `WsClientProofs!TokenTypes` | the type invariants | as below |
| `CallsProofs!JournalNeverInvents` | `[]JournalTruth` | `None` is no user or call |
| `CallsProofs!OneCallEach`, `MissedMeansUnanswered` | `[]OneLiveCall`, `[]MissedWasNotAnswered` | the same |
| `ModerationProofs!WarningsDelete`, `DeletionsRecorded` | `[]WarnedOut`, `[]DeletionOnRecord` | finitely many sanctions, a positive limit |
| `ModerationProofs!RestoresWhole`, `RemovedAfterWindow` | `[]RestoredWhole`, `DeletionStaysRestorable` | the same |
| `ModerationProofs!MutedOnce` | `[]OneLiveMute` | also `MuteIsQuick` |
| `ScheduledProofs!SendsOnce`, `CapKept` | `[]SentOnce`, `[]PendingCap` | finitely many rows and requests |
| `ScheduledProofs!Implements` | `Spec => Outbox!Spec` | the same |
| `ScheduledProofs!DeliversOnce`, `UploadsOnce` | `[]DeliveredOnce`, `[]UploadInOneMessage` | the same |
| `GroupProofs!NeverForks` | `[]NoFork` | the bounds are natural numbers |
| `GroupProofs!PackagesOpen`, `NobodyOut`, `AlwaysCatchesUp` | `[]PackageOpens`, `[]NobodyLeftOut`, `[]CatchesUp` | the same |
| `HubProofs!PresenceIsTrue`, `SinksOnLast` | `[]PresenceTrue`, `SinkOnLast` | finitely many sockets, a ping period shorter than the lifetime |
| `HubProofs!KeysLast` | a key without a lifetime is about to get one or to go, unless it is `bare` | the same |
| `HubProofs!SocketsFollow`, `FramesWithinMemory` | `[]FollowsSession`, `[]FrameWithinMemory` | positive intervals |
| `CapsProofs!CapsKept` | `[]CapKept` | finitely many sockets, positive caps |
| `WsClientProofs!NotStranded`, `SingleSocket` | `[]NeverStranded`, `[]OneSocket` | `None` is no socket |
| `WsClientProofs!KeepsOrder` | `KeptInOrder` | the same |
| `WsClientProofs!NeverSelfLogout`, `NeverDropsLive`, `EndsForGood` | `[]NoSelfLogout`, `[]DroppedWhenOver`, `EndedForGood` | `NoToken` is no token |

*Calls, the journal.* `JournalTruth` is not inductive: what `finalize` writes depends on what the
goroutine read several steps before. `VerdictInv` says of each goroutine on its way to
`finalize` that the user it acts for was entitled to the status it will write (the
callee to "rejected", the caller to "canceled"), `JobInv` that the frame or the drop
is in `acts`, and `ConnectedInv` that a connected call was answered by
its callee. All survive everything other goroutines do because `acts` only grows and
the parties of a call never change.

*Calls, one call each.* `OneLiveCall` says nothing of markers, and it is the markers that keep calls
apart. `VouchInv` says that a live call that nothing slipped past holds the markers of both its users; two
such calls cannot share one. To keep it, an invite that has checked a user must find the user as
it left them: `CheckInv` says that a user who was found free is in no such call, and that a marker
an invite follows is that of such a call if the user is in one, unless the invite itself is "crossed" or
"blind". `ReapInv` says that a marker about to be cleared is of no such call, `NamesInv` that a marker a goroutine
remembers is of a call of the user it was read for, and `FreshInv` that nobody has touched a call whose invite
is still being checked. One lemma gives conditions under which a step keeps all of it; `Create` and the begin of
an invite, which make a call, have their own.

*Calls, missed or answered.* A call is *decided* once it is journalled as missed or a timeout is about
to do so, and *pending* while an answer has read it as ringing. `LateInv` says that no call is decided and
also pending or answered, late ones apart; `ToldInv` that a caller who heard "answered" has a call that
rings no more, so no timeout that reads it then will write it off.

*Moderation.* `HoldsInv` says what a request past the lock may rely on: it holds the
row, a group it is about to sanction is still in use, and the number it counted is
still the number of live warnings, its own included. `RecordInv` replaces the cardinality of
`DeletionOnRecord` by the set itself. `WindowInv` is for the purge, whose list is read
outside any lock: unless it was made under a restore (`crossed`), a group on it is gone or past its
window, where no restore begins. So nothing on the list comes back to life. `LookedInv` says of a hard
delete under way that it looked at the group before the group was deleted. `MuteInv` has every request to mute begin at the
present clock. `MuteIsQuick` (the constant `SlowTx` has no "mute") is a real hypothesis, not a bound: Issue
looks for the mute to replace among those live when its transaction began.

*Scheduled.* `TxInv` ties a worker's open transaction to the rows it has locked: they
are pending and unposted until its commit, and no two workers share one. The
refinement maps the commit of a batch to one `Settle` step. `CapInv` counts the
requests that have passed the check and not yet inserted. `DeliveryInv` follows a message
from the commit to the fan-out: what a worker still has to deliver is committed, not delivered
yet, and on no other worker's list. `UploadInv` says that an upload in an open
transaction is still free for all who do not see it, and that no other message of this or of another
transaction has it; one in a committed message is linked, and in no other message.

*Presence.* `UpperInv` bounds the counter whatever happens: a fault adds one at most. `CalmInv` is for sockets
that do not meet: one sequence of commands is under way at a time, every socket is counted, and the key outlives the next ping of each.
`ViewInv` adds, while nothing died or failed, what INCR answered and what the subscriber was told.

*ConnCaps.* The invariant is about the sockets that *stay*, the open ones nobody has been told to close
(`Staying`): while nothing failed they are members of their sets and within the caps (`CalmInv`), so each registration
counts all of them. `OldInv` keeps the ground on which a socket was evicted until its kick arrives.

*Refresh.* While `calm`, at most one exchange is away, and the token it carries, the
one in the jar and the one the row holds agree (`Single`, `Held`, `Known`), but for a native client that
a rate limit has left without one.

*Group, the line.* `NoFork` speaks of the states that are held or published and is not inductive: a
commit a device is about to publish might not fit. `OneLine` adds that every such
commit, late ones included, extends a prefix of the line, and that `epoch` is the
length of the line; so the compare-and-set of `AdvanceEpoch` lets through only a
commit that extends the whole line. `Within` keeps what a device has read of the feed inside it, and
lemmas on prefixes carry the argument.

*Group, getting in.* `PackageOpens` needs the whole life of a package (`PoolInv`): it is in the
pool, on its way there, or claimed, never two of these, and older than what the device
makes next, so a new package never takes the place of one that is out. `NobodyLeftOut` looks
at the newest commit in the feed, but what can go wrong is decided one step earlier, when a
commit has taken its epoch and is not in the feed yet. `ReachInv` covers that gap: while no committer was
cut off there is one such commit at most, it is the line, nobody can start from it, and the
members before it have been let in or invited; `Newcomers` says that a commit's
own members are among those, its author and the ones it will invite. `Doing` and `LettersInv` are
what an operation midway relies on.

*Group, catching up.* `CatchesUp` goes through the feed with a recursive function, for which there is no
induction; the proof takes the first frame at which it would go wrong instead. `FeedInv` numbers the frames by their
epochs, and `CatchInv` says that a cursor is never ahead of the state it leads from and that a device
has the states of its own commits, which it passes over.

*WsClient.* `OneSocket` and `NeverStranded` are two sides of one count. A live socket, a close
event that will be heard, a timer and an exchange are *tokens*: `OneToken` says there is one
at most (while the app is not `hasty`), and every callback that takes one hands it on. `CurInv` ties
`cur` to the sockets, and `Flushed` (nothing waits while the socket is open) is what
`KeptInOrder` needs, because `send` puts a frame on the wire without looking at the queue.

*Sockets.* A bound on the age of a revoked session is not inductive without the timer: `OpenInv` is a
budget, the age plus the time until the next check is at most one interval and one more
for each check that failed in a row. `KickInv` says whom a kick on its way may still
close: a kick of the whole account, as long as it is under way, meets only sessions that are
over, spared, or opened after it.

`SentOnce`, `PendingCap` and `EndedForGood` are stated by theorems only.

Only model-checked, and why:

- liveness (`BothHear`, `DueHandled`, `StaleReaped`, `DeadDropOut`, `QueuedGoes`): out of the
  prover's reach; `KeysLast` is the safety part of `StaleReaped`;
- `LastWord` of Calls, which follows two goroutines to their last event;
- Feed, which is written with the sequence operators of the community modules, and CallScreen.

## Not modelled

- **Boards.** Two moves at once can undo each other: `Move` reads the lists of both columns
  without a lock and `reindex` writes the column of every card in them. Worth a module
  of its own, with `remove` and `insertAt` as functions.
- **Uploads and quota.** Chunked sessions (two completions at once), the reservation under its
  advisory lock, the object store. Scheduled has the link of an upload and the reaper.
- **Polls.** A vote that saw the poll open is written after `Close` took the tally.
- **Groups.** Joining, approving, banning and roles.
- **Group (MLS)** leaves out device revocation, the reset of an account's keys, safety numbers and
  the backup. **Feed** leaves out edits, threads, paging back, a failing load and its
  retry, a timer that is cleared or changed again, and the edit of a scheduled text. **CallScreen** leaves out
  muting, the speaker and the contents of offers and candidates. CallScreen and Calls are
  not composed: CallScreen's server is a small one that tells both sides in order.
- A theorem for CallScreen or Feed.

The models follow code that keeps state over several steps. By lines, most of the app is
something else: ten languages of texts and legal pages, type declarations, endpoint
lists, and components that draw what the server sent.

Left out for good: rendering, texts and translations, HTTP decoding, queries that
only read, push delivery, WebRTC and cryptography, rate limits (a refused
request changes nothing on the server; what the client makes of a refused refresh is in Refresh), configuration, migrations and the Android shell.
