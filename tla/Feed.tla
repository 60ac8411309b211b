--------------------------------- MODULE Feed ---------------------------------
(***************************************************************************)
(* One private chat on one device: the encrypted messages on the server,   *)
(* the texts the device keeps (entities/e2ee/chats.ts), the list of bubbles *)
(* in the query cache (entities/message/queries.ts), and the handlers that *)
(* run at the same time: a send, a forward, a scheduled send, the socket's *)
(* events (app/useRealtime.ts) and the loading of the history.  A text can *)
(* be read off the ciphertext once, by anybody but its sender, so a text   *)
(* that is not kept is gone.  Each step is what runs between two awaits.   *)
(***************************************************************************)
EXTENDS Naturals, Sequences, FiniteSets, SequencesExt

CONSTANTS
  Direct,    \* messages sent from the composer
  Forwarded, \* encrypted messages forwarded into the chat
  Batched,   \* plain messages forwarded into the chat
  Scheduled, \* messages scheduled for later
  Theirs,    \* messages of the other side
  Timed,     \* messages of a chat whose messages disappear
  Late,      \* messages that may get a timer after they were sent
  Unsent,    \* messages that somebody deletes
  Fetch,     \* runs of the history query that may go on at once
  NoMsg, NoFeed, Nobody,
  Window,    \* keys the MLS library keeps for messages that were skipped
  MaxCatchUp, \* messages one catch-up walks back through
  MaxOwn,    \* bound on the messages sent from here
  MaxSent,   \* bound on all messages
  MaxGone,   \* bound on the messages that are deleted or disappear
  MaxFaults  \* bound on closed pages, lost requests, gaps of the socket, reloads

Own == Direct \cup Forwarded \cup Batched \cup Scheduled
Msg == Own \cup Theirs

VARIABLES
  rows,    \* the server's messages in the order of their creation
  status,  \* [Msg -> none, planned, there, deleted, gone]
  timer,   \* messages with an expires_at
  due,     \* those whose time is up
  inbox,   \* events on their way to the device
  online,  \* the socket is open
  early,   \* ct/<digest> and sched/<id>: texts kept before the message has an id
  plain,   \* msg/<id>: texts kept
  stamped, \* those kept with the time they expire
  spent,   \* messages whose key has been used or dropped
  cursor,  \* dec/<chat>: the newest message gone through in order
  feed,    \* the cached list of bubbles, newest first
  job,     \* [event handlers and loads -> where they are]
  send,    \* [Own -> where its send is]
  current, \* the load whose result counts
  lock,    \* who holds the chat's lock
  askew,   \* history: messages whose bubble may be wrong until the next load
  lost,    \* history: messages whose text was lost, at one of the known gaps
  kept,    \* history: deleted messages whose text was kept, likewise
  doubt,   \* history: messages sent without an answer
  faults

server == <<rows, status, timer, due>>
texts  == <<plain, stamped>>
store  == <<early, texts, spent, cursor>>
past   == <<askew, lost, kept, doubt>>
vars   == <<server, inbox, online, store, feed, job, send, current, lock, past, faults>>

Proc == Msg \cup Fetch
Idle == [pc |-> "idle", todo |-> << >>, page |-> << >>, dead |-> {}, timed |-> {}, upto |-> NoMsg]

Face   == {"text", "blank", "lock", "deleted", "pending", "failed"}
Bubble == [id : Msg, face : Face]

Init ==
  /\ rows = << >> /\ status = [m \in Msg |-> "none"] /\ timer = {} /\ due = {}
  /\ inbox = << >> /\ online = FALSE
  /\ early = {} /\ plain = {} /\ stamped = {} /\ spent = {} /\ cursor = NoMsg
  /\ feed = NoFeed
  /\ job = [p \in Proc |-> Idle]
  /\ send = [m \in Own |-> "idle"]
  /\ current = Nobody /\ lock = Nobody
  /\ askew = {} /\ lost = {} /\ kept = {} /\ doubt = {}
  /\ faults = 0

-----------------------------------------------------------------------------
(* The cached list: useMessageCacheWriter and its twins in useRealtime *)

B(m, f)      == [id |-> m, face |-> f]
Temp(b)      == b.face \in {"pending", "failed"}
Real(b, m)   == b.id = m /\ ~Temp(b)
Bubbles(f)   == IF f = NoFeed THEN {} ELSE Range(f)
Shown(f, m)  == \E b \in Bubbles(f) : Real(b, m)

insert(f, m, face) == IF f = NoFeed \/ Shown(f, m) THEN f ELSE <<B(m, face)>> \o f

insertPending(f, m) == <<B(m, "pending")>> \o (IF f = NoFeed THEN << >> ELSE f)

\* Its bubbles before and after it has an id.
TempsOf(m)   == {B(m, face) : face \in {"pending", "failed"}}
RealsOf(m)   == {B(m, face) : face \in {"text", "blank", "lock", "deleted"}}

\* The bubbles in old get another face.
Rewrite(f, old, face) ==
  IF f = NoFeed THEN f
  ELSE [i \in DOMAIN f |-> IF f[i] \in old THEN B(f[i].id, face) ELSE f[i]]

\* The bubble of m that comes first stays, a second one goes.
Once(f, m) ==
  LET twins == {j \in DOMAIN f : Real(f[j], m) /\ \E i \in 1 .. j - 1 : Real(f[i], m)}
  IN  IF twins = {} THEN f ELSE RemoveAt(f, Max(twins))

\* Mutant of resolvePending: the echo is not looked for.
resolvePendingTwice(f, m) == Rewrite(f, TempsOf(m), "text")

resolvePending(f, m) ==
  IF f = NoFeed THEN f
  ELSE Once(Rewrite(f, TempsOf(m), "text"), m)

remove(f, m) == IF f = NoFeed THEN f ELSE SelectSeq(f, LAMBDA b : ~Real(b, m))

\* The current load has read its page and will write over the list.
Loading == current # Nobody /\ job[current].pc \notin {"idle", "catch", "catching", "catchput", "fetch"}
Touched(m) == askew' = IF Loading THEN askew \cup {m} ELSE askew

\* A handler, a load or a send is at work on m.
InHand(m) ==
  \/ \E p \in Proc : job[p].pc # "idle" /\ m \in Range(job[p].todo)
  \/ m \in Own /\ send[m] # "idle"

-----------------------------------------------------------------------------
(* The server, as the device sees it *)

\* messagesApi.list
Listed == SelectSeq(rows, LAMBDA m : status[m] # "gone")

Emit(e) == inbox' = IF online THEN Append(inbox, e) ELSE inbox

\* A message that may still be sent.
Begun(m) == status[m] # "none" \/ m \in doubt \/ (m \in Own /\ send[m] # "idle")
New(m)   ==
  LET begun == {x \in Msg : Begun(x)}
  IN  m \notin begun /\ Cardinality(begun) < MaxSent
      /\ (m \in Own => Cardinality(begun \cap Own) < MaxOwn)

Created(m) ==
  /\ status' = [status EXCEPT ![m] = "there"]
  /\ rows' = Append(rows, m)
  /\ timer' = IF m \in Timed THEN timer \cup {m} ELSE timer
  /\ Emit([event |-> "created", msg |-> m])

peerSends(m) ==
  /\ m \in Theirs /\ New(m)
  /\ Created(m)
  /\ UNCHANGED <<due, online, store, feed, job, send, current, lock, past, faults>>

\* The scheduler delivers a planned message.
deliverScheduled(m) ==
  /\ status[m] = "planned"
  /\ Created(m)
  /\ UNCHANGED <<due, online, store, feed, job, send, current, lock, past, faults>>

MayGo(m) ==
  Cardinality({x \in Msg \ {m} : x \in due \cup (timer \cap Late) \/ status[x] \in {"deleted", "gone"}}) < MaxGone

\* The text is kept of what is deleted while the device is away.
deleteMessage(m) ==
  /\ m \in Unsent /\ status[m] = "there" /\ MayGo(m)
  /\ status' = [status EXCEPT ![m] = "deleted"]
  /\ Emit([event |-> "deleted", msg |-> m])
  /\ kept' = IF online THEN kept ELSE kept \cup {m}
  /\ UNCHANGED <<rows, timer, due, online, store, feed, job, send, current, lock, askew, lost,
                 doubt, faults>>

\* SetExpiry puts a timer on a message that has been sent; message.updated.
setExpiry(m) ==
  /\ m \in Late \ timer /\ status[m] = "there" /\ MayGo(m)
  /\ timer' = timer \cup {m}
  /\ Emit([event |-> "updated", msg |-> m])
  /\ UNCHANGED <<rows, status, due, online, store, feed, job, send, current, lock, past, faults>>

elapse(m) ==
  /\ m \in timer \ due /\ status[m] = "there" /\ MayGo(m)
  /\ due' = due \cup {m}
  /\ UNCHANGED <<rows, status, timer, inbox, online, store, feed, job, send, current, lock, past,
                 faults>>

\* The reaper removes the row.
reap(m) ==
  /\ m \in due /\ status[m] \in {"there", "deleted"}
  /\ status' = [status EXCEPT ![m] = "gone"]
  /\ Emit([event |-> "expired", msg |-> m])
  /\ kept' = IF online THEN kept ELSE kept \cup {m}
  /\ UNCHANGED <<rows, timer, due, online, store, feed, job, send, current, lock, askew, lost,
                 doubt, faults>>

-----------------------------------------------------------------------------
(* Loading the history: useMessages *)

\* A load starts, in the place of one that is on its way.
Reload(f) ==
  /\ job[f] = Idle
  /\ job' = [job EXCEPT ![f].pc = "catch"]
  /\ current' = f

\* Mutant of connect: only the first one loads.
connectQuietly(f) ==
  /\ ~online
  /\ online' = TRUE
  /\ IF feed = NoFeed THEN Reload(f) ELSE UNCHANGED <<job, current>>
  /\ UNCHANGED <<server, inbox, store, feed, send, lock, past, faults>>

\* useRealtime's effect: the socket opens; refreshAfterGap.
connect(f) ==
  /\ ~online
  /\ online' = TRUE
  /\ Reload(f)
  /\ UNCHANGED <<server, inbox, store, feed, send, lock, past, faults>>

\* Messages whose removal is not told any more.
Missed == {e.msg : e \in {x \in Range(inbox) : x.event \in {"deleted", "expired"}}}

disconnect ==
  /\ online /\ faults < MaxFaults
  /\ faults' = faults + 1
  /\ online' = FALSE
  /\ kept' = kept \cup Missed
  /\ inbox' = << >>
  /\ UNCHANGED <<server, store, feed, job, send, current, lock, askew, lost, doubt>>

\* Another invalidation: coming back from the background, a reaction, a welcome.
invalidate(f) ==
  /\ online /\ faults < MaxFaults
  /\ faults' = faults + 1
  /\ Reload(f)
  /\ UNCHANGED <<server, inbox, online, store, feed, send, lock, past>>

\* catchUpChat, with the lock: what came after the cursor, oldest first, but no
\* more than the newest MaxCatchUp.
catchUpChat(f) ==
  LET at    == {i \in DOMAIN Listed : Listed[i] = cursor}
      first == Max({Len(Listed) - MaxCatchUp, IF at = {} THEN 0 ELSE Max(at)}) + 1
      todo  == SubSeq(Listed, first, Len(Listed))
  IN  /\ job[f].pc = "catch" /\ lock = Nobody
      /\ IF todo = << >> THEN job' = [job EXCEPT ![f].pc = "fetch"] /\ lock' = lock
         ELSE /\ job' = [job EXCEPT ![f] = [Idle EXCEPT !.pc = "catching", !.upto = Last(todo),
                            !.todo = SelectSeq(todo, LAMBDA m : status[m] = "there"),
                            !.timed = timer]]
              /\ lock' = f
      /\ UNCHANGED <<server, inbox, online, store, feed, send, current, past, faults>>

\* processIncoming: messages of the other side whose key is there; a key that
\* falls out of the window is dropped.
Opens(m)   == m \in Theirs /\ m \notin spent
Before(m)  == {rows[i] : i \in {k \in DOMAIN rows : \E j \in DOMAIN rows : rows[j] = m /\ k < j}}
Skipped(m) == {x \in (Theirs \cap Before(m)) \ spent :
                 Cardinality((Theirs \cap Before(m)) \ (Before(x) \cup {x})) >= Window}
Spend(m)   == spent' = spent \cup {m} \cup Skipped(m)

Expired(m) == m \in stamped \cap due

\* cachePlaintext, with the time of a message that was read with one.
Keep(m, timed) ==
  /\ plain' = plain \cup {m}
  /\ stamped' = IF m \in timed THEN stamped \cup {m} ELSE stamped \ {m}

\* The store's remove, of msg/ keys.
Drop(ms) == plain' = plain \ ms /\ stamped' = stamped \ ms

\* Mutant of decryptNext: the newest message first.
decryptNewest(f) ==
  LET j == job[f]  m == Last(j.todo) IN
  /\ j.pc = "catching" /\ j.todo # << >>
  /\ Drop({x \in {m} : Expired(x)})
  /\ IF m \in plain' \/ ~Opens(m)
     THEN job' = [job EXCEPT ![f].todo = Front(@)] /\ UNCHANGED <<spent, lost>>
     ELSE /\ Spend(m) /\ lost' = lost \cup (Skipped(m) \ Range(j.todo))
          /\ job' = [job EXCEPT ![f].pc = "catchput",
                                   ![f].todo = <<m>> \o Front(@)]
  /\ UNCHANGED <<server, inbox, online, early, cursor, feed, send, current, lock, askew, kept,
                 doubt, faults>>

\* catchUpChat's loop: the state is saved without the message's key.  The keys
\* of messages older than the ones it came to may go with it; ...
decryptNext(f) ==
  LET j == job[f]  m == Head(j.todo) IN
  /\ j.pc = "catching" /\ j.todo # << >>
  /\ Drop({x \in {m} : Expired(x)})
  /\ IF m \in plain' \/ ~Opens(m)
     THEN job' = [job EXCEPT ![f].todo = Tail(@)] /\ UNCHANGED <<spent, lost>>
     ELSE /\ Spend(m) /\ lost' = lost \cup (Skipped(m) \ Range(j.todo))
          /\ job' = [job EXCEPT ![f].pc = "catchput"]
  /\ UNCHANGED <<server, inbox, online, early, cursor, feed, send, current, lock, askew, kept,
                 doubt, faults>>

\* ... the text is kept.
decryptKeep(f) ==
  /\ job[f].pc = "catchput"
  /\ Keep(Head(job[f].todo), job[f].timed)
  /\ job' = [job EXCEPT ![f].pc = "catching", ![f].todo = Tail(@)]
  /\ UNCHANGED <<server, inbox, online, early, spent, cursor, feed, send, current, lock, past,
                 faults>>

\* The cursor is put, the lock released.
caughtUp(f) ==
  /\ job[f].pc = "catching" /\ job[f].todo = << >>
  /\ cursor' = job[f].upto
  /\ job' = [job EXCEPT ![f] = [Idle EXCEPT !.pc = "fetch"]]
  /\ lock' = Nobody
  /\ UNCHANGED <<server, inbox, online, early, texts, spent, feed, send, current, past, faults>>

\* The page is read.  What the list shows wrongly, it will show again, unless
\* another is still at work on it, or on what has gone meanwhile.
fetchPage(f) ==
  /\ job[f].pc = "fetch"
  /\ IF Listed = << >>
     THEN /\ job' = [job EXCEPT ![f] = Idle]
          /\ feed' = IF current = f THEN << >> ELSE feed
     ELSE /\ job' = [job EXCEPT ![f] = [Idle EXCEPT !.pc = "cached", !.todo = Listed, !.timed = timer,
                        !.dead = {m \in Msg : status[m] = "deleted"}]]
          /\ feed' = feed
  /\ askew' = IF current = f
               THEN {m \in Msg : InHand(m) /\ (m \in askew \/ status[m] \in {"deleted", "gone"})}
               ELSE askew
  /\ UNCHANGED <<server, inbox, online, store, send, current, lock, lost, kept, doubt, faults>>

-----------------------------------------------------------------------------
(* hydrateMessage, in a load or in an event's handler *)

Hydrating(p) == Head(job[p].todo)

\* The message is resolved.  A handler inserts it, unless it is an echo of one's
\* own that it cannot read; a load goes on, and with the last one its page
\* replaces the list.
Resolve(p, face) ==
  LET m    == Hydrating(p)
      page == <<B(m, face)>> \o job[p].page
      rest == Tail(job[p].todo)
      odd  == IF face = "lock" /\ (m \in Own \/ m \in plain') THEN {m} ELSE {}
  IN  IF p \in Msg
      THEN /\ job' = [job EXCEPT ![p] = Idle]
           /\ feed' = IF face = "lock" /\ m \in Own THEN feed ELSE insert(feed, m, face)
           /\ askew' = askew \cup odd \cup (IF Loading THEN {m} ELSE {})
      ELSE /\ job' = [job EXCEPT ![p] = IF rest = << >> THEN Idle
                                       ELSE [@ EXCEPT !.pc = "cached", !.todo = rest, !.page = page]]
           /\ feed' = IF rest = << >> /\ current = p THEN page ELSE feed
           /\ askew' = IF current = p THEN askew \cup odd ELSE askew

Goto(p, pc) == job' = [job EXCEPT ![p].pc = pc] /\ UNCHANGED <<feed, askew>>

\* cachedPlaintext: an entry whose time is up is removed, not read.  There is no
\* early copy of a message of the other side to look for.
readCached(p) ==
  LET m == Hydrating(p) IN
  /\ job[p].pc = "cached"
  /\ Drop({x \in {m} \ job[p].dead : Expired(x)})
  /\ \/ m \in job[p].dead /\ Resolve(p, "deleted")
     \/ m \notin job[p].dead /\ m \in plain' /\ Resolve(p, "text")
     \/ m \notin job[p].dead /\ m \notin plain' /\ Goto(p, IF m \in Own THEN "early" ELSE "decrypt")
  /\ UNCHANGED <<server, inbox, online, early, spent, cursor, send, current, lock, lost, kept,
                 doubt, faults>>

\* adoptOutgoingPlaintext, adoptScheduledPlaintext: read, ...
readEarly(p) ==
  /\ job[p].pc = "early"
  /\ Goto(p, IF Hydrating(p) \in early THEN "earlyput" ELSE "decrypt")
  /\ UNCHANGED <<server, inbox, online, store, send, current, lock, lost, kept, doubt, faults>>

\* ... put under the message's id, ...
adoptPut(p) ==
  /\ job[p].pc = "earlyput"
  /\ Keep(Hydrating(p), job[p].timed)
  /\ Goto(p, "earlydrop")
  /\ UNCHANGED <<server, inbox, online, early, spent, cursor, send, current, lock, lost, kept,
                 doubt, faults>>

\* ... removed from its first place.
adoptDrop(p) ==
  /\ job[p].pc = "earlydrop"
  /\ early' = early \ {Hydrating(p)}
  /\ UNCHANGED texts
  /\ Resolve(p, "text")
  /\ UNCHANGED <<server, inbox, online, spent, cursor, send, current, lock, lost, kept, doubt,
                 faults>>

\* decryptOnce, with the lock.  A live message may drop the keys of older ones.
decryptOnce(p) ==
  LET m == Hydrating(p) IN
  /\ job[p].pc = "decrypt" /\ lock = Nobody
  /\ UNCHANGED texts
  /\ IF Opens(m)
     THEN /\ Spend(m) /\ lock' = p /\ Goto(p, "put")
          /\ lost' = lost \cup Skipped(m)
     ELSE Resolve(p, "lock") /\ UNCHANGED <<spent, lock, lost>>
  /\ UNCHANGED <<server, inbox, online, early, cursor, send, current, kept, doubt, faults>>

decryptPut(p) ==
  /\ job[p].pc = "put"
  /\ Keep(Hydrating(p), job[p].timed)
  /\ lock' = Nobody
  /\ Resolve(p, "text")
  /\ UNCHANGED <<server, inbox, online, early, spent, cursor, send, current, lost, kept, doubt,
                 faults>>

-----------------------------------------------------------------------------
(* Events *)

\* handleMessageCreated starts.
messageCreated ==
  LET m == Head(inbox).msg IN
  /\ inbox # << >> /\ Head(inbox).event = "created"
  /\ inbox' = Tail(inbox)
  /\ job' = [job EXCEPT ![m] = [Idle EXCEPT !.pc = "cached", !.todo = <<m>>, !.timed = Timed]]
  /\ UNCHANGED <<server, online, store, feed, send, current, lock, past, faults>>

\* Mutant of dropPlaintext: only what has disappeared is dropped.
dropPlaintextExpired(m) == Drop({m} \cap due)

dropPlaintext(m) == Drop({m})

\* message.updated: the text of the update is empty for an encrypted message, and
\* the bubble takes it over.
messageUpdated ==
  LET m == Head(inbox).msg IN
  /\ inbox # << >> /\ Head(inbox).event = "updated"
  /\ inbox' = Tail(inbox)
  /\ feed' = Rewrite(feed, {B(m, "text")}, "blank")
  /\ askew' = askew \cup {m}
  /\ UNCHANGED <<server, online, store, job, send, current, lock, lost, kept, doubt, faults>>

\* message.deleted: the text is dropped, the bubble becomes a tombstone or goes.
messageDeleted ==
  LET e == Head(inbox)  m == e.msg IN
  /\ inbox # << >> /\ e.event \in {"deleted", "expired"}
  /\ inbox' = Tail(inbox)
  /\ dropPlaintext(m)
  /\ feed' = IF e.event = "expired" THEN remove(feed, m)
             ELSE Rewrite(feed, RealsOf(m), "deleted")
  /\ kept' = IF InHand(m) \/ m \in early THEN kept \cup {m} ELSE kept
  /\ askew' = IF InHand(m) \/ Loading THEN askew \cup {m} ELSE askew
  /\ UNCHANGED <<server, online, early, spent, cursor, job, send, current, lock, lost, doubt,
                 faults>>

\* sweepExpiredPlaintext, hourly: the texts kept with a time.
sweepExpiredPlaintext ==
  LET old == stamped \cap due IN
  /\ old # {}
  /\ Drop(old)
  /\ kept' = kept \ {m \in old \ early : ~InHand(m)}
  /\ UNCHANGED <<server, inbox, online, early, spent, cursor, feed, job, send, current, lock,
                 askew, lost, doubt, faults>>

-----------------------------------------------------------------------------
(* Sending *)

Step(m, pc) == send' = [send EXCEPT ![m] = pc]

\* handleSend: the bubble is shown at once.
handleSend(m) ==
  /\ online /\ m \in Direct /\ New(m)
  /\ feed' = insertPending(feed, m)
  /\ Step(m, "copy")
  /\ Touched(m)
  /\ UNCHANGED <<server, inbox, online, store, job, current, lock, lost, kept, doubt, faults>>

\* Mutant of cacheOutgoingPlaintext: the text is left to the answer.
cacheOutgoingLater(m) ==
  /\ send[m] = "copy" /\ lock = Nobody
  /\ Step(m, "post")
  /\ UNCHANGED <<server, inbox, online, store, feed, job, current, lock, past, faults>>

\* encryptPrivateText has the lock; the text is kept before the request leaves.
cacheOutgoingPlaintext(m) ==
  /\ send[m] = "copy" /\ lock = Nobody
  /\ early' = early \cup {m}
  /\ Step(m, "post")
  /\ UNCHANGED <<server, inbox, online, texts, spent, cursor, feed, job, current, lock, past,
                 faults>>

\* forwardMessages and scheduleMessage keep no text before their request.
startOther(m) ==
  /\ m \in Own \ Direct /\ New(m)
  /\ online /\ lock = Nobody
  /\ Step(m, "post")
  /\ UNCHANGED <<server, inbox, online, store, feed, job, current, lock, past, faults>>

\* The request: the server has the message, or the planned one; messagesApi.forward
\* leaves no text with its sender.
post(m) ==
  /\ send[m] = "post"
  /\ IF m \in Scheduled
     THEN status' = [status EXCEPT ![m] = "planned"] /\ UNCHANGED <<rows, timer, inbox>>
     ELSE Created(m)
  /\ Step(m, IF m \in Batched THEN "idle" ELSE "answer")
  /\ lost' = IF m \in Batched THEN lost \cup {m} ELSE lost
  /\ UNCHANGED <<due, online, store, feed, job, current, lock, askew, kept, doubt, faults>>

\* The text cannot be encrypted, the request or its answer is lost: onError.
sendFails(m) ==
  /\ faults < MaxFaults /\ faults' = faults + 1
  /\ send[m] \in {"copy", "post", "answer"}
  /\ feed' = Rewrite(feed, TempsOf(m), "failed")
  /\ Step(m, "idle")
  /\ doubt' = doubt \cup {m}
  /\ lost' = IF send[m] = "answer" /\ m \notin Direct THEN lost \cup {m} ELSE lost
  /\ Touched(m)
  /\ UNCHANGED <<server, inbox, online, store, job, current, lock, kept>>

\* cacheScheduledPlaintext, or cachePlaintext of what was forwarded.
keepOther(m) ==
  /\ send[m] = "answer" /\ m \in Forwarded \cup Scheduled
  /\ IF m \in Scheduled THEN early' = early \cup {m} /\ UNCHANGED texts
     ELSE Keep(m, Timed) /\ UNCHANGED early
  /\ Step(m, "idle")
  /\ askew' = IF status[m] = "planned" THEN askew ELSE askew \cup {m}
  /\ UNCHANGED <<server, inbox, online, spent, cursor, feed, job, current, lock, lost, kept,
                 doubt, faults>>

\* sendMessage's adoptOutgoingPlaintext: read, put, remove; then resolvePending.
answered(m) ==
  /\ send[m] = "answer" /\ m \in Direct
  /\ Step(m, IF m \in early THEN "put" ELSE "resolve")
  /\ UNCHANGED <<server, inbox, online, store, feed, job, current, lock, past, faults>>

adoptOutgoingPut(m) ==
  /\ send[m] = "put"
  /\ Keep(m, Timed)
  /\ Step(m, "drop")
  /\ UNCHANGED <<server, inbox, online, early, spent, cursor, feed, job, current, lock, past,
                 faults>>

adoptOutgoingDrop(m) ==
  /\ send[m] = "drop"
  /\ early' = early \ {m}
  /\ Step(m, "resolve")
  /\ UNCHANGED <<server, inbox, online, texts, spent, cursor, feed, job, current, lock, past,
                 faults>>

onSuccess(m) ==
  /\ send[m] = "resolve"
  /\ feed' = resolvePending(feed, m)
  /\ Step(m, "idle")
  /\ Touched(m)
  /\ UNCHANGED <<server, inbox, online, store, job, current, lock, lost, kept, doubt, faults>>

\* useCancelScheduled: the server first, then the text.
cancelScheduled(m) ==
  /\ online /\ status[m] = "planned" /\ send[m] = "idle"
  /\ status' = [status EXCEPT ![m] = "gone"]
  /\ Step(m, "cancel")
  /\ UNCHANGED <<rows, timer, due, inbox, online, store, feed, job, current, lock, past, faults>>

dropScheduledPlaintext(m) ==
  /\ send[m] = "cancel"
  /\ early' = early \ {m}
  /\ Step(m, "idle")
  /\ UNCHANGED <<server, inbox, online, texts, spent, cursor, feed, job, current, lock, past,
                 faults>>

-----------------------------------------------------------------------------
\* The page is closed or the app killed: the store stays.  What was between
\* two writes is lost.
die ==
  /\ faults < MaxFaults /\ faults' = faults + 1
  /\ feed' = NoFeed /\ inbox' = << >> /\ online' = FALSE
  /\ job' = [p \in Proc |-> Idle] /\ send' = [m \in Own |-> "idle"]
  /\ current' = Nobody /\ lock' = Nobody
  /\ lost' = lost \cup {Hydrating(p) : p \in {q \in Proc : job[q].pc \in {"catchput", "put"}}}
                  \cup {m \in Forwarded \cup Scheduled : send[m] = "answer"}
  /\ kept' = kept \cup Missed \cup {m \in Own : send[m] = "cancel"}
  /\ doubt' = doubt \cup {m \in Own : send[m] # "idle"}
  /\ UNCHANGED <<server, store, askew>>

Next ==
  \/ \E m \in Msg : \/ peerSends(m) \/ deleteMessage(m) \/ setExpiry(m) \/ elapse(m) \/ reap(m)
  \/ \E m \in Scheduled : deliverScheduled(m) \/ cancelScheduled(m) \/ dropScheduledPlaintext(m)
  \/ \E f \in Fetch : \/ connect(f) \/ invalidate(f) \/ catchUpChat(f) \/ decryptNext(f)
                       \/ decryptKeep(f) \/ caughtUp(f) \/ fetchPage(f)
  \/ \E p \in Proc : \/ readCached(p) \/ readEarly(p) \/ adoptPut(p) \/ adoptDrop(p)
                      \/ decryptOnce(p) \/ decryptPut(p)
  \/ messageCreated \/ messageUpdated \/ messageDeleted \/ sweepExpiredPlaintext \/ disconnect \/ die
  \/ \E m \in Direct : handleSend(m) \/ cacheOutgoingPlaintext(m) \/ answered(m)
                       \/ adoptOutgoingPut(m) \/ adoptOutgoingDrop(m) \/ onSuccess(m)
  \/ \E m \in Own : startOther(m) \/ post(m) \/ sendFails(m) \/ keepOther(m)

Spec == Init /\ [][Next]_vars

-----------------------------------------------------------------------------
(* Properties *)

\* The text of one's own message is on this device from the moment the message
\* is on the server, wherever the app is killed, except in the gaps of
\* forwarding and scheduling, which keep it only after the answer.
OwnTextKept ==
  \A m \in Own :
    status[m] = "there" /\ m \notin due =>
      \/ m \in early \cup plain
      \/ m \in lost \ Direct
      \/ m \in kept
      \/ m \notin Direct /\ send[m] # "idle"

\* A key is spent for a text that is kept: a message of the other side that was
\* decrypted can be read again, except if the app was killed between the two
\* writes, or its key was dropped by a live message or by a catch-up that stopped
\* at its ceiling before it came to it.
TheirTextKept ==
  \A m \in Theirs \cap spent :
    status[m] = "there" /\ m \notin due =>
      \/ m \in plain \cup lost
      \/ \E p \in Proc : job[p].pc \in {"catchput", "put"} /\ Hydrating(p) = m

\* The same message is never shown twice: the answer and the echo of a send end
\* in one bubble; a failed bubble beside the message means its answer was lost.
ShownOnce ==
  feed # NoFeed =>
    /\ \A i, j \in DOMAIN feed : feed[i].id = feed[j].id /\ Temp(feed[i]) = Temp(feed[j]) => i = j
    /\ \A b \in Range(feed) : Temp(b) /\ send[b.id] = "idle" => b.id \in doubt

Quiet ==
  /\ online /\ inbox = << >> /\ feed # NoFeed
  /\ \A p \in Proc : job[p].pc = "idle"
  /\ \A m \in Own : send[m] = "idle"

\* When everything has run, the list is the server's: a message is there, with
\* its text if the device has it, a deleted one is a tombstone, another is
\* not there.  The messages two handlers crossed over (askew) are right again
\* after the next load.
Mirrors ==
  Quiet => \A m \in Msg \ askew :
    LET faces == {b.face : b \in {x \in Bubbles(feed) : Real(x, m)}} IN
    /\ status[m] = "there" =>
         faces \in IF m \in plain \cup early THEN {{"text"}} ELSE {{"text"}, {"lock"}}
    /\ status[m] = "deleted" => faces = {"deleted"}
    /\ status[m] \in {"none", "planned", "gone"} => faces = {}

\* The text of a deleted or disappeared message is not on the device, under its
\* id or under the key it had before, when everything has run.  It may be left
\* if the device was away or had the message in hand when it went, or still had it
\* under the first key, which dropPlaintext does not know; of these, the sweep
\* takes what was kept with a time.
Forgotten ==
  Quiet => \A m \in plain \cup early : status[m] \in {"deleted", "gone"} => m \in kept
=============================================================================
