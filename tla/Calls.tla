-------------------------------- MODULE Calls --------------------------------
(***************************************************************************)
(* Voice-call signalling: backend/internal/calls.  The live state of a     *)
(* call is kept in Redis (one key per call, one "busy" marker per user),   *)
(* the journal in Postgres.  Every frame, REST request, ring timer and     *)
(* last-socket disconnect runs in a goroutine of its own: a job.  One step *)
(* of a job is one round trip to Redis or Postgres together with the       *)
(* events published before the next round trip, so jobs interleave exactly *)
(* where the code can be preempted between two reads or writes.            *)
(***************************************************************************)
EXTENDS Naturals, FiniteSets

CONSTANTS
  User,       \* accounts
  CallId,     \* client-generated call ids, each used by one invite
  Handler,    \* goroutines that may run signalling code at the same time
  Wakeable,   \* users with a push device (canWake)
  Faults,     \* which of "redis", "db", "crash", "reconnect" may happen
  MaxActs,    \* bound on the frames received and connections lost
  None        \* no user, no call

ASSUME CallsAssumption ==
  /\ Wakeable \subseteq User
  /\ None \notin User
  /\ None \notin CallId
  /\ MaxActs \in Nat

VARIABLES
  party,    \* [CallId -> the caller and callee of the invite, or both None]
  call,     \* Redis kisy:call:<id>: the phase, "none" when there is no key
  busy,     \* Redis kisy:call:user:<id>: the call a user is marked busy on
  row,      \* call_logs: [status, ended], status "none" when there is no row
  timer,    \* calls whose in-process ring timer is armed
  online,   \* users with a presence key
  told,     \* the last event published to each side of a call
  acts,     \* history: <<user, frame, call>> for the frames received, <<user,
            \* "drop", None>> for a last socket that closed, <<None, "crash", None>>
            \* for a replica that died; each of them happens once
  slip,     \* history: <<kind, call>> for what went past the checks of the code:
            \* "crossed": a call of one of its users was created while its invite
            \*   was being checked; "blind": Redis failed a check of it;
            \* "unmarked": its marker was taken by a goroutine that meant another
            \*   call, or it was written again after its Delete;
            \* "late": it was answered while it was being written off;
            \* "early": it was ended before its invite was through;
            \* "orphan": the process with its invite or ring timer died
  job       \* [Handler -> the goroutine's local state]

vars == <<party, call, busy, row, timer, online, told, acts, slip, job>>

Phase  == {"none", "ringing", "connected"}
Status == {"none", "missed", "canceled", "rejected", "completed"}
News   == {"none", "incoming", "answered", "over"}
Side   == {"caller", "callee"}
Frame  == {"answer", "reject", "cancel", "hangup"}
Op     == Frame \cup {"invite", "timeout", "disconnect", "idle"}
Slip   == {"crossed", "blind", "unmarked", "late", "early", "orphan"}
Pc     == {"idle", "marker", "livecheck", "reap", "reach", "create", "journal",
           "announce", "get", "markget", "markset", "finalize", "delget", "del"}

NoParty == [caller |-> None, callee |-> None]
NoRow   == [status |-> "none", ended |-> FALSE]
Silent  == [caller |-> "none", callee |-> "none"]
Idle    == [op |-> "idle", pc |-> "idle", who |-> None, on |-> None,
            side |-> "caller", mark |-> None, seen |-> "none"]

Job == [op : Op, pc : Pc, who : User \cup {None}, on : CallId \cup {None},
        side : Side, mark : CallId \cup {None}, seen : Phase]

TypeOK ==
  /\ party \in [CallId -> [caller : User \cup {None}, callee : User \cup {None}]]
  /\ call \in [CallId -> Phase]
  /\ busy \in [User -> CallId \cup {None}]
  /\ row \in [CallId -> [status : Status, ended : BOOLEAN]]
  /\ timer \subseteq CallId
  /\ online \subseteq User
  /\ told \in [CallId -> [caller : News, callee : News]]
  /\ acts \subseteq ((User \cup {None}) \X (Frame \cup {"drop", "crash"}) \X (CallId \cup {None}))
  /\ slip \subseteq (Slip \X CallId)
  /\ job \in [Handler -> Job]

Init ==
  /\ party = [c \in CallId |-> NoParty]
  /\ call = [c \in CallId |-> "none"]
  /\ busy = [u \in User |-> None]
  /\ row = [c \in CallId |-> NoRow]
  /\ timer = {}
  /\ online \in SUBSET User
  /\ told = [c \in CallId |-> Silent]
  /\ acts = {}
  /\ slip = {}
  /\ job = [p \in Handler |-> Idle]

-----------------------------------------------------------------------------
(* Reading the state *)

Invited(c) == party[c] # NoParty

involves(c, u) == u = party[c].caller \/ u = party[c].callee

PartyOf(c, side) == IF side = "caller" THEN party[c].caller ELSE party[c].callee

\* The side of call c that is not user u.
other(c, u) == IF party[c].caller = u THEN "callee" ELSE "caller"

Live(c) == call[c] # "none"

At(p, op, pc) == job[p].op = op /\ job[p].pc = pc

\* A socket whose readPump is handling an invite is not closed yet, so this is
\* not the time of u's last disconnect.  Other sockets of u go on.
Inviting(u) == \E p \in Handler : job[p].op = "invite" /\ job[p].who = u

Dropped(u) == <<u, "drop", None>> \in acts

Goto(p, pc) == job' = [job EXCEPT ![p].pc = pc]
GotoWith(p, pc, phase) == job' = [job EXCEPT ![p].pc = pc, ![p].seen = phase]
Start(p, op, pc, u, c) ==
  job' = [job EXCEPT ![p] = [Idle EXCEPT !.op = op, !.pc = pc, !.who = u, !.on = c]]
Finish(p)   == job' = [job EXCEPT ![p] = Idle]

Hear(heard, side, news) ==
  IF side = "caller" THEN [heard EXCEPT !.caller = news] ELSE [heard EXCEPT !.callee = news]
Tell(c, side, news) == told' = [told EXCEPT ![c] = Hear(@, side, news)]

\* History: what goes past the checks (see slip).
Mark(kind, calls) == slip' = slip \cup ({kind} \X calls)
Slipped(kind, c) == <<kind, c>> \in slip

\* The busy checks cannot be trusted for call c.
Astray(c) == \E k \in {"crossed", "blind", "unmarked"} : Slipped(k, c)

\* The live calls, other than the one meant (c), whose markers are lost when
\* the markers of the users us are written.
Robbed(us, c) == {d \in CallId \ {c} : Live(d) /\ \E u \in us : busy[u] = d}

\* Call c has a goroutine running op at one of the places pcs.
Running(c, op, pcs) == \E q \in Handler : job[q].on = c /\ job[q].op = op /\ job[q].pc \in pcs

WriteRow(c, status, ended) == row' = [row EXCEPT ![c] = [status |-> status, ended |-> ended]]

-----------------------------------------------------------------------------
(* call.invite *)

\* A valid invite from u to v, past the rate limit, the shared-chat check and
\* the block check (a refused invite changes nothing).
onInvite(p, u, v, c) ==
  /\ job[p] = Idle
  /\ u # v /\ u \in online
  /\ ~Invited(c)
  /\ party' = [party EXCEPT ![c] = [caller |-> u, callee |-> v]]
  /\ Start(p, "invite", "marker", u, c)
  /\ UNCHANGED <<call, busy, row, timer, online, told, acts, slip>>

\* Mutant of NotBusy: the callee's busy check is forgotten.
NotBusySkipsCallee(p) ==
  job' = [job EXCEPT ![p].side = "callee", ![p].mark = None, ![p].pc = "reach"]

\* After busyOnLiveCall answered "no" for one side: the callee's turn, or the
\* reachability check.
NotBusy(p) ==
  job' = [job EXCEPT ![p].side = "callee",
                     ![p].mark = None,
                     ![p].pc = IF job[p].side = "caller" THEN "marker" ELSE "reach"]

TakeMarker(p, c) == job' = [job EXCEPT ![p].mark = c, ![p].pc = "livecheck"]

\* busyOnLiveCall: CallIDForUser.
ReadMarker(p) ==
  LET u == PartyOf(job[p].on, job[p].side) IN
  /\ At(p, "invite", "marker")
  /\ \/ busy[u] # None /\ TakeMarker(p, busy[u]) /\ slip' = slip
     \/ busy[u] = None /\ NotBusy(p) /\ slip' = slip
     \/ "redis" \in Faults /\ NotBusy(p) /\ Mark("blind", {job[p].on})
  /\ UNCHANGED <<party, call, busy, row, timer, online, told, acts>>

\* A journal row that is closed as soon as it is written (logInstant).
logInstant(c) ==
  \/ WriteRow(c, "missed", TRUE)
  \/ "db" \in Faults /\ (row' = row \/ WriteRow(c, "missed", FALSE))

\* busyOnLiveCall: Get of the marked call.  A live call ends the attempt.
LiveCheck(p) ==
  LET c == job[p].on
      u == PartyOf(c, job[p].side)
      d == job[p].mark IN
  /\ At(p, "invite", "livecheck")
  /\ \/ /\ Live(d) /\ involves(d, u)
        /\ Tell(c, "caller", "over")
        /\ IF job[p].side = "callee" THEN logInstant(c) ELSE row' = row
        /\ Finish(p)
        /\ slip' = slip
     \/ /\ \/ ~(Live(d) /\ involves(d, u)) /\ slip' = slip
           \/ "redis" \in Faults /\ Mark("blind", {c, d})
        /\ Goto(p, "reap")
        /\ UNCHANGED <<row, told>>
  /\ UNCHANGED <<party, call, busy, timer, online, acts>>

\* busyOnLiveCall: ClearUserBusy on an orphan marker; its error is ignored.
Reap(p) ==
  LET u == PartyOf(job[p].on, job[p].side) IN
  /\ At(p, "invite", "reap")
  /\ \/ busy' = [busy EXCEPT ![u] = None] /\ Mark("unmarked", Robbed({u}, job[p].mark))
     \/ "redis" \in Faults /\ UNCHANGED <<busy, slip>>
  /\ NotBusy(p)
  /\ UNCHANGED <<party, call, row, timer, online, told, acts>>

\* IsOnline and canWake.
Reach(p) ==
  LET c == job[p].on
      v == party[c].callee IN
  /\ At(p, "invite", "reach")
  /\ \/ /\ v \in online \cup Wakeable
        /\ Goto(p, "create")
        /\ UNCHANGED <<row, told>>
     \/ /\ v \notin online \/ "redis" \in Faults
        /\ v \notin Wakeable
        /\ logInstant(c)
        /\ Tell(c, "caller", "over")
        /\ Finish(p)
  /\ UNCHANGED <<party, call, busy, timer, online, acts, slip>>

Parties(c) == {party[c].caller, party[c].callee}

\* The invites that are being checked while call c comes into being.
Crossing(c) ==
  {d \in CallId \ {c} : /\ Parties(c) \cap Parties(d) # {}
                        /\ Running(d, "invite", {"marker", "livecheck", "reap", "reach", "create"})}

\* RedisStore.Create: the call key and both markers in one pipeline.
Create(p) ==
  LET c == job[p].on IN
  /\ At(p, "invite", "create")
  /\ \/ /\ call' = [call EXCEPT ![c] = "ringing"]
        /\ busy' = [busy EXCEPT ![party[c].caller] = c, ![party[c].callee] = c]
        /\ slip' = slip \cup ({"crossed"} \X Crossing(c))
                        \cup ({"unmarked"} \X (IF Astray(c) THEN Robbed(Parties(c), c) ELSE {}))
        /\ Goto(p, "journal")
     \/ /\ "redis" \in Faults
        /\ Finish(p)
        /\ UNCHANGED <<call, busy, slip>>
  /\ UNCHANGED <<party, row, timer, online, told, acts>>

\* Mutant of Journal: the ring timer is armed before the phone rings.
JournalArmsTimer(p) ==
  LET c == job[p].on IN
  /\ At(p, "invite", "journal")
  /\ WriteRow(c, "missed", FALSE)
  /\ timer' = timer \cup {c}
  /\ Goto(p, "announce")
  /\ UNCHANGED <<party, call, busy, online, told, acts, slip>>

\* PostgresRepository.Create: the row starts as missed; a failure is logged.
Journal(p) ==
  LET c == job[p].on IN
  /\ At(p, "invite", "journal")
  /\ \/ WriteRow(c, "missed", FALSE)
     \/ "db" \in Faults /\ row' = row
  /\ Goto(p, "announce")
  /\ UNCHANGED <<party, call, busy, timer, online, told, acts, slip>>

\* Mutant of Announce: no timer is armed.
AnnounceWithoutTimer(p) ==
  LET c == job[p].on IN
  /\ At(p, "invite", "announce")
  /\ Tell(c, "callee", "incoming")
  /\ Finish(p)
  /\ UNCHANGED <<party, call, busy, row, timer, online, acts, slip>>

\* Incoming to the callee (socket and push), then the ring timer.
Announce(p) ==
  LET c == job[p].on IN
  /\ At(p, "invite", "announce")
  /\ Tell(c, "callee", "incoming")
  /\ timer' = timer \cup {c}
  /\ Finish(p)
  /\ UNCHANGED <<party, call, busy, row, online, acts, slip>>

-----------------------------------------------------------------------------
(* call.answer, call.reject, call.cancel, call.hangup *)

\* A frame about a call that was placed; only a reject can do without a
\* socket (Reject over REST).
HandleSignal(p, u, f, c) ==
  /\ job[p] = Idle
  /\ Invited(c)
  /\ u \in online \/ f = "reject"
  /\ <<u, f, c>> \notin acts /\ Cardinality(acts) < MaxActs
  /\ acts' = acts \cup {<<u, f, c>>}
  /\ Start(p, f, "get", u, c)
  /\ UNCHANGED <<party, call, busy, row, timer, online, told, slip>>

\* A ringing call that a timeout has begun to write off, or left half written off.
WrittenOff(c) == row[c].ended \/ Running(c, "timeout", {"finalize", "delget", "del"})

\* onAnswer: only the callee, only while ringing.
AnswerGet(p) ==
  LET c == job[p].on IN
  /\ At(p, "answer", "get")
  /\ \/ /\ call[c] = "ringing" /\ party[c].callee = job[p].who
        /\ Goto(p, "markget")
        /\ IF WrittenOff(c) THEN Mark("late", {c}) ELSE slip' = slip
     \/ /\ ~(call[c] = "ringing" /\ party[c].callee = job[p].who) \/ "redis" \in Faults
        /\ Finish(p)
        /\ slip' = slip
  /\ UNCHANGED <<party, call, busy, row, timer, online, told, acts>>

\* MarkAnswered reads the call again.  A call that is gone is not an error:
\* onAnswer goes on to publish Answered.
MarkGet(p) ==
  LET c == job[p].on IN
  /\ At(p, "answer", "markget")
  /\ \/ Live(c) /\ Goto(p, "markset") /\ told' = told
     \/ ~Live(c) /\ Finish(p) /\ Tell(c, "caller", "answered")
     \/ "redis" \in Faults /\ Finish(p) /\ told' = told
  /\ UNCHANGED <<party, call, busy, row, timer, online, acts, slip>>

\* MarkAnswered writes the copy it read, with the longer TTL: a call that was
\* deleted in between is there again, without markers.
MarkSet(p) ==
  LET c == job[p].on IN
  /\ At(p, "answer", "markset")
  /\ \/ /\ call' = [call EXCEPT ![c] = "connected"] /\ Tell(c, "caller", "answered")
        /\ IF Live(c) THEN slip' = slip ELSE Mark("unmarked", {c})
     \/ "redis" \in Faults /\ UNCHANGED <<call, told, slip>>
  /\ Finish(p)
  /\ UNCHANGED <<party, busy, row, timer, online, acts>>

\* onTerminate: the role checks, then the event to the other side.
MayTerminate(c, u, f) ==
  /\ Live(c)
  /\ involves(c, u)
  /\ f = "reject" => u = party[c].callee
  /\ f = "cancel" => u = party[c].caller

\* History: the invite of c has not been announced yet when c is ended.
EndedEarly(c) ==
  IF Running(c, "invite", {"journal", "announce"}) THEN Mark("early", {c}) ELSE slip' = slip

TerminateGet(p) ==
  LET c == job[p].on
      u == job[p].who
      f == job[p].op IN
  /\ f \in {"reject", "cancel", "hangup"} /\ job[p].pc = "get"
  /\ \/ /\ MayTerminate(c, u, f)
        /\ Tell(c, other(c, u), "over")
        /\ GotoWith(p, "finalize", call[c])
        /\ EndedEarly(c)
     \/ /\ ~MayTerminate(c, u, f) \/ "redis" \in Faults
        /\ Finish(p)
        /\ UNCHANGED <<told, slip>>
  /\ UNCHANGED <<party, call, busy, row, timer, online, acts>>

-----------------------------------------------------------------------------
(* The ring timer and the last-socket disconnect *)

\* The timer fires: a goroutine starts onRingTimeout.
RingTimer(p, c) ==
  /\ job[p] = Idle
  /\ c \in timer
  /\ timer' = timer \ {c}
  /\ Start(p, "timeout", "get", None, c)
  /\ UNCHANGED <<party, call, busy, row, online, told, acts, slip>>

\* Mutant of onRingTimeout: the phase is not looked at.
RingTimeoutAnyPhase(p) ==
  LET c == job[p].on IN
  /\ At(p, "timeout", "get")
  /\ \/ Live(c) /\ GotoWith(p, "finalize", call[c])
     \/ ~Live(c) /\ Finish(p)
  /\ UNCHANGED <<party, call, busy, row, timer, online, told, acts, slip>>

\* onRingTimeout: only a call that is still ringing is written off.
onRingTimeout(p) ==
  LET c == job[p].on IN
  /\ At(p, "timeout", "get")
  /\ \/ /\ call[c] = "ringing"
        /\ GotoWith(p, "finalize", call[c])
        /\ IF Running(c, "answer", {"markget", "markset"}) THEN Mark("late", {c}) ELSE slip' = slip
     \/ /\ call[c] # "ringing" \/ "redis" \in Faults
        /\ Finish(p)
        /\ slip' = slip
  /\ UNCHANGED <<party, call, busy, row, timer, online, told, acts>>

\* The last socket of u closes (markPresence calls the presence sink).
Disconnect(p, u) ==
  /\ job[p] = Idle
  /\ u \in online
  /\ ~Inviting(u)
  /\ <<u, "drop", None>> \notin acts /\ Cardinality(acts) < MaxActs
  /\ online' = online \ {u}
  /\ acts' = acts \cup {<<u, "drop", None>>}
  /\ Start(p, "disconnect", "marker", u, None)
  /\ UNCHANGED <<party, call, busy, row, timer, told, slip>>

Connect(u) ==
  /\ u \notin online
  /\ Dropped(u) => "reconnect" \in Faults
  /\ online' = online \cup {u}
  /\ UNCHANGED <<party, call, busy, row, timer, told, acts, slip, job>>

TakeCall(p, c) == job' = [job EXCEPT ![p].on = c, ![p].pc = "get"]

\* HandleDisconnect: CallIDForUser.
DisconnectMarker(p) ==
  LET u == job[p].who IN
  /\ At(p, "disconnect", "marker")
  /\ \/ busy[u] # None /\ TakeCall(p, busy[u])
     \/ (busy[u] = None \/ "redis" \in Faults) /\ Finish(p)
  /\ UNCHANGED <<party, call, busy, row, timer, online, told, acts, slip>>

\* Mutant of DisconnectGet: a callee that drops while ringing ends the call.
DisconnectGetRefuses(p) ==
  LET c == job[p].on IN
  /\ At(p, "disconnect", "get")
  /\ \/ ~(Live(c) /\ involves(c, job[p].who)) /\ Goto(p, "reap")
     \/ /\ Live(c) /\ involves(c, job[p].who)
        /\ GotoWith(p, "finalize", call[c])
  /\ UNCHANGED <<party, call, busy, row, timer, online, told, acts, slip>>

\* HandleDisconnect: Get.  A callee that drops while ringing ends nothing.
DisconnectGet(p) ==
  LET c == job[p].on
      u == job[p].who IN
  /\ At(p, "disconnect", "get")
  /\ \/ ~(Live(c) /\ involves(c, u)) /\ Goto(p, "reap") /\ slip' = slip
     \/ /\ Live(c) /\ involves(c, u) /\ call[c] = "ringing" /\ u # party[c].caller
        /\ Finish(p)
        /\ slip' = slip
     \/ /\ Live(c) /\ involves(c, u) /\ (call[c] = "connected" \/ u = party[c].caller)
        /\ GotoWith(p, "finalize", call[c])
        /\ EndedEarly(c)
     \/ "redis" \in Faults /\ Finish(p) /\ slip' = slip
  /\ UNCHANGED <<party, call, busy, row, timer, online, told, acts>>

DisconnectReap(p) ==
  /\ At(p, "disconnect", "reap")
  /\ \/ busy' = [busy EXCEPT ![job[p].who] = None] /\ Mark("unmarked", Robbed({job[p].who}, job[p].on))
     \/ "redis" \in Faults /\ UNCHANGED <<busy, slip>>
  /\ Finish(p)
  /\ UNCHANGED <<party, call, row, timer, online, told, acts>>

-----------------------------------------------------------------------------
(* The common end of onTerminate, onRingTimeout and HandleDisconnect *)

\* The journal status each path writes, from the copy of the call it read.
FinalStatus(j) ==
  CASE j.op = "reject"  -> "rejected"
    [] j.op = "cancel"  -> "canceled"
    [] j.op = "timeout" -> "missed"
    [] j.op = "hangup" /\ j.seen # "connected" ->
         IF j.who = party[j.on].caller THEN "canceled" ELSE "rejected"
    [] j.op = "disconnect" /\ j.seen # "connected" -> "canceled"
    [] OTHER -> "completed"

\* UPDATE call_logs WHERE id: no row, no effect; a failure is only logged.
finalize(p) ==
  LET c == job[p].on IN
  /\ job[p].pc = "finalize"
  /\ \/ row[c] # NoRow /\ WriteRow(c, FinalStatus(job[p]), TRUE)
     \/ (row[c] = NoRow \/ "db" \in Faults) /\ row' = row
  /\ Goto(p, "delget")
  /\ UNCHANGED <<party, call, busy, timer, online, told, acts, slip>>

\* What is published once Delete has returned, whatever it returned.
Farewell(p) ==
  LET c == job[p].on IN
  /\ told' = [told EXCEPT ![c] =
       CASE job[p].op = "timeout"    -> [caller |-> "over", callee |-> "over"]
         [] job[p].op = "disconnect" -> Hear(@, other(c, job[p].who), "over")
         [] OTHER -> @]
  /\ Finish(p)

\* RedisStore.Delete reads the call to learn whose markers to clear.
DeleteGet(p) ==
  LET c == job[p].on IN
  /\ job[p].pc = "delget"
  /\ \/ GotoWith(p, "del", call[c]) /\ told' = told
     \/ "redis" \in Faults /\ Farewell(p)
  /\ UNCHANGED <<party, call, busy, row, timer, online, acts, slip>>

\* RedisStore.Delete: the key, and if it was found both markers, whichever
\* call they name by now.
Delete(p) ==
  LET c == job[p].on IN
  /\ job[p].pc = "del"
  /\ \/ /\ call' = [call EXCEPT ![c] = "none"]
        /\ IF job[p].seen = "none" THEN UNCHANGED <<busy, slip>>
           ELSE /\ busy' = [busy EXCEPT ![party[c].caller] = None, ![party[c].callee] = None]
                /\ Mark("unmarked", Robbed(Parties(c), c))
     \/ "redis" \in Faults /\ UNCHANGED <<call, busy, slip>>
  /\ Farewell(p)
  /\ UNCHANGED <<party, row, timer, online, acts>>

-----------------------------------------------------------------------------
(* Redis expiry and crashes *)

\* The call key lapses.  A ringing key outlives its ring timer by 15 seconds,
\* so it lapses only once the timer has fired or died with its process.
ExpireCall(c) ==
  /\ Live(c)
  /\ call[c] = "ringing" => /\ c \notin timer
                            /\ \A p \in Handler : job[p].on = c => job[p].op \notin {"invite", "timeout"}
  /\ call' = [call EXCEPT ![c] = "none"]
  /\ UNCHANGED <<party, busy, row, timer, online, told, acts, slip, job>>

\* A marker is set and extended right after its call key with the same TTL, so
\* it lapses only once the key has.
ExpireMarker(u) ==
  /\ busy[u] # None
  /\ ~Live(busy[u])
  /\ busy' = [busy EXCEPT ![u] = None]
  /\ UNCHANGED <<party, call, row, timer, online, told, acts, slip, job>>

Working == {p \in Handler : job[p] # Idle}

\* One replica of the process dies: the goroutines ps it ran and the ring timers
\* ts it had armed are gone, and so are the last sockets of the users us,
\* without a disconnect hook.  Which goroutines, timers and sockets it had is
\* open; the other replicas, Redis and Postgres stay.
Crash(ps, ts, us) ==
  /\ "crash" \in Faults /\ <<None, "crash", None>> \notin acts
  /\ Cardinality(acts) < MaxActs
  /\ job' = [p \in Handler |-> IF p \in ps THEN Idle ELSE job[p]]
  /\ timer' = timer \ ts
  /\ acts' = acts \cup (us \X {"drop"} \X {None}) \cup {<<None, "crash", None>>}
  /\ Mark("orphan", ts \cup {c \in CallId : \E p \in ps : job[p].on = c /\ job[p].op \in {"invite", "timeout"}})
  /\ UNCHANGED <<party, call, busy, row, online, told>>

\* A presence key nobody refreshes any more lapses without a disconnect hook.
ExpirePresence(u) ==
  /\ "crash" \in Faults
  /\ u \in online /\ Dropped(u)
  /\ online' = online \ {u}
  /\ UNCHANGED <<party, call, busy, row, timer, told, acts, slip, job>>

-----------------------------------------------------------------------------
(* One step of the goroutine p, whatever it is running. *)
HandlerStep(p) ==
  \/ ReadMarker(p) \/ LiveCheck(p) \/ Reap(p) \/ Reach(p) \/ Create(p) \/ Journal(p) \/ Announce(p)
  \/ AnswerGet(p) \/ MarkGet(p) \/ MarkSet(p) \/ TerminateGet(p)
  \/ onRingTimeout(p)
  \/ DisconnectMarker(p) \/ DisconnectGet(p) \/ DisconnectReap(p)
  \/ finalize(p) \/ DeleteGet(p) \/ Delete(p)

Next ==
  \/ \E p \in Handler :
       \/ \E u, v \in User, c \in CallId : onInvite(p, u, v, c)
       \/ \E u \in User, f \in Frame, c \in CallId : HandleSignal(p, u, f, c)
       \/ \E c \in CallId : RingTimer(p, c)
       \/ \E u \in User : Disconnect(p, u)
       \/ HandlerStep(p)
  \/ \E u \in User : Connect(u) \/ ExpireMarker(u) \/ ExpirePresence(u)
  \/ \E c \in CallId : ExpireCall(c)
  \/ \E ps \in SUBSET Working, ts \in SUBSET timer, us \in SUBSET User : Crash(ps, ts, us)

Spec == Init /\ [][Next]_vars

\* Go schedules every goroutine, so a started job finishes.  A ring timer fires
\* whatever the other goroutines do (there is one goroutine per timer in the
\* code and only a bounded set of slots here), hence strong fairness.
Fairness ==
  /\ \A p \in Handler : WF_vars(HandlerStep(p))
  /\ \A c \in CallId : SF_vars(\E p \in Handler : RingTimer(p, c))

FairSpec == Spec /\ Fairness

-----------------------------------------------------------------------------
(* Properties *)

Sent(u, fs, c) == \E f \in fs : <<u, f, c>> \in acts

RowTruth(c) ==
  /\ row[c].status = "completed" => Sent(party[c].callee, {"answer"}, c)
  /\ row[c].status = "rejected"  => Sent(party[c].callee, {"reject", "hangup"}, c)
  /\ row[c].status = "canceled"  => \/ Sent(party[c].caller, {"cancel", "hangup"}, c)
                                    \/ Dropped(party[c].caller)

\* The journal never invents what a participant did: "completed" needs an
\* answer from the callee, "rejected" a reject or hangup frame from the callee
\* (a disconnect is never a refusal), "canceled" a cancel, a hangup or a lost
\* connection of the caller.
JournalTruth == \A c \in CallId : RowTruth(c)

\* Two live calls share a user only if the checks of an invite ran while the
\* other call was being created, or could not read Redis, or if one of the calls
\* had lost a marker: whatever else interleaves, the busy check of onInvite holds.
OneLiveCall ==
  \A c, d \in CallId : Live(c) /\ Live(d) /\ c # d /\ Parties(c) \cap Parties(d) # {} =>
    Astray(c) \/ Astray(d)

\* A call written off as missed is one whose caller was not told "answered",
\* unless the answer read the call while the ring timeout was writing it off.
MissedWasNotAnswered ==
  \A c \in CallId :
    row[c] = [status |-> "missed", ended |-> TRUE] /\ told[c].caller = "answered" => Slipped("late", c)

\* "Over" is the last word: nobody is told afterwards that the call was answered
\* or comes in, unless the call was ended before its invite was through, was
\* answered while it was being written off, or its callee both answered and
\* ended it (from two devices).
LastWord ==
  [][\A c \in CallId :
       /\ told[c].callee = "over" /\ told'[c].callee # "over" => Slipped("early", c)
       /\ told[c].caller = "over" /\ told'[c].caller # "over" =>
            Slipped("late", c) \/ Sent(party[c].callee, {"reject", "hangup"}, c)]_vars

\* Everybody hears that a call is over.  A caller hears an outcome, unless the
\* caller ended the call or lost the connection; a phone that started ringing
\* is told to stop, unless its user answered, refused or lost the connection.
\* Excepted are a call whose invite or ring timer died with its process, and
\* a phone told of a call that the caller had already ended.
BothHear ==
  \A c \in CallId :
    LET a == party[c].caller  b == party[c].callee IN
    /\ Invited(c) ~>
         \/ told[c].caller # "none" \/ Sent(a, {"cancel", "hangup"}, c) \/ Dropped(a)
         \/ Slipped("orphan", c)
    /\ told[c].callee = "incoming" ~>
         \/ told[c].callee = "over" \/ Sent(b, {"answer", "reject", "hangup"}, c) \/ Dropped(b)
         \/ Slipped("orphan", c) \/ Slipped("early", c)
=============================================================================
