----------------------------- MODULE CallScreen -----------------------------
(***************************************************************************)
(* The call screen of one phone: features/call/useCall.ts, which owns the  *)
(* only call session of the client, its microphone, its peer connection    *)
(* and its ringtone.  JavaScript runs one step at a time; what makes it    *)
(* hard is that startCall, accept and resumePending wait for the           *)
(* microphone, the relays or the server in the middle, and that socket     *)
(* events, buttons, timers and the native ringing screen run meanwhile.    *)
(*                                                                         *)
(* A microphone and a connection are created by one run of startCall or    *)
(* accept and are named after it (an attempt).  The server, the peer, the  *)
(* browser's WebRTC and the native screen are modelled from how this code  *)
(* uses them.                                                              *)
(***************************************************************************)
EXTENDS Naturals, Sequences, FiniteSets

CONSTANTS
  In,          \* calls other users make to this phone, numbered as they come
  Pushed,      \* those that also ring on the native screen
  Out,         \* ids of the calls it makes itself (crypto.randomUUID)
  NoCall, NoSession,
  MaxAttempts, \* bound on the runs of startCall and accept
  MaxWakes,    \* bound on pushes, focus and visibility events
  MaxTaps      \* bound on taps on the native ringing screen

ASSUME CallScreenAssumption ==
  /\ In \subseteq Nat /\ In \cap Out = {} /\ Pushed \subseteq In /\ NoCall \notin In \cup Out
  /\ MaxAttempts \in Nat /\ MaxWakes \in Nat /\ MaxTaps \in Nat

VARIABLES
  session,      \* session.current
  phase,        \* view.phase
  reconnecting, \* view.reconnecting
  ring,         \* the in-app ringtone
  attempt,      \* [Attempt -> how far that run of startCall or accept is]
  mics,         \* the attempts whose microphone is open
  conn,         \* [Attempt -> its RTCPeerConnection]
  visible,      \* document.visibilityState
  deferred,     \* deferredAnswer.current
  handled,      \* handledNative.current
  decided,      \* the decision the native screen left on disk
  requests,     \* requests this hook awaits
  srv,          \* [Call -> the call, as the server has it]
  inbox,        \* socket events on their way to the phone
  wakes, taps,
  wanted,       \* history: calls the user asked to answer
  slip          \* history: what went past the code's guards

ui   == <<session, phase, reconnecting, ring>>
work == <<attempt, mics, conn>>
nat  == <<visible, deferred, handled, decided, requests, wakes, taps>>
net  == <<srv, inbox>>
hist == <<wanted, slip>>
vars == <<ui, work, nat, net, hist>>

Call    == In \cup Out
Attempt == 1 .. MaxAttempts
Session == [id : Nat, call : Call, role : {"caller", "callee"},
            media : 0 .. MaxAttempts, established : BOOLEAN,
            recovery : {"none", "wait", "on"}]
Phase   == {"idle", "outgoing", "incoming", "connecting", "active", "ended"}
Task    == [at : {"unused", "mic", "ice", "sdp", "done"}, role : {"caller", "callee"},
            of : Nat, call : Call \cup {NoCall}, auto : BOOLEAN]
Unused  == [at |-> "unused", role |-> "caller", of |-> 0, call |-> NoCall, auto |-> FALSE]
Event   == [event : {"incoming", "answered", "over"}, call : Call]
Decision == [action : {"accept", "reject"}, call : Pushed]
NoDecision == [action |-> "none", call |-> NoCall]
\* what the answer is for, and the call GET /calls/pending found
Request == [for : {"pickUp", "take", "tap", "answer", "decline"},
            on : Decision \cup {NoDecision}, got : In \cup {NoCall}]

TypeOK ==
  /\ session \in Session \cup {NoSession}
  /\ phase \in Phase /\ reconnecting \in BOOLEAN
  /\ ring \in {"off", "in", "out"}
  /\ attempt \in [Attempt -> Task]
  /\ mics \subseteq Attempt
  /\ conn \in [Attempt -> {"none", "new", "checking", "connected", "down", "failed", "closed"}]
  /\ visible \in BOOLEAN
  /\ deferred \in In \cup {NoCall}
  /\ handled \subseteq Decision
  /\ decided \in Decision \cup {NoDecision}
  /\ requests \subseteq Request
  /\ srv \in [Call -> {"none", "ringing", "answered", "over"}]
  /\ inbox \in Seq(Event)
  /\ wakes \in 0 .. MaxWakes /\ taps \in 0 .. MaxTaps
  /\ wanted \subseteq In
  /\ slip \subseteq {"crossed", "double", "stale", "late", "echo", "silent"}

Init ==
  /\ session = NoSession /\ phase = "idle" /\ reconnecting = FALSE /\ ring = "off"
  /\ attempt = [a \in Attempt |-> Unused] /\ mics = {}
  /\ conn = [a \in Attempt |-> "none"]
  /\ visible \in BOOLEAN /\ deferred = NoCall /\ handled = {} /\ decided = NoDecision
  /\ requests = {}
  /\ srv = [c \in Call |-> "none"] /\ inbox = << >>
  /\ wakes = 0 /\ taps = 0
  /\ wanted = {} /\ slip = {}

Slips(kind, happened) == slip' = IF happened THEN slip \cup {kind} ELSE slip

(***************************************************************************)
(* The two ends of every call: cleanupMedia acts on session.current alone. *)
(***************************************************************************)
Holds(a) == session # NoSession /\ session.media = a

\* Mutant of cleanupMedia: the microphone's tracks are not stopped.
cleanupMediaListens(c, m) ==
  /\ ring' = "off"
  /\ conn' = [a \in Attempt |-> IF Holds(a) THEN "closed" ELSE c[a]]
  /\ mics' = m

cleanupMedia(c, m) ==
  /\ ring' = "off"
  /\ conn' = [a \in Attempt |-> IF Holds(a) THEN "closed" ELSE c[a]]
  /\ mics' = {a \in m : ~Holds(a)}

EndSession(p) ==
  session' = NoSession /\ phase' = p /\ reconnecting' = FALSE

teardown   == cleanupMedia(conn, mics) /\ EndSession("idle")
finishWith == cleanupMedia(conn, mics) /\ EndSession("ended")

\* finishWith's 2.5-second timer.
endTimer ==
  /\ phase = "ended"
  /\ phase' = "idle" /\ reconnecting' = FALSE
  /\ UNCHANGED <<session, ring, work, nat, net, hist>>

(***************************************************************************)
(* Frames to the server, which takes them in the order they were sent.     *)
(***************************************************************************)
Live == \E c \in Call : srv[c] \in {"ringing", "answered"}

\* The server lets a user be in one call; another invite is answered call.busy.
Served(frame, c) ==
  CASE frame = "invite"                       -> IF Live THEN "over" ELSE "ringing"
    [] frame = "answer" /\ srv[c] = "ringing" -> "answered"
    [] frame = "end"    /\ srv[c] # "none"    -> "over"
    [] OTHER                                  -> srv[c]

Send(frame, c) ==
  /\ srv' = [srv EXCEPT ![c] = Served(frame, c)]
  /\ inbox' = IF frame = "invite" /\ Live
              THEN Append(inbox, [event |-> "over", call |-> c]) ELSE inbox

(***************************************************************************)
(* startCall                                                               *)
(***************************************************************************)
Busy == phase \notin {"idle", "ended"}
Current(a) == session # NoSession /\ session.id = attempt[a].of
InFlight(a) == attempt[a].at \in {"mic", "ice", "sdp"}
Foreign(a) == session # NoSession /\ ~Current(a)

\* startCall has begun and made no session yet.
Dialing == \E a \in Attempt : attempt[a].role = "caller" /\ attempt[a].at \in {"mic", "ice"}

\* Attempts are numbered in the order they start.
Unstarted(a) ==
  attempt[a].at = "unused" /\ \A b \in Attempt : b < a => attempt[b].at # "unused"

At(a, at) ==
  attempt' = [attempt EXCEPT ![a] =
    IF at = "done" THEN [Unused EXCEPT !.at = at, !.call = attempt[a].call] ELSE [@ EXCEPT !.at = at]]

\* A session is an object: a new one differs from all that are still referred to.
NewId == CHOOSE i \in 1 .. MaxAttempts + 1 :
  \A j \in 1 .. MaxAttempts + 1 :
    (\A a \in Attempt : attempt[a].of # j) => i <= j /\ \A a \in Attempt : attempt[a].of # i

startCall(a, c) ==
  /\ session = NoSession /\ ~Busy
  /\ Unstarted(a)
  /\ \A b \in Attempt : attempt[b].call # c
  /\ phase' = "outgoing" /\ reconnecting' = FALSE
  /\ attempt' = [attempt EXCEPT ![a] =
       [at |-> "mic", role |-> "caller", of |-> 0, call |-> c, auto |-> FALSE]]
  /\ UNCHANGED <<session, ring, mics, conn, nat, net, hist>>

\* getUserMedia answers.
startMic(a) ==
  /\ attempt[a].at = "mic" /\ attempt[a].role = "caller"
  /\ \/ /\ At(a, "ice") /\ mics' = mics \cup {a}
        /\ UNCHANGED <<ui, conn, hist>>
     \/ At(a, "done") /\ finishWith /\ UNCHANGED hist
  /\ UNCHANGED <<nat, net>>

\* fetchIce answers: connection and session are made, whatever session there is.
startIce(a) ==
  /\ attempt[a].at = "ice" /\ attempt[a].role = "caller"
  /\ conn' = [conn EXCEPT ![a] = "new"]
  /\ session' = [id |-> NewId, call |-> attempt[a].call, role |-> "caller",
                 media |-> a, established |-> FALSE, recovery |-> "none"]
  /\ attempt' = [attempt EXCEPT ![a].at = "sdp", ![a].of = NewId]
  /\ ring' = "out"
  /\ UNCHANGED <<phase, reconnecting, mics, nat, net, hist>>

\* createOffer and setLocalDescription; they reject once the connection is
\* closed (a promise that was pending then never settles).
startOffer(a) ==
  /\ attempt[a].at = "sdp" /\ attempt[a].role = "caller" /\ At(a, "done")
  /\ \/ /\ conn[a] # "closed" /\ Send("invite", attempt[a].call)
        /\ UNCHANGED <<ui, mics, conn, hist>>
     \/ /\ finishWith /\ Slips("stale", Foreign(a))
        /\ UNCHANGED <<net, wanted>>
     \/ /\ conn[a] = "closed" /\ UNCHANGED <<ui, mics, conn, net, hist>>
  /\ UNCHANGED nat

(***************************************************************************)
(* An incoming call and accept                                             *)
(***************************************************************************)
Ringing(c) == [id |-> NewId, call |-> c, role |-> "callee", media |-> 0,
               established |-> FALSE, recovery |-> "none"]

\* onIncoming's session, when there was none.
RingFor(c) ==
  /\ session' = Ringing(c)
  /\ phase' = "incoming" /\ reconnecting' = FALSE

\* What is wrong with ringing for c now: a call is being dialed; c is over and
\* no event that would say so is on its way.
Unsound(c) ==
  {k \in {"crossed"} : Dialing}
    \cup {k \in {"late"} : srv[c] # "ringing"
                          /\ \A i \in DOMAIN inbox : inbox[i] # [event |-> "over", call |-> c]}

Answerable(s) == s # NoSession /\ s.role = "callee" /\ s.media = 0

\* accept up to its first await, for the session s.
beginAccept(s, auto) ==
  \E a \in Attempt :
    /\ Unstarted(a)
    /\ attempt' = [attempt EXCEPT ![a] =
         [at |-> "mic", role |-> "callee", of |-> s.id, call |-> s.call, auto |-> auto]]

BeingAnswered(s) == \E b \in Attempt : InFlight(b) /\ attempt[b].of = s.id

\* The card's button.
accept ==
  /\ phase = "incoming" /\ Answerable(session)
  /\ beginAccept(session, FALSE) /\ Slips("double", BeingAnswered(session))
  /\ ring' = "off" /\ wanted' = wanted \cup {session.call}
  /\ UNCHANGED <<session, phase, reconnecting, mics, conn, nat, net>>

acceptMic(a) ==
  /\ attempt[a].at = "mic" /\ attempt[a].role = "callee"
  /\ \/ /\ At(a, "ice") /\ mics' = mics \cup {a}
        /\ UNCHANGED <<ui, conn, net, hist>>
     \/ /\ attempt[a].auto /\ At(a, "done")
        /\ ring' = "in"
        /\ phase' = IF phase = "idle" THEN phase ELSE "incoming"
        /\ Slips("stale", ~Current(a))
        /\ UNCHANGED <<session, reconnecting, mics, conn, net, wanted>>
     \/ /\ ~attempt[a].auto /\ At(a, "done")
        /\ Send("end", attempt[a].call) /\ finishWith
        /\ Slips("stale", Foreign(a)) /\ UNCHANGED wanted
  /\ UNCHANGED nat

acceptIce(a) ==
  /\ attempt[a].at = "ice" /\ attempt[a].role = "callee" /\ At(a, "sdp")
  /\ conn' = [conn EXCEPT ![a] = "new"]
  /\ session' = IF Current(a) THEN [session EXCEPT !.media = a] ELSE session
  /\ phase' = "connecting"
  /\ Slips("stale", ~Current(a))
  /\ UNCHANGED <<reconnecting, ring, mics, nat, net, wanted>>

acceptAnswer(a) ==
  /\ attempt[a].at = "sdp" /\ attempt[a].role = "callee" /\ At(a, "done")
  /\ \/ /\ conn[a] # "closed" /\ Send("answer", attempt[a].call)
        /\ conn' = [conn EXCEPT ![a] = "checking"]
        /\ UNCHANGED <<ui, mics, hist>>
     \/ /\ Send("end", attempt[a].call) /\ finishWith
        /\ Slips("stale", Foreign(a)) /\ UNCHANGED wanted
     \/ /\ conn[a] = "closed" /\ UNCHANGED <<ui, mics, conn, net, hist>>
  /\ UNCHANGED nat

(***************************************************************************)
(* The other buttons                                                       *)
(***************************************************************************)
reject ==
  /\ phase = "incoming" /\ session # NoSession
  /\ Send("end", session.call) /\ teardown
  /\ UNCHANGED <<attempt, nat, hist>>

\* Mutant of hangup: the screen closes and nobody is told.
hangupQuietly ==
  /\ phase \in {"outgoing", "connecting", "active"} /\ session # NoSession
  /\ teardown
  /\ UNCHANGED <<attempt, nat, net, hist>>

hangup ==
  /\ phase \in {"outgoing", "connecting", "active"} /\ session # NoSession
  /\ Send("end", session.call) /\ teardown
  /\ UNCHANGED <<attempt, nat, hist>>

(***************************************************************************)
(* Socket events                                                           *)
(***************************************************************************)
Mine(e) == session # NoSession /\ session.call = e.call

onIncoming(e) ==
  /\ e.event = "incoming"
  /\ IF session # NoSession
       THEN /\ srv' = [srv EXCEPT ![e.call] = Served("end", e.call)]
            /\ Slips("echo", Mine(e)) /\ UNCHANGED ui
       ELSE /\ RingFor(e.call) /\ ring' = "in" /\ slip' = slip \cup Unsound(e.call)
            /\ UNCHANGED srv
  /\ UNCHANGED <<mics, conn>>

\* call.answered: setRemoteDescription may refuse the answer.
onAnswered(e) ==
  /\ e.event = "answered"
  /\ IF Mine(e) /\ session.role = "caller" /\ session.media # 0
       THEN \/ /\ ring' = "off" /\ phase' = "connecting"
               /\ conn' = [conn EXCEPT ![session.media] = "checking"]
               /\ UNCHANGED <<session, reconnecting, mics, slip>>
            \/ finishWith /\ Slips("silent", TRUE)
       ELSE UNCHANGED <<ui, mics, conn, slip>>
  /\ UNCHANGED srv

\* call.rejected, call.canceled, call.busy, call.timeout and call.ended.
onOver(e) ==
  /\ e.event = "over"
  /\ IF Mine(e) THEN finishWith ELSE UNCHANGED <<ui, mics, conn>>
  /\ UNCHANGED <<srv, slip>>

Deliver ==
  /\ inbox # << >>
  /\ LET e == Head(inbox) IN onIncoming(e) \/ onAnswered(e) \/ onOver(e)
  /\ inbox' = Tail(inbox)
  /\ UNCHANGED <<attempt, nat, wanted>>

(***************************************************************************)
(* pc.onconnectionstatechange, and the recovery of a dropped call.         *)
(* cleanupMedia takes the handlers off a connection it closes.             *)
(***************************************************************************)
connected(a) ==
  /\ conn[a] \in {"checking", "down"} /\ srv[attempt[a].call] = "answered"
  /\ conn' = [conn EXCEPT ![a] = "connected"]
  /\ IF Holds(a)
       THEN /\ session' = [session EXCEPT !.established = TRUE, !.recovery = "none"]
            /\ reconnecting' = IF session.recovery # "none" THEN FALSE ELSE reconnecting
       ELSE UNCHANGED <<session, reconnecting>>
  /\ ring' = "off"
  /\ phase' = IF Busy THEN "active" ELSE phase
  /\ UNCHANGED <<attempt, mics, nat, net, hist>>

beginRecovery ==
  session' = [session EXCEPT !.recovery = IF @ = "none" THEN "wait" ELSE @]

\* "disconnected" or "failed" of a call that has been up.
dropped(a) ==
  /\ conn[a] = "connected"
  /\ \/ /\ conn' = [conn EXCEPT ![a] = "down"]
        /\ IF Holds(a) /\ session.established THEN beginRecovery ELSE UNCHANGED session
        /\ UNCHANGED <<phase, reconnecting, ring, mics>>
     \/ /\ ~Holds(a) /\ cleanupMedia([conn EXCEPT ![a] = "failed"], mics)
        /\ EndSession("ended")
  /\ UNCHANGED <<attempt, nat, net, hist>>

\* Never connected at all: the call ends here, and nobody is told.
failed(a) ==
  /\ conn[a] = "checking"
  /\ cleanupMedia([conn EXCEPT ![a] = "failed"], mics) /\ EndSession("ended")
  /\ Slips("silent", TRUE)
  /\ UNCHANGED <<attempt, nat, net, wanted>>

startRecovery ==
  /\ session # NoSession /\ session.recovery = "wait"
  /\ session' = [session EXCEPT !.recovery = "on"]
  /\ reconnecting' = (reconnecting \/ Busy)
  /\ UNCHANGED <<phase, ring, work, nat, net, hist>>

giveUp ==
  /\ session # NoSession /\ session.recovery = "on"
  /\ Send("end", session.call) /\ finishWith
  /\ UNCHANGED <<attempt, nat, hist>>

(***************************************************************************)
(* Calls that turn up without the socket: resumePending, pickUp and the    *)
(* taps on the native ringing screen.                                      *)
(***************************************************************************)
Ask(for, on, got) == [for |-> for, on |-> on, got |-> got]

\* GET /calls/pending: a call that rings now, or none (also when it fails).
Pending == {c \in In : srv[c] = "ringing"} \cup {NoCall}

IsFor(s, c) == s # NoSession /\ s.call = c

\* accept({ auto: true }) for s, when the caller decided to go ahead.
autoAccept(s, go) ==
  IF go /\ Answerable(s)
    THEN beginAccept(s, TRUE) /\ ring' = "off"
    ELSE UNCHANGED attempt /\ ring' = IF s = session THEN ring ELSE "in"

\* pickUp after resumePending; rest: the other requests.
pickUpRest(s, rest) ==
  LET held == deferred # NoCall /\ visible'
      go   == held /\ IsFor(s, deferred)
  IN /\ deferred' = IF held THEN NoCall ELSE deferred
     /\ autoAccept(s, go)
     /\ requests' = IF go \/ decided = NoDecision THEN rest
                  ELSE rest \cup {Ask("take", NoDecision, NoCall)}

\* Mutant of answerRest: the tap is applied to whatever call rings now.
answerRestAny(s, c, rest) ==
  /\ deferred' = IF s # NoSession /\ ~visible THEN c ELSE deferred
  /\ autoAccept(s, s # NoSession /\ visible)
  /\ requests' = rest

\* applyNativeDecision after resumePending.
answerRest(s, c, rest) ==
  /\ deferred' = IF IsFor(s, c) /\ ~visible THEN c ELSE deferred
  /\ autoAccept(s, IsFor(s, c) /\ visible)
  /\ requests' = rest

\* A push, focus or the app coming on screen: pickUp, up to its first answer.
\* The guard leaves out only the times it finds nothing to do.
pickUp ==
  /\ deferred # NoCall \/ decided # NoDecision \/ (session = NoSession /\ Pending # {NoCall})
  /\ wakes < MaxWakes /\ wakes' = wakes + 1
  /\ visible' \in {visible, TRUE}
  /\ IF session = NoSession
       THEN /\ \E g \in Pending : requests' = requests \cup {Ask("pickUp", NoDecision, g)}
            /\ UNCHANGED <<attempt, ring, deferred>>
       ELSE pickUpRest(session, requests)
  /\ Slips("double", attempt' # attempt /\ BeingAnswered(session))
  /\ UNCHANGED <<session, phase, reconnecting, mics, conn, handled, decided, taps,
                 net, wanted>>

\* GET /calls/pending answers.
resumePending(q) ==
  LET fresh == q.got # NoCall /\ session = NoSession
      s     == IF fresh THEN Ringing(q.got) ELSE session
      rest  == requests \ {q}
  IN /\ q.for \in {"pickUp", "answer"}
     /\ IF fresh THEN RingFor(q.got)
                 ELSE UNCHANGED <<session, phase, reconnecting>>
     /\ UNCHANGED visible
     /\ IF q.for = "pickUp" THEN pickUpRest(s, rest) ELSE answerRest(s, q.on.call, rest)
     /\ slip' = slip
          \cup (IF fresh THEN Unsound(q.got) ELSE {})
          \cup {k \in {"double"} : ~fresh /\ attempt' # attempt /\ BeingAnswered(s)}
     /\ UNCHANGED <<mics, conn, handled, decided, wakes, taps, net, wanted>>

\* A tap reaches the code as a live event or from the disk, or both.
applyNativeDecision(q) ==
  LET d    == IF q.for = "take" THEN decided ELSE q.on
      rest == requests \ {q}
  IN /\ q.for \in {"take", "tap"}
     /\ decided' = IF q.for = "take" THEN NoDecision ELSE decided
     /\ IF d = NoDecision \/ d \in handled
          THEN /\ requests' = rest
               /\ UNCHANGED <<attempt, ring, deferred, handled, srv, slip>>
          ELSE
            /\ handled' = handled \cup {d}
            /\ IF d.action = "reject"
                 THEN /\ srv' = [srv EXCEPT ![d.call] = Served("end", d.call)]
                      /\ requests' = rest \cup {Ask("decline", d, NoCall)}
                      /\ UNCHANGED <<attempt, ring, deferred>>
                 ELSE /\ IF session = NoSession
                           THEN /\ \E g \in Pending : requests' = rest \cup {Ask("answer", d, g)}
                                /\ UNCHANGED <<attempt, ring, deferred>>
                           ELSE answerRest(session, d.call, rest)
                      /\ UNCHANGED srv
            /\ Slips("double", attempt' # attempt /\ BeingAnswered(session))
     /\ UNCHANGED <<session, phase, reconnecting, mics, conn, visible, wakes, taps,
                    inbox, wanted>>

\* Mutant of declined: the server is told, the session stays.
declinedElsewhere(q) ==
  /\ q.for = "decline" /\ requests' = requests \ {q}
  /\ UNCHANGED <<ui, work, visible, deferred, handled, decided, wakes, taps, net, hist>>

\* callsApi.reject has answered.
declined(q) ==
  /\ q.for = "decline" /\ requests' = requests \ {q}
  /\ IF IsFor(session, q.on.call) THEN teardown ELSE UNCHANGED <<ui, mics, conn>>
  /\ UNCHANGED <<attempt, visible, deferred, handled, decided, wakes, taps, net, hist>>

\* The user taps the native ringing screen (android/.../KisyCallPlugin.java).
Tap(d) ==
  /\ srv[d.call] = "ringing"
  /\ taps < MaxTaps /\ taps' = taps + 1
  /\ \A e \in handled \cup {decided} \cup {q.on : q \in requests} : e.call # d.call
  /\ decided' = d
  /\ \/ requests' = requests \cup {Ask("tap", d, NoCall)}
     \/ UNCHANGED requests
  /\ wanted' = IF d.action = "accept" THEN wanted \cup {d.call} ELSE wanted
  /\ UNCHANGED <<ui, work, visible, deferred, handled, wakes, net, slip>>

(***************************************************************************)
(* The server and the other phone                                          *)
(***************************************************************************)
Notify(e) == inbox' = Append(inbox, e)

\* Somebody calls a user who is in no call.  Without a
\* socket the event reaches nobody, and a push wakes the phone instead.
Ring(c) ==
  /\ srv[c] = "none" /\ ~Live /\ \A b \in In : b < c => srv[b] # "none"
  /\ srv' = [srv EXCEPT ![c] = "ringing"]
  /\ Notify([event |-> "incoming", call |-> c]) \/ (c \in Pushed /\ UNCHANGED inbox)
  /\ UNCHANGED <<ui, work, nat, hist>>

PeerAnswers(c) ==
  /\ srv[c] = "ringing" /\ srv' = [srv EXCEPT ![c] = "answered"]
  /\ Notify([event |-> "answered", call |-> c])
  /\ UNCHANGED <<ui, work, nat, hist>>

\* The ring times out, or somebody else ends the call.
Ends(c) ==
  /\ srv[c] \in {"ringing", "answered"} /\ srv' = [srv EXCEPT ![c] = "over"]
  /\ Notify([event |-> "over", call |-> c])
  /\ UNCHANGED <<ui, work, nat, hist>>

Next ==
  \/ \E a \in Attempt, c \in Out : startCall(a, c)
  \/ \E a \in Attempt :
       \/ startMic(a) \/ startIce(a) \/ startOffer(a)
       \/ acceptMic(a) \/ acceptIce(a) \/ acceptAnswer(a)
       \/ connected(a) \/ failed(a) \/ dropped(a)
  \/ accept \/ reject \/ hangup \/ Deliver
  \/ endTimer \/ startRecovery \/ giveUp
  \/ pickUp
  \/ \E q \in requests : resumePending(q) \/ applyNativeDecision(q) \/ declined(q)
  \/ \E d \in Decision : Tap(d)
  \/ \E c \in In : Ring(c)
  \/ \E c \in Out : PeerAnswers(c)
  \/ \E c \in Call : Ends(c)

Spec == Init /\ [][Next]_vars

----------------------------------------------------------------------------
Working == \E a \in Attempt : InFlight(a)
Open    == mics \cup {a \in Attempt : conn[a] \notin {"none", "closed"}}

\* An accept whose session is gone while it waits for the microphone or relays.
Overtaken ==
  \E a \in Attempt :
    attempt[a].role = "callee" /\ attempt[a].at \in {"mic", "ice"} /\ ~Current(a)

\* No continuation has run, or is about to run, for a session that is gone,
\* no session was answered twice, none rang while another was being dialed.
InOrder == slip \cap {"crossed", "double", "stale"} = {} /\ ~Overtaken

\* Nothing outlives its call: every open microphone and connection belongs to
\* the session or to an accept or startCall that is still running, at most one
\* microphone is open ("a second accept would open a second microphone"), and
\* when there is neither, the screen is down and nothing rings.
Released ==
  InOrder =>
    /\ \A a \in Open : Holds(a) \/ InFlight(a)
    /\ Cardinality(mics) <= 1
    /\ session = NoSession /\ ~Working => ~Busy /\ ring = "off"

\* The phone answers a call only when the user said so for that very call, on
\* the card or on the native screen, however late and however often the tap
\* arrives.
AnswerWanted == \A c \in In : srv[c] = "answered" => c \in wanted

\* A phone that is done with its calls has told the server: it is in no call
\* there and rings nobody.  The code's exceptions are a connection that never
\* came up, frames that were lost and the overtaken continuations.
ServerKnows ==
  (session = NoSession /\ ~Working /\ inbox = << >> /\ InOrder /\ "silent" \notin slip) =>
    /\ \A c \in Call : srv[c] # "answered"
    /\ \A c \in Out : srv[c] # "ringing"

Expects(e) == \E i \in DOMAIN inbox : inbox[i] = [event |-> e, call |-> session.call]

\* The screen never hangs: while it shows dialing, ringing, connecting or
\* reconnecting, something is under way that will take it further - an
\* accept or startCall still running, the server's ring timeout, an event on
\* its way, ICE's verdict, the recovery timer, the answer to a decline.  The exceptions are a call
\* that rang here when it was over already and its end was known, and a phone that
\* declined the very call it rings for because its event came second.
NotStuck ==
  (InOrder /\ slip \cap {"late", "echo"} = {}
   /\ (phase \in {"outgoing", "incoming", "connecting"} \/ reconnecting)) =>
    \/ Working
    \/ /\ session # NoSession
       /\ \/ srv[session.call] = "ringing"
          \/ Expects("over") \/ Expects("answered")
          \/ session.media # 0 /\ conn[session.media] = "checking"
          \/ session.recovery = "on"
          \/ \E q \in requests : q.for = "decline" /\ q.on.call = session.call
=============================================================================
