------------------------------ MODULE WsClient ------------------------------
(***************************************************************************)
(* The socket of the web and mobile app: class WsClient of                 *)
(* frontend/src/shared/ws/client.ts, driven by the effect of               *)
(* frontend/src/app/useRealtime.ts.  Every action is one callback of the   *)
(* event loop; timers, answers and socket events arrive in any order.      *)
(* Delays are not modelled: a timer that is set may fire at any time.      *)
(***************************************************************************)
EXTENDS Naturals, Sequences, FiniteSets

CONSTANTS
  Sock,       \* WebSocket objects
  MaxDials,   \* bound on the reconnect timers of a kind, and on exchanges, at a time
  MaxFrames,  \* bound on the frames the app sends
  MaxDrops,   \* bound on refused handshakes and lost sockets
  None

ASSUME WsClientAssumption ==
  /\ MaxDials \in Nat /\ MaxFrames \in Nat /\ MaxDrops \in Nat
  /\ None \notin Sock

VARIABLES
  run,       \* shouldRun
  cur,       \* socket, None for null
  sock,      \* [Sock -> its readyState and whether onclose is set]
  cbo,       \* closedBeforeOpen
  dials,     \* [BOOLEAN -> timers set, by renewFirst]
  renewing,  \* exchanges a timer is waiting for
  paused,    \* the server said not to dial: replaced, or session rejected
  queue,     \* frames waiting for a socket
  wire,      \* frames handed to a socket, in that order
  frames,    \* frames the app has sent so far
  hasty,     \* whether the app has dialled while something was Pending;
             \* the code does not keep it
  drops

vars == <<run, cur, sock, cbo, dials, renewing, paused, queue, wire, frames, hasty, drops>>

State == {"free", "connecting", "open", "closing"}

TypeOK ==
  /\ run \in BOOLEAN /\ cbo \in BOOLEAN /\ paused \in BOOLEAN /\ hasty \in BOOLEAN
  /\ cur \in {s \in Sock : sock[s].state # "free"} \cup {None}
  /\ sock \in [Sock -> [state : State, hooked : BOOLEAN]]
  /\ dials \in [BOOLEAN -> 0 .. MaxDials]
  /\ renewing \in 0 .. MaxDials
  /\ queue \in Seq(1 .. frames) /\ wire \in Seq(1 .. frames)
  /\ frames \in 0 .. MaxFrames /\ drops \in 0 .. MaxDrops

Free == [state |-> "free", hooked |-> FALSE]

Init ==
  /\ run = FALSE /\ cur = None /\ cbo = TRUE /\ paused = FALSE
  /\ sock = [s \in Sock |-> Free]
  /\ dials = [b \in BOOLEAN |-> 0] /\ renewing = 0
  /\ queue = <<>> /\ wire = <<>> /\ frames = 0 /\ hasty = FALSE /\ drops = 0

In(s, state) == sock[s].state = state
\* this.socket?.readyState === OPEN
Ready == cur # None /\ In(cur, "open")
Live == {s \in Sock : sock[s].state \in {"connecting", "open"}}

\* A close event, a timer or an exchange is still to come.
Pending ==
  \/ \E s \in Sock : In(s, "closing") /\ sock[s].hooked
  \/ \E b \in BOOLEAN : dials[b] > 0
  \/ renewing > 0

\* open() on the sockets as they are in table.
Opened(table, s) == [table EXCEPT ![s] = [state |-> "connecting", hooked |-> TRUE]]

open(table) ==
  \E s \in Sock :
    /\ table[s] = Free
    /\ sock' = Opened(table, s) /\ cur' = s /\ paused' = FALSE

-----------------------------------------------------------------------------
(* What the app does *)

\* The effect of useRealtime runs for a signed-in account.
connect ==
  /\ ~run /\ run' = TRUE
  /\ hasty' = (hasty \/ Pending)
  /\ open(sock)
  /\ UNCHANGED <<cbo, dials, renewing, queue, wire, frames, drops>>

\* Mutant: the old socket keeps its close handler.
DiscardedHooked(s) == [sock EXCEPT ![s].state = "closing"]

\* A socket that is not trusted any more is closed, its handler taken off.
Discarded(s) == [sock EXCEPT ![s] = [state |-> "closing", hooked |-> FALSE]]

\* The app is visible again.
ensureConnected ==
  /\ run /\ hasty' = (hasty \/ Pending)
  /\ \/ cur = None /\ open(sock)
     \/ cur # None /\ ~Ready /\ open(Discarded(cur))
  /\ UNCHANGED <<run, cbo, dials, renewing, queue, wire, frames, drops>>

\* Mutant: a frame is queued only while a socket is connecting.
sendForgets ==
  /\ frames < MaxFrames /\ frames' = frames + 1
  /\ \/ /\ Ready
        /\ wire' = Append(wire, frames') /\ UNCHANGED queue
     \/ /\ cur # None /\ ~Ready
        /\ queue' = Append(queue, frames') /\ UNCHANGED wire
     \/ /\ cur = None /\ UNCHANGED <<queue, wire>>
  /\ UNCHANGED <<run, cur, sock, cbo, dials, renewing, paused, hasty, drops>>

\* Mutant: a frame waits for the next handshake even when the socket is open.
sendQueues ==
  /\ frames < MaxFrames /\ frames' = frames + 1
  /\ queue' = Append(queue, frames')
  /\ UNCHANGED <<run, cur, sock, cbo, dials, renewing, paused, wire, hasty, drops>>

\* The app sends a frame.  A timer of the composer may do so when the client
\* has been stopped: the frame then waits for the next account's socket.
send ==
  /\ frames < MaxFrames /\ frames' = frames + 1
  /\ \/ /\ Ready
        /\ wire' = Append(wire, frames') /\ UNCHANGED queue
     \/ /\ ~Ready
        /\ queue' = Append(queue, frames') /\ UNCHANGED wire
  /\ UNCHANGED <<run, cur, sock, cbo, dials, renewing, paused, hasty, drops>>

\* The effect is cleaned up: sign-out, or another account.
disconnect ==
  /\ run /\ run' = FALSE
  /\ queue' = <<>>
  /\ sock' = IF cur = None THEN sock ELSE [sock EXCEPT ![cur].state = "closing"]
  /\ cur' = None
  /\ UNCHANGED <<cbo, dials, renewing, paused, wire, frames, hasty, drops>>

-----------------------------------------------------------------------------
(* Events *)

onopen(s) ==
  /\ In(s, "connecting")
  /\ sock' = [sock EXCEPT ![s].state = "open"]
  /\ cbo' = FALSE
  /\ wire' = wire \o queue /\ queue' = <<>>
  /\ UNCHANGED <<run, cur, dials, renewing, paused, frames, hasty, drops>>

\* The socket is gone.  Unless the server gave it to a newer one, a timer is
\* set; a socket that never opened has its session renewed first.
onclose(s, replaced) ==
  /\ sock[s].hooked
  /\ sock' = [sock EXCEPT ![s] = Free]
  /\ cur' = None
  /\ \/ /\ ~run
        /\ UNCHANGED <<cbo, dials, paused>>
     \/ /\ run /\ replaced
        /\ cbo' = TRUE /\ paused' = TRUE
        /\ UNCHANGED dials
     \/ /\ run /\ ~replaced
        /\ dials[cbo] < MaxDials
        /\ dials' = [dials EXCEPT ![cbo] = @ + 1]
        /\ cbo' = TRUE
        /\ UNCHANGED paused
  /\ UNCHANGED <<run, renewing, queue, wire, frames, hasty>>

\* A handshake is refused, an open socket drops or is replaced.
Drop(s) ==
  /\ s \in Live /\ drops < MaxDrops /\ drops' = drops + 1
  /\ \E replaced \in BOOLEAN : (replaced => In(s, "open")) /\ onclose(s, replaced)

\* close() has come through.
Closed(s) ==
  /\ In(s, "closing")
  /\ \/ onclose(s, FALSE)
     \/ /\ ~sock[s].hooked
        /\ sock' = [sock EXCEPT ![s] = Free]
        /\ UNCHANGED <<run, cur, cbo, dials, renewing, paused, queue, wire, frames, hasty>>
  /\ UNCHANGED drops

Fired(b) == dials[b] > 0 /\ dials' = [dials EXCEPT ![b] = @ - 1]

Redial ==
  /\ Fired(FALSE)
  /\ IF run THEN open(sock) ELSE UNCHANGED <<sock, cur, paused>>
  /\ UNCHANGED <<run, cbo, renewing, queue, wire, frames, hasty, drops>>

Renew ==
  /\ Fired(TRUE)
  /\ renewing < MaxDials /\ renewing' = renewing + 1
  /\ UNCHANGED <<run, cur, sock, cbo, paused, queue, wire, frames, hasty, drops>>

\* Mutant: only a renewed session is dialled for.
RenewedOnlyOk(outcome) ==
  /\ renewing > 0 /\ renewing' = renewing - 1
  /\ \/ outcome = "ok" /\ (IF run THEN open(sock) ELSE UNCHANGED <<sock, cur, paused>>)
     \/ /\ outcome # "ok"
        /\ paused' = (paused \/ (run /\ outcome = "rejected"))
        /\ UNCHANGED <<sock, cur>>
  /\ UNCHANGED <<run, cbo, dials, queue, wire, frames, hasty, drops>>

Renewed(outcome) ==
  /\ renewing > 0 /\ renewing' = renewing - 1
  /\ \/ /\ outcome \in {"ok", "unreachable"}
        /\ IF run THEN open(sock) ELSE UNCHANGED <<sock, cur, paused>>
     \/ /\ outcome = "rejected"
        /\ paused' = (paused \/ run)
        /\ UNCHANGED <<sock, cur>>
  /\ UNCHANGED <<run, cbo, dials, queue, wire, frames, hasty, drops>>

Loop ==
  \/ \E s \in Sock : onopen(s) \/ Closed(s)
  \/ Redial \/ Renew
  \/ \E outcome \in {"ok", "unreachable", "rejected"} : Renewed(outcome)

Next ==
  \/ connect \/ ensureConnected \/ send \/ disconnect
  \/ \E s \in Sock : Drop(s)
  \/ Loop

Spec == Init /\ [][Next]_vars

\* The event loop runs every callback whose event is there: sockets close,
\* timers fire, exchanges return.  A client that dials again and again is let
\* in at some time: nobody leaves and returns to the app faster than a
\* handshake takes, for ever.
FairSpec ==
  /\ Spec
  /\ SF_vars(\E s \in Sock : onopen(s))
  /\ \A s \in Sock : WF_vars(Closed(s))
  /\ WF_vars(Redial) /\ WF_vars(Renew)
  /\ WF_vars(\E outcome \in {"ok", "unreachable", "rejected"} : Renewed(outcome))

-----------------------------------------------------------------------------
(* Properties *)

\* "WsClient owns the single WebSocket connection for the app": no two sockets
\* are connecting or open at a time.  The reconnect timer is never cleared and
\* open() does not look at the socket there is, so an app that dials while a
\* timer, an exchange or a close event is pending is excepted.
OneSocket == ~hasty => Cardinality(Live) <= 1

\* A client that should run has a socket, or something to come that will dial,
\* or was told by the server not to dial: it is never left without any.
NeverStranded == run => Live # {} \/ Pending \/ paused

\* A frame that waits while the client runs is handed over, or dropped by
\* disconnect, unless the server said not to dial.  Nothing dials for a frame
\* that was sent after disconnect.
QueuedGoes == run /\ queue # <<>> ~> queue = <<>> \/ paused

\* Except for what disconnect drops, the frames handed to sockets and those
\* waiting are together the frames the app sent, in the order it sent them: none
\* is lost, doubled or overtaken, whichever socket opens.
KeptInOrder ==
  [][(run => run') => wire' \o queue' = wire \o queue \o [i \in 1 .. frames' - frames |-> frames + i]]_vars
=============================================================================
