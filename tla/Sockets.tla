------------------------------ MODULE Sockets -------------------------------
(***************************************************************************)
(* A socket lives on the session it authenticated with.  The sessions of   *)
(* one account (backend/internal/auth/service.go and repository.go, the    *)
(* administrator's changes in backend/internal/admin/service.go), the      *)
(* handshake (ws/handler.go), the kick published when sessions are revoked *)
(* (ws/hub.go) and the re-checks of the socket itself (ws/client.go,       *)
(* ws/inbound.go).  Several instances of the server share one database and *)
(* one Redis; a kick reaches each instance by itself, or not at all.       *)
(***************************************************************************)
EXTENDS Naturals, FiniteSets

CONSTANTS
  Session, Conn, Instance,
  HomeOf,          \* [Conn -> the instance that holds the socket]
  SessionRecheck,  \* units between two checks of a socket's session (30 s)
  InboundRecheck,  \* how old a check may be when a frame is acted on (5 s)
  MaxAge,          \* ages are counted up to here
  MaxKicks,        \* bound on the kicks on their way
  MaxOutages,      \* bound on failed checks and lost kicks
  NoSession

ASSUME SocketsAssumption ==
  /\ SessionRecheck \in Nat \ {0} /\ InboundRecheck \in Nat \ {0}
  /\ MaxAge \in Nat /\ MaxKicks \in Nat /\ MaxOutages \in Nat
  /\ HomeOf \in [Conn -> Instance]
  /\ NoSession \notin Session

VARIABLES
  sess,    \* [Session -> state of the row, time since it was revoked]
  conn,    \* [Conn -> state of the socket]
  kicks,   \* kicks on their way to an instance
  acted,   \* the longest a session had been over when a frame was acted on,
           \* those apart for which it could not be read
  outages

socketVars == <<sess, conn, kicks, acted, outages>>

\* late: the session was opened while a kick of the whole account was on its
\* way.
SessionRow == [state : {"none", "live", "revoked"}, age : 0 .. MaxAge, late : BOOLEAN]

\* seen is the time since the session was last found live (checkedAt), due the
\* time until the next re-check, blind the checks in a row that failed.
Client == [pc : {"new", "auth", "open", "ended", "done"}, s : Session \cup {NoSession},
           seen : 0 .. InboundRecheck, due : 0 .. SessionRecheck, blind : 0 .. MaxOutages]

\* only selects one session, keep spares one; NoSession for neither.
Kick == [to : Instance, only : Session \cup {NoSession}, keep : Session \cup {NoSession}]

SocketsTypeOK ==
  /\ sess \in [Session -> SessionRow]
  /\ conn \in [Conn -> Client]
  /\ kicks \subseteq Kick
  /\ acted \in 0 .. MaxAge
  /\ outages \in 0 .. MaxOutages

New == [pc |-> "new", s |-> NoSession, seen |-> 0, due |-> 0, blind |-> 0]

SocketsInit ==
  /\ sess = [s \in Session |-> [state |-> "none", age |-> 0, late |-> FALSE]]
  /\ conn = [c \in Conn |-> New]
  /\ kicks = {}
  /\ acted = 0
  /\ outages = 0

ConnAt(c, pc) == conn[c].pc = pc
Row(c) == sess[conn[c].s]
Active(s) == sess[s].state = "live"
Outage == outages < MaxOutages /\ outages' = outages + 1

-----------------------------------------------------------------------------
(* Sessions *)

openSession(s) ==
  /\ sess[s].state = "none"
  /\ sess' = [sess EXCEPT ![s].state = "live", ![s].late = \E k \in kicks : k.only = NoSession]
  /\ UNCHANGED <<conn, kicks, acted, outages>>

Revoked(which) ==
  [s \in Session |-> IF s \in which /\ Active(s) THEN [sess[s] EXCEPT !.state = "revoked", !.age = 0]
                                                 ELSE sess[s]]

\* Published to every instance; when that fails the publishing one still acts.
publishKick(only, keep) ==
  /\ Cardinality(kicks) < MaxKicks
  /\ \/ /\ kicks' = kicks \cup [to : Instance, only : {only}, keep : {keep}]
        /\ UNCHANGED outages
     \/ /\ Outage
        /\ \E i \in Instance : kicks' = kicks \cup {[to |-> i, only |-> only, keep |-> keep]}

\* Also the end of a session whose rotated refresh token was replayed.
Logout(s) ==
  /\ Active(s)
  /\ sess' = Revoked({s})
  /\ publishKick(s, NoSession)
  /\ UNCHANGED <<conn, acted>>

\* Also a change of role, a password reset and a deactivation.
LogoutAll ==
  /\ \E s \in Session : Active(s)
  /\ sess' = Revoked(Session)
  /\ publishKick(NoSession, NoSession)
  /\ UNCHANGED <<conn, acted>>

ChangePassword(current) ==
  /\ Active(current)
  /\ sess' = Revoked(Session \ {current})
  /\ publishKick(NoSession, current)
  /\ UNCHANGED <<conn, acted>>

\* One session runs out, or cmd/resetpw revokes all of them in the database:
\* no kick.
Lapse(which) ==
  /\ \E s \in which : Active(s)
  /\ sess' = Revoked(which)
  /\ UNCHANGED <<conn, kicks, acted, outages>>

-----------------------------------------------------------------------------
(* Sockets *)

\* ServeHTTP: Authenticate reads the session.
Authenticate(c, s) ==
  /\ ConnAt(c, "new") /\ Active(s)
  /\ conn' = [conn EXCEPT ![c].pc = "auth", ![c].s = s]
  /\ UNCHANGED <<sess, kicks, acted, outages>>

\* The socket enters the map the kicks look at, and its goroutines start.
addClient(c) ==
  /\ ConnAt(c, "auth")
  /\ conn' = [conn EXCEPT ![c].pc = "open", ![c].seen = 0, ![c].due = SessionRecheck]
  /\ UNCHANGED <<sess, kicks, acted, outages>>

\* The sockets of the account a kick ends.
Ending(k) ==
  {c \in Conn : /\ HomeOf[c] = k.to /\ ConnAt(c, "open")
                /\ k.only # NoSession => conn[c].s = k.only
                /\ k.keep # NoSession => conn[c].s # k.keep}

onKick(k) ==
  /\ k \in kicks /\ kicks' = kicks \ {k}
  /\ conn' = [c \in Conn |-> IF c \in Ending(k) THEN [conn[c] EXCEPT !.pc = "ended"] ELSE conn[c]]
  /\ UNCHANGED <<sess, acted, outages>>

\* The subscription was down when the kick was published.
KickLost(k) ==
  /\ Outage
  /\ k \in kicks /\ kicks' = kicks \ {k}
  /\ UNCHANGED <<sess, conn, acted>>

\* Mutant: a check that failed counts as one that passed.
SeenAnyway(c) == [conn EXCEPT ![c].due = SessionRecheck, ![c].blind = @ + 1, ![c].seen = 0]

\* The next tick of the watcher after a check that failed.
Unseen(c) == [conn EXCEPT ![c].due = SessionRecheck, ![c].blind = @ + 1]

\* sessionFresh without asking.
Fresh(c) == conn[c].seen < InboundRecheck

\* Mutant: the watcher asks sessionFresh.
watchSessionFresh(c) ==
  /\ ConnAt(c, "open") /\ conn[c].due = 0
  /\ \/ /\ Fresh(c) \/ Active(conn[c].s)
        /\ conn' = [conn EXCEPT ![c].due = SessionRecheck, ![c].blind = 0]
        /\ UNCHANGED outages
     \/ /\ ~Fresh(c) /\ ~Active(conn[c].s)
        /\ conn' = [conn EXCEPT ![c].pc = "ended"]
        /\ UNCHANGED outages
     \/ /\ Outage
        /\ conn' = Unseen(c)
  /\ UNCHANGED <<sess, kicks, acted>>

\* A tick of watchSession: the session is live, over, or could not be read.
watchSession(c) ==
  /\ ConnAt(c, "open") /\ conn[c].due = 0
  /\ \/ /\ Active(conn[c].s)
        /\ conn' = [conn EXCEPT ![c].due = SessionRecheck, ![c].seen = 0, ![c].blind = 0]
        /\ UNCHANGED outages
     \/ /\ ~Active(conn[c].s)
        /\ conn' = [conn EXCEPT ![c].pc = "ended"]
        /\ UNCHANGED outages
     \/ /\ Outage
        /\ conn' = Unseen(c)
  /\ UNCHANGED <<sess, kicks, acted>>

Greatest(a, b) == IF a < b THEN b ELSE a

\* The frame is dispatched with the socket's identity.
Act(c) == acted' = Greatest(acted, Row(c).age)

\* A frame of the client: a message, a call signal.
handleInbound(c) ==
  /\ ConnAt(c, "open")
  /\ \/ /\ Fresh(c)
        /\ Act(c)
        /\ UNCHANGED <<conn, outages>>
     \/ /\ ~Fresh(c) /\ Active(conn[c].s)
        /\ conn' = [conn EXCEPT ![c].seen = 0]
        /\ Act(c)
        /\ UNCHANGED outages
     \/ /\ ~Fresh(c) /\ ~Active(conn[c].s)
        /\ conn' = [conn EXCEPT ![c].pc = "ended"]
        /\ UNCHANGED <<acted, outages>>
     \/ /\ ~Fresh(c) /\ Outage
        /\ UNCHANGED <<conn, acted>>
  /\ UNCHANGED <<sess, kicks>>

\* readPump returns, after end() or because the peer has gone.
removeClient(c) ==
  /\ conn[c].pc \in {"open", "ended"}
  /\ conn' = [conn EXCEPT ![c] = [New EXCEPT !.pc = "done"]]
  /\ UNCHANGED <<sess, kicks, acted, outages>>

-----------------------------------------------------------------------------

Least(a, b) == IF a < b THEN a ELSE b

\* Time passes.  A handshake takes less than a unit, and the ticker of a
\* watcher is served when it is due.
Elapse ==
  /\ \A c \in Conn : ~ConnAt(c, "auth") /\ (ConnAt(c, "open") => conn[c].due > 0)
  /\ sess' = [s \in Session |-> IF sess[s].state = "revoked" THEN [sess[s] EXCEPT !.age = Least(@ + 1, MaxAge)]
                                                             ELSE sess[s]]
  /\ conn' = [c \in Conn |-> IF ConnAt(c, "open") THEN [conn[c] EXCEPT !.seen = Least(@ + 1, InboundRecheck), !.due = @ - 1]
                                                  ELSE conn[c]]
  /\ UNCHANGED <<kicks, acted, outages>>

SocketsNext ==
  \/ \E s \in Session : openSession(s) \/ Logout(s) \/ ChangePassword(s) \/ Lapse({s})
  \/ LogoutAll \/ Lapse(Session)
  \/ \E c \in Conn : \/ \E s \in Session : Authenticate(c, s)
                     \/ addClient(c) \/ watchSession(c) \/ handleInbound(c) \/ removeClient(c)
  \/ \E k \in kicks : onKick(k) \/ KickLost(k)
  \/ Elapse

SocketsSpec == SocketsInit /\ [][SocketsNext]_socketVars

-----------------------------------------------------------------------------
(* Properties *)

\* A socket goes with its session.  "sessionRecheck bounds how long a socket can
\* outlive its session when the instant kick never arrives" (client.go): one
\* interval, and one more for every check in a row that could not read the
\* session.  And a socket closed because its session ended (CloseSessionEnded)
\* belongs to one that was revoked: the session a password change keeps does
\* not lose its sockets.  A kick of the whole account names no sessions and ends
\* those it finds, so one opened while it was on its way is excepted.
FollowsSession ==
  \A c \in Conn :
    /\ ConnAt(c, "open") /\ Row(c).state = "revoked" => Row(c).age <= SessionRecheck * (1 + conn[c].blind)
    /\ ConnAt(c, "ended") => Row(c).state = "revoked" \/ Row(c).late

\* A frame is acted on only if its session was live less than InboundRecheck
\* ago, or could not be read at that moment (inbound.go).
FrameWithinMemory == acted < InboundRecheck
=============================================================================
