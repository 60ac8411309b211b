------------------------------ MODULE ConnCaps ------------------------------
(***************************************************************************)
(* The caps on open sockets: backend/internal/ws/connlimit.go, with the    *)
(* part of addClient and removeClient that calls it.  One sorted set in    *)
(* Redis per account and per address; a socket is a member of both.  A     *)
(* socket takes its connect time in the handshake and registers later, so  *)
(* sockets of several instances may register in another order than that of *)
(* their connect times.                                                    *)
(***************************************************************************)
EXTENDS Naturals, FiniteSets

CONSTANTS
  Conn,        \* sockets, each opened once
  Key,         \* the sorted sets: accounts and addresses
  KeysOf,      \* [Conn -> the sets the socket is counted in]
  Cap,         \* [Key -> sockets allowed]
  Stale,       \* ping periods after which a member counts as gone (3)
  MaxFaults    \* bound on Redis errors, lost kicks and dead instances

ASSUME ConnCapsAssumption ==
  /\ IsFiniteSet(Conn)
  /\ KeysOf \in [Conn -> SUBSET Key]
  /\ Cap \in [Key -> Nat \ {0}]
  /\ Stale \in Nat \ {0} /\ MaxFaults \in Nat

VARIABLES
  conn,    \* [Conn -> where the socket stands]
  stamp,   \* [Conn -> connectedAt, 0 before]
  zset,    \* [Key -> [members -> pings missed since the last heartbeat]]
  evict,   \* [Conn -> members the registering socket still has to evict]
  kicks,   \* sockets a kick is on its way to
  crossed, \* whether a socket registered after as many newer ones as a cap
           \* allows; the code does not keep it
  faults

vars == <<conn, stamp, zset, evict, kicks, crossed, faults>>

Pc == {"new", "stamped", "evicting", "open", "closing", "done", "dead"}

Members(k) == DOMAIN zset[k]

TypeOK ==
  /\ conn \in [Conn -> Pc]
  /\ stamp \in [Conn -> 0 .. Cardinality(Conn)]
  /\ \A k \in Key : Members(k) \subseteq Conn /\ \A c \in Members(k) : k \in KeysOf[c] /\ zset[k][c] \in 0 .. Stale
  /\ evict \in [Conn -> SUBSET Conn] /\ kicks \subseteq Conn /\ crossed \in BOOLEAN
  /\ faults \in 0 .. MaxFaults

Init ==
  /\ conn = [c \in Conn |-> "new"]
  /\ stamp = [c \in Conn |-> 0]
  /\ zset = [k \in Key |-> <<>>]
  /\ evict = [c \in Conn |-> {}]
  /\ kicks = {} /\ crossed = FALSE /\ faults = 0

Fault == faults < MaxFaults /\ faults' = faults + 1

\* The socket exists and its hub knows it.
Open(c) == conn[c] \in {"evicting", "open"}

-----------------------------------------------------------------------------

\* The sockets that have taken their connect time.
Begun == {c \in Conn : conn[c] # "new"}

\* ServeHTTP: the connect time, later than that of every socket before.
Handshake(c) ==
  /\ conn[c] = "new"
  /\ conn' = [conn EXCEPT ![c] = "stamped"]
  /\ stamp' = [stamp EXCEPT ![c] = 1 + Cardinality(Begun)]
  /\ UNCHANGED <<zset, evict, kicks, crossed, faults>>

\* ZREMRANGEBYSCORE: the members that have not gone stale.
Fresh(k) == {d \in Members(k) : zset[k][d] < Stale}

\* ZADD
With(k, c) == [d \in Fresh(k) \cup {c} |-> IF d = c THEN 0 ELSE zset[k][d]]

\* Mutant: one more than the cap is let stand.
OverOneMore(S, max) ==
  {d \in S : Cardinality({e \in S : stamp[e] > stamp[d]}) > max}

\* The members over a cap, oldest connect times first.
Over(S, max) ==
  {d \in S : Cardinality({e \in S : stamp[e] > stamp[d]}) >= max}

\* The transaction of registerConn, and the members it will evict; its own
\* socket is never among them.
registerConn(c) ==
  /\ conn[c] = "stamped"
  /\ zset' = [k \in Key |-> IF k \in KeysOf[c] THEN With(k, c) ELSE zset[k]]
  /\ evict' = [evict EXCEPT ![c] = (UNION {Over(Fresh(k) \cup {c}, Cap[k]) : k \in KeysOf[c]}) \ {c}]
  /\ crossed' = (crossed \/ \E k \in KeysOf[c] : c \in Over(Fresh(k) \cup {c}, Cap[k]))
  /\ conn' = [conn EXCEPT ![c] = "evicting"]
  /\ UNCHANGED <<stamp, kicks, faults>>

\* "A Redis failure leaves the socket uncapped rather than refusing it."
RegisterFails(c) ==
  /\ Fault
  /\ conn[c] = "stamped"
  /\ conn' = [conn EXCEPT ![c] = "open"]
  /\ UNCHANGED <<stamp, zset, evict, kicks, crossed>>

Without(k, c) == [d \in Members(k) \ {c} |-> zset[k][d]]

\* ZREM of a member from the sets of socket c.
forgetConn(c, m) == zset' = [k \in Key |-> IF k \in KeysOf[c] THEN Without(k, m) ELSE zset[k]]

\* One member is dropped from the sets of the new socket and its kick is sent.
Evict(c, m) ==
  /\ conn[c] = "evicting" /\ m \in evict[c]
  /\ forgetConn(c, m)
  /\ kicks' = kicks \cup {m}
  /\ evict' = [evict EXCEPT ![c] = @ \ {m}]
  /\ UNCHANGED <<conn, stamp, crossed, faults>>

\* addClient returns and the pumps start.
Serve(c) ==
  /\ conn[c] = "evicting" /\ evict[c] = {}
  /\ conn' = [conn EXCEPT ![c] = "open"]
  /\ UNCHANGED <<stamp, zset, evict, kicks, crossed, faults>>

\* The instance that holds the socket closes it; readPump starts after
\* registerConn, so it deregisters after it.
onKick(c) ==
  /\ c \in kicks /\ conn[c] # "evicting"
  /\ kicks' = kicks \ {c}
  /\ conn' = IF conn[c] = "open" THEN [conn EXCEPT ![c] = "closing"] ELSE conn
  /\ UNCHANGED <<stamp, zset, evict, crossed, faults>>

KickLost(c) ==
  /\ Fault
  /\ c \in kicks /\ kicks' = kicks \ {c}
  /\ UNCHANGED <<conn, stamp, zset, evict, crossed>>

\* The peer goes.
Close(c) ==
  /\ conn[c] = "open"
  /\ conn' = [conn EXCEPT ![c] = "closing"]
  /\ UNCHANGED <<stamp, zset, evict, kicks, crossed, faults>>

\* removeClient
unregisterConn(c) ==
  /\ conn[c] = "closing"
  /\ conn' = [conn EXCEPT ![c] = "done"]
  /\ forgetConn(c, c)
  /\ UNCHANGED <<stamp, evict, kicks, crossed, faults>>

\* The instance dies with the socket.
Die(c) ==
  /\ Fault
  /\ conn[c] = "open"
  /\ conn' = [conn EXCEPT ![c] = "dead"]
  /\ UNCHANGED <<stamp, zset, evict, kicks, crossed>>

Least(a, b) == IF a < b THEN a ELSE b

\* Mutant: the heartbeat also touches the members of the sockets beside it.
BeatAll(k) == [c \in Members(k) |-> IF \E d \in Members(k) : conn[d] \in {"open", "evicting"} THEN 0 ELSE Least(zset[k][c] + 1, Stale)]

\* A ping period: the members of live sockets are refreshed (ZADD XX), the
\* others get older.
Beat(k) == [c \in Members(k) |-> IF Open(c) THEN 0 ELSE Least(zset[k][c] + 1, Stale)]

\* Registering takes less than a ping period.
heartbeatConn ==
  /\ \A c \in Conn : conn[c] \notin {"stamped", "evicting", "closing"}
  /\ zset' = [k \in Key |-> Beat(k)]
  /\ UNCHANGED <<conn, stamp, evict, kicks, crossed, faults>>

Next ==
  \/ \E c \in Conn : \/ Handshake(c) \/ registerConn(c) \/ RegisterFails(c) \/ Serve(c)
                     \/ \E m \in Conn : Evict(c, m)
                     \/ onKick(c) \/ KickLost(c) \/ Close(c) \/ unregisterConn(c) \/ Die(c)
  \/ heartbeatConn

Spec == Init /\ [][Next]_vars

\* The work under way is finished: registrations, evictions, kicks, closes.
FairSpec ==
  /\ Spec
  /\ \A c \in Conn : /\ WF_vars(registerConn(c)) /\ WF_vars(Serve(c))
                     /\ WF_vars(onKick(c)) /\ WF_vars(unregisterConn(c))
                     /\ \A m \in Conn : WF_vars(Evict(c, m))
  /\ WF_vars(heartbeatConn)

-----------------------------------------------------------------------------
(* Properties *)

Settled == kicks = {} /\ \A c \in Conn : conn[c] \notin {"stamped", "evicting", "closing"}

OpenIn(k) == {c \in Conn : Open(c) /\ k \in KeysOf[c]}

\* "Each account may hold MaxPerUser sockets and each client address
\* MaxPerIP" (connlimit.go): when nothing is under way and nothing failed, no
\* account and no address has more sockets open than its cap, in whatever order
\* sockets register.  A socket that registers after as many newer ones as a cap
\* allows is excepted: it finds itself among the oldest, passes itself over and
\* evicts nobody in its place.  And "a new socket beyond either cap closes the
\* OLDEST one": a socket is kicked only if as many newer ones as a cap allows have
\* registered beside it.
CapKept ==
  /\ Settled /\ faults = 0 /\ ~crossed => \A k \in Key : Cardinality(OpenIn(k)) <= Cap[k]
  /\ \A c \in kicks : \E k \in KeysOf[c] :
       Cardinality({d \in Conn : stamp[d] > stamp[c] /\ conn[d] \notin {"new", "stamped"}
                                /\ k \in KeysOf[d]}) >= Cap[k]

\* "the sockets of an instance that died drop out after staleAfter instead of
\* counting forever": every member of a set is an open socket, or one that
\* went and gets older until the next registration drops it.
DeadDropOut ==
  \A c \in Conn : (conn[c] = "dead" /\ \E k \in Key : c \in Members(k)) ~> \A k \in Key : c \notin Fresh(k)
=============================================================================
