------------------------------ MODULE Presence ------------------------------
(***************************************************************************)
(* Who is online: the presence counter of one user in Redis, kept by the   *)
(* hubs of all instances (backend/internal/ws/hub.go, the ping tick of     *)
(* client.go).  Every Redis command is a step of its own: sockets of       *)
(* different instances, and of one instance, interleave between them.      *)
(* Time is counted down, in units of which Ping make a ping period.        *)
(***************************************************************************)
EXTENDS Integers, FiniteSets

CONSTANTS
  Socket,       \* sockets the user may have open at a time
  Ping,         \* units between two ping ticks (54 s in the code)
  TTL,          \* units the key lives without being touched (150 s)
  MaxFaults,    \* bound on deaths and Redis errors
  None

ASSUME PresenceAssumption ==
  /\ IsFiniteSet(Socket)
  /\ Ping \in Nat \ {0} /\ TTL \in Nat /\ Ping < TTL
  /\ MaxFaults \in Nat
  /\ None \notin Int

VARIABLES
  key,     \* the counter, None when the key is absent
  ttl,     \* its time to live, None when it has none
  sock,    \* [Socket -> local state of addClient, the pumps or removeClient]
  view,    \* the last presence event a subscriber of the user received
  past,    \* what has happened so far of Troubles; the code does not keep it
  bare,    \* whether a key was left without a lifetime and has not got one since;
           \* the code does not keep it either
  faults

vars == <<key, ttl, sock, view, past, bare, faults>>

\* met: a connect or disconnect began before another was through;
\* torn: a process died in the middle of one; error: Redis refused a command.
Troubles == {"met", "torn", "error"}

\* pc is the next command of the socket; "open" while its pumps run.
Pc == {"closed", "incr", "expire", "online", "open", "decr", "del", "sink", "offline"}

TypeOK ==
  /\ key \in Int \cup {None}
  /\ ttl \in 1 .. TTL \cup {None}
  /\ sock \in [Socket -> [pc : Pc, n : Int, ping : 0 .. Ping]]
  /\ view \in {"online", "offline"}
  /\ past \in SUBSET Troubles /\ bare \in BOOLEAN
  /\ faults \in 0 .. MaxFaults

Closed == [pc |-> "closed", n |-> 0, ping |-> 0]

Init ==
  /\ key = None /\ ttl = None
  /\ sock = [s \in Socket |-> Closed]
  /\ view = "offline" /\ past = {} /\ bare = FALSE /\ faults = 0

At(s, pc) == sock[s].pc = pc
Open == {s \in Socket : At(s, "open")}
Settled == \A s \in Socket : sock[s].pc \in {"closed", "open"}

\* The value of an absent counter.
Count == IF key = None THEN 0 ELSE key

Meeting == IF Settled THEN past ELSE past \cup {"met"}

\* Socket s leaves the EXPIRE or DEL that its key waits for undone.
LeavesBare(s) == bare' = (bare \/ (sock[s].pc \in {"expire", "del"} /\ key # None /\ ttl = None))

Goto(s, pc) == sock' = [sock EXCEPT ![s].pc = pc]

-----------------------------------------------------------------------------
(* addClient *)

Connect(s) ==
  /\ At(s, "closed")
  /\ Goto(s, "incr")
  /\ past' = Meeting
  /\ UNCHANGED <<key, ttl, view, bare, faults>>

\* INCR keeps the time to live of the key; a new key has none.
Incr(s) ==
  /\ At(s, "incr")
  /\ key' = Count + 1
  /\ sock' = [sock EXCEPT ![s].pc = "expire", ![s].n = Count + 1]
  /\ UNCHANGED <<ttl, view, past, bare, faults>>

\* EXPIRE, without effect on an absent key.
Touched == IF key = None THEN None ELSE TTL

\* The pumps start when addClient is through.
Opened(s) == [sock EXCEPT ![s] = [pc |-> "open", n |-> 0, ping |-> Ping]]

\* After EXPIRE, whether it failed or not.
AfterExpire(s) == IF sock[s].n = 1 THEN [sock EXCEPT ![s].pc = "online"] ELSE Opened(s)

\* Mutant: the key gets no lifetime.
ExpireNever(s) ==
  /\ At(s, "expire")
  /\ sock' = AfterExpire(s)
  /\ UNCHANGED <<key, ttl, view, past, bare, faults>>

\* The key has a lifetime again.
Expire(s) ==
  /\ At(s, "expire")
  /\ ttl' = Touched /\ bare' = FALSE
  /\ sock' = AfterExpire(s)
  /\ UNCHANGED <<key, view, past, faults>>

PublishOnline(s) ==
  /\ At(s, "online")
  /\ view' = "online"
  /\ sock' = Opened(s)
  /\ UNCHANGED <<key, ttl, past, bare, faults>>

\* Mutant: the tick does not touch the key.
touchPresenceNot(s) ==
  /\ At(s, "open") /\ sock[s].ping = 0
  /\ sock' = [sock EXCEPT ![s].ping = Ping]
  /\ UNCHANGED <<key, ttl, view, past, bare, faults>>

\* The ping tick of writePump.
touchPresence(s) ==
  /\ At(s, "open") /\ sock[s].ping = 0
  /\ ttl' = Touched /\ bare' = FALSE
  /\ sock' = [sock EXCEPT ![s].ping = Ping]
  /\ UNCHANGED <<key, view, past, faults>>

-----------------------------------------------------------------------------
(* removeClient *)

Disconnect(s) ==
  /\ At(s, "open")
  /\ sock' = [sock EXCEPT ![s].pc = "decr", ![s].ping = 0]
  /\ past' = Meeting
  /\ UNCHANGED <<key, ttl, view, bare, faults>>

\* Mutant: every disconnect ends in the sink.
DecrSinks(s) ==
  /\ At(s, "decr")
  /\ key' = Count - 1
  /\ IF Count - 1 <= 0 THEN Goto(s, "del") ELSE Goto(s, "sink")
  /\ UNCHANGED <<ttl, view, past, bare, faults>>

\* DECR makes an absent key -1, without a time to live.
Decr(s) ==
  /\ At(s, "decr")
  /\ key' = Count - 1
  /\ IF Count - 1 <= 0 THEN Goto(s, "del") ELSE sock' = [sock EXCEPT ![s] = Closed]
  /\ UNCHANGED <<ttl, view, past, bare, faults>>

Del(s) ==
  /\ At(s, "del")
  /\ key' = None /\ ttl' = None /\ bare' = FALSE
  /\ Goto(s, "sink")
  /\ UNCHANGED <<view, past, faults>>

\* onOffline: the last-seen time is stored and the user's live calls are ended.
Sink(s) ==
  /\ At(s, "sink")
  /\ Goto(s, "offline")
  /\ UNCHANGED <<key, ttl, view, past, bare, faults>>

PublishOffline(s) ==
  /\ At(s, "offline")
  /\ view' = "offline"
  /\ sock' = [sock EXCEPT ![s] = Closed]
  /\ UNCHANGED <<key, ttl, past, bare, faults>>

-----------------------------------------------------------------------------
(* Faults and time *)

\* Redis refuses the command.  A connection that INCR failed for is open and
\* not counted, one that DECR failed for stays counted; the errors of EXPIRE,
\* DEL and PUBLISH are ignored.
Refused(s) ==
  /\ faults < MaxFaults /\ faults' = faults + 1
  /\ past' = past \cup {"error"} /\ LeavesBare(s)
  /\ \/ At(s, "incr") /\ sock' = Opened(s)
     \/ At(s, "expire") /\ sock' = AfterExpire(s)
     \/ At(s, "online") /\ sock' = Opened(s)
     \/ At(s, "open") /\ sock[s].ping = 0 /\ sock' = [sock EXCEPT ![s].ping = Ping]
     \/ sock[s].pc \in {"decr", "offline"} /\ sock' = [sock EXCEPT ![s] = Closed]
     \/ At(s, "del") /\ Goto(s, "sink")
  /\ UNCHANGED <<key, ttl, view>>

\* The process of the socket dies; nothing of removeClient runs.
Die(s) ==
  /\ faults < MaxFaults /\ faults' = faults + 1
  /\ ~At(s, "closed")
  /\ past' = IF At(s, "open") THEN past ELSE past \cup {"torn"}
  /\ LeavesBare(s)
  /\ sock' = [sock EXCEPT ![s] = Closed]
  /\ UNCHANGED <<key, ttl, view>>

\* Time passes; the key goes when its time to live is over.  The commands
\* of a connect or disconnect take less than a unit, and a ping tick is not late.
Tick ==
  /\ Settled
  /\ \A s \in Open : sock[s].ping > 0
  /\ key' = IF ttl = 1 THEN None ELSE key
  /\ ttl' = IF ttl \in {None, 1} THEN None ELSE ttl - 1
  /\ sock' = [s \in Socket |-> IF s \in Open THEN [sock[s] EXCEPT !.ping = @ - 1] ELSE sock[s]]
  /\ UNCHANGED <<view, past, bare, faults>>

Command(s) ==
  \/ Incr(s) \/ Expire(s) \/ PublishOnline(s) \/ touchPresence(s)
  \/ Decr(s) \/ Del(s) \/ Sink(s) \/ PublishOffline(s)

Next ==
  \/ \E s \in Socket : Command(s) \/ Connect(s) \/ Disconnect(s) \/ Die(s) \/ Refused(s)
  \/ Tick

Spec == Init /\ [][Next]_vars

\* Commands that were begun are finished, and time goes on.
FairSpec == Spec /\ WF_vars(Tick) /\ \A s \in Socket : WF_vars(Command(s))

-----------------------------------------------------------------------------
(* Properties *)

\* Presence is what the sockets say.  The counter never counts more than the
\* sockets there are and the ones that died, whatever meets and whatever fails.
\* A real session never expires (presenceTTL): whoever is asked whether the user
\* is online finds the key while a socket is open.  markPresence publishes the
\* first and the last connection, so a subscriber's picture is right whenever
\* nothing is under way.  Two that meet can undo the last two: the DEL of a last
\* disconnect takes the count of a connect after its DECR.
PresenceTrue ==
  /\ Count <= Cardinality({s \in Socket : sock[s].pc \notin {"closed", "incr"}}) + faults
  /\ past \subseteq {"torn"} /\ Open # {} => key # None
  /\ Settled /\ faults = 0 /\ past = {} => (view = "online") = (Open # {})

\* onOffline fires only on the last connection: it ends the user's calls.  It is
\* fired after the test for the last one, and a connect that meets it is not seen.
SinkOnLast ==
  [][\A s \in Socket : (At(s, "sink") /\ At(s, "offline")' /\ past \subseteq {"torn"}) => Open = {}]_vars

\* presenceTTL: the key does not outlive the connections; without them it goes,
\* whatever was left in it by sockets that died and commands that failed.  A key
\* that never gets a lifetime is the exception: the EXPIRE after the INCR that
\* made it, or the DEL after the DECR that did, failed or was not reached, and no
\* ping tick has made up for it.
StaleReaped ==
  ((\A s \in Socket : At(s, "closed")) /\ ~bare)
    ~> (key = None \/ \E s \in Socket : ~At(s, "closed"))
=============================================================================
