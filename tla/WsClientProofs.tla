--------------------------- MODULE WsClientProofs ---------------------------
(***************************************************************************)
(* WsClient, for any number of socket objects, timers, frames and drops:   *)
(* the client is never left without a socket and without anything that     *)
(* will dial, it has one socket as long as the app does not dial while     *)
(* something is pending, and frames keep their order.  The argument for    *)
(* one socket is a token: a live socket, a close event to come, a timer or *)
(* an exchange, of which there is one at most, and every callback hands it *)
(* on.                                                                     *)
(***************************************************************************)
EXTENDS WsClient, Refresh, FiniteSetTheorems, SequenceTheorems, TLAPS

\* Sockets whose close event is still to come.
Leaving == {s \in Sock : In(s, "closing") /\ sock[s].hooked}

\* Timers that are set and exchanges under way.
Renewals == dials[TRUE]
Redials == dials[FALSE]
Waits == Renewals + Redials + renewing

\* The socket in use is live and has its handlers; a client that does not run
\* has none.
CurInv ==
  /\ \A s \in Sock : s \in Live => sock[s].hooked
  /\ cur # None => cur \in Live
  /\ ~run => cur = None

\* There is one token at most, and a live socket is the one in use.
OneToken ==
  ~hasty => /\ Live \subseteq {cur}
            /\ Live # {} => Leaving = {} /\ Waits = 0
            /\ Leaving # {} => Waits = 0
            /\ \A s, t \in Leaving : s = t
            /\ Waits <= 1

\* Nothing waits in the queue while the socket in use is open.
Flushed == Ready => queue = <<>>

Inv == TypeOK /\ CurInv /\ NeverStranded /\ OneToken /\ Flushed

-----------------------------------------------------------------------------
(* Sockets and tokens *)

Conn == [state : State, hooked : BOOLEAN]

\* A socket that was never opened is of its type.
LEMMA FreeIn == Free \in Conn
  BY Zenon DEF Free, Conn, State

\* What is counted, counts up from zero.
LEMMA Counts ==
  ASSUME TypeOK
  PROVE  /\ Renewals \in 0 .. MaxDials /\ Redials \in 0 .. MaxDials /\ renewing \in 0 .. MaxDials
         /\ Renewals \in Nat /\ Redials \in Nat /\ renewing \in Nat /\ Waits \in Nat
         /\ Waits = 0 <=> Renewals = 0 /\ Redials = 0 /\ renewing = 0
  <1>1. Renewals \in 0 .. MaxDials /\ Redials \in 0 .. MaxDials /\ renewing \in 0 .. MaxDials
    BY Zenon DEF TypeOK, Renewals, Redials
  <1> QED BY <1>1, WsClientAssumption DEF Waits

\* Pending is a token other than a live socket.
LEMMA PendingIs ==
  ASSUME TypeOK
  PROVE  Pending <=> (Leaving # {} \/ Waits # 0)
  <1>1. (\E b \in BOOLEAN : dials[b] > 0) <=> (Renewals > 0 \/ Redials > 0)
    BY Zenon DEF Renewals, Redials
  <1>2. (\E s \in Sock : In(s, "closing") /\ sock[s].hooked) <=> Leaving # {}
    BY Zenon DEF Leaving
  <1>3. (Renewals > 0 \/ Redials > 0 \/ renewing > 0) <=> Waits # 0
    BY Counts
  <1> QED BY Zenon, <1>1, <1>2, <1>3 DEF Pending

\* The same after a step.
LEMMA PendingNext ==
  ASSUME TypeOK'
  PROVE  Pending' <=> (Leaving' # {} \/ Waits' # 0)
  <1>1. (\E b \in BOOLEAN : dials'[b] > 0) <=> (Renewals' > 0 \/ Redials' > 0)
    BY Zenon DEF Renewals, Redials
  <1>2. (\E s \in Sock : In(s, "closing")' /\ sock'[s].hooked) <=> Leaving' # {}
    BY Zenon DEF Leaving
  <1>3. (Renewals' > 0 \/ Redials' > 0 \/ renewing' > 0) <=> Waits' # 0
    <2>1. Renewals' \in 0 .. MaxDials /\ Redials' \in 0 .. MaxDials /\ renewing' \in 0 .. MaxDials
      BY Zenon DEF TypeOK, Renewals, Redials
    <2> DEFINE x == Renewals'
               y == Redials'
               z == renewing'
    <2>2. Waits' = x + y + z
      BY Zenon DEF Waits
    <2> HIDE DEF x, y, z
    <2>3. x \in 0 .. MaxDials /\ y \in 0 .. MaxDials /\ z \in 0 .. MaxDials
      BY Zenon, <2>1 DEF x, y, z
    <2>4. (x > 0 \/ y > 0 \/ z > 0) <=> x + y + z # 0
      BY <2>3, WsClientAssumption
    <2> QED BY Zenon, <2>2, <2>4 DEF x, y, z
  <1> QED BY Zenon, <1>1, <1>2, <1>3 DEF Pending

\* One socket is replaced in the table.
LEMMA SockSet ==
  ASSUME NEW table \in [Sock -> Conn], NEW s \in Sock, NEW c \in Conn,
         sock' = [table EXCEPT ![s] = c]
  PROVE  /\ sock' \in [Sock -> Conn] /\ sock'[s] = c
         /\ \A t \in Sock \ {s} : sock'[t] = table[t]
  BY Zenon

\* The socket of a step moves to another state and keeps its handlers.
LEMMA SockMoves ==
  ASSUME sock \in [Sock -> Conn], NEW s \in Sock, NEW x \in State,
         sock' = [sock EXCEPT ![s].state = x]
  PROVE  /\ sock' \in [Sock -> Conn]
         /\ sock'[s].state = x /\ (sock'[s].hooked <=> sock[s].hooked)
         /\ \A t \in Sock \ {s} : sock'[t] = sock[t]
  <1> DEFINE c == [sock[s] EXCEPT !.state = x]
  <1>1. c \in Conn /\ c.state = x /\ (c.hooked <=> sock[s].hooked)
    BY Zenon DEF Conn
  <1>2. sock' = [sock EXCEPT ![s] = c]
    BY Zenon
  <1> HIDE DEF c
  <1> QED BY <1>1, <1>2, SockSet

\* open() dials with a socket of its own and makes it the one in use.
LEMMA OpenSock ==
  ASSUME NEW table \in [Sock -> Conn], open(table)
  PROVE  \E s \in Sock :
           /\ table[s] = Free /\ cur' = s /\ paused' = FALSE
           /\ sock' \in [Sock -> Conn]
           /\ sock'[s].state = "connecting" /\ sock'[s].hooked
           /\ \A t \in Sock \ {s} : sock'[t] = table[t]
  <1> DEFINE c == [state |-> "connecting", hooked |-> TRUE]
  <1>1. PICK s \in Sock : table[s] = Free /\ sock' = [table EXCEPT ![s] = c] /\ cur' = s /\ paused' = FALSE
    BY Zenon DEF open, Opened
  <1>2. c \in Conn /\ c.state = "connecting" /\ c.hooked
    BY Zenon DEF Conn, State
  <1> HIDE DEF c
  <1>3. /\ sock' \in [Sock -> Conn] /\ sock'[s] = c
        /\ \A t \in Sock \ {s} : sock'[t] = table[t]
    BY Zenon, <1>1, <1>2, SockSet
  <1> QED BY Zenon, <1>1, <1>2, <1>3

-----------------------------------------------------------------------------
(* Dialling *)

\* TypeOK when the sockets, the timers and the frames keep their types.
LEMMA Typed ==
  ASSUME TypeOK, CurInv', sock' \in [Sock -> Conn],
         run' \in BOOLEAN, cbo' \in BOOLEAN, paused' \in BOOLEAN, hasty' \in BOOLEAN,
         cur' \in Sock \cup {None}, dials' \in [BOOLEAN -> 0 .. MaxDials], renewing' \in 0 .. MaxDials,
         queue' \in Seq(1 .. frames'), wire' \in Seq(1 .. frames'),
         frames' \in 0 .. MaxFrames, drops' \in 0 .. MaxDrops
  PROVE  TypeOK'
  <1>1. cur' \in {s \in Sock : sock'[s].state # "free"} \cup {None}
    <2>1. CASE cur' = None
      BY Zenon, <2>1
    <2>2. CASE cur' # None
      <3>1. cur' \in Sock /\ sock'[cur'].state \in {"connecting", "open"}
        BY Zenon, <2>2 DEF CurInv, Live
      <3> QED BY Zenon, <3>1
    <2> QED BY Zenon, <2>1, <2>2
  <1> QED BY Zenon, <1>1 DEF TypeOK, Conn

\* A client that runs and has dialled with s keeps the invariant, if an app
\* that was not hasty leaves no other token.
LEMMA Dialled ==
  ASSUME Inv, run' = TRUE, NEW s \in Sock, cur' = s, paused' = FALSE, sock' \in [Sock -> Conn],
         sock'[s].state = "connecting", sock'[s].hooked,
         \A t \in Sock \ {s} : t \in Live' => t \in Live /\ sock'[t] = sock[t],
         ~hasty' => Live' \subseteq {s} /\ Leaving' = {} /\ Waits' = 0,
         cbo' = cbo, hasty' \in BOOLEAN, queue' = queue, wire' = wire, frames' = frames, drops' = drops,
         dials' \in [BOOLEAN -> 0 .. MaxDials], renewing' \in 0 .. MaxDials
  PROVE  Inv'
  <1>1. s \in Live'
    BY Zenon DEF Live
  <1>2. CurInv'
    BY Zenon, <1>1, WsClientAssumption DEF Inv, CurInv
  <1>3. TypeOK'
    <2>1. /\ TypeOK /\ run' \in BOOLEAN /\ cbo' \in BOOLEAN /\ paused' \in BOOLEAN
          /\ cur' \in Sock \cup {None} /\ queue' \in Seq(1 .. frames') /\ wire' \in Seq(1 .. frames')
          /\ frames' \in 0 .. MaxFrames /\ drops' \in 0 .. MaxDrops
      BY Zenon DEF Inv, TypeOK
    <2> QED BY Zenon, <1>2, <2>1, Typed
  <1>4. NeverStranded'
    BY Zenon, <1>1 DEF NeverStranded
  <1>5. OneToken'
    BY <1>1, <1>3, Counts DEF OneToken
  <1>6. Flushed'
    BY Zenon DEF Flushed, Ready, In
  <1> QED BY Zenon, <1>2, <1>3, <1>4, <1>5, <1>6 DEF Inv

\* open() on the sockets as they are adds one live socket.
LEMMA OpenPlain ==
  ASSUME Inv, open(sock)
  PROVE  \E s \in Sock :
           /\ cur' = s /\ paused' = FALSE /\ sock' \in [Sock -> Conn]
           /\ sock'[s].state = "connecting" /\ sock'[s].hooked
           /\ \A t \in Sock \ {s} : t \in Live' => t \in Live /\ sock'[t] = sock[t]
           /\ Live' = Live \cup {s} /\ Leaving' = Leaving
  <1>1. sock \in [Sock -> Conn]
    BY Zenon DEF Inv, TypeOK, Conn
  <1>2. PICK s \in Sock :
           /\ sock[s] = Free /\ cur' = s /\ paused' = FALSE
           /\ sock' \in [Sock -> Conn]
           /\ sock'[s].state = "connecting" /\ sock'[s].hooked
           /\ \A t \in Sock \ {s} : sock'[t] = sock[t]
    BY Zenon, <1>1, OpenSock
  <1>3. Live' = Live \cup {s}
    BY Zenon, <1>2 DEF Live
  <1>4. Leaving' = Leaving
    BY <1>2 DEF Leaving, In, Free
  <1> QED BY Zenon, <1>2, <1>3, <1>4 DEF Live

\* The app dials when it starts.
LEMMA ConnectStep ==
  ASSUME Inv, connect
  PROVE  Inv'
  <1>1. PICK s \in Sock :
           /\ cur' = s /\ paused' = FALSE /\ sock' \in [Sock -> Conn]
           /\ sock'[s].state = "connecting" /\ sock'[s].hooked
           /\ \A t \in Sock \ {s} : t \in Live' => t \in Live /\ sock'[t] = sock[t]
           /\ Live' = Live \cup {s} /\ Leaving' = Leaving
    BY Zenon, OpenPlain DEF connect
  <1>2. /\ cbo' = cbo /\ queue' = queue /\ wire' = wire /\ frames' = frames /\ drops' = drops
        /\ dials' = dials /\ renewing' = renewing /\ run' = TRUE /\ ~run /\ hasty' = (hasty \/ Pending)
    BY Zenon DEF connect
  <1>3. Waits' = Waits
    BY Zenon, <1>2 DEF Waits, Renewals, Redials
  <1>4. hasty' \in BOOLEAN
    BY Zenon, <1>2 DEF Inv, TypeOK
  <1>5. dials' \in [BOOLEAN -> 0 .. MaxDials] /\ renewing' \in 0 .. MaxDials
    BY Zenon, <1>2 DEF Inv, TypeOK
  <1>6. ASSUME ~hasty' PROVE Live' \subseteq {s} /\ Leaving' = {} /\ Waits' = 0
    <2>1. ~hasty /\ Leaving = {} /\ Waits = 0
      BY Zenon, <1>2, <1>6, PendingIs DEF Inv
    <2>2. cur = None /\ Live = {}
      BY Zenon, <1>2, <2>1, WsClientAssumption DEF Inv, CurInv, OneToken, Live
    <2> QED BY Zenon, <1>1, <1>3, <2>1, <2>2
  <1> QED BY Zenon, <1>1, <1>2, <1>4, <1>5, <1>6, Dialled

\* The app is visible again: it dials if it has no socket, or one that it takes
\* its handler off.
LEMMA EnsureConnectedStep ==
  ASSUME Inv, ensureConnected
  PROVE  Inv'
  <1>0. sock \in [Sock -> Conn]
    BY Zenon DEF Inv, TypeOK, Conn
  <1>1. PICK s \in Sock :
           /\ cur' = s /\ paused' = FALSE /\ sock' \in [Sock -> Conn]
           /\ sock'[s].state = "connecting" /\ sock'[s].hooked
           /\ \A t \in Sock \ {s} : t \in Live' => t \in Live /\ sock'[t] = sock[t]
           /\ Live' = (Live \ {cur}) \cup {s} /\ Leaving' = Leaving
    <2>1. CASE cur = None
      <3>1. open(sock) /\ Live \ {cur} = Live
        BY Zenon, <2>1, WsClientAssumption DEF ensureConnected, Live
      <3> QED BY Zenon, <3>1, OpenPlain
    <2>2. CASE cur # None
      <3> DEFINE c == [state |-> "closing", hooked |-> FALSE]
      <3>1. cur \in Live /\ cur \in Sock /\ open([sock EXCEPT ![cur] = c])
        BY Zenon, <2>2 DEF ensureConnected, Discarded, Inv, CurInv, Live
      <3>2. c \in Conn /\ c.state = "closing" /\ ~c.hooked
        BY Zenon DEF Conn, State
      <3> DEFINE table == [sock EXCEPT ![cur] = c]
      <3> HIDE DEF c
      <3>3. table \in [Sock -> Conn] /\ table[cur] = c /\ \A t \in Sock \ {cur} : table[t] = sock[t]
        BY Zenon, <1>0, <3>1, <3>2
      <3> HIDE DEF table
      <3>4. PICK s \in Sock :
               /\ table[s] = Free /\ cur' = s /\ paused' = FALSE
               /\ sock' \in [Sock -> Conn]
               /\ sock'[s].state = "connecting" /\ sock'[s].hooked
               /\ \A t \in Sock \ {s} : sock'[t] = table[t]
        BY Zenon, <3>1, <3>3, OpenSock DEF table
      <3>5. s # cur /\ sock[s] = Free
        <4>1. Free.state = "free"
          BY Zenon DEF Free
        <4>2. s # cur
          BY Zenon, <3>1, <3>2, <3>3, <3>4, <4>1
        <4> QED BY Zenon, <3>3, <3>4, <4>2
      <3>6. Live' = (Live \ {cur}) \cup {s}
        BY <3>1, <3>2, <3>3, <3>4, <3>5 DEF Live
      <3>7. Leaving' = Leaving
        BY <3>1, <3>2, <3>3, <3>4, <3>5 DEF Leaving, Live, In, Free
      <3>8. \A t \in Sock \ {s} : t \in Live' => t \in Live /\ sock'[t] = sock[t]
        BY Zenon, <3>1, <3>3, <3>4, <3>6
      <3> QED BY Zenon, <3>4, <3>6, <3>7, <3>8
    <2> QED BY Zenon, <2>1, <2>2
  <1>2. /\ cbo' = cbo /\ queue' = queue /\ wire' = wire /\ frames' = frames /\ drops' = drops
        /\ dials' = dials /\ renewing' = renewing /\ run' = run /\ run /\ hasty' = (hasty \/ Pending)
    BY Zenon DEF ensureConnected
  <1>3. Waits' = Waits /\ run' = TRUE
    BY Zenon, <1>2 DEF Waits, Renewals, Redials, Inv, TypeOK
  <1>4. hasty' \in BOOLEAN
    BY Zenon, <1>2 DEF Inv, TypeOK
  <1>5. dials' \in [BOOLEAN -> 0 .. MaxDials] /\ renewing' \in 0 .. MaxDials
    BY Zenon, <1>2 DEF Inv, TypeOK
  <1>6. ASSUME ~hasty' PROVE Live' \subseteq {s} /\ Leaving' = {} /\ Waits' = 0
    <2>1. ~hasty /\ Leaving = {} /\ Waits = 0
      BY Zenon, <1>2, <1>6, PendingIs DEF Inv
    <2>2. Live \ {cur} = {}
      BY Zenon, <2>1 DEF Inv, OneToken
    <2> QED BY Zenon, <1>1, <1>3, <2>1, <2>2
  <1> QED BY Zenon, <1>1, <1>2, <1>3, <1>4, <1>5, <1>6, Dialled

\* A timer that runs out, or an exchange that ends, hands its token on.
LEMMA RedialStep ==
  ASSUME Inv, Waits' = Waits - 1, Waits # 0,
         IF run THEN open(sock) ELSE UNCHANGED <<sock, cur, paused>>,
         UNCHANGED <<run, cbo, queue, wire, frames, hasty, drops>>,
         dials' \in [BOOLEAN -> 0 .. MaxDials], renewing' \in 0 .. MaxDials
  PROVE  Inv'
  <1>1. CASE run
    <2>1. PICK s \in Sock :
             /\ cur' = s /\ paused' = FALSE /\ sock' \in [Sock -> Conn]
             /\ sock'[s].state = "connecting" /\ sock'[s].hooked
             /\ \A t \in Sock \ {s} : t \in Live' => t \in Live /\ sock'[t] = sock[t]
             /\ Live' = Live \cup {s} /\ Leaving' = Leaving
      BY Zenon, <1>1, OpenPlain
    <2>2. hasty' \in BOOLEAN /\ run' = TRUE
      BY Zenon, <1>1 DEF Inv, TypeOK
    <2>3. ASSUME ~hasty' PROVE Live' \subseteq {s} /\ Leaving' = {} /\ Waits' = 0
      <3>1. ~hasty
        BY Zenon, <2>3
      <3>2. Live = {} /\ Leaving = {} /\ Waits <= 1
        BY Zenon, <3>1 DEF Inv, OneToken
      <3> QED BY <2>1, <3>2, Counts DEF Inv
    <2> QED BY Zenon, <2>1, <2>2, <2>3, Dialled
  <1>2. CASE ~run
    <2>1. Live' = Live /\ Leaving' = Leaving
      BY Zenon, <1>2 DEF Live, Leaving, In
    <2>2. /\ sock' = sock /\ cur' = cur /\ paused' = paused /\ run' = run /\ cbo' = cbo /\ queue' = queue
          /\ wire' = wire /\ frames' = frames /\ hasty' = hasty /\ drops' = drops
      BY Zenon, <1>2
    <2>3. CurInv'
      BY <2>1, <2>2 DEF Inv, CurInv
    <2>4. TypeOK'
      BY Zenon, <2>2 DEF Inv, TypeOK
    <2>5. NeverStranded' /\ Flushed'
      BY <1>2, <2>2 DEF Inv, NeverStranded, Flushed, Ready, In
    <2>6. OneToken'
      <3> SUFFICES ASSUME ~hasty' PROVE /\ Live' \subseteq {cur'} /\ Live' = {} /\ Leaving' = {} /\ Waits' = 0
        BY <2>4, Counts DEF OneToken
      <3>1. ~hasty
        BY <2>2
      <3>2. Live = {} /\ Leaving = {} /\ Waits <= 1
        BY Zenon, <3>1 DEF Inv, OneToken
      <3> QED BY <2>1, <3>2, Counts DEF Inv
    <2> QED BY Zenon, <2>3, <2>4, <2>5, <2>6 DEF Inv
  <1> QED BY Zenon, <1>1, <1>2

-----------------------------------------------------------------------------
(* Frames *)

\* Sequences over a set are sequences over a larger one.
LEMMA SeqGrows ==
  ASSUME NEW S, NEW T, S \subseteq T, NEW q \in Seq(S), NEW x \in T
  PROVE  q \in Seq(T) /\ Append(q, x) \in Seq(T)
  <1>1. q \in Seq(T)
    OBVIOUS
  <1> QED BY <1>1

\* A frame goes to the open socket or to the queue.
LEMMA SendStep ==
  ASSUME Inv, send
  PROVE  Inv'
  <1>1. /\ run' = run /\ cur' = cur /\ sock' = sock /\ cbo' = cbo /\ dials' = dials /\ renewing' = renewing
        /\ paused' = paused /\ hasty' = hasty /\ drops' = drops /\ frames' = frames + 1
    BY Zenon DEF send
  <1>2. frames \in Nat /\ frames' \in 0 .. MaxFrames /\ 1 .. frames \subseteq 1 .. frames' /\ frames' \in 1 .. frames'
    BY WsClientAssumption DEF send, Inv, TypeOK
  <1>3. queue \in Seq(1 .. frames') /\ wire \in Seq(1 .. frames')
        /\ Append(queue, frames') \in Seq(1 .. frames') /\ Append(wire, frames') \in Seq(1 .. frames')
    <2> DEFINE S == 1 .. frames
               T == 1 .. frames'
    <2>1. queue \in Seq(S) /\ wire \in Seq(S)
      BY Zenon DEF Inv, TypeOK
    <2> HIDE DEF S
    <2>2. queue \in Seq(T) /\ wire \in Seq(T) /\ Append(queue, frames') \in Seq(T) /\ Append(wire, frames') \in Seq(T)
      BY Zenon, <1>2, <2>1, SeqGrows DEF S
    <2> QED BY Zenon, <2>2
  <1>4. queue' \in Seq(1 .. frames') /\ wire' \in Seq(1 .. frames') /\ (Ready => queue' = queue)
    <2>1. \/ Ready /\ wire' = Append(wire, frames') /\ queue' = queue
          \/ ~Ready /\ queue' = Append(queue, frames') /\ wire' = wire
      BY Zenon DEF send
    <2> QED BY Zenon, <1>3, <2>1
  <1>5. Live' = Live /\ Leaving' = Leaving /\ Waits' = Waits /\ (Ready' <=> Ready) /\ (Pending' <=> Pending)
    BY Zenon, <1>1 DEF Live, Leaving, In, Waits, Renewals, Redials, Ready, Pending
  <1>6. TypeOK'
    BY Zenon, <1>1, <1>2, <1>4 DEF Inv, TypeOK
  <1>7. CurInv' /\ NeverStranded' /\ OneToken' /\ Flushed'
    BY Zenon, <1>1, <1>4, <1>5 DEF Inv, CurInv, NeverStranded, OneToken, Flushed
  <1> QED BY Zenon, <1>6, <1>7 DEF Inv

\* A handshake is through: what waited is handed over.
LEMMA OnopenStep ==
  ASSUME Inv, NEW s \in Sock, onopen(s)
  PROVE  Inv'
  <1>1. /\ run' = run /\ cur' = cur /\ cbo' = FALSE /\ dials' = dials /\ renewing' = renewing
        /\ paused' = paused /\ frames' = frames /\ hasty' = hasty /\ drops' = drops
        /\ wire' = wire \o queue /\ queue' = <<>> /\ sock[s].state = "connecting"
    BY Zenon DEF onopen, In
  <1>2. /\ sock' \in [Sock -> Conn]
        /\ sock'[s].state = "open" /\ (sock'[s].hooked <=> sock[s].hooked)
        /\ \A t \in Sock \ {s} : sock'[t] = sock[t]
    <2>1. sock \in [Sock -> Conn] /\ "open" \in State /\ sock' = [sock EXCEPT ![s].state = "open"]
      BY Zenon DEF Inv, TypeOK, Conn, State, onopen
    <2> QED BY Zenon, <2>1, SockMoves
  <1>3. Live' = Live
    BY Zenon, <1>1, <1>2 DEF Live
  <1>4. Leaving' = Leaving
    BY Zenon, <1>1, <1>2 DEF Leaving, In
  <1>5. Waits' = Waits
    BY Zenon, <1>1 DEF Waits, Renewals, Redials
  <1>6. CurInv'
    BY Zenon, <1>1, <1>2, <1>3 DEF Inv, CurInv
  <1>7. TypeOK'
    <2>1. queue' \in Seq(1 .. frames') /\ wire' \in Seq(1 .. frames')
      BY <1>1 DEF Inv, TypeOK
    <2>2. /\ TypeOK /\ run' \in BOOLEAN /\ cbo' \in BOOLEAN /\ paused' \in BOOLEAN /\ hasty' \in BOOLEAN
          /\ cur' \in Sock \cup {None} /\ dials' \in [BOOLEAN -> 0 .. MaxDials] /\ renewing' \in 0 .. MaxDials
          /\ frames' \in 0 .. MaxFrames /\ drops' \in 0 .. MaxDrops
      BY Zenon, <1>1 DEF Inv, TypeOK
    <2> QED BY Zenon, <1>2, <1>6, <2>1, <2>2, Typed
  <1>8. NeverStranded'
    <2>1. s \in Live'
      BY Zenon, <1>2 DEF Live
    <2> QED BY Zenon, <2>1 DEF NeverStranded
  <1>9. OneToken'
    BY Zenon, <1>1, <1>3, <1>4, <1>5 DEF Inv, OneToken
  <1>10. Flushed'
    BY Zenon, <1>1 DEF Flushed
  <1> QED BY Zenon, <1>6, <1>7, <1>8, <1>9, <1>10 DEF Inv

-----------------------------------------------------------------------------
(* Closing *)

\* The app stops: the socket in use is closed and its close event is to come.
LEMMA DisconnectStep ==
  ASSUME Inv, disconnect
  PROVE  Inv'
  <1>1. /\ run' = FALSE /\ cur' = None /\ cbo' = cbo /\ dials' = dials /\ renewing' = renewing
        /\ paused' = paused /\ frames' = frames /\ hasty' = hasty /\ drops' = drops
        /\ wire' = wire /\ queue' = <<>>
    BY Zenon DEF disconnect
  <1>2. /\ sock' \in [Sock -> Conn]
        /\ \A t \in Sock : t # cur => sock'[t] = sock[t]
        /\ cur # None => cur \in Sock /\ sock'[cur].state = "closing"
    <2>1. sock \in [Sock -> Conn] /\ "closing" \in State
      BY Zenon DEF Inv, TypeOK, Conn, State
    <2>2. CASE cur = None
      BY Zenon, <2>1, <2>2 DEF disconnect
    <2>3. CASE cur # None
      <3>1. cur \in Sock /\ sock' = [sock EXCEPT ![cur].state = "closing"]
        BY Zenon, <2>3 DEF disconnect, Inv, CurInv, Live
      <3> QED BY Zenon, <2>1, <3>1, SockMoves
    <2> QED BY Zenon, <2>2, <2>3
  <1>3. Live' = Live \ {cur}
    BY Zenon, <1>2, WsClientAssumption DEF Live
  <1>4. Leaving' \subseteq Leaving \cup {cur} /\ (cur = None => Leaving' = Leaving)
    BY Zenon, <1>2, WsClientAssumption DEF Leaving, In
  <1>5. Waits' = Waits
    BY Zenon, <1>1 DEF Waits, Renewals, Redials
  <1>6. CurInv'
    BY Zenon, <1>1, <1>2, <1>3 DEF Inv, CurInv
  <1>7. TypeOK'
    <2>1. /\ TypeOK /\ run' \in BOOLEAN /\ cbo' \in BOOLEAN /\ paused' \in BOOLEAN /\ hasty' \in BOOLEAN
          /\ cur' \in Sock \cup {None} /\ dials' \in [BOOLEAN -> 0 .. MaxDials] /\ renewing' \in 0 .. MaxDials
          /\ frames' \in 0 .. MaxFrames /\ drops' \in 0 .. MaxDrops /\ wire' \in Seq(1 .. frames')
      BY Zenon, <1>1 DEF Inv, TypeOK
    <2>2. queue' \in Seq(1 .. frames')
      BY <1>1
    <2> QED BY Zenon, <1>2, <1>6, <2>1, <2>2, Typed
  <1>8. NeverStranded' /\ Flushed'
    BY Zenon, <1>1 DEF NeverStranded, Flushed
  <1>9. OneToken'
    <2> SUFFICES ASSUME ~hasty PROVE /\ Live' = {} /\ (Leaving' # {} => Waits' = 0)
                                     /\ (\A s, t \in Leaving' : s = t) /\ Waits' <= 1
      BY Zenon, <1>1 DEF OneToken
    <2>1. Live \subseteq {cur} /\ (Live # {} => Leaving = {} /\ Waits = 0) /\ (Leaving # {} => Waits = 0)
          /\ (\A s, t \in Leaving : s = t) /\ Waits <= 1
      BY Zenon DEF Inv, OneToken
    <2>2. CASE cur = None
      BY Zenon, <1>3, <1>4, <1>5, <2>1, <2>2
    <2>3. CASE cur # None
      <3>1. cur \in Live
        BY Zenon, <2>3 DEF Inv, CurInv
      <3> QED BY Zenon, <1>3, <1>4, <1>5, <2>1, <3>1
    <2> QED BY Zenon, <2>2, <2>3
  <1> QED BY Zenon, <1>6, <1>7, <1>8, <1>9 DEF Inv

\* The timer that onclose sets is one token more.
LEMMA DialSet ==
  ASSUME TypeOK, dials[cbo] < MaxDials, dials' = [dials EXCEPT ![cbo] = @ + 1], renewing' = renewing
  PROVE  dials' \in [BOOLEAN -> 0 .. MaxDials] /\ Waits' = Waits + 1
  <1>1. CASE cbo = TRUE
    <2>1. dials' = [dials EXCEPT ![TRUE] = Renewals + 1] /\ Renewals < MaxDials
      BY Zenon, <1>1 DEF Renewals
    <2>2. Renewals + 1 \in 0 .. MaxDials
      BY <2>1, Counts, WsClientAssumption
    <2>3. dials' \in [BOOLEAN -> 0 .. MaxDials]
      BY Zenon, <2>1, <2>2 DEF TypeOK
    <2>4. Renewals' = Renewals + 1 /\ Redials' = Redials
      BY Zenon, <2>1 DEF TypeOK, Renewals, Redials
    <2> QED BY <2>3, <2>4, Counts DEF Waits
  <1>2. CASE cbo = FALSE
    <2>1. dials' = [dials EXCEPT ![FALSE] = Redials + 1] /\ Redials < MaxDials
      BY Zenon, <1>2 DEF Redials
    <2>2. Redials + 1 \in 0 .. MaxDials
      BY <2>1, Counts, WsClientAssumption
    <2>3. dials' \in [BOOLEAN -> 0 .. MaxDials]
      BY Zenon, <2>1, <2>2 DEF TypeOK
    <2>4. Redials' = Redials + 1 /\ Renewals' = Renewals
      BY Zenon, <2>1 DEF TypeOK, Renewals, Redials
    <2> QED BY <2>3, <2>4, Counts DEF Waits
  <1> QED BY Zenon, <1>1, <1>2 DEF TypeOK

\* The close event of a live socket, or of one the app has closed, hands the
\* token to a timer, or takes it away.
LEMMA OncloseStep ==
  ASSUME Inv, NEW s \in Sock, NEW replaced \in BOOLEAN, onclose(s, replaced),
         s \in Live \/ In(s, "closing"), drops' \in 0 .. MaxDrops
  PROVE  Inv'
  <1>1. /\ run' = run /\ cur' = None /\ renewing' = renewing /\ queue' = queue /\ wire' = wire
        /\ frames' = frames /\ hasty' = hasty /\ sock[s].hooked
    BY Zenon DEF onclose
  <1>2. /\ sock' \in [Sock -> Conn] /\ sock'[s].state = "free" /\ ~sock'[s].hooked
        /\ \A t \in Sock \ {s} : sock'[t] = sock[t]
    <2>1. sock \in [Sock -> Conn] /\ sock' = [sock EXCEPT ![s] = Free]
      BY Zenon DEF Inv, TypeOK, Conn, onclose
    <2>2. Free.state = "free" /\ ~Free.hooked
      BY Zenon DEF Free
    <2>3. sock' \in [Sock -> Conn] /\ sock'[s] = Free /\ \A t \in Sock \ {s} : sock'[t] = sock[t]
      BY Zenon, <2>1, FreeIn, SockSet
    <2> QED BY Zenon, <2>2, <2>3
  <1>3. Live' = Live \ {s}
    BY Zenon, <1>2 DEF Live
  <1>4. Leaving' = Leaving \ {s}
    BY Zenon, <1>2 DEF Leaving, In
  <1>5. \/ ~run /\ dials' = dials /\ cbo' = cbo /\ paused' = paused
        \/ run /\ dials' = dials /\ cbo' = TRUE /\ paused' = TRUE
        \/ /\ run /\ dials[cbo] < MaxDials /\ dials' = [dials EXCEPT ![cbo] = @ + 1]
           /\ cbo' = TRUE /\ paused' = paused
    BY Zenon DEF onclose
  <1>6. /\ dials' \in [BOOLEAN -> 0 .. MaxDials]
        /\ Waits' = Waits \/ (Waits' = Waits + 1 /\ run)
        /\ run => Waits' = Waits + 1 \/ paused'
    <2>1. ASSUME dials' = dials PROVE Waits' = Waits /\ dials' \in [BOOLEAN -> 0 .. MaxDials]
      BY Zenon, <1>1, <2>1 DEF Waits, Renewals, Redials, Inv, TypeOK
    <2>2. TypeOK
      BY Zenon DEF Inv
    <2> QED BY Zenon, <1>1, <1>5, <2>1, <2>2, DialSet
  <1>7. CurInv'
    BY Zenon, <1>1, <1>2, <1>3 DEF Inv, CurInv
  <1>8. TypeOK'
    <2>1. cbo' \in BOOLEAN /\ paused' \in BOOLEAN
      BY Zenon, <1>5 DEF Inv, TypeOK
    <2>2. /\ TypeOK /\ run' \in BOOLEAN /\ hasty' \in BOOLEAN
          /\ cur' \in Sock \cup {None} /\ renewing' \in 0 .. MaxDials /\ frames' \in 0 .. MaxFrames
          /\ wire' \in Seq(1 .. frames') /\ queue' \in Seq(1 .. frames')
      BY Zenon, <1>1 DEF Inv, TypeOK
    <2> QED BY Zenon, <1>2, <1>6, <1>7, <2>1, <2>2, Typed
  <1>9. NeverStranded'
    <2>1. Waits' = Waits + 1 => Waits' # 0
      BY Counts DEF Inv
    <2>2. Waits' = Waits + 1 => Pending'
      BY Zenon, <1>8, <2>1, PendingNext
    <2> QED BY Zenon, <1>1, <1>6, <2>2 DEF NeverStranded
  <1>10. Flushed'
    BY Zenon, <1>1 DEF Flushed, Ready
  <1>11. OneToken'
    <2> SUFFICES ASSUME ~hasty PROVE /\ Live' = {} /\ (Leaving' # {} => Waits' = 0)
                                     /\ (\A x, t \in Leaving' : x = t) /\ Waits' <= 1
      BY Zenon, <1>1 DEF OneToken
    <2>1. Live \subseteq {cur} /\ (Live # {} => Leaving = {} /\ Waits = 0) /\ (Leaving # {} => Waits = 0)
          /\ (\A x, t \in Leaving : x = t) /\ Waits <= 1
      BY Zenon DEF Inv, OneToken
    <2>2. s \in Live \/ s \in Leaving
      BY Zenon, <1>1 DEF Leaving
    <2>3. Waits = 0 /\ Live' = {} /\ Leaving' = {}
      BY Zenon, <1>3, <1>4, <2>1, <2>2
    <2> QED BY <1>6, <2>3
  <1> QED BY Zenon, <1>7, <1>8, <1>9, <1>10, <1>11 DEF Inv

\* A socket without a handler goes unnoticed.
LEMMA SilentStep ==
  ASSUME Inv, NEW s \in Sock, In(s, "closing"), ~sock[s].hooked, sock' = [sock EXCEPT ![s] = Free],
         UNCHANGED <<run, cur, cbo, dials, renewing, paused, queue, wire, frames, hasty, drops>>
  PROVE  Inv'
  <1>1. /\ sock' \in [Sock -> Conn] /\ sock'[s].state = "free" /\ ~sock'[s].hooked
        /\ \A t \in Sock \ {s} : sock'[t] = sock[t]
    <2>1. sock \in [Sock -> Conn]
      BY Zenon DEF Inv, TypeOK, Conn
    <2>2. Free.state = "free" /\ ~Free.hooked
      BY Zenon DEF Free
    <2>3. sock' \in [Sock -> Conn] /\ sock'[s] = Free /\ \A t \in Sock \ {s} : sock'[t] = sock[t]
      BY Zenon, <2>1, FreeIn, SockSet
    <2> QED BY Zenon, <2>2, <2>3
  <1>2. Live' = Live
    BY Zenon, <1>1 DEF Live, In
  <1>3. Leaving' = Leaving
    BY Zenon, <1>1 DEF Leaving, In
  <1>4. Waits' = Waits
    BY Zenon DEF Waits, Renewals, Redials
  <1>5. CurInv'
    BY Zenon, <1>1, <1>2 DEF Inv, CurInv
  <1>6. TypeOK'
    <2>1. /\ TypeOK /\ run' \in BOOLEAN /\ cbo' \in BOOLEAN /\ paused' \in BOOLEAN /\ hasty' \in BOOLEAN
          /\ cur' \in Sock \cup {None} /\ dials' \in [BOOLEAN -> 0 .. MaxDials] /\ renewing' \in 0 .. MaxDials
          /\ frames' \in 0 .. MaxFrames /\ drops' \in 0 .. MaxDrops
          /\ wire' \in Seq(1 .. frames') /\ queue' \in Seq(1 .. frames')
      BY Zenon DEF Inv, TypeOK
    <2> QED BY Zenon, <1>1, <1>5, <2>1, Typed
  <1>7. NeverStranded'
    <2>1. Pending' <=> Pending
      BY Zenon, <1>3, <1>4, <1>6, PendingIs, PendingNext DEF Inv
    <2> QED BY Zenon, <1>2, <2>1 DEF Inv, NeverStranded
  <1>8. OneToken'
    BY Zenon, <1>2, <1>3, <1>4 DEF Inv, OneToken
  <1>9. Flushed'
    <2>1. Ready' => Ready
      <3>1. s # cur
        BY Zenon, WsClientAssumption DEF Inv, CurInv, Live, In
      <3> QED BY Zenon, <1>1, <3>1 DEF Ready, In, Inv, TypeOK
    <2> QED BY Zenon, <2>1 DEF Inv, Flushed
  <1> QED BY Zenon, <1>5, <1>6, <1>7, <1>8, <1>9 DEF Inv

-----------------------------------------------------------------------------
(* Timers and exchanges *)

\* A timer that fires is one token less among the timers.
LEMMA DialFired ==
  ASSUME TypeOK, NEW b \in BOOLEAN, Fired(b)
  PROVE  /\ dials' \in [BOOLEAN -> 0 .. MaxDials]
         /\ Renewals' + Redials' = Renewals + Redials - 1 /\ Renewals + Redials # 0
  <1>1. CASE b = TRUE
    <2>1. dials' = [dials EXCEPT ![TRUE] = Renewals - 1] /\ Renewals > 0
      BY Zenon, <1>1 DEF Renewals, Fired
    <2>2. Renewals - 1 \in 0 .. MaxDials
      BY <2>1, Counts, WsClientAssumption
    <2>3. dials' \in [BOOLEAN -> 0 .. MaxDials]
      BY Zenon, <2>1, <2>2 DEF TypeOK
    <2>4. Renewals' = Renewals - 1 /\ Redials' = Redials
      BY Zenon, <2>1 DEF TypeOK, Renewals, Redials
    <2>5. Renewals' + Redials' = Renewals + Redials - 1 /\ Renewals + Redials # 0
      BY <2>1, <2>4, Counts
    <2> QED BY Zenon, <2>3, <2>5
  <1>2. CASE b = FALSE
    <2>1. dials' = [dials EXCEPT ![FALSE] = Redials - 1] /\ Redials > 0
      BY Zenon, <1>2 DEF Redials, Fired
    <2>2. Redials - 1 \in 0 .. MaxDials
      BY <2>1, Counts, WsClientAssumption
    <2>3. dials' \in [BOOLEAN -> 0 .. MaxDials]
      BY Zenon, <2>1, <2>2 DEF TypeOK
    <2>4. Redials' = Redials - 1 /\ Renewals' = Renewals
      BY Zenon, <2>1 DEF TypeOK, Renewals, Redials
    <2>5. Renewals' + Redials' = Renewals + Redials - 1 /\ Renewals + Redials # 0
      BY <2>1, <2>4, Counts
    <2> QED BY Zenon, <2>3, <2>5
  <1> QED BY Zenon, <1>1, <1>2

\* The timer whose session needs no renewal dials.
LEMMA RedialInv ==
  ASSUME Inv, Redial
  PROVE  Inv'
  <1>1. TypeOK
    BY Zenon DEF Inv
  <1>2. /\ dials' \in [BOOLEAN -> 0 .. MaxDials]
        /\ Renewals' + Redials' = Renewals + Redials - 1 /\ Renewals + Redials # 0
    BY Zenon, <1>1, DialFired DEF Redial
  <1>3. renewing' = renewing /\ renewing' \in 0 .. MaxDials
    BY Zenon, <1>1 DEF Redial, TypeOK
  <1>4. Waits' = Waits - 1 /\ Waits # 0
    BY <1>1, <1>2, <1>3, Counts DEF Waits
  <1> QED BY Zenon, <1>2, <1>3, <1>4, RedialStep DEF Redial

\* The other asks for a new session first: a timer becomes an exchange.
LEMMA RenewStep ==
  ASSUME Inv, Renew
  PROVE  Inv'
  <1>1. TypeOK
    BY Zenon DEF Inv
  <1>2. /\ dials' \in [BOOLEAN -> 0 .. MaxDials]
        /\ Renewals' + Redials' = Renewals + Redials - 1 /\ Renewals + Redials # 0
    BY Zenon, <1>1, DialFired DEF Renew
  <1>3. renewing' = renewing + 1 /\ renewing < MaxDials
    BY Zenon DEF Renew
  <1>4. renewing' \in 0 .. MaxDials
    BY <1>1, <1>3, Counts, WsClientAssumption
  <1>5. Waits' = Waits /\ Waits # 0
    BY <1>1, <1>2, <1>3, Counts DEF Waits
  <1>6. /\ run' = run /\ cur' = cur /\ sock' = sock /\ cbo' = cbo /\ paused' = paused /\ queue' = queue
        /\ wire' = wire /\ frames' = frames /\ hasty' = hasty /\ drops' = drops
    BY Zenon DEF Renew
  <1>7. Live' = Live /\ Leaving' = Leaving /\ (Ready' <=> Ready)
    BY Zenon, <1>6 DEF Live, Leaving, In, Ready
  <1>8. TypeOK'
    BY Zenon, <1>2, <1>4, <1>6 DEF Inv, TypeOK
  <1>9. NeverStranded'
    <2>1. Pending'
      BY Zenon, <1>5, <1>8, PendingNext
    <2> QED BY Zenon, <2>1 DEF NeverStranded
  <1>10. CurInv' /\ OneToken' /\ Flushed'
    BY Zenon, <1>5, <1>6, <1>7 DEF Inv, CurInv, OneToken, Flushed
  <1> QED BY Zenon, <1>8, <1>9, <1>10 DEF Inv

\* An exchange ends: the client dials, or was told not to.
LEMMA RenewedStep ==
  ASSUME Inv, NEW outcome, Renewed(outcome)
  PROVE  Inv'
  <1>1. TypeOK
    BY Zenon DEF Inv
  <1>2. renewing' = renewing - 1 /\ renewing > 0 /\ dials' = dials
    BY Zenon DEF Renewed
  <1>3. renewing' \in 0 .. MaxDials /\ Waits' = Waits - 1 /\ Waits # 0
    <2>1. Renewals' = Renewals /\ Redials' = Redials
      BY Zenon, <1>2 DEF Renewals, Redials
    <2> QED BY <1>1, <1>2, <2>1, Counts, WsClientAssumption DEF Waits
  <1>4. dials' \in [BOOLEAN -> 0 .. MaxDials]
    BY Zenon, <1>1, <1>2 DEF TypeOK
  <1>5. UNCHANGED <<run, cbo, queue, wire, frames, hasty, drops>>
    BY Zenon DEF Renewed
  <1>6. CASE IF run THEN open(sock) ELSE UNCHANGED <<sock, cur, paused>>
    BY Zenon, <1>3, <1>4, <1>5, <1>6, RedialStep
  <1>7. CASE paused' = (paused \/ run) /\ UNCHANGED <<sock, cur>>
    <2>1. /\ run' = run /\ cur' = cur /\ sock' = sock /\ cbo' = cbo /\ queue' = queue
          /\ wire' = wire /\ frames' = frames /\ hasty' = hasty /\ drops' = drops
      BY Zenon, <1>5, <1>7
    <2>2. Live' = Live /\ Leaving' = Leaving /\ (Ready' <=> Ready)
      BY Zenon, <2>1 DEF Live, Leaving, In, Ready
    <2>3. paused' \in BOOLEAN /\ (run' => paused')
      BY Zenon, <1>1, <1>7, <2>1 DEF TypeOK
    <2>4. TypeOK'
      BY Zenon, <1>1, <1>3, <1>4, <2>1, <2>3 DEF TypeOK
    <2>5. NeverStranded'
      BY Zenon, <2>3 DEF NeverStranded
    <2>6. Waits' <= Waits /\ (Waits = 0 => Waits' = 0) /\ Waits \in Nat
      BY <1>1, <1>3, Counts
    <2>7. CurInv' /\ Flushed'
      BY Zenon, <2>1, <2>2 DEF Inv, CurInv, Flushed
    <2>8. OneToken'
      BY <1>3, <2>1, <2>2, <2>6 DEF Inv, OneToken
    <2> QED BY Zenon, <2>4, <2>5, <2>7, <2>8 DEF Inv
  <1> QED BY Zenon, <1>6, <1>7 DEF Renewed

-----------------------------------------------------------------------------
(* The theorems *)

\* No socket, no timer, no frame.
LEMMA InitInv == Init => Inv
  <1> SUFFICES ASSUME Init PROVE Inv
    BY Zenon
  <1>1. sock = [s \in Sock |-> Free] /\ cur = None /\ run = FALSE /\ queue = <<>> /\ wire = <<>> /\ frames = 0
    BY Zenon DEF Init
  <1>2. \A s \in Sock : sock[s].state = "free" /\ ~sock[s].hooked
    BY Zenon, <1>1 DEF Free
  <1>3. Live = {} /\ Leaving = {}
    BY Zenon, <1>2 DEF Live, Leaving, In
  <1>4. Renewals = 0 /\ Redials = 0 /\ renewing = 0
    BY Zenon DEF Init, Renewals, Redials
  <1>5. TypeOK
    <2>1. sock \in [Sock -> Conn]
      BY Zenon, <1>1, FreeIn
    <2>2. dials \in [BOOLEAN -> 0 .. MaxDials] /\ renewing \in 0 .. MaxDials /\ drops \in 0 .. MaxDrops
          /\ frames \in 0 .. MaxFrames
      <3>1. 0 \in 0 .. MaxDials /\ 0 \in 0 .. MaxDrops /\ 0 \in 0 .. MaxFrames
        BY WsClientAssumption
      <3> QED BY Zenon, <3>1 DEF Init
    <2>3. queue \in Seq(1 .. frames) /\ wire \in Seq(1 .. frames)
      BY <1>1
    <2>4. run \in BOOLEAN /\ cbo \in BOOLEAN /\ paused \in BOOLEAN /\ hasty \in BOOLEAN
      BY Zenon DEF Init
    <2> QED BY Zenon, <1>1, <2>1, <2>2, <2>3, <2>4 DEF TypeOK, Conn
  <1>6. CurInv /\ NeverStranded /\ Flushed
    BY Zenon, <1>1, <1>3 DEF CurInv, NeverStranded, Flushed, Ready
  <1>7. OneToken
    BY <1>3, <1>4 DEF OneToken, Waits
  <1> QED BY Zenon, <1>5, <1>6, <1>7 DEF Inv

\* Every callback keeps the invariant.
LEMMA StepInv == Inv /\ [Next]_vars => Inv'
  <1> SUFFICES ASSUME Inv, [Next]_vars PROVE Inv'
    BY Zenon
  <1>1. ASSUME NEW s \in Sock, Drop(s) PROVE Inv'
    <2>1. drops' \in 0 .. MaxDrops
      BY <1>1, WsClientAssumption DEF Drop, Inv, TypeOK
    <2> QED BY Zenon, <1>1, <2>1, OncloseStep DEF Drop
  <1>2. ASSUME NEW s \in Sock, Closed(s) PROVE Inv'
    <2>1. drops' \in 0 .. MaxDrops /\ drops' = drops
      BY Zenon, <1>2 DEF Closed, Inv, TypeOK
    <2>2. ASSUME onclose(s, FALSE) PROVE Inv'
      BY Zenon, <1>2, <2>1, <2>2, OncloseStep DEF Closed
    <2>3. ASSUME ~onclose(s, FALSE) PROVE Inv'
      BY Zenon, <1>2, <2>1, <2>3, SilentStep DEF Closed
    <2> QED BY Zenon, <2>2, <2>3
  <1>3. CASE UNCHANGED vars
    <2>1. TypeOK'
      BY Zenon, <1>3 DEF vars, Inv, TypeOK
    <2>2. Live' = Live /\ Leaving' = Leaving /\ Waits' = Waits /\ (Ready' <=> Ready) /\ (Pending' <=> Pending)
      BY Zenon, <1>3 DEF vars, Live, Leaving, In, Waits, Renewals, Redials, Ready, Pending
    <2>3. CurInv' /\ NeverStranded' /\ OneToken' /\ Flushed'
      BY Zenon, <1>3, <2>2 DEF vars, Inv, CurInv, NeverStranded, OneToken, Flushed
    <2> QED BY Zenon, <2>1, <2>3 DEF Inv
  <1> QED BY Zenon, <1>1, <1>2, <1>3, ConnectStep, EnsureConnectedStep, SendStep, DisconnectStep, OnopenStep,
             RedialInv, RenewStep, RenewedStep DEF Next, Loop

\* Every variable of the client keeps its type.
THEOREM TypeCorrect == Spec => []TypeOK
  <1>1. Inv => TypeOK
    BY Zenon DEF Inv
  <1> QED BY <1>1, InitInv, StepInv, PTL DEF Spec

\* A client that should run always has a socket, or a close event, a timer or
\* an exchange to come that will dial, or was told by the server not to dial.
THEOREM NotStranded == Spec => []NeverStranded
  <1>1. Inv => NeverStranded
    BY Zenon DEF Inv
  <1> QED BY <1>1, InitInv, StepInv, PTL DEF Spec

\* An app that dials only when nothing is pending has one socket at most.
THEOREM SingleSocket == Spec => []OneSocket
  <1>1. Inv => OneSocket
    <2> SUFFICES ASSUME Inv, ~hasty PROVE Cardinality(Live) <= 1
      BY Zenon DEF OneSocket
    <2>1. Live \subseteq {cur}
      BY Zenon DEF Inv, OneToken
    <2>2. IsFiniteSet({cur}) /\ Cardinality({cur}) = 1
      BY Zenon, FS_Singleton
    <2> QED BY Zenon, <2>1, <2>2, FS_Subset
  <1> QED BY <1>1, InitInv, StepInv, PTL DEF Spec

\* Frames are handed over in the order they were sent, none lost or doubled,
\* by every step but the one that stops the client.
THEOREM KeepsOrder == Spec => KeptInOrder
  <1> DEFINE A == (run => run') => wire' \o queue' = wire \o queue \o [i \in 1 .. frames' - frames |-> frames + i]
  <1>1. Inv /\ [Next]_vars => [A]_vars
    <2> SUFFICES ASSUME Inv, Next, run => run'
                 PROVE  wire' \o queue' = wire \o queue \o [i \in 1 .. frames' - frames |-> frames + i]
      BY Zenon
    <2>0. /\ frames \in Nat /\ queue \in Seq(Nat) /\ wire \in Seq(Nat) /\ wire \o queue \in Seq(Nat)
      <3>1. frames \in Nat /\ 1 .. frames \subseteq Nat
        BY WsClientAssumption DEF Inv, TypeOK
      <3> DEFINE S == 1 .. frames
      <3>2. queue \in Seq(S) /\ wire \in Seq(S) /\ S \subseteq Nat
        BY Zenon, <3>1 DEF Inv, TypeOK
      <3> HIDE DEF S
      <3>3. queue \in Seq(Nat) /\ wire \in Seq(Nat)
        BY Zenon, <3>1, <3>2, SeqGrows
      <3> QED BY <3>1, <3>3
    <2>1. ASSUME frames' = frames, wire' \o queue' = wire \o queue
          PROVE  wire' \o queue' = wire \o queue \o [i \in 1 .. frames' - frames |-> frames + i]
      <3>1. [i \in 1 .. frames' - frames |-> frames + i] = <<>>
        BY <2>0, <2>1
      <3> QED BY <2>0, <2>1, <3>1
    <2>2. ASSUME send PROVE wire' \o queue' = wire \o queue \o [i \in 1 .. frames' - frames |-> frames + i]
      <3>1. frames' = frames + 1 /\ [i \in 1 .. frames' - frames |-> frames + i] = <<frames + 1>>
        BY <2>0, <2>2 DEF send
      <3>2. CASE Ready
        <4>1. queue = <<>> /\ queue' = queue /\ wire' = Append(wire, frames + 1)
          BY Zenon, <2>2, <3>1, <3>2 DEF send, Inv, Flushed
        <4>2. wire \o <<>> = wire /\ Append(wire, frames + 1) \o <<>> = wire \o <<frames + 1>>
          BY <2>0
        <4> QED BY Zenon, <3>1, <4>1, <4>2
      <3>3. CASE ~Ready
        <4>1. queue' = Append(queue, frames + 1) /\ wire' = wire
          BY Zenon, <2>2, <3>1, <3>3 DEF send
        <4> QED BY <2>0, <3>1, <4>1
      <3> QED BY Zenon, <3>2, <3>3
    <2>3. ASSUME NEW s \in Sock, onopen(s) PROVE frames' = frames /\ wire' \o queue' = wire \o queue
      BY <2>0, <2>3 DEF onopen
    <2>4. ASSUME connect \/ ensureConnected \/ Redial \/ Renew PROVE frames' = frames /\ wire' = wire /\ queue' = queue
      BY Zenon, <2>4 DEF connect, ensureConnected, Redial, Renew
    <2>5. ASSUME NEW s \in Sock, Drop(s) \/ Closed(s) PROVE frames' = frames /\ wire' = wire /\ queue' = queue
      BY Zenon, <2>5 DEF Drop, Closed, onclose
    <2>6. ASSUME NEW o, Renewed(o) PROVE frames' = frames /\ wire' = wire /\ queue' = queue
      BY Zenon, <2>6 DEF Renewed
    <2>7. ~disconnect
      BY Zenon DEF disconnect
    <2> QED BY Zenon, <2>1, <2>2, <2>3, <2>4, <2>5, <2>6, <2>7 DEF Next, Loop
  <1> QED BY <1>1, InitInv, StepInv, PTL DEF Spec, KeptInOrder

-----------------------------------------------------------------------------
(* The renewal of the session, which a refused handshake waits for: the      *)
(* module Refresh, for any number of requests and tabs.  A client is never   *)
(* signed out by reuse detection, and never drops the token of a live        *)
(* session, as long as its tabs do not renew at the same time and no answer  *)
(* is lost after the server acted.                                           *)

Away(f) == ~At(f, "idle")

\* At most one exchange is under way.
Single == \A f, g \in Flight : Away(f) /\ Away(g) => f = g

\* While the session lives the client holds its token, unless the newer one
\* is on its way, or a rate limit made it drop it.
Held ==
  row.state = "live" =>
    jar = row.token \/ (\E f \in Flight : At(f, "ok")) \/ (limited /\ jar = NoToken)

\* What the server and the answers know about a session that lives.
Known(f) ==
  /\ At(f, "read") /\ row.state = "live" =>
       fly[f].token = row.token \/ (limited /\ fly[f].token = NoToken)
  /\ ~At(f, "revoke")
  /\ At(f, "rotate") /\ ~limited => jar # NoToken
  /\ At(f, "ok") => fly[f].token # NoToken /\ (row.state = "live" => fly[f].token = row.token)
  /\ At(f, "refused") /\ ~limited => row.state # "live"
  /\ At(f, "limited") /\ native => limited

TokenInv ==
  /\ RefreshTypeOK
  /\ NoSelfLogout
  /\ DroppedWhenOver
  /\ calm => Single /\ Held /\ \A f \in Flight : Known(f)

\* The initial state satisfies the invariant.
LEMMA TokenInit == RefreshInit => TokenInv
<1> SUFFICES ASSUME RefreshInit PROVE TokenInv
  OBVIOUS
<1>1. RefreshTypeOK
  <2>1. fly \in [Flight -> [pc : Pc, token : Nat \cup {NoToken}]] /\ \A f \in Flight : fly[f].token = NoToken
    BY DEF RefreshInit, Idle, Pc
  <2>2. native \in BOOLEAN /\ calm \in BOOLEAN /\ limited \in BOOLEAN
    BY Zenon DEF RefreshInit
  <2>3. row \in [token : Nat, state : {"live", "expired", "ended", "reused"}]
    BY DEF RefreshInit
  <2>4. made \in 1 .. MaxToken /\ jar \in Nat \cup {NoToken} /\ faults \in 0 .. MaxFaults
    BY RefreshAssumption DEF RefreshInit
  <2> QED BY Zenon, <2>1, <2>2, <2>3, <2>4 DEF RefreshTypeOK
<1>2. \A f \in Flight : fly[f] = Idle
  BY DEF RefreshInit
<1>3. NoSelfLogout /\ DroppedWhenOver /\ Single /\ Held
  BY <1>2, RefreshAssumption DEF RefreshInit, NoSelfLogout, DroppedWhenOver, Single, Held, Away, At, Idle
<1>4. \A f \in Flight : Known(f)
  BY Zenon, <1>2 DEF RefreshInit, Known, At, Idle
<1> QED
  BY <1>1, <1>3, <1>4 DEF TokenInv

\* Every step of Next preserves the invariant: one step of the proof per
\* action.  The exchanges other than the one that moves are idle.
LEMMA TokenNext == ASSUME TokenInv, RefreshNext PROVE TokenInv'
<1> USE RefreshAssumption DEF TokenInv, RefreshTypeOK, Pc, NoSelfLogout, DroppedWhenOver, Single, Held, Known, Away, At, Idle, Goto, Fault
<1>1. ASSUME NEW f \in Flight, refreshSession(f) PROVE TokenInv'
  <2>1. calm' = (calm /\ \A g \in Flight : At(g, "idle"))
    BY Zenon, <1>1 DEF refreshSession, InFlight, OtherTab
  <2> QED BY ZenonT(40), <1>1, <2>1 DEF refreshSession
<1>2. ASSUME NEW f \in Flight, GetByID(f) PROVE TokenInv'
  <2>1. CASE fly[f].token = NoToken \/ row.state # "live"
    <3>1. /\ fly' = [fly EXCEPT ![f].pc = "refused"] /\ fly[f].pc = "read"
          /\ UNCHANGED <<native, row, made, jar, calm, limited, faults>>
      BY Zenon, <1>2, <2>1 DEF GetByID
    <3>2. RefreshTypeOK'
      BY <3>1
    <3>3. \A g \in Flight : fly'[g] = IF g = f THEN [fly[g] EXCEPT !.pc = "refused"] ELSE fly[g]
      BY <3>1
    <3>4. calm => \A g \in Flight : g # f => fly[g].pc = "idle"
      BY <3>1
    <3>5. NoSelfLogout' /\ DroppedWhenOver' /\ (calm' => Held')
      BY <3>1, <3>3, <3>4
    <3>6. calm' => Single' /\ \A g \in Flight : Known(g)'
      BY <2>1, <3>1, <3>3, <3>4
    <3> QED BY Zenon, <3>2, <3>5, <3>6
  <2>2. CASE row.state = "live" /\ fly[f].token # NoToken /\ fly[f].token # row.token
    BY <1>2, <2>2 DEF GetByID
  <2>3. CASE fly[f].token # NoToken /\ fly[f].token = row.token
    BY <1>2, <2>3 DEF GetByID
  <2> QED BY Zenon, <2>1, <2>2, <2>3
<1>3. ASSUME NEW f \in Flight, Revoke(f) PROVE TokenInv'
  BY <1>3 DEF Revoke, Revoked
<1>4. ASSUME NEW f \in Flight, Rotate(f) PROVE TokenInv'
  <2>1. CASE Revoked
    BY <1>4, <2>1 DEF Rotate, Revoked
  <2>2. CASE ~Revoked
    <3>1. /\ row' = [token |-> made + 1, state |-> "live"] /\ made' = made + 1 /\ made + 1 \in 1 .. MaxToken
          /\ fly' = [fly EXCEPT ![f] = [pc |-> "ok", token |-> made + 1]]
          /\ UNCHANGED <<native, jar, calm, limited, faults>>
      BY <1>4, <2>2 DEF Rotate
    <3>2. RefreshTypeOK'
      BY <3>1
    <3>3. \A g \in Flight : fly'[g] = IF g = f THEN [pc |-> "ok", token |-> made + 1] ELSE fly[g]
      BY <3>1
    <3>4. calm => \A g \in Flight : g # f => fly[g].pc = "idle"
      BY <1>4 DEF Rotate
    <3>5. NoSelfLogout' /\ DroppedWhenOver' /\ (calm' => Held')
      BY <1>4, <3>1, <3>3, <3>4 DEF Rotate
    <3>6. calm' => Single' /\ \A g \in Flight : Known(g)'
      BY <3>1, <3>3, <3>4
    <3> QED BY Zenon, <3>2, <3>5, <3>6
  <2> QED BY Zenon, <2>1, <2>2
<1>5. ASSUME NEW f \in Flight, DbError(f) PROVE TokenInv'
  BY <1>5 DEF DbError
<1>6. ASSUME NEW f \in Flight, Receive(f) PROVE TokenInv'
  BY <1>6 DEF Receive, Answer
<1>7. ASSUME NEW f \in Flight, Unreachable(f) PROVE TokenInv'
  <2>1. CASE ~At(f, "ok")
    BY <1>7, <2>1 DEF Unreachable, Answer
  <2>2. CASE At(f, "ok")
    <3>1. calm' = FALSE
      BY <1>7, <2>2, Zenon DEF Unreachable
    <3>2. row' = row /\ made' = made /\ jar' = jar
      BY <1>7 DEF Unreachable
    <3>3. RefreshTypeOK'
      BY <1>7, <3>1, <3>2 DEF Unreachable
    <3> QED
      BY <3>1, <3>2, <3>3
  <2> QED
    BY <2>1, <2>2
<1>8. ASSUME End \/ Expire PROVE TokenInv'
  BY <1>8 DEF End, Expire, Revoked
<1>9. ASSUME NEW f \in Flight, Limit(f) PROVE TokenInv'
  BY <1>9 DEF Limit
<1> QED
  BY Zenon, <1>1, <1>2, <1>3, <1>4, <1>5, <1>6, <1>7, <1>8, <1>9 DEF RefreshNext

\* So does a stuttering step.
LEMMA TokenStep == ASSUME TokenInv, [RefreshNext]_refreshVars PROVE TokenInv'
<1>1. CASE RefreshNext
  BY <1>1, TokenNext
<1>2. CASE UNCHANGED refreshVars
  BY <1>2 DEF refreshVars, TokenInv, RefreshTypeOK, NoSelfLogout, DroppedWhenOver, Single, Held, Known, Away, At
<1> QED
  BY <1>1, <1>2

\* Session row, tokens and exchanges keep their types.
THEOREM TokenTypes == RefreshSpec => []RefreshTypeOK
<1>1. TokenInv /\ [RefreshNext]_refreshVars => TokenInv'
  BY TokenStep
<1>2. TokenInv => RefreshTypeOK
  BY DEF TokenInv
<1> QED
  BY TokenInit, <1>1, <1>2, PTL DEF RefreshSpec

\* As long as its tabs take turns and no answer is lost, reuse detection never
\* ends the session of a client that is the only one to hold its token
\* (Refresh and refreshSession), for any number of requests and failures.
THEOREM NeverSelfLogout == RefreshSpec => []NoSelfLogout
<1>1. TokenInv /\ [RefreshNext]_refreshVars => TokenInv'
  BY TokenStep
<1>2. TokenInv => NoSelfLogout
  BY DEF TokenInv
<1> QED
  BY TokenInit, <1>1, <1>2, PTL DEF RefreshSpec

\* A client that holds no token has no live session: neither a server error,
\* nor a request that never arrived, nor in a browser a rate limit drops the
\* token (client.ts, the outcomes "rejected" and "unreachable").  A native
\* client that a rate limit turned away is the exception.
THEOREM NeverDropsLive == RefreshSpec => []DroppedWhenOver
<1>1. TokenInv /\ [RefreshNext]_refreshVars => TokenInv'
  BY TokenStep
<1>2. TokenInv => DroppedWhenOver
  BY DEF TokenInv
<1> QED
  BY TokenInit, <1>1, <1>2, PTL DEF RefreshSpec

\* A session that was ended, by a logout or by reuse detection, is never made
\* live again, nor relabelled, by an exchange that was under way (the UPDATE
\* of Rotate requires a row that is not revoked).
THEOREM EndsForGood == RefreshSpec => EndedForGood
<1>1. ASSUME TokenInv, [RefreshNext]_refreshVars PROVE [Revoked => row'.state = row.state]_refreshVars
  <2>1. ASSUME NEW f \in Flight, Rotate(f), Revoked PROVE row' = row
    BY <2>1 DEF Rotate
  <2>2. ASSUME NEW f \in Flight, Revoke(f), Revoked PROVE row' = row
    BY <2>2 DEF Revoke
  <2>3. ASSUME NEW f \in Flight,
               refreshSession(f) \/ Limit(f) \/ GetByID(f) \/ DbError(f) \/ Receive(f) \/ Unreachable(f)
        PROVE  row' = row
    BY Zenon, <2>3 DEF refreshSession, Limit, GetByID, DbError, Receive, Unreachable
  <2>4. ASSUME End \/ Expire PROVE ~Revoked
    BY <2>4 DEF End, Expire, Revoked
  <2> QED
    BY Zenon, <1>1, <2>1, <2>2, <2>3, <2>4 DEF RefreshNext
<1>2. TokenInv /\ [RefreshNext]_refreshVars => TokenInv'
  BY TokenStep
<1> QED
  BY TokenInit, <1>1, <1>2, PTL DEF RefreshSpec, EndedForGood
=============================================================================
