----------------------------- MODULE CapsProofs -----------------------------
(***************************************************************************)
(* ConnCaps, for any number of sockets, accounts, addresses, caps and      *)
(* faults: no account and no address has more sockets open than its cap    *)
(* once all is settled, and only the oldest are closed.  The first rests   *)
(* on the sockets that stay, those open that nobody is about to close:     *)
(* they are members of their sets, so each registration counts them and    *)
(* chooses the ones over the cap.                                          *)
(***************************************************************************)
EXTENDS ConnCaps, TLAPS

\* The socket has been registered, or its registration failed.
Registered(c) == conn[c] \notin {"new", "stamped"}

\* Connect times are distinct, and the latest is the number of sockets.
StampInv ==
  /\ \A c \in Conn : stamp[c] = 0 <=> conn[c] = "new"
  /\ \A c \in Conn : stamp[c] <= Cardinality(Begun)
  /\ \A c, d \in Begun : stamp[c] = stamp[d] => c = d

\* Members, and sockets to be evicted or kicked, have registered.
SetInv ==
  /\ \A k \in Key : \A c \in Members(k) : Registered(c)
  /\ \A c \in Conn : \A m \in evict[c] : Registered(m)
  /\ \A c \in kicks : Registered(c)
  /\ \A c \in Conn : evict[c] # {} => conn[c] = "evicting"

\* As many newer sockets as a cap allows have registered beside c.
Newer(c, k) == {d \in Conn : stamp[d] > stamp[c] /\ conn[d] \notin {"new", "stamped"} /\ k \in KeysOf[d]}
Oldest(c) == \E k \in KeysOf[c] : Cardinality(Newer(c, k)) >= Cap[k]

\* A socket is evicted or kicked only on that ground.
OldInv ==
  /\ \A c \in kicks : Oldest(c)
  /\ \A b \in Conn : \A c \in evict[b] : Oldest(c)

\* Nothing failed, and no socket found itself among those over a cap.
Calm == faults = 0 /\ ~crossed

\* The open sockets nobody is about to close.
Staying(k) == {c \in Conn : Open(c) /\ k \in KeysOf[c] /\ c \notin kicks /\ \A b \in Conn : c \notin evict[b]}

\* Then the sockets that stay are counted, and they are within the caps.
CalmInv ==
  Calm => /\ \A k \in Key : \A c \in Staying(k) : c \in Members(k) /\ zset[k][c] = 0
          /\ \A k \in Key : Cardinality(Staying(k)) <= Cap[k]

Inv == TypeOK /\ StampInv /\ SetInv /\ OldInv /\ CalmInv

-----------------------------------------------------------------------------
INSTANCE FiniteSetTheorems

\* Sets of sockets are finite,
LEMMA Size ==
  ASSUME NEW A \in SUBSET Conn
  PROVE  /\ IsFiniteSet(A) /\ Cardinality(A) \in Nat
         /\ Cardinality(A) = 0 <=> A = {}
  BY Zenon, FS_Subset, FS_CardinalityType, FS_EmptySet, ConnCapsAssumption

\* and a part of one is no larger.
LEMMA Smaller ==
  ASSUME NEW B \in SUBSET Conn, NEW A \in SUBSET B
  PROVE  Cardinality(A) <= Cardinality(B)
  BY Zenon, FS_Subset, Size

\* What Over leaves of a set is within the cap: how many of the set are newer
\* tells its members apart, and is less than the cap.
LEMMA RestFits ==
  ASSUME NEW S \in SUBSET Conn, NEW max \in Nat \ {0},
         stamp \in [Conn -> Nat],
         \A c, d \in S : stamp[c] = stamp[d] => c = d
  PROVE  Cardinality(S \ Over(S, max)) <= max
<1> DEFINE Younger(c) == {e \in S : stamp[e] > stamp[c]}
           K == S \ Over(S, max)
           f == [c \in K |-> Cardinality(Younger(c))]
<1>1. \A c \in K : f[c] \in 0 .. max - 1
  <2> SUFFICES ASSUME NEW c \in K PROVE f[c] \in 0 .. max - 1
    BY Zenon
  <2>1. Younger(c) \in SUBSET Conn
    BY Zenon
  <2>2. Cardinality(Younger(c)) \in Nat
    BY Zenon, <2>1, Size
  <2>3. ~ (Cardinality(Younger(c)) >= max)
    BY Zenon DEF Over
  <2> QED
    BY <2>2, <2>3
<1>2. \A c, d \in K : stamp[c] < stamp[d] => f[d] < f[c]
  <2> SUFFICES ASSUME NEW c \in K, NEW d \in K, stamp[c] < stamp[d] PROVE f[d] < f[c]
    BY Zenon
  <2>1. Younger(d) \cup {d} \subseteq Younger(c) /\ d \notin Younger(d)
    OBVIOUS
  <2>2. Younger(d) \in SUBSET Conn /\ Younger(c) \in SUBSET Conn /\ Younger(d) \cup {d} \in SUBSET Conn
    BY Zenon
  <2>3. IsFiniteSet(Younger(d)) /\ Cardinality(Younger(d)) \in Nat /\ Cardinality(Younger(c)) \in Nat
    BY Zenon, <2>2, Size
  <2>4. Cardinality(Younger(d) \cup {d}) = Cardinality(Younger(d)) + 1
    BY Zenon, <2>1, <2>3, FS_AddElement
  <2>5. Cardinality(Younger(d) \cup {d}) <= Cardinality(Younger(c))
    BY Zenon, <2>1, <2>2, Smaller
  <2> HIDE DEF Younger
  <2> QED
    BY <2>3, <2>4, <2>5
<1>3. IsFiniteSet(K) /\ Cardinality(K) \in Nat
  BY Zenon, Size
<1>4. IsFiniteSet(0 .. max - 1) /\ Cardinality(0 .. max - 1) = max
  BY FS_Interval
<1> SUFFICES ASSUME max < Cardinality(K) PROVE FALSE
  BY <1>3
<1>5. f \in [K -> 0 .. max - 1]
  BY Zenon, <1>1
<1> HIDE DEF f
<1>6. PICK c, d \in K : c # d /\ f[c] = f[d]
  <2> HIDE DEF K
  <2>1. Cardinality(0 .. max - 1) < Cardinality(K)
    BY Zenon, <1>4
  <2> QED
    BY <1>3, <1>4, <1>5, <2>1, FS_PigeonHole
<1>7. f[c] \in Nat /\ f[d] \in Nat /\ stamp[c] \in Nat /\ stamp[d] \in Nat /\ stamp[c] # stamp[d]
  BY <1>5, <1>6
<1> QED
  BY <1>2, <1>6, <1>7

-----------------------------------------------------------------------------
(* Registration goes one way *)

\* What only takes sockets further keeps every ground for an eviction.
LEMMA StaysOldest ==
  ASSUME TypeOK, NEW c \in Conn, Oldest(c), stamp'[c] = stamp[c],
         \A d \in Conn : Registered(d) => Registered(d)' /\ stamp'[d] = stamp[d]
  PROVE  Oldest(c)'
<1>1. PICK k \in KeysOf[c] : Cardinality(Newer(c, k)) >= Cap[k]
  BY Zenon DEF Oldest
<1>2. Newer(c, k) \subseteq Newer(c, k)' /\ Newer(c, k)' \in SUBSET Conn /\ Newer(c, k) \in SUBSET Conn
  BY Zenon DEF Newer, Registered
<1>3. Cardinality(Newer(c, k)) <= Cardinality(Newer(c, k)')
  BY Zenon, <1>2, Smaller
<1>4. Cardinality(Newer(c, k)) \in Nat /\ Cardinality(Newer(c, k)') \in Nat /\ Cap[k] \in Nat
  BY Zenon, <1>2, Size, ConnCapsAssumption
<1>5. Cardinality(Newer(c, k)') >= Cap[k]
  BY <1>1, <1>3, <1>4
<1> QED
  BY Zenon, <1>5 DEF Oldest

\* A step that is no handshake and no registration: connect times stay, no
\* socket begins, and what is evicted or kicked already was to be.
Later ==
  /\ stamp' = stamp
  /\ \A c \in Conn : conn'[c] = "new" <=> conn[c] = "new"
  /\ \A c \in Conn : conn'[c] = "stamped" => conn[c] = "stamped"
  /\ \A k \in Key : Members(k)' \subseteq Members(k)
  /\ \A c \in kicks' : c \in kicks \/ \E b \in Conn : c \in evict[b]
  /\ \A b \in Conn : evict'[b] \subseteq evict[b] /\ (evict'[b] # {} => conn'[b] = "evicting")

\* Such a step keeps what is known of connect times, members and evictions.
LEMMA LaterStep ==
  ASSUME TypeOK, StampInv, SetInv, OldInv, Later
  PROVE  StampInv' /\ SetInv' /\ OldInv'
<1>1. Begun' = Begun
  BY Zenon DEF Begun, Later
<1>2. StampInv'
  BY <1>1 DEF StampInv, Later
<1>3. \A c \in Conn : Registered(c) => Registered(c)'
  BY Zenon DEF Registered, Later
<1>4. \A k \in Key : Members(k) \subseteq Conn
  BY Zenon DEF TypeOK
<1>5. kicks \subseteq Conn /\ \A b \in Conn : evict[b] \subseteq Conn
  BY Zenon DEF TypeOK
<1>6. SetInv'
  BY Zenon, <1>3, <1>4, <1>5 DEF SetInv, Later
<1>7. \A c \in Conn : Oldest(c) => Oldest(c)'
  BY Zenon, <1>3, StaysOldest DEF Later
<1>8. OldInv'
  BY Zenon, <1>5, <1>7 DEF OldInv, Later
<1> QED
  BY Zenon, <1>2, <1>6, <1>8

\* If moreover no socket comes to stay, the caps are kept.
LEMMA LaterCalm ==
  ASSUME TypeOK, CalmInv, Later, Calm' => Calm,
         \A k \in Key : /\ Staying(k)' \subseteq Staying(k)
                        /\ \A c \in Staying(k)' : c \in Members(k) /\ zset[k][c] = 0
                                                   => c \in Members(k)' /\ zset'[k][c] = 0
  PROVE  CalmInv'
<1> SUFFICES ASSUME Calm' PROVE CalmInv'
  BY Zenon DEF CalmInv
<1>2. \A k \in Key : \A c \in Staying(k)' : c \in Members(k)' /\ zset'[k][c] = 0
  BY Zenon DEF CalmInv
<1>3. \A k \in Key : Cardinality(Staying(k)') <= Cap[k]
  <2> SUFFICES ASSUME NEW k \in Key PROVE Cardinality(Staying(k)') <= Cap[k]
    BY Zenon
  <2>1. Staying(k) \in SUBSET Conn /\ Staying(k)' \in SUBSET Staying(k)
    BY Zenon DEF Staying
  <2>2. Cardinality(Staying(k)') <= Cardinality(Staying(k)) /\ Cardinality(Staying(k)) <= Cap[k]
    BY Zenon, <2>1, Smaller DEF CalmInv
  <2>3. Cardinality(Staying(k)') \in Nat /\ Cardinality(Staying(k)) \in Nat /\ Cap[k] \in Nat
    BY Zenon, <2>1, Size, ConnCapsAssumption
  <2> QED
    BY <2>2, <2>3
<1> QED
  BY Zenon, <1>2, <1>3 DEF CalmInv

-----------------------------------------------------------------------------
(* The steps *)

\* A socket takes the newest connect time.
LEMMA HandshakeStep ==
  ASSUME Inv, NEW c \in Conn, Handshake(c)
  PROVE  Inv'
<1> DEFINE n == Cardinality(Begun)
<1>0. TypeOK /\ StampInv /\ SetInv /\ OldInv /\ CalmInv
  BY Zenon DEF Inv
<1>2. n \in Nat /\ \A d \in Conn : stamp[d] <= n
  BY Zenon, <1>0, Size DEF StampInv, Begun
<1>3. /\ stamp'[c] = 1 + n /\ conn[c] = "new" /\ conn'[c] = "stamped"
      /\ \A d \in Conn \ {c} : stamp'[d] = stamp[d] /\ conn'[d] = conn[d]
      /\ UNCHANGED <<zset, evict, kicks, crossed, faults>>
  BY Zenon, <1>0 DEF Handshake, TypeOK
<1>4. Begun' = Begun \cup {c} /\ c \notin Begun /\ Begun' \in SUBSET Conn /\ Begun \in SUBSET Conn
  BY Zenon, <1>3 DEF Begun
<1>5. Cardinality(Begun') = Cardinality(Begun) + 1 /\ Cardinality(Begun') <= Cardinality(Conn)
  <2>1. IsFiniteSet(Begun)
    BY Zenon, <1>4, Size
  <2>2. Cardinality(Begun \cup {c}) = Cardinality(Begun) + 1
    BY Zenon, <1>4, <2>1, FS_AddElement
  <2>3. Conn \in SUBSET Conn /\ Begun' \in SUBSET Conn
    BY Zenon, <1>4
  <2>4. Cardinality(Begun') <= Cardinality(Conn)
    BY Zenon, <2>3, Smaller
  <2> QED
    BY Zenon, <1>4, <2>2, <2>4
<1>6. TypeOK'
  <2>1. stamp' \in [Conn -> 0 .. Cardinality(Conn)]
    <3>1. stamp' = [stamp EXCEPT ![c] = 1 + n]
      BY Zenon DEF Handshake
    <3>2. 1 + n \in 0 .. Cardinality(Conn)
      BY <1>2, <1>5, Size, ConnCapsAssumption
    <3> QED
      BY Zenon, <1>0, <3>1, <3>2 DEF TypeOK
  <2>2. conn' \in [Conn -> Pc] /\ crossed' \in BOOLEAN
    BY Zenon, <1>0 DEF Handshake, TypeOK, Pc
  <2> QED
    BY Zenon, <1>0, <1>3, <2>1, <2>2 DEF TypeOK, Members
<1>7. StampInv'
  <2>1. \A d \in Conn : stamp'[d] = 0 <=> conn'[d] = "new"
    BY <1>0, <1>2, <1>3 DEF StampInv
  <2>2. \A d \in Conn : stamp'[d] <= Cardinality(Begun')
    BY <1>0, <1>2, <1>3, <1>5 DEF StampInv, TypeOK
  <2>3. \A d, e \in Begun' : stamp'[d] = stamp'[e] => d = e
    BY <1>0, <1>2, <1>3, <1>4 DEF StampInv, TypeOK
  <2> QED
    BY Zenon, <2>1, <2>2, <2>3 DEF StampInv
<1>8. \A d \in Conn : Registered(d) <=> Registered(d)'
  BY Zenon, <1>3 DEF Registered
<1>9. SetInv'
  <2>1. \A k \in Key : Members(k) \subseteq Conn /\ Members(k)' = Members(k)
    BY Zenon, <1>0, <1>3 DEF TypeOK, Members
  <2>2. kicks \subseteq Conn /\ \A d \in Conn : evict[d] \subseteq Conn
    BY Zenon, <1>0 DEF TypeOK
  <2> QED
    BY Zenon, <1>0, <1>3, <1>8, <2>1, <2>2 DEF SetInv
<1>10. OldInv'
  <2>1. \A d \in Conn : Registered(d) /\ Oldest(d) => Oldest(d)'
    <3> SUFFICES ASSUME NEW d \in Conn, Registered(d), Oldest(d) PROVE Oldest(d)'
      BY Zenon
    <3>1. \A e \in Conn : Registered(e) => Registered(e)' /\ stamp'[e] = stamp[e]
      BY Zenon, <1>3, <1>8 DEF Registered
    <3> QED
      BY Zenon, <1>0, <3>1, StaysOldest
  <2>2. kicks \subseteq Conn /\ \A d \in Conn : evict[d] \subseteq Conn
    BY Zenon, <1>0 DEF TypeOK
  <2> QED
    BY Zenon, <1>0, <1>3, <2>1, <2>2 DEF OldInv, SetInv
<1>11. CalmInv'
  <2> SUFFICES ASSUME Calm' PROVE CalmInv'
    BY Zenon DEF CalmInv
  <2>1. Calm
    BY Zenon, <1>3 DEF Calm
  <2>3. \A k \in Key : Staying(k)' = Staying(k)
    BY Zenon, <1>3 DEF Staying, Open
  <2> QED
    BY Zenon, <1>0, <1>3, <2>1, <2>3 DEF CalmInv, Members
<1> QED
  BY Zenon, <1>6, <1>7, <1>9, <1>10, <1>11 DEF Inv

\* registerConn: the sockets it chooses are over a cap, and those it leaves are
\* within, the new one included unless it found itself over a cap.
LEMMA RegisterStep ==
  ASSUME Inv, NEW c \in Conn, registerConn(c)
  PROVE  Inv'
<1> DEFINE S(k) == Fresh(k) \cup {c}
           New == (UNION {Over(S(k), Cap[k]) : k \in KeysOf[c]}) \ {c}
<1>0. TypeOK /\ StampInv /\ SetInv /\ OldInv /\ CalmInv
  BY Zenon DEF Inv
<1>1. /\ conn[c] = "stamped" /\ conn'[c] = "evicting"
      /\ \A d \in Conn \ {c} : conn'[d] = conn[d] /\ evict'[d] = evict[d]
      /\ evict'[c] = New /\ evict[c] = {}
      /\ UNCHANGED <<stamp, kicks, faults>>
  BY Zenon, <1>0 DEF registerConn, TypeOK, SetInv
<1>x. /\ crossed' \in BOOLEAN /\ (~crossed' => ~crossed)
      /\ ~crossed' => \A k \in KeysOf[c] : c \notin Over(S(k), Cap[k])
  BY Zenon, <1>0 DEF registerConn, TypeOK
<1>2. KeysOf[c] \subseteq Key /\ Cap \in [Key -> Nat \ {0}] /\ Stale \in Nat \ {0}
  BY Zenon, ConnCapsAssumption
<1>3. \A k \in Key : /\ Fresh(k) \subseteq Members(k) /\ Members(k) \subseteq Conn
                     /\ \A d \in Members(k) : k \in KeysOf[d] /\ Registered(d)
  BY Zenon, <1>0 DEF TypeOK, SetInv, Fresh
<1>4. \A d \in Conn : Registered(d)' <=> Registered(d) \/ d = c
  BY Zenon, <1>1 DEF Registered
<1>5. \A k \in Key :
        IF k \in KeysOf[c]
        THEN Members(k)' = S(k) /\ \A d \in S(k) : zset'[k][d] = IF d = c THEN 0 ELSE zset[k][d]
        ELSE zset'[k] = zset[k] /\ Members(k)' = Members(k)
  BY Zenon DEF registerConn, With, Members
<1>6. \A m \in New : m \in Conn /\ Registered(m) /\
        \E k \in KeysOf[c] : m \in Fresh(k) /\ m \in Over(S(k), Cap[k])
  <2> SUFFICES ASSUME NEW m \in New
               PROVE  m \in Conn /\ Registered(m) /\ \E k \in KeysOf[c] : m \in Fresh(k) /\ m \in Over(S(k), Cap[k])
    BY Zenon
  <2>1. PICK k \in KeysOf[c] : m \in Over(S(k), Cap[k]) /\ m # c
    BY Zenon
  <2>2. m \in Fresh(k) /\ k \in Key
    BY Zenon, <1>2, <2>1 DEF Over
  <2> QED
    BY Zenon, <1>3, <2>1, <2>2
<1>o. \A k \in KeysOf[c] : \A d \in S(k) : d \in Over(S(k), Cap[k]) => d \in New \/ d = c
  BY ZenonT(20)
<1> HIDE DEF New
<1>7. TypeOK'
  <2>1. conn' \in [Conn -> Pc] /\ evict' \in [Conn -> SUBSET Conn]
    <3>1. New \in SUBSET Conn
      BY Zenon, <1>6
    <3>2. evict' = [evict EXCEPT ![c] = New] /\ conn' = [conn EXCEPT ![c] = "evicting"]
      BY Zenon DEF registerConn, New
    <3> QED
      BY Zenon, <1>0, <3>1, <3>2 DEF TypeOK, Pc
  <2>2. ASSUME NEW k \in Key
        PROVE  Members(k)' \subseteq Conn /\ \A d \in Members(k)' : k \in KeysOf[d] /\ zset'[k][d] \in 0 .. Stale
    <3>1. CASE k \in KeysOf[c]
      BY <1>0, <1>2, <1>3, <1>5, <3>1 DEF TypeOK
    <3>2. CASE k \notin KeysOf[c]
      BY Zenon, <1>0, <1>5, <3>2 DEF TypeOK
    <3> QED
      BY Zenon, <3>1, <3>2
  <2> QED
    BY Zenon, <1>0, <1>1, <1>x, <2>1, <2>2 DEF TypeOK
<1>8. StampInv'
  <2>1. Begun' = Begun /\ \A d \in Conn : conn'[d] = "new" <=> conn[d] = "new"
    BY Zenon, <1>1 DEF Begun
  <2> QED
    BY Zenon, <1>0, <1>1, <2>1 DEF StampInv
<1>9. SetInv'
  <2>1. \A k \in Key : \A d \in Members(k)' : Registered(d)'
    BY <1>3, <1>4, <1>5
  <2>2. \A d \in Conn : \A m \in evict'[d] : Registered(m)'
    BY Zenon, <1>0, <1>1, <1>4, <1>6 DEF SetInv, TypeOK
  <2>3. \A d \in kicks' : Registered(d)'
    BY Zenon, <1>0, <1>1, <1>4 DEF SetInv, TypeOK
  <2>4. \A d \in Conn : evict'[d] # {} => conn'[d] = "evicting"
    BY Zenon, <1>0, <1>1 DEF SetInv
  <2> QED
    BY Zenon, <2>1, <2>2, <2>3, <2>4 DEF SetInv
<1>10. OldInv'
  <2>1. \A d \in Conn : Oldest(d) => Oldest(d)'
    BY Zenon, <1>0, <1>1, <1>4, StaysOldest
  <2>2. ASSUME NEW m \in New PROVE Oldest(m)'
    <3>1. PICK k \in KeysOf[c] : m \in Fresh(k) /\ m \in Over(S(k), Cap[k])
      BY Zenon, <1>6
    <3> DEFINE N == {e \in S(k) : stamp[e] > stamp[m]}
    <3>2. Cardinality(N) >= Cap[k] /\ k \in Key /\ k \in KeysOf[m]
      BY Zenon, <1>2, <1>3, <3>1 DEF Over
    <3>3. N \subseteq Newer(m, k)' /\ Newer(m, k)' \in SUBSET Conn
      BY Zenon, <1>1, <1>3, <1>4, <3>1, <3>2 DEF Newer, Registered
    <3>4. Cardinality(N) <= Cardinality(Newer(m, k)')
      BY Zenon, <3>3, Smaller
    <3>5. Cardinality(N) \in Nat /\ Cardinality(Newer(m, k)') \in Nat /\ Cap[k] \in Nat
      BY Zenon, <1>2, <3>2, <3>3, Size
    <3>6. Cardinality(Newer(m, k)') >= Cap[k]
      BY <3>2, <3>4, <3>5
    <3> QED
      BY Zenon, <3>2, <3>6 DEF Oldest
  <2>3. kicks \subseteq Conn /\ \A d \in Conn : evict[d] \subseteq Conn
    BY Zenon, <1>0 DEF TypeOK
  <2>4. \A b \in Conn : \A d \in evict'[b] : Oldest(d)'
    BY Zenon, <1>0, <1>1, <2>1, <2>2, <2>3 DEF OldInv
  <2> QED
    BY Zenon, <1>0, <1>1, <2>1, <2>3, <2>4 DEF OldInv
<1>11. CalmInv'
  <2> SUFFICES ASSUME Calm' PROVE CalmInv'
    BY Zenon DEF CalmInv
  <2>0. Calm
    BY Zenon, <1>1, <1>x DEF Calm
  <2>2. ASSUME NEW k \in Key, NEW d \in Staying(k)', d # c
        PROVE  d \in Staying(k) /\ d \in Fresh(k) /\ zset[k][d] = 0 /\ d \notin New
    <3>1. d \in Staying(k) /\ d \notin New
      BY Zenon, <1>1, <2>2 DEF Staying, Open
    <3>2. d \in Members(k) /\ zset[k][d] = 0
      BY Zenon, <1>0, <2>0, <3>1 DEF CalmInv
    <3> QED
      BY <1>2, <3>1, <3>2 DEF Fresh
  <2>3. \A k \in Key : \A d \in Staying(k)' : d \in Members(k)' /\ zset'[k][d] = 0
    <3> SUFFICES ASSUME NEW k \in Key, NEW d \in Staying(k)' PROVE d \in Members(k)' /\ zset'[k][d] = 0
      BY Zenon
    <3>1. d = c => k \in KeysOf[c]
      BY Zenon DEF Staying
    <3> QED
      BY <1>3, <1>5, <2>2, <3>1
  <2>4. ASSUME NEW k \in Key PROVE Cardinality(Staying(k)') <= Cap[k]
    <3>1. CASE k \in KeysOf[c]
      <4>1. S(k) \in SUBSET Conn /\ \A d \in S(k) : d \in Begun
        BY Zenon, <1>1, <1>3 DEF Begun, Registered
      <4>2. \A d, e \in S(k) : stamp[d] = stamp[e] => d = e
        BY Zenon, <1>0, <4>1 DEF StampInv
      <4>3. Cardinality(S(k) \ Over(S(k), Cap[k])) <= Cap[k]
        <5>1. stamp \in [Conn -> Nat] /\ Cap[k] \in Nat \ {0}
          BY <1>0, <1>2 DEF TypeOK
        <5> QED
          BY Zenon, <4>1, <4>2, <5>1, RestFits
      <4>4. c \notin Over(S(k), Cap[k])
        BY Zenon, <1>x, <3>1 DEF Calm
      <4>5. Staying(k)' \subseteq S(k) \ Over(S(k), Cap[k])
        <5> SUFFICES ASSUME NEW d \in Staying(k)', d # c PROVE d \in S(k) \ Over(S(k), Cap[k])
          BY Zenon, <4>4
        <5>1. d \in Fresh(k) /\ d \notin New
          BY Zenon, <2>2
        <5> QED
          BY Zenon, <1>o, <3>1, <5>1
      <4>6. S(k) \ Over(S(k), Cap[k]) \in SUBSET Conn
        BY Zenon, <4>1
      <4>7. Cardinality(Staying(k)') <= Cardinality(S(k) \ Over(S(k), Cap[k]))
        BY Zenon, <4>5, <4>6, Smaller
      <4>8. /\ Cardinality(Staying(k)') \in Nat /\ Cap[k] \in Nat
            /\ Cardinality(S(k) \ Over(S(k), Cap[k])) \in Nat
        BY Zenon, <1>2, <4>5, <4>6, Size
      <4> QED
        BY <4>3, <4>7, <4>8
    <3>2. CASE k \notin KeysOf[c]
      <4>1. Staying(k)' \subseteq Staying(k)
        BY Zenon, <2>2, <3>2 DEF Staying
      <4>2. Staying(k) \in SUBSET Conn
        BY Zenon DEF Staying
      <4>3. Cardinality(Staying(k)') <= Cardinality(Staying(k)) /\ Cardinality(Staying(k)) <= Cap[k]
        BY Zenon, <1>0, <2>0, <4>1, <4>2, Smaller DEF CalmInv
      <4>4. Cardinality(Staying(k)') \in Nat /\ Cap[k] \in Nat /\ Cardinality(Staying(k)) \in Nat
        BY Zenon, <1>2, <4>1, <4>2, Size
      <4> QED
        BY <4>3, <4>4
    <3> QED
      BY Zenon, <3>1, <3>2
  <2> QED
    BY Zenon, <2>3, <2>4 DEF CalmInv
<1> QED
  BY Zenon, <1>7, <1>8, <1>9, <1>10, <1>11 DEF Inv

\* The other steps of a socket only take it, or those to evict, further.
LEMMA OtherStep ==
  ASSUME Inv, NEW c \in Conn,
         \/ RegisterFails(c) \/ Serve(c) \/ \E m \in Conn : Evict(c, m)
         \/ onKick(c) \/ KickLost(c) \/ Close(c) \/ unregisterConn(c) \/ Die(c)
  PROVE  Inv'
<1>0. TypeOK /\ StampInv /\ SetInv /\ OldInv /\ CalmInv
  BY Zenon DEF Inv
<1>a. ASSUME Later, TypeOK', CalmInv' PROVE Inv'
  BY Zenon, <1>0, <1>a, LaterStep DEF Inv
<1>1. CASE RegisterFails(c) \/ KickLost(c) \/ Die(c)
  <2>1. ~Calm'
    BY <1>0, <1>1 DEF RegisterFails, KickLost, Die, Fault, Calm, TypeOK
  <2>2. TypeOK'
    <3>1. UNCHANGED <<stamp, zset, evict, crossed>> /\ kicks' \subseteq kicks /\ faults' \in 0 .. MaxFaults
      BY <1>0, <1>1, ConnCapsAssumption DEF RegisterFails, KickLost, Die, Fault, TypeOK
    <3>2. conn' \in [Conn -> Pc]
      BY Zenon, <1>0, <1>1 DEF RegisterFails, KickLost, Die, TypeOK, Pc
    <3> QED
      BY Zenon, <1>0, <3>1, <3>2 DEF TypeOK, Members
  <2>3. Later
    BY Zenon, <1>0, <1>1 DEF RegisterFails, KickLost, Die, Later, TypeOK, Members, SetInv
  <2> QED
    BY Zenon, <1>a, <2>1, <2>2, <2>3 DEF CalmInv
<1>2. CASE Serve(c) \/ Close(c) \/ onKick(c)
  <2>1. /\ UNCHANGED <<stamp, zset, evict, crossed, faults>>
        /\ kicks' \in {kicks, kicks \ {c}}
        /\ \A d \in Conn \ {c} : conn'[d] = conn[d]
        /\ conn'[c] = conn[c] \/ (conn[c] = "evicting" /\ conn'[c] = "open") \/ conn'[c] = "closing"
        /\ conn'[c] = "new" <=> conn[c] = "new"
        /\ conn'[c] = "stamped" <=> conn[c] = "stamped"
        /\ evict[c] # {} => conn'[c] = conn[c]
        /\ kicks' # kicks => ~Open(c)'
    BY Zenon, <1>0, <1>2 DEF Serve, Close, onKick, TypeOK, SetInv, Open
  <2>2. TypeOK'
    BY Zenon, <1>0, <1>2 DEF Serve, Close, onKick, TypeOK, Pc, Members
  <2>3. Later
    BY Zenon, <1>0, <2>1 DEF Later, SetInv, Members
  <2>4. \A k \in Key : Staying(k)' \subseteq Staying(k)
    BY Zenon, <2>1 DEF Staying, Open
  <2>5. CalmInv'
    BY Zenon, <1>0, <2>1, <2>3, <2>4, LaterCalm DEF Calm, Members
  <2> QED
    BY Zenon, <1>a, <2>2, <2>3, <2>5
<1>3. ASSUME NEW m \in Conn, Evict(c, m) PROVE Inv'
  <2>1. /\ UNCHANGED <<conn, stamp, crossed, faults>> /\ kicks' = kicks \cup {m}
        /\ m \in evict[c] /\ evict'[c] = evict[c] \ {m}
        /\ \A d \in Conn \ {c} : evict'[d] = evict[d]
        /\ conn[c] = "evicting"
    BY Zenon, <1>0, <1>3 DEF Evict, TypeOK
  <2>2. \A k \in Key : \/ zset'[k] = zset[k] /\ Members(k)' = Members(k)
                       \/ /\ Members(k)' = Members(k) \ {m}
                          /\ \A d \in Members(k) \ {m} : zset'[k][d] = zset[k][d]
    BY Zenon, <1>3 DEF Evict, forgetConn, Without, Members
  <2>3. TypeOK'
    <3>1. \A k \in Key : Members(k)' \subseteq Conn /\ \A d \in Members(k)' : k \in KeysOf[d] /\ zset'[k][d] \in 0 .. Stale
      BY <1>0, <2>2 DEF TypeOK
    <3>2. evict' \in [Conn -> SUBSET Conn]
      BY Zenon, <1>0, <1>3 DEF Evict, TypeOK
    <3> QED
      BY Zenon, <1>0, <2>1, <3>1, <3>2 DEF TypeOK
  <2>4. Later
    BY Zenon, <1>0, <2>1, <2>2 DEF Later, SetInv
  <2>5. \A k \in Key : Staying(k)' \subseteq Staying(k) /\ m \notin Staying(k)'
    BY Zenon, <2>1 DEF Staying, Open
  <2>6. CalmInv'
    BY Zenon, <1>0, <2>1, <2>2, <2>4, <2>5, LaterCalm DEF Calm
  <2> QED
    BY Zenon, <1>a, <2>3, <2>4, <2>6
<1>4. CASE unregisterConn(c)
  <2>1. /\ UNCHANGED <<stamp, evict, kicks, crossed, faults>>
        /\ conn[c] = "closing" /\ conn'[c] = "done" /\ \A d \in Conn \ {c} : conn'[d] = conn[d]
    BY Zenon, <1>0, <1>4 DEF unregisterConn, TypeOK
  <2>2. \A k \in Key : \/ zset'[k] = zset[k] /\ Members(k)' = Members(k)
                       \/ /\ Members(k)' = Members(k) \ {c}
                          /\ \A d \in Members(k) \ {c} : zset'[k][d] = zset[k][d]
    BY Zenon, <1>4 DEF unregisterConn, forgetConn, Without, Members
  <2>3. TypeOK'
    <3>1. \A k \in Key : Members(k)' \subseteq Conn /\ \A d \in Members(k)' : k \in KeysOf[d] /\ zset'[k][d] \in 0 .. Stale
      BY <1>0, <2>2 DEF TypeOK
    <3>2. conn' \in [Conn -> Pc]
      BY Zenon, <1>0, <1>4 DEF unregisterConn, TypeOK, Pc
    <3> QED
      BY Zenon, <1>0, <2>1, <3>1, <3>2 DEF TypeOK
  <2>4. Later
    BY Zenon, <1>0, <2>1, <2>2 DEF Later, SetInv
  <2>5. \A k \in Key : Staying(k)' \subseteq Staying(k) /\ c \notin Staying(k)'
    BY Zenon, <2>1 DEF Staying, Open
  <2>6. CalmInv'
    BY Zenon, <1>0, <2>1, <2>2, <2>4, <2>5, LaterCalm DEF Calm
  <2> QED
    BY Zenon, <1>a, <2>3, <2>4, <2>6
<1> QED
  BY Zenon, <1>1, <1>2, <1>3, <1>4

\* A ping period makes no member of an open socket older.
LEMMA HeartbeatStep ==
  ASSUME Inv, heartbeatConn
  PROVE  Inv'
<1>0. TypeOK /\ StampInv /\ SetInv /\ OldInv /\ CalmInv
  BY Zenon DEF Inv
<1>1. UNCHANGED <<conn, stamp, evict, kicks, crossed, faults>>
  BY Zenon DEF heartbeatConn
<1>2. \A k \in Key : /\ Members(k)' = Members(k)
                     /\ \A d \in Members(k) : zset'[k][d] = IF Open(d) THEN 0 ELSE Least(zset[k][d] + 1, Stale)
  BY Zenon DEF heartbeatConn, Beat, Members
<1>3. TypeOK'
  <2>1. \A k \in Key : \A d \in Members(k) : zset'[k][d] \in 0 .. Stale
    BY <1>0, <1>2, ConnCapsAssumption DEF TypeOK, Least
  <2> QED
    BY Zenon, <1>0, <1>1, <1>2, <2>1 DEF TypeOK
<1>4. Later
  BY Zenon, <1>0, <1>1, <1>2 DEF Later, SetInv
<1>5. \A k \in Key : Staying(k)' = Staying(k) /\ \A d \in Staying(k) : Open(d)
  BY Zenon, <1>1 DEF Staying, Open
<1>6. CalmInv'
  BY Zenon, <1>0, <1>1, <1>2, <1>4, <1>5, LaterCalm DEF Calm
<1> QED
  BY Zenon, <1>0, <1>3, <1>4, <1>6, LaterStep DEF Inv

\* The invariant holds in every reachable state.
THEOREM Inductive == Spec => []Inv
<1>1. Init => Inv
  <2> SUFFICES ASSUME Init PROVE Inv
    BY Zenon
  <2>1. /\ \A c \in Conn : conn[c] = "new" /\ stamp[c] = 0 /\ evict[c] = {}
        /\ kicks = {} /\ \A k \in Key : Members(k) = {}
    BY DEF Init, Members
  <2>2. TypeOK
    <3>1. Cardinality(Conn) \in Nat /\ MaxFaults \in Nat
      BY Zenon, Size, ConnCapsAssumption
    <3>2. stamp \in [Conn -> 0 .. Cardinality(Conn)] /\ conn \in [Conn -> Pc] /\ evict \in [Conn -> SUBSET Conn]
      BY <3>1 DEF Init, Pc
    <3>3. faults \in 0 .. MaxFaults
      BY <3>1 DEF Init
    <3>4. crossed \in BOOLEAN
      BY Zenon DEF Init
    <3> QED
      BY Zenon, <2>1, <3>2, <3>3, <3>4 DEF TypeOK
  <2>3. StampInv /\ SetInv /\ OldInv
    BY <2>1, Size DEF StampInv, SetInv, OldInv, Begun
  <2>4. \A k \in Key : Staying(k) = {} /\ Cardinality(Staying(k)) = 0
    BY Zenon, <2>1, FS_EmptySet DEF Staying, Open
  <2>5. CalmInv
    BY <2>1, <2>4, ConnCapsAssumption DEF CalmInv
  <2> QED
    BY Zenon, <2>2, <2>3, <2>5 DEF Inv
<1>2. Inv /\ [Next]_vars => Inv'
  <2> SUFFICES ASSUME Inv, [Next]_vars PROVE Inv'
    BY Zenon
  <2>1. CASE UNCHANGED vars
    BY <2>1 DEF vars, Inv, TypeOK, Members, StampInv, SetInv, OldInv, CalmInv, Begun, Registered, Oldest, Newer, Calm, Staying, Open
  <2> QED
    BY Zenon, <2>1, HandshakeStep, RegisterStep, OtherStep, HeartbeatStep DEF Next
<1> QED
  BY <1>1, <1>2, PTL DEF Spec

\* States, connect times, sets, evictions and kicks keep their types.
THEOREM TypeCorrect == Spec => []TypeOK
<1>1. Inv => TypeOK
  BY Zenon DEF Inv
<1> QED
  BY <1>1, Inductive, PTL

\* When all is settled, nothing failed and no socket registered after as many
\* newer ones as a cap allows, no account and no address has more sockets
\* open than its cap; and registerConn has only ever closed the oldest, however
\* many sockets, keys and instances there are.
THEOREM CapsKept == Spec => []CapKept
<1>1. Inv => CapKept
  <2> SUFFICES ASSUME Inv PROVE CapKept
    BY Zenon
  <2>1. ASSUME Settled, Calm, NEW k \in Key PROVE Cardinality(OpenIn(k)) <= Cap[k]
    <3>1. OpenIn(k) = Staying(k)
      BY Zenon, <2>1 DEF Settled, OpenIn, Staying, Inv, SetInv
    <3> QED
      BY Zenon, <2>1, <3>1 DEF Inv, CalmInv
  <2>2. ASSUME NEW c \in kicks PROVE Oldest(c)
    BY Zenon, <2>2 DEF Inv, OldInv
  <2> QED
    BY Zenon, <2>1, <2>2 DEF CapKept, Calm, Oldest, Newer
<1> QED
  BY <1>1, Inductive, PTL
=============================================================================
