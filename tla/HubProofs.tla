----------------------------- MODULE HubProofs ------------------------------
(***************************************************************************)
(* What the hub promises about sockets.  First the module Sockets, for any *)
(* sessions, sockets, instances, intervals, kicks and faults: a socket     *)
(* outlives its session by one interval and one more for every check in a  *)
(* row that failed, a socket closed because its session ended belongs to   *)
(* one that did, and a frame is acted on within the memory of the last     *)
(* check.  The argument for the first is a budget: the age of a revoked    *)
(* session and the time until the next check add up to no more than the    *)
(* intervals the socket has been through.                                  *)
(*                                                                         *)
(* Then the module Presence, for any number of sockets, deaths and Redis   *)
(* errors and any ping period shorter than the key's time to live.  The    *)
(* counter never counts more sockets than there are, but for one per       *)
(* fault.  While connects and disconnects do not meet, it counts all of    *)
(* them and its key outlives the next ping; when moreover nothing died it  *)
(* is exact, and so is what a subscriber was told.                         *)
(***************************************************************************)
EXTENDS Sockets, Presence, TLAPS

\* A session that is not over has no age.
AgeInv == \A s \in Session : sess[s].state # "revoked" => sess[s].age = 0

\* A socket past Authenticate has a session that was opened, and not longer
\* over than the handshake takes while it is in it.
OwnInv(c) ==
  /\ conn[c].pc \in {"auth", "open", "ended"} => conn[c].s \in Session /\ Row(c).state # "none"
  /\ ConnAt(c, "auth") => Row(c).age = 0
  /\ conn[c].pc \in {"new", "auth"} => conn[c].blind = 0
  /\ conn[c].blind <= outages

\* The budget of an open socket, and the memory of its last check.
OpenInv(c) ==
  ConnAt(c, "open") => /\ Row(c).age + conn[c].due <= SessionRecheck * (1 + conn[c].blind)
                       /\ Fresh(c) => Row(c).age <= conn[c].seen

\* A socket that was closed for its session's end.
EndedInv(c) == ConnAt(c, "ended") => Row(c).state = "revoked" \/ Row(c).late

\* A kick names a revoked session, or is of the whole account: then the live
\* sessions it does not spare were opened after it.
KickInv ==
  \A k \in kicks :
    /\ k.only # NoSession => sess[k.only].state = "revoked"
    /\ k.only = NoSession => \A s \in Session : s # k.keep /\ Active(s) => sess[s].late

SocketInv ==
  /\ SocketsTypeOK /\ AgeInv /\ KickInv /\ FrameWithinMemory
  /\ \A c \in Conn : OwnInv(c) /\ OpenInv(c) /\ EndedInv(c)

-----------------------------------------------------------------------------
(* Frames *)

\* Intervals add up.
LEMMA Intervals ==
  ASSUME NEW T \in Nat, NEW b \in Nat
  PROVE  /\ T * (1 + b) \in Nat /\ T <= T * (1 + b)
         /\ T * (1 + b) + T = T * (1 + (b + 1))
  OBVIOUS

\* What the conjuncts of the invariant say of the types.
LEMMA SocketFacts ==
  ASSUME SocketsTypeOK
  PROVE  /\ sess \in [Session -> SessionRow] /\ conn \in [Conn -> Client] /\ outages \in Nat /\ acted \in Nat
         /\ \A s \in Session : sess[s].age \in Nat /\ sess[s].state \in {"none", "live", "revoked"}
         /\ \A c \in Conn : /\ conn[c].due \in Nat /\ conn[c].due <= SessionRecheck
                            /\ conn[c].seen \in Nat /\ conn[c].seen <= InboundRecheck
                            /\ conn[c].blind \in Nat
         /\ SessionRecheck \in Nat /\ InboundRecheck \in Nat /\ InboundRecheck > 0 /\ SessionRecheck > 0
         /\ MaxAge \in Nat /\ MaxOutages \in Nat
  BY SocketsAssumption DEF SocketsTypeOK, SessionRow, Client

\* A step of one socket.
LEMMA ConnFrame ==
  ASSUME SocketInv, SocketsTypeOK', NEW c \in Conn, sess' = sess, kicks' \subseteq kicks, outages <= outages',
         \A d \in Conn \ {c} : conn'[d] = conn[d],
         FrameWithinMemory', OwnInv(c)', OpenInv(c)', EndedInv(c)'
  PROVE  SocketInv'
  <1>1. AgeInv' /\ KickInv'
    BY Zenon DEF SocketInv, AgeInv, KickInv, Active
  <1>2. ASSUME NEW d \in Conn, d # c PROVE OwnInv(d)' /\ OpenInv(d)' /\ EndedInv(d)'
    <2>1. conn'[d] = conn[d] /\ Row(d)' = Row(d)
      BY Zenon, <1>2 DEF Row
    <2>2. conn[d].blind \in Nat /\ outages \in Nat /\ outages' \in Nat
      BY SocketFacts, SocketsAssumption DEF SocketInv, SocketsTypeOK
    <2>3. OwnInv(d)'
      BY <2>1, <2>2 DEF SocketInv, OwnInv, ConnAt
    <2>4. OpenInv(d)' /\ EndedInv(d)'
      BY Zenon, <2>1 DEF SocketInv, OpenInv, EndedInv, ConnAt, Fresh
    <2> QED BY Zenon, <2>3, <2>4
  <1> QED BY Zenon, <1>1, <1>2 DEF SocketInv

\* A step of the sessions: none gets older, and what was opened stays opened.
LEMMA SessFrame ==
  ASSUME SocketInv, SocketsTypeOK', conn' = conn, acted' = acted, outages <= outages', AgeInv', KickInv',
         \A s \in Session : /\ sess'[s].age <= sess[s].age
                            /\ sess[s].state # "none" => sess'[s].state # "none" /\ sess'[s].late = sess[s].late
                            /\ sess[s].state = "revoked" => sess'[s].state = "revoked"
  PROVE  SocketInv'
  <1>1. FrameWithinMemory'
    BY Zenon DEF SocketInv, FrameWithinMemory
  <1>2. \A s \in Session : sess[s].age \in Nat /\ sess'[s].age \in Nat
    BY SocketFacts, SocketsAssumption DEF SocketInv, SocketsTypeOK, SessionRow
  <1>3. ASSUME NEW c \in Conn PROVE OwnInv(c)' /\ OpenInv(c)' /\ EndedInv(c)'
    <2>1. conn[c].blind \in Nat /\ outages \in Nat /\ outages' \in Nat /\ conn[c].due \in Nat /\ conn[c].seen \in Nat
          /\ SessionRecheck \in Nat
      BY SocketFacts, SocketsAssumption DEF SocketInv, SocketsTypeOK
    <2>2. conn[c].pc \in {"auth", "open", "ended"} =>
            /\ conn[c].s \in Session /\ Row(c).state # "none"
            /\ Row(c)'.state # "none" /\ Row(c)'.age <= Row(c).age
            /\ Row(c)'.late = Row(c).late /\ (Row(c).state = "revoked" => Row(c)'.state = "revoked")
            /\ Row(c).age \in Nat /\ Row(c)'.age \in Nat
      BY Zenon, <1>2 DEF SocketInv, OwnInv, Row
    <2>3. OwnInv(c)'
      BY <2>1, <2>2 DEF SocketInv, OwnInv, ConnAt
    <2>4. OpenInv(c)'
      BY <2>1, <2>2, Intervals DEF SocketInv, OpenInv, ConnAt, Fresh
    <2>5. EndedInv(c)'
      BY Zenon, <2>2 DEF SocketInv, EndedInv, ConnAt
    <2> QED BY Zenon, <2>3, <2>4, <2>5
  <1> QED BY Zenon, <1>1, <1>3 DEF SocketInv

-----------------------------------------------------------------------------
(* Sessions *)

\* Revoking touches the live sessions named, and no other.
LEMMA RevokedRows ==
  ASSUME sess \in [Session -> SessionRow], NEW which, sess' = Revoked(which), MaxAge \in Nat
  PROVE  /\ sess' \in [Session -> SessionRow]
         /\ \A s \in Session :
              \/ sess'[s] = sess[s] /\ ~(s \in which /\ Active(s))
              \/ sess'[s].state = "revoked" /\ sess'[s].age = 0 /\ sess'[s].late = sess[s].late
                 /\ s \in which /\ Active(s)
  <1> DEFINE r(s) == [sess[s] EXCEPT !.state = "revoked", !.age = 0]
  <1>1. ASSUME NEW s \in Session
        PROVE  r(s) \in SessionRow /\ r(s).state = "revoked" /\ r(s).age = 0 /\ r(s).late = sess[s].late
    <2>1. 0 \in 0 .. MaxAge /\ sess[s] \in SessionRow
      OBVIOUS
    <2> QED BY Zenon, <2>1 DEF SessionRow
  <1>2. sess' = [s \in Session |-> IF s \in which /\ Active(s) THEN r(s) ELSE sess[s]]
    BY Zenon DEF Revoked
  <1> HIDE DEF r
  <1>3. \A s \in Session : sess'[s] = IF s \in which /\ Active(s) THEN r(s) ELSE sess[s]
    BY Zenon, <1>2
  <1>4. \A s \in Session : sess'[s] \in SessionRow
    BY Zenon, <1>1, <1>3
  <1>5. sess' \in [Session -> SessionRow]
    BY Zenon, <1>2, <1>4
  <1> QED BY Zenon, <1>1, <1>3, <1>5

\* Sessions are revoked and kicks for them go out.
LEMMA RevokeStep ==
  ASSUME SocketInv, NEW which, sess' = Revoked(which), conn' = conn, acted' = acted,
         kicks' \subseteq Kick, outages' \in 0 .. MaxOutages, outages <= outages',
         \A k \in kicks' : \/ k \in kicks
                           \/ k.only # NoSession /\ sess'[k.only].state = "revoked"
                           \/ k.only = NoSession /\ \A s \in Session : s # k.keep => s \in which
  PROVE  SocketInv'
  <1>1. /\ sess' \in [Session -> SessionRow]
        /\ \A s \in Session :
              \/ sess'[s] = sess[s] /\ ~(s \in which /\ Active(s))
              \/ sess'[s].state = "revoked" /\ sess'[s].age = 0 /\ sess'[s].late = sess[s].late
                 /\ s \in which /\ Active(s)
    BY Zenon, RevokedRows, SocketsAssumption DEF SocketInv, SocketsTypeOK
  <1>2. SocketsTypeOK'
    BY Zenon, <1>1 DEF SocketInv, SocketsTypeOK
  <1>3. \A s \in Session : sess[s].age \in Nat
    BY Zenon, SocketFacts DEF SocketInv
  <1>4. AgeInv'
    BY Zenon, <1>1 DEF SocketInv, AgeInv
  <1>5. \A s \in Session : /\ sess'[s].age <= sess[s].age
                           /\ sess[s].state # "none" => sess'[s].state # "none" /\ sess'[s].late = sess[s].late
                           /\ sess[s].state = "revoked" => sess'[s].state = "revoked"
    BY <1>1, <1>3
  <1>6. KickInv'
    <2> SUFFICES ASSUME NEW k \in kicks'
                 PROVE  /\ k.only # NoSession => sess'[k.only].state = "revoked"
                        /\ k.only = NoSession => \A s \in Session : s # k.keep /\ Active(s)' => sess'[s].late
      BY Zenon DEF KickInv
    <2>1. k \in Kick /\ (k.only # NoSession => k.only \in Session)
      BY Zenon DEF Kick
    <2>2. CASE k \in kicks
      <3>1. k.only # NoSession => sess'[k.only].state = "revoked"
        BY Zenon, <1>5, <2>1, <2>2 DEF SocketInv, KickInv
      <3>2. ASSUME k.only = NoSession, NEW s \in Session, s # k.keep, Active(s)' PROVE sess'[s].late
        <4>1. sess'[s] = sess[s]
          BY Zenon, <1>1, <3>2 DEF Active
        <4> QED BY Zenon, <2>2, <3>2, <4>1 DEF SocketInv, KickInv, Active
      <3> QED BY Zenon, <3>1, <3>2
    <2>3. CASE k.only # NoSession /\ sess'[k.only].state = "revoked"
      BY Zenon, <2>3
    <2>4. CASE k.only = NoSession /\ \A s \in Session : s # k.keep => s \in which
      BY Zenon, <1>1, <2>4 DEF Active
    <2> QED BY Zenon, <2>2, <2>3, <2>4
  <1> QED BY Zenon, <1>2, <1>4, <1>5, <1>6, SessFrame

\* A kick that is published reaches some instances, and names what it was given.
LEMMA Published ==
  ASSUME SocketsTypeOK, NEW only \in Session \cup {NoSession}, NEW keep \in Session \cup {NoSession}, publishKick(only, keep)
  PROVE  /\ kicks' \subseteq Kick /\ outages' \in 0 .. MaxOutages /\ outages <= outages'
         /\ \A k \in kicks' : k \in kicks \/ (k.only = only /\ k.keep = keep)
  <1>1. outages' \in 0 .. MaxOutages /\ outages <= outages'
    BY SocketsAssumption DEF publishKick, Outage, SocketsTypeOK
  <1> DEFINE N == [to : Instance, only : {only}, keep : {keep}]
  <1>2. ASSUME NEW k \in N PROVE k \in Kick /\ k.only = only /\ k.keep = keep
    BY Zenon DEF Kick
  <1>3. kicks' \subseteq kicks \cup N
    <2>1. ASSUME NEW i \in Instance PROVE [to |-> i, only |-> only, keep |-> keep] \in N
      BY Zenon
    <2> HIDE DEF N
    <2> QED BY Zenon, <2>1 DEF publishKick, N
  <1> HIDE DEF N
  <1>4. kicks \subseteq Kick
    BY Zenon DEF SocketsTypeOK
  <1>5. \A k \in kicks' : k \in Kick /\ (k \in kicks \/ (k.only = only /\ k.keep = keep))
    BY Zenon, <1>2, <1>3, <1>4
  <1> QED BY Zenon, <1>1, <1>5

\* A sign-in, also while a kick of the whole account is on its way.
LEMMA OpenSessionStep ==
  ASSUME SocketInv, NEW s \in Session, openSession(s)
  PROVE  SocketInv'
  <1> DEFINE l == \E k \in kicks : k.only = NoSession
             r == [sess[s] EXCEPT !.state = "live", !.late = l]
  <1>1. sess[s] \in SessionRow /\ sess \in [Session -> SessionRow] /\ l \in BOOLEAN
    BY Zenon DEF SocketInv, SocketsTypeOK
  <1>2. sess' = [sess EXCEPT ![s] = r]
    BY Zenon, <1>1 DEF openSession
  <1>3. r \in SessionRow /\ r.state = "live" /\ r.age = sess[s].age /\ r.late = l
    <2> HIDE DEF l
    <2> QED BY Zenon, <1>1 DEF SessionRow
  <1> HIDE DEF r
  <1>4. sess' \in [Session -> SessionRow] /\ sess'[s] = r /\ \A x \in Session \ {s} : sess'[x] = sess[x]
    BY Zenon, <1>1, <1>2, <1>3
  <1>5. conn' = conn /\ kicks' = kicks /\ acted' = acted /\ outages' = outages /\ sess[s].state = "none"
    BY Zenon DEF openSession
  <1>6. SocketsTypeOK'
    BY Zenon, <1>4, <1>5 DEF SocketInv, SocketsTypeOK
  <1>7. AgeInv'
    BY Zenon, <1>3, <1>4, <1>5 DEF SocketInv, AgeInv
  <1>8. KickInv'
    <2> SUFFICES ASSUME NEW k \in kicks
                 PROVE  /\ k.only # NoSession => sess'[k.only].state = "revoked"
                        /\ k.only = NoSession => \A x \in Session : x # k.keep /\ Active(x)' => sess'[x].late
      BY Zenon, <1>5 DEF KickInv
    <2>1. k.only # NoSession => k.only \in Session /\ sess[k.only].state = "revoked"
      BY Zenon DEF SocketInv, SocketsTypeOK, Kick, KickInv
    <2>2. k.only # NoSession => sess'[k.only].state = "revoked"
      BY Zenon, <1>4, <1>5, <2>1
    <2>3. ASSUME k.only = NoSession, NEW x \in Session, x # k.keep, Active(x)' PROVE sess'[x].late
      <3>1. CASE x = s
        BY Zenon, <1>3, <1>4, <2>3, <3>1
      <3>2. CASE x # s
        BY <1>4, <2>3, <3>2 DEF SocketInv, KickInv, Active
      <3> QED BY Zenon, <3>1, <3>2
    <2> QED BY Zenon, <2>2, <2>3
  <1>9. \A x \in Session : /\ sess'[x].age <= sess[x].age
                           /\ sess[x].state # "none" => sess'[x].state # "none" /\ sess'[x].late = sess[x].late
                           /\ sess[x].state = "revoked" => sess'[x].state = "revoked"
    <2>1. \A x \in Session : sess[x].age \in Nat
      BY Zenon, SocketFacts DEF SocketInv
    <2>2. sess'[s].age = sess[s].age
      BY Zenon, <1>3, <1>4
    <2> QED BY <1>4, <1>5, <2>1, <2>2
  <1>10. outages <= outages'
    BY <1>5, SocketFacts DEF SocketInv
  <1> QED BY Zenon, <1>5, <1>6, <1>7, <1>8, <1>9, <1>10, SessFrame

\* Sign-outs, role and password changes, and what the database does by itself.
LEMMA EndSessionStep ==
  ASSUME SocketInv,
         \/ \E s \in Session : Logout(s) \/ ChangePassword(s) \/ Lapse({s})
         \/ LogoutAll \/ Lapse(Session)
  PROVE  SocketInv'
  <1>0. SocketsTypeOK
    BY Zenon DEF SocketInv
  <1>1. ASSUME NEW s \in Session, Logout(s) PROVE SocketInv'
    <2>1. /\ kicks' \subseteq Kick /\ outages' \in 0 .. MaxOutages /\ outages <= outages'
          /\ \A k \in kicks' : k \in kicks \/ (k.only = s /\ k.keep = NoSession)
      BY Zenon, <1>0, <1>1, Published DEF Logout
    <2>2. sess' = Revoked({s}) /\ conn' = conn /\ acted' = acted /\ Active(s)
      BY Zenon, <1>1 DEF Logout
    <2>3. sess'[s].state = "revoked"
      BY Zenon, <2>2, RevokedRows, SocketsAssumption DEF SocketInv, SocketsTypeOK
    <2>4. \A k \in kicks' : k \in kicks \/ (k.only # NoSession /\ sess'[k.only].state = "revoked")
      BY Zenon, <2>1, <2>3, SocketsAssumption
    <2> QED BY Zenon, <2>1, <2>2, <2>4, RevokeStep
  <1>2. ASSUME NEW s \in Session, ChangePassword(s) PROVE SocketInv'
    <2>1. /\ kicks' \subseteq Kick /\ outages' \in 0 .. MaxOutages /\ outages <= outages'
          /\ \A k \in kicks' : k \in kicks \/ (k.only = NoSession /\ k.keep = s)
      BY Zenon, <1>0, <1>2, Published DEF ChangePassword
    <2>2. sess' = Revoked(Session \ {s}) /\ conn' = conn /\ acted' = acted
      BY Zenon, <1>2 DEF ChangePassword
    <2>3. \A k \in kicks' : k \in kicks \/ (k.only = NoSession /\ \A x \in Session : x # k.keep => x \in Session \ {s})
      BY Zenon, <2>1
    <2> QED BY Zenon, <2>1, <2>2, <2>3, RevokeStep
  <1>3. ASSUME LogoutAll PROVE SocketInv'
    <2>1. /\ kicks' \subseteq Kick /\ outages' \in 0 .. MaxOutages /\ outages <= outages'
          /\ \A k \in kicks' : k \in kicks \/ (k.only = NoSession /\ k.keep = NoSession)
      BY Zenon, <1>0, <1>3, Published DEF LogoutAll
    <2>2. sess' = Revoked(Session) /\ conn' = conn /\ acted' = acted
      BY Zenon, <1>3 DEF LogoutAll
    <2> QED BY Zenon, <2>1, <2>2, RevokeStep
  <1>4. ASSUME NEW which, Lapse(which) PROVE SocketInv'
    <2>1. sess' = Revoked(which) /\ conn' = conn /\ acted' = acted /\ kicks' = kicks /\ outages' = outages
      BY Zenon, <1>4 DEF Lapse
    <2>2. kicks' \subseteq Kick /\ outages' \in 0 .. MaxOutages /\ outages <= outages'
      BY <1>0, <2>1, SocketFacts DEF SocketsTypeOK
    <2> QED BY Zenon, <2>1, <2>2, RevokeStep
  <1> QED BY Zenon, <1>1, <1>2, <1>3, <1>4

-----------------------------------------------------------------------------
(* Sockets *)

\* The state of one socket is replaced.
LEMMA ConnSet ==
  ASSUME conn \in [Conn -> Client], NEW c \in Conn, NEW k \in Client, conn' = [conn EXCEPT ![c] = k]
  PROVE  conn' \in [Conn -> Client] /\ conn'[c] = k /\ \A d \in Conn \ {c} : conn'[d] = conn[d]
  BY Zenon

\* The handshake reads a live session.
LEMMA AuthenticateStep ==
  ASSUME SocketInv, NEW c \in Conn, NEW s \in Session, Authenticate(c, s)
  PROVE  SocketInv'
  <1> DEFINE k == [conn[c] EXCEPT !.pc = "auth", !.s = s]
  <1>1. conn \in [Conn -> Client] /\ conn[c] \in Client
    BY Zenon DEF SocketInv, SocketsTypeOK
  <1>2. k \in Client /\ k.pc = "auth" /\ k.s = s /\ k.blind = conn[c].blind
    BY Zenon, <1>1 DEF Client
  <1>3. conn' = [conn EXCEPT ![c] = k]
    BY Zenon, <1>1 DEF Authenticate
  <1> HIDE DEF k
  <1>4. conn' \in [Conn -> Client] /\ conn'[c] = k /\ \A d \in Conn \ {c} : conn'[d] = conn[d]
    BY Zenon, <1>1, <1>2, <1>3, ConnSet
  <1>5. sess' = sess /\ kicks' = kicks /\ acted' = acted /\ outages' = outages /\ ConnAt(c, "new") /\ Active(s)
    BY Zenon DEF Authenticate
  <1>6. SocketsTypeOK'
    BY Zenon, <1>4, <1>5 DEF SocketInv, SocketsTypeOK
  <1>7. conn[c].blind = 0 /\ conn[c].blind <= outages /\ sess[s].age = 0 /\ sess[s].state = "live"
    BY Zenon, <1>5 DEF SocketInv, OwnInv, ConnAt, AgeInv, Active
  <1>8. OwnInv(c)' /\ OpenInv(c)' /\ EndedInv(c)'
    BY Zenon, <1>2, <1>4, <1>5, <1>7 DEF OwnInv, OpenInv, EndedInv, ConnAt, Row
  <1>9. FrameWithinMemory' /\ outages <= outages'
    BY <1>5, SocketFacts DEF SocketInv, FrameWithinMemory
  <1> QED BY Zenon, <1>4, <1>5, <1>6, <1>8, <1>9, ConnFrame

\* The hub knows the socket: its budget starts.
LEMMA AddClientStep ==
  ASSUME SocketInv, NEW c \in Conn, addClient(c)
  PROVE  SocketInv'
  <1> DEFINE k == [conn[c] EXCEPT !.pc = "open", !.seen = 0, !.due = SessionRecheck]
  <1>1. conn \in [Conn -> Client] /\ conn[c] \in Client
    BY Zenon DEF SocketInv, SocketsTypeOK
  <1>2. /\ k \in Client /\ k.pc = "open" /\ k.s = conn[c].s /\ k.blind = conn[c].blind
        /\ k.seen = 0 /\ k.due = SessionRecheck
    <2>1. 0 \in 0 .. InboundRecheck /\ SessionRecheck \in 0 .. SessionRecheck
      BY SocketsAssumption
    <2> QED BY Zenon, <1>1, <2>1 DEF Client
  <1>3. conn' = [conn EXCEPT ![c] = k]
    BY Zenon, <1>1 DEF addClient
  <1> HIDE DEF k
  <1>4. conn' \in [Conn -> Client] /\ conn'[c] = k /\ \A d \in Conn \ {c} : conn'[d] = conn[d]
    BY Zenon, <1>1, <1>2, <1>3, ConnSet
  <1>5. sess' = sess /\ kicks' = kicks /\ acted' = acted /\ outages' = outages /\ ConnAt(c, "auth")
    BY Zenon DEF addClient
  <1>6. SocketsTypeOK'
    BY Zenon, <1>4, <1>5 DEF SocketInv, SocketsTypeOK
  <1>7. conn[c].blind = 0 /\ conn[c].blind <= outages /\ Row(c).age = 0 /\ Row(c).state # "none" /\ conn[c].s \in Session
    BY Zenon, <1>5 DEF SocketInv, OwnInv, ConnAt
  <1>8. OwnInv(c)' /\ EndedInv(c)'
    BY Zenon, <1>2, <1>4, <1>5, <1>7 DEF OwnInv, EndedInv, ConnAt, Row
  <1>9. OpenInv(c)'
    <2>1. Row(c)'.age = 0 /\ conn'[c].due = SessionRecheck /\ conn'[c].blind = 0 /\ conn'[c].seen = 0
      BY Zenon, <1>2, <1>4, <1>5, <1>7 DEF Row
    <2>2. 0 + SessionRecheck <= SessionRecheck * (1 + 0)
      BY SocketsAssumption
    <2> QED BY <2>1, <2>2 DEF OpenInv
  <1>10. FrameWithinMemory' /\ outages <= outages'
    BY <1>5, SocketFacts DEF SocketInv, FrameWithinMemory
  <1> QED BY Zenon, <1>4, <1>5, <1>6, <1>8, <1>9, <1>10, ConnFrame

\* A socket is closed for its session's end, having found it over.
LEMMA EndStep ==
  ASSUME SocketInv, NEW c \in Conn, ConnAt(c, "open"), ~Active(conn[c].s),
         conn' = [conn EXCEPT ![c].pc = "ended"], UNCHANGED <<sess, kicks, acted, outages>>
  PROVE  SocketInv'
  <1> DEFINE k == [conn[c] EXCEPT !.pc = "ended"]
  <1>1. conn \in [Conn -> Client] /\ conn[c] \in Client
    BY Zenon DEF SocketInv, SocketsTypeOK
  <1>2. k \in Client /\ k.pc = "ended" /\ k.s = conn[c].s /\ k.blind = conn[c].blind
    BY Zenon, <1>1 DEF Client
  <1>3. conn' = [conn EXCEPT ![c] = k]
    BY Zenon, <1>1
  <1> HIDE DEF k
  <1>4. conn' \in [Conn -> Client] /\ conn'[c] = k /\ \A d \in Conn \ {c} : conn'[d] = conn[d]
    BY Zenon, <1>1, <1>2, <1>3, ConnSet
  <1>5. SocketsTypeOK'
    BY Zenon, <1>4 DEF SocketInv, SocketsTypeOK
  <1>6. conn[c].s \in Session /\ Row(c).state = "revoked" /\ conn[c].blind <= outages
    BY Zenon, SocketFacts DEF SocketInv, OwnInv, ConnAt, Row, Active
  <1>7. OwnInv(c)' /\ OpenInv(c)' /\ EndedInv(c)'
    BY Zenon, <1>2, <1>4, <1>6 DEF OwnInv, OpenInv, EndedInv, ConnAt, Row
  <1>8. FrameWithinMemory' /\ outages <= outages'
    BY SocketFacts DEF SocketInv, FrameWithinMemory
  <1> QED BY Zenon, <1>4, <1>5, <1>7, <1>8, ConnFrame

\* An open socket whose session was found live, or could not be read, stays
\* open with the budget and the memory it then has.
LEMMA StayStep ==
  ASSUME SocketInv, NEW c \in Conn, ConnAt(c, "open"), NEW k \in Client, conn' = [conn EXCEPT ![c] = k],
         k.pc = "open", k.s = conn[c].s, k.blind <= outages', sess' = sess, kicks' = kicks,
         outages' \in 0 .. MaxOutages, outages <= outages', acted' \in 0 .. MaxAge, FrameWithinMemory',
         Row(c).age + k.due <= SessionRecheck * (1 + k.blind),
         k.seen < InboundRecheck => Row(c).age <= k.seen
  PROVE  SocketInv'
  <1>1. conn' \in [Conn -> Client] /\ conn'[c] = k /\ \A d \in Conn \ {c} : conn'[d] = conn[d]
    BY Zenon, ConnSet DEF SocketInv, SocketsTypeOK
  <1>2. SocketsTypeOK'
    BY Zenon, <1>1 DEF SocketInv, SocketsTypeOK
  <1>3. conn[c].s \in Session /\ Row(c).state # "none"
    BY Zenon DEF SocketInv, OwnInv, ConnAt
  <1>4. OwnInv(c)' /\ OpenInv(c)' /\ EndedInv(c)'
    BY Zenon, <1>1, <1>3 DEF OwnInv, OpenInv, EndedInv, ConnAt, Row, Fresh
  <1> QED BY Zenon, <1>1, <1>2, <1>4, ConnFrame

\* What an open socket may rely on.
LEMMA OpenFacts ==
  ASSUME SocketInv, NEW c \in Conn, ConnAt(c, "open")
  PROVE  /\ conn \in [Conn -> Client] /\ conn[c] \in Client /\ conn[c].s \in Session
         /\ Row(c).age \in Nat /\ conn[c].blind \in Nat /\ conn[c].blind <= outages
         /\ conn[c].due \in Nat /\ conn[c].due <= SessionRecheck
         /\ Row(c).age + conn[c].due <= SessionRecheck * (1 + conn[c].blind)
         /\ Fresh(c) => Row(c).age <= conn[c].seen
         /\ Active(conn[c].s) => Row(c).age = 0
         /\ acted \in 0 .. MaxAge /\ acted < InboundRecheck /\ Row(c).age \in 0 .. MaxAge
  <1>1. conn[c].s \in Session /\ conn[c].blind <= outages
    BY Zenon DEF SocketInv, OwnInv, ConnAt
  <1>2. Row(c) \in SessionRow
    BY Zenon, <1>1 DEF SocketInv, SocketsTypeOK, Row
  <1>3. Row(c).age \in 0 .. MaxAge /\ Row(c).age \in Nat
    BY <1>2, SocketsAssumption DEF SessionRow
  <1>4. Active(conn[c].s) => Row(c).age = 0
    BY Zenon, <1>1 DEF SocketInv, AgeInv, Active, Row
  <1>5. acted \in 0 .. MaxAge /\ acted < InboundRecheck
    BY Zenon DEF SocketInv, SocketsTypeOK, FrameWithinMemory
  <1>6. /\ Row(c).age + conn[c].due <= SessionRecheck * (1 + conn[c].blind)
        /\ Fresh(c) => Row(c).age <= conn[c].seen
    BY Zenon DEF SocketInv, OpenInv
  <1>7. conn \in [Conn -> Client] /\ conn[c] \in Client
    BY Zenon DEF SocketInv, SocketsTypeOK
  <1>8. conn[c].blind \in Nat /\ conn[c].due \in Nat /\ conn[c].due <= SessionRecheck
    BY Zenon, SocketFacts DEF SocketInv
  <1> QED BY Zenon, <1>1, <1>3, <1>4, <1>5, <1>6, <1>7, <1>8

\* A tick of the watcher: a live session starts the interval again, a check
\* that failed adds one.
LEMMA WatchStep ==
  ASSUME SocketInv, NEW c \in Conn, watchSession(c)
  PROVE  SocketInv'
  <1>0. /\ ConnAt(c, "open") /\ conn[c].due = 0 /\ sess' = sess /\ kicks' = kicks /\ acted' = acted
        /\ SessionRecheck \in Nat /\ SessionRecheck \in 0 .. SessionRecheck /\ outages \in Nat /\ outages \in 0 .. MaxOutages
        /\ MaxOutages \in Nat /\ InboundRecheck > 0 /\ FrameWithinMemory'
    BY SocketsAssumption DEF watchSession, SocketInv, SocketsTypeOK, FrameWithinMemory
  <1>1. CASE Active(conn[c].s) /\ conn' = [conn EXCEPT ![c].due = SessionRecheck, ![c].seen = 0, ![c].blind = 0]
             /\ UNCHANGED outages
    <2> DEFINE k == [conn[c] EXCEPT !.due = SessionRecheck, !.seen = 0, !.blind = 0]
    <2>1. /\ k \in Client /\ k.pc = conn[c].pc /\ k.s = conn[c].s /\ k.due = SessionRecheck /\ k.seen = 0 /\ k.blind = 0
      <3>1. 0 \in 0 .. InboundRecheck /\ 0 \in 0 .. MaxOutages
        BY SocketsAssumption
      <3> QED BY Zenon, <1>0, <3>1, OpenFacts DEF Client
    <2>2. conn' = [conn EXCEPT ![c] = k]
      BY Zenon, <1>0, <1>1, OpenFacts
    <2> HIDE DEF k
    <2>3. Row(c).age = 0 /\ Row(c).age + k.due <= SessionRecheck * (1 + k.blind)
      BY <1>0, <1>1, <2>1, OpenFacts
    <2>4. k.pc = "open" /\ k.blind <= outages' /\ outages <= outages' /\ outages' \in 0 .. MaxOutages /\ acted' \in 0 .. MaxAge
      BY <1>0, <1>1, <2>1, OpenFacts DEF ConnAt
    <2>5. k.seen < InboundRecheck => Row(c).age <= k.seen
      BY <2>1, <2>3
    <2> QED BY Zenon, <1>0, <2>1, <2>2, <2>3, <2>4, <2>5, StayStep
  <1>2. CASE ~Active(conn[c].s) /\ conn' = [conn EXCEPT ![c].pc = "ended"] /\ UNCHANGED outages
    BY Zenon, <1>0, <1>2, EndStep
  <1>3. CASE Outage /\ conn' = Unseen(c)
    <2> DEFINE k == [conn[c] EXCEPT !.due = SessionRecheck, !.blind = @ + 1]
    <2>1. conn[c].blind + 1 \in 0 .. MaxOutages /\ outages' = outages + 1 /\ conn[c].blind + 1 <= outages'
          /\ outages' \in 0 .. MaxOutages /\ outages <= outages'
      BY <1>0, <1>3, OpenFacts DEF Outage
    <2>2. /\ k \in Client /\ k.pc = conn[c].pc /\ k.s = conn[c].s /\ k.due = SessionRecheck /\ k.seen = conn[c].seen
          /\ k.blind = conn[c].blind + 1
      BY ZenonT(40), <1>0, <2>1, OpenFacts DEF Client
    <2>3. conn' = [conn EXCEPT ![c] = k]
      BY Zenon, <1>0, <1>3, OpenFacts DEF Unseen
    <2> HIDE DEF k
    <2>4. Row(c).age + k.due <= SessionRecheck * (1 + k.blind)
      <3>1. Row(c).age <= SessionRecheck * (1 + conn[c].blind) /\ Row(c).age \in Nat /\ conn[c].blind \in Nat
        BY <1>0, OpenFacts
      <3>2. /\ SessionRecheck * (1 + conn[c].blind) \in Nat
            /\ SessionRecheck * (1 + conn[c].blind) + SessionRecheck = SessionRecheck * (1 + (conn[c].blind + 1))
        BY Zenon, <1>0, <3>1, Intervals
      <3> DEFINE p == SessionRecheck * (1 + conn[c].blind)
                 q == SessionRecheck * (1 + (conn[c].blind + 1))
      <3>3. Row(c).age + k.due <= q
        <4>1. Row(c).age <= p /\ p \in Nat /\ p + SessionRecheck = q /\ k.due = SessionRecheck
          BY Zenon, <2>2, <3>1, <3>2
        <4> HIDE DEF p, q
        <4> QED BY <1>0, <3>1, <4>1
      <3> QED BY Zenon, <2>2, <3>3
    <2>5. k.seen < InboundRecheck => Row(c).age <= k.seen
      BY Zenon, <1>0, <2>2, OpenFacts DEF Fresh
    <2>6. k.pc = "open" /\ k.blind <= outages' /\ acted' \in 0 .. MaxAge
      BY Zenon, <1>0, <2>1, <2>2, OpenFacts DEF ConnAt
    <2> QED BY Zenon, <1>0, <2>1, <2>2, <2>3, <2>4, <2>5, <2>6, StayStep
  <1> QED BY Zenon, <1>1, <1>2, <1>3 DEF watchSession

\* A frame is acted on within the memory of a check, or right after one.
LEMMA InboundStep ==
  ASSUME SocketInv, NEW c \in Conn, handleInbound(c)
  PROVE  SocketInv'
  <1>0. /\ ConnAt(c, "open") /\ sess' = sess /\ kicks' = kicks /\ outages \in Nat /\ outages \in 0 .. MaxOutages
        /\ MaxOutages \in Nat /\ InboundRecheck > 0 /\ InboundRecheck \in Nat /\ MaxAge \in Nat
    BY SocketsAssumption DEF handleInbound, SocketInv, SocketsTypeOK
  <1>1. ASSUME Row(c).age < InboundRecheck, Act(c) PROVE FrameWithinMemory' /\ acted' \in 0 .. MaxAge
    BY Zenon, <1>0, <1>1, OpenFacts DEF FrameWithinMemory, Act, Greatest
  <1>2. CASE Fresh(c) /\ Act(c) /\ UNCHANGED <<conn, outages>>
    <2>1. Row(c).age < InboundRecheck
      <3>1. Row(c).age <= conn[c].seen /\ conn[c].seen < InboundRecheck /\ conn[c].seen \in Nat /\ Row(c).age \in Nat
        BY Zenon, <1>0, <1>2, OpenFacts, SocketFacts DEF Fresh, SocketInv
      <3> QED BY <1>0, <3>1
    <2>2. FrameWithinMemory' /\ acted' \in 0 .. MaxAge
      BY Zenon, <1>1, <1>2, <2>1
    <2>3. conn' = [conn EXCEPT ![c] = conn[c]] /\ outages' = outages /\ outages <= outages'
      BY <1>0, <1>2, OpenFacts
    <2>4. conn[c].pc = "open" /\ conn[c].blind <= outages' /\ (conn[c].seen < InboundRecheck => Row(c).age <= conn[c].seen)
      BY Zenon, <1>0, <2>3, OpenFacts DEF ConnAt, Fresh
    <2> QED BY Zenon, <1>0, <2>2, <2>3, <2>4, OpenFacts, StayStep
  <1>3. CASE Active(conn[c].s) /\ conn' = [conn EXCEPT ![c].seen = 0] /\ Act(c) /\ UNCHANGED outages
    <2> DEFINE k == [conn[c] EXCEPT !.seen = 0]
    <2>1. /\ k \in Client /\ k.pc = conn[c].pc /\ k.s = conn[c].s /\ k.due = conn[c].due /\ k.seen = 0
          /\ k.blind = conn[c].blind
      <3>1. 0 \in 0 .. InboundRecheck
        BY <1>0
      <3> QED BY Zenon, <1>0, <3>1, OpenFacts DEF Client
    <2>2. conn' = [conn EXCEPT ![c] = k]
      BY Zenon, <1>0, <1>3, OpenFacts
    <2> HIDE DEF k
    <2>3. Row(c).age = 0
      BY Zenon, <1>0, <1>3, OpenFacts
    <2>4. FrameWithinMemory' /\ acted' \in 0 .. MaxAge
      BY Zenon, <1>0, <1>1, <1>3, <2>3
    <2>5. outages' = outages /\ outages <= outages'
      BY <1>0, <1>3
    <2>6. /\ k.pc = "open" /\ k.blind <= outages' /\ (k.seen < InboundRecheck => Row(c).age <= k.seen)
      BY <1>0, <2>1, <2>3, <2>5, OpenFacts DEF ConnAt
    <2>7. Row(c).age + k.due <= SessionRecheck * (1 + k.blind)
      BY Zenon, <1>0, <2>1, OpenFacts
    <2> QED BY Zenon, <1>0, <2>1, <2>2, <2>4, <2>5, <2>6, <2>7, StayStep
  <1>4. CASE ~Active(conn[c].s) /\ conn' = [conn EXCEPT ![c].pc = "ended"] /\ UNCHANGED <<acted, outages>>
    BY Zenon, <1>0, <1>4, EndStep
  <1>5. CASE Outage /\ UNCHANGED <<conn, acted>>
    <2>1. outages' \in 0 .. MaxOutages /\ outages <= outages' /\ conn[c].blind <= outages'
      BY <1>0, <1>5, OpenFacts DEF Outage
    <2>2. conn' = [conn EXCEPT ![c] = conn[c]] /\ acted' \in 0 .. MaxAge /\ FrameWithinMemory'
      BY Zenon, <1>0, <1>5, OpenFacts DEF SocketInv, FrameWithinMemory
    <2>3. conn[c].pc = "open" /\ (conn[c].seen < InboundRecheck => Row(c).age <= conn[c].seen)
      BY Zenon, <1>0, OpenFacts DEF ConnAt, Fresh
    <2> QED BY Zenon, <1>0, <2>1, <2>2, <2>3, OpenFacts, StayStep
  <1> QED BY Zenon, <1>2, <1>3, <1>4, <1>5 DEF handleInbound

\* readPump returns.
LEMMA RemoveClientStep ==
  ASSUME SocketInv, NEW c \in Conn, removeClient(c)
  PROVE  SocketInv'
  <1> DEFINE k == [New EXCEPT !.pc = "done"]
  <1>1. k \in Client /\ k.pc = "done" /\ k.blind = 0
    <2>1. 0 \in 0 .. InboundRecheck /\ 0 \in 0 .. SessionRecheck /\ 0 \in 0 .. MaxOutages
      BY SocketsAssumption
    <2> QED BY Zenon, <2>1 DEF New, Client
  <1>2. conn' = [conn EXCEPT ![c] = k] /\ sess' = sess /\ kicks' = kicks /\ acted' = acted /\ outages' = outages
    BY Zenon DEF removeClient
  <1> HIDE DEF k
  <1>3. conn' \in [Conn -> Client] /\ conn'[c] = k /\ \A d \in Conn \ {c} : conn'[d] = conn[d]
    BY Zenon, <1>1, <1>2, ConnSet DEF SocketInv, SocketsTypeOK
  <1>4. SocketsTypeOK'
    BY Zenon, <1>2, <1>3 DEF SocketInv, SocketsTypeOK
  <1>5. outages <= outages' /\ FrameWithinMemory' /\ 0 <= outages'
    BY <1>2, SocketFacts DEF SocketInv, FrameWithinMemory
  <1>6. OwnInv(c)' /\ OpenInv(c)' /\ EndedInv(c)'
    BY Zenon, <1>1, <1>3, <1>5 DEF OwnInv, OpenInv, EndedInv, ConnAt
  <1> QED BY Zenon, <1>2, <1>3, <1>4, <1>5, <1>6, ConnFrame

-----------------------------------------------------------------------------
(* Kicks and time *)

\* A kick ends the sockets of sessions that are over, or late.
LEMMA OnKickStep ==
  ASSUME SocketInv, NEW k \in kicks, onKick(k)
  PROVE  SocketInv'
  <1> DEFINE e(c) == [conn[c] EXCEPT !.pc = "ended"]
  <1>1. ASSUME NEW c \in Conn
        PROVE  e(c) \in Client /\ e(c).pc = "ended" /\ e(c).s = conn[c].s /\ e(c).blind = conn[c].blind
    BY Zenon DEF SocketInv, SocketsTypeOK, Client
  <1>2. conn' = [c \in Conn |-> IF c \in Ending(k) THEN e(c) ELSE conn[c]]
    BY Zenon DEF onKick
  <1> HIDE DEF e
  <1>3. \A c \in Conn : conn'[c] = IF c \in Ending(k) THEN e(c) ELSE conn[c]
    BY Zenon, <1>2
  <1>4. \A c \in Conn : conn'[c] \in Client
    BY Zenon, <1>1, <1>3 DEF SocketInv, SocketsTypeOK
  <1>5. conn' \in [Conn -> Client]
    BY Zenon, <1>2, <1>4
  <1>6. sess' = sess /\ kicks' \subseteq kicks /\ acted' = acted /\ outages' = outages
    BY Zenon DEF onKick
  <1>7. SocketsTypeOK'
    BY Zenon, <1>5, <1>6 DEF SocketInv, SocketsTypeOK
  <1>8. AgeInv' /\ KickInv' /\ FrameWithinMemory'
    BY Zenon, <1>6 DEF SocketInv, AgeInv, KickInv, FrameWithinMemory, Active
  <1>9. ASSUME NEW c \in Conn PROVE OwnInv(c)' /\ OpenInv(c)' /\ EndedInv(c)'
    <2>1. CASE c \in Ending(k)
      <3>1. conn'[c] = e(c) /\ ConnAt(c, "open") /\ Row(c)' = sess[conn[c].s]
        BY Zenon, <1>1, <1>3, <1>6, <2>1 DEF Ending, Row
      <3>2. conn[c].s \in Session /\ sess[conn[c].s].state # "none" /\ conn[c].blind <= outages
        BY Zenon, <3>1 DEF SocketInv, OwnInv, ConnAt, Row
      <3>3. sess[conn[c].s].state = "revoked" \/ sess[conn[c].s].late
        <4>1. CASE k.only # NoSession
          BY Zenon, <2>1, <4>1 DEF SocketInv, KickInv, Ending
        <4>2. CASE k.only = NoSession
          <5>1. conn[c].s # k.keep
            BY Zenon, <2>1, <3>2, SocketsAssumption DEF Ending
          <5> QED BY Zenon, <3>2, <4>2, <5>1, SocketFacts DEF SocketInv, KickInv, Active
        <4> QED BY Zenon, <4>1, <4>2
      <3> QED BY Zenon, <1>1, <1>6, <3>1, <3>2, <3>3 DEF OwnInv, OpenInv, EndedInv, ConnAt
    <2>2. CASE c \notin Ending(k)
      <3>1. conn'[c] = conn[c] /\ Row(c)' = Row(c)
        BY Zenon, <1>3, <1>6, <2>2 DEF Row
      <3> QED BY Zenon, <1>6, <3>1 DEF SocketInv, OwnInv, OpenInv, EndedInv, ConnAt, Fresh
    <2> QED BY Zenon, <2>1, <2>2
  <1> QED BY Zenon, <1>7, <1>8, <1>9 DEF SocketInv

\* A kick is lost.
LEMMA KickLostStep ==
  ASSUME SocketInv, NEW k \in kicks, KickLost(k)
  PROVE  SocketInv'
  <1>1. sess' = sess /\ conn' = conn /\ acted' = acted /\ kicks' \subseteq kicks /\ outages' = outages + 1 /\ outages < MaxOutages
    BY Zenon DEF KickLost, Outage
  <1>2. SocketsTypeOK' /\ outages <= outages' /\ outages \in Nat
    BY <1>1, SocketsAssumption DEF SocketInv, SocketsTypeOK
  <1>3. AgeInv' /\ KickInv' /\ FrameWithinMemory'
    BY Zenon, <1>1 DEF SocketInv, AgeInv, KickInv, FrameWithinMemory, Active
  <1>4. ASSUME NEW c \in Conn PROVE OwnInv(c)' /\ OpenInv(c)' /\ EndedInv(c)'
    <2>1. conn'[c] = conn[c] /\ Row(c)' = Row(c) /\ conn[c].blind \in Nat
      BY Zenon, <1>1, SocketFacts DEF Row, SocketInv
    <2>2. OwnInv(c)'
      BY <1>1, <1>2, <2>1 DEF SocketInv, OwnInv, ConnAt
    <2>3. OpenInv(c)' /\ EndedInv(c)'
      BY Zenon, <2>1 DEF SocketInv, OpenInv, EndedInv, ConnAt, Fresh
    <2> QED BY Zenon, <2>2, <2>3
  <1> QED BY Zenon, <1>2, <1>3, <1>4 DEF SocketInv

\* Time passes: what a session ages, its sockets' next check comes nearer.
LEMMA ElapseStep ==
  ASSUME SocketInv, Elapse
  PROVE  SocketInv'
  <1>0. /\ MaxAge \in Nat /\ InboundRecheck \in Nat /\ SessionRecheck \in Nat
        /\ kicks' = kicks /\ acted' = acted /\ outages' = outages
        /\ \A c \in Conn : ~ConnAt(c, "auth") /\ (ConnAt(c, "open") => conn[c].due > 0)
    BY Zenon, SocketsAssumption DEF Elapse
  <1> DEFINE r(s) == [sess[s] EXCEPT !.age = Least(@ + 1, MaxAge)]
             k(c) == [conn[c] EXCEPT !.seen = Least(@ + 1, InboundRecheck), !.due = @ - 1]
  <1>1. ASSUME NEW s \in Session
        PROVE  /\ r(s) \in SessionRow /\ r(s).state = sess[s].state /\ r(s).late = sess[s].late
               /\ r(s).age <= sess[s].age + 1 /\ r(s).age \in Nat
    <2>1. sess[s] \in SessionRow /\ sess[s].age \in 0 .. MaxAge
      BY Zenon DEF SocketInv, SocketsTypeOK, SessionRow
    <2>2. Least(sess[s].age + 1, MaxAge) \in 0 .. MaxAge /\ Least(sess[s].age + 1, MaxAge) <= sess[s].age + 1
      BY <1>0, <2>1 DEF Least
    <2>3. r(s) = [sess[s] EXCEPT !.age = Least(sess[s].age + 1, MaxAge)]
      BY Zenon
    <2> DEFINE n == Least(sess[s].age + 1, MaxAge)
    <2>4. n \in 0 .. MaxAge /\ n <= sess[s].age + 1 /\ n \in Nat
      BY <1>0, <2>2
    <2> HIDE DEF n
    <2>5. r(s) \in SessionRow /\ r(s).state = sess[s].state /\ r(s).late = sess[s].late /\ r(s).age = n
      BY Zenon, <2>1, <2>4 DEF SessionRow, n
    <2> QED BY Zenon, <2>4, <2>5
  <1>2. ASSUME NEW c \in Conn, ConnAt(c, "open")
        PROVE  /\ k(c) \in Client /\ k(c).pc = conn[c].pc /\ k(c).s = conn[c].s /\ k(c).blind = conn[c].blind
               /\ k(c).due = conn[c].due - 1 /\ conn[c].due \in Nat /\ conn[c].due > 0
               /\ k(c).seen < InboundRecheck => k(c).seen = conn[c].seen + 1 /\ conn[c].seen < InboundRecheck
               /\ conn[c].seen \in Nat
    <2>1. conn[c] \in Client /\ conn[c].seen \in 0 .. InboundRecheck /\ conn[c].due \in 0 .. SessionRecheck
      BY Zenon DEF SocketInv, SocketsTypeOK, Client
    <2> DEFINE n == Least(conn[c].seen + 1, InboundRecheck)
               d == conn[c].due - 1
    <2>2. /\ n \in 0 .. InboundRecheck
          /\ n < InboundRecheck => n = conn[c].seen + 1 /\ conn[c].seen < InboundRecheck
      BY <1>0, <2>1 DEF Least
    <2>3. d \in 0 .. SessionRecheck /\ conn[c].due \in Nat /\ conn[c].due > 0 /\ conn[c].seen \in Nat
      BY <1>0, <1>2, <2>1
    <2>4. k(c) = [conn[c] EXCEPT !.seen = n, !.due = d]
      BY Zenon, <2>1
    <2> HIDE DEF n, d
    <2>5. /\ k(c) \in Client /\ k(c).pc = conn[c].pc /\ k(c).s = conn[c].s /\ k(c).blind = conn[c].blind
          /\ k(c).due = d /\ k(c).seen = n
      BY Zenon, <2>1, <2>2, <2>3, <2>4 DEF Client
    <2> QED BY Zenon, <2>2, <2>3, <2>5 DEF d
  <1>3. \A s \in Session : sess'[s] = IF sess[s].state = "revoked" THEN r(s) ELSE sess[s]
    BY Zenon DEF Elapse
  <1>4. \A c \in Conn : conn'[c] = IF ConnAt(c, "open") THEN k(c) ELSE conn[c]
    BY Zenon DEF Elapse
  <1>5. sess' = [s \in Session |-> sess'[s]] /\ conn' = [c \in Conn |-> conn'[c]]
    BY Zenon DEF Elapse
  <1> HIDE DEF r, k
  <1>6. \A s \in Session : /\ sess'[s] \in SessionRow /\ sess'[s].state = sess[s].state /\ sess'[s].late = sess[s].late
                           /\ sess'[s].age <= sess[s].age + 1 /\ sess'[s].age \in Nat
                           /\ sess[s].state # "revoked" => sess'[s].age = sess[s].age
                           /\ sess[s].age \in Nat
    <2> TAKE s \in Session
    <2>1. sess[s] \in SessionRow /\ sess[s].age \in Nat
      BY Zenon, SocketFacts DEF SocketInv, SocketsTypeOK
    <2>2. CASE sess[s].state = "revoked"
      BY Zenon, <1>1, <1>3, <2>1, <2>2
    <2>3. CASE sess[s].state # "revoked"
      BY <1>3, <2>1, <2>3
    <2> QED BY Zenon, <2>2, <2>3
  <1>7. \A c \in Conn : conn'[c] \in Client
    BY Zenon, <1>2, <1>4 DEF SocketInv, SocketsTypeOK
  <1>8. SocketsTypeOK'
    <2>1. sess' \in [Session -> SessionRow]
      BY Zenon, <1>5, <1>6
    <2>2. conn' \in [Conn -> Client]
      BY Zenon, <1>5, <1>7
    <2> QED BY Zenon, <1>0, <2>1, <2>2 DEF SocketInv, SocketsTypeOK
  <1>9. AgeInv' /\ FrameWithinMemory'
    BY Zenon, <1>0, <1>6 DEF SocketInv, AgeInv, FrameWithinMemory
  <1>10. KickInv'
    <2> SUFFICES ASSUME NEW x \in kicks
                 PROVE  /\ x.only # NoSession => sess'[x.only].state = "revoked"
                        /\ x.only = NoSession => \A s \in Session : s # x.keep /\ Active(s)' => sess'[s].late
      BY Zenon, <1>0 DEF KickInv
    <2>1. x.only # NoSession => x.only \in Session
      BY Zenon DEF SocketInv, SocketsTypeOK, Kick
    <2> QED BY <1>6, <2>1 DEF SocketInv, KickInv, Active
  <1>11. ASSUME NEW c \in Conn PROVE OwnInv(c)' /\ OpenInv(c)' /\ EndedInv(c)'
    <2>1. CASE ConnAt(c, "open")
      <3>1. conn'[c] = k(c) /\ conn[c].s \in Session /\ Row(c)' = sess'[conn[c].s] /\ Row(c) = sess[conn[c].s]
            /\ Row(c).state # "none" /\ conn[c].blind <= outages
        BY Zenon, <1>2, <1>4, <2>1 DEF SocketInv, OwnInv, ConnAt, Row
      <3>2. Row(c)'.state = Row(c).state /\ Row(c)'.age <= Row(c).age + 1 /\ Row(c)'.age \in Nat /\ Row(c).age \in Nat
        BY Zenon, <1>6, <3>1
      <3>3. OwnInv(c)' /\ EndedInv(c)'
        BY Zenon, <1>0, <1>2, <2>1, <3>1, <3>2 DEF OwnInv, EndedInv, ConnAt
      <3>4. Row(c)'.age + conn'[c].due <= SessionRecheck * (1 + conn'[c].blind)
        <4> DEFINE p == SessionRecheck * (1 + conn[c].blind)
        <4>1. Row(c).age + conn[c].due <= p /\ conn'[c].due = conn[c].due - 1 /\ conn'[c].blind = conn[c].blind
              /\ conn[c].due \in Nat
          BY Zenon, <1>2, <2>1, <3>1 DEF SocketInv, OpenInv
        <4>2. p \in Nat
          BY Zenon, <1>0, SocketFacts, Intervals DEF SocketInv
        <4> HIDE DEF p
        <4>3. Row(c)'.age + conn'[c].due <= p
          BY <3>2, <4>1, <4>2
        <4> QED BY Zenon, <4>1, <4>3 DEF p
      <3>5. Fresh(c)' => Row(c)'.age <= conn'[c].seen
        BY <1>0, <1>2, <2>1, <3>1, <3>2 DEF SocketInv, OpenInv, Fresh
      <3> QED BY Zenon, <3>3, <3>4, <3>5 DEF OpenInv
    <2>2. CASE ~ConnAt(c, "open")
      <3>1. conn'[c] = conn[c]
        BY Zenon, <1>4, <2>2
      <3>2. conn[c].pc = "ended" => conn[c].s \in Session /\ Row(c)'.state = Row(c).state /\ Row(c)'.late = Row(c).late
        BY Zenon, <1>6, <3>1 DEF SocketInv, OwnInv, Row
      <3> QED BY Zenon, <1>0, <2>2, <3>1, <3>2 DEF SocketInv, OwnInv, OpenInv, EndedInv, ConnAt
    <2> QED BY Zenon, <2>1, <2>2
  <1> QED BY Zenon, <1>8, <1>9, <1>10, <1>11 DEF SocketInv

-----------------------------------------------------------------------------
(* The theorems *)

\* No session and no socket.
LEMMA SocketInit == SocketsInit => SocketInv
  <1> SUFFICES ASSUME SocketsInit PROVE SocketInv
    BY Zenon
  <1>0. 0 \in 0 .. InboundRecheck /\ 0 \in 0 .. SessionRecheck /\ 0 \in 0 .. MaxOutages /\ 0 \in 0 .. MaxAge
        /\ 0 < InboundRecheck /\ 0 <= 0
    BY SocketsAssumption
  <1> DEFINE z == [state |-> "none", age |-> 0, late |-> FALSE]
  <1>1. New \in Client /\ New.pc = "new" /\ New.blind = 0
    BY Zenon, <1>0 DEF New, Client
  <1>2. z \in SessionRow /\ z.state = "none" /\ z.age = 0
    BY Zenon, <1>0 DEF SessionRow
  <1>3. sess = [s \in Session |-> z] /\ conn = [c \in Conn |-> New] /\ kicks = {} /\ acted = 0 /\ outages = 0
    BY Zenon DEF SocketsInit
  <1> HIDE DEF z
  <1>4. SocketsTypeOK
    BY Zenon, <1>0, <1>1, <1>2, <1>3 DEF SocketsTypeOK
  <1>5. AgeInv /\ KickInv /\ FrameWithinMemory
    BY Zenon, <1>0, <1>2, <1>3 DEF AgeInv, KickInv, FrameWithinMemory
  <1>6. ASSUME NEW c \in Conn PROVE OwnInv(c) /\ OpenInv(c) /\ EndedInv(c)
    BY Zenon, <1>0, <1>1, <1>3 DEF OwnInv, OpenInv, EndedInv, ConnAt
  <1> QED BY Zenon, <1>4, <1>5, <1>6 DEF SocketInv

\* Every step keeps the invariant.
LEMMA SocketStep == SocketInv /\ [SocketsNext]_socketVars => SocketInv'
  <1> SUFFICES ASSUME SocketInv, [SocketsNext]_socketVars PROVE SocketInv'
    BY Zenon
  <1>1. CASE UNCHANGED socketVars
    <2>1. sess' = sess /\ conn' = conn /\ kicks' = kicks /\ acted' = acted /\ outages' = outages
      BY Zenon, <1>1 DEF socketVars
    <2>2. SocketsTypeOK' /\ AgeInv' /\ KickInv' /\ outages <= outages'
      BY <2>1, SocketFacts DEF SocketInv, SocketsTypeOK, AgeInv, KickInv, Active
    <2>3. \A s \in Session : sess'[s].age <= sess[s].age
      BY <2>1, SocketFacts DEF SocketInv
    <2> QED BY Zenon, <2>1, <2>2, <2>3, SessFrame
  <1> QED BY Zenon, <1>1, OpenSessionStep, EndSessionStep, AuthenticateStep, AddClientStep, WatchStep, InboundStep,
             RemoveClientStep, OnKickStep, KickLostStep, ElapseStep DEF SocketsNext

\* Every variable keeps its type.
THEOREM SocketTypes == SocketsSpec => []SocketsTypeOK
  <1>1. SocketInv => SocketsTypeOK
    BY Zenon DEF SocketInv
  <1> QED BY <1>1, SocketInit, SocketStep, PTL DEF SocketsSpec

\* sessionRecheck bounds how long a socket outlives its session, whatever kicks
\* are lost, and a socket is closed for its session's end only if it ended.
THEOREM SocketsFollow == SocketsSpec => []FollowsSession
  <1>1. SocketInv => FollowsSession
    <2> SUFFICES ASSUME SocketInv, NEW c \in Conn
                 PROVE  /\ ConnAt(c, "open") /\ Row(c).state = "revoked" => Row(c).age <= SessionRecheck * (1 + conn[c].blind)
                        /\ ConnAt(c, "ended") => Row(c).state = "revoked" \/ Row(c).late
      BY Zenon DEF FollowsSession
    <2>1. ConnAt(c, "ended") => Row(c).state = "revoked" \/ Row(c).late
      BY Zenon DEF SocketInv, EndedInv
    <2>2. ASSUME ConnAt(c, "open") PROVE Row(c).age <= SessionRecheck * (1 + conn[c].blind)
      <3> DEFINE p == SessionRecheck * (1 + conn[c].blind)
      <3>1. Row(c).age + conn[c].due <= p /\ Row(c).age \in Nat /\ conn[c].due \in Nat
        BY Zenon, <2>2, OpenFacts
      <3>2. p \in Nat
        BY Zenon, SocketFacts, Intervals DEF SocketInv
      <3> HIDE DEF p
      <3>3. Row(c).age <= p
        BY <3>1, <3>2
      <3> QED BY Zenon, <3>3 DEF p
    <2> QED BY Zenon, <2>1, <2>2
  <1> QED BY <1>1, SocketInit, SocketStep, PTL DEF SocketsSpec

\* A frame is never acted on for a session that had been over for as long as
\* the memory of a check, those it could not be read for apart.
THEOREM FramesWithinMemory == SocketsSpec => []FrameWithinMemory
  <1>1. SocketInv => FrameWithinMemory
    BY Zenon DEF SocketInv
  <1> QED BY <1>1, SocketInit, SocketStep, PTL DEF SocketsSpec

-----------------------------------------------------------------------------
(* Presence *)

\* The sockets the counter counts.
CountedPc == {"expire", "online", "open", "decr"}
Counted == {s \in Socket : sock[s].pc \in CountedPc}

\* No connect or disconnect has met another, and Redis refused nothing.
Calm == past \subseteq {"torn"}

\* Moreover nothing died.
Clean == past = {} /\ faults = 0

\* A socket no command of which is under way, and one that is the last to go.
AtRest(s) == sock[s].pc \in {"closed", "open"}
Parting(s) == sock[s].pc \in {"del", "sink", "offline"}

\* An absent key has no time to live.
KeyInv == key = None => ttl = None

\* The counter is one over for each fault at most.
UpperInv == Count <= Cardinality(Counted) + faults

\* While connects and disconnects do not meet: one is under way at most, every
\* socket is counted, the last one is gone before the key is removed, and the
\* key outlives the next ping of every open socket.
CalmInv ==
  Calm => /\ \A s, t \in Socket : AtRest(s) \/ AtRest(t) \/ s = t
          /\ Cardinality(Counted) <= Count
          /\ \A s \in Socket : Parting(s) => Open = {}
          /\ \A s \in Socket : At(s, "open") /\ ttl # None => sock[s].ping < ttl
          /\ \A s \in Socket : At(s, "online") => ttl = TTL

\* When moreover nothing died, the subscriber's picture is right once the
\* connect or disconnect under way has published.
ViewInv ==
  Clean => /\ (\A s \in Socket : sock[s].pc \in {"closed", "open", "incr", "expire"})
                => ((view = "online") <=> (Open # {}))
           /\ \A s \in Socket : At(s, "decr") => view = "online"
           /\ \A s \in Socket : At(s, "expire") => ((sock[s].n = 1) <=> (Open = {}))
           /\ \A s \in Socket : At(s, "online") => Open = {}

Inv == TypeOK /\ KeyInv /\ UpperInv /\ CalmInv /\ ViewInv

-----------------------------------------------------------------------------
(* Presence: types *)

\* At first every variable is of its type.
LEMMA InitTypes == Init => TypeOK
<1> SUFFICES ASSUME Init PROVE TypeOK
  BY Zenon
<1>1. sock \in [Socket -> [pc : Pc, n : Int, ping : 0 .. Ping]] /\ faults \in 0 .. MaxFaults
  BY PresenceAssumption DEF Init, Closed, Pc
<1> QED
  BY Zenon, <1>1 DEF Init, TypeOK

\* Key, time to live, sockets and picture keep their types.
THEOREM TypeCorrect == Spec => []TypeOK
<1>1. Init => TypeOK
  BY InitTypes
<1>2. TypeOK /\ [Next]_vars => TypeOK'
  <2> SUFFICES ASSUME TypeOK, [Next]_vars PROVE TypeOK'
    BY Zenon
  <2> USE PresenceAssumption DEF Pc, TypeOK
  <2>1. ASSUME NEW s \in Socket, Command(s) PROVE TypeOK'
    <3>0. bare' \in BOOLEAN
      BY Zenon, <2>1 DEF Command, Incr, Expire, PublishOnline, touchPresence, Decr, Del, Sink, PublishOffline
    <3>1. CASE Incr(s) \/ Expire(s) \/ PublishOnline(s)
      BY <3>0, <3>1 DEF Incr, Expire, AfterExpire, PublishOnline, Opened, Touched, Count
    <3>2. CASE touchPresence(s) \/ Decr(s)
      BY <3>0, <3>2 DEF touchPresence, Decr, Goto, Closed, Touched, Count
    <3>3. CASE Del(s) \/ Sink(s) \/ PublishOffline(s)
      BY <3>0, <3>3 DEF Del, Sink, PublishOffline, Goto, Closed
    <3> QED
      BY Zenon, <2>1, <3>1, <3>2, <3>3 DEF Command
  <2>2. ASSUME NEW s \in Socket, Connect(s) \/ Disconnect(s) PROVE TypeOK'
    BY <2>2 DEF Connect, Disconnect, Goto, Meeting, Troubles
  <2>3. ASSUME NEW s \in Socket, Die(s) \/ Refused(s) PROVE TypeOK'
    <3>1. sock' \in [Socket -> [pc : Pc, n : Int, ping : 0 .. Ping]]
      BY <2>3 DEF Die, Refused, AfterExpire, Opened, Closed, Goto
    <3>2. past' \in SUBSET Troubles /\ bare' \in BOOLEAN
      BY Zenon, <2>3 DEF Die, Refused, Troubles, LeavesBare
    <3>3. faults' \in 0 .. MaxFaults
      BY <2>3 DEF Die, Refused
    <3> QED
      BY Zenon, <2>3, <3>1, <3>2, <3>3 DEF Die, Refused
  <2>4. CASE Tick
    <3>1. sock' \in [Socket -> [pc : Pc, n : Int, ping : 0 .. Ping]]
      BY <2>4 DEF Tick, Open
    <3>2. key' \in Int \cup {None} /\ ttl' \in 1 .. TTL \cup {None}
      BY <2>4 DEF Tick
    <3> QED
      BY Zenon, <2>4, <3>1, <3>2 DEF Tick
  <2>5. CASE UNCHANGED vars
    BY Zenon, <2>5 DEF vars
  <2> QED
    BY Zenon, <2>1, <2>2, <2>3, <2>4, <2>5 DEF Next
<1> QED
  BY <1>1, <1>2, PTL DEF Spec

-----------------------------------------------------------------------------
(* Sets of sockets *)

INSTANCE FiniteSetTheorems

\* Sets of sockets are finite.
LEMMA Size ==
  ASSUME NEW A \in SUBSET Socket
  PROVE  /\ IsFiniteSet(A) /\ Cardinality(A) \in Nat
         /\ Cardinality(A) = 0 <=> A = {}
  BY Zenon, FS_Subset, FS_CardinalityType, FS_EmptySet, PresenceAssumption

\* One socket more, one socket less.
LEMMA OneMore ==
  ASSUME NEW A \in SUBSET Socket, NEW s \in Socket
  PROVE  /\ s \notin A => Cardinality(A \cup {s}) = Cardinality(A) + 1
         /\ s \in A => Cardinality(A \ {s}) = Cardinality(A) - 1
  BY Zenon, Size, FS_AddElement, FS_RemoveElement

\* What a step of one socket does to the open ones and to the counted ones.
LEMMA OneMoves ==
  ASSUME NEW s \in Socket, \A t \in Socket \ {s} : sock'[t] = sock[t]
  PROVE  /\ Open' = IF sock'[s].pc = "open" THEN Open \cup {s} ELSE Open \ {s}
         /\ Cardinality(Counted) \in Nat /\ Cardinality(Counted') \in Nat
         /\ Cardinality(Counted) = 0 <=> Counted = {}
         /\ Cardinality(Counted') = 0 <=> Counted' = {}
         /\ (sock[s].pc \in CountedPc <=> sock'[s].pc \in CountedPc) => Cardinality(Counted') = Cardinality(Counted)
         /\ sock[s].pc \in CountedPc /\ sock'[s].pc \notin CountedPc => Cardinality(Counted') = Cardinality(Counted) - 1
         /\ sock[s].pc \notin CountedPc /\ sock'[s].pc \in CountedPc => Cardinality(Counted') = Cardinality(Counted) + 1
<1>1. Open' = IF sock'[s].pc = "open" THEN Open \cup {s} ELSE Open \ {s}
  BY Zenon DEF Open, At
<1>2. Counted' = IF sock'[s].pc \in CountedPc THEN Counted \cup {s} ELSE Counted \ {s}
  BY DEF Counted
<1>3. Counted \in SUBSET Socket /\ Counted' \in SUBSET Socket
  BY Zenon DEF Counted
<1>4. s \in Counted <=> sock[s].pc \in CountedPc
  BY Zenon DEF Counted
<1>5. (s \in Counted => Counted \cup {s} = Counted) /\ (s \notin Counted => Counted \ {s} = Counted)
  BY Zenon
<1> QED
  BY Zenon, <1>1, <1>2, <1>3, <1>4, <1>5, Size, OneMore

-----------------------------------------------------------------------------
(* The counter *)

\* A step of one socket leaves the others alone.
LEMMA Socketwise ==
  ASSUME TypeOK, NEW s \in Socket,
         Command(s) \/ Connect(s) \/ Disconnect(s) \/ Die(s) \/ Refused(s)
  PROVE  \A t \in Socket \ {s} : sock'[t] = sock[t]
  BY Zenon DEF TypeOK, Command, Connect, Disconnect, Die, Refused, AfterExpire, Incr, Expire, PublishOnline,
         touchPresence, Decr, Del, Sink, PublishOffline, Opened, Goto

\* Every step keeps the counter's upper bound: INCR comes with a socket more,
\* DECR with one less, and what a fault leaves behind is paid for by faults.
LEMMA UpperStep == TypeOK /\ UpperInv /\ [Next]_vars => UpperInv'
<1> SUFFICES ASSUME TypeOK, UpperInv, [Next]_vars PROVE UpperInv'
  BY Zenon
<1>0. Count \in Int /\ faults \in Nat /\ Cardinality(Counted) \in Nat
  BY PresenceAssumption, Size DEF TypeOK, Count, Counted
<1>1. ASSUME NEW s \in Socket,
             Command(s) \/ Connect(s) \/ Disconnect(s) \/ Die(s) \/ Refused(s)
      PROVE  UpperInv'
  <2>m. \A t \in Socket \ {s} : sock'[t] = sock[t]
    BY Zenon, <1>1, Socketwise
  <2>1. CASE Incr(s) \/ Decr(s)
    <3>1. Incr(s) => Count' = Count + 1 /\ sock[s].pc \notin CountedPc /\ sock'[s].pc \in CountedPc
      BY PresenceAssumption, <1>0 DEF Incr, TypeOK, At, CountedPc, Count
    <3>2. Decr(s) => Count' = Count - 1 /\ sock[s].pc \in CountedPc /\ sock'[s].pc \notin CountedPc
      BY PresenceAssumption, <1>0 DEF Decr, TypeOK, At, CountedPc, Count, Goto, Closed
    <3>3. faults' = faults
      BY Zenon, <2>1 DEF Incr, Decr
    <3> QED
      BY <1>0, <2>1, <2>m, <3>1, <3>2, <3>3, OneMoves DEF UpperInv
  <2>2. CASE Die(s) \/ Refused(s)
    <3>1. Count' = Count /\ faults' = faults + 1
      BY Zenon, <2>2 DEF Die, Refused, Count
    <3> QED
      BY <1>0, <2>m, <3>1, OneMoves DEF UpperInv
  <2>3. CASE Del(s)
    BY <1>0, <2>3, <2>m, OneMoves DEF Del, UpperInv, Count
  <2>4. CASE Expire(s) \/ PublishOnline(s) \/ touchPresence(s)
    <3>1. Count' = Count /\ faults' = faults /\ sock[s].pc \in CountedPc /\ sock'[s].pc \in CountedPc
      BY <2>4 DEF Expire, AfterExpire, PublishOnline, touchPresence, TypeOK, At, CountedPc, Count, Opened
    <3> QED
      BY Zenon, <1>0, <2>m, <3>1, OneMoves DEF UpperInv
  <2>5. CASE Connect(s) \/ Disconnect(s) \/ Sink(s) \/ PublishOffline(s)
    <3>1. Count' = Count /\ faults' = faults /\ (sock[s].pc \in CountedPc <=> sock'[s].pc \in CountedPc)
      BY <2>5 DEF Connect, Disconnect, Sink, PublishOffline, TypeOK, At, CountedPc, Count, Goto, Closed
    <3> QED
      BY Zenon, <1>0, <2>m, <3>1, OneMoves DEF UpperInv
  <2> QED
    BY Zenon, <1>1, <2>1, <2>2, <2>3, <2>4, <2>5 DEF Command
<1>2. CASE Tick
  <2>1. Counted' = Counted
    BY Zenon, <1>2 DEF Tick, Counted, TypeOK, Open
  <2>2. (Count' = Count \/ Count' = 0) /\ faults' = faults
    BY Zenon, <1>2 DEF Tick, Count
  <2> QED
    BY <1>0, <2>1, <2>2 DEF UpperInv
<1>3. CASE UNCHANGED vars
  BY Zenon, <1>3 DEF vars, UpperInv, Count, Counted
<1> QED
  BY Zenon, <1>1, <1>2, <1>3 DEF Next

-----------------------------------------------------------------------------
(* Connects and disconnects that do not meet *)

\* A command of a socket under way finds every other socket at rest.
LEMMA Alone ==
  ASSUME CalmInv, Calm, NEW s \in Socket, ~AtRest(s)
  PROVE  /\ \A t \in Socket \ {s} : AtRest(t)
         /\ Counted \subseteq Open \cup {s} /\ Open \subseteq Counted
  BY Zenon DEF CalmInv, AtRest, Counted, CountedPc, Open, At

\* The time to live goes with the key.
LEMMA KeyStep == TypeOK /\ KeyInv /\ [Next]_vars => KeyInv'
<1> SUFFICES ASSUME TypeOK, KeyInv, [Next]_vars PROVE KeyInv'
  BY Zenon
<1>1. ASSUME NEW s \in Socket, Command(s) PROVE KeyInv'
  <2>1. CASE Incr(s) \/ Decr(s)
    <3>1. key' \in Int
      BY <2>1, PresenceAssumption DEF Incr, Decr, TypeOK, Count
    <3> QED
      BY Zenon, <3>1, PresenceAssumption DEF KeyInv
  <2> QED
    BY Zenon, <1>1, <2>1 DEF Command, Expire, PublishOnline, touchPresence, Del, Sink, PublishOffline, Touched, KeyInv
<1>2. ASSUME NEW s \in Socket, Connect(s) \/ Disconnect(s) \/ Die(s) \/ Refused(s)
      PROVE  KeyInv'
  BY Zenon, <1>2 DEF Connect, Disconnect, Die, Refused, KeyInv
<1>3. CASE Tick
  BY Zenon, <1>3 DEF Tick, KeyInv
<1>4. CASE UNCHANGED vars
  BY Zenon, <1>4 DEF vars, KeyInv
<1> QED
  BY Zenon, <1>1, <1>2, <1>3, <1>4 DEF Next

\* Every step that leaves connects and disconnects apart keeps CalmInv: the
\* socket that moves is the only one under way.
LEMMA CalmStep == TypeOK /\ TypeOK' /\ KeyInv /\ CalmInv /\ [Next]_vars => CalmInv'
<1> SUFFICES ASSUME TypeOK, TypeOK', KeyInv, CalmInv, [Next]_vars, Calm' PROVE CalmInv'
  BY Zenon DEF CalmInv
<1>0. Count \in Int /\ Cardinality(Counted) \in Nat
  BY PresenceAssumption, Size DEF TypeOK, Count, Counted
<1>c. ASSUME past \subseteq past' PROVE Calm
  BY Zenon, <1>c DEF Calm
<1>1. ASSUME NEW s \in Socket,
             Command(s) \/ Connect(s) \/ Disconnect(s) \/ Die(s) \/ Refused(s)
      PROVE  CalmInv'
  <2>m. \A t \in Socket \ {s} : sock'[t] = sock[t]
    BY Zenon, <1>1, Socketwise
  <2>1. CASE Connect(s) \/ Disconnect(s)
    <3>1. Settled /\ past' = past
      BY Zenon, <2>1 DEF Connect, Disconnect, Meeting, Calm
    <3>2. Calm
      BY Zenon, <1>c, <3>1
    <3>3. /\ key' = key /\ ttl' = ttl
          /\ (sock[s].pc = "closed" /\ sock'[s].pc = "incr") \/ (sock[s].pc = "open" /\ sock'[s].pc = "decr")
      BY <2>1 DEF Connect, Disconnect, TypeOK, Goto, At
    <3>4. Cardinality(Counted') = Cardinality(Counted) /\ Count' = Count
      BY Zenon, <2>m, <3>3, OneMoves DEF CountedPc, Count
    <3>5. \A t \in Socket : ~Parting(t)' /\ ~At(t, "online")'
      BY Zenon, <2>m, <3>1, <3>3 DEF Parting, At, Settled
    <3>6. \A t, u \in Socket : AtRest(t)' \/ AtRest(u)' \/ t = u
      BY Zenon, <2>m, <3>1 DEF AtRest, Settled
    <3>7. \A t \in Socket : At(t, "open")' /\ ttl' # None => sock'[t].ping < ttl'
      BY Zenon, <2>m, <3>2, <3>3 DEF CalmInv, At
    <3> QED
      BY Zenon, <3>2, <3>4, <3>5, <3>6, <3>7 DEF CalmInv
  <2>2. CASE Refused(s)
    BY <2>2 DEF Refused, Calm
  <2>3. CASE Die(s)
    <3>1. Calm /\ key' = key /\ ttl' = ttl /\ sock'[s].pc = "closed"
      BY Zenon, <1>c, <2>3 DEF Die, TypeOK, Closed
    <3>2. Cardinality(Counted') <= Cardinality(Counted) /\ Count' = Count /\ Open' \subseteq Open
      BY <1>0, <2>m, <3>1, OneMoves DEF CountedPc, Count
    <3>3. \A t \in Socket : (Parting(t)' => Parting(t)) /\ (At(t, "online")' => At(t, "online"))
      BY Zenon, <2>m, <3>1 DEF Parting, At
    <3>4. \A t, u \in Socket : AtRest(t)' \/ AtRest(u)' \/ t = u
      BY Zenon, <2>m, <3>1 DEF CalmInv, AtRest
    <3>5. \A t \in Socket : At(t, "open")' /\ ttl' # None => sock'[t].ping < ttl'
      BY Zenon, <2>m, <3>1 DEF CalmInv, At
    <3>6. Cardinality(Counted') \in Nat
      BY Zenon, <2>m, OneMoves
    <3> QED
      BY <1>0, <3>1, <3>2, <3>3, <3>4, <3>5, <3>6 DEF CalmInv
  <2>4. CASE touchPresence(s)
    <3>1. /\ Calm /\ key' = key /\ sock[s].pc = "open" /\ sock'[s].pc = "open"
          /\ ttl' \in {TTL, None} /\ sock' \in [Socket -> [pc : Pc, n : Int, ping : 0 .. Ping]]
      BY Zenon, <1>c, <2>4 DEF touchPresence, TypeOK, At, Touched
    <3>2. Cardinality(Counted') = Cardinality(Counted) /\ Count' = Count /\ Open' = Open
      BY Zenon, <2>m, <3>1, OneMoves DEF CountedPc, Count, Open, At
    <3>3. \A t \in Socket : (Parting(t)' => Parting(t)) /\ (At(t, "online")' => At(t, "online"))
      BY Zenon, <2>m, <3>1 DEF Parting, At
    <3>4. \A t, u \in Socket : AtRest(t)' \/ AtRest(u)' \/ t = u
      BY Zenon, <2>m, <3>1 DEF CalmInv, AtRest
    <3>5. \A t \in Socket : ttl' # None => sock'[t].ping < ttl'
      BY <3>1, PresenceAssumption
    <3>6. \A t \in Socket : At(t, "online") => ttl' = TTL
      <4>1. s \in Counted /\ Counted \in SUBSET Socket
        BY Zenon, <3>1 DEF Counted, CountedPc
      <4>2. Cardinality(Counted) # 0 /\ Cardinality(Counted) <= Count
        BY Zenon, <3>1, <4>1, Size DEF CalmInv
      <4>3. key # None
        BY <1>0, <4>2 DEF Count
      <4> QED
        BY Zenon, <2>4, <4>3 DEF touchPresence, Touched
    <3> QED
      BY Zenon, <3>1, <3>2, <3>3, <3>4, <3>5, <3>6 DEF CalmInv
  <2>5. CASE Command(s) /\ ~touchPresence(s)
    <3>0. Calm /\ ~AtRest(s)
      BY Zenon, <1>c, <2>5 DEF Command, Incr, Expire, PublishOnline, Decr, Del, Sink, PublishOffline, AtRest, At
    <3>a. \A t, u \in Socket : AtRest(t)' \/ AtRest(u)' \/ t = u
      BY Zenon, <2>m, <3>0, Alone DEF AtRest
    <3>b. \A t \in Socket \ {s} : ~Parting(t)' /\ ~At(t, "online")'
      BY Zenon, <2>m, <3>0, Alone DEF AtRest, Parting, At
    <3>c. ASSUME ttl' = ttl, ~At(s, "open")'
          PROVE  \A t \in Socket : At(t, "open")' /\ ttl' # None => sock'[t].ping < ttl'
      BY Zenon, <2>m, <3>0, <3>c DEF CalmInv, At
    <3>1. CASE Incr(s)
      <4>1. /\ Count' = Count + 1 /\ sock[s].pc = "incr" /\ sock'[s].pc = "expire" /\ ttl' = ttl
        BY Zenon, <3>1, <1>0, PresenceAssumption DEF Incr, TypeOK, At, Count
      <4>2. Cardinality(Counted)' <= Count'
        BY <1>0, <2>m, <3>0, <4>1, OneMoves DEF CountedPc, CalmInv
      <4>3. ~Parting(s)' /\ ~At(s, "online")' /\ ~At(s, "open")'
        BY Zenon, <4>1 DEF Parting, At
      <4> QED
        BY Zenon, <3>a, <3>b, <3>c, <4>1, <4>2, <4>3 DEF CalmInv
    <3>2. CASE Expire(s)
      <4>1. /\ sock[s].pc = "expire" /\ sock'[s].pc \in {"online", "open"}
            /\ key' = key /\ sock' \in [Socket -> [pc : Pc, n : Int, ping : 0 .. Ping]]
        BY Zenon, <3>2 DEF Expire, AfterExpire, TypeOK, At, Opened
      <4>2. Cardinality(Counted)' <= Count' /\ Count' = Count /\ s \in Counted
        BY Zenon, <1>0, <2>m, <3>0, <4>1, OneMoves DEF CountedPc, CalmInv, Count, Counted
      <4>3. ttl' = TTL
        <5>1. Cardinality(Counted) # 0 /\ Cardinality(Counted) <= Count
          BY Zenon, <3>0, <4>2, Size DEF CalmInv, Counted
        <5>2. key # None
          BY <1>0, <5>1 DEF Count
        <5> QED
          BY Zenon, <3>2, <5>2 DEF Expire, Touched
      <4>4. \A t \in Socket : ttl' # None => sock'[t].ping < ttl'
        BY <4>1, <4>3, PresenceAssumption
      <4>5. ~Parting(s)'
        BY Zenon, <4>1 DEF Parting
      <4> QED
        BY Zenon, <3>a, <3>b, <4>2, <4>3, <4>4, <4>5 DEF CalmInv
    <3>3. CASE PublishOnline(s)
      <4>1. /\ sock[s].pc = "online" /\ sock'[s].pc = "open" /\ sock'[s].ping = Ping
            /\ key' = key /\ ttl' = ttl
        BY Zenon, <3>3 DEF PublishOnline, TypeOK, At, Opened
      <4>2. Cardinality(Counted)' <= Count' /\ ttl = TTL
        BY Zenon, <1>0, <2>m, <3>0, <4>1, OneMoves DEF CountedPc, CalmInv, Count, At
      <4>3. \A t \in Socket : At(t, "open")' /\ ttl' # None => sock'[t].ping < ttl'
        BY Zenon, <2>m, <3>0, <4>1, <4>2, PresenceAssumption DEF CalmInv, At
      <4>4. ~Parting(s)' /\ ~At(s, "online")'
        BY Zenon, <4>1 DEF Parting, At
      <4> QED
        BY Zenon, <3>a, <3>b, <4>2, <4>3, <4>4 DEF CalmInv
    <3>4. CASE Decr(s)
      <4>1. /\ Count' = Count - 1 /\ sock[s].pc = "decr" /\ sock'[s].pc \in {"del", "closed"}
            /\ ttl' = ttl /\ (sock'[s].pc = "del" => Count' <= 0)
        BY <3>4, <1>0, PresenceAssumption DEF Decr, TypeOK, At, Count, Goto, Closed
      <4>2. Cardinality(Counted') <= Count' /\ Cardinality(Counted') \in Nat
        BY <1>0, <2>m, <3>0, <4>1, OneMoves DEF CountedPc, CalmInv
      <4>3. sock'[s].pc = "del" => Open' = {}
        <5>1. sock'[s].pc = "del" => Counted' = {}
          BY <1>0, <2>m, <4>1, <4>2, OneMoves
        <5>2. Open' \subseteq Counted'
          BY Zenon DEF Open, At, Counted, CountedPc
        <5> QED
          BY Zenon, <5>1, <5>2
      <4>4. Parting(s)' => sock'[s].pc = "del"
        BY Zenon, <4>1 DEF Parting
      <4>5. ~At(s, "online")' /\ ~At(s, "open")'
        BY Zenon, <4>1 DEF At
      <4> QED
        BY Zenon, <3>a, <3>b, <3>c, <4>1, <4>2, <4>3, <4>4, <4>5 DEF CalmInv
    <3>5. CASE Del(s) \/ Sink(s) \/ PublishOffline(s)
      <4>1. /\ Parting(s) /\ sock'[s].pc \in {"sink", "offline", "closed"}
            /\ ttl' \in {ttl, None} /\ key' \in {key, None} /\ sock[s].pc \notin CountedPc
        BY <3>5 DEF Del, Sink, PublishOffline, TypeOK, At, Goto, Closed, Parting, CountedPc
      <4>2. Open = {} /\ Counted = {}
        <5>1. Open = {}
          BY Zenon, <3>0, <4>1 DEF CalmInv
        <5>2. s \notin Counted
          BY Zenon, <4>1 DEF Counted
        <5> QED
          BY Zenon, <3>0, <5>1, <5>2, Alone
      <4>3. Open' = {} /\ Cardinality(Counted') = 0
        BY Zenon, <2>m, <4>1, <4>2, OneMoves DEF CountedPc
      <4>4. Cardinality(Counted') <= Count'
        BY <1>0, <3>0, <4>1, <4>2, <4>3, OneMoves, <2>m DEF CalmInv, Count
      <4>5. \A t \in Socket : ~At(t, "open")'
        BY Zenon, <4>3 DEF Open
      <4>6. ~At(s, "online")'
        BY Zenon, <4>1 DEF At
      <4> QED
        BY Zenon, <3>a, <3>b, <4>3, <4>4, <4>5, <4>6 DEF CalmInv
    <3> QED
      BY Zenon, <2>5, <3>1, <3>2, <3>3, <3>4, <3>5 DEF Command
  <2> QED
    BY Zenon, <1>1, <2>1, <2>2, <2>3, <2>4, <2>5 DEF Command
<1>2. CASE Tick
  <2>0. Calm /\ Settled
    BY Zenon, <1>2, <1>c DEF Tick
  <2>1. \A t \in Socket : sock'[t].pc = sock[t].pc
    BY Zenon, <1>2 DEF Tick, TypeOK, Open
  <2>2. Counted' = Counted /\ Open' = Open /\ Counted = Open
    BY Zenon, <2>0, <2>1 DEF Counted, Open, At, Settled, CountedPc
  <2>3. \A t \in Open : sock'[t].ping = sock[t].ping - 1 /\ sock[t].ping > 0 /\ sock[t].ping \in Nat
    BY <1>2 DEF Tick, TypeOK, Open
  <2>4. ASSUME ttl = 1 PROVE Open = {}
    BY <2>0, <2>3, <2>4, PresenceAssumption DEF CalmInv, Open
  <2>5. Cardinality(Counted') <= Count'
    <3>1. CASE ttl = 1
      BY <1>2, <2>2, <2>4, <3>1, Size DEF Tick, Count
    <3>2. CASE ttl # 1
      BY Zenon, <1>2, <2>0, <2>2, <3>2 DEF Tick, Count, CalmInv
    <3> QED
      BY Zenon, <3>1, <3>2
  <2>6. \A t \in Socket : At(t, "open")' /\ ttl' # None => sock'[t].ping < ttl'
    <3> SUFFICES ASSUME NEW t \in Socket, At(t, "open")', ttl' # None PROVE sock'[t].ping < ttl'
      BY Zenon
    <3>1. t \in Open /\ At(t, "open")
      BY Zenon, <2>1 DEF At, Open
    <3>2. ttl # None /\ ttl' = ttl - 1 /\ ttl \in Int
      BY <1>2 DEF Tick, TypeOK
    <3> QED
      BY <2>0, <2>3, <3>1, <3>2 DEF CalmInv
  <2>7. \A t \in Socket : AtRest(t)' /\ ~Parting(t)' /\ ~At(t, "online")'
    BY Zenon, <2>0, <2>1 DEF Settled, AtRest, Parting, At
  <2> QED
    BY Zenon, <2>5, <2>6, <2>7 DEF CalmInv
<1>3. CASE UNCHANGED vars
  BY Zenon, <1>3 DEF vars, CalmInv, Calm, AtRest, Parting, Counted, Count, Open, At
<1> QED
  BY Zenon, <1>1, <1>2, <1>3 DEF Next

\* Without deaths and errors the counter is exact, and the picture follows it.
LEMMA ViewStep == Inv /\ TypeOK' /\ [Next]_vars => ViewInv'
<1> SUFFICES ASSUME Inv, TypeOK', [Next]_vars, Clean' PROVE ViewInv'
  BY Zenon DEF ViewInv
<1>0. /\ TypeOK /\ UpperInv /\ CalmInv /\ ViewInv
      /\ Count \in Int /\ Cardinality(Counted) \in Nat
  BY PresenceAssumption, Size DEF Inv, TypeOK, Count, Counted
<1>c. ASSUME past \subseteq past', faults <= faults' PROVE Clean /\ Calm
  BY <1>0, <1>c DEF Clean, Calm, TypeOK
<1>e. ASSUME Clean PROVE Count = Cardinality(Counted)
  BY <1>0, <1>e DEF Clean, Calm, CalmInv, UpperInv
<1>1. ASSUME NEW s \in Socket,
             Command(s) \/ Connect(s) \/ Disconnect(s) \/ Die(s) \/ Refused(s)
      PROVE  ViewInv'
  <2>m. \A t \in Socket \ {s} : sock'[t] = sock[t]
    BY Zenon, <1>0, <1>1, Socketwise
  <2>1. CASE Die(s) \/ Refused(s)
    BY <1>0, <2>1 DEF Die, Refused, Clean, TypeOK
  <2>2. CASE Connect(s) \/ Disconnect(s)
    <3>1. Settled /\ Clean /\ view' = view
      BY Zenon, <1>0, <1>c, <2>2 DEF Connect, Disconnect, Meeting, Clean, TypeOK
    <3>2. view = "online" <=> Open # {}
      BY Zenon, <1>0, <3>1 DEF ViewInv, Settled
    <3>3. \/ sock[s].pc = "closed" /\ sock'[s].pc = "incr"
          \/ s \in Open /\ sock'[s].pc = "decr"
      BY <1>0, <2>2 DEF Connect, Disconnect, TypeOK, Goto, At, Open
    <3>4. sock'[s].pc = "incr" => Open' = Open
      BY Zenon, <2>m, <3>3 DEF Open, At
    <3>5. \A t \in Socket : ~At(t, "expire")' /\ ~At(t, "online")' /\ (At(t, "decr")' => t = s)
      BY Zenon, <2>m, <3>1, <3>3 DEF At, Settled
    <3> QED
      BY Zenon, <3>1, <3>2, <3>3, <3>4, <3>5 DEF ViewInv, At
  <2>3. CASE touchPresence(s)
    <3>1. /\ Clean /\ view' = view
          /\ \A t \in Socket : sock'[t].pc = sock[t].pc /\ sock'[t].n = sock[t].n
      BY Zenon, <1>0, <1>c, <2>3, <2>m DEF touchPresence, TypeOK, Clean
    <3>2. Open' = Open
      BY Zenon, <3>1 DEF Open, At
    <3> QED
      BY Zenon, <1>0, <3>1, <3>2 DEF ViewInv, At
  <2>4. CASE Command(s) /\ ~touchPresence(s)
    <3>0. Clean /\ Calm /\ ~AtRest(s)
      BY <1>0, <1>c, <2>4
      DEF Command, Incr, Expire, PublishOnline, Decr, Del, Sink, PublishOffline, AtRest, At, TypeOK
    <3>a. \A t \in Socket \ {s} : sock[t].pc \in {"closed", "open"} /\ sock'[t].pc \in {"closed", "open"}
      BY Zenon, <1>0, <2>m, <3>0, Alone DEF AtRest
    <3>b. \A t \in Socket \ {s} : ~At(t, "expire")' /\ ~At(t, "online")' /\ ~At(t, "decr")'
      BY Zenon, <3>a DEF At
    <3>1. CASE Incr(s)
      <4>1. /\ sock[s].pc = "incr" /\ sock'[s].pc = "expire" /\ view' = view
            /\ sock'[s].n = Count + 1
        BY Zenon, <1>0, <3>1 DEF Incr, TypeOK, At
      <4>2. Open' = Open /\ Counted = Open
        BY Zenon, <2>m, <3>a, <4>1 DEF Open, At, Counted, CountedPc
      <4>3. sock'[s].n = 1 <=> Open = {}
        BY <1>0, <1>e, <3>0, <4>1, <4>2, Size DEF Counted
      <4>4. view = "online" <=> Open # {}
        BY Zenon, <1>0, <3>0, <3>a, <4>1 DEF ViewInv
      <4>5. ~At(s, "online")' /\ ~At(s, "decr")'
        BY Zenon, <4>1 DEF At
      <4> QED
        BY Zenon, <3>b, <4>1, <4>2, <4>3, <4>4, <4>5 DEF ViewInv
    <3>2. CASE Expire(s)
      <4>1. /\ sock[s].pc = "expire" /\ view' = view
            /\ sock'[s].pc = IF sock[s].n = 1 THEN "online" ELSE "open"
        BY Zenon, <1>0, <3>2 DEF Expire, AfterExpire, TypeOK, At, Opened
      <4>2. (sock[s].n = 1 <=> Open = {}) /\ (view = "online" <=> Open # {})
        BY Zenon, <1>0, <3>0, <3>a, <4>1 DEF ViewInv, At
      <4>3. Open' = IF sock[s].n = 1 THEN Open ELSE Open \cup {s}
        BY Zenon, <2>m, <4>1 DEF Open, At
      <4>4. ~At(s, "expire")' /\ ~At(s, "decr")' /\ (At(s, "online")' => sock[s].n = 1)
        BY Zenon, <4>1 DEF At
      <4>5. sock'[s].pc \in {"closed", "open", "incr", "expire"} => sock[s].n # 1
        BY Zenon, <4>1
      <4> QED
        BY Zenon, <3>b, <4>1, <4>2, <4>3, <4>4, <4>5 DEF ViewInv
    <3>3. CASE PublishOnline(s)
      <4>1. sock'[s].pc = "open" /\ view' = "online"
        BY Zenon, <1>0, <3>3 DEF PublishOnline, TypeOK, Opened
      <4>2. s \in Open' /\ ~At(s, "expire")' /\ ~At(s, "decr")' /\ ~At(s, "online")'
        BY Zenon, <4>1 DEF Open, At
      <4> QED
        BY Zenon, <3>b, <4>1, <4>2 DEF ViewInv
    <3>4. CASE Decr(s)
      <4>1. /\ sock[s].pc = "decr" /\ view' = view
            /\ sock'[s].pc = IF Count - 1 <= 0 THEN "del" ELSE "closed"
        BY <1>0, <3>4 DEF Decr, TypeOK, At, Goto, Closed
      <4>2. view = "online"
        BY Zenon, <1>0, <3>0, <4>1 DEF ViewInv, At
      <4>3. sock'[s].pc # "del" => Open' # {}
        <5>1. sock'[s].pc # "del" => Cardinality(Counted') # 0
          BY <1>0, <1>e, <2>m, <3>0, <4>1, OneMoves DEF CountedPc
        <5>2. sock'[s].pc # "del" => Counted' = Open'
          BY Zenon, <3>a, <4>1 DEF Counted, CountedPc, Open, At
        <5> QED
          BY Zenon, <2>m, <5>1, <5>2, OneMoves
      <4>4. ~At(s, "expire")' /\ ~At(s, "decr")' /\ ~At(s, "online")'
        BY Zenon, <4>1 DEF At
      <4> QED
        BY Zenon, <3>b, <4>1, <4>2, <4>3, <4>4 DEF ViewInv
    <3>5. CASE Del(s) \/ Sink(s)
      <4>1. sock'[s].pc \in {"sink", "offline"}
        BY Zenon, <1>0, <3>5 DEF Del, Sink, TypeOK, Goto
      <4>2. ~At(s, "expire")' /\ ~At(s, "decr")' /\ ~At(s, "online")'
        BY Zenon, <4>1 DEF At
      <4> QED
        BY Zenon, <3>b, <4>1, <4>2 DEF ViewInv
    <3>6. CASE PublishOffline(s)
      <4>1. Parting(s) /\ sock'[s].pc = "closed" /\ view' = "offline"
        BY Zenon, <1>0, <3>6 DEF PublishOffline, TypeOK, At, Closed, Parting
      <4>2. Open = {}
        BY Zenon, <1>0, <3>0, <4>1 DEF CalmInv
      <4>3. Open' = {}
        BY Zenon, <2>m, <4>1, <4>2 DEF Open, At
      <4>4. ~At(s, "expire")' /\ ~At(s, "decr")' /\ ~At(s, "online")'
        BY Zenon, <4>1 DEF At
      <4> QED
        BY Zenon, <3>b, <4>1, <4>3, <4>4 DEF ViewInv
    <3> QED
      BY Zenon, <2>4, <3>1, <3>2, <3>3, <3>4, <3>5, <3>6 DEF Command
  <2> QED
    BY Zenon, <1>1, <2>1, <2>2, <2>3, <2>4 DEF Command
<1>2. CASE Tick
  <2>1. Clean /\ view' = view
    BY <1>0, <1>2, <1>c DEF Tick, TypeOK
  <2>2. \A t \in Socket : sock'[t].pc = sock[t].pc /\ sock'[t].n = sock[t].n
    BY Zenon, <1>0, <1>2 DEF Tick, TypeOK, Open
  <2>3. Open' = Open
    BY Zenon, <2>2 DEF Open, At
  <2> QED
    BY Zenon, <1>0, <2>1, <2>2, <2>3 DEF ViewInv, At
<1>3. CASE UNCHANGED vars
  BY Zenon, <1>0, <1>3 DEF vars, ViewInv, Clean, Open, At
<1> QED
  BY Zenon, <1>1, <1>2, <1>3 DEF Next

\* The invariant holds in every reachable state.
THEOREM Inductive == Spec => []Inv
<1>1. Init => Inv
  <2> SUFFICES ASSUME Init PROVE Inv
    BY Zenon
  <2>1. TypeOK
    BY InitTypes
  <2>2. \A s \in Socket : sock[s].pc = "closed"
    BY Zenon DEF Init, Closed
  <2>3. Counted = {} /\ Open = {} /\ Cardinality(Counted) = 0
    BY Zenon, <2>2, Size DEF Counted, CountedPc, Open, At
  <2>4. Count = 0 /\ faults = 0 /\ ttl = None /\ view = "offline"
    BY Zenon DEF Init, Count
  <2> QED
    BY <2>1, <2>2, <2>3, <2>4 DEF Inv, KeyInv, UpperInv, CalmInv, ViewInv, AtRest, Parting, At
<1>2. Inv /\ TypeOK' /\ [Next]_vars => Inv'
  BY Zenon, UpperStep, KeyStep, CalmStep, ViewStep DEF Inv
<1> QED
  BY <1>1, <1>2, TypeCorrect, PTL DEF Spec

\* The counter of addClient and removeClient counts no more sockets than there
\* are, but for one per fault; while connects and disconnects do not meet, a
\* user with an open socket has a key, and without deaths the last event a
\* subscriber received is right.
THEOREM PresenceIsTrue == Spec => []PresenceTrue
<1>1. Inv => PresenceTrue
  <2> SUFFICES ASSUME Inv PROVE PresenceTrue
    BY Zenon
  <2> DEFINE All == {s \in Socket : sock[s].pc \notin {"closed", "incr"}}
  <2>0. Count \in Int /\ faults \in Nat /\ Cardinality(Counted) \in Nat /\ Cardinality(All) \in Nat
    BY PresenceAssumption, Size DEF Inv, TypeOK, Count, Counted
  <2>1. Cardinality(Counted) <= Cardinality(All)
    <3>1. Counted \subseteq All /\ IsFiniteSet(All)
      BY Zenon, Size DEF Counted, CountedPc
    <3> QED
      BY Zenon, <3>1, FS_Subset
  <2>2. Count <= Cardinality(All) + faults
    BY <2>0, <2>1 DEF Inv, UpperInv
  <2>3. ASSUME Calm, Open # {} PROVE key # None
    <3>1. Counted # {}
      BY Zenon, <2>3 DEF Open, Counted, CountedPc, At
    <3>2. Cardinality(Counted) # 0 /\ Cardinality(Counted) <= Count
      BY Zenon, <2>3, <3>1, Size DEF Inv, CalmInv, Counted
    <3> QED
      BY <2>0, <3>2 DEF Count
  <2>4. ASSUME Settled, Clean PROVE (view = "online") = (Open # {})
    BY Zenon, <2>4 DEF Inv, ViewInv, Settled
  <2> QED
    BY Zenon, <2>2, <2>3, <2>4 DEF PresenceTrue, Calm, Clean
<1> QED
  BY <1>1, Inductive, PTL

-----------------------------------------------------------------------------
(* The lifetime of the key *)

\* A key without a lifetime has an EXPIRE or a DEL to come, unless one failed or
\* was not reached.
Lasting == key # None /\ ttl = None /\ ~bare => \E s \in Socket : sock[s].pc \in {"expire", "del"}

\* What StaleReaped rests on: markPresence gives every key a lifetime or deletes
\* it, whatever sockets meet, die and fail, unless EXPIRE or DEL failed or was not
\* reached and no ping tick has made up for it.  Once no socket is there, such a
\* key is one that time takes.
THEOREM KeysLast == Spec => []Lasting
<1>1. Init => Lasting
  BY Zenon DEF Init, Lasting
<1>2. TypeOK /\ Lasting /\ [Next]_vars => Lasting'
  <2> SUFFICES ASSUME TypeOK, Lasting, [Next]_vars, key' # None, ttl' = None, ~bare'
               PROVE  \E s \in Socket : sock'[s].pc \in {"expire", "del"}
    BY Zenon DEF Lasting
  <2>1. ASSUME NEW s \in Socket,
               Command(s) \/ Connect(s) \/ Disconnect(s) \/ Die(s) \/ Refused(s)
        PROVE  \E t \in Socket : sock'[t].pc \in {"expire", "del"}
    <3>m. \A t \in Socket \ {s} : sock'[t] = sock[t]
      BY Zenon, <2>1, Socketwise
    <3>1. CASE Incr(s)
      <4>1. sock'[s].pc = "expire"
        BY <3>1 DEF Incr, TypeOK
      <4> QED BY Zenon, <4>1
    <3>2. CASE Decr(s)
      <4>1. CASE Count - 1 <= 0
        <5>1. sock'[s].pc = "del"
          BY <3>2, <4>1 DEF Decr, Goto, TypeOK
        <5> QED BY Zenon, <5>1
      <4>2. CASE ~(Count - 1 <= 0)
        <5>1. key # None /\ ttl = None /\ ~bare /\ sock[s].pc = "decr"
          BY <3>2, <4>2 DEF Decr, Count, At
        <5> QED BY Zenon, <3>m, <5>1 DEF Lasting
      <4> QED BY Zenon, <4>1, <4>2
    <3>3. CASE Expire(s) \/ touchPresence(s) \/ Del(s)
      <4>1. FALSE
        BY <3>3, PresenceAssumption DEF Expire, touchPresence, Del, Touched
      <4> QED BY Zenon, <4>1
    <3>4. CASE PublishOnline(s) \/ Sink(s) \/ PublishOffline(s) \/ Connect(s) \/ Disconnect(s)
      <4>1. key # None /\ ttl = None /\ ~bare /\ sock[s].pc \notin {"expire", "del"}
        BY <3>4 DEF PublishOnline, Sink, PublishOffline, Connect, Disconnect, At
      <4> QED BY Zenon, <3>m, <4>1 DEF Lasting
    <3>5. CASE Die(s) \/ Refused(s)
      <4>1. key # None /\ ttl = None /\ ~bare /\ sock[s].pc \notin {"expire", "del"}
        BY Zenon, <3>5 DEF Die, Refused, LeavesBare
      <4> QED BY Zenon, <3>m, <4>1 DEF Lasting
    <3> QED BY Zenon, <2>1, <3>1, <3>2, <3>3, <3>4, <3>5 DEF Command
  <2>2. CASE Tick
    <3>1. key # None /\ ttl = None /\ ~bare
      BY <2>2, PresenceAssumption DEF Tick, TypeOK
    <3>2. Settled
      BY Zenon, <2>2 DEF Tick
    <3> QED BY Zenon, <3>1, <3>2 DEF Lasting, Settled
  <2>3. CASE UNCHANGED vars
    BY Zenon, <2>3 DEF vars, Lasting
  <2> QED
    BY Zenon, <2>1, <2>2, <2>3 DEF Next
<1> QED
  BY <1>1, <1>2, TypeCorrect, PTL DEF Spec

\* While connects and disconnects do not meet, removeClient tells the sink that
\* the user went offline only when no socket of theirs is open.
THEOREM SinksOnLast == Spec => SinkOnLast
<1>1. Inv /\ [Next]_vars =>
        [\A s \in Socket : (At(s, "sink") /\ At(s, "offline")' /\ past \subseteq {"torn"}) => Open = {}]_vars
  BY Zenon DEF Inv, CalmInv, Calm, Parting, At
<1> QED
  BY <1>1, Inductive, PTL DEF Spec, SinkOnLast
=============================================================================
